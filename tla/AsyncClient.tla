---------------------------- MODULE AsyncClient ----------------------------
(***************************************************************************)
(* What ProtocolClient::async_request() promises its caller                *)
(* (include/cppload/net/protocol.hpp): the handler of every request runs,  *)
(* and runs once.  The workers of ScenarioEngine wait for nothing else.    *)
(***************************************************************************)
EXTENDS Naturals

CONSTANT Ids  \* the requests a caller issues

VARIABLES
  pending,  \* issued, and the handler has not run
  calls     \* how often the handler of each request ran

vars == <<pending, calls>>

Init == pending = {} /\ calls = [r \in Ids |-> 0]

(* The caller issues one request at a time. *)
Issue(r) ==
  /\ pending = {} /\ calls[r] = 0
  /\ pending' = {r}
  /\ UNCHANGED calls

Complete(r) ==
  /\ r \in pending
  /\ pending' = pending \ {r}
  /\ calls' = [calls EXCEPT ![r] = @ + 1]

(* async_request() ran the handler before it returned. *)
Reject(r) ==
  /\ pending = {} /\ calls[r] = 0
  /\ calls' = [calls EXCEPT ![r] = 1]
  /\ UNCHANGED pending

Next == \E r \in Ids : Issue(r) \/ Complete(r) \/ Reject(r)

Spec == Init /\ [][Next]_vars /\ \A r \in Ids : WF_vars(Complete(r))
=============================================================================
