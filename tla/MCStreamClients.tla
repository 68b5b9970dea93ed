-------------------------- MODULE MCStreamClients --------------------------
(* Model checking the stream clients: the values are in the .cfg file. *)
EXTENDS StreamClients
=============================================================================
