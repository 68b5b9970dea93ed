---------------------------- MODULE MCTokenBucket ----------------------------
(* Model checking TokenBucket: the values are in the .cfg files. *)
EXTENDS TokenBucket
=============================================================================
