--------------------------- MODULE MCHttp11Client ---------------------------
(* Model checking Http11Client: the values are in the .cfg files. *)
EXTENDS Http11Client
=============================================================================
