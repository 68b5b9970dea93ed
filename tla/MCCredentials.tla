--------------------------- MODULE MCCredentials ---------------------------
(* Model checking the clients for credentials: values are in the .cfg file. *)
EXTENDS Credentials
=============================================================================
