--------------------------- MODULE MCOtlpExporter ---------------------------
(* OtlpExporter for model checking. *)
EXTENDS OtlpExporter
=============================================================================
