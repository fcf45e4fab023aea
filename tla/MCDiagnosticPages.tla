--------------------------- MODULE MCDiagnosticPages ---------------------------
(* DiagnosticPages for TLC. *)
EXTENDS DiagnosticPages

CONSTANTS w1, w2   \* model values
================================================================================
