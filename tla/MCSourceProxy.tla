--------------------------- MODULE MCSourceProxy ---------------------------
(* SourceProxy with small bounds for TLC. *)
EXTENDS SourceProxy
============================================================================
