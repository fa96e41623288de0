--------------------------- MODULE MCLocalWriter ---------------------------
(* Instances of LocalWriter for TLC.                                       *)
EXTENDS LocalWriter
=============================================================================
