-------------------------- MODULE MCMonitorReader --------------------------
(* Instances of MonitorReader for TLC.                                     *)
EXTENDS MonitorReader, TLC

\* What the later steps and the properties of a run without NothingMissed can
\* tell apart: target is history for NothingMissed alone, and what a reader
\* that never returns has read is not used any more.
Relevant == <<vars, reader, twice, IF reader = "spinning" THEN {} ELSE listed,
              IF reader = "spinning" THEN {} ELSE found>>

Symmetry == Permutations(Writers)
=============================================================================
