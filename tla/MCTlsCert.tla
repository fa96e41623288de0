----------------------------- MODULE MCTlsCert -----------------------------
(* Instances of TlsCert for TLC.                                           *)
EXTENDS TlsCert

\* As on Linux, where certificates may be generated in directories that are
\* not searched, and the other way round.
CONSTANTS d1, d2, d3
MCCertDirs == <<d1, d2, d3>>
MCSearchPaths == <<d1, d3>>

\* States that differ in none of this have the same properties and successors:
\* readCrt is read by the next step only, and both histories speak of a loading
\* that nothing has disturbed.
Relevant == <<files, store, generator, config, lpc, at, loaded,
              disturbed /\ lpc # "idle",
              IF disturbed THEN {} ELSE denied,
              IF lpc \in {"key", "acquire"} THEN readCrt ELSE 0>>
=============================================================================
