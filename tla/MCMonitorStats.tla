--------------------------- MODULE MCMonitorStats ---------------------------
(* Instances of MonitorStats for TLC: an hour is two ticks.                *)
EXTENDS MonitorStats

R(ts, type, ms, err) == [ts |-> ts, type |-> type, ms |-> ms, err |-> err]

\* Up to three records of any kind: before the shortest periods, in them, and
\* made after the command was run.
Few == UNION {[1 .. m -> {R(ts, type, ms, err) : ts \in {45, 46, 49}, type \in Types,
                                                 ms \in 1 .. 2, err \in BOOLEAN}]
                 : m \in 0 .. 3}

\* Enough for the percentile, the durations in every rotation of their order.
Many == UNION {{[k \in 1 .. m |-> R(4 + k, "metric", (k + t) % m, FALSE)] : t \in 1 .. m}
                 : m \in {4, 19, 20, 21, 40}}

\* More errors than are shown, of both types and in the same seconds.
Failing == {[k \in 1 .. 4 |-> R(s[k], IF k \in d THEN "data" ELSE "metric", 5 - k, TRUE)]
               : s \in [1 .. 4 -> 46 .. 48], d \in SUBSET (1 .. 4)}

MCDatabases == Few \cup Many \cup Failing
=============================================================================
