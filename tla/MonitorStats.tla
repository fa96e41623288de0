---------------------------- MODULE MonitorStats ----------------------------
(***************************************************************************)
(* internal/monitor/cli.go: the command-line statistics.  RunCLI reads the *)
(* records of the last hours, prints a summary of each type, the errors    *)
(* and a breakdown by the hour.  The summaries and the breakdown sort with *)
(* the insertion sort of the file, one turn of its outer loop a step.      *)
(*                                                                         *)
(* A time is a number of ticks, an hour HourTicks of them, a duration a    *)
(* whole number, and an error is there or is not.                          *)
(***************************************************************************)
EXTENDS Naturals, Sequences, FiniteSets, SequencesExt

CONSTANTS Databases,  \* the contents of the files, a record after the other
          Now,        \* the time when the command is run
          Periods,    \* the lengths of time that may be asked for
          HourTicks,  \* ticks of an hour
          MaxShown    \* errors that are printed: 20

Types  == {"metric", "data"}
Record == [ts : Nat, type : Types, ms : Nat, err : BOOLEAN]

ASSUME ConstantsAssumption ==
    /\ Databases \subseteq Seq(Record)
    /\ HourTicks \in Nat \ {0}
    /\ Periods \subseteq 1 .. 24 * HourTicks
    /\ Now \in Nat /\ Now >= 24 * HourTicks
    /\ MaxShown \in Nat \ {0}

VARIABLES
    db,       \* the records in the files
    period,   \* dur
    unread,   \* the indices of db that ReadRecords has still to return
    records,  \* what it returns, in the order of time
    recs,     \* recs[t]: metricRecs, dataRecs
    errors,   \* errors[t]: metricErrors, dataErrors
    pc,       \* where RunCLI is
    a,        \* the slice that is being sorted
    i,        \* the index of the sort's outer loop
    stats,    \* what printStats has printed of each type
    shown,    \* the errors that are printed
    more,     \* "... %d more errors"
    n,        \* the index of printHourlyBreakdown's loop
    buckets   \* its buckets, by the hour

input == <<db, period, unread, records, recs, errors>>
report == <<stats, shown, more>>
vars == <<input, pc, a, i, report, n, buckets>>

NoStats == [count |-> 0, sum |-> 0, min |-> 0, max |-> 0, p95 |-> 0, errors |-> 0]

Since == Now - period

\* readFile keeps what is not older than since; what is younger than now, of
\* the service that goes on writing, is kept as well.
Kept == {k \in DOMAIN db : db[k].ts >= Since}

Init ==
    /\ db \in Databases
    /\ period \in Periods
    /\ unread = Kept
    /\ records = <<>> /\ pc = "read"
    /\ recs = [t \in Types |-> <<>>] /\ errors = [t \in Types |-> <<>>]
    /\ a = <<>> /\ i = 2
    /\ stats = [t \in Types |-> NoStats]
    /\ shown = <<>> /\ more = 0
    /\ n = 1 /\ buckets = <<>>

allErrors == errors["metric"] \o errors["data"]

-----------------------------------------------------------------------------
(* ReadRecords, and the separation of its result by RunCLI.                *)

\* sort.Slice puts the records in the order of time, and those of one second
\* in any order.
Oldest == {k \in unread : \A j \in unread : db[k].ts <= db[j].ts}

ReadRecord ==
    /\ pc = "read"
    /\ \E k \in Oldest :
           /\ records' = Append(records, db[k])
           /\ unread' = unread \ {k}
           /\ recs' = [recs EXCEPT ![db[k].type] = Append(@, db[k])]
           /\ errors' = [errors EXCEPT ![db[k].type] =
                             IF db[k].err THEN Append(@, db[k]) ELSE @]
    /\ UNCHANGED <<db, period, pc, a, i, report, n, buckets>>

\* printStats is called when there is a record of the type; with no records
\* at all RunCLI ends.
Summarise(t, next) ==
    /\ a' = [k \in DOMAIN recs[t] |-> recs[t][k].ms]
    /\ i' = 2
    /\ pc' = IF recs[t] = <<>> THEN next ELSE t

RecordsRead ==
    /\ pc = "read"
    /\ unread = {}
    /\ \/ records = <<>> /\ pc' = "done" /\ UNCHANGED <<a, i>>
       \/ records # <<>> /\ Summarise("metric", "metricDone")
    /\ UNCHANGED <<input, report, n, buckets>>

MetricDone ==
    /\ pc = "metricDone"
    /\ Summarise("data", "dataDone")
    /\ UNCHANGED <<input, report, n, buckets>>

-----------------------------------------------------------------------------
(* sortFloat64s and sortStrings.                                           *)

\* Mutant: the inner loop ends before the first element.
InsertBehindFirst(s, k) ==
    LET j == CHOOSE j \in 1 .. k - 1 :
                 /\ j = 1 \/ s[j] <= s[k]
                 /\ \A m \in j + 1 .. k - 1 : s[m] > s[k]
    IN [m \in DOMAIN s |-> IF m = j + 1 THEN s[k]
                           ELSE IF m \in j + 2 .. k THEN s[m - 1] ELSE s[m]]

\* The element at k goes behind the last one before it that is not above it.
Insert(s, k) ==
    LET j == CHOOSE j \in 0 .. k - 1 :
                 /\ j = 0 \/ s[j] <= s[k]
                 /\ \A m \in j + 1 .. k - 1 : s[m] > s[k]
    IN [m \in DOMAIN s |-> IF m = j + 1 THEN s[k]
                           ELSE IF m \in j + 2 .. k THEN s[m - 1] ELSE s[m]]

\* Mutant: two elements a turn.
SortTurnSkips ==
    /\ pc \in Types \cup {"hours"}
    /\ i <= Len(a)
    /\ a' = Insert(a, i)
    /\ i' = i + 2
    /\ UNCHANGED <<input, pc, report, n, buckets>>

SortTurn ==
    /\ pc \in Types \cup {"hours"}
    /\ i <= Len(a)
    /\ a' = Insert(a, i)
    /\ i' = i + 1
    /\ UNCHANGED <<input, pc, report, n, buckets>>

-----------------------------------------------------------------------------
(* printStats.                                                             *)

Sum(s) ==
    LET total[k \in 0 .. Len(s)] == IF k = 0 THEN 0 ELSE total[k - 1] + s[k]
    IN  total[Len(s)]

\* int(float64(len(durations)) * 0.95), which is exact, and its clamp.
p95Idx(len) == LET idx == (len * 95) \div 100
               IN IF idx >= len THEN len - 1 ELSE idx

Smallest(S) == CHOOSE x \in S : \A y \in S : x <= y
Largest(S)  == CHOOSE x \in S : \A y \in S : x >= y

PrintStats ==
    /\ pc \in Types
    /\ i > Len(a)
    /\ LET ms == [k \in DOMAIN recs[pc] |-> recs[pc][k].ms]
       IN stats' = [stats EXCEPT ![pc] =
                       [count  |-> Len(ms),
                        sum    |-> Sum(ms),
                        min    |-> Smallest(Range(ms)),
                        max    |-> Largest(Range(ms) \cup {0}),
                        p95    |-> a[p95Idx(Len(a)) + 1],
                        errors |-> Len(errors[pc])]]
    /\ pc' = IF pc = "metric" THEN "metricDone" ELSE "dataDone"
    /\ UNCHANGED <<input, a, i, shown, more, n, buckets>>

-----------------------------------------------------------------------------
(* The errors, and printHourlyBreakdown.                                   *)

\* Mutant: the first errors are printed.
ShowFirstErrors ==
    /\ pc = "dataDone"
    /\ LET start == IF Len(allErrors) > MaxShown THEN Len(allErrors) - MaxShown ELSE 0
       IN /\ shown' = SubSeq(allErrors, 1, Len(allErrors) - start)
          /\ more' = start
    /\ pc' = IF period > HourTicks THEN "buckets" ELSE "done"
    /\ a' = <<>>
    /\ i' = 2
    /\ UNCHANGED <<input, stats, n, buckets>>

\* The last errors are printed.  More than an hour is broken down.
ShowErrors ==
    /\ pc = "dataDone"
    /\ LET start == IF Len(allErrors) > MaxShown THEN Len(allErrors) - MaxShown ELSE 0
       IN /\ shown' = SubSeq(allErrors, start + 1, Len(allErrors))
          /\ more' = start
    /\ pc' = IF period > HourTicks THEN "buckets" ELSE "done"
    /\ a' = <<>>
    /\ i' = 2
    /\ UNCHANGED <<input, stats, n, buckets>>

\* Mutant: a key without the date.
HourOfDay(r) == (r.ts \div HourTicks) % 24

Hour(r) == r.ts \div HourTicks

NoBucket == [metricCount |-> 0, metricSumMs |-> 0, dataCount |-> 0, dataSumMs |-> 0,
             errors |-> 0]

Counted(b, r) ==
    IF r.type = "metric"
    THEN [b EXCEPT !.metricCount = @ + 1, !.metricSumMs = @ + r.ms,
                   !.errors = IF r.err THEN @ + 1 ELSE @]
    ELSE [b EXCEPT !.dataCount = @ + 1, !.dataSumMs = @ + r.ms,
                   !.errors = IF r.err THEN @ + 1 ELSE @]

\* A new hour gets a bucket and a key; a is bucketKeys.
AddToBucket ==
    /\ pc = "buckets"
    /\ n <= Len(records)
    /\ LET r == records[n]  key == Hour(r) IN
       IF key \in DOMAIN buckets
       THEN /\ buckets' = [buckets EXCEPT ![key] = Counted(@, r)]
            /\ UNCHANGED a
       ELSE /\ buckets' = [h \in DOMAIN buckets \cup {key} |->
                               IF h = key THEN Counted(NoBucket, r) ELSE buckets[h]]
            /\ a' = Append(a, key)
    /\ n' = n + 1
    /\ UNCHANGED <<input, pc, i, report>>

SortHours ==
    /\ pc = "buckets"
    /\ n > Len(records)
    /\ pc' = "hours"
    /\ UNCHANGED <<input, a, i, report, n, buckets>>

\* The rows are printed: the buckets in the order of a.
PrintRows ==
    /\ pc = "hours"
    /\ i > Len(a)
    /\ pc' = "done"
    /\ UNCHANGED <<input, a, i, report, n, buckets>>

-----------------------------------------------------------------------------
Next == \/ ReadRecord \/ RecordsRead \/ MetricDone \/ SortTurn \/ PrintStats
        \/ ShowErrors \/ AddToBucket \/ SortHours \/ PrintRows

Spec == Init /\ [][Next]_vars

-----------------------------------------------------------------------------
(* Properties.                                                             *)

\* Every variable keeps its type.
TypeOK ==
    /\ db \in Seq(Record) /\ records \in Seq(Record)
    /\ period \in Periods
    /\ unread \subseteq DOMAIN db
    /\ recs \in [Types -> Seq(Record)] /\ errors \in [Types -> Seq(Record)]
    /\ pc \in {"read", "metric", "metricDone", "data", "dataDone", "buckets", "hours", "done"}
    /\ a \in Seq(Nat)
    /\ i \in Nat /\ i >= 2 /\ (i = 2 \/ i <= Len(a) + 1)
    /\ DOMAIN stats = Types
    /\ \A t \in Types : {stats[t].count, stats[t].p95, stats[t].errors} \subseteq Nat
    /\ shown \in Seq(Record) /\ more \in Nat
    /\ n \in Nat /\ n >= 1 /\ n <= Len(records) + 1
    /\ DOMAIN buckets \subseteq Nat
    /\ \A h \in DOMAIN buckets : buckets[h] \in [metricCount : Nat, metricSumMs : Nat,
                                                 dataCount : Nat, dataSumMs : Nat, errors : Nat]

Count(s, Test(_)) == Cardinality({k \in DOMAIN s : Test(s[k])})

\* What is printed as P95 deserves its name, whatever the number of records:
\* fewer than one in twenty took longer, and no more than nineteen in twenty
\* were faster.
PercentileRight ==
    \A t \in Types : stats[t].count # 0 =>
        LET p == stats[t].p95 IN
        /\ 20 * Count(recs[t], LAMBDA r : r.ms > p) < Len(recs[t])
        /\ 20 * Count(recs[t], LAMBDA r : r.ms < p) <= 19 * Len(recs[t])

\* The errors that are printed and those that are only counted add up, and of
\* each type the last ones are printed: none is hidden behind an older one.
ErrorsAccounted ==
    pc \in {"buckets", "hours", "done"} =>
        /\ Len(shown) <= MaxShown
        /\ more + Len(shown) = Count(records, LAMBDA r : r.err)
        /\ \A k \in DOMAIN shown :
               LET newer(r) == r.err /\ r.type = shown[k].type /\ r.ts > shown[k].ts
               IN Count(shown, newer) = Count(records, newer)

\* The breakdown has a row for every hour of a record of the period, in order
\* and no other, each row adds up the records of its own hour that are in the
\* files, and together they add up to the summaries: nothing is lost, counted
\* twice, or put into another hour or the other type.
BreakdownAddsUp ==
    pc = "done" /\ a # <<>> =>
        LET InHour(h) == {k \in Kept : h * HourTicks <= db[k].ts /\ db[k].ts < (h + 1) * HourTicks}
            Total(h, f(_)) == Sum([k \in DOMAIN db |-> IF k \in InHour(h) THEN f(db[k]) ELSE 0])
            Column(f(_)) == Sum([k \in DOMAIN a |-> f(buckets[a[k]])])
        IN
        /\ \A j, k \in DOMAIN a : j < k => a[j] < a[k]
        /\ \A k \in Kept : \E j \in DOMAIN a : k \in InHour(a[j])
        /\ \A j \in DOMAIN a : LET h == a[j]  b == buckets[h] IN
               /\ InHour(h) # {}
               /\ b.metricCount = Total(h, LAMBDA r : IF r.type = "metric" THEN 1 ELSE 0)
               /\ b.metricSumMs = Total(h, LAMBDA r : IF r.type = "metric" THEN r.ms ELSE 0)
               /\ b.dataCount = Total(h, LAMBDA r : IF r.type = "data" THEN 1 ELSE 0)
               /\ b.dataSumMs = Total(h, LAMBDA r : IF r.type = "data" THEN r.ms ELSE 0)
               /\ b.errors = Total(h, LAMBDA r : IF r.err THEN 1 ELSE 0)
        /\ Column(LAMBDA b : b.metricCount) = stats["metric"].count
        /\ Column(LAMBDA b : b.metricSumMs) = stats["metric"].sum
        /\ Column(LAMBDA b : b.dataCount) = stats["data"].count
        /\ Column(LAMBDA b : b.dataSumMs) = stats["data"].sum
        /\ Column(LAMBDA b : b.errors) = more + Len(shown)
=============================================================================
