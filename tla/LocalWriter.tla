---------------------------- MODULE LocalWriter ----------------------------
(***************************************************************************)
(* internal/localwriter: the goroutine that appends a snapshot of all      *)
(* metrics to a JSONL file at every tick, rotates the file when it is old  *)
(* enough and keeps the newest rotated files; and Stop, which waits for    *)
(* the goroutine's last snapshot.                                          *)
(*                                                                         *)
(* A snapshot is its number (numbers saturate at MaxSnaps, which stands    *)
(* for every later one); a file is the set of the snapshots in it that are *)
(* whole, every metric on a line of its own, and synced.  What is appended *)
(* to a file that ends in the middle of a line continues that line.        *)
(* Rotated files are named by the second of their rotation, so that their  *)
(* order by name is the order of the rotations as long as the wall clock   *)
(* does not go back.                                                       *)
(***************************************************************************)
EXTENDS Integers, Sequences, FiniteSets

CONSTANTS Rotate,     \* w.rotate in units of time; 0 disables the rotation
          MaxFiles,   \* cfg.MaxFiles, after New has replaced values <= 0
          MaxSnaps,   \* snapshots are told apart up to this one
          MaxRotated, \* bound: rotated files on disk
          Faulty,     \* TRUE when file operations and encoding may fail
          MayCrash    \* TRUE when the process may be killed

ASSUME ConstantsAssumption ==
    /\ Rotate \in Nat
    /\ MaxFiles \in Nat \ {0}
    /\ MaxSnaps \in Nat \ {0}
    /\ MaxRotated \in Nat
    /\ Faulty \in BOOLEAN
    /\ MayCrash \in BOOLEAN

Snaps == 1 .. MaxSnaps
File  == [snaps : SUBSET Snaps, upto : 0 .. MaxSnaps]

VARIABLES
    \* the disk
    exists,   \* there is a file at cfg.DBPath
    current,  \* the whole, synced snapshots in it
    cut,      \* it ends in the middle of a line
    rotated,  \* the rotated files, by name
    \* the goroutine
    pc,       \* where loop is
    final,    \* stopCh was selected: this is the last snapshot
    file,     \* backend.file/enc: "nil", "ok", or "broken" by a write error
    age,      \* time.Since(w.dbStart), up to Rotate
    excess,   \* cleanOldFiles: files still to remove
    kept,     \* cleanOldFiles: files that could not be removed
    \* Stop
    stopper,  \* "running", "waiting" or "returned"
    \* history
    taken,    \* the number of the last snapshot
    synced,   \* whole snapshots for which backend.Write returned nil
    stopAt,   \* taken when Stop was called
    fault     \* an operation has failed

diskVars  == <<exists, current, cut, rotated>>
loopVars  == <<pc, final, file, age, excess, kept>>
snapVars  == <<taken, synced>>
vars == <<diskVars, loopVars, stopper, snapVars, stopAt, fault>>

Init ==
    /\ exists = FALSE
    /\ current = {}
    /\ cut = FALSE
    /\ rotated = <<>>
    /\ pc = "down"
    /\ final = FALSE
    /\ file = "nil"
    /\ age = 0
    /\ excess = 0
    /\ kept = 0
    /\ stopper = "running"
    /\ taken = 0
    /\ synced = {}
    /\ stopAt = 0
    /\ fault = FALSE

Goto(label) == pc' = label

-----------------------------------------------------------------------------
(* New and Start; Stop; the death of the process.                          *)

\* The file of an earlier process is appended to, and its age starts anew.
New ==
    /\ pc = "down"
    /\ exists' = TRUE
    /\ file' = "ok"
    /\ age' = 0
    /\ Goto("collect")
    /\ UNCHANGED <<current, cut, rotated, final, excess, kept, stopper, snapVars,
                   stopAt, fault>>

\* close(w.stopCh)
Stop ==
    /\ pc # "down"
    /\ stopper = "running"
    /\ stopper' = "waiting"
    /\ stopAt' = taken
    /\ UNCHANGED <<diskVars, loopVars, snapVars, fault>>

\* w.wg.Wait() returns; w.backend.Close()
StopReturns ==
    /\ stopper = "waiting"
    /\ pc = "done"
    /\ stopper' = "returned"
    /\ file' = "nil"
    /\ UNCHANGED <<diskVars, pc, final, age, excess, kept, snapVars, stopAt, fault>>

\* The snapshot being written, when its first line is one of its own.
Whole == IF cut THEN {} ELSE {taken}

\* A write that does not come to its end leaves the file as it was, or lines
\* of a snapshot that will not be synced: the last one is cut only when it is
\* the writing itself that stops.
WriteStops(mayCut) == cut' \in {cut, FALSE} \cup (IF mayCut THEN {TRUE} ELSE {})

\* The process is killed, perhaps in the middle of a write, or exits after Stop.
Exit ==
    /\ pc # "down"
    /\ MayCrash
    /\ IF pc = "write" /\ file = "ok" THEN WriteStops(TRUE) ELSE UNCHANGED cut
    /\ Goto("down")
    /\ final' = FALSE
    /\ file' = "nil"
    /\ age' = 0
    /\ excess' = 0
    /\ kept' = 0
    /\ stopper' = "running"
    /\ stopAt' = 0
    /\ UNCHANGED <<exists, current, rotated, snapVars, fault>>

TimePasses ==
    /\ pc # "down"
    /\ age < Rotate
    /\ age' = age + 1
    /\ UNCHANGED <<diskVars, pc, final, file, excess, kept, stopper, snapVars,
                   stopAt, fault>>

-----------------------------------------------------------------------------
(* loop.                                                                   *)

\* case <-ticker.C: rotate first when the file is old enough.
SelectTick ==
    /\ pc = "select"
    /\ Goto(IF Rotate > 0 /\ age >= Rotate THEN "close" ELSE "collect")
    /\ UNCHANGED <<diskVars, final, file, age, excess, kept, stopper, snapVars,
                   stopAt, fault>>

\* Mutant: the goroutine returns without a last snapshot.
SelectStopNoSnapshot ==
    /\ pc = "select"
    /\ stopper = "waiting"
    /\ final' = TRUE
    /\ Goto("done")
    /\ UNCHANGED <<diskVars, file, age, excess, kept, stopper, snapVars, stopAt, fault>>

\* case <-w.stopCh: one more snapshot.
SelectStop ==
    /\ pc = "select"
    /\ stopper = "waiting"
    /\ final' = TRUE
    /\ Goto("collect")
    /\ UNCHANGED <<diskVars, file, age, excess, kept, stopper, snapVars, stopAt, fault>>

\* Mutant: the goroutine goes on after its last snapshot.
AfterSnapshotLoop == Goto("select")

AfterSnapshot == Goto(IF final THEN "done" ELSE "select")

\* w.registry.CollectRaw() returns metrics, or none at all.
CollectRaw ==
    /\ pc = "collect"
    /\ taken' = IF taken < MaxSnaps THEN taken + 1 ELSE taken
    /\ Goto("write")
    /\ UNCHANGED <<diskVars, final, file, age, excess, kept, stopper, synced, stopAt,
                   fault>>

CollectNothing ==
    /\ pc = "collect"
    /\ Faulty
    /\ fault' = TRUE
    /\ AfterSnapshot
    /\ UNCHANGED <<diskVars, final, file, age, excess, kept, stopper, snapVars, stopAt>>

\* backend.Write: every metric is encoded and the file is synced.
Write ==
    /\ pc = "write"
    /\ file = "ok"
    /\ current' = current \cup Whole
    /\ synced' = synced \cup Whole
    /\ cut' = FALSE
    /\ AfterSnapshot
    /\ UNCHANGED <<exists, rotated, final, file, age, excess, kept, stopper, taken,
                   stopAt, fault>>

\* backend.Write gives up: the file is not open; a write error, which the
\* encoder returns from then on; or a value JSON cannot express (a plugin's
\* NaN) or a failing Sync, which leave the encoder usable.
WriteFails(broken) ==
    /\ pc = "write"
    /\ file = "ok" => Faulty
    /\ IF file = "ok" THEN WriteStops(broken) ELSE UNCHANGED cut
    /\ file' = IF file = "ok" /\ broken THEN "broken" ELSE file
    /\ fault' = (fault \/ file = "ok")
    /\ AfterSnapshot
    /\ UNCHANGED <<exists, current, rotated, final, age, excess, kept, stopper, taken,
                   synced, stopAt>>

-----------------------------------------------------------------------------
(* rotateFile and cleanOldFiles.                                           *)

\* Mutant: one rotated file more than MaxFiles is kept.
RenameKeepsOneMore(ok) ==
    /\ pc = "close"
    /\ ok /\ exists
    /\ Len(rotated) < MaxRotated
    /\ file' = "nil"
    /\ rotated' = Append(rotated, [snaps |-> current, upto |-> taken])
    /\ current' = {}
    /\ cut' = FALSE
    /\ exists' = FALSE
    /\ excess' = IF Len(rotated) > MaxFiles THEN Len(rotated) - MaxFiles ELSE 0
    /\ Goto("remove")
    /\ UNCHANGED <<final, age, kept, stopper, snapVars, stopAt, fault>>

\* Mutant: rotateFile returns when the rename fails, without opening a file.
RenameFailureReturns(ok) ==
    /\ pc = "close"
    /\ file' = "nil"
    /\ \/ /\ ok /\ exists
          /\ Len(rotated) < MaxRotated
          /\ rotated' = Append(rotated, [snaps |-> current, upto |-> taken])
          /\ current' = {}
          /\ cut' = FALSE
          /\ exists' = FALSE
          /\ excess' = IF Len(rotated) + 1 > MaxFiles
                       THEN Len(rotated) + 1 - MaxFiles ELSE 0
          /\ Goto("remove")
       \/ /\ ~ok /\ (Faulty \/ ~exists)
          /\ UNCHANGED <<diskVars, excess>>
          /\ Goto("collect")
    /\ fault' = (fault \/ ~ok)
    /\ UNCHANGED <<final, age, kept, stopper, snapVars, stopAt>>

\* w.backend.Close() and os.Rename; only after a successful rename are old
\* files removed.  A missing file cannot be renamed.
Rename(ok) ==
    /\ pc = "close"
    /\ file' = "nil"
    /\ \/ /\ ok /\ exists
          /\ Len(rotated) < MaxRotated
          /\ rotated' = Append(rotated, [snaps |-> current, upto |-> taken])
          /\ current' = {}
          /\ cut' = FALSE
          /\ exists' = FALSE
          /\ excess' = IF Len(rotated) + 1 > MaxFiles
                       THEN Len(rotated) + 1 - MaxFiles ELSE 0
          /\ Goto("remove")
       \/ /\ ~ok /\ (Faulty \/ ~exists)
          /\ UNCHANGED <<diskVars, excess>>
          /\ Goto("open")
    /\ fault' = (fault \/ ~ok)
    /\ UNCHANGED <<final, age, kept, stopper, snapVars, stopAt>>

\* Mutant: the names are sorted the other way round.
RemoveNewest(ok) ==
    /\ pc = "remove"
    /\ excess > 0
    /\ ok
    /\ excess' = excess - 1
    /\ rotated' = SubSeq(rotated, 1, Len(rotated) - 1)
    /\ UNCHANGED <<exists, current, cut, pc, final, file, age, kept, stopper, snapVars,
                   stopAt, fault>>

\* Mutant: the loop goes on while as many files are left as are to be kept.
RemoveToOneLess(ok) ==
    /\ pc = "remove"
    /\ ok
    /\ excess' = excess - 1
    /\ rotated' = SubSeq(rotated, 1, kept) \o SubSeq(rotated, kept + 2, Len(rotated))
    /\ UNCHANGED <<exists, current, cut, pc, final, file, age, kept, stopper, snapVars,
                   stopAt, fault>>

\* os.Remove of the oldest file not yet tried; a failure is passed over, and
\* a directory that cannot be read is one failure for every file.
RemoveOldest(ok) ==
    /\ pc = "remove"
    /\ excess > 0
    /\ ok \/ Faulty
    /\ excess' = excess - 1
    /\ IF ok
       THEN /\ rotated' = SubSeq(rotated, 1, kept) \o
                          SubSeq(rotated, kept + 2, Len(rotated))
            /\ UNCHANGED kept
       ELSE /\ kept' = kept + 1
            /\ UNCHANGED rotated
    /\ fault' = (fault \/ ~ok)
    /\ UNCHANGED <<exists, current, cut, pc, final, file, age, stopper, snapVars, stopAt>>

RemovalDone ==
    /\ pc = "remove"
    /\ excess = 0
    /\ kept' = 0
    /\ Goto("open")
    /\ UNCHANGED <<diskVars, final, file, age, excess, stopper, snapVars, stopAt,
                   fault>>

\* Mutant: dbStart is set before the error of Open is looked at.
OpenSetsStart(ok) ==
    /\ pc = "open"
    /\ ok \/ Faulty
    /\ exists' = (exists \/ ok)
    /\ file' = IF ok THEN "ok" ELSE "nil"
    /\ age' = 0
    /\ fault' = (fault \/ ~ok)
    /\ Goto("collect")
    /\ UNCHANGED <<current, cut, rotated, final, excess, kept, stopper, snapVars, stopAt>>

\* w.backend.Open: on failure rotateFile returns before dbStart is set, so
\* that the next tick rotates again.
Open(ok) ==
    /\ pc = "open"
    /\ ok \/ Faulty
    /\ exists' = (exists \/ ok)
    /\ file' = IF ok THEN "ok" ELSE "nil"
    /\ age' = IF ok THEN 0 ELSE age
    /\ fault' = (fault \/ ~ok)
    /\ Goto("collect")
    /\ UNCHANGED <<current, cut, rotated, final, excess, kept, stopper, snapVars, stopAt>>

Rotation == \/ \E ok \in BOOLEAN : Rename(ok) \/ RemoveOldest(ok) \/ Open(ok)
            \/ RemovalDone
Snapshot == CollectRaw \/ CollectNothing \/ Write \/ \E broken \in BOOLEAN : WriteFails(broken)

Next == \/ New \/ Stop \/ StopReturns \/ Exit \/ TimePasses
        \/ SelectTick \/ SelectStop \/ Snapshot \/ Rotation

Spec == Init /\ [][Next]_vars

(***************************************************************************)
(* Fairness: the goroutine runs (WF), CollectRaw included; time passes; a  *)
(* select with two ready cases is random (SF); an open that is tried again *)
(* and again succeeds at last (SF).                                        *)
(***************************************************************************)
Fairness == /\ WF_vars(New) /\ WF_vars(StopReturns) /\ WF_vars(TimePasses)
            /\ WF_vars(SelectTick) /\ SF_vars(SelectStop)
            /\ WF_vars(Snapshot) /\ WF_vars(Rotation)
            /\ SF_vars(Open(TRUE))

FairSpec == Spec /\ Fairness
-----------------------------------------------------------------------------
(* Properties.                                                             *)

TypeOK ==
    /\ exists \in BOOLEAN
    /\ current \subseteq Snaps
    /\ cut \in BOOLEAN
    /\ rotated \in Seq(File)
    /\ pc \in {"down", "collect", "write", "select", "close", "remove", "open", "done"}
    /\ final \in BOOLEAN
    /\ file \in {"nil", "ok", "broken"}
    /\ age \in 0 .. Rotate
    /\ excess \in Nat
    /\ kept \in Nat
    /\ stopper \in {"running", "waiting", "returned"}
    /\ taken \in 0 .. MaxSnaps
    /\ synced \subseteq Snaps
    /\ stopAt \in 0 .. MaxSnaps
    /\ fault \in BOOLEAN

InSomeFile(s) == s \in current \/ \E i \in DOMAIN rotated : s \in rotated[i].snaps

\* "max rotated files to keep": a snapshot that was written whole and synced
\* is only gone when MaxFiles files rotated after its own are there, whatever
\* failed and whenever the process was restarted.
RetainsNewest ==
    \A s \in synced : s < MaxSnaps /\ ~InSomeFile(s) =>
        Cardinality({i \in DOMAIN rotated : rotated[i].upto >= s}) >= MaxFiles

\* When nothing has failed, a rotation leaves no more than MaxFiles rotated
\* files, those that a killed process left behind included.
AtMostMaxFiles == pc = "open" /\ ~fault => Len(rotated) <= MaxFiles

\* "Stop gracefully stops the writer": when Stop returns and nothing failed,
\* a snapshot taken after the call is in the file, and whole: the line that a
\* killed process left cut has spoiled an earlier one.
FinalSnapshot ==
    stopper = "returned" /\ ~fault /\ stopAt < MaxSnaps =>
        /\ taken > stopAt
        /\ taken \in current

\* Stop returns, whatever the goroutine is doing, unless the process is killed
\* first.
StopTerminates == stopper = "waiting" ~> stopper = "returned" \/ pc = "down"

\* When a rotation could not open the file, dbStart stays old, so that the very
\* next tick tries again and not one a whole interval later.
ClosedIsRetried == pc = "select" /\ file = "nil" => age >= Rotate

\* With rotation enabled, a broken encoder or a closed file is replaced by a
\* later rotation, whatever the rename before the open returns.
WritingResumes ==
    Rotate > 0 /\ file # "ok" ~> file = "ok" \/ stopper # "running"
=============================================================================
