---------------------------- MODULE MonitorStore ----------------------------
(***************************************************************************)
(* internal/monitor/store.go: the JSON-lines database of self-monitoring   *)
(* records.  Store.Write appends under a mutex and, when the UTC day has   *)
(* changed, first renames the current file after the old day, removes      *)
(* rotated files and opens a fresh one.  Every file operation can fail and *)
(* the process can crash and be restarted between any two of them.         *)
(*                                                                         *)
(* A file is the set of the records that are values of their own in it,    *)
(* whether a malformed line is among them, and whether it ends in the      *)
(* middle of a record: a write was cut short by a full disk or a crash,    *)
(* and what is appended next continues that line.  A day is a number, so   *)
(* that comparing date strings is comparing days.                          *)
(***************************************************************************)
EXTENDS Integers, FiniteSets

CONSTANTS Writers,    \* goroutines that call Store.Write
          MaxDays,    \* const maxDays
          LastDay,    \* bound: the clock stops here
          MaxRecords, \* bound: records handed to Write
          Faulty      \* TRUE when file operations may fail

Days == 0 .. LastDay

ASSUME ConstantsAssumption ==
    /\ MaxDays \in Nat \ {0}
    /\ LastDay \in Nat
    /\ MaxRecords \in Nat
    /\ Faulty \in BOOLEAN

Record == [id : 1 .. MaxRecords, day : Days]
File   == [recs : SUBSET Record, torn : BOOLEAN, cut : BOOLEAN]
NoRecord  == [id |-> 0, day |-> 0]
EmptyFile == [recs |-> {}, torn |-> FALSE, cut |-> FALSE]

VARIABLES
    today,    \* the UTC day of the system clock
    \* the disk
    exists,   \* there is a file at s.path
    current,  \* what is in it
    rotated,  \* rotated[t]: the file base-t.ext, t \in DOMAIN rotated
    \* the process
    pc,       \* where the holder of s.mu is, "free" or "down"
    enc,      \* s.enc: "nil", "ok", or "broken" by an earlier write error
    dayTag,   \* s.dayTag
    now,      \* the local variable today of Write
    arg,      \* the record being written; NoRecord inside NewStore
    victims,  \* the files cleanOld has still to remove
    blocked,  \* blocked[w]: the record w waits with for s.mu, or NoRecord
    closed,   \* Close has been called since NewStore
    \* history
    nextId,   \* records handed to Write so far, plus one
    stored,   \* the records that Encode has written as lines of their own
    fault,    \* a file operation has failed, or the process was closed
    impaired  \* since the file was last opened and since a line was last
              \* completed, a write failed, Close was called, or the open
              \* itself failed or found a file that is cut

diskVars    == <<exists, current, rotated>>
processVars == <<pc, enc, dayTag, now, arg, victims, closed>>
historyVars == <<stored, fault, impaired>>
vars == <<today, diskVars, processVars, blocked, nextId, historyVars>>

Init ==
    /\ today = 0
    /\ exists = FALSE
    /\ current = EmptyFile
    /\ rotated = [t \in {} |-> EmptyFile]
    /\ pc = "down"
    /\ enc = "nil"
    /\ dayTag = 0
    /\ now = 0
    /\ arg = NoRecord
    /\ victims = {}
    /\ blocked = [w \in Writers |-> NoRecord]
    /\ closed = FALSE
    /\ nextId = 1
    /\ stored = {}
    /\ fault = FALSE
    /\ impaired = FALSE

-----------------------------------------------------------------------------
(* The environment: the clock and crashes.                                 *)

NextDay ==
    /\ today < LastDay
    /\ today' = today + 1
    /\ UNCHANGED <<diskVars, processVars, blocked, nextId, historyVars>>

\* The record to write, when its line is one of its own: after a cut line
\* O_APPEND glues it to the rest of another record.
OwnLine == IF current.cut THEN {} ELSE {arg}

\* What a write that does not come to its end leaves: nothing, part of the
\* record, or all of it but the newline, which no decoder misses.
Remains == {current,
            [current EXCEPT !.torn = TRUE, !.cut = TRUE],
            [current EXCEPT !.recs = @ \cup OwnLine]}

\* The process dies with all its variables, perhaps in the middle of a write.
Crash ==
    /\ pc # "down"
    /\ current' \in IF pc = "encode" /\ enc = "ok" THEN Remains ELSE {current}
    /\ pc' = "down"
    /\ enc' = "nil"
    /\ dayTag' = 0
    /\ now' = 0
    /\ arg' = NoRecord
    /\ victims' = {}
    /\ closed' = FALSE
    /\ blocked' = [w \in Writers |-> NoRecord]
    /\ UNCHANGED <<today, exists, rotated, nextId, historyVars>>

-----------------------------------------------------------------------------
(* NewStore, and the operations it shares with rotateLocked.               *)

\* NewStore: dayTag is today, whatever day the records of the existing file
\* are from.  When the file cannot be opened it returns an error.
NewStore ==
    /\ pc = "down"
    /\ dayTag' = today
    /\ exists' = TRUE
    /\ enc' = "ok"
    /\ impaired' = current.cut
    /\ pc' = "list"
    /\ UNCHANGED <<today, current, rotated, now, arg, victims, closed, blocked,
                   nextId, stored, fault>>

\* cleanOld: every rotated file but the MaxDays newest is to be removed; a
\* directory that cannot be read leaves them all.
\* Mutant: one file too many is kept.
TooOldByOneMore == {t \in DOMAIN rotated :
                       Cardinality({u \in DOMAIN rotated : u > t}) > MaxDays}

TooOld == {t \in DOMAIN rotated :
              Cardinality({u \in DOMAIN rotated : u > t}) >= MaxDays}

ListOld(ok) ==
    /\ pc = "list"
    /\ ok \/ Faulty
    /\ victims' = IF ok THEN TooOld ELSE {}
    /\ fault' = (fault \/ ~ok)
    /\ pc' = "remove"
    /\ UNCHANGED <<today, diskVars, enc, dayTag, now, arg, closed, blocked,
                   nextId, stored, impaired>>

\* Oldest first; a file that cannot be removed is passed over.
RemoveOldest(ok) ==
    /\ pc = "remove"
    /\ ok \/ Faulty
    /\ \E t \in victims :
           /\ \A u \in victims : t <= u
           /\ victims' = victims \ {t}
           /\ rotated' = IF ok THEN [u \in DOMAIN rotated \ {t} |-> rotated[u]]
                               ELSE rotated
    /\ fault' = (fault \/ ~ok)
    /\ UNCHANGED <<today, exists, current, pc, enc, dayTag, now, arg, closed, blocked,
                   nextId, stored, impaired>>

\* Mutant: rotateLocked does not open the fresh file.
CleanDoneNoReopen ==
    /\ pc = "remove"
    /\ victims = {}
    /\ pc' = IF arg = NoRecord THEN "free" ELSE "encode"
    /\ UNCHANGED <<today, diskVars, enc, dayTag, now, arg, victims, closed,
                   blocked, nextId, historyVars>>

\* cleanOld returns: to the caller of NewStore, or to rotateLocked.
CleanDone ==
    /\ pc = "remove"
    /\ victims = {}
    /\ pc' = IF arg = NoRecord THEN "free" ELSE "reopen"
    /\ UNCHANGED <<today, diskVars, enc, dayTag, now, arg, victims, closed,
                   blocked, nextId, historyVars>>

-----------------------------------------------------------------------------
(* Write.                                                                  *)

Starting == pc = "down" \/ (pc \in {"list", "remove"} /\ arg = NoRecord)

\* A goroutine has built a record, stamped with the time, and calls Write.
CallWrite(w) ==
    /\ ~Starting
    /\ blocked[w] = NoRecord
    /\ nextId <= MaxRecords
    /\ blocked' = [blocked EXCEPT ![w] = [id |-> nextId, day |-> today]]
    /\ nextId' = nextId + 1
    /\ UNCHANGED <<today, diskVars, processVars, historyVars>>

\* Mutant: the lock is taken without a record to write.
BeginWriteWithout(w) ==
    /\ pc = "free"
    /\ arg' = blocked[w]
    /\ blocked' = [blocked EXCEPT ![w] = NoRecord]
    /\ now' = today
    /\ pc' = IF today # dayTag THEN "rename" ELSE "encode"
    /\ enc' = IF today # dayTag THEN "nil" ELSE enc
    /\ UNCHANGED <<today, diskVars, dayTag, victims, closed, nextId, historyVars>>

\* s.mu.Lock(), and today := time.Now()...: rotateLocked closes the file
\* first.
BeginWrite(w) ==
    /\ pc = "free"
    /\ blocked[w] # NoRecord
    /\ arg' = blocked[w]
    /\ blocked' = [blocked EXCEPT ![w] = NoRecord]
    /\ now' = today
    /\ pc' = IF today # dayTag THEN "rename" ELSE "encode"
    /\ enc' = IF today # dayTag THEN "nil" ELSE enc
    /\ UNCHANGED <<today, diskVars, dayTag, victims, closed, nextId, historyVars>>

\* Mutant: the rotated file is a copy, the current one is not emptied.
RenameCopies(ok) ==
    /\ pc = "rename"
    /\ ok /\ exists
    /\ rotated' = [t \in DOMAIN rotated \cup {dayTag} |->
                      IF t = dayTag THEN current ELSE rotated[t]]
    /\ pc' = "list"
    /\ UNCHANGED <<today, exists, current, enc, dayTag, now, arg, victims,
                   closed, blocked, nextId, historyVars>>

\* os.Rename(s.path, base-dayTag.ext) replaces a file of that name and fails
\* when there is none at s.path; whatever it returns, cleanOld is next.
Rename(ok) ==
    /\ pc = "rename"
    /\ \/ /\ ok /\ exists
          /\ rotated' = [t \in DOMAIN rotated \cup {dayTag} |->
                            IF t = dayTag THEN current ELSE rotated[t]]
          /\ current' = EmptyFile
          /\ exists' = FALSE
       \/ /\ ~ok /\ (Faulty \/ ~exists)
          /\ UNCHANGED diskVars
    /\ fault' = (fault \/ ~ok)
    /\ pc' = "list"
    /\ UNCHANGED <<today, enc, dayTag, now, arg, victims, closed, blocked,
                   nextId, stored, impaired>>

\* Mutant: dayTag is not moved on, so that the next write rotates again.
ReopenKeepsDayTag(ok) ==
    /\ pc = "reopen"
    /\ ok \/ Faulty
    /\ exists' = (exists \/ ok)
    /\ enc' = IF ok THEN "ok" ELSE "nil"
    /\ impaired' = (~ok \/ current.cut)
    /\ fault' = (fault \/ ~ok)
    /\ pc' = "encode"
    /\ UNCHANGED <<today, current, rotated, dayTag, now, arg, victims, closed,
                   blocked, nextId, stored>>

\* s.openFile(), then s.dayTag = today: a failure is logged and the day is
\* taken as rotated all the same.
Reopen(ok) ==
    /\ pc = "reopen"
    /\ ok \/ Faulty
    /\ exists' = (exists \/ ok)
    /\ enc' = IF ok THEN "ok" ELSE "nil"
    /\ impaired' = (~ok \/ current.cut)
    /\ fault' = (fault \/ ~ok)
    /\ dayTag' = now
    /\ pc' = "encode"
    /\ UNCHANGED <<today, current, rotated, now, arg, victims, closed, blocked,
                   nextId, stored>>

Return ==
    /\ pc' = "free"
    /\ arg' = NoRecord
    /\ UNCHANGED <<today, exists, rotated, dayTag, now, victims, closed, blocked, nextId>>

\* s.enc.Encode(rec) appends the record and a newline.
Encode ==
    /\ pc = "encode"
    /\ enc = "ok"
    /\ current' = [current EXCEPT !.recs = @ \cup OwnLine, !.cut = FALSE]
    /\ stored' = stored \cup OwnLine
    /\ impaired' = FALSE
    /\ UNCHANGED <<enc, fault>>
    /\ Return

\* The write fails, perhaps after part of the line; json.Encoder remembers
\* the error and refuses every later record until the file is reopened.
EncodeFails ==
    /\ pc = "encode"
    /\ enc = "ok"
    /\ Faulty
    /\ current' \in Remains
    /\ enc' = "broken"
    /\ fault' = TRUE
    /\ impaired' = TRUE
    /\ UNCHANGED stored
    /\ Return

\* s.enc is nil, or returns its first error again.
EncodeDrops ==
    /\ pc = "encode"
    /\ enc # "ok"
    /\ UNCHANGED <<current, enc, stored, fault, impaired>>
    /\ Return

Close ==
    /\ pc = "free"
    /\ ~closed
    /\ enc' = "nil"
    /\ closed' = TRUE
    /\ fault' = TRUE
    /\ impaired' = TRUE
    /\ UNCHANGED <<today, diskVars, pc, dayTag, now, arg, victims, blocked,
                   nextId, stored>>

Next ==
    \/ NextDay \/ Crash \/ NewStore \/ CleanDone \/ Close
    \/ Encode \/ EncodeFails \/ EncodeDrops
    \/ \E ok \in BOOLEAN : ListOld(ok) \/ RemoveOldest(ok) \/ Rename(ok) \/ Reopen(ok)
    \/ \E w \in Writers : CallWrite(w) \/ BeginWrite(w)

Spec == Init /\ [][Next]_vars
-----------------------------------------------------------------------------
(* Properties.                                                             *)

TypeOK ==
    /\ today \in Days
    /\ exists \in BOOLEAN
    /\ current \in File
    /\ DOMAIN rotated \subseteq Days
    /\ \A t \in DOMAIN rotated : rotated[t] \in File
    /\ pc \in {"down", "free", "rename", "list", "remove", "reopen", "encode"}
    /\ enc \in {"nil", "ok", "broken"}
    /\ dayTag \in Days
    /\ now \in Days
    /\ arg \in Record \cup {NoRecord}
    /\ victims \subseteq Days
    /\ blocked \in [Writers -> Record \cup {NoRecord}]
    /\ closed \in BOOLEAN
    /\ nextId \in 1 .. MaxRecords + 1
    /\ stored \subseteq Record
    /\ fault \in BOOLEAN
    /\ impaired \in BOOLEAN

OnDisk == current.recs \cup UNION {rotated[t].recs : t \in DOMAIN rotated}

\* No record that was written as a line of its own is lost before it is
\* MaxDays days old, through rotations, restarts, crashes and failing file
\* operations: no rename hits an existing file, and the MaxDays youngest files
\* that cleanOld keeps are of as many days, as long as the clock does not go
\* back.
RetainsRecent ==
    \A rec \in stored : rec.day + MaxDays >= today => rec \in OnDisk

\* What a failure costs: a record is lost only by the write that fails, and
\* after it until the file is opened anew, or as the one record that continues
\* a cut line.  No interleaving of writers and midnight loses one, and a
\* failure before the last rotation that reopened the file loses none.
DropsOnlyImpaired ==
    [][arg # NoRecord /\ pc' = "free" => arg \in stored' \/ impaired \/ impaired']_vars

\* When nothing fails, there are never more rotated files than the MaxDays
\* that are kept and the one that was just renamed.
RotatedBounded == ~fault => Cardinality(DOMAIN rotated) <= MaxDays + 1

\* A record is on disk once: no rotation leaves it in two files, where the
\* statistics would count it twice.
StoredOnce ==
    /\ \A s, t \in DOMAIN rotated : s # t => rotated[s].recs \cap rotated[t].recs = {}
    /\ \A t \in DOMAIN rotated : rotated[t].recs \cap current.recs = {}
=============================================================================
