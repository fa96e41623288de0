------------------------- MODULE MonitorStoreProofs -------------------------
(***************************************************************************)
(* Proofs about MonitorStore for every MaxDays, every number of writers,   *)
(* records and days, and every failing file operation.                     *)
(***************************************************************************)
EXTENDS MonitorStore, FiniteSetTheorems, TLAPS

USE DEF Days

(***************************************************************************)
(* 1. Types.                                                               *)
(***************************************************************************)
\* Between BeginWrite and the return there is a record to write, and none in
\* a process that is not there.
ArgInv == /\ pc \in {"rename", "reopen", "encode"} => arg # NoRecord
          /\ pc \in {"down", "free"} => arg = NoRecord

TypeInv == TypeOK /\ ArgInv

LEMMA TypeInit == Init => TypeInv
<1> SUFFICES ASSUME Init PROVE TypeInv
  OBVIOUS
<1>1. blocked \in [Writers -> Record \cup {NoRecord}]
  BY DEF Init
<1>2. current \in File
  BY DEF Init, File, EmptyFile
<1>3. DOMAIN rotated = {}
  BY DEF Init
<1>4. 1 \in 1 .. MaxRecords + 1 /\ 0 \in Days
  BY ConstantsAssumption
<1> QED BY <1>1, <1>2, <1>3, <1>4 DEF Init, TypeInv, TypeOK, ArgInv

\* Whatever is left of a write that fails is a file, and has lost nothing.
LEMMA RemainsTyped ==
    ASSUME current \in File, arg \in Record \cup {NoRecord}, arg # NoRecord
    PROVE  \A f \in Remains : /\ f \in File
                              /\ current.recs \subseteq f.recs
                              /\ f.recs \subseteq current.recs \cup {arg}
<1>1. OwnLine \subseteq {arg} /\ arg \in Record
  BY DEF OwnLine
<1>2. ASSUME NEW f \in Remains
      PROVE  /\ f \in File
             /\ current.recs \subseteq f.recs
             /\ f.recs \subseteq current.recs \cup {arg}
  <2>1. CASE f = current
    BY <2>1 DEF File
  <2>2. CASE f = [current EXCEPT !.torn = TRUE, !.cut = TRUE]
    <3>1. f \in File /\ f.recs = current.recs
      BY <2>2 DEF File
    <3> QED BY <3>1
  <2>3. CASE f = [current EXCEPT !.recs = @ \cup OwnLine]
    <3>1. f \in File /\ f.recs = current.recs \cup OwnLine
      BY <1>1, <2>3 DEF File
    <3> QED BY <1>1, <3>1
  <2> QED BY <2>1, <2>2, <2>3 DEF Remains
<1> QED BY <1>2

LEMMA TypeStep == TypeInv /\ [Next]_vars => TypeInv'
<1> SUFFICES ASSUME TypeInv, [Next]_vars PROVE TypeInv'
  OBVIOUS
<1> USE ConstantsAssumption DEF TypeInv, TypeOK, ArgInv, diskVars, processVars, historyVars
<1>1. CASE NextDay
  BY <1>1 DEF NextDay
<1>2. CASE Crash
  <2>1. current' \in File
    BY <1>2, RemainsTyped DEF Crash
  <2>2. /\ 0 \in Days /\ NoRecord \in Record \cup {NoRecord}
        /\ blocked' \in [Writers -> Record \cup {NoRecord}]
    BY <1>2 DEF Crash
  <2> QED BY <1>2, <2>1, <2>2 DEF Crash
<1>3. CASE NewStore
  <2>1. impaired' \in BOOLEAN
    BY <1>3 DEF NewStore, File
  <2> QED BY <1>3, <2>1 DEF NewStore
<1>4. CASE CleanDone
  BY <1>4 DEF CleanDone
<1>5. CASE Close
  BY <1>5 DEF Close
<1>6. CASE Encode
  <2>1. arg \in Record
    BY <1>6 DEF Encode
  <2>2. current' \in File /\ stored' \subseteq Record
    BY <1>6, <2>1 DEF Encode, File, OwnLine
  <2> QED BY <1>6, <2>2 DEF Encode, Return
<1>7. CASE EncodeFails
  <2>1. current' \in File
    BY <1>7, RemainsTyped DEF EncodeFails
  <2> QED BY <1>7, <2>1 DEF EncodeFails, Return
<1>8. CASE EncodeDrops
  BY <1>8 DEF EncodeDrops, Return
<1>9. ASSUME NEW ok \in BOOLEAN, ListOld(ok) PROVE TypeInv'
  BY <1>9 DEF ListOld, TooOld
<1>10. ASSUME NEW ok \in BOOLEAN, RemoveOldest(ok) PROVE TypeInv'
  BY <1>10 DEF RemoveOldest
<1>11. ASSUME NEW ok \in BOOLEAN, Rename(ok) PROVE TypeInv'
  <2>1. EmptyFile \in File
    BY DEF EmptyFile, File
  <2>2. /\ DOMAIN rotated' \subseteq Days
        /\ \A t \in DOMAIN rotated' : rotated'[t] \in File
        /\ current' \in File
        /\ exists' \in BOOLEAN
    BY <1>11, <2>1 DEF Rename
  <2> QED BY <1>11, <2>2 DEF Rename
<1>12. ASSUME NEW ok \in BOOLEAN, Reopen(ok) PROVE TypeInv'
  BY <1>12 DEF Reopen
<1>13. ASSUME NEW w \in Writers, CallWrite(w) PROVE TypeInv'
  <2>1. [id |-> nextId, day |-> today] \in Record /\ nextId' \in 1 .. MaxRecords + 1
    BY <1>13 DEF CallWrite, Record
  <2> QED BY <1>13, <2>1 DEF CallWrite
<1>14. ASSUME NEW w \in Writers, BeginWrite(w) PROVE TypeInv'
  BY <1>14 DEF BeginWrite
<1>15. CASE UNCHANGED vars
  BY <1>15 DEF vars
<1> QED BY <1>1, <1>2, <1>3, <1>4, <1>5, <1>6, <1>7, <1>8, <1>9, <1>10, <1>11,
           <1>12, <1>13, <1>14, <1>15 DEF Next

\* Every variable keeps its type.
THEOREM TypeCorrect == Spec => []TypeOK
<1>1. Spec => []TypeInv
  BY TypeInit, TypeStep, PTL DEF Spec
<1> QED BY <1>1, PTL DEF TypeInv

(***************************************************************************)
(* 2. Retention.  cleanOld counts files, the property counts days.  What   *)
(* relates them: the clock does not go back, so that no file is renamed    *)
(* after a day that is not over (StampInv), every file renamed so far has  *)
(* a name of its own, before dayTag (NameInv), and a file holds no record  *)
(* younger than its name (AgeInv).  A file with MaxDays younger ones is    *)
(* therefore more than MaxDays days old (VictimInv).                       *)
(***************************************************************************)
StampInv ==
    /\ now <= today
    /\ dayTag <= today
    /\ arg.day <= now
    /\ \A w \in Writers : blocked[w].day <= today
    /\ pc = "encode" => dayTag = now
    /\ pc = "rename" => dayTag < now
    /\ pc \in {"list", "remove", "reopen"} /\ arg # NoRecord => dayTag < now

\* A file named after dayTag exists only from the rename to the reopening.
NameInv ==
    /\ \A t \in DOMAIN rotated : t < today
    /\ pc # "down" => \A t \in DOMAIN rotated : t <= dayTag
    /\ pc \in {"free", "rename", "encode"} \/ (pc # "down" /\ arg = NoRecord) =>
           \A t \in DOMAIN rotated : t < dayTag

AgeInv ==
    /\ \A rec \in current.recs : rec.day <= today
    /\ pc # "down" => \A rec \in current.recs : rec.day <= dayTag
    /\ \A t \in DOMAIN rotated : \A rec \in rotated[t].recs : rec.day <= t

VictimInv == \A t \in victims : t + MaxDays < today

RetainInv == StampInv /\ NameInv /\ AgeInv /\ VictimInv /\ RetainsRecent

\* A rotated file with MaxDays younger ones is older than MaxDays days.
LEMMA TooOldIsOld ==
    ASSUME TypeInv, NameInv, NEW t \in TooOld
    PROVE  t + MaxDays < today
<1> DEFINE younger == {u \in DOMAIN rotated : u > t}
<1> USE ConstantsAssumption
<1>1. t \in Nat /\ t < today /\ today \in Nat
  BY DEF TooOld, NameInv, TypeInv, TypeOK
<1>2. younger \subseteq t + 1 .. today - 1
  BY <1>1 DEF NameInv, TypeInv, TypeOK
<1>3. /\ IsFiniteSet(t + 1 .. today - 1)
      /\ Cardinality(t + 1 .. today - 1) = today - 1 - t
  <2>1. t + 1 \in Int /\ today - 1 \in Int
    BY <1>1
  <2>2. Cardinality(t + 1 .. today - 1) =
            IF t + 1 > today - 1 THEN 0 ELSE today - 1 - (t + 1) + 1
    BY <2>1, FS_Interval
  <2>3. IsFiniteSet(t + 1 .. today - 1)
    BY <2>1, FS_Interval
  <2> QED BY <1>1, <2>2, <2>3
<1>4. /\ Cardinality(younger) <= today - 1 - t
      /\ Cardinality(younger) \in Nat
  BY <1>2, <1>3, FS_Subset, FS_CardinalityType
<1>5. Cardinality(younger) >= MaxDays
  BY DEF TooOld
<1> QED BY <1>1, <1>4, <1>5

LEMMA RetainInit == Init => RetainInv
BY ConstantsAssumption DEF Init, RetainInv, StampInv, NameInv, AgeInv, VictimInv,
   RetainsRecent, EmptyFile, NoRecord

LEMMA RetainStep == TypeInv /\ RetainInv /\ [Next]_vars => RetainInv'
<1> SUFFICES ASSUME TypeInv, RetainInv, [Next]_vars PROVE RetainInv'
  OBVIOUS
<1> USE ConstantsAssumption DEF TypeInv, TypeOK, ArgInv, RetainInv, diskVars, processVars,
        historyVars
<1>1. CASE NextDay
  <2>1. /\ today' = today + 1
        /\ UNCHANGED <<current, rotated, pc, dayTag, now, arg, victims, blocked, stored>>
    BY <1>1 DEF NextDay
  <2>2. /\ \A w \in Writers : blocked[w].day \in Int
        /\ arg.day \in Int
        /\ \A rec \in current.recs \cup stored : rec.day \in Int
    BY DEF Record, NoRecord, File
  <2>3. StampInv'
    BY <2>1, <2>2 DEF StampInv
  <2>4. NameInv' /\ VictimInv'
    BY <2>1 DEF NameInv, VictimInv
  <2>5. AgeInv'
    BY <2>1, <2>2 DEF AgeInv
  <2>6. RetainsRecent'
    BY <2>1, <2>2 DEF RetainsRecent, OnDisk
  <2> QED BY <2>3, <2>4, <2>5, <2>6
<1>2. CASE Crash
  <2>1. /\ current.recs \subseteq current'.recs
        /\ \A rec \in current'.recs : rec \in current.recs \/ (pc = "encode" /\ rec = arg)
    BY <1>2, RemainsTyped DEF Crash
  <2>2. /\ dayTag' = 0 /\ now' = 0 /\ arg' = NoRecord /\ pc' = "down" /\ victims' = {}
        /\ blocked' = [w \in Writers |-> NoRecord]
        /\ UNCHANGED <<today, rotated, stored>>
    BY <1>2 DEF Crash
  <2>3. StampInv' /\ NameInv' /\ VictimInv'
    BY <2>2 DEF StampInv, NameInv, VictimInv, NoRecord
  <2>4. AgeInv'
    <3>1. pc = "encode" => arg.day <= today
      BY DEF StampInv, Record
    <3> QED BY <2>1, <2>2, <3>1 DEF AgeInv
  <2>5. RetainsRecent'
    BY <2>1, <2>2 DEF RetainsRecent, OnDisk
  <2> QED BY <2>3, <2>4, <2>5
<1>3. CASE NewStore
  BY <1>3 DEF NewStore, StampInv, NameInv, AgeInv, VictimInv, RetainsRecent, OnDisk
<1>4. CASE CleanDone
  BY <1>4 DEF CleanDone, StampInv, NameInv, AgeInv, VictimInv, RetainsRecent, OnDisk
<1>5. CASE Close
  BY <1>5 DEF Close, StampInv, NameInv, AgeInv, VictimInv, RetainsRecent, OnDisk
<1>6. CASE Encode
  <2>1. /\ current'.recs = current.recs \cup OwnLine
        /\ stored' = stored \cup OwnLine
        /\ OwnLine \subseteq {arg}
        /\ pc = "encode" /\ pc' = "free" /\ arg' = NoRecord
        /\ UNCHANGED <<today, rotated, dayTag, now, victims, blocked>>
    BY <1>6 DEF Encode, Return, File, OwnLine
  <2>2. StampInv'
    BY <2>1 DEF StampInv, NoRecord
  <2>3. NameInv' /\ VictimInv'
    BY <2>1 DEF NameInv, VictimInv
  <2>4. AgeInv'
    <3>1. arg.day <= dayTag /\ arg.day <= today
      BY <2>1 DEF StampInv, Record
    <3> QED BY <2>1, <3>1 DEF AgeInv
  <2>5. RetainsRecent'
    BY <2>1 DEF RetainsRecent, OnDisk
  <2> QED BY <2>2, <2>3, <2>4, <2>5
<1>7. CASE EncodeFails
  <2>1. /\ current.recs \subseteq current'.recs
        /\ \A rec \in current'.recs : rec \in current.recs \/ rec = arg
    BY <1>7, RemainsTyped DEF EncodeFails
  <2>2. /\ pc = "encode" /\ pc' = "free" /\ arg' = NoRecord
        /\ UNCHANGED <<today, rotated, stored, dayTag, now, victims, blocked>>
    BY <1>7 DEF EncodeFails, Return
  <2>3. StampInv' /\ NameInv' /\ VictimInv'
    BY <2>2 DEF StampInv, NameInv, VictimInv, NoRecord
  <2>4. AgeInv'
    <3>1. arg.day <= dayTag /\ arg.day <= today
      BY <2>2 DEF StampInv, Record
    <3> QED BY <2>1, <2>2, <3>1 DEF AgeInv
  <2>5. RetainsRecent'
    BY <2>1, <2>2 DEF RetainsRecent, OnDisk
  <2> QED BY <2>3, <2>4, <2>5
<1>8. CASE EncodeDrops
  BY <1>8 DEF EncodeDrops, Return, StampInv, NameInv, AgeInv, VictimInv, RetainsRecent, OnDisk,
     NoRecord
<1>9. ASSUME NEW ok \in BOOLEAN, ListOld(ok) PROVE RetainInv'
  <2>1. VictimInv'
    BY <1>9, TooOldIsOld DEF ListOld, VictimInv
  <2> QED BY <1>9, <2>1 DEF ListOld, StampInv, NameInv, AgeInv, RetainsRecent, OnDisk
<1>10. ASSUME NEW ok \in BOOLEAN, RemoveOldest(ok) PROVE RetainInv'
  <2>1. /\ DOMAIN rotated' \subseteq DOMAIN rotated
        /\ \A t \in DOMAIN rotated' : rotated'[t] = rotated[t]
        /\ \A t \in DOMAIN rotated \ DOMAIN rotated' : t \in victims
        /\ victims' \subseteq victims
        /\ UNCHANGED <<today, exists, current, pc, enc, dayTag, now, arg, blocked, stored>>
    BY <1>10 DEF RemoveOldest
  <2>2. StampInv' /\ NameInv' /\ AgeInv' /\ VictimInv'
    BY <2>1 DEF StampInv, NameInv, AgeInv, VictimInv
  <2>3. ASSUME NEW rec \in stored, rec.day + MaxDays >= today PROVE rec \in OnDisk'
    <3>1. CASE rec \in current.recs
      BY <2>1, <3>1 DEF OnDisk
    <3>2. CASE rec \notin current.recs
      <4>1. PICK t \in DOMAIN rotated : rec \in rotated[t].recs
        BY <2>3, <3>2 DEF RetainsRecent, OnDisk
      <4>2. rec.day <= t /\ rec.day \in Int /\ t \in Int
        BY <4>1 DEF AgeInv, Record
      <4>3. t \notin victims
        BY <2>3, <4>2 DEF VictimInv
      <4> QED BY <2>1, <4>1, <4>3 DEF OnDisk
    <3> QED BY <3>1, <3>2
  <2> QED BY <2>1, <2>2, <2>3 DEF RetainsRecent
<1>11. ASSUME NEW ok \in BOOLEAN, Rename(ok) PROVE RetainInv'
  <2>1. CASE ~ok
    BY <1>11, <2>1 DEF Rename, StampInv, NameInv, AgeInv, VictimInv, RetainsRecent, OnDisk
  <2>2. CASE ok
    <3>1. dayTag \notin DOMAIN rotated
      BY <1>11 DEF Rename, NameInv
    <3>2. /\ DOMAIN rotated' = DOMAIN rotated \cup {dayTag}
          /\ rotated'[dayTag] = current
          /\ \A t \in DOMAIN rotated : rotated'[t] = rotated[t]
          /\ current'.recs = {}
          /\ pc = "rename" /\ pc' = "list"
          /\ UNCHANGED <<today, dayTag, now, arg, victims, blocked, stored>>
      BY <1>11, <2>2, <3>1 DEF Rename, EmptyFile
    <3>3. StampInv' /\ NameInv' /\ AgeInv' /\ VictimInv'
      BY <3>2 DEF StampInv, NameInv, AgeInv, VictimInv
    <3>4. OnDisk' = OnDisk
      BY <3>2 DEF OnDisk
    <3> QED BY <3>2, <3>3, <3>4 DEF RetainsRecent
  <2> QED BY <2>1, <2>2
<1>12. ASSUME NEW ok \in BOOLEAN, Reopen(ok) PROVE RetainInv'
  BY <1>12 DEF Reopen, StampInv, NameInv, AgeInv, VictimInv, RetainsRecent, OnDisk, File, Record
<1>13. ASSUME NEW w \in Writers, CallWrite(w) PROVE RetainInv'
  BY <1>13 DEF CallWrite, StampInv, NameInv, AgeInv, VictimInv, RetainsRecent, OnDisk
<1>14. ASSUME NEW w \in Writers, BeginWrite(w) PROVE RetainInv'
  BY <1>14 DEF BeginWrite, StampInv, NameInv, AgeInv, VictimInv, RetainsRecent, OnDisk, NoRecord
<1>15. CASE UNCHANGED vars
  BY <1>15 DEF vars, StampInv, NameInv, AgeInv, VictimInv, RetainsRecent, OnDisk
<1> QED BY <1>1, <1>2, <1>3, <1>4, <1>5, <1>6, <1>7, <1>8, <1>9, <1>10, <1>11,
           <1>12, <1>13, <1>14, <1>15 DEF Next

\* No record written as a line of its own is lost before it is MaxDays days
\* old, whatever fails,
\* whenever the process crashes, and however long it was down.
THEOREM RetentionCorrect == Spec => []RetainsRecent
<1>1. TypeInv /\ RetainInv /\ [Next]_vars => (TypeInv /\ RetainInv)'
  BY TypeStep, RetainStep
<1>2. Spec => [](TypeInv /\ RetainInv)
  BY <1>1, TypeInit, RetainInit, PTL DEF Spec
<1> QED BY <1>2, PTL DEF RetainInv

LEMMA TypeAlways == Spec => []TypeInv
BY TypeInit, TypeStep, PTL DEF Spec

(***************************************************************************)
(* 3. Drops.  As long as the file is not impaired it is open whenever a    *)
(* record is about to be written, and its last line is complete.           *)
(***************************************************************************)
EncInv ==
    ~impaired /\ \/ pc \in {"free", "encode"}
                 \/ pc \in {"list", "remove"} /\ arg = NoRecord
    => enc = "ok" /\ ~current.cut

LEMMA EncStep == TypeInv /\ EncInv /\ [Next]_vars => EncInv'
<1> SUFFICES ASSUME TypeInv, EncInv, [Next]_vars PROVE EncInv'
  OBVIOUS
<1> USE DEF TypeInv, ArgInv, EncInv, diskVars, processVars, historyVars
<1>1. CASE NextDay \/ Crash \/ NewStore \/ CleanDone \/ Close
  BY <1>1 DEF NextDay, Crash, NewStore, CleanDone, Close
<1>2. CASE Encode
  <2>1. enc' = "ok" /\ current'.cut = FALSE
    BY <1>2 DEF Encode, TypeOK, File
  <2> QED BY <2>1
<1>3. CASE EncodeFails \/ EncodeDrops
  BY <1>3 DEF EncodeFails, EncodeDrops, Return
<1>4. ASSUME NEW ok \in BOOLEAN, ListOld(ok) \/ RemoveOldest(ok) PROVE EncInv'
  <2>1. /\ pc \in {"list", "remove"} /\ pc' = "remove"
        /\ UNCHANGED <<current, enc, arg, impaired>>
    BY <1>4 DEF ListOld, RemoveOldest
  <2> QED BY <2>1
<1>5. ASSUME NEW ok \in BOOLEAN, Rename(ok) PROVE EncInv'
  BY <1>5 DEF Rename
<1>6. ASSUME NEW ok \in BOOLEAN, Reopen(ok) PROVE EncInv'
  BY <1>6 DEF Reopen
<1>7. ASSUME NEW w \in Writers, CallWrite(w) \/ BeginWrite(w) PROVE EncInv'
  BY <1>7 DEF CallWrite, BeginWrite
<1>8. CASE UNCHANGED vars
  BY <1>8 DEF vars
<1> QED BY <1>1, <1>2, <1>3, <1>4, <1>5, <1>6, <1>7, <1>8 DEF Next

\* Of the steps that end with the lock free only the three ways in which
\* Encode ends had a record to write.
LEMMA DropStep ==
    ASSUME TypeInv, EncInv, [Next]_vars, arg # NoRecord, pc' = "free"
    PROVE  arg \in stored' \/ impaired \/ impaired'
<1> USE DEF TypeInv, ArgInv, diskVars, processVars, historyVars
<1>1. pc \notin {"down", "free"}
  OBVIOUS
<1>2. ASSUME NextDay \/ Crash \/ NewStore \/ CleanDone \/ Close PROVE FALSE
  BY <1>1, <1>2 DEF NextDay, Crash, NewStore, CleanDone, Close
<1>3. CASE Encode
  <2>1. CASE current.cut
    BY <1>3, <2>1 DEF Encode, EncInv
  <2>2. CASE ~current.cut
    BY <1>3, <2>2 DEF Encode, OwnLine
  <2> QED BY <2>1, <2>2
<1>4. CASE EncodeFails
  BY <1>4 DEF EncodeFails
<1>5. CASE EncodeDrops
  BY <1>5 DEF EncodeDrops, EncInv
<1>6. ASSUME NEW ok \in BOOLEAN,
             ListOld(ok) \/ RemoveOldest(ok) \/ Rename(ok) \/ Reopen(ok)
      PROVE  FALSE
  BY <1>6 DEF ListOld, RemoveOldest, Rename, Reopen
<1>7. ASSUME NEW w \in Writers, CallWrite(w) \/ BeginWrite(w) PROVE FALSE
  BY <1>1, <1>7 DEF CallWrite, BeginWrite
<1>8. ASSUME UNCHANGED vars PROVE FALSE
  BY <1>1, <1>8 DEF vars
<1> QED BY <1>2, <1>3, <1>4, <1>5, <1>6, <1>7, <1>8 DEF Next

\* A record is lost only by the write that fails, until the file is opened
\* anew, or as the one that continues a cut line, for any number of writers
\* and midnights.
THEOREM DropsOnlyImpairedCorrect == Spec => DropsOnlyImpaired
<1>1. Init => EncInv
  BY DEF Init, EncInv
<1>2. TypeInv /\ EncInv /\ [Next]_vars =>
          [arg # NoRecord /\ pc' = "free" => arg \in stored' \/ impaired \/ impaired']_vars
  BY DropStep
<1> QED BY <1>1, <1>2, EncStep, TypeAlways, PTL DEF Spec, DropsOnlyImpaired

(***************************************************************************)
(* 4. One copy of a record.  A record that is still to be written has a    *)
(* number no record on disk and no other waiting record has.               *)
(***************************************************************************)
NumberInv ==
    /\ \A rec \in OnDisk : rec.id < nextId
    /\ arg.id < nextId
    /\ \A w \in Writers : blocked[w].id < nextId

ApartInv ==
    /\ arg # NoRecord => \A rec \in OnDisk : rec.id # arg.id
    /\ \A w \in Writers : blocked[w] # NoRecord =>
           /\ \A rec \in OnDisk : rec.id # blocked[w].id
           /\ arg.id # blocked[w].id
           /\ \A v \in Writers : v # w => blocked[v].id # blocked[w].id

OnceInv == NumberInv /\ ApartInv /\ StoredOnce

LEMMA OnceStep == TypeInv /\ OnceInv /\ [Next]_vars => OnceInv'
<1> SUFFICES ASSUME TypeInv, OnceInv, [Next]_vars PROVE OnceInv'
  OBVIOUS
<1> USE ConstantsAssumption DEF OnceInv, diskVars, processVars, historyVars
<1>0. nextId \in Nat \ {0} /\ NoRecord.id = 0
  BY DEF TypeInv, TypeOK, NoRecord
<1>1. ASSUME UNCHANGED <<rotated, arg, blocked, nextId>>, current'.recs = current.recs
      PROVE  OnceInv'
  BY <1>1 DEF NumberInv, ApartInv, StoredOnce, OnDisk
<1>12. ASSUME /\ current'.recs \subseteq current.recs \cup {arg}
              /\ arg = NoRecord => current'.recs = current.recs
              /\ UNCHANGED <<rotated, nextId>>
              /\ arg' = NoRecord
              /\ \A w \in Writers : blocked'[w] = blocked[w] \/ blocked'[w] = NoRecord
       PROVE  OnceInv'
  <2>1. CASE arg = NoRecord
    BY <1>0, <1>12, <2>1 DEF NumberInv, ApartInv, StoredOnce, OnDisk
  <2>2. CASE arg # NoRecord
    <3>1. OnDisk' \subseteq OnDisk \cup {arg}
      BY <1>12 DEF OnDisk
    <3>2. NumberInv'
      BY <1>0, <1>12, <3>1 DEF NumberInv
    <3>3. ApartInv'
      <4>1. ASSUME NEW w \in Writers, blocked'[w] # NoRecord
            PROVE  blocked'[w] = blocked[w] /\ blocked[w].id # 0
        BY <1>0, <1>12, <4>1 DEF TypeInv, TypeOK, Record
      <4> QED BY <1>0, <1>12, <2>2, <3>1, <4>1 DEF ApartInv
    <3>4. arg \notin OnDisk
      BY <2>2 DEF ApartInv
    <3>5. StoredOnce'
      BY <1>12, <3>4 DEF StoredOnce, OnDisk
    <3> QED BY <3>2, <3>3, <3>5
  <2> QED BY <2>1, <2>2
<1>2. CASE Crash
  <2>1. /\ current'.recs \subseteq current.recs \cup {arg}
        /\ arg = NoRecord => current'.recs = current.recs
        /\ UNCHANGED <<rotated, nextId>>
        /\ arg' = NoRecord /\ blocked' = [w \in Writers |-> NoRecord]
    BY <1>2, RemainsTyped DEF Crash, TypeInv, TypeOK, ArgInv
  <2> QED BY <1>0, <1>12, <2>1
<1>3. CASE NextDay \/ NewStore \/ CleanDone \/ Close
  BY <1>1, <1>3 DEF NextDay, NewStore, CleanDone, Close
<1>4. CASE Encode \/ EncodeFails \/ EncodeDrops
  <2>1. /\ arg # NoRecord /\ arg' = NoRecord
        /\ current'.recs \subseteq current.recs \cup {arg}
        /\ UNCHANGED <<rotated, blocked, nextId>>
    <3>1. CASE Encode
      BY <3>1 DEF Encode, Return, TypeInv, TypeOK, ArgInv, File, OwnLine
    <3>2. CASE EncodeFails
      BY <3>2, RemainsTyped DEF EncodeFails, Return, TypeInv, TypeOK, ArgInv
    <3>3. CASE EncodeDrops
      BY <3>3 DEF EncodeDrops, Return, TypeInv, TypeOK, ArgInv
    <3> QED BY <1>4, <3>1, <3>2, <3>3
  <2> QED BY <1>12, <2>1
<1>6. ASSUME NEW ok \in BOOLEAN, ListOld(ok) \/ Reopen(ok) PROVE OnceInv'
  BY <1>1, <1>6 DEF ListOld, Reopen
<1>7. ASSUME NEW ok \in BOOLEAN, RemoveOldest(ok) PROVE OnceInv'
  <2>1. /\ DOMAIN rotated' \subseteq DOMAIN rotated
        /\ \A t \in DOMAIN rotated' : rotated'[t] = rotated[t]
        /\ UNCHANGED <<current, arg, blocked, nextId>>
    BY <1>7 DEF RemoveOldest
  <2>2. OnDisk' \subseteq OnDisk
    BY <2>1 DEF OnDisk
  <2>3. NumberInv' /\ ApartInv'
    BY <2>1, <2>2 DEF NumberInv, ApartInv
  <2>4. StoredOnce'
    BY <2>1 DEF StoredOnce
  <2> QED BY <2>3, <2>4
<1>8. ASSUME NEW ok \in BOOLEAN, Rename(ok) PROVE OnceInv'
  <2>1. CASE UNCHANGED diskVars
    BY <1>1, <1>8, <2>1 DEF Rename
  <2>2. CASE /\ rotated' = [t \in DOMAIN rotated \cup {dayTag} |->
                               IF t = dayTag THEN current ELSE rotated[t]]
             /\ current' = EmptyFile
    <3>1. /\ DOMAIN rotated' = DOMAIN rotated \cup {dayTag}
          /\ rotated'[dayTag] = current
          /\ \A t \in DOMAIN rotated' : t # dayTag => t \in DOMAIN rotated
                                                      /\ rotated'[t] = rotated[t]
          /\ current'.recs = {}
      BY <2>2 DEF EmptyFile
    <3>2. UNCHANGED <<arg, blocked, nextId>>
      BY <1>8 DEF Rename
    <3>3. OnDisk' \subseteq OnDisk
      BY <3>1 DEF OnDisk
    <3>4. NumberInv' /\ ApartInv'
      BY <3>2, <3>3 DEF NumberInv, ApartInv
    <3>5. StoredOnce'
      BY <3>1 DEF StoredOnce
    <3> QED BY <3>4, <3>5
  <2> QED BY <1>8, <2>1, <2>2 DEF Rename
<1>9. ASSUME NEW w \in Writers, CallWrite(w) PROVE OnceInv'
  <2>1. /\ blocked' = [blocked EXCEPT ![w] = [id |-> nextId, day |-> today]]
        /\ nextId' = nextId + 1
        /\ UNCHANGED <<current, rotated, arg>>
    BY <1>9 DEF CallWrite
  <2>2. /\ blocked'[w].id = nextId
        /\ \A v \in Writers : v # w => blocked'[v] = blocked[v]
    BY <2>1 DEF TypeInv, TypeOK
  <2>3. OnDisk' = OnDisk
    BY <2>1 DEF OnDisk
  <2>4. /\ \A rec \in OnDisk : rec.id \in Int
        /\ arg.id \in Int /\ \A v \in Writers : blocked[v].id \in Int
    BY <1>0 DEF TypeInv, TypeOK, OnDisk, File, Record
  <2>5. NumberInv'
    BY <1>0, <2>1, <2>2, <2>3, <2>4 DEF NumberInv
  <2>6. ApartInv'
    BY <1>0, <2>1, <2>2, <2>3, <2>4 DEF NumberInv, ApartInv
  <2>7. StoredOnce'
    BY <2>1 DEF StoredOnce
  <2> QED BY <2>5, <2>6, <2>7
<1>10. ASSUME NEW w \in Writers, BeginWrite(w) PROVE OnceInv'
  <2>1. /\ blocked[w] # NoRecord /\ arg' = blocked[w]
        /\ blocked' = [blocked EXCEPT ![w] = NoRecord]
        /\ UNCHANGED <<current, rotated, nextId>>
    BY <1>10 DEF BeginWrite
  <2>2. /\ blocked'[w] = NoRecord
        /\ \A v \in Writers : v # w => blocked'[v] = blocked[v]
    BY <2>1 DEF TypeInv, TypeOK
  <2>3. OnDisk' = OnDisk
    BY <2>1 DEF OnDisk
  <2>4. NumberInv'
    BY <1>0, <2>1, <2>2, <2>3 DEF NumberInv
  <2>5. ASSUME NEW v \in Writers, blocked'[v] # NoRecord
        PROVE  /\ \A rec \in OnDisk' : rec.id # blocked'[v].id
               /\ arg'.id # blocked'[v].id
               /\ \A u \in Writers : u # v => blocked'[u].id # blocked'[v].id
    <3>1. v # w /\ blocked'[v] = blocked[v]
      BY <2>2, <2>5
    <3>2. blocked[v].id # 0
      BY <2>5, <3>1 DEF TypeInv, TypeOK, Record
    <3> QED BY <1>0, <2>1, <2>2, <2>3, <2>5, <3>1, <3>2 DEF ApartInv
  <2>6. \A rec \in OnDisk' : rec.id # arg'.id
    BY <2>1, <2>3 DEF ApartInv
  <2>7. StoredOnce'
    BY <2>1 DEF StoredOnce
  <2> QED BY <2>4, <2>5, <2>6, <2>7 DEF ApartInv
<1>11. CASE UNCHANGED vars
  BY <1>1, <1>11 DEF vars
<1> QED BY <1>2, <1>3, <1>4, <1>6, <1>7, <1>8, <1>9, <1>10, <1>11 DEF Next

\* A record is on disk once, whatever writers, rotations, failures and
\* crashes come between its call and its line.
THEOREM StoredOnceCorrect == Spec => []StoredOnce
<1>1. Init => OnceInv
  BY DEF Init, OnceInv, NumberInv, ApartInv, StoredOnce, OnDisk, EmptyFile, NoRecord
<1>2. OnceInv => StoredOnce
  BY DEF OnceInv
<1> QED BY <1>1, <1>2, OnceStep, TypeAlways, PTL DEF Spec

(***************************************************************************)
(* 5. The number of rotated files.  A file that is not too old is told     *)
(* from the others by how many are younger, which is less than MaxDays.    *)
(***************************************************************************)
BoundInv ==
    ~fault => /\ Cardinality(DOMAIN rotated) <= MaxDays + 1
              /\ pc \in {"free", "rename", "reopen", "encode"} =>
                     Cardinality(DOMAIN rotated) <= MaxDays
              /\ pc = "remove" => Cardinality(DOMAIN rotated \ victims) <= MaxDays

LEMMA RotatedFinite == TypeInv => /\ IsFiniteSet(DOMAIN rotated)
                                  /\ Cardinality(DOMAIN rotated) \in Nat
<1> SUFFICES ASSUME TypeInv
             PROVE  IsFiniteSet(DOMAIN rotated) /\ Cardinality(DOMAIN rotated) \in Nat
  OBVIOUS
<1>1. IsFiniteSet(0 .. LastDay)
  BY ConstantsAssumption, FS_Interval
<1>2. IsFiniteSet(DOMAIN rotated)
  BY <1>1, FS_Subset DEF TypeInv, TypeOK
<1> QED BY <1>2, FS_CardinalityType

LEMMA KeptAreFew ==
    ASSUME TypeInv
    PROVE  Cardinality(DOMAIN rotated \ TooOld) <= MaxDays
<1> DEFINE Younger(t) == {u \in DOMAIN rotated : u > t}
           K == DOMAIN rotated \ TooOld
           rank == [t \in K |-> Cardinality(Younger(t))]
<1> USE ConstantsAssumption
<1>1. ASSUME NEW t \in DOMAIN rotated
      PROVE  IsFiniteSet(Younger(t)) /\ Cardinality(Younger(t)) \in Nat
  <2>1. IsFiniteSet(Younger(t))
    BY RotatedFinite, FS_Subset
  <2> QED BY <2>1, FS_CardinalityType
<1>2. rank \in [K -> 0 .. MaxDays - 1]
  <2>1. ASSUME NEW t \in K PROVE Cardinality(Younger(t)) \in 0 .. MaxDays - 1
    <3>1. ~(Cardinality(Younger(t)) >= MaxDays)
      BY DEF TooOld
    <3> QED BY <1>1, <3>1
  <2> QED BY <2>1
<1>3. ASSUME NEW s \in K, NEW t \in K, s < t PROVE rank[s] # rank[t]
  <2>1. /\ Younger(t) \in SUBSET Younger(s)
        /\ t \in Younger(s) /\ t \notin Younger(t)
    BY <1>3 DEF TypeInv, TypeOK
  <2>2. Cardinality(Younger(s)) # Cardinality(Younger(t))
    BY <1>1, <2>1, FS_Subset
  <2> QED BY <2>2
<1>4. ASSUME NEW s \in K, NEW t \in K, s # t PROVE rank[s] # rank[t]
  <2>1. s < t \/ t < s
    BY <1>4 DEF TypeInv, TypeOK
  <2> QED BY <1>3, <2>1
<1>5. rank \in Injection(K, 0 .. MaxDays - 1)
  BY <1>2, <1>4 DEF Injection, IsInjective
<1>6. IsFiniteSet(0 .. MaxDays - 1) /\ Cardinality(0 .. MaxDays - 1) = MaxDays
  <2>1. Cardinality(0 .. MaxDays - 1) =
            IF 0 > MaxDays - 1 THEN 0 ELSE MaxDays - 1 - 0 + 1
    BY FS_Interval
  <2>2. IsFiniteSet(0 .. MaxDays - 1)
    BY FS_Interval
  <2> QED BY <2>1, <2>2
<1> QED BY <1>5, <1>6, FS_Injection

LEMMA BoundStep == TypeInv /\ BoundInv /\ [Next]_vars => BoundInv'
<1> SUFFICES ASSUME TypeInv, BoundInv, [Next]_vars PROVE BoundInv'
  OBVIOUS
<1> USE ConstantsAssumption DEF BoundInv, diskVars, processVars, historyVars
<1>1. CASE NextDay \/ Crash \/ NewStore \/ Close
  BY <1>1 DEF NextDay, Crash, NewStore, Close
<1>2. CASE Encode \/ EncodeFails \/ EncodeDrops
  BY <1>2 DEF Encode, EncodeFails, EncodeDrops, Return
<1>3. CASE CleanDone
  <2>1. /\ pc = "remove" /\ victims = {} /\ UNCHANGED <<rotated, fault>>
        /\ pc' \in {"free", "reopen"}
    BY <1>3 DEF CleanDone
  <2>2. DOMAIN rotated \ victims = DOMAIN rotated
    BY <2>1
  <2> QED BY <2>1, <2>2
<1>4. ASSUME NEW ok \in BOOLEAN, ListOld(ok) PROVE BoundInv'
  <2>1. pc' = "remove" /\ UNCHANGED rotated /\ fault' = (fault \/ ~ok)
        /\ (ok => victims' = TooOld)
    BY <1>4 DEF ListOld
  <2> QED BY <2>1, KeptAreFew
<1>5. ASSUME NEW ok \in BOOLEAN, RemoveOldest(ok) PROVE BoundInv'
  <2>1. pc = "remove" /\ pc' = "remove" /\ fault' = (fault \/ ~ok)
    BY <1>5 DEF RemoveOldest
  <2>2. CASE ok
    <3>1. PICK t \in victims : /\ victims' = victims \ {t}
                               /\ DOMAIN rotated' = DOMAIN rotated \ {t}
      BY <1>5, <2>2 DEF RemoveOldest
    <3>2. DOMAIN rotated' \ victims' = DOMAIN rotated \ victims
      BY <3>1
    <3>3. /\ Cardinality(DOMAIN rotated') <= Cardinality(DOMAIN rotated)
          /\ IsFiniteSet(DOMAIN rotated')
      BY <3>1, RotatedFinite, FS_Subset
    <3>4. Cardinality(DOMAIN rotated') \in Nat
      BY <3>3, FS_CardinalityType
    <3>5. Cardinality(DOMAIN rotated) \in Nat
      BY RotatedFinite
    <3>6. ~fault => /\ Cardinality(DOMAIN rotated') <= MaxDays + 1
                    /\ Cardinality(DOMAIN rotated' \ victims') <= MaxDays
      BY <2>1, <3>2, <3>3, <3>4, <3>5
    <3> QED BY <2>1, <3>6
  <2>3. CASE ~ok
    BY <2>1, <2>3
  <2> QED BY <2>2, <2>3
<1>6. ASSUME NEW ok \in BOOLEAN, Rename(ok) PROVE BoundInv'
  <2>1. pc = "rename" /\ pc' = "list" /\ fault' = (fault \/ ~ok)
    BY <1>6 DEF Rename
  <2>2. CASE ok
    <3>1. DOMAIN rotated' = DOMAIN rotated \cup {dayTag}
      BY <1>6, <2>2 DEF Rename
    <3>2. IsFiniteSet(DOMAIN rotated) /\ Cardinality(DOMAIN rotated) \in Nat
      BY RotatedFinite
    <3>3. Cardinality(DOMAIN rotated \cup {dayTag}) =
              IF dayTag \in DOMAIN rotated THEN Cardinality(DOMAIN rotated)
                                           ELSE Cardinality(DOMAIN rotated) + 1
      BY <3>2, FS_AddElement
    <3>4. Cardinality(DOMAIN rotated \cup {dayTag}) <= Cardinality(DOMAIN rotated) + 1
          /\ Cardinality(DOMAIN rotated \cup {dayTag}) \in Nat
      BY <3>2, <3>3
    <3>5. ~fault => Cardinality(DOMAIN rotated \cup {dayTag}) <= MaxDays + 1
      BY <2>1, <3>2, <3>4
    <3> QED BY <2>1, <3>1, <3>5
  <2>3. CASE ~ok
    BY <2>1, <2>3
  <2> QED BY <2>2, <2>3
<1>7. ASSUME NEW ok \in BOOLEAN, Reopen(ok) PROVE BoundInv'
  BY <1>7 DEF Reopen
<1>8. ASSUME NEW w \in Writers, CallWrite(w) \/ BeginWrite(w) PROVE BoundInv'
  BY <1>8 DEF CallWrite, BeginWrite
<1>9. CASE UNCHANGED vars
  BY <1>9 DEF vars
<1> QED BY <1>1, <1>2, <1>3, <1>4, <1>5, <1>6, <1>7, <1>8, <1>9 DEF Next

\* When nothing fails there are never more rotated files than MaxDays and the
\* one just renamed, for every MaxDays and however often the process crashes
\* between a rename and the removals.
THEOREM RotatedBoundedCorrect == Spec => []RotatedBounded
<1>1. Init => BoundInv
  BY ConstantsAssumption, FS_EmptySet DEF Init, BoundInv
<1>2. BoundInv => RotatedBounded
  BY DEF BoundInv, RotatedBounded
<1> QED BY <1>1, <1>2, BoundStep, TypeAlways, PTL DEF Spec
=============================================================================
