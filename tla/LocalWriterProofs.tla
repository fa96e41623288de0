------------------------- MODULE LocalWriterProofs -------------------------
(***************************************************************************)
(* Proofs about LocalWriter for every rotation interval, number of kept    *)
(* files and number of snapshots, with and without faults and crashes.     *)
(***************************************************************************)
EXTENDS LocalWriter, SequenceTheorems, FiniteSetTheorems, TLAPS

USE ConstantsAssumption

(***************************************************************************)
(* 1. Types.  cleanOldFiles removes a file by its position, which has to   *)
(* be one of the rotated files: RemovalInv says how many there are.        *)
(***************************************************************************)
\* While old files are removed there are those to keep, those still to remove
\* and those that could not be removed.
RemovalInv ==
    /\ pc # "remove" => excess = 0 /\ kept = 0
    /\ pc = "remove" =>
           IF excess > 0 THEN Len(rotated) = MaxFiles + excess + kept
                         ELSE Len(rotated) <= MaxFiles + kept

TypeInv == TypeOK /\ RemovalInv /\ (pc = "write" => taken # 0)

Without(seq, k) == SubSeq(seq, 1, k) \o SubSeq(seq, k + 2, Len(seq))

\* Removing the file at position k + 1 moves those behind it one place down.
LEMMA WithoutOne ==
    ASSUME NEW S, NEW seq \in Seq(S), NEW k \in Nat, k < Len(seq)
    PROVE  /\ Without(seq, k) \in Seq(S)
           /\ Len(Without(seq, k)) = Len(seq) - 1
           /\ \A i \in 1 .. Len(seq) - 1 :
                  Without(seq, k)[i] = IF i <= k THEN seq[i] ELSE seq[i + 1]
<1> DEFINE a == SubSeq(seq, 1, k)
           b == SubSeq(seq, k + 2, Len(seq))
<1>0. Len(seq) \in Nat /\ \A i \in 1 .. Len(seq) : seq[i] \in S
  BY LenProperties, ElementOfSeq
<1>1. /\ a \in Seq(S) /\ Len(a) = k
      /\ \A i \in 1 .. k : a[i] = seq[i]
  <2>1. \A i \in 1 .. k : seq[i] \in S
    BY <1>0
  <2>2. /\ a \in Seq(S) /\ Len(a) = IF 1 <= k THEN k - 1 + 1 ELSE 0
        /\ \A i \in 1 .. k - 1 + 1 : a[i] = seq[1 + i - 1]
    BY <2>1, SubSeqProperties
  <2>3. \A i \in 1 .. k : 1 + i - 1 = i /\ i \in 1 .. k - 1 + 1
    OBVIOUS
  <2> QED BY <2>2, <2>3
<1>2. /\ b \in Seq(S) /\ Len(b) = Len(seq) - 1 - k
      /\ \A i \in 1 .. Len(seq) - 1 - k : b[i] = seq[k + 1 + i]
  <2>1. \A i \in k + 2 .. Len(seq) : seq[i] \in S
    BY <1>0
  <2>2. /\ b \in Seq(S)
        /\ Len(b) = IF k + 2 <= Len(seq) THEN Len(seq) - (k + 2) + 1 ELSE 0
        /\ \A i \in 1 .. Len(seq) - (k + 2) + 1 : b[i] = seq[(k + 2) + i - 1]
    BY <1>0, <2>1, SubSeqProperties
  <2>3. \A i \in 1 .. Len(seq) - 1 - k : /\ (k + 2) + i - 1 = k + 1 + i
                                       /\ i \in 1 .. Len(seq) - (k + 2) + 1
    BY <1>0
  <2>4. Len(b) = Len(seq) - 1 - k
    BY <1>0, <2>2
  <2> QED BY <2>2, <2>3, <2>4
<1> HIDE DEF a, b
<1>3. /\ a \o b \in Seq(S) /\ Len(a \o b) = Len(a) + Len(b)
      /\ \A i \in 1 .. Len(a) + Len(b) :
             (a \o b)[i] = IF i <= Len(a) THEN a[i] ELSE b[i - Len(a)]
  BY <1>1, <1>2, ConcatProperties
<1>4. Without(seq, k) = a \o b
  BY DEF Without, a, b
<1>5. ASSUME NEW i \in 1 .. Len(seq) - 1
      PROVE  (a \o b)[i] = IF i <= k THEN seq[i] ELSE seq[i + 1]
  <2>1. i \in 1 .. Len(a) + Len(b)
    BY <1>0, <1>1, <1>2
  <2>2. CASE i <= k
    BY <1>1, <1>3, <2>1, <2>2
  <2>3. CASE i > k
    <3>1. i - k \in 1 .. Len(seq) - 1 - k /\ k + 1 + (i - k) = i + 1
      BY <1>0, <2>3
    <3>2. b[i - k] = seq[k + 1 + (i - k)]
      BY <1>2, <3>1
    <3>3. (a \o b)[i] = b[i - k]
      BY <1>1, <1>3, <2>1, <2>3
    <3> QED BY <2>3, <3>1, <3>2, <3>3
  <2>4. i <= k \/ i > k
    BY <1>0
  <2> QED BY <2>2, <2>3, <2>4
<1>6. Len(a) + Len(b) = Len(seq) - 1
  BY <1>0, <1>1, <1>2
<1> QED BY <1>3, <1>4, <1>5, <1>6

LEMMA TypeInit == Init => TypeInv
<1> SUFFICES ASSUME Init PROVE TypeInv
  OBVIOUS
<1>1. rotated \in Seq(File)
  BY EmptySeq DEF Init
<1>2. 0 \in 0 .. Rotate /\ 0 \in 0 .. MaxSnaps
  OBVIOUS
<1>3. {} \subseteq Snaps
  OBVIOUS
<1>4. RemovalInv /\ (pc = "write" => taken # 0)
  BY DEF Init, RemovalInv
<1> QED BY <1>1, <1>2, <1>3, <1>4 DEF Init, TypeInv, TypeOK

\* What one rename does to the rotated files.
LEMMA RenameAppends ==
    ASSUME TypeInv, NEW ok \in BOOLEAN, Rename(ok), pc' = "remove"
    PROVE  /\ rotated' = Append(rotated, [snaps |-> current, upto |-> taken])
           /\ rotated' \in Seq(File)
           /\ Len(rotated) \in Nat
           /\ Len(rotated') = Len(rotated) + 1
           /\ \A i \in 1 .. Len(rotated) : rotated'[i] = rotated[i]
           /\ rotated'[Len(rotated) + 1] = [snaps |-> current, upto |-> taken]
<1>1. rotated' = Append(rotated, [snaps |-> current, upto |-> taken])
  BY DEF Rename, Goto
<1>2. rotated \in Seq(File) /\ [snaps |-> current, upto |-> taken] \in File
  BY DEF TypeInv, TypeOK, File
<1>3. Len(rotated) \in Nat
  BY <1>2, LenProperties
<1> QED BY <1>1, <1>2, <1>3, AppendProperties

\* What one removal does to them: it never touches the MaxFiles newest.
LEMMA RemoveDrops ==
    ASSUME TypeInv, RemoveOldest(TRUE)
    PROVE  /\ rotated' \in Seq(File)
           /\ Len(rotated) \in Nat
           /\ Len(rotated') = Len(rotated) - 1
           /\ kept \in Nat /\ kept + 1 <= Len(rotated) - MaxFiles
           /\ \A i \in 1 .. Len(rotated) - 1 :
                  rotated'[i] = IF i <= kept THEN rotated[i] ELSE rotated[i + 1]
<1>1. /\ pc = "remove" /\ excess > 0
      /\ rotated' = Without(rotated, kept)
  BY DEF RemoveOldest, Without
<1>2. rotated \in Seq(File) /\ kept \in Nat /\ excess \in Nat
  BY DEF TypeInv, TypeOK
<1>3. Len(rotated) = MaxFiles + excess + kept
  BY <1>1 DEF TypeInv, RemovalInv
<1>4. Len(rotated) \in Nat /\ kept < Len(rotated) /\ kept + 1 <= Len(rotated) - MaxFiles
  BY <1>1, <1>2, <1>3
<1> QED BY <1>1, <1>2, <1>4, WithoutOne

\* What a write that stops leaves of the last line.
LEMMA StopsTyped ==
    ASSUME cut \in BOOLEAN
    PROVE  \A mayCut \in BOOLEAN : WriteStops(mayCut) => cut' \in BOOLEAN
BY DEF WriteStops

LEMMA TypeStep == TypeInv /\ [Next]_vars => TypeInv'
<1> SUFFICES ASSUME TypeInv, [Next]_vars PROVE TypeInv'
  OBVIOUS
<1> USE DEF TypeInv, TypeOK, RemovalInv, Snaps, Goto, diskVars, loopVars, snapVars
<1>0. Len(rotated) \in Nat
  BY LenProperties
<1>1. CASE New \/ Stop \/ StopReturns \/ Exit \/ TimePasses
  <2>1. CASE New
    BY <1>0, <2>1 DEF New
  <2>2. CASE Stop \/ StopReturns
    BY <1>0, <2>2 DEF Stop, StopReturns
  <2>3. CASE Exit
    <3>1. /\ pc' = "down" /\ final' = FALSE /\ file' = "nil"
          /\ excess' = 0 /\ kept' = 0 /\ stopper' = "running" /\ stopAt' = 0
          /\ age' = 0 /\ cut' \in BOOLEAN
          /\ UNCHANGED <<exists, current, rotated, snapVars, fault>>
      BY <2>3, StopsTyped DEF Exit
    <3>2. stopAt' \in 0 .. MaxSnaps /\ excess' \in Nat /\ kept' \in Nat
      BY <3>1
    <3>3. /\ exists' \in BOOLEAN /\ current' \subseteq 1 .. MaxSnaps
          /\ rotated' \in Seq(File) /\ age' \in 0 .. Rotate
          /\ taken' \in 0 .. MaxSnaps /\ synced' \subseteq 1 .. MaxSnaps
          /\ final' \in BOOLEAN /\ fault' \in BOOLEAN
      <4>1. 0 \in 0 .. Rotate
        OBVIOUS
      <4> QED BY <3>1, <4>1
    <3>4. RemovalInv' /\ (pc' = "write" => taken' # 0)
      BY <3>1
    <3> QED BY <3>1, <3>2, <3>3, <3>4
  <2>4. CASE TimePasses
    <3>1. age' \in 0 .. Rotate
      BY <2>4 DEF TimePasses
    <3> QED BY <1>0, <2>4, <3>1 DEF TimePasses
  <2> QED BY <1>1, <2>1, <2>2, <2>3, <2>4
<1>2. CASE SelectTick \/ SelectStop
  BY <1>0, <1>2 DEF SelectTick, SelectStop
<1>3. CASE Snapshot
  <2>1. CASE CollectRaw
    BY <1>0, <2>1 DEF CollectRaw
  <2>2. CASE CollectNothing
    BY <1>0, <2>2 DEF CollectNothing, AfterSnapshot
  <2>3. CASE Write
    <3>1. current' \subseteq 1 .. MaxSnaps /\ synced' \subseteq 1 .. MaxSnaps
      BY <2>3 DEF Write, Whole
    <3> QED BY <1>0, <2>3, <3>1 DEF Write, AfterSnapshot
  <2>4. ASSUME NEW broken \in BOOLEAN, WriteFails(broken) PROVE TypeInv'
    <3>1. cut' \in BOOLEAN
      BY <2>4, StopsTyped DEF WriteFails
    <3> QED BY <1>0, <2>4, <3>1 DEF WriteFails, AfterSnapshot
  <2> QED BY <1>3, <2>1, <2>2, <2>3, <2>4 DEF Snapshot
<1>4. ASSUME NEW ok \in BOOLEAN, Rename(ok) PROVE TypeInv'
  <2>1. CASE pc' = "remove"
    <3>1. /\ rotated' \in Seq(File) /\ Len(rotated') = Len(rotated) + 1
      BY <1>4, <2>1, RenameAppends
    <3>2. /\ pc = "close" /\ file' = "nil"
          /\ current' = {} /\ exists' = FALSE /\ cut' = FALSE
          /\ excess' = IF Len(rotated) + 1 > MaxFiles
                       THEN Len(rotated) + 1 - MaxFiles ELSE 0
          /\ fault' \in BOOLEAN
          /\ UNCHANGED <<final, age, kept, stopper, snapVars, stopAt>>
      BY <1>4, <2>1 DEF Rename
    <3>3. excess' \in Nat /\ (excess' > 0 => Len(rotated') = MaxFiles + excess')
          /\ (excess' = 0 => Len(rotated') <= MaxFiles)
      BY <1>0, <3>1, <3>2
    <3>4. RemovalInv'
      BY <2>1, <3>2, <3>3
    <3>5. /\ exists' \in BOOLEAN /\ current' \subseteq 1 .. MaxSnaps
          /\ file' \in {"nil", "ok", "broken"} /\ cut' \in BOOLEAN
      BY <3>2
    <3> QED BY <2>1, <3>1, <3>2, <3>3, <3>4, <3>5
  <2>2. CASE pc' # "remove"
    BY <1>0, <1>4, <2>2 DEF Rename
  <2> QED BY <2>1, <2>2
<1>5. ASSUME NEW ok \in BOOLEAN, RemoveOldest(ok) PROVE TypeInv'
  <2>1. /\ pc = "remove" /\ excess > 0 /\ excess' = excess - 1
        /\ fault' = (fault \/ ~ok)
        /\ UNCHANGED <<exists, current, cut, pc, final, file, age, stopper, snapVars, stopAt>>
    BY <1>5 DEF RemoveOldest
  <2>2. Len(rotated) = MaxFiles + excess + kept
    BY <2>1
  <2>3. CASE ok
    <3>1. RemoveOldest(TRUE)
      BY <1>5, <2>3 DEF RemoveOldest
    <3>2. rotated' \in Seq(File) /\ Len(rotated') = Len(rotated) - 1
      BY <3>1, RemoveDrops
    <3>3. kept' = kept
      BY <3>1 DEF RemoveOldest
    <3> QED BY <2>1, <2>2, <3>2, <3>3
  <2>4. CASE ~ok
    <3>1. kept' = kept + 1 /\ rotated' = rotated
      BY <1>5, <2>4 DEF RemoveOldest
    <3> QED BY <2>1, <2>2, <3>1
  <2> QED BY <2>3, <2>4
<1>6. CASE RemovalDone
  BY <1>0, <1>6 DEF RemovalDone
<1>7. ASSUME NEW ok \in BOOLEAN, Open(ok) PROVE TypeInv'
  BY <1>0, <1>7 DEF Open
<1>8. CASE UNCHANGED vars
  BY <1>8 DEF vars
<1> QED BY <1>1, <1>2, <1>3, <1>4, <1>5, <1>6, <1>7, <1>8 DEF Next, Rotation

\* Every variable keeps its type.
THEOREM TypeCorrect == Spec => []TypeOK
<1>1. Spec => []TypeInv
  BY TypeInit, TypeStep, PTL DEF Spec
<1> QED BY <1>1, PTL DEF TypeInv

LEMMA TypeAlways == Spec => []TypeInv
BY TypeInit, TypeStep, PTL DEF Spec

(***************************************************************************)
(* 2. The number of rotated files.                                         *)
(***************************************************************************)
CountInv == ~fault => /\ kept = 0
                      /\ pc = "open" => Len(rotated) <= MaxFiles

LEMMA CountStep == TypeInv /\ CountInv /\ [Next]_vars => CountInv'
<1> SUFFICES ASSUME TypeInv, CountInv, [Next]_vars PROVE CountInv'
  OBVIOUS
<1> USE DEF CountInv, Goto, diskVars, loopVars, snapVars
<1>1. CASE New \/ Stop \/ StopReturns \/ Exit \/ TimePasses \/ SelectTick \/ SelectStop
  BY <1>1 DEF New, Stop, StopReturns, Exit, TimePasses, SelectTick, SelectStop
<1>2. CASE Snapshot
  BY <1>2 DEF Snapshot, CollectRaw, CollectNothing, Write, WriteFails, AfterSnapshot
<1>3. ASSUME NEW ok \in BOOLEAN, Rename(ok) PROVE CountInv'
  BY <1>3 DEF Rename
<1>4. ASSUME NEW ok \in BOOLEAN, RemoveOldest(ok) PROVE CountInv'
  <2>1. pc' = "remove" /\ fault' = (fault \/ ~ok) /\ (ok => kept' = kept)
    BY <1>4 DEF RemoveOldest
  <2> QED BY <2>1
<1>5. CASE RemovalDone
  <2>1. pc = "remove" /\ excess = 0 /\ kept' = 0 /\ UNCHANGED <<rotated, fault>>
    BY <1>5 DEF RemovalDone
  <2>2. ~fault => Len(rotated) <= MaxFiles + 0 /\ MaxFiles + 0 = MaxFiles
    BY <2>1 DEF TypeInv, RemovalInv
  <2> QED BY <2>1, <2>2
<1>6. ASSUME NEW ok \in BOOLEAN, Open(ok) PROVE CountInv'
  BY <1>6 DEF Open
<1>7. CASE UNCHANGED vars
  BY <1>7 DEF vars
<1> QED BY <1>1, <1>2, <1>3, <1>4, <1>5, <1>6, <1>7 DEF Next, Rotation

\* When nothing has failed a rotation leaves at most MaxFiles rotated files,
\* whenever earlier processes were killed and for every MaxFiles.
THEOREM AtMostMaxFilesCorrect == Spec => []AtMostMaxFiles
<1>1. Init => CountInv
  BY DEF Init, CountInv
<1>2. Spec => []CountInv
  BY <1>1, CountStep, TypeAlways, PTL DEF Spec
<1>3. CountInv => AtMostMaxFiles
  BY DEF CountInv, AtMostMaxFiles
<1> QED BY <1>2, <1>3, PTL

(***************************************************************************)
(* 3. The last snapshot.  After the select has taken stopCh, loop collects *)
(* and writes once more; until something fails the file is open for it and *)
(* its last line complete: a line left cut by a process that was killed is *)
(* continued by the snapshot loop takes before its first select.           *)
(***************************************************************************)
StopInv ==
    /\ stopper # "running" => stopAt <= taken
    /\ stopper = "returned" => pc = "done"
    /\ pc = "done" => final
    /\ final => stopper # "running" /\ pc \in {"collect", "write", "done"}
    /\ final /\ pc \in {"write", "done"} /\ ~fault /\ stopAt < MaxSnaps => taken > stopAt
    /\ ~fault /\ pc \in {"collect", "write", "select", "close"} => file = "ok"
    /\ ~fault /\ (final \/ pc \in {"select", "close", "remove", "open"}) => ~cut
    /\ pc = "done" /\ ~fault => taken \in current

LEMMA StopStep == TypeInv /\ StopInv /\ [Next]_vars => StopInv'
<1> SUFFICES ASSUME TypeInv, StopInv, [Next]_vars PROVE StopInv'
  OBVIOUS
<1> USE DEF StopInv, Goto, AfterSnapshot, diskVars, loopVars, snapVars
<1>0. taken \in 0 .. MaxSnaps /\ stopAt \in 0 .. MaxSnaps
  BY DEF TypeInv, TypeOK
<1>1. CASE New
  BY <1>1 DEF New
<1>2. CASE Stop
  BY <1>0, <1>2 DEF Stop
<1>3. CASE StopReturns
  BY <1>3 DEF StopReturns
<1>4. CASE Exit
  <2>1. pc' = "down" /\ final' = FALSE /\ stopper' = "running"
    BY <1>4 DEF Exit
  <2> QED BY <2>1
<1>5. CASE TimePasses
  BY <1>5 DEF TimePasses
<1>6. CASE SelectTick \/ SelectStop
  BY <1>6 DEF SelectTick, SelectStop
<1>7. CASE CollectRaw
  <2>1. taken' = IF taken < MaxSnaps THEN taken + 1 ELSE taken
    BY <1>7 DEF CollectRaw
  <2>2. taken' >= taken /\ (stopAt <= taken /\ stopAt < MaxSnaps => taken' > stopAt)
    BY <1>0, <2>1
  <2> QED BY <1>0, <1>7, <2>1, <2>2 DEF CollectRaw
<1>8. CASE CollectNothing
  BY <1>8 DEF CollectNothing
<1>9. CASE Write
  BY <1>9 DEF Write, Whole
<1>10. ASSUME NEW broken \in BOOLEAN, WriteFails(broken) PROVE StopInv'
  BY <1>10 DEF WriteFails
<1>11. ASSUME NEW ok \in BOOLEAN, Rename(ok) PROVE StopInv'
  BY <1>11 DEF Rename
<1>12. ASSUME NEW ok \in BOOLEAN, RemoveOldest(ok) PROVE StopInv'
  <2>1. /\ pc = "remove" /\ (fault => fault')
        /\ UNCHANGED <<current, cut, pc, final, file, stopper, snapVars, stopAt>>
    BY <1>12 DEF RemoveOldest
  <2> QED BY <2>1
<1>13. CASE RemovalDone
  BY <1>13 DEF RemovalDone
<1>14. ASSUME NEW ok \in BOOLEAN, Open(ok) PROVE StopInv'
  BY <1>14 DEF Open
<1>15. CASE UNCHANGED vars
  BY <1>15 DEF vars
<1> QED BY <1>1, <1>2, <1>3, <1>4, <1>5, <1>6, <1>7, <1>8, <1>9, <1>10, <1>11, <1>12,
           <1>13, <1>14, <1>15 DEF Next, Snapshot, Rotation

\* When Stop returns and nothing failed, a snapshot taken after the call is
\* in the file, wherever in its loop the goroutine was.
THEOREM FinalSnapshotCorrect == Spec => []FinalSnapshot
<1>1. Init => StopInv
  BY DEF Init, StopInv
<1>2. Spec => []StopInv
  BY <1>1, StopStep, TypeAlways, PTL DEF Spec
<1>3. StopInv => FinalSnapshot
  BY DEF StopInv, FinalSnapshot
<1> QED BY <1>2, <1>3, PTL

(***************************************************************************)
(* 4. Retention.  Files are in the order of their rotation, so a snapshot  *)
(* is only gone when the MaxFiles-th newest file was rotated after it.     *)
(***************************************************************************)
Rotated == 1 .. Len(rotated)

\* The file cleanOldFiles never reaches was rotated after snapshot s.
Outlived(s) == /\ Len(rotated) >= MaxFiles
               /\ rotated[Len(rotated) - MaxFiles + 1].upto >= s

Found(s) == s \in current \/ \E i \in Rotated : s \in rotated[i].snaps

OrderInv ==
    /\ \A s \in current : s <= taken
    /\ \A i \in Rotated : /\ rotated[i].upto <= taken
                          /\ \A s \in rotated[i].snaps : s <= rotated[i].upto
    /\ \A i, j \in Rotated : i <= j => rotated[i].upto <= rotated[j].upto

KeptInv == \A s \in synced : Found(s) \/ Outlived(s)

RetentionInv == OrderInv /\ KeptInv

LEMMA RotatedType == TypeInv => /\ Len(rotated) \in Nat
                                /\ \A i \in Rotated : /\ rotated[i] \in File
                                                      /\ rotated[i].snaps \subseteq Snaps
                                                      /\ rotated[i].upto \in Int
                                /\ taken \in Int /\ synced \subseteq Int
                                /\ current \subseteq Int
<1> SUFFICES ASSUME TypeInv PROVE /\ Len(rotated) \in Nat
                                  /\ \A i \in Rotated : /\ rotated[i] \in File
                                                      /\ rotated[i].snaps \subseteq Snaps
                                                      /\ rotated[i].upto \in Int
                                  /\ taken \in Int /\ synced \subseteq Int
                                  /\ current \subseteq Int
  OBVIOUS
<1>1. rotated \in Seq(File)
  BY DEF TypeInv, TypeOK
<1>2. Len(rotated) \in Nat
  BY <1>1, LenProperties
<1>3. \A i \in Rotated : rotated[i] \in File
  BY <1>1, ElementOfSeq DEF Rotated
<1>4. \A f \in File : f.snaps \subseteq Snaps /\ f.upto \in Int
  BY DEF File
<1> QED BY <1>2, <1>3, <1>4 DEF TypeInv, TypeOK, Snaps

\* A rotation: the file at DBPath becomes the newest rotated one.
LEMMA RenameRetains ==
    ASSUME TypeInv, RetentionInv, NEW ok \in BOOLEAN, Rename(ok), pc' = "remove"
    PROVE  RetentionInv'
<1> DEFINE n == Len(rotated)
<1>1. /\ n \in Nat /\ Len(rotated') = n + 1
      /\ \A i \in 1 .. n : rotated'[i] = rotated[i]
      /\ rotated'[n + 1].snaps = current /\ rotated'[n + 1].upto = taken
  BY RenameAppends
<1>2. current' = {} /\ UNCHANGED <<taken, synced>>
  BY DEF Rename, Goto, snapVars
<1>3. \A i \in 1 .. n + 1 : i \in 1 .. n \/ i = n + 1
  BY <1>1
<1>4. \A i \in 1 .. n : rotated[i].upto \in Int /\ rotated[i].upto <= taken /\ taken \in Int
  BY RotatedType DEF RetentionInv, OrderInv, Rotated
<1>5. OrderInv'
  <2>1. ASSUME NEW i \in 1 .. n + 1
        PROVE  /\ rotated'[i].upto <= taken
               /\ \A s \in rotated'[i].snaps : s <= rotated'[i].upto
    <3>1. CASE i \in 1 .. n
      BY <1>1, <3>1 DEF RetentionInv, OrderInv, Rotated
    <3>2. CASE i = n + 1
      BY <1>1, <3>2, RotatedType DEF RetentionInv, OrderInv
    <3> QED BY <1>3, <3>1, <3>2
  <2>2. ASSUME NEW i \in 1 .. n + 1, NEW j \in 1 .. n + 1, i <= j
        PROVE  rotated'[i].upto <= rotated'[j].upto
    <3>1. CASE j \in 1 .. n
      <4>1. i \in 1 .. n
        BY <1>1, <2>2, <3>1
      <4> QED BY <1>1, <2>2, <3>1, <4>1 DEF RetentionInv, OrderInv, Rotated
    <3>2. CASE j = n + 1
      BY <1>1, <2>1, <3>2
    <3> QED BY <1>3, <3>1, <3>2
  <2> QED BY <1>1, <1>2, <2>1, <2>2 DEF OrderInv, Rotated
<1>6. ASSUME NEW s \in synced PROVE Found(s)' \/ Outlived(s)'
  <2>1. CASE Found(s)
    <3>1. CASE s \in current
      <4>1. n + 1 \in 1 .. n + 1
        BY <1>1
      <4> QED BY <1>1, <3>1, <4>1 DEF Found, Rotated
    <3>2. CASE \E i \in 1 .. n : s \in rotated[i].snaps
      <4>1. PICK i \in 1 .. n : s \in rotated[i].snaps
        BY <3>2
      <4>2. i \in 1 .. n + 1 /\ s \in rotated'[i].snaps
        BY <1>1, <4>1
      <4> QED BY <1>1, <4>2 DEF Found, Rotated
    <3> QED BY <2>1, <3>1, <3>2 DEF Found, Rotated
  <2>2. CASE Outlived(s)
    <3> DEFINE k == n - MaxFiles + 1
    <3>1. n >= MaxFiles /\ k \in 1 .. n /\ rotated[k].upto >= s
      BY <1>1, <2>2 DEF Outlived
    <3>2. k + 1 \in 1 .. n + 1 /\ k \in 1 .. n + 1 /\ k + 1 = (n + 1) - MaxFiles + 1
      BY <1>1, <3>1
    <3>3. rotated'[k].upto = rotated[k].upto /\ rotated'[k].upto <= rotated'[k + 1].upto
      BY <1>1, <1>5, <3>1, <3>2, SMTT(30) DEF OrderInv, Rotated
    <3>4. rotated'[k + 1].upto \in Int
      <4>1. CASE k + 1 \in 1 .. n
        BY <1>1, <1>4, <4>1
      <4>2. CASE k + 1 = n + 1
        BY <1>1, <4>2, RotatedType
      <4> QED BY <1>3, <3>2, <4>1, <4>2
    <3>5. rotated'[k + 1].upto >= s
      BY <1>4, <3>1, <3>3, <3>4, RotatedType
    <3> QED BY <1>1, <3>1, <3>2, <3>5 DEF Outlived
  <2> QED BY <2>1, <2>2 DEF RetentionInv, KeptInv
<1> QED BY <1>2, <1>5, <1>6 DEF RetentionInv, KeptInv

\* A removal: the file removed is older than the MaxFiles newest ones.
LEMMA RemoveRetains ==
    ASSUME TypeInv, RetentionInv, RemoveOldest(TRUE)
    PROVE  RetentionInv'
<1> DEFINE n == Len(rotated)
           k == kept + 1
           Old(i) == IF i <= kept THEN i ELSE i + 1
<1>1. /\ n \in Nat /\ kept \in Nat /\ k \in 1 .. n /\ k <= n - MaxFiles
      /\ Len(rotated') = n - 1
      /\ \A i \in 1 .. n - 1 : rotated'[i] = IF i <= kept THEN rotated[i] ELSE rotated[i + 1]
  BY RemoveDrops
<1>2. UNCHANGED <<current, taken, synced>>
  BY DEF RemoveOldest, snapVars
<1>3. \A i \in 1 .. n - 1 : Old(i) \in 1 .. n /\ rotated'[i] = rotated[Old(i)]
  BY <1>1
<1>4. \A i, j \in 1 .. n - 1 : i <= j => Old(i) <= Old(j)
  BY <1>1
<1>5. OrderInv'
  BY <1>1, <1>2, <1>3, <1>4 DEF RetentionInv, OrderInv, Rotated
<1> DEFINE m == n - MaxFiles + 1
<1>6. /\ m \in 1 .. n /\ k <= m /\ m - 1 \in 1 .. n - 1
      /\ m - 1 = (n - 1) - MaxFiles + 1 /\ n - 1 >= MaxFiles
      /\ rotated'[m - 1] = rotated[m]
  <2>1. /\ m \in 1 .. n /\ k <= m /\ m - 1 \in 1 .. n - 1
        /\ m - 1 = (n - 1) - MaxFiles + 1 /\ n - 1 >= MaxFiles /\ ~(m - 1 <= kept)
        /\ (m - 1) + 1 = m
    BY <1>1
  <2>2. rotated'[m - 1] = rotated[(m - 1) + 1]
    BY <1>1, <2>1
  <2> QED BY <2>1, <2>2
<1>7. ASSUME NEW s \in synced PROVE Found(s)' \/ Outlived(s)'
  <2>1. CASE rotated[m].upto >= s
    BY <1>1, <1>6, <2>1 DEF Outlived
  <2>2. CASE s \in current
    BY <1>2, <2>2 DEF Found
  <2>3. ASSUME NEW i \in 1 .. n, s \in rotated[i].snaps PROVE Found(s)' \/ Outlived(s)'
    <3>1. CASE i <= kept
      <4>1. i \in 1 .. n - 1 /\ s \in rotated'[i].snaps
        BY <1>1, <2>3, <3>1
      <4> QED BY <1>1, <4>1 DEF Found, Rotated
    <3>2. CASE i > k
      <4>1. i - 1 \in 1 .. n - 1 /\ ~(i - 1 <= kept) /\ (i - 1) + 1 = i
        BY <1>1, <3>2
      <4>2. s \in rotated'[i - 1].snaps
        BY <1>1, <2>3, <4>1
      <4> QED BY <1>1, <4>1, <4>2 DEF Found, Rotated
    <3>3. CASE i = k
      <4>1. s <= rotated[k].upto /\ rotated[k].upto <= rotated[m].upto
        BY <1>1, <1>6, <2>3, <3>3 DEF RetentionInv, OrderInv, Rotated
      <4>2. rotated[k].upto \in Int /\ rotated[m].upto \in Int
        BY <1>1, <1>6, RotatedType DEF Rotated
      <4>3. s \in Int
        BY RotatedType
      <4>4. rotated[m].upto >= s
        BY <4>1, <4>2, <4>3
      <4> QED BY <2>1, <4>4
    <3> QED BY <1>1, <3>1, <3>2, <3>3
  <2>4. CASE Outlived(s)
    BY <2>1, <2>4 DEF Outlived
  <2> QED BY <2>2, <2>3, <2>4 DEF RetentionInv, KeptInv, Found, Rotated
<1> QED BY <1>2, <1>5, <1>7 DEF RetentionInv, KeptInv

LEMMA RetentionStep == TypeInv /\ RetentionInv /\ [Next]_vars => RetentionInv'
<1> SUFFICES ASSUME TypeInv, RetentionInv, [Next]_vars PROVE RetentionInv'
  OBVIOUS
<1> USE DEF Goto, diskVars, loopVars, snapVars
<1>1. ASSUME UNCHANGED <<current, rotated, snapVars>> PROVE RetentionInv'
  BY <1>1 DEF RetentionInv, OrderInv, KeptInv, Found, Outlived, Rotated
<1>2. CASE \/ New \/ Stop \/ StopReturns \/ Exit \/ TimePasses \/ SelectTick \/ SelectStop
           \/ RemovalDone \/ \E ok \in BOOLEAN : Open(ok)
  BY <1>1, <1>2 DEF New, Stop, StopReturns, Exit, TimePasses, SelectTick, SelectStop,
                    RemovalDone, Open
<1>3. CASE CollectRaw
  <2>1. taken' >= taken /\ taken' \in Int
    BY <1>3, RotatedType DEF CollectRaw
  <2>2. UNCHANGED <<current, rotated, synced>>
    BY <1>3 DEF CollectRaw
  <2>3. OrderInv'
    <3>1. ASSUME NEW s \in current PROVE s <= taken'
      BY <2>1, RotatedType DEF RetentionInv, OrderInv
    <3>2. ASSUME NEW i \in Rotated PROVE rotated[i].upto <= taken'
      BY <2>1, RotatedType DEF RetentionInv, OrderInv
    <3> QED BY <2>2, <3>1, <3>2 DEF RetentionInv, OrderInv, Rotated
  <2> QED BY <2>2, <2>3 DEF RetentionInv, KeptInv, Found, Outlived, Rotated
<1>4. CASE Write
  <2>1. /\ current' = current \cup Whole /\ synced' = synced \cup Whole
        /\ Whole \subseteq {taken}
        /\ UNCHANGED <<rotated, taken>>
    BY <1>4 DEF Write, Whole
  <2>2. taken <= taken
    BY RotatedType
  <2>3. OrderInv'
    BY <2>1, <2>2 DEF RetentionInv, OrderInv, Rotated
  <2>4. KeptInv'
    BY <2>1 DEF RetentionInv, KeptInv, Found, Outlived, Rotated
  <2> QED BY <2>3, <2>4 DEF RetentionInv
<1>5. CASE CollectNothing \/ \E broken \in BOOLEAN : WriteFails(broken)
  BY <1>1, <1>5 DEF CollectNothing, WriteFails
<1>6. ASSUME NEW ok \in BOOLEAN, Rename(ok) PROVE RetentionInv'
  <2>1. CASE pc' = "remove"
    BY <1>6, <2>1, RenameRetains
  <2>2. CASE pc' # "remove"
    BY <1>1, <1>6, <2>2 DEF Rename
  <2> QED BY <2>1, <2>2
<1>7. ASSUME NEW ok \in BOOLEAN, RemoveOldest(ok) PROVE RetentionInv'
  <2>1. CASE ok
    <3>1. RemoveOldest(TRUE)
      BY <1>7, <2>1 DEF RemoveOldest
    <3> QED BY <3>1, RemoveRetains
  <2>2. CASE ~ok
    BY <1>1, <1>7, <2>2 DEF RemoveOldest
  <2> QED BY <2>1, <2>2
<1>8. CASE UNCHANGED vars
  BY <1>1, <1>8 DEF vars
<1> QED BY <1>2, <1>3, <1>4, <1>5, <1>6, <1>7, <1>8 DEF Next, Snapshot, Rotation

LEMMA RetentionImplies == TypeInv /\ RetentionInv => RetainsNewest
<1> SUFFICES ASSUME TypeInv, RetentionInv, NEW s \in synced, ~InSomeFile(s)
             PROVE  Cardinality({i \in DOMAIN rotated : rotated[i].upto >= s}) >= MaxFiles
  BY DEF RetainsNewest
<1> DEFINE n == Len(rotated)
           m == n - MaxFiles + 1
           newer == {i \in DOMAIN rotated : rotated[i].upto >= s}
<1>1. n \in Nat /\ DOMAIN rotated = 1 .. n /\ MaxFiles \in Nat \ {0}
  BY LenProperties DEF TypeInv, TypeOK
<1>2. Outlived(s)
  BY <1>1 DEF RetentionInv, KeptInv, Found, InSomeFile, Rotated
<1>3. m \in 1 .. n /\ rotated[m].upto >= s
  BY <1>1, <1>2 DEF Outlived
<1>4. ASSUME NEW i \in m .. n PROVE i \in newer
  <2>1. i \in 1 .. n /\ m <= i
    BY <1>1, <1>3
  <2>2. rotated[m].upto <= rotated[i].upto
    BY <1>3, <2>1 DEF RetentionInv, OrderInv, Rotated
  <2>3. rotated[m].upto \in Int /\ rotated[i].upto \in Int /\ s \in Int
    BY <1>3, <2>1, RotatedType DEF Rotated
  <2> QED BY <1>1, <1>3, <2>1, <2>2, <2>3
<1>5. IsFiniteSet(newer)
  <2>1. IsFiniteSet(1 .. n)
    BY <1>1, FS_Interval
  <2> QED BY <1>1, <2>1, FS_Subset
<1>6. Cardinality(m .. n) = MaxFiles
  <2>1. Cardinality(m .. n) = IF m > n THEN 0 ELSE n - m + 1
    BY <1>1, FS_Interval
  <2>2. ~(m > n) /\ n - m + 1 = MaxFiles
    BY <1>1
  <2> QED BY <2>1, <2>2
<1>7. Cardinality(m .. n) <= Cardinality(newer)
  BY <1>4, <1>5, FS_Subset
<1> QED BY <1>6, <1>7

\* A snapshot written whole and synced is only gone when MaxFiles files
\* rotated after its own are there, for every MaxFiles and rotation interval,
\* through failures of every step, crashes and restarts.
THEOREM RetainsNewestCorrect == Spec => []RetainsNewest
<1>1. Init => RetentionInv
  <2> SUFFICES ASSUME Init PROVE RetentionInv
    OBVIOUS
  <2>1. rotated = << >> /\ Len(rotated) = 0 /\ current = {} /\ synced = {}
    BY EmptySeq DEF Init
  <2>2. Rotated = {}
    BY <2>1 DEF Rotated
  <2> QED BY <2>1, <2>2 DEF RetentionInv, OrderInv, KeptInv
<1>2. Spec => []RetentionInv
  BY <1>1, RetentionStep, TypeAlways, PTL DEF Spec
<1> QED BY <1>2, RetentionImplies, TypeAlways, PTL

(***************************************************************************)
(* 5. Retrying.  A rotation is begun only when the file is old, and dbStart*)
(* is set by nothing but a successful open.                                *)
(***************************************************************************)
RetryInv ==
    \/ pc \in {"close", "remove", "open"}
    \/ pc \in {"collect", "write", "select"} /\ file = "nil"
    => age >= Rotate

LEMMA RetryStep == TypeInv /\ RetryInv /\ [Next]_vars => RetryInv'
<1> SUFFICES ASSUME TypeInv, RetryInv, [Next]_vars PROVE RetryInv'
  OBVIOUS
<1> USE DEF RetryInv, Goto, AfterSnapshot, diskVars, loopVars, snapVars
<1>0. age \in Nat /\ (stopper = "waiting" /\ pc = "done" => age \in Nat)
  BY DEF TypeInv, TypeOK
<1>1. CASE New \/ Stop \/ StopReturns \/ Exit \/ TimePasses
  <2>1. CASE Exit
    <3>1. pc' = "down"
      BY <2>1 DEF Exit
    <3> QED BY <3>1
  <2>2. CASE TimePasses
    BY <1>0, <2>2 DEF TimePasses
  <2>3. CASE New \/ Stop \/ StopReturns
    BY <2>3 DEF New, Stop, StopReturns
  <2> QED BY <1>1, <2>1, <2>2, <2>3
<1>2. CASE SelectTick \/ SelectStop
  BY <1>2 DEF SelectTick, SelectStop
<1>3. CASE CollectRaw \/ CollectNothing \/ Write
  BY <1>3 DEF CollectRaw, CollectNothing, Write
<1>4. ASSUME NEW broken \in BOOLEAN, WriteFails(broken) PROVE RetryInv'
  BY <1>4 DEF WriteFails
<1>5. ASSUME NEW ok \in BOOLEAN, Rename(ok) PROVE RetryInv'
  BY <1>5 DEF Rename
<1>6. ASSUME NEW ok \in BOOLEAN, RemoveOldest(ok) PROVE RetryInv'
  <2>1. pc = "remove" /\ UNCHANGED <<pc, file, age>>
    BY <1>6 DEF RemoveOldest
  <2> QED BY <2>1
<1>7. CASE RemovalDone
  BY <1>7 DEF RemovalDone
<1>8. ASSUME NEW ok \in BOOLEAN, Open(ok) PROVE RetryInv'
  BY <1>8 DEF Open
<1>9. CASE UNCHANGED vars
  BY <1>9 DEF vars
<1> QED BY <1>1, <1>2, <1>3, <1>4, <1>5, <1>6, <1>7, <1>8, <1>9 DEF Next, Snapshot, Rotation

\* A file that a rotation could not open is tried again at the very next tick,
\* for every rotation interval.
THEOREM ClosedIsRetriedCorrect == Spec => []ClosedIsRetried
<1>1. Init => RetryInv
  BY DEF Init, RetryInv
<1>2. RetryInv => ClosedIsRetried
  BY DEF RetryInv, ClosedIsRetried
<1> QED BY <1>1, <1>2, RetryStep, TypeAlways, PTL DEF Spec
=============================================================================
