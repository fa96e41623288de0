------------------------- MODULE MonitorReaderProofs -------------------------
(***************************************************************************)
(* Proofs about MonitorReader for every number of days, records and        *)
(* writers of the service whose files are read.                            *)
(***************************************************************************)
EXTENDS MonitorReader, MonitorStoreProofs

(***************************************************************************)
(* The records read so far are in no file that is still to be read, and    *)
(* the service cannot write any of them again.                             *)
(***************************************************************************)
SeenInv ==
    /\ found \subseteq Record
    /\ \A rec \in found :
           /\ rec.id < nextId
           /\ arg # NoRecord => rec.id # arg.id
           /\ \A w \in Writers : blocked[w] # NoRecord => rec.id # blocked[w].id

UnreadInv ==
    /\ reader = "idle" => found = {}
    /\ reader \in {"rotated", "current"} => found \cap current.recs = {}
    /\ reader = "rotated" =>
           \A t \in listed : t \in DOMAIN rotated => found \cap rotated[t].recs = {}

ReaderInv == SeenInv /\ UnreadInv /\ ~twice

\* A step of the service moves the current file to a rotated one, removes
\* rotated files, and adds the record it holds to the current one.
LEMMA FilesStep ==
    ASSUME TypeInv, [Next]_vars
    PROVE  /\ \/ current'.recs \subseteq current.recs
              \/ arg # NoRecord /\ current'.recs \subseteq current.recs \cup {arg}
           /\ \A t \in DOMAIN rotated' :
                  \/ t \in DOMAIN rotated /\ rotated'[t] = rotated[t]
                  \/ rotated'[t] = current
<1> USE DEF diskVars, processVars, historyVars
<1>1. CASE NextDay \/ NewStore \/ CleanDone \/ Close
  BY <1>1 DEF NextDay, NewStore, CleanDone, Close
<1>2. CASE Crash \/ EncodeFails \/ EncodeDrops
  <2>1. CASE pc = "encode"
    <3>1. arg # NoRecord /\ current'.recs \subseteq current.recs \cup {arg}
      BY <1>2, <2>1, RemainsTyped
         DEF Crash, EncodeFails, EncodeDrops, TypeInv, TypeOK, ArgInv
    <3> QED BY <1>2, <3>1 DEF Crash, EncodeFails, EncodeDrops, Return
  <2>2. CASE pc # "encode"
    BY <1>2, <2>2 DEF Crash, EncodeFails, EncodeDrops
  <2> QED BY <2>1, <2>2
<1>3. CASE Encode
  BY <1>3 DEF Encode, Return, TypeInv, TypeOK, ArgInv, File, OwnLine
<1>4. ASSUME NEW ok \in BOOLEAN, ListOld(ok) \/ RemoveOldest(ok) \/ Reopen(ok)
      PROVE  /\ current' = current
             /\ \A t \in DOMAIN rotated' : t \in DOMAIN rotated /\ rotated'[t] = rotated[t]
  BY <1>4 DEF ListOld, RemoveOldest, Reopen
<1>5. ASSUME NEW ok \in BOOLEAN, Rename(ok)
      PROVE  /\ current'.recs \subseteq current.recs
             /\ \A t \in DOMAIN rotated' :
                    \/ t \in DOMAIN rotated /\ rotated'[t] = rotated[t]
                    \/ rotated'[t] = current
  BY <1>5 DEF Rename, EmptyFile
<1>6. ASSUME NEW w \in Writers, CallWrite(w) \/ BeginWrite(w)
      PROVE  UNCHANGED <<current, rotated>>
  BY <1>6 DEF CallWrite, BeginWrite
<1>7. CASE UNCHANGED vars
  BY <1>7 DEF vars
<1> QED BY <1>1, <1>2, <1>3, <1>4, <1>5, <1>6, <1>7 DEF Next

\* A record that waits or is being written was waiting before or is new.
LEMMA NumbersStep ==
    ASSUME TypeInv, [Next]_vars
    PROVE  /\ nextId' \in {nextId, nextId + 1}
           /\ arg' # NoRecord =>
                  arg' = arg \/ \E w \in Writers : blocked[w] # NoRecord /\ arg' = blocked[w]
           /\ \A v \in Writers : blocked'[v] # NoRecord =>
                  blocked'[v] = blocked[v] \/ blocked'[v].id = nextId
<1> USE DEF diskVars, processVars, historyVars
<1>1. CASE \/ NextDay \/ NewStore \/ CleanDone \/ Close
           \/ Crash \/ Encode \/ EncodeFails \/ EncodeDrops
  BY <1>1 DEF NextDay, NewStore, CleanDone, Close, Crash, Encode, EncodeFails,
              EncodeDrops, Return
<1>2. ASSUME NEW ok \in BOOLEAN,
             ListOld(ok) \/ RemoveOldest(ok) \/ Reopen(ok) \/ Rename(ok)
      PROVE  UNCHANGED <<arg, blocked, nextId>>
  BY <1>2 DEF ListOld, RemoveOldest, Reopen, Rename
<1>3. ASSUME NEW w \in Writers, CallWrite(w)
      PROVE  /\ nextId' = nextId + 1 /\ arg' = arg
             /\ \A v \in Writers : blocked'[v] = blocked[v] \/ blocked'[v].id = nextId
  BY <1>3 DEF CallWrite, TypeInv, TypeOK
<1>4. ASSUME NEW w \in Writers, BeginWrite(w)
      PROVE  /\ nextId' = nextId /\ blocked[w] # NoRecord /\ arg' = blocked[w]
             /\ \A v \in Writers : blocked'[v] # NoRecord => blocked'[v] = blocked[v]
  BY <1>4 DEF BeginWrite, TypeInv, TypeOK
<1>5. CASE UNCHANGED vars
  BY <1>5 DEF vars
<1> QED BY <1>1, <1>2, <1>3, <1>4, <1>5 DEF Next

LEMMA ServiceKeepsReader ==
    ASSUME TypeInv, ReaderInv, [Next]_vars, UNCHANGED readerVars
    PROVE  ReaderInv'
<1> USE ConstantsAssumption DEF readerVars, ReaderInv
<1>1. nextId \in Nat /\ \A rec \in found : rec.id \in Nat
  BY DEF TypeInv, TypeOK, SeenInv, Record
<1>2. ASSUME NEW rec \in found
      PROVE  /\ rec.id < nextId'
             /\ arg' # NoRecord => rec.id # arg'.id
             /\ \A v \in Writers : blocked'[v] # NoRecord => rec.id # blocked'[v].id
  <2>1. rec.id < nextId'
    BY <1>1, NumbersStep DEF SeenInv
  <2>2. arg' # NoRecord => rec.id # arg'.id
    BY NumbersStep DEF SeenInv
  <2>3. ASSUME NEW v \in Writers, blocked'[v] # NoRecord PROVE rec.id # blocked'[v].id
    <3>1. CASE blocked'[v] = blocked[v]
      BY <2>3, <3>1 DEF SeenInv
    <3>2. CASE blocked'[v].id = nextId
      BY <1>1, <3>2 DEF SeenInv
    <3> QED BY <2>3, <3>1, <3>2, NumbersStep
  <2> QED BY <2>1, <2>2, <2>3
<1>3. SeenInv'
  BY <1>2 DEF SeenInv
<1>4. arg # NoRecord => arg \notin found
  BY DEF SeenInv
<1>5. ASSUME reader \in {"rotated", "current"} PROVE found \cap current'.recs = {}
  BY <1>4, <1>5, FilesStep DEF UnreadInv
<1>6. ASSUME reader = "rotated", NEW t \in listed, t \in DOMAIN rotated'
      PROVE  found \cap rotated'[t].recs = {}
  BY <1>6, FilesStep DEF UnreadInv
<1>7. UnreadInv'
  BY <1>5, <1>6 DEF UnreadInv
<1> QED BY <1>3, <1>7

\* What is read from a file nothing was read from yet.
LEMMA ReadFileKeeps ==
    ASSUME TypeInv, OnceInv, ReaderInv, UNCHANGED vars,
           NEW file, file.recs \subseteq OnDisk, found \cap file.recs = {},
           NEW next, ReadFile(file, next)
    PROVE  SeenInv' /\ ~twice' /\ found' = found \cup file.recs
<1> USE DEF vars, diskVars, processVars, historyVars
<1>1. found' = found \cup file.recs /\ ~twice'
  BY DEF ReadFile, ReaderInv
<1>2. OnDisk \subseteq Record
  BY DEF OnDisk, TypeInv, TypeOK, File
<1>3. ASSUME NEW rec \in OnDisk
      PROVE  /\ rec.id < nextId
             /\ arg # NoRecord => rec.id # arg.id
             /\ \A w \in Writers : blocked[w] # NoRecord => rec.id # blocked[w].id
  BY DEF OnceInv, NumberInv, ApartInv
<1> QED BY <1>1, <1>2, <1>3 DEF ReaderInv, SeenInv

LEMMA ReaderStep ==
    ASSUME TypeInv, OnceInv, ReaderInv, ReaderNext
    PROVE  ReaderInv' /\ UNCHANGED vars
<1> USE DEF vars, diskVars, processVars, historyVars
<1>0. UNCHANGED vars
  BY DEF ReaderNext, ReadDir, ReadRotated, RotatedRead, ReadCurrent, Printed
<1>1. CASE ReadDir
  BY <1>1 DEF ReadDir, ReaderInv, SeenInv, UnreadInv
<1>2. CASE ReadRotated
  <2>1. PICK t \in listed :
            /\ listed' = listed \ {t}
            /\ IF t \in DOMAIN rotated
               THEN ReadFile(rotated[t], "rotated")
               ELSE UNCHANGED <<reader, found, twice>>
    BY <1>2 DEF ReadRotated
  <2>2. CASE t \notin DOMAIN rotated
    BY <1>0, <2>1, <2>2 DEF ReaderInv, SeenInv, UnreadInv
  <2>3. CASE t \in DOMAIN rotated
    <3>1. reader = "rotated" /\ reader' \in {"rotated", "spinning"}
      BY <1>2, <2>1, <2>3 DEF ReadRotated, ReadFile
    <3>2. rotated[t].recs \subseteq OnDisk /\ found \cap rotated[t].recs = {}
      BY <2>3, <3>1 DEF OnDisk, ReaderInv, UnreadInv
    <3>3. SeenInv' /\ ~twice' /\ found' = found \cup rotated[t].recs
      BY <1>0, <2>1, <2>3, <3>2, ReadFileKeeps
    <3>4. rotated[t].recs \cap current.recs = {}
      BY <2>3 DEF OnceInv, StoredOnce
    <3>5. ASSUME NEW u \in listed', u \in DOMAIN rotated
          PROVE  rotated[t].recs \cap rotated[u].recs = {}
      BY <2>1, <2>3, <3>5 DEF OnceInv, StoredOnce
    <3>6. UnreadInv'
      BY <1>0, <2>1, <3>1, <3>3, <3>4, <3>5 DEF ReaderInv, UnreadInv
    <3> QED BY <1>0, <3>3, <3>6 DEF ReaderInv
  <2> QED BY <2>2, <2>3
<1>3. CASE RotatedRead
  BY <1>3 DEF RotatedRead, ReaderInv, SeenInv, UnreadInv
<1>4. CASE ReadCurrent
  <2>1. reader = "current" /\ reader' \in {"done", "spinning"}
    BY <1>4 DEF ReadCurrent, ReadFile
  <2>2. UnreadInv'
    BY <2>1 DEF UnreadInv
  <2>3. CASE exists
    <3>1. current.recs \subseteq OnDisk /\ found \cap current.recs = {}
      BY <2>1 DEF OnDisk, ReaderInv, UnreadInv
    <3>2. ReadFile(current, "done")
      BY <1>4, <2>3 DEF ReadCurrent
    <3>3. SeenInv' /\ ~twice'
      BY <1>0, <3>1, <3>2, ReadFileKeeps
    <3> QED BY <1>0, <2>2, <3>3 DEF ReaderInv
  <2>4. CASE ~exists
    <3>1. UNCHANGED <<found, twice>>
      BY <1>4, <2>4 DEF ReadCurrent
    <3> QED BY <1>0, <2>2, <3>1 DEF ReaderInv, SeenInv
  <2> QED BY <2>3, <2>4
<1>5. CASE Printed
  BY <1>5 DEF Printed, ReaderInv, SeenInv, UnreadInv
<1> QED BY <1>0, <1>1, <1>2, <1>3, <1>4, <1>5 DEF ReaderNext

\* No record is counted twice, whatever the service writes, rotates and
\* removes while the command runs, for every number of days and writers.
THEOREM ReadOnceCorrect == ReaderSpec => []ReadOnce
<1> DEFINE Inv == TypeInv /\ OnceInv /\ ReaderInv
<1>1. ReaderInit => Inv
  <2>1. Init => OnceInv
    BY DEF Init, OnceInv, NumberInv, ApartInv, StoredOnce, OnDisk, EmptyFile, NoRecord
  <2>2. ReaderInit => ReaderInv
    BY DEF ReaderInit, ReaderInv, SeenInv, UnreadInv
  <2> QED BY <2>1, <2>2, TypeInit DEF ReaderInit
<1>2. Inv /\ [Next2]_<<vars, readerVars>> => Inv'
  <2> SUFFICES ASSUME Inv, [Next2]_<<vars, readerVars>> PROVE Inv'
    OBVIOUS
  <2>1. CASE [Next]_vars /\ UNCHANGED readerVars
    BY <2>1, TypeStep, OnceStep, ServiceKeepsReader
  <2>2. CASE ReaderNext
    <3>1. ReaderInv' /\ UNCHANGED vars
      BY <2>2, ReaderStep
    <3> QED BY <3>1, TypeStep, OnceStep
  <2> QED BY <2>1, <2>2 DEF Next2
<1>3. Inv => ReadOnce
  BY DEF ReaderInv, ReadOnce
<1> QED BY <1>1, <1>2, <1>3, PTL DEF ReaderSpec
=============================================================================
