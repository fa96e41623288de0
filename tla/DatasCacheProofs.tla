-------------------------- MODULE DatasCacheProofs --------------------------
(***************************************************************************)
(* Proofs about DatasCache for every number of providers, every naming of  *)
(* them and every number of concurrent requests.                           *)
(***************************************************************************)
EXTENDS DatasCache, TLAPS

USE DEF Entries, Versions

(***************************************************************************)
(* 1. Types.  The loop index of Get stays inside the entries while the     *)
(* request is in its critical section; without that conjunct TypeOK is not *)
(* inductive (ReadEntry increments idx).                                   *)
(***************************************************************************)
IndexInv == \A r \in Readers : rpc[r] \in {"locked", "entry"} => idx[r] \in Entries

TypeInv == TypeOK /\ IndexInv

\* The read locks, as TypeOK has them.
Held(nm) == {r \in Readers : rpc[r] \in {"locked", "entry"} /\ NameOf[idx[r]] = nm}

LEMMA TypeHeld == TypeOK => /\ readers = [nm \in Names |-> Held(nm)]
                            /\ \A nm \in Names : readers[nm] = Held(nm)
BY DEF TypeOK, Held

LEMMA NextVersionType == ASSUME NEW v \in Versions
                         PROVE  NextVersion(v) \in Versions /\ NextVersion(v) # 0
                                /\ NextVersion(v) >= v
BY ConstantsAssumption DEF NextVersion

LEMMA TypeInit == Init => TypeInv
<1> SUFFICES ASSUME Init PROVE TypeInv
  OBVIOUS
<1> USE ConstantsAssumption DEF Init
<1>1. Nothing \in Result /\ [data |-> 0, errMsg |-> 0, ready |-> FALSE] \in Fields
  BY DEF Nothing, Result, Fields
<1>2. /\ pc \in [Entries -> ProviderPCs]
      /\ result \in [Entries -> Result]
      /\ state \in [Names -> Fields]
      /\ published \in [Entries -> Versions]
  BY <1>1 DEF ProviderPCs
<1>3. /\ stopped \in BOOLEAN
      /\ writer \in [Names -> 0 .. N]
      /\ readers = [nm \in Names |-> Held(nm)]
  <2>1. readers = [nm \in Names |-> Held(nm)]
    <3>1. \A nm \in Names : Held(nm) = {}
      BY DEF Held
    <3> QED BY <3>1
  <2>2. writer \in [Names -> 0 .. N]
    <3>1. 0 \in 0 .. N
      OBVIOUS
    <3> QED BY <3>1
  <2> QED BY <2>1, <2>2
<1>4. /\ rpc \in [Readers -> RequestPCs]
      /\ idx \in [Readers -> 1 .. N + 1]
      /\ seenErr \in [Readers -> Versions]
      /\ answer \in [Readers -> {"none", "initializing", "full"}]
  BY DEF RequestPCs
<1>5. got \in [Readers -> [Entries -> Result]]
  <2>1. [i \in Entries |-> Nothing] \in [Entries -> Result]
    BY <1>1
  <2> QED BY <2>1
<1>6. since \in [Readers -> [Entries -> Versions]]
  <2>1. [i \in Entries |-> 0] \in [Entries -> Versions]
    OBVIOUS
  <2> QED BY <2>1
<1>7. IndexInv
  BY DEF IndexInv
<1> QED BY <1>2, <1>3, <1>4, <1>5, <1>6, <1>7 DEF TypeInv, TypeOK, Held

LEMMA TypeStep == TypeInv /\ [Next]_vars => TypeInv'
<1> SUFFICES ASSUME TypeInv, [Next]_vars PROVE TypeInv'
  OBVIOUS
<1> USE ConstantsAssumption DEF TypeInv, TypeOK, IndexInv, ProviderPCs, RequestPCs,
        cacheVars, providerVars, requestVars
<1>0. /\ readers = [nm \in Names |-> Held(nm)]
      /\ \A nm \in Names : readers[nm] = Held(nm)
  BY TypeHeld
<1>1. CASE Start
  BY <1>1 DEF Start
<1>2. CASE Stop
  BY <1>2 DEF Stop
<1>3. ASSUME NEW p \in Entries, Provider(p) PROVE TypeInv'
  <2>1. ASSUME NEW ok \in BOOLEAN, CollectReturns(p, ok) PROVE TypeInv'
    <3>1. [ver |-> NextVersion(published[p]), ok |-> ok] \in Result
      BY NextVersionType DEF Result
    <3>2. result' \in [Entries -> Result]
      BY <2>1, <3>1 DEF CollectReturns
    <3> QED BY <2>1, <3>2 DEF CollectReturns, Goto
  <2>2. CASE AnnounceLock(p)
    <3>1. p \in 0 .. N
      OBVIOUS
    <3>2. writer' \in [Names -> 0 .. N]
      BY <2>2, <3>1 DEF AnnounceLock
    <3> QED BY <2>2, <3>2 DEF AnnounceLock, Goto
  <2>3. CASE AcquireLock(p)
    BY <2>3 DEF AcquireLock, Goto
  <2>4. CASE StoreFirst(p)
    <3>1. state[NameOf[p]] \in Fields /\ result[p] \in Result
      OBVIOUS
    <3>2. ASSUME result[p].ok PROVE state' \in [Names -> Fields]
      <4>1. [state[NameOf[p]] EXCEPT !.data = result[p].ver] \in Fields
        BY <3>1 DEF Fields, Result
      <4>2. state' = [state EXCEPT ![NameOf[p]] = [state[NameOf[p]] EXCEPT !.data = result[p].ver]]
        BY <2>4, <3>2 DEF StoreFirst
      <4> QED BY <4>1, <4>2
    <3>3. ASSUME ~result[p].ok PROVE state' \in [Names -> Fields]
      <4>1. [state[NameOf[p]] EXCEPT !.errMsg = result[p].ver] \in Fields
        BY <3>1 DEF Fields, Result
      <4>2. state' = [state EXCEPT ![NameOf[p]] = [state[NameOf[p]] EXCEPT !.errMsg = result[p].ver]]
        BY <2>4, <3>3 DEF StoreFirst
      <4> QED BY <4>1, <4>2
    <3>4. state' \in [Names -> Fields]
      BY <3>2, <3>3
    <3> QED BY <2>4, <3>4 DEF StoreFirst, Goto
  <2>5. CASE StoreSecond(p)
    <3>1. state[NameOf[p]] \in Fields /\ result[p] \in Result
      OBVIOUS
    <3>2. ASSUME result[p].ok PROVE state' \in [Names -> Fields]
      <4>1. [state[NameOf[p]] EXCEPT !.errMsg = 0] \in Fields
        <5>1. 0 \in Versions
          OBVIOUS
        <5> QED BY <3>1, <5>1 DEF Fields
      <4>2. state' = [state EXCEPT ![NameOf[p]] = [state[NameOf[p]] EXCEPT !.errMsg = 0]]
        BY <2>5, <3>2 DEF StoreSecond
      <4> QED BY <4>1, <4>2
    <3>3. ASSUME ~result[p].ok PROVE state' \in [Names -> Fields]
      <4>1. [state[NameOf[p]] EXCEPT !.data = 0] \in Fields
        <5>1. 0 \in Versions
          OBVIOUS
        <5> QED BY <3>1, <5>1 DEF Fields
      <4>2. state' = [state EXCEPT ![NameOf[p]] = [state[NameOf[p]] EXCEPT !.data = 0]]
        BY <2>5, <3>3 DEF StoreSecond
      <4> QED BY <4>1, <4>2
    <3>4. state' \in [Names -> Fields]
      BY <3>2, <3>3
    <3> QED BY <2>5, <3>4 DEF StoreSecond, Goto
  <2>6. CASE Unlock(p)
    <3>1. state' \in [Names -> Fields]
      <4>1. [state[NameOf[p]] EXCEPT !.ready = TRUE] \in Fields
        <5>1. state[NameOf[p]] \in Fields
          OBVIOUS
        <5> HIDE DEF TypeInv
        <5> QED BY <5>1 DEF Fields
      <4>2. state' = [state EXCEPT ![NameOf[p]] = [state[NameOf[p]] EXCEPT !.ready = TRUE]]
        BY <2>6 DEF Unlock
      <4> QED BY <4>1, <4>2
    <3>2. published' \in [Entries -> Versions]
      BY <2>6 DEF Unlock, Result
    <3> QED BY <2>6, <3>1, <3>2 DEF Unlock, Goto
  <2>7. CASE Refreshed(p)
    BY <2>7 DEF Refreshed, Goto
  <2>8. CASE SelectTick(p)
    BY <2>8 DEF SelectTick, Goto
  <2>9. CASE SelectStop(p)
    BY <2>9 DEF SelectStop, Goto
  <2> QED BY <1>3, <2>1, <2>2, <2>3, <2>4, <2>5, <2>6, <2>7, <2>8, <2>9
          DEF Provider, Locked
<1>4. ASSUME NEW r \in Readers, Request(r) PROVE TypeInv'
  <2>1. CASE GetBegin(r)
    BY <2>1 DEF GetBegin, Step
  <2>2. CASE RLock(r)
    <3>1. /\ NameOf[idx[r]] \in Names
          /\ readers' = [readers EXCEPT ![NameOf[idx[r]]] = @ \cup {r}]
          /\ rpc[r] = "loop" /\ rpc' = [rpc EXCEPT ![r] = "locked"]
          /\ idx' = idx
      BY <2>2 DEF RLock, Step
    <3>2. ASSUME NEW nm \in Names PROVE readers'[nm] = Held(nm)'
      <4>1. Held(nm)' = IF nm = NameOf[idx[r]] THEN Held(nm) \cup {r} ELSE Held(nm)
        <5> HIDE DEF TypeInv
        <5> QED BY <3>1 DEF Held, TypeOK, TypeInv
      <4> HIDE DEF TypeInv
      <4> QED BY <1>0, <3>1, <4>1
    <3>3. readers' = [nm \in Names |-> Held(nm)']
      BY <3>1, <3>2
    <3> QED BY <2>2, <3>3 DEF RLock, Step, Held
  <2>3. CASE ReadNotReady(r)
    <3>1. readers' = [nm \in Names |-> Held(nm)']
      <4>1. /\ NameOf[idx[r]] \in Names
            /\ readers' = [readers EXCEPT ![NameOf[idx[r]]] = @ \ {r}]
            /\ rpc' = [rpc EXCEPT ![r] = "answered"]
            /\ idx' = idx
        BY <2>3 DEF ReadNotReady, Step
      <4>2. ASSUME NEW nm \in Names PROVE readers'[nm] = Held(nm)'
        <5>1. Held(nm)' = Held(nm) \ {r}
          BY <4>1 DEF Held
        <5>2. nm # NameOf[idx[r]] => r \notin Held(nm)
          BY DEF Held
        <5> HIDE DEF TypeInv
        <5> QED BY <1>0, <4>1, <5>1, <5>2
      <4> QED BY <4>1, <4>2
    <3> QED BY <2>3, <3>1 DEF ReadNotReady, Step, Held
  <2>4. CASE ReadErrMsg(r)
    <3>1. seenErr' \in [Readers -> Versions]
      BY <2>4 DEF ReadErrMsg, Fields
    <3> QED BY <2>4, <3>1 DEF ReadErrMsg, Step
  <2>5. CASE ReadEntry(r)
    <3>1. got' \in [Readers -> [Entries -> Result]]
      BY <2>5 DEF ReadEntry, Fields, Result
    <3>2. idx' \in [Readers -> 1 .. N + 1]
      <4>1. idx[r] \in Entries
        BY <2>5 DEF ReadEntry
      <4>2. idx[r] + 1 \in 1 .. N + 1
        <5> HIDE DEF TypeInv
        <5> QED BY <4>1, ConstantsAssumption DEF Entries
      <4> QED BY <2>5, <4>2 DEF ReadEntry
    <3>3. seenErr' \in [Readers -> Versions]
      <4>1. 0 \in Versions
        OBVIOUS
      <4> QED BY <2>5, <4>1 DEF ReadEntry
    <3>4. readers' = [nm \in Names |-> Held(nm)']
      <4>1. /\ NameOf[idx[r]] \in Names
            /\ readers' = [readers EXCEPT ![NameOf[idx[r]]] = @ \ {r}]
            /\ rpc' = [rpc EXCEPT ![r] = "loop"]
            /\ \A q \in Readers \ {r} : idx'[q] = idx[q]
            /\ r \in Readers /\ rpc[r] = "entry"
        BY <2>5 DEF ReadEntry, Step
      <4>2. ASSUME NEW nm \in Names PROVE readers'[nm] = Held(nm)'
        <5>1. Held(nm)' = Held(nm) \ {r}
          BY <4>1 DEF Held
        <5>2. nm # NameOf[idx[r]] => r \notin Held(nm)
          BY DEF Held
        <5> HIDE DEF TypeInv
        <5> QED BY <1>0, <4>1, <5>1, <5>2
      <4> QED BY <4>1, <4>2
    <3>5. rpc' \in [Readers -> RequestPCs] /\ IndexInv'
      BY <2>5 DEF ReadEntry, Step
    <3> QED BY <2>5, <3>1, <3>2, <3>3, <3>4, <3>5 DEF ReadEntry, Held
  <2>6. CASE GetReturns(r)
    BY <2>6 DEF GetReturns, Step
  <2>7. CASE Delivered(r)
    <3>1. /\ [i \in Entries |-> Nothing] \in [Entries -> Result]
          /\ [i \in Entries |-> 0] \in [Entries -> Versions]
      BY DEF Nothing, Result
    <3>2. /\ got' \in [Readers -> [Entries -> Result]]
          /\ since' \in [Readers -> [Entries -> Versions]]
      BY <2>7, <3>1 DEF Delivered
    <3>3. idx' \in [Readers -> 1 .. N + 1]
      BY <2>7 DEF Delivered
    <3>4. /\ rpc' \in [Readers -> RequestPCs]
          /\ IndexInv'
      BY <2>7 DEF Delivered, Step
    <3>5. /\ answer' \in [Readers -> {"none", "initializing", "full"}]
          /\ UNCHANGED <<pc, result, stopped, state, writer, readers, seenErr, published>>
      BY <2>7 DEF Delivered
    <3>6. readers' = [nm \in Names |-> Held(nm)']
      <4>1. \A q \in Readers : rpc'[q] \in {"locked", "entry"} <=> rpc[q] \in {"locked", "entry"}
        BY <2>7 DEF Delivered, Step
      <4>2. \A q \in Readers : rpc[q] \in {"locked", "entry"} => idx'[q] = idx[q]
        BY <2>7 DEF Delivered
      <4>3. \A nm \in Names : Held(nm)' = Held(nm)
        BY <4>1, <4>2 DEF Held
      <4> QED BY <1>0, <3>5, <4>3
    <3> QED BY <3>2, <3>3, <3>4, <3>5, <3>6 DEF Held
  <2> QED BY <1>4, <2>1, <2>2, <2>3, <2>4, <2>5, <2>6, <2>7 DEF Request
<1>5. CASE UNCHANGED vars
  BY <1>5 DEF vars
<1> QED BY <1>1, <1>2, <1>3, <1>4, <1>5 DEF Next

\* Every variable keeps its type in every reachable state of registry.go's
\* cache, whatever the registry holds.
THEOREM TypeCorrect == Spec => []TypeOK
<1>1. Spec => []TypeInv
  BY TypeInit, TypeStep, PTL DEF Spec
<1> QED BY <1>1, PTL DEF TypeInv

(***************************************************************************)
(* 2. The lock.  LockExclusion needs to know that a name is locked by an   *)
(* entry of that name only.                                                *)
(***************************************************************************)
WriterInv == \A nm \in Names : writer[nm] # 0 => /\ writer[nm] \in Entries
                                                /\ NameOf[writer[nm]] = nm

LockInv == LockExclusion /\ WriterInv

LEMMA LockInit == Init => LockInv
BY ConstantsAssumption DEF Init, LockInv, LockExclusion, WriterInv

\* A request that gives its read lock back disturbs neither writers nor the
\* other requests.
LEMMA LeaveKeepsLock ==
    ASSUME LockInv, TypeInv,
           NEW r \in Readers,
           UNCHANGED <<pc, writer>>,
           \A nm \in Names : readers'[nm] \in {readers[nm], readers[nm] \ {r}},
           \A q \in Readers : rpc'[q] \in {"locked", "entry"} =>
               q # r /\ rpc[q] = rpc'[q] /\ idx'[q] = idx[q]
    PROVE  LockInv'
<1>1. WriterInv'
  BY DEF LockInv, WriterInv
<1>2. ASSUME NEW p \in Entries
      PROVE  /\ pc'[p] \in {"wait", "store1", "store2", "ready"} <=> writer'[NameOf[p]] = p
             /\ pc'[p] \in {"store1", "store2", "ready"} => readers'[NameOf[p]] = {}
  <2>1. NameOf[p] \in Names
    BY ConstantsAssumption
  <2> QED BY <2>1 DEF LockInv, LockExclusion
<1>3. ASSUME NEW q \in Readers, rpc'[q] \in {"locked", "entry"}
      PROVE  /\ idx'[q] \in Entries
             /\ q \in readers'[NameOf[idx'[q]]]
  <2>1. /\ q # r
        /\ idx'[q] = idx[q]
        /\ idx[q] \in Entries
        /\ q \in readers[NameOf[idx[q]]]
    BY <1>3 DEF LockInv, LockExclusion
  <2>2. NameOf[idx[q]] \in Names
    BY <2>1, ConstantsAssumption
  <2> QED BY <2>1, <2>2
<1> QED BY <1>1, <1>2, <1>3 DEF LockInv, LockExclusion

LEMMA LockStep == TypeInv /\ LockInv /\ [Next]_vars => LockInv'
<1> SUFFICES ASSUME TypeInv, LockInv, [Next]_vars PROVE LockInv'
  OBVIOUS
<1> USE ConstantsAssumption DEF TypeInv, TypeOK, IndexInv, LockInv, LockExclusion,
        WriterInv, cacheVars, providerVars, requestVars
<1>1. CASE Start
  <2>1. ASSUME NEW nm \in Names, writer[nm] # 0 PROVE FALSE
    <3>1. writer[nm] \in Entries /\ writer[NameOf[writer[nm]]] = writer[nm]
      BY <2>1
    <3>2. pc[writer[nm]] = "new"
      BY <1>1, <3>1 DEF Start
    <3> QED BY <3>1, <3>2
  <2> QED BY <1>1, <2>1 DEF Start
<1>2. CASE Stop
  BY <1>2 DEF Stop
<1>3. ASSUME NEW p \in Entries, Provider(p) PROVE LockInv'
  <2>1. ASSUME NEW ok \in BOOLEAN, CollectReturns(p, ok) PROVE LockInv'
    BY <2>1 DEF CollectReturns, Goto
  <2>2. CASE AnnounceLock(p)
    BY <2>2 DEF AnnounceLock, Goto
  <2>3. CASE AcquireLock(p)
    BY <2>3 DEF AcquireLock, Goto
  <2>4. CASE StoreFirst(p)
    BY <2>4 DEF StoreFirst, Goto
  <2>5. CASE StoreSecond(p)
    BY <2>5 DEF StoreSecond, Goto
  <2>6. CASE Unlock(p)
    BY <2>6 DEF Unlock, Goto
  <2>7. CASE Refreshed(p)
    BY <2>7 DEF Refreshed, Goto
  <2>8. CASE SelectTick(p)
    BY <2>8 DEF SelectTick, Goto
  <2>9. CASE SelectStop(p)
    BY <2>9 DEF SelectStop, Goto
  <2> QED BY <1>3, <2>1, <2>2, <2>3, <2>4, <2>5, <2>6, <2>7, <2>8, <2>9
          DEF Provider, Locked
<1>4. ASSUME NEW r \in Readers, Request(r) PROVE LockInv'
  <2>1. CASE GetBegin(r)
    BY <2>1 DEF GetBegin, Step
  <2>2. CASE RLock(r)
    <3> DEFINE nm == NameOf[idx[r]]
    <3>1. /\ nm \in Names
          /\ writer[nm] = 0
          /\ idx[r] \in Entries
          /\ readers' = [readers EXCEPT ![nm] = @ \cup {r}]
          /\ rpc' = [rpc EXCEPT ![r] = "locked"]
          /\ UNCHANGED <<pc, writer, idx>>
      BY <2>2 DEF RLock, Step
    <3>2. ASSUME NEW p \in Entries, pc[p] \in {"store1", "store2", "ready"}
          PROVE  readers'[NameOf[p]] = {}
      <4>1. p # 0 /\ NameOf[p] \in Names
        OBVIOUS
      <4>2. writer[NameOf[p]] = p
        BY <3>2
      <4>3. readers[NameOf[p]] = {}
        BY <3>2
      <4>4. NameOf[p] # nm
        BY <3>1, <4>1, <4>2
      <4> QED BY <3>1, <4>1, <4>3, <4>4
    <3>3. ASSUME NEW q \in Readers, rpc'[q] \in {"locked", "entry"}
          PROVE  idx'[q] \in Entries /\ q \in readers'[NameOf[idx'[q]]]
      <4>1. CASE q = r
        BY <3>1, <4>1
      <4>2. CASE q # r
        <5>1. /\ rpc[q] \in {"locked", "entry"}
              /\ idx[q] \in Entries
              /\ q \in readers[NameOf[idx[q]]]
              /\ NameOf[idx[q]] \in Names
          <6>1. rpc'[q] = rpc[q]
            BY <3>1, <4>2
          <6> QED BY <3>3, <6>1
        <5> QED BY <3>1, <5>1
      <4> QED BY <4>1, <4>2
    <3> QED BY <3>1, <3>2, <3>3
  <2>3. CASE ReadNotReady(r)
    <3>1. \A q \in Readers : rpc'[q] \in {"locked", "entry"} =>
              q # r /\ rpc[q] = rpc'[q] /\ idx'[q] = idx[q]
      BY <2>3 DEF ReadNotReady, Step
    <3>2. \A nm \in Names : readers'[nm] \in {readers[nm], readers[nm] \ {r}}
      BY <2>3 DEF ReadNotReady
    <3>3. UNCHANGED <<pc, writer>>
      BY <2>3 DEF ReadNotReady
    <3> HIDE DEF TypeInv, LockInv
    <3> QED BY <3>1, <3>2, <3>3, LeaveKeepsLock
  <2>4. CASE ReadErrMsg(r)
    <3>1. \A q \in Readers : rpc'[q] \in {"locked", "entry"} =>
              rpc[q] \in {"locked", "entry"}
      BY <2>4 DEF ReadErrMsg, Step
    <3>2. UNCHANGED <<pc, writer, readers, idx>>
      BY <2>4 DEF ReadErrMsg
    <3> QED BY <3>1, <3>2
  <2>5. CASE ReadEntry(r)
    <3>1. \A q \in Readers : rpc'[q] \in {"locked", "entry"} =>
              q # r /\ rpc[q] = rpc'[q] /\ idx'[q] = idx[q]
      BY <2>5 DEF ReadEntry, Step
    <3>2. \A nm \in Names : readers'[nm] \in {readers[nm], readers[nm] \ {r}}
      <4>1. readers' = [readers EXCEPT ![NameOf[idx[r]]] = readers[NameOf[idx[r]]] \ {r}]
        BY <2>5 DEF ReadEntry
      <4>2. DOMAIN readers = Names
        OBVIOUS
      <4> HIDE DEF TypeInv, LockInv
      <4> QED BY <4>1, <4>2
    <3>3. UNCHANGED <<pc, writer>>
      BY <2>5 DEF ReadEntry
    <3> HIDE DEF TypeInv, LockInv
    <3> QED BY <3>1, <3>2, <3>3, LeaveKeepsLock
  <2>6. CASE GetReturns(r)
    BY <2>6 DEF GetReturns, Step
  <2>7. CASE Delivered(r)
    <3>1. \A q \in Readers : rpc'[q] \in {"locked", "entry"} =>
              rpc[q] = rpc'[q] /\ idx'[q] = idx[q]
      BY <2>7 DEF Delivered, Step
    <3>2. UNCHANGED <<pc, writer, readers>>
      BY <2>7 DEF Delivered
    <3> QED BY <3>1, <3>2
  <2> QED BY <1>4, <2>1, <2>2, <2>3, <2>4, <2>5, <2>6, <2>7 DEF Request
<1>5. CASE UNCHANGED vars
  BY <1>5 DEF vars
<1> QED BY <1>1, <1>2, <1>3, <1>4, <1>5 DEF Next

\* A collector writes the fields of its name alone, and a request reads them
\* while it is counted as a reader.
THEOREM LockCorrect == Spec => []LockExclusion
<1>1. TypeInv /\ LockInv /\ [Next]_vars => (TypeInv /\ LockInv)'
  BY TypeStep, LockStep
<1>2. Spec => [](TypeInv /\ LockInv)
  BY <1>1, TypeInit, LockInit, PTL DEF Spec
<1> QED BY <1>2, PTL DEF LockInv

(***************************************************************************)
(* 3. What a request reads is one whole result.  Between its two stores    *)
(* the fields of a name mix two collections; the lock keeps that from the  *)
(* requests, and what a request has compared in ReadErrMsg still holds     *)
(* when it reads the entry.                                                *)
(***************************************************************************)
ResultInv == \A p \in Entries :
    pc[p] \in {"lock", "wait", "store1", "store2", "ready"} => result[p].ver # 0

StoreInv == \A p \in Entries :
    /\ pc[p] \in {"store2", "ready"} =>
           IF result[p].ok THEN state[NameOf[p]].data = result[p].ver
                           ELSE state[NameOf[p]].errMsg = result[p].ver
    /\ pc[p] = "ready" /\ result[p].ok => state[NameOf[p]].errMsg = 0

\* nm is not between the two stores of a collector.
Quiet(nm) == writer[nm] = 0 \/ pc[writer[nm]] \in {"wait", "store1"}

WholeInv == \A nm \in Names :
    state[nm].ready /\ Quiet(nm) => state[nm].errMsg # 0 \/ state[nm].data # 0

EntryInv == \A r \in Readers : rpc[r] = "entry" =>
    /\ state[NameOf[idx[r]]].ready
    /\ seenErr[r] = state[NameOf[idx[r]]].errMsg

DataInv == ResultInv /\ StoreInv /\ WholeInv /\ EntryInv /\ WholeResults

LEMMA WriterAlone ==
    ASSUME TypeInv, LockInv,
           NEW p \in Entries, pc[p] \in {"store1", "store2", "ready"}
    PROVE  /\ NameOf[p] \in Names
           /\ writer[NameOf[p]] = p
           /\ \A q \in Entries : q # p /\ NameOf[q] = NameOf[p] =>
                  pc[q] \notin {"wait", "store1", "store2", "ready"}
           /\ \A r \in Readers : rpc[r] \in {"locked", "entry"} =>
                  NameOf[idx[r]] # NameOf[p]
<1>1. NameOf[p] \in Names
  BY ConstantsAssumption
<1>2. writer[NameOf[p]] = p
  BY DEF LockInv, LockExclusion
<1>3. readers[NameOf[p]] = {}
  BY DEF LockInv, LockExclusion
<1>4. \A r \in Readers : rpc[r] \in {"locked", "entry"} => NameOf[idx[r]] # NameOf[p]
  BY <1>3 DEF LockInv, LockExclusion
<1>5. \A q \in Entries : q # p /\ NameOf[q] = NameOf[p] =>
          pc[q] \notin {"wait", "store1", "store2", "ready"}
  BY <1>2 DEF LockInv, LockExclusion
<1> QED BY <1>1, <1>2, <1>4, <1>5

LEMMA ReaderSeesQuiet ==
    ASSUME TypeInv, LockInv,
           NEW r \in Readers, rpc[r] \in {"locked", "entry"}
    PROVE  NameOf[idx[r]] \in Names /\ Quiet(NameOf[idx[r]])
<1> DEFINE nm == NameOf[idx[r]]
<1>1. idx[r] \in Entries /\ r \in readers[nm]
  BY DEF LockInv, LockExclusion
<1>2. nm \in Names
  BY <1>1, ConstantsAssumption
<1>3. CASE writer[nm] # 0
  <2> DEFINE p == writer[nm]
  <2>1. p \in Entries /\ NameOf[p] = nm
    BY <1>2, <1>3 DEF LockInv, WriterInv
  <2>2. pc[p] \in {"wait", "store1", "store2", "ready"}
    BY <2>1 DEF LockInv, LockExclusion
  <2>3. pc[p] \notin {"store1", "store2", "ready"}
    BY <1>1, <2>1 DEF LockInv, LockExclusion
  <2> QED BY <1>2, <2>2, <2>3 DEF Quiet
<1> QED BY <1>2, <1>3 DEF Quiet

LEMMA DataInit == Init => DataInv
BY ConstantsAssumption DEF Init, DataInv, ResultInv, StoreInv, WholeInv, EntryInv,
   WholeResults

\* A store under the lock changes nothing that anybody else relies on.
LEMMA StoreKeepsData ==
    ASSUME TypeInv, LockInv, DataInv,
           NEW p \in Entries, NEW label \in {"store2", "ready"},
           pc[p] \in {"store1", "store2"},
           pc' = [pc EXCEPT ![p] = label],
           UNCHANGED <<result, writer, rpc, idx, seenErr, got>>,
           \A k \in Names : k # NameOf[p] => state'[k] = state[k],
           IF result[p].ok THEN state'[NameOf[p]].data = result[p].ver
                           ELSE state'[NameOf[p]].errMsg = result[p].ver,
           label = "ready" /\ result[p].ok => state'[NameOf[p]].errMsg = 0
    PROVE  DataInv'
<1> DEFINE nm == NameOf[p]
<1>1. nm \in Names /\ writer[nm] = p
  BY WriterAlone
<1>2. \A q \in Entries : q # p /\ NameOf[q] = nm =>
          pc[q] \notin {"wait", "store1", "store2", "ready"}
  BY WriterAlone
<1>3. \A r \in Readers : rpc[r] \in {"locked", "entry"} => NameOf[idx[r]] # nm
  BY WriterAlone
<1> HIDE DEF nm
<1>4. ResultInv'
  BY DEF DataInv, ResultInv, TypeInv, TypeOK
<1>5. StoreInv'
  <2> SUFFICES ASSUME NEW q \in Entries
               PROVE  /\ pc'[q] \in {"store2", "ready"} =>
                             IF result'[q].ok THEN state'[NameOf[q]].data = result'[q].ver
                                              ELSE state'[NameOf[q]].errMsg = result'[q].ver
                      /\ pc'[q] = "ready" /\ result'[q].ok => state'[NameOf[q]].errMsg = 0
    BY DEF StoreInv
  <2>1. CASE q = p
    BY <2>1 DEF TypeInv, TypeOK
  <2>2. CASE q # p
    <3>1. pc'[q] = pc[q] /\ NameOf[q] \in Names
      BY <2>2, ConstantsAssumption DEF TypeInv, TypeOK
    <3>2. CASE NameOf[q] = nm
      BY <1>2, <2>2, <3>1, <3>2
    <3>3. CASE NameOf[q] # nm
      BY <3>1, <3>3 DEF DataInv, StoreInv, nm
    <3> QED BY <3>2, <3>3
  <2> QED BY <2>1, <2>2
<1>6. WholeInv'
  <2> SUFFICES ASSUME NEW k \in Names, state'[k].ready, Quiet(k)'
               PROVE  state'[k].errMsg # 0 \/ state'[k].data # 0
    BY DEF WholeInv
  <2>1. k # nm
    BY <1>1, ConstantsAssumption DEF Quiet, TypeInv, TypeOK
  <2>2. Quiet(k)
    <3>1. writer[k] # p
      BY <2>1, ConstantsAssumption DEF nm, LockInv, WriterInv
    <3> QED BY <3>1 DEF Quiet, LockInv, WriterInv, TypeInv, TypeOK
  <2> QED BY <2>1, <2>2 DEF DataInv, WholeInv, nm
<1>7. EntryInv'
  BY <1>3, ReaderSeesQuiet DEF DataInv, EntryInv, nm
<1> QED BY <1>4, <1>5, <1>6, <1>7 DEF DataInv, WholeResults

\* Unlock makes the finished pair of stores readable.
LEMMA UnlockKeepsData ==
    ASSUME TypeInv, LockInv, DataInv, NEW p \in Entries, Unlock(p)
    PROVE  DataInv'
<1> DEFINE nm == NameOf[p]
<1>1. /\ pc[p] = "ready"
      /\ pc' = [pc EXCEPT ![p] = "refresh"]
      /\ writer' = [writer EXCEPT ![nm] = 0]
      /\ UNCHANGED <<result, rpc, idx, seenErr, got>>
  BY DEF Unlock, Goto, requestVars
<1>2. nm \in Names /\ writer[nm] = p
  BY <1>1, WriterAlone
<1>3. \A r \in Readers : rpc[r] \in {"locked", "entry"} => NameOf[idx[r]] # nm
  BY <1>1, WriterAlone
<1>4. \A k \in Names :
          /\ state'[k].data = state[k].data
          /\ state'[k].errMsg = state[k].errMsg
          /\ k # nm => state'[k] = state[k]
  BY <1>2 DEF Unlock, TypeInv, TypeOK, Fields
<1>5. state'[nm].errMsg # 0 \/ state'[nm].data # 0
  <2>1. result[p].ver # 0
    BY <1>1 DEF DataInv, ResultInv
  <2>2. state[nm].errMsg = result[p].ver \/ state[nm].data = result[p].ver
    BY <1>1 DEF DataInv, StoreInv
  <2> QED BY <1>2, <1>4, <2>1, <2>2
<1> HIDE DEF nm
<1>6. ResultInv'
  BY <1>1 DEF DataInv, ResultInv, TypeInv, TypeOK
<1>7. StoreInv'
  <2> SUFFICES ASSUME NEW q \in Entries, pc'[q] \in {"store2", "ready"}
               PROVE  /\ pc[q] = pc'[q]
                      /\ NameOf[q] \in Names
    BY <1>1, <1>4 DEF DataInv, StoreInv
  <2> QED BY <1>1, ConstantsAssumption DEF TypeInv, TypeOK
<1>8. WholeInv'
  <2> SUFFICES ASSUME NEW k \in Names, k # nm, state'[k].ready, Quiet(k)'
               PROVE  state'[k].errMsg # 0 \/ state'[k].data # 0
    BY <1>5 DEF WholeInv
  <2>1. writer[k] # p
    BY ConstantsAssumption DEF nm, LockInv, WriterInv
  <2>2. Quiet(k)
    BY <1>1, <2>1 DEF Quiet, LockInv, WriterInv, TypeInv, TypeOK
  <2>3. state'[k] = state[k]
    BY <1>4
  <2> QED BY <2>2, <2>3 DEF DataInv, WholeInv
<1>9. EntryInv'
  <2> SUFFICES ASSUME NEW r \in Readers, rpc[r] = "entry"
               PROVE  state'[NameOf[idx[r]]] = state[NameOf[idx[r]]]
    BY <1>1 DEF DataInv, EntryInv
  <2>1. NameOf[idx[r]] \in Names /\ NameOf[idx[r]] # nm
    BY <1>3, ReaderSeesQuiet
  <2> QED BY <1>4, <2>1
<1> QED BY <1>1, <1>6, <1>7, <1>8, <1>9 DEF DataInv, WholeResults

\* Neither does a goroutine that only moves between its other labels.
LEMMA MoveKeepsData ==
    ASSUME TypeInv, LockInv, DataInv, NEW p \in Entries,
           pc[p] \notin {"store1", "store2", "ready"},
           pc'[p] \notin {"store2", "ready"},
           pc'[p] \in {"lock", "wait", "store1"} => result'[p].ver # 0,
           \A q \in Entries : q # p => pc'[q] = pc[q] /\ result'[q] = result[q],
           UNCHANGED <<state, rpc, idx, seenErr, got>>,
           \A nm \in Names : writer[nm] # 0 => writer'[nm] = writer[nm]
    PROVE  DataInv'
<1>1. ResultInv'
  BY DEF DataInv, ResultInv
<1>2. StoreInv'
  BY DEF DataInv, StoreInv
<1>3. WholeInv'
  <2> SUFFICES ASSUME NEW nm \in Names, state[nm].ready, Quiet(nm)'
               PROVE  Quiet(nm)
    BY DEF DataInv, WholeInv
  <2>1. CASE writer[nm] = 0
    BY <2>1 DEF Quiet
  <2>2. CASE writer[nm] # 0
    <3>1. /\ writer[nm] \in Entries
          /\ pc[writer[nm]] \in {"wait", "store1", "store2", "ready"}
      BY <2>2 DEF LockInv, LockExclusion, WriterInv
    <3>2. CASE writer[nm] = p
      BY <3>1, <3>2 DEF Quiet
    <3>3. CASE writer[nm] # p
      BY <2>2, <3>1, <3>3 DEF Quiet
    <3> QED BY <3>2, <3>3
  <2> QED BY <2>1, <2>2
<1> QED BY <1>1, <1>2, <1>3 DEF DataInv, EntryInv, WholeResults

LEMMA DataStep == TypeInv /\ LockInv /\ DataInv /\ [Next]_vars => DataInv'
<1> SUFFICES ASSUME TypeInv, LockInv, DataInv, [Next]_vars PROVE DataInv'
  OBVIOUS
<1> USE ConstantsAssumption DEF cacheVars, providerVars, requestVars, TypeInv, TypeOK
<1>1. CASE Start
  BY <1>1, WriterAlone DEF Start, DataInv, ResultInv, StoreInv, WholeInv, EntryInv,
     WholeResults, Quiet, LockInv, LockExclusion, WriterInv
<1>2. CASE Stop
  BY <1>2 DEF Stop, DataInv, ResultInv, StoreInv, WholeInv, EntryInv, WholeResults, Quiet
<1>3. ASSUME NEW p \in Entries, Provider(p) PROVE DataInv'
  <2>2. ASSUME NEW ok \in BOOLEAN, CollectReturns(p, ok) PROVE DataInv'
    <3>1. NextVersion(published[p]) # 0
      BY NextVersionType
    <3> QED BY MoveKeepsData, <2>2, <3>1 DEF CollectReturns, Goto
  <2>3. CASE AnnounceLock(p)
    BY MoveKeepsData, <2>3 DEF AnnounceLock, Goto, DataInv, ResultInv
  <2>4. CASE AcquireLock(p)
    BY MoveKeepsData, <2>4 DEF AcquireLock, Goto, DataInv, ResultInv
  <2>5. CASE StoreFirst(p)
    <3>1. /\ pc[p] = "store1"
          /\ pc' = [pc EXCEPT ![p] = "store2"]
          /\ UNCHANGED <<result, writer, rpc, idx, seenErr, got>>
          /\ \A k \in Names : k # NameOf[p] => state'[k] = state[k]
      BY <2>5 DEF StoreFirst, Goto
    <3>2. state[NameOf[p]] \in Fields /\ result[p].ok \in BOOLEAN
      BY DEF Result
    <3>3. state'[NameOf[p]] = IF result[p].ok
                              THEN [state[NameOf[p]] EXCEPT !.data = result[p].ver]
                              ELSE [state[NameOf[p]] EXCEPT !.errMsg = result[p].ver]
      BY <2>5 DEF StoreFirst
    <3>4. IF result[p].ok THEN state'[NameOf[p]].data = result[p].ver
                          ELSE state'[NameOf[p]].errMsg = result[p].ver
      BY <3>1, <3>2, <3>3 DEF Fields
    <3> QED BY <3>1, <3>4, StoreKeepsData
  <2>6. CASE StoreSecond(p)
    <3>1. /\ pc[p] = "store2"
          /\ pc' = [pc EXCEPT ![p] = "ready"]
          /\ UNCHANGED <<result, writer, rpc, idx, seenErr, got>>
          /\ \A k \in Names : k # NameOf[p] => state'[k] = state[k]
      BY <2>6 DEF StoreSecond, Goto
    <3>2. state[NameOf[p]] \in Fields /\ result[p].ok \in BOOLEAN
      BY DEF Result
    <3>3. state'[NameOf[p]] = IF result[p].ok
                              THEN [state[NameOf[p]] EXCEPT !.errMsg = 0]
                              ELSE [state[NameOf[p]] EXCEPT !.data = 0]
      BY <2>6 DEF StoreSecond
    <3>4. IF result[p].ok THEN state'[NameOf[p]].data = result[p].ver
                          ELSE state'[NameOf[p]].errMsg = result[p].ver
      BY <3>1, <3>2, <3>3 DEF Fields, DataInv, StoreInv
    <3>5. result[p].ok => state'[NameOf[p]].errMsg = 0
      BY <3>2, <3>3 DEF Fields
    <3> QED BY <3>1, <3>4, <3>5, StoreKeepsData
  <2>7. CASE Unlock(p)
    BY <2>7, UnlockKeepsData
  <2>8. CASE Refreshed(p)
    BY MoveKeepsData, <2>8 DEF Refreshed, Goto
  <2>9. CASE SelectTick(p)
    BY MoveKeepsData, <2>9 DEF SelectTick, Goto
  <2>10. CASE SelectStop(p)
    BY MoveKeepsData, <2>10 DEF SelectStop, Goto
  <2> QED BY <1>3, <2>2, <2>3, <2>4, <2>5, <2>6, <2>7, <2>8, <2>9, <2>10
          DEF Provider, Locked
<1>4. ASSUME NEW r \in Readers, Request(r) PROVE DataInv'
  <2> USE DEF DataInv
  <2>1. UNCHANGED <<pc, result, state, writer>>
    BY <1>4 DEF Request, GetBegin, RLock, ReadNotReady, ReadErrMsg, ReadEntry,
                GetReturns, Delivered
  <2>2. ResultInv' /\ StoreInv' /\ WholeInv'
    BY <2>1 DEF ResultInv, StoreInv, WholeInv, Quiet
  <2>3. CASE GetBegin(r)
    BY <2>2, <2>3 DEF GetBegin, Step, EntryInv, WholeResults
  <2>4. CASE RLock(r)
    BY <2>2, <2>4 DEF RLock, Step, EntryInv, WholeResults
  <2>5. CASE ReadNotReady(r)
    BY <2>2, <2>5 DEF ReadNotReady, Step, EntryInv, WholeResults
  <2>6. CASE ReadErrMsg(r)
    BY <2>2, <2>6 DEF ReadErrMsg, Step, EntryInv, WholeResults
  <2>7. CASE ReadEntry(r)
    <3>1. EntryInv'
      BY <2>1, <2>7 DEF ReadEntry, Step, EntryInv
    <3>2. WholeResults'
      <4>1. got'[r][idx[r]].ver # 0
        BY <2>7, ReaderSeesQuiet DEF ReadEntry, EntryInv, WholeInv, IndexInv, Result
      <4>2. \A q \in Readers : q # r => got'[q] = got[q] /\ idx'[q] = idx[q]
        BY <2>7 DEF ReadEntry
      <4>3. idx'[r] = idx[r] + 1
        BY <2>7 DEF ReadEntry
      <4>4. \A i \in Entries : i # idx[r] => got'[r][i] = got[r][i]
        BY <2>7 DEF ReadEntry
      <4>5. ASSUME NEW i \in 1 .. idx[r], i \in Entries PROVE got'[r][i].ver # 0
        <5>1. i # idx[r] => i \in 1 .. idx[r] - 1
          OBVIOUS
        <5> QED BY <4>1, <4>4, <4>5, <5>1 DEF WholeResults
      <4>6. 1 .. idx'[r] - 1 = 1 .. idx[r]
        BY <4>3
      <4> QED BY <4>2, <4>5, <4>6 DEF WholeResults
    <3> QED BY <2>2, <3>1, <3>2
  <2>8. CASE GetReturns(r)
    BY <2>2, <2>8 DEF GetReturns, Step, EntryInv, WholeResults
  <2>9. CASE Delivered(r)
    BY <2>2, <2>9 DEF Delivered, Step, EntryInv, WholeResults
  <2> QED BY <1>4, <2>3, <2>4, <2>5, <2>6, <2>7, <2>8, <2>9 DEF Request
<1>5. CASE UNCHANGED vars
  BY <1>5 DEF vars, DataInv, ResultInv, StoreInv, WholeInv, EntryInv, WholeResults, Quiet
<1> QED BY <1>1, <1>2, <1>3, <1>4, <1>5 DEF Next

\* Get never reports a mixture of two collections of a provider, however
\* many requests and providers run at once.
THEOREM WholeResultsCorrect == Spec => []WholeResults
<1>1. TypeInv /\ LockInv /\ DataInv /\ [Next]_vars => (TypeInv /\ LockInv /\ DataInv)'
  BY TypeStep, LockStep, DataStep
<1>2. Spec => [](TypeInv /\ LockInv /\ DataInv)
  BY <1>1, TypeInit, LockInit, DataInit, PTL DEF Spec
<1> QED BY <1>2, PTL DEF DataInv

(***************************************************************************)
(* 4. Complete and fresh answers.  With one provider a name, the fields of *)
(* a name are what its provider has published, except between its first    *)
(* store and Unlock; and what a provider publishes only gets newer.        *)
(***************************************************************************)
\* What Get reads in the fields of a name.
Read(nm) == IF state[nm].errMsg # 0 THEN state[nm].errMsg ELSE state[nm].data

PublishedInv == \A p \in Entries :
    /\ pc[p] \in {"lock", "wait", "store1", "store2", "ready"} => result[p].ver >= published[p]
    /\ state[NameOf[p]].ready => published[p] # 0
    /\ state[NameOf[p]].ready /\ pc[p] \notin {"store2", "ready"} =>
           Read(NameOf[p]) = published[p]

AnswerOf(r) ==
    /\ rpc[r] = "idle" => idx[r] = 1
    /\ answer[r] = "full" => rpc[r] = "answered" /\ idx[r] = N + 1
    /\ \A i \in Entries :
           /\ since[r][i] <= published[i]
           /\ i < idx[r] => published[i] # 0 /\ got[r][i].ver >= since[r][i]

AnswerInv == \A r \in Readers : AnswerOf(r)

FreshInv == PublishedInv /\ AnswerInv

LEMMA FreshInit == Init => FreshInv
BY ConstantsAssumption DEF Init, FreshInv, PublishedInv, AnswerInv, AnswerOf

LEMMA ReaderReadsPublished ==
    ASSUME UniqueNames, TypeInv, LockInv, PublishedInv,
           NEW r \in Readers, rpc[r] \in {"locked", "entry"},
           state[NameOf[idx[r]]].ready
    PROVE  /\ idx[r] \in Entries
           /\ published[idx[r]] # 0
           /\ Read(NameOf[idx[r]]) = published[idx[r]]
<1>1. idx[r] \in Entries
  BY DEF LockInv, LockExclusion
<1>2. Quiet(NameOf[idx[r]])
  BY ReaderSeesQuiet
<1>3. pc[idx[r]] \notin {"store2", "ready"}
  BY <1>1, <1>2 DEF Quiet, LockInv, LockExclusion
<1> QED BY <1>1, <1>3 DEF PublishedInv

\* A step never takes back what a provider has published.
PublishedGrows == \A p \in Entries :
    /\ published'[p] \in Versions
    /\ published'[p] >= published[p]
    /\ published[p] # 0 => published'[p] # 0

LEMMA PublishedStays == TypeInv /\ UNCHANGED published => PublishedGrows
BY ConstantsAssumption DEF TypeInv, TypeOK, PublishedGrows

LEMMA PublishedStep ==
    UniqueNames /\ TypeInv /\ LockInv /\ DataInv /\ PublishedInv /\ [Next]_vars
    => PublishedInv' /\ PublishedGrows
<1> SUFFICES ASSUME UniqueNames, TypeInv, LockInv, DataInv, PublishedInv, [Next]_vars
             PROVE  PublishedInv' /\ PublishedGrows
  OBVIOUS
<1> USE ConstantsAssumption DEF cacheVars, providerVars, requestVars, TypeInv, TypeOK
<1>1. CASE Start
  BY <1>1, PublishedStays DEF Start, PublishedInv, Read
<1>2. CASE UNCHANGED <<pc, result, state, published>>
  BY <1>2, PublishedStays DEF PublishedInv, Read
<1>3. ASSUME NEW p \in Entries, Provider(p)
      PROVE  PublishedInv' /\ PublishedGrows
  <2>1. \A q \in Entries : q # p => NameOf[q] # NameOf[p]
    BY DEF UniqueNames
  <2>2. ASSUME NEW ok \in BOOLEAN, CollectReturns(p, ok)
        PROVE  PublishedInv' /\ PublishedGrows
    <3>1. result' = [result EXCEPT ![p] = [ver |-> NextVersion(published[p]), ok |-> ok]]
      BY <2>2 DEF CollectReturns
    <3>2. result'[p].ver >= published[p]
      BY <3>1, NextVersionType
    <3> QED BY <2>2, <3>1, <3>2, PublishedStays
            DEF CollectReturns, Goto, PublishedInv, Read
  <2>3. CASE \/ AnnounceLock(p) \/ AcquireLock(p) \/ Refreshed(p)
            \/ SelectTick(p) \/ SelectStop(p)
    <3>1. /\ UNCHANGED <<result, state, published>>
          /\ \A q \in Entries : q # p => pc'[q] = pc[q]
          /\ pc[p] \in {"lock", "wait", "refresh", "select"}
          /\ pc'[p] \in {"wait", "store1"} => pc[p] \in {"lock", "wait"}
          /\ pc'[p] \in {"wait", "store1", "select", "collecting", "done"}
      BY <2>3 DEF AnnounceLock, AcquireLock, Refreshed, SelectTick, SelectStop, Goto
    <3>2. ASSUME NEW q \in Entries,
                 pc'[q] \in {"lock", "wait", "store1", "store2", "ready"}
          PROVE  result'[q].ver >= published'[q]
      BY <3>1, <3>2 DEF PublishedInv
    <3>3. ASSUME NEW q \in Entries, state'[NameOf[q]].ready
          PROVE  /\ published'[q] # 0
                 /\ pc'[q] \notin {"store2", "ready"} => Read(NameOf[q])' = published'[q]
      BY <3>1, <3>3 DEF PublishedInv, Read
    <3> QED BY <3>1, <3>2, <3>3, PublishedStays DEF PublishedInv
  <2>4. CASE StoreFirst(p) \/ StoreSecond(p)
    <3>1. /\ pc'[p] \in {"store2", "ready"} /\ pc[p] \in {"store1", "store2"}
          /\ \A q \in Entries : q # p => pc'[q] = pc[q] /\ state'[NameOf[q]] = state[NameOf[q]]
          /\ UNCHANGED <<result, published>>
      BY <2>1, <2>4 DEF StoreFirst, StoreSecond, Goto
    <3>2. state'[NameOf[p]].ready = state[NameOf[p]].ready
      <4>1. state[NameOf[p]] \in Fields
        OBVIOUS
      <4>2. CASE StoreFirst(p)
        <5>1. state'[NameOf[p]] = IF result[p].ok
                                  THEN [state[NameOf[p]] EXCEPT !.data = result[p].ver]
                                  ELSE [state[NameOf[p]] EXCEPT !.errMsg = result[p].ver]
          BY <4>2 DEF StoreFirst
        <5> QED BY <4>1, <5>1 DEF Fields
      <4>3. CASE StoreSecond(p)
        <5>1. state'[NameOf[p]] = IF result[p].ok
                                  THEN [state[NameOf[p]] EXCEPT !.errMsg = 0]
                                  ELSE [state[NameOf[p]] EXCEPT !.data = 0]
          BY <4>3 DEF StoreSecond
        <5> QED BY <4>1, <5>1 DEF Fields
      <4> QED BY <2>4, <4>2, <4>3
    <3>3. PublishedGrows
      BY <3>1, PublishedStays
    <3>4. ASSUME NEW q \in Entries
          PROVE  /\ pc'[q] \in {"lock", "wait", "store1", "store2", "ready"} =>
                        result'[q].ver >= published'[q]
                 /\ state'[NameOf[q]].ready => published'[q] # 0
                 /\ state'[NameOf[q]].ready /\ pc'[q] \notin {"store2", "ready"} =>
                        Read(NameOf[q])' = published'[q]
      BY <3>1, <3>2 DEF PublishedInv, Read
    <3> QED BY <3>3, <3>4 DEF PublishedInv
  <2>5. CASE Unlock(p)
    <3>1. /\ pc[p] = "ready" /\ pc' = [pc EXCEPT ![p] = "refresh"]
          /\ published' = [published EXCEPT ![p] = result[p].ver]
          /\ UNCHANGED result
      BY <2>5 DEF Unlock, Goto
    <3>2. \A q \in Entries : q # p => state'[NameOf[q]] = state[NameOf[q]]
      BY <2>1, <2>5 DEF Unlock
    <3>3. /\ state'[NameOf[p]].data = state[NameOf[p]].data
          /\ state'[NameOf[p]].errMsg = state[NameOf[p]].errMsg
      BY <2>5 DEF Unlock, Fields
    <3>4. result[p].ver # 0 /\ result[p].ver >= published[p]
      BY <3>1 DEF DataInv, ResultInv, PublishedInv
    <3>5. Read(NameOf[p])' = result[p].ver
      BY <3>1, <3>3, <3>4 DEF DataInv, StoreInv, Read
    <3>6. published'[p] = result[p].ver /\ \A q \in Entries : q # p => published'[q] = published[q]
      BY <3>1
    <3>7. result[p].ver \in Versions
      BY DEF Result
    <3>8. ASSUME NEW q \in Entries
          PROVE  /\ published'[q] \in Versions
                 /\ published'[q] >= published[q]
                 /\ published[q] # 0 => published'[q] # 0
      <4>1. CASE q = p
        BY <3>4, <3>6, <3>7, <4>1
      <4>2. CASE q # p
        BY <3>6, <4>2
      <4> QED BY <4>1, <4>2
    <3>9. PublishedInv'
      BY <3>1, <3>2, <3>4, <3>5, <3>6 DEF PublishedInv, Read
    <3> QED BY <3>8, <3>9 DEF PublishedGrows
  <2> QED BY <1>3, <2>2, <2>3, <2>4, <2>5 DEF Provider, Locked
<1>4. CASE Stop
  BY <1>2, <1>4 DEF Stop
<1>5. ASSUME NEW r \in Readers, Request(r) PROVE UNCHANGED <<pc, result, state, published>>
  BY <1>5 DEF Request, GetBegin, RLock, ReadNotReady, ReadErrMsg, ReadEntry, GetReturns,
              Delivered
<1>6. CASE UNCHANGED vars
  BY <1>2, <1>6 DEF vars
<1> QED BY <1>1, <1>2, <1>3, <1>4, <1>5, <1>6 DEF Next

LEMMA AnswerTypes ==
    TypeInv => /\ N \in Nat /\ \A i \in Entries : i \in Nat /\ published[i] \in Nat
               /\ \A r \in Readers : /\ idx[r] \in Nat
                                     /\ \A i \in Entries : since[r][i] \in Nat
BY ConstantsAssumption DEF TypeInv, TypeOK

\* A request that stands still keeps its answer, whatever is published.
LEMMA AnswerStays ==
    ASSUME TypeInv, PublishedGrows, NEW r \in Readers, AnswerOf(r),
           idx'[r] = idx[r], got'[r] = got[r], since'[r] = since[r],
           rpc'[r] = "idle" => rpc[r] = "idle",
           answer'[r] = "full" => answer[r] = "full" /\ rpc'[r] = rpc[r]
    PROVE  AnswerOf(r)'
<1>1. ASSUME NEW i \in Entries
      PROVE  /\ since'[r][i] <= published'[i]
             /\ i < idx'[r] => published'[i] # 0 /\ got'[r][i].ver >= since'[r][i]
  <2>1. since[r][i] \in Nat /\ published[i] \in Nat /\ published'[i] \in Nat
    BY AnswerTypes DEF PublishedGrows
  <2>2. since[r][i] <= published[i] /\ published'[i] >= published[i]
    BY DEF AnswerOf, PublishedGrows
  <2>3. i < idx[r] => published'[i] # 0 /\ got[r][i].ver >= since[r][i]
    BY DEF AnswerOf, PublishedGrows
  <2> QED BY <2>1, <2>2, <2>3
<1> QED BY <1>1 DEF AnswerOf

\* A request moves on by itself.
LEMMA RequestMoves ==
    ASSUME TypeInv, NEW r \in Readers, Request(r)
    PROVE  /\ published' = published
           /\ \A q \in Readers : q # r =>
                  /\ rpc'[q] = rpc[q] /\ idx'[q] = idx[q] /\ got'[q] = got[q]
                  /\ answer'[q] = answer[q] /\ since'[q] = since[q]
<1> USE DEF TypeInv, TypeOK, Step
<1>1. CASE GetBegin(r)
  BY <1>1 DEF GetBegin
<1>2. CASE RLock(r)
  BY <1>2 DEF RLock
<1>3. CASE ReadNotReady(r)
  BY <1>3 DEF ReadNotReady, cacheVars
<1>4. CASE ReadErrMsg(r)
  BY <1>4 DEF ReadErrMsg
<1>5. CASE ReadEntry(r)
  BY <1>5 DEF ReadEntry
<1>6. CASE GetReturns(r)
  BY <1>6 DEF GetReturns
<1>7. CASE Delivered(r)
  BY <1>7 DEF Delivered
<1> QED BY <1>1, <1>2, <1>3, <1>4, <1>5, <1>6, <1>7 DEF Request

LEMMA RequestKeepsAnswer ==
    ASSUME TypeInv, LockInv, DataInv, PublishedInv, AnswerInv, UniqueNames,
           PublishedGrows, NEW r \in Readers, Request(r)
    PROVE  AnswerOf(r)'
<1>1. AnswerOf(r) /\ published' = published
  BY RequestMoves DEF AnswerInv
<1>2. /\ r \in DOMAIN rpc /\ r \in DOMAIN idx /\ r \in DOMAIN got
      /\ r \in DOMAIN answer /\ r \in DOMAIN since
  BY DEF TypeInv, TypeOK
<1>3. CASE GetBegin(r)
  <2>1. /\ rpc[r] = "idle" /\ rpc'[r] = "loop" /\ since'[r] = published
        /\ UNCHANGED <<idx, got, answer>>
    BY <1>2, <1>3 DEF GetBegin, Step
  <2>2. idx[r] = 1 /\ answer[r] # "full"
    BY <1>1, <2>1 DEF AnswerOf
  <2>3. \A i \in Entries : published[i] <= published[i] /\ ~(i < 1)
    BY AnswerTypes DEF Entries
  <2> QED BY <1>1, <2>1, <2>2, <2>3 DEF AnswerOf
<1>4. CASE RLock(r) \/ ReadErrMsg(r)
  <2>1. /\ rpc[r] \in {"loop", "locked"} /\ rpc'[r] \in {"locked", "entry"}
        /\ UNCHANGED <<idx, got, answer, since>>
    BY <1>2, <1>4 DEF RLock, ReadErrMsg, Step
  <2>2. answer[r] # "full"
    BY <1>1, <2>1 DEF AnswerOf
  <2> QED BY <1>1, <2>1, <2>2, AnswerStays
<1>5. CASE ReadNotReady(r)
  <2>1. /\ rpc'[r] = "answered" /\ answer'[r] = "initializing"
        /\ UNCHANGED <<idx, got, since>>
    BY <1>2, <1>5 DEF ReadNotReady, Step
  <2> QED BY <1>1, <2>1, AnswerStays
<1>6. CASE ReadEntry(r)
  <2> DEFINE j == idx[r]
  <2>1. /\ rpc[r] = "entry" /\ rpc'[r] = "loop" /\ idx'[r] = j + 1
        /\ UNCHANGED <<answer, since>>
    BY <1>2, <1>6 DEF ReadEntry, Step
  <2>2. /\ j \in Entries /\ published[j] # 0 /\ Read(NameOf[j]) = published[j]
        /\ seenErr[r] = state[NameOf[j]].errMsg
    BY <2>1, ReaderReadsPublished DEF DataInv, EntryInv
  <2>3. /\ got'[r] = [got[r] EXCEPT ![j] =
                          IF seenErr[r] # 0 THEN [ver |-> state[NameOf[j]].errMsg, ok |-> FALSE]
                                            ELSE [ver |-> state[NameOf[j]].data, ok |-> TRUE]]
        /\ DOMAIN got[r] = Entries
    BY <1>2, <1>6 DEF ReadEntry, TypeInv, TypeOK
  <2>4. /\ got'[r][j].ver = published[j]
        /\ \A i \in Entries : i # j => got'[r][i] = got[r][i]
    <3>1. got'[r][j].ver = Read(NameOf[j])
      <4>1. got'[r][j] =
                IF seenErr[r] # 0 THEN [ver |-> state[NameOf[j]].errMsg, ok |-> FALSE]
                                  ELSE [ver |-> state[NameOf[j]].data, ok |-> TRUE]
        BY <2>2, <2>3
      <4>2. CASE seenErr[r] # 0
        <5>1. got'[r][j].ver = state[NameOf[j]].errMsg
          BY <4>1, <4>2
        <5> QED BY <2>2, <4>2, <5>1 DEF Read
      <4>3. CASE seenErr[r] = 0
        <5>1. got'[r][j].ver = state[NameOf[j]].data
          BY <4>1, <4>3
        <5> QED BY <2>2, <4>3, <5>1 DEF Read
      <4> QED BY <4>2, <4>3
    <3> QED BY <2>2, <2>3, <3>1
  <2>5. answer[r] # "full"
    BY <1>1, <2>1 DEF AnswerOf
  <2>6. ASSUME NEW i \in Entries, i < j + 1
        PROVE  published[i] # 0 /\ got'[r][i].ver >= since[r][i]
    <3>1. CASE i = j
      <4>1. since[r][j] <= published[j] /\ since[r][j] \in Nat /\ published[j] \in Nat
        BY <1>1, <2>2, AnswerTypes DEF AnswerOf
      <4> QED BY <2>2, <2>4, <3>1, <4>1
    <3>2. CASE i # j
      <4>1. i < idx[r]
        BY <2>6, <3>2, AnswerTypes
      <4> QED BY <1>1, <2>4, <3>2, <4>1 DEF AnswerOf
    <3> QED BY <3>1, <3>2
  <2> QED BY <1>1, <2>1, <2>5, <2>6 DEF AnswerOf
<1>7. CASE GetReturns(r)
  <2>1. /\ rpc'[r] = "answered" /\ idx[r] = N + 1 /\ UNCHANGED <<idx, got, since>>
    BY <1>2, <1>7 DEF GetReturns, Step
  <2> QED BY <1>1, <2>1 DEF AnswerOf
<1>8. CASE Delivered(r)
  <2>1. /\ idx'[r] = 1 /\ answer'[r] = "none" /\ since'[r] = [i \in Entries |-> 0]
    BY <1>2, <1>8 DEF Delivered
  <2>2. \A i \in Entries : 0 <= published[i] /\ ~(i < 1)
    BY AnswerTypes DEF Entries
  <2> QED BY <1>1, <2>1, <2>2 DEF AnswerOf
<1> QED BY <1>3, <1>4, <1>5, <1>6, <1>7, <1>8 DEF Request

LEMMA AnswerStep ==
    UniqueNames /\ TypeInv /\ LockInv /\ DataInv /\ FreshInv /\ [Next]_vars /\ PublishedGrows
    => AnswerInv'
<1> SUFFICES ASSUME UniqueNames, TypeInv, LockInv, DataInv, FreshInv, [Next]_vars,
                    PublishedGrows
             PROVE  AnswerInv'
  OBVIOUS
<1>0. PublishedInv /\ AnswerInv
  BY DEF FreshInv
<1>1. CASE UNCHANGED <<rpc, idx, got, answer, since>>
  BY <1>0, <1>1, AnswerStays DEF AnswerInv
<1>2. ASSUME NEW r \in Readers, Request(r) PROVE AnswerInv'
  <2>1. AnswerOf(r)'
    BY <1>0, <1>2, RequestKeepsAnswer
  <2>2. ASSUME NEW q \in Readers, q # r PROVE AnswerOf(q)'
    BY <1>0, <1>2, <2>2, RequestMoves, AnswerStays DEF AnswerInv
  <2> QED BY <2>1, <2>2 DEF AnswerInv
<1>3. ASSUME NEW p \in Entries, Provider(p) PROVE UNCHANGED <<rpc, idx, got, answer, since>>
  BY <1>3 DEF Provider, Locked, CollectReturns, AnnounceLock, AcquireLock, StoreFirst,
              StoreSecond, Unlock, Refreshed, SelectTick, SelectStop, requestVars, cacheVars,
              providerVars
<1>4. CASE Start \/ Stop \/ UNCHANGED vars
  BY <1>1, <1>4 DEF Start, Stop, vars, requestVars
<1> QED BY <1>1, <1>2, <1>3, <1>4 DEF Next

LEMMA FreshCorrect == Spec => [](UniqueNames => FreshInv)
<1>1. TypeInv /\ LockInv /\ DataInv /\ (UniqueNames => FreshInv) /\ [Next]_vars
      => (TypeInv /\ LockInv /\ DataInv /\ (UniqueNames => FreshInv))'
  <2> SUFFICES ASSUME TypeInv, LockInv, DataInv, UniqueNames => FreshInv, [Next]_vars
               PROVE  (TypeInv /\ LockInv /\ DataInv /\ (UniqueNames => FreshInv))'
    OBVIOUS
  <2>1. (TypeInv /\ LockInv /\ DataInv)'
    BY TypeStep, LockStep, DataStep
  <2>2. ASSUME UniqueNames PROVE FreshInv'
    <3>1. FreshInv
      BY <2>2
    <3>2. PublishedInv' /\ PublishedGrows
      BY <2>2, <3>1, PublishedStep DEF FreshInv
    <3>3. AnswerInv'
      BY <2>2, <3>1, <3>2, AnswerStep
    <3> QED BY <3>2, <3>3 DEF FreshInv
  <2>3. UniqueNames' <=> UniqueNames
    BY DEF UniqueNames
  <2> QED BY <2>1, <2>2, <2>3
<1> QED BY <1>1, TypeInit, LockInit, DataInit, FreshInit, PTL DEF Spec

\* A full answer is only given once every provider has completed a collection,
\* for every number of providers of different names.
THEOREM FullOnlyWhenAllCollectedCorrect == Spec => []FullOnlyWhenAllCollected
<1>1. TypeInv /\ (UniqueNames => FreshInv) => FullOnlyWhenAllCollected
  BY ConstantsAssumption
     DEF FullOnlyWhenAllCollected, FreshInv, AnswerInv, AnswerOf, TypeInv, TypeOK
<1>2. Spec => []TypeInv
  BY TypeInit, TypeStep, PTL DEF Spec
<1> QED BY <1>1, <1>2, FreshCorrect, PTL

\* No answer goes back behind what was published when the request came in, for
\* every number of providers of different names and of requests.
THEOREM FreshAnswersCorrect == Spec => []FreshAnswers
<1>1. (UniqueNames => FreshInv) => FreshAnswers
  BY DEF FreshAnswers, FreshInv, AnswerInv, AnswerOf
<1> QED BY <1>1, FreshCorrect, PTL

(***************************************************************************)
(* 5. DatasCache implements AtomicCache.  The first store of a collector   *)
(* is the step that publishes; everything else it does, and the locking of *)
(* Get, are stuttering steps.                                              *)
(***************************************************************************)
\* The collector that is between its first store and Unlock.
Storing(nm) == writer[nm] # 0 /\ pc[writer[nm]] \in {"store2", "ready"}

LEMMA ValueCases ==
    /\ \A nm \in Names : /\ Storing(nm) => Value[nm] = result[writer[nm]]
                         /\ ~Storing(nm) => Value[nm] = Stored(nm)
    /\ Value = [nm \in Names |-> Value[nm]]
BY DEF Value, Storing

\* A step that stores nothing and lets nobody in or out between the first
\* store and Unlock leaves the published values alone.
LEMMA ValueStays ==
    ASSUME \A nm \in Names : /\ state'[nm] = state[nm]
                             /\ Storing(nm)' <=> Storing(nm)
                             /\ Storing(nm) => result'[writer'[nm]] = result[writer[nm]]
    PROVE  Value' = Value
<1>1. ASSUME NEW nm \in Names
      PROVE  (IF Storing(nm) THEN result[writer[nm]] ELSE Stored(nm))'
              = (IF Storing(nm) THEN result[writer[nm]] ELSE Stored(nm))
  BY DEF Stored
<1> QED BY <1>1 DEF Value, Storing

\* The writer that is past Lock is the writer of its own name and no other.
LEMMA WriterElsewhere ==
    ASSUME LockInv, NEW p \in Entries, pc[p] \in {"store1", "store2", "ready"}
    PROVE  /\ writer[NameOf[p]] = p
           /\ \A n \in Names : n # NameOf[p] => writer[n] # p
<1>1. writer[NameOf[p]] = p
  BY DEF LockInv, LockExclusion
<1>2. ASSUME NEW n \in Names, writer[n] = p PROVE n = NameOf[p]
  <2>1. p # 0
    BY ConstantsAssumption DEF Entries
  <2> QED BY <1>2, <2>1 DEF LockInv, WriterInv
<1> QED BY <1>1, <1>2

\* A request that moves on changes its own phase only.
LEMMA PhaseMoves ==
    ASSUME TypeInv, NEW r \in Readers, NEW label, rpc' = [rpc EXCEPT ![r] = label],
           label \in {"idle", "loop", "answered"}
    PROVE  Phase' = [Phase EXCEPT ![r] = IF label = "loop" THEN "reading" ELSE label]
<1>1. \A q \in Readers : rpc'[q] = IF q = r THEN label ELSE rpc[q]
  BY DEF TypeInv, TypeOK
<1>2. ASSUME NEW q \in Readers
      PROVE  (IF rpc[q] \in {"loop", "locked", "entry"} THEN "reading" ELSE rpc[q])'
              = IF q = r THEN (IF label = "loop" THEN "reading" ELSE label) ELSE Phase[q]
  BY <1>1 DEF Phase
<1> QED BY <1>2 DEF Phase

LEMMA ProviderRefines ==
    ASSUME TypeInv, LockInv, DataInv, NEW p \in Entries, Provider(p)
    PROVE  [Atomic!Next]_Atomic!vars
<1> USE ConstantsAssumption DEF cacheVars, providerVars, requestVars, TypeInv, TypeOK
<1> DEFINE nm == NameOf[p]
<1>0. nm \in Names /\ p # 0
  OBVIOUS
<1>1. UNCHANGED <<rpc, idx, got, answer>>
  BY DEF Provider, Locked, CollectReturns, AnnounceLock, AcquireLock, StoreFirst,
         StoreSecond, Unlock, Refreshed, SelectTick, SelectStop
<1>2. Phase' = Phase
  BY <1>1 DEF Phase
<1>3. ASSUME Value' = Value PROVE [Atomic!Next]_Atomic!vars
  BY <1>1, <1>2, <1>3 DEF Atomic!vars
<1>4. \A n \in Names : writer[n] # 0 => writer[n] \in Entries
  OBVIOUS
<1>5. CASE \/ \E ok \in BOOLEAN : CollectReturns(p, ok)
           \/ AnnounceLock(p) \/ AcquireLock(p) \/ Refreshed(p)
           \/ SelectTick(p) \/ SelectStop(p)
  <2>1. /\ UNCHANGED state
        /\ pc[p] \notin {"store2", "ready"} /\ pc'[p] \notin {"store2", "ready"}
        /\ \A q \in Entries : q # p => pc'[q] = pc[q] /\ result'[q] = result[q]
        /\ \A n \in Names : writer'[n] # writer[n] => writer[n] = 0 /\ writer'[n] = p
    BY <1>5 DEF CollectReturns, AnnounceLock, AcquireLock, Refreshed, SelectTick,
                SelectStop, Goto
  <2>2. ASSUME NEW n \in Names
        PROVE  /\ Storing(n)' <=> Storing(n)
               /\ Storing(n) => result'[writer'[n]] = result[writer[n]]
    <3>1. CASE writer'[n] # writer[n]
      BY <2>1, <3>1 DEF Storing
    <3>2. CASE writer'[n] = writer[n]
      BY <1>4, <2>1, <3>2 DEF Storing
    <3> QED BY <3>1, <3>2
  <2> QED BY <1>3, <2>1, <2>2, ValueStays
<1>6. CASE StoreFirst(p)
  <2>1. /\ pc[p] = "store1" /\ pc'[p] = "store2"
        /\ \A q \in Entries : q # p => pc'[q] = pc[q]
        /\ \A n \in Names : n # nm => state'[n] = state[n]
        /\ UNCHANGED <<result, writer>>
    BY <1>6 DEF StoreFirst, Goto
  <2>2. writer[nm] = p /\ \A n \in Names : n # nm => writer[n] # p
    BY <2>1, WriterElsewhere
  <2>3. result[p] \in Atomic!Result /\ result[p].ver # 0
    BY <2>1 DEF DataInv, ResultInv, Result, Atomic!Result
  <2>4. Value'[nm] = result[p]
    BY <1>0, <2>1, <2>2 DEF Value
  <2>5. ASSUME NEW n \in Names, n # nm PROVE Value'[n] = Value[n]
    BY <1>4, <2>1, <2>2, <2>5 DEF Value, Stored
  <2>6. Value' = [Value EXCEPT ![nm] = result[p]]
    BY <1>0, <2>4, <2>5 DEF Value
  <2>7. Atomic!Publish(nm, result[p])
    BY <1>1, <1>2, <2>3, <2>6 DEF Atomic!Publish
  <2> QED BY <1>0, <2>3, <2>7 DEF Atomic!Next
<1>7. CASE StoreSecond(p)
  <2>1. /\ pc[p] = "store2" /\ pc'[p] = "ready"
        /\ \A q \in Entries : q # p => pc'[q] = pc[q]
        /\ \A n \in Names : n # nm => state'[n] = state[n]
        /\ UNCHANGED <<result, writer>>
    BY <1>7 DEF StoreSecond, Goto
  <2>2. writer[nm] = p /\ \A n \in Names : n # nm => writer[n] # p
    BY <2>1, WriterElsewhere
  <2>3. Value'[nm] = result[p] /\ Value[nm] = result[p]
    BY <1>0, <2>1, <2>2 DEF Value
  <2>4. ASSUME NEW n \in Names, n # nm PROVE Value'[n] = Value[n]
    BY <1>4, <2>1, <2>2, <2>4 DEF Value, Stored
  <2>5. Value' = Value
    BY <2>3, <2>4 DEF Value
  <2> QED BY <1>3, <2>5
<1>8. CASE Unlock(p)
  <2>1. /\ pc[p] = "ready" /\ pc'[p] = "refresh"
        /\ \A q \in Entries : q # p => pc'[q] = pc[q]
        /\ \A n \in Names : n # nm => state'[n] = state[n] /\ writer'[n] = writer[n]
        /\ writer'[nm] = 0 /\ UNCHANGED result
    BY <1>8 DEF Unlock, Goto
  <2>2. /\ state'[nm].ready
        /\ state'[nm].data = state[nm].data /\ state'[nm].errMsg = state[nm].errMsg
    BY <1>0, <1>8 DEF Unlock, Fields
  <2>3. writer[nm] = p /\ \A n \in Names : n # nm => writer[n] # p
    BY <2>1, WriterElsewhere
  <2>4. result[p] = [ver |-> result[p].ver, ok |-> result[p].ok] /\ result[p].ok \in BOOLEAN
    BY DEF Result
  <2>5. Stored(nm)' = result[p]
    <3>1. CASE result[p].ok
      <4>1. state'[nm].errMsg = 0 /\ state'[nm].data = result[p].ver
        BY <2>1, <2>2, <3>1 DEF DataInv, StoreInv
      <4>2. result[p].ok = TRUE
        BY <2>4, <3>1
      <4> QED BY <2>2, <2>4, <4>1, <4>2 DEF Stored
    <3>2. CASE ~result[p].ok
      <4>1. state'[nm].errMsg = result[p].ver /\ result[p].ver # 0
        BY <2>1, <2>2, <3>2 DEF DataInv, StoreInv, ResultInv
      <4>2. result[p].ok = FALSE
        BY <2>4, <3>2
      <4> QED BY <2>2, <2>4, <4>1, <4>2 DEF Stored
    <3> QED BY <3>1, <3>2
  <2>6. Value[nm] = result[p]
    BY <1>0, <2>1, <2>3 DEF Value
  <2>7. Value'[nm] = Stored(nm)'
    BY <1>0, <2>1 DEF Value
  <2>8. ASSUME NEW n \in Names, n # nm PROVE Value'[n] = Value[n]
    <3>1. state'[n] = state[n] /\ writer'[n] = writer[n] /\ writer[n] # p
      BY <2>1, <2>3, <2>8
    <3>2. Stored(n)' = Stored(n)
      BY <3>1 DEF Stored
    <3>3. CASE writer[n] = 0
      BY <3>1, <3>2, <3>3 DEF Value
    <3>4. CASE writer[n] # 0
      <4>1. writer[n] \in Entries
        BY <1>4, <3>4
      <4>2. pc'[writer'[n]] = pc[writer[n]] /\ result'[writer'[n]] = result[writer[n]]
        BY <2>1, <3>1, <4>1
      <4> QED BY <3>1, <3>2, <4>2 DEF Value
    <3> QED BY <3>3, <3>4
  <2>9. Value' = Value
    BY <2>5, <2>6, <2>7, <2>8 DEF Value
  <2> QED BY <1>3, <2>9
<1> QED BY <1>5, <1>6, <1>7, <1>8 DEF Provider, Locked

LEMMA RequestRefines ==
    ASSUME TypeInv, LockInv, DataInv, NEW r \in Readers, Request(r)
    PROVE  [Atomic!Next]_Atomic!vars
<1> USE ConstantsAssumption DEF cacheVars, providerVars, requestVars, TypeInv, TypeOK
<1>1. UNCHANGED <<pc, result, state, writer>>
  BY DEF Request, GetBegin, RLock, ReadNotReady, ReadErrMsg, ReadEntry, GetReturns, Delivered
<1>2. Value' = Value
  BY <1>1 DEF Value, Stored
<1>3. /\ \A q \in Readers : q # r => rpc'[q] = rpc[q]
      /\ Phase' = [q \in Readers |-> Phase'[q]] /\ Phase = [q \in Readers |-> Phase[q]]
  <2>1. \E label : Step(r, label)
    BY DEF Request, GetBegin, RLock, ReadNotReady, ReadErrMsg, ReadEntry, GetReturns,
           Delivered
  <2>2. \A q \in Readers : q # r => rpc'[q] = rpc[q]
    BY <2>1 DEF Step
  <2> QED BY <2>2 DEF Phase
<1>4. \A q \in Readers : q # r => Phase'[q] = Phase[q]
  BY <1>3 DEF Phase
<1>5. ASSUME rpc[r] \in {"locked", "entry"}
      PROVE  /\ idx[r] \in Entries /\ NameOf[idx[r]] \in Names
             /\ Quiet(NameOf[idx[r]])
             /\ Value[NameOf[idx[r]]] = Stored(NameOf[idx[r]])
  <2>1. idx[r] \in Entries
    BY <1>5 DEF LockInv, LockExclusion
  <2>2. NameOf[idx[r]] \in Names /\ Quiet(NameOf[idx[r]])
    BY <1>5, ReaderSeesQuiet
  <2>3. ~Storing(NameOf[idx[r]])
    BY <2>2 DEF Quiet, Storing
  <2> QED BY <2>1, <2>2, <2>3, ValueCases
<1>6. CASE GetBegin(r)
  <2>1. rpc[r] = "idle" /\ rpc' = [rpc EXCEPT ![r] = "loop"] /\ UNCHANGED <<idx, got, answer>>
    BY <1>6 DEF GetBegin, Step
  <2>2. Phase[r] = "idle" /\ Phase' = [Phase EXCEPT ![r] = "reading"]
    <3>1. Phase[r] = "idle"
      BY <2>1 DEF Phase
    <3> QED BY <2>1, <3>1, PhaseMoves
  <2> QED BY <1>2, <2>1, <2>2 DEF Atomic!Begin, Atomic!Next
<1>7. CASE RLock(r) \/ ReadErrMsg(r)
  <2>1. /\ rpc[r] \in {"loop", "locked"} /\ rpc'[r] \in {"locked", "entry"}
        /\ UNCHANGED <<idx, got, answer>>
    BY <1>7 DEF RLock, ReadErrMsg, Step
  <2>2. Phase' = Phase
    BY <1>3, <1>4, <2>1 DEF Phase
  <2> QED BY <1>2, <2>1, <2>2 DEF Atomic!vars
<1>8. CASE ReadNotReady(r)
  <2>1. /\ rpc[r] = "locked" /\ rpc' = [rpc EXCEPT ![r] = "answered"]
        /\ answer' = [answer EXCEPT ![r] = "initializing"]
        /\ ~state[NameOf[idx[r]]].ready
        /\ UNCHANGED <<idx, got>>
    BY <1>8 DEF ReadNotReady, Step
  <2>2. Phase[r] = "reading" /\ Phase' = [Phase EXCEPT ![r] = "answered"]
    <3>1. Phase[r] = "reading"
      BY <2>1 DEF Phase
    <3> QED BY <2>1, <3>1, PhaseMoves
  <2>3. idx[r] <= N /\ Value[NameOf[idx[r]]].ver = 0
    BY <1>5, <2>1 DEF Stored, Nothing
  <2> QED BY <1>2, <2>1, <2>2, <2>3 DEF Atomic!GiveUp, Atomic!Next
<1>9. CASE ReadEntry(r)
  <2> DEFINE nm == NameOf[idx[r]]
  <2>1. /\ rpc[r] = "entry" /\ rpc'[r] = "loop"
        /\ got' = [got EXCEPT ![r][idx[r]] =
                       IF seenErr[r] # 0 THEN [ver |-> state[nm].errMsg, ok |-> FALSE]
                                         ELSE [ver |-> state[nm].data, ok |-> TRUE]]
        /\ idx' = [idx EXCEPT ![r] = @ + 1]
        /\ UNCHANGED answer
    BY <1>9 DEF ReadEntry, Step
  <2>2. Phase[r] = "reading" /\ Phase' = Phase
    BY <1>3, <1>4, <2>1 DEF Phase
  <2>3. /\ idx[r] <= N /\ nm \in Names /\ Quiet(nm) /\ Value[nm] = Stored(nm)
    BY <1>5, <2>1
  <2>4. state[nm].ready /\ seenErr[r] = state[nm].errMsg
    BY <2>1 DEF DataInv, EntryInv
  <2>5. Value[nm] = IF seenErr[r] # 0 THEN [ver |-> state[nm].errMsg, ok |-> FALSE]
                                      ELSE [ver |-> state[nm].data, ok |-> TRUE]
    BY <2>3, <2>4 DEF Stored
  <2>6. Value[nm].ver # 0
    BY <2>3, <2>4, <2>5 DEF DataInv, WholeInv
  <2>7. got' = [got EXCEPT ![r][idx[r]] = Value[nm]]
    BY <2>1, <2>5
  <2> QED BY <1>2, <2>1, <2>2, <2>3, <2>6, <2>7 DEF Atomic!Read, Atomic!Next
<1>10. CASE GetReturns(r)
  <2>1. /\ rpc[r] = "loop" /\ rpc' = [rpc EXCEPT ![r] = "answered"] /\ idx[r] = N + 1
        /\ answer' = [answer EXCEPT ![r] = "full"]
        /\ UNCHANGED <<idx, got>>
    BY <1>10 DEF GetReturns, Step
  <2>2. Phase[r] = "reading" /\ Phase' = [Phase EXCEPT ![r] = "answered"]
    <3>1. Phase[r] = "reading"
      BY <2>1 DEF Phase
    <3> QED BY <2>1, <3>1, PhaseMoves
  <2> QED BY <1>2, <2>1, <2>2 DEF Atomic!Finish, Atomic!Next
<1>11. CASE Delivered(r)
  <2>1. /\ rpc[r] = "answered" /\ rpc' = [rpc EXCEPT ![r] = "idle"]
        /\ idx' = [idx EXCEPT ![r] = 1]
        /\ got' = [got EXCEPT ![r] = [i \in 1 .. N |-> Nothing]]
        /\ answer' = [answer EXCEPT ![r] = "none"]
    BY <1>11 DEF Delivered, Step
  <2>2. Phase[r] = "answered" /\ Phase' = [Phase EXCEPT ![r] = "idle"]
    <3>1. Phase[r] = "answered"
      BY <2>1 DEF Phase
    <3> QED BY <2>1, <3>1, PhaseMoves
  <2> QED BY <1>2, <2>1, <2>2 DEF Atomic!Deliver, Atomic!Next, Nothing, Atomic!Nothing
<1> QED BY <1>6, <1>7, <1>8, <1>9, <1>10, <1>11 DEF Request

\* DatasCache implements AtomicCache, for every number of providers, any names
\* in common and every number of requests: to the callers of Get a collection
\* becomes visible in one step and an entry is read in one step.
THEOREM RefinementCorrect == Spec => AtomicSpec
<1>1. Init => Atomic!Init
  BY ConstantsAssumption DEF Init, Value, Phase, Stored, Nothing, Atomic!Init, Atomic!Nothing
<1>2. TypeInv /\ LockInv /\ DataInv /\ [Next]_vars => [Atomic!Next]_Atomic!vars
  <2> SUFFICES ASSUME TypeInv, LockInv, DataInv, [Next]_vars
               PROVE  [Atomic!Next]_Atomic!vars
    OBVIOUS
  <2>1. CASE Start
    <3>1. /\ \A p \in Entries : pc[p] = "new" /\ pc'[p] = "collecting"
          /\ UNCHANGED <<state, writer, result, rpc, idx, got, answer>>
      BY <2>1 DEF Start, cacheVars, requestVars
    <3>2. \A nm \in Names : ~Storing(nm) /\ ~Storing(nm)'
      BY <3>1 DEF Storing, TypeInv, TypeOK
    <3>3. Value' = Value
      BY <3>1, <3>2, ValueStays
    <3> QED BY <3>1, <3>3 DEF Phase, Atomic!vars
  <2>2. CASE Stop \/ UNCHANGED vars
    <3>1. UNCHANGED <<pc, result, state, writer, rpc, idx, got, answer>>
      BY <2>2 DEF Stop, vars, cacheVars, providerVars, requestVars
    <3> QED BY <3>1 DEF Value, Stored, Phase, Atomic!vars
  <2> QED BY <2>1, <2>2, ProviderRefines, RequestRefines DEF Next
<1>3. TypeInv /\ LockInv /\ DataInv /\ [Next]_vars => (TypeInv /\ LockInv /\ DataInv)'
  BY TypeStep, LockStep, DataStep
<1>4. Spec => [](TypeInv /\ LockInv /\ DataInv)
  BY <1>3, TypeInit, LockInit, DataInit, PTL DEF Spec
<1> QED BY <1>1, <1>2, <1>4, PTL DEF Spec, AtomicSpec, Atomic!Spec
=============================================================================
