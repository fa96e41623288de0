----------------------------- MODULE DatasCache -----------------------------
(***************************************************************************)
(* internal/datas/registry.go: the per-provider cache behind /datas.       *)
(* One goroutine per registered provider collects, publishes under the     *)
(* RWMutex of its name and waits for its ticker or for stopCh; HTTP        *)
(* handlers call Get, which locks one entry after the other.               *)
(*                                                                         *)
(* A collection result is a version number with its outcome: the n-th      *)
(* collection of a provider has version n (saturating at MaxVersion, so    *)
(* the loops never run dry), and 0 stands for nil data, for errMsg "" and  *)
(* for "never collected".                                                  *)
(***************************************************************************)
EXTENDS Naturals

CONSTANTS N,          \* number of registered providers, in registry order
          Names,      \* provider names, the keys of DatasCache.states
          NameOf,     \* NameOf[i] = r.entries[i].provider.Name()
          Readers,    \* concurrent HTTP handlers calling Get
          Hanging,    \* entries whose Collect may never return
          MaxVersion  \* collections are told apart up to this one

Entries  == 1 .. N
Versions == 0 .. MaxVersion

ASSUME ConstantsAssumption ==
    /\ N \in Nat
    /\ NameOf \in [Entries -> Names]
    /\ Hanging \subseteq Entries
    /\ MaxVersion \in Nat \ {0}

\* NewDatasCache allocates one state per distinct name: two entries of the
\* same name share it.
UniqueNames == \A p, q \in Entries : NameOf[p] = NameOf[q] => p = q

VARIABLES
    pc,         \* pc[p]: where the goroutine of entry p is
    result,     \* result[p]: what p.Collect() returned last
    stopped,    \* stopCh is closed
    state,      \* state[nm]: the fields of perProviderState
    writer,     \* writer[nm]: the entry that has called mu.Lock (0: none)
    readers,    \* readers[nm]: the requests that hold mu.RLock
    rpc,        \* rpc[r]: where request r is inside Get
    idx,        \* idx[r]: the loop index of Get
    seenErr,    \* seenErr[r]: state.errMsg as Get read it
    got,        \* got[r][i]: what Get has put into its map for entry i
    answer,     \* answer[r]: the kind of answer Get returned
    published,  \* history: last version of p whose collect has unlocked
    since       \* history: published when request r entered Get

providerVars == <<pc, result, stopped>>
cacheVars    == <<state, writer, readers>>
requestVars  == <<rpc, idx, seenErr, got, answer, since>>
vars == <<providerVars, cacheVars, requestVars, published>>

Result  == [ver : Versions, ok : BOOLEAN]
Nothing == [ver |-> 0, ok |-> FALSE]
Fields  == [data : Versions, errMsg : Versions, ready : BOOLEAN]

Init ==
    /\ pc = [p \in Entries |-> "new"]
    /\ result = [p \in Entries |-> Nothing]
    /\ stopped = FALSE
    /\ state = [nm \in Names |-> [data |-> 0, errMsg |-> 0, ready |-> FALSE]]
    /\ writer = [nm \in Names |-> 0]
    /\ readers = [nm \in Names |-> {}]
    /\ rpc = [r \in Readers |-> "idle"]
    /\ idx = [r \in Readers |-> 1]
    /\ seenErr = [r \in Readers |-> 0]
    /\ got = [r \in Readers |-> [i \in Entries |-> Nothing]]
    /\ answer = [r \in Readers |-> "none"]
    /\ published = [p \in Entries |-> 0]
    /\ since = [r \in Readers |-> [i \in Entries |-> 0]]

-----------------------------------------------------------------------------
(* The provider goroutines: Start, runProvider and collect.                *)

Goto(p, label) == pc' = [pc EXCEPT ![p] = label]

Start ==
    /\ \A p \in Entries : pc[p] = "new"
    /\ pc' = [p \in Entries |-> "collecting"]
    /\ UNCHANGED <<result, stopped, cacheVars, requestVars, published>>

NextVersion(v) == IF v < MaxVersion THEN v + 1 ELSE v

\* p.Collect() returns, with data or with an error; no lock is held.
CollectReturns(p, ok) ==
    /\ pc[p] = "collecting"
    /\ result' = [result EXCEPT ![p] = [ver |-> NextVersion(published[p]), ok |-> ok]]
    /\ Goto(p, "lock")
    /\ UNCHANGED <<stopped, cacheVars, requestVars, published>>

\* state.mu.Lock(): a sync.RWMutex admits one writer at a time, turns new
\* readers away as soon as a writer has announced itself ...
AnnounceLock(p) ==
    /\ pc[p] = "lock"
    /\ writer[NameOf[p]] = 0
    /\ writer' = [writer EXCEPT ![NameOf[p]] = p]
    /\ Goto(p, "wait")
    /\ UNCHANGED <<result, stopped, state, readers, requestVars, published>>

\* ... and lets the writer in once the readers it found have left.
AcquireLock(p) ==
    /\ pc[p] = "wait"
    /\ readers[NameOf[p]] = {}
    /\ Goto(p, "store1")
    /\ UNCHANGED <<result, stopped, cacheVars, requestVars, published>>

\* The two assignments of the branch taken, in the order of the code: on an
\* error errMsg then data, on success data then errMsg.
StoreFirst(p) ==
    /\ pc[p] = "store1"
    /\ state' = [state EXCEPT ![NameOf[p]] =
                    IF result[p].ok THEN [@ EXCEPT !.data = result[p].ver]
                                    ELSE [@ EXCEPT !.errMsg = result[p].ver]]
    /\ Goto(p, "store2")
    /\ UNCHANGED <<result, stopped, writer, readers, requestVars, published>>

\* Mutant: a success that leaves the error of an earlier failure in place.
StoreSecondKeepsError(p) ==
    /\ pc[p] = "store2"
    /\ state' = [state EXCEPT ![NameOf[p]] =
                    IF result[p].ok THEN @ ELSE [@ EXCEPT !.data = 0]]
    /\ Goto(p, "ready")
    /\ UNCHANGED <<result, stopped, writer, readers, requestVars, published>>

StoreSecond(p) ==
    /\ pc[p] = "store2"
    /\ state' = [state EXCEPT ![NameOf[p]] =
                    IF result[p].ok THEN [@ EXCEPT !.errMsg = 0]
                                    ELSE [@ EXCEPT !.data = 0]]
    /\ Goto(p, "ready")
    /\ UNCHANGED <<result, stopped, writer, readers, requestVars, published>>

\* state.ready = true; state.mu.Unlock()
Unlock(p) ==
    /\ pc[p] = "ready"
    /\ state' = [state EXCEPT ![NameOf[p]].ready = TRUE]
    /\ writer' = [writer EXCEPT ![NameOf[p]] = 0]
    /\ published' = [published EXCEPT ![p] = result[p].ver]
    /\ Goto(p, "refresh")
    /\ UNCHANGED <<result, stopped, readers, requestVars>>

\* The OnRefresh callback returns and runProvider goes to its select.
Refreshed(p) ==
    /\ pc[p] = "refresh"
    /\ Goto(p, "select")
    /\ UNCHANGED <<result, stopped, cacheVars, requestVars, published>>

\* case <-ticker.C: the ticker holds one tick, dropping those that come while
\* a collection runs, so a tick may or may not be there already.
SelectTick(p) ==
    /\ pc[p] = "select"
    /\ Goto(p, "collecting")
    /\ UNCHANGED <<result, stopped, cacheVars, requestVars, published>>

\* Mutant: Stop sends one value instead of closing the channel.
SelectStopTakesToken(p) ==
    /\ pc[p] = "select"
    /\ stopped
    /\ stopped' = FALSE
    /\ Goto(p, "done")
    /\ UNCHANGED <<result, cacheVars, requestVars, published>>

\* case <-dc.stopCh: return
SelectStop(p) ==
    /\ pc[p] = "select"
    /\ stopped
    /\ Goto(p, "done")
    /\ UNCHANGED <<result, stopped, cacheVars, requestVars, published>>

\* Stop closes stopCh and waits for nobody.  A second call would panic: the
\* program calls it once, after Start.
Stop ==
    /\ \E p \in Entries : pc[p] # "new"
    /\ ~stopped
    /\ stopped' = TRUE
    /\ UNCHANGED <<pc, result, cacheVars, requestVars, published>>

-----------------------------------------------------------------------------
(* Get, called by any number of HTTP handlers at any time.                 *)

Step(r, label) == rpc' = [rpc EXCEPT ![r] = label]

GetBegin(r) ==
    /\ rpc[r] = "idle"
    /\ since' = [since EXCEPT ![r] = published]
    /\ Step(r, "loop")
    /\ UNCHANGED <<providerVars, cacheVars, idx, seenErr, got, answer, published>>

\* Mutant: Get takes no notice of the collector's lock.
RLockIgnoringWriter(r) ==
    /\ rpc[r] = "loop"
    /\ idx[r] \in Entries
    /\ readers' = [readers EXCEPT ![NameOf[idx[r]]] = @ \cup {r}]
    /\ Step(r, "locked")
    /\ UNCHANGED <<providerVars, state, writer, idx, seenErr, got, answer, since, published>>

\* state.mu.RLock(): blocked while a writer holds the lock or waits for it.
RLock(r) ==
    /\ rpc[r] = "loop"
    /\ idx[r] \in Entries
    /\ LET nm == NameOf[idx[r]] IN
           /\ writer[nm] = 0
           /\ readers' = [readers EXCEPT ![nm] = @ \cup {r}]
    /\ Step(r, "locked")
    /\ UNCHANGED <<providerVars, state, writer, idx, seenErr, got, answer, since, published>>

\* Mutant: the early return forgets RUnlock.
ReadNotReadyKeepsLock(r) ==
    /\ rpc[r] = "locked"
    /\ ~state[NameOf[idx[r]]].ready
    /\ answer' = [answer EXCEPT ![r] = "initializing"]
    /\ Step(r, "answered")
    /\ UNCHANGED <<providerVars, cacheVars, idx, seenErr, got, since, published>>

\* if !state.ready { RUnlock; return initializing }
ReadNotReady(r) ==
    /\ rpc[r] = "locked"
    /\ LET nm == NameOf[idx[r]] IN
           /\ ~state[nm].ready
           /\ readers' = [readers EXCEPT ![nm] = @ \ {r}]
    /\ answer' = [answer EXCEPT ![r] = "initializing"]
    /\ Step(r, "answered")
    /\ UNCHANGED <<providerVars, state, writer, idx, seenErr, got, since, published>>

\* Mutant: the entry is read whether it is ready or not.
ReadErrMsgUnready(r) ==
    /\ rpc[r] = "locked"
    /\ seenErr' = [seenErr EXCEPT ![r] = state[NameOf[idx[r]]].errMsg]
    /\ Step(r, "entry")
    /\ UNCHANGED <<providerVars, cacheVars, idx, got, answer, since, published>>

\* if state.errMsg != "" ...
ReadErrMsg(r) ==
    /\ rpc[r] = "locked"
    /\ state[NameOf[idx[r]]].ready
    /\ seenErr' = [seenErr EXCEPT ![r] = state[NameOf[idx[r]]].errMsg]
    /\ Step(r, "entry")
    /\ UNCHANGED <<providerVars, cacheVars, idx, got, answer, since, published>>

\* ... puts {"error": state.errMsg} or state.data into the map; RUnlock.
ReadEntry(r) ==
    /\ rpc[r] = "entry"
    /\ LET nm == NameOf[idx[r]] IN
           /\ got' = [got EXCEPT ![r][idx[r]] =
                         IF seenErr[r] # 0
                         THEN [ver |-> state[nm].errMsg, ok |-> FALSE]
                         ELSE [ver |-> state[nm].data, ok |-> TRUE]]
           /\ readers' = [readers EXCEPT ![nm] = @ \ {r}]
    /\ seenErr' = [seenErr EXCEPT ![r] = 0]
    /\ idx' = [idx EXCEPT ![r] = @ + 1]
    /\ Step(r, "loop")
    /\ UNCHANGED <<providerVars, state, writer, answer, since, published>>

GetReturns(r) ==
    /\ rpc[r] = "loop"
    /\ idx[r] = N + 1
    /\ answer' = [answer EXCEPT ![r] = "full"]
    /\ Step(r, "answered")
    /\ UNCHANGED <<providerVars, cacheVars, idx, seenErr, got, since, published>>

\* The handler has sent the answer; r stands for the next request.
Delivered(r) ==
    /\ rpc[r] = "answered"
    /\ Step(r, "idle")
    /\ idx' = [idx EXCEPT ![r] = 1]
    /\ got' = [got EXCEPT ![r] = [i \in Entries |-> Nothing]]
    /\ answer' = [answer EXCEPT ![r] = "none"]
    /\ since' = [since EXCEPT ![r] = [i \in Entries |-> 0]]
    /\ UNCHANGED <<providerVars, cacheVars, seenErr, published>>

-----------------------------------------------------------------------------
Locked(p) == AcquireLock(p) \/ StoreFirst(p) \/ StoreSecond(p) \/ Unlock(p)
Provider(p) == \/ \E ok \in BOOLEAN : CollectReturns(p, ok)
               \/ AnnounceLock(p) \/ Locked(p) \/ Refreshed(p)
               \/ SelectTick(p) \/ SelectStop(p)
Request(r) == \/ GetBegin(r) \/ RLock(r) \/ ReadNotReady(r) \/ ReadErrMsg(r)
              \/ ReadEntry(r) \/ GetReturns(r) \/ Delivered(r)

Next == \/ Start
        \/ Stop
        \/ \E p \in Entries : Provider(p)
        \/ \E r \in Readers : Request(r)

Spec == Init /\ [][Next]_vars

(***************************************************************************)
(* Fairness.  The Go scheduler runs every runnable goroutine (WF).  A      *)
(* Collect outside Hanging returns.  A select with two ready cases picks   *)
(* one at random, so stopCh is not passed over for ever (SF); RWMutex      *)
(* serves the readers and the writer that a writer kept waiting (SF).      *)
(* Nobody has to call Get or Stop.                                         *)
(***************************************************************************)
Fairness ==
    /\ WF_vars(Start)
    /\ \A p \in Entries \ Hanging :
           WF_vars(\E ok \in BOOLEAN : CollectReturns(p, ok))
    /\ \A p \in Entries :
           /\ SF_vars(AnnounceLock(p))
           /\ WF_vars(Locked(p) \/ Refreshed(p))
           /\ WF_vars(SelectTick(p))
           /\ SF_vars(SelectStop(p))
    /\ \A r \in Readers :
           /\ SF_vars(RLock(r))
           /\ WF_vars(ReadNotReady(r) \/ ReadErrMsg(r) \/ ReadEntry(r) \/ GetReturns(r))

FairSpec == Spec /\ Fairness
-----------------------------------------------------------------------------
(* Properties.                                                             *)

ProviderPCs == {"new", "collecting", "lock", "wait", "store1", "store2",
                "ready", "refresh", "select", "done"}
RequestPCs  == {"idle", "loop", "locked", "entry", "answered"}

\* Every variable keeps its type, and the read lock of a name is held by the
\* requests that are between RLock and RUnlock on it, and by no other: no
\* return of Get leaves a lock behind.
TypeOK ==
    /\ pc \in [Entries -> ProviderPCs]
    /\ result \in [Entries -> Result]
    /\ stopped \in BOOLEAN
    /\ state \in [Names -> Fields]
    /\ writer \in [Names -> 0 .. N]
    /\ readers = [nm \in Names |-> {r \in Readers : /\ rpc[r] \in {"locked", "entry"}
                                                  /\ NameOf[idx[r]] = nm}]
    /\ rpc \in [Readers -> RequestPCs]
    /\ idx \in [Readers -> 1 .. N + 1]
    /\ seenErr \in [Readers -> Versions]
    /\ got \in [Readers -> [Entries -> Result]]
    /\ answer \in [Readers -> {"none", "initializing", "full"}]
    /\ published \in [Entries -> Versions]
    /\ since \in [Readers -> [Entries -> Versions]]

\* Whatever Get has put into its map for an entry is one whole collection:
\* never the data of no collection (null) beside an empty error, which a
\* reader would see between the two assignments of collect.
WholeResults ==
    \A r \in Readers : \A i \in 1 .. idx[r] - 1 : i \in Entries => got[r][i].ver # 0

\* "Returns initializing if any provider has not yet completed its first
\* collection" (registry.go:259): a full answer is only given once every
\* provider has completed one.  Providers of one name share a ready flag.
FullOnlyWhenAllCollected ==
    UniqueNames =>
        \A r \in Readers : answer[r] = "full" => \A p \in Entries : published[p] # 0

\* What Get reports of an entry is at least as new as what that provider had
\* published when the request came in: answers never go back in time.
FreshAnswers ==
    UniqueNames =>
        \A r \in Readers : \A i \in Entries :
            i < idx[r] => got[r][i].ver >= since[r][i]

\* The lock discipline of collect and Get: a writer that is past mu.Lock is
\* alone with the fields, and a reader inside its critical section is counted.
LockExclusion ==
    /\ \A p \in Entries :
           /\ pc[p] \in {"wait", "store1", "store2", "ready"} <=> writer[NameOf[p]] = p
           /\ pc[p] \in {"store1", "store2", "ready"} => readers[NameOf[p]] = {}
    /\ \A r \in Readers :
           rpc[r] \in {"locked", "entry"} => /\ idx[r] \in Entries
                                           /\ r \in readers[NameOf[idx[r]]]

\* Every request is answered, although a provider may hang in Collect for
\* ever: Collect runs outside the lock.
RequestsAnswered == \A r \in Readers : rpc[r] = "loop" ~> rpc[r] = "answered"

\* A provider that hangs does not keep the others from refreshing: they
\* publish again and again until Stop is called.
OthersRefresh ==
    \A p \in Entries \ Hanging : []<>(pc[p] = "refresh" \/ stopped)

\* After Stop every provider goroutine that is not hung in Collect returns.
StopHaltsProviders ==
    \A p \in Entries \ Hanging : stopped ~> pc[p] = "done"

-----------------------------------------------------------------------------
(* Refinement.  A result is published at the first of the two assignments: *)
(* from there to Unlock the writer excludes every reader.                  *)

Stored(nm) ==
    LET s == state[nm] IN
    IF ~s.ready THEN Nothing
    ELSE IF s.errMsg # 0 THEN [ver |-> s.errMsg, ok |-> FALSE]
                         ELSE [ver |-> s.data, ok |-> TRUE]

Value == [nm \in Names |->
             IF writer[nm] # 0 /\ pc[writer[nm]] \in {"store2", "ready"}
             THEN result[writer[nm]]
             ELSE Stored(nm)]

Phase == [r \in Readers |-> IF rpc[r] \in {"loop", "locked", "entry"}
                            THEN "reading" ELSE rpc[r]]

Atomic == INSTANCE AtomicCache WITH value <- Value, phase <- Phase

\* DatasCache implements AtomicCache: to the callers of Get every collection
\* is published in one step and every entry is read in one step.
AtomicSpec == Atomic!Spec
=============================================================================
