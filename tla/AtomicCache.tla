---------------------------- MODULE AtomicCache ----------------------------
(***************************************************************************)
(* What the datas cache promises to the callers of Get, without locks,     *)
(* goroutines or fields: the result a provider last collected is one value *)
(* published in one step, and a request reads the entries one after the    *)
(* other, each in one step, giving up at the first entry that holds        *)
(* nothing.  DatasCache is shown to implement this specification.          *)
(***************************************************************************)
EXTENDS Naturals

CONSTANTS N,          \* number of registered providers
          Names,      \* names of the providers
          NameOf,     \* the name of entry i
          Readers,    \* concurrent callers of Get
          MaxVersion  \* collections are told apart up to this one

VARIABLES value,   \* value[nm]: the published result, version 0 when none
          phase,   \* phase[r]: "idle", "reading" or "answered"
          idx,     \* idx[r]: the entry request r reads next
          got,     \* got[r][i]: what request r has read of entry i
          answer   \* answer[r]: the kind of the last answer

vars == <<value, phase, idx, got, answer>>

Result  == [ver : 0 .. MaxVersion, ok : BOOLEAN]
Nothing == [ver |-> 0, ok |-> FALSE]

Init == /\ value = [nm \in Names |-> Nothing]
        /\ phase = [r \in Readers |-> "idle"]
        /\ idx = [r \in Readers |-> 1]
        /\ got = [r \in Readers |-> [i \in 1 .. N |-> Nothing]]
        /\ answer = [r \in Readers |-> "none"]

\* A collection that has ended becomes visible as a whole.
Publish(nm, v) ==
    /\ v.ver # 0
    /\ value' = [value EXCEPT ![nm] = v]
    /\ UNCHANGED <<phase, idx, got, answer>>

Begin(r) ==
    /\ phase[r] = "idle"
    /\ phase' = [phase EXCEPT ![r] = "reading"]
    /\ UNCHANGED <<value, idx, got, answer>>

\* The request reads one entry that holds a result ...
Read(r) ==
    /\ phase[r] = "reading"
    /\ idx[r] <= N
    /\ value[NameOf[idx[r]]].ver # 0
    /\ got' = [got EXCEPT ![r][idx[r]] = value[NameOf[idx[r]]]]
    /\ idx' = [idx EXCEPT ![r] = @ + 1]
    /\ UNCHANGED <<value, phase, answer>>

\* ... or meets one that does not and answers {"status":"initializing"}.
GiveUp(r) ==
    /\ phase[r] = "reading"
    /\ idx[r] <= N
    /\ value[NameOf[idx[r]]].ver = 0
    /\ phase' = [phase EXCEPT ![r] = "answered"]
    /\ answer' = [answer EXCEPT ![r] = "initializing"]
    /\ UNCHANGED <<value, idx, got>>

Finish(r) ==
    /\ phase[r] = "reading"
    /\ idx[r] = N + 1
    /\ phase' = [phase EXCEPT ![r] = "answered"]
    /\ answer' = [answer EXCEPT ![r] = "full"]
    /\ UNCHANGED <<value, idx, got>>

Deliver(r) ==
    /\ phase[r] = "answered"
    /\ phase' = [phase EXCEPT ![r] = "idle"]
    /\ idx' = [idx EXCEPT ![r] = 1]
    /\ got' = [got EXCEPT ![r] = [i \in 1 .. N |-> Nothing]]
    /\ answer' = [answer EXCEPT ![r] = "none"]
    /\ UNCHANGED value

Next == \/ \E nm \in Names, v \in Result : Publish(nm, v)
        \/ \E r \in Readers : \/ Begin(r) \/ Read(r) \/ GiveUp(r)
                              \/ Finish(r) \/ Deliver(r)

Spec == Init /\ [][Next]_vars
=============================================================================
