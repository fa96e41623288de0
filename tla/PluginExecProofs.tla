-------------------------- MODULE PluginExecProofs --------------------------
(***************************************************************************)
(* Proofs about PluginExec for every timeout, every plugin output and any  *)
(* number of builds and key pairs; and, in the first six sections, that    *)
(* the parser gives back every printable sequence of metrics, however many *)
(* metrics and labels there are and however long their texts.              *)
(***************************************************************************)
EXTENDS PluginExec, SequenceTheorems, WellFoundedInduction, TLAPS

(***************************************************************************)
(* 1. Induction over the natural numbers.  Their order is well founded,    *)
(* so a set of them that is not empty has a least element, and one with    *)
(* 0 and every successor has all.  A recursive function is CHOSEN: there   *)
(* is one that solves its equation (Recursion), and every one that does    *)
(* has its values in the set its step stays in (Steps).                    *)
(***************************************************************************)
LEMMA Least == ASSUME NEW T \in SUBSET Nat, T # {}
               PROVE  \E x \in T : \A y \in T : x <= y
<1> DEFINE R == OpToRel(<, Nat)
<1>1. \A x, y \in Nat : <<x, y>> \in R <=> x < y
  BY DEF OpToRel
<1>2. IsWellFoundedOn(R, Nat)
  BY NatLessThanWellFounded
<1> HIDE DEF R
<1>3. PICK x \in T : \A y \in T : ~ (<<y, x>> \in R)
  BY <1>2, WFMin
<1>4. ASSUME NEW y \in T PROVE x <= y
  <2>1. x \in Nat /\ y \in Nat /\ ~ (y < x)
    BY <1>1, <1>3
  <2> QED BY <2>1, SMT
<1> QED BY <1>4

LEMMA Induction == ASSUME NEW S, 0 \in S, \A k \in Nat : k \in S => k + 1 \in S
                   PROVE  \A k \in Nat : k \in S
<1> DEFINE T == Nat \ S
<1> SUFFICES ASSUME T # {} PROVE FALSE
  OBVIOUS
<1>1. PICK x \in T : \A y \in T : x <= y
  BY Least
<1>2. x # 0 /\ x \in Nat /\ x - 1 \in Nat /\ x - 1 + 1 = x /\ ~ (x <= x - 1)
  BY <1>1, SMT
<1>3. x - 1 \in S
  BY <1>1, <1>2
<1> QED BY <1>2, <1>3, <1>1

\* The same, as far as c.
LEMMA InductionTo == ASSUME NEW c \in Nat, NEW S, 0 \in S,
                            \A k \in 0 .. c - 1 : k \in S => k + 1 \in S
                     PROVE  \A k \in 0 .. c : k \in S
<1> DEFINE T == {k \in Nat : k <= c => k \in S}
<1>1. 0 \in T
  OBVIOUS
<1>2. ASSUME NEW k \in Nat, k \in T PROVE k + 1 \in T
  <2> SUFFICES ASSUME k + 1 <= c PROVE k + 1 \in S
    OBVIOUS
  <2>1. k <= c /\ k \in 0 .. c - 1
    BY SMT
  <2> QED BY <2>1, <1>2
<1>3. \A k \in Nat : k \in T
  <2> HIDE DEF T
  <2> QED BY <1>1, <1>2, Induction
<1>4. \A k \in 0 .. c : k \in Nat /\ k <= c
  BY SMT
<1> QED BY <1>3, <1>4

\* t[k] is what the step function gives from x in k steps.
IsRun(X, x, c, step, t) == /\ t \in [0 .. c -> X] /\ t[0] = x
                           /\ \A k \in 1 .. c : t[k] = step[<<t[k - 1], k>>]

LEMMA Recursion == ASSUME NEW X, NEW x \in X, NEW c \in Nat,
                          NEW step, step \in [X \X (1 .. c) -> X]
                   PROVE  \E t : IsRun(X, x, c, step, t)
<1> DEFINE Upto(d, t) == t[0] = x /\ \A k \in 1 .. d : t[k] = step[<<t[k - 1], k>>]
           S == {d \in Nat : \E t \in [0 .. d -> X] : Upto(d, t)}
<1>1. 0 \in S
  <2> DEFINE t == [k \in 0 .. 0 |-> x]
  <2>1. t \in [0 .. 0 -> X] /\ t[0] = x
    BY SMT
  <2>2. 1 .. 0 = {}
    BY SMT
  <2>3. Upto(0, t)
    <3> HIDE DEF t
    <3> QED BY <2>1, <2>2
  <2> HIDE DEF Upto
  <2> QED BY <2>1, <2>3
<1>2. ASSUME NEW d \in 0 .. c - 1, d \in S PROVE d + 1 \in S
  <2>1. PICK t \in [0 .. d -> X] : Upto(d, t)
    <3> HIDE DEF Upto
    <3> QED BY <1>2
  <2>5. d \in 0 .. d /\ d + 1 \in 1 .. c /\ d + 1 \notin 0 .. d /\ d \in Nat /\ d + 1 \in Nat
    BY SMT
  <2>2. t[d] \in X /\ <<t[d], d + 1>> \in X \X (1 .. c)
    BY <2>5
  <2> DEFINE u == [k \in 0 .. d + 1 |-> IF k = d + 1 THEN step[<<t[d], d + 1>>] ELSE t[k]]
  <2>3. u \in [0 .. d + 1 -> X]
    <3>1. \A k \in 0 .. d + 1 : k # d + 1 => k \in 0 .. d
      BY SMT
    <3>2. step[<<t[d], d + 1>>] \in X
      BY <2>2
    <3>3. \A k \in 0 .. d : t[k] \in X
      BY <2>1
    <3> QED BY <3>1, <3>2, <3>3
  <2>4. Upto(d + 1, u)
    <3>1. u[0] = x
      <4>1. 0 # d + 1 /\ 0 \in 0 .. d + 1
        BY SMT
      <4> QED BY <4>1, <2>1
    <3>2. ASSUME NEW k \in 1 .. d + 1 PROVE u[k] = step[<<u[k - 1], k>>]
      <4>1. k - 1 \in 0 .. d + 1 /\ k \in 0 .. d + 1 /\ k - 1 # d + 1
        BY SMT
      <4>2. u[k - 1] = t[k - 1]
        BY <4>1
      <4>3. CASE k = d + 1
        <5>1. k - 1 = d
          BY <4>3, <2>5
        <5>2. u[k] = step[<<t[d], d + 1>>]
          BY <4>1, <4>3
        <5> HIDE DEF u
        <5> QED BY <5>1, <5>2, <4>2, <4>3
      <4>4. CASE k # d + 1
        <5>1. k \in 1 .. d
          BY <4>4, SMT
        <5>2. u[k] = t[k]
          BY <4>1, <4>4
        <5> HIDE DEF u
        <5> QED BY <5>1, <5>2, <4>2, <2>1
      <4> QED BY <4>3, <4>4
    <3> HIDE DEF u
    <3> QED BY <3>1, <3>2
  <2> HIDE DEF u, Upto
  <2> QED BY <2>3, <2>4, <2>5
<1>3. c \in S
  <2> HIDE DEF S
  <2>1. c \in 0 .. c
    BY SMT
  <2> QED BY <2>1, <1>1, <1>2, InductionTo
<1>4. PICK t \in [0 .. c -> X] : Upto(c, t)
  <2> HIDE DEF Upto
  <2> QED BY <1>3
<1> QED BY <1>4 DEF IsRun

LEMMA Steps == ASSUME NEW X, NEW x \in X, NEW c \in Nat, NEW step \in [X \X (1 .. c) -> X], NEW u,
                      u[0] = x, \A k \in 1 .. c : u[k - 1] \in X => u[k] = step[<<u[k - 1], k>>]
               PROVE  \A k \in 0 .. c : u[k] \in X
<1> DEFINE S == {k \in Nat : u[k] \in X}
<1>1. 0 \in S
  OBVIOUS
<1>2. ASSUME NEW k \in 0 .. c - 1, k \in S PROVE k + 1 \in S
  <2>1. k + 1 \in 1 .. c /\ k + 1 - 1 = k
    BY SMT
  <2>2. u[k] \in X /\ u[k + 1 - 1] = u[k]
    BY <1>2, <2>1
  <2>3. u[k + 1] = step[<<u[k], k + 1>>]
    BY <2>1, <2>2
  <2> QED BY <2>1, <2>2, <2>3
<1>3. \A k \in 0 .. c : k \in S
  <2> HIDE DEF S
  <2> QED BY <1>1, <1>2, InductionTo
<1> QED BY <1>3

(***************************************************************************)
(* 2. The scans of a text, and its first, last and middle tokens.          *)
(***************************************************************************)
SplitState == [parts : Seq(Seq(Tokens)), cur : Seq(Tokens), inQuote : BOOLEAN]
SplitStart == [parts |-> <<>>, cur |-> <<>>, inQuote |-> FALSE]

LEMMA SplitTyped == ASSUME NEW b \in SplitState, NEW c \in Tokens
                    PROVE  FieldTurn(b, c) \in SplitState /\ PairTurn(b, c) \in SplitState
<1>1. b.parts \in Seq(Seq(Tokens)) /\ b.cur \in Seq(Tokens) /\ b.inQuote \in BOOLEAN
  BY DEF SplitState
<1>2. Append(b.cur, c) \in Seq(Tokens) /\ Append(b.parts, b.cur) \in Seq(Seq(Tokens))
      /\ <<>> \in Seq(Tokens)
  BY <1>1
<1>3. FieldTurn(b, c) \in SplitState
  BY <1>1, <1>2 DEF FieldTurn, AllParts, SplitState
<1> QED BY <1>1, <1>2, <1>3 DEF PairTurn, SplitState

FieldsOf(s, b) == /\ b \in [0 .. Len(s) -> SplitState] /\ b[0] = SplitStart
                 /\ \A k \in 1 .. Len(s) : b[k] = FieldTurn(b[k - 1], s[k])

LEMMA FieldsAre ==
    ASSUME NEW s \in Seq(Tokens)
    PROVE  \E b : /\ FieldsOf(s, b)
                  /\ Fields(s) = AllParts(b[Len(s)])
<1> DEFINE L == Len(s)
           Eq(u) == u = [n \in 0 .. L |-> IF n = 0 THEN SplitStart ELSE FieldTurn(u[n - 1], s[n])]
           step == [p \in SplitState \X (1 .. L) |-> FieldTurn(p[1], s[p[2]])]
           u == CHOOSE u : Eq(u)
<1>1. L \in Nat /\ \A k \in 1 .. L : s[k] \in Tokens
  OBVIOUS
<1>2. Fields(s) = AllParts(u[L])
  BY DEF Fields, Split, SplitStart
<1> HIDE DEF L
<1>3. step \in [SplitState \X (1 .. L) -> SplitState]
  BY <1>1, SplitTyped
<1>4. \A b \in SplitState, k \in 1 .. L : step[<<b, k>>] = FieldTurn(b, s[k])
  OBVIOUS
<1>5. SplitStart \in SplitState
  BY DEF SplitStart, SplitState
<1> HIDE DEF step
<1>14. PICK t : IsRun(SplitState, SplitStart, L, step, t)
  BY <1>1, <1>3, <1>5, Recursion
<1>6. t \in [0 .. L -> SplitState] /\ t[0] = SplitStart
      /\ \A k \in 1 .. L : t[k] = step[<<t[k - 1], k>>]
  BY <1>14 DEF IsRun
<1>7. Eq(t)
  <2>1. \A k \in 1 .. L : k - 1 \in 0 .. L
    BY <1>1, SMT
  <2>2. \A k \in 0 .. L : k # 0 => k \in 1 .. L
    BY <1>1, SMT
  <2>3. \A k \in 1 .. L : t[k] = FieldTurn(t[k - 1], s[k])
    BY <2>1, <1>4, <1>6
  <2> QED BY <2>2, <2>3, <1>6
<1>8. Eq(u)
  <2> HIDE DEF Eq
  <2> QED BY <1>7
<1>9. u[0] = SplitStart /\ \A k \in 1 .. L : u[k] = FieldTurn(u[k - 1], s[k])
  <2>1. \A k \in 1 .. L : k \in 0 .. L /\ k # 0
    BY <1>1, SMT
  <2>2. 0 \in 0 .. L
    BY <1>1, SMT
  <2> HIDE DEF u
  <2> QED BY <1>8, <2>1, <2>2
<1>10. DOMAIN u = 0 .. L
  <2> HIDE DEF u
  <2> QED BY <1>8
<1>11. \A k \in 0 .. L : u[k] \in SplitState
  <2>1. \A k \in 1 .. L : u[k - 1] \in SplitState => u[k] = step[<<u[k - 1], k>>]
    <3> HIDE DEF u
    <3> QED BY <1>4, <1>9
  <2> HIDE DEF u, Eq
  <2> QED BY ONLY <2>1, <1>1, <1>3, <1>5, <1>9, Steps
<1>12. u \in [0 .. L -> SplitState]
  <2>1. u = [n \in 0 .. L |-> u[n]]
    <3> HIDE DEF u
    <3> QED BY <1>8
  <2> HIDE DEF u
  <2> QED BY <2>1, <1>11
<1>13. FieldsOf(s, u)
  <2> HIDE DEF u
  <2> QED BY <1>9, <1>12 DEF FieldsOf, L
<1> QED BY <1>2, <1>13 DEF L

PairsOf(s, b) == /\ b \in [0 .. Len(s) -> SplitState] /\ b[0] = SplitStart
                 /\ \A k \in 1 .. Len(s) : b[k] = PairTurn(b[k - 1], s[k])

LEMMA PairsAre ==
    ASSUME NEW s \in Seq(Tokens)
    PROVE  \E b : /\ PairsOf(s, b)
                  /\ splitLabelPairs(s) = AllParts(b[Len(s)])
<1> DEFINE L == Len(s)
           Eq(u) == u = [n \in 0 .. L |-> IF n = 0 THEN SplitStart ELSE PairTurn(u[n - 1], s[n])]
           step == [p \in SplitState \X (1 .. L) |-> PairTurn(p[1], s[p[2]])]
           u == CHOOSE u : Eq(u)
<1>1. L \in Nat /\ \A k \in 1 .. L : s[k] \in Tokens
  OBVIOUS
<1>2. splitLabelPairs(s) = AllParts(u[L])
  BY DEF splitLabelPairs, Split, SplitStart
<1> HIDE DEF L
<1>3. step \in [SplitState \X (1 .. L) -> SplitState]
  BY <1>1, SplitTyped
<1>4. \A b \in SplitState, k \in 1 .. L : step[<<b, k>>] = PairTurn(b, s[k])
  OBVIOUS
<1>5. SplitStart \in SplitState
  BY DEF SplitStart, SplitState
<1> HIDE DEF step
<1>14. PICK t : IsRun(SplitState, SplitStart, L, step, t)
  BY <1>1, <1>3, <1>5, Recursion
<1>6. t \in [0 .. L -> SplitState] /\ t[0] = SplitStart
      /\ \A k \in 1 .. L : t[k] = step[<<t[k - 1], k>>]
  BY <1>14 DEF IsRun
<1>7. Eq(t)
  <2>1. \A k \in 1 .. L : k - 1 \in 0 .. L
    BY <1>1, SMT
  <2>2. \A k \in 0 .. L : k # 0 => k \in 1 .. L
    BY <1>1, SMT
  <2>3. \A k \in 1 .. L : t[k] = PairTurn(t[k - 1], s[k])
    BY <2>1, <1>4, <1>6
  <2> QED BY <2>2, <2>3, <1>6
<1>8. Eq(u)
  <2> HIDE DEF Eq
  <2> QED BY <1>7
<1>9. u[0] = SplitStart /\ \A k \in 1 .. L : u[k] = PairTurn(u[k - 1], s[k])
  <2>1. \A k \in 1 .. L : k \in 0 .. L /\ k # 0
    BY <1>1, SMT
  <2>2. 0 \in 0 .. L
    BY <1>1, SMT
  <2> HIDE DEF u
  <2> QED BY <1>8, <2>1, <2>2
<1>10. DOMAIN u = 0 .. L
  <2> HIDE DEF u
  <2> QED BY <1>8
<1>11. \A k \in 0 .. L : u[k] \in SplitState
  <2>1. \A k \in 1 .. L : u[k - 1] \in SplitState => u[k] = step[<<u[k - 1], k>>]
    <3> HIDE DEF u
    <3> QED BY <1>4, <1>9
  <2> HIDE DEF u, Eq
  <2> QED BY ONLY <2>1, <1>1, <1>3, <1>5, <1>9, Steps
<1>12. u \in [0 .. L -> SplitState]
  <2>1. u = [n \in 0 .. L |-> u[n]]
    <3> HIDE DEF u
    <3> QED BY <1>8
  <2> HIDE DEF u
  <2> QED BY <2>1, <1>11
<1>13. PairsOf(s, u)
  <2> HIDE DEF u
  <2> QED BY <1>9, <1>12 DEF PairsOf, L
<1> QED BY <1>2, <1>13 DEF L

LEMMA MinIs == ASSUME NEW T \in SUBSET Nat, NEW x \in T, \A y \in T : x <= y PROVE Min(T) = x
<1>1. Min(T) \in T /\ \A y \in T : Min(T) <= y
  BY DEF Min
<1>2. Min(T) <= x /\ x <= Min(T) /\ Min(T) \in Nat /\ x \in Nat
  BY <1>1
<1> QED BY <1>2, SMT

LEMMA MaxIs == ASSUME NEW T \in SUBSET Nat, NEW x \in T, \A y \in T : y <= x PROVE Max(T) = x
<1>1. Max(T) \in T /\ \A y \in T : y <= Max(T)
  BY DEF Max
<1>2. Max(T) <= x /\ x <= Max(T) /\ Max(T) \in Nat /\ x \in Nat
  BY <1>1
<1> QED BY <1>2, SMT

\* Index is the place of the first c, or 0.
LEMMA IndexIs == ASSUME NEW s \in Seq(Tokens), NEW c, NEW i \in 1 .. Len(s), s[i] = c,
                        \A j \in 1 .. i - 1 : s[j] # c
                 PROVE  Index(s, c) = i
<1> DEFINE T == {j \in 1 .. Len(s) : s[j] = c}
<1>1. T \in SUBSET Nat /\ i \in T
  OBVIOUS
<1>2. ASSUME NEW y \in T PROVE i <= y
  <2>1. y \in 1 .. Len(s) /\ s[y] = c /\ y \notin 1 .. i - 1
    OBVIOUS
  <2> QED BY <2>1, SMT
<1>3. Min(T) = i
  <2> HIDE DEF T
  <2> QED BY <1>1, <1>2, MinIs
<1>4. Index(s, c) = IF T # {} THEN Min(T) ELSE 0
  BY DEF Index, SelectInSeq
<1> QED BY <1>1, <1>3, <1>4

LEMMA IndexNone == ASSUME NEW s \in Seq(Tokens), NEW c, \A j \in 1 .. Len(s) : s[j] # c
                   PROVE  Index(s, c) = 0
<1> DEFINE T == {j \in 1 .. Len(s) : s[j] = c}
<1>1. T = {}
  OBVIOUS
<1>4. Index(s, c) = IF T # {} THEN Min(T) ELSE 0
  BY DEF Index, SelectInSeq
<1> QED BY <1>1, <1>4

\* Trim takes what is before the first and after the last other token.
LEMMA TrimIs == ASSUME NEW s \in Seq(Tokens), NEW c, NEW i \in 1 .. Len(s), NEW k \in i .. Len(s),
                       s[i] # c, s[k] # c, \A j \in 1 .. Len(s) : s[j] # c => i <= j /\ j <= k
                PROVE  Trim(s, c) = SubSeq(s, i, k)
<1> DEFINE T == {j \in DOMAIN s : s[j] # c}
<1>1. DOMAIN s = 1 .. Len(s) /\ k \in 1 .. Len(s)
  BY SMT
<1>2. T \in SUBSET Nat /\ i \in T /\ k \in T /\ \A j \in T : i <= j /\ j <= k
  BY <1>1
<1>3. Min(T) = i /\ Max(T) = k
  <2> HIDE DEF T
  <2> QED BY <1>2, MinIs, MaxIs
<1>4. T # {}
  BY <1>2
<1> QED BY <1>3, <1>4 DEF Trim

LEMMA TrimNone == ASSUME NEW s \in Seq(Tokens), NEW c, \A j \in 1 .. Len(s) : s[j] = c
                  PROVE  Trim(s, c) = <<>>
<1>1. {j \in DOMAIN s : s[j] # c} = {}
  OBVIOUS
<1> QED BY <1>1 DEF Trim

LEMMA TrimSame == ASSUME NEW s \in Seq(Tokens), NEW c, s # <<>>, s[1] # c, s[Len(s)] # c
                  PROVE  Trim(s, c) = s
<1>1. 1 \in 1 .. Len(s) /\ Len(s) \in 1 .. Len(s) /\ Len(s) \in Nat
      /\ \A j \in 1 .. Len(s) : 1 <= j /\ j <= Len(s)
  BY EmptySeq
<1>2. Trim(s, c) = SubSeq(s, 1, Len(s))
  BY <1>1, TrimIs
<1> QED BY <1>2, SubSeqFull

\* A text with a token in it, and what is before and after it.
LEMMA Cut ==
    ASSUME NEW x \in Seq(Tokens), NEW y \in Seq(Tokens), NEW c \in Tokens,
           NEW s, s = x \o <<c>> \o y
    PROVE  /\ s \in Seq(Tokens) /\ Len(s) = Len(x) + 1 + Len(y)
           /\ \A i \in 1 .. Len(x) : s[i] = x[i]
           /\ s[Len(x) + 1] = c
           /\ \A i \in 1 .. Len(y) : s[Len(x) + 1 + i] = y[i]
           /\ SubSeq(s, 1, Len(x)) = x
           /\ SubSeq(s, Len(x) + 2, Len(s)) = y
<1> DEFINE d == <<c>>  m == x \o d
<1>1. d \in Seq(Tokens) /\ Len(d) = 1 /\ d[1] = c /\ Len(x) \in Nat /\ Len(y) \in Nat
  OBVIOUS
<1>2. m \in Seq(Tokens) /\ Len(m) = Len(x) + 1
      /\ \A i \in 1 .. Len(x) + 1 : m[i] = IF i <= Len(x) THEN x[i] ELSE d[i - Len(x)]
  <2>1. /\ x \o d \in Seq(Tokens) /\ Len(x \o d) = Len(x) + Len(d)
        /\ \A i \in 1 .. Len(x) + Len(d) :
               (x \o d)[i] = IF i <= Len(x) THEN x[i] ELSE d[i - Len(x)]
    <3> HIDE DEF d
    <3> QED BY ONLY <1>1, x \in Seq(Tokens), ConcatProperties
  <2>2. Len(x) + Len(d) = Len(x) + 1
    BY <1>1
  <2> HIDE DEF d
  <2> QED BY <2>1, <2>2
<1>3. s \in Seq(Tokens) /\ Len(s) = Len(x) + 1 + Len(y)
      /\ \A i \in 1 .. Len(x) + 1 + Len(y) :
             s[i] = IF i <= Len(x) + 1 THEN m[i] ELSE y[i - (Len(x) + 1)]
  <2>1. s = m \o y
    OBVIOUS
  <2> HIDE DEF m
  <2> QED BY <2>1, <1>1, <1>2, ConcatProperties
<1>4. \A i \in 1 .. Len(x) : s[i] = x[i]
  <2> SUFFICES ASSUME NEW i \in 1 .. Len(x) PROVE s[i] = x[i]
    OBVIOUS
  <2>1. i \in 1 .. Len(x) + 1 /\ i \in 1 .. Len(x) + 1 + Len(y) /\ i <= Len(x) /\ i <= Len(x) + 1
    BY <1>1, SMT
  <2> HIDE DEF m, d
  <2> QED BY <2>1, <1>2, <1>3
<1>5. s[Len(x) + 1] = c
  <2>1. Len(x) + 1 \in 1 .. Len(x) + 1 /\ Len(x) + 1 \in 1 .. Len(x) + 1 + Len(y)
        /\ ~ (Len(x) + 1 <= Len(x)) /\ Len(x) + 1 <= Len(x) + 1 /\ Len(x) + 1 - Len(x) = 1
    BY <1>1, SMT
  <2>2. s[Len(x) + 1] = m[Len(x) + 1] /\ m[Len(x) + 1] = d[1]
    <3> HIDE DEF m, d
    <3> QED BY <2>1, <1>2, <1>3
  <2> QED BY <2>2
<1>6. \A i \in 1 .. Len(y) : s[Len(x) + 1 + i] = y[i]
  <2> SUFFICES ASSUME NEW i \in 1 .. Len(y) PROVE s[Len(x) + 1 + i] = y[i]
    OBVIOUS
  <2>1. Len(x) + 1 + i \in 1 .. Len(x) + 1 + Len(y) /\ ~ (Len(x) + 1 + i <= Len(x) + 1)
        /\ (Len(x) + 1 + i) - (Len(x) + 1) = i
    BY <1>1, SMT
  <2> HIDE DEF m, d
  <2> QED BY <2>1, <1>3
<1> HIDE DEF m, d
<1>7. SubSeq(s, 1, Len(x)) = x
  <2>1. Len(x) \in 0 .. Len(s)
    BY <1>1, <1>3, SMT
  <2>2. \A i \in 1 .. Len(x) : s[i] \in Tokens
    BY <1>4
  <2>3. /\ SubSeq(s, 1, Len(x)) \in Seq(Tokens)
        /\ Len(SubSeq(s, 1, Len(x))) = IF 1 <= Len(x) THEN Len(x) - 1 + 1 ELSE 0
        /\ \A i \in 1 .. Len(x) - 1 + 1 : SubSeq(s, 1, Len(x))[i] = s[1 + i - 1]
    BY <1>1, <2>2, SubSeqProperties
  <2>4. Len(SubSeq(s, 1, Len(x))) = Len(x)
    BY <2>3, <1>1, SMT
  <2>5. \A i \in 1 .. Len(x) : 1 + i - 1 = i /\ i \in 1 .. Len(x) - 1 + 1
    BY <1>1, SMT
  <2>6. \A i \in 1 .. Len(x) : SubSeq(s, 1, Len(x))[i] = x[i]
    BY <2>3, <2>5, <1>4
  <2> QED BY <2>3, <2>4, <2>6, SeqEqual
<1>8. SubSeq(s, Len(x) + 2, Len(s)) = y
  <2> DEFINE a == Len(x) + 2  b == Len(s)  q == SubSeq(s, a, b)
  <2>1. a \in Int /\ b \in Int /\ b - a + 1 = Len(y) /\ (IF a <= b THEN b - a + 1 ELSE 0) = Len(y)
        /\ \A i \in a .. b : i \in 1 .. Len(s)
    BY <1>1, <1>3, SMT
  <2>2. \A i \in a .. b : s[i] \in Tokens
    BY <2>1, <1>3
  <2>5. \A i \in 1 .. Len(y) : a + i - 1 = Len(x) + 1 + i
    BY <1>1, SMT
  <2> HIDE DEF a, b
  <2>3. /\ q \in Seq(Tokens)
        /\ Len(q) = IF a <= b THEN b - a + 1 ELSE 0
        /\ \A i \in 1 .. b - a + 1 : q[i] = s[a + i - 1]
    BY ONLY <2>1, <2>2, SubSeqProperties
  <2> HIDE DEF q
  <2>4. Len(q) = Len(y)
    BY <2>1, <2>3
  <2>6. \A i \in 1 .. Len(y) : q[i] = y[i]
    BY <2>1, <2>3, <2>5, <1>6
  <2>7. q = y
    BY <2>3, <2>4, <2>6, SeqEqual
  <2> QED BY <2>7 DEF q, a, b
<1> QED BY <1>3, <1>4, <1>5, <1>6, <1>7, <1>8

\* The beginning of a text, one token longer.
LEMMA SubSeqGrows == ASSUME NEW w \in Seq(Tokens), NEW k \in 0 .. Len(w) - 1
                     PROVE  /\ SubSeq(w, 1, k + 1) = Append(SubSeq(w, 1, k), w[k + 1])
                            /\ SubSeq(w, 1, k) \in Seq(Tokens)
<1>1. k \in Int /\ k + 1 \in Int /\ k \in Nat
  BY SMT
<1>2. \A i \in 1 .. k + 1 : w[i] \in Tokens
  BY SMT
<1>3. \A i \in 1 .. k : w[i] \in Tokens
  BY <1>2, SMT
<1> DEFINE q == SubSeq(w, 1, k)  r == SubSeq(w, 1, k + 1)
<1>4. /\ q \in Seq(Tokens) /\ Len(q) = (IF 1 <= k THEN k - 1 + 1 ELSE 0)
      /\ \A i \in 1 .. k - 1 + 1 : q[i] = w[1 + i - 1]
  BY ONLY <1>1, <1>3, 1 \in Int, SubSeqProperties
<1>5. /\ r \in Seq(Tokens) /\ Len(r) = (IF 1 <= k + 1 THEN k + 1 - 1 + 1 ELSE 0)
      /\ \A i \in 1 .. k + 1 - 1 + 1 : r[i] = w[1 + i - 1]
  BY ONLY <1>1, <1>2, 1 \in Int, SubSeqProperties
<1> HIDE DEF q, r
<1>6. Len(q) = k /\ Len(r) = k + 1
  BY <1>1, <1>4, <1>5, SMT
<1>7. \A i \in 1 .. k : q[i] = w[i]
  <2> SUFFICES ASSUME NEW i \in 1 .. k PROVE q[i] = w[i]
    OBVIOUS
  <2>1. i \in 1 .. k - 1 + 1 /\ 1 + i - 1 = i
    BY <1>1, SMT
  <2> QED BY <2>1, <1>4
<1>8. \A i \in 1 .. k + 1 : r[i] = w[i]
  <2> SUFFICES ASSUME NEW i \in 1 .. k + 1 PROVE r[i] = w[i]
    OBVIOUS
  <2>1. i \in 1 .. k + 1 - 1 + 1 /\ 1 + i - 1 = i
    BY <1>1, SMT
  <2> QED BY <2>1, <1>5
<1>9. w[k + 1] \in Tokens
  BY <1>1, <1>2
<1> DEFINE u == Append(q, w[k + 1])
<1>10. u \in Seq(Tokens) /\ Len(u) = k + 1 /\ u[k + 1] = w[k + 1] /\ \A i \in 1 .. k : u[i] = q[i]
  BY <1>4, <1>6, <1>9, AppendProperties
<1> HIDE DEF u
<1>11. \A i \in 1 .. k + 1 : r[i] = u[i]
  <2> SUFFICES ASSUME NEW i \in 1 .. k + 1 PROVE r[i] = u[i]
    OBVIOUS
  <2>1. CASE i = k + 1
    BY <2>1, <1>8, <1>10
  <2>2. CASE i # k + 1
    <3>1. i \in 1 .. k
      BY <2>2, <1>1, SMT
    <3> QED BY <3>1, <1>7, <1>8, <1>10
  <2> QED BY <2>1, <2>2
<1>12. r = u
  BY <1>5, <1>6, <1>10, <1>11, SeqEqual
<1> QED BY <1>4, <1>12 DEF q, r, u

LEMMA StateIs == ASSUME NEW b \in SplitState, NEW P, NEW c, NEW q
                 PROVE  b.parts = P /\ b.cur = c /\ b.inQuote = q =>
                            b = [parts |-> P, cur |-> c, inQuote |-> q]
  BY DEF SplitState

LEMMA AppendOne == ASSUME NEW x, NEW y PROVE Append(<<x>>, y) = <<x, y>>
<1> DEFINE S == {x, y}  q == <<x>>  r == Append(q, y)  u == <<x, y>>
<1>1. q \in Seq(S) /\ Len(q) = 1 /\ q[1] = x /\ u \in Seq(S) /\ Len(u) = 2 /\ u[1] = x /\ u[2] = y
  OBVIOUS
<1>2. y \in S
  OBVIOUS
<1> HIDE DEF q, u, S
<1>7. q \in Seq(S)
  BY <1>1
<1>3. r \in Seq(S) /\ Len(r) = Len(q) + 1 /\ (\A i \in 1 .. Len(q) : r[i] = q[i])
      /\ r[Len(q) + 1] = y
  BY ONLY <1>7, <1>2, AppendProperties
<1> HIDE DEF r
<1>4. Len(r) = 2 /\ r[1] = x /\ r[2] = y
  <2>1. 1 \in 1 .. Len(q) /\ Len(q) + 1 = 2
    BY <1>1
  <2> QED BY <2>1, <1>1, <1>3
<1>5. \A i \in 1 .. Len(r) : r[i] = u[i]
  BY <1>1, <1>4, SMT
<1>6. r = u
  BY <1>1, <1>3, <1>4, <1>5, SeqEqual
<1> QED BY <1>6 DEF q, r, u

\* The text s has w after its p-th token; w does not have c.
Has(s, p, w) == \A i \in 1 .. Len(w) : s[p + i] = w[i]
Free(w, c) == \A i \in 1 .. Len(w) : w[i] # c

\* A field that stands in a text after the p-th token.
LEMMA FieldRead ==
    ASSUME NEW s \in Seq(Tokens), NEW b, FieldsOf(s, b), NEW w \in Seq(Tokens), Free(w, Space),
           NEW p \in Nat, NEW e \in 0 .. Len(s), e = p + Len(w),
           Has(s, p, w), b[p].cur = <<>>
    PROVE  b[e].parts = b[p].parts /\ b[e].cur = w
<1> DEFINE L == Len(w)
           S == {k \in Nat : b[p + k].parts = b[p].parts /\ b[p + k].cur = SubSeq(w, 1, k)}
<1>1. L \in Nat /\ Len(s) \in Nat /\ p + L <= Len(s)
  OBVIOUS
<1>2. 0 \in S
  <2>1. p + 0 = p /\ SubSeq(w, 1, 0) = <<>>
    BY SubSeqEmpty
  <2> QED BY <2>1
<1>3. ASSUME NEW k \in 0 .. L - 1, k \in S PROVE k + 1 \in S
  <2>1. /\ p + k \in 0 .. Len(s) /\ p + (k + 1) \in 1 .. Len(s) /\ p + (k + 1) - 1 = p + k
        /\ k + 1 \in 1 .. L /\ k + 1 \in Nat
    BY <1>1, SMT
  <2>2. b[p + (k + 1)] = FieldTurn(b[p + k], w[k + 1]) /\ w[k + 1] # Space /\ b[p + k] \in SplitState
    <3>1. b[p + k] \in SplitState
      BY <2>1 DEF FieldsOf
    <3>2. s[p + (k + 1)] = w[k + 1]
      BY <2>1 DEF Has
    <3>3. b[p + (k + 1)] = FieldTurn(b[p + k], s[p + (k + 1)])
      <4> DEFINE j == p + (k + 1)
      <4>1. j \in 1 .. Len(s) /\ j - 1 = p + k /\ j = p + (k + 1)
        BY <2>1, SMT
      <4> HIDE DEF j
      <4>2. b[j] = FieldTurn(b[j - 1], s[j])
        BY <4>1 DEF FieldsOf
      <4> QED BY <4>1, <4>2
    <3>4. w[k + 1] # Space
      BY <2>1 DEF Free
    <3> QED BY <2>1, <3>1, <3>2, <3>3, <3>4
  <2>3. b[p + k].parts = b[p].parts /\ b[p + k].cur = SubSeq(w, 1, k)
    BY <1>3
  <2>4. b[p + (k + 1)].parts = b[p].parts /\ b[p + (k + 1)].cur = Append(b[p + k].cur, w[k + 1])
    BY <2>2, <2>3 DEF FieldTurn, SplitState
  <2>5. SubSeq(w, 1, k + 1) = Append(SubSeq(w, 1, k), w[k + 1])
    BY SubSeqGrows
  <2> QED BY <2>1, <2>3, <2>4, <2>5
<1>4. L \in S
  <2>1. L \in 0 .. L
    BY <1>1, SMT
  <2> HIDE DEF S, L
  <2> QED BY <2>1, <1>1, <1>2, <1>3, InductionTo
<1> QED BY <1>4, SubSeqFull

\* Two words with a space between them are two fields.
LEMMA TwoFields ==
    ASSUME NEW x \in Seq(Tokens), NEW y \in Seq(Tokens), x # <<>>, y # <<>>,
           Free(x, Space), Free(y, Space)
    PROVE  Fields(x \o <<Space>> \o y) = <<x, y>>
<1> DEFINE s == x \o <<Space>> \o y  K == Len(x)  L == Len(s)
<1>0. Space \in Tokens
  BY DEF Tokens, Marks
<1>1. /\ s \in Seq(Tokens) /\ L = K + 1 + Len(y)
      /\ \A i \in 1 .. Len(x) : s[i] = x[i]
      /\ s[K + 1] = Space
      /\ \A i \in 1 .. Len(y) : s[K + 1 + i] = y[i]
  BY <1>0, Cut
<1>2. K \in Nat /\ Len(y) \in Nat /\ L \in Nat
  OBVIOUS
<1> HIDE DEF s, K, L
<1>3. PICK b : FieldsOf(s, b) /\ Fields(s) = AllParts(b[Len(s)])
  BY <1>1, FieldsAre
<1>4. b[0] = SplitStart /\ b[K] \in SplitState /\ b[K + 1] = FieldTurn(b[K], s[K + 1])
  <2>1. K \in 0 .. L /\ K + 1 \in 1 .. L /\ K + 1 - 1 = K
    BY <1>1, <1>2, SMT
  <2>2. /\ b \in [0 .. L -> SplitState] /\ b[0] = SplitStart
        /\ \A k \in 1 .. L : b[k] = FieldTurn(b[k - 1], s[k])
    BY <1>3 DEF FieldsOf, L
  <2>3. b[K + 1] = FieldTurn(b[K + 1 - 1], s[K + 1])
    BY <2>1, <2>2
  <2> QED BY <2>1, <2>2, <2>3
<1>5. b[K].parts = <<>> /\ b[K].cur = x
  <2>1. b[0].cur = <<>> /\ b[0].parts = <<>>
    BY <1>4 DEF SplitStart
  <2>2. 0 \in Nat /\ K \in 0 .. Len(s) /\ K = 0 + K /\ \A i \in 1 .. K : 0 + i = i
    BY <1>1, <1>2 DEF L
  <2>3. Has(s, 0, x)
    BY <1>1, <2>2 DEF K, Has
  <2>4. K = 0 + Len(x) /\ x \in Seq(Tokens) /\ FieldsOf(s, b) /\ s \in Seq(Tokens)
        /\ Free(x, Space)
    BY <2>2, <1>1, <1>3 DEF K
  <2>5. b[K].parts = b[0].parts /\ b[K].cur = x
    BY ONLY <2>1, <2>2, <2>3, <2>4, FieldRead
  <2> QED BY <2>1, <2>5
<1>6. b[K + 1].parts = <<x>> /\ b[K + 1].cur = <<>>
  BY <1>1, <1>4, <1>5 DEF FieldTurn, AllParts, SplitState
<1>7. b[L].parts = <<x>> /\ b[L].cur = y
  <2>1. K + 1 \in Nat /\ L \in 0 .. Len(s) /\ L = (K + 1) + Len(y)
    BY <1>1, <1>2, SMT DEF L
  <2>2. y \in Seq(Tokens) /\ FieldsOf(s, b) /\ s \in Seq(Tokens)
        /\ Free(y, Space) /\ Has(s, K + 1, y) /\ b[K + 1].cur = <<>>
    BY <1>1, <1>3, <1>6 DEF Has
  <2>3. b[L].parts = b[K + 1].parts /\ b[L].cur = y
    BY ONLY <2>1, <2>2, FieldRead
  <2> QED BY <2>3, <1>6
<1>8. Fields(s) = Append(<<x>>, y)
  BY <1>3, <1>7 DEF AllParts, L
<1>9. Append(<<x>>, y) = <<x, y>>
  BY AppendOne
<1> QED BY <1>8, <1>9 DEF s

(***************************************************************************)
(* 3. Labels: what is printed of them is split at the commas between them  *)
(* and at no other, and each pair is parsed into its label.                *)
(***************************************************************************)
LabelSet == [key : Names, value : Seq(Tokens \ {Quote, "}"})]

LEMMA WordsAreTokens == ASSUME NEW w \in Seq(Words)
                        PROVE  /\ w \in Seq(Tokens)
                               /\ \A i \in 1 .. Len(w) : w[i] \notin Marks
                               /\ \A c \in Marks : Free(w, c)
<1>1. Words \subseteq Tokens /\ \A x \in Words : x \notin Marks
  BY WordsAssumption DEF Tokens
<1>2. w \in Seq(Tokens)
  BY <1>1, SeqMonotonic
<1>3. \A i \in 1 .. Len(w) : w[i] \notin Marks
  BY <1>1
<1> QED BY <1>2, <1>3 DEF Free

LEMMA LabelTyped == ASSUME NEW l \in LabelSet
                    PROVE  /\ l.key \in Seq(Words) /\ l.key # <<>> /\ l.key \in Seq(Tokens)
                           /\ l.value \in Seq(Tokens)
                           /\ Free(l.value, Quote) /\ Free(l.value, "}")
<1>1. l.key \in Seq(Words) /\ l.key # <<>> /\ l.value \in Seq(Tokens \ {Quote, "}"})
  BY DEF LabelSet, Names
<1>2. l.value \in Seq(Tokens)
  <2>1. Tokens \ {Quote, "}"} \subseteq Tokens
    OBVIOUS
  <2> QED BY <1>1, <2>1, SeqMonotonic
<1>3. \A i \in 1 .. Len(l.value) : l.value[i] # Quote /\ l.value[i] # "}"
  <2> DEFINE T == Tokens \ {Quote, "}"}
  <2>1. \A x \in T : x # Quote /\ x # "}"
    OBVIOUS
  <2>2. l.value \in Seq(T)
    BY <1>1
  <2> HIDE DEF T
  <2>3. \A i \in 1 .. Len(l.value) : l.value[i] \in T
    BY ONLY <2>2, ElementOfSeq
  <2> QED BY <2>1, <2>3
<1>4. l.key \in Seq(Tokens)
  BY <1>1, WordsAreTokens
<1> QED BY <1>1, <1>2, <1>3, <1>4 DEF Free

\* A text that is made of two.
Joins(s, x, y) == /\ s \in Seq(Tokens) /\ Len(s) = Len(x) + Len(y)
                  /\ \A i \in 1 .. Len(x) : s[i] = x[i]
                  /\ \A i \in 1 .. Len(y) : s[Len(x) + i] = y[i]

LEMMA Joined == ASSUME NEW x \in Seq(Tokens), NEW y \in Seq(Tokens)
                PROVE  Joins(x \o y, x, y)
<1> DEFINE s == x \o y
<1>1. s \in Seq(Tokens) /\ Len(s) = Len(x) + Len(y)
      /\ \A i \in 1 .. Len(x) + Len(y) : s[i] = IF i <= Len(x) THEN x[i] ELSE y[i - Len(x)]
  BY ConcatProperties
<1>2. Len(x) \in Nat /\ Len(y) \in Nat
  OBVIOUS
<1>3. ASSUME NEW i \in 1 .. Len(x) PROVE s[i] = x[i]
  <2>1. i \in 1 .. Len(x) + Len(y) /\ i <= Len(x)
    BY <1>2, SMT
  <2> QED BY <2>1, <1>1
<1>4. ASSUME NEW i \in 1 .. Len(y) PROVE s[Len(x) + i] = y[i]
  <2>1. Len(x) + i \in 1 .. Len(x) + Len(y) /\ ~ (Len(x) + i <= Len(x)) /\ (Len(x) + i) - Len(x) = i
    BY <1>2, SMT
  <2> QED BY <2>1, <1>1
<1> HIDE DEF s
<1>5. Joins(s, x, y)
  BY <1>1, <1>3, <1>4 DEF Joins
<1> QED BY <1>5 DEF s

\* What a label is printed as: its parts, where they stand.
LEMMA LabelText ==
    ASSUME NEW l \in LabelSet, NEW w, w = PrintLabel(l)
    PROVE  /\ w \in Seq(Tokens) /\ Len(w) = Len(l.key) + 2 + Len(l.value) + 1
           /\ \A i \in 1 .. Len(l.key) : w[i] = l.key[i]
           /\ w[Len(l.key) + 1] = "=" /\ w[Len(l.key) + 2] = Quote
           /\ \A i \in 1 .. Len(l.value) : w[Len(l.key) + 2 + i] = l.value[i]
           /\ w[Len(w)] = Quote
<1> DEFINE two == <<"=", Quote>>  one == <<Quote>>  a == l.key \o two  c == a \o l.value
<1>1. "=" \in Tokens /\ Quote \in Tokens
  BY DEF Tokens, Marks
<1>2. /\ two \in Seq(Tokens) /\ Len(two) = 2 /\ two[1] = "=" /\ two[2] = Quote
      /\ one \in Seq(Tokens) /\ Len(one) = 1 /\ one[1] = Quote
  BY <1>1
<1>3. l.key \in Seq(Tokens) /\ l.value \in Seq(Tokens) /\ Len(l.key) \in Nat /\ Len(l.value) \in Nat
  <2>1. l.key \in Seq(Tokens) /\ l.value \in Seq(Tokens)
    BY LabelTyped
  <2> QED BY ONLY <2>1, LenProperties
<1>4. w = c \o one
  BY DEF PrintLabel
<1> HIDE DEF two, one
<1>5. /\ a \in Seq(Tokens) /\ Len(a) = Len(l.key) + Len(two)
      /\ \A i \in 1 .. Len(l.key) : a[i] = l.key[i]
      /\ \A i \in 1 .. Len(two) : a[Len(l.key) + i] = two[i]
  <2>1. Joins(l.key \o two, l.key, two)
    BY ONLY <1>2, <1>3, Joined
  <2> QED BY <2>1 DEF Joins
<1> HIDE DEF a
<1>6. /\ c \in Seq(Tokens) /\ Len(c) = Len(a) + Len(l.value)
      /\ \A i \in 1 .. Len(a) : c[i] = a[i]
      /\ \A i \in 1 .. Len(l.value) : c[Len(a) + i] = l.value[i]
  <2>1. Joins(a \o l.value, a, l.value)
    BY ONLY <1>5, <1>3, Joined
  <2> QED BY <2>1 DEF Joins
<1> HIDE DEF c
<1>7. /\ w \in Seq(Tokens) /\ Len(w) = Len(c) + Len(one)
      /\ \A i \in 1 .. Len(c) : w[i] = c[i]
      /\ \A i \in 1 .. Len(one) : w[Len(c) + i] = one[i]
  <2>1. Joins(c \o one, c, one)
    BY ONLY <1>2, <1>4, <1>6, Joined
  <2> QED BY <2>1, <1>4 DEF Joins
<1> DEFINE K == Len(l.key)  V == Len(l.value)
<1>8. K \in Nat /\ V \in Nat /\ Len(a) = K + 2 /\ Len(c) = K + 2 + V /\ Len(w) = K + 2 + V + 1
  BY <1>2, <1>3, <1>5, <1>6, <1>7
<1> HIDE DEF K, V
<1>9. ASSUME NEW i \in 1 .. K PROVE w[i] = l.key[i]
  <2>1. i \in 1 .. Len(a) /\ i \in 1 .. Len(c)
    BY <1>8, SMT
  <2> QED BY <2>1, <1>5, <1>6, <1>7 DEF K
<1>10. w[K + 1] = "=" /\ w[K + 2] = Quote
  <2>1. {K + 1, K + 2} \subseteq 1 .. Len(a) /\ {K + 1, K + 2} \subseteq 1 .. Len(c)
        /\ 1 \in 1 .. Len(two) /\ 2 \in 1 .. Len(two)
    BY <1>2, <1>8, SMT
  <2>2. a[K + 1] = two[1] /\ a[K + 2] = two[2]
    BY <2>1, <1>5 DEF K
  <2> QED BY <2>1, <2>2, <1>2, <1>6, <1>7
<1>11. ASSUME NEW i \in 1 .. V PROVE w[K + 2 + i] = l.value[i]
  <2>1. Len(a) + i = K + 2 + i /\ K + 2 + i \in 1 .. Len(c)
    BY <1>8, SMT
  <2> QED BY <2>1, <1>6, <1>7 DEF V
<1>12. w[Len(w)] = Quote
  <2>1. Len(w) = Len(c) + 1 /\ 1 \in 1 .. Len(one)
    BY <1>2, <1>8
  <2> QED BY <2>1, <1>2, <1>7
<1> QED BY <1>7, <1>8, <1>9, <1>10, <1>11, <1>12 DEF K, V

\* It is parsed into what it was printed from.
LEMMA PairParsed == ASSUME NEW l \in LabelSet PROVE ParsePair(PrintLabel(l)) = l
<1> DEFINE w == PrintLabel(l)  K == Len(l.key)  V == Len(l.value)  y == SubSeq(w, K + 2, Len(w))
<1>1. /\ w \in Seq(Tokens) /\ Len(w) = K + 2 + V + 1
      /\ \A i \in 1 .. K : w[i] = l.key[i]
      /\ w[K + 1] = "=" /\ w[K + 2] = Quote
      /\ \A i \in 1 .. V : w[K + 2 + i] = l.value[i]
      /\ w[Len(w)] = Quote
  BY LabelText
<1>14. l.key # <<>> /\ l.key \in Seq(Tokens) /\ l.value \in Seq(Tokens) /\ l.key \in Seq(Words)
       /\ Free(l.value, Quote)
  BY LabelTyped
<1>2. /\ l.key # <<>> /\ l.key \in Seq(Tokens) /\ K \in Nat /\ K # 0 /\ V \in Nat
      /\ l.value \in Seq(Tokens) /\ (\A c \in Marks : Free(l.key, c)) /\ Free(l.value, Quote)
  <2>1. K \in Nat /\ K # 0 /\ V \in Nat
    BY ONLY <1>14, LenProperties, EmptySeq
  <2>2. \A c \in Marks : Free(l.key, c)
    BY ONLY <1>14, WordsAreTokens
  <2> QED BY <2>1, <2>2, <1>14
<1>3. "=" \in Marks /\ Space \in Marks /\ "=" # Space /\ Quote # Space
  BY DEF Marks, Space, Quote
<1> HIDE DEF w, K, V
<1>4. Index(w, "=") = K + 1
  <2>1. K + 1 \in 1 .. Len(w) /\ K + 1 - 1 = K
    BY <1>1, <1>2, SMT
  <2>2. \A j \in 1 .. K + 1 - 1 : w[j] # "="
    BY <1>1, <1>2, <1>3, <2>1 DEF Free, K
  <2>3. w \in Seq(Tokens) /\ w[K + 1] = "="
    BY <1>1
  <2> DEFINE i == K + 1
  <2>4. i \in 1 .. Len(w) /\ w[i] = "=" /\ \A j \in 1 .. i - 1 : w[j] # "="
    <3>1. K \in Nat
      BY <1>2
    <3>2. i \in 1 .. Len(w) /\ w[i] = "="
      BY ONLY <2>1, <2>3
    <3>3. \A j \in 1 .. i - 1 : w[j] # "="
      BY ONLY <2>2, <3>1
    <3> QED BY ONLY <3>2, <3>3
  <2> HIDE DEF i
  <2>5. Index(w, "=") = i
    BY ONLY <2>3, <2>4, IndexIs
  <2> QED BY <2>5 DEF i
<1>5. SubSeq(w, 1, K) = l.key
  <2>1. 1 \in Int /\ K \in Int /\ \A i \in 1 .. K : w[i] \in Tokens
    BY <1>1, <1>2 DEF K
  <2> DEFINE q == SubSeq(w, 1, K)
  <2>2. /\ q \in Seq(Tokens) /\ Len(q) = IF 1 <= K THEN K - 1 + 1 ELSE 0
        /\ \A i \in 1 .. K - 1 + 1 : q[i] = w[1 + i - 1]
    BY ONLY <2>1, SubSeqProperties
  <2> HIDE DEF q
  <2>3. Len(q) = K
    BY <1>2, <2>2, SMT
  <2>4. \A i \in 1 .. K : q[i] = l.key[i]
    <3> SUFFICES ASSUME NEW i \in 1 .. K PROVE q[i] = l.key[i]
      OBVIOUS
    <3>1. i \in 1 .. K - 1 + 1 /\ 1 + i - 1 = i
      BY <1>2, SMT
    <3> QED BY <3>1, <2>2, <1>1
  <2>5. q = l.key
    BY <2>2, <2>3, <2>4, <1>2, SeqEqual DEF K
  <2> QED BY <2>5 DEF q
<1>6. /\ y \in Seq(Tokens) /\ Len(y) = V + 2 /\ y[1] = Quote /\ y[V + 2] = Quote
      /\ \A i \in 1 .. V : y[i + 1] = l.value[i]
  <2>1. K + 2 \in Int /\ Len(w) \in Int /\ \A i \in K + 2 .. Len(w) : i \in 1 .. Len(w)
    BY <1>1, <1>2, SMT
  <2>2. \A i \in K + 2 .. Len(w) : w[i] \in Tokens
    BY <1>1, <2>1
  <2>3. /\ y \in Seq(Tokens) /\ Len(y) = IF K + 2 <= Len(w) THEN Len(w) - (K + 2) + 1 ELSE 0
        /\ \A i \in 1 .. Len(w) - (K + 2) + 1 : y[i] = w[K + 2 + i - 1]
    BY ONLY <2>1, <2>2, SubSeqProperties
  <2> HIDE DEF y
  <2>4. Len(w) - (K + 2) + 1 = V + 2 /\ K + 2 <= Len(w) /\ 1 \in 1 .. V + 2 /\ V + 2 \in 1 .. V + 2
        /\ K + 2 + 1 - 1 = K + 2 /\ K + 2 + (V + 2) - 1 = Len(w)
    BY <1>1, <1>2, SMT
  <2>5. y[1] = w[K + 2 + 1 - 1] /\ y[V + 2] = w[K + 2 + (V + 2) - 1]
    BY <2>3, <2>4
  <2>6. ASSUME NEW i \in 1 .. V PROVE y[i + 1] = l.value[i]
    <3>1. i + 1 \in 1 .. V + 2 /\ K + 2 + (i + 1) - 1 = K + 2 + i
      BY <1>2, SMT
    <3>2. y[i + 1] = w[K + 2 + (i + 1) - 1]
      BY <2>3, <2>4, <3>1
    <3> QED BY <3>1, <3>2, <1>1
  <2> QED BY <2>3, <2>4, <2>5, <2>6, <1>1
<1> HIDE DEF y
<1>7. Trim(l.key, Space) = l.key
  <2>1. 1 \in 1 .. Len(l.key) /\ Len(l.key) \in 1 .. Len(l.key)
    BY <1>2 DEF K
  <2>2. l.key[1] # Space /\ l.key[Len(l.key)] # Space
    BY <2>1, <1>2, <1>3 DEF Free
  <2> QED BY <2>2, <1>2, TrimSame
<1>8. Trim(y, Space) = y
  <2>1. y # <<>> /\ y[1] # Space /\ y[Len(y)] # Space
    BY <1>2, <1>3, <1>6
  <2> QED BY <2>1, <1>6, TrimSame
<1>9. Trim(y, Quote) = l.value
  <2>1. CASE V = 0
    <3>1. \A i \in 1 .. Len(y) : i = 1 \/ i = V + 2
      BY <2>1, <1>6, SMT
    <3>2. \A i \in 1 .. Len(y) : y[i] = Quote
      BY <3>1, <1>6
    <3>3. Trim(y, Quote) = <<>>
      BY <3>2, <1>6, TrimNone
    <3>4. l.value = <<>>
      BY <2>1, <1>2 DEF V
    <3> QED BY <3>3, <3>4
  <2>2. CASE V # 0
    <3> DEFINE z == SubSeq(y, 2, V + 1)
    <3>1. /\ 2 \in 1 .. Len(y) /\ V + 1 \in 2 .. Len(y) /\ 1 \in 1 .. V /\ V \in 1 .. V
          /\ 2 \in Int /\ V + 1 \in Int /\ 1 + 1 = 2
          /\ \A i \in 2 .. V + 1 : i \in 1 .. Len(y)
      BY <2>2, <1>2, <1>6, SMT
    <3>2. y[2] # Quote /\ y[V + 1] # Quote
      BY <3>1, <1>2, <1>6 DEF Free, V
    <3>3. \A j \in 1 .. Len(y) : y[j] # Quote => 2 <= j /\ j <= V + 1
      BY <1>2, <1>6, SMT
    <3>4. Trim(y, Quote) = z
      BY ONLY <3>1, <3>2, <3>3, <1>6, TrimIs
    <3>5. \A i \in 2 .. V + 1 : y[i] \in Tokens
      BY <3>1, <1>6
    <3>6. /\ z \in Seq(Tokens) /\ Len(z) = IF 2 <= V + 1 THEN V + 1 - 2 + 1 ELSE 0
          /\ \A i \in 1 .. V + 1 - 2 + 1 : z[i] = y[2 + i - 1]
      BY ONLY <3>1, <3>5, SubSeqProperties
    <3> HIDE DEF z
    <3>7. Len(z) = V
      BY <3>6, <2>2, <1>2, SMT
    <3>8. \A i \in 1 .. V : z[i] = l.value[i]
      <4> SUFFICES ASSUME NEW i \in 1 .. V PROVE z[i] = l.value[i]
        OBVIOUS
      <4>1. i \in 1 .. V + 1 - 2 + 1 /\ 2 + i - 1 = i + 1
        BY <1>2, SMT
      <4> QED BY <4>1, <3>6, <1>6
    <3>9. z = l.value
      BY <3>6, <3>7, <3>8, <1>2, SeqEqual DEF V
    <3> QED BY <3>4, <3>9
  <2> QED BY <2>1, <2>2
<1>10. /\ SubSeq(w, 1, Index(w, "=") - 1) = l.key /\ SubSeq(w, Index(w, "=") + 1, Len(w)) = y
  <2>1. K + 1 - 1 = K /\ K + 1 + 1 = K + 2
    BY <1>2, SMT
  <2>2. Index(w, "=") - 1 = K /\ Index(w, "=") + 1 = K + 2
    <3>1. K \in Nat
      BY <1>2
    <3> QED BY ONLY <3>1, <1>4
  <2> QED BY <2>2, <1>5 DEF y
<1>11. ParsePair(w) = [key |-> l.key, value |-> l.value]
  BY <1>7, <1>8, <1>9, <1>10 DEF ParsePair
<1>12. l = [key |-> l.key, value |-> l.value]
  BY DEF LabelSet
<1> QED BY <1>11, <1>12 DEF w

\* The text of a label after the text of those before it, when it is the n-th.
LabelTurn(text, n, l) == (IF n = 1 THEN <<>> ELSE Append(text, ",")) \o PrintLabel(l)

LabelsOf(ls, t) == /\ t \in [0 .. Len(ls) -> Seq(Tokens)] /\ t[0] = <<>>
                   /\ \A k \in 1 .. Len(ls) : t[k] = LabelTurn(t[k - 1], k, ls[k])

LEMMA LabelTurnTyped == ASSUME NEW text \in Seq(Tokens), NEW n, NEW l \in LabelSet
                        PROVE  LabelTurn(text, n, l) \in Seq(Tokens)
<1>1. PrintLabel(l) \in Seq(Tokens)
  BY LabelText
<1>2. "," \in Tokens
  BY DEF Tokens, Marks
<1>3. Append(text, ",") \in Seq(Tokens) /\ <<>> \in Seq(Tokens)
  <2>1. text \in Seq(Tokens)
    OBVIOUS
  <2> QED BY ONLY <2>1, <1>2, AppendProperties, EmptySeq
<1> DEFINE h == IF n = 1 THEN <<>> ELSE Append(text, ",")
<1>4. h \in Seq(Tokens)
  BY <1>3
<1> HIDE DEF h
<1>5. Joins(h \o PrintLabel(l), h, PrintLabel(l))
  BY ONLY <1>1, <1>4, Joined
<1> QED BY <1>5 DEF Joins, LabelTurn, h

LEMMA LabelsAre == ASSUME NEW ls \in Seq(LabelSet)
                   PROVE  \E t : LabelsOf(ls, t) /\ PrintLabels(ls) = t[Len(ls)]
<1> DEFINE L == Len(ls)
           X == Seq(Tokens)
           Eq(u) == u = [n \in 0 .. L |->
                            IF n = 0 THEN <<>>
                            ELSE (IF n = 1 THEN <<>> ELSE Append(u[n - 1], ",")) \o PrintLabel(ls[n])]
           step == [p \in X \X (1 .. L) |-> LabelTurn(p[1], p[2], ls[p[2]])]
           u == CHOOSE u : Eq(u)
<1>1. L \in Nat /\ \A k \in 1 .. L : ls[k] \in LabelSet
  OBVIOUS
<1>2. PrintLabels(ls) = u[L]
  BY DEF PrintLabels
<1> HIDE DEF L
<1>3. step \in [X \X (1 .. L) -> X]
  BY <1>1, LabelTurnTyped
<1>4. \A b \in X, k \in 1 .. L : step[<<b, k>>] = LabelTurn(b, k, ls[k])
  OBVIOUS
<1>5. <<>> \in X
  OBVIOUS
<1> HIDE DEF step, X
<1>6. PICK t : IsRun(X, <<>>, L, step, t)
  BY <1>1, <1>3, <1>5, Recursion
<1>7. t \in [0 .. L -> X] /\ t[0] = <<>>
      /\ \A k \in 1 .. L : t[k] = step[<<t[k - 1], k>>]
  BY <1>6 DEF IsRun
<1>8. Eq(t)
  <2>1. \A k \in 1 .. L : k - 1 \in 0 .. L
    BY <1>1, SMT
  <2>2. \A k \in 0 .. L : k # 0 => k \in 1 .. L
    BY <1>1, SMT
  <2>3. \A k \in 1 .. L : t[k] = LabelTurn(t[k - 1], k, ls[k])
    BY <2>1, <1>4, <1>7
  <2> QED BY <2>2, <2>3, <1>7 DEF LabelTurn
<1>9. Eq(u)
  <2> HIDE DEF Eq
  <2> QED BY <1>8
<1>10. u[0] = <<>> /\ \A k \in 1 .. L : u[k] = LabelTurn(u[k - 1], k, ls[k])
  <2>1. \A k \in 1 .. L : k \in 0 .. L /\ k # 0
    BY <1>1, SMT
  <2>2. 0 \in 0 .. L
    BY <1>1, SMT
  <2> HIDE DEF u
  <2> QED BY <1>9, <2>1, <2>2 DEF LabelTurn
<1>11. \A k \in 0 .. L : u[k] \in X
  <2>1. \A k \in 1 .. L : u[k - 1] \in X => u[k] = step[<<u[k - 1], k>>]
    <3> HIDE DEF u
    <3> QED BY <1>4, <1>10
  <2> HIDE DEF u, Eq
  <2> QED BY ONLY <2>1, <1>1, <1>3, <1>5, <1>10, Steps
<1>12. u \in [0 .. L -> X]
  <2>1. u = [n \in 0 .. L |-> u[n]]
    <3> HIDE DEF u
    <3> QED BY <1>9
  <2> HIDE DEF u
  <2> QED BY <2>1, <1>11
<1>13. LabelsOf(ls, u)
  <2> HIDE DEF u
  <2> QED BY <1>10, <1>12 DEF LabelsOf, L, X
<1> QED BY <1>2, <1>13 DEF L

\* The text s has w from after the p-th to the e-th token.
Stands(s, p, e, w) == p \in Nat /\ e \in 0 .. Len(s) /\ e = p + Len(w) /\ Has(s, p, w)

\* A state between two labels, and the one after the next label.
Fresh(x) == x.cur = <<>> /\ x.inQuote = FALSE
GoesOn(x, y, w) == y.parts = x.parts /\ y.cur = w /\ y.inQuote = FALSE

\* What the scan makes of a label that stands in a text.
LEMMA PairRead ==
    ASSUME NEW s \in Seq(Tokens), NEW b, PairsOf(s, b), NEW l \in LabelSet,
           NEW p, NEW e, Stands(s, p, e, PrintLabel(l)), Fresh(b[p])
    PROVE  GoesOn(b[p], b[e], PrintLabel(l))
<1> DEFINE w == PrintLabel(l)
<1>11. /\ p \in Nat /\ e \in 0 .. Len(s) /\ e = p + Len(w) /\ Has(s, p, w)
       /\ b[p].cur = <<>> /\ b[p].inQuote = FALSE
  BY DEF Stands, Fresh
<1> HIDE DEF w
<1>12. w = PrintLabel(l)
  BY DEF w
<1> DEFINE L == Len(w)  K == Len(l.key)
           In(k) == K + 2 <= k /\ k < L
           S == {k \in Nat : /\ b[p + k].parts = b[p].parts
                             /\ b[p + k].cur = SubSeq(w, 1, k)
                             /\ b[p + k].inQuote = In(k)}
<1>1. /\ w \in Seq(Tokens) /\ L = K + 2 + Len(l.value) + 1
      /\ \A i \in 1 .. K : w[i] = l.key[i]
      /\ w[K + 1] = "=" /\ w[K + 2] = Quote
      /\ \A i \in 1 .. Len(l.value) : w[K + 2 + i] = l.value[i]
      /\ w[L] = Quote
  BY ONLY <1>12, l \in LabelSet, LabelText
<1>2. l.key \in Seq(Words) /\ l.value \in Seq(Tokens) /\ Free(l.value, Quote)
  BY LabelTyped
<1>3. K \in Nat /\ L \in Nat /\ Len(l.value) \in Nat /\ Len(s) \in Nat /\ p + L <= Len(s)
      /\ p \in Nat
  <2>1. K \in Nat /\ Len(l.value) \in Nat
    BY ONLY <1>2, LenProperties
  <2>2. L \in Nat
    BY ONLY <1>1, LenProperties
  <2>3. Len(s) \in Nat /\ e = p + L /\ e \in 0 .. Len(s) /\ p \in Nat
    BY <1>11
  <2> HIDE DEF L, K
  <2>4. p + L <= Len(s)
    BY ONLY <2>2, <2>3
  <2> QED BY ONLY <2>1, <2>2, <2>3, <2>4
<1>4. \A i \in 1 .. K : l.key[i] # "," /\ l.key[i] # Quote
  <2>1. Free(l.key, ",") /\ Free(l.key, Quote)
    BY <1>2, WordsAreTokens DEF Marks
  <2> QED BY <2>1 DEF Free
<1>5. \A i \in 1 .. Len(l.value) : l.value[i] # Quote
  BY <1>2 DEF Free
<1> HIDE DEF L, K
<1>6. ASSUME NEW k \in 0 .. L - 1
      PROVE  /\ k + 1 <= K + 1 => w[k + 1] # "," /\ w[k + 1] # Quote
             /\ k + 1 = K + 2 \/ k + 1 = L => w[k + 1] = Quote
             /\ k + 1 > K + 2 /\ k + 1 < L => w[k + 1] # Quote
  <2>1. k \in Nat
    BY SMT
  <2>2. ASSUME k + 1 <= K + 1 PROVE w[k + 1] # "," /\ w[k + 1] # Quote
    <3>1. CASE k + 1 <= K
      <4>1. k + 1 \in 1 .. K
        BY <3>1, <2>1, <1>3, SMT
      <4> QED BY <4>1, <1>1, <1>4
    <3>2. CASE ~ (k + 1 <= K)
      <4>1. k + 1 = K + 1
        BY <3>2, <2>1, <2>2, <1>3, SMT
      <4> QED BY <4>1, <1>1 DEF Quote
    <3> QED BY <3>1, <3>2
  <2>3. ASSUME k + 1 > K + 2, k + 1 < L PROVE w[k + 1] # Quote
    <3> DEFINE i == k + 1 - (K + 2)
    <3> DEFINE V == Len(l.value)
    <3>2. K \in Nat /\ V \in Nat /\ L = K + 2 + V + 1
      BY <1>1, <1>3
    <3> HIDE DEF V
    <3>3. i \in 1 .. V /\ K + 2 + i = k + 1
      BY ONLY <2>1, <2>3, <3>2, SMT
    <3>1. i \in 1 .. Len(l.value) /\ K + 2 + i = k + 1
      BY <3>3 DEF V
    <3> HIDE DEF i
    <3>4. w[K + 2 + i] = l.value[i]
      BY <3>1, <1>1
    <3>5. l.value[i] # Quote
      BY <3>1, <1>5
    <3> QED BY <3>1, <3>4, <3>5
  <2> QED BY <2>2, <2>3, <1>1
<1>7. 0 \in S
  <2>1. p + 0 = p /\ SubSeq(w, 1, 0) = <<>> /\ ~ (K + 2 <= 0)
    <3>1. SubSeq(w, 1, 0) = <<>>
      BY SubSeqEmpty
    <3> QED BY ONLY <3>1, <1>3
  <2>2. b[p].cur = <<>> /\ b[p].inQuote = FALSE /\ ~ In(0)
    BY <1>11, <2>1
  <2>3. b[p].inQuote = In(0)
    BY ONLY <2>2
  <2> HIDE DEF In
  <2> QED BY <2>1, <2>2, <2>3
<1>8. ASSUME NEW k \in 0 .. L - 1, k \in S PROVE k + 1 \in S
  <2>1. /\ p + k \in 0 .. Len(s) /\ p + (k + 1) \in 1 .. Len(s) /\ p + (k + 1) - 1 = p + k
        /\ k + 1 \in 1 .. L /\ k + 1 \in Nat /\ k \in Nat
    BY <1>3, SMT
  <2> DEFINE c == w[k + 1]  x == b[p + k]  y == b[p + (k + 1)]
  <2>2. y = PairTurn(x, c) /\ x \in SplitState
    <3>1. /\ b \in [0 .. Len(s) -> SplitState]
          /\ \A j \in 1 .. Len(s) : b[j] = PairTurn(b[j - 1], s[j])
      BY DEF PairsOf
    <3>2. s[p + (k + 1)] = c
      BY <2>1, <1>11 DEF Has, L
    <3>3. y = PairTurn(b[p + k], s[p + (k + 1)])
      <4> DEFINE j == p + (k + 1)
      <4>1. j \in 1 .. Len(s) /\ j - 1 = p + k /\ j = p + (k + 1)
        BY <2>1, <1>11, SMT
      <4> HIDE DEF j
      <4>2. b[j] = PairTurn(b[j - 1], s[j])
        BY <3>1, <4>1
      <4> QED BY <4>1, <4>2
    <3> QED BY <2>1, <3>1, <3>2, <3>3
  <2>3. x.parts = b[p].parts /\ x.cur = SubSeq(w, 1, k) /\ x.inQuote = In(k)
    BY <1>8
  <2>4. ~ (c = "," /\ ~ x.inQuote)
    <3>1. CASE k + 1 <= K + 1
      BY <3>1, <1>6
    <3>2. CASE k + 1 = K + 2 \/ k + 1 = L
      <4>1. Quote # ","
        BY DEF Quote
      <4> QED BY <4>1, <3>2, <1>6
    <3>3. CASE k + 1 > K + 2 /\ k + 1 < L
      <4>1. In(k)
        BY <3>3, <2>1, <1>3, SMT
      <4> QED BY <4>1, <2>3
    <3>4. k + 1 <= K + 1 \/ (k + 1 = K + 2 \/ k + 1 = L) \/ (k + 1 > K + 2 /\ k + 1 < L)
      BY <2>1, <1>3, SMT
    <3> QED BY <3>1, <3>2, <3>3, <3>4
  <2>5. (IF c = Quote THEN ~ In(k) ELSE In(k)) = In(k + 1)
    <3>1. CASE k + 1 <= K + 1
      <4>1. ~ In(k) /\ ~ In(k + 1)
        BY <3>1, <2>1, <1>3, SMT
      <4> QED BY <4>1, <3>1, <1>6
    <3>2. CASE k + 1 = K + 2 \/ k + 1 = L
      <4> DEFINE V == Len(l.value)
      <4>2. K \in Nat /\ V \in Nat /\ L = K + 2 + V + 1
        BY <1>1, <1>3
      <4> HIDE DEF V
      <4>3. CASE k + 1 = K + 2
        <5>1. ~ In(k) /\ In(k + 1)
          BY ONLY <4>2, <4>3, <2>1, SMT
        <5> QED BY <5>1, <3>2, <1>6
      <4>4. CASE k + 1 = L
        <5>1. In(k) /\ ~ In(k + 1)
          BY ONLY <4>2, <4>4, <2>1, SMT
        <5> QED BY <5>1, <3>2, <1>6
      <4> QED BY <3>2, <4>3, <4>4
    <3>3. CASE k + 1 > K + 2 /\ k + 1 < L
      <4>1. In(k) /\ In(k + 1)
        BY <3>3, <2>1, <1>3, SMT
      <4> QED BY <4>1, <3>3, <1>6
    <3>4. k + 1 <= K + 1 \/ (k + 1 = K + 2 \/ k + 1 = L) \/ (k + 1 > K + 2 /\ k + 1 < L)
      BY <2>1, <1>3, SMT
    <3> QED BY <3>1, <3>2, <3>3, <3>4
  <2> HIDE DEF In, x, y, c
  <2>6. /\ y.parts = x.parts /\ y.cur = Append(x.cur, c)
        /\ y.inQuote = IF c = Quote THEN ~ x.inQuote ELSE x.inQuote
    BY <2>2, <2>4 DEF PairTurn, SplitState
  <2>7. SubSeq(w, 1, k + 1) = Append(SubSeq(w, 1, k), w[k + 1])
    BY <1>1, SubSeqGrows DEF L
  <2>8. y.parts = b[p].parts /\ y.cur = SubSeq(w, 1, k + 1) /\ y.inQuote = In(k + 1)
    BY <2>3, <2>5, <2>6, <2>7 DEF c
  <2> QED BY <2>1, <2>8 DEF y
<1>9. L \in S
  <2>1. L \in 0 .. L
    BY <1>3, SMT
  <2> HIDE DEF S, L
  <2> QED BY <2>1, <1>3, <1>7, <1>8, InductionTo
<1>10. ~ In(L) /\ SubSeq(w, 1, L) = w
  <2>1. ~ In(L)
    BY <1>3
  <2>2. w \in Seq(Tokens)
    BY <1>1
  <2>3. SubSeq(w, 1, Len(w)) = w
    BY ONLY <2>2, SubSeqFull
  <2> QED BY <2>1, <2>3 DEF L
<1>13. p + L = e
  BY <1>11 DEF L
<1> QED BY <1>9, <1>10, <1>12, <1>13 DEF GoesOn

\* One turn, of the first label and of a later one.
LEMMA FirstLabel == ASSUME NEW text \in Seq(Tokens), NEW l \in LabelSet
                    PROVE  LabelTurn(text, 1, l) = PrintLabel(l)
<1>1. PrintLabel(l) \in Seq(Tokens)
  BY LabelText
<1>2. <<>> \o PrintLabel(l) = PrintLabel(l)
  BY <1>1, ConcatEmptySeq
<1> QED BY <1>2 DEF LabelTurn

LEMMA NextLabel == ASSUME NEW text \in Seq(Tokens), NEW n \in Nat, n # 1, NEW l \in LabelSet
                   PROVE  LET s == LabelTurn(text, n, l) IN
                          /\ Len(s) = Len(text) + 1 + Len(PrintLabel(l))
                          /\ Has(s, 0, text) /\ s[Len(text) + 1] = ","
                          /\ Has(s, Len(text) + 1, PrintLabel(l))
<1> DEFINE s == LabelTurn(text, n, l)  w == PrintLabel(l)  h == Append(text, ",")  L == Len(text)
<1>1. w \in Seq(Tokens) /\ Len(w) \in Nat /\ L \in Nat
  <2>1. w \in Seq(Tokens)
    BY LabelText
  <2> QED BY <2>1, LenProperties
<1>2. "," \in Tokens
  BY DEF Tokens, Marks
<1>3. /\ h \in Seq(Tokens) /\ Len(h) = L + 1
      /\ \A i \in 1 .. L : h[i] = text[i]
      /\ h[L + 1] = ","
  <2> DEFINE c == ","
  <2>1. text \in Seq(Tokens) /\ c \in Tokens
    BY <1>2
  <2> HIDE DEF c
  <2>2. /\ Append(text, c) \in Seq(Tokens) /\ Len(Append(text, c)) = Len(text) + 1
        /\ \A i \in 1 .. Len(text) : Append(text, c)[i] = text[i]
        /\ Append(text, c)[Len(text) + 1] = c
    BY ONLY <2>1, AppendProperties
  <2> QED BY <2>2 DEF c
<1>4. s = h \o w
  BY DEF LabelTurn
<1> HIDE DEF s, w, h
<1>5. Joins(s, h, w)
  <2>1. Joins(h \o w, h, w)
    BY ONLY <1>1, <1>3, Joined
  <2> QED BY <2>1, <1>4
<1>6. Len(s) = L + 1 + Len(w) /\ Has(s, L + 1, w)
  BY <1>3, <1>5 DEF Joins, Has
<1>7. Has(s, 0, text)
  <2> SUFFICES ASSUME NEW i \in 1 .. L PROVE s[0 + i] = text[i]
    BY DEF Has
  <2>1. 0 + i = i /\ i \in 1 .. L + 1
    BY <1>1, SMT
  <2> QED BY <2>1, <1>3, <1>5 DEF Joins
<1>8. s[L + 1] = ","
  <2>1. L + 1 \in 1 .. Len(h)
    <3> DEFINE H == Len(h)
    <3>1. H = L + 1 /\ L \in Nat
      BY <1>1, <1>3
    <3> HIDE DEF H
    <3>2. L + 1 \in 1 .. H
      BY ONLY <3>1
    <3> QED BY <3>2 DEF H
  <2> QED BY <2>1, <1>3, <1>5 DEF Joins
<1> QED BY <1>6, <1>7, <1>8 DEF w, s

LEMMA HasTwice == ASSUME NEW s \in Seq(Tokens), NEW t \in Seq(Tokens), NEW w \in Seq(Tokens),
                         NEW p \in Nat, Has(s, 0, t), Has(t, p, w), p + Len(w) <= Len(t)
                  PROVE  Has(s, p, w)
<1> SUFFICES ASSUME NEW i \in 1 .. Len(w) PROVE s[p + i] = w[i]
  BY DEF Has
<1>1. p + i \in 1 .. Len(t) /\ 0 + (p + i) = p + i
  <2>1. Len(w) \in Nat /\ Len(t) \in Nat
    OBVIOUS
  <2> QED BY <2>1, SMT
<1>2. t[p + i] = w[i]
  BY DEF Has
<1> QED BY <1>1, <1>2 DEF Has

LEMMA HasSelf == ASSUME NEW s \in Seq(Tokens) PROVE Has(s, 0, s)
<1>1. \A i \in 1 .. Len(s) : 0 + i = i
  BY SMT
<1> QED BY <1>1 DEF Has

\* The text of the first labels begins the text of more.
LEMMA LabelsBegin ==
    ASSUME NEW ls \in Seq(LabelSet), NEW t, LabelsOf(ls, t), NEW n \in 1 .. Len(ls),
           NEW m \in n .. Len(ls)
    PROVE  Has(t[m], 0, t[n]) /\ Len(t[n]) <= Len(t[m])
<1> DEFINE N == Len(ls)
           S == {d \in Nat : Has(t[n + d], 0, t[n]) /\ Len(t[n]) <= Len(t[n + d])}
<1>1. /\ N \in Nat /\ t \in [0 .. N -> Seq(Tokens)]
      /\ \A k \in 1 .. N : t[k] = LabelTurn(t[k - 1], k, ls[k])
      /\ \A k \in 1 .. N : ls[k] \in LabelSet
  BY DEF LabelsOf
<1> HIDE DEF N
<1>2. n \in 1 .. N /\ m \in n .. N
  BY DEF N
<1>3. t[n] \in Seq(Tokens) /\ Len(t[n]) \in Nat
  <2>1. t[n] \in Seq(Tokens)
    BY <1>1, <1>2
  <2> QED BY ONLY <2>1, LenProperties
<1>4. 0 \in S
  <2>1. n + 0 = n /\ Len(t[n]) <= Len(t[n])
    BY <1>2, <1>3
  <2> QED BY <2>1, <1>3, HasSelf
<1>5. ASSUME NEW d \in 0 .. N - n - 1, d \in S PROVE d + 1 \in S
  <2>1. /\ n + d \in 0 .. N /\ n + (d + 1) \in 1 .. N /\ n + (d + 1) - 1 = n + d /\ n + (d + 1) # 1
        /\ n + (d + 1) \in Nat /\ d + 1 \in Nat
    BY <1>1, <1>2, SMT
  <2> DEFINE u == t[n + d]  s == t[n + (d + 1)]  l == ls[n + (d + 1)]
  <2>2. u \in Seq(Tokens) /\ s \in Seq(Tokens) /\ l \in LabelSet /\ s = LabelTurn(u, n + (d + 1), l)
    <3>1. t[n + (d + 1)] = LabelTurn(t[n + (d + 1) - 1], n + (d + 1), ls[n + (d + 1)])
      BY <2>1, <1>1
    <3>2. 1 .. N \subseteq 0 .. N
      BY <1>1, SMT
    <3> QED BY <3>1, <3>2, <2>1, <1>1
  <2>3. Has(u, 0, t[n]) /\ Len(t[n]) <= Len(u)
    BY <1>5
  <2> HIDE DEF u, s, l
  <2>4. Len(s) = Len(u) + 1 + Len(PrintLabel(l)) /\ Has(s, 0, u)
    BY ONLY <2>1, <2>2, NextLabel
  <2>5. Len(u) \in Nat /\ Len(PrintLabel(l)) \in Nat
    <3>1. PrintLabel(l) \in Seq(Tokens)
      BY <2>2, LabelText
    <3> QED BY ONLY <3>1, <2>2, LenProperties
  <2>6. 0 + Len(t[n]) <= Len(u) /\ 0 \in Nat
    BY <2>3, <1>3
  <2>7. Has(s, 0, t[n])
    BY ONLY <2>2, <2>3, <2>4, <2>6, <1>3, HasTwice
  <2>8. Len(t[n]) <= Len(s)
    BY <1>3, <2>3, <2>4, <2>5
  <2> QED BY <2>1, <2>7, <2>8 DEF s
<1>6. m - n \in S
  <2>1. N - n \in Nat /\ m - n \in 0 .. N - n
    BY <1>1, <1>2, SMT
  <2> HIDE DEF S
  <2> QED BY ONLY <2>1, <1>4, <1>5, InductionTo
<1>7. n + (m - n) = m
  BY <1>2, SMT
<1> QED BY <1>6, <1>7

LEMMA PairsSplit ==
    ASSUME NEW ls \in Seq(LabelSet), ls # <<>>, NEW q, q = splitLabelPairs(PrintLabels(ls))
    PROVE  /\ q \in Seq(Seq(Tokens)) /\ Len(q) = Len(ls)
           /\ \A i \in 1 .. Len(ls) : q[i] = PrintLabel(ls[i])
<1> DEFINE N == Len(ls)
<1>1. PICK t : LabelsOf(ls, t) /\ PrintLabels(ls) = t[Len(ls)]
  BY LabelsAre
<1>2. /\ N \in Nat /\ N >= 1 /\ t \in [0 .. N -> Seq(Tokens)]
      /\ \A k \in 1 .. N : t[k] = LabelTurn(t[k - 1], k, ls[k])
      /\ \A k \in 1 .. N : ls[k] \in LabelSet /\ t[k] \in Seq(Tokens)
  <2>1. N \in Nat /\ N # 0
    <3>1. ls \in Seq(LabelSet) /\ ls # <<>>
      OBVIOUS
    <3> QED BY ONLY <3>1, LenProperties, EmptySeq
  <2>2. N \in Nat /\ N >= 1
    BY <2>1
  <2>3. \A k \in 1 .. N : k \in 0 .. N
    BY <2>1, SMT
  <2> QED BY <2>2, <2>3, <1>1 DEF LabelsOf
<1> DEFINE s == t[N]
<1>3. s \in Seq(Tokens) /\ q = splitLabelPairs(s)
  BY <1>1, <1>2
<1>4. PICK b : PairsOf(s, b) /\ q = AllParts(b[Len(s)])
  BY <1>3, PairsAre
<1> HIDE DEF s, N
<1>5. \A n \in 1 .. N : /\ Has(s, 0, t[n]) /\ Len(t[n]) <= Len(s) /\ Len(t[n]) \in Nat
                        /\ PrintLabel(ls[n]) \in Seq(Tokens) /\ Len(PrintLabel(ls[n])) \in Nat
  <2> SUFFICES ASSUME NEW n \in 1 .. N
               PROVE  /\ Has(s, 0, t[n]) /\ Len(t[n]) <= Len(s) /\ Len(t[n]) \in Nat
                      /\ PrintLabel(ls[n]) \in Seq(Tokens) /\ Len(PrintLabel(ls[n])) \in Nat
    OBVIOUS
  <2>1. N \in n .. N
    BY <1>2, SMT
  <2>2. Has(s, 0, t[n]) /\ Len(t[n]) <= Len(s)
    BY <2>1, <1>1, LabelsBegin DEF s, N
  <2>3. t[n] \in Seq(Tokens) /\ ls[n] \in LabelSet
    BY <1>2
  <2>4. PrintLabel(ls[n]) \in Seq(Tokens)
    BY <2>3, LabelText
  <2> QED BY <2>2, <2>3, <2>4, LenProperties
<1> DEFINE Read(n) == LET x == b[Len(t[n])] IN
                      /\ Len(x.parts) = n - 1
                      /\ \A i \in 1 .. n - 1 : x.parts[i] = PrintLabel(ls[i])
                      /\ x.cur = PrintLabel(ls[n]) /\ x.inQuote = FALSE
           S == {k \in Nat : Read(k + 1)}
<1>6. /\ b \in [0 .. Len(s) -> SplitState] /\ b[0] = SplitStart
      /\ \A k \in 1 .. Len(s) : b[k] = PairTurn(b[k - 1], s[k])
  BY <1>4 DEF PairsOf
<1>7. Len(s) \in Nat
  BY <1>3, LenProperties
<1>8. 0 \in S
  <2> DEFINE w == PrintLabel(ls[1])  e == Len(t[1])
  <2>1. 1 \in 1 .. N /\ 1 - 1 = 0 /\ 0 \in 0 .. N
    BY <1>2, SMT
  <2>2. t[1] = w
    <3>1. t[1] = LabelTurn(t[0], 1, ls[1]) /\ t[0] \in Seq(Tokens) /\ ls[1] \in LabelSet
      BY <2>1, <1>2
    <3> QED BY <3>1, FirstLabel
  <2>3. e \in 0 .. Len(s) /\ e = 0 + Len(w) /\ Has(s, 0, w) /\ ls[1] \in LabelSet
    BY <2>1, <2>2, <1>2, <1>5, <1>7
  <2>4. b[0].cur = <<>> /\ b[0].inQuote = FALSE /\ b[0].parts = <<>> /\ 0 \in Nat
    BY <1>6 DEF SplitStart
  <2>5. w = PrintLabel(ls[1])
    OBVIOUS
  <2> HIDE DEF w, e
  <2>8. Stands(s, 0, e, PrintLabel(ls[1]))
    BY <2>3, <2>4, <2>5 DEF Stands
  <2>9. Fresh(b[0])
    BY <2>4 DEF Fresh
  <2>10. GoesOn(b[0], b[e], PrintLabel(ls[1]))
    BY ONLY <1>3, <1>4, <2>3, <2>8, <2>9, PairRead
  <2>6. b[e].parts = b[0].parts /\ b[e].cur = w /\ b[e].inQuote = FALSE
    BY <2>5, <2>10 DEF GoesOn
  <2>7. Read(1)
    BY <2>1, <2>4, <2>5, <2>6 DEF e
  <2> QED BY <2>7
<1>9. ASSUME NEW k \in 0 .. N - 1 - 1, k \in S PROVE k + 1 \in S
  <2> DEFINE n == k + 1  m == k + 1 + 1  l == ls[m]  w == PrintLabel(l)  p == Len(t[n])  e == Len(t[m])
  <2>1. n \in 1 .. N /\ m \in 1 .. N /\ m - 1 = n /\ m # 1 /\ m \in Nat /\ k \in Nat /\ n - 1 = k
    BY <1>2, SMT
  <2>2. Read(n)
    BY <1>9
  <2> HIDE DEF n, m
  <2>3. t[m] = LabelTurn(t[n], m, l) /\ t[n] \in Seq(Tokens) /\ t[m] \in Seq(Tokens) /\ l \in LabelSet
    BY <2>1, <1>2
  <2> HIDE DEF l
  <2>4. /\ Len(t[m]) = Len(t[n]) + 1 + Len(w)
        /\ t[m][Len(t[n]) + 1] = ","
        /\ Has(t[m], Len(t[n]) + 1, w)
    <3> DEFINE u == t[n]  s2 == LabelTurn(u, m, l)
    <3>1. u \in Seq(Tokens) /\ m \in Nat /\ m # 1 /\ l \in LabelSet
      BY <2>1, <2>3
    <3> HIDE DEF u
    <3>2. /\ Len(s2) = Len(u) + 1 + Len(PrintLabel(l))
          /\ s2[Len(u) + 1] = ","
          /\ Has(s2, Len(u) + 1, PrintLabel(l))
      BY ONLY <3>1, NextLabel
    <3>3. t[m] = s2
      BY <2>3 DEF u
    <3> HIDE DEF s2
    <3> QED BY <3>2, <3>3 DEF u
  <2>5. /\ p \in Nat /\ Len(w) \in Nat /\ w \in Seq(Tokens) /\ e <= Len(s) /\ e = p + 1 + Len(w)
        /\ Has(s, 0, t[m])
    BY <2>1, <2>4, <1>5 DEF l
  <2> HIDE DEF w
  <2>6. p + 1 \in Nat /\ e \in 0 .. Len(s) /\ e = (p + 1) + Len(w) /\ p + 1 \in 1 .. Len(s)
        /\ p \in 0 .. Len(s) /\ p + 1 - 1 = p /\ p + 1 \in 1 .. e /\ 0 + (p + 1) = p + 1
        /\ (p + 1) + Len(w) <= Len(t[m])
    BY <2>5, <1>7, SMT
  <2>7. s[p + 1] = ","
    <3>1. s[0 + (p + 1)] = t[m][p + 1]
      BY <2>5, <2>6 DEF Has
    <3> QED BY <3>1, <2>4, <2>6
  <2>8. Has(s, p + 1, w)
    BY ONLY <1>3, <2>3, <2>4, <2>5, <2>6, HasTwice
  <2> HIDE DEF p, e
  <2>9. b[p + 1] = PairTurn(b[p], ",") /\ b[p] \in SplitState
    <3>1. b[p + 1] = PairTurn(b[p + 1 - 1], s[p + 1])
      BY <2>6, <1>6
    <3> QED BY <3>1, <2>6, <2>7, <1>6
  <2>10. /\ Len(b[p].parts) = n - 1
         /\ \A i \in 1 .. n - 1 : b[p].parts[i] = PrintLabel(ls[i])
         /\ b[p].cur = PrintLabel(ls[n]) /\ b[p].inQuote = FALSE
    BY <2>2 DEF p
  <2>11. b[p + 1].parts = Append(b[p].parts, b[p].cur) /\ b[p + 1].cur = <<>>
         /\ b[p + 1].inQuote = FALSE
    BY <2>9, <2>10 DEF PairTurn, SplitState
  <2>12. w = PrintLabel(l)
    BY DEF w
  <2>19. Stands(s, p + 1, e, PrintLabel(l))
    BY <2>6, <2>8, <2>12 DEF Stands
  <2>20. Fresh(b[p + 1])
    BY <2>11 DEF Fresh
  <2>21. GoesOn(b[p + 1], b[e], PrintLabel(l))
    BY ONLY <1>3, <1>4, <2>3, <2>19, <2>20, PairRead
  <2>13. b[e].parts = b[p + 1].parts /\ b[e].cur = w /\ b[e].inQuote = FALSE
    BY <2>12, <2>21 DEF GoesOn
  <2> DEFINE old == b[p].parts  new == b[e].parts
  <2>14. old \in Seq(Seq(Tokens)) /\ b[p].cur \in Seq(Tokens) /\ new = Append(old, b[p].cur)
    BY <2>9, <2>11, <2>13 DEF SplitState
  <2> HIDE DEF old, new
  <2>15. Len(new) = Len(old) + 1 /\ (\A i \in 1 .. Len(old) : new[i] = old[i])
         /\ new[Len(old) + 1] = b[p].cur
    BY ONLY <2>14, AppendProperties
  <2>16. Len(old) = n - 1 /\ Len(new) = m - 1 /\ n - 1 + 1 = n
    BY <2>1, <2>10, <2>15 DEF old
  <2>17. \A i \in 1 .. m - 1 : new[i] = PrintLabel(ls[i])
    <3> SUFFICES ASSUME NEW i \in 1 .. m - 1 PROVE new[i] = PrintLabel(ls[i])
      OBVIOUS
    <3>1. i = n \/ i \in 1 .. n - 1
      BY <2>1, SMT
    <3> QED BY <3>1, <2>10, <2>15, <2>16 DEF old
  <2>18. Read(m)
    BY <2>12, <2>13, <2>16, <2>17 DEF new, e, l
  <2> QED BY <2>1, <2>18 DEF n, m
<1>10. Read(N)
  <2>1. N - 1 \in Nat /\ N - 1 \in 0 .. N - 1 /\ N - 1 + 1 = N
    BY <1>2, SMT
  <2>2. N - 1 \in S
    <3> HIDE DEF S
    <3> QED BY ONLY <2>1, <1>8, <1>9, InductionTo
  <2> QED BY <2>1, <2>2
<1> DEFINE x == b[Len(s)]
<1>11. /\ Len(x.parts) = N - 1
       /\ \A i \in 1 .. N - 1 : x.parts[i] = PrintLabel(ls[i])
       /\ x.cur = PrintLabel(ls[N])
  BY <1>10 DEF s
<1>12. x.parts \in Seq(Seq(Tokens)) /\ x.cur \in Seq(Tokens)
  <2>1. x \in SplitState
    BY <1>6, <1>7
  <2> QED BY <2>1 DEF SplitState
<1>13. x.cur # <<>>
  <2>1. Len(PrintLabel(ls[N])) # 0
    <3>1. N \in 1 .. N /\ ls[N] \in LabelSet
      BY <1>2
    <3> DEFINE l == ls[N]
    <3>2. Len(PrintLabel(l)) = Len(l.key) + 2 + Len(l.value) + 1 /\ l \in LabelSet
      BY <3>1, LabelText
    <3>3. l.key \in Seq(Tokens) /\ l.value \in Seq(Tokens)
      BY <3>2, LabelTyped
    <3>4. Len(l.key) \in Nat /\ Len(l.value) \in Nat
      BY ONLY <3>3, LenProperties
    <3> HIDE DEF l
    <3>5. Len(PrintLabel(l)) # 0
      <4> DEFINE K == Len(l.key)  V == Len(l.value)
      <4>1. K \in Nat /\ V \in Nat /\ Len(PrintLabel(l)) = K + 2 + V + 1
        BY <3>2, <3>4
      <4> HIDE DEF K, V
      <4>2. K + 2 + V + 1 # 0
        BY <4>1
      <4> QED BY <4>1, <4>2
    <3> QED BY <3>5 DEF l
  <2> QED BY <2>1, <1>11, EmptySeq
<1>14. q = Append(x.parts, x.cur)
  BY <1>4, <1>13 DEF AllParts
<1> HIDE DEF x
<1>15. /\ q \in Seq(Seq(Tokens)) /\ Len(q) = Len(x.parts) + 1
       /\ \A i \in 1 .. Len(x.parts) : q[i] = x.parts[i]
       /\ q[Len(x.parts) + 1] = x.cur
  BY ONLY <1>12, <1>14, AppendProperties
<1>16. Len(q) = N
  BY <1>2, <1>11, <1>15
<1>17. \A i \in 1 .. N : q[i] = PrintLabel(ls[i])
  <2> SUFFICES ASSUME NEW i \in 1 .. N PROVE q[i] = PrintLabel(ls[i])
    OBVIOUS
  <2>1. i = N \/ i \in 1 .. N - 1
    BY <1>2, SMT
  <2>2. N - 1 + 1 = N
    BY <1>2
  <2> QED BY <2>1, <2>2, <1>11, <1>15
<1> QED BY <1>15, <1>16, <1>17 DEF N

Distinct(ls) == \A j, k \in DOMAIN ls : ls[j].key = ls[k].key => j = k

\* The map that is meant by the labels.
LabelMap(ls) == [k \in {l.key : l \in ToSet(ls)} |-> (CHOOSE l \in ToSet(ls) : l.key = k).value]

LEMMA LabelMapIs ==
    ASSUME NEW ls \in Seq(LabelSet), Distinct(ls)
    PROVE  /\ DOMAIN LabelMap(ls) = {ls[i].key : i \in 1 .. Len(ls)}
           /\ \A i \in 1 .. Len(ls) : LabelMap(ls)[ls[i].key] = ls[i].value
<1>1. DOMAIN ls = 1 .. Len(ls) /\ ToSet(ls) = {ls[i] : i \in 1 .. Len(ls)}
  BY DEF ToSet
<1>2. DOMAIN LabelMap(ls) = {ls[i].key : i \in 1 .. Len(ls)}
  BY <1>1 DEF LabelMap
<1>3. ASSUME NEW i \in 1 .. Len(ls) PROVE LabelMap(ls)[ls[i].key] = ls[i].value
  <2>1. LabelMap(ls)[ls[i].key] = (CHOOSE l \in ToSet(ls) : l.key = ls[i].key).value
    BY <1>1 DEF LabelMap
  <2> DEFINE c == CHOOSE l \in ToSet(ls) : l.key = ls[i].key
  <2>2. c \in ToSet(ls) /\ c.key = ls[i].key
    BY <1>1
  <2> HIDE DEF c
  <2>3. PICK j \in 1 .. Len(ls) : c = ls[j]
    BY <1>1, <2>2
  <2>4. j = i
    BY <1>1, <2>2, <2>3 DEF Distinct
  <2> QED BY <2>1, <2>3, <2>4 DEF c
<1> QED BY <1>2, <1>3

\* Labels that are printed are parsed into their map.
LEMMA LabelsParsed ==
    ASSUME NEW ls \in Seq(LabelSet), Distinct(ls), ls # <<>>
    PROVE  parseLabels(PrintLabels(ls)) = LabelMap(ls)
<1> DEFINE s == PrintLabels(ls)  q == splitLabelPairs(s)
           pairs == [i \in DOMAIN q |-> ParsePair(q[i])]
           named == {i \in DOMAIN pairs : pairs[i].key # <<>>}
           map == [k \in {pairs[i].key : i \in named} |->
                      pairs[Max({i \in named : pairs[i].key = k})].value]
<1>1. q \in Seq(Seq(Tokens)) /\ Len(q) = Len(ls) /\ \A i \in 1 .. Len(ls) : q[i] = PrintLabel(ls[i])
  BY PairsSplit
<1>2. parseLabels(s) = map
  BY DEF parseLabels
<1> HIDE DEF q
<1>3. DOMAIN q = 1 .. Len(ls) /\ \A i \in 1 .. Len(ls) : ls[i] \in LabelSet
  BY <1>1
<1>4. DOMAIN pairs = 1 .. Len(ls) /\ \A i \in 1 .. Len(ls) : pairs[i] = ls[i]
  BY <1>1, <1>3, PairParsed
<1> HIDE DEF pairs
<1>5. \A i \in 1 .. Len(ls) : ls[i].key # <<>>
  BY <1>3, LabelTyped
<1>6. named = 1 .. Len(ls)
  BY <1>4, <1>5
<1> HIDE DEF named
<1>7. DOMAIN map = {ls[i].key : i \in 1 .. Len(ls)}
  BY <1>4, <1>6
<1>8. ASSUME NEW i \in 1 .. Len(ls) PROVE map[ls[i].key] = ls[i].value
  <2> DEFINE T == {j \in named : pairs[j].key = ls[i].key}
  <2>1. T = {i}
    <3>1. \A j \in 1 .. Len(ls) : ls[j].key = ls[i].key => j = i
      BY DEF Distinct
    <3> QED BY <3>1, <1>4, <1>6
  <2>2. Max(T) = i
    <3>1. T \in SUBSET Nat /\ i \in T /\ \A y \in T : y <= i
      BY <2>1
    <3> HIDE DEF T
    <3> QED BY ONLY <3>1, MaxIs
  <2>3. ls[i].key \in {pairs[j].key : j \in named}
    BY <1>4, <1>6
  <2>4. map[ls[i].key] = pairs[Max(T)].value
    BY <2>3
  <2> QED BY <2>2, <2>4, <1>4
<1> HIDE DEF map
<1> DEFINE other == LabelMap(ls)
<1>9. DOMAIN other = {ls[i].key : i \in 1 .. Len(ls)}
      /\ \A i \in 1 .. Len(ls) : other[ls[i].key] = ls[i].value
  BY LabelMapIs
<1>10. map = other
  <2>1. map = [k \in DOMAIN map |-> map[k]]
    BY DEF map
  <2>2. other = [k \in DOMAIN other |-> other[k]]
    BY DEF LabelMap
  <2> HIDE DEF other
  <2>3. DOMAIN map = DOMAIN other /\ \A k \in DOMAIN map : map[k] = other[k]
    BY <1>7, <1>8, <1>9
  <2> QED BY <2>1, <2>2, <2>3
<1> QED BY <1>2, <1>10

(***************************************************************************)
(* 4. The line of a metric.                                                *)
(***************************************************************************)
\* What Metrics says of the parts of a metric.
LEMMA MetricTyped == ASSUME NEW m \in Metrics
                     PROVE  /\ m.name \in Seq(Words) /\ m.name # <<>> /\ m.name \in Seq(Tokens)
                            /\ m.type \in Seq(Words) /\ m.type # <<>> /\ m.type \in Seq(Tokens)
                            /\ m.help \in Seq(Tokens) /\ (m.help = <<>> \/ Last(m.help) # Space)
                            /\ m.labels \in Seq(LabelSet)
                            /\ \E v \in Numbers : m.value = <<v>>
<1>1. m.name \in Names /\ m.type \in Names
      /\ m.help \in Seq(Tokens) /\ (m.help = <<>> \/ Last(m.help) # Space)
      /\ m.labels \in Seq(LabelSet)
      /\ \E v \in Numbers : m.value = <<v>>
  BY DEF Metrics, LabelSet
<1>2. m.name \in Seq(Words) /\ m.name # <<>> /\ m.type \in Seq(Words) /\ m.type # <<>>
  BY <1>1 DEF Names
<1>3. m.name \in Seq(Tokens) /\ m.type \in Seq(Tokens)
  BY ONLY <1>2, WordsAreTokens
<1> QED BY ONLY <1>1, <1>2, <1>3

LEMMA ValueTyped == ASSUME NEW m \in Metrics
                    PROVE  /\ m.value \in Seq(Tokens) /\ Len(m.value) = 1 /\ m.value[1] \in Numbers
                           /\ m.value[1] \notin Marks /\ m.value # <<>>
                           /\ \A c \in Marks : Free(m.value, c)
<1>1. PICK v \in Numbers : m.value = <<v>>
  BY MetricTyped
<1>2. v \in Words /\ v \in Tokens /\ v \notin Marks
  BY WordsAssumption DEF Tokens
<1>3. <<v>> \in Seq(Tokens) /\ Len(<<v>>) = 1 /\ <<v>>[1] = v /\ <<v>> # <<>>
  BY <1>2
<1>4. ASSUME NEW c \in Marks PROVE Free(m.value, c)
  <2> SUFFICES ASSUME NEW i \in 1 .. Len(<<v>>) PROVE <<v>>[i] # c
    BY <1>1 DEF Free
  <2>1. i = 1
    BY <1>3
  <2> QED BY <2>1, <1>2, <1>3
<1> QED BY <1>1, <1>2, <1>3, <1>4

\* What has no "}" is put together without one.
LEMMA JoinFree == ASSUME NEW x \in Seq(Tokens), NEW y \in Seq(Tokens), NEW c, Free(x, c), Free(y, c)
                  PROVE  Free(x \o y, c)
<1> DEFINE s == x \o y
<1>1. Joins(s, x, y)
  BY Joined
<1>2. Len(x) \in Nat /\ Len(y) \in Nat
  OBVIOUS
<1> HIDE DEF s
<1>3. ASSUME NEW i \in 1 .. Len(s) PROVE s[i] # c
  <2>1. CASE i <= Len(x)
    <3>1. i \in 1 .. Len(x)
      BY <2>1, <1>2
    <3> QED BY <3>1, <1>1 DEF Joins, Free
  <2>2. CASE ~ (i <= Len(x))
    <3> DEFINE j == i - Len(x)
    <3>1. j \in 1 .. Len(y) /\ Len(x) + j = i
      BY <2>2, <1>1, <1>2 DEF Joins
    <3> HIDE DEF j
    <3> QED BY <3>1, <1>1 DEF Joins, Free
  <2> QED BY <2>1, <2>2
<1>4. Free(s, c)
  BY <1>3 DEF Free
<1> QED BY <1>4 DEF s

LEMMA NoneFree == ASSUME NEW c PROVE Free(<<>>, c)
<1>1. <<>> \in Seq(Tokens) /\ Len(<<>>) = 0
  BY EmptySeq
<1>2. 1 .. Len(<<>>) = {}
  BY <1>1
<1> QED BY <1>2 DEF Free

LEMMA OneFree == ASSUME NEW x, NEW c, x # c PROVE Free(<<x>>, c)
  BY DEF Free

LEMMA TwoFree == ASSUME NEW x, NEW y, NEW c, x # c, y # c PROVE Free(<<x, y>>, c)
<1> SUFFICES ASSUME NEW i \in 1 .. 2 PROVE <<x, y>>[i] # c
  BY DEF Free
<1>1. i = 1 \/ i = 2
  BY SMT
<1> QED BY <1>1

\* The text of labels has no "}".
LEMMA LabelsFree == ASSUME NEW ls \in Seq(LabelSet)
                    PROVE  PrintLabels(ls) \in Seq(Tokens) /\ Free(PrintLabels(ls), "}")
<1> DEFINE N == Len(ls)
<1>1. PICK t : LabelsOf(ls, t) /\ PrintLabels(ls) = t[Len(ls)]
  BY LabelsAre
<1> DEFINE S == {k \in Nat : Free(t[k], "}")}
<1>2. /\ N \in Nat /\ t \in [0 .. N -> Seq(Tokens)] /\ t[0] = <<>>
      /\ \A k \in 1 .. N : t[k] = LabelTurn(t[k - 1], k, ls[k])
      /\ \A k \in 1 .. N : ls[k] \in LabelSet
  BY <1>1 DEF LabelsOf
<1>3. "," \in Tokens /\ "=" \in Tokens /\ Quote \in Tokens /\ "}" \in Marks
      /\ "," # "}" /\ "=" # "}" /\ Quote # "}"
  BY DEF Tokens, Marks, Quote
<1> HIDE DEF N
<1>4. 0 \in S
  <2>1. Free(<<>>, "}")
    BY NoneFree
  <2> QED BY <2>1, <1>2
<1>5. ASSUME NEW k \in 0 .. N - 1, k \in S PROVE k + 1 \in S
  <2> DEFINE l == ls[k + 1]  w == PrintLabel(l)  u == t[k]
  <2>1. k \in 0 .. N /\ k + 1 \in 1 .. N /\ k + 1 - 1 = k /\ k + 1 \in Nat
    BY <1>2, SMT
  <2>2. l \in LabelSet /\ u \in Seq(Tokens) /\ t[k + 1] = LabelTurn(u, k + 1, l) /\ Free(u, "}")
    <3>1. t[k + 1] = LabelTurn(t[k + 1 - 1], k + 1, ls[k + 1])
      BY <2>1, <1>2
    <3> QED BY <3>1, <2>1, <1>2, <1>5
  <2> HIDE DEF l, u
  <2>3. w \in Seq(Tokens) /\ Free(w, "}")
    <3> DEFINE two == <<"=", Quote>>  one == <<Quote>>  a == l.key \o two  c == a \o l.value
    <3>1. l.key \in Seq(Words) /\ l.key \in Seq(Tokens) /\ l.value \in Seq(Tokens) /\ Free(l.value, "}")
      BY <2>2, LabelTyped
    <3>2. Free(l.key, "}")
      <4> DEFINE brace == "}"
      <4>1. brace \in Marks
        BY <1>3
      <4> HIDE DEF brace
      <4>2. Free(l.key, brace)
        BY ONLY <3>1, <4>1, WordsAreTokens
      <4> QED BY <4>2 DEF brace
    <3>3. two \in Seq(Tokens) /\ one \in Seq(Tokens) /\ Free(two, "}") /\ Free(one, "}")
      <4> DEFINE brace == "}"  eq == "="  q == Quote
      <4>1. eq # brace /\ q # brace /\ eq \in Tokens /\ q \in Tokens
        BY <1>3
      <4> HIDE DEF brace, eq, q
      <4>2. Free(<<eq, q>>, brace) /\ Free(<<q>>, brace)
        BY ONLY <4>1, OneFree, TwoFree
      <4>3. <<eq, q>> \in Seq(Tokens) /\ <<q>> \in Seq(Tokens)
        BY <4>1
      <4> QED BY <4>2, <4>3 DEF brace, eq, q
    <3>4. w = c \o one
      BY DEF PrintLabel
    <3> HIDE DEF two, one, w
    <3>5. a \in Seq(Tokens) /\ Free(a, "}")
      <4>1. Joins(l.key \o two, l.key, two) /\ Free(l.key \o two, "}")
        BY ONLY <3>1, <3>2, <3>3, Joined, JoinFree
      <4> QED BY <4>1 DEF Joins
    <3> HIDE DEF a
    <3>6. c \in Seq(Tokens) /\ Free(c, "}")
      <4>1. Joins(a \o l.value, a, l.value) /\ Free(a \o l.value, "}")
        BY ONLY <3>1, <3>5, Joined, JoinFree
      <4> QED BY <4>1 DEF Joins
    <3> HIDE DEF c
    <3>7. Joins(c \o one, c, one) /\ Free(c \o one, "}")
      BY ONLY <3>3, <3>6, Joined, JoinFree
    <3> QED BY <3>4, <3>7 DEF Joins
  <2> HIDE DEF w
  <2> DEFINE h == IF k + 1 = 1 THEN <<>> ELSE Append(u, ",")
  <2>4. h \in Seq(Tokens) /\ Free(h, "}")
    <3>1. <<>> \in Seq(Tokens) /\ Free(<<>>, "}")
      <4>1. <<>> \in Seq(Tokens)
        OBVIOUS
      <4>2. Free(<<>>, "}")
        BY NoneFree
      <4> QED BY <4>1, <4>2
    <3>2. Append(u, ",") = u \o <<",">>
      <4> DEFINE comma == ","
      <4>1. comma \in Tokens /\ u \in Seq(Tokens)
        BY <1>3, <2>2
      <4> HIDE DEF comma
      <4>2. Append(u, comma) = u \o <<comma>>
        BY ONLY <4>1, AppendIsConcat
      <4> QED BY <4>2 DEF comma
    <3>3. <<",">> \in Seq(Tokens) /\ Free(<<",">>, "}")
      <4> DEFINE brace == "}"  comma == ","
      <4>1. comma # brace /\ comma \in Tokens
        BY <1>3
      <4> HIDE DEF brace, comma
      <4>2. Free(<<comma>>, brace)
        BY ONLY <4>1, OneFree
      <4>3. <<comma>> \in Seq(Tokens)
        BY <4>1
      <4> QED BY <4>2, <4>3 DEF brace, comma
    <3>4. Joins(u \o <<",">>, u, <<",">>) /\ Free(u \o <<",">>, "}")
      BY ONLY <2>2, <3>3, Joined, JoinFree
    <3> QED BY <3>1, <3>2, <3>4 DEF Joins
  <2>5. t[k + 1] = h \o w
    BY <2>2 DEF LabelTurn, w
  <2> HIDE DEF h
  <2>6. Free(h \o w, "}")
    BY ONLY <2>3, <2>4, JoinFree
  <2> QED BY <2>1, <2>5, <2>6
<1>6. N \in S
  <2>1. N \in 0 .. N
    BY <1>2, SMT
  <2> HIDE DEF S
  <2> QED BY ONLY <2>1, <1>2, <1>4, <1>5, InductionTo
<1>7. N \in 0 .. N
  BY <1>2
<1> QED BY <1>1, <1>2, <1>6, <1>7 DEF N

LEMMA JoinTyped == ASSUME NEW x \in Seq(Tokens), NEW y \in Seq(Tokens)
                   PROVE  x \o y \in Seq(Tokens)
  BY ConcatProperties

LEMMA JoinTwice == ASSUME NEW x \in Seq(Tokens), NEW y \in Seq(Tokens), NEW z \in Seq(Tokens)
                   PROVE  x \o y \o z = x \o (y \o z)
  BY ConcatAssociative

\* Two ways to put six texts together.
Regroups(n, o, s, c, p, v) ==
    n \o (o \o s \o c) \o p \o v = n \o o \o (s \o c \o (p \o v))

LEMMA Regrouped ==
    ASSUME NEW n \in Seq(Tokens), NEW o \in Seq(Tokens), NEW s \in Seq(Tokens),
           NEW c \in Seq(Tokens), NEW p \in Seq(Tokens), NEW v \in Seq(Tokens)
    PROVE  Regroups(n, o, s, c, p, v)
<1> DEFINE B == o \o s \o c  sc == s \o c  pv == p \o v  no == n \o o  nB == n \o B
<1>1. sc \in Seq(Tokens) /\ pv \in Seq(Tokens) /\ no \in Seq(Tokens)
  BY JoinTyped
<1>2. B = o \o sc
  <2>1. \A x, y \in Seq(Tokens) : o \o x \o y = o \o (x \o y)
    BY JoinTwice
  <2> QED BY <2>1
<1> HIDE DEF sc, pv
<1>3. n \o o \o sc = n \o (o \o sc)
  <2>1. \A z \in Seq(Tokens) : n \o o \o z = n \o (o \o z)
    BY JoinTwice
  <2> QED BY <2>1, <1>1
<1>4. B \in Seq(Tokens)
  <2>1. o \o sc \in Seq(Tokens)
    BY <1>1, JoinTyped
  <2> QED BY <2>1, <1>2
<1> HIDE DEF B
<1>5. nB \in Seq(Tokens)
  BY <1>4, JoinTyped
<1>6. no \o sc = nB
  BY <1>2, <1>3
<1> HIDE DEF no, nB
<1>7. nB \o p \o v = nB \o (p \o v)
  <2>1. \A x, y \in Seq(Tokens) : nB \o x \o y = nB \o (x \o y)
    BY <1>5, JoinTwice
  <2> QED BY <2>1
<1>8. no \o sc \o pv = no \o (sc \o pv)
  <2>1. no \in Seq(Tokens)
    BY <1>1
  <2>2. \A x, y \in Seq(Tokens) : no \o x \o y = no \o (x \o y)
    BY <2>1, JoinTwice
  <2> QED BY <2>2, <1>1
<1>9. nB \o p \o v = no \o (sc \o pv)
  BY <1>6, <1>7, <1>8 DEF pv
<1> QED BY <1>9 DEF B, sc, pv, no, nB, Regroups

\* A function on nothing is the empty sequence.
LEMMA EmptyMap == ASSUME NEW f, DOMAIN f = {}, f = [k \in DOMAIN f |-> f[k]]
                  PROVE  f = <<>>
<1>1. f \in [1 .. 0 -> Nat]
  <2>1. 1 .. 0 = {}
    BY SMT
  <2>2. f \in [DOMAIN f -> Nat]
    BY Zenon
  <2> QED BY <2>1, <2>2
<1>2. f \in Seq(Nat)
  <2>1. 0 \in Nat
    OBVIOUS
  <2> QED BY <1>1, <2>1, SeqDef
<1>3. Len(f) = 0
  <2>1. Len(f) \in Nat /\ DOMAIN f = 1 .. Len(f)
    BY <1>2
  <2>2. 1 .. Len(f) = {} => Len(f) < 1
    BY <2>1, SMT
  <2> QED BY <2>1, <2>2, SMT
<1> QED BY <1>2, <1>3, EmptySeq

\* A text with one token before it.
LEMMA After ==
    ASSUME NEW y \in Seq(Tokens), NEW c \in Tokens
    PROVE  /\ <<c>> \o y \in Seq(Tokens) /\ Len(<<c>> \o y) = 1 + Len(y)
           /\ (<<c>> \o y)[1] = c
           /\ \A i \in 1 .. Len(y) : (<<c>> \o y)[1 + i] = y[i]
           /\ SubSeq(<<c>> \o y, 2, Len(<<c>> \o y)) = y
<1> DEFINE x == <<>>  d == <<c>>  s == x \o d \o y
<1>1. x \in Seq(Tokens) /\ Len(x) = 0 /\ d \in Seq(Tokens)
  OBVIOUS
<1>2. x \o d = d
  BY <1>1
<1>3. /\ s \in Seq(Tokens) /\ Len(s) = Len(x) + 1 + Len(y)
      /\ s[Len(x) + 1] = c
      /\ \A i \in 1 .. Len(y) : s[Len(x) + 1 + i] = y[i]
      /\ SubSeq(s, Len(x) + 2, Len(s)) = y
  <2> HIDE DEF x
  <2>1. x \in Seq(Tokens)
    BY <1>1
  <2> QED BY <2>1, Cut
<1>4. s = d \o y
  BY <1>2
<1> HIDE DEF s, x
<1>5. Len(x) + 1 = 1 /\ Len(x) + 2 = 2
  BY <1>1
<1>6. /\ s \in Seq(Tokens) /\ Len(s) = 1 + Len(y) /\ s[1] = c
      /\ \A i \in 1 .. Len(y) : s[1 + i] = y[i]
      /\ SubSeq(s, 2, Len(s)) = y
  BY ONLY <1>3, <1>5
<1> QED BY <1>4, <1>6

LEMMA OneTyped == ASSUME NEW T, NEW x \in T PROVE <<x>> \in Seq(T)
  OBVIOUS

\* The first c of s is after x, and before y.
IsCut(s, x, c, y) == /\ Index(s, c) = Len(x) + 1 /\ Index(s, c) # 0
                     /\ SubSeq(s, 1, Index(s, c) - 1) = x
                     /\ SubSeq(s, Index(s, c) + 1, Len(s)) = y

LEMMA CutThere ==
    ASSUME NEW x \in Seq(Tokens), NEW y \in Seq(Tokens), NEW c \in Tokens, Free(x, c)
    PROVE  IsCut(x \o <<c>> \o y, x, c, y) /\ x \o <<c>> \o y \in Seq(Tokens)
<1> DEFINE s == x \o <<c>> \o y  i == Len(x) + 1
<1>0. s = x \o <<c>> \o y
  OBVIOUS
<1> HIDE DEF s
<1>1. /\ s \in Seq(Tokens) /\ Len(s) = Len(x) + 1 + Len(y)
      /\ \A k \in 1 .. Len(x) : s[k] = x[k]
      /\ s[Len(x) + 1] = c
      /\ SubSeq(s, 1, Len(x)) = x
      /\ SubSeq(s, Len(x) + 2, Len(s)) = y
  BY <1>0, Cut
<1>2. /\ i \in 1 .. Len(s) /\ i - 1 = Len(x) /\ i + 1 = Len(x) + 2 /\ i # 0
  BY <1>1, SMT
<1>3. s[i] = c /\ \A j \in 1 .. i - 1 : s[j] # c
  BY <1>1, <1>2 DEF Free
<1>4. i = Len(x) + 1
  OBVIOUS
<1> HIDE DEF i
<1>5. Index(s, c) = i
  BY <1>1, <1>2, <1>3, IndexIs
<1>6. IsCut(s, x, c, y)
  BY <1>1, <1>2, <1>4, <1>5 DEF IsCut
<1> QED BY <1>0, <1>1, <1>6

\* What the parser makes of a metric's line, by the maps it has then.
Parsed(m, help, type) == [name |-> m.name, help |-> Lookup(help, m.name),
                          type |-> Lookup(type, m.name), labels |-> LabelMap(m.labels),
                          value |-> m.value]

\* A metric without labels, and one with them.
LEMMA PlainParsed ==
    ASSUME NEW m \in Metrics, m.labels = <<>>, NEW help, NEW type
    PROVE  parseMetricLine(m.name \o <<Space>> \o m.value, help, type)
               = << Parsed(m, help, type) >>
<1> DEFINE n == m.name  v == m.value  sp == <<Space>>  line == n \o sp \o v  brace == "{"
<1>1. n \in Seq(Words) /\ n # <<>> /\ n \in Seq(Tokens)
  BY MetricTyped
<1>2. v \in Seq(Tokens) /\ v # <<>> /\ Len(v) = 1 /\ v[1] \in Numbers /\ \A c \in Marks : Free(v, c)
  BY ValueTyped
<1>3. Space \in Marks /\ brace \in Marks /\ Space # brace /\ Space \in Tokens
  BY DEF Marks, Tokens, Space
<1>4. \A c \in Marks : Free(n, c)
  BY ONLY <1>1, WordsAreTokens
<1>5. LabelMap(m.labels) = <<>>
  <2> DEFINE f == LabelMap(m.labels)
  <2>1. ToSet(m.labels) = {}
    <3>1. DOMAIN <<>> = {}
      OBVIOUS
    <3> QED BY <3>1 DEF ToSet
  <2>2. DOMAIN f = {} /\ f = [k \in DOMAIN f |-> f[k]]
    BY <2>1 DEF LabelMap
  <2> HIDE DEF f
  <2>3. f = <<>>
    BY <2>2, EmptyMap
  <2> QED BY <2>3 DEF f
<1>6. sp \in Seq(Tokens) /\ Free(sp, brace)
  <2>1. sp \in Seq(Tokens)
    <3>1. Space \in Tokens
      BY <1>3
    <3> QED BY ONLY <3>1
  <2> HIDE DEF brace
  <2>2. Free(<<Space>>, brace)
    BY ONLY <1>3, OneFree
  <2> QED BY <2>1, <2>2
<1>7. Fields(line) = <<n, v>>
  <2>1. Free(n, Space) /\ Free(v, Space)
    BY <1>2, <1>3, <1>4
  <2> HIDE DEF n, v
  <2> QED BY <1>1, <1>2, <2>1, TwoFields
<1> HIDE DEF brace, sp, n, v
<1>8. line \in Seq(Tokens) /\ Free(line, brace)
  <2>1. n \o sp \in Seq(Tokens)
    BY <1>1, <1>6, JoinTyped
  <2>2. Free(n \o sp, brace)
    BY <1>1, <1>3, <1>4, <1>6, JoinFree
  <2> DEFINE a == n \o sp
  <2>3. a \in Seq(Tokens) /\ Free(a, brace)
    BY <2>1, <2>2
  <2> HIDE DEF a
  <2>4. a \o v \in Seq(Tokens) /\ Free(a \o v, brace)
    BY <2>3, <1>2, <1>3, JoinTyped, JoinFree
  <2> QED BY <2>4 DEF a
<1> HIDE DEF line
<1>9. Index(line, brace) = 0
  BY <1>8, IndexNone DEF Free
<1>10. parseMetricLine(line, help, type)
           = << [name |-> n, help |-> Lookup(help, n), type |-> Lookup(type, n),
                 labels |-> <<>>, value |-> v] >>
  <2>1. /\ Len(Fields(line)) = 2 /\ Fields(line)[1] = n /\ Fields(line)[2] = v
    BY <1>7
  <2>2. ~ (Len(Fields(line)) < 2)
    BY <2>1
  <2> QED BY <1>2, <1>9, <2>1, <2>2 DEF parseMetricLine, brace
<1> QED BY <1>5, <1>10 DEF Parsed, line, sp, n, v

LEMMA LabelledParsed ==
    ASSUME NEW m \in Metrics, m.labels # <<>>, Distinct(m.labels), NEW help, NEW type, NEW s,
           s = PrintLabels(m.labels)
    PROVE  parseMetricLine(m.name \o <<"{">> \o (s \o <<"}">> \o (<<Space>> \o m.value)), help, type)
               = << Parsed(m, help, type) >>
<1> DEFINE n == m.name  v == m.value  open == "{"  close == "}"  z == <<Space>> \o v
           rest == s \o <<close>> \o z  line == n \o <<open>> \o rest
<1>1. n \in Seq(Words) /\ n # <<>> /\ n \in Seq(Tokens) /\ m.labels \in Seq(LabelSet)
  BY MetricTyped
<1>2. v \in Seq(Tokens) /\ v # <<>> /\ Len(v) = 1 /\ v[1] \in Numbers /\ v[1] \notin Marks
  BY ValueTyped
<1>3. open \in Marks /\ open \in Tokens /\ close \in Tokens /\ Space \in Marks /\ Space \in Tokens
  BY DEF Marks, Tokens, Space
<1>4. Free(n, open)
  <2>1. \A c \in Marks : Free(n, c)
    BY ONLY <1>1, WordsAreTokens
  <2> QED BY <2>1, <1>3
<1>5. s \in Seq(Tokens) /\ Free(s, close)
  <2>1. m.labels \in Seq(LabelSet)
    BY <1>1
  <2> QED BY <2>1, LabelsFree
<1>6. parseLabels(s) = LabelMap(m.labels)
  BY <1>1, LabelsParsed
<1> HIDE DEF n, v, open, close
<1>7. /\ z \in Seq(Tokens) /\ Len(z) = 2 /\ z[1] = Space /\ z[2] = v[1] /\ SubSeq(z, 2, 2) = v
  <2>1. /\ z \in Seq(Tokens) /\ Len(z) = 1 + Len(v) /\ z[1] = Space
        /\ \A i \in 1 .. Len(v) : z[1 + i] = v[i]
        /\ SubSeq(z, 2, Len(z)) = v
    BY ONLY <1>2, <1>3, After
  <2> HIDE DEF z
  <2>2. Len(z) = 2 /\ 1 \in 1 .. Len(v) /\ 1 + 1 = 2
    BY <2>1, <1>2
  <2>3. z[1 + 1] = v[1]
    BY <2>1, <2>2
  <2> QED BY <2>1, <2>2, <2>3
<1> HIDE DEF z
<1>8. Trim(z, Space) = v
  <2>1. v[1] # Space
    BY <1>2, <1>3
  <2>2. 2 \in 1 .. Len(z) /\ 2 \in 2 .. Len(z) /\ z[2] # Space
    BY <1>7, <2>1
  <2>3. \A j \in 1 .. Len(z) : z[j] # Space => 2 <= j /\ j <= 2
    <3>1. \A j \in 1 .. Len(z) : j = 1 \/ j = 2
      BY <1>7, SMT
    <3> QED BY <3>1, <1>7
  <2>4. z \in Seq(Tokens)
    BY <1>7
  <2>5. Trim(z, Space) = SubSeq(z, 2, 2)
    BY ONLY <2>2, <2>3, <2>4, TrimIs
  <2> QED BY <2>5, <1>7
<1>9. IsCut(rest, s, close, z) /\ rest \in Seq(Tokens)
  <2>1. s \in Seq(Tokens) /\ z \in Seq(Tokens) /\ close \in Tokens /\ Free(s, close)
    BY <1>3, <1>5, <1>7
  <2>2. IsCut(s \o <<close>> \o z, s, close, z) /\ s \o <<close>> \o z \in Seq(Tokens)
    BY ONLY <2>1, CutThere
  <2> QED BY <2>2
<1>10. /\ Index(rest, close) # 0
       /\ SubSeq(rest, 1, Index(rest, close) - 1) = s
       /\ SubSeq(rest, Index(rest, close) + 1, Len(rest)) = z
  BY <1>9 DEF IsCut
<1> HIDE DEF rest
<1>11. /\ Index(line, open) # 0
       /\ SubSeq(line, 1, Index(line, open) - 1) = n
       /\ SubSeq(line, Index(line, open) + 1, Len(line)) = rest
  <2>1. n \in Seq(Tokens) /\ rest \in Seq(Tokens) /\ open \in Tokens /\ Free(n, open)
    BY <1>1, <1>3, <1>4, <1>9
  <2>2. IsCut(n \o <<open>> \o rest, n, open, rest)
    BY ONLY <2>1, CutThere
  <2>3. IsCut(line, n, open, rest)
    BY <2>2
  <2> HIDE DEF line
  <2> QED BY <2>3 DEF IsCut
<1> HIDE DEF line
<1>12. parseMetricLine(line, help, type)
           = << [name |-> n, help |-> Lookup(help, n), type |-> Lookup(type, n),
                 labels |-> LabelMap(m.labels), value |-> v] >>
  BY <1>2, <1>6, <1>8, <1>10, <1>11 DEF parseMetricLine, open, close
<1> QED BY <1>12 DEF Parsed, line, rest, z, n, v, open, close

\* The line of a metric is parsed into the metric.
LEMMA MetricParsed ==
    ASSUME NEW m \in Metrics, Distinct(m.labels), NEW help, NEW type
    PROVE  parseMetricLine(PrintMetric(m), help, type) = << Parsed(m, help, type) >>
<1> DEFINE n == m.name  v == m.value  sp == <<Space>>  o == <<"{">>  c == <<"}">>
           s == PrintLabels(m.labels)
<1>1. /\ n \in Seq(Tokens) /\ v \in Seq(Tokens) /\ m.labels \in Seq(LabelSet)
      /\ sp \in Seq(Tokens) /\ o \in Seq(Tokens) /\ c \in Seq(Tokens)
  <2>1. n \in Seq(Tokens) /\ m.labels \in Seq(LabelSet)
    BY MetricTyped
  <2>2. v \in Seq(Tokens)
    BY ValueTyped
  <2>3. Space \in Tokens /\ "{" \in Tokens /\ "}" \in Tokens
    BY DEF Tokens, Marks
  <2>4. <<Space>> \in Seq(Tokens) /\ <<"{">> \in Seq(Tokens) /\ <<"}">> \in Seq(Tokens)
    BY <2>3, OneTyped
  <2> QED BY <2>1, <2>2, <2>4
<1>2. CASE m.labels = <<>>
  <2>1. n \o <<>> = n
    <3>1. n \in Seq(Tokens)
      BY <1>1
    <3> HIDE DEF n
    <3> QED BY ONLY <3>1, ConcatEmptySeq
  <2>2. PrintMetric(m) = n \o sp \o v
    BY <1>2, <2>1 DEF PrintMetric
  <2> QED BY <1>2, <2>2, PlainParsed
<1>3. CASE m.labels # <<>>
  <2>1. PrintMetric(m) = n \o (o \o s \o c) \o sp \o v
    BY <1>3 DEF PrintMetric
  <2>2. s \in Seq(Tokens)
    <3>1. m.labels \in Seq(LabelSet)
      BY <1>1
    <3> QED BY ONLY <3>1, LabelsFree
  <2>3. n \o (o \o s \o c) \o sp \o v = n \o o \o (s \o c \o (sp \o v))
    <3> HIDE DEF n, v, sp, o, c, s
    <3>1. n \in Seq(Tokens) /\ o \in Seq(Tokens) /\ c \in Seq(Tokens) /\ sp \in Seq(Tokens)
          /\ v \in Seq(Tokens) /\ s \in Seq(Tokens)
      BY <1>1, <2>2
    <3>2. Regroups(n, o, s, c, sp, v)
      BY <3>1, Regrouped
    <3> QED BY <3>2 DEF Regroups
  <2>4. s = PrintLabels(m.labels)
    OBVIOUS
  <2> HIDE DEF s
  <2>5. parseMetricLine(n \o o \o (s \o c \o (sp \o v)), help, type) = << Parsed(m, help, type) >>
    BY <1>3, <2>4, LabelledParsed
  <2> QED BY <2>1, <2>3, <2>5
<1> QED BY <1>2, <1>3

(***************************************************************************)
(* 5. One line of the text, in the loop over the lines.                    *)
(***************************************************************************)
\* The first token of a text, and the last one.
Begins(s, c) == s \in Seq(Tokens) /\ Len(s) # 0 /\ s[1] = c
Ends(s, c) == s \in Seq(Tokens) /\ Len(s) # 0 /\ s[Len(s)] = c

LEMMA JoinBegins == ASSUME NEW x, NEW c, Begins(x, c), NEW y \in Seq(Tokens)
                    PROVE  Begins(x \o y, c)
<1> DEFINE s == x \o y
<1>1. x \in Seq(Tokens) /\ Len(x) # 0 /\ x[1] = c
  BY DEF Begins
<1>2. Joins(s, x, y)
  BY <1>1, Joined
<1>3. Len(x) \in Nat /\ Len(y) \in Nat
  BY <1>1
<1> HIDE DEF s
<1>4. Len(s) # 0 /\ 1 \in 1 .. Len(x)
  BY <1>1, <1>2, <1>3 DEF Joins
<1>5. Begins(s, c)
  BY <1>1, <1>2, <1>4 DEF Joins, Begins
<1> QED BY <1>5 DEF s

LEMMA JoinEnds == ASSUME NEW x \in Seq(Tokens), NEW y, NEW c, Ends(y, c)
                  PROVE  Ends(x \o y, c)
<1> DEFINE s == x \o y
<1>1. y \in Seq(Tokens) /\ Len(y) # 0 /\ y[Len(y)] = c
  BY DEF Ends
<1>2. Joins(s, x, y)
  BY <1>1, Joined
<1>3. Len(x) \in Nat /\ Len(y) \in Nat
  BY <1>1
<1> HIDE DEF s
<1>4. Len(s) # 0 /\ Len(y) \in 1 .. Len(y) /\ Len(s) = Len(x) + Len(y)
  BY <1>1, <1>2, <1>3 DEF Joins
<1>5. Ends(s, c)
  BY <1>1, <1>2, <1>4 DEF Joins, Ends
<1> QED BY <1>5 DEF s

LEMMA TrimmedAlready == ASSUME NEW s, NEW c, NEW d, Begins(s, c), Ends(s, d),
                               c # Space, d # Space
                        PROVE  Trim(s, Space) = s
<1>1. s \in Seq(Tokens) /\ s # <<>> /\ s[1] # Space /\ s[Len(s)] # Space
  <2>1. Len(<<>>) = 0
    OBVIOUS
  <2> QED BY <2>1 DEF Begins, Ends
<1> QED BY <1>1, TrimSame

LEMMA WordEnds == ASSUME NEW w \in Seq(Words), w # <<>>
                  PROVE  Begins(w, w[1]) /\ w[1] \notin Marks /\ Ends(w, w[Len(w)])
                         /\ w[Len(w)] \notin Marks
<1>1. w \in Seq(Tokens) /\ \A i \in 1 .. Len(w) : w[i] \notin Marks
  BY WordsAreTokens
<1>2. Len(w) \in Nat /\ Len(w) # 0
  BY EmptySeq
<1>3. 1 \in 1 .. Len(w) /\ Len(w) \in 1 .. Len(w)
  BY <1>2
<1> QED BY <1>1, <1>2, <1>3 DEF Begins, Ends

\* The line of a metric begins with its name and ends with its value.
LEMMA MetricEnds == ASSUME NEW m \in Metrics
                    PROVE  \E c, d : /\ Begins(PrintMetric(m), c) /\ Ends(PrintMetric(m), d)
                                     /\ c \notin Marks /\ d \notin Marks
<1> DEFINE n == m.name  v == m.value  s == PrintLabels(m.labels)
           o == <<"{">>  e == <<"}">>  sp == <<Space>>
           l == IF m.labels = <<>> THEN <<>> ELSE o \o s \o e
<1>1. n \in Seq(Words) /\ n # <<>> /\ m.labels \in Seq(LabelSet)
  BY MetricTyped
<1>2. v \in Seq(Tokens) /\ Len(v) = 1 /\ v[1] \notin Marks
  BY ValueTyped
<1>3. o \in Seq(Tokens) /\ e \in Seq(Tokens) /\ sp \in Seq(Tokens)
  <2>1. Space \in Tokens /\ "{" \in Tokens /\ "}" \in Tokens
    BY DEF Tokens, Marks
  <2>2. <<Space>> \in Seq(Tokens) /\ <<"{">> \in Seq(Tokens) /\ <<"}">> \in Seq(Tokens)
    BY <2>1, OneTyped
  <2> QED BY <2>2
<1>4. s \in Seq(Tokens)
  <2>1. m.labels \in Seq(LabelSet)
    BY <1>1
  <2> QED BY <2>1, LabelsFree
<1>5. PrintMetric(m) = n \o l \o sp \o v
  BY DEF PrintMetric
<1> HIDE DEF n, v, s, o, e, sp
<1>6. l \in Seq(Tokens)
  <2>1. o \o s \in Seq(Tokens)
    BY <1>3, <1>4, JoinTyped
  <2> DEFINE a == o \o s
  <2>2. a \in Seq(Tokens)
    BY <2>1
  <2> HIDE DEF a
  <2>3. a \o e \in Seq(Tokens)
    BY <2>2, <1>3, JoinTyped
  <2>4. <<>> \in Seq(Tokens)
    OBVIOUS
  <2> QED BY <2>3, <2>4 DEF a
<1> HIDE DEF l
<1>7. Begins(n, n[1]) /\ n[1] \notin Marks
  BY <1>1, WordEnds
<1> DEFINE a == n \o l  b == a \o sp  line == b \o v
<1>8. Begins(a, n[1])
  BY <1>6, <1>7, JoinBegins
<1> HIDE DEF a
<1>9. Begins(b, n[1])
  BY <1>3, <1>8, JoinBegins
<1> HIDE DEF b
<1>10. Begins(line, n[1])
  BY <1>2, <1>9, JoinBegins
<1>11. Ends(line, v[1])
  <2>1. Ends(v, v[1])
    BY <1>2 DEF Ends
  <2>2. b \in Seq(Tokens)
    BY <1>9 DEF Begins
  <2> QED BY <2>1, <2>2, JoinEnds
<1>12. PrintMetric(m) = line
  BY <1>5 DEF a, b
<1> HIDE DEF line
<1> QED BY <1>2, <1>7, <1>10, <1>11, <1>12

State(metrics, help, type) == [metrics |-> metrics, help |-> help, type |-> type]

\* A metric's line adds the metric.
LEMMA MetricLine ==
    ASSUME NEW m \in Metrics, Distinct(m.labels), NEW metrics, NEW help, NEW type
    PROVE  ParseLine(State(metrics, help, type), PrintMetric(m))
               = State(metrics \o << Parsed(m, help, type) >>, help, type)
<1> DEFINE line == PrintMetric(m)  x == State(metrics, help, type)
<1>1. PICK c, d : Begins(line, c) /\ Ends(line, d) /\ c \notin Marks /\ d \notin Marks
  BY MetricEnds
<1>2. c # Space /\ d # Space /\ c # Help /\ c # Type /\ c # Hash
  BY <1>1 DEF Marks
<1>3. parseMetricLine(line, help, type) = << Parsed(m, help, type) >>
  BY MetricParsed
<1> HIDE DEF line
<1>4. Trim(line, Space) = line
  BY <1>1, <1>2, TrimmedAlready
<1>5. line # <<>> /\ line[1] = c
  <2>1. Len(<<>>) = 0
    OBVIOUS
  <2> QED BY <1>1, <2>1 DEF Begins
<1>6. ParseLine(x, line) = [x EXCEPT !.metrics = @ \o parseMetricLine(line, x.help, x.type)]
  <2> HIDE DEF x
  <2> QED BY <1>2, <1>4, <1>5 DEF ParseLine
<1>7. x.help = help /\ x.type = type /\ x.metrics = metrics
  BY DEF State
<1>8. ParseLine(x, line) = [x EXCEPT !.metrics = @ \o << Parsed(m, help, type) >>]
  BY <1>3, <1>6, <1>7
<1> QED BY <1>8 DEF State, line

\* The empty line at the end does nothing.
LEMMA EmptyLine == ASSUME NEW x PROVE ParseLine(x, <<>>) = x
<1>1. Trim(<<>>, Space) = <<>>
  <2>1. {i \in DOMAIN <<>> : <<>>[i] # Space} = {}
    OBVIOUS
  <2> QED BY <2>1 DEF Trim
<1> QED BY <1>1 DEF ParseLine

\* A map with one more value, or another one.
IsPut(new, map, name, value) ==
    /\ DOMAIN new = DOMAIN map \cup {name}
    /\ Lookup(new, name) = value
    /\ \A n : n # name => Lookup(new, n) = Lookup(map, n)

LEMMA PutIs == ASSUME NEW map, NEW name, NEW value
               PROVE  IsPut(Put(map, name, value), map, name, value)
  BY DEF Put, Lookup, IsPut

\* The text of a HELP or a TYPE line, without what it begins with.
NameThen(n, w) == n \o <<Space>> \o w

LEMMA HeadLine ==
    ASSUME NEW c \in Tokens, NEW n \in Seq(Tokens), NEW w \in Seq(Tokens)
    PROVE  <<c>> \o n \o <<Space>> \o w = <<c>> \o NameThen(n, w) /\ NameThen(n, w) \in Seq(Tokens)
<1> DEFINE d == <<c>>  sp == <<Space>>  sw == sp \o w  dn == d \o n
<1>1. d \in Seq(Tokens) /\ sp \in Seq(Tokens)
  <2>1. Space \in Tokens
    BY DEF Tokens, Marks
  <2>2. <<Space>> \in Seq(Tokens) /\ <<c>> \in Seq(Tokens)
    BY <2>1, OneTyped
  <2> QED BY <2>2
<1> HIDE DEF d, sp
<1>2. sw \in Seq(Tokens) /\ dn \in Seq(Tokens)
  BY <1>1, JoinTyped
<1>3. n \o sp \in Seq(Tokens)
  BY <1>1, JoinTyped
<1>4. n \o sp \o w = n \o sw
  BY <1>1, JoinTwice
<1> HIDE DEF sw
<1>5. n \o sw \in Seq(Tokens)
  BY <1>2, JoinTyped
<1>6. \A y \in Seq(Tokens) : d \o n \o y = d \o (n \o y)
  BY <1>1, JoinTwice
<1>7. dn \o sw = d \o (n \o sw)
  BY <1>2, <1>6
<1> HIDE DEF dn
<1>8. \A y \in Seq(Tokens) : dn \o sp \o y = dn \o (sp \o y)
  BY <1>1, <1>2, JoinTwice
<1>9. dn \o sp \o w = dn \o sw
  BY <1>8 DEF sw
<1> QED BY <1>4, <1>5, <1>7, <1>9 DEF NameThen, d, sp, dn

\* A TYPE line puts the type of its name into the map.
LEMMA TypeLine ==
    ASSUME NEW m \in Metrics, NEW metrics, NEW help, NEW type
    PROVE  ParseLine(State(metrics, help, type), <<Type>> \o m.name \o <<Space>> \o m.type)
               = State(metrics, help, Put(type, m.name, m.type))
<1> DEFINE n == m.name  t == m.type  rest == NameThen(n, t)  line == <<Type>> \o rest
           x == State(metrics, help, type)
<1>1. n \in Seq(Words) /\ n # <<>> /\ t \in Seq(Words) /\ t # <<>>
      /\ n \in Seq(Tokens) /\ t \in Seq(Tokens)
  BY MetricTyped
<1>2. Type \in Tokens /\ Type \in Marks /\ Space \in Marks /\ Type # Space /\ Type # Help
      /\ Type # Hash
  BY DEF Tokens, Marks, Type, Space, Help, Hash
<1>3. Free(n, Space) /\ Free(t, Space)
  BY <1>1, <1>2, WordsAreTokens
<1> HIDE DEF n, t
<1>4. <<Type>> \o n \o <<Space>> \o t = line /\ rest \in Seq(Tokens)
  BY <1>1, <1>2, HeadLine
<1>5. Fields(rest) = <<n, t>>
  BY <1>1, <1>3, TwoFields DEF NameThen
<1>6. Ends(rest, t[Len(t)]) /\ t[Len(t)] \notin Marks
  <2>1. Ends(t, t[Len(t)]) /\ t[Len(t)] \notin Marks
    BY <1>1, WordEnds
  <2>2. n \o <<Space>> \in Seq(Tokens)
    <3>1. <<Space>> \in Seq(Tokens)
      <4>1. Space \in Tokens
        BY DEF Tokens, Marks
      <4> QED BY <4>1, OneTyped
    <3> QED BY <1>1, <3>1, JoinTyped
  <2>3. Ends(n \o <<Space>> \o t, t[Len(t)])
    BY <2>1, <2>2, JoinEnds
  <2> QED BY <2>1, <2>3 DEF NameThen
<1> HIDE DEF rest
<1>7. line \in Seq(Tokens) /\ Len(line) = 1 + Len(rest) /\ line[1] = Type
      /\ SubSeq(line, 2, Len(line)) = rest
  BY <1>2, <1>4, After
<1>8. Begins(line, Type) /\ Ends(line, t[Len(t)])
  <2>1. Len(rest) \in Nat
    BY <1>4
  <2>2. Len(line) # 0
    BY <1>7, <2>1
  <2>3. Begins(line, Type)
    BY <1>7, <2>2 DEF Begins
  <2>4. <<Type>> \in Seq(Tokens)
    BY <1>2, OneTyped
  <2>5. Ends(line, t[Len(t)])
    BY <1>6, <2>4, JoinEnds
  <2> QED BY <2>3, <2>5
<1> HIDE DEF line
<1>9. Trim(line, Space) = line
  <2>1. t[Len(t)] # Space
    BY <1>2, <1>6
  <2> QED BY <1>2, <1>8, <2>1, TrimmedAlready
<1>10. line # <<>>
  <2>1. Len(<<>>) = 0
    OBVIOUS
  <2> QED BY <1>8, <2>1 DEF Begins
<1>11. Len(Fields(rest)) = 2 /\ Fields(rest)[1] = n /\ Fields(rest)[2] = t
  BY <1>5
<1>12. ParseLine(x, line) = [x EXCEPT !.type = Put(@, n, t)]
  <2> HIDE DEF x
  <2> QED BY <1>2, <1>7, <1>9, <1>10, <1>11 DEF ParseLine
<1>13. x.type = type
  BY DEF State
<1>14. ParseLine(x, line) = State(metrics, help, Put(type, n, t))
  BY <1>12, <1>13 DEF State
<1> QED BY <1>4, <1>14 DEF n, t

\* A help that is "" is not put into the map.
LEMMA HelpLine ==
    ASSUME NEW m \in Metrics, NEW metrics, NEW help, NEW type
    PROVE  ParseLine(State(metrics, help, type), <<Help>> \o m.name \o <<Space>> \o m.help)
               = State(metrics, IF m.help = <<>> THEN help ELSE Put(help, m.name, m.help), type)
<1> DEFINE n == m.name  h == m.help  sp == <<Space>>  hd == <<Help>>
           text == hd \o n \o sp \o h  x == State(metrics, help, type)
<1>1. n \in Seq(Words) /\ n # <<>> /\ n \in Seq(Tokens) /\ h \in Seq(Tokens)
      /\ (h = <<>> \/ Last(h) # Space)
  BY MetricTyped
<1>2. Help \in Tokens /\ Space \in Tokens /\ Space \in Marks /\ Help # Space
      /\ Help # Type /\ Help # Hash
  BY DEF Tokens, Marks, Space, Help, Type, Hash
<1>3. Free(n, Space)
  BY <1>1, <1>2, WordsAreTokens
<1>4. hd \in Seq(Tokens) /\ sp \in Seq(Tokens)
  <2>1. <<Space>> \in Seq(Tokens) /\ <<Help>> \in Seq(Tokens)
    BY <1>2, OneTyped
  <2> QED BY <2>1
<1>5. x.help = help
  BY DEF State
<1> HIDE DEF n, h, x
<1>6. CASE h # <<>>
  <2> DEFINE rest == NameThen(n, h)  line == <<Help>> \o rest  e == h[Len(h)]
  <2>1. text = line /\ rest \in Seq(Tokens)
    BY <1>1, <1>2, HeadLine
  <2>2. IsCut(rest, n, Space, h)
    BY <1>1, <1>2, <1>3, CutThere DEF NameThen
  <2>3. Ends(rest, e) /\ e # Space
    <3>1. Len(h) # 0
      BY <1>1, <1>6, EmptySeq
    <3>2. Ends(h, e) /\ e # Space
      BY <1>1, <1>6, <3>1 DEF Ends, Last
    <3> HIDE DEF sp, e
    <3>3. n \o sp \in Seq(Tokens)
      BY <1>1, <1>4, JoinTyped
    <3>4. Ends(n \o sp \o h, e)
      BY <3>2, <3>3, JoinEnds
    <3> QED BY <3>2, <3>4 DEF NameThen, sp
  <2> HIDE DEF rest, text, e
  <2>4. line \in Seq(Tokens) /\ Len(line) = 1 + Len(rest) /\ line[1] = Help
        /\ SubSeq(line, 2, Len(line)) = rest
    BY <1>2, <2>1, After
  <2>5. Begins(line, Help) /\ Ends(line, e)
    <3>1. Len(rest) \in Nat
      BY <2>1
    <3>2. Len(line) # 0
      BY <2>4, <3>1
    <3>3. Begins(line, Help)
      BY <2>4, <3>2 DEF Begins
    <3>4. <<Help>> \in Seq(Tokens)
      BY <1>2, OneTyped
    <3>5. Ends(line, e)
      BY <2>3, <3>4, JoinEnds
    <3> QED BY <3>3, <3>5
  <2> HIDE DEF line
  <2>6. Trim(line, Space) = line
    BY <1>2, <2>3, <2>5, TrimmedAlready
  <2>7. line # <<>>
    <3>1. Len(<<>>) = 0
      OBVIOUS
    <3> QED BY <2>5, <3>1 DEF Begins
  <2>8. ParseLine(x, line) = [x EXCEPT !.help = Put(@, n, h)]
    BY <1>2, <2>2, <2>4, <2>6, <2>7 DEF ParseLine, IsCut
  <2>9. ParseLine(x, line) = State(metrics, Put(help, n, h), type)
    BY <2>8, <1>5 DEF State, x
  <2> QED BY <1>6, <2>1, <2>9 DEF text, n, h, x, sp, hd
<1>7. CASE h = <<>>
  <2> DEFINE line == hd \o n  K == Len(line)
  <2>1. line \in Seq(Tokens) /\ K = 1 + Len(n) /\ line[1] = Help /\ SubSeq(line, 2, K) = n
    BY <1>1, <1>2, After
  <2>2. text = line \o sp \o <<>>
    BY <1>7
  <2> HIDE DEF text, line
  <2>3. /\ text \in Seq(Tokens) /\ Len(text) = Len(line) + 1 + Len(<<>>)
        /\ \A i \in 1 .. Len(line) : text[i] = line[i]
        /\ text[Len(line) + 1] = Space
        /\ SubSeq(text, 1, Len(line)) = line
    <3>1. <<>> \in Seq(Tokens)
      OBVIOUS
    <3> QED BY <1>2, <2>1, <2>2, <3>1, Cut
  <2>4. K \in Nat /\ K # 0 /\ Len(text) = K + 1 /\ Len(n) \in Nat
    <3>1. Len(<<>>) = 0
      OBVIOUS
    <3>2. Len(n) \in Nat
      BY <1>1
    <3> QED BY <2>1, <2>3, <3>1, <3>2
  <2>5. 1 \in 1 .. Len(text) /\ K \in 1 .. Len(text) /\ 1 \in 1 .. K /\ K \in 1 .. K
    BY <2>4, SMT
  <2>6. text[1] # Space
    BY <1>2, <2>1, <2>3, <2>5
  <2>7. text[K] # Space
    <3>1. Ends(n, n[Len(n)]) /\ n[Len(n)] \notin Marks
      BY <1>1, WordEnds
    <3>2. Ends(line, n[Len(n)])
      BY <1>4, <3>1, JoinEnds DEF line
    <3>3. line[K] = n[Len(n)]
      BY <3>2 DEF Ends
    <3> QED BY <1>2, <2>3, <2>5, <3>1, <3>3
  <2>8. \A j \in 1 .. Len(text) : text[j] # Space => 1 <= j /\ j <= K
    <3>1. text[K + 1] = Space
      BY <2>3
    <3>2. \A j \in 1 .. Len(text) : j = K + 1 \/ (1 <= j /\ j <= K)
      BY <2>4, SMT
    <3> QED BY <3>1, <3>2
  <2> HIDE DEF K
  <2>9. Trim(text, Space) = SubSeq(text, 1, K)
    BY <2>3, <2>5, <2>6, <2>7, <2>8, TrimIs
  <2>10. Trim(text, Space) = line
    BY <2>3, <2>9 DEF K
  <2>11. line # <<>> /\ SubSeq(line, 2, Len(line)) = n
    <3>1. Len(<<>>) = 0
      OBVIOUS
    <3> QED BY <2>1, <2>4, <3>1 DEF K
  <2>12. Index(n, Space) = 0
    BY <1>1, <1>3, IndexNone DEF Free
  <2>13. ParseLine(x, text) = x
    BY <1>2, <2>1, <2>10, <2>11, <2>12 DEF ParseLine
  <2> QED BY <1>7, <2>13 DEF text, n, h, x, sp, hd
<1> QED BY <1>6, <1>7

(***************************************************************************)
(* 6. The whole text: after the lines of n metrics the parser has those n, *)
(* and its two maps say of their names what the HELP and TYPE lines say.   *)
(***************************************************************************)
Texts == Seq(Tokens)

LEMMA LinesTyped ==
    ASSUME NEW ms, Printable(ms), NEW n \in 1 .. Len(ms)
    PROVE  PrintLines(ms, n) \in Seq(Texts)
<1> DEFINE m == ms[n]  metric == PrintMetric(m)
           h == <<Help>> \o m.name \o <<Space>> \o m.help
           t == <<Type>> \o m.name \o <<Space>> \o m.type
           seen == \E j \in 1 .. n - 1 : ms[j].name = m.name
<1>1. m \in Metrics
  BY DEF Printable
<1> HIDE DEF m
<1>2. m.name \in Texts /\ m.help \in Texts /\ m.type \in Texts
  BY <1>1, MetricTyped DEF Texts
<1>3. Help \in Tokens /\ Type \in Tokens
  BY DEF Tokens, Marks
<1>4. h \in Texts /\ t \in Texts
  <2>1. \A c \in Tokens, w \in Texts : <<c>> \o m.name \o <<Space>> \o w = <<c>> \o NameThen(m.name, w)
                                      /\ NameThen(m.name, w) \in Texts
    BY <1>2, HeadLine DEF Texts
  <2>2. \A c \in Tokens, y \in Texts : <<c>> \o y \in Texts
    BY After DEF Texts
  <2> QED BY <2>1, <2>2, <1>2, <1>3
<1>5. metric \in Texts
  BY <1>1, MetricEnds DEF Begins, Texts
<1> HIDE DEF h, t, metric, seen
<1> DEFINE first == IF seen THEN <<>> ELSE <<h, t>>  last == <<metric>>
<1>6. first \in Seq(Texts) /\ last \in Seq(Texts)
  BY <1>4, <1>5
<1>7. PrintLines(ms, n) = first \o last
  BY DEF PrintLines, h, t, metric, seen, m
<1> HIDE DEF first, last
<1> QED BY <1>6, <1>7, ConcatProperties

\* The lines of the first metrics, one more at a time.
LinesOf(ms, t) == /\ t \in [0 .. Len(ms) -> Seq(Texts)] /\ t[0] = <<>>
                  /\ \A k \in 1 .. Len(ms) : t[k] = t[k - 1] \o PrintLines(ms, k)

LEMMA LinesAre == ASSUME NEW ms, Printable(ms)
                  PROVE  \E t : LinesOf(ms, t) /\ PrintMetrics(ms) = t[Len(ms)] \o << <<>> >>
<1> DEFINE L == Len(ms)
           X == Seq(Texts)
           Eq(u) == u = [n \in 0 .. L |-> IF n = 0 THEN <<>> ELSE u[n - 1] \o PrintLines(ms, n)]
           step == [p \in X \X (1 .. L) |-> p[1] \o PrintLines(ms, p[2])]
           u == CHOOSE u : Eq(u)
<1>1. L \in Nat /\ \A k \in 1 .. L : PrintLines(ms, k) \in X
  BY LinesTyped DEF Printable
<1>2. PrintMetrics(ms) = u[L] \o << <<>> >>
  BY DEF PrintMetrics
<1> HIDE DEF L
<1>3. step \in [X \X (1 .. L) -> X]
  <2>1. \A x, y \in X : x \o y \in X
    BY ConcatProperties
  <2> HIDE DEF X
  <2> QED BY <1>1, <2>1
<1>4. \A b \in X, k \in 1 .. L : step[<<b, k>>] = b \o PrintLines(ms, k)
  OBVIOUS
<1>5. <<>> \in X
  OBVIOUS
<1> HIDE DEF step, X
<1>6. PICK t : IsRun(X, <<>>, L, step, t)
  BY <1>1, <1>3, <1>5, Recursion
<1>7. t \in [0 .. L -> X] /\ t[0] = <<>>
      /\ \A k \in 1 .. L : t[k] = step[<<t[k - 1], k>>]
  BY <1>6 DEF IsRun
<1>8. Eq(t)
  <2>1. \A k \in 1 .. L : k - 1 \in 0 .. L
    BY <1>1, SMT
  <2>2. \A k \in 0 .. L : k # 0 => k \in 1 .. L
    BY <1>1, SMT
  <2>3. \A k \in 1 .. L : t[k] = t[k - 1] \o PrintLines(ms, k)
    BY <2>1, <1>4, <1>7
  <2> QED BY <2>2, <2>3, <1>7
<1>9. Eq(u)
  <2> HIDE DEF Eq
  <2> QED BY <1>8
<1>10. u[0] = <<>> /\ \A k \in 1 .. L : u[k] = u[k - 1] \o PrintLines(ms, k)
  <2>1. \A k \in 1 .. L : k \in 0 .. L /\ k # 0
    BY <1>1, SMT
  <2>2. 0 \in 0 .. L
    BY <1>1, SMT
  <2> HIDE DEF u
  <2> QED BY <1>9, <2>1, <2>2
<1>11. \A k \in 0 .. L : u[k] \in X
  <2>1. \A k \in 1 .. L : u[k - 1] \in X => u[k] = step[<<u[k - 1], k>>]
    <3> HIDE DEF u
    <3> QED BY <1>4, <1>10
  <2> HIDE DEF u, Eq
  <2> QED BY ONLY <2>1, <1>1, <1>3, <1>5, <1>10, Steps
<1>12. u \in [0 .. L -> X]
  <2>1. u = [n \in 0 .. L |-> u[n]]
    <3> HIDE DEF u
    <3> QED BY <1>9
  <2> HIDE DEF u
  <2> QED BY <2>1, <1>11
<1>13. LinesOf(ms, u)
  <2> HIDE DEF u
  <2> QED BY <1>10, <1>12 DEF LinesOf, L, X
<1> QED BY <1>2, <1>13 DEF L

\* The states of the parser in c lines of a text.
ScanOf(text, c, p) == /\ p[0] = State(<<>>, <<>>, <<>>)
                      /\ \A k \in 1 .. c : p[k] = ParseLine(p[k - 1], text[k])

LEMMA ScanExists == ASSUME NEW text, NEW c \in Nat PROVE \E p : ScanOf(text, c, p)
<1> DEFINE S == {d \in Nat : \E p : ScanOf(text, d, p)}
<1>1. 0 \in S
  <2> DEFINE p == [k \in {0} |-> State(<<>>, <<>>, <<>>)]
  <2>1. p[0] = State(<<>>, <<>>, <<>>) /\ 1 .. 0 = {}
    BY SMT
  <2> HIDE DEF p
  <2>2. ScanOf(text, 0, p)
    BY <2>1 DEF ScanOf
  <2> QED BY <2>2
<1>2. ASSUME NEW d \in Nat, d \in S PROVE d + 1 \in S
  <2>1. PICK p : ScanOf(text, d, p)
    BY <1>2
  <2> DEFINE new == ParseLine(p[d], text[d + 1])
             q == [k \in 0 .. d + 1 |-> IF k = d + 1 THEN new ELSE p[k]]
  <2> HIDE DEF new
  <2>2. q[0] = State(<<>>, <<>>, <<>>)
    <3>1. 0 # d + 1 /\ 0 \in 0 .. d + 1
      BY SMT
    <3> QED BY <2>1, <3>1 DEF ScanOf
  <2>3. ASSUME NEW k \in 1 .. d + 1 PROVE q[k] = ParseLine(q[k - 1], text[k])
    <3>1. k - 1 \in 0 .. d + 1 /\ k \in 0 .. d + 1 /\ k - 1 # d + 1
      BY SMT
    <3>2. q[k - 1] = p[k - 1]
      BY <3>1
    <3>3. CASE k = d + 1
      <4>1. k - 1 = d
        BY <3>3, SMT
      <4>2. q[k] = new
        BY <3>1, <3>3
      <4> HIDE DEF q
      <4> QED BY <3>2, <3>3, <4>1, <4>2 DEF new
    <3>4. CASE k # d + 1
      <4>1. k \in 1 .. d
        BY <3>4, SMT
      <4>2. q[k] = p[k]
        BY <3>1, <3>4
      <4> HIDE DEF q
      <4> QED BY <3>2, <4>1, <4>2, <2>1 DEF ScanOf
    <3> QED BY <3>3, <3>4
  <2> HIDE DEF q
  <2>4. ScanOf(text, d + 1, q)
    BY <2>2, <2>3 DEF ScanOf
  <2> QED BY <2>4
<1>3. c \in S
  <2> HIDE DEF S
  <2> QED BY <1>1, <1>2, Induction
<1> QED BY <1>3

\* The parser has the metrics of the last of them.
LEMMA ScanIs == ASSUME NEW text, NEW c \in Nat, c = Len(text)
                PROVE  \E p : ScanOf(text, c, p) /\ parsePrometheusText(text) = p[c].metrics
<1> DEFINE start == State(<<>>, <<>>, <<>>)
           Eq(u) == u = [n \in 0 .. c |-> IF n = 0 THEN start ELSE ParseLine(u[n - 1], text[n])]
           u == CHOOSE u : Eq(u)
<1>1. parsePrometheusText(text) = u[c].metrics
  BY DEF parsePrometheusText, State
<1>2. PICK p : ScanOf(text, c, p)
  BY ScanExists
<1> HIDE DEF start
<1> DEFINE f == [n \in 0 .. c |-> p[n]]
<1>3. Eq(f)
  <2>1. ASSUME NEW n \in 0 .. c
        PROVE  p[n] = IF n = 0 THEN start ELSE ParseLine(f[n - 1], text[n])
    <3>1. CASE n = 0
      BY <3>1, <1>2 DEF ScanOf, start
    <3>2. CASE n # 0
      <4>1. n \in 1 .. c /\ n - 1 \in 0 .. c
        BY <3>2, SMT
      <4>2. f[n - 1] = p[n - 1]
        BY <4>1
      <4> HIDE DEF f
      <4> QED BY <3>2, <4>1, <4>2, <1>2 DEF ScanOf
    <3> QED BY <3>1, <3>2
  <2> QED BY <2>1
<1>4. Eq(u)
  <2> HIDE DEF Eq, f
  <2> QED BY <1>3
<1>5. ScanOf(text, c, u)
  <2>1. \A k \in 1 .. c : k \in 0 .. c /\ k # 0
    BY SMT
  <2>2. 0 \in 0 .. c
    BY SMT
  <2> HIDE DEF u
  <2>3. u[0] = start /\ \A k \in 1 .. c : u[k] = ParseLine(u[k - 1], text[k])
    BY <1>4, <2>1, <2>2
  <2> QED BY <2>3 DEF ScanOf, start
<1> QED BY <1>1, <1>5

\* A text that another one begins with.
Starts(x, y) == /\ x \in Seq(Texts) /\ y \in Seq(Texts) /\ Len(x) <= Len(y)
                /\ \A i \in 1 .. Len(x) : y[i] = x[i]

\* The text s is x and then y.
Follows(s, x, y) == /\ Starts(x, s) /\ Len(s) = Len(x) + Len(y)
                    /\ \A i \in 1 .. Len(y) : s[Len(x) + i] = y[i]

LEMMA StartsWith == ASSUME NEW x \in Seq(Texts), NEW y \in Seq(Texts)
                    PROVE  Follows(x \o y, x, y)
<1> DEFINE s == x \o y
<1>1. s \in Seq(Texts) /\ Len(s) = Len(x) + Len(y)
      /\ \A i \in 1 .. Len(x) + Len(y) : s[i] = IF i <= Len(x) THEN x[i] ELSE y[i - Len(x)]
  BY ConcatProperties
<1>2. Len(x) \in Nat /\ Len(y) \in Nat
  OBVIOUS
<1>3. ASSUME NEW i \in 1 .. Len(x) PROVE s[i] = x[i]
  <2>1. i \in 1 .. Len(x) + Len(y) /\ i <= Len(x)
    BY <1>2, SMT
  <2> QED BY <2>1, <1>1
<1>4. ASSUME NEW i \in 1 .. Len(y) PROVE s[Len(x) + i] = y[i]
  <2>1. Len(x) + i \in 1 .. Len(x) + Len(y) /\ ~ (Len(x) + i <= Len(x)) /\ (Len(x) + i) - Len(x) = i
    BY <1>2, SMT
  <2> QED BY <2>1, <1>1
<1> HIDE DEF s
<1>5. Starts(x, s)
  BY <1>1, <1>2, <1>3 DEF Starts
<1>6. Follows(s, x, y)
  BY <1>1, <1>4, <1>5 DEF Follows
<1> QED BY <1>6 DEF s

LEMMA StartsFurther == ASSUME NEW x, NEW y, NEW z, Starts(x, y), Starts(y, z)
                       PROVE  Starts(x, z)
<1>1. x \in Seq(Texts) /\ y \in Seq(Texts) /\ z \in Seq(Texts) /\ Len(x) <= Len(y) /\ Len(y) <= Len(z)
  BY DEF Starts
<1>2. Len(x) \in Nat /\ Len(y) \in Nat /\ Len(z) \in Nat
  BY <1>1
<1>3. Len(x) <= Len(z)
  BY <1>1, <1>2, SMT
<1>4. ASSUME NEW i \in 1 .. Len(x) PROVE z[i] = x[i]
  <2>1. i \in 1 .. Len(y)
    BY <1>1, <1>2, SMT
  <2> QED BY <2>1 DEF Starts
<1> QED BY <1>1, <1>3, <1>4 DEF Starts

\* The whole text begins with the lines of the first metrics.
LEMMA WholeStarts ==
    ASSUME NEW ms, Printable(ms), NEW t, LinesOf(ms, t), NEW n \in 0 .. Len(ms), NEW text,
           text = t[Len(ms)] \o << <<>> >>
    PROVE  Starts(t[n], text)
<1> DEFINE L == Len(ms)  S == {k \in Nat : Starts(t[L - k], text)}  e == << <<>> >>
<1>1. /\ L \in Nat /\ t \in [0 .. L -> Seq(Texts)]
      /\ \A k \in 1 .. L : t[k] = t[k - 1] \o PrintLines(ms, k) /\ PrintLines(ms, k) \in Seq(Texts)
  <2>1. ms \in Seq(Metrics)
    BY DEF Printable
  <2>2. L \in Nat
    BY <2>1
  <2>3. t \in [0 .. L -> Seq(Texts)] /\ \A k \in 1 .. L : t[k] = t[k - 1] \o PrintLines(ms, k)
    BY DEF LinesOf
  <2>4. \A k \in 1 .. L : PrintLines(ms, k) \in Seq(Texts)
    BY LinesTyped
  <2> QED BY <2>2, <2>3, <2>4
<1> HIDE DEF L
<1>2. 0 \in S
  <2>1. t[L] \in Seq(Texts) /\ L - 0 = L
    BY <1>1
  <2>2. e \in Seq(Texts)
    BY DEF Texts
  <2> HIDE DEF e
  <2>3. Starts(t[L], t[L] \o e)
    BY <2>1, <2>2, StartsWith DEF Follows
  <2> QED BY <2>1, <2>3 DEF L, e
<1>3. ASSUME NEW k \in 0 .. L - 1, k \in S PROVE k + 1 \in S
  <2> DEFINE j == L - k
  <2>1. j \in 1 .. L /\ j - 1 = L - (k + 1) /\ j - 1 \in 0 .. L /\ k + 1 \in Nat /\ j = L - k
    BY <1>1, SMT
  <2> HIDE DEF j
  <2>2. t[j] = t[j - 1] \o PrintLines(ms, j) /\ PrintLines(ms, j) \in Seq(Texts)
        /\ t[j - 1] \in Seq(Texts)
    BY <1>1, <2>1
  <2>3. Starts(t[j - 1], t[j])
    BY <2>2, StartsWith DEF Follows
  <2>4. Starts(t[j], text)
    BY <1>3, <2>1
  <2>5. Starts(t[j - 1], text)
    BY <2>3, <2>4, StartsFurther
  <2> QED BY <2>1, <2>5
<1>4. L - n \in S
  <2>1. L - n \in 0 .. L
    BY <1>1, SMT DEF L
  <2> HIDE DEF S
  <2> QED BY <2>1, <1>1, <1>2, <1>3, InductionTo
<1>5. L - (L - n) = n
  BY <1>1, SMT DEF L
<1> QED BY <1>4, <1>5

MeantBy(m) == [m EXCEPT !.labels = LabelMap(m.labels)]

\* With the help and the type in the maps it is what is meant by the metric.
LEMMA ParsedIsMeant == ASSUME NEW m \in Metrics, NEW help, NEW type,
                              Lookup(help, m.name) = m.help, Lookup(type, m.name) = m.type
                       PROVE  Parsed(m, help, type) = MeantBy(m)
<1>1. m = [name |-> m.name, help |-> m.help, type |-> m.type, labels |-> m.labels, value |-> m.value]
  BY DEF Metrics
<1> QED BY <1>1 DEF Parsed, MeantBy

\* A sequence with one element more.
LEMMA OneMore == ASSUME NEW n \in Nat, n # 0, NEW f, NEW x, x = f[n]
                 PROVE  [j \in 1 .. n - 1 |-> f[j]] \o <<x>> = [j \in 1 .. n |-> f[j]]
<1> DEFINE S == {f[j] : j \in 1 .. n}  a == [j \in 1 .. n - 1 |-> f[j]]
           b == [j \in 1 .. n |-> f[j]]  c == <<x>>
<1>1. n - 1 \in Nat /\ n \in 1 .. n /\ \A j \in 1 .. n - 1 : j \in 1 .. n
  BY SMT
<1>2. a \in [1 .. n - 1 -> S] /\ b \in [1 .. n -> S] /\ x \in S
  BY <1>1
<1>3. a \in Seq(S) /\ b \in Seq(S) /\ c \in Seq(S) /\ Len(c) = 1 /\ c[1] = x
  <2>1. a \in Seq(S) /\ b \in Seq(S)
    <3> HIDE DEF a, b, S
    <3> QED BY <1>1, <1>2, SeqDef
  <2>2. c \in Seq(S) /\ Len(c) = 1 /\ c[1] = x
    <3> HIDE DEF S
    <3> QED BY <1>2
  <2> QED BY <2>1, <2>2
<1>4. Len(a) = n - 1 /\ Len(b) = n
  <2>1. DOMAIN a = 1 .. n - 1 /\ DOMAIN b = 1 .. n
    OBVIOUS
  <2> HIDE DEF a, b
  <2>2. Len(a) \in Nat /\ Len(b) \in Nat /\ DOMAIN a = 1 .. Len(a) /\ DOMAIN b = 1 .. Len(b)
    BY <1>3
  <2>3. \A k, l \in Nat : 1 .. k = 1 .. l => k = l
    <3> SUFFICES ASSUME NEW k \in Nat, NEW l \in Nat, 1 .. k = 1 .. l, k < l PROVE FALSE
      BY SMT
    <3>1. l \in 1 .. l /\ l \notin 1 .. k
      BY SMT
    <3> QED BY <3>1
  <2> QED BY <1>1, <2>1, <2>2, <2>3
<1>5. /\ \A j \in 1 .. n - 1 : a[j] = f[j]
      /\ \A j \in 1 .. n : b[j] = f[j]
  OBVIOUS
<1> HIDE DEF a, b, c, S
<1> DEFINE d == a \o c
<1>6. d \in Seq(S) /\ Len(d) = Len(a) + Len(c)
      /\ \A i \in 1 .. Len(a) + Len(c) : d[i] = IF i <= Len(a) THEN a[i] ELSE c[i - Len(a)]
  BY <1>3, ConcatProperties
<1> HIDE DEF d
<1>7. Len(d) = n
  BY <1>3, <1>4, <1>6
<1>8. ASSUME NEW i \in 1 .. n PROVE d[i] = b[i]
  <2>1. i \in 1 .. Len(a) + Len(c)
    BY <1>3, <1>4
  <2>2. CASE i <= n - 1
    <3>1. i \in 1 .. n - 1
      BY <2>2, SMT
    <3> QED BY <2>1, <2>2, <3>1, <1>4, <1>5, <1>6
  <2>3. CASE ~ (i <= n - 1)
    <3>1. i = n /\ i - Len(a) = 1
      BY <2>3, <1>4, SMT
    <3> QED BY <2>1, <2>3, <3>1, <1>3, <1>4, <1>5, <1>6
  <2> QED BY <2>2, <2>3
<1>9. d = b
  BY <1>3, <1>4, <1>6, <1>7, <1>8, SeqEqual
<1> QED BY <1>9 DEF d, a, b, c

NamesTo(ms, n) == {ms[j].name : j \in 1 .. n}

\* A state in which the first n metrics have been parsed, as they are meant,
\* and the maps have what was said of their names and of no others.
Knows(ms, n, x) ==
    \E help, type :
        /\ x = State([j \in 1 .. n |-> MeantBy(ms[j])], help, type)
        /\ \A j \in 1 .. n : /\ Lookup(help, ms[j].name) = ms[j].help
                             /\ Lookup(type, ms[j].name) = ms[j].type
        /\ DOMAIN help \subseteq NamesTo(ms, n) /\ DOMAIN type \subseteq NamesTo(ms, n)

\* The lines l are parsed after the q-th.
Reads(p, q, l) == \A i \in 1 .. Len(l) : p[q + i] = ParseLine(p[q + i - 1], l[i])

LEMMA ThreeLines == ASSUME NEW x, NEW y, NEW z PROVE <<x, y>> \o <<z>> = <<x, y, z>>
<1> DEFINE S == {x, y, z}  a == <<x, y>>  b == <<z>>  c == a \o b  d == <<x, y, z>>
<1>1. /\ a \in Seq(S) /\ Len(a) = 2 /\ a[1] = x /\ a[2] = y
      /\ b \in Seq(S) /\ Len(b) = 1 /\ b[1] = z
  OBVIOUS
<1>2. d \in Seq(S) /\ Len(d) = 3 /\ d[1] = x /\ d[2] = y /\ d[3] = z
  OBVIOUS
<1> HIDE DEF S, a, b, d
<1>3. c \in Seq(S) /\ Len(c) = Len(a) + Len(b)
      /\ \A i \in 1 .. Len(a) + Len(b) : c[i] = IF i <= Len(a) THEN a[i] ELSE b[i - Len(a)]
  BY <1>1, ConcatProperties
<1> HIDE DEF c
<1>4. Len(c) = 3 /\ c[1] = x /\ c[2] = y /\ c[3] = z
  BY <1>1, <1>3
<1>5. \A i \in 1 .. Len(c) : c[i] = d[i]
  <2>1. \A i \in 1 .. 3 : i = 1 \/ i = 2 \/ i = 3
    BY SMT
  <2> QED BY <1>2, <1>4, <2>1
<1>6. c = d
  BY <1>2, <1>3, <1>4, <1>5, SeqEqual
<1> QED BY <1>6 DEF a, b, c, d

LEMMA Grown == ASSUME NEW ms \in Seq(Metrics), NEW n \in 1 .. Len(ms)
               PROVE  [j \in 1 .. n - 1 |-> MeantBy(ms[j])] \o << MeantBy(ms[n]) >>
                          = [j \in 1 .. n |-> MeantBy(ms[j])]
<1> DEFINE f == [j \in 1 .. n |-> MeantBy(ms[j])]  x == MeantBy(ms[n])
<1>1. n \in Nat /\ n # 0 /\ n \in 1 .. n /\ \A j \in 1 .. n - 1 : j \in 1 .. n
  BY SMT
<1>2. x = f[n]
  BY <1>1
<1>3. [j \in 1 .. n - 1 |-> MeantBy(ms[j])] = [j \in 1 .. n - 1 |-> f[j]]
      /\ f = [j \in 1 .. n |-> f[j]]
  BY <1>1
<1> HIDE DEF f, x
<1>4. [j \in 1 .. n - 1 |-> f[j]] \o <<x>> = [j \in 1 .. n |-> f[j]]
  BY <1>1, <1>2, OneMore
<1> QED BY <1>3, <1>4 DEF f, x

\* What the lines of the next metric add.
LEMMA KnowsMore ==
    ASSUME NEW ms, Printable(ms), NEW n \in 1 .. Len(ms), NEW p, NEW q \in Nat,
           Knows(ms, n - 1, p[q]), Reads(p, q, PrintLines(ms, n))
    PROVE  Knows(ms, n, p[q + Len(PrintLines(ms, n))])
<1> DEFINE m == ms[n]  metric == PrintMetric(m)
           hl == <<Help>> \o m.name \o <<Space>> \o m.help
           tl == <<Type>> \o m.name \o <<Space>> \o m.type
           seen == \E j \in 1 .. n - 1 : ms[j].name = m.name
           before == [j \in 1 .. n - 1 |-> MeantBy(ms[j])]
           now == [j \in 1 .. n |-> MeantBy(ms[j])]
           lines == PrintLines(ms, n)
<1>1. PICK help, type :
        /\ p[q] = State(before, help, type)
        /\ \A j \in 1 .. n - 1 : /\ Lookup(help, ms[j].name) = ms[j].help
                                 /\ Lookup(type, ms[j].name) = ms[j].type
        /\ DOMAIN help \subseteq NamesTo(ms, n - 1) /\ DOMAIN type \subseteq NamesTo(ms, n - 1)
  BY DEF Knows
<1>2. ms \in Seq(Metrics) /\ n \in DOMAIN ms /\ \A j \in 1 .. n - 1 : j \in DOMAIN ms
  <2>1. ms \in Seq(Metrics)
    BY DEF Printable
  <2>2. Len(ms) \in Nat /\ DOMAIN ms = 1 .. Len(ms)
    BY <2>1
  <2> QED BY <2>1, <2>2, SMT
<1>3. m \in Metrics /\ Distinct(m.labels)
  <2>1. m \in Metrics
    BY <1>2
  <2>2. Distinct(m.labels)
    BY <1>2 DEF Printable, Distinct
  <2> QED BY <2>1, <2>2
<1>4. \A j \in 1 .. n - 1 : ms[j].name = m.name => ms[j].help = m.help /\ ms[j].type = m.type
  BY <1>2 DEF Printable
<1>5. before \o << MeantBy(m) >> = now
  BY <1>2, Grown
<1>6. \A j \in 1 .. n : j = n \/ j \in 1 .. n - 1
  BY SMT
<1>7. NamesTo(ms, n - 1) \cup {m.name} \subseteq NamesTo(ms, n)
  <2>1. n \in 1 .. n /\ \A j \in 1 .. n - 1 : j \in 1 .. n
    BY SMT
  <2> QED BY <2>1 DEF NamesTo
\* The metric's own line.
<1>8. ASSUME NEW h, NEW t, NEW x, x = State(before, h, t), Lookup(h, m.name) = m.help, Lookup(t, m.name) = m.type
      PROVE  ParseLine(x, metric) = State(now, h, t)
  <2>1. Parsed(m, h, t) = MeantBy(m)
    BY <1>3, <1>8, ParsedIsMeant
  <2> HIDE DEF m, metric, before, now
  <2>2. ParseLine(State(before, h, t), PrintMetric(m)) = State(before \o << Parsed(m, h, t) >>, h, t)
    BY <1>3, MetricLine
  <2> QED BY <1>5, <1>8, <2>1, <2>2 DEF metric
<1>9. CASE seen
  <2>1. lines = <<metric>>
    <3>1. lines = <<>> \o <<metric>>
      BY <1>9 DEF PrintLines
    <3> HIDE DEF metric
    <3>2. <<>> \o <<metric>> = <<metric>>
      OBVIOUS
    <3> QED BY <3>1, <3>2
  <2>2. p[q + 1] = ParseLine(p[q], metric) /\ Len(lines) = 1
    <3> HIDE DEF metric, lines
    <3>1. Len(lines) = 1 /\ lines[1] = metric /\ 1 \in 1 .. 1 /\ q + 1 - 1 = q
      BY <2>1
    <3> QED BY <3>1 DEF Reads, lines
  <2>3. Lookup(help, m.name) = m.help /\ Lookup(type, m.name) = m.type
    BY <1>1, <1>4, <1>9
  <2> HIDE DEF metric, lines, m, before, now
  <2>4. p[q + 1] = State(now, help, type)
    BY <1>1, <1>8, <2>2, <2>3
  <2>5. Knows(ms, n, p[q + 1])
    <3>1. \A j \in 1 .. n : Lookup(help, ms[j].name) = ms[j].help /\ Lookup(type, ms[j].name) = ms[j].type
      BY <1>1, <1>6, <2>3 DEF m
    <3>2. DOMAIN help \subseteq NamesTo(ms, n) /\ DOMAIN type \subseteq NamesTo(ms, n)
      BY <1>1, <1>7
    <3> QED BY <2>4, <3>1, <3>2 DEF Knows, now
  <2> QED BY <2>2, <2>5 DEF lines
<1>10. CASE ~seen
  <2> DEFINE help2 == IF m.help = <<>> THEN help ELSE Put(help, m.name, m.help)
             type2 == Put(type, m.name, m.type)
  <2>1. lines = <<hl, tl, metric>>
    <3>1. lines = <<hl, tl>> \o <<metric>>
      BY <1>10 DEF PrintLines
    <3> HIDE DEF metric, hl, tl
    <3>2. <<hl, tl>> \o <<metric>> = <<hl, tl, metric>>
      BY ThreeLines
    <3> QED BY <3>1, <3>2
  <2>2. p[q + 1] = ParseLine(p[q], hl) /\ p[q + 2] = ParseLine(p[q + 1], tl)
        /\ p[q + 3] = ParseLine(p[q + 2], metric) /\ Len(lines) = 3
    <3> HIDE DEF metric, lines, hl, tl
    <3>1. Len(lines) = 3 /\ lines[1] = hl /\ lines[2] = tl /\ lines[3] = metric
      BY <2>1
    <3>2. {1, 2, 3} \subseteq 1 .. 3 /\ q + 1 - 1 = q /\ q + 2 - 1 = q + 1 /\ q + 3 - 1 = q + 2
      BY SMT
    <3>3. \A i \in 1 .. 3 : p[q + i] = ParseLine(p[q + i - 1], lines[i])
      BY <3>1 DEF Reads, lines
    <3> QED BY <3>1, <3>2, <3>3
  <2>3. p[q + 1] = State(before, help2, type)
    <3> HIDE DEF before
    <3>1. ParseLine(State(before, help, type), hl) = State(before, help2, type)
      BY <1>3, HelpLine
    <3> QED BY <1>1, <2>2, <3>1
  <2>4. p[q + 2] = State(before, help2, type2)
    <3> HIDE DEF before, help2
    <3>1. ParseLine(State(before, help2, type), tl) = State(before, help2, type2)
      BY <1>3, TypeLine
    <3> QED BY <2>2, <2>3, <3>1
  <2>5. m.name \notin DOMAIN help
    BY <1>1, <1>10 DEF NamesTo
  <2>6. /\ Lookup(help2, m.name) = m.help /\ Lookup(type2, m.name) = m.type
        /\ \A k : k # m.name => Lookup(help2, k) = Lookup(help, k) /\ Lookup(type2, k) = Lookup(type, k)
        /\ DOMAIN help2 \subseteq DOMAIN help \cup {m.name}
        /\ DOMAIN type2 \subseteq DOMAIN type \cup {m.name}
    <3>1. m.help = <<>> => Lookup(help, m.name) = m.help
      BY <2>5 DEF Lookup
    <3> HIDE DEF m
    <3>2. /\ Lookup(help2, m.name) = m.help
          /\ \A k : k # m.name => Lookup(help2, k) = Lookup(help, k)
          /\ DOMAIN help2 \subseteq DOMAIN help \cup {m.name}
      <4>1. CASE m.help = <<>>
        <5>1. help2 = help
          BY <4>1
        <5> HIDE DEF help2
        <5> QED BY <3>1, <4>1, <5>1
      <4>2. CASE m.help # <<>>
        <5>1. help2 = Put(help, m.name, m.help)
          BY <4>2
        <5> HIDE DEF help2
        <5>2. IsPut(help2, help, m.name, m.help)
          BY <5>1, PutIs
        <5> QED BY <5>2 DEF IsPut
      <4> QED BY <4>1, <4>2
    <3> HIDE DEF help2
    <3>3. IsPut(type2, type, m.name, m.type)
      BY PutIs
    <3> HIDE DEF type2
    <3> QED BY <3>2, <3>3 DEF IsPut
  <2>7. \A j \in 1 .. n - 1 : ms[j].name # m.name
    BY <1>10
  <2> HIDE DEF metric, lines, hl, tl, m, before, now, help2, type2
  <2>8. p[q + 3] = State(now, help2, type2)
    BY <1>8, <2>2, <2>4, <2>6
  <2>9. Knows(ms, n, p[q + 3])
    <3>1. \A j \in 1 .. n : Lookup(help2, ms[j].name) = ms[j].help /\ Lookup(type2, ms[j].name) = ms[j].type
      BY <1>1, <1>6, <2>6, <2>7 DEF m
    <3>2. DOMAIN help2 \subseteq NamesTo(ms, n) /\ DOMAIN type2 \subseteq NamesTo(ms, n)
      BY <1>1, <1>7, <2>6
    <3> QED BY <2>8, <3>1, <3>2 DEF Knows, now
  <2> QED BY <2>2, <2>9 DEF lines
<1> QED BY <1>9, <1>10

\* What Registry.Collect and the plugins print of printable metrics,
\* parsePrometheusText parses into these metrics, for any number of them.
THEOREM RoundTrip == ASSUME NEW ms, Printable(ms)
                     PROVE  parsePrometheusText(PrintMetrics(ms)) = Meant(ms)
<1> DEFINE L == Len(ms)  text == PrintMetrics(ms)  c == Len(text)  e == << <<>> >>
<1>1. PICK t : LinesOf(ms, t) /\ text = t[L] \o e
  BY LinesAre
<1>2. /\ ms \in Seq(Metrics) /\ L \in Nat /\ t \in [0 .. L -> Seq(Texts)] /\ t[0] = <<>>
      /\ \A k \in 1 .. L : t[k] = t[k - 1] \o PrintLines(ms, k) /\ PrintLines(ms, k) \in Seq(Texts)
  <2>1. ms \in Seq(Metrics)
    BY DEF Printable
  <2>2. L \in Nat
    BY <2>1
  <2>3. /\ t \in [0 .. L -> Seq(Texts)] /\ t[0] = <<>>
        /\ \A k \in 1 .. L : t[k] = t[k - 1] \o PrintLines(ms, k)
    BY <1>1 DEF LinesOf
  <2>4. \A k \in 1 .. L : PrintLines(ms, k) \in Seq(Texts)
    BY LinesTyped
  <2> QED BY <2>1, <2>2, <2>3, <2>4
<1>3. DOMAIN ms = 1 .. L
  BY <1>2
<1> HIDE DEF text, L
<1>4. \A k \in 0 .. L : Starts(t[k], text)
  BY <1>1, WholeStarts DEF L
<1>5. c \in Nat /\ c = Len(t[L]) + 1 /\ text[c] = <<>> /\ text \in Seq(Texts)
  <2>1. L \in 0 .. L
    BY <1>2
  <2>2. t[L] \in Seq(Texts)
    BY <1>2, <2>1
  <2>3. e \in Seq(Texts) /\ Len(e) = 1 /\ e[1] = <<>> /\ 1 \in 1 .. 1
    BY DEF Texts
  <2> HIDE DEF e
  <2>4. Len(text) = Len(t[L]) + Len(e) /\ \A i \in 1 .. Len(e) : text[Len(t[L]) + i] = e[i]
    BY <1>1, <2>2, <2>3, StartsWith DEF Follows
  <2>5. text \in Seq(Texts)
    BY <1>4, <2>1 DEF Starts
  <2> QED BY <2>3, <2>4, <2>5
<1>6. PICK p : ScanOf(text, c, p) /\ parsePrometheusText(text) = p[c].metrics
  BY <1>5, ScanIs
<1> DEFINE S == {n \in Nat : Knows(ms, n, p[Len(t[n])])}
<1>7. 0 \in S
  <2>1. p[0] = State(<<>>, <<>>, <<>>) /\ Len(t[0]) = 0
    BY <1>2, <1>6 DEF ScanOf
  <2> DEFINE none == [j \in 1 .. 0 |-> MeantBy(ms[j])]
  <2>2. 1 .. 0 = {} /\ DOMAIN <<>> = {}
    BY SMT
  <2>3. none = <<>>
    <3>1. DOMAIN none = {} /\ none = [k \in DOMAIN none |-> none[k]]
      BY <2>2
    <3> HIDE DEF none
    <3> QED BY <3>1, EmptyMap
  <2>4. Knows(ms, 0, p[0])
    <3>1. p[0] = State(none, <<>>, <<>>)
      BY <2>1, <2>3
    <3> QED BY <2>2, <3>1 DEF Knows
  <2> QED BY <2>1, <2>4
<1>8. ASSUME NEW k \in 0 .. L - 1, k \in S PROVE k + 1 \in S
  <2> DEFINE n == k + 1  q == Len(t[k])  lines == PrintLines(ms, n)
  <2>1. n \in 1 .. L /\ n - 1 = k /\ k \in 0 .. L /\ n \in 0 .. L /\ n \in Nat /\ k \in Nat
    BY <1>2, SMT
  <2> HIDE DEF n
  <2>2. t[n] = t[k] \o lines /\ lines \in Seq(Texts) /\ t[k] \in Seq(Texts)
    BY <1>2, <2>1
  <2>3. q \in Nat /\ Len(lines) \in Nat
    BY <2>2
  <2> HIDE DEF lines
  <2>4. Len(t[n]) = q + Len(lines) /\ \A i \in 1 .. Len(lines) : t[n][q + i] = lines[i]
    <3>1. Follows(t[k] \o lines, t[k], lines)
      BY <2>2, StartsWith
    <3>2. Follows(t[n], t[k], lines)
      BY <2>2, <3>1
    <3> QED BY <3>2 DEF Follows
  <2>5. Starts(t[n], text)
    BY <1>4, <2>1
  <2>6. Reads(p, q, lines)
    <3> SUFFICES ASSUME NEW i \in 1 .. Len(lines) PROVE p[q + i] = ParseLine(p[q + i - 1], lines[i])
      BY DEF Reads
    <3>1. Len(t[n]) <= c
      BY <2>5 DEF Starts
    <3> HIDE DEF q
    <3>2. q + i \in 1 .. Len(t[n]) /\ q + i \in 1 .. c
      BY <1>5, <2>3, <2>4, <3>1, SMT
    <3>3. text[q + i] = lines[i]
      BY <2>4, <2>5, <3>2 DEF Starts
    <3> DEFINE z == q + i
    <3>4. z \in 1 .. c
      BY <3>2
    <3>5. text[z] = lines[i]
      BY <3>3
    <3>7. z = q + i /\ z - 1 = q + i - 1
      BY <2>3, SMT
    <3> HIDE DEF z, c
    <3>6. p[z] = ParseLine(p[z - 1], lines[i])
      BY <1>6, <3>4, <3>5 DEF ScanOf
    <3> QED BY <3>6, <3>7
  <2>7. Knows(ms, n - 1, p[q])
    BY <1>8, <2>1
  <2>8. Knows(ms, n, p[q + Len(lines)])
    <3> HIDE DEF q
    <3> QED BY <2>1, <2>3, <2>6, <2>7, KnowsMore DEF lines, L
  <2> QED BY <2>1, <2>4, <2>8 DEF n
<1>9. L \in S
  <2>1. L \in 0 .. L
    BY <1>2
  <2> HIDE DEF S
  <2> QED BY <2>1, <1>2, <1>7, <1>8, InductionTo
<1>10. p[c].metrics = [j \in 1 .. L |-> MeantBy(ms[j])]
  <2> DEFINE q == Len(t[L])
  <2>1. PICK help, type : p[q] = State([j \in 1 .. L |-> MeantBy(ms[j])], help, type)
    BY <1>9 DEF Knows
  <2>2. p[c] = p[q]
    <3>1. c \in 1 .. c /\ c - 1 = q
      <4>1. L \in 0 .. L
        BY <1>2
      <4>2. q \in Nat
        BY <1>2, <4>1
      <4> QED BY <1>5, <4>2
    <3>2. p[c] = ParseLine(p[q], <<>>)
      BY <1>5, <1>6, <3>1 DEF ScanOf
    <3> QED BY <3>2, EmptyLine
  <2> QED BY <2>1, <2>2 DEF State
<1>11. Meant(ms) = [j \in 1 .. L |-> MeantBy(ms[j])]
  BY <1>3 DEF Meant, MeantBy, LabelMap
<1> QED BY <1>6, <1>10, <1>11 DEF text

USE ConstantsAssumption DEF check

Signatures == (1 .. MaxKey) \X (1 .. MaxVersion)

(***************************************************************************)
(* 7. Types.                                                               *)
(***************************************************************************)
\* sign-plugin has read a key and a binary before it touches the .sig file.
SignerInv == signer \in {"truncate", "write"} => keyFile # 0 /\ toSign # 0

TypeInv == TypeOK /\ SignerInv

LEMMA MinOfTwo == \A a, b \in Int : Min({a, b}) = IF a <= b THEN a ELSE b
<1> TAKE a, b \in Int
<1>1. CASE a <= b
  <2>1. \A x \in {a, b} : (\A y \in {a, b} : x <= y) <=> x = a
    BY <1>1
  <2> QED BY <1>1, <2>1 DEF Min
<1>2. CASE ~(a <= b)
  <2>1. \A x \in {a, b} : (\A y \in {a, b} : x <= y) <=> x = b
    BY <1>2
  <2> QED BY <1>2, <2>1 DEF Min
<1> QED BY <1>1, <1>2

\* Run ends with an answer, and with the output only of a program that has
\* ended by itself and well.
LEMMA WaitOutputAnswers ==
    ASSUME TypeInv, WaitOutput
    PROVE  /\ pc = "output" /\ pc' = "return"
           /\ answer'.what \in {"failed", "output"}
           /\ answer'.what = "output" => child = "ended"
           /\ UNCHANGED <<files, tool, limiz, kind, check, process, disturbed>>
<1>1. kind \in {"metric", "data"}
  BY DEF TypeInv, TypeOK
<1>2. pc = "output" /\ UNCHANGED <<files, tool, limiz, kind, check, process, disturbed>>
  BY DEF WaitOutput
<1>3. CASE child # "ended" \/ timedOut
  <2>1. Return("failed", <<>>)
    BY <1>3 DEF WaitOutput
  <2> QED BY <1>2, <2>1 DEF Return
<1>4. CASE child = "ended" /\ ~timedOut /\ kind = "metric"
  <2>1. MetricAnswer
    BY <1>4 DEF WaitOutput
  <2> QED BY <1>2, <1>4, <2>1 DEF MetricAnswer, Return
<1>5. CASE child = "ended" /\ ~timedOut /\ kind = "data"
  <2>1. DataAnswer
    BY <1>5 DEF WaitOutput
  <2> QED BY <1>2, <1>5, <2>1 DEF DataAnswer, Return
<1> QED BY <1>1, <1>3, <1>4, <1>5

\* The parts of TypeOK that the steps of sign-plugin, of Collect and of the
\* program change.
FilesOK ==
    /\ binary \in 0 .. MaxVersion
    /\ sig \in {None, Short} \cup Signatures
    /\ keyFile \in 0 .. MaxKey /\ pubFile \in 0 .. MaxKey
    /\ signer \in {"idle", "writePub", "truncate", "write"}
    /\ toSign \in 0 .. MaxVersion
    /\ signed \subseteq Signatures
    /\ lastSigned \in {None} \cup signed
    /\ SignerInv

CollectOK ==
    /\ limiz \in [key : 0 .. MaxKey, allows : BOOLEAN]
    /\ kind \in {"metric", "data"}
    /\ pc \in {"idle", "readBinary", "readSig", "start", "process", "output", "return"}
    /\ hash \in 0 .. MaxVersion /\ ran \in 0 .. MaxVersion
    /\ answer.what \in {"none", "refused", "failed", "output"}

ProcessOK ==
    /\ child \in {"none", "running", "ended", "failed", "killed"}
    /\ prints \in Outputs \cup {<<>>}
    /\ elapsed \in 0 .. Timeout + 1

FlagsOK ==
    /\ held \in BOOLEAN /\ watching \in BOOLEAN
    /\ timedOut \in BOOLEAN /\ replaced \in BOOLEAN /\ disturbed \in BOOLEAN
    /\ watching => pc = "process"

LEMMA TypeParts == TypeInv <=> FilesOK /\ CollectOK /\ ProcessOK /\ FlagsOK
BY DEF TypeInv, TypeOK, FilesOK, CollectOK, ProcessOK, FlagsOK, Signatures

LEMMA TypeInit == Init => TypeInv
<1> SUFFICES ASSUME Init PROVE TypeInv
  OBVIOUS
<1>1. FilesOK
  BY DEF Init, FilesOK, SignerInv
<1>2. CollectOK
  BY DEF Init, CollectOK
<1>3. ProcessOK
  BY DEF Init, ProcessOK
<1>4. FlagsOK
  BY DEF Init, FlagsOK
<1> QED BY <1>1, <1>2, <1>3, <1>4, TypeParts

LEMMA FilesStep == FilesOK /\ [Next]_vars => FilesOK'
<1> SUFFICES ASSUME FilesOK, [Next]_vars PROVE FilesOK'
  OBVIOUS
<1> USE DEF FilesOK, SignerInv, files, tool
<1>1. CASE BuildPlugin
  BY <1>1 DEF BuildPlugin
<1>2. CASE WriteKeyFile \/ WritePubFile \/ ReadToSign \/ SignerFails
  BY <1>2 DEF WriteKeyFile, WritePubFile, ReadToSign, SignerFails
<1>3. CASE TruncateSig
  BY <1>3 DEF TruncateSig
<1>4. CASE WriteSig
  <2>1. <<keyFile, toSign>> \in Signatures
    BY <1>4 DEF WriteSig, Signatures
  <2> QED BY <1>4, <2>1 DEF WriteSig
<1>5. CASE UNCHANGED <<files, tool>>
  BY <1>5
<1>6. CASE \/ BuildLimiz \/ Run \/ Program \/ Tick \/ UNCHANGED vars
  BY <1>5, <1>6 DEF BuildLimiz, Run, Collect, ReadBinary, ReadSig, Start, StartFails, Kill,
     WaitProcess, WaitOutput, Done, Program, WriteLine, Fork, HolderEnds, Exit, Tick, vars
<1> QED BY <1>1, <1>2, <1>3, <1>4, <1>6 DEF Next, SignPlugin

\* The steps of the builds and of sign-plugin leave Collect and its program
\* alone, except that they disturb it.
LEMMA OutsideStep ==
    ASSUME TypeInv, BuildPlugin \/ SignPlugin
    PROVE  /\ UNCHANGED <<limiz, kind, pc, hash, ran, answer, process>>
           /\ replaced' \in BOOLEAN /\ disturbed' \in BOOLEAN
<1>1. FlagsOK
  BY TypeParts
<1> QED BY <1>1 DEF BuildPlugin, SignPlugin, WriteKeyFile, WritePubFile, ReadToSign,
           TruncateSig, WriteSig, SignerFails, FlagsOK

LEMMA TypeStep == TypeInv /\ [Next]_vars => TypeInv'
<1> SUFFICES ASSUME FilesOK, CollectOK, ProcessOK, FlagsOK, [Next]_vars
             PROVE  FilesOK' /\ CollectOK' /\ ProcessOK' /\ FlagsOK'
  BY TypeParts DEF TypeInv, TypeOK, FilesOK, CollectOK, ProcessOK, FlagsOK, Signatures
<1>0. TypeInv
  BY TypeParts
<1> USE DEF files, tool, process
<1>1. FilesOK'
  BY FilesStep
<1>2. CASE BuildPlugin \/ SignPlugin
  BY <1>0, <1>1, <1>2, OutsideStep DEF CollectOK, ProcessOK, FlagsOK
<1>3. CASE BuildLimiz
  BY <1>1, <1>3 DEF BuildLimiz, CollectOK, ProcessOK, FlagsOK, FilesOK
<1>4. CASE Collect \/ ReadBinary \/ ReadSig \/ StartFails
  <2>1. /\ pc \in {"idle", "readBinary", "readSig", "start"}
        /\ pc' \in {"readBinary", "readSig", "start", "return"}
        /\ answer' = answer \/ answer'.what \in {"refused", "failed"}
        /\ UNCHANGED <<limiz, kind, process>>
    BY <1>4 DEF Collect, ReadBinary, ReadSig, StartFails, Return
  <2>2. /\ hash' \in 0 .. MaxVersion /\ disturbed' \in BOOLEAN
        /\ UNCHANGED <<ran, replaced>>
    BY <1>4 DEF Collect, ReadBinary, ReadSig, StartFails, CollectOK, FlagsOK, FilesOK
  <2>3. CollectOK'
    BY <2>1, <2>2 DEF CollectOK
  <2>4. ProcessOK' /\ FlagsOK'
    BY <2>1, <2>2 DEF ProcessOK, FlagsOK
  <2> QED BY <1>1, <2>3, <2>4
<1>5. CASE Start \/ WaitProcess \/ Done
  <2>1. CollectOK'
    BY <1>5 DEF Start, WaitProcess, Done, CollectOK, FilesOK
  <2>2. ProcessOK'
    BY <1>5 DEF Start, WaitProcess, Done, ProcessOK
  <2>3. FlagsOK'
    <3>1. CASE Start
      BY <3>1 DEF Start, FlagsOK
    <3>2. CASE WaitProcess
      BY <3>2 DEF WaitProcess, FlagsOK
    <3>3. CASE Done
      <4>1. ~watching
        BY <3>3 DEF Done, FlagsOK
      <4> QED BY <3>3, <4>1 DEF Done, FlagsOK
    <3> QED BY <1>5, <3>1, <3>2, <3>3
  <2> QED BY <1>1, <2>1, <2>2, <2>3
<1>6. CASE Kill
  <2>1. CollectOK' /\ ProcessOK'
    BY <1>6 DEF Kill, CollectOK, ProcessOK
  <2>2. FlagsOK'
    BY <1>6 DEF Kill, FlagsOK
  <2> QED BY <1>1, <2>1, <2>2
<1>7. CASE WaitOutput
  <2>1. CollectOK'
    BY <1>0, <1>7, WaitOutputAnswers DEF CollectOK
  <2>2. ProcessOK' /\ FlagsOK'
    BY <1>0, <1>7, WaitOutputAnswers DEF ProcessOK, FlagsOK
  <2> QED BY <1>1, <2>1, <2>2
<1>8. CASE Program
  <2>1. /\ UNCHANGED <<limiz, kind, pc, check, answer, prints, watching, timedOut, elapsed,
                       disturbed>>
        /\ held' \in BOOLEAN
        /\ child' \in {child, "ended", "failed"}
    BY <1>8 DEF Program, WriteLine, Fork, HolderEnds, Exit, FlagsOK
  <2> QED BY <1>1, <2>1 DEF CollectOK, ProcessOK, FlagsOK
<1>9. CASE Tick
  <2>1. elapsed' = Min({elapsed + 1, Timeout + 1})
        /\ UNCHANGED <<limiz, kind, pc, check, answer, child, prints, held, watching,
                       timedOut, disturbed>>
    BY <1>9 DEF Tick
  <2>2. elapsed' \in 0 .. Timeout + 1
    BY <2>1, MinOfTwo DEF ProcessOK
  <2> QED BY <1>1, <2>1, <2>2 DEF CollectOK, ProcessOK, FlagsOK
<1>10. CASE UNCHANGED vars
  BY <1>1, <1>10 DEF vars, CollectOK, ProcessOK, FlagsOK
<1> QED BY <1>2, <1>3, <1>4, <1>5, <1>6, <1>7, <1>8, <1>9, <1>10 DEF Next, Run

LEMMA TypeAlways == Spec => []TypeInv
BY TypeInit, TypeStep, PTL DEF Spec

\* Every variable keeps its type.
THEOREM TypeCorrect == Spec => []TypeOK
BY TypeAlways, PTL DEF TypeInv

(***************************************************************************)
(* 8. Verification.  A .sig file that is whole is one sign-plugin has      *)
(* written, and neither None nor Short can be the signature by a key.      *)
(***************************************************************************)
SigInv ==
    /\ sig \in {None, Short} \cup signed
    /\ lastSigned # None => sig = lastSigned

VerifyInv ==
    /\ pc \in {"readBinary", "readSig"} => limiz.allows /\ limiz.key # 0
    /\ pc = "readSig" => hash # 0 /\ (~disturbed => hash = binary)
    /\ pc = "start" => limiz.allows /\ <<limiz.key, hash>> \in signed
    /\ pc \in {"idle", "readBinary"} => ~replaced
    /\ pc \in {"readSig", "start"} /\ ~replaced => hash = binary
    /\ RunsOnlySigned
    /\ SignedIsNotRefused

\* What the two invariants need of a type.
LEMMA Pairs == TypeInv => /\ \A pair \in signed : pair # None /\ pair[1] # 0 /\ pair[2] # 0
                          /\ lastSigned \in {None} \cup signed
<1> SUFFICES ASSUME TypeInv
             PROVE  /\ \A pair \in signed : pair # None /\ pair[1] # 0 /\ pair[2] # 0
                    /\ lastSigned \in {None} \cup signed
  OBVIOUS
<1>1. /\ signed \subseteq (1 .. MaxKey) \X (1 .. MaxVersion)
      /\ lastSigned \in {None} \cup signed
  BY DEF TypeInv, TypeOK
<1>2. MaxKey \in Nat /\ MaxVersion \in Nat
  BY ConstantsAssumption
<1>3. ASSUME NEW pair \in signed PROVE pair # None /\ pair[1] # 0 /\ pair[2] # 0
  <2>1. PICK k \in 1 .. MaxKey, v \in 1 .. MaxVersion : pair = <<k, v>>
    BY <1>1
  <2>2. pair[1] = k /\ pair[2] = v /\ k # 0 /\ v # 0
    BY <1>2, <2>1
  <2> QED BY <2>1, <2>2 DEF None
<1> QED BY <1>1, <1>3

LEMMA SigStep == TypeInv /\ SigInv /\ [Next]_vars => SigInv'
<1> SUFFICES ASSUME TypeInv, SigInv, [Next]_vars PROVE SigInv'
  OBVIOUS
<1> USE DEF SigInv, files, tool
<1>1. CASE TruncateSig
  BY <1>1 DEF TruncateSig
<1>2. CASE WriteSig
  BY <1>2 DEF WriteSig
<1>3. ASSUME UNCHANGED <<sig, signed, lastSigned>> PROVE SigInv'
  BY <1>3
<1>4. CASE \/ BuildPlugin \/ BuildLimiz \/ WriteKeyFile \/ WritePubFile \/ ReadToSign
           \/ SignerFails \/ Run \/ Program \/ Tick \/ UNCHANGED vars
  BY <1>3, <1>4 DEF BuildPlugin, BuildLimiz, WriteKeyFile, WritePubFile, ReadToSign,
     SignerFails, Run, Collect, ReadBinary, ReadSig, Start, StartFails, Kill, WaitProcess,
     WaitOutput, Done, Program, WriteLine, Fork, HolderEnds, Exit, Tick, vars
<1> QED BY <1>1, <1>2, <1>4 DEF Next, SignPlugin

LEMMA VerifyStep == TypeInv /\ SigInv /\ VerifyInv /\ [Next]_vars => VerifyInv'
<1> SUFFICES ASSUME TypeInv, SigInv, VerifyInv, [Next]_vars PROVE VerifyInv'
  OBVIOUS
<1> USE DEF VerifyInv, RunsOnlySigned, SignedIsNotRefused, files, tool, process
<1>1. CASE BuildPlugin
  BY <1>1 DEF BuildPlugin
<1>2. CASE BuildLimiz
  BY <1>2 DEF BuildLimiz
<1>3. CASE WriteKeyFile \/ WritePubFile \/ ReadToSign \/ SignerFails
  BY <1>3 DEF WriteKeyFile, WritePubFile, ReadToSign, SignerFails
<1>4. CASE TruncateSig
  BY <1>4 DEF TruncateSig
<1>5. CASE WriteSig
  BY <1>5 DEF WriteSig
<1>6. CASE Collect
  BY <1>6 DEF Collect, Return
<1>7. CASE ReadBinary
  <2>1. CASE binary # 0
    BY <1>7, <2>1 DEF ReadBinary
  <2>2. CASE binary = 0
    <3>1. /\ pc' = "return" /\ answer'.what = "refused"
          /\ UNCHANGED <<limiz, binary, lastSigned>>
      BY <1>7, <2>2 DEF ReadBinary, Return
    <3>2. limiz.key # 0 => lastSigned # <<limiz.key, binary>>
      BY <2>2, Pairs DEF None
    <3> QED BY <3>1, <3>2
  <2> QED BY <2>1, <2>2
<1>8. CASE ReadSig
  <2>1. pc = "readSig" /\ UNCHANGED <<limiz, hash, replaced, binary, signed, lastSigned, disturbed>>
    BY <1>8 DEF ReadSig
  <2>2. CASE sig = <<limiz.key, hash>>
    <3>1. pc' = "start"
      BY <1>8, <2>2 DEF ReadSig
    <3>2. sig \in signed
      BY <2>1, <2>2 DEF SigInv, None, Short
    <3> QED BY <2>1, <2>2, <3>1, <3>2
  <2>3. CASE sig # <<limiz.key, hash>>
    <3>1. pc' = "return"
      BY <1>8, <2>3 DEF ReadSig, Return
    <3>2. ~disturbed => lastSigned # <<limiz.key, binary>>
      <4>1. <<limiz.key, hash>> # None
        BY <2>1 DEF None
      <4> QED BY <2>1, <2>3, <4>1 DEF SigInv
    <3> QED BY <2>1, <3>1, <3>2
  <2> QED BY <2>2, <2>3
<1>9. CASE Start \/ StartFails \/ WaitProcess \/ Done
  BY <1>9 DEF Start, StartFails, WaitProcess, Done, Return
<1>10. CASE Kill
  BY <1>10 DEF Kill
<1>11. CASE WaitOutput
  BY <1>11, WaitOutputAnswers
<1>12. CASE Program \/ Tick
  BY <1>12 DEF Program, WriteLine, Fork, HolderEnds, Exit, Tick
<1>13. CASE UNCHANGED vars
  BY <1>13 DEF vars
<1> QED BY <1>1, <1>2, <1>3, <1>4, <1>5, <1>6, <1>7, <1>8, <1>9, <1>10, <1>11, <1>12,
           <1>13 DEF Next, SignPlugin, Run

LEMMA VerifyAlways == Spec => [](SigInv /\ VerifyInv)
<1>1. Init => SigInv /\ VerifyInv
  BY DEF Init, SigInv, VerifyInv, RunsOnlySigned, SignedIsNotRefused
<1> QED BY <1>1, SigStep, VerifyStep, TypeAlways, PTL DEF Spec

\* A program that runs was read as one sign-plugin has signed with the embedded
\* key, and is what was read unless it was replaced between its reading and its
\* start, for any number of builds, key pairs and signatures.
THEOREM RunsOnlySignedCorrect == Spec => []RunsOnlySigned
BY VerifyAlways, PTL DEF VerifyInv

\* A plugin whose .sig file is the whole signature of its binary by the
\* embedded key is not refused, unless its files change meanwhile.
THEOREM SignedIsNotRefusedCorrect == Spec => []SignedIsNotRefused
BY VerifyAlways, PTL DEF VerifyInv

(***************************************************************************)
(* 9. The output and the deadline.                                         *)
(***************************************************************************)
OutputInv ==
    /\ pc \in {"idle", "readBinary", "readSig", "start"} => child = "none"
    /\ pc = "process" /\ child = "running" => watching
    /\ child = "ended" => stdout = PrintMetrics(prints)
    /\ answer.what = "output" => pc = "return" /\ child = "ended"

LEMMA OutputStep == TypeInv /\ OutputInv /\ [Next]_vars => OutputInv'
<1> SUFFICES ASSUME TypeInv, OutputInv, [Next]_vars PROVE OutputInv'
  OBVIOUS
<1> USE DEF OutputInv, files, tool, process
<1>1. CASE BuildPlugin \/ SignPlugin
  <2>1. UNCHANGED <<pc, answer, process>>
    BY <1>1, OutsideStep
  <2> QED BY <2>1
<1>2. CASE BuildLimiz
  BY <1>2 DEF BuildLimiz
<1>3. CASE Collect \/ ReadBinary \/ ReadSig \/ StartFails
  BY <1>3 DEF Collect, ReadBinary, ReadSig, StartFails, Return
<1>4. CASE Start
  BY <1>4 DEF Start
<1>5. CASE Kill
  BY <1>5 DEF Kill
<1>6. CASE WaitProcess
  BY <1>6 DEF WaitProcess
<1>7. CASE WaitOutput
  <2>1. /\ pc' = "return" /\ (answer'.what = "output" => child = "ended")
        /\ UNCHANGED process
    BY <1>7, WaitOutputAnswers
  <2> QED BY <2>1
<1>8. CASE Done
  BY <1>8 DEF Done
<1>9. CASE Program
  <2>1. CASE WriteLine
    BY <2>1 DEF WriteLine
  <2>2. CASE Fork \/ HolderEnds
    BY <2>2 DEF Fork, HolderEnds
  <2>3. CASE Exit
    BY <2>3 DEF Exit
  <2> QED BY <1>9, <2>1, <2>2, <2>3 DEF Program
<1>10. CASE Tick
  BY <1>10 DEF Tick
<1>11. CASE UNCHANGED vars
  BY <1>11 DEF vars
<1> QED BY <1>1, <1>2, <1>3, <1>4, <1>5, <1>6, <1>7, <1>8, <1>9, <1>10, <1>11 DEF Next, Run

LEMMA OutputAlways == Spec => []OutputInv
<1>1. Init => OutputInv
  BY DEF Init, OutputInv
<1> QED BY <1>1, OutputStep, TypeAlways, PTL DEF Spec

\* For every timeout, time passes beyond it only while another program holds
\* the output open.
THEOREM TimeoutEndsCorrect == Spec => TimeoutEnds
<1>1. TypeInv /\ OutputInv /\ [Next]_vars
      => [elapsed' > elapsed /\ elapsed' > Timeout => held]_vars
  <2> SUFFICES ASSUME TypeInv, OutputInv, [Next]_vars,
                      elapsed' > elapsed, elapsed' > Timeout
               PROVE  held
    OBVIOUS
  <2>0. elapsed \in Nat /\ elapsed <= Timeout + 1 /\ Timeout \in Nat
    BY DEF TypeInv, TypeOK
  <2>1. CASE Tick
    <3>1. \/ pc = "process" /\ child = "running" /\ (watching => elapsed < Timeout)
          \/ pc = "output" /\ held
      BY <2>1 DEF Tick
    <3>2. elapsed' <= elapsed + 1
      BY <2>0, <2>1, MinOfTwo DEF Tick
    <3>3. elapsed' \in Int
      BY <2>0, <2>1, MinOfTwo DEF Tick
    <3>4. ~(elapsed < Timeout)
      BY <2>0, <3>2, <3>3
    <3> QED BY <3>1, <3>4 DEF OutputInv
  <2>2. CASE Done
    <3>1. elapsed' = 0
      BY <2>2 DEF Done
    <3> QED BY <2>0, <3>1
  <2>3. CASE elapsed' = elapsed
    BY <2>0, <2>3
  <2>4. CASE ~Tick /\ ~Done
    <3>1. elapsed' = elapsed
      <4> USE DEF process
      <4>1. CASE BuildPlugin \/ SignPlugin
        BY <4>1, OutsideStep
      <4>2. CASE \/ BuildLimiz \/ Program \/ Collect \/ ReadBinary \/ ReadSig \/ Start
                 \/ StartFails \/ Kill \/ WaitProcess \/ WaitOutput \/ UNCHANGED vars
        BY <4>2 DEF BuildLimiz, Collect, ReadBinary, ReadSig, Start, StartFails, Kill,
           WaitProcess, WaitOutput, Program, WriteLine, Fork, HolderEnds, Exit, vars
      <4> QED BY <2>4, <4>1, <4>2 DEF Next, Run
    <3> QED BY <2>3, <3>1
  <2> QED BY <2>1, <2>2, <2>4
<1> QED BY <1>1, TypeAlways, OutputAlways, PTL DEF Spec, TimeoutEnds

LEMMA PrintedIsMeant ==
    ASSUME TypeInv, OutputInv, WaitOutput, \A out \in Outputs : Printable(out)
    PROVE  answer'.what = "output" => answer'.metrics = Meant(prints')
<1>1. Printable(prints)
  <2>1. prints \in Outputs \cup {<<>>}
    BY DEF TypeInv, TypeOK
  <2>2. Printable(<<>>)
    BY DEF Printable
  <2> QED BY <2>1, <2>2
<1>2. parsePrometheusText(PrintMetrics(prints)) = Meant(prints)
  BY <1>1, RoundTrip
<1>3. prints' = prints /\ kind \in {"metric", "data"}
  BY WaitOutputAnswers DEF process, TypeInv, TypeOK
<1>4. CASE child # "ended" \/ timedOut
  <2>1. Return("failed", <<>>)
    BY <1>4 DEF WaitOutput
  <2> QED BY <2>1 DEF Return
<1>5. CASE child = "ended" /\ ~timedOut /\ kind = "metric"
  <2>1. MetricAnswer
    BY <1>5 DEF WaitOutput
  <2>2. answer' = [what |-> "output", metrics |-> parsePrometheusText(stdout)]
    BY <2>1 DEF MetricAnswer, Return
  <2>3. stdout = PrintMetrics(prints)
    BY <1>5 DEF OutputInv
  <2> QED BY <1>2, <1>3, <2>2, <2>3
<1>6. CASE child = "ended" /\ ~timedOut /\ kind = "data"
  <2>1. DataAnswer
    BY <1>6 DEF WaitOutput
  <2>2. CASE stdout = PrintMetrics(prints)
    <3>1. answer' = [what |-> "output", metrics |-> Meant(prints)]
      BY <2>1, <2>2 DEF DataAnswer, Return
    <3> QED BY <1>3, <3>1
  <2>3. CASE stdout # PrintMetrics(prints)
    <3>1. answer' = [what |-> "failed", metrics |-> <<>>]
      BY <2>1, <2>3 DEF DataAnswer, Return
    <3> QED BY <3>1
  <2> QED BY <2>2, <2>3
<1> QED BY <1>3, <1>4, <1>5, <1>6

LEMMA MeantStep ==
    ASSUME \A out \in Outputs : Printable(out)
    PROVE  TypeInv /\ OutputInv /\ ParsedAsMeant /\ [Next]_vars => ParsedAsMeant'
<1> SUFFICES ASSUME TypeInv, OutputInv, ParsedAsMeant, [Next]_vars PROVE ParsedAsMeant'
  OBVIOUS
<1>1. CASE WaitOutput
  BY <1>1, PrintedIsMeant DEF ParsedAsMeant
<1>2. ASSUME answer' = answer, prints' = prints PROVE ParsedAsMeant'
  BY <1>2 DEF ParsedAsMeant
<1>3. ASSUME answer'.what # "output" PROVE ParsedAsMeant'
  BY <1>3 DEF ParsedAsMeant
<1>4. CASE BuildPlugin \/ SignPlugin
  <2>1. answer' = answer /\ prints' = prints
    BY <1>4, OutsideStep DEF process
  <2> QED BY <1>2, <2>1
<1>5. CASE Collect \/ ReadBinary \/ ReadSig \/ StartFails \/ Done
  <2>1. (answer' = answer /\ prints' = prints) \/ answer'.what # "output"
    BY <1>5 DEF Collect, ReadBinary, ReadSig, StartFails, Done, Return, process
  <2> QED BY <1>2, <1>3, <2>1
<1>6. CASE Start
  <2>1. answer' = answer /\ answer.what # "output"
    BY <1>6 DEF Start, OutputInv
  <2> QED BY <1>3, <2>1
<1>7. CASE BuildLimiz \/ Kill \/ WaitProcess \/ Program \/ Tick \/ UNCHANGED vars
  <2>1. answer' = answer /\ prints' = prints
    BY <1>7 DEF BuildLimiz, Kill, WaitProcess, Program, WriteLine, Fork, HolderEnds, Exit, Tick,
       vars, process
  <2> QED BY <1>2, <2>1
<1> QED BY <1>1, <1>4, <1>5, <1>6, <1>7 DEF Next, Run

\* Collect gives back the metrics of every printable output as the program
\* means them, whatever their number and their texts: what is parsed of them
\* is what was printed (RoundTrip).
THEOREM ParsedAsMeantCorrect ==
    ASSUME \A out \in Outputs : Printable(out)
    PROVE  Spec => []ParsedAsMeant
<1>1. Init => ParsedAsMeant
  BY DEF Init, ParsedAsMeant
<1>2. TypeInv /\ OutputInv /\ ParsedAsMeant /\ [Next]_vars => ParsedAsMeant'
  BY MeantStep
<1> QED BY <1>1, <1>2, TypeAlways, OutputAlways, PTL DEF Spec
=============================================================================
