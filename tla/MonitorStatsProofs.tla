------------------------- MODULE MonitorStatsProofs -------------------------
(***************************************************************************)
(* Proofs about MonitorStats, for any records, periods and number of       *)
(* errors that are shown: the insertion sort sorts and loses nothing and   *)
(* the percentile that is printed is one; no error is lost or hidden; and  *)
(* each hour of the breakdown adds up its own records in the files, and    *)
(* all of them the summaries.                                              *)
(***************************************************************************)
EXTENDS MonitorStats, FiniteSetTheorems, FunctionTheorems, WellFoundedInduction,
        TLAPS

(***************************************************************************)
(* 1. Induction over the natural numbers, and sums.                        *)
(*                                                                         *)
(* The order of the numbers is well founded, so a set of them that is not  *)
(* empty has a least element, and one with 0 and every successor has all.  *)
(* Sum is a recursive function: there is a function that solves its        *)
(* equation (TotalsExist), and every one that does is Sum's (SumIs).       *)
(***************************************************************************)
LEMMA Least == ASSUME NEW T \in SUBSET Nat, T # {}
               PROVE  \E x \in T : \A y \in T : x <= y
<1> DEFINE R == OpToRel(<, Nat)
<1>1. \A x, y \in Nat : <<x, y>> \in R <=> x < y
  BY DEF OpToRel
<1>2. IsWellFoundedOn(R, Nat)
  BY NatLessThanWellFounded
<1> HIDE DEF R
<1>3. PICK x \in T : \A y \in T : ~ (<<y, x>> \in R)
  BY <1>2, WFMin
<1>4. ASSUME NEW y \in T PROVE x <= y
  <2>1. x \in Nat /\ y \in Nat /\ ~ (y < x)
    BY <1>1, <1>3
  <2> QED BY <2>1, SMT
<1> QED BY <1>4

LEMMA Induction == ASSUME NEW S, 0 \in S, \A k \in Nat : k \in S => k + 1 \in S
                   PROVE  \A k \in Nat : k \in S
<1> DEFINE T == Nat \ S
<1> SUFFICES ASSUME T # {} PROVE FALSE
  OBVIOUS
<1>1. PICK x \in T : \A y \in T : x <= y
  BY Least
<1>2. x # 0 /\ x \in Nat /\ x - 1 \in Nat /\ x - 1 + 1 = x /\ ~ (x <= x - 1)
  BY <1>1, SMT
<1>3. x - 1 \in S
  BY <1>1, <1>2
<1> QED BY <1>2, <1>3, <1>1

\* t[k] is the sum of the first k elements.
Totals(s, t) == /\ t \in [0 .. Len(s) -> Nat]
                /\ t[0] = 0
                /\ \A k \in 1 .. Len(s) : t[k] = t[k - 1] + s[k]

LEMMA TotalsExist == ASSUME NEW s \in Seq(Nat) PROVE \E t : Totals(s, t)
<1> DEFINE L == Len(s)
           Upto(c, t) == /\ t \in [0 .. c -> Nat]
                         /\ t[0] = 0
                         /\ \A k \in 1 .. c : t[k] = t[k - 1] + s[k]
           S == {c \in Nat : c <= L => \E t : Upto(c, t)}
<1>0. L \in Nat /\ \A k \in 1 .. L : s[k] \in Nat
  OBVIOUS
<1> HIDE DEF L
<1>1. 0 \in S
  <2>1. Upto(0, [k \in 0 .. 0 |-> 0])
    BY SMT
  <2> HIDE DEF Upto
  <2> QED BY <2>1
<1>2. \A c \in Nat : c \in S => c + 1 \in S
  <2> SUFFICES ASSUME NEW c \in Nat, c \in S, c + 1 <= L PROVE \E t : Upto(c + 1, t)
    <3> HIDE DEF Upto
    <3> QED OBVIOUS
  <2>1. c <= L /\ c + 1 \in 1 .. L
    BY <1>0, SMT
  <2>2. PICK t : Upto(c, t)
    <3> HIDE DEF Upto
    <3> QED BY <2>1
  <2> DEFINE u == [k \in 0 .. c + 1 |-> IF k = c + 1 THEN t[c] + s[c + 1] ELSE t[k]]
  <2>3. t[c] \in Nat /\ s[c + 1] \in Nat /\ \A k \in 0 .. c : t[k] \in Nat
    BY <1>0, <2>1, <2>2, SMT
  <2>4. u \in [0 .. c + 1 -> Nat]
    BY <2>3, SMT
  <2>5. u[0] = 0
    BY <2>2, SMT
  <2>6. \A k \in 1 .. c + 1 : u[k] = u[k - 1] + s[k]
    <3> SUFFICES ASSUME NEW k \in 1 .. c + 1 PROVE u[k] = u[k - 1] + s[k]
      OBVIOUS
    <3>1. CASE k = c + 1
      BY <3>1, SMT
    <3>2. CASE k # c + 1
      <4>1. k \in 1 .. c /\ k - 1 # c + 1 /\ k - 1 \in 0 .. c + 1 /\ k \in 0 .. c + 1
        BY <3>2, SMT
      <4>2. u[k] = t[k] /\ u[k - 1] = t[k - 1]
        BY <4>1, <3>2
      <4> HIDE DEF u
      <4> QED BY <4>1, <4>2, <2>2
    <3> QED BY <3>1, <3>2
  <2>7. Upto(c + 1, u)
    <3> HIDE DEF u
    <3> QED BY <2>4, <2>5, <2>6
  <2> HIDE DEF Upto
  <2> QED BY <2>7
<1>3. L \in S
  <2> HIDE DEF S
  <2> QED BY <1>0, <1>1, <1>2, Induction
<1>4. PICK t : Upto(L, t)
  <2> HIDE DEF Upto
  <2> QED BY <1>0, <1>3
<1> QED BY <1>4 DEF Totals, L

\* A function that solves the equation of Sum's is the function of the totals.
LEMMA SumIs == ASSUME NEW s \in Seq(Nat), NEW t, Totals(s, t) PROVE Sum(s) = t[Len(s)]
<1> DEFINE L == Len(s)
           Eq(u) == u = [k \in 0 .. L |-> IF k = 0 THEN 0 ELSE u[k - 1] + s[k]]
           u == CHOOSE u : Eq(u)
<1>1. L \in Nat
  OBVIOUS
<1>2. Sum(s) = u[L]
  BY DEF Sum
<1>3. Eq(t)
  <2>1. t \in [0 .. L -> Nat]
    BY DEF Totals
  <2>2. \A k \in 0 .. L : t[k] = IF k = 0 THEN 0 ELSE t[k - 1] + s[k]
    BY <1>1, SMT DEF Totals
  <2> QED BY <2>1, <2>2
<1>4. Eq(u)
  <2> HIDE DEF Eq
  <2> QED BY <1>3
<1> DEFINE v == [k \in 0 .. L |-> IF k = 0 THEN 0 ELSE u[k - 1] + s[k]]
<1>5. u = v /\ \A k \in 0 .. L : v[k] = IF k = 0 THEN 0 ELSE u[k - 1] + s[k]
  <2> HIDE DEF u
  <2> QED BY <1>4
<1> HIDE DEF u, v
<1> DEFINE S == {c \in Nat : c <= L => u[c] = t[c]}
<1>6. 0 \in S
  BY <1>1, <1>5 DEF Totals
<1>7. \A c \in Nat : c \in S => c + 1 \in S
  <2> SUFFICES ASSUME NEW c \in Nat, c \in S, c + 1 <= L PROVE u[c + 1] = t[c + 1]
    OBVIOUS
  <2> HIDE DEF L
  <2>1. c + 1 \in 0 .. L /\ c + 1 \in 1 .. L /\ c + 1 # 0 /\ c + 1 - 1 = c /\ c <= L
    BY <1>1, SMT
  <2>2. u[c + 1] = u[c] + s[c + 1]
    BY <1>5, <2>1
  <2>3. t[c + 1] = t[c] + s[c + 1]
    BY <2>1 DEF Totals, L
  <2> QED BY <2>1, <2>2, <2>3
<1>8. L \in S
  <2> HIDE DEF S
  <2> QED BY <1>1, <1>6, <1>7, Induction
<1> QED BY <1>1, <1>2, <1>8

LEMMA Associated == ASSUME NEW x \in Nat, NEW y \in Nat, NEW z \in Nat
                    PROVE  (x + y) + z = x + (y + z) /\ (x + y) + z = (x + z) + y
  OBVIOUS

LEMMA SumTyped == ASSUME NEW s \in Seq(Nat) PROVE Sum(s) \in Nat
<1> PICK t : Totals(s, t)
  BY TotalsExist
<1>1. Sum(s) = t[Len(s)] /\ Len(s) \in 0 .. Len(s)
  BY SumIs
<1> QED BY <1>1 DEF Totals

LEMMA SumEmpty == Sum(<<>>) = 0
<1> DEFINE t == [k \in 0 .. 0 |-> 0]
<1>1. <<>> \in Seq(Nat) /\ Len(<<>>) = 0
  OBVIOUS
<1>2. Totals(<<>>, t)
  BY <1>1, SMT DEF Totals
<1>3. t[0] = 0
  OBVIOUS
<1> HIDE DEF t
<1> QED BY <1>1, <1>2, <1>3, SumIs

\* One element more.
LEMMA SumAppend == ASSUME NEW s \in Seq(Nat), NEW x \in Nat
                   PROVE  Sum(Append(s, x)) = Sum(s) + x
<1> DEFINE L == Len(s)
           r == Append(s, x)
<1> PICK t : Totals(s, t)
  BY TotalsExist
<1> DEFINE u == [k \in 0 .. L + 1 |-> IF k = L + 1 THEN t[L] + x ELSE t[k]]
<1>1. /\ L \in Nat /\ r \in Seq(Nat) /\ Len(r) = L + 1
      /\ r[L + 1] = x /\ \A k \in 1 .. L : r[k] = s[k]
  OBVIOUS
<1>2. /\ t \in [0 .. L -> Nat] /\ t[0] = 0 /\ \A k \in 1 .. L : t[k] = t[k - 1] + s[k]
  BY DEF Totals
<1> HIDE DEF L, r
<1>3. \A k \in 0 .. L : t[k] \in Nat
  BY <1>2
<1>4. u \in [0 .. L + 1 -> Nat] /\ u[0] = 0
  BY <1>1, <1>2, <1>3, SMT
<1>5. \A k \in 0 .. L + 1 : u[k] = IF k = L + 1 THEN t[L] + x ELSE t[k]
  OBVIOUS
<1> HIDE DEF u
<1>6. \A k \in 1 .. L + 1 : u[k] = u[k - 1] + r[k]
  <2> SUFFICES ASSUME NEW k \in 1 .. L + 1 PROVE u[k] = u[k - 1] + r[k]
    OBVIOUS
  <2>1. k - 1 \in 0 .. L + 1 /\ k - 1 # L + 1 /\ k \in 0 .. L + 1
    BY <1>1, SMT
  <2>2. CASE k = L + 1
    <3>1. k - 1 = L
      BY <2>2, <1>1, SMT
    <3>2. u[k] = t[L] + x /\ u[k - 1] = t[L]
      BY <3>1, <2>1, <2>2, <1>5
    <3> QED BY <3>2, <2>2, <1>1
  <2>3. CASE k # L + 1
    <3>1. k \in 1 .. L
      BY <2>3, <1>1, SMT
    <3>2. u[k] = t[k] /\ u[k - 1] = t[k - 1]
      BY <2>1, <2>3, <1>5
    <3> QED BY <3>1, <3>2, <1>1, <1>2
  <2> QED BY <2>2, <2>3
<1>7. Totals(r, u)
  BY <1>1, <1>4, <1>6 DEF Totals
<1>8. Sum(r) = u[L + 1] /\ Sum(s) = t[L]
  BY <1>1, <1>7, SumIs DEF L
<1>9. u[L + 1] = t[L] + x
  BY <1>1, <1>5, SMT
<1> QED BY <1>8, <1>9 DEF r

\* x more at one place is x more in all.
LEMMA SumBump ==
    ASSUME NEW s \in Seq(Nat), NEW r \in Seq(Nat), Len(r) = Len(s), NEW x \in Nat,
           NEW p \in 1 .. Len(s), r[p] = s[p] + x,
           \A k \in 1 .. Len(s) : k # p => r[k] = s[k]
    PROVE  Sum(r) = Sum(s) + x
<1> DEFINE L == Len(s)
<1> PICK t : Totals(s, t)
  BY TotalsExist
<1> DEFINE u == [k \in 0 .. L |-> IF p <= k THEN t[k] + x ELSE t[k]]
<1>1. L \in Nat /\ Len(r) = L /\ p \in 1 .. L /\ L \in 0 .. L
  OBVIOUS
<1>2. /\ t \in [0 .. L -> Nat] /\ t[0] = 0 /\ \A k \in 1 .. L : t[k] = t[k - 1] + s[k]
  BY DEF Totals
<1>10. /\ r[p] = s[p] + x /\ \A k \in 1 .. L : k # p => r[k] = s[k]
  OBVIOUS
<1>11. \A k \in 1 .. L : s[k] \in Nat
  OBVIOUS
<1> HIDE DEF L
<1>3. \A k \in 0 .. L : t[k] \in Nat
  BY ONLY <1>2
<1>5. \A k \in 0 .. L : u[k] = IF p <= k THEN t[k] + x ELSE t[k]
  OBVIOUS
<1>12. \A k \in 0 .. L : t[k] + x \in Nat
  BY ONLY <1>3, x \in Nat
<1>4. u \in [0 .. L -> Nat]
  BY <1>3, <1>12
<1>13. u[0] = 0
  <2>1. 0 \in 0 .. L /\ ~ (p <= 0)
    BY <1>1, SMT
  <2> QED BY <2>1, <1>2, <1>5
<1> HIDE DEF u
<1>6. \A k \in 1 .. L : u[k] = u[k - 1] + r[k]
  <2> SUFFICES ASSUME NEW k \in 1 .. L PROVE u[k] = u[k - 1] + r[k]
    OBVIOUS
  <2>5. k - 1 \in 0 .. L /\ k \in 0 .. L
    BY <1>1, SMT
  <2>1. k - 1 \in 0 .. L /\ k \in 0 .. L /\ t[k] = t[k - 1] + s[k]
        /\ t[k - 1] \in Nat /\ s[k] \in Nat
    BY <2>5, <1>2, <1>3, <1>11
  <2>2. CASE k = p
    <3>1. p <= k /\ ~ (p <= k - 1)
      BY <2>2, <1>1, SMT
    <3>2. u[k] = t[k] + x /\ u[k - 1] = t[k - 1] /\ r[k] = s[k] + x
      BY <3>1, <2>1, <2>2, <1>5, <1>10
    <3>3. t[k] = t[k - 1] + s[k] /\ t[k - 1] \in Nat /\ s[k] \in Nat
      BY <2>1
    <3>4. (t[k - 1] + s[k]) + x = t[k - 1] + (s[k] + x)
      BY ONLY <3>3, x \in Nat, Associated
    <3> QED BY ONLY <3>2, <3>3, <3>4
  <2>3. CASE p < k
    <3>1. p <= k /\ p <= k - 1 /\ k # p
      BY <2>3, <1>1, SMT
    <3>2. u[k] = t[k] + x /\ u[k - 1] = t[k - 1] + x /\ r[k] = s[k]
      BY <3>1, <2>1, <1>5, <1>10
    <3>3. t[k] = t[k - 1] + s[k] /\ t[k - 1] \in Nat /\ s[k] \in Nat
      BY <2>1
    <3>4. (t[k - 1] + x) + s[k] = (t[k - 1] + s[k]) + x
      BY ONLY <3>3, x \in Nat, Associated
    <3> QED BY ONLY <3>2, <3>3, <3>4
  <2>4. CASE k < p
    <3>1. ~ (p <= k) /\ ~ (p <= k - 1) /\ k # p
      BY <2>4, <1>1, SMT
    <3>2. u[k] = t[k] /\ u[k - 1] = t[k - 1] /\ r[k] = s[k]
      BY <3>1, <2>1, <1>5, <1>10
    <3> QED BY <3>2, <2>1
  <2> QED BY <2>2, <2>3, <2>4, <1>1, SMT
<1>7. Totals(r, u)
  BY <1>1, <1>4, <1>13, <1>6 DEF Totals
<1>8. Sum(r) = u[L] /\ Sum(s) = t[L]
  BY <1>1, <1>7, SumIs DEF L
<1>9. u[L] = t[L] + x
  BY <1>1, <1>5, SMT
<1> QED BY <1>8, <1>9

\* Element by element.
LEMMA SumPlus ==
    ASSUME NEW s \in Seq(Nat), NEW q \in Seq(Nat), NEW r \in Seq(Nat),
           Len(q) = Len(s), Len(r) = Len(s),
           \A k \in 1 .. Len(s) : r[k] = s[k] + q[k]
    PROVE  Sum(r) = Sum(s) + Sum(q)
<1> DEFINE L == Len(s)
<1> PICK t : Totals(s, t)
  BY TotalsExist
<1> PICK v : Totals(q, v)
  BY TotalsExist
<1> DEFINE u == [k \in 0 .. L |-> t[k] + v[k]]
<1>1. /\ L \in Nat /\ Len(r) = L /\ Len(q) = L /\ L \in 0 .. L
      /\ \A k \in 1 .. L : s[k] \in Nat /\ q[k] \in Nat /\ r[k] = s[k] + q[k]
  <2>1. L \in Nat /\ Len(r) = L /\ Len(q) = L
    OBVIOUS
  <2>2. L \in 0 .. L
    BY ONLY <2>1
  <2>3. \A k \in 1 .. L : s[k] \in Nat
    OBVIOUS
  <2>4. \A k \in 1 .. L : q[k] \in Nat
    BY <2>1
  <2>5. \A k \in 1 .. L : r[k] = s[k] + q[k]
    OBVIOUS
  <2> QED BY <2>1, <2>2, <2>3, <2>4, <2>5
<1>2. /\ t \in [0 .. L -> Nat] /\ t[0] = 0 /\ \A k \in 1 .. L : t[k] = t[k - 1] + s[k]
  BY DEF Totals
<1>3. /\ v \in [0 .. L -> Nat] /\ v[0] = 0 /\ \A k \in 1 .. L : v[k] = v[k - 1] + q[k]
  BY <1>1 DEF Totals
<1> HIDE DEF L
<1>4. \A k \in 0 .. L : t[k] \in Nat /\ v[k] \in Nat
  BY <1>2, <1>3
<1>5. u \in [0 .. L -> Nat] /\ \A k \in 0 .. L : u[k] = t[k] + v[k]
  BY <1>4
<1> HIDE DEF u
<1>6. u[0] = 0
  BY <1>1, <1>2, <1>3, <1>5, SMT
<1>7. \A k \in 1 .. L : u[k] = u[k - 1] + r[k]
  <2> SUFFICES ASSUME NEW k \in 1 .. L PROVE u[k] = u[k - 1] + r[k]
    OBVIOUS
  <2>1. k - 1 \in 0 .. L /\ k \in 0 .. L
    BY <1>1, SMT
  <2>2. u[k] = t[k] + v[k] /\ u[k - 1] = t[k - 1] + v[k - 1]
    BY <2>1, <1>5
  <2>3. t[k - 1] \in Nat /\ v[k - 1] \in Nat /\ s[k] \in Nat /\ q[k] \in Nat
    BY <2>1, <1>4, <1>1
  <2>4. t[k] = t[k - 1] + s[k] /\ v[k] = v[k - 1] + q[k] /\ r[k] = s[k] + q[k]
    BY <1>1, <1>2, <1>3
  <2> DEFINE tk == t[k - 1]
             vk == v[k - 1]
             sk == s[k]
             qk == q[k]
  <2>5. tk \in Nat /\ vk \in Nat /\ sk \in Nat /\ qk \in Nat
    BY <2>3
  <2>6. u[k - 1] = tk + vk /\ r[k] = sk + qk /\ u[k] = (tk + sk) + (vk + qk)
    BY <2>2, <2>4
  <2> HIDE DEF tk, vk, sk, qk
  <2>7. (tk + sk) + (vk + qk) = (tk + vk) + (sk + qk)
    BY ONLY <2>5
  <2> QED BY ONLY <2>6, <2>7
<1>8. Totals(r, u)
  BY <1>1, <1>5, <1>6, <1>7 DEF Totals
<1>9. Sum(r) = u[L] /\ Sum(s) = t[L] /\ Sum(q) = v[L]
  BY <1>1, <1>8, SumIs DEF L
<1> QED BY <1>9, <1>1, <1>5

(***************************************************************************)
(* 2. The sort.                                                            *)
(***************************************************************************)
SortedTo(s, k) == \A j, m \in DOMAIN s : j < m /\ m <= k => s[j] <= s[m]

\* r has the elements of s, each as often.
Permuted(s, r) == \E f \in Bijection(DOMAIN s, DOMAIN r) : \A m \in DOMAIN s : s[m] = r[f[m]]

LEMMA UpTo == ASSUME NEW c \in Nat
              PROVE  IsFiniteSet(1 .. c) /\ Cardinality(1 .. c) = c
  BY FS_Interval, SMT

LEMMA Between == ASSUME NEW b \in Nat, NEW c \in Nat, b <= c + 1
                 PROVE  IsFiniteSet(b .. c) /\ Cardinality(b .. c) = c - b + 1
  BY FS_Interval, SMT

LEMMA PartOfUpTo == ASSUME NEW c \in Nat, NEW T \in SUBSET (1 .. c)
                    PROVE  IsFiniteSet(T) /\ Cardinality(T) \in Nat /\ Cardinality(T) <= c
<1>1. IsFiniteSet(1 .. c) /\ Cardinality(1 .. c) = c
  BY UpTo
<1>2. IsFiniteSet(T) /\ Cardinality(T) <= Cardinality(1 .. c)
  BY <1>1, FS_Subset
<1> QED BY <1>1, <1>2, FS_CardinalityType

\* The place where the inner loop ends: as many elements as are not above s[k].
LEMMA InsertPlace ==
    ASSUME NEW s \in Seq(Nat), NEW k \in 2 .. Len(s), SortedTo(s, k - 1)
    PROVE  \E j \in 0 .. k - 1 : /\ j = 0 \/ s[j] <= s[k]
                                 /\ \A m \in j + 1 .. k - 1 : s[m] > s[k]
<1> DEFINE T == {m \in 1 .. k - 1 : s[m] <= s[k]}
           j == Cardinality(T)
<1>1. k \in Nat /\ k - 1 \in Nat /\ DOMAIN s = 1 .. Len(s) /\ Len(s) \in Nat
  BY SMT
<1>2. \A m \in 1 .. Len(s) : s[m] \in Nat
  OBVIOUS
<1>3. \A m \in T : 1 .. m \subseteq T
  <2> SUFFICES ASSUME NEW m \in T, NEW x \in 1 .. m, x # m PROVE x \in T
    OBVIOUS
  <2>1. x \in DOMAIN s /\ m \in DOMAIN s /\ x < m /\ m <= k - 1
    BY <1>1, SMT
  <2>2. s[x] <= s[m] /\ s[m] <= s[k]
    BY <2>1 DEF SortedTo
  <2>3. s[x] <= s[k]
    BY <2>1, <2>2, <1>1, <1>2, SMT
  <2> QED BY <2>1, <2>3, <1>1, SMT
<1>5. IsFiniteSet(T) /\ j <= k - 1 /\ j \in Nat
  <2>1. T \in SUBSET (1 .. k - 1)
    OBVIOUS
  <2> HIDE DEF T
  <2> QED BY <2>1, <1>1, PartOfUpTo
<1>6. \A m \in T : m <= j
  <2> SUFFICES ASSUME NEW m \in T PROVE m <= j
    OBVIOUS
  <2>1. m \in Nat /\ 1 .. m \in SUBSET T
    BY <1>1, <1>3, SMT
  <2> HIDE DEF T
  <2>2. Cardinality(1 .. m) = m
    BY <2>1, UpTo
  <2>3. Cardinality(1 .. m) <= Cardinality(T)
    BY <2>1, <1>5, FS_Subset
  <2> QED BY <2>2, <2>3
<1>7. j # 0 => j \in T
  <2> SUFFICES ASSUME j # 0, j \notin T PROVE FALSE
    OBVIOUS
  <2>1. T \subseteq 1 .. j - 1
    <3> SUFFICES ASSUME NEW m \in T, ~ (m <= j - 1) PROVE FALSE
      BY <1>1, <1>5, SMT
    <3>1. m \in Nat /\ j \in 1 .. m
      BY <1>1, <1>5, SMT
    <3> HIDE DEF T, j
    <3> QED BY <3>1, <1>3
  <2>2. j - 1 \in Nat
    <3> HIDE DEF j
    <3> QED BY <1>5, SMT
  <2>3. Cardinality(T) <= j - 1
    <3> HIDE DEF T
    <3> SUFFICES ASSUME NEW c \in Nat, c = j - 1 PROVE Cardinality(T) <= c
      BY <2>2
    <3> QED BY <2>1, PartOfUpTo
  <2> HIDE DEF T
  <2> QED BY <2>3, <1>5, SMT
<1>8. \A m \in j + 1 .. k - 1 : s[m] > s[k]
  <2> SUFFICES ASSUME NEW m \in j + 1 .. k - 1 PROVE s[m] > s[k]
    OBVIOUS
  <2>1. m \in 1 .. k - 1 /\ ~ (m <= j)
    <3> HIDE DEF j
    <3> QED BY <1>1, <1>5, SMT
  <2>2. m \notin T
    BY <2>1, <1>6
  <2> QED BY <2>1, <2>2, <1>1, <1>2, SMT
<1>9. j \in 0 .. k - 1 /\ (j = 0 \/ s[j] <= s[k])
  <2> HIDE DEF j
  <2> QED BY <1>1, <1>5, <1>7, SMT
<1> HIDE DEF j
<1> QED BY <1>8, <1>9

\* One turn of the outer loop: the sorted part grows by one, and the elements
\* are the same.
LEMMA InsertSorts ==
    ASSUME NEW s \in Seq(Nat), NEW k \in 2 .. Len(s), SortedTo(s, k - 1)
    PROVE  /\ Insert(s, k) \in Seq(Nat)
           /\ Len(Insert(s, k)) = Len(s)
           /\ SortedTo(Insert(s, k), k)
           /\ Permuted(Insert(s, k), s)
<1> DEFINE j == CHOOSE j \in 0 .. k - 1 : /\ j = 0 \/ s[j] <= s[k]
                                          /\ \A m \in j + 1 .. k - 1 : s[m] > s[k]
           L == Len(s)
           g == [m \in 1 .. L |-> IF m = j + 1 THEN k ELSE IF m \in j + 2 .. k THEN m - 1 ELSE m]
           h == [m \in 1 .. L |-> IF m = k THEN j + 1 ELSE IF m \in j + 1 .. k - 1 THEN m + 1 ELSE m]
<1>1. /\ j \in 0 .. k - 1
      /\ j = 0 \/ s[j] <= s[k]
      /\ \A m \in j + 1 .. k - 1 : s[m] > s[k]
  BY InsertPlace
<1>2. L \in Nat /\ k \in 2 .. L /\ k \in Nat /\ DOMAIN s = 1 .. L
  BY SMT
<1>3. Insert(s, k) = [m \in 1 .. L |-> IF m = j + 1 THEN s[k]
                                       ELSE IF m \in j + 2 .. k THEN s[m - 1] ELSE s[m]]
  BY <1>2 DEF Insert
<1> HIDE DEF j, L
<1>4. Insert(s, k) = [m \in 1 .. L |-> s[g[m]]]
  BY <1>1, <1>2, <1>3, SMT
<1>5. g \in Bijection(1 .. L, 1 .. L)
  <2>1. g \in [1 .. L -> 1 .. L]
    BY <1>1, <1>2, SMT
  <2>2. \A m, p \in 1 .. L : g[m] = g[p] => m = p
    BY <1>1, <1>2, SMT
  <2>3. \A m \in 1 .. L : h[m] \in 1 .. L /\ g[h[m]] = m
    BY <1>1, <1>2, SMT
  <2>4. \A m \in 1 .. L : \E p \in 1 .. L : g[p] = m
    BY <2>3
  <2> HIDE DEF g, h
  <2> QED BY <2>1, <2>2, <2>4, Fun_IsBij
<1>6. Insert(s, k) \in Seq(Nat) /\ Len(Insert(s, k)) = L
  <2>1. \A m \in 1 .. L : s[g[m]] \in Nat
    BY <1>1, <1>2, SMT DEF L
  <2> QED BY <2>1, <1>2, <1>4, SMT
<1>7. SortedTo(Insert(s, k), k)
  <2>1. \A m, p \in 1 .. L : m < p /\ p <= k - 1 => s[m] <= s[p]
    BY <1>2 DEF SortedTo
  <2>2. \A m \in 1 .. L : s[m] \in Nat
    BY DEF L
  <2>3. \A m \in 1 .. L : Insert(s, k)[m] = IF m = j + 1 THEN s[k]
                              ELSE IF m \in j + 2 .. k THEN s[m - 1] ELSE s[m]
    BY <1>3
  <2>4. \A m \in 1 .. j : s[m] <= s[k]
    <3> SUFFICES ASSUME NEW m \in 1 .. j PROVE s[m] <= s[k]
      OBVIOUS
    <3>1. j \in 1 .. L /\ m \in 1 .. L /\ s[j] <= s[k]
      BY <1>1, <1>2, SMT
    <3>2. s[m] <= s[j]
      BY <3>1, <2>1, <2>2, <1>1, <1>2, SMT
    <3> QED BY <3>1, <3>2, <2>2, <1>2, SMT
  <2>5. DOMAIN Insert(s, k) = 1 .. L
    BY <1>3
  <2> SUFFICES ASSUME NEW m \in 1 .. L, NEW p \in 1 .. L, m < p, p <= k
               PROVE  Insert(s, k)[m] <= Insert(s, k)[p]
    BY <2>5 DEF SortedTo
  <2> HIDE DEF g, h
  <2>6. CASE p <= j
    BY <2>6, <2>1, <2>3, <1>1, <1>2, SMT
  <2>7. CASE p = j + 1
    BY <2>7, <2>4, <2>3, <1>1, <1>2, SMT
  <2>8. CASE p >= j + 2 /\ m <= j
    <3>1. p # j + 1 /\ p \in j + 2 .. k /\ m # j + 1 /\ m \notin j + 2 .. k
      BY <2>8, <1>1, <1>2, SMT
    <3>3. Insert(s, k)[m] = s[m] /\ Insert(s, k)[p] = s[p - 1]
      BY <3>1, <2>3
    <3>2. p - 1 \in 1 .. L /\ m < p - 1 /\ p - 1 <= k - 1
      BY <2>8, <1>1, <1>2, SMT
    <3> QED BY <3>3, <3>2, <2>1, <1>2, SMT
  <2>9. CASE p >= j + 2 /\ m = j + 1
    BY <2>9, <2>2, <2>3, <1>1, <1>2, SMTT(30)
  <2>10. CASE p >= j + 2 /\ m >= j + 2
    BY <2>10, <2>1, <2>3, <1>1, <1>2, SMTT(30)
  <2> QED BY <2>6, <2>7, <2>8, <2>9, <2>10, <1>1, <1>2, SMT
<1>8. Permuted(Insert(s, k), s)
  <2>1. DOMAIN Insert(s, k) = 1 .. L /\ \A m \in 1 .. L : Insert(s, k)[m] = s[g[m]]
    BY <1>4
  <2> HIDE DEF g, h
  <2> QED BY <2>1, <1>2, <1>5 DEF Permuted
<1> QED BY <1>6, <1>7, <1>8 DEF L

(***************************************************************************)
(* 3. The percentile of a sorted slice, and of whatever it was sorted from.*)
(***************************************************************************)
LEMMA Index == ASSUME NEW L \in Nat, L # 0
               PROVE  /\ p95Idx(L) \in 0 .. L - 1
                      /\ 20 * p95Idx(L) <= 19 * L
                      /\ 20 * (L - (p95Idx(L) + 1)) < L
<1> DEFINE d == (L * 95) \div 100
<1>1. d \in Nat /\ 100 * d <= 95 * L /\ 95 * L < 100 * d + 100
  BY SMT
<1>2. d < L
  BY <1>1, SMT
<1>3. p95Idx(L) = d
  BY <1>2 DEF p95Idx
<1> HIDE DEF d
<1> QED BY <1>1, <1>2, <1>3, SMT

Above(s, x) == {k \in DOMAIN s : s[k] > x}
Below(s, x) == {k \in DOMAIN s : s[k] < x}

LEMMA SortedPercentile ==
    ASSUME NEW s \in Seq(Nat), s # <<>>, SortedTo(s, Len(s))
    PROVE  LET x == s[p95Idx(Len(s)) + 1] IN
           /\ x \in Nat
           /\ 20 * Cardinality(Above(s, x)) < Len(s)
           /\ 20 * Cardinality(Below(s, x)) <= 19 * Len(s)
<1> DEFINE L == Len(s)
           d == p95Idx(L)
           x == s[d + 1]
<1>1. L \in Nat /\ L # 0 /\ DOMAIN s = 1 .. L
  BY SMT
<1>2. d \in 0 .. L - 1 /\ 20 * d <= 19 * L /\ 20 * (L - (d + 1)) < L
  BY <1>1, Index
<1>3. d + 1 \in 1 .. L /\ d \in Nat /\ d + 1 \in Nat
  BY <1>1, <1>2, SMT
<1>4. \A k \in 1 .. L : s[k] \in Nat
  OBVIOUS
<1>5. \A j, m \in 1 .. L : j < m => s[j] <= s[m]
  BY <1>1 DEF SortedTo
<1> HIDE DEF d, L
<1>6. Below(s, x) \in SUBSET (1 .. d)
  <2> SUFFICES ASSUME NEW k \in 1 .. L, s[k] < s[d + 1], ~ (k <= d) PROVE FALSE
    BY <1>1, <1>3, SMT DEF Below
  <2>1. CASE k = d + 1
    BY <2>1, <1>4
  <2>2. CASE d + 1 < k
    BY <2>2, <1>3, <1>4, <1>5, SMT
  <2> QED BY <2>1, <2>2, <1>1, <1>3, SMT
<1>7. Above(s, x) \in SUBSET (d + 2 .. L)
  <2> SUFFICES ASSUME NEW k \in 1 .. L, s[k] > s[d + 1], ~ (d + 2 <= k) PROVE FALSE
    BY <1>1, <1>3, SMT DEF Above
  <2>1. CASE k = d + 1
    BY <2>1, <1>4
  <2>2. CASE k < d + 1
    BY <2>2, <1>3, <1>4, <1>5, SMT
  <2> QED BY <2>1, <2>2, <1>1, <1>3, SMT
<1>8. Cardinality(Below(s, x)) \in Nat /\ Cardinality(Below(s, x)) <= d
  BY <1>3, <1>6, PartOfUpTo
<1>9. Cardinality(Above(s, x)) \in Nat /\ Cardinality(Above(s, x)) <= L - (d + 1)
  <2> HIDE DEF x
  <2>3. d + 2 \in Nat /\ L \in Nat /\ d + 2 <= L + 1 /\ L - (d + 2) + 1 = L - (d + 1)
    BY <1>1, <1>2, <1>3, SMT
  <2>1. IsFiniteSet(d + 2 .. L) /\ Cardinality(d + 2 .. L) = L - (d + 1)
    BY <2>3, Between
  <2>2. /\ IsFiniteSet(Above(s, x))
        /\ Cardinality(Above(s, x)) <= Cardinality(d + 2 .. L)
    BY <1>7, <2>1, FS_Subset
  <2> QED BY <2>1, <2>2, FS_CardinalityType
<1>10. x \in Nat
  BY <1>3, <1>4
<1> HIDE DEF x
<1>11. /\ 20 * Cardinality(Above(s, x)) < L
       /\ 20 * Cardinality(Below(s, x)) <= 19 * L
  BY <1>1, <1>2, <1>3, <1>8, <1>9, SMT
<1> QED BY <1>10, <1>11 DEF x, d, L

LEMMA SameSize == ASSUME NEW S, NEW T, NEW g \in Bijection(S, T), IsFiniteSet(S)
                  PROVE  Cardinality(S) = Cardinality(T)
<1>1. g \in Surjection(S, T) /\ g \in Injection(S, T)
  BY Fun_BijectionProperties
<1>2. IsFiniteSet(T) /\ Cardinality(T) <= Cardinality(S)
  BY <1>1, FS_Surjection
<1>3. Cardinality(S) <= Cardinality(T)
  BY <1>1, <1>2, FS_Injection
<1> QED BY <1>2, <1>3, FS_CardinalityType

\* A permutation has as many elements above and below a number.
LEMMA PermutedCounts ==
    ASSUME NEW s \in Seq(Nat), NEW r \in Seq(Nat), Permuted(s, r), NEW x \in Nat
    PROVE  /\ Cardinality(Above(s, x)) = Cardinality(Above(r, x))
           /\ Cardinality(Below(s, x)) = Cardinality(Below(r, x))
<1> PICK f \in Bijection(DOMAIN s, DOMAIN r) : \A m \in DOMAIN s : s[m] = r[f[m]]
  BY DEF Permuted
<1>1. /\ f \in [DOMAIN s -> DOMAIN r]
      /\ \A m, p \in DOMAIN s : f[m] = f[p] => m = p
      /\ \A q \in DOMAIN r : \E m \in DOMAIN s : f[m] = q
  BY Fun_BijectionProperties
<1>2. ASSUME NEW S \in SUBSET DOMAIN s, NEW T \in SUBSET DOMAIN r,
             \A m \in DOMAIN s : m \in S <=> f[m] \in T
      PROVE  Cardinality(S) = Cardinality(T)
  <2> DEFINE g == [m \in S |-> f[m]]
  <2>1. g \in [S -> T]
    BY <1>1, <1>2
  <2>2. \A m, p \in S : g[m] = g[p] => m = p
    BY <1>1
  <2>3. \A q \in T : \E m \in S : g[m] = q
    BY <1>1, <1>2
  <2> HIDE DEF g
  <2>4. g \in Bijection(S, T)
    BY <2>1, <2>2, <2>3, Fun_IsBij
  <2>5. Len(s) \in Nat /\ S \in SUBSET (1 .. Len(s))
    OBVIOUS
  <2>6. IsFiniteSet(S)
    BY <2>5, PartOfUpTo
  <2> QED BY <2>4, <2>6, SameSize
<1>3. Above(s, x) \in SUBSET DOMAIN s /\ Above(r, x) \in SUBSET DOMAIN r
  BY DEF Above
<1>4. Below(s, x) \in SUBSET DOMAIN s /\ Below(r, x) \in SUBSET DOMAIN r
  BY DEF Below
<1>5. \A m \in DOMAIN s : m \in Above(s, x) <=> f[m] \in Above(r, x)
  BY <1>1 DEF Above
<1>6. \A m \in DOMAIN s : m \in Below(s, x) <=> f[m] \in Below(r, x)
  BY <1>1 DEF Below
<1> QED BY <1>2, <1>3, <1>4, <1>5, <1>6

LEMMA PermutedTwice ==
    ASSUME NEW s, NEW r, NEW q, Permuted(s, r), Permuted(r, q)
    PROVE  Permuted(s, q)
<1> PICK f \in Bijection(DOMAIN s, DOMAIN r) : \A m \in DOMAIN s : s[m] = r[f[m]]
  BY DEF Permuted
<1> PICK g \in Bijection(DOMAIN r, DOMAIN q) : \A m \in DOMAIN r : r[m] = q[g[m]]
  BY DEF Permuted
<1> DEFINE h == [m \in DOMAIN s |-> g[f[m]]]
<1>1. /\ f \in [DOMAIN s -> DOMAIN r]
      /\ \A m, p \in DOMAIN s : f[m] = f[p] => m = p
      /\ \A x \in DOMAIN r : \E m \in DOMAIN s : f[m] = x
  BY Fun_BijectionProperties
<1>2. /\ g \in [DOMAIN r -> DOMAIN q]
      /\ \A m, p \in DOMAIN r : g[m] = g[p] => m = p
      /\ \A x \in DOMAIN q : \E m \in DOMAIN r : g[m] = x
  BY Fun_BijectionProperties
<1>3. h \in [DOMAIN s -> DOMAIN q]
  BY <1>1, <1>2
<1>4. \A m, p \in DOMAIN s : h[m] = h[p] => m = p
  BY <1>1, <1>2
<1>5. \A x \in DOMAIN q : \E m \in DOMAIN s : h[m] = x
  BY <1>1, <1>2
<1>6. \A m \in DOMAIN s : s[m] = q[h[m]]
  BY <1>1
<1> HIDE DEF h
<1>7. h \in Bijection(DOMAIN s, DOMAIN q)
  BY <1>3, <1>4, <1>5, Fun_IsBij
<1> QED BY <1>6, <1>7 DEF Permuted

LEMMA PermutedSelf == ASSUME NEW s PROVE Permuted(s, s)
<1> DEFINE h == [m \in DOMAIN s |-> m]
<1>1. h \in [DOMAIN s -> DOMAIN s] /\ \A m \in DOMAIN s : h[m] = m
  OBVIOUS
<1> HIDE DEF h
<1>2. h \in Bijection(DOMAIN s, DOMAIN s)
  BY <1>1, Fun_IsBij
<1> QED BY <1>1, <1>2 DEF Permuted

(***************************************************************************)
(* 4. Counting the elements of a sequence that are in a set.              *)
(***************************************************************************)
InSet(s, V) == {k \in DOMAIN s : s[k] \in V}

LEMMA InSetFinite == ASSUME NEW S, NEW s \in Seq(S), NEW V
                     PROVE  IsFiniteSet(InSet(s, V)) /\ Cardinality(InSet(s, V)) \in Nat
<1>1. InSet(s, V) \in SUBSET (1 .. Len(s)) /\ Len(s) \in Nat
  BY DEF InSet
<1> QED BY <1>1, PartOfUpTo

LEMMA InSetAppend ==
    ASSUME NEW S, NEW s \in Seq(S), NEW x \in S, NEW V
    PROVE  Cardinality(InSet(Append(s, x), V))
               = IF x \in V THEN Cardinality(InSet(s, V)) + 1 ELSE Cardinality(InSet(s, V))
<1> DEFINE r == Append(s, x)
           L == Len(s)
<1>1. /\ L \in Nat /\ DOMAIN s = 1 .. L /\ DOMAIN r = 1 .. L + 1 /\ r[L + 1] = x
      /\ \A k \in 1 .. L : r[k] = s[k]
  OBVIOUS
<1> HIDE DEF r, L
<1>2. L + 1 \notin 1 .. L /\ 1 .. L + 1 = (1 .. L) \cup {L + 1}
  BY <1>1
<1>3. CASE x \notin V
  <2>1. InSet(r, V) = InSet(s, V)
    BY <1>1, <1>2, <1>3 DEF InSet
  <2> QED BY <2>1, <1>3 DEF r
<1>4. CASE x \in V
  <2>1. InSet(r, V) = InSet(s, V) \cup {L + 1} /\ L + 1 \notin InSet(s, V)
    BY <1>1, <1>2, <1>4 DEF InSet
  <2>2. IsFiniteSet(InSet(s, V))
    BY InSetFinite
  <2>3. Cardinality(InSet(s, V) \cup {L + 1}) = Cardinality(InSet(s, V)) + 1
    BY <2>1, <2>2, FS_AddElement
  <2> QED BY <2>1, <2>3, <1>4 DEF r
<1> QED BY <1>3, <1>4

\* r is s without its first m elements, and maybe without some at the end:
\* it has as many of V when none of those is one.
LEMMA InSetShifted ==
    ASSUME NEW s \in Seq(Record), NEW r \in Seq(Record), NEW m \in Nat, NEW V,
           \A k \in DOMAIN r : k + m \in DOMAIN s /\ s[k + m] = r[k],
           \A k \in DOMAIN s : s[k] \in V => k - m \in DOMAIN r
    PROVE  Cardinality(InSet(r, V)) = Cardinality(InSet(s, V))
<1> DEFINE g == [k \in InSet(r, V) |-> k + m]
<1>1. \A k \in DOMAIN r : k \in Nat
  OBVIOUS
<1>6. \A k \in DOMAIN s : k \in Nat
  OBVIOUS
<1>2. g \in [InSet(r, V) -> InSet(s, V)]
  BY DEF InSet
<1>3. \A j, k \in InSet(r, V) : g[j] = g[k] => j = k
  <2> SUFFICES ASSUME NEW j \in InSet(r, V), NEW k \in InSet(r, V), j + m = k + m
               PROVE  j = k
    OBVIOUS
  <2>1. j \in Nat /\ k \in Nat
    BY <1>1 DEF InSet
  <2> QED BY ONLY <2>1, m \in Nat, j + m = k + m
<1>4. \A k \in InSet(s, V) : \E j \in InSet(r, V) : g[j] = k
  <2> SUFFICES ASSUME NEW k \in InSet(s, V) PROVE \E j \in InSet(r, V) : g[j] = k
    OBVIOUS
  <2>1. k \in DOMAIN s /\ s[k] \in V /\ k \in Nat
    BY <1>6 DEF InSet
  <2>2. k - m \in DOMAIN r /\ (k - m) + m = k
    BY <2>1
  <2>3. k - m \in InSet(r, V)
    BY <2>1, <2>2 DEF InSet
  <2> QED BY <2>2, <2>3
<1> HIDE DEF g
<1>5. g \in Bijection(InSet(r, V), InSet(s, V))
  BY <1>2, <1>3, <1>4, Fun_IsBij
<1> QED BY <1>5, InSetFinite, SameSize

(***************************************************************************)
(* 5. The statistics.                                                      *)
(***************************************************************************)
Times(t) == [k \in DOMAIN recs[t] |-> recs[t][k].ms]

\* What is sorted for a summary are the durations of its records, and its
\* first i - 1 elements are in order.
SortInv ==
    /\ db \in Seq(Record) /\ unread \subseteq DOMAIN db
    /\ recs \in [Types -> Seq(Record)]
    /\ pc \in Types => /\ recs[pc] # <<>>
                      /\ a \in Seq(Nat) /\ Len(a) = Len(recs[pc])
                      /\ i \in Nat /\ i >= 2 /\ (i = 2 \/ i <= Len(a) + 1)
                      /\ SortedTo(a, i - 1)
                      /\ Permuted(a, Times(pc))

\* Before the first summary there is none.
StatsInv ==
    /\ DOMAIN stats = Types
    /\ pc = "read" => \A t \in Types : stats[t].count = 0
    /\ PercentileRight

LEMMA TimesTyped ==
    ASSUME SortInv, NEW t \in Types
    PROVE  /\ Times(t) \in Seq(Nat) /\ Len(Times(t)) = Len(recs[t])
           /\ DOMAIN Times(t) = DOMAIN recs[t]
           /\ \A k \in DOMAIN recs[t] : Times(t)[k] = recs[t][k].ms
<1> DEFINE r == recs[t]
<1>1. r \in Seq(Record)
  BY DEF SortInv
<1> HIDE DEF r
<1>2. \A k \in 1 .. Len(r) : r[k].ms \in Nat
  <2>1. \A x \in Record : x.ms \in Nat
    BY DEF Record
  <2>2. \A k \in 1 .. Len(r) : r[k] \in Record
    BY <1>1
  <2> QED BY <2>1, <2>2
<1>3. Times(t) = [k \in 1 .. Len(r) |-> r[k].ms]
  BY <1>1 DEF Times, r
<1>4. Len(r) \in Nat
  BY <1>1
<1>5. Times(t) \in Seq(Nat) /\ Len(Times(t)) = Len(r)
  BY <1>2, <1>3, <1>4
<1> QED BY <1>1, <1>3, <1>5 DEF r

LEMMA Summarised ==
    ASSUME SortInv, NEW t \in Types, NEW next, Summarise(t, next), next \notin Types,
           recs' = recs, db' = db, unread' = unread
    PROVE  SortInv'
<1>1. /\ a' = Times(t) /\ i' = 2
      /\ pc' = IF recs[t] = <<>> THEN next ELSE t
  BY DEF Summarise, Times
<1>2. CASE pc' \notin Types
  BY <1>2 DEF SortInv
<1>3. CASE pc' \in Types
  <2>1. pc' = t /\ recs[t] # <<>> /\ Times(pc)' = a'
    BY <1>1, <1>3 DEF Times
  <2>2. a' \in Seq(Nat) /\ Len(a') = Len(recs[t])
    BY <1>1, TimesTyped
  <2>3. SortedTo(a', 1)
    BY <2>2 DEF SortedTo
  <2>4. Permuted(a', Times(pc)')
    BY <2>1, PermutedSelf
  <2> QED BY <1>1, <2>1, <2>2, <2>3, <2>4 DEF SortInv
<1> QED BY <1>2, <1>3

LEMMA SortStep == SortInv /\ [Next]_vars => SortInv'
<1> SUFFICES ASSUME SortInv, [Next]_vars PROVE SortInv'
  OBVIOUS
<1> USE DEF input, report
<1>1. CASE ReadRecord
  <2>1. PICK k \in unread : recs' = [recs EXCEPT ![db[k].type] = Append(@, db[k])]
    BY <1>1 DEF ReadRecord, Oldest
  <2>2. db[k] \in Record /\ db[k].type \in Types
    <3>1. db \in Seq(Record) /\ k \in DOMAIN db
      BY DEF SortInv
    <3>2. db[k] \in Record
      BY <3>1
    <3> QED BY <3>2 DEF Record
  <2>3. recs' \in [Types -> Seq(Record)]
    BY <2>1, <2>2 DEF SortInv
  <2>4. pc' \notin Types /\ db' = db /\ unread' \subseteq unread
    BY <1>1 DEF ReadRecord, Oldest, Types
  <2> QED BY <2>3, <2>4 DEF SortInv
<1>2. CASE RecordsRead
  <2>1. CASE pc' = "done"
    BY <1>2, <2>1 DEF RecordsRead, SortInv, Types
  <2>2. CASE Summarise("metric", "metricDone")
    BY <1>2, <2>2, Summarised DEF RecordsRead, Types
  <2> QED BY <1>2, <2>1, <2>2 DEF RecordsRead
<1>3. CASE MetricDone
  BY <1>3, Summarised DEF MetricDone, Types
<1>4. CASE SortTurn
  <2>1. /\ a' = Insert(a, i) /\ i' = i + 1 /\ i <= Len(a)
        /\ pc' = pc /\ recs' = recs /\ db' = db /\ unread' = unread
    BY <1>4 DEF SortTurn
  <2>2. CASE pc \notin Types
    BY <2>1, <2>2 DEF SortInv
  <2>3. CASE pc \in Types
    <3>1. /\ a \in Seq(Nat) /\ i \in 2 .. Len(a) /\ SortedTo(a, i - 1)
          /\ Permuted(a, Times(pc)) /\ recs[pc] # <<>> /\ Len(a) = Len(recs[pc])
      BY <2>1, <2>3 DEF SortInv
    <3>2. /\ a' \in Seq(Nat) /\ Len(a') = Len(a)
          /\ SortedTo(a', i) /\ Permuted(a', a)
      BY <2>1, <3>1, InsertSorts
    <3>3. Permuted(a', Times(pc))
      BY <3>1, <3>2, PermutedTwice
    <3>4. Times(pc)' = Times(pc)
      BY <2>1 DEF Times
    <3>5. i' - 1 = i /\ i' \in Nat /\ i' >= 2 /\ i' <= Len(a') + 1
      BY <2>1, <3>1, <3>2
    <3> QED BY <2>1, <3>1, <3>2, <3>3, <3>4, <3>5 DEF SortInv
  <2> QED BY <2>2, <2>3
<1>5. CASE PrintStats
  BY <1>5 DEF PrintStats, SortInv, Types
<1>6. CASE ShowErrors
  BY <1>6 DEF ShowErrors, SortInv, Types
<1>7. CASE AddToBucket
  BY <1>7 DEF AddToBucket, SortInv, Types
<1>8. CASE SortHours
  BY <1>8 DEF SortHours, SortInv, Types
<1>9. CASE PrintRows
  BY <1>9 DEF PrintRows, SortInv, Types
<1>10. CASE UNCHANGED vars
  BY <1>10 DEF vars, SortInv, Times
<1> QED BY <1>1, <1>2, <1>3, <1>4, <1>5, <1>6, <1>7, <1>8, <1>9, <1>10 DEF Next

\* The sorted slice gives the percentile of the records it was made from.
LEMMA PrintedRight ==
    ASSUME SortInv, pc \in Types, i > Len(a)
    PROVE  LET p == a[p95Idx(Len(a)) + 1] IN
           /\ 20 * Count(recs[pc], LAMBDA r : r.ms > p) < Len(recs[pc])
           /\ 20 * Count(recs[pc], LAMBDA r : r.ms < p) <= 19 * Len(recs[pc])
<1> DEFINE p == a[p95Idx(Len(a)) + 1]
<1>1. /\ a \in Seq(Nat) /\ a # <<>> /\ Len(a) = Len(recs[pc]) /\ Permuted(a, Times(pc))
      /\ i \in Nat /\ Len(a) \in Nat /\ SortedTo(a, i - 1) /\ DOMAIN a = 1 .. Len(a)
  BY DEF SortInv
<1>2. SortedTo(a, Len(a))
  BY <1>1, SMTT(30) DEF SortedTo
<1>3. /\ p \in Nat
      /\ 20 * Cardinality(Above(a, p)) < Len(a)
      /\ 20 * Cardinality(Below(a, p)) <= 19 * Len(a)
  BY <1>1, <1>2, SortedPercentile
<1> HIDE DEF p
<1>4. Times(pc) \in Seq(Nat)
  BY TimesTyped
<1>5. /\ Cardinality(Above(a, p)) = Cardinality(Above(Times(pc), p))
      /\ Cardinality(Below(a, p)) = Cardinality(Below(Times(pc), p))
  BY <1>1, <1>3, <1>4, PermutedCounts
<1>6. /\ Above(Times(pc), p) = {k \in DOMAIN recs[pc] : recs[pc][k].ms > p}
      /\ Below(Times(pc), p) = {k \in DOMAIN recs[pc] : recs[pc][k].ms < p}
  BY TimesTyped DEF Above, Below
<1>7. /\ 20 * Cardinality({k \in DOMAIN recs[pc] : recs[pc][k].ms > p}) < Len(recs[pc])
      /\ 20 * Cardinality({k \in DOMAIN recs[pc] : recs[pc][k].ms < p}) <= 19 * Len(recs[pc])
  BY <1>1, <1>3, <1>5, <1>6
<1> QED BY <1>7 DEF p, Count

LEMMA StatsStep == SortInv /\ StatsInv /\ [Next]_vars => StatsInv'
<1> SUFFICES ASSUME SortInv, StatsInv, [Next]_vars PROVE StatsInv'
  OBVIOUS
<1> USE DEF input, report
<1>1. CASE ReadRecord
  <2>1. pc = "read" /\ pc' = pc /\ stats' = stats
    BY <1>1 DEF ReadRecord, Oldest
  <2> QED BY <2>1 DEF StatsInv, PercentileRight
<1>2. ASSUME stats' = stats, recs' = recs, pc' # "read" \/ pc' = pc PROVE StatsInv'
  BY <1>2 DEF StatsInv, PercentileRight, Count
<1>3. CASE PrintStats
  <2> DEFINE p == a[p95Idx(Len(a)) + 1]
  <2>1. pc \in Types /\ i > Len(a) /\ recs' = recs /\ pc' # "read"
    BY <1>3 DEF PrintStats, Types
  <2>2. /\ DOMAIN stats' = Types /\ stats'[pc].p95 = p
        /\ \A t \in Types \ {pc} : stats'[t] = stats[t]
    BY <1>3, <2>1 DEF PrintStats, StatsInv
  <2>3. /\ 20 * Count(recs[pc], LAMBDA r : r.ms > p) < Len(recs[pc])
        /\ 20 * Count(recs[pc], LAMBDA r : r.ms < p) <= 19 * Len(recs[pc])
    BY <2>1, PrintedRight
  <2> HIDE DEF p
  <2>4. PercentileRight'
    <3> SUFFICES ASSUME NEW t \in Types, stats'[t].count # 0
                 PROVE  LET q == stats'[t].p95 IN
                        /\ 20 * Count(recs[t], LAMBDA r : r.ms > q) < Len(recs[t])
                        /\ 20 * Count(recs[t], LAMBDA r : r.ms < q) <= 19 * Len(recs[t])
      BY <2>1 DEF PercentileRight, Count
    <3>1. CASE t = pc
      BY <3>1, <2>2, <2>3 DEF Count
    <3>2. CASE t # pc
      <4>1. stats'[t] = stats[t] /\ stats[t].count # 0
        BY <3>2, <2>2
      <4> QED BY <4>1 DEF StatsInv, PercentileRight, Count
    <3> QED BY <3>1, <3>2
  <2> QED BY <2>1, <2>2, <2>4 DEF StatsInv
<1>4. CASE RecordsRead \/ MetricDone
  BY <1>2, <1>4 DEF RecordsRead, MetricDone, Summarise
<1>5. CASE SortTurn \/ ShowErrors \/ AddToBucket \/ SortHours \/ PrintRows
  BY <1>2, <1>5 DEF SortTurn, ShowErrors, AddToBucket, SortHours, PrintRows
<1>6. CASE UNCHANGED vars
  BY <1>2, <1>6 DEF vars
<1> QED BY <1>1, <1>3, <1>4, <1>5, <1>6 DEF Next

\* What is sorted is always a slice that it makes sense to sort.
LEMMA SortCorrect == Spec => []SortInv
<1>1. Init => SortInv
  <2> SUFFICES ASSUME Init PROVE SortInv
    OBVIOUS
  <2>1. db \in Seq(Record)
    BY ConstantsAssumption DEF Init
  <2>2. recs \in [Types -> Seq(Record)]
    BY DEF Init
  <2> QED BY <2>1, <2>2 DEF Init, SortInv, Types, Kept
<1> QED BY <1>1, SortStep, PTL DEF Spec

\* The number that is printed as P95 is a 95th percentile of the durations of
\* the type, whatever the records are and in whatever order they are read.
THEOREM PercentileCorrect == Spec => []PercentileRight
<1>1. Init => StatsInv
  <2>1. NoStats.count = 0
    BY DEF NoStats
  <2>2. Init => DOMAIN stats = Types /\ \A t \in Types : stats[t].count = 0
    BY <2>1 DEF Init
  <2> QED BY <2>2 DEF StatsInv, PercentileRight
<1>2. StatsInv => PercentileRight
  BY DEF StatsInv
<1> QED BY <1>1, <1>2, SortCorrect, StatsStep, PTL DEF Spec

(***************************************************************************)
(* 6. Types.                                                               *)
(***************************************************************************)
\* The hours are sorted from the first one on.
HoursSorted ==
    /\ pc = "buckets" => i = 2
    /\ pc = "hours" => SortedTo(a, i - 1)

LEMMA DivDef == ASSUME NEW x \in Nat, NEW y \in Nat \ {0}
                PROVE x \div y \in Nat /\ y * (x \div y) <= x /\ x < y * (x \div y) + y
  BY SMT

\* A record that is not older is of no earlier hour.
LEMMA HourOrder == ASSUME NEW r \in Record, NEW q \in Record, r.ts <= q.ts
                   PROVE  Hour(r) \in Nat /\ Hour(q) \in Nat /\ Hour(r) <= Hour(q)
<1>1. r.ts \in Nat /\ q.ts \in Nat /\ HourTicks \in Nat \ {0}
  BY ConstantsAssumption DEF Record
<1> DEFINE x == r.ts \div HourTicks  y == q.ts \div HourTicks  h == HourTicks
<1>2. x \in Nat /\ y \in Nat /\ h * x <= r.ts /\ q.ts < h * y + h
  BY <1>1, DivDef
<1> HIDE DEF x, y
<1>3. x <= y
  <2> SUFFICES ASSUME y + 1 <= x PROVE FALSE
    BY <1>2, SMT
  <2>1. h * (y + 1) <= h * x
    BY <1>1, <1>2, SMT
  <2>2. h * (y + 1) = h * y + h
    BY <1>1, <1>2, SMT
  <2> QED BY <2>1, <2>2, <1>1, <1>2, SMT
<1> QED BY <1>2, <1>3 DEF Hour, x, y

LEMMA RecordTyped == ASSUME NEW r \in Record
                     PROVE  /\ r.ts \in Nat /\ r.ms \in Nat /\ r.err \in BOOLEAN
                            /\ r.type \in Types /\ r.type \in {"metric", "data"}
                            /\ Hour(r) \in Nat
<1>1. r.ts \in Nat /\ r.ms \in Nat /\ r.err \in BOOLEAN /\ r.type \in Types
  BY DEF Record
<1>2. Hour(r) \in Nat
  BY <1>1, HourOrder
<1> QED BY <1>1, <1>2 DEF Types

Bucket == [metricCount : Nat, metricSumMs : Nat, dataCount : Nat, dataSumMs : Nat, errors : Nat]

LEMMA CountedMetric ==
    ASSUME NEW b \in Bucket, NEW r, r.type = "metric"
    PROVE  Counted(b, r) = [metricCount |-> b.metricCount + 1, metricSumMs |-> b.metricSumMs + r.ms,
                            dataCount |-> b.dataCount, dataSumMs |-> b.dataSumMs,
                            errors |-> IF r.err THEN b.errors + 1 ELSE b.errors]
<1>1. Counted(b, r) = [b EXCEPT !.metricCount = b.metricCount + 1,
                                !.metricSumMs = b.metricSumMs + r.ms,
                                !.errors = IF r.err THEN b.errors + 1 ELSE b.errors]
  BY DEF Counted, Bucket
<1>2. b = [metricCount |-> b.metricCount, metricSumMs |-> b.metricSumMs,
           dataCount |-> b.dataCount, dataSumMs |-> b.dataSumMs, errors |-> b.errors]
  BY DEF Bucket
<1> QED BY <1>1, <1>2

LEMMA CountedData ==
    ASSUME NEW b \in Bucket, NEW r, r.type # "metric"
    PROVE  Counted(b, r) = [metricCount |-> b.metricCount, metricSumMs |-> b.metricSumMs,
                            dataCount |-> b.dataCount + 1, dataSumMs |-> b.dataSumMs + r.ms,
                            errors |-> IF r.err THEN b.errors + 1 ELSE b.errors]
<1>1. Counted(b, r) = [b EXCEPT !.dataCount = b.dataCount + 1,
                                !.dataSumMs = b.dataSumMs + r.ms,
                                !.errors = IF r.err THEN b.errors + 1 ELSE b.errors]
  BY DEF Counted, Bucket
<1>2. b = [metricCount |-> b.metricCount, metricSumMs |-> b.metricSumMs,
           dataCount |-> b.dataCount, dataSumMs |-> b.dataSumMs, errors |-> b.errors]
  BY DEF Bucket
<1> QED BY <1>1, <1>2

LEMMA CountedTyped == ASSUME NEW b \in Bucket, NEW r \in Record
                      PROVE  Counted(b, r) \in Bucket /\ NoBucket \in Bucket
<1>1. r.ms \in Nat
  BY RecordTyped
<1>2. NoBucket \in Bucket
  BY DEF Bucket, NoBucket
<1>3. CASE r.type = "metric"
  BY <1>1, <1>2, <1>3, CountedMetric DEF Bucket
<1>4. CASE r.type # "metric"
  BY <1>1, <1>2, <1>4, CountedData DEF Bucket
<1> QED BY <1>3, <1>4

LEMMA TypeStep == TypeOK /\ SortInv /\ HoursSorted /\ [Next]_vars => TypeOK' /\ HoursSorted'
<1> SUFFICES ASSUME TypeOK, SortInv, HoursSorted, [Next]_vars
             PROVE  TypeOK' /\ HoursSorted'
  OBVIOUS
<1> USE DEF input, report
<1>1. CASE ReadRecord
  <2>1. PICK k \in unread :
             /\ records' = Append(records, db[k])
             /\ unread' = unread \ {k}
             /\ recs' = [recs EXCEPT ![db[k].type] = Append(@, db[k])]
             /\ errors' = [errors EXCEPT ![db[k].type] =
                               IF db[k].err THEN Append(@, db[k]) ELSE @]
             /\ UNCHANGED <<db, period, pc, a, i, stats, shown, more, n, buckets>>
             /\ pc = "read"
    BY <1>1 DEF ReadRecord, Oldest
  <2>2. db[k] \in Record
    BY DEF TypeOK
  <2>3. db[k].type \in Types
    BY <2>2, RecordTyped
  <2>4. records' \in Seq(Record) /\ Len(records') = Len(records) + 1 /\ Len(records) \in Nat
    BY <2>1, <2>2 DEF TypeOK
  <2>5. recs' \in [Types -> Seq(Record)]
    BY <2>1, <2>2, <2>3 DEF TypeOK
  <2>6. errors' \in [Types -> Seq(Record)]
    BY <2>1, <2>2, <2>3 DEF TypeOK
  <2>7. n' \in Nat /\ n' >= 1 /\ n' <= Len(records') + 1
    BY <2>1, <2>4 DEF TypeOK
  <2>8. TypeOK'
    BY <2>1, <2>4, <2>5, <2>6, <2>7 DEF TypeOK
  <2> QED BY <2>1, <2>8 DEF HoursSorted
<1>2. ASSUME NEW t \in Types, NEW next \in {"metricDone", "dataDone"}, Summarise(t, next),
             UNCHANGED <<db, period, unread, records, recs, errors, stats, shown, more, n, buckets>>
      PROVE  TypeOK' /\ HoursSorted'
  <2>1. a' = Times(t) /\ i' = 2 /\ pc' \in {next, t}
    BY <1>2 DEF Summarise, Times
  <2>2. a' \in Seq(Nat)
    BY <2>1, TimesTyped
  <2>3. pc' \in {"metric", "metricDone", "data", "dataDone"}
    BY <2>1 DEF Types
  <2>4. TypeOK'
    BY <1>2, <2>1, <2>2, <2>3 DEF TypeOK
  <2> QED BY <2>3, <2>4 DEF HoursSorted
<1>3. CASE RecordsRead
  <2>1. CASE Summarise("metric", "metricDone")
    BY <1>3, <2>1, <1>2 DEF RecordsRead, Types
  <2>2. CASE pc' = "done" /\ UNCHANGED <<a, i>>
    BY <1>3, <2>2 DEF RecordsRead, TypeOK, HoursSorted
  <2> QED BY <1>3, <2>1, <2>2 DEF RecordsRead
<1>4. CASE MetricDone
  BY <1>4, <1>2 DEF MetricDone, Types
<1>5. CASE SortTurn
  <2>1. /\ pc \in Types \cup {"hours"} /\ i <= Len(a) /\ a' = Insert(a, i) /\ i' = i + 1
        /\ UNCHANGED <<db, period, unread, records, recs, errors, pc, stats, shown, more, n, buckets>>
    BY <1>5 DEF SortTurn
  <2>2. a \in Seq(Nat) /\ i \in 2 .. Len(a)
    BY <2>1 DEF TypeOK
  <2>3. SortedTo(a, i - 1)
    BY <2>1 DEF SortInv, HoursSorted
  <2>4. a' \in Seq(Nat) /\ Len(a') = Len(a) /\ SortedTo(a', i)
    BY <2>1, <2>2, <2>3, InsertSorts
  <2>5. i' \in Nat /\ i' >= 2 /\ i' <= Len(a') + 1 /\ i' - 1 = i
    BY <2>1, <2>2, <2>4
  <2>6. TypeOK'
    BY <2>1, <2>4, <2>5 DEF TypeOK
  <2>7. pc # "buckets"
    BY <2>1 DEF Types
  <2> QED BY <2>1, <2>4, <2>5, <2>6, <2>7 DEF HoursSorted
<1>6. CASE PrintStats
  <2>1. /\ pc \in Types /\ i > Len(a) /\ pc' \in {"metricDone", "dataDone"}
        /\ UNCHANGED <<db, period, unread, records, recs, errors, a, i, shown, more, n, buckets>>
    BY <1>6 DEF PrintStats
  <2>2. /\ DOMAIN stats' = Types
        /\ \A t \in Types \ {pc} : stats'[t] = stats[t]
        /\ stats'[pc].count = Len([k \in DOMAIN recs[pc] |-> recs[pc][k].ms])
        /\ stats'[pc].p95 = a[p95Idx(Len(a)) + 1]
        /\ stats'[pc].errors = Len(errors[pc])
    BY <1>6, <2>1 DEF PrintStats, TypeOK
  <2>3. Len([k \in DOMAIN recs[pc] |-> recs[pc][k].ms]) \in Nat
    <3>1. Times(pc) \in Seq(Nat)
      BY <2>1, TimesTyped
    <3> QED BY <3>1 DEF Times
  <2>4. a[p95Idx(Len(a)) + 1] \in Nat
    <3>1. a \in Seq(Nat) /\ Len(a) \in Nat /\ Len(a) # 0
      BY <2>1 DEF SortInv
    <3> DEFINE d == p95Idx(Len(a))
    <3>2. d \in 0 .. Len(a) - 1
      BY <3>1, Index
    <3> HIDE DEF d
    <3>3. a[d + 1] \in Nat
      BY <3>1, <3>2
    <3> QED BY <3>3 DEF d
  <2>5. Len(errors[pc]) \in Nat
    BY <2>1 DEF TypeOK
  <2>6. \A t \in Types : {stats'[t].count, stats'[t].p95, stats'[t].errors} \subseteq Nat
    <3> SUFFICES ASSUME NEW t \in Types
                 PROVE  {stats'[t].count, stats'[t].p95, stats'[t].errors} \subseteq Nat
      OBVIOUS
    <3>1. CASE t = pc
      BY <3>1, <2>2, <2>3, <2>4, <2>5
    <3>2. CASE t # pc
      BY <3>2, <2>2 DEF TypeOK
    <3> QED BY <3>1, <3>2
  <2>7. TypeOK'
    BY <2>1, <2>2, <2>6 DEF TypeOK
  <2> QED BY <2>1, <2>7 DEF HoursSorted
<1>7. CASE ShowErrors
  <2> DEFINE start == IF Len(allErrors) > MaxShown THEN Len(allErrors) - MaxShown ELSE 0
  <2>1. /\ shown' = SubSeq(allErrors, start + 1, Len(allErrors)) /\ more' = start
        /\ pc' \in {"buckets", "done"} /\ a' = <<>> /\ i' = 2
        /\ UNCHANGED <<db, period, unread, records, recs, errors, stats, n, buckets>>
    BY <1>7 DEF ShowErrors
  <2>2. allErrors \in Seq(Record)
    BY DEF allErrors, TypeOK, Types
  <2>3. start \in Nat
    BY <2>2, ConstantsAssumption
  <2>4. shown' \in Seq(Record)
    BY <2>1, <2>2, <2>3
  <2> HIDE DEF start
  <2>5. TypeOK'
    BY <2>1, <2>3, <2>4 DEF TypeOK
  <2> QED BY <2>1, <2>5 DEF HoursSorted
<1>8. CASE AddToBucket
  <2> DEFINE r == records[n]
             key == Hour(r)
  <2>1. /\ pc = "buckets" /\ n <= Len(records) /\ n' = n + 1
        /\ UNCHANGED <<db, period, unread, records, recs, errors, pc, i, stats, shown, more>>
    BY <1>8 DEF AddToBucket
  <2>2. r \in Record
    BY <2>1 DEF TypeOK
  <2>3. key \in Nat
    BY <2>2, RecordTyped
  <2>4. n' \in Nat /\ n' >= 1 /\ n' <= Len(records) + 1 /\ i' = 2
    BY <2>1 DEF TypeOK, HoursSorted
  <2>5. DOMAIN buckets \subseteq Nat /\ \A h \in DOMAIN buckets : buckets[h] \in Bucket
    BY DEF TypeOK, Bucket
  <2>6. CASE key \in DOMAIN buckets
    <3>1. buckets' = [buckets EXCEPT ![key] = Counted(@, r)] /\ a' = a
      BY <1>8, <2>6 DEF AddToBucket
    <3>2. Counted(buckets[key], r) \in Bucket
      BY <2>2, <2>5, <2>6, CountedTyped
    <3> HIDE DEF r, key
    <3>3. DOMAIN buckets' \subseteq Nat /\ \A h \in DOMAIN buckets' : buckets'[h] \in Bucket
      BY <2>5, <3>1, <3>2
    <3>4. TypeOK'
      BY <2>1, <2>4, <3>1, <3>3 DEF TypeOK, Bucket
    <3> QED BY <2>1, <2>4, <3>4 DEF HoursSorted
  <2>7. CASE key \notin DOMAIN buckets
    <3>1. /\ buckets' = [h \in DOMAIN buckets \cup {key} |->
                             IF h = key THEN Counted(NoBucket, r) ELSE buckets[h]]
          /\ a' = Append(a, key)
      BY <1>8, <2>7 DEF AddToBucket
    <3>2. Counted(NoBucket, r) \in Bucket
      <4>1. NoBucket \in Bucket
        BY DEF NoBucket, Bucket
      <4> QED BY <2>2, <4>1, CountedTyped
    <3> HIDE DEF r, key
    <3>3. DOMAIN buckets' \subseteq Nat /\ \A h \in DOMAIN buckets' : buckets'[h] \in Bucket
      BY <2>3, <2>5, <3>1, <3>2
    <3>5. a' \in Seq(Nat)
      BY <2>3, <3>1 DEF TypeOK
    <3>4. TypeOK'
      BY <2>1, <2>4, <3>5, <3>3 DEF TypeOK, Bucket
    <3> QED BY <2>1, <2>4, <3>4 DEF HoursSorted
  <2> QED BY <2>6, <2>7
<1>9. CASE SortHours
  <2>1. SortedTo(a, 1)
    <3>1. a \in Seq(Nat)
      BY DEF TypeOK
    <3> QED BY <3>1 DEF SortedTo
  <2>2. pc' = "hours" /\ i' = 2 /\ a' = a
    BY <1>9 DEF SortHours, HoursSorted
  <2>3. TypeOK'
    BY <1>9 DEF SortHours, TypeOK
  <2> QED BY <2>1, <2>2, <2>3 DEF HoursSorted
<1>10. CASE PrintRows
  BY <1>10 DEF PrintRows, TypeOK, HoursSorted
<1>11. CASE UNCHANGED vars
  BY <1>11 DEF vars, TypeOK, HoursSorted
<1> QED BY <1>1, <1>3, <1>4, <1>5, <1>6, <1>7, <1>8, <1>9, <1>10, <1>11 DEF Next

LEMMA TypesAndHours == Spec => [](TypeOK /\ HoursSorted)
<1>1. Init => TypeOK /\ HoursSorted
  <2> SUFFICES ASSUME Init PROVE TypeOK /\ HoursSorted
    OBVIOUS
  <2>1. db \in Seq(Record) /\ unread \subseteq DOMAIN db
    BY ConstantsAssumption DEF Init, Kept
  <2>2. recs \in [Types -> Seq(Record)] /\ errors \in [Types -> Seq(Record)]
    BY DEF Init
  <2>3. /\ DOMAIN stats = Types
        /\ \A t \in Types : {stats[t].count, stats[t].p95, stats[t].errors} \subseteq Nat
    BY DEF Init, NoStats
  <2>4. records \in Seq(Record) /\ shown \in Seq(Record) /\ a \in Seq(Nat) /\ Len(records) = 0
    BY DEF Init
  <2>5. DOMAIN buckets = {}
    BY DEF Init
  <2> QED BY <2>1, <2>2, <2>3, <2>4, <2>5 DEF Init, TypeOK, HoursSorted
<1> QED BY <1>1, SortCorrect, TypeStep, PTL DEF Spec

\* Every variable keeps its type, whatever the files hold.
THEOREM TypeCorrect == Spec => []TypeOK
  BY TypesAndHours, PTL

(***************************************************************************)
(* 7. What is read, and the errors of it.                                  *)
(***************************************************************************)
Ordered(s) == \A j, k \in DOMAIN s : j < k => s[j].ts <= s[k].ts

\* The records of V that errors[t] is made of.
Failed(V, t) == {r \in V : r.err /\ r.type = t}

\* The records come in the order of time, and what is unread is not older.
InOrder ==
    /\ Ordered(records)
    /\ \A k \in unread : \A j \in DOMAIN records : records[j].ts <= db[k].ts

\* errors[t] has the records of t that are errors, each as often, in their order.
Separated ==
    /\ \A t \in Types : Ordered(errors[t])
    /\ \A t \in Types : \A j \in DOMAIN errors[t] :
           /\ errors[t][j].err /\ errors[t][j].type = t
           /\ \E m \in DOMAIN records : records[m] = errors[t][j]
    /\ \A t \in Types : \A V \in SUBSET Record :
           Cardinality(InSet(errors[t], V)) = Cardinality(InSet(records, Failed(V, t)))
    /\ Cardinality(InSet(records, {r \in Record : r.err}))
           = Len(errors["metric"]) + Len(errors["data"])

\* The record k is read, and put with those of its type.
Reads(k) ==
    /\ k \in unread /\ \A j \in unread : db[k].ts <= db[j].ts
    /\ records' = Append(records, db[k])
    /\ unread' = unread \ {k}
    /\ recs' = [recs EXCEPT ![db[k].type] = Append(@, db[k])]
    /\ errors' = [errors EXCEPT ![db[k].type] = IF db[k].err THEN Append(@, db[k]) ELSE @]
    /\ db' = db /\ period' = period

\* Only ReadRecord changes what RunCLI works on.
LEMMA InputStep == [Next]_vars => (\E k \in unread : Reads(k)) \/ UNCHANGED input
<1> SUFFICES ASSUME [Next]_vars PROVE (\E k \in unread : Reads(k)) \/ UNCHANGED input
  OBVIOUS
<1>1. CASE ReadRecord
  BY <1>1 DEF ReadRecord, Oldest, Reads
<1>2. CASE RecordsRead
  BY <1>2 DEF RecordsRead
<1>3. CASE MetricDone
  BY <1>3 DEF MetricDone
<1>4. CASE SortTurn
  BY <1>4 DEF SortTurn
<1>5. CASE PrintStats
  BY <1>5 DEF PrintStats
<1>6. CASE ShowErrors
  BY <1>6 DEF ShowErrors
<1>7. CASE AddToBucket
  BY <1>7 DEF AddToBucket
<1>8. CASE SortHours
  BY <1>8 DEF SortHours
<1>9. CASE PrintRows
  BY <1>9 DEF PrintRows
<1>10. CASE UNCHANGED vars
  BY <1>10 DEF vars
<1> QED BY <1>1, <1>2, <1>3, <1>4, <1>5, <1>6, <1>7, <1>8, <1>9, <1>10 DEF Next

LEMMA OrderStep == ASSUME TypeOK, InOrder, NEW k \in unread, Reads(k) PROVE InOrder'
<1> DEFINE L == Len(records)
           e == db[k]
           r == Append(records, e)
<1>1. /\ records \in Seq(Record) /\ e \in Record /\ db \in Seq(Record)
      /\ \A q \in unread : db[q] \in Record
  BY DEF TypeOK
<1>2. /\ L \in Nat /\ DOMAIN records = 1 .. L /\ DOMAIN r = 1 .. L + 1 /\ r[L + 1] = e
      /\ \A j \in 1 .. L : r[j] = records[j]
  BY <1>1
<1>3. records' = r /\ unread' = unread \ {k} /\ db' = db
  BY DEF Reads
<1>4. \A j \in 1 .. L : r[j].ts <= e.ts
  BY <1>2 DEF InOrder
<1>5. \A q \in unread : e.ts <= db[q].ts
  BY DEF Reads
<1>6. \A j \in 1 .. L : \A q \in unread : r[j].ts <= db[q].ts
  BY <1>2 DEF InOrder
<1>7. \A j, m \in 1 .. L : j < m => r[j].ts <= r[m].ts
  BY <1>2 DEF InOrder, Ordered
<1> HIDE DEF L, e, r
<1>8. \A j, m \in 1 .. L + 1 : j < m => r[j].ts <= r[m].ts
  <2> SUFFICES ASSUME NEW j \in 1 .. L + 1, NEW m \in 1 .. L + 1, j < m
               PROVE  r[j].ts <= r[m].ts
    OBVIOUS
  <2>1. j \in 1 .. L
    BY <1>2
  <2>2. m \in 1 .. L \/ m = L + 1
    BY <1>2
  <2> QED BY <2>1, <2>2, <1>2, <1>4, <1>7
<1>9. \A j \in 1 .. L + 1 : j \in 1 .. L \/ j = L + 1
  BY <1>2
<1>10. Ordered(r)
  BY <1>2, <1>8 DEF Ordered
<1>11. \A q \in unread : \A j \in DOMAIN r : r[j].ts <= db[q].ts
  BY <1>2, <1>5, <1>6, <1>9
<1> QED BY <1>3, <1>10, <1>11 DEF InOrder

LEMMA ErrorsAppended ==
    ASSUME TypeOK, NEW k \in unread, Reads(k), NEW t \in Types
    PROVE  /\ db[k] \in Record /\ db[k].type \in Types
           /\ errors[t] \in Seq(Record) /\ records \in Seq(Record) /\ recs[t] \in Seq(Record)
           /\ errors'[t] = IF db[k].type = t /\ db[k].err THEN Append(errors[t], db[k]) ELSE errors[t]
           /\ recs'[t] = IF db[k].type = t THEN Append(recs[t], db[k]) ELSE recs[t]
<1>1. /\ db[k] \in Record /\ errors \in [Types -> Seq(Record)] /\ records \in Seq(Record)
      /\ recs \in [Types -> Seq(Record)]
  BY DEF TypeOK
<1>2. db[k].type \in Types
  BY <1>1, RecordTyped
<1>3. errors' = [errors EXCEPT ![db[k].type] = IF db[k].err THEN Append(@, db[k]) ELSE @]
  BY DEF Reads
<1>4. recs' = [recs EXCEPT ![db[k].type] = Append(@, db[k])]
  BY DEF Reads
<1> QED BY <1>1, <1>2, <1>3, <1>4

LEMMA ErrorsOrdered ==
    ASSUME TypeOK, InOrder, Separated, NEW k \in unread, Reads(k), NEW t \in Types
    PROVE  /\ Ordered(errors'[t])
           /\ \A j \in DOMAIN errors'[t] :
                  /\ errors'[t][j].err /\ errors'[t][j].type = t
                  /\ \E m \in DOMAIN records' : records'[m] = errors'[t][j]
<1> DEFINE e == db[k]
           s == errors[t]
           r == errors'[t]
           L == Len(s)
           M == Len(records)
<1>1. /\ e \in Record /\ s \in Seq(Record) /\ records \in Seq(Record)
      /\ r = IF e.type = t /\ e.err THEN Append(s, e) ELSE s
  BY ErrorsAppended
<1>2. /\ records' = Append(records, e) /\ M \in Nat /\ DOMAIN records = 1 .. M
      /\ DOMAIN records' = 1 .. M + 1 /\ records'[M + 1] = e
      /\ \A m \in 1 .. M : records'[m] = records[m]
  BY <1>1 DEF Reads
<1>3. /\ Ordered(s)
      /\ \A j \in DOMAIN s : /\ s[j].err /\ s[j].type = t
                             /\ \E m \in DOMAIN records : records[m] = s[j]
  BY DEF Separated
<1>4. \A m \in DOMAIN records : records[m].ts <= e.ts
  BY DEF InOrder
<1>5. \A m \in DOMAIN records : m \in DOMAIN records' /\ records'[m] = records[m]
  BY <1>2
<1>6. M + 1 \in DOMAIN records'
  BY <1>2
<1>7. CASE ~ (e.type = t /\ e.err)
  <2>1. r = s
    BY <1>1, <1>7
  <2> HIDE DEF r, s, e
  <2> QED BY <2>1, <1>3, <1>5 DEF r
<1>8. CASE e.type = t /\ e.err
  <2>1. r = Append(s, e)
    BY <1>1, <1>8
  <2>2. /\ L \in Nat /\ DOMAIN s = 1 .. L /\ DOMAIN r = 1 .. L + 1 /\ r[L + 1] = e
        /\ \A j \in 1 .. L : r[j] = s[j]
    BY <1>1, <2>1
  <2> HIDE DEF r, s, e, L, M
  <2>3. \A j \in 1 .. L + 1 : j \in 1 .. L \/ j = L + 1
    BY <2>2
  <2>4. \A j \in 1 .. L : s[j].ts <= e.ts
    BY <1>3, <1>4, <2>2
  <2>5. \A j, m \in 1 .. L + 1 : j < m => r[j].ts <= r[m].ts
    <3> SUFFICES ASSUME NEW j \in 1 .. L + 1, NEW m \in 1 .. L + 1, j < m
                 PROVE  r[j].ts <= r[m].ts
      OBVIOUS
    <3>1. j \in 1 .. L /\ (m \in 1 .. L \/ m = L + 1)
      BY <2>2
    <3> QED BY <3>1, <1>3, <2>2, <2>4 DEF Ordered
  <2>6. Ordered(r)
    BY <2>2, <2>5 DEF Ordered
  <2>7. ASSUME NEW j \in DOMAIN r
        PROVE  r[j].err /\ r[j].type = t /\ \E m \in DOMAIN records' : records'[m] = r[j]
    <3>1. CASE j = L + 1
      BY <3>1, <1>2, <1>6, <1>8, <2>2
    <3>2. CASE j \in 1 .. L
      BY <3>2, <1>3, <1>5, <2>2
    <3> QED BY <3>1, <3>2, <2>2, <2>3
  <2> QED BY <2>6, <2>7 DEF r
<1> QED BY <1>7, <1>8

LEMMA ErrorsCounted ==
    ASSUME TypeOK, Separated, NEW k \in unread, Reads(k), NEW t \in Types,
           NEW V \in SUBSET Record
    PROVE  Cardinality(InSet(errors'[t], V)) = Cardinality(InSet(records', Failed(V, t)))
<1> DEFINE e == db[k]
           s == errors[t]
<1>1. /\ e \in Record /\ s \in Seq(Record) /\ records \in Seq(Record)
      /\ errors'[t] = IF e.type = t /\ e.err THEN Append(s, e) ELSE s
      /\ records' = Append(records, e)
  BY ErrorsAppended DEF Reads
<1>2. Cardinality(InSet(s, V)) = Cardinality(InSet(records, Failed(V, t)))
  BY DEF Separated
<1>3. e \in Failed(V, t) <=> e \in V /\ e.err /\ e.type = t
  BY DEF Failed
<1> HIDE DEF e, s
<1>4. Cardinality(InSet(Append(records, e), Failed(V, t)))
        = IF e \in Failed(V, t) THEN Cardinality(InSet(records, Failed(V, t))) + 1
          ELSE Cardinality(InSet(records, Failed(V, t)))
  BY <1>1, InSetAppend
<1>5. Cardinality(InSet(Append(s, e), V))
        = IF e \in V THEN Cardinality(InSet(s, V)) + 1 ELSE Cardinality(InSet(s, V))
  BY <1>1, InSetAppend
<1> QED BY <1>1, <1>2, <1>3, <1>4, <1>5

LEMMA ErrorsInAll ==
    ASSUME TypeOK, Separated, NEW k \in unread, Reads(k)
    PROVE  Cardinality(InSet(records', {r \in Record : r.err}))
               = Len(errors'["metric"]) + Len(errors'["data"])
<1> DEFINE e == db[k]
           V == {r \in Record : r.err}
<1>1. /\ e \in Record /\ records \in Seq(Record) /\ records' = Append(records, e)
  BY ErrorsAppended DEF Reads, Types
<1>2. \A t \in Types : /\ errors[t] \in Seq(Record)
                       /\ errors'[t] = IF e.type = t /\ e.err THEN Append(errors[t], e) ELSE errors[t]
  BY ErrorsAppended
<1>3. Cardinality(InSet(records, V)) = Len(errors["metric"]) + Len(errors["data"])
  BY DEF Separated
<1>4. e \in V <=> e.err
  BY <1>1
<1>5. e.type \in {"metric", "data"} /\ e.err \in BOOLEAN
  BY <1>1, RecordTyped
<1> HIDE DEF e, V
<1>6. Cardinality(InSet(records', V))
        = IF e.err THEN Cardinality(InSet(records, V)) + 1 ELSE Cardinality(InSet(records, V))
  BY <1>1, <1>4, InSetAppend
<1>7. ASSUME NEW t \in Types
      PROVE  /\ Len(errors[t]) \in Nat
             /\ Len(errors'[t]) = IF e.type = t /\ e.err THEN Len(errors[t]) + 1
                                  ELSE Len(errors[t])
  <2> DEFINE s == errors[t]
  <2>1. s \in Seq(Record) /\ errors'[t] = IF e.type = t /\ e.err THEN Append(s, e) ELSE s
    BY <1>2
  <2> HIDE DEF s
  <2>2. Len(Append(s, e)) = Len(s) + 1 /\ Len(s) \in Nat
    BY <2>1, <1>1
  <2>3. /\ Len(s) \in Nat
        /\ Len(errors'[t]) = IF e.type = t /\ e.err THEN Len(s) + 1 ELSE Len(s)
    BY <2>1, <2>2
  <2> QED BY <2>3 DEF s
<1> DEFINE x == Len(errors["metric"])
           y == Len(errors["data"])
           z == Cardinality(InSet(records, V))
<1>8. /\ x \in Nat /\ y \in Nat /\ z = x + y
      /\ Len(errors'["metric"]) = IF e.type = "metric" /\ e.err THEN x + 1 ELSE x
      /\ Len(errors'["data"]) = IF e.type = "data" /\ e.err THEN y + 1 ELSE y
      /\ Cardinality(InSet(records', V)) = IF e.err THEN z + 1 ELSE z
  BY <1>3, <1>6, <1>7 DEF Types
<1> HIDE DEF x, y, z
<1>9. CASE ~ e.err
  BY <1>8, <1>9 DEF V
<1>10. CASE e.err /\ e.type = "metric"
  <2>1. e.type # "data"
    BY <1>10
  <2> QED BY <1>8, <1>10, <2>1 DEF V
<1>11. CASE e.err /\ e.type = "data"
  <2>1. e.type # "metric"
    BY <1>11
  <2> QED BY <1>8, <1>11, <2>1 DEF V
<1> QED BY <1>5, <1>9, <1>10, <1>11

ReadInv == InOrder /\ Separated

LEMMA ReadStep == TypeOK /\ ReadInv /\ [Next]_vars => ReadInv'
<1> SUFFICES ASSUME TypeOK, ReadInv, [Next]_vars PROVE ReadInv'
  OBVIOUS
<1>1. CASE UNCHANGED input
  BY <1>1 DEF input, ReadInv, InOrder, Separated
<1>2. ASSUME NEW k \in unread, Reads(k) PROVE ReadInv'
  <2>1. InOrder'
    BY <1>2, OrderStep DEF ReadInv
  <2>2. Separated'
    BY <1>2, ErrorsOrdered, ErrorsCounted, ErrorsInAll DEF ReadInv, Separated
  <2> QED BY <2>1, <2>2 DEF ReadInv
<1> QED BY <1>1, <1>2, InputStep

LEMMA ReadCorrect == Spec => []ReadInv
<1>1. Init => ReadInv
  <2> SUFFICES ASSUME Init PROVE ReadInv
    OBVIOUS
  <2>1. DOMAIN records = {} /\ \A t \in Types : DOMAIN errors[t] = {} /\ Len(errors[t]) = 0
    BY DEF Init
  <2>2. \A V : InSet(records, V) = {} /\ \A t \in Types : InSet(errors[t], V) = {}
    BY <2>1 DEF InSet
  <2>3. Cardinality({}) = 0
    BY FS_EmptySet
  <2>4. InOrder
    BY <2>1 DEF InOrder, Ordered
  <2>5. \A t \in Types : \A V \in SUBSET Record :
            Cardinality(InSet(errors[t], V)) = Cardinality(InSet(records, Failed(V, t)))
    BY <2>2
  <2>6. Cardinality(InSet(records, {r \in Record : r.err}))
            = Len(errors["metric"]) + Len(errors["data"])
    <3>1. InSet(records, {r \in Record : r.err}) = {}
      BY <2>2
    <3>2. Len(errors["metric"]) = 0 /\ Len(errors["data"]) = 0
      BY <2>1 DEF Types
    <3>3. Cardinality(InSet(records, {r \in Record : r.err})) = 0
      BY <3>1, <2>3
    <3>4. Len(errors["metric"]) + Len(errors["data"]) = 0
      BY <3>2
    <3> QED BY <3>3, <3>4
  <2>7. \A t \in Types : Ordered(errors[t])
    BY <2>1 DEF Ordered
  <2>8. Separated
    BY <2>1, <2>5, <2>6, <2>7 DEF Separated
  <2> QED BY <2>4, <2>8 DEF ReadInv
<1> QED BY <1>1, TypesAndHours, ReadStep, PTL DEF Spec

(***************************************************************************)
(* 8. The errors that are printed.                                         *)
(***************************************************************************)
Hidden == IF Len(allErrors) > MaxShown THEN Len(allErrors) - MaxShown ELSE 0

ShownInv ==
    /\ pc = "read" => more = 0 /\ shown = <<>>
    /\ pc \in {"buckets", "hours", "done"} =>
           more = Hidden /\ shown = SubSeq(allErrors, more + 1, Len(allErrors))

\* allErrors, the errors of the metrics before those of the data.
LEMMA AllErrors ==
    ASSUME TypeOK
    PROVE  LET M == Len(errors["metric"])  D == Len(errors["data"]) IN
           /\ M \in Nat /\ D \in Nat
           /\ errors["metric"] \in Seq(Record) /\ errors["data"] \in Seq(Record)
           /\ allErrors \in Seq(Record) /\ Len(allErrors) = M + D
           /\ DOMAIN errors["metric"] = 1 .. M /\ DOMAIN errors["data"] = 1 .. D
           /\ DOMAIN allErrors = 1 .. M + D
           /\ \A k \in 1 .. M : allErrors[k] = errors["metric"][k]
           /\ \A k \in 1 .. D : allErrors[k + M] = errors["data"][k]
           /\ \A k \in 1 .. M + D : k \in 1 .. M \/ k - M \in 1 .. D
<1> DEFINE p == errors["metric"]
           q == errors["data"]
           M == Len(p)
           D == Len(q)
<1>1. p \in Seq(Record) /\ q \in Seq(Record)
  BY DEF TypeOK, Types
<1>2. allErrors = p \o q
  BY DEF allErrors
<1> HIDE DEF p, q
<1>3. M \in Nat /\ D \in Nat /\ DOMAIN p = 1 .. M /\ DOMAIN q = 1 .. D
  BY <1>1
<1>4. /\ p \o q \in Seq(Record) /\ Len(p \o q) = M + D /\ DOMAIN (p \o q) = 1 .. M + D
      /\ \A k \in 1 .. M : (p \o q)[k] = p[k]
  BY <1>1
<1>5. \A k \in 1 .. D : (p \o q)[k + M] = q[k]
  <2> SUFFICES ASSUME NEW k \in 1 .. D PROVE (p \o q)[k + M] = q[k]
    OBVIOUS
  <2>1. k + M \in 1 .. M + D /\ ~ (k + M <= M) /\ (k + M) - M = k
    BY <1>3
  <2>2. \A j \in 1 .. M + D : (p \o q)[j] = IF j <= M THEN p[j] ELSE q[j - M]
    BY <1>1
  <2> QED BY <2>1, <2>2
<1>6. \A k \in 1 .. M + D : k \in 1 .. M \/ k - M \in 1 .. D
  BY <1>3
<1> HIDE DEF M, D
<1>7. /\ M \in Nat /\ D \in Nat /\ p \in Seq(Record) /\ q \in Seq(Record)
      /\ allErrors \in Seq(Record) /\ Len(allErrors) = M + D
      /\ DOMAIN p = 1 .. M /\ DOMAIN q = 1 .. D /\ DOMAIN allErrors = 1 .. M + D
      /\ \A k \in 1 .. M : allErrors[k] = p[k]
      /\ \A k \in 1 .. D : allErrors[k + M] = q[k]
      /\ \A k \in 1 .. M + D : k \in 1 .. M \/ k - M \in 1 .. D
  BY <1>1, <1>2, <1>3, <1>4, <1>5, <1>6
<1> QED BY <1>7 DEF p, q, M, D

LEMMA NothingIn == ASSUME NEW S, NEW s \in Seq(S), DOMAIN s = {} PROVE Len(s) = 0
  OBVIOUS

LEMMA ShownStep == TypeOK /\ ReadInv /\ ShownInv /\ [Next]_vars => ShownInv'
<1> SUFFICES ASSUME TypeOK, ReadInv, ShownInv, [Next]_vars PROVE ShownInv'
  OBVIOUS
<1>1. ASSUME UNCHANGED <<input, shown, more>>,
             pc' # "read" \/ pc = "read",
             pc' \in {"buckets", "hours", "done"} => pc \in {"buckets", "hours", "done"}
      PROVE  ShownInv'
  <2>1. allErrors' = allErrors /\ more' = more /\ shown' = shown
    BY <1>1 DEF input, allErrors
  <2> QED BY <1>1, <2>1 DEF ShownInv, Hidden
<1>2. CASE ReadRecord
  BY <1>2 DEF ReadRecord, report, ShownInv
<1>3. CASE RecordsRead
  <2>1. CASE pc' = "done" /\ records = <<>>
    <3>1. /\ pc = "read" /\ UNCHANGED input /\ UNCHANGED report
      BY <1>3 DEF RecordsRead
    <3>2. \A t \in Types : DOMAIN errors[t] = {}
      <4>1. DOMAIN records = {}
        BY <2>1
      <4> QED BY <4>1 DEF ReadInv, Separated
    <3>3. Len(errors["metric"]) = 0 /\ Len(errors["data"]) = 0
      <4>1. \A t \in Types : errors[t] \in Seq(Record) /\ DOMAIN errors[t] = {}
        BY <3>2 DEF TypeOK
      <4>2. \A t \in Types : Len(errors[t]) = 0
        BY <4>1, NothingIn
      <4> QED BY <4>2 DEF Types
    <3>4. allErrors \in Seq(Record) /\ Len(allErrors) = 0
      <4> DEFINE M == Len(errors["metric"])
                 D == Len(errors["data"])
      <4>1. allErrors \in Seq(Record) /\ Len(allErrors) = M + D
        BY AllErrors
      <4>2. M = 0 /\ D = 0
        BY <3>3
      <4> HIDE DEF M, D
      <4> QED BY <4>1, <4>2
    <3>5. Hidden = 0
      BY <3>4, ConstantsAssumption DEF Hidden
    <3>6. SubSeq(allErrors, 0 + 1, Len(allErrors)) = <<>>
      BY <3>4
    <3>7. /\ more' = 0 /\ shown' = <<>> /\ allErrors' = allErrors /\ Hidden' = Hidden
      BY <3>1 DEF ShownInv, report, input, allErrors, Hidden
    <3> QED BY <2>1, <3>4, <3>5, <3>6, <3>7 DEF ShownInv
  <2>2. CASE Summarise("metric", "metricDone")
    BY <1>1, <1>3, <2>2 DEF RecordsRead, Summarise, report
  <2> QED BY <1>3, <2>1, <2>2 DEF RecordsRead
<1>4. CASE MetricDone
  BY <1>1, <1>4 DEF MetricDone, Summarise, report
<1>5. CASE SortTurn
  BY <1>1, <1>5 DEF SortTurn, report
<1>6. CASE PrintStats
  BY <1>1, <1>6 DEF PrintStats
<1>7. CASE ShowErrors
  <2>1. /\ more' = Hidden /\ shown' = SubSeq(allErrors, more' + 1, Len(allErrors))
        /\ pc' # "read" /\ UNCHANGED input
    BY <1>7 DEF ShowErrors, Hidden
  <2>2. allErrors' = allErrors /\ Hidden' = Hidden
    BY <2>1 DEF input, allErrors, Hidden
  <2> QED BY <2>1, <2>2 DEF ShownInv
<1>8. CASE AddToBucket
  BY <1>1, <1>8 DEF AddToBucket, report
<1>9. CASE SortHours
  BY <1>1, <1>9 DEF SortHours, report
<1>10. CASE PrintRows
  BY <1>1, <1>10 DEF PrintRows, report
<1>11. CASE UNCHANGED vars
  BY <1>1, <1>11 DEF vars, report
<1> QED BY <1>2, <1>3, <1>4, <1>5, <1>6, <1>7, <1>8, <1>9, <1>10, <1>11 DEF Next

\* Of one type an error that is further on is not older.
LEMMA AllOrdered ==
    ASSUME TypeOK, ReadInv, NEW j \in DOMAIN allErrors, NEW p \in DOMAIN allErrors, j < p,
           allErrors[j].type = allErrors[p].type
    PROVE  allErrors[j].ts <= allErrors[p].ts
<1> DEFINE M == Len(errors["metric"])
           D == Len(errors["data"])
           em == errors["metric"]
           ed == errors["data"]
<1>1. /\ M \in Nat /\ D \in Nat /\ DOMAIN allErrors = 1 .. M + D
      /\ DOMAIN em = 1 .. M /\ DOMAIN ed = 1 .. D
      /\ \A k \in 1 .. M : allErrors[k] = em[k]
      /\ \A k \in 1 .. D : allErrors[k + M] = ed[k]
      /\ \A k \in 1 .. M + D : k \in 1 .. M \/ k - M \in 1 .. D
  BY AllErrors
<1>2. /\ \A k \in DOMAIN em : em[k].type = "metric"
      /\ \A k \in DOMAIN ed : ed[k].type = "data"
      /\ \A k, m \in DOMAIN em : k < m => em[k].ts <= em[m].ts
      /\ \A k, m \in DOMAIN ed : k < m => ed[k].ts <= ed[m].ts
  BY DEF ReadInv, Separated, Ordered, Types
<1> HIDE DEF M, D, em, ed
<1>3. j \in Nat /\ p \in Nat
  BY <1>1
<1>4. ASSUME NEW k \in 1 .. M + D, k - M \in 1 .. D
      PROVE  allErrors[k] = ed[k - M] /\ allErrors[k].type = "data"
  <2>1. (k - M) + M = k
    BY <1>1, <1>4
  <2>2. allErrors[k] = ed[k - M]
    BY <2>1, <1>1, <1>4
  <2> QED BY <2>2, <1>1, <1>2, <1>4
<1>5. \A k \in 1 .. M : allErrors[k] = em[k] /\ allErrors[k].type = "metric"
  BY <1>1, <1>2
<1>6. CASE j \in 1 .. M /\ p \in 1 .. M
  BY <1>1, <1>2, <1>5, <1>6
<1>7. CASE j - M \in 1 .. D /\ p - M \in 1 .. D
  <2>1. j - M < p - M
    BY <1>1, <1>3
  <2>2. allErrors[j] = ed[j - M] /\ allErrors[p] = ed[p - M]
    BY <1>1, <1>4, <1>7
  <2> QED BY <2>1, <2>2, <1>1, <1>2, <1>7
<1>8. CASE j \in 1 .. M /\ p - M \in 1 .. D
  <2>1. allErrors[j].type = "metric" /\ allErrors[p].type = "data"
    BY <1>1, <1>4, <1>5, <1>8
  <2> QED BY <2>1
<1>9. CASE j - M \in 1 .. D /\ p \in 1 .. M
  <2>1. allErrors[j].type = "data" /\ allErrors[p].type = "metric"
    BY <1>1, <1>4, <1>5, <1>9
  <2> QED BY <2>1
<1> QED BY <1>1, <1>6, <1>7, <1>8, <1>9

\* All errors together have those of a type.
LEMMA AllCounted ==
    ASSUME TypeOK, ReadInv, NEW t \in Types, NEW V \in SUBSET Record,
           \A r \in V : r.type = t
    PROVE  Cardinality(InSet(allErrors, V)) = Cardinality(InSet(errors[t], V))
<1> DEFINE M == Len(errors["metric"])
           D == Len(errors["data"])
           em == errors["metric"]
           ed == errors["data"]
<1>1. /\ M \in Nat /\ D \in Nat /\ DOMAIN allErrors = 1 .. M + D
      /\ em \in Seq(Record) /\ ed \in Seq(Record) /\ allErrors \in Seq(Record)
      /\ DOMAIN em = 1 .. M /\ DOMAIN ed = 1 .. D
      /\ \A k \in 1 .. M : allErrors[k] = em[k]
      /\ \A k \in 1 .. D : allErrors[k + M] = ed[k]
      /\ \A k \in 1 .. M + D : k \in 1 .. M \/ k - M \in 1 .. D
  BY AllErrors
<1>2. /\ \A k \in DOMAIN em : em[k].type = "metric"
      /\ \A k \in DOMAIN ed : ed[k].type = "data"
  BY DEF ReadInv, Separated, Types
<1>3. CASE t = "metric"
  <2> HIDE DEF M, D, ed, em
  <2>1. \A k \in DOMAIN em : k + 0 \in DOMAIN allErrors /\ allErrors[k + 0] = em[k]
    BY <1>1
  <2>2. \A k \in DOMAIN allErrors : allErrors[k] \in V => k - 0 \in DOMAIN em
    <3> SUFFICES ASSUME NEW k \in 1 .. M + D, allErrors[k] \in V, k \notin 1 .. M PROVE FALSE
      BY <1>1
    <3>1. PICK j \in 1 .. D : j + M = k
      <4>1. k - M \in 1 .. D /\ (k - M) + M = k
        BY <1>1
      <4> QED BY <4>1
    <3>2. allErrors[k] = ed[j] /\ ed[j].type = "data"
      BY <3>1, <1>1, <1>2
    <3> QED BY <3>2, <1>3
  <2>4. em \in Seq(Record) /\ allErrors \in Seq(Record) /\ 0 \in Nat
    BY <1>1
  <2>3. Cardinality(InSet(em, V)) = Cardinality(InSet(allErrors, V))
    BY ONLY <2>1, <2>2, <2>4, InSetShifted
  <2> QED BY <2>3, <1>3 DEF em
<1>4. CASE t = "data"
  <2> HIDE DEF M, D, ed, em
  <2>1. \A k \in DOMAIN ed : k + M \in DOMAIN allErrors /\ allErrors[k + M] = ed[k]
    BY <1>1
  <2>2. \A k \in DOMAIN allErrors : allErrors[k] \in V => k - M \in DOMAIN ed
    <3> SUFFICES ASSUME NEW k \in 1 .. M + D, allErrors[k] \in V, k \in 1 .. M PROVE FALSE
      BY <1>1
    <3>2. allErrors[k].type = "metric"
      BY <1>1, <1>2
    <3> QED BY <3>2, <1>4
  <2>4. ed \in Seq(Record) /\ allErrors \in Seq(Record) /\ M \in Nat
    BY <1>1
  <2>3. Cardinality(InSet(ed, V)) = Cardinality(InSet(allErrors, V))
    BY ONLY <2>1, <2>2, <2>4, InSetShifted
  <2> QED BY <2>3, <1>4 DEF ed
<1> QED BY <1>3, <1>4 DEF Types

LEMMA NoneHidden ==
    ASSUME TypeOK, ReadInv, ShownInv, pc \in {"buckets", "hours", "done"},
           NEW k \in DOMAIN shown
    PROVE  LET newer(r) == r.err /\ r.type = shown[k].type /\ r.ts > shown[k].ts
           IN  Count(shown, newer) = Count(records, newer)
<1> DEFINE e == shown[k]
           V == {r \in Record : r.err /\ r.type = e.type /\ r.ts > e.ts}
           L == Len(allErrors)
<1>1. /\ shown \in Seq(Record) /\ records \in Seq(Record) /\ allErrors \in Seq(Record)
      /\ e \in Record /\ L \in Nat /\ DOMAIN allErrors = 1 .. L
  <2>1. allErrors \in Seq(Record)
    BY AllErrors
  <2> QED BY <2>1 DEF TypeOK
<1>2. e.type \in Types /\ e.ts \in Nat /\ \A r \in Record : r.ts \in Nat
  BY <1>1, RecordTyped
<1>3. more \in Nat /\ more <= L /\ shown = SubSeq(allErrors, more + 1, L)
  <2>1. more = Hidden /\ shown = SubSeq(allErrors, more + 1, L)
    BY DEF ShownInv
  <2>2. Hidden = (IF L > MaxShown THEN L - MaxShown ELSE 0) /\ MaxShown \in Nat
    BY ConstantsAssumption DEF Hidden
  <2> HIDE DEF L
  <2>3. Hidden \in Nat /\ Hidden <= L
    BY <2>2, <1>1
  <2> QED BY <2>1, <2>3
<1> HIDE DEF L
<1>4. /\ DOMAIN shown = 1 .. L - more
      /\ \A j \in 1 .. L - more : j + more \in 1 .. L /\ shown[j] = allErrors[j + more]
  <2>1. Len(shown) = L - more
    BY <1>1, <1>3
  <2>2. \A j \in 1 .. L - more : j + more \in 1 .. L /\ shown[j] = allErrors[more + 1 + j - 1]
    BY <1>1, <1>3
  <2>3. \A j \in 1 .. L - more : more + 1 + j - 1 = j + more
    BY <1>1, <1>3
  <2> QED BY <1>1, <2>1, <2>2, <2>3
<1>5. k + more \in DOMAIN allErrors /\ e = allErrors[k + more] /\ k \in Nat /\ k >= 1
  BY <1>1, <1>3, <1>4
<1> HIDE DEF e
<1>6. \A j \in DOMAIN allErrors : allErrors[j] \in V => j - more \in DOMAIN shown
  <2> SUFFICES ASSUME NEW j \in 1 .. L, allErrors[j] \in V, ~ (j > more) PROVE FALSE
    BY <1>1, <1>3, <1>4
  <2>1. j < k + more
    BY <1>3, <1>5
  <2>2. allErrors[j].type = allErrors[k + more].type /\ allErrors[j].ts > e.ts
        /\ allErrors[j].ts \in Nat
    BY <1>2, <1>5
  <2>3. allErrors[j].ts <= e.ts
    BY <2>1, <2>2, <1>1, <1>5, AllOrdered
  <2> QED BY <2>2, <2>3, <1>2
<1>7. Cardinality(InSet(shown, V)) = Cardinality(InSet(allErrors, V))
  <2>1. \A j \in DOMAIN shown : j + more \in DOMAIN allErrors /\ allErrors[j + more] = shown[j]
    BY <1>1, <1>4
  <2>2. shown \in Seq(Record) /\ allErrors \in Seq(Record) /\ more \in Nat
    BY <1>1, <1>3
  <2> HIDE DEF V
  <2> QED BY ONLY <2>1, <2>2, <1>6, InSetShifted
<1>8. Cardinality(InSet(allErrors, V)) = Cardinality(InSet(errors[e.type], V))
  <2>1. V \in SUBSET Record /\ \A r \in V : r.type = e.type
    OBVIOUS
  <2> HIDE DEF V
  <2> QED BY <2>1, <1>2, AllCounted
<1>9. Cardinality(InSet(errors[e.type], V)) = Cardinality(InSet(records, V))
  <2>1. V \in SUBSET Record /\ Failed(V, e.type) = V
    BY DEF Failed
  <2> HIDE DEF V
  <2> QED BY <2>1, <1>2 DEF ReadInv, Separated
<1>10. ASSUME NEW s \in Seq(Record)
       PROVE  InSet(s, V) = {j \in DOMAIN s : s[j].err /\ s[j].type = e.type /\ s[j].ts > e.ts}
  BY <1>10 DEF InSet
<1>11. InSet(shown, V) = {j \in DOMAIN shown : /\ shown[j].err /\ shown[j].type = e.type
                                              /\ shown[j].ts > e.ts}
  BY <1>1, <1>10
<1>12. InSet(records, V) = {j \in DOMAIN records : /\ records[j].err /\ records[j].type = e.type
                                                  /\ records[j].ts > e.ts}
  BY <1>1, <1>10
<1> HIDE DEF V
<1>13. Cardinality({j \in DOMAIN shown : /\ shown[j].err /\ shown[j].type = e.type
                                        /\ shown[j].ts > e.ts})
       = Cardinality({j \in DOMAIN records : /\ records[j].err /\ records[j].type = e.type
                                            /\ records[j].ts > e.ts})
  BY <1>7, <1>8, <1>9, <1>11, <1>12
<1> QED BY <1>13 DEF Count, e

\* No error is lost between those that are printed and those that are only
\* counted, and none that is printed hides a newer one of its type.
THEOREM ErrorsAccountedCorrect == Spec => []ErrorsAccounted
<1>1. Init => ShownInv
  BY DEF Init, ShownInv
<1>2. TypeOK /\ ReadInv /\ ShownInv => ErrorsAccounted
  <2> SUFFICES ASSUME TypeOK, ReadInv, ShownInv, pc \in {"buckets", "hours", "done"}
               PROVE  /\ Len(shown) <= MaxShown
                      /\ more + Len(shown) = Count(records, LAMBDA r : r.err)
                      /\ \A k \in DOMAIN shown :
                             LET newer(r) == r.err /\ r.type = shown[k].type /\ r.ts > shown[k].ts
                             IN  Count(shown, newer) = Count(records, newer)
    BY DEF ErrorsAccounted
  <2> DEFINE L == Len(allErrors)
             M == Len(errors["metric"])
             D == Len(errors["data"])
  <2>1. L \in Nat /\ allErrors \in Seq(Record) /\ L = M + D
    <3>1. M \in Nat /\ D \in Nat /\ allErrors \in Seq(Record) /\ L = M + D
      BY AllErrors
    <3> HIDE DEF L, M, D
    <3> QED BY <3>1
  <2>2. more = Hidden /\ shown = SubSeq(allErrors, more + 1, L)
    BY DEF ShownInv
  <2>8. Hidden = (IF L > MaxShown THEN L - MaxShown ELSE 0) /\ MaxShown \in Nat
    BY ConstantsAssumption DEF Hidden
  <2>9. Cardinality(InSet(records, {r \in Record : r.err})) = M + D
    BY DEF ReadInv, Separated
  <2> HIDE DEF L, M, D
  <2>4. /\ more \in Nat /\ more <= L /\ L - more \in Nat
        /\ L - more <= MaxShown /\ more + (L - more) = L
    <3>1. L \in Nat /\ more = Hidden
      BY <2>1, <2>2
    <3> QED BY ONLY <3>1, <2>8
  <2>3. more \in Nat /\ Len(shown) = L - more
    BY <2>1, <2>2, <2>4 DEF L
  <2>5. Cardinality(InSet(records, {r \in Record : r.err})) = L
    BY <2>1, <2>9
  <2>6. InSet(records, {r \in Record : r.err}) = {j \in DOMAIN records : records[j].err}
    BY DEF InSet, TypeOK
  <2>7. more + Len(shown) = Count(records, LAMBDA r : r.err)
    BY <2>3, <2>4, <2>5, <2>6 DEF Count
  <2> QED BY <2>3, <2>4, <2>7, NoneHidden
<1> QED BY <1>1, <1>2, TypesAndHours, ReadCorrect, ShownStep, PTL DEF Spec

(***************************************************************************)
(* 9. The breakdown.                                                       *)
(***************************************************************************)
Columns == {"metricCount", "metricSumMs", "dataCount", "dataSumMs", "errors"}

Cell(b, c) == CASE c = "metricCount" -> b.metricCount
                [] c = "metricSumMs" -> b.metricSumMs
                [] c = "dataCount"   -> b.dataCount
                [] c = "dataSumMs"   -> b.dataSumMs
                [] c = "errors"      -> b.errors

\* What a record adds to a column, and what those of s add.
Gain(c, r) == Cell(Counted(NoBucket, r), c)
Gains(c, s) == [k \in DOMAIN s |-> Gain(c, s[k])]

\* The column of the rows that are printed.
Rows(c) == [k \in DOMAIN a |-> Cell(buckets[a[k]], c)]

LEMMA Cells == ASSUME NEW b
               PROVE  /\ Cell(b, "metricCount") = b.metricCount
                      /\ Cell(b, "metricSumMs") = b.metricSumMs
                      /\ Cell(b, "dataCount") = b.dataCount
                      /\ Cell(b, "dataSumMs") = b.dataSumMs
                      /\ Cell(b, "errors") = b.errors
  BY DEF Cell

LEMMA GainIs == ASSUME NEW r \in Record
                PROVE  /\ Gain("metricCount", r) = IF r.type = "metric" THEN 1 ELSE 0
                       /\ Gain("metricSumMs", r) = IF r.type = "metric" THEN r.ms ELSE 0
                       /\ Gain("dataCount", r) = IF r.type = "metric" THEN 0 ELSE 1
                       /\ Gain("dataSumMs", r) = IF r.type = "metric" THEN 0 ELSE r.ms
                       /\ Gain("errors", r) = IF r.err THEN 1 ELSE 0
<1> DEFINE b == Counted(NoBucket, r)
<1>1. /\ NoBucket \in Bucket /\ NoBucket.metricCount = 0 /\ NoBucket.metricSumMs = 0
      /\ NoBucket.dataCount = 0 /\ NoBucket.dataSumMs = 0 /\ NoBucket.errors = 0
  BY DEF NoBucket, Bucket
<1>2. r.ms \in Nat /\ 0 + r.ms = r.ms
  BY RecordTyped
<1>3. CASE r.type = "metric"
  <2>1. b = [metricCount |-> 1, metricSumMs |-> r.ms, dataCount |-> 0, dataSumMs |-> 0,
             errors |-> IF r.err THEN 1 ELSE 0]
    BY <1>1, <1>2, <1>3, CountedMetric
  <2> HIDE DEF b
  <2>2. /\ b.metricCount = 1 /\ b.metricSumMs = r.ms /\ b.dataCount = 0 /\ b.dataSumMs = 0
        /\ b.errors = IF r.err THEN 1 ELSE 0
    BY <2>1
  <2> QED BY <2>2, <1>3, Cells DEF Gain, b
<1>4. CASE r.type # "metric"
  <2>1. b = [metricCount |-> 0, metricSumMs |-> 0, dataCount |-> 1, dataSumMs |-> r.ms,
             errors |-> IF r.err THEN 1 ELSE 0]
    BY <1>1, <1>2, <1>4, CountedData
  <2> HIDE DEF b
  <2>2. /\ b.metricCount = 0 /\ b.metricSumMs = 0 /\ b.dataCount = 1 /\ b.dataSumMs = r.ms
        /\ b.errors = IF r.err THEN 1 ELSE 0
    BY <2>1
  <2> QED BY <2>2, <1>4, Cells DEF Gain, b
<1> QED BY <1>3, <1>4

LEMMA GainTyped == ASSUME NEW r \in Record, NEW c \in Columns PROVE Gain(c, r) \in Nat
<1>1. r.ms \in Nat
  BY RecordTyped
<1> QED BY <1>1, GainIs DEF Columns

LEMMA CellTyped == ASSUME NEW b \in Bucket, NEW c \in Columns PROVE Cell(b, c) \in Nat
  BY Cells DEF Bucket, Columns

\* A record adds the same to every bucket.
LEMMA CellAdds == ASSUME NEW b \in Bucket, NEW r \in Record, NEW c \in Columns
                  PROVE  Cell(Counted(b, r), c) = Cell(b, c) + Gain(c, r)
<1> DEFINE d == Counted(b, r)
<1>1. /\ b.metricCount \in Nat /\ b.metricSumMs \in Nat /\ b.dataCount \in Nat
      /\ b.dataSumMs \in Nat /\ b.errors \in Nat
  BY DEF Bucket
<1>2. CASE r.type = "metric"
  <2>1. d = [metricCount |-> b.metricCount + 1, metricSumMs |-> b.metricSumMs + r.ms,
             dataCount |-> b.dataCount, dataSumMs |-> b.dataSumMs,
             errors |-> IF r.err THEN b.errors + 1 ELSE b.errors]
    BY <1>2, CountedMetric
  <2> HIDE DEF d
  <2>2. /\ d.metricCount = b.metricCount + Gain("metricCount", r)
        /\ d.metricSumMs = b.metricSumMs + Gain("metricSumMs", r)
        /\ d.dataCount = b.dataCount + Gain("dataCount", r)
        /\ d.dataSumMs = b.dataSumMs + Gain("dataSumMs", r)
        /\ d.errors = b.errors + Gain("errors", r)
    BY <2>1, <1>1, <1>2, GainIs
  <2> QED BY <2>2, Cells DEF d, Columns
<1>3. CASE r.type # "metric"
  <2>1. d = [metricCount |-> b.metricCount, metricSumMs |-> b.metricSumMs,
             dataCount |-> b.dataCount + 1, dataSumMs |-> b.dataSumMs + r.ms,
             errors |-> IF r.err THEN b.errors + 1 ELSE b.errors]
    BY <1>3, CountedData
  <2> HIDE DEF d
  <2>2. /\ d.metricCount = b.metricCount + Gain("metricCount", r)
        /\ d.metricSumMs = b.metricSumMs + Gain("metricSumMs", r)
        /\ d.dataCount = b.dataCount + Gain("dataCount", r)
        /\ d.dataSumMs = b.dataSumMs + Gain("dataSumMs", r)
        /\ d.errors = b.errors + Gain("errors", r)
    BY <2>1, <1>1, <1>3, GainIs
  <2> QED BY <2>2, Cells DEF d, Columns
<1> QED BY <1>2, <1>3

LEMMA GainsTyped == ASSUME NEW s \in Seq(Record), NEW c \in Columns
                    PROVE  Gains(c, s) \in Seq(Nat) /\ Len(Gains(c, s)) = Len(s)
<1> DEFINE L == Len(s)
<1>1. L \in Nat /\ DOMAIN s = 1 .. L /\ \A k \in 1 .. L : s[k] \in Record
  OBVIOUS
<1> HIDE DEF L
<1>2. \A k \in 1 .. L : Gain(c, s[k]) \in Nat
  BY <1>1, GainTyped
<1>3. Gains(c, s) = [k \in 1 .. L |-> Gain(c, s[k])]
  BY <1>1 DEF Gains
<1>4. Gains(c, s) \in Seq(Nat) /\ Len(Gains(c, s)) = L
  BY <1>1, <1>2, <1>3
<1> QED BY <1>4 DEF L

LEMMA SameSeq == ASSUME NEW s \in Seq(Nat), NEW r \in Seq(Nat), Len(s) = Len(r),
                        \A k \in 1 .. Len(s) : s[k] = r[k]
                 PROVE  s = r
  OBVIOUS

LEMMA GainsAppend ==
    ASSUME NEW s \in Seq(Record), NEW r \in Record, NEW c \in Columns
    PROVE  Sum(Gains(c, Append(s, r))) = Sum(Gains(c, s)) + Gain(c, r)
<1> DEFINE L == Len(s)
           q == Append(s, r)
           x == Gains(c, q)
           y == Append(Gains(c, s), Gain(c, r))
<1>1. /\ L \in Nat /\ q \in Seq(Record) /\ Len(q) = L + 1 /\ DOMAIN q = 1 .. L + 1
      /\ DOMAIN s = 1 .. L /\ q[L + 1] = r /\ \A k \in 1 .. L : q[k] = s[k]
  OBVIOUS
<1>2. Gain(c, r) \in Nat
  BY GainTyped
<1>3. Gains(c, s) \in Seq(Nat) /\ Len(Gains(c, s)) = L
  BY GainsTyped
<1>4. x \in Seq(Nat) /\ Len(x) = L + 1
  BY <1>1, GainsTyped
<1>5. /\ y \in Seq(Nat) /\ Len(y) = L + 1 /\ y[L + 1] = Gain(c, r)
      /\ \A k \in 1 .. L : y[k] = Gains(c, s)[k]
  <2> HIDE DEF L
  <2> QED BY <1>1, <1>2, <1>3
<1>6. \A k \in 1 .. L : Gains(c, s)[k] = Gain(c, s[k])
  BY <1>1 DEF Gains
<1>7. \A k \in 1 .. L + 1 : x[k] = Gain(c, q[k])
  BY <1>1 DEF Gains
<1> HIDE DEF L, q, x, y
<1>8. \A k \in 1 .. L + 1 : x[k] = y[k]
  <2> SUFFICES ASSUME NEW k \in 1 .. L + 1 PROVE x[k] = y[k]
    OBVIOUS
  <2>1. k \in 1 .. L \/ k = L + 1
    BY <1>1
  <2> QED BY <2>1, <1>1, <1>5, <1>6, <1>7
<1>9. x = y
  BY <1>4, <1>5, <1>8, SameSeq
<1>10. Sum(y) = Sum(Gains(c, s)) + Gain(c, r)
  BY <1>2, <1>3, SumAppend DEF y
<1> QED BY <1>9, <1>10 DEF x, q

\* Sorting what is in order changes nothing.
LEMMA InsertSorted ==
    ASSUME NEW s \in Seq(Nat), NEW k \in 2 .. Len(s),
           \A j, m \in DOMAIN s : j < m => s[j] < s[m]
    PROVE  Insert(s, k) = s
<1> DEFINE Place(j) == /\ j = 0 \/ s[j] <= s[k]
                       /\ \A m \in j + 1 .. k - 1 : s[m] > s[k]
           j == CHOOSE j \in 0 .. k - 1 : Place(j)
           L == Len(s)
<1>1. L \in Nat /\ DOMAIN s = 1 .. L /\ k \in 2 .. L /\ \A m \in 1 .. L : s[m] \in Nat
  OBVIOUS
<1>2. k - 1 \in 1 .. L /\ k - 1 < k /\ k \in 1 .. L /\ k - 1 \in 0 .. k - 1
  BY <1>1
<1>3. s[k - 1] < s[k] /\ s[k - 1] \in Nat /\ s[k] \in Nat
  BY <1>1, <1>2
<1>4. Place(k - 1)
  BY <1>1, <1>3
<1>5. j \in 0 .. k - 1 /\ Place(j)
  <2> HIDE DEF Place
  <2> QED BY <1>2, <1>4
<1>6. Insert(s, k) = [m \in DOMAIN s |-> IF m = j + 1 THEN s[k]
                                         ELSE IF m \in j + 2 .. k THEN s[m - 1] ELSE s[m]]
  BY DEF Insert
<1> HIDE DEF j, L
<1>7. j = k - 1
  <2> SUFFICES ASSUME j # k - 1 PROVE FALSE
    OBVIOUS
  <2>1. k - 1 \in j + 1 .. k - 1
    BY <1>1, <1>5
  <2> QED BY <2>1, <1>3, <1>5
<1>8. j + 1 = k /\ j + 2 .. k = {}
  BY <1>1, <1>7
<1>9. Insert(s, k) = [m \in DOMAIN s |-> s[m]]
  BY <1>6, <1>8
<1> QED BY <1>9

\* What the summaries print of a column.
Printed(c) == CASE c = "metricCount" -> Len(recs["metric"])
                [] c = "metricSumMs" -> Sum(Times("metric"))
                [] c = "dataCount"   -> Len(recs["data"])
                [] c = "dataSumMs"   -> Sum(Times("data"))
                [] c = "errors"      -> Len(errors["metric"]) + Len(errors["data"])

\* Every record that is kept is read once, and has its type and its part in
\* the sums.
SumsInv ==
    /\ Len(recs["metric"]) + Len(recs["data"]) = Len(records)
    /\ \A c \in Columns : Sum(Gains(c, records)) = Printed(c)

LEMMA PrintedIs == /\ Printed("metricCount") = Len(recs["metric"])
                   /\ Printed("metricSumMs") = Sum(Times("metric"))
                   /\ Printed("dataCount") = Len(recs["data"])
                   /\ Printed("dataSumMs") = Sum(Times("data"))
                   /\ Printed("errors") = Len(errors["metric"]) + Len(errors["data"])
  BY DEF Printed

LEMMA PrintedIsNext == /\ Printed("metricCount")' = Len(recs'["metric"])
                       /\ Printed("metricSumMs")' = Sum(Times("metric")')
                       /\ Printed("dataCount")' = Len(recs'["data"])
                       /\ Printed("dataSumMs")' = Sum(Times("data")')
                       /\ Printed("errors")' = Len(errors'["metric"]) + Len(errors'["data"])
  BY DEF Printed

\* A record is one more of its type, and its duration one more of them.
LEMMA TypeAppended ==
    ASSUME TypeOK, SortInv, NEW k \in unread, Reads(k), NEW t \in Types
    PROVE  /\ Len(recs[t]) \in Nat /\ Sum(Times(t)) \in Nat
           /\ Len(recs'[t]) = IF db[k].type = t THEN Len(recs[t]) + 1 ELSE Len(recs[t])
           /\ Sum(Times(t)') = IF db[k].type = t THEN Sum(Times(t)) + db[k].ms ELSE Sum(Times(t))
<1> DEFINE e == db[k]
           s == recs[t]
           L == Len(s)
<1>1. /\ e \in Record /\ s \in Seq(Record)
      /\ recs'[t] = IF e.type = t THEN Append(s, e) ELSE s
  BY ErrorsAppended
<1>2. e.ms \in Nat
  BY <1>1, RecordTyped
<1>3. /\ Times(t) \in Seq(Nat) /\ Len(Times(t)) = L /\ DOMAIN Times(t) = DOMAIN s
      /\ \A j \in DOMAIN s : Times(t)[j] = s[j].ms
  BY TimesTyped
<1>4. Times(t)' = [j \in DOMAIN recs'[t] |-> recs'[t][j].ms]
  BY DEF Times
<1> HIDE DEF e, s
<1>5. Sum(Times(t)) \in Nat /\ L \in Nat
  BY <1>1, <1>3, SumTyped
<1>6. CASE e.type # t
  <2>1. recs'[t] = recs[t]
    BY <1>1, <1>6 DEF s
  <2>2. Times(t)' = Times(t)
    BY <2>1 DEF Times
  <2> QED BY <1>5, <1>6, <2>1, <2>2 DEF e, s
<1>7. CASE e.type = t
  <2>1. recs'[t] = Append(s, e)
    BY <1>1, <1>7
  <2>2. /\ Len(Append(s, e)) = L + 1 /\ DOMAIN Append(s, e) = 1 .. L + 1
        /\ DOMAIN s = 1 .. L /\ Append(s, e)[L + 1] = e
        /\ \A j \in 1 .. L : Append(s, e)[j] = s[j]
    BY <1>1
  <2> DEFINE x == [j \in 1 .. L + 1 |-> Append(s, e)[j].ms]
             y == Append(Times(t), e.ms)
  <2>3. Times(t)' = x
    BY <1>4, <2>1, <2>2
  <2> DEFINE z == Times(t)
  <2>6. z \in Seq(Nat) /\ Len(z) = L /\ \A j \in 1 .. L : z[j] = s[j].ms
    BY <1>3, <2>2
  <2> HIDE DEF L
  <2>4. /\ y \in Seq(Nat) /\ Len(y) = L + 1 /\ y[L + 1] = e.ms
        /\ \A j \in 1 .. L : y[j] = s[j].ms
    <3> HIDE DEF z
    <3>1. Append(z, e.ms) \in Seq(Nat) /\ Len(Append(z, e.ms)) = L + 1
      BY <1>2, <1>5, <2>6
    <3>2. /\ Append(z, e.ms)[L + 1] = e.ms
          /\ \A j \in 1 .. L : Append(z, e.ms)[j] = z[j]
      BY <1>2, <1>5, <2>6
    <3> QED BY <3>1, <3>2, <2>6 DEF z
  <2>5. x = y
    <3>1. \A j \in 1 .. L + 1 : Append(s, e)[j].ms = y[j]
      <4> SUFFICES ASSUME NEW j \in 1 .. L + 1 PROVE Append(s, e)[j].ms = y[j]
        OBVIOUS
      <4>1. j \in 1 .. L \/ j = L + 1
        BY <1>5
      <4> HIDE DEF y
      <4> QED BY <4>1, <2>2, <2>4
    <3>2. y = [j \in 1 .. L + 1 |-> y[j]]
      <4> HIDE DEF y
      <4> QED BY <2>4
    <3> HIDE DEF y
    <3> QED BY <3>1, <3>2
  <2>7. Sum(y) = Sum(Times(t)) + e.ms
    BY <1>2, <1>3, SumAppend
  <2> QED BY <1>5, <1>7, <2>1, <2>2, <2>3, <2>5, <2>7 DEF e, s, L
<1> QED BY <1>6, <1>7 DEF e

LEMMA SumsStep == ASSUME TypeOK, SortInv, SumsInv, NEW k \in unread, Reads(k) PROVE SumsInv'
<1> DEFINE e == db[k]
<1>1. /\ e \in Record /\ records \in Seq(Record) /\ records' = Append(records, e)
  BY ErrorsAppended DEF Reads, Types
<1>2. /\ e.type \in {"metric", "data"} /\ e.err \in BOOLEAN /\ e.ms \in Nat
  BY <1>1, RecordTyped
<1>3. \A t \in {"metric", "data"} :
         /\ Len(recs[t]) \in Nat /\ Sum(Times(t)) \in Nat
         /\ Len(recs'[t]) = IF e.type = t THEN Len(recs[t]) + 1 ELSE Len(recs[t])
         /\ Sum(Times(t)') = IF e.type = t THEN Sum(Times(t)) + e.ms ELSE Sum(Times(t))
  BY TypeAppended DEF Types
<1>4. \A t \in {"metric", "data"} :
         /\ Len(errors[t]) \in Nat
         /\ Len(errors'[t]) = IF e.type = t /\ e.err THEN Len(errors[t]) + 1 ELSE Len(errors[t])
  <2> SUFFICES ASSUME NEW t \in Types
               PROVE  /\ Len(errors[t]) \in Nat
                      /\ Len(errors'[t]) = IF e.type = t /\ e.err THEN Len(errors[t]) + 1
                                           ELSE Len(errors[t])
    BY DEF Types
  <2> DEFINE s == errors[t]
  <2>1. s \in Seq(Record) /\ errors'[t] = IF e.type = t /\ e.err THEN Append(s, e) ELSE s
    BY ErrorsAppended
  <2> HIDE DEF s, e
  <2>2. Len(Append(s, e)) = Len(s) + 1 /\ Len(s) \in Nat
    BY <2>1, <1>1
  <2>3. /\ Len(s) \in Nat
        /\ Len(errors'[t]) = IF e.type = t /\ e.err THEN Len(s) + 1 ELSE Len(s)
    BY <2>1, <2>2
  <2> QED BY <2>3 DEF s
<1>5. Len(records') = Len(records) + 1 /\ Len(records) \in Nat
  BY <1>1
<1>6. Len(recs'["metric"]) + Len(recs'["data"]) = Len(records')
  <2> DEFINE x == Len(recs["metric"])
             y == Len(recs["data"])
  <2>1. /\ x \in Nat /\ y \in Nat /\ x + y = Len(records)
        /\ Len(recs'["metric"]) = IF e.type = "metric" THEN x + 1 ELSE x
        /\ Len(recs'["data"]) = IF e.type = "data" THEN y + 1 ELSE y
    BY <1>3 DEF SumsInv
  <2> HIDE DEF x, y, e
  <2>2. CASE e.type = "metric"
    BY <2>1, <2>2, <1>5
  <2>3. CASE e.type = "data"
    BY <2>1, <2>3, <1>5
  <2> QED BY <2>2, <2>3, <1>2
<1>8. \A c \in Columns : Printed(c) \in Nat /\ Printed(c)' = Printed(c) + Gain(c, e)
  <2> DEFINE x == Len(recs["metric"])
             y == Len(recs["data"])
             v == Sum(Times("metric"))
             w == Sum(Times("data"))
             p == Len(errors["metric"])
             q == Len(errors["data"])
  <2>1. /\ x \in Nat /\ y \in Nat /\ v \in Nat /\ w \in Nat /\ p \in Nat /\ q \in Nat
        /\ Printed("metricCount") = x /\ Printed("metricSumMs") = v
        /\ Printed("dataCount") = y /\ Printed("dataSumMs") = w /\ Printed("errors") = p + q
    BY <1>3, <1>4, PrintedIs
  <2>2. CASE e.type = "metric"
    <3>1. /\ Printed("metricCount")' = x + 1 /\ Printed("metricSumMs")' = v + e.ms
          /\ Printed("dataCount")' = y /\ Printed("dataSumMs")' = w
      BY <1>3, <2>2, PrintedIsNext
    <3>2. Printed("errors")' = IF e.err THEN p + 1 + q ELSE p + q
      BY <1>4, <2>2, PrintedIsNext
    <3>3. /\ Gain("metricCount", e) = 1 /\ Gain("metricSumMs", e) = e.ms
          /\ Gain("dataCount", e) = 0 /\ Gain("dataSumMs", e) = 0
          /\ Gain("errors", e) = IF e.err THEN 1 ELSE 0
      BY <2>2, <1>1, GainIs
    <3> HIDE DEF x, y, v, w, p, q, e
    <3>4. (IF e.err THEN p + 1 + q ELSE p + q) = (p + q) + (IF e.err THEN 1 ELSE 0)
      BY <2>1
    <3>5. y = y + 0 /\ w = w + 0
      BY <2>1
    <3> QED BY <2>1, <3>1, <3>2, <3>3, <3>4, <3>5, <1>2 DEF Columns
  <2>3. CASE e.type = "data"
    <3>1. /\ Printed("metricCount")' = x /\ Printed("metricSumMs")' = v
          /\ Printed("dataCount")' = y + 1 /\ Printed("dataSumMs")' = w + e.ms
      BY <1>3, <2>3, PrintedIsNext
    <3>2. Printed("errors")' = IF e.err THEN p + (q + 1) ELSE p + q
      BY <1>4, <2>3, PrintedIsNext
    <3>3. /\ Gain("metricCount", e) = 0 /\ Gain("metricSumMs", e) = 0
          /\ Gain("dataCount", e) = 1 /\ Gain("dataSumMs", e) = e.ms
          /\ Gain("errors", e) = IF e.err THEN 1 ELSE 0
      BY <2>3, <1>1, GainIs
    <3> HIDE DEF x, y, v, w, p, q, e
    <3>4. (IF e.err THEN p + (q + 1) ELSE p + q) = (p + q) + (IF e.err THEN 1 ELSE 0)
      BY <2>1
    <3>5. x = x + 0 /\ v = v + 0
      BY <2>1
    <3> QED BY <2>1, <3>1, <3>2, <3>3, <3>4, <3>5, <1>2 DEF Columns
  <2> QED BY <2>2, <2>3, <1>2
<1>9. ASSUME NEW c \in Columns PROVE Sum(Gains(c, records')) = Printed(c)'
  <2>1. Sum(Gains(c, records)) = Printed(c)
    BY DEF SumsInv
  <2>2. Sum(Gains(c, records')) = Sum(Gains(c, records)) + Gain(c, e)
    BY <1>1, GainsAppend
  <2> QED BY <2>1, <2>2, <1>8
<1> QED BY <1>6, <1>9 DEF SumsInv, Gains, Gain

LEMMA SumsCorrect == Spec => []SumsInv
<1>1. Init => SumsInv
  <2> SUFFICES ASSUME Init PROVE SumsInv
    OBVIOUS
  <2>1. /\ records = <<>> /\ unread = Kept
        /\ \A t \in Types : recs[t] = <<>> /\ errors[t] = <<>>
    BY DEF Init
  <2>2. \A t \in Types : Times(t) = <<>>
    BY <2>1 DEF Times
  <2>3. \A c \in Columns : Gains(c, records) = <<>>
    BY <2>1 DEF Gains
  <2>4. Len(<<>>) = 0 /\ Sum(<<>>) = 0 /\ 0 + 0 = 0
    BY SumEmpty
  <2>5. \A c \in Columns : Printed(c) = 0
    BY <2>1, <2>2, <2>4, PrintedIs DEF Types, Columns
  <2>7. Len(recs["metric"]) + Len(recs["data"]) = Len(records)
    BY <2>1, <2>4 DEF Types
  <2> QED BY <2>3, <2>4, <2>5, <2>7 DEF SumsInv
<1>2. TypeOK /\ SortInv /\ SumsInv /\ [Next]_vars => SumsInv'
  <2> SUFFICES ASSUME TypeOK, SortInv, SumsInv, [Next]_vars PROVE SumsInv'
    OBVIOUS
  <2>1. CASE UNCHANGED input
    <3>1. UNCHANGED <<records, recs, errors>>
      BY <2>1 DEF input
    <3>2. \A c : Gains(c, records') = Gains(c, records) /\ Printed(c)' = Printed(c)
      BY <3>1 DEF Gains, Gain, Printed, Times
    <3> QED BY <3>1, <3>2 DEF SumsInv
  <2> QED BY <2>1, SumsStep, InputStep
<1> QED BY <1>1, <1>2, SortCorrect, TypesAndHours, PTL DEF Spec

\* The summary of a type has its records, or there is none yet.
Summed(t) == stats[t].count = Len(recs[t]) /\ stats[t].sum = Sum(Times(t))
Unprinted(t) == stats[t].count = 0 /\ stats[t].sum = 0

SummaryInv ==
    /\ pc \in {"read", "metric"} => Unprinted("metric")
    /\ pc \in {"read", "metric", "metricDone", "data"} => Unprinted("data")
    /\ pc \notin {"read", "metric"} => Summed("metric")
    /\ pc \in {"dataDone", "buckets", "hours", "done"} => Summed("data")

LEMMA NoneOfType == ASSUME NEW t \in Types, recs[t] = <<>>, Unprinted(t) PROVE Summed(t)
<1>1. Times(t) = <<>>
  BY DEF Times
<1>2. Len(<<>>) = 0 /\ Sum(<<>>) = 0
  BY SumEmpty
<1> QED BY <1>1, <1>2 DEF Summed, Unprinted

LEMMA NothingRead == ASSUME TypeOK, SumsInv, records = <<>>
                     PROVE  recs["metric"] = <<>> /\ recs["data"] = <<>>
<1>1. recs["metric"] \in Seq(Record) /\ recs["data"] \in Seq(Record)
  BY DEF TypeOK, Types
<1>2. Len(recs["metric"]) + Len(recs["data"]) = 0
  BY DEF SumsInv
<1> DEFINE p == recs["metric"]
           q == recs["data"]
<1>3. p \in Seq(Record) /\ q \in Seq(Record) /\ Len(p) + Len(q) = 0
  BY <1>1, <1>2
<1> HIDE DEF p, q
<1>4. p = <<>> /\ q = <<>>
  BY <1>3
<1> QED BY <1>4 DEF p, q

LEMMA SummaryStep ==
    TypeOK /\ SortInv /\ SumsInv /\ SummaryInv /\ [Next]_vars => SummaryInv'
<1> SUFFICES ASSUME TypeOK, SortInv, SumsInv, SummaryInv, [Next]_vars PROVE SummaryInv'
  OBVIOUS
<1>1. ASSUME UNCHANGED <<stats, recs>>
      PROVE  \A t \in Types : /\ Summed(t)' <=> Summed(t)
                              /\ Unprinted(t)' <=> Unprinted(t)
  BY <1>1 DEF Summed, Unprinted, Times
<1>2. "metric" \in Types /\ "data" \in Types
  BY DEF Types
<1>3. CASE ReadRecord
  <2>1. pc = "read" /\ pc' = "read" /\ stats' = stats
    BY <1>3 DEF ReadRecord, report
  <2> QED BY <2>1 DEF SummaryInv, Unprinted
<1>4. CASE RecordsRead
  <2>1. pc = "read" /\ UNCHANGED <<stats, recs>>
    BY <1>4 DEF RecordsRead, input, report
  <2>2. Unprinted("metric") /\ Unprinted("data")
    BY <2>1 DEF SummaryInv
  <2>3. CASE records = <<>> /\ pc' = "done"
    <3>1. Summed("metric") /\ Summed("data")
      BY <2>2, <2>3, <1>2, NothingRead, NoneOfType
    <3> QED BY <3>1, <2>1, <2>3, <1>1, <1>2 DEF SummaryInv
  <2>4. CASE Summarise("metric", "metricDone")
    <3>1. CASE pc' = "metric"
      BY <3>1, <2>1, <2>2, <1>1, <1>2 DEF SummaryInv
    <3>2. CASE pc' = "metricDone" /\ recs["metric"] = <<>>
      <4>1. Summed("metric")
        BY <3>2, <2>2, <1>2, NoneOfType
      <4> QED BY <4>1, <3>2, <2>1, <2>2, <1>1, <1>2 DEF SummaryInv
    <3> QED BY <3>1, <3>2, <2>4 DEF Summarise
  <2> QED BY <1>4, <2>3, <2>4 DEF RecordsRead
<1>5. CASE MetricDone
  <2>1. pc = "metricDone" /\ UNCHANGED <<stats, recs>> /\ Summarise("data", "dataDone")
    BY <1>5 DEF MetricDone, input, report
  <2>2. Summed("metric") /\ Unprinted("data")
    BY <2>1 DEF SummaryInv
  <2>3. CASE pc' = "data"
    BY <2>3, <2>1, <2>2, <1>1, <1>2 DEF SummaryInv
  <2>4. CASE pc' = "dataDone" /\ recs["data"] = <<>>
    <3>1. Summed("data")
      BY <2>4, <2>2, <1>2, NoneOfType
    <3> QED BY <3>1, <2>4, <2>1, <2>2, <1>1, <1>2 DEF SummaryInv
  <2> QED BY <2>1, <2>3, <2>4 DEF Summarise
<1>6. CASE PrintStats
  <2>1. /\ pc \in Types /\ recs' = recs
        /\ pc' = IF pc = "metric" THEN "metricDone" ELSE "dataDone"
    BY <1>6 DEF PrintStats, input
  <2>2. /\ \A t \in Types \ {pc} : stats'[t] = stats[t]
        /\ stats'[pc].count = Len(Times(pc)) /\ stats'[pc].sum = Sum(Times(pc))
    BY <1>6, <2>1 DEF PrintStats, TypeOK, Times
  <2>3. Len(Times(pc)) = Len(recs[pc])
    BY <2>1, TimesTyped
  <2>4. \A t \in Types : Times(t)' = Times(t)
    BY <2>1 DEF Times
  <2>5. CASE pc = "metric"
    <3>1. Summed("metric")'
      BY <2>1, <2>2, <2>3, <2>4, <2>5, <1>2 DEF Summed
    <3>2. Unprinted("data")'
      BY <2>2, <2>5, <1>2 DEF SummaryInv, Unprinted
    <3> QED BY <3>1, <3>2, <2>1, <2>5 DEF SummaryInv
  <2>6. CASE pc = "data"
    <3>1. Summed("data")'
      BY <2>1, <2>2, <2>3, <2>4, <2>6, <1>2 DEF Summed
    <3>2. Summed("metric")'
      BY <2>1, <2>2, <2>4, <2>6, <1>2 DEF SummaryInv, Summed
    <3> QED BY <3>1, <3>2, <2>1, <2>6 DEF SummaryInv
  <2> QED BY <2>1, <2>5, <2>6 DEF Types
<1>7. ASSUME UNCHANGED <<stats, recs>>, pc' = pc PROVE SummaryInv'
  BY <1>1, <1>2, <1>7 DEF SummaryInv
<1>8. ASSUME UNCHANGED <<stats, recs>>, pc \in {"dataDone", "buckets", "hours"},
             pc' \in {"buckets", "hours", "done"}
      PROVE  SummaryInv'
  BY <1>1, <1>2, <1>8 DEF SummaryInv
<1>9. CASE SortTurn
  BY <1>7, <1>9 DEF SortTurn, input, report
<1>10. CASE ShowErrors
  BY <1>8, <1>10 DEF ShowErrors, input
<1>11. CASE AddToBucket
  BY <1>7, <1>11 DEF AddToBucket, input, report
<1>12. CASE SortHours
  BY <1>8, <1>12 DEF SortHours, input, report
<1>13. CASE PrintRows
  BY <1>8, <1>13 DEF PrintRows, input, report
<1>14. CASE UNCHANGED vars
  BY <1>7, <1>14 DEF vars, input, report
<1> QED BY <1>3, <1>4, <1>5, <1>6, <1>9, <1>10, <1>11, <1>12, <1>13, <1>14 DEF Next

\* What the records before the n-th have added to a column.
Before(c) == [k \in 1 .. n - 1 |-> Gain(c, records[k])]

\* A bucket for each key, the keys in order and each of a record, and in the
\* rows all that the records so far have added.
Broken ==
    /\ \A j, k \in DOMAIN a : j < k => a[j] < a[k]
    /\ DOMAIN buckets = {a[k] : k \in DOMAIN a}
    /\ \A k \in DOMAIN a : \E j \in 1 .. n - 1 : a[k] = Hour(records[j])
    /\ \A c \in Columns : Sum(Rows(c)) = Sum(Before(c))

HourInv ==
    /\ pc \notin {"buckets", "hours", "done"} => n = 1 /\ DOMAIN buckets = {}
    /\ pc = "read" => a = <<>>
    /\ pc \in {"buckets", "hours", "done"} => Broken
    /\ pc = "hours" => n = Len(records) + 1
    /\ pc = "done" => a = <<>> \/ n = Len(records) + 1

LEMMA RowsTyped ==
    ASSUME TypeOK, DOMAIN buckets = {a[k] : k \in DOMAIN a}, NEW c \in Columns
    PROVE  /\ Rows(c) \in Seq(Nat) /\ Len(Rows(c)) = Len(a)
           /\ \A k \in DOMAIN a : Rows(c)[k] = Cell(buckets[a[k]], c)
<1> DEFINE L == Len(a)
<1>1. L \in Nat /\ DOMAIN a = 1 .. L
  BY DEF TypeOK
<1>2. \A h \in DOMAIN buckets : buckets[h] \in Bucket
  BY DEF TypeOK, Bucket
<1>3. \A k \in 1 .. L : Cell(buckets[a[k]], c) \in Nat
  BY <1>1, <1>2, CellTyped
<1>4. Rows(c) = [k \in 1 .. L |-> Cell(buckets[a[k]], c)]
  BY <1>1 DEF Rows
<1> HIDE DEF L
<1>5. Rows(c) \in Seq(Nat) /\ Len(Rows(c)) = L
  BY <1>1, <1>3, <1>4
<1> QED BY <1>1, <1>4, <1>5 DEF L

LEMMA BeforeTyped ==
    ASSUME TypeOK, NEW c \in Columns
    PROVE  /\ Before(c) \in Seq(Nat) /\ Len(Before(c)) = n - 1
           /\ \A k \in 1 .. n - 1 : Before(c)[k] = Gain(c, records[k])
<1>1. n - 1 \in Nat /\ \A k \in 1 .. n - 1 : records[k] \in Record
  BY DEF TypeOK
<1>2. \A k \in 1 .. n - 1 : Gain(c, records[k]) \in Nat
  BY <1>1, GainTyped
<1> DEFINE m == n - 1
<1>3. m \in Nat /\ Before(c) = [k \in 1 .. m |-> Gain(c, records[k])]
      /\ \A k \in 1 .. m : Gain(c, records[k]) \in Nat
  BY <1>1, <1>2 DEF Before
<1> HIDE DEF m
<1>4. /\ Before(c) \in Seq(Nat) /\ Len(Before(c)) = m
      /\ \A k \in 1 .. m : Before(c)[k] = Gain(c, records[k])
  BY <1>3
<1> QED BY <1>4 DEF m

\* One record more.
LEMMA BeforeStep ==
    ASSUME TypeOK, n <= Len(records), n' = n + 1, records' = records, NEW c \in Columns
    PROVE  Sum(Before(c)') = Sum(Before(c)) + Gain(c, records[n])
<1> DEFINE s == Before(c)
           x == Gain(c, records[n])
           m == n - 1
<1>1. n \in Nat /\ n >= 1 /\ records[n] \in Record
  BY DEF TypeOK
<1>2. x \in Nat
  BY <1>1, GainTyped
<1>3. /\ s \in Seq(Nat) /\ Len(s) = m
      /\ \A k \in 1 .. m : s[k] = Gain(c, records[k])
  BY BeforeTyped
<1>4. m \in Nat /\ n = m + 1 /\ n' - 1 = m + 1
  BY <1>1
<1>5. Before(c)' = [k \in 1 .. m + 1 |-> Gain(c, records[k])]
  BY <1>4 DEF Before, Gain
<1>6. records[m + 1] = records[n]
  BY <1>4
<1> HIDE DEF s, m
<1> DEFINE r == Append(s, x)
<1>7. r \in Seq(Nat) /\ DOMAIN r = 1 .. m + 1 /\ r[m + 1] = x /\ \A k \in 1 .. m : r[k] = s[k]
  <2> HIDE DEF x
  <2> QED BY <1>2, <1>3, <1>4
<1> HIDE DEF r
<1>8. \A k \in 1 .. m + 1 : r[k] = Gain(c, records[k])
  <2> SUFFICES ASSUME NEW k \in 1 .. m + 1 PROVE r[k] = Gain(c, records[k])
    OBVIOUS
  <2>1. k \in 1 .. m \/ k = m + 1
    BY <1>4
  <2> QED BY <2>1, <1>3, <1>6, <1>7
<1>9. r = [k \in 1 .. m + 1 |-> r[k]]
  BY <1>7
<1>10. Before(c)' = r
  BY <1>5, <1>8, <1>9
<1>11. Sum(r) = Sum(s) + x
  BY <1>2, <1>3, SumAppend DEF r
<1> QED BY <1>10, <1>11 DEF s

LEMMA RowsTypedNext ==
    ASSUME TypeOK', DOMAIN buckets' = {a'[k] : k \in DOMAIN a'}, NEW c \in Columns
    PROVE  /\ Rows(c)' \in Seq(Nat) /\ Len(Rows(c)') = Len(a')
           /\ \A k \in DOMAIN a' : Rows(c)'[k] = Cell(buckets'[a'[k]], c)
<1> DEFINE L == Len(a')
<1>1. L \in Nat /\ DOMAIN a' = 1 .. L
  BY DEF TypeOK
<1>2. \A h \in DOMAIN buckets' : buckets'[h] \in Bucket
  BY DEF TypeOK, Bucket
<1>3. \A k \in 1 .. L : Cell(buckets'[a'[k]], c) \in Nat
  BY <1>1, <1>2, CellTyped
<1>4. Rows(c)' = [k \in 1 .. L |-> Cell(buckets'[a'[k]], c)]
  BY <1>1 DEF Rows, Cell
<1> HIDE DEF L
<1>5. Rows(c)' \in Seq(Nat) /\ Len(Rows(c)') = L
  BY <1>1, <1>3, <1>4
<1> QED BY <1>1, <1>4, <1>5 DEF L

\* A record of an hour that has its bucket.
LEMMA OldBucket ==
    ASSUME TypeOK, TypeOK', Broken, n <= Len(records), n' = n + 1, records' = records,
           Hour(records[n]) \in DOMAIN buckets, a' = a,
           buckets' = [buckets EXCEPT ![Hour(records[n])] = Counted(@, records[n])]
    PROVE  Broken'
<1> DEFINE r == records[n]
           key == Hour(r)
<1>1. r \in Record /\ n \in Nat /\ n >= 1
  <2>1. n \in Nat /\ n >= 1 /\ records \in Seq(Record)
    BY DEF TypeOK
  <2> QED BY ONLY <2>1, n <= Len(records)
<1>2. DOMAIN buckets' = DOMAIN buckets /\ DOMAIN buckets = {a[k] : k \in DOMAIN a}
  BY DEF Broken
<1>3. \A h \in DOMAIN buckets : /\ buckets[h] \in Bucket
                                /\ buckets'[h] = IF h = key THEN Counted(buckets[h], r) ELSE buckets[h]
  BY DEF TypeOK, Bucket
<1>4. PICK p \in DOMAIN a : a[p] = key
  BY <1>2
<1>5. a \in Seq(Nat) /\ DOMAIN a = 1 .. Len(a) /\ Len(a) \in Nat
  BY DEF TypeOK
<1> HIDE DEF r, key
<1>6. \A k \in DOMAIN a : k # p => a[k] # key
  <2> SUFFICES ASSUME NEW k \in DOMAIN a, k # p PROVE a[k] # key
    OBVIOUS
  <2>1. k < p \/ p < k
    BY <1>5
  <2>2. a[k] < a[p] \/ a[p] < a[k]
    BY <2>1 DEF Broken
  <2>3. a[k] \in Nat /\ a[p] \in Nat
    BY <1>5
  <2> QED BY <2>2, <2>3, <1>4
<1>7. ASSUME NEW c \in Columns PROVE Sum(Rows(c)') = Sum(Before(c)')
  <2> DEFINE s == Rows(c)
             q == Rows(c)'
             x == Gain(c, r)
  <2>1. /\ s \in Seq(Nat) /\ Len(s) = Len(a)
        /\ \A k \in DOMAIN a : s[k] = Cell(buckets[a[k]], c)
    BY <1>2, RowsTyped
  <2>2. /\ q \in Seq(Nat) /\ Len(q) = Len(a)
        /\ \A k \in DOMAIN a : q[k] = Cell(buckets'[a[k]], c)
    BY <1>2, RowsTypedNext
  <2>3. x \in Nat
    BY <1>1, GainTyped
  <2>4. \A k \in DOMAIN a : a[k] \in DOMAIN buckets
    BY <1>2
  <2>5. q[p] = s[p] + x
    <3>1. buckets'[a[p]] = Counted(buckets[a[p]], r) /\ buckets[a[p]] \in Bucket
      BY <2>4, <1>3, <1>4
    <3>2. Cell(Counted(buckets[a[p]], r), c) = Cell(buckets[a[p]], c) + x
      BY <3>1, <1>1, CellAdds
    <3> HIDE DEF s, q, x
    <3> QED BY <3>1, <3>2, <2>1, <2>2
  <2>6. \A k \in DOMAIN a : k # p => q[k] = s[k]
    <3> SUFFICES ASSUME NEW k \in DOMAIN a, k # p PROVE q[k] = s[k]
      OBVIOUS
    <3>1. buckets'[a[k]] = buckets[a[k]]
      BY <2>4, <1>3, <1>6
    <3> HIDE DEF s, q, x
    <3> QED BY <3>1, <2>1, <2>2
  <2> HIDE DEF s, q, x
  <2>7. /\ s \in Seq(Nat) /\ q \in Seq(Nat) /\ Len(q) = Len(s) /\ p \in 1 .. Len(s)
        /\ \A k \in 1 .. Len(s) : k # p => q[k] = s[k]
    BY <2>1, <2>2, <2>6, <1>5
  <2>8. Sum(q) = Sum(s) + x
    BY ONLY <2>3, <2>5, <2>7, SumBump
  <2>9. Sum(Before(c)') = Sum(Before(c)) + x
    BY BeforeStep DEF x, r
  <2>10. Sum(s) = Sum(Before(c))
    BY DEF Broken, s
  <2> QED BY <2>8, <2>9, <2>10 DEF q
<1>8. \A k \in DOMAIN a : \E j \in 1 .. n' - 1 : a[k] = Hour(records[j])
  <2>1. \A j \in 1 .. n - 1 : j \in 1 .. n' - 1
    BY <1>1
  <2> QED BY <2>1 DEF Broken
<1>9. \A j, k \in DOMAIN a : j < k => a[j] < a[k]
  BY DEF Broken
<1>10. \A j : Hour(records'[j]) = Hour(records[j])
  OBVIOUS
<1> QED BY <1>2, <1>7, <1>8, <1>9, <1>10 DEF Broken, Hour

\* The first record of an hour.
LEMMA NewBucket ==
    ASSUME TypeOK, TypeOK', ReadInv, Broken, n <= Len(records), n' = n + 1, records' = records,
           Hour(records[n]) \notin DOMAIN buckets, a' = Append(a, Hour(records[n])),
           buckets' = [h \in DOMAIN buckets \cup {Hour(records[n])} |->
                           IF h = Hour(records[n]) THEN Counted(NoBucket, records[n])
                                                   ELSE buckets[h]]
    PROVE  Broken'
<1> DEFINE r == records[n]
           key == Hour(r)
           L == Len(a)
<1>1. r \in Record /\ n \in Nat /\ n >= 1 /\ records \in Seq(Record) /\ n \in DOMAIN records
  <2>1. n \in Nat /\ n >= 1 /\ records \in Seq(Record)
    BY DEF TypeOK
  <2> QED BY ONLY <2>1, n <= Len(records)
<1>2. key \in Nat
  BY <1>1, RecordTyped
<1>3. /\ a \in Seq(Nat) /\ L \in Nat /\ DOMAIN a = 1 .. L /\ \A k \in 1 .. L : a[k] \in Nat
  <2>1. a \in Seq(Nat)
    BY DEF TypeOK
  <2> QED BY ONLY <2>1
<1>4. DOMAIN buckets = {a[k] : k \in DOMAIN a}
  BY DEF Broken
<1>5. /\ DOMAIN a' = 1 .. L + 1 /\ Len(a') = L + 1 /\ a'[L + 1] = key
      /\ \A k \in 1 .. L : a'[k] = a[k]
  BY <1>2, <1>3
<1>6. /\ DOMAIN buckets' = DOMAIN buckets \cup {key}
      /\ buckets'[key] = Counted(NoBucket, r)
      /\ \A h \in DOMAIN buckets : buckets'[h] = buckets[h]
  OBVIOUS
<1> HIDE DEF r, key, L
<1>7. \A k \in 1 .. L + 1 : k \in 1 .. L \/ k = L + 1
  BY <1>3
<1>8. DOMAIN buckets' = {a'[k] : k \in DOMAIN a'}
  <2>1. \A h : h \in DOMAIN buckets' => \E k \in 1 .. L + 1 : h = a'[k]
    <3>1. \A k \in 1 .. L : k \in 1 .. L + 1
      BY <1>3
    <3>2. L + 1 \in 1 .. L + 1
      BY <1>3
    <3> QED BY <3>1, <3>2, <1>3, <1>4, <1>5, <1>6
  <2>2. \A k \in 1 .. L + 1 : a'[k] \in DOMAIN buckets'
    BY <1>3, <1>4, <1>5, <1>6, <1>7
  <2> QED BY <2>1, <2>2, <1>5
\* The records come in the order of time, so a new hour is the last one.
<1>9. \A k \in 1 .. L : a[k] < key
  <2> SUFFICES ASSUME NEW k \in 1 .. L PROVE a[k] < key
    OBVIOUS
  <2>1. PICK j \in 1 .. n - 1 : a[k] = Hour(records[j])
    BY <1>3 DEF Broken
  <2>2. j \in DOMAIN records /\ j < n /\ records[j] \in Record
    BY <1>1
  <2>3. records[j].ts <= r.ts
    BY <2>2, <1>1 DEF ReadInv, InOrder, Ordered, r
  <2>4. a[k] <= key
    BY <2>1, <2>2, <2>3, <1>1, HourOrder DEF key
  <2>5. a[k] # key
    BY <1>3, <1>4 DEF key, r
  <2> QED BY <2>4, <2>5, <1>2, <1>3
<1>10. \A j, k \in DOMAIN a' : j < k => a'[j] < a'[k]
  <2> SUFFICES ASSUME NEW j \in 1 .. L + 1, NEW k \in 1 .. L + 1, j < k
               PROVE  a'[j] < a'[k]
    BY <1>5
  <2>1. j \in 1 .. L
    BY <1>3
  <2>2. CASE k = L + 1
    BY <2>1, <2>2, <1>5, <1>9
  <2>3. CASE k \in 1 .. L
    BY <2>1, <2>3, <1>3, <1>5 DEF Broken
  <2> QED BY <2>2, <2>3, <1>7
<1>11. \A k \in DOMAIN a' : \E j \in 1 .. n' - 1 : a'[k] = Hour(records[j])
  <2>1. n \in 1 .. n' - 1 /\ \A j \in 1 .. n - 1 : j \in 1 .. n' - 1
    BY <1>1
  <2>2. key = Hour(records[n])
    BY DEF key, r
  <2>3. \A k \in 1 .. L : \E j \in 1 .. n' - 1 : a[k] = Hour(records[j])
    BY <2>1, <1>3 DEF Broken
  <2> QED BY <2>1, <2>2, <2>3, <1>5, <1>7
<1>12. ASSUME NEW c \in Columns PROVE Sum(Rows(c)') = Sum(Before(c)')
  <2> DEFINE s == Rows(c)
             q == Rows(c)'
             x == Gain(c, r)
             z == Append(s, x)
  <2>1. /\ s \in Seq(Nat) /\ Len(s) = L
        /\ \A k \in 1 .. L : s[k] = Cell(buckets[a[k]], c)
    BY <1>3, <1>4, RowsTyped DEF L
  <2>2. /\ q \in Seq(Nat) /\ Len(q) = L + 1
        /\ \A k \in 1 .. L + 1 : q[k] = Cell(buckets'[a'[k]], c)
    BY <1>5, <1>8, RowsTypedNext
  <2>3. x \in Nat
    BY <1>1, GainTyped
  <2>4. q[L + 1] = x
    <3>1. L + 1 \in 1 .. L + 1
      BY <1>3
    <3> QED BY <3>1, <2>2, <1>5, <1>6 DEF Gain
  <2> HIDE DEF s, q, x
  <2>5. \A k \in 1 .. L : q[k] = s[k]
    <3> SUFFICES ASSUME NEW k \in 1 .. L PROVE q[k] = s[k]
      OBVIOUS
    <3>1. k \in 1 .. L + 1
      BY <1>3
    <3>2. a[k] \in DOMAIN buckets
      BY <1>3, <1>4
    <3>3. a'[k] = a[k] /\ buckets'[a[k]] = buckets[a[k]]
      BY <3>2, <1>5, <1>6
    <3>4. q[k] = Cell(buckets'[a'[k]], c) /\ s[k] = Cell(buckets[a[k]], c)
      BY <3>1, <2>1, <2>2
    <3> QED BY <3>3, <3>4
  <2>6. z \in Seq(Nat) /\ Len(z) = L + 1 /\ z[L + 1] = x /\ \A k \in 1 .. L : z[k] = s[k]
    BY <2>1, <2>3, <1>3
  <2> HIDE DEF z
  <2>7. \A k \in 1 .. L + 1 : q[k] = z[k]
    BY <2>4, <2>5, <2>6, <1>7
  <2>8. q = z
    BY <2>2, <2>6, <2>7, SameSeq
  <2>9. Sum(z) = Sum(s) + x
    BY <2>1, <2>3, SumAppend DEF z
  <2>10. Sum(Before(c)') = Sum(Before(c)) + x
    BY BeforeStep DEF x, r
  <2>11. Sum(s) = Sum(Before(c))
    BY DEF Broken, s
  <2> QED BY <2>8, <2>9, <2>10, <2>11 DEF q
<1>13. \A j : Hour(records'[j]) = Hour(records[j])
  OBVIOUS
<1> QED BY <1>8, <1>10, <1>11, <1>12, <1>13 DEF Broken, Hour

LEMMA HourStep ==
    /\ TypeOK /\ TypeOK' /\ ReadInv /\ HoursSorted /\ HourInv /\ [Next]_vars => HourInv'
<1> SUFFICES ASSUME TypeOK, TypeOK', ReadInv, HoursSorted, HourInv, [Next]_vars PROVE HourInv'
  OBVIOUS
<1>1. ASSUME UNCHANGED <<records, a, n, buckets>>, Broken PROVE Broken'
  <2>1. \A c : Rows(c)' = Rows(c) /\ Before(c)' = Before(c)
    BY <1>1 DEF Rows, Before, Cell, Gain
  <2>2. \A j : Hour(records'[j]) = Hour(records[j])
    BY <1>1
  <2> QED BY <1>1, <2>1, <2>2 DEF Broken, Hour
<1>2. ASSUME a' = <<>>, n' = 1, DOMAIN buckets' = {} PROVE Broken'
  <2>1. DOMAIN a' = {}
    BY <1>2
  <2>2. \A c : Rows(c)' = <<>> /\ Before(c)' = <<>>
    BY <1>2, <2>1 DEF Rows, Before
  <2> QED BY <1>2, <2>1, <2>2 DEF Broken
<1>3. CASE ReadRecord
  BY <1>3 DEF ReadRecord, HourInv
<1>4. CASE RecordsRead
  <2>1. pc = "read" /\ n' = 1 /\ DOMAIN buckets' = {} /\ a = <<>>
    BY <1>4 DEF RecordsRead, HourInv
  <2>2. CASE pc' = "done" /\ a' = a
    BY <1>2, <2>1, <2>2 DEF HourInv
  <2>3. CASE pc' \in {"metric", "metricDone"}
    BY <2>1, <2>3 DEF HourInv
  <2> QED BY <1>4, <2>2, <2>3 DEF RecordsRead, Summarise
<1>5. CASE MetricDone
  <2>1. pc' \in {"data", "dataDone"} /\ n' = 1 /\ DOMAIN buckets' = {}
    BY <1>5 DEF MetricDone, Summarise, HourInv
  <2> QED BY <2>1 DEF HourInv
<1>6. CASE SortTurn
  <2>1. /\ pc' = pc /\ n' = n /\ buckets' = buckets /\ records' = records
        /\ pc \in Types \cup {"hours"} /\ i <= Len(a) /\ a' = Insert(a, i)
    BY <1>6 DEF SortTurn, input
  <2>2. CASE pc = "hours"
    <3>1. a \in Seq(Nat) /\ i \in 2 .. Len(a)
      BY <2>1 DEF TypeOK
    <3>2. Broken
      BY <2>2 DEF HourInv
    <3>3. a' = a
      BY <2>1, <3>1, <3>2, InsertSorted DEF Broken
    <3>4. Broken'
      BY <1>1, <2>1, <3>2, <3>3
    <3> QED BY <2>1, <2>2, <3>4 DEF HourInv
  <2>3. CASE pc \in Types
    BY <2>1, <2>3 DEF HourInv, Types
  <2> QED BY <2>1, <2>2, <2>3
<1>7. CASE PrintStats
  BY <1>7 DEF PrintStats, HourInv, Types
<1>8. CASE ShowErrors
  <2>1. a' = <<>> /\ n' = 1 /\ DOMAIN buckets' = {} /\ pc' \in {"buckets", "done"}
    BY <1>8 DEF ShowErrors, HourInv
  <2> QED BY <1>2, <2>1 DEF HourInv
<1>9. CASE AddToBucket
  <2>1. /\ pc = "buckets" /\ pc' = "buckets" /\ n <= Len(records) /\ n' = n + 1
        /\ records' = records
    BY <1>9 DEF AddToBucket, input
  <2>2. Broken
    BY <2>1 DEF HourInv
  <2>3. CASE Hour(records[n]) \in DOMAIN buckets
    <3>1. /\ a' = a
          /\ buckets' = [buckets EXCEPT ![Hour(records[n])] = Counted(@, records[n])]
      BY <1>9, <2>3 DEF AddToBucket
    <3>2. Broken'
      BY <2>1, <2>2, <2>3, <3>1, OldBucket
    <3> QED BY <2>1, <3>2 DEF HourInv
  <2>4. CASE Hour(records[n]) \notin DOMAIN buckets
    <3>1. /\ a' = Append(a, Hour(records[n]))
          /\ buckets' = [h \in DOMAIN buckets \cup {Hour(records[n])} |->
                             IF h = Hour(records[n]) THEN Counted(NoBucket, records[n])
                                                     ELSE buckets[h]]
      BY <1>9, <2>4 DEF AddToBucket
    <3>2. Broken'
      BY <2>1, <2>2, <2>4, <3>1, NewBucket
    <3> QED BY <2>1, <3>2 DEF HourInv
  <2> QED BY <2>3, <2>4
<1>10. CASE SortHours
  <2>1. pc = "buckets" /\ pc' = "hours" /\ n > Len(records) /\ UNCHANGED <<records, a, n, buckets>>
    BY <1>10 DEF SortHours, input
  <2>2. Broken'
    BY <1>1, <2>1 DEF HourInv
  <2>3. n' = Len(records') + 1
    <3>1. n \in Nat /\ n <= Len(records) + 1 /\ Len(records) \in Nat
      BY DEF TypeOK
    <3> QED BY <2>1, <3>1
  <2> QED BY <2>1, <2>2, <2>3 DEF HourInv
<1>11. CASE PrintRows
  <2>1. pc = "hours" /\ pc' = "done" /\ UNCHANGED <<records, a, n, buckets>>
    BY <1>11 DEF PrintRows, input
  <2>2. Broken' /\ n' = Len(records') + 1
    BY <1>1, <2>1 DEF HourInv
  <2> QED BY <2>1, <2>2 DEF HourInv
<1>12. CASE UNCHANGED vars
  <2>1. UNCHANGED <<records, a, n, buckets, pc>>
    BY <1>12 DEF vars, input
  <2> QED BY <1>1, <2>1 DEF HourInv
<1> QED BY <1>3, <1>4, <1>5, <1>6, <1>7, <1>8, <1>9, <1>10, <1>11, <1>12 DEF Next

\* What a record of s adds to the row of an hour, and those of K.
Mine(c, h, r) == IF Hour(r) = h THEN Gain(c, r) ELSE 0
Mines(c, h, s, K) == [k \in DOMAIN s |-> IF k \in K THEN Mine(c, h, s[k]) ELSE 0]

LEMMA MineTyped == ASSUME NEW c \in Columns, NEW h, NEW r \in Record
                   PROVE  Mine(c, h, r) \in Nat
  BY GainTyped DEF Mine

LEMMA MinesTyped ==
    ASSUME NEW c \in Columns, NEW h, NEW s \in Seq(Record), NEW K
    PROVE  /\ Mines(c, h, s, K) \in Seq(Nat) /\ Len(Mines(c, h, s, K)) = Len(s)
           /\ \A k \in 1 .. Len(s) : Mines(c, h, s, K)[k] =
                                         IF k \in K THEN Mine(c, h, s[k]) ELSE 0
<1> DEFINE L == Len(s)
<1>1. L \in Nat /\ DOMAIN s = 1 .. L /\ \A k \in 1 .. L : s[k] \in Record
  OBVIOUS
<1> HIDE DEF L
<1>2. \A k \in 1 .. L : (IF k \in K THEN Mine(c, h, s[k]) ELSE 0) \in Nat
  BY <1>1, MineTyped
<1>3. Mines(c, h, s, K) = [k \in 1 .. L |-> IF k \in K THEN Mine(c, h, s[k]) ELSE 0]
  BY <1>1 DEF Mines
<1>4. /\ Mines(c, h, s, K) \in Seq(Nat) /\ Len(Mines(c, h, s, K)) = L
      /\ \A k \in 1 .. L : Mines(c, h, s, K)[k] = IF k \in K THEN Mine(c, h, s[k]) ELSE 0
  BY <1>1, <1>2, <1>3
<1> QED BY <1>4 DEF L

\* One record more of those that are counted.
LEMMA MinesMore ==
    ASSUME NEW c \in Columns, NEW h, NEW s \in Seq(Record), NEW K, NEW p \in DOMAIN s, p \notin K
    PROVE  /\ Sum(Mines(c, h, s, K)) \in Nat
           /\ Sum(Mines(c, h, s, K \cup {p})) = Sum(Mines(c, h, s, K)) + Mine(c, h, s[p])
<1> DEFINE x == Mines(c, h, s, K)
           y == Mines(c, h, s, K \cup {p})
           g == Mine(c, h, s[p])
           L == Len(s)
<1>1. L \in Nat /\ p \in 1 .. L /\ s[p] \in Record
  OBVIOUS
<1>2. g \in Nat
  BY <1>1, MineTyped
<1>3. /\ x \in Seq(Nat) /\ Len(x) = L
      /\ \A k \in 1 .. L : x[k] = IF k \in K THEN Mine(c, h, s[k]) ELSE 0
  BY MinesTyped
<1>4. /\ y \in Seq(Nat) /\ Len(y) = L
      /\ \A k \in 1 .. L : y[k] = IF k \in K \cup {p} THEN Mine(c, h, s[k]) ELSE 0
  BY MinesTyped
<1>5. x[p] = 0 /\ y[p] = g
  BY <1>1, <1>3, <1>4
<1>6. \A k \in 1 .. L : k # p => y[k] = x[k]
  BY <1>3, <1>4
<1> HIDE DEF x, y, g, L
<1>7. y[p] = x[p] + g
  BY <1>2, <1>5
<1>8. Sum(y) = Sum(x) + g
  <2>1. Len(y) = Len(x) /\ p \in 1 .. Len(x) /\ \A k \in 1 .. Len(x) : k # p => y[k] = x[k]
    BY <1>1, <1>3, <1>4, <1>6
  <2>2. x \in Seq(Nat) /\ y \in Seq(Nat)
    BY <1>3, <1>4
  <2> QED BY ONLY <1>2, <1>7, <2>1, <2>2, SumBump
<1>9. Sum(x) \in Nat
  BY <1>3, SumTyped
<1> QED BY <1>8, <1>9 DEF x, y, g

\* The sum of nothing but zeros.
LEMMA MinesNone ==
    ASSUME NEW c \in Columns, NEW h, NEW s \in Seq(Record), NEW K,
           \A k \in DOMAIN s : k \in K => Hour(s[k]) # h
    PROVE  Sum(Mines(c, h, s, K)) = 0
<1> DEFINE x == Mines(c, h, s, K)
           L == Len(s)
           t == [k \in 0 .. L |-> 0]
<1>1. L \in Nat /\ DOMAIN s = 1 .. L /\ L \in 0 .. L
  OBVIOUS
<1>2. /\ x \in Seq(Nat) /\ Len(x) = L
      /\ \A k \in 1 .. L : x[k] = IF k \in K THEN Mine(c, h, s[k]) ELSE 0
  BY MinesTyped
<1>3. \A k \in 1 .. L : x[k] = 0
  BY <1>1, <1>2 DEF Mine
<1> HIDE DEF x, L
<1>4. /\ t \in [0 .. L -> Nat] /\ t[0] = 0 /\ t[L] = 0
      /\ \A k \in 1 .. L : t[k] = 0 /\ t[k - 1] = 0
  <2>1. \A k \in 1 .. L : k \in 0 .. L /\ k - 1 \in 0 .. L
    BY <1>1
  <2> QED BY <1>1, <2>1
<1> HIDE DEF t
<1>5. Totals(x, t)
  BY <1>2, <1>3, <1>4 DEF Totals
<1>6. Sum(x) = t[Len(x)]
  BY <1>2, <1>5, SumIs
<1> QED BY <1>2, <1>4, <1>6 DEF x

LEMMA MinesAppend ==
    ASSUME NEW c \in Columns, NEW h, NEW s \in Seq(Record), NEW r \in Record
    PROVE  Sum(Mines(c, h, Append(s, r), DOMAIN Append(s, r)))
               = Sum(Mines(c, h, s, DOMAIN s)) + Mine(c, h, r)
<1> DEFINE L == Len(s)
           q == Append(s, r)
           x == Mines(c, h, q, DOMAIN q)
           z == Mines(c, h, s, DOMAIN s)
           y == Append(z, Mine(c, h, r))
<1>1. /\ L \in Nat /\ q \in Seq(Record) /\ Len(q) = L + 1 /\ DOMAIN q = 1 .. L + 1
      /\ DOMAIN s = 1 .. L /\ q[L + 1] = r /\ \A k \in 1 .. L : q[k] = s[k]
  OBVIOUS
<1>2. Mine(c, h, r) \in Nat
  BY MineTyped
<1>3. z \in Seq(Nat) /\ Len(z) = L /\ \A k \in 1 .. L : z[k] = Mine(c, h, s[k])
  <2>1. /\ z \in Seq(Nat) /\ Len(z) = L
        /\ \A k \in 1 .. L : z[k] = IF k \in DOMAIN s THEN Mine(c, h, s[k]) ELSE 0
    BY MinesTyped
  <2> HIDE DEF z, L
  <2> QED BY <1>1, <2>1
<1> HIDE DEF q, z
<1>4. x \in Seq(Nat) /\ Len(x) = L + 1 /\ \A k \in 1 .. L + 1 : x[k] = Mine(c, h, q[k])
  BY <1>1, MinesTyped
<1> HIDE DEF L, x
<1>5. /\ y \in Seq(Nat) /\ Len(y) = L + 1 /\ y[L + 1] = Mine(c, h, r)
      /\ \A k \in 1 .. L : y[k] = z[k]
  BY <1>1, <1>2, <1>3
<1> HIDE DEF y
<1>6. \A k \in 1 .. L + 1 : x[k] = y[k]
  <2> SUFFICES ASSUME NEW k \in 1 .. L + 1 PROVE x[k] = y[k]
    OBVIOUS
  <2>1. k \in 1 .. L \/ k = L + 1
    BY <1>1
  <2> QED BY <2>1, <1>1, <1>3, <1>4, <1>5
<1>7. x = y
  BY <1>4, <1>5, <1>6, SameSeq
<1>8. Sum(y) = Sum(z) + Mine(c, h, r)
  BY <1>2, <1>3, SumAppend DEF y
<1> QED BY <1>7, <1>8 DEF x, z, q

\* What was read and what is still in the files are, of every hour, the records
\* of the period.
FilesInv ==
    /\ \A c \in Columns, h \in Nat :
           Sum(Mines(c, h, records, DOMAIN records)) + Sum(Mines(c, h, db, unread))
               = Sum(Mines(c, h, db, Kept))
    /\ \A j \in DOMAIN records : \E k \in Kept : records[j] = db[k]
    /\ \A k \in Kept \ unread : \E j \in DOMAIN records : records[j] = db[k]
    /\ unread \subseteq Kept

LEMMA FilesStep == ASSUME TypeOK, FilesInv, NEW k \in unread, Reads(k) PROVE FilesInv'
<1> DEFINE e == db[k]
           L == Len(records)
<1>1. /\ db' = db /\ Kept' = Kept /\ records' = Append(records, e) /\ unread' = unread \ {k}
  BY DEF Reads, Kept, Since
<1>2. db \in Seq(Record) /\ k \in DOMAIN db /\ e \in Record /\ records \in Seq(Record)
  BY DEF TypeOK
<1>3. /\ DOMAIN records' = 1 .. L + 1 /\ L \in Nat /\ DOMAIN records = 1 .. L
      /\ records'[L + 1] = e /\ \A j \in 1 .. L : records'[j] = records[j]
  BY <1>1, <1>2
<1>4. ASSUME NEW c \in Columns, NEW h \in Nat
      PROVE  Sum(Mines(c, h, records', DOMAIN records')) + Sum(Mines(c, h, db', unread'))
                 = Sum(Mines(c, h, db', Kept'))
  <2> DEFINE g == Mine(c, h, e)
             x == Sum(Mines(c, h, records, DOMAIN records))
             y == Sum(Mines(c, h, db, unread'))
  <2>1. (unread \ {k}) \cup {k} = unread /\ k \notin unread \ {k}
    OBVIOUS
  <2>2. Sum(Mines(c, h, db, unread)) = y + g /\ y \in Nat
    <3> DEFINE K == unread \ {k}
    <3>1. K \cup {k} = unread /\ k \notin K /\ unread' = K
      BY <1>1, <2>1
    <3> HIDE DEF K
    <3>2. /\ Sum(Mines(c, h, db, K)) \in Nat
          /\ Sum(Mines(c, h, db, K \cup {k})) = Sum(Mines(c, h, db, K)) + Mine(c, h, db[k])
      BY <1>2, <3>1, MinesMore
    <3> QED BY <3>1, <3>2
  <2>3. Sum(Mines(c, h, records', DOMAIN records')) = x + g
    BY <1>1, <1>2, MinesAppend
  <2>4. g \in Nat /\ x \in Nat
    <3>1. Mines(c, h, records, DOMAIN records) \in Seq(Nat)
      BY <1>2, MinesTyped
    <3> QED BY <1>2, <3>1, MineTyped, SumTyped
  <2>5. x + Sum(Mines(c, h, db, unread)) = Sum(Mines(c, h, db, Kept))
    BY DEF FilesInv
  <2> HIDE DEF g, x, y, e
  <2>6. (x + g) + y = x + (y + g)
    BY <2>2, <2>4
  <2> QED BY <2>2, <2>3, <2>5, <2>6, <1>1 DEF y
<1>5. \A j \in DOMAIN records' : \E m \in Kept' : records'[j] = db'[m]
  <2> SUFFICES ASSUME NEW j \in 1 .. L + 1 PROVE \E m \in Kept : records'[j] = db[m]
    BY <1>1, <1>3
  <2>1. CASE j = L + 1
    BY <2>1, <1>3 DEF FilesInv
  <2>2. CASE j \in 1 .. L
    BY <2>2, <1>3 DEF FilesInv
  <2> QED BY <2>1, <2>2, <1>3
<1>6. \A m \in Kept' \ unread' : \E j \in DOMAIN records' : records'[j] = db'[m]
  <2> SUFFICES ASSUME NEW m \in Kept, m \notin unread \ {k}
               PROVE  \E j \in 1 .. L + 1 : records'[j] = db[m]
    BY <1>1, <1>3
  <2>1. CASE m = k
    BY <2>1, <1>3
  <2>2. CASE m # k
    <3>1. PICK j \in 1 .. L : records[j] = db[m]
      BY <2>2, <1>3 DEF FilesInv
    <3> QED BY <3>1, <1>3
  <2> QED BY <2>1, <2>2
<1>7. unread' \subseteq Kept'
  BY <1>1 DEF FilesInv
<1> HIDE DEF e, L
<1>8. \A c \in Columns, h \in Nat :
          Sum(Mines(c, h, records', DOMAIN records')) + Sum(Mines(c, h, db', unread'))
              = Sum(Mines(c, h, db', Kept'))
  BY <1>4
<1> QED BY <1>5, <1>6, <1>7, <1>8 DEF FilesInv, Mines, Mine, Gain, Cell, Hour

LEMMA FilesCorrect == Spec => []FilesInv
<1>1. Init => FilesInv
  <2> SUFFICES ASSUME Init PROVE FilesInv
    OBVIOUS
  <2>1. records = <<>> /\ DOMAIN records = {} /\ unread = Kept /\ db \in Seq(Record)
    BY ConstantsAssumption DEF Init
  <2>2. ASSUME NEW c \in Columns, NEW h \in Nat
        PROVE  Sum(Mines(c, h, records, DOMAIN records)) = 0
               /\ Sum(Mines(c, h, db, unread)) \in Nat
    <3>1. records \in Seq(Record)
      BY <2>1
    <3>2. Mines(c, h, db, unread) \in Seq(Nat)
      BY <2>1, MinesTyped
    <3> QED BY <2>1, <3>1, <3>2, MinesNone, SumTyped
  <2> QED BY <2>1, <2>2 DEF FilesInv
<1>2. TypeOK /\ FilesInv /\ [Next]_vars => FilesInv'
  <2> SUFFICES ASSUME TypeOK, FilesInv, [Next]_vars PROVE FilesInv'
    OBVIOUS
  <2>1. CASE UNCHANGED input
    <3>1. UNCHANGED <<records, db, unread>> /\ Kept' = Kept
      BY <2>1 DEF input, Kept, Since
    <3>2. \A c \in Columns, h \in Nat :
              Sum(Mines(c, h, records', DOMAIN records')) + Sum(Mines(c, h, db', unread'))
                  = Sum(Mines(c, h, db', Kept'))
      BY <3>1 DEF FilesInv
    <3>3. /\ \A j \in DOMAIN records' : \E k \in Kept' : records'[j] = db'[k]
          /\ \A k \in Kept' \ unread' : \E j \in DOMAIN records' : records'[j] = db'[k]
          /\ unread' \subseteq Kept'
      BY <3>1 DEF FilesInv
    <3> QED BY <3>2, <3>3 DEF FilesInv, Mines, Mine, Gain, Cell, Hour
  <2> QED BY <2>1, FilesStep, InputStep
<1> QED BY <1>1, <1>2, TypesAndHours, PTL DEF Spec

\* A bucket has what the records so far of its hour have added, and each of
\* them has one.
ContentInv ==
    /\ \A j \in 1 .. n - 1 : Hour(records[j]) \in DOMAIN buckets
    /\ \A h \in DOMAIN buckets, c \in Columns :
           Cell(buckets[h], c) = Sum(Mines(c, h, records, 1 .. n - 1))

LEMMA ContentPrimed ==
    ASSUME records' = records,
           \A j \in 1 .. n' - 1 : Hour(records[j]) \in DOMAIN buckets',
           \A h \in DOMAIN buckets', c \in Columns :
               Cell(buckets'[h], c) = Sum(Mines(c, h, records, 1 .. n' - 1))
    PROVE  ContentInv'
<1>1. \A j \in 1 .. n' - 1 : Hour(records'[j]) \in DOMAIN buckets'
  OBVIOUS
<1>2. \A h \in DOMAIN buckets', c \in Columns :
          Cell(buckets'[h], c) = Sum(Mines(c, h, records', 1 .. n' - 1))
  OBVIOUS
<1> QED BY <1>1, <1>2 DEF ContentInv, Mines, Mine, Gain, Cell, Hour

\* A record goes into the bucket of its hour, or into a new one.
LEMMA ContentGrows ==
    ASSUME TypeOK, ContentInv, n <= Len(records), n' = n + 1, records' = records, NEW key,
           key = Hour(records[n]), DOMAIN buckets' = DOMAIN buckets \cup {key},
           buckets'[key] = Counted(IF key \in DOMAIN buckets THEN buckets[key] ELSE NoBucket,
                                   records[n]),
           \A h \in DOMAIN buckets : h # key => buckets'[h] = buckets[h]
    PROVE  ContentInv'
<1> DEFINE r == records[n]
           K == 1 .. n - 1
<1>1. /\ records \in Seq(Record) /\ n \in DOMAIN records /\ n \notin K /\ r \in Record
      /\ 1 .. n' - 1 = K \cup {n}
  <2>1. n \in Nat /\ n >= 1 /\ records \in Seq(Record)
    BY DEF TypeOK
  <2> QED BY ONLY <2>1, n <= Len(records), n' = n + 1
<1>2. \A j \in 1 .. n' - 1 : Hour(records[j]) \in DOMAIN buckets'
  BY <1>1 DEF ContentInv
<1>3. ASSUME NEW h \in DOMAIN buckets', NEW c \in Columns
      PROVE  Cell(buckets'[h], c) = Sum(Mines(c, h, records, 1 .. n' - 1))
  <2> DEFINE x == Sum(Mines(c, h, records, K))
  <2>1. Sum(Mines(c, h, records, 1 .. n' - 1)) = x + Mine(c, h, r) /\ x \in Nat
    <3> HIDE DEF K
    <3>1. /\ Sum(Mines(c, h, records, K)) \in Nat
          /\ Sum(Mines(c, h, records, K \cup {n})) = Sum(Mines(c, h, records, K))
                                                     + Mine(c, h, records[n])
      BY <1>1, MinesMore
    <3> QED BY <1>1, <3>1
  <2>2. CASE h # key
    <3>1. Mine(c, h, r) = 0 /\ h \in DOMAIN buckets /\ buckets'[h] = buckets[h]
      BY <2>2 DEF Mine
    <3>2. Cell(buckets[h], c) = x
      BY <3>1 DEF ContentInv
    <3> QED BY <2>1, <3>1, <3>2
  <2>3. CASE h = key /\ key \in DOMAIN buckets
    <3>1. buckets[h] \in Bucket /\ buckets'[h] = Counted(buckets[h], r)
      BY <2>3 DEF TypeOK, Bucket
    <3>2. Cell(buckets'[h], c) = Cell(buckets[h], c) + Gain(c, r)
      BY <1>1, <3>1, CellAdds
    <3>3. Cell(buckets[h], c) = x
      BY <2>3 DEF ContentInv
    <3> QED BY <2>1, <2>3, <3>2, <3>3 DEF Mine
  <2>4. CASE h = key /\ key \notin DOMAIN buckets
    <3>1. \A j \in DOMAIN records : j \in K => Hour(records[j]) # h
      BY <2>4 DEF ContentInv
    <3>2. x = 0
      BY <1>1, <3>1, MinesNone
    <3>3. Cell(buckets'[h], c) = Gain(c, r) /\ Mine(c, h, r) = Gain(c, r)
      BY <2>4 DEF Gain, Mine
    <3>4. Gain(c, r) \in Nat
      BY <1>1, GainTyped
    <3> QED BY <2>1, <3>2, <3>3, <3>4
  <2> QED BY <2>2, <2>3, <2>4
<1> QED BY <1>2, <1>3, ContentPrimed

LEMMA ContentStep == TypeOK /\ HourInv /\ ContentInv /\ [Next]_vars => ContentInv'
<1> SUFFICES ASSUME TypeOK, HourInv, ContentInv, [Next]_vars PROVE ContentInv'
  OBVIOUS
<1>1. CASE ReadRecord
  <2>1. n' = 1 /\ DOMAIN buckets' = {}
    BY <1>1 DEF ReadRecord, HourInv
  <2> QED BY <2>1 DEF ContentInv
<1>2. CASE AddToBucket
  <2> DEFINE key == Hour(records[n])
  <2>1. n <= Len(records) /\ n' = n + 1 /\ records' = records
    BY <1>2 DEF AddToBucket, input
  <2>2. /\ DOMAIN buckets' = DOMAIN buckets \cup {key}
        /\ buckets'[key] = Counted(IF key \in DOMAIN buckets THEN buckets[key] ELSE NoBucket,
                                   records[n])
        /\ \A h \in DOMAIN buckets : h # key => buckets'[h] = buckets[h]
    <3>1. CASE key \in DOMAIN buckets
      BY <1>2, <3>1 DEF AddToBucket
    <3>2. CASE key \notin DOMAIN buckets
      BY <1>2, <3>2 DEF AddToBucket
    <3> QED BY <3>1, <3>2
  <2> HIDE DEF key
  <2>3. key = Hour(records[n])
    BY DEF key
  <2> QED BY <2>1, <2>2, <2>3, ContentGrows
<1>3. CASE UNCHANGED <<records, n, buckets>>
  <2>1. /\ \A j \in 1 .. n' - 1 : Hour(records[j]) \in DOMAIN buckets'
        /\ \A h \in DOMAIN buckets', c \in Columns :
               Cell(buckets'[h], c) = Sum(Mines(c, h, records, 1 .. n' - 1))
    BY <1>3 DEF ContentInv
  <2> QED BY <1>3, <2>1, ContentPrimed
<1>4. CASE \/ RecordsRead \/ MetricDone \/ SortTurn \/ PrintStats \/ ShowErrors \/ SortHours
           \/ PrintRows \/ UNCHANGED vars
  <2>1. UNCHANGED <<records, n, buckets>>
    BY <1>4 DEF RecordsRead, MetricDone, SortTurn, PrintStats, ShowErrors, SortHours, PrintRows,
                vars, input
  <2> QED BY <1>3, <2>1
<1> QED BY <1>1, <1>2, <1>4 DEF Next

\* When there are rows, every record has been put into one.
LEMMA RowsAreAll ==
    ASSUME TypeOK, SumsInv, SummaryInv, HourInv, pc = "done", a # <<>>
    PROVE  \A c \in Columns : Sum(Rows(c)) = Printed(c)
<1>1. Broken /\ n = Len(records) + 1 /\ Len(records) \in Nat
  BY DEF HourInv, TypeOK
<1>2. n - 1 = Len(records) /\ DOMAIN records = 1 .. Len(records)
  BY <1>1 DEF TypeOK
<1>3. \A c : Before(c) = Gains(c, records)
  BY <1>2 DEF Before, Gains
<1> QED BY <1>1, <1>3 DEF Broken, SumsInv

\* The records of the files whose time is in the hour h.
HourOf(h) == {k \in Kept : h * HourTicks <= db[k].ts /\ db[k].ts < (h + 1) * HourTicks}

LEMMA HourOfIs == ASSUME TypeOK, NEW k \in Kept, NEW h \in Nat
                  PROVE  k \in HourOf(h) <=> Hour(db[k]) = h
<1> DEFINE t == db[k].ts
           w == HourTicks
           x == t \div w
<1>1. t \in Nat /\ w \in Nat \ {0} /\ k \in DOMAIN db
  <2>1. k \in DOMAIN db /\ db[k] \in Record
    BY DEF Kept, TypeOK
  <2> QED BY <2>1, RecordTyped, ConstantsAssumption
<1>2. x \in Nat /\ w * x <= t /\ t < w * x + w
  BY <1>1, DivDef
<1>3. Hour(db[k]) = x
  BY DEF Hour
<1>4. k \in HourOf(h) <=> h * w <= t /\ t < (h + 1) * w
  BY DEF HourOf
<1> HIDE DEF t, w, x
<1>5. /\ h * w = w * h /\ (h + 1) * w = w * h + w /\ w * (h + 1) = w * h + w
      /\ w * (x + 1) = w * x + w /\ w * h \in Nat /\ w * x \in Nat
  BY <1>1, <1>2, SMT
<1>6. CASE h < x
  <2>1. h + 1 <= x
    BY <1>2, <1>6
  <2>2. w * (h + 1) <= w * x
    BY <1>1, <1>2, <2>1, SMT
  <2>3. ~ (t < w * h + w) /\ h # x
    BY <1>1, <1>2, <1>5, <1>6, <2>2
  <2> QED BY <1>3, <1>4, <1>5, <2>3
<1>7. CASE x < h
  <2>1. x + 1 <= h
    BY <1>2, <1>7
  <2>2. w * (x + 1) <= w * h
    BY <1>1, <1>2, <2>1, SMT
  <2>3. ~ (w * h <= t) /\ h # x
    BY <1>1, <1>2, <1>5, <1>7, <2>2
  <2> QED BY <1>3, <1>4, <1>5, <2>3
<1>8. CASE x = h
  BY <1>2, <1>3, <1>4, <1>5, <1>8
<1> QED BY <1>2, <1>6, <1>7, <1>8

\* A row is what the records of its hour in the files add up to.
LEMMA RowTotal ==
    ASSUME TypeOK, FilesInv, ContentInv, HourInv, unread = {}, pc = "done", a # <<>>,
           NEW j \in DOMAIN a, NEW c \in Columns
    PROVE  Cell(buckets[a[j]], c)
               = Sum([k \in DOMAIN db |-> IF k \in HourOf(a[j]) THEN Gain(c, db[k]) ELSE 0])
<1> DEFINE h == a[j]
<1>1. /\ h \in Nat /\ h \in DOMAIN buckets /\ n = Len(records) + 1 /\ Len(records) \in Nat
      /\ records \in Seq(Record) /\ db \in Seq(Record)
  <2>1. n = Len(records) + 1 /\ DOMAIN buckets = {a[k] : k \in DOMAIN a}
    BY DEF HourInv, Broken
  <2>2. a \in Seq(Nat) /\ records \in Seq(Record) /\ db \in Seq(Record)
    BY DEF TypeOK
  <2> QED BY <2>1, <2>2
<1> HIDE DEF h
<1>2. 1 .. n - 1 = DOMAIN records
  BY <1>1
<1>3. Cell(buckets[h], c) = Sum(Mines(c, h, records, DOMAIN records))
  BY <1>1, <1>2 DEF ContentInv
<1>4. Sum(Mines(c, h, records, DOMAIN records)) = Sum(Mines(c, h, db, Kept))
  <2>1. Sum(Mines(c, h, db, unread)) = 0
    BY <1>1, MinesNone
  <2>2. Sum(Mines(c, h, records, DOMAIN records)) \in Nat
    <3>1. Mines(c, h, records, DOMAIN records) \in Seq(Nat)
      BY <1>1, MinesTyped
    <3> QED BY <3>1, SumTyped
  <2>3. Sum(Mines(c, h, records, DOMAIN records)) + 0 = Sum(Mines(c, h, db, Kept))
    BY <1>1, <2>1 DEF FilesInv
  <2> QED BY <2>2, <2>3
<1>5. \A k \in DOMAIN db : (IF k \in Kept THEN Mine(c, h, db[k]) ELSE 0)
                              = IF k \in HourOf(h) THEN Gain(c, db[k]) ELSE 0
  <2> SUFFICES ASSUME NEW k \in DOMAIN db
               PROVE  (IF k \in Kept THEN Mine(c, h, db[k]) ELSE 0)
                          = IF k \in HourOf(h) THEN Gain(c, db[k]) ELSE 0
    OBVIOUS
  <2>1. CASE k \in Kept
    BY <1>1, <2>1, HourOfIs DEF Mine
  <2>2. CASE k \notin Kept
    BY <2>2 DEF HourOf
  <2> QED BY <2>1, <2>2
<1>6. Mines(c, h, db, Kept)
          = [k \in DOMAIN db |-> IF k \in HourOf(h) THEN Gain(c, db[k]) ELSE 0]
  BY <1>5 DEF Mines
<1> QED BY <1>3, <1>4, <1>6 DEF h

\* ... column by column.
LEMMA RowTotals ==
    ASSUME TypeOK, FilesInv, ContentInv, HourInv, unread = {}, pc = "done", a # <<>>,
           NEW j \in DOMAIN a
    PROVE  LET Total(f(_)) == Sum([k \in DOMAIN db |->
                                      IF k \in HourOf(a[j]) THEN f(db[k]) ELSE 0])
               b == buckets[a[j]]
           IN
           /\ b.metricCount = Total(LAMBDA r : IF r.type = "metric" THEN 1 ELSE 0)
           /\ b.metricSumMs = Total(LAMBDA r : IF r.type = "metric" THEN r.ms ELSE 0)
           /\ b.dataCount = Total(LAMBDA r : IF r.type = "data" THEN 1 ELSE 0)
           /\ b.dataSumMs = Total(LAMBDA r : IF r.type = "data" THEN r.ms ELSE 0)
           /\ b.errors = Total(LAMBDA r : IF r.err THEN 1 ELSE 0)
<1> DEFINE S == HourOf(a[j])
           b == buckets[a[j]]
           Totals5(c) == [k \in DOMAIN db |-> IF k \in S THEN Gain(c, db[k]) ELSE 0]
<1>1. \A c \in Columns : Cell(b, c) = Sum(Totals5(c))
  BY RowTotal
<1>2. \A k \in DOMAIN db : db[k] \in Record /\ db[k].type \in {"metric", "data"}
  <2>1. \A k \in DOMAIN db : db[k] \in Record
    BY DEF TypeOK
  <2> QED BY <2>1, RecordTyped
<1> HIDE DEF S, b
<1>3. \A k \in DOMAIN db :
         /\ Gain("metricCount", db[k]) = IF db[k].type = "metric" THEN 1 ELSE 0
         /\ Gain("metricSumMs", db[k]) = IF db[k].type = "metric" THEN db[k].ms ELSE 0
         /\ Gain("dataCount", db[k]) = IF db[k].type = "data" THEN 1 ELSE 0
         /\ Gain("dataSumMs", db[k]) = IF db[k].type = "data" THEN db[k].ms ELSE 0
         /\ Gain("errors", db[k]) = IF db[k].err THEN 1 ELSE 0
  BY <1>2, GainIs
<1>4. Totals5("metricCount") = [k \in DOMAIN db |->
          IF k \in S THEN IF db[k].type = "metric" THEN 1 ELSE 0 ELSE 0]
  BY <1>3
<1>5. Totals5("metricSumMs") = [k \in DOMAIN db |->
          IF k \in S THEN IF db[k].type = "metric" THEN db[k].ms ELSE 0 ELSE 0]
  BY <1>3
<1>6. Totals5("dataCount") = [k \in DOMAIN db |->
          IF k \in S THEN IF db[k].type = "data" THEN 1 ELSE 0 ELSE 0]
  BY <1>3
<1>7. Totals5("dataSumMs") = [k \in DOMAIN db |->
          IF k \in S THEN IF db[k].type = "data" THEN db[k].ms ELSE 0 ELSE 0]
  BY <1>3
<1>8. Totals5("errors") = [k \in DOMAIN db |-> IF k \in S THEN IF db[k].err THEN 1 ELSE 0 ELSE 0]
  BY <1>3
<1> HIDE DEF Totals5
<1>9. /\ b.metricCount = Sum(Totals5("metricCount")) /\ b.metricSumMs = Sum(Totals5("metricSumMs"))
      /\ b.dataCount = Sum(Totals5("dataCount")) /\ b.dataSumMs = Sum(Totals5("dataSumMs"))
      /\ b.errors = Sum(Totals5("errors"))
  BY <1>1, Cells DEF Columns
<1> QED BY <1>4, <1>5, <1>6, <1>7, <1>8, <1>9 DEF S, b

\* Every record of the period is in an hour that has a row, and every row has one.
LEMMA RowHours ==
    ASSUME TypeOK, FilesInv, ContentInv, HourInv, unread = {}, pc = "done", a # <<>>
    PROVE  /\ \A k \in Kept : \E j \in DOMAIN a : k \in HourOf(a[j])
           /\ \A j \in DOMAIN a : HourOf(a[j]) # {}
<1>1. /\ n = Len(records) + 1 /\ DOMAIN buckets = {a[k] : k \in DOMAIN a}
      /\ \A k \in DOMAIN a : \E j \in 1 .. n - 1 : a[k] = Hour(records[j])
  BY DEF HourInv, Broken
<1>2. 1 .. n - 1 = DOMAIN records /\ \A j \in DOMAIN a : a[j] \in Nat
  <2>1. records \in Seq(Record) /\ a \in Seq(Nat)
    BY DEF TypeOK
  <2> QED BY <1>1, <2>1
<1>3. ASSUME NEW k \in Kept PROVE \E j \in DOMAIN a : k \in HourOf(a[j])
  <2>1. PICK m \in DOMAIN records : records[m] = db[k]
    BY DEF FilesInv
  <2>2. Hour(records[m]) \in DOMAIN buckets
    BY <1>2 DEF ContentInv
  <2>3. PICK j \in DOMAIN a : a[j] = Hour(db[k])
    BY <1>1, <2>1, <2>2
  <2> QED BY <1>2, <2>3, HourOfIs
<1>4. ASSUME NEW j \in DOMAIN a PROVE HourOf(a[j]) # {}
  <2>1. PICK m \in DOMAIN records : a[j] = Hour(records[m])
    BY <1>1, <1>2
  <2>2. PICK k \in Kept : records[m] = db[k]
    BY DEF FilesInv
  <2> QED BY <1>2, <2>1, <2>2, HourOfIs
<1> QED BY <1>3, <1>4

\* The rows of the breakdown are the hours of the records of the period that are
\* in the files, each once and in order; each row adds up its own, and all of
\* them the summaries.
THEOREM BreakdownCorrect == Spec => []BreakdownAddsUp
<1>1. Init => SummaryInv /\ HourInv
  <2> SUFFICES ASSUME Init PROVE SummaryInv /\ HourInv
    OBVIOUS
  <2>1. pc = "read" /\ n = 1 /\ buckets = <<>> /\ a = <<>> /\ stats = [t \in Types |-> NoStats]
    BY DEF Init
  <2>2. Unprinted("metric") /\ Unprinted("data")
    BY <2>1 DEF Unprinted, NoStats, Types
  <2> QED BY <2>1, <2>2 DEF SummaryInv, HourInv
<1>2. /\ TypeOK /\ SumsInv /\ SummaryInv /\ HourInv /\ ShownInv /\ FilesInv /\ ContentInv
      /\ (pc # "read" => unread = {})
      => BreakdownAddsUp
  <2> SUFFICES ASSUME TypeOK, SumsInv, SummaryInv, HourInv, ShownInv, FilesInv, ContentInv,
                      unread = {}, pc = "done", a # <<>>
               PROVE  LET Total(h, f(_)) == Sum([k \in DOMAIN db |->
                                                    IF k \in HourOf(h) THEN f(db[k]) ELSE 0])
                          Column(f(_)) == Sum([k \in DOMAIN a |-> f(buckets[a[k]])])
                      IN
                      /\ \A j, k \in DOMAIN a : j < k => a[j] < a[k]
                      /\ \A k \in Kept : \E j \in DOMAIN a : k \in HourOf(a[j])
                      /\ \A j \in DOMAIN a : LET h == a[j]  b == buckets[h] IN
                             /\ HourOf(h) # {}
                             /\ b.metricCount = Total(h, LAMBDA r : IF r.type = "metric" THEN 1 ELSE 0)
                             /\ b.metricSumMs = Total(h, LAMBDA r : IF r.type = "metric" THEN r.ms ELSE 0)
                             /\ b.dataCount = Total(h, LAMBDA r : IF r.type = "data" THEN 1 ELSE 0)
                             /\ b.dataSumMs = Total(h, LAMBDA r : IF r.type = "data" THEN r.ms ELSE 0)
                             /\ b.errors = Total(h, LAMBDA r : IF r.err THEN 1 ELSE 0)
                      /\ Column(LAMBDA b : b.metricCount) = stats["metric"].count
                      /\ Column(LAMBDA b : b.metricSumMs) = stats["metric"].sum
                      /\ Column(LAMBDA b : b.dataCount) = stats["data"].count
                      /\ Column(LAMBDA b : b.dataSumMs) = stats["data"].sum
                      /\ Column(LAMBDA b : b.errors) = more + Len(shown)
    BY DEF BreakdownAddsUp, HourOf
  <2>1. Broken
    BY DEF HourInv
  <2>2. /\ Rows("metricCount") = [k \in DOMAIN a |-> buckets[a[k]].metricCount]
        /\ Rows("metricSumMs") = [k \in DOMAIN a |-> buckets[a[k]].metricSumMs]
        /\ Rows("dataCount") = [k \in DOMAIN a |-> buckets[a[k]].dataCount]
        /\ Rows("dataSumMs") = [k \in DOMAIN a |-> buckets[a[k]].dataSumMs]
        /\ Rows("errors") = [k \in DOMAIN a |-> buckets[a[k]].errors]
    BY Cells DEF Rows
  <2>3. \A c \in Columns : Sum(Rows(c)) = Printed(c)
    BY RowsAreAll
  <2>4. Summed("metric") /\ Summed("data")
    BY DEF SummaryInv
  <2>5. /\ Sum(Rows("metricCount")) = stats["metric"].count
        /\ Sum(Rows("metricSumMs")) = stats["metric"].sum
        /\ Sum(Rows("dataCount")) = stats["data"].count
        /\ Sum(Rows("dataSumMs")) = stats["data"].sum
    BY <2>3, <2>4, PrintedIs DEF Columns, Summed
  <2>6. Sum(Rows("errors")) = more + Len(shown)
    <3> DEFINE L == Len(allErrors)
               M == Len(errors["metric"])
               D == Len(errors["data"])
    <3>1. M \in Nat /\ D \in Nat /\ allErrors \in Seq(Record) /\ L = M + D
      BY AllErrors
    <3>2. Sum(Rows("errors")) = M + D
      BY <2>3, PrintedIs DEF Columns
    <3>3. more = Hidden /\ shown = SubSeq(allErrors, more + 1, L)
      BY DEF ShownInv
    <3>4. Hidden = (IF L > MaxShown THEN L - MaxShown ELSE 0) /\ MaxShown \in Nat
      BY ConstantsAssumption DEF Hidden
    <3> HIDE DEF L, M, D
    <3>5. more \in Nat /\ more <= L /\ L \in Nat
      <4>1. L \in Nat /\ more = Hidden
        BY <3>1, <3>3
      <4> QED BY ONLY <4>1, <3>4
    <3>6. Len(shown) = L - more
      BY <3>1, <3>3, <3>5 DEF L
    <3>7. more + (L - more) = L
      BY <3>5
    <3> QED BY <3>1, <3>2, <3>6, <3>7
  <2> HIDE DEF BreakdownAddsUp
  <2> QED BY <2>1, <2>2, <2>5, <2>6, RowTotals, RowHours DEF Broken
<1>3. Init => (pc # "read" => unread = {})
  BY DEF Init
<1>4. (pc # "read" => unread = {}) /\ [Next]_vars => (pc # "read" => unread = {})'
  <2> SUFFICES ASSUME pc # "read" => unread = {}, [Next]_vars, pc' # "read" PROVE unread' = {}
    OBVIOUS
  <2>1. CASE pc = "read"
    <3>1. CASE ReadRecord
      BY <3>1 DEF ReadRecord
    <3>2. CASE RecordsRead
      BY <3>2 DEF RecordsRead, input
    <3> QED BY <2>1, <3>1, <3>2 DEF Next, vars, MetricDone, SortTurn, PrintStats, ShowErrors,
                                    AddToBucket, SortHours, PrintRows, Types
  <2>2. CASE pc # "read"
    <3>1. UNCHANGED input
      BY <2>2, InputStep DEF Reads
    <3> QED BY <2>2, <3>1 DEF input
  <2> QED BY <2>1, <2>2
<1>5. Init => ShownInv /\ ContentInv
  BY DEF Init, ShownInv, ContentInv
<1> QED BY <1>1, <1>2, <1>3, <1>4, <1>5, SortCorrect, TypesAndHours, ReadCorrect, SumsCorrect,
           FilesCorrect, ShownStep, SummaryStep, HourStep, ContentStep, PTL DEF Spec
=============================================================================
