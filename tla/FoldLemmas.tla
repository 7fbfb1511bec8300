----------------------------- MODULE FoldLemmas -----------------------------
(***************************************************************************)
(* Induction over the naturals in the form the provers can use, and what   *)
(* it gives for the left folds of SequencesExt: FoldLeft is a recursive    *)
(* function on the subsets of 1..n that takes out the maximum first, so    *)
(* its value on a sequence is reached along the intervals 1..k.            *)
(***************************************************************************)
EXTENDS Integers, Sequences, FiniteSetsExt, WellFoundedInduction, TLAPS

(* A set that holds 0 and with a number the next holds every number. *)
LEMMA SetInduction ==
    ASSUME NEW T, 0 \in T, \A n \in Nat : n \in T => n + 1 \in T
    PROVE  Nat \subseteq T
<1> SUFFICES ASSUME Nat \ T # {} PROVE FALSE
  OBVIOUS
<1>1. PICK n \in Nat \ T : \A m \in Nat \ T : <<m, n>> \notin OpToRel(<, Nat)
  <2> DEFINE U == Nat \ T
  <2>1. U \subseteq Nat /\ U # {}
    OBVIOUS
  <2> HIDE DEF U
  <2>2. \E x \in U : \A y \in U : <<y, x>> \notin OpToRel(<, Nat)
    BY <2>1, NatLessThanWellFounded, WFMin, Zenon
  <2> QED
    BY <2>2 DEF U
<1>2. \A m \in Nat \ T : ~(m < n)
  BY <1>1 DEF OpToRel
<1>3. n # 0 /\ n - 1 \in Nat
  OBVIOUS
<1>4. n - 1 \in T
  BY <1>2, <1>3
<1> QED
  BY <1>3, <1>4

-----------------------------------------------------------------------------
(* x is the maximum of s. *)
Tops(x, s) == x \in s /\ \A y \in s : x >= y

LEMMA TopIsMax ==
    ASSUME NEW s, s \subseteq Int, NEW x, Tops(x, s)
    PROVE  Max(s) = x
<1>1. Tops(Max(s), s)
  BY Zenon DEF Max, Tops
<1>2. /\ x \in Int /\ Max(s) \in Int
      /\ x >= Max(s) /\ Max(s) >= x
  BY <1>1 DEF Tops
<1> HIDE DEF Max
<1> QED
  BY <1>2

LEMMA MaxFacts ==
    ASSUME NEW n \in Nat, NEW s, s \subseteq 1..n, s # {}
    PROVE  Max(s) \in s /\ \A y \in s : y <= Max(s)
<1> DEFINE T == {m \in Nat : \A t \in SUBSET (1..m) : t # {} => \E x : Tops(x, t)}
<1>1. 0 \in T
  <2>1. \A t \in SUBSET (1..0) : t = {}
    OBVIOUS
  <2> QED
    BY <2>1
<1>2. ASSUME NEW m \in Nat, m \in T PROVE m + 1 \in T
  <2> SUFFICES ASSUME NEW t \in SUBSET (1..m + 1), t # {} PROVE \E x : Tops(x, t)
    OBVIOUS
  <2>1. CASE m + 1 \in t
    <3>1. Tops(m + 1, t)
      BY <2>1 DEF Tops
    <3> QED
      BY <3>1
  <2>2. CASE m + 1 \notin t
    <3>1. t \in SUBSET (1..m)
      BY <2>2
    <3> QED
      BY <1>2, <3>1
  <2> QED
    BY <2>1, <2>2
<1> HIDE DEF T
<1>3. n \in T
  BY <1>1, <1>2, SetInduction
<1>4. PICK x : Tops(x, s)
  BY <1>3 DEF T
<1>5. Tops(Max(s), s)
  BY <1>4, Zenon DEF Max, Tops
<1> QED
  BY <1>5 DEF Tops

-----------------------------------------------------------------------------
(* g folds 1..n from base; step takes a position and the value before it. *)
IsFold(g, n, step, base) ==
    g = [s \in SUBSET (1..n) |->
            IF s = {} THEN base ELSE step[<<Max(s), g[s \ {Max(s)}]>>]]

(* There is such a function, for every length. *)
LEMMA FoldExists ==
    ASSUME NEW step, NEW base, NEW n \in Nat
    PROVE  \E g : IsFold(g, n, step, base)
<1> DEFINE T == {m \in Nat : \E g : IsFold(g, m, step, base)}
<1>1. 0 \in T
  <2> DEFINE g == [s \in SUBSET (1..0) |-> base]
  <2>1. \A s \in SUBSET (1..0) : s = {}
    OBVIOUS
  <2>2. g = [s \in SUBSET (1..0) |->
                IF s = {} THEN base ELSE step[<<Max(s), g[s \ {Max(s)}]>>]]
    BY <2>1
  <2> HIDE DEF g
  <2>3. IsFold(g, 0, step, base)
    BY <2>2 DEF IsFold
  <2> QED
    BY <2>3
<1>2. ASSUME NEW m \in Nat, m \in T PROVE m + 1 \in T
  <2>1. PICK g : IsFold(g, m, step, base)
    BY <1>2
  <2> DEFINE h == [s \in SUBSET (1..m + 1) |->
                      IF m + 1 \in s THEN step[<<m + 1, g[s \ {m + 1}]>>] ELSE g[s]]
  <2>2. \A s \in SUBSET (1..m) : s \in SUBSET (1..m + 1) /\ m + 1 \notin s /\ h[s] = g[s]
    OBVIOUS
  <2>3. ASSUME NEW s \in SUBSET (1..m + 1)
        PROVE  h[s] = IF s = {} THEN base ELSE step[<<Max(s), h[s \ {Max(s)}]>>]
    <3>1. CASE m + 1 \in s
      <4>1. Max(s) = m + 1
        <5>1. Tops(m + 1, s) /\ s \subseteq Int
          BY <3>1 DEF Tops
        <5> QED
          BY <5>1, TopIsMax
      <4>2. s \ {m + 1} \in SUBSET (1..m)
        OBVIOUS
      <4>3. h[s \ {m + 1}] = g[s \ {m + 1}]
        BY <2>2, <4>2
      <4> QED
        BY <3>1, <4>1, <4>3
    <3>2. CASE m + 1 \notin s
      <4>1. s \in SUBSET (1..m) /\ h[s] = g[s]
        BY <3>2
      <4>2. g[s] = IF s = {} THEN base ELSE step[<<Max(s), g[s \ {Max(s)}]>>]
        BY <2>1, <4>1 DEF IsFold
      <4>3. s \ {Max(s)} \in SUBSET (1..m)
        BY <4>1
      <4>4. h[s \ {Max(s)}] = g[s \ {Max(s)}]
        BY <2>2, <4>3
      <4> QED
        BY <4>1, <4>2, <4>4
    <3> QED
      BY <3>1, <3>2
  <2>4. h = [s \in SUBSET (1..m + 1) |->
                IF s = {} THEN base ELSE step[<<Max(s), h[s \ {Max(s)}]>>]]
    BY <2>3
  <2> HIDE DEF h
  <2>5. IsFold(h, m + 1, step, base)
    BY <2>4 DEF IsFold
  <2> QED
    BY <2>5
<1> HIDE DEF T
<1>3. n \in T
  BY <1>1, <1>2, SetInduction
<1> QED
  BY <1>3 DEF T

(* If base is in A and step stays in A the fold is in A. *)
LEMMA FoldType ==
    ASSUME NEW A, NEW step, NEW base \in A, NEW n \in Nat, NEW g, IsFold(g, n, step, base),
           \A i \in 1..n, v \in A : step[<<i, v>>] \in A
    PROVE  \A s \in SUBSET (1..n) : g[s] \in A
<1> DEFINE T == {m \in Nat : m <= n => \A s \in SUBSET (1..m) : g[s] \in A}
<1>1. 0 \in T
  <2>1. \A s \in SUBSET (1..0) : s = {} /\ s \in SUBSET (1..n)
    OBVIOUS
  <2>2. \A s \in SUBSET (1..0) : g[s] = base
    BY <2>1 DEF IsFold
  <2> QED
    BY <2>2
<1>2. ASSUME NEW m \in Nat, m \in T PROVE m + 1 \in T
  <2> SUFFICES ASSUME m + 1 <= n, NEW s \in SUBSET (1..m + 1) PROVE g[s] \in A
    OBVIOUS
  <2>1. CASE m + 1 \notin s
    <3>1. s \in SUBSET (1..m)
      BY <2>1
    <3> QED
      BY <1>2, <3>1
  <2>2. CASE m + 1 \in s
    <3>1. Max(s) = m + 1
      <4>1. Tops(m + 1, s) /\ s \subseteq Int
        BY <2>2 DEF Tops
      <4> QED
        BY <4>1, TopIsMax
    <3>2. s \ {m + 1} \in SUBSET (1..m) /\ s \in SUBSET (1..n) /\ m + 1 \in 1..n
      OBVIOUS
    <3>3. g[s] = step[<<m + 1, g[s \ {m + 1}]>>]
      BY <2>2, <3>1, <3>2 DEF IsFold
    <3>4. g[s \ {m + 1}] \in A
      BY <1>2, <3>2
    <3> QED
      BY <3>2, <3>3, <3>4
  <2> QED
    BY <2>1, <2>2
<1> HIDE DEF T
<1>3. n \in T
  BY <1>1, <1>2, SetInduction
<1> QED
  BY <1>3 DEF T

(* The intervals a fold goes through. *)
LEMMA IntervalFacts ==
    ASSUME NEW k \in Nat, k # 0
    PROVE  /\ Max(1..k) = k /\ (1..k) \ {k} = 1..k - 1 /\ 1..k # {}
<1>1. Tops(k, 1..k) /\ 1..k \subseteq Int
  BY DEF Tops
<1> QED
  BY <1>1, TopIsMax

-----------------------------------------------------------------------------
(* g adds up the weights w. *)
IsSum(g, n, w) ==
    g = [s \in SUBSET (1..n) |-> IF s = {} THEN 0 ELSE g[s \ {Max(s)}] + w[Max(s)]]

LEMMA SumExists ==
    ASSUME NEW n \in Nat, NEW w, \A i \in 1..n : w[i] \in Nat
    PROVE  \E g : IsSum(g, n, w)
<1> DEFINE step == [x \in (1..n) \X Nat |-> x[2] + w[x[1]]]
<1>1. ASSUME NEW i \in 1..n, NEW v \in Nat
      PROVE  step[<<i, v>>] = v + w[i] /\ step[<<i, v>>] \in Nat
  OBVIOUS
<1> HIDE DEF step
<1>2. PICK g : IsFold(g, n, step, 0)
  BY FoldExists
<1>3. \A s \in SUBSET (1..n) : g[s] \in Nat
  BY <1>1, <1>2, FoldType
<1>4. ASSUME NEW s \in SUBSET (1..n), s # {}
      PROVE  step[<<Max(s), g[s \ {Max(s)}]>>] = g[s \ {Max(s)}] + w[Max(s)]
  <2>1. s \subseteq 1..n
    OBVIOUS
  <2>2. Max(s) \in 1..n
    BY <1>4, <2>1, MaxFacts
  <2>3. s \ {Max(s)} \in SUBSET (1..n)
    OBVIOUS
  <2> QED
    BY <1>1, <1>3, <2>2, <2>3
<1>5. IsSum(g, n, w)
  BY <1>2, <1>4 DEF IsFold, IsSum
<1> QED
  BY <1>5

(* The running totals of w: the sum is the last of them. *)
Totals(b, n, w) ==
    /\ b \in [0..n -> Nat]
    /\ b[0] = 0
    /\ \A k \in 1..n : b[k] = b[k - 1] + w[k]

LEMMA SumRuns ==
    ASSUME NEW n \in Nat, NEW w, \A i \in 1..n : w[i] \in Nat, NEW g, IsSum(g, n, w)
    PROVE  \E b : Totals(b, n, w) /\ b[n] = g[1..n]
<1> DEFINE b == [k \in 0..n |-> g[1..k]]
<1>1. b[0] = 0
  <2>1. 1..0 = {} /\ {} \in SUBSET (1..n) /\ 0 \in 0..n
    OBVIOUS
  <2>2. g[{}] = 0
    BY <2>1 DEF IsSum
  <2> QED
    BY <2>1, <2>2
<1>2. ASSUME NEW k \in 1..n PROVE b[k] = b[k - 1] + w[k]
  <2> DEFINE s == 1..k
  <2>1. k \in Nat /\ k # 0 /\ k \in 0..n /\ k - 1 \in 0..n
    OBVIOUS
  <2>2. s \in SUBSET (1..n) /\ s # {} /\ Max(s) = k /\ s \ {k} = 1..k - 1
    <3>1. s \in SUBSET (1..n)
      OBVIOUS
    <3> QED
      BY <2>1, <3>1, IntervalFacts
  <2> HIDE DEF s
  <2>3. g[s] = g[s \ {Max(s)}] + w[Max(s)]
    BY <2>2 DEF IsSum
  <2>4. g[s] = g[1..k - 1] + w[k]
    BY <2>2, <2>3
  <2> QED
    BY <2>1, <2>4 DEF s
<1>3. b[n] = g[1..n] /\ b = [k \in 0..n |-> b[k]]
  OBVIOUS
<1> HIDE DEF b
<1>4. \A k \in 0..n : b[k] \in Nat
  <2> DEFINE T == {k \in Nat : k <= n => b[k] \in Nat}
  <2>1. 0 \in T
    BY <1>1
  <2>2. ASSUME NEW k \in Nat, k \in T PROVE k + 1 \in T
    <3> SUFFICES ASSUME k + 1 <= n PROVE b[k + 1] \in Nat
      OBVIOUS
    <3>1. k + 1 \in 1..n /\ (k + 1) - 1 = k /\ b[k] \in Nat
      BY <2>2
    <3>2. b[k + 1] = b[k] + w[k + 1]
      BY <1>2, <3>1
    <3> QED
      BY <3>1, <3>2
  <2> HIDE DEF T
  <2>3. Nat \subseteq T
    BY <2>1, <2>2, SetInduction
  <2> QED
    BY <2>3 DEF T
<1>5. b \in [0..n -> Nat]
  BY <1>3, <1>4
<1> QED
  BY <1>1, <1>2, <1>3, <1>5 DEF Totals

(* Running totals grow. *)
LEMMA TotalsGrow ==
    ASSUME NEW n \in Nat, NEW w, \A i \in 1..n : w[i] \in Nat, NEW b, Totals(b, n, w)
    PROVE  \A k \in 0..n : b[k] <= b[n]
<1> DEFINE T == {m \in Nat : m <= n => b[n - m] <= b[n]}
<1>1. \A k \in 0..n : b[k] \in Nat
  BY DEF Totals
<1>2. 0 \in T
  BY <1>1
<1>3. ASSUME NEW m \in Nat, m \in T PROVE m + 1 \in T
  <2> SUFFICES ASSUME m + 1 <= n PROVE b[n - (m + 1)] <= b[n]
    OBVIOUS
  <2>1. n - m \in 1..n /\ (n - m) - 1 = n - (m + 1) /\ n - (m + 1) \in 0..n /\ n - m \in 0..n
    OBVIOUS
  <2>2. b[n - m] = b[n - (m + 1)] + w[n - m]
    BY <2>1 DEF Totals
  <2>3. b[n - m] <= b[n] /\ w[n - m] \in Nat
    BY <1>3, <2>1
  <2> QED
    BY <1>1, <2>1, <2>2, <2>3
<1> HIDE DEF T
<1>4. Nat \subseteq T
  BY <1>2, <1>3, SetInduction
<1>5. ASSUME NEW k \in 0..n PROVE b[k] <= b[n]
  <2>1. n - k \in Nat /\ n - k <= n /\ n - (n - k) = k
    OBVIOUS
  <2>2. n - k \in T
    BY <1>4, <2>1
  <2>3. b[n - (n - k)] <= b[n]
    BY <2>1, <2>2 DEF T
  <2> QED
    BY <2>1, <2>3
<1> QED
  BY <1>5
=============================================================================
