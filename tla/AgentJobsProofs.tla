-------------------------- MODULE AgentJobsProofs --------------------------
(***************************************************************************)
(* Proofs about AgentJobs for every batch, every limit, any set of child   *)
(* processes and any sequence of writes.                                   *)
(*                                                                         *)
(* The first part is about sums over sets of jobs, for UploadsAreBounded.  *)
(* MapThenSumSet is a recursive function; that it exists and what it       *)
(* computes is shown by induction on the size of a set (SetInduction).     *)
(***************************************************************************)
EXTENDS AgentJobs, FoldLemmas, FiniteSetTheorems, TLAPS

(* The functions that add up the bytes of the jobs j over subsets of S. *)
Adds(g, Sub, j) ==
    g = [s \in Sub |-> IF s = {} THEN 0
                       ELSE LET x == CHOOSE x \in s : TRUE IN j[x].bytes + g[s \ {x}]]

(* The one a sum over S uses, and the sum. *)
Adder(j, S) == CHOOSE g : Adds(g, SUBSET S, j)
Sum(j, S) == Adder(j, S)[S]

(* The property in terms of that sum, now and after a step. *)
LEMMA BoundedSum ==
    /\ UploadsAreBounded <=> /\ \A k \in written : jobs[k].bytes <= MaxFileBytes
                             /\ Sum(jobs, written) <= MaxBodyBytes
    /\ UploadsAreBounded' <=> /\ \A k \in written' : jobs'[k].bytes <= MaxFileBytes
                              /\ Sum(jobs', written') <= MaxBodyBytes
BY Zenon DEF UploadsAreBounded, MapThenSumSet, MapThenFoldSet, Adds, Adder, Sum

(* The element a fold takes out of a set. *)
Pick(s) == CHOOSE x \in s : TRUE

LEMMA PickFacts ==
    ASSUME NEW S, IsFiniteSet(S), S # {}
    PROVE  /\ Pick(S) \in S
           /\ IsFiniteSet(S \ {Pick(S)})
           /\ Cardinality(S \ {Pick(S)}) + 1 = Cardinality(S)
           /\ Cardinality(S) \in Nat /\ Cardinality(S \ {Pick(S)}) \in Nat
<1>1. Pick(S) \in S
  BY Zenon DEF Pick
<1>2. Cardinality(S) \in Nat
  BY FS_CardinalityType
<1>3. IsFiniteSet(S \ {Pick(S)}) /\ Cardinality(S \ {Pick(S)}) = Cardinality(S) - 1
  BY <1>1, FS_RemoveElement
<1>4. Cardinality(S \ {Pick(S)}) \in Nat
  BY <1>3, FS_CardinalityType
<1> QED
  BY <1>1, <1>2, <1>3, <1>4

(* The equation of such a function, without its CHOOSE. *)
LEMMA AddsAt ==
    ASSUME NEW g, NEW Sub, NEW j, Adds(g, Sub, j), NEW s \in Sub
    PROVE  g[s] = IF s = {} THEN 0 ELSE j[Pick(s)].bytes + g[s \ {Pick(s)}]
BY DEF Adds, Pick

(* The subsets of S with at most n elements. *)
Small(S, n) == {s \in SUBSET S : Cardinality(s) <= n}

LEMMA SmallFacts ==
    ASSUME NEW S, IsFiniteSet(S), NEW n \in Nat
    PROVE  /\ \A s \in Small(S, n) : s \in SUBSET S /\ IsFiniteSet(s) /\ Cardinality(s) \in Nat
           /\ \A s \in Small(S, 0) : s = {}
           /\ \A s \in Small(S, n + 1) : \A x \in s : s \ {x} \in Small(S, n)
           /\ \A s \in Small(S, n) : \A x \in s : s \ {x} \in Small(S, n)
           /\ Small(S, Cardinality(S)) = SUBSET S /\ Cardinality(S) \in Nat
<1>1. \A m \in Nat : \A s \in Small(S, m) :
          s \in SUBSET S /\ IsFiniteSet(s) /\ Cardinality(s) \in Nat /\ Cardinality(s) <= m
  BY FS_Subset, FS_CardinalityType DEF Small
<1>2. \A s \in Small(S, 0) : s = {}
  BY <1>1, FS_EmptySet
<1>3. ASSUME NEW m \in Nat, NEW s \in Small(S, m), NEW x \in s
      PROVE  s \ {x} \in SUBSET S /\ Cardinality(s \ {x}) = Cardinality(s) - 1
  <2>1. IsFiniteSet(s)
    BY <1>1
  <2>2. Cardinality(s \ {x}) = Cardinality(s) - 1
    BY <2>1, FS_RemoveElement
  <2> QED
    BY <1>1, <2>2
<1>4. ASSUME NEW s \in Small(S, n + 1), NEW x \in s PROVE s \ {x} \in Small(S, n)
  <2>1. n + 1 \in Nat /\ Cardinality(s) \in Nat /\ Cardinality(s) <= n + 1
    BY <1>1
  <2>2. s \ {x} \in SUBSET S /\ Cardinality(s \ {x}) = Cardinality(s) - 1
    BY <1>3, <2>1
  <2> QED
    BY <2>1, <2>2 DEF Small
<1>5. ASSUME NEW s \in Small(S, n), NEW x \in s PROVE s \ {x} \in Small(S, n)
  <2>1. Cardinality(s) \in Nat /\ Cardinality(s) <= n
    BY <1>1
  <2>2. s \ {x} \in SUBSET S /\ Cardinality(s \ {x}) = Cardinality(s) - 1
    BY <1>3
  <2> QED
    BY <2>1, <2>2 DEF Small
<1>6. Small(S, Cardinality(S)) = SUBSET S /\ Cardinality(S) \in Nat
  BY FS_Subset, FS_CardinalityType DEF Small
<1> QED
  BY <1>1, <1>2, <1>4, <1>5, <1>6

(* There is such a function, for every finite set. *)
LEMMA AddsExists ==
    ASSUME NEW j, NEW S, IsFiniteSet(S)
    PROVE  \E g : Adds(g, SUBSET S, j)
<1> DEFINE T == {n \in Nat : \E g : Adds(g, Small(S, n), j)}
<1>1. 0 \in T
  <2> DEFINE g == [s \in Small(S, 0) |-> 0]
  <2>1. \A s \in Small(S, 0) : s = {}
    BY SmallFacts
  <2>2. Adds(g, Small(S, 0), j)
    BY <2>1 DEF Adds
  <2> QED
    BY <2>2
<1>2. ASSUME NEW n \in Nat, n \in T PROVE n + 1 \in T
  <2>1. PICK g : Adds(g, Small(S, n), j)
    BY <1>2
  <2> DEFINE h == [s \in Small(S, n + 1) |->
                      IF s = {} THEN 0 ELSE j[Pick(s)].bytes + g[s \ {Pick(s)}]]
  <2>2. ASSUME NEW s \in Small(S, n + 1), s # {}
        PROVE  s \ {Pick(s)} \in Small(S, n) /\ s \ {Pick(s)} \in Small(S, n + 1)
    BY <2>2, PickFacts, FS_Subset DEF Small
  <2>3. \A s \in Small(S, n) : s \in Small(S, n + 1) /\ h[s] = g[s]
    <3> SUFFICES ASSUME NEW s \in Small(S, n) PROVE s \in Small(S, n + 1) /\ h[s] = g[s]
      OBVIOUS
    <3>1. s \in Small(S, n + 1)
      BY FS_Subset, FS_CardinalityType DEF Small
    <3> QED
      BY <2>1, <3>1, AddsAt
  <2>4. \A s \in Small(S, n + 1) : s # {} => h[s \ {Pick(s)}] = g[s \ {Pick(s)}]
    BY <2>2, <2>3
  <2>5. h = [s \in Small(S, n + 1) |->
                IF s = {} THEN 0 ELSE j[Pick(s)].bytes + h[s \ {Pick(s)}]]
    BY <2>4
  <2> HIDE DEF h
  <2>6. Adds(h, Small(S, n + 1), j)
    BY <2>5 DEF Adds, Pick
  <2> QED
    BY <2>6
<1> HIDE DEF T
<1>3. Nat \subseteq T
  BY <1>1, <1>2, SetInduction
<1>4. Small(S, Cardinality(S)) = SUBSET S /\ Cardinality(S) \in Nat
  BY SmallFacts
<1> QED
  BY <1>3, <1>4 DEF T

LEMMA AdderAdds ==
    ASSUME NEW j, NEW S, IsFiniteSet(S)
    PROVE  Adds(Adder(j, S), SUBSET S, j)
BY AddsExists, Zenon DEF Adder

(* The function that adds up subsets of S, and those of a larger set, agree. *)
LEMMA AddsAgree ==
    ASSUME NEW j, NEW S, IsFiniteSet(S), NEW k
    PROVE  Adder(j, S)[S] = Adder(j, S \cup {k})[S]
<1> DEFINE T == S \cup {k}
           g == Adder(j, S)
           h == Adder(j, T)
<1>c. Adds(g, SUBSET S, j) /\ Adds(h, SUBSET T, j)
  <2>1. IsFiniteSet(T)
    BY FS_AddElement
  <2> QED
    BY <2>1, AdderAdds
<1> HIDE DEF g, h
<1> DEFINE N == {n \in Nat : \A s \in Small(S, n) : g[s] = h[s]}
<1>a. \A s \in SUBSET S : g[s] = IF s = {} THEN 0 ELSE j[Pick(s)].bytes + g[s \ {Pick(s)}]
  BY <1>c DEF Adds, Pick
<1>b. \A s \in SUBSET T : h[s] = IF s = {} THEN 0 ELSE j[Pick(s)].bytes + h[s \ {Pick(s)}]
  BY <1>c DEF Adds, Pick
<1>0. g[{}] = 0 /\ h[{}] = 0
  <2>1. {} \in SUBSET S /\ {} \in SUBSET T
    OBVIOUS
  <2> QED
    BY <2>1, <1>a, <1>b
<1>1. 0 \in N
  BY <1>0, SmallFacts
<1>2. ASSUME NEW n \in Nat, n \in N PROVE n + 1 \in N
  <2> SUFFICES ASSUME NEW s \in Small(S, n + 1) PROVE g[s] = h[s]
    OBVIOUS
  <2>1. CASE s # {}
    <3>1. s \in SUBSET S /\ s \in SUBSET T /\ IsFiniteSet(s)
      BY SmallFacts
    <3>2. g[s] = j[Pick(s)].bytes + g[s \ {Pick(s)}]
      BY <2>1, <3>1, <1>a
    <3>3. h[s] = j[Pick(s)].bytes + h[s \ {Pick(s)}]
      BY <2>1, <3>1, <1>b
    <3>4. s \ {Pick(s)} \in Small(S, n)
      BY <2>1, <3>1, PickFacts, SmallFacts
    <3> QED
      BY <1>2, <3>2, <3>3, <3>4
  <2> QED
    BY <1>0, <2>1
<1> HIDE DEF N
<1>3. Nat \subseteq N
  BY <1>1, <1>2, SetInduction
<1>4. S \in Small(S, Cardinality(S)) /\ Cardinality(S) \in Nat
  BY SmallFacts
<1>5. g[S] = h[S]
  BY <1>3, <1>4 DEF N
<1> QED
  BY <1>5 DEF g, h

(* Adding up natural numbers gives one, in whatever order. *)
LEMMA AddsOrder ==
    ASSUME NEW j, NEW S, IsFiniteSet(S), \A k \in S : j[k].bytes \in Nat
    PROVE  /\ Adder(j, S)[S] \in Nat
           /\ \A x \in S : Adder(j, S)[S] = j[x].bytes + Adder(j, S)[S \ {x}]
<1> DEFINE g == Adder(j, S)
<1>c. Adds(g, SUBSET S, j)
  BY AdderAdds
<1> HIDE DEF g
<1> DEFINE Right(s) == g[s] \in Nat /\ \A x \in s : g[s] = j[x].bytes + g[s \ {x}]
<1> DEFINE N == {n \in Nat : \A s \in Small(S, n) : Right(s)}
<1>0. g[{}] = 0
  <2>1. {} \in SUBSET S
    OBVIOUS
  <2> QED
    BY <1>c, <2>1, AddsAt
<1>1. 0 \in N
  <2>1. \A s \in Small(S, 0) : s = {}
    BY SmallFacts
  <2>2. Right({})
    BY <1>0
  <2>3. \A s \in Small(S, 0) : Right(s)
    BY <2>1, <2>2, Zenon
  <2> QED
    BY <2>3
<1>2. ASSUME NEW n \in Nat, n \in N PROVE n + 1 \in N
  <2> SUFFICES ASSUME NEW s \in Small(S, n + 1) PROVE Right(s)
    OBVIOUS
  <2>1. CASE s = {}
    BY <1>0, <2>1
  <2>2. CASE s # {}
    <3> DEFINE y == Pick(s)
    <3>0. s \in SUBSET S /\ IsFiniteSet(s)
      BY SmallFacts
    <3>1. y \in s /\ g[s] = j[y].bytes + g[s \ {y}]
      <4>1. Pick(s) \in s
        BY <2>2, <3>0, PickFacts
      <4> QED
        BY <1>c, <2>2, <3>0, <4>1, AddsAt
    <3> HIDE DEF y
    <3>2. \A x \in s : s \ {x} \in Small(S, n) /\ Right(s \ {x})
      <4>1. \A x \in s : s \ {x} \in Small(S, n)
        BY SmallFacts
      <4>2. \A t \in Small(S, n) : Right(t)
        BY <1>2
      <4> QED
        BY <4>1, <4>2, Zenon
    <3>3. \A x \in s : j[x].bytes \in Nat
      BY <3>0
    <3>4. g[s] \in Nat
      <4>1. g[s \ {y}] \in Nat
        BY <3>1, <3>2
      <4> QED
        BY <3>1, <3>3, <4>1
    <3>5. ASSUME NEW x \in s, x # y PROVE g[s] = j[x].bytes + g[s \ {x}]
      <4>1. g[s \ {y}] = j[x].bytes + g[(s \ {y}) \ {x}]
        BY <3>1, <3>2, <3>5
      <4>2. g[s \ {x}] = j[y].bytes + g[(s \ {x}) \ {y}]
        BY <3>1, <3>2, <3>5
      <4>3. (s \ {x}) \ {y} = (s \ {y}) \ {x}
        OBVIOUS
      <4>4. g[(s \ {x}) \ {y}] \in Nat
        <5>1. y \in s \ {x} /\ s \ {x} \in Small(S, n)
          BY <3>1, <3>2, <3>5
        <5>2. (s \ {x}) \ {y} \in Small(S, n)
          BY <5>1, SmallFacts
        <5> QED
          BY <1>2, <5>2
      <4> DEFINE r == g[(s \ {x}) \ {y}]
                 a == j[x].bytes
                 b == j[y].bytes
      <4>5. a \in Nat /\ b \in Nat /\ r \in Nat
        BY <3>1, <3>3, <4>4
      <4>6. g[s] = b + (a + r) /\ g[s \ {x}] = b + r
        BY <3>1, <4>1, <4>2, <4>3
      <4> HIDE DEF r, a, b
      <4>7. g[s] = a + g[s \ {x}]
        BY <4>5, <4>6
      <4> QED
        BY <4>7 DEF a
    <3> QED
      BY <3>1, <3>4, <3>5
  <2> QED
    BY <2>1, <2>2
<1> HIDE DEF N
<1>3. Nat \subseteq N
  BY <1>1, <1>2, SetInduction
<1>4. S \in Small(S, Cardinality(S)) /\ Cardinality(S) \in Nat
  BY SmallFacts
<1>5. Right(S)
  BY <1>3, <1>4 DEF N
<1> QED
  BY <1>5 DEF g

(* What the proofs about uploads need: the sum over no job, and over one   *)
(* job more.                                                               *)
LEMMA SumEmpty ==
    ASSUME NEW j
    PROVE  Sum(j, {}) = 0
<1>1. Adds(Adder(j, {}), SUBSET {}, j)
  BY AdderAdds, FS_EmptySet
<1>2. {} \in SUBSET {}
  OBVIOUS
<1> QED
  BY <1>1, <1>2, AddsAt DEF Sum

LEMMA SumFacts ==
    ASSUME NEW j, NEW S, IsFiniteSet(S), NEW k, k \notin S,
           \A i \in S \cup {k} : j[i].bytes \in Nat
    PROVE  /\ Sum(j, S) \in Nat
           /\ Sum(j, S \cup {k}) = j[k].bytes + Sum(j, S)
<1> DEFINE T == S \cup {k}
<1>1. IsFiniteSet(T)
  BY FS_AddElement
<1>2. k \in T /\ T \ {k} = S /\ \A i \in T : j[i].bytes \in Nat
  OBVIOUS
<1>3. Adder(j, T)[S] = Adder(j, S)[S]
  BY AddsAgree
<1> HIDE DEF T
<1>4. Adder(j, T)[T] = j[k].bytes + Adder(j, T)[S]
  BY <1>1, <1>2, AddsOrder
<1>5. Adder(j, S)[S] \in Nat
  BY AddsOrder
<1> QED
  BY <1>3, <1>4, <1>5 DEF T, Sum

-----------------------------------------------------------------------------
(* Until the batch is over, each job before the one at work has its        *)
(* result, a good one.                                                     *)
ProgressInv ==
    /\ phase \in {"check", "next", "exec"} =>
          /\ at = Len(results) + 1
          /\ \A k \in DOMAIN results : results[k].ok
          /\ status = 0
    /\ phase \in {"next", "exec"} => at <= Len(jobs)

CheckInv == phase = "check" => at = 1 /\ results = <<>>

(* Only jobs before the one at work have written files, and until the      *)
(* batch is over the counter covers all of them.                           *)
UploadInv ==
    /\ \A k \in written : k < at
    /\ phase # "done" => Sum(jobs, written) <= uploaded

(* A job that timed out is one of the batch. *)
TimedOutInv == \A k \in DOMAIN results : results[k].timedOut => k \in DOMAIN jobs

Inv ==
    /\ TypeOK /\ ProgressInv /\ CheckInv /\ UploadInv /\ TimedOutInv
    /\ StatusIsVerdict /\ UploadsAreBounded /\ CaptureIsPrefix /\ TimedOutGroupIsDead

(* Jobs, and what a step that ends one does to the results. *)
LEMMA JobFacts ==
    ASSUME TypeOK
    PROVE  /\ Len(jobs) \in Nat /\ DOMAIN jobs = 1..Len(jobs)
           /\ \A k \in DOMAIN jobs : jobs[k] \in Job /\ jobs[k].bytes \in Nat
           /\ Len(results) \in Nat /\ DOMAIN results = 1..Len(results)
           /\ IsFiniteSet(written)
<1>1. jobs \in Seq(Job)
  BY BatchAssumption DEF TypeOK
<1>2. Len(jobs) \in Nat /\ DOMAIN jobs = 1..Len(jobs) /\ \A k \in DOMAIN jobs : jobs[k] \in Job
  BY <1>1
<1>3. Len(results) \in Nat /\ DOMAIN results = 1..Len(results)
  BY DEF TypeOK
<1>4. IsFiniteSet(written)
  <2>1. IsFiniteSet(1..Len(jobs)) /\ written \in SUBSET (1..Len(jobs))
    BY <1>2, FS_Interval DEF TypeOK
  <2> QED
    BY <2>1, FS_Subset
<1> QED
  BY <1>2, <1>3, <1>4 DEF Job

LEMMA InvInit == Init => Inv
<1> SUFFICES ASSUME Init PROVE Inv
  OBVIOUS
<1>1. TypeOK
  <2>1. jobs \in Seq(Job) /\ Len(jobs) \in Nat
    BY BatchAssumption DEF Init
  <2>2. hungUp \in BOOLEAN
    BY Zenon DEF Init
  <2>3. results \in Seq([ok: BOOLEAN, timedOut: BOOLEAN])
    BY DEF Init
  <2> QED
    BY <2>1, <2>2, <2>3, LimitAssumption DEF Init, TypeOK
<1>2. ProgressInv /\ CheckInv /\ TimedOutInv /\ StatusIsVerdict /\ TimedOutGroupIsDead
  BY DEF Init, ProgressInv, CheckInv, TimedOutInv, StatusIsVerdict, TimedOutGroupIsDead
<1>3. CaptureIsPrefix
  BY LimitAssumption DEF Init, CaptureIsPrefix
<1>4. Sum(jobs, {}) = 0
  BY SumEmpty
<1>5. UploadInv /\ UploadsAreBounded
  BY <1>4, BoundedSum, LimitAssumption DEF Init, UploadInv
<1> QED
  BY <1>1, <1>2, <1>3, <1>5 DEF Inv

-----------------------------------------------------------------------------
(* The types and the part of the invariant that the loop of runBatch keeps. *)
LoopTypes ==
    /\ jobs \in Batches
    /\ phase \in {"check", "next", "exec", "done"}
    /\ at \in 1..Len(jobs) + 1
    /\ results \in Seq([ok: BOOLEAN, timedOut: BOOLEAN])
    /\ status \in {0, 200, 400}

LoopInv == LoopTypes /\ ProgressInv /\ StatusIsVerdict

(* The end of a job, good or bad. *)
LEMMA JobEndsFacts ==
    ASSUME Inv, phase \in {"next", "exec"}, NEW ok \in BOOLEAN, NEW t \in BOOLEAN,
           JobEnds(ok, t)
    PROVE  /\ LoopInv'
           /\ jobs' = jobs /\ at' = at + 1 /\ at \in DOMAIN jobs
           /\ phase' \in {"next", "done"} /\ (~ok => phase' = "done")
           /\ DOMAIN results' = DOMAIN results \cup {at}
           /\ \A k \in DOMAIN results : results'[k] = results[k] /\ k # at
           /\ results'[at].timedOut = t
<1> USE JobFacts DEF Inv, TypeOK
<1>1. at = Len(results) + 1 /\ at <= Len(jobs) /\ at \in Nat
  BY DEF ProgressInv
<1> DEFINE r == [ok |-> ok, timedOut |-> t]
<1>2. r \in [ok: BOOLEAN, timedOut: BOOLEAN] /\ r.ok = ok /\ r.timedOut = t
  OBVIOUS
<1>3. results' = Append(results, r)
  BY DEF JobEnds
<1> HIDE DEF r
<1>4. /\ results' \in Seq([ok: BOOLEAN, timedOut: BOOLEAN])
      /\ Len(results') = Len(results) + 1
      /\ DOMAIN results' = 1..Len(results) + 1
      /\ results'[at] = r
      /\ \A k \in DOMAIN results : results'[k] = results[k] /\ k # at
  BY <1>1, <1>2, <1>3
<1>5. jobs' = jobs /\ at' = at + 1 /\ at \in DOMAIN jobs
      /\ phase' \in {"next", "done"} /\ (~ok => phase' = "done")
  BY <1>1 DEF JobEnds
<1>6. DOMAIN results' = DOMAIN results \cup {at}
  BY <1>1, <1>4
<1>7. status' = IF ~ok THEN 400 ELSE IF at < Len(jobs) THEN 0 ELSE 200
  BY DEF JobEnds
<1>8. phase' = "next" => ok /\ at < Len(jobs)
  BY DEF JobEnds
<1>9. LoopTypes'
  BY <1>1, <1>4, <1>5, <1>7 DEF LoopTypes
<1>10. \A k \in DOMAIN results : results[k].ok
  BY DEF ProgressInv
<1>11. ok => \A k \in DOMAIN results' : results'[k].ok
  <2> SUFFICES ASSUME ok, NEW k \in DOMAIN results' PROVE results'[k].ok
    OBVIOUS
  <2>1. CASE k = at
    <3>1. results'[k] = r
      BY <1>4, <2>1
    <3> QED
      BY <1>2, <3>1, Zenon
  <2>2. CASE k \in DOMAIN results
    <3>1. results'[k] = results[k]
      BY <1>4, <2>2
    <3> QED
      BY <1>10, <2>2, <3>1, Zenon
  <2> QED
    BY <1>6, <2>1, <2>2
<1>12. ProgressInv'
  <2>1. phase' = "next" => at' = Len(results') + 1 /\ status' = 0 /\ at' <= Len(jobs')
    BY <1>1, <1>4, <1>5, <1>7, <1>8
  <2>2. phase' = "next" => \A k \in DOMAIN results' : results'[k].ok
    BY <1>8, <1>11, Zenon
  <2> QED
    BY <1>5, <2>1, <2>2 DEF ProgressInv
<1>13. StatusIsVerdict'
  <2>1. CASE ok
    <3>1. \A k \in DOMAIN results' : results'[k].ok
      BY <1>11, <2>1, Zenon
    <3>2. status' # 400 /\ (status' = 200 => Len(results') = Len(jobs'))
      BY <1>1, <1>4, <1>5, <1>7, <2>1
    <3> QED
      BY <3>1, <3>2 DEF StatusIsVerdict
  <2>2. CASE ~ok
    <3>1. ~results'[Len(results')].ok
      BY <1>1, <1>2, <1>4, <2>2
    <3>2. \A k \in 1..Len(results') - 1 : results'[k].ok
      BY <1>1, <1>4, <1>10
    <3>3. status' = 400
      BY <1>7, <2>2
    <3> QED
      BY <3>1, <3>2, <3>3 DEF StatusIsVerdict
  <2> QED
    BY <2>1, <2>2
<1> QED
  BY <1>2, <1>4, <1>5, <1>6, <1>9, <1>12, <1>13 DEF LoopInv

(* The steps that neither end a job nor begin or end the batch. *)
LEMMA LoopKept ==
    ASSUME Inv, UNCHANGED batchVars,
           \/ phase' = phase
           \/ phase = "check" /\ phase' = "next" /\ jobs # <<>>
           \/ phase = "next" /\ phase' = "exec"
    PROVE  LoopInv'
<1> USE JobFacts DEF Inv, TypeOK, batchVars
<1>1. LoopTypes'
  BY DEF LoopTypes
<1>2. phase = "check" /\ jobs # <<>> => at <= Len(jobs)
  <2> SUFFICES ASSUME phase = "check", jobs # <<>> PROVE at <= Len(jobs)
    OBVIOUS
  <2>1. jobs \in Seq(Job) /\ Len(jobs) # 0
    BY BatchAssumption
  <2>2. at = 1
    BY DEF CheckInv
  <2> QED
    BY <2>1, <2>2
<1>3. ProgressInv' /\ StatusIsVerdict'
  BY <1>2 DEF ProgressInv, StatusIsVerdict
<1> QED
  BY <1>1, <1>3 DEF LoopInv

LEMMA RejectKeeps ==
    ASSUME Inv, RejectBatch
    PROVE  LoopInv'
<1> DEFINE r == [ok |-> FALSE, timedOut |-> FALSE]
<1>1. r \in [ok: BOOLEAN, timedOut: BOOLEAN] /\ ~r.ok /\ results' = <<r>>
  BY DEF RejectBatch
<1> HIDE DEF r
<1> QED
  BY <1>1 DEF RejectBatch, Inv, TypeOK, LoopInv, LoopTypes, ProgressInv, StatusIsVerdict

-----------------------------------------------------------------------------
(* What the uploads, the processes and the output add to the invariant. *)
UploadPart ==
    /\ uploaded \in Nat /\ written \subseteq DOMAIN jobs
    /\ UploadInv /\ UploadsAreBounded

ProcPart ==
    /\ procs \in [DOMAIN jobs -> [Children -> {"none", "pipe", "quiet", "gone"}]]
    /\ TimedOutInv /\ TimedOutGroupIsDead

OutputPart ==
    /\ produced \in [Streams -> 0..MaxOutput]
    /\ captured \in [Streams -> Nat]
    /\ CaptureIsPrefix

CommandPart ==
    /\ hungUp \in BOOLEAN
    /\ leader \in {"running", "exited"}
    /\ cause \in {"none", "deadline", "canceled"}

(* The parts together are the invariant. *)
LEMMA InvParts ==
    ASSUME LoopInv', CheckInv', UploadPart', ProcPart', OutputPart', CommandPart'
    PROVE  Inv'
<1>1. TypeOK'
  BY DEF TypeOK, LoopInv, LoopTypes, UploadPart, ProcPart, OutputPart, CommandPart
<1> QED
  BY <1>1 DEF Inv, LoopInv, UploadPart, ProcPart, OutputPart

(* A step that uploads nothing. *)
LEMMA UploadsKept ==
    ASSUME Inv, jobs' = jobs, UNCHANGED uploads, at' \in {at, at + 1},
           phase' = "done" \/ phase # "done"
    PROVE  UploadPart'
<1> USE DEF Inv, TypeOK, uploads
<1>1. \A k \in written : k \in Nat /\ k < at /\ at \in Nat
  BY JobFacts DEF UploadInv
<1>2. UploadInv'
  BY <1>1 DEF UploadInv
<1>3. UploadsAreBounded'
  BY BoundedSum
<1> QED
  BY <1>2, <1>3 DEF UploadPart

(* A file is counted and then, if the batch has room for it, written.      *)
(* Until now everything written was counted, so its sum with the new file  *)
(* is no more than the count that was compared with the limit.             *)
LEMMA WriteKeeps ==
    ASSUME Inv, WriteCounted
    PROVE  UploadPart'
<1> USE DEF Inv, TypeOK
<1>1. /\ phase = "next" /\ at \in DOMAIN jobs
      /\ jobs' = jobs /\ at' = at + 1 /\ phase' \in {"next", "done"}
      /\ jobs[at].bytes <= MaxFileBytes
      /\ uploaded' = uploaded + jobs[at].bytes
      /\ \/ written' = written /\ phase' = "done"
         \/ /\ uploaded + jobs[at].bytes <= MaxBodyBytes
            /\ written' \in {written, written \cup {at}}
  <2>1. phase = "next" /\ phase \in {"next", "exec"} /\ FALSE \in BOOLEAN
    BY DEF WriteCounted, AtJob
  <2>2. CASE JobEnds(FALSE, FALSE) /\ UNCHANGED written
    BY <2>1, <2>2, JobEndsFacts DEF WriteCounted
  <2>3. CASE /\ BatchHasRoom(jobs[at].bytes)
             /\ \E ok \in BOOLEAN :
                  /\ JobEnds(ok, FALSE)
                  /\ written' \in IF ok THEN {written \cup {at}}
                                  ELSE {written, written \cup {at}}
    <3>1. PICK ok \in BOOLEAN :
              /\ JobEnds(ok, FALSE)
              /\ written' \in IF ok THEN {written \cup {at}}
                              ELSE {written, written \cup {at}}
      BY <2>3
    <3>2. /\ jobs' = jobs /\ at' = at + 1 /\ at \in DOMAIN jobs
          /\ phase' \in {"next", "done"}
      BY <2>1, <3>1, JobEndsFacts
    <3> QED
      BY <2>1, <2>3, <3>1, <3>2 DEF WriteCounted, BatchHasRoom
  <2> QED
    BY <2>2, <2>3 DEF WriteCounted
<1>2. \A k \in written : k \in Nat /\ k < at
  BY JobFacts DEF UploadInv
<1>3. at \in Nat /\ at \notin written /\ jobs[at].bytes \in Nat
  BY <1>1, <1>2, JobFacts
<1>4. Sum(jobs, written) \in Nat
      /\ Sum(jobs, written \cup {at}) = jobs[at].bytes + Sum(jobs, written)
  <2>1. \A i \in written \cup {at} : jobs[i].bytes \in Nat
    BY <1>1, JobFacts
  <2>2. IsFiniteSet(written)
    BY JobFacts
  <2> QED
    BY <1>3, <2>1, <2>2, SumFacts
<1>5. Sum(jobs, written) <= uploaded
  BY <1>1 DEF UploadInv
<1>6. (\A k \in written : jobs[k].bytes <= MaxFileBytes) /\ Sum(jobs, written) <= MaxBodyBytes
  BY BoundedSum
<1> DEFINE b == jobs[at].bytes
<1> HIDE DEF b
<1>7. b \in Nat /\ Sum(jobs, written \cup {at}) = b + Sum(jobs, written)
      /\ uploaded' = uploaded + b /\ jobs[at].bytes = b
      /\ (written' = written \/ (uploaded + b <= MaxBodyBytes /\ written' = written \cup {at}))
  BY <1>1, <1>3, <1>4 DEF b
<1>8. Sum(jobs', written') <= uploaded' /\ Sum(jobs', written') <= MaxBodyBytes
  <2>1. CASE written' = written
    <3>1. Sum(jobs', written') = Sum(jobs, written)
      BY <1>1, <2>1
    <3> QED
      BY <1>4, <1>5, <1>6, <1>7, <3>1
  <2>2. CASE uploaded + b <= MaxBodyBytes /\ written' = written \cup {at}
    <3>1. Sum(jobs', written') = b + Sum(jobs, written)
      BY <1>1, <1>7, <2>2
    <3> QED
      BY <1>4, <1>5, <1>7, <2>2, <3>1, LimitAssumption
  <2> QED
    BY <1>7, <2>1, <2>2
<1>9. \A k \in written' : k < at' /\ k \in DOMAIN jobs' /\ jobs'[k].bytes <= MaxFileBytes
  BY <1>1, <1>2, <1>3, <1>6, <1>7
<1>10. UploadInv'
  BY <1>8, <1>9 DEF UploadInv
<1>11. UploadsAreBounded'
  BY <1>8, <1>9, BoundedSum
<1> QED
  BY <1>7, <1>9, <1>10, <1>11 DEF UploadPart

-----------------------------------------------------------------------------
(* What is kept of the output. *)
LEMMA OutputKeeps ==
    ASSUME Inv, NEW s \in Streams, NEW n \in Chunks, Output(s, n)
    PROVE  OutputPart'
<1> USE DEF Inv, TypeOK
<1>1. n \in Nat /\ produced[s] \in Nat /\ captured[s] \in Nat /\ MaxOutput \in Nat
  BY LimitAssumption
<1>2. /\ produced' = [produced EXCEPT ![s] = produced[s] + n]
      /\ captured' = [captured EXCEPT ![s] = Keep(captured[s], n)]
      /\ produced[s] + n <= MaxOutput
  BY DEF Output
<1>3. captured[s] = IF produced[s] <= OutputLimit THEN produced[s] ELSE OutputLimit
  BY DEF CaptureIsPrefix
<1>4. /\ Keep(captured[s], n) \in Nat
      /\ Keep(captured[s], n) = IF produced[s] + n <= OutputLimit THEN produced[s] + n
                                ELSE OutputLimit
  BY <1>1, <1>3, LimitAssumption DEF Keep
<1>5. produced' \in [Streams -> 0..MaxOutput] /\ captured' \in [Streams -> Nat]
  BY <1>1, <1>2, <1>4
<1>6. CaptureIsPrefix'
  <2> SUFFICES ASSUME NEW t \in Streams
               PROVE  captured'[t] = IF produced'[t] <= OutputLimit THEN produced'[t]
                                     ELSE OutputLimit
    BY DEF CaptureIsPrefix
  <2>1. CASE t = s
    BY <1>2, <1>4, <2>1
  <2>2. CASE t # s
    BY <1>2, <2>2 DEF CaptureIsPrefix
  <2> QED
    BY <2>1, <2>2
<1> QED
  BY <1>5, <1>6 DEF OutputPart

LEMMA OutputKept ==
    ASSUME Inv, UNCHANGED output
    PROVE  OutputPart'
BY DEF Inv, TypeOK, output, OutputPart, CaptureIsPrefix

-----------------------------------------------------------------------------
(* No process comes alive in the group of a job that timed out. *)
LEMMA ProcsMove ==
    ASSUME Inv, jobs' = jobs, results' = results,
           procs' \in [DOMAIN jobs -> [Children -> {"none", "pipe", "quiet", "gone"}]],
           \A k \in DOMAIN jobs \cap DOMAIN results : Live(k)' \subseteq Live(k)
    PROVE  ProcPart'
BY DEF Inv, TimedOutInv, TimedOutGroupIsDead, ProcPart

(* Only the job at work, which has no result yet, forks. *)
LEMMA ForkKeeps ==
    ASSUME Inv, NEW c \in Children, Fork(c)
    PROVE  ProcPart'
<1> USE DEF Inv, TypeOK
<1>1. /\ procs' = [procs EXCEPT ![at][c] = "pipe"]
      /\ jobs' = jobs /\ results' = results /\ phase = "exec"
  BY DEF Fork, batchVars
<1>2. at \in DOMAIN jobs /\ at \notin DOMAIN results
  BY <1>1, JobFacts DEF ProgressInv
<1>3. procs' \in [DOMAIN jobs -> [Children -> {"none", "pipe", "quiet", "gone"}]]
  BY <1>1, <1>2
<1>4. \A k \in DOMAIN jobs \cap DOMAIN results : procs'[k] = procs[k]
  BY <1>1, <1>2
<1>5. \A k \in DOMAIN jobs \cap DOMAIN results : Live(k)' \subseteq Live(k)
  BY <1>4 DEF Live
<1> QED
  BY <1>1, <1>3, <1>5, ProcsMove

(* A child closes the pipe or exits. *)
LEMMA ChildKeeps ==
    ASSUME Inv, NEW k \in DOMAIN jobs, NEW c \in Children, Redirect(k, c) \/ ChildExits(k, c)
    PROVE  ProcPart'
<1> USE DEF Inv, TypeOK
<1>1. PICK v \in {"quiet", "gone"} : procs' = [procs EXCEPT ![k][c] = v]
  BY DEF Redirect, ChildExits
<1>2. c \in Live(k) /\ jobs' = jobs /\ results' = results
  BY DEF Redirect, ChildExits, Live, batchVars
<1>3. procs' \in [DOMAIN jobs -> [Children -> {"none", "pipe", "quiet", "gone"}]]
  BY <1>1
<1>4. \A i \in DOMAIN jobs : Live(i)' \subseteq Live(i)
  BY <1>1, <1>2 DEF Live
<1> QED
  BY <1>2, <1>3, <1>4, ProcsMove

(* The end of a job that did not time out. *)
LEMMA ProcsKept ==
    ASSUME Inv, phase \in {"next", "exec"}, NEW ok \in BOOLEAN, JobEnds(ok, FALSE),
           UNCHANGED procs
    PROVE  ProcPart'
<1>1. /\ jobs' = jobs /\ DOMAIN results' = DOMAIN results \cup {at}
      /\ \A k \in DOMAIN results : results'[k] = results[k]
      /\ results'[at].timedOut = FALSE
  BY JobEndsFacts
<1>2. \A k \in DOMAIN results' : results'[k].timedOut => k \in DOMAIN results /\ results[k].timedOut
  BY <1>1, Zenon
<1> QED
  BY <1>1, <1>2 DEF Inv, TypeOK, ProcPart, TimedOutInv, TimedOutGroupIsDead, Live

(* cmd.Run returns: if the deadline ended the command its group is killed  *)
(* in the step that adds its result.                                       *)
LEMMA ReturnKeeps ==
    ASSUME Inv, ExecReturns
    PROVE  ProcPart'
<1> DEFINE t == cause = "deadline"
<1>1. /\ phase = "exec" /\ phase \in {"next", "exec"} /\ t \in BOOLEAN
      /\ procs' = IF t THEN KillGroup(at) ELSE procs
      /\ JobEnds(TRUE, t) \/ (cause = "canceled" /\ JobEnds(FALSE, FALSE))
  BY DEF ExecReturns
<1>2. CASE ~t
  <2>1. procs' = procs /\ t = FALSE /\ (JobEnds(TRUE, FALSE) \/ JobEnds(FALSE, FALSE))
    BY <1>1, <1>2
  <2> QED
    BY <1>1, <2>1, ProcsKept
<1>3. CASE t
  <2>1. cause # "canceled" /\ t = TRUE
    BY <1>3
  <2>2. JobEnds(TRUE, TRUE) /\ procs' = KillGroup(at)
    BY <1>1, <2>1
  <2>3. /\ jobs' = jobs /\ at \in DOMAIN jobs
        /\ DOMAIN results' = DOMAIN results \cup {at}
        /\ \A k \in DOMAIN results : results'[k] = results[k] /\ k # at
    BY <1>1, <2>2, JobEndsFacts
  <2>4. procs' \in [DOMAIN jobs -> [Children -> {"none", "pipe", "quiet", "gone"}]]
    BY <2>2, <2>3 DEF Inv, TypeOK, KillGroup
  <2>5. /\ \A c \in Children : procs'[at][c] \notin {"pipe", "quiet"}
        /\ \A k \in DOMAIN jobs : k # at => procs'[k] = procs[k]
    BY <2>2, <2>3 DEF Inv, TypeOK, KillGroup, Live
  <2>6. TimedOutInv'
    BY <2>3 DEF Inv, TimedOutInv
  <2>7. ASSUME NEW k \in DOMAIN results', results'[k].timedOut
        PROVE  Live(k)' = {}
    <3>1. CASE k = at
      BY <2>5, <3>1 DEF Live
    <3>2. CASE k # at
      BY <2>3, <2>5, <2>7, <3>2 DEF Inv, TimedOutInv, TimedOutGroupIsDead, Live
    <3> QED
      BY <3>1, <3>2
  <2>8. TimedOutGroupIsDead'
    BY <2>7 DEF TimedOutGroupIsDead
  <2> QED
    BY <2>3, <2>4, <2>6, <2>8 DEF ProcPart
<1> QED
  BY <1>2, <1>3

-----------------------------------------------------------------------------
(* A job that touches neither processes nor output ends. *)
LEMMA PlainJobKeeps ==
    ASSUME Inv, phase \in {"next", "exec"}, NEW ok \in BOOLEAN, JobEnds(ok, FALSE),
           UNCHANGED <<hungUp, command, procs, output>>
    PROVE  /\ LoopInv' /\ CheckInv' /\ ProcPart' /\ OutputPart' /\ CommandPart'
           /\ UNCHANGED uploads => UploadPart'
<1>1. LoopInv' /\ CheckInv' /\ jobs' = jobs /\ at' = at + 1
  BY JobEndsFacts DEF CheckInv
<1>2. ProcPart' /\ OutputPart'
  BY ProcsKept, OutputKept
<1>3. CommandPart'
  BY DEF Inv, TypeOK, command, CommandPart
<1>4. ASSUME UNCHANGED uploads PROVE UploadPart'
  BY <1>1, <1>4, UploadsKept
<1> QED
  BY <1>1, <1>2, <1>3, <1>4

LEMMA InvNext == Inv /\ [Next]_vars => Inv'
<1> SUFFICES ASSUME Inv, [Next]_vars PROVE Inv'
  OBVIOUS
<1> USE DEF Inv
<1>1. CASE RejectBatch
  <2>1. LoopInv' /\ CheckInv'
    BY <1>1, RejectKeeps DEF RejectBatch, CheckInv
  <2>2. UploadPart' /\ OutputPart' /\ CommandPart'
    BY <1>1, UploadsKept, OutputKept DEF RejectBatch, TypeOK, command, CommandPart
  <2>3. ~results'[1].timedOut /\ DOMAIN results' = {1}
    BY <1>1 DEF RejectBatch
  <2>4. ProcPart'
    BY <1>1, <2>3 DEF RejectBatch, TypeOK, ProcPart, TimedOutInv, TimedOutGroupIsDead
  <2> QED
    BY <2>1, <2>2, <2>4, InvParts
<1>2. ASSUME UNCHANGED batchVars, UNCHANGED <<uploads, procs>>,
             \/ phase' = phase
             \/ phase = "check" /\ phase' = "next" /\ jobs # <<>>
             \/ phase = "next" /\ phase' = "exec"
      PROVE  LoopInv' /\ CheckInv' /\ UploadPart' /\ ProcPart'
  <2>1. LoopInv' /\ CheckInv'
    BY <1>2, LoopKept DEF CheckInv, batchVars
  <2>2. UploadPart'
    BY <1>2, UploadsKept DEF batchVars
  <2>3. ProcPart'
    BY <1>2 DEF TypeOK, batchVars, ProcPart, TimedOutInv, TimedOutGroupIsDead, Live
  <2> QED
    BY <2>1, <2>2, <2>3
<1>3. CASE AcceptBatch
  <2>1. OutputPart' /\ CommandPart'
    BY <1>3, OutputKept DEF AcceptBatch, TypeOK, command, CommandPart
  <2> QED
    BY <1>2, <1>3, <2>1, InvParts DEF AcceptBatch
<1>4. ASSUME phase \in {"next", "exec"}, NEW ok \in BOOLEAN, JobEnds(ok, FALSE),
             UNCHANGED <<uploads, hungUp, command, procs, output>>
      PROVE  Inv'
  BY <1>4, PlainJobKeeps, InvParts
<1>5. CASE Mkdir \/ UnknownJob \/ WriteRefused \/ ExecFails
  <2>1. /\ phase \in {"next", "exec"} /\ TRUE \in BOOLEAN /\ FALSE \in BOOLEAN
        /\ JobEnds(TRUE, FALSE) \/ JobEnds(FALSE, FALSE)
        /\ UNCHANGED <<uploads, hungUp, command, procs, output>>
    BY <1>5 DEF Mkdir, UnknownJob, WriteRefused, ExecFails, AtJob
  <2> QED
    BY <1>4, <2>1
<1>6. CASE WriteCounted
  <2>1. PICK ok \in BOOLEAN : JobEnds(ok, FALSE)
    BY <1>6 DEF WriteCounted
  <2>2. phase \in {"next", "exec"} /\ UNCHANGED <<hungUp, command, procs, output>>
    BY <1>6 DEF WriteCounted, AtJob
  <2> QED
    BY <1>6, <2>1, <2>2, PlainJobKeeps, WriteKeeps, InvParts
<1>7. CASE ExecStart
  <2>1. OutputPart'
    BY <1>7, LimitAssumption DEF ExecStart, OutputPart, CaptureIsPrefix
  <2>2. CommandPart'
    BY <1>7 DEF ExecStart, TypeOK, CommandPart
  <2> QED
    BY <1>2, <1>7, <2>1, <2>2, InvParts DEF ExecStart, AtJob
<1>8. CASE ExecReturns
  <2>1. /\ phase \in {"next", "exec"}
        /\ \E ok, t \in BOOLEAN : JobEnds(ok, t)
        /\ UNCHANGED <<uploads, hungUp, command, output>>
    BY <1>8 DEF ExecReturns
  <2>2. LoopInv' /\ CheckInv' /\ jobs' = jobs /\ at' = at + 1
    BY <2>1, JobEndsFacts DEF CheckInv
  <2>3. UploadPart' /\ OutputPart' /\ CommandPart'
    BY <2>1, <2>2, UploadsKept, OutputKept DEF TypeOK, command, CommandPart
  <2> QED
    BY <1>8, <2>2, <2>3, ReturnKeeps, InvParts
<1>9. ASSUME UNCHANGED <<batchVars, phase, uploads, hungUp, command, output>>, ProcPart'
      PROVE  Inv'
  <2>1. LoopInv' /\ CheckInv'
    BY <1>9, LoopKept DEF CheckInv, batchVars
  <2>2. UploadPart' /\ OutputPart' /\ CommandPart'
    BY <1>9, UploadsKept, OutputKept DEF TypeOK, batchVars, command, CommandPart
  <2> QED
    BY <1>9, <2>1, <2>2, InvParts
<1>10. CASE Processes
  <2>1. CASE LeaderExits
    <3>1. OutputPart' /\ CommandPart'
      BY <2>1, OutputKept DEF LeaderExits, TypeOK, CommandPart
    <3> QED
      BY <1>2, <2>1, <3>1, InvParts DEF LeaderExits
  <2>2. ASSUME NEW c \in Children, Fork(c) PROVE Inv'
    BY <1>9, <2>2, ForkKeeps DEF Fork
  <2>3. ASSUME NEW k \in DOMAIN jobs, NEW c \in Children, Redirect(k, c) \/ ChildExits(k, c)
        PROVE  Inv'
    BY <1>9, <2>3, ChildKeeps DEF Redirect, ChildExits
  <2>4. ASSUME NEW s \in Streams, NEW n \in Chunks, Output(s, n) PROVE Inv'
    <3>1. CommandPart'
      BY <2>4 DEF Output, TypeOK, command, CommandPart
    <3> QED
      BY <1>2, <2>4, <3>1, OutputKeeps, InvParts DEF Output
  <2> QED
    BY <1>10, <2>1, <2>2, <2>3, <2>4 DEF Processes
<1>11. CASE Deadline \/ HangUp
  <2>1. OutputPart' /\ UNCHANGED <<batchVars, phase, uploads, procs>>
    BY <1>11, OutputKept DEF Deadline, HangUp
  <2>2. leader' \in {"running", "exited"} /\ cause' \in {"none", "deadline", "canceled"}
    BY <1>11 DEF Deadline, HangUp, ContextEnds, TypeOK
  <2>3. hungUp' \in BOOLEAN
    BY <1>11 DEF Deadline, HangUp, TypeOK
  <2> QED
    BY <1>2, <2>1, <2>2, <2>3, InvParts DEF CommandPart
<1>12. CASE UNCHANGED vars
  <2>1. ProcPart'
    BY <1>12 DEF vars, batchVars, TypeOK, ProcPart, TimedOutInv, TimedOutGroupIsDead, Live
  <2> QED
    BY <1>9, <1>12, <2>1 DEF vars
<1> QED
  BY <1>1, <1>3, <1>5, <1>6, <1>7, <1>8, <1>10, <1>11, <1>12 DEF Next, Agent, Over

-----------------------------------------------------------------------------
LEMMA Invariance == Spec => []Inv
BY InvInit, InvNext, PTL DEF Spec

(* The variables keep their types. *)
THEOREM TypeCorrect == Spec => []TypeOK
BY Invariance, PTL DEF Inv

(* The status of the response is the verdict on the batch: 200 only when   *)
(* every job has a good result, 400 only when the last result is the first *)
(* bad one, whatever the jobs, the deadline and the client do.             *)
THEOREM StatusIsTheVerdict == Spec => []StatusIsVerdict
BY Invariance, PTL DEF Inv

(* The files a batch writes stay under the limit of a file and, summed     *)
(* over all of them, under the limit of the batch, whatever the batch.     *)
THEOREM BatchStaysUnderLimits == Spec => []UploadsAreBounded
BY Invariance, PTL DEF Inv

(* The capture of a stream is its beginning, cut at the limit exactly,     *)
(* however the command and its children cut their output into writes.      *)
THEOREM CaptureIsThePrefix == Spec => []CaptureIsPrefix
BY Invariance, PTL DEF Inv

(* When a job is reported as timed out nobody in its group is alive, and   *)
(* nobody comes alive in it later, however many children there are.        *)
THEOREM TimeoutLeavesNobody == Spec => []TimedOutGroupIsDead
BY Invariance, PTL DEF Inv
=============================================================================
