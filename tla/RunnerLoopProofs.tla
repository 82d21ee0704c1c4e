---------------------------- MODULE RunnerLoopProofs ----------------------------
(***************************************************************************)
(* The fairness counter of the main loop does its work for every           *)
(* FairnessN, every set of jobs and every order of the queue: pull request  *)
(* inspections never fill FairnessN iterations in a row.  What GitHub      *)
(* answers to an inspection does not matter.                               *)
(***************************************************************************)
EXTENDS PrInspection, FiniteSetTheorems, WellFoundedInduction, TLAPS

USE RunnerLoopAssumption

\* How a streak of inspections compares with the place in the counter's cycle.  In
\* an iteration that has begun, the streak is shorter than its number; after it,
\* the streak may have caught up, but not in the last iteration of the cycle.
Streak ==
  /\ at # "top" => iteration >= 1 /\ looks < iteration
  /\ at = "top" => looks <= iteration /\ (iteration = FairnessN => looks = 0)

LoopInv == TypeOK /\ Streak

LEMMA NextIterationInCycle ==
  ASSUME NEW i \in 0..FairnessN
  PROVE  /\ NextLoopIteration(i) \in 1..FairnessN
         /\ i < FairnessN => NextLoopIteration(i) = i + 1
BY DEF NextLoopIteration

LEMMA CountUpBounds ==
  ASSUME NEW n \in Nat
  PROVE  CountUp(n) \in Nat /\ CountUp(n) <= n + 1
BY DEF CountUp

\* A job that moves has some place, and every other job keeps its own.
LEMMA MoveTyped ==
  ASSUME NEW j \in Jobs, NEW target \in Places, Move(j, target),
         place \in [Jobs -> Places], older \in [Jobs -> SUBSET Jobs]
  PROVE  place' \in [Jobs -> Places] /\ older' \in [Jobs -> SUBSET Jobs]
BY DEF Move

LEMMA LoopInvInitial == Init => LoopInv
<1> SUFFICES ASSUME Init PROVE LoopInv
  OBVIOUS
<1>1. place \in [Jobs -> Places]
  BY DEF Init, Places
<1>2. older \in [Jobs -> SUBSET Jobs]
  BY DEF Init
<1>3. iteration = 0 /\ at = "top" /\ looks = 0 /\ arrivals = 0 /\ tests = 0
  BY DEF Init
<1>4. paused \in BOOLEAN /\ inspected \in Jobs \cup {"none"}
  BY DEF Init
<1>5. TypeOK
  BY <1>1, <1>2, <1>3, <1>4 DEF TypeOK, Claims
<1> QED
  BY <1>3, <1>5 DEF LoopInv, Streak

LEMMA StageKeepsInv ==
  ASSUME LoopInv, NEW claim \in Claims \ {"top"}, NEW outcomes \in SUBSET Places,
         NEW next \in Claims \ {"top"}, TryStage(claim, outcomes, next)
  PROVE  LoopInv'
<1>1. at = claim /\ UNCHANGED <<iteration, environment>>
  BY DEF TryStage
<1>2. CASE TryNext(next)
  BY <1>1, <1>2 DEF TryNext, LoopInv, TypeOK, Streak, environment
<1>3. ASSUME EndIteration, UNCHANGED <<place, older>>  PROVE LoopInv'
  BY <1>1, <1>3 DEF EndIteration, LoopInv, TypeOK, Streak, environment, Claims
<1>4. ASSUME EndIteration, NEW j \in Jobs, NEW outcome \in outcomes, Move(j, outcome)
      PROVE  LoopInv'
  <2>1. place' \in [Jobs -> Places] /\ older' \in [Jobs -> SUBSET Jobs]
    BY <1>4, MoveTyped DEF LoopInv, TypeOK
  <2> QED
    BY <1>1, <1>4, <2>1 DEF EndIteration, LoopInv, TypeOK, Streak, environment, Claims
<1> QED
  BY <1>2, <1>3, <1>4 DEF TryStage

LEMMA LoopInvStep == LoopInv /\ [Next]_vars => LoopInv'
<1> SUFFICES ASSUME LoopInv, [Next]_vars PROVE LoopInv'
  OBVIOUS
<1> USE DEF LoopInv, TypeOK, Streak, environment, Claims
<1>1. CASE StartIteration
  BY <1>1, NextIterationInCycle DEF StartIteration
<1>2. CASE TryTests
  BY <1>2 DEF TryTests, EndIteration, TryNext
<1>3. CASE TryCodex
  <2>1. {"human", "validating"} \in SUBSET Places
    BY DEF Places
  <2> QED
    BY <1>3, <2>1, StageKeepsInv DEF TryCodex
<1>4. CASE TryValidation
  <2>1. {"human", "done"} \in SUBSET Places
    BY DEF Places
  <2>2. (IF PrCreation THEN "prApproved" ELSE "prCreated") \in Claims \ {"top"}
    OBVIOUS
  <2> QED
    BY <1>4, <2>1, <2>2, StageKeepsInv DEF TryValidation
<1>5. CASE TryReview
  <2>1. {"human", "prCreated"} \in SUBSET Places
    BY DEF Places
  <2> QED
    BY <1>5, <2>1, StageKeepsInv DEF TryReview
<1>6. CASE PassPrCreated
  <2>1. ASSUME TryNext("queued") PROVE LoopInv'
    BY <1>6, <2>1 DEF PassPrCreated, TryNext
  <2>2. ASSUME EndIteration, UNCHANGED <<place, older>> PROVE LoopInv'
    BY <1>6, <2>2 DEF PassPrCreated, EndIteration
  <2> QED
    BY <1>6, <2>1, <2>2 DEF PassPrCreated
<1>11. ASSUME NEW j \in Jobs, InspectPr(j) PROVE LoopInv'
  <2>1. place' \in [Jobs -> Places] /\ older' \in [Jobs -> SUBSET Jobs]
    BY <1>11, MoveTyped DEF Inspect, InspectPr, Places
  <2>2. iteration < FairnessN
    BY <1>11 DEF PrioritizeQueued, InspectPr
  <2>3. looks' \in Nat /\ looks' <= iteration
    BY <1>11, CountUpBounds DEF Inspect, InspectPr
  <2> QED
    BY <1>11, <2>1, <2>2, <2>3 DEF InspectPr, Inspect
<1>7. CASE TryQueued
  <2>1. place' \in [Jobs -> Places] /\ older' \in [Jobs -> SUBSET Jobs]
    BY <1>7, MoveTyped DEF TryQueued, Places
  <2> QED
    BY <1>7, <2>1 DEF TryQueued, EndIteration
<1>8. CASE Arrive
  <2>1. place' \in [Jobs -> Places] /\ older' \in [Jobs -> SUBSET Jobs]
    BY <1>8, MoveTyped DEF Arrive, Places
  <2> QED
    BY <1>8, <2>1 DEF Arrive
<1>9. CASE SetPaused
  BY <1>9 DEF SetPaused
<1>10. CASE UNCHANGED vars
  BY <1>10 DEF vars
<1> QED
  BY <1>1, <1>2, <1>3, <1>4, <1>5, <1>6, <1>7, <1>8, <1>9, <1>10, <1>11 DEF Next, LoopStep, OtherStep

THEOREM LoopInvariant == Spec => []LoopInv
BY LoopInvInitial, LoopInvStep, PTL DEF Spec

\* The types of the loop's variables; among them that loopIteration stays within
\* 1..FairnessN once the loop runs.
THEOREM LoopTypes == Spec => []TypeOK
<1>1. LoopInv => TypeOK
  BY DEF LoopInv
<1> QED
  BY LoopInvariant, <1>1, PTL

\* However many jobs wait at PR_CREATED, and for every positive
\* FERRET_RUNNER_QUEUED_CLAIM_FAIRNESS_N, inspections never take that many
\* iterations of the loop in a row.
THEOREM InspectionsAreBounded == Spec => []InspectionsBounded
<1>1. LoopInv => InspectionsBounded
  BY DEF LoopInv, TypeOK, Streak, Claims, InspectionsBounded
<1> QED
  BY LoopInvariant, <1>1, PTL

------------------------------------------------------------------------------
(* With the answers of GitHub (PrInspection).                                 *)

\* An answer decides where an inspection ends, never whether or when there is one.
LEMMA InspectionNextMoves == [InspectionNext]_inspectionVars => [Next]_vars
<1> SUFFICES ASSUME [InspectionNext]_inspectionVars PROVE [Next]_vars
  OBVIOUS
<1>1. CASE InspectionStep
  BY <1>1 DEF InspectionStep, Next, LoopStep
<1>2. CASE Arrive \/ SetPaused
  BY <1>2 DEF Next
<1>3. CASE UNCHANGED inspectionVars
  BY <1>3 DEF inspectionVars
<1> QED
  BY <1>1, <1>2, <1>3 DEF InspectionNext

\* Whatever `gh pr view` and `gh pr checks` answer, and however many checks fail,
\* inspections never take FERRET_RUNNER_QUEUED_CLAIM_FAIRNESS_N iterations in a row.
THEOREM InspectionsStayBounded == InspectionSpec => []InspectionsBounded
<1>1. InspectionInit => LoopInv
  BY LoopInvInitial DEF InspectionInit
<1>2. LoopInv /\ [InspectionNext]_inspectionVars => LoopInv'
  BY LoopInvStep, InspectionNextMoves
<1>3. LoopInv => InspectionsBounded
  BY DEF LoopInv, TypeOK, Streak, Claims, InspectionsBounded
<1> QED
  BY <1>1, <1>2, <1>3, PTL DEF InspectionSpec

------------------------------------------------------------------------------
(* Sums over functions with a finite domain.                                  *)

\* The sum over a set, from the sums over what is left without one element.
NextSum(f, sums, s) ==
  IF s = {} THEN 0 ELSE LET x == CHOOSE y \in s : TRUE IN f[x] + sums[s \ {x}]

\* The sums of f over all subsets of its domain.
Sums(f) == CHOOSE sums : sums = [s \in SUBSET DOMAIN f |-> NextSum(f, sums, s)]

LEMMA TotalIsSum == ASSUME NEW f PROVE Total(f) = Sums(f)[DOMAIN f]
BY DEF Total, FoldFunction, FoldFunctionOnSet, MapThenFoldSet, Sums, NextSum

\* Induction on the natural numbers: what fails, fails for a smallest one first.
LEMMA SmallestNumber ==
  ASSUME NEW T \in SUBSET Nat, T # {}
  PROVE  \E n \in T : \A m \in T : n <= m
<1>1. IsWellFoundedOn({pair \in Nat \X Nat : pair[1] < pair[2]}, Nat)
  BY NatLessThanWellFounded DEF OpToRel
<1>2. PICK n \in T : \A m \in T : <<m, n>> \notin {pair \in Nat \X Nat : pair[1] < pair[2]}
  BY <1>1, WFMin
<1>3. ASSUME NEW m \in T PROVE n <= m
  <2>1. ~ (m < n)
    BY <1>2
  <2> QED
    BY <2>1
<1> QED
  BY <1>3

\* Induction on the subsets of a finite set.
LEMMA SmallestSubset ==
  ASSUME NEW S, IsFiniteSet(S), NEW T \in SUBSET SUBSET S, T # {}
  PROVE  \E s \in T : \A t \in SUBSET s : t # s => t \notin T
<1>1. FiniteSubsetsOf(S) = SUBSET S
  BY FS_FiniteSubsetsOfFinite
<1>2. IsWellFoundedOn(StrictSubsetOrdering(S), FiniteSubsetsOf(S))
  BY FS_StrictSubsetOrderingWellFounded
<1>3. IsWellFoundedOn(StrictSubsetOrdering(S), SUBSET S)
  BY <1>1, <1>2
<1>4. PICK s \in T : \A t \in T : <<t, s>> \notin StrictSubsetOrdering(S)
  BY <1>3, WFMin
<1>5. ASSUME NEW t \in SUBSET s, t # s PROVE t \notin T
  BY <1>4, <1>5 DEF StrictSubsetOrdering
<1> QED
  BY <1>5

\* A function that has the sums over sets of at most n elements right.
SumsUpTo(f, n, sums) ==
  /\ sums = [s \in SUBSET DOMAIN f |-> sums[s]]
  /\ \A s \in SUBSET DOMAIN f : Cardinality(s) <= n => sums[s] = NextSum(f, sums, s)

LEMMA SumsUpToExist ==
  ASSUME NEW f, IsFiniteSet(DOMAIN f), NEW n \in Nat
  PROVE  \E sums : SumsUpTo(f, n, sums)
<1> DEFINE T == {m \in Nat : ~ \E sums : SumsUpTo(f, m, sums)}
<1> SUFFICES ASSUME T # {} PROVE FALSE
  OBVIOUS
<1>1. PICK m \in T : \A k \in T : m <= k
  BY SmallestNumber
<1>2. \A s \in SUBSET DOMAIN f : IsFiniteSet(s) /\ Cardinality(s) \in Nat
  BY FS_Subset, FS_CardinalityType
<1>3. ASSUME m = 0 PROVE FALSE
  <2> DEFINE none == [s \in SUBSET DOMAIN f |-> 0]
  <2>1. ASSUME NEW s \in SUBSET DOMAIN f, Cardinality(s) <= m PROVE s = {}
    BY <1>2, <1>3, <2>1, FS_EmptySet
  <2>2. SumsUpTo(f, m, none)
    BY <2>1 DEF SumsUpTo, NextSum
  <2> QED
    BY <2>2
<1>4. ASSUME m # 0 PROVE FALSE
  <2>1. m - 1 \in Nat /\ m - 1 \notin T
    BY <1>1, <1>4
  <2>2. PICK sums : SumsUpTo(f, m - 1, sums)
    BY <2>1
  <2> DEFINE more == [s \in SUBSET DOMAIN f |-> NextSum(f, sums, s)]
  <2>3. ASSUME NEW s \in SUBSET DOMAIN f, Cardinality(s) <= m PROVE more[s] = NextSum(f, more, s)
    <3>1. CASE s = {}
      BY <3>1 DEF NextSum
    <3>2. CASE s # {}
      <4> DEFINE x == CHOOSE y \in s : TRUE
      <4>1. x \in s /\ s \ {x} \in SUBSET DOMAIN f
        BY <3>2
      <4>2. Cardinality(s \ {x}) = Cardinality(s) - 1
        BY <1>2, <4>1, FS_RemoveElement
      <4>3. Cardinality(s \ {x}) <= m - 1
        BY <1>2, <2>3, <4>2
      <4>4. sums[s \ {x}] = NextSum(f, sums, s \ {x})
        BY <2>2, <4>1, <4>3 DEF SumsUpTo
      <4>5. more[s \ {x}] = sums[s \ {x}]
        BY <4>1, <4>4
      <4> HIDE DEF more
      <4>6. NextSum(f, more, s) = NextSum(f, sums, s)
        BY <3>2, <4>5 DEF NextSum
      <4> QED
        BY <4>6 DEF more
    <3> QED
      BY <3>1, <3>2
  <2>4. SumsUpTo(f, m, more)
    BY <2>3 DEF SumsUpTo
  <2> QED
    BY <2>4
<1> QED
  BY <1>3, <1>4

LEMMA SumsEquation ==
  ASSUME NEW f, IsFiniteSet(DOMAIN f)
  PROVE  Sums(f) = [s \in SUBSET DOMAIN f |-> NextSum(f, Sums(f), s)]
<1>1. Cardinality(DOMAIN f) \in Nat
  BY FS_CardinalityType
<1>2. PICK sums : SumsUpTo(f, Cardinality(DOMAIN f), sums)
  BY <1>1, SumsUpToExist
<1>3. \A s \in SUBSET DOMAIN f : Cardinality(s) <= Cardinality(DOMAIN f)
  BY FS_Subset
<1>4. sums = [s \in SUBSET DOMAIN f |-> NextSum(f, sums, s)]
  BY <1>2, <1>3 DEF SumsUpTo
<1> QED
  BY <1>4 DEF Sums

LEMMA SumOfNone ==
  ASSUME NEW f, IsFiniteSet(DOMAIN f)
  PROVE  Sums(f)[{}] = 0
BY SumsEquation DEF NextSum

LEMMA SumOfSome ==
  ASSUME NEW f, IsFiniteSet(DOMAIN f), NEW s \in SUBSET DOMAIN f, s # {}
  PROVE  \E x \in s : \A g : DOMAIN g = DOMAIN f => Sums(g)[s] = g[x] + Sums(g)[s \ {x}]
<1> DEFINE x == CHOOSE y \in s : TRUE
<1>1. ASSUME NEW g, DOMAIN g = DOMAIN f
      PROVE  Sums(g)[s] = g[x] + Sums(g)[s \ {x}]
  <2>1. Sums(g) = [t \in SUBSET DOMAIN g |-> NextSum(g, Sums(g), t)]
    BY <1>1, SumsEquation
  <2>2. Sums(g)[s] = NextSum(g, Sums(g), s)
    BY <1>1, <2>1
  <2> QED
    BY <2>2 DEF NextSum
<1>2. x \in s
  OBVIOUS
<1> QED
  BY <1>1, <1>2

LEMMA SumTyped ==
  ASSUME NEW D, IsFiniteSet(D), NEW f \in [D -> Nat]
  PROVE  \A s \in SUBSET D : Sums(f)[s] \in Nat
<1> DEFINE T == {s \in SUBSET D : Sums(f)[s] \notin Nat}
<1> SUFFICES ASSUME T # {} PROVE FALSE
  OBVIOUS
<1>1. T \in SUBSET SUBSET D
  OBVIOUS
<1>2. PICK s \in T : \A t \in SUBSET s : t # s => t \notin T
  <2> HIDE DEF T
  <2> QED
    BY <1>1, SmallestSubset
<1>3. s # {}
  <2>1. Sums(f)[{}] = 0
    BY SumOfNone
  <2> QED
    BY <2>1
<1>4. PICK x \in s : Sums(f)[s] = f[x] + Sums(f)[s \ {x}]
  BY <1>3, SumOfSome
<1>5. s \ {x} \in SUBSET D /\ s \ {x} \notin T
  BY <1>2
<1>6. f[x] \in Nat /\ Sums(f)[s \ {x}] \in Nat
  BY <1>5
<1> QED
  BY <1>4, <1>6

LEMMA OneMore ==
  ASSUME NEW c \in Nat, NEW n \in Nat
  PROVE  c * n + c = c * (n + 1) /\ c * n \in Nat
OBVIOUS

\* A sum of n numbers up to c is at most n times c.
LEMMA SumBounded ==
  ASSUME NEW D, IsFiniteSet(D), NEW f \in [D -> Nat], NEW c \in Nat, \A i \in D : f[i] <= c
  PROVE  \A s \in SUBSET D : Sums(f)[s] <= c * Cardinality(s)
<1> DEFINE T == {s \in SUBSET D : ~ (Sums(f)[s] <= c * Cardinality(s))}
<1> SUFFICES ASSUME T # {} PROVE FALSE
  OBVIOUS
<1>1. T \in SUBSET SUBSET D
  OBVIOUS
<1>2. PICK s \in T : \A t \in SUBSET s : t # s => t \notin T
  <2> HIDE DEF T
  <2> QED
    BY <1>1, SmallestSubset
<1>3. s # {}
  <2>1. Sums(f)[{}] = 0 /\ Cardinality({}) = 0
    BY SumOfNone, FS_EmptySet
  <2> QED
    BY <2>1
<1>4. PICK x \in s : Sums(f)[s] = f[x] + Sums(f)[s \ {x}]
  BY <1>3, SumOfSome
<1>5. s \ {x} \in SUBSET D /\ s \ {x} \notin T
  BY <1>2
<1>6. Sums(f)[s \ {x}] <= c * Cardinality(s \ {x})
  BY <1>5
<1>7. /\ Cardinality(s \ {x}) \in Nat
      /\ Cardinality(s) = Cardinality(s \ {x}) + 1
  <2>1. IsFiniteSet(s) /\ Cardinality(s) \in Nat
    BY FS_Subset, FS_CardinalityType
  <2>2. IsFiniteSet(s \ {x}) /\ Cardinality(s \ {x}) = Cardinality(s) - 1
    BY <2>1, FS_RemoveElement
  <2> QED
    BY <2>1, <2>2, FS_CardinalityType
<1>8. f[x] \in Nat /\ f[x] <= c /\ Sums(f)[s \ {x}] \in Nat
  BY <1>5, SumTyped
<1> DEFINE n == Cardinality(s \ {x})
           rest == Sums(f)[s \ {x}]
<1>9. c * n + c = c * (n + 1) /\ c * n \in Nat
  BY <1>7, OneMore
<1>10. f[x] + rest <= c * n + c
  <2> HIDE DEF n, rest
  <2> DEFINE most == c * n
  <2>1. most \in Nat /\ rest <= most /\ rest \in Nat
    BY <1>6, <1>8, <1>9 DEF n, rest
  <2> HIDE DEF most
  <2>2. f[x] + rest <= most + c
    BY <2>1, <1>8
  <2> QED
    BY <2>2 DEF most
<1>11. Sums(f)[s] <= c * Cardinality(s)
  BY <1>4, <1>7, <1>9, <1>10
<1> QED
  BY <1>2, <1>11

\* If g is more than f by at most c, and that only on N, so is its sum, once for each of N.
LEMMA SumGrows ==
  ASSUME NEW D, IsFiniteSet(D), NEW f \in [D -> Nat], NEW g \in [D -> Nat], NEW c \in Nat,
         NEW N \in SUBSET D, \A i \in D : g[i] <= f[i] + (IF i \in N THEN c ELSE 0)
  PROVE  \A s \in SUBSET D : Sums(g)[s] <= Sums(f)[s] + c * Cardinality(s \cap N)
<1> DEFINE T == {s \in SUBSET D : ~ (Sums(g)[s] <= Sums(f)[s] + c * Cardinality(s \cap N))}
<1> SUFFICES ASSUME T # {} PROVE FALSE
  OBVIOUS
<1>1. T \in SUBSET SUBSET D
  OBVIOUS
<1>2. PICK s \in T : \A t \in SUBSET s : t # s => t \notin T
  <2> HIDE DEF T
  <2> QED
    BY <1>1, SmallestSubset
<1>3. s # {}
  <2> SUFFICES ASSUME s = {} PROVE FALSE
    OBVIOUS
  <2>1. Sums(f)[s] = 0 /\ Sums(g)[s] = 0
    BY SumOfNone
  <2>2. s \cap N = {} /\ Cardinality(s \cap N) = 0
    BY FS_EmptySet
  <2> QED
    BY <1>2, <2>1, <2>2
<1>4. PICK x \in s : \A h : DOMAIN h = DOMAIN f => Sums(h)[s] = h[x] + Sums(h)[s \ {x}]
  <2>1. s \in SUBSET DOMAIN f /\ IsFiniteSet(DOMAIN f)
    OBVIOUS
  <2> HIDE DEF T
  <2> QED
    BY <1>3, <2>1, SumOfSome
<1>5. Sums(f)[s] = f[x] + Sums(f)[s \ {x}] /\ Sums(g)[s] = g[x] + Sums(g)[s \ {x}]
  BY <1>4
<1>6. s \ {x} \in SUBSET D /\ s \ {x} \notin T
  BY <1>2
<1> DEFINE n == Cardinality((s \ {x}) \cap N)
           m == Cardinality(s \cap N)
           most == c * n
           a == Sums(f)[s \ {x}]
           b == Sums(g)[s \ {x}]
<1>7. b <= a + most
  BY <1>6
<1>8. n \in Nat /\ m = IF x \in N THEN n + 1 ELSE n
  <2>1. IsFiniteSet((s \ {x}) \cap N) /\ n \in Nat
    BY FS_Subset, FS_CardinalityType
  <2>2. CASE x \in N
    <3>1. s \cap N = ((s \ {x}) \cap N) \cup {x} /\ x \notin (s \ {x}) \cap N
      BY <2>2
    <3> QED
      BY <2>1, <2>2, <3>1, FS_AddElement
  <2>3. CASE x \notin N
    <3>1. s \cap N = (s \ {x}) \cap N
      BY <2>3
    <3> QED
      BY <2>1, <2>3, <3>1
  <2> QED
    BY <2>2, <2>3
<1>9. /\ f[x] \in Nat /\ g[x] \in Nat /\ a \in Nat /\ b \in Nat
      /\ g[x] <= f[x] + (IF x \in N THEN c ELSE 0)
  BY <1>6, SumTyped
<1>10. most \in Nat /\ c * m = most + (IF x \in N THEN c ELSE 0)
  BY <1>8, OneMore
<1>11. g[x] + b <= (f[x] + a) + c * m
  <2> HIDE DEF n, m, most, a, b
  <2> DEFINE more == IF x \in N THEN c ELSE 0
  <2>1. more \in Nat
    OBVIOUS
  <2>2. c * m = most + more /\ g[x] <= f[x] + more
    BY <1>9, <1>10
  <2> HIDE DEF more
  <2> QED
    BY <1>7, <1>9, <1>10, <2>1, <2>2
<1>12. Sums(g)[s] <= Sums(f)[s] + c * Cardinality(s \cap N)
  BY <1>5, <1>11
<1> QED
  BY <1>2, <1>12

------------------------------------------------------------------------------
(* The shares of the budget.                                                  *)

LEMMA Quotient ==
  ASSUME NEW a \in Nat, NEW n \in Nat \ {0}
  PROVE  /\ a \div n \in Nat /\ n * (a \div n) <= a
         /\ a \div n = 0 => a < n
OBVIOUS

\* A share, of which there is at least a character for each, or what all the shares come to.
LEMMA ShareOf ==
  ASSUME NEW a \in Nat, NEW n \in Nat \ {0}
  PROVE  LET share == AtLeastOne(a \div n)
         IN  /\ share \in Nat \ {0}
             /\ share * n <= a \/ (share = 1 /\ a < n)
<1>1. a \div n \in Nat /\ (a \div n) * n <= a /\ (a \div n = 0 => a < n)
  BY Quotient
<1>2. CASE a \div n >= 1
  BY <1>1, <1>2 DEF AtLeastOne
<1>3. CASE ~ (a \div n >= 1)
  BY <1>1, <1>3 DEF AtLeastOne
<1> QED
  BY <1>2, <1>3

\* What allocateCheckBudgets promises for logs of these lengths.
IsFair(lengths, share) ==
  LET checks == DOMAIN lengths IN
  /\ \A i \in checks :
       share[i] >= AtMost(lengths[i], AtLeastOne(Budget \div Cardinality(checks)))
  /\ \A i, k \in checks : lengths[i] <= lengths[k] => share[i] <= share[k]
  /\ Total(share) < Budget + Cardinality(checks)

LEMMA EvenSharesFit ==
  ASSUME NEW D, IsFiniteSet(D), D # {}, NEW lengths \in [D -> Nat],
         NEW even, even = AtLeastOne(Budget \div Cardinality(D)),
         NEW first, first = [i \in D |-> AtMost(lengths[i], even)]
  PROVE  /\ even \in Nat \ {0} /\ first \in [D -> Nat] /\ Total(first) \in Nat
         /\ Total(first) < Budget + Cardinality(D)
<1>1. Cardinality(D) \in Nat \ {0}
  BY FS_CardinalityType, FS_EmptySet
<1>2. /\ even \in Nat \ {0}
      /\ even * Cardinality(D) <= Budget \/ (even = 1 /\ Budget < Cardinality(D))
  BY <1>1, ShareOf, PrInspectionAssumption
<1>3. first \in [D -> Nat] /\ \A i \in D : first[i] <= even
  BY <1>2 DEF AtMost
<1>4. Total(first) \in Nat /\ Total(first) <= even * Cardinality(D)
  BY <1>2, <1>3, TotalIsSum, SumTyped, SumBounded
<1>5. even * Cardinality(D) < Budget + Cardinality(D)
  BY <1>1, <1>2, PrInspectionAssumption
<1>6. even * Cardinality(D) \in Nat
  BY <1>1, <1>2, OneMore
<1> QED
  BY <1>1, <1>2, <1>3, <1>4, <1>5, <1>6, PrInspectionAssumption

LEMMA AllocationIsFair ==
  ASSUME NEW D, IsFiniteSet(D), D # {}, NEW lengths \in [D -> Nat]
  PROVE  AllocateBudgets(lengths) \in [D -> Nat] /\ IsFair(lengths, AllocateBudgets(lengths))
<1> DEFINE size == Cardinality(D)
           even == AtLeastOne(Budget \div size)
           first == [i \in D |-> AtMost(lengths[i], even)]
           leftover == Budget - Total(first)
           needsMore == {i \in D : lengths[i] > first[i]}
           extra == AtLeastOne(leftover \div Cardinality(needsMore))
           second == [i \in D |-> first[i] + AtMost(lengths[i] - first[i], extra)]
<1>1. DOMAIN lengths = D /\ size \in Nat \ {0} /\ Budget \in Nat \ {0}
  BY FS_CardinalityType, FS_EmptySet, PrInspectionAssumption
<1>2. /\ even \in Nat \ {0} /\ first \in [D -> Nat] /\ Total(first) \in Nat
      /\ Total(first) < Budget + size
  BY EvenSharesFit
<1>3. AllocateBudgets(lengths) =
        IF leftover <= 0 \/ needsMore = {} THEN first ELSE second
  BY <1>1 DEF AllocateBudgets
<1>4. \A i \in D : lengths[i] \in Nat /\ first[i] = AtMost(lengths[i], even)
  OBVIOUS
<1> HIDE DEF size, first, even
<1>5. CASE leftover <= 0 \/ needsMore = {}
  <2>1. AllocateBudgets(lengths) = first
    BY <1>3, <1>5
  <2>2. \A i, k \in D : lengths[i] <= lengths[k] => first[i] <= first[k]
    BY <1>2, <1>4 DEF AtMost
  <2> QED
    BY <1>1, <1>2, <1>4, <2>1, <2>2 DEF IsFair, even, size
<1>6. CASE ~ (leftover <= 0 \/ needsMore = {})
  <2> DEFINE rest == Cardinality(needsMore)
  <2>1. AllocateBudgets(lengths) = second
    BY <1>3, <1>6
  <2>2. leftover \in Nat \ {0} /\ rest \in Nat \ {0} /\ rest <= size
    <3>1. IsFiniteSet(needsMore) /\ rest <= size
      BY FS_Subset DEF size
    <3>2. rest \in Nat \ {0}
      BY <1>6, <3>1, FS_CardinalityType, FS_EmptySet
    <3> QED
      BY <1>1, <1>2, <1>6, <3>1, <3>2
  <2>3. extra \in Nat \ {0} /\ (extra * rest <= leftover \/ (extra = 1 /\ leftover < rest))
    BY <2>2, ShareOf
  <2> HIDE DEF extra
  <2>4. second \in [D -> Nat] /\ \A i \in D : second[i] = AtMost(lengths[i], even + extra)
    BY <1>2, <1>4, <2>3 DEF AtMost
  <2>5. \A i \in D : second[i] <= first[i] + (IF i \in needsMore THEN extra ELSE 0)
    BY <1>2, <1>4, <2>3, <2>4 DEF AtMost
  <2>6. Total(second) \in Nat /\ Total(second) <= Total(first) + extra * rest
    <3>1. Sums(second)[D] <= Sums(first)[D] + extra * Cardinality(D \cap needsMore)
      <4> HIDE DEF second
      <4>1. needsMore \in SUBSET D
        OBVIOUS
      <4> HIDE DEF needsMore
      <4> QED
        BY <1>2, <2>3, <2>4, <2>5, <4>1, SumGrows
    <3>2. D \cap needsMore = needsMore
      OBVIOUS
    <3>3. Sums(second)[D] \in Nat
      BY <2>4, SumTyped
    <3>4. Total(second) = Sums(second)[D] /\ Total(first) = Sums(first)[D]
      BY <1>2, <2>4, TotalIsSum
    <3> QED
      BY <3>1, <3>2, <3>3, <3>4
  <2>7. Total(second) < Budget + size
    <3> DEFINE a == Total(first)
               b == Total(second)
               more == extra * rest
    <3>1. a \in Nat /\ b \in Nat /\ b <= a + more /\ leftover = Budget - a
      BY <1>2, <2>6
    <3>2. more \in Nat /\ (more <= leftover \/ (more = rest /\ leftover < rest))
      BY <2>2, <2>3
    <3>3. leftover \in Nat \ {0} /\ rest \in Nat \ {0} /\ rest <= size
      BY <2>2
    <3> HIDE DEF a, b, more, rest, leftover
    <3>4. b < Budget + size
      BY <1>1, <3>1, <3>2, <3>3
    <3> QED
      BY <3>4 DEF b
  <2>8. \A i, k \in D : lengths[i] <= lengths[k] => second[i] <= second[k]
    BY <1>2, <1>4, <2>3, <2>4 DEF AtMost
  <2>9. \A i \in D : second[i] >= AtMost(lengths[i], even)
    BY <1>2, <1>4, <2>3, <2>4 DEF AtMost
  <2> HIDE DEF second
  <2> QED
    BY <1>1, <2>1, <2>4, <2>7, <2>8, <2>9 DEF IsFair, even, size
<1> QED
  BY <1>5, <1>6

\* FeedbackIsFair for any feedback.
FairFeedback(given) ==
  given # NoFeedback =>
    IsFair([i \in DOMAIN given |-> given[i].length], [i \in DOMAIN given |-> given[i].share])

LEMMA BuiltFeedbackIsFair ==
  ASSUME NEW listing \in Listings
  PROVE  FairFeedback(BuildFeedback(listing))
<1> DEFINE D == FailingChecks(listing)
           lengths == [i \in D |-> DetailLength(listing[i])]
           shares == AllocateBudgets(lengths)
           given == [i \in D |-> [length |-> lengths[i], share |-> shares[i]]]
<1>1. BuildFeedback(listing) = given
  BY DEF BuildFeedback
<1>2. listing \in Seq(Checks)
  BY PrInspectionAssumption
<1>3. IsFiniteSet(D)
  <2>1. D \in SUBSET (1 .. Len(listing)) /\ Len(listing) \in Nat
    BY <1>2 DEF FailingChecks
  <2>2. IsFiniteSet(1 .. Len(listing))
    BY <2>1, FS_Interval
  <2> QED
    BY <2>1, <2>2, FS_Subset
<1>4. lengths \in [D -> Nat]
  <2>1. ASSUME NEW i \in D PROVE DetailLength(listing[i]) \in Nat
    <3>1. listing[i] \in Checks
      BY <1>2 DEF FailingChecks
    <3> QED
      BY <3>1, PrInspectionAssumption DEF DetailLength, Checks
  <2> QED
    BY <2>1
<1>5. CASE D = {}
  <2>1. given = NoFeedback
    BY <1>5 DEF NoFeedback
  <2> QED
    BY <1>1, <2>1 DEF FairFeedback
<1>6. CASE D # {}
  <2>1. shares \in [D -> Nat] /\ IsFair(lengths, shares)
    BY <1>3, <1>4, <1>6, AllocationIsFair
  <2> HIDE DEF D, lengths, shares
  <2>2. DOMAIN given = D
    OBVIOUS
  <2>3. [i \in DOMAIN given |-> given[i].length] = lengths
    BY <1>4, <2>2
  <2>4. [i \in DOMAIN given |-> given[i].share] = shares
    BY <2>1, <2>2
  <2> QED
    BY <1>1, <2>1, <2>3, <2>4 DEF FairFeedback
<1> QED
  BY <1>5, <1>6

LEMMA FairIsFair ==
  /\ FeedbackIsFair <=> FairFeedback(feedback)
  /\ FeedbackIsFair' <=> FairFeedback(feedback')
BY DEF FeedbackIsFair, FairFeedback, IsFair

\* However many checks fail and however long their logs are, the feedback of an automatic
\* retry gives each its even share of the budget at least, a longer log no less than a
\* shorter one, and goes over the budget by less than a character for each check.
THEOREM FeedbackStaysFair == InspectionSpec => []FeedbackIsFair
<1>1. InspectionInit => FeedbackIsFair
  BY FairIsFair DEF InspectionInit, FairFeedback
<1>2. ASSUME FairFeedback(feedback), [InspectionNext]_inspectionVars
      PROVE  FairFeedback(feedback')
  <2>1. CASE feedback' = NoFeedback
    BY <2>1 DEF FairFeedback
  <2>2. CASE UNCHANGED feedback
    BY <1>2, <2>2
  <2>3. ASSUME NEW given \in Feedbacks, feedback' = given PROVE FairFeedback(feedback')
    BY <2>3, BuiltFeedbackIsFair DEF Feedbacks
  <2>4. ASSUME NEW j \in Jobs, InspectPassing(j) \/ InspectFailed(j)
        PROVE  FairFeedback(feedback')
    BY <2>1, <2>3, <2>4 DEF InspectPassing, InspectFailed
  <2> QED
    BY <1>2, <2>1, <2>2, <2>4 DEF InspectionNext, InspectionStep, inspectionVars
<1>3. FeedbackIsFair /\ [InspectionNext]_inspectionVars => FeedbackIsFair'
  BY <1>2, FairIsFair
<1> QED
  BY <1>1, <1>3, PTL DEF InspectionSpec
==============================================================================
