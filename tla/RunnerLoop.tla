------------------------------ MODULE RunnerLoop ------------------------------
(***************************************************************************)
(* One ferret-runner worker's main loop (apps/ferret-runner/src/index.ts): *)
(* the order in which an iteration tries its claims, and the fairness      *)
(* counter of loop-fairness.ts that makes every Nth iteration leave out    *)
(* the pull request claim.  What a stage does to a job is JobPipeline; here *)
(* a stage takes one step to the next place a claim can find the job.      *)
(***************************************************************************)
EXTENDS Naturals

CONSTANTS
  Jobs,
  FairnessN,       \* FERRET_RUNNER_QUEUED_CLAIM_FAIRNESS_N, a positive integer
  PrCreation,      \* FERRET_RUNNER_ENABLE_PR_CREATION
  Rank,            \* the order of the queue: priority, then age; highest first.
                   \* The jobs were also created in this order.
  MaxTests,        \* bound on the local test runs queued at once
  MaxArrivals      \* bound on the arrivals of work from outside

ASSUME RunnerLoopAssumption ==
  /\ FairnessN \in Nat \ {0}
  /\ MaxTests \in Nat /\ MaxArrivals \in Nat
  /\ PrCreation \in BOOLEAN
  /\ Rank \in [Jobs -> Nat]

VARIABLES
  place,       \* the claim that would find the job, or "human" or "done"
  older,       \* the jobs whose updated_at is before that of the job
  tests,       \* local test runs that are QUEUED
  paused,      \* queue_control.paused
  iteration,   \* loopIteration: 0 before the first, then 1..FairnessN
  at,          \* the claim the worker is about to try
  looks,       \* history: pull request inspections in consecutive iterations
  inspected,   \* history: the job the last finished iteration inspected, or "none"
  arrivals     \* arrivals so far

vars == <<place, older, tests, paused, iteration, at, looks, inspected, arrivals>>
environment == <<tests, paused, arrivals>>

Places == {"human", "codex", "validating", "prApproved", "prCreated", "queued", "done"}
Claims == {"top", "tests", "codex", "validating", "prApproved", "prCreated", "queued"}

TypeOK ==
  /\ place \in [Jobs -> Places]
  /\ older \in [Jobs -> SUBSET Jobs]
  /\ tests \in 0..MaxTests
  /\ paused \in BOOLEAN
  /\ iteration \in 0..FairnessN
  /\ at \in Claims
  /\ looks \in Nat
  /\ inspected \in Jobs \cup {"none"}
  /\ arrivals \in 0..MaxArrivals

Init ==
  /\ place \in [Jobs -> {"human", "queued", "prCreated"}]
  /\ older = [j \in Jobs |-> {k \in Jobs : Rank[k] > Rank[j]}]
  /\ tests = 0 /\ paused = FALSE
  /\ iteration = 0 /\ at = "top"
  /\ looks = 0 /\ inspected = "none"
  /\ arrivals = 0

------------------------------------------------------------------------------

\* Every write to a job's row sets its updated_at.
Move(j, target) ==
  /\ place' = [place EXCEPT ![j] = target]
  /\ older' = [k \in Jobs |-> IF k = j THEN Jobs \ {j} ELSE older[k] \ {j}]

\* A faulty variant of Oldest: ordered by creation instead.
FirstCreated(j, claim) ==
  place[j] = claim /\ \A k \in Jobs : Rank[k] > Rank[j] => place[k] # claim

\* All claims but the queue's take the job that has been left alone longest.
Oldest(j, claim) ==
  place[j] = claim /\ \A k \in older[j] : place[k] # claim

NoneAt(claim) == \A j \in Jobs : place[j] # claim

------------------------------------------------------------------------------

\* Faulty variants of the definitions below; each breaks a property.
EarlyWrap(current) == IF current < FairnessN - 1 THEN current + 1 ELSE 1
NeverPrioritize == FALSE

\* nextLoopIteration: counts 1..FairnessN and around again.
NextLoopIteration(current) == IF current < FairnessN THEN current + 1 ELSE 1

\* shouldPrioritizeQueuedClaim, for the counter values the loop can have.
PrioritizeQueued == FairnessN = 1 \/ iteration = FairnessN

StartIteration ==
  /\ at = "top"
  /\ iteration' = NextLoopIteration(iteration)
  /\ at' = "tests"
  /\ UNCHANGED <<place, older, looks, inspected, environment>>

\* The iteration ends without an inspection: by work of another stage, a pause,
\* or a queue with nothing in it.
EndIteration == at' = "top" /\ looks' = 0 /\ inspected' = "none"

TryNext(claim) == at' = claim /\ UNCHANGED <<place, older, looks, inspected>>

\* claimNextLocalTestRun does not look at queue_control.
TryTests ==
  /\ at = "tests"
  /\ IF tests > 0
       THEN tests' = tests - 1 /\ EndIteration /\ UNCHANGED <<place, older>>
       ELSE TryNext("codex") /\ UNCHANGED tests
  /\ UNCHANGED <<paused, iteration, arrivals>>

\* A claim of one of the stages between the local tests and the pull requests: the
\* job it finds goes to one of the places its stage can leave it at.
TryStage(claim, outcomes, next) ==
  /\ at = claim
  /\ \/ paused /\ EndIteration /\ UNCHANGED <<place, older>>
     \/ ~paused /\ NoneAt(claim) /\ TryNext(next)
     \/ /\ ~paused
        /\ \E j \in Jobs, outcome \in outcomes : Oldest(j, claim) /\ Move(j, outcome)
        /\ EndIteration
  /\ UNCHANGED <<iteration, environment>>

TryCodex == TryStage("codex", {"human", "validating"}, "validating")

TryValidation ==
  TryStage("validating", {"human", "done"},
           IF PrCreation THEN "prApproved" ELSE "prCreated")

TryReview == TryStage("prApproved", {"human", "prCreated"}, "prCreated")

\* The history needs no more than to reach FairnessN.
CountUp(n) == IF n < FairnessN THEN n + 1 ELSE n

\* The inspection of a pull request ends the iteration; the job stays where it is,
\* completes, is blocked, or is retried automatically.
Inspect(j) ==
  /\ Oldest(j, "prCreated")
  /\ \E outcome \in {"prCreated", "done", "human", "codex"} : Move(j, outcome)
  /\ at' = "top" /\ looks' = CountUp(looks) /\ inspected' = j

\* No inspection: the queue comes first, pickup is paused, or no pull request is open.
PassPrCreated ==
  /\ at = "prCreated"
  /\ \/ PrioritizeQueued /\ TryNext("queued")
     \/ ~PrioritizeQueued /\ paused /\ EndIteration /\ UNCHANGED <<place, older>>
     \/ ~PrioritizeQueued /\ ~paused /\ NoneAt("prCreated") /\ TryNext("queued")
  /\ UNCHANGED <<iteration, environment>>

InspectPr(j) ==
  /\ at = "prCreated" /\ ~PrioritizeQueued /\ ~paused
  /\ Inspect(j)
  /\ UNCHANGED <<iteration, environment>>

FirstQueued(j) ==
  /\ place[j] = "queued"
  /\ \A k \in Jobs : place[k] = "queued" => Rank[k] <= Rank[j]

TryQueued ==
  /\ at = "queued"
  /\ \/ (paused \/ NoneAt("queued")) /\ UNCHANGED <<place, older>>
     \/ ~paused /\ \E j \in Jobs : FirstQueued(j) /\ Move(j, "human")
  /\ EndIteration
  /\ UNCHANGED <<iteration, environment>>

OtherStep ==
  StartIteration \/ TryTests \/ TryCodex \/ TryValidation \/ TryReview
    \/ PassPrCreated \/ TryQueued

LoopStep == OtherStep \/ \E j \in Jobs : InspectPr(j)

------------------------------------------------------------------------------
(* Work from outside: a human approves, retries or requeues a job, someone    *)
(* starts a local test run, an operator pauses or resumes the queue.          *)

Arrive ==
  /\ arrivals < MaxArrivals /\ arrivals' = arrivals + 1
  /\ UNCHANGED <<paused, iteration, at, looks, inspected>>
  /\ \/ /\ tests < MaxTests /\ tests' = tests + 1 /\ UNCHANGED <<place, older>>
     \/ /\ UNCHANGED tests
        /\ \E j \in Jobs, target \in {"queued", "codex", "validating", "prApproved"} :
             place[j] = "human" /\ Move(j, target)

SetPaused ==
  /\ arrivals < MaxArrivals /\ arrivals' = arrivals + 1
  /\ paused' = ~paused
  /\ UNCHANGED <<place, older, tests, iteration, at, looks, inspected>>

Next == LoopStep \/ Arrive \/ SetPaused

Spec == Init /\ [][Next]_vars /\ WF_vars(LoopStep)

------------------------------------------------------------------------------
(* Properties. *)

\* Pull requests waiting on a human never take more than FairnessN - 1 iterations
\* in a row: by then the queue, or other work, has had an iteration.
InspectionsBounded == looks < FairnessN

\* A queued job is claimed in the end, if the queue does not stay paused and work
\* from outside does not go on arriving for ever.
QueuedIsClaimed ==
  <>[]~paused => \A j \in Jobs : (place[j] = "queued") ~> (place[j] # "queued")

\* Every job with an open pull request is inspected, or leaves that state: the
\* inspections take turns, because each one makes its job the youngest.
PrIsInspected ==
  <>[]~paused =>
    \A j \in Jobs : (place[j] = "prCreated")
                      ~> (inspected = j \/ place[j] # "prCreated")
==============================================================================
