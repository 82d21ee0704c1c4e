----------------------------- MODULE JobPipeline -----------------------------
(***************************************************************************)
(* The life of FlawFerret2 jobs: rows of the jobs and runs tables, moved   *)
(* by ferret-runner workers (apps/ferret-runner/src/index.ts, one          *)
(* iteration of whose main loop is one pass over the claims) and by the    *)
(* API's job routes (apps/api/src/server.ts).                              *)
(*                                                                         *)
(* One action is one database transaction, the finest step at which the    *)
(* processes of the system can interleave: a worker keeps the run it read  *)
(* when it claimed the job (worker[w].meta) over every await and writes it *)
(* back later, and a route keeps what it read until it writes.  The audit  *)
(* log (appendJobEvent), heartbeats and Slack messages are left out:       *)
(* nothing in the pipeline reads them.                                     *)
(***************************************************************************)
EXTENDS Naturals, Sequences

CONSTANTS
  Jobs, Workers,
  Requests,            \* API requests that may be in progress at once
  None,                \* no job, no request
  MaxAutoRetries,      \* FERRET_RUNNER_MAX_AUTO_RETRIES
  CodexWorkers,        \* the workers with FERRET_RUNNER_ENABLE_CODEX
  PrWorkers,           \* the workers with FERRET_RUNNER_ENABLE_PR_CREATION
  DraftPrJobs,         \* the jobs whose payload has createDraftPr
  Routes,              \* the job routes that clients call
  AtomicRoutes,        \* TRUE: no step separates a route's read from its write
  AttendedRoutes,      \* TRUE: clients retry jobs that a worker is still working on
  Crashes,             \* TRUE: a worker may be killed between two writes
  MaxRuns,             \* bound: requeue is not called on a job with this many runs
  MaxApprovals         \* bound on the approve-codex calls that succeed, per job

RouteNames == {"approveReview", "cancel", "requeue", "retryStage", "pause"}

ASSUME JobPipelineAssumption ==
  /\ None \notin Jobs /\ None \notin RouteNames
  /\ MaxAutoRetries \in Nat /\ MaxRuns \in Nat /\ MaxApprovals \in Nat
  /\ DraftPrJobs \subseteq Jobs
  /\ CodexWorkers \subseteq Workers /\ PrWorkers \subseteq Workers
  /\ AtomicRoutes \in BOOLEAN /\ AttendedRoutes \in BOOLEAN /\ Crashes \in BOOLEAN

VARIABLES
  jobs,       \* the job rows: status and autoRetryCount
  runs,       \* the run rows of a job, oldest first: status and metadata keys
  prs,        \* the pull request of the job's work branch, on GitHub
  paused,     \* queue_control.paused
  worker,     \* each worker's place in its loop and the rows it read
  request,    \* each API request in progress and the rows it read
  approvals,  \* history: approve-codex calls that succeeded on the job
  spends,     \* history: times a worker took the job from CODEX_APPROVED
  reviewed,   \* history: approve-pr came after the last Codex claim
  validated,  \* history: validation passed after the last Codex claim
  owed        \* history: feedback was accepted that Codex has not yet been given

history == <<approvals, spends, reviewed, validated, owed>>
vars == <<jobs, runs, prs, paused, worker, request, history>>

JobStatus ==
  {"DRAFT", "NEEDS_REVIEW", "QUEUED", "CLAIMED", "RUNNING", "VALIDATING",
   "REVIEW", "PR_APPROVED", "PR_CREATED", "COMPLETED", "FAILED", "BLOCKED",
   "RETRY", "CANCELED", "READY_FOR_CODEX", "CODEX_APPROVED"}

RunStatus ==
  {"STARTED", "CODEX_RUNNING", "VALIDATING", "PUSHING", "PR_CREATED",
   "SUCCEEDED", "FAILED", "READY_FOR_CODEX"}

\* The parts of a run's metadata that decide something.  "worktree" stands for
\* localPath, worktreePath and workBranch, which are always written together;
\* "prUrl" for a pullRequest part that carries a prUrl.
MetaKeys ==
  {"worktree", "codex", "validation", "pullRequest", "prUrl", "retryFeedback"}

JobRow == [status : JobStatus, retries : Nat]
RunRow == [status : RunStatus, meta : SUBSET MetaKeys]
PrState == {"none", "open", "merged", "closed"}

\* The labels of a worker: the claim it is about to make, or the write it is
\* about to make for the job it holds.
ClaimLabels ==
  {"codexClaim", "validationClaim", "reviewClaim", "lifecycleClaim", "queuedClaim"}
SetupLabels == {"checkout", "createRun", "prepare", "readyRun", "readyJob"}
CodexLabels == {"codexSkip", "codexStart", "codexRunning", "codexOk"}
OtherLabels ==
  {"validate", "validationRun", "push", "pushing", "prRun", "prJob", "inspect",
   "checksFailed", "complete", "block", "failRun"}
Labels == ClaimLabels \cup SetupLabels \cup CodexLabels \cup OtherLabels

WorkerState ==
  [pc : Labels, job : Jobs \cup {None}, run : Nat, meta : SUBSET MetaKeys, retries : Nat]

\* A worker at the top of its loop; also a worker that has just been restarted.
LoopTop ==
  [pc |-> "codexClaim", job |-> None, run |-> 0, meta |-> {}, retries |-> 0]

NoRequest ==
  [route |-> None, job |-> None, run |-> 0, meta |-> {}, target |-> "DRAFT", feedback |-> FALSE]

TypeOK ==
  /\ jobs \in [Jobs -> JobRow]
  /\ runs \in [Jobs -> Seq(RunRow)]
  /\ prs \in [Jobs -> PrState]
  /\ paused \in BOOLEAN
  /\ worker \in [Workers -> WorkerState]
  /\ request \in [Requests ->
       [route : RouteNames \cup {None}, job : Jobs \cup {None}, run : Nat,
        meta : SUBSET MetaKeys, target : JobStatus, feedback : BOOLEAN]]
  /\ approvals \in [Jobs -> Nat] /\ spends \in [Jobs -> Nat]
  /\ reviewed \in [Jobs -> BOOLEAN] /\ validated \in [Jobs -> BOOLEAN]
  /\ owed \in [Jobs -> BOOLEAN]

\* POST /jobs has created every job; workers and the API have just started.
Init ==
  /\ jobs = [j \in Jobs |-> [status |-> "NEEDS_REVIEW", retries |-> 0]]
  /\ runs = [j \in Jobs |-> <<>>]
  /\ prs = [j \in Jobs |-> "none"]
  /\ paused = FALSE
  /\ worker = [w \in Workers |-> LoopTop]
  /\ request = [r \in Requests |-> NoRequest]
  /\ approvals = [j \in Jobs |-> 0] /\ spends = [j \in Jobs |-> 0]
  /\ reviewed = [j \in Jobs |-> FALSE]
  /\ validated = [j \in Jobs |-> FALSE]
  /\ owed = [j \in Jobs |-> FALSE]

------------------------------------------------------------------------------
(* The database writes. *)

\* markJobRunning, markJobBlocked, ...: no condition on the status they replace.
SetJob(j, status) == jobs' = [jobs EXCEPT ![j].status = status]

\* markRun..., updateRunMetadata: the metadata is replaced, not merged.
SetRun(j, n, status, meta) ==
  runs' = [runs EXCEPT ![j][n] = [status |-> status, meta |-> meta]]

LatestMeta(j) == IF runs[j] = <<>> THEN {} ELSE runs[j][Len(runs[j])].meta

\* The local variables of a worker after it claimed j together with the latest run.
Claim(w, j, label) ==
  worker' = [worker EXCEPT ![w] =
    [pc |-> label, job |-> j, run |-> Len(runs[j]), meta |-> LatestMeta(j),
     retries |-> jobs[j].retries]]

At(w, label) == worker[w].pc = label
Goto(w, label) == worker' = [worker EXCEPT ![w].pc = label]
NextIteration(w) == worker' = [worker EXCEPT ![w] = LoopTop]

\* The writes of worker w for the job, and to the run, that it holds.
MarkJob(w, status) == SetJob(worker[w].job, status)
MarkRun(w, status, meta) == SetRun(worker[w].job, worker[w].run, status, meta)
HeldRun(w) == runs[worker[w].job][worker[w].run]

\* A claim that finds the queue paused starts the iteration over.
FoundPaused(w) == paused /\ NextIteration(w) /\ UNCHANGED jobs

\* A claim that finds no job goes on to the next claim of the iteration.
FoundNone(w, status, next) ==
  /\ ~paused /\ \A j \in Jobs : jobs[j].status # status
  /\ Goto(w, next) /\ UNCHANGED jobs

\* claimNextValidatingJob, claimNextReviewJob, claimNextPrCreatedJob: the claim
\* leaves the status alone, so nothing keeps a second worker from claiming too.
\* Which of several candidates is the oldest is left open.
FoundUnleased(w, status, label) ==
  \E j \in Jobs :
    /\ ~paused /\ jobs[j].status = status
    /\ Claim(w, j, label) /\ UNCHANGED jobs

------------------------------------------------------------------------------
(* The Codex stage. *)

\* A faulty variant of ClaimCodex: the job is claimed as the later stages do it,
\* without a lease.
ClaimCodexUnleased(w) ==
  /\ At(w, "codexClaim")
  /\ \/ FoundNone(w, "CODEX_APPROVED", "validationClaim") /\ UNCHANGED spends
     \/ \E j \in Jobs :
          /\ FoundUnleased(w, "CODEX_APPROVED", "codexStart")
          /\ worker'[w].job = j /\ spends' = [spends EXCEPT ![j] = @ + 1]
  /\ UNCHANGED <<runs, prs, paused, request, approvals, reviewed, validated, owed>>

\* claimNextApprovedCodexJob leases the job: CODEX_APPROVED becomes RUNNING.  It is
\* the first claim of an iteration, so to find the queue paused changes nothing.
ClaimCodex(w) ==
  /\ At(w, "codexClaim")
  /\ \/ FoundNone(w, "CODEX_APPROVED", "validationClaim") /\ UNCHANGED history
     \/ \E j \in Jobs :
          /\ ~paused /\ jobs[j].status = "CODEX_APPROVED"
          /\ SetJob(j, "RUNNING")
          /\ Claim(w, j, IF w \in CodexWorkers THEN "codexStart" ELSE "codexSkip")
          /\ spends' = [spends EXCEPT ![j] = @ + 1]
          /\ reviewed' = [reviewed EXCEPT ![j] = FALSE]
          /\ validated' = [validated EXCEPT ![j] = FALSE]
          /\ UNCHANGED <<approvals, owed>>
  /\ UNCHANGED <<runs, prs, paused, request>>

\* FERRET_RUNNER_ENABLE_CODEX is false: the job goes back to wait for approval.
SkipCodex(w) ==
  /\ At(w, "codexSkip")
  /\ MarkJob(w, "READY_FOR_CODEX") /\ NextIteration(w)
  /\ UNCHANGED <<runs, prs, paused, request, history>>

\* A stage that lacks the run or its metadata blocks the job, and only then
\* fails the run, with a note under the stage's key.
BlockForMissing(w, meta) ==
  /\ MarkJob(w, "BLOCKED")
  /\ IF worker[w].run = 0
       THEN NextIteration(w)
       ELSE worker' = [worker EXCEPT ![w].pc = "failRun", ![w].meta = meta]
  /\ UNCHANGED <<runs, prs, paused, request, history>>

Lacks(w, keys) == worker[w].run = 0 \/ ~(keys \subseteq worker[w].meta)

CodexMissing(w) ==
  /\ At(w, "codexStart") /\ Lacks(w, {"worktree"})
  /\ BlockForMissing(w, worker[w].meta \cup {"codex"})

FailRun(w) ==
  /\ At(w, "failRun")
  /\ MarkRun(w, "FAILED", worker[w].meta) /\ NextIteration(w)
  /\ UNCHANGED <<jobs, prs, paused, request, history>>

\* markRunCodexRunning, then Codex is spawned with the metadata the worker holds.
StartCodex(w) ==
  /\ At(w, "codexStart") /\ ~Lacks(w, {"worktree"})
  /\ MarkRun(w, "CODEX_RUNNING", worker[w].meta \cup {"codex"})
  /\ Goto(w, "codexRunning")
  /\ owed' = [owed EXCEPT ![worker[w].job] = FALSE]
  /\ UNCHANGED <<jobs, prs, paused, request, approvals, spends, reviewed, validated>>

\* A faulty variant of CodexFails: the run fails and the job is forgotten.
CodexFailsUnblocked(w) ==
  /\ At(w, "codexRunning")
  /\ MarkRun(w, "FAILED", worker[w].meta \cup {"codex"}) /\ NextIteration(w)
  /\ UNCHANGED <<jobs, prs, paused, request, history>>

CodexFails(w) ==
  /\ At(w, "codexRunning")
  /\ MarkRun(w, "FAILED", worker[w].meta \cup {"codex"}) /\ Goto(w, "block")
  /\ UNCHANGED <<jobs, prs, paused, request, history>>

CodexSucceeds(w) ==
  /\ At(w, "codexRunning")
  /\ MarkRun(w, "VALIDATING", worker[w].meta \cup {"codex"}) /\ Goto(w, "codexOk")
  /\ UNCHANGED <<jobs, prs, paused, request, history>>

MarkValidating(w) ==
  /\ At(w, "codexOk")
  /\ MarkJob(w, "VALIDATING") /\ NextIteration(w)
  /\ UNCHANGED <<runs, prs, paused, request, history>>

\* The second write of every failure: the run is FAILED, now the job is BLOCKED.
Block(w) ==
  /\ At(w, "block")
  /\ MarkJob(w, "BLOCKED") /\ NextIteration(w)
  /\ UNCHANGED <<runs, prs, paused, request, history>>

------------------------------------------------------------------------------
(* The validation stage. *)

ClaimValidating(w) ==
  /\ At(w, "validationClaim")
  /\ \/ FoundPaused(w)
     \/ FoundNone(w, "VALIDATING",
                  IF w \in PrWorkers THEN "reviewClaim" ELSE "lifecycleClaim")
     \/ FoundUnleased(w, "VALIDATING", "validate")
  /\ UNCHANGED <<runs, prs, paused, request, history>>

ValidationMissing(w) ==
  /\ At(w, "validate") /\ Lacks(w, {"worktree"})
  /\ BlockForMissing(w, worker[w].meta \cup {"validation"})

ValidationFails(w) ==
  /\ At(w, "validate") /\ ~Lacks(w, {"worktree"})
  /\ MarkRun(w, "FAILED", worker[w].meta \cup {"validation"}) /\ Goto(w, "block")
  /\ UNCHANGED <<jobs, prs, paused, request, history>>

\* Here alone the job is written before the run.
ValidationPasses(w) ==
  /\ At(w, "validate") /\ ~Lacks(w, {"worktree"})
  /\ MarkJob(w, IF worker[w].job \in DraftPrJobs THEN "REVIEW" ELSE "COMPLETED")
  /\ Goto(w, "validationRun")
  /\ validated' = [validated EXCEPT ![worker[w].job] = TRUE]
  /\ UNCHANGED <<runs, prs, paused, request, approvals, spends, reviewed, owed>>

MarkValidated(w) ==
  /\ At(w, "validationRun")
  /\ MarkRun(w, "SUCCEEDED", worker[w].meta \cup {"validation"}) /\ NextIteration(w)
  /\ UNCHANGED <<jobs, prs, paused, request, history>>

------------------------------------------------------------------------------
(* Draft pull request creation.  The job stays PR_APPROVED throughout. *)

\* A faulty variant of ClaimReview: it takes what is still waiting for a reviewer.
ClaimUnapproved(w) ==
  /\ At(w, "reviewClaim")
  /\ FoundPaused(w) \/ FoundNone(w, "REVIEW", "lifecycleClaim")
       \/ FoundUnleased(w, "REVIEW", "push")
  /\ UNCHANGED <<runs, prs, paused, request, history>>

ClaimReview(w) ==
  /\ At(w, "reviewClaim")
  /\ \/ FoundPaused(w)
     \/ FoundNone(w, "PR_APPROVED", "lifecycleClaim")
     \/ FoundUnleased(w, "PR_APPROVED", "push")
  /\ UNCHANGED <<runs, prs, paused, request, history>>

\* The metadata with a new pullRequest part, which has a prUrl only on success.
WithPullRequest(meta, keys) == (meta \ {"prUrl"}) \cup {"pullRequest"} \cup keys

PushMissing(w) ==
  /\ At(w, "push") /\ Lacks(w, {"worktree"})
  /\ BlockForMissing(w, WithPullRequest(worker[w].meta, {}))

StartPush(w) ==
  /\ At(w, "push") /\ ~Lacks(w, {"worktree"})
  /\ MarkRun(w, "PUSHING", WithPullRequest(worker[w].meta, {})) /\ Goto(w, "pushing")
  /\ UNCHANGED <<jobs, prs, paused, request, history>>

\* createDraftPullRequest: nothing to commit, a push that is rejected, a gh error.
PushFails(w) ==
  /\ At(w, "pushing")
  /\ MarkRun(w, "FAILED", WithPullRequest(worker[w].meta, {})) /\ Goto(w, "block")
  /\ UNCHANGED <<jobs, prs, paused, request, history>>

\* `gh pr create` refuses a head branch that already has an open pull request.
PushSucceeds(w) ==
  /\ At(w, "pushing") /\ prs[worker[w].job] # "open"
  /\ prs' = [prs EXCEPT ![worker[w].job] = "open"]
  /\ Goto(w, "prRun")
  /\ UNCHANGED <<jobs, runs, paused, request, history>>

MarkRunPrCreated(w) ==
  /\ At(w, "prRun")
  /\ MarkRun(w, "PR_CREATED", WithPullRequest(worker[w].meta, {"prUrl"}))
  /\ Goto(w, "prJob")
  /\ UNCHANGED <<jobs, prs, paused, request, history>>

MarkJobPrCreated(w) ==
  /\ At(w, "prJob")
  /\ MarkJob(w, "PR_CREATED") /\ NextIteration(w)
  /\ UNCHANGED <<runs, prs, paused, request, history>>

------------------------------------------------------------------------------
(* Following a pull request.  What gh reports is read in the step that makes *)
(* the first write it leads to: nothing in the database happens in between.  *)

\* The claim is skipped in the iterations that RunnerLoop gives to the queue.
ClaimPrCreated(w) ==
  /\ At(w, "lifecycleClaim")
  /\ \/ FoundPaused(w)
     \/ FoundNone(w, "PR_CREATED", "queuedClaim")
     \/ FoundUnleased(w, "PR_CREATED", "inspect")
     \/ Goto(w, "queuedClaim") /\ UNCHANGED jobs
  /\ UNCHANGED <<runs, prs, paused, request, history>>

LifecycleMissing(w) ==
  /\ At(w, "inspect") /\ Lacks(w, {"worktree", "prUrl"})
  /\ BlockForMissing(w, worker[w].meta \cup {"pullRequest"})

CanInspect(w) == At(w, "inspect") /\ ~Lacks(w, {"worktree", "prUrl"})

\* gh failed, or the checks are pending, passed or absent: the metadata that was
\* read at the claim is written back with the new lifecycle in it.
NoteLifecycle(w) ==
  /\ CanInspect(w)
  /\ MarkRun(w, HeldRun(w).status, worker[w].meta) /\ NextIteration(w)
  /\ UNCHANGED <<jobs, prs, paused, request, history>>

\* A faulty variant of FindMerged: a pull request that was closed counts too.
FindResolved(w) ==
  /\ CanInspect(w) /\ prs[worker[w].job] \in {"merged", "closed"}
  /\ MarkRun(w, "SUCCEEDED", worker[w].meta) /\ Goto(w, "complete")
  /\ UNCHANGED <<jobs, prs, paused, request, history>>

FindMerged(w) ==
  /\ CanInspect(w) /\ prs[worker[w].job] = "merged"
  /\ MarkRun(w, "SUCCEEDED", worker[w].meta) /\ Goto(w, "complete")
  /\ UNCHANGED <<jobs, prs, paused, request, history>>

MarkCompleted(w) ==
  /\ At(w, "complete")
  /\ MarkJob(w, "COMPLETED") /\ NextIteration(w)
  /\ UNCHANGED <<runs, prs, paused, request, history>>

FindClosed(w) ==
  /\ CanInspect(w) /\ prs[worker[w].job] = "closed"
  /\ MarkRun(w, "FAILED", worker[w].meta) /\ Goto(w, "block")
  /\ UNCHANGED <<jobs, prs, paused, request, history>>

FindChecksFailed(w) ==
  /\ CanInspect(w) /\ prs[worker[w].job] = "open"
  /\ Goto(w, "checksFailed")
  /\ UNCHANGED <<jobs, runs, prs, paused, request, history>>

\* A faulty variant of GiveUpOnChecks: it looks again instead, in the same stage.
LookAgain(w) ==
  /\ At(w, "checksFailed") /\ Goto(w, "inspect")
  /\ UNCHANGED <<jobs, runs, prs, paused, request, history>>

\* decideAutoRetryOutcome: the budget is exhausted, or the logs cannot be had.
GiveUpOnChecks(w) ==
  /\ At(w, "checksFailed")
  /\ MarkRun(w, "FAILED", worker[w].meta) /\ Goto(w, "block")
  /\ UNCHANGED <<jobs, prs, paused, request, history>>

\* A faulty variant of HasRetryBudget, off by one.
HasRetryBudgetInclusive(w) == worker[w].retries <= MaxAutoRetries

\* The budget is judged by the count the worker read at its claim.
HasRetryBudget(w) == worker[w].retries < MaxAutoRetries

\* queueAutomaticCodexRetry: a single transaction, a no-op off PR_CREATED.
AutoRetry(w) ==
  LET j == worker[w].job IN
  /\ At(w, "checksFailed") /\ HasRetryBudget(w)
  /\ IF jobs[j].status = "PR_CREATED"
       THEN /\ jobs' = [jobs EXCEPT ![j] =
                 [status |-> "CODEX_APPROVED", retries |-> @.retries + 1]]
            /\ MarkRun(w, "READY_FOR_CODEX",
                 (worker[w].meta \ {"validation", "pullRequest", "prUrl"})
                   \cup {"retryFeedback"})
            /\ owed' = [owed EXCEPT ![j] = TRUE]
       ELSE UNCHANGED <<jobs, runs, owed>>
  /\ NextIteration(w)
  /\ UNCHANGED <<prs, paused, request, approvals, spends, reviewed, validated>>

------------------------------------------------------------------------------
(* Setting up a queued job. *)

\* claimNextQueuedJob leases the job: QUEUED becomes CLAIMED.
ClaimQueued(w) ==
  /\ At(w, "queuedClaim")
  /\ \/ FoundPaused(w)
     \/ FoundNone(w, "QUEUED", "codexClaim")
     \/ \E j \in Jobs :
          /\ ~paused /\ jobs[j].status = "QUEUED"
          /\ SetJob(j, "CLAIMED")
          /\ worker' = [worker EXCEPT ![w] = [LoopTop EXCEPT !.pc = "checkout", !.job = j]]
  /\ UNCHANGED <<runs, prs, paused, request, history>>

CheckoutFails(w) ==
  /\ At(w, "checkout")
  /\ MarkJob(w, "BLOCKED") /\ NextIteration(w)
  /\ UNCHANGED <<runs, prs, paused, request, history>>

CheckoutValid(w) ==
  /\ At(w, "checkout")
  /\ MarkJob(w, "RUNNING") /\ Goto(w, "createRun")
  /\ UNCHANGED <<runs, prs, paused, request, history>>

CreateJobRun(w) ==
  LET j == worker[w].job IN
  /\ At(w, "createRun")
  /\ runs' = [runs EXCEPT ![j] = Append(@, [status |-> "STARTED", meta |-> {}])]
  /\ worker' = [worker EXCEPT ![w].pc = "prepare", ![w].run = Len(runs[j]) + 1]
  /\ UNCHANGED <<jobs, prs, paused, request, history>>

\* resetJobWorktreeForFreshStart or createJobWorktree fails; no metadata is given.
PrepareFails(w) ==
  /\ At(w, "prepare")
  /\ MarkRun(w, "FAILED", HeldRun(w).meta) /\ Goto(w, "block")
  /\ UNCHANGED <<jobs, prs, paused, request, history>>

\* A faulty variant of PrepareSucceeds: markRunReadyForCodex is left out.
PrepareWithoutRun(w) ==
  /\ At(w, "prepare")
  /\ MarkRun(w, HeldRun(w).status, {"worktree"}) /\ Goto(w, "readyJob")
  /\ UNCHANGED <<jobs, prs, paused, request, history>>

PrepareSucceeds(w) ==
  /\ At(w, "prepare")
  /\ MarkRun(w, HeldRun(w).status, {"worktree"}) /\ Goto(w, "readyRun")
  /\ UNCHANGED <<jobs, prs, paused, request, history>>

MarkRunReady(w) ==
  /\ At(w, "readyRun")
  /\ MarkRun(w, "READY_FOR_CODEX", HeldRun(w).meta) /\ Goto(w, "readyJob")
  /\ UNCHANGED <<jobs, prs, paused, request, history>>

MarkJobReady(w) ==
  /\ At(w, "readyJob")
  /\ MarkJob(w, "READY_FOR_CODEX") /\ NextIteration(w)
  /\ UNCHANGED <<runs, prs, paused, request, history>>

------------------------------------------------------------------------------
(* The API's job routes.  Those that read a job, decide, and then write it   *)
(* without a condition are two actions; those whose write is an updateMany   *)
(* with the expected status are one.                                         *)

Idle(r) == request[r] = NoRequest

Unattended(j) == \A w \in Workers : worker[w].job # j

Begin(r, route, j, target, feedback, meta) ==
  /\ Idle(r) /\ route \in Routes /\ (AttendedRoutes \/ Unattended(j))
  /\ request' = [request EXCEPT ![r] =
       [route |-> route, job |-> j, run |-> Len(runs[j]), meta |-> meta,
        target |-> target, feedback |-> feedback]]
  /\ UNCHANGED <<jobs, runs, prs, paused, worker, history>>

Reply(r) == request' = [request EXCEPT ![r] = NoRequest]

\* POST /jobs/:id/approve-review: a Jira call lies between its read and its write.
ReadForApproval(r, j) ==
  /\ jobs[j].status = "NEEDS_REVIEW"
  /\ Begin(r, "approveReview", j, "QUEUED", FALSE, {})

ApproveReview(r) ==
  /\ request[r].route = "approveReview"
  /\ SetJob(request[r].job, "QUEUED") /\ Reply(r)
  /\ UNCHANGED <<runs, prs, paused, worker, history>>

\* A faulty variant of Cancelable: a job that a worker has claimed.
CancelableClaimed == {"DRAFT", "NEEDS_REVIEW", "QUEUED", "RETRY", "CLAIMED"}

Cancelable == {"DRAFT", "NEEDS_REVIEW", "QUEUED", "RETRY"}
Retryable == {"BLOCKED", "FAILED", "RETRY"}
StageRetryable == Retryable \cup {"REVIEW", "PR_APPROVED"}

\* POST /jobs/:id/cancel, guarded in the update itself.
Cancel(j) ==
  /\ "cancel" \in Routes /\ jobs[j].status \in Cancelable
  /\ SetJob(j, "CANCELED")
  /\ UNCHANGED <<runs, prs, paused, worker, request, history>>

\* POST /jobs/:id/approve-codex, guarded in the update itself.
ApproveCodex(j) ==
  /\ jobs[j].status = "READY_FOR_CODEX" /\ approvals[j] < MaxApprovals
  /\ SetJob(j, "CODEX_APPROVED")
  /\ approvals' = [approvals EXCEPT ![j] = @ + 1]
  /\ UNCHANGED <<runs, prs, paused, worker, request, spends, reviewed, validated, owed>>

\* POST /jobs/:id/approve-pr, guarded in the update itself.
ApprovePr(j) ==
  /\ jobs[j].status = "REVIEW"
  /\ SetJob(j, "PR_APPROVED")
  /\ reviewed' = [reviewed EXCEPT ![j] = TRUE]
  /\ UNCHANGED <<runs, prs, paused, worker, request, approvals, spends, validated, owed>>

\* POST /jobs/:id/requeue: the next attempt gets a run of its own, without feedback.
ReadForRequeue(r, j) ==
  /\ jobs[j].status \in Retryable /\ Len(runs[j]) < MaxRuns
  /\ Begin(r, "requeue", j, "QUEUED", FALSE, {})

Requeue(r) ==
  /\ request[r].route = "requeue"
  /\ SetJob(request[r].job, "QUEUED") /\ Reply(r)
  /\ owed' = [owed EXCEPT ![request[r].job] = FALSE]
  /\ UNCHANGED <<runs, prs, paused, worker, approvals, spends, reviewed, validated>>

\* Faulty variants of RetryTarget: feedback goes straight to Codex; a job that
\* has come through no stage goes to the first.
RetryUnapproved(status, meta, feedback) ==
  IF feedback /\ meta \cap {"codex", "worktree"} # {} THEN "CODEX_APPROVED"
  ELSE IF "pullRequest" \in meta \/ status \in {"REVIEW", "PR_APPROVED"} THEN "REVIEW"
  ELSE IF "validation" \in meta THEN "VALIDATING"
  ELSE "READY_FOR_CODEX"

RetryAnyway(status, meta, feedback) ==
  IF feedback THEN "READY_FOR_CODEX"
  ELSE IF "pullRequest" \in meta \/ status \in {"REVIEW", "PR_APPROVED"} THEN "REVIEW"
  ELSE IF "validation" \in meta THEN "VALIDATING"
  ELSE "READY_FOR_CODEX"

\* The stage that POST /jobs/:id/retry-stage returns a job to: DRAFT for none.
RetryTarget(status, meta, feedback) ==
  LET codexAttempt == meta \cap {"codex", "worktree"} # {} IN
  IF feedback /\ codexAttempt THEN "READY_FOR_CODEX"
  ELSE IF "pullRequest" \in meta \/ status \in {"REVIEW", "PR_APPROVED"} THEN "REVIEW"
  ELSE IF "validation" \in meta THEN "VALIDATING"
  ELSE IF codexAttempt THEN "READY_FOR_CODEX"
  ELSE "DRAFT"

\* Faulty variants of RetryMeta: the later stages' traces stay; the feedback is lost.
KeepTraces(meta, feedback) == IF feedback THEN meta \cup {"retryFeedback"} ELSE meta
LoseFeedback(meta, feedback) ==
  IF feedback THEN meta \ {"validation", "pullRequest", "prUrl"} ELSE meta

RetryMeta(meta, feedback) ==
  IF feedback
    THEN (meta \ {"validation", "pullRequest", "prUrl"}) \cup {"retryFeedback"}
    ELSE meta

ReadForRetryStage(r, j, feedback) ==
  LET target == RetryTarget(jobs[j].status, LatestMeta(j), feedback) IN
  /\ jobs[j].status \in StageRetryable /\ runs[j] # <<>>
  /\ target # "DRAFT"
  /\ Begin(r, "retryStage", j, target, feedback, RetryMeta(LatestMeta(j), feedback))

\* A faulty variant of RetriedRunStatus: the run is given the status of the job.
JobStatusForRun(target) == target

RetriedRunStatus(target) ==
  CASE target = "REVIEW" -> "SUCCEEDED"
    [] target = "VALIDATING" -> "VALIDATING"
    [] OTHER -> "READY_FOR_CODEX"

\* One transaction over the run and the job, from what the handler read before.
RetryStage(r) ==
  LET j == request[r].job
      target == request[r].target
  IN
  /\ request[r].route = "retryStage"
  /\ SetRun(j, request[r].run, RetriedRunStatus(target), request[r].meta)
  /\ SetJob(j, target)
  /\ owed' = [owed EXCEPT ![j] =
       @ \/ (request[r].feedback /\ target = "READY_FOR_CODEX")]
  /\ Reply(r)
  /\ UNCHANGED <<prs, paused, worker, approvals, spends, reviewed, validated>>

\* POST /queue/pause and /queue/resume.
SetPaused(p) ==
  /\ "pause" \in Routes /\ paused # p
  /\ paused' = p
  /\ UNCHANGED <<jobs, runs, prs, worker, request, history>>

------------------------------------------------------------------------------
(* What happens outside: a human merges or closes the pull request on GitHub, *)
(* or a worker is killed (or shut down: shutdown() does not wait for a stage) *)
(* and starts again with nothing but the database.                            *)

ResolvePr(j, state) ==
  /\ prs[j] = "open" /\ state \in {"merged", "closed"}
  /\ prs' = [prs EXCEPT ![j] = state]
  /\ UNCHANGED <<jobs, runs, paused, worker, request, history>>

Crash(w) ==
  /\ Crashes /\ ~At(w, "codexClaim")
  /\ NextIteration(w)
  /\ UNCHANGED <<jobs, runs, prs, paused, request, history>>

------------------------------------------------------------------------------

CodexStage(w) ==
  ClaimCodex(w) \/ SkipCodex(w) \/ CodexMissing(w) \/ StartCodex(w)
    \/ CodexFails(w) \/ CodexSucceeds(w) \/ MarkValidating(w)

ValidationStage(w) ==
  ClaimValidating(w) \/ ValidationMissing(w) \/ ValidationFails(w)
    \/ ValidationPasses(w) \/ MarkValidated(w)

PushStage(w) ==
  ClaimReview(w) \/ PushMissing(w) \/ StartPush(w) \/ PushFails(w)
    \/ PushSucceeds(w) \/ MarkRunPrCreated(w) \/ MarkJobPrCreated(w)

LifecycleStage(w) ==
  ClaimPrCreated(w) \/ LifecycleMissing(w) \/ NoteLifecycle(w) \/ FindMerged(w)
    \/ MarkCompleted(w) \/ FindClosed(w) \/ FindChecksFailed(w)
    \/ GiveUpOnChecks(w) \/ AutoRetry(w)

SetupStage(w) ==
  ClaimQueued(w) \/ CheckoutFails(w) \/ CheckoutValid(w) \/ CreateJobRun(w)
    \/ PrepareFails(w) \/ PrepareSucceeds(w) \/ MarkRunReady(w) \/ MarkJobReady(w)

WorkerStep(w) ==
  CodexStage(w) \/ ValidationStage(w) \/ PushStage(w) \/ LifecycleStage(w)
    \/ SetupStage(w) \/ Block(w) \/ FailRun(w)

RouteReads(r) ==
  \E j \in Jobs :
    \/ ReadForApproval(r, j) \/ ReadForRequeue(r, j)
    \/ \E feedback \in BOOLEAN : ReadForRetryStage(r, j, feedback)

RouteWrites(r) == ApproveReview(r) \/ Requeue(r) \/ RetryStage(r)

\* Under AtomicRoutes nothing else happens while a request is in progress.
MayInterleave == AtomicRoutes => \A r \in Requests : Idle(r)

Next ==
  \/ \E r \in Requests : RouteWrites(r)
  \/ /\ MayInterleave
     /\ \/ \E w \in Workers : WorkerStep(w) \/ Crash(w)
        \/ \E r \in Requests : RouteReads(r)
        \/ \E j \in Jobs : Cancel(j) \/ ApproveCodex(j) \/ ApprovePr(j)
        \/ \E j \in Jobs, state \in PrState : ResolvePr(j, state)
        \/ \E p \in BOOLEAN : SetPaused(p)

\* A running worker and a handler that has begun take their next step: every
\* child process of a stage ends or is killed by its timeout, except the
\* validation command, which is taken to end.
Fairness ==
  /\ \A w \in Workers : WF_vars(MayInterleave /\ WorkerStep(w))
  /\ \A r \in Requests : WF_vars(RouteWrites(r))

Spec == Init /\ [][Next]_vars /\ Fairness

------------------------------------------------------------------------------
(* Properties. *)

\* approve-codex and the bounded automatic retries are the only licences to spend
\* on a model, and a licence is spent once: however claims, stale writes, crashes
\* and routes interleave, workers never take a job to Codex more often than that.
SpendIsGranted ==
  \A j \in Jobs : spends[j] <= approvals[j] + jobs[j].retries

\* FERRET_RUNNER_MAX_AUTO_RETRIES bounds the retries nobody approved.
AutoRetriesBounded == \A j \in Jobs : jobs[j].retries <= MaxAutoRetries

InFlight == {"CLAIMED", "RUNNING"}
MovingOn == SetupLabels \cup CodexLabels \cup {"block"}

\* A job that is being set up or run is held by a worker that will yet move it on:
\* no path through a stage forgets the status, and no route takes it away.
InFlightIsHeld ==
  \A j \in Jobs : jobs[j].status \in InFlight =>
    \E w \in Workers : worker[w].job = j /\ worker[w].pc \in MovingOn

\* The work branch is pushed only when a human has approved it since Codex last
\* took the job, so nobody else's later work goes out under that approval.
PushIsReviewed ==
  \A w \in Workers : worker[w].pc \in {"push", "pushing"} => reviewed[worker[w].job]

\* What a reviewer is shown in REVIEW has passed validation since Codex last ran.
ReviewedIsValidated ==
  \A j \in Jobs : jobs[j].status \in {"REVIEW", "PR_APPROVED"} => validated[j]

\* A stage finds in the latest run what the stages before it must have left there.
StageInputsPresent ==
  \A w \in Workers :
    /\ worker[w].pc \in {"codexStart", "validate", "push"} => ~Lacks(w, {"worktree"})
    /\ worker[w].pc = "inspect" => ~Lacks(w, {"worktree", "prUrl"})

\* Feedback that retry-stage, or a failed check, sent to Codex is in the metadata
\* from which the worker builds the prompt of the next Codex run.
FeedbackReachesCodex ==
  \A w \in Workers :
    At(w, "codexStart") /\ owed[worker[w].job] => "retryFeedback" \in worker[w].meta

\* What the latest run of a job that nobody is working on may say.
RunAgrees(j) ==
  LET run == runs[j][Len(runs[j])] IN
  CASE jobs[j].status \in {"READY_FOR_CODEX", "CODEX_APPROVED"} ->
         run.status = "READY_FOR_CODEX" /\ "worktree" \in run.meta
    [] jobs[j].status = "VALIDATING" ->
         run.status = "VALIDATING" /\ {"worktree", "codex"} \subseteq run.meta
    [] jobs[j].status \in {"REVIEW", "PR_APPROVED"} ->
         run.status = "SUCCEEDED" /\ {"worktree", "codex"} \subseteq run.meta
    [] jobs[j].status = "PR_CREATED" ->
         run.status = "PR_CREATED" /\ "prUrl" \in run.meta
    [] jobs[j].status = "COMPLETED" -> run.status = "SUCCEEDED"
    [] jobs[j].status = "BLOCKED" -> runs[j] = <<>> \/ run.status = "FAILED"
    [] OTHER -> TRUE

RowsAgree == \A j \in Jobs : Unattended(j) => RunAgrees(j)

\* A job that is canceled or completed is never worked on again.
EndIsFinal ==
  [][\A j \in Jobs : jobs[j].status \in {"CANCELED", "COMPLETED"}
       => jobs'[j].status = jobs[j].status]_vars

\* A job leaves the stages that need no human, unless the queue stays paused.
UnattendedStatus == {"CLAIMED", "RUNNING", "VALIDATING"}
StagesDrain ==
  <>[]~paused =>
    \A j \in Jobs : (jobs[j].status \in UnattendedStatus)
                      ~> (jobs[j].status \notin UnattendedStatus)

\* Pausing the queue lets each worker finish the stage it is in, and after that no
\* worker holds a job.
PauseDrains == <>[]paused => <>[](\A w \in Workers : worker[w].job = None)

\* What is promised of model spend, see SpendGate: a licence is the status
\* CODEX_APPROVED, and a worker has taken one from its claim until Codex ends.
TakingLabels == {"codexSkip", "codexStart", "codexRunning"}
Licensed == {j \in Jobs : jobs[j].status = "CODEX_APPROVED"}
Taken ==
  [w \in Workers |-> IF worker[w].pc \in TakingLabels THEN worker[w].job ELSE None]
Granted == [j \in Jobs |-> approvals[j] + jobs[j].retries]

Gate == INSTANCE SpendGate WITH
  licensed <- Licensed, taken <- Taken, granted <- Granted, spent <- spends

SpendGateSpec == Gate!Spec
==============================================================================
