------------------------------ MODULE Worktree ------------------------------
(***************************************************************************)
(* The git worktrees and work branches in which jobs of one repository are *)
(* done (apps/ferret-runner/src/worktree.ts), the commands on them in the  *)
(* order one worker gives them, the sweep of expired worktrees, and the    *)
(* origin to which createDraftPullRequest pushes.                          *)
(*                                                                         *)
(* One action is one git or gh command that changes something, or one      *)
(* write of the job's row.  The rows themselves are the subject of         *)
(* JobPipeline: here a human gate that was passed and one that was not are *)
(* one status (READY_FOR_CODEX, REVIEW), CLAIMED is RUNNING, the two       *)
(* writes that end a stage are one, and each route is one step.            *)
(***************************************************************************)
EXTENDS Naturals, FiniteSets

CONSTANTS
  Jobs, NoJob,
  Routes,           \* the job routes that clients call
  MaxAutoRetries,   \* FERRET_RUNNER_MAX_AUTO_RETRIES
  GitFails,         \* TRUE: git, gh and the network may fail
  Crashes,          \* TRUE: the worker may be killed between two commands
  RemoteDeletes,    \* TRUE: people delete work branches on GitHub
  MaxCalls          \* bound on the requeue and retry-stage calls per job

ASSUME WorktreeAssumption ==
  /\ NoJob \notin Jobs
  /\ MaxAutoRetries \in Nat /\ MaxCalls \in Nat
  /\ GitFails \in BOOLEAN /\ Crashes \in BOOLEAN /\ RemoteDeletes \in BOOLEAN

VARIABLES
  status,      \* the status in the job's row
  trace,       \* the parts of the latest run's metadata
  expired,     \* the job has had its status for longer than the retention window
  retries,     \* autoRetryCount
  dir,         \* the job's worktree exists
  dirty,       \* it has changes that are not committed
  branch,      \* the job's local work branch exists
  local,       \* the commits on it that were made for the job
  tracking,    \* what the local repository last knew of the branch on origin
  remote,      \* the commits on the job's branch on origin
  pr,          \* the pull request of the branch
  at,          \* the command the worker is about to give
  job,         \* the job it is about
  purpose,     \* why it removes a worktree
  ok,          \* no command of the removal has failed yet
  doomed,      \* the jobs whose worktrees the running sweep has decided to remove
  due,         \* the next sweep is due
  calls,       \* routes called so far
  made,        \* history: commits made for the job
  discarded    \* history: commits that a sweep, or the end of the job, gave up

rows == <<status, trace, expired, retries>>
tree == <<dir, dirty, branch, local>>
origin == <<tracking, remote, pr>>
place == <<at, job, purpose, ok, doomed, due>>
vars == <<rows, tree, origin, place, calls, made, discarded>>

Status ==
  {"QUEUED", "RUNNING", "READY_FOR_CODEX", "VALIDATING", "REVIEW", "PR_CREATED",
   "COMPLETED", "BLOCKED", "CANCELED"}
Parts == {"worktree", "codex", "validation", "pullRequest"}
Purposes == {"none", "requeue-reset", "pr-merged", "retention-expired"}
Commands ==
  {"top", "claims", "sweep", "reset", "remove", "delete", "removed", "create", "switch",
   "codex", "validate", "commit", "push", "gh", "inspect", "dead"}

TypeOK ==
  /\ status \in [Jobs -> Status]
  /\ trace \in [Jobs -> SUBSET Parts]
  /\ expired \in [Jobs -> BOOLEAN] /\ retries \in [Jobs -> Nat]
  /\ dir \in [Jobs -> BOOLEAN] /\ dirty \in [Jobs -> BOOLEAN]
  /\ branch \in [Jobs -> BOOLEAN]
  /\ local \in [Jobs -> SUBSET Nat]
  /\ tracking \in [Jobs -> SUBSET Nat] /\ remote \in [Jobs -> SUBSET Nat]
  /\ pr \in [Jobs -> {"none", "open", "merged", "closed"}]
  /\ at \in Commands /\ job \in Jobs \cup {NoJob}
  /\ purpose \in Purposes /\ ok \in BOOLEAN
  /\ doomed \in SUBSET Jobs /\ due \in BOOLEAN
  /\ calls \in [Jobs -> Nat]
  /\ made \in [Jobs -> Nat] /\ discarded \in [Jobs -> SUBSET Nat]

\* approve-review has queued every job; the worker's first iteration sweeps.
Init ==
  /\ status = [j \in Jobs |-> "QUEUED"]
  /\ trace = [j \in Jobs |-> {}]
  /\ expired = [j \in Jobs |-> FALSE] /\ retries = [j \in Jobs |-> 0]
  /\ dir = [j \in Jobs |-> FALSE] /\ dirty = [j \in Jobs |-> FALSE]
  /\ branch = [j \in Jobs |-> FALSE] /\ local = [j \in Jobs |-> {}]
  /\ tracking = [j \in Jobs |-> {}] /\ remote = [j \in Jobs |-> {}]
  /\ pr = [j \in Jobs |-> "none"]
  /\ at = "top" /\ job = NoJob /\ purpose = "none" /\ ok = TRUE
  /\ doomed = {} /\ due = TRUE
  /\ calls = [j \in Jobs |-> 0]
  /\ made = [j \in Jobs |-> 0] /\ discarded = [j \in Jobs |-> {}]

------------------------------------------------------------------------------

\* A write to the row of j; it starts the retention clock again.
Write(j, newStatus, newTrace) ==
  /\ status' = [status EXCEPT ![j] = newStatus]
  /\ trace' = [trace EXCEPT ![j] = newTrace]
  /\ expired' = [expired EXCEPT ![j] = FALSE]
  /\ UNCHANGED retries

Do(command, j) == at' = command /\ job' = j /\ UNCHANGED <<purpose, ok, doomed, due>>
Top == Do("top", NoJob)
Then(command) == Do(command, job)

\* The stage ends: the job's row says how, the worker starts its next iteration.
End(newStatus, newTrace) == Write(job, newStatus, newTrace) /\ Top
Block(part) == End("BLOCKED", trace[job] \cup part)

StartRemoval(j, why) ==
  /\ at' = "remove" /\ job' = j /\ purpose' = why /\ ok' = TRUE
  /\ UNCHANGED <<doomed, due>>

------------------------------------------------------------------------------
(* The sweep: once at startup and then every interval, before the claims. *)

RetentionStatuses == {"BLOCKED", "CANCELED", "FAILED"}

\* Faulty variants of Decide: the status does not matter; only FAILED counts.
DecideAnyStatus(j) == dir[j]
DecideFailed(j) == dir[j] /\ status[j] = "FAILED" /\ expired[j]

\* findJobs reads the rows once; the decisions are made from what it returned.
Decide(j) == dir[j] /\ status[j] \in RetentionStatuses /\ expired[j]

StartSweep ==
  /\ at = "top" /\ due
  /\ at' = "sweep" /\ due' = FALSE /\ doomed' = {j \in Jobs : Decide(j)}
  /\ UNCHANGED <<rows, tree, origin, job, purpose, ok, calls, made, discarded>>

SkipSweep ==
  /\ at = "top" /\ ~due /\ Do("claims", NoJob)
  /\ UNCHANGED <<rows, tree, origin, calls, made, discarded>>

SweepNext ==
  /\ at = "sweep"
  /\ IF doomed = {}
       THEN Do("claims", NoJob)
       ELSE \E j \in doomed : StartRemoval(j, "retention-expired")
  /\ UNCHANGED <<rows, tree, origin, calls, made, discarded>>

------------------------------------------------------------------------------
(* removeJobWorktree: the worktree, then the branch that was checked out in it. *)

RemoveWorktree ==
  /\ at = "remove"
  /\ \/ /\ dir' = [dir EXCEPT ![job] = FALSE] /\ dirty' = [dirty EXCEPT ![job] = FALSE]
        /\ Then("delete")
     \/ /\ GitFails /\ dir[job] /\ ok' = FALSE /\ at' = "removed"
        /\ UNCHANGED <<dir, dirty, job, purpose, doomed, due>>
  /\ UNCHANGED <<rows, branch, local, origin, calls, made, discarded>>

DeleteBranch ==
  /\ at = "delete"
  /\ \/ /\ branch' = [branch EXCEPT ![job] = FALSE]
        /\ local' = [local EXCEPT ![job] = {}]
        /\ discarded' =
             [discarded EXCEPT ![job] = IF purpose = "requeue-reset" THEN @ ELSE @ \cup local[job]]
        /\ Then("removed")
     \/ /\ GitFails /\ branch[job] /\ ok' = FALSE /\ at' = "removed"
        /\ UNCHANGED <<branch, local, discarded, job, purpose, doomed, due>>
  /\ UNCHANGED <<rows, dir, dirty, origin, calls, made>>

\* What the caller does next.  A sweep and a merge go on after a failure.
AfterRemoval ==
  /\ at = "removed"
  /\ CASE purpose = "requeue-reset" ->
            IF ok THEN Then("create") /\ UNCHANGED rows ELSE Block({})
       [] purpose = "pr-merged" -> End("COMPLETED", trace[job])
       [] OTHER ->
            /\ at' = "sweep" /\ doomed' = doomed \ {job}
            /\ UNCHANGED <<rows, job, purpose, ok, due>>
  /\ UNCHANGED <<tree, origin, calls, made, discarded>>

------------------------------------------------------------------------------
(* A queued job: validate the checkout, reset what an earlier attempt left,  *)
(* create the worktree and its branch.                                       *)

ClaimQueued ==
  /\ at = "claims"
  /\ \E j \in Jobs : status[j] = "QUEUED" /\ Write(j, "RUNNING", trace[j]) /\ Do("reset", j)
  /\ UNCHANGED <<tree, origin, calls, made, discarded>>

\* validateRepositoryCheckout fails: the attempt has no run of its own yet.
CheckoutFails ==
  /\ at = "reset" /\ GitFails /\ Block({})
  /\ UNCHANGED <<tree, origin, calls, made, discarded>>

\* A faulty variant of Unpushed: the branch is not looked at.
UnpushedUnchecked(j) == {}

\* rev-list refs/heads/<branch> --not --remotes.
Unpushed(j) == local[j] \ tracking[j]

\* resetJobWorktreeForFreshStart, in the run that createJobRun has just made.
Reset ==
  /\ at = "reset"
  /\ IF ~dir[job] /\ ~branch[job]
       THEN /\ trace' = [trace EXCEPT ![job] = {}] /\ Then("create")
            /\ UNCHANGED <<status, expired, retries>>
       ELSE IF branch[job] /\ Unpushed(job) # {}
         THEN End("BLOCKED", {})
         ELSE /\ trace' = [trace EXCEPT ![job] = {}] /\ StartRemoval(job, "requeue-reset")
              /\ UNCHANGED <<status, expired, retries>>
  /\ UNCHANGED <<tree, origin, calls, made, discarded>>

\* createJobWorktree up to `git worktree add`: fetch --prune renews what is known of
\* every branch on origin.
AddWorktree ==
  /\ at = "create" /\ ~dir[job] /\ ~branch[job]
  /\ tracking' = remote
  /\ dir' = [dir EXCEPT ![job] = TRUE]
  /\ Then("switch")
  /\ UNCHANGED <<rows, dirty, branch, local, remote, pr, calls, made, discarded>>

CreationFails ==
  /\ at = "create" /\ (GitFails \/ dir[job] \/ branch[job])
  /\ Block({})
  /\ UNCHANGED <<tree, origin, calls, made, discarded>>

\* `git switch -c` on the detached worktree.
SwitchToBranch ==
  /\ at = "switch"
  /\ branch' = [branch EXCEPT ![job] = TRUE]
  /\ End("READY_FOR_CODEX", {"worktree"})
  /\ UNCHANGED <<dir, dirty, local, origin, calls, made, discarded>>

\* The half-prepared worktree is removed, if git will.
SwitchFails ==
  /\ at = "switch" /\ GitFails
  /\ \E removed \in BOOLEAN : dir' = [dir EXCEPT ![job] = ~removed]
  /\ Block({})
  /\ UNCHANGED <<dirty, branch, local, origin, calls, made, discarded>>

------------------------------------------------------------------------------
(* The stages that work in the worktree. *)

Claim(found, command) ==
  /\ at = "claims"
  /\ \E j \in Jobs : status[j] = found /\ Do(command, j)
  /\ UNCHANGED <<rows, tree, origin, calls, made, discarded>>

ClaimCodex ==
  /\ at = "claims"
  /\ \E j \in Jobs :
       /\ status[j] = "READY_FOR_CODEX"
       /\ Write(j, "RUNNING", trace[j]) /\ Do("codex", j)
  /\ UNCHANGED <<tree, origin, calls, made, discarded>>

ClaimValidating == Claim("VALIDATING", "validate")
ClaimReview == Claim("REVIEW", "commit")
ClaimPrCreated == Claim("PR_CREATED", "inspect")

\* Codex is spawned in the worktree; without one the spawn fails.
CodexEnds ==
  /\ at = "codex"
  /\ \/ /\ dir[job] /\ End("VALIDATING", trace[job] \cup {"codex"})
        /\ \E changed \in BOOLEAN : dirty' = [dirty EXCEPT ![job] = @ \/ changed]
     \/ /\ Block({"codex"})
        /\ \E changed \in BOOLEAN :
             dirty' = [dirty EXCEPT ![job] = @ \/ (changed /\ dir[job])]
  /\ UNCHANGED <<dir, branch, local, origin, calls, made, discarded>>

\* A faulty variant of Validate: it does not look for changed files.
ValidateAnything ==
  /\ at = "validate" /\ dir[job]
  /\ \/ Block({"validation"})
     \/ \E next \in {"REVIEW", "COMPLETED"} : End(next, trace[job] \cup {"validation"})
  /\ UNCHANGED <<tree, origin, calls, made, discarded>>

\* validateGeneratedWork: no changed files is a failure; createDraftPr decides
\* whether a job that passes goes on to review.
Validate ==
  /\ at = "validate" /\ dir[job]
  /\ \/ Block({"validation"})
     \/ /\ dirty[job]
        /\ \E next \in {"REVIEW", "COMPLETED"} : End(next, trace[job] \cup {"validation"})
  /\ UNCHANGED <<tree, origin, calls, made, discarded>>

\* `git status` in a worktree that is gone rejects, and nothing in the loop catches
\* it: the process ends, and the job stays VALIDATING.
ValidateNothing ==
  /\ at = "validate" /\ ~dir[job] /\ Do("dead", NoJob)
  /\ UNCHANGED <<rows, tree, origin, calls, made, discarded>>

Commit ==
  /\ at = "commit" /\ dir[job] /\ dirty[job]
  /\ made' = [made EXCEPT ![job] = @ + 1]
  /\ local' = [local EXCEPT ![job] = @ \cup {made[job] + 1}]
  /\ dirty' = [dirty EXCEPT ![job] = FALSE]
  /\ Then("push")
  /\ UNCHANGED <<rows, dir, branch, origin, calls, discarded>>

\* Nothing to commit, or no worktree to look in.
CommitFails ==
  /\ at = "commit" /\ (GitFails \/ ~dir[job] \/ ~dirty[job])
  /\ Block({"pullRequest"})
  /\ UNCHANGED <<tree, origin, calls, made, discarded>>

Push ==
  /\ at = "push" /\ remote[job] \subseteq local[job]
  /\ remote' = [remote EXCEPT ![job] = local[job]]
  /\ tracking' = [tracking EXCEPT ![job] = local[job]]
  /\ Then("gh")
  /\ UNCHANGED <<rows, tree, pr, calls, made, discarded>>

\* A push without --force is rejected unless it is a fast-forward.
PushFails ==
  /\ at = "push" /\ (GitFails \/ ~(remote[job] \subseteq local[job]))
  /\ Block({"pullRequest"})
  /\ UNCHANGED <<tree, origin, calls, made, discarded>>

CreatePr ==
  /\ at = "gh" /\ pr[job] # "open"
  /\ pr' = [pr EXCEPT ![job] = "open"]
  /\ End("PR_CREATED", trace[job] \cup {"pullRequest"})
  /\ UNCHANGED <<tree, tracking, remote, calls, made, discarded>>

CreatePrFails ==
  /\ at = "gh" /\ (GitFails \/ pr[job] = "open")
  /\ Block({"pullRequest"})
  /\ UNCHANGED <<tree, origin, calls, made, discarded>>

\* inspectPullRequestLifecycle and what each answer leads to.
Inspect ==
  /\ at = "inspect"
  /\ \/ Top /\ UNCHANGED rows
     \/ pr[job] = "merged" /\ StartRemoval(job, "pr-merged") /\ UNCHANGED rows
     \/ pr[job] = "closed" /\ Block({})
     \/ pr[job] = "open" /\ Block({})
     \/ /\ pr[job] = "open" /\ retries[job] < MaxAutoRetries
        /\ status' = [status EXCEPT ![job] = "READY_FOR_CODEX"]
        /\ trace' = [trace EXCEPT ![job] = @ \ {"validation", "pullRequest"}]
        /\ retries' = [retries EXCEPT ![job] = @ + 1]
        /\ Top /\ UNCHANGED expired
  /\ UNCHANGED <<tree, origin, calls, made, discarded>>

\* The queue is paused, or no claim finds a job that has been approved.
NothingToClaim ==
  /\ at = "claims" /\ Top
  /\ UNCHANGED <<rows, tree, origin, calls, made, discarded>>

WorkerStep ==
  \/ StartSweep \/ SkipSweep \/ SweepNext
  \/ RemoveWorktree \/ DeleteBranch \/ AfterRemoval
  \/ ClaimQueued \/ CheckoutFails \/ Reset \/ AddWorktree \/ CreationFails
  \/ SwitchToBranch \/ SwitchFails
  \/ ClaimCodex \/ CodexEnds
  \/ ClaimValidating \/ Validate \/ ValidateNothing
  \/ ClaimReview \/ Commit \/ CommitFails \/ Push \/ PushFails \/ CreatePr \/ CreatePrFails
  \/ ClaimPrCreated \/ Inspect
  \/ NothingToClaim

------------------------------------------------------------------------------
(* Around the worker. *)

Call(j) == calls[j] < MaxCalls /\ calls' = [calls EXCEPT ![j] = @ + 1]

Requeue(j) ==
  /\ "requeue" \in Routes /\ status[j] = "BLOCKED" /\ Call(j)
  /\ Write(j, "QUEUED", trace[j])
  /\ UNCHANGED <<tree, origin, place, made, discarded>>

Cancel(j) ==
  /\ "cancel" \in Routes /\ status[j] = "QUEUED"
  /\ Write(j, "CANCELED", trace[j])
  /\ UNCHANGED <<tree, origin, place, calls, made, discarded>>

\* A faulty variant of RetryTarget: the job is given the status of the run.
RunStatusForJob(j) == "SUCCEEDED"

\* The stage a retry without feedback returns the job to.
RetryTarget(j) ==
  IF "pullRequest" \in trace[j] \/ status[j] = "REVIEW" THEN "REVIEW"
  ELSE IF "validation" \in trace[j] THEN "VALIDATING"
  ELSE "READY_FOR_CODEX"

RetryStage(j) ==
  /\ "retryStage" \in Routes /\ status[j] \in {"BLOCKED", "REVIEW"} /\ Call(j)
  /\ trace[j] \cap {"worktree", "codex"} # {}
  /\ \/ Write(j, RetryTarget(j), trace[j])
     \/ Write(j, "READY_FOR_CODEX", trace[j] \ {"validation", "pullRequest"})
  /\ UNCHANGED <<tree, origin, place, made, discarded>>

\* The sweep interval, and the retention window of a job, run out.
SweepComesDue ==
  /\ ~due /\ due' = TRUE
  /\ UNCHANGED <<rows, tree, origin, at, job, purpose, ok, doomed, calls, made, discarded>>

Expire(j) ==
  /\ status[j] \in RetentionStatuses /\ ~expired[j]
  /\ expired' = [expired EXCEPT ![j] = TRUE]
  /\ UNCHANGED <<status, trace, retries, tree, origin, place, calls, made, discarded>>

ResolvePr(j, state) ==
  /\ pr[j] = "open" /\ state \in {"merged", "closed"}
  /\ pr' = [pr EXCEPT ![j] = state]
  /\ UNCHANGED <<rows, tree, tracking, remote, place, calls, made, discarded>>

\* GitHub offers to delete the branch of a pull request that was merged or closed.
DeleteRemoteBranch(j) ==
  /\ RemoteDeletes /\ pr[j] \in {"merged", "closed"} /\ remote[j] # {}
  /\ remote' = [remote EXCEPT ![j] = {}]
  /\ UNCHANGED <<rows, tree, tracking, pr, place, calls, made, discarded>>

\* The worker is killed, or has died, and is started again: the first iteration of
\* a new process sweeps.
Restart ==
  /\ (Crashes /\ at # "top") \/ at = "dead"
  /\ at' = "top" /\ job' = NoJob /\ purpose' = "none" /\ ok' = TRUE
  /\ doomed' = {} /\ due' = TRUE
  /\ UNCHANGED <<rows, tree, origin, calls, made, discarded>>

Next ==
  \/ WorkerStep
  \/ \E j \in Jobs :
       Requeue(j) \/ Cancel(j) \/ RetryStage(j) \/ Expire(j) \/ DeleteRemoteBranch(j)
  \/ \E j \in Jobs, state \in {"merged", "closed"} : ResolvePr(j, state)
  \/ SweepComesDue \/ Restart

\* The worker goes on to its next command, and the sweep's interval runs out.
Spec == Init /\ [][Next]_vars /\ WF_vars(WorkerStep) /\ WF_vars(SweepComesDue)

------------------------------------------------------------------------------
(* Properties. *)

\* Committed work is never lost: every commit made for a job is on its local branch
\* or on origin, unless the sweep or the merge clean-up gave it up on purpose.
CommitsAreKept ==
  \A j \in Jobs : 1..made[j] \subseteq local[j] \cup remote[j] \cup discarded[j]

\* A job that waits at a gate, or for the worker, still has what its next stage works
\* in: its worktree with its branch checked out.
WaitingHasWorktree ==
  \A j \in Jobs :
    \/ status[j] \in {"READY_FOR_CODEX", "VALIDATING", "REVIEW"}
    \/ status[j] = "PR_CREATED" /\ pr[j] # "merged"
    => dir[j] /\ branch[j]

\* Work that was approved for a pull request still has something to commit.
ApprovedHasChanges == at = "commit" => dirty[job]

\* A retained worktree is removed once its window is over, unless the job moves on.
Retained(j) == dir[j] /\ status[j] \in RetentionStatuses /\ expired[j]
RetainedIsSwept == \A j \in Jobs : Retained(j) ~> ~Retained(j)
==============================================================================
