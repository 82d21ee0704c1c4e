------------------------------- MODULE JobPage -------------------------------
(***************************************************************************)
(* The page of one job in the web dashboard (apps/web/app/jobs/[id]), open *)
(* in a browser beside the running pipeline.  It asks the API for the job  *)
(* and for its runs at the same time, gets the two answers one by one, and *)
(* shows what they say until one of its buttons is pressed or it is loaded *)
(* again.  What its other requests bring (events, readiness, diff) decides *)
(* nothing.                                                                *)
(***************************************************************************)
EXTENDS JobPipeline

CONSTANTS
  PageJobs,    \* the jobs whose page somebody opens
  MaxLoads     \* bound on the times it is opened

ASSUME JobPageAssumption == PageJobs \subseteq Jobs /\ MaxLoads \in Nat

VARIABLES
  page,      \* the job shown, the two answers, the request its button waits for
  loads      \* loads so far

pageVars == <<vars, page, loads>>

------------------------------------------------------------------------------
(* What the API answers. *)

NoRun == [status |-> "none", meta |-> {}]
LatestRun(j) == IF runs[j] = <<>> THEN NoRun ELSE runs[j][Len(runs[j])]

\* Where a load is: the page is closed, waits for answers, shows them, or shows none.
PageStates == {"closed", "loading", "shown", "failed"}
Answers == {"job", "runs"}
Closed ==
  [at |-> "closed", id |-> None, due |-> {}, status |-> "none", run |-> NoRun, by |-> None]

PageTypeOK ==
  /\ TypeOK
  /\ page \in
       [at : PageStates, id : PageJobs \cup {None}, due : SUBSET Answers,
        status : JobStatus \cup {"none"}, run : RunRow \cup {NoRun},
        by : Requests \cup {None}]
  /\ loads \in 0 .. MaxLoads

PageInit == Init /\ page = Closed /\ loads = 0

------------------------------------------------------------------------------
(* Loading. *)

\* Shown once both answers are in.
Got(answer) ==
  LET due == page.due \ {answer} IN
  [page EXCEPT !.due = due, !.at = IF due = {} THEN "shown" ELSE "loading"]

Loading(j) == [Closed EXCEPT !.at = "loading", !.id = j, !.due = Answers]

Open(j) ==
  /\ page.by = None /\ loads < MaxLoads
  /\ page' = Loading(j) /\ loads' = loads + 1
  /\ UNCHANGED vars

\* GET /jobs/:id: the job and its latest run in one read; without them, no page.  The
\* run is shown in place of the runs, as long as these are due or could not be had.
GetJob ==
  /\ "job" \in page.due
  /\ page' = [Got("job") EXCEPT !.status = jobs[page.id].status,
                !.run = IF page.run = NoRun THEN LatestRun(page.id) ELSE @]
  /\ UNCHANGED <<vars, loads>>

GetJobFails ==
  /\ "job" \in page.due
  /\ page' = [Closed EXCEPT !.at = "failed"]
  /\ UNCHANGED <<vars, loads>>

\* GET /jobs/:id/runs; an error reads as no runs.
GetJobRuns ==
  /\ "runs" \in page.due
  /\ \E run \in {LatestRun(page.id), NoRun} :
       page' = [Got("runs") EXCEPT !.run = IF run = NoRun THEN @ ELSE run]
  /\ UNCHANGED <<vars, loads>>

------------------------------------------------------------------------------
(* What the page makes of the answers. *)

AttentionStatus == {"BLOCKED", "FAILED", "RETRY", "CANCELED"}

\* getCreateDraftPr: only a validation that passed says that no draft PR was asked for.
ShouldCreateDraftPr(j, run) ==
  ~("validation" \in run.meta /\ run.status = "SUCCEEDED" /\ j \notin DraftPrJobs)

CodexDone(status, run) ==
  \/ "validation" \in run.meta
  \/ status \in {"VALIDATING", "REVIEW", "PR_APPROVED", "PR_CREATED", "COMPLETED"}

\* A faulty variant of HasPr: a push that has begun counts.
HasPushed(run) == "pullRequest" \in run.meta
HasPr(run) == "prUrl" \in run.meta

ValidationDone(status, run) ==
  \/ status \in {"COMPLETED", "PR_CREATED"}
  \/ "validation" \in run.meta /\ status \in {"REVIEW", "PR_APPROVED"}

\* The state of a stage: the first that applies.
Stage(skipped, complete, current, blocked) ==
  CASE skipped -> "skipped"
    [] ~skipped /\ complete -> "complete"
    [] ~skipped /\ ~complete /\ current -> "current"
    [] OTHER -> IF blocked THEN "blocked" ELSE "waiting"

\* buildPipelineStages: Queue, Workspace, Codex, Validation, Draft PR, Done.
CodexStep == 3
DraftPrStep == 5
Stages(j, status, run) ==
  LET attention == status \in AttentionStatus
      hasRun == run # NoRun
      codexDone == CodexDone(status, run)
      validationDone == ValidationDone(status, run)
      queued == status \in {"DRAFT", "QUEUED"}
  IN
  << Stage(FALSE, ~queued /\ ~(attention /\ ~hasRun), queued, TRUE),
     Stage(FALSE, hasRun \/ codexDone, status \in {"CLAIMED", "RUNNING"}, attention),
     Stage(FALSE, codexDone,
           status \in {"READY_FOR_CODEX", "CODEX_APPROVED"} \/ run.status = "CODEX_RUNNING",
           attention /\ hasRun),
     Stage(FALSE, validationDone, status = "VALIDATING" \/ run.status = "VALIDATING",
           attention /\ codexDone),
     Stage(~ShouldCreateDraftPr(j, run),
           HasPr(run) \/ status \in {"PR_CREATED", "COMPLETED"},
           status \in {"REVIEW", "PR_APPROVED"} \/ run.status = "PUSHING",
           attention /\ validationDone),
     Stage(FALSE, status = "COMPLETED", FALSE, attention) >>

\* The step whose approval the page asks for; 0 for none.
ApprovalStep(status) ==
  CASE status = "READY_FOR_CODEX" -> CodexStep
    [] status = "REVIEW" -> DraftPrStep
    [] OTHER -> 0

CanRequeue(status) == status \in {"BLOCKED", "FAILED", "RETRY"}
CanCancel(status) == status \in {"DRAFT", "NEEDS_REVIEW", "QUEUED", "RETRY"}
CanRetry(status, run) ==
  run # NoRun /\ status \in {"BLOCKED", "FAILED", "RETRY", "REVIEW", "PR_APPROVED"}

\* getTrustHeaderCopy: the one sentence at the top of the page, named by what it claims.
TrustHeader(status, run) ==
  CASE status = "NEEDS_REVIEW" -> "nothingHasRun"
    [] ApprovalStep(status) # 0 -> "waitsForApproval"
    [] status \in Retryable -> "needsInvestigation"
    [] status = "COMPLETED" -> IF HasPr(run) THEN "completedWithPr" ELSE "completedWithoutPr"
    [] status \in {"CANCELED", "DRAFT"} -> "inactive"
    [] status = "QUEUED" -> "waitsForRunner"
    [] OTHER -> "isRunning"

ShownStages == Stages(page.id, page.status, page.run)

------------------------------------------------------------------------------
(* The buttons: each sends one request, and an answer without error loads   *)
(* the page again.  A request that the API refuses ends in an error page.   *)

Shown == page.at = "shown" /\ page.by = None
LoadsAgain == page' = Loading(page.id) /\ UNCHANGED loads
WaitsFor(r) == page' = [page EXCEPT !.by = r] /\ UNCHANGED loads

PressApproveCodex ==
  /\ Shown /\ ApprovalStep(page.status) = CodexStep
  /\ ApproveCodex(page.id) /\ LoadsAgain

PressApprovePr ==
  /\ Shown /\ ApprovalStep(page.status) = DraftPrStep
  /\ ApprovePr(page.id) /\ LoadsAgain

PressCancel ==
  /\ Shown /\ CanCancel(page.status)
  /\ Cancel(page.id) /\ LoadsAgain

PressRequeue(r) ==
  /\ Shown /\ CanRequeue(page.status)
  /\ ReadForRequeue(r, page.id) /\ WaitsFor(r)

PressRetry(r, feedback) ==
  /\ Shown /\ CanRetry(page.status, page.run)
  /\ ReadForRetryStage(r, page.id, feedback) /\ WaitsFor(r)

\* The handler has answered.
Answered ==
  /\ page.by # None /\ Idle(page.by)
  /\ LoadsAgain /\ UNCHANGED vars

\* The job has changed since the page was loaded: the API answers 409.
Refused ==
  LET status == jobs[page.id].status IN
  /\ Shown
  /\ \/ ApprovalStep(page.status) # 0 /\ ApprovalStep(status) # ApprovalStep(page.status)
     \/ CanCancel(page.status) /\ status \notin Cancelable
     \/ CanRequeue(page.status) /\ status \notin Retryable
     \/ /\ CanRetry(page.status, page.run)
        /\ \/ status \notin StageRetryable
           \/ RetryTarget(status, LatestRun(page.id).meta, FALSE) = "DRAFT"
  /\ page' = [Closed EXCEPT !.at = "failed"]
  /\ UNCHANGED <<vars, loads>>

PageStep ==
  \/ \E j \in PageJobs : Open(j)
  \/ GetJob \/ GetJobFails \/ GetJobRuns
  \/ PressApproveCodex \/ PressApprovePr \/ PressCancel \/ Answered \/ Refused
  \/ \E r \in Requests :
       PressRequeue(r) \/ \E feedback \in BOOLEAN : PressRetry(r, feedback)

PageNext ==
  \/ Next /\ UNCHANGED <<page, loads>>
  \/ MayInterleave /\ PageStep

PageSpec == PageInit /\ [][PageNext]_pageVars

------------------------------------------------------------------------------
(* Properties. *)

\* However old its answers are and whichever of them came first, a page that says the
\* draft PR of a job that asked for one is there, is right: the branch has had one.
DraftPrShownExists ==
  page.at = "shown" /\ page.id \in DraftPrJobs /\ ShownStages[DraftPrStep] = "complete" =>
    prs[page.id] # "none"

\* Loaded while nobody is working on the job, a page that asks for an approval shows what
\* comes before its step as done, nothing else as due, and the step itself as due, or as
\* done by a pull request that an earlier attempt left behind.
GateIsCurrent ==
  \A j \in Jobs :
    LET step == ApprovalStep(jobs[j].status)
        run == LatestRun(j)
        stages == Stages(j, jobs[j].status, run)
    IN
    Unattended(j) /\ step # 0 =>
      /\ \A i \in 1 .. step - 1 : stages[i] = "complete"
      /\ \A i \in DOMAIN stages \ {step} : stages[i] # "current"
      /\ stages[step] = IF step = DraftPrStep /\ HasPr(run)
                          THEN "complete" ELSE "current"

\* What stands behind the sentence at the top of the page, of a job that nobody is working
\* on.  "Nothing has run yet": it has no run and spent nothing.  "The pipeline finished without
\* producing a pull request": there never was one.  "The generated change was validated and a
\* pull request is available for merge": it was validated, and reviewed, after Codex last ran,
\* but its pull request is merged already, which is what made the job COMPLETED: this is never
\* said of one that is open, nor of one that was closed.
HeaderIsEarned ==
  \A j \in Jobs :
    LET header == TrustHeader(jobs[j].status, LatestRun(j)) IN
    Unattended(j) =>
      /\ header = "nothingHasRun" => runs[j] = <<>> /\ spends[j] = 0
      /\ header = "completedWithPr" => validated[j] /\ reviewed[j] /\ prs[j] = "merged"
      /\ header = "completedWithoutPr" => prs[j] = "none"
==============================================================================
