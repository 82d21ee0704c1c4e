# FlawFerret2: a verification project

FlawFerret2 turns a bug report into a draft pull request.  A browser extension
or the web dashboard posts a job to a Fastify API; the API stores it in
Postgres; `ferret-runner` workers poll the database, prepare a git worktree,
run Codex in it, validate what it wrote, push the branch, open a draft pull
request and follow it.  Humans approve three times on the way: the job
(`approve-review`), the spending on a model (`approve-codex`) and the push
(`approve-pr`).  Beside that pipeline the system keeps a catalogue of the
Cucumber scenarios of a checkout and runs them locally, generates new test
frameworks, and proposes tests for a page (Discover).

There is no message queue and no lock beyond the row locks of short database
transactions.  Several actors (workers, HTTP handlers, GitHub) move the same
two rows, each from a copy it read earlier, and a worker also changes a git
repository, an origin and a pull request that no transaction covers.  That is
where this code can go wrong and where unit tests hardly reach, so that is what
the modules model.

## Inventory

| component | state | operations | what is hard | what makes it correct |
| --- | --- | --- | --- | --- |
| creation and review (`api/src/server.ts`, web pages) | job rows before the runner, Jira issues | create, edit, approve, cancel, file an issue | payloads written back from an earlier read, lost answers | an issue and its job agree |
| Discover, repositories, trackers (`server.ts`, `schema.prisma`, web pages) | one row each, the titles marked as queued | analyse, queue, mark, delete | many creations of which one fails, deletion under requests | what is marked has a job |
| job pipeline (`ferret-runner/src/index.ts`, `api/src/server.ts`, `packages/db`) | job rows, run rows, queue control; each worker's and request's local copies | five stages of one or more writes each; routes approve-review, cancel, approve-codex, approve-pr, requeue, retry-stage, pause, resume | claims that do not lease, unconditional writes, whole-metadata writes, two writes per outcome, kills | rows agree, inputs present, spend granted, nothing pushed unreviewed, no job forgotten |
| main loop (`index.ts`, `loop-fairness.ts`) | iteration counter, order of claims | one claim after the other, every Nth iteration without the pull request claim | starvation | queue and pull requests both get turns |
| inspection (`pull-request.ts`) | feedback for Codex | read pull request and checks, divide 4000 characters over failing checks | rounding, many checks | each failing check gets its share |
| worktrees (`worktree.ts`, `local-checkout-cleanup.ts`, `repository-checkout.ts`, `pull-request.ts`) | directories, branches, remote-tracking refs, origin, pull request | create, reset, remove, sweep; commit, push, create | stale snapshots, half-done commands, retries, kills | commits are never lost, waiting jobs keep their worktree |
| scenarios (`scenario-identity.ts`, `scenario-backfill.ts`, `cucumber-features.ts`) | rows of `scenarios` | parse, upsert, mark missing, backfill | reads that overlap edits and each other, duplicates | rows end up telling what the checkout holds |
| local test runs (`local-test-run.ts`, `server.ts`) | rows of `local_test_runs` | request, claim, run, mark | files that change between request and run, kills | a run executes its scenario, and ends |
| child processes (`codex-invocation.ts`, `validation.ts`, `dependency-install.ts`, `local-test-run.ts`) | process, timers, pipes | spawn, time out, kill, settle | processes that ignore signals or are left behind | the runner goes on |
| framework builder (`framework-template.ts`, `framework-validation.ts`, `server.ts`, `framework/new`) | files, git and GitHub, one row; the page's URL, preview requests | create, install, smoke test; preview | failures half way, requests given up, late responses | what is recorded is there, the preview shows the form |
| extension (`content_script.ts`, `qa_issue_background_service.ts`, `offscreen.ts`) | overlay and control of each page, state in memory and session storage, recorder, recordings | record, stop, restore, file an issue | restarts of the service worker, navigations, overlapping handlers, requests that throw | no recording is lost, every filing is answered |
| page of a job (`web/app/jobs/[id]/page.tsx`, `web/app/beacon.tsx`) | what was loaded, by several requests | load, show stages and header, press a button | answers from different times, buttons for a job that has moved on | what it says of the job is so |
| explanations, shared schemas | none | generate text, parse | little | not modelled |

The components interact through the database and through git alone.  A route
and a worker never call each other; `approve-codex` is a status that a claim
later finds, `retry-stage` leaves feedback in the run's metadata for the prompt
of the next Codex run, and the sweep reads the job rows to decide which
directories to remove.  Local test runs and job stages share one worker, the
catalogue and the local test runs one checkout.  In the browser, content scripts,
service worker and offscreen document interact by messages alone.
`PROJECT.json` lists the hazards with their lines.

## Modules

| module | what it is |
| --- | --- |
| `JobPipeline` | every write of the job and run rows by workers and routes |
| `SpendGate` | the abstract promise about spending on a model |
| `JobPage` (extends `JobPipeline`) | the dashboard's page of one job, open beside the pipeline |
| `RunnerLoop` | the order of the claims in an iteration, and the fairness counter |
| `PrInspection` (extends `RunnerLoop`) | what an inspection sees, and the feedback it divides |
| `Worktree` | git, origin and pull request under one worker |
| `Registry` | the rows of repositories and tracker integrations |
| `ReviewDesk` (extends `Registry`) | jobs from their creation to the reviewer's decision |
| `ScenarioCatalog` | feature files, identities, the scenario rows and the requests for runs |
| `ChildProcess` | a child process, what it leaves behind, and the signals |
| `LocalTestRuns` (extends both) | one worker that runs what the requests queued |
| `FrameworkBuild` | the framework routes, effect by effect |
| `FrameworkBuilder` (extends `FrameworkBuild`) | the page that calls them, and its preview |
| `TabRecording` | the extension's recording of a tab |
| `IssueFiling` (extends `TabRecording`) | its requests to Jira |
| `JobPipelineProofs`, `JobPipelineRows` (extends it), `RunnerLoopProofs`, `WorktreeProofs`, `ReviewDeskProofs`, `IssueFilingProofs`, `FrameworkBuilderProofs`, `LocalTestRunsProofs` | theorems |
| `MCRunnerLoop`, `MCScenarioCatalog`, `MCLocalTestRuns`, `MCFramework`, `MCReviewDesk` | constants for TLC; the other modules take model values from their .cfg |

The definitions marked "a faulty variant of" stand beside the definition they
spoil.  `PROJECT.json` pairs each with a property that TLC then finds violated.

### JobPipeline

One action is one database transaction.  `worker[w]` holds the label of the
next write and what the worker read when it claimed (`meta`, `retries`, which
run); `request[r]` holds what a handler read and not yet wrote.  Everything the
code writes from a stale copy is written from these fields, so staleness is in
the model and not assumed away.  The metadata of a run is a set of the parts
that decide something; `SetRun` replaces it whole, as `updateRunMetadata` and
the `markRun...` functions do.  The claims that lease (`ClaimQueued`,
`ClaimCodex`) change the status; the others do not.  `Crash` covers a kill
and `shutdown()`, which does not wait for a stage.  Histories (`approvals`,
`spends`, `reviewed`, `validated`, `owed`) are read by properties only.

Four switches select the clients and faults: `AtomicRoutes` (no step comes between
a handler's read and write), `AttendedRoutes` (clients retry a job that a worker
is holding), `Crashes`, and the number of workers.  Each property is
checked under the weakest assumptions under which it holds; a stronger setting
that breaks it is either a finding or listed under "What does not hold".

### SpendGate

Licences: granted by `approve-codex` or by an automatic retry, taken once by one
worker, possibly lost, never copied.  `JobPipeline` implements it with `licensed
<- {j : status is CODEX_APPROVED}`, `taken <- ` the job of a worker from its
claim until Codex ends, `granted <- approvals + autoRetryCount`.

### JobPage

The page asks for the job and for its runs at once, and each answer is the
database as it was when that request was served (`GetJob`, `GetJobRuns`), so the two
may disagree with one another and with what has happened since.  `Stages`,
`TrustHeader`, `ApprovalStep` and the `Can...` operators are the functions of `page.tsx`
over what was loaded.  The buttons are the routes of `JobPipeline` under the
page's own guard, which is judged on the old answers; `Refused` is the 409 that
follows.  What the page only displays (events, diff, screenshots) is left out.

### RunnerLoop

One action is one claim of an iteration.  A stage is one step here, to any
place the stage can leave its job.  `older` keeps the order of `updated_at`,
which decides whom each claim takes; every write makes its job the youngest.

### Worktree

One action is one git or gh command that changes something, or one write of the
row.  Commits are numbers and a branch is the set of commits made on it: a push
is a fast-forward when origin's set is contained in the local one.  `tracking`
is what the local repository last knew of origin, which only `fetch --prune` and
the job's own push change.  The rows are coarser than in `JobPipeline`: a
gate that was passed and one that was not are one status, and so are CLAIMED
and RUNNING.  There is one worker, because the code never takes two in one
repository into account and `JobPipeline` already shows what two do to a job.

### PrInspection

`RunnerLoop` lets an inspection end anywhere; here it ends where the answers of
`gh pr view` and `gh pr checks` send it.  `LifecycleState` and `IsFailing` differ
on purpose: they are two functions of `pull-request.ts` over two commands' answers,
which may disagree because time passes between them.  A log is its length,
and feedback gives the failing checks by their place in the listing.
`AllocateBudgets` is the code's two passes; `FeedbackIsFair` is stated without
them.

### Registry and ReviewDesk

A request of `ReviewDesk` holds what its handler has read; other requests, deletions and
the runner's claim come before its write.  An edit and an approval both write
back the payload they read, so `text`, `target` and `issue` of a job are written
together and from different times.  The edit also writes the column, `repository`, and the approval
does not.  An issue asks for the payload that the approval has read, and in the
repository that the column named at that time.  `CreateOne` and `CreateFails` are the
`Promise.all` of the Discover page, in any order, with answers that are lost.  A
row's identity is never reused: registering a deleted repository makes another
row.  `origin` and `edited` are no columns but what a property needs to know of a job.

### ScenarioCatalog, ChildProcess and LocalTestRuns

A file is a sequence of scenarios and a line is a position in it.  `Fingerprint`,
`Identity` and `HasConflict` are the code's rules for a whole parse; a request
reads file by file, so what it parses need never have been in the checkout at
one time.  `Synced` is the one transaction that writes rows.
`LocalTestRuns` adds the worker.  What cucumber-js then executes
(`Executes`) is decided on the checkout as it is by then, and so is its `Outcome`.  `promised`
remembers whether the API's checks vouch for the run: its file is still as the request read
it, or the run goes by tag and would be accepted again.  What it executes is compared with
identities, not with tags.  A scenario may carry several ID tags, and the duplicate check counts it
under none of them; when the run takes such scenarios along its outcome is "shared", which
`RunHitsItsScenario` admits because the code does that, and nothing else.  `ChildProcess` has one child, as the
worker waits for each; `heirs` are processes it leaves with its pipes.  The
children of job stages share the worker, which is how a Codex run that outlives
its timeout delays a test.

### FrameworkBuild and FrameworkBuilder

One action is one outside effect of a handler: a file, `git init` with its
commit, a request to GitHub, `git push`, `pnpm install`, the report, a row.  Each
has its failure, with or without the effect.  A server action of the page
waits for one handler after the other; `GiveUp` is a request that fails while the
handler goes on.  There is one page; what two open tabs do to each other is what a handler does that
was given up.  Two requests are coarser than in the code: the look at `origin` and the creation of the
repository are one step, and a branch starts from main as it is when the branch is made, not
when main was read; no property tells these apart.  The preview shares no state with them.

### TabRecording and IssueFiling

A call is a message whose handler is in progress, and an action its part up to
the next await.  `memory` is the service worker's variable and `session` the
storage that survives it; the code reads one here and the other there.
`here` and `own` say whether the page and the overlay that sent the message are
still there for the callback.  `hurried` counts what the user does while a
handler is in progress: `NoGhost` and `StoppedIsOffered` are promises to a user who waits for
answers, the others to everyone.

## Runs

Runs that must pass:

| run | instance | shows |
| --- | --- | --- |
| `sequential` | 1 job that wants a draft pull request, 1 worker, unattended retries, 2 approvals, its page loaded once and pressed | `PageTypeOK`, `RowsAgree`, `ReviewedIsValidated`, `StageInputsPresent`, `FeedbackReachesCodex`, `EndIsFinal`, `DraftPrShownExists`, `GateIsCurrent`, `HeaderIsEarned` |
| `interleaved` | handlers interrupted between read and write, held jobs retried | `InFlightIsHeld`, `AutoRetriesBounded`, `PushIsReviewed`, `StagesDrain`, `PauseDrains` |
| `two_workers_crash` | 2 workers, one with Codex off, both may be killed | `SpendIsGranted`, `SpendGateSpec` |
| `runner_loop` | 2 jobs, N = 3, 3 arrivals, every listing of up to 3 failing checks with logs up to a character more than the budget of 4 | `InspectionsBounded`, `FeedbackIsFair`, `QueuedIsClaimed`, `PrIsInspected` |
| `worktree` | 1 job, all routes, 2 calls, faults, kills | `TypeOK`, `CommitsAreKept` |
| `worktree_sweep` | 1 job, requeue and cancel, branches deleted on GitHub | `ApprovedHasChanges`, `WaitingHasWorktree`, `RetainedIsSwept` |
| `extension` | 2 tabs, 1 recording, 1 navigation, 2 issues, restarts | `RecordingsAreKept`, `CreatedIsComplete`, `NoGhost`, `StoppedIsOffered`, `FilingEnds` |
| `framework` | 4 forms, 2 files, 2 clicks or 2 edits, any failure, one request given up | `LatestPreviewShown`, `InitializedIsPushed`, `RecordedIsThere`, `SmokeIsOwn`, `ClickIsAnswered` |
| `scenario_catalog` | 2 files with tags, duplicates and conflicts, 2 edits, 1 failed transaction | `CatalogConverges` |
| `local_test_runs` | 2 runs, 1 edit, 1 crash, Codex and validation on the same worker | `RunHitsItsScenario`, `TestRunEnds` |
| `review_desk` | 2 requests at a time, 2 clicks, 2 jobs, 2 repositories, 4 changes, 1 failure | `QueuedHasJob`, `QueuedAsFiled` |

The run that finds a documented promise broken, a finding in `PROJECT.json`:

| run | promise | how it breaks |
| --- | --- | --- |
| `worktree_swept_retry` | retry-stage reuses the worktree (`README.md:79-80`) | it may have been swept |

### Bounds

Two runs per job (`MaxRuns`) are the least at which a requeue meets what an
earlier attempt left, two approvals (`MaxApprovals`) the least at which Codex runs
again because a human says so, one automatic retry (`MaxAutoRetries`) the least at which
the budget can be spent, and exceeded.  No run can afford all of them:
`interleaved` has two runs and one approval, `sequential` one run, two approvals and a page
that is loaded once, `two_workers_crash` one of each and two workers.  In each,
an automatic retry is a second licence, and `retryStage` a second pass over what the first
left.  The theorems have any number of runs, approvals, retries, jobs,
requests and loads.  One request in progress is enough to race a worker.
In `RunnerLoop` N = 3 is the default and the least
with two consecutive inspections; two jobs make one wait for the other and
`MaxArrivals` keeps work from arriving for ever, which nothing in the code bounds.
The budget of 4 characters, with 1 to 3 and with 6 failing checks, has every case
of the code: shares that divide evenly and not, checks that need less, more, exactly their
share, and more checks than characters.  In
`Worktree` two calls are a retry after a retry; one job is enough for what the runs
check, because a job's worktree, branch and origin branch are its own, and the
theorems have the rest: any number of jobs under one sweep, with faults and kills.

`extension`: one recording and one navigation are what a restart can come between;
with a user who acts once in a hurry
(`MaxHurries = 1`) the properties hold too, in 3 million states, but that takes longer than a run
should.  The theorems lift the bounds from what needs no fairness.  `framework`: a click
starts up to three handlers, so two clicks have up to six, two of them in progress
when a request was given up.  All builds share a directory and a
repository, so the second finds what the first left.  `scenario_catalog`:
two edits are a change and a change back, which an overlapping read sees half
of.  `local_test_runs`: two runs make one wait for the other, the edit comes between
request, claim and start and can make a scenario share the ID of another, and the
worker also runs the stages `validation` and `codex`.  `review_desk`: two clicks are an edit and an
approval, two approvals or two queueings of the same run; four changes are a tracker, the
repository it is attached to, another for an edit to move the job to, and a deletion.  With one
job and three clicks, an edit and two approvals, the properties hold too; the theorems say
the rest.

### Fairness and deadlock

`JobPipeline` and `RunnerLoop` assume weak fairness of a worker's next step: the
loop never waits for another actor, and a stage's child processes end or are
killed by their timeouts.  A handler that has read goes on to
write.  No fairness is assumed of humans, GitHub, crashes or restarts.
`Worktree` assumes the same of its worker and that the sweep interval
passes.  `LocalTestRuns` assumes timers and, for children no time limit or no group's
SIGKILL ends (the validation command; what Codex leaves behind), that they end by
themselves: without that `TestRunEnds` fails, and that is the code.
`ScenarioCatalog` assumes that requests go on, and its property presupposes that the
catalogue is read again and again.  `FrameworkBuilder`: timers, requests and commands
end, all of them under a timeout.  `IssueFiling`: a stop goes on, and a filing
whose overlay is still there; a handler that threw is answered when Chrome closes
the channel.  Users never have to act.

Deadlock is checked where something always remains to be done: a worker polls for
ever, and a catalogue can be opened again.  In `extension`, `framework` and
`review_desk` the users' acts are bounded and nothing else starts anything, so
those runs turn the check off.

## Proofs

TLAPS proves, for every value of the constants that satisfies the named assumptions:

- `LoopTypes`, `InspectionsAreBounded`, `InspectionsStayBounded` (`RunnerLoopProofs`).  `looks < N`
  is not inductive.  The strengthening `Streak` ties the streak to the counter:
  inside an iteration it is shorter than the iteration's number, and at the top it is
  at most that number and 0 after the Nth iteration, which never inspects.  A step
  of `PrInspection` is one of `RunnerLoop`, so GitHub's answers do not matter.
- `FeedbackStaysFair` (`RunnerLoopProofs`), for any budget, number of failing checks and lengths
  of logs.  The shares are summed with a fold, of which two things are needed: that its recursive
  function exists, and its equation.  Both, and the two facts about sums (a sum of at most `n` terms of at
  most `m` is at most `n * m`, `SumBounded`; raising some terms by at most `m` raises it by at most
  `m` for each, `SumGrows`), are inductions over the subsets of a finite set.
  They are done without an induction theorem, by the smallest number or subset for which a
  fact fails (`SmallestNumber`, `SmallestSubset`).  A second pass then gives each check that
  needs more at most an even share of what is left over, or one character.
- `Types` (`JobPipelineProofs`).  `TypeOK` alone is not inductive: a write to
  run `worker[w].run` of job `worker[w].job` needs both to exist.  The invariant
  adds that every worker past its claim holds a job, that a run it will write to exists (runs
  are only appended), and the same of requests.
- `ImplementsSpendGate`, `SpendsAreGranted` (`JobPipelineProofs`).  Each action is
  a `SpendGate` step or a stutter.  The step that takes a licence is the claim, the only one
  that moves a job out of CODEX_APPROVED into a worker's hands; every other
  unconditional write can at most withdraw a licence.  The count follows from
  the invariant that spends plus the licence outstanding are at most what was granted.
- `InFlightHeld` (`JobPipelineProofs`), assuming `~Crashes`.  No route
  names CLAIMED or RUNNING as a target, a worker that makes a job RUNNING
  continues to a label in `MovingOn`, and only the holder leaves it.
- `AutoRetriesStayBounded`, `PushesAreReviewed` (`JobPipelineProofs`), assuming `SoleWorker`: one
  worker polls the database, which may be killed, beside any routes.  `SoleInv` says what the
  worker's copy is worth: while it inspects, the count of retries it read at its claim is the
  row's, and a job in PR_APPROVED was reviewed after Codex last took it.  Both fail with two workers.
- `RowsAlwaysAgree`, `ReviewedAlwaysValidated`, `InputsAlwaysPresent`,
  `FeedbackAlwaysReachesCodex`, `EndsAreFinal` (`JobPipelineRows`), assuming `TakingTurns`: one
  worker, which may be killed between any two writes, routes that answer at once, clients that
  leave a job alone while it is worked on.  None of the five is inductive, because an outcome is
  two writes.  `RowsInv` distinguishes three cases.  The rows of a job nobody has are
  settled: the status, the latest run's status and its metadata fit (`Settled`).  Those of the
  worker's job are as the label of its next write says, and what it read at its claim is still
  so (`Attended`).  What a request read is current, since it answers in its next
  step.  A kill leaves a job as one of those labels has it, and what such a job still
  satisfies is the part of `SettledAs` that is not guarded by `~Crashes` (`LeftBehind`): it is in flight and
  stays so, or one of its rows is ahead of the other by one write.  `RowsAlwaysAgree`
  needs `~Crashes` too; the other four do not.  Two workers, attended retries and interrupted
  routes each break properties, and a kill breaks `RowsAgree` and `GateIsCurrent` ("What does not hold").
- `PageTypes`, `DraftPrsShownExist`, `GatesAreCurrent`, `HeadersAreEarned`
  (`JobPipelineRows`): a step of the page is a step of the pipeline or leaves it
  alone (`PageNextMoves`), so the pipeline's invariants go on to hold.
  `DraftPrsShownExist` has no hypothesis: a pull request once there stays on record, so whatever the
  rows, a worker's copy or an old answer say of one remains true (`PrInv`).  The other two
  assume `TakingTurns`, `GatesAreCurrent` also `~Crashes`.  `HeadersAreEarned` needs `DoneInv`: a job
  that is COMPLETED with a draft pull request is unattended, validated, reviewed and merged, which is
  what the header's sentence rests on; that it is also outdated by then is below.
- `Types`, `KeepsCommits` (`WorktreeProofs`), the second assuming `~RemoteDeletes`.
  `CommitsAreKept` is disturbed only where a branch is deleted, and a reset gives nothing
  up: what it deletes is on origin.  That needs `Removing` (the commits it checked are
  still known to be on origin when the branch goes), `Tracked` (what is known of origin
  is true of it, which a deletion on GitHub breaks), and that commits are made only on a
  branch that exists: `CheckedOut`, `Traced`, `AtWork` and `Preparing` carry, across
  kills and routes, that a job at work has a recorded worktree, and that a recorded
  worktree which exists has its branch.

- `WaitingKeepsWorktree` (`WorktreeProofs`), assuming that no client calls
  retry-stage, which is the finding's way to break it.  `WaitingHasWorktree` is not
  inductive: a removal under way, or a sweep's decision that is not carried out
  yet, concerns jobs that may move on.  `Doomed` says that a job the sweep
  has decided on cannot become active before the sweep ends, `Held` and
  `Prepared` what the worker's place tells of its job, `Removed` who
  may lose a worktree and why.
- `ApprovedKeepsChanges` (`WorktreeProofs`), from the same invariant and `~Crashes`:
  `UncommittedReview` adds that work in review has changes until its worker commits them.
- `DeskTypes`, `IssuesAgree`, `MarkedHasJob` (`ReviewDeskProofs`).  A payload written back
  from an earlier read does no harm as long as what was read then is not
  contradicted: a job in NEEDS_REVIEW has no issue, so an edit under way
  writes none, and an approval writes the text that it filed (`ReviewInv`).  In review the
  column names the payload's repository, so that is the one an issue is filed for; and an approval
  beside which no edit was written puts back the repository that is there (`ColumnInv`).  A
  queueing without failure has a job for every title it has worked off, also for the
  titles it has read (`MarkInv`).
- `FilingTypes`, `RecordingsKept`, `CreatedComplete` (`IssueFilingProofs`).  A filing
  under way carries the number of an issue that exists, is about its recording
  and, past its first request, has its snapshot.  It gives the recording up
  in the step that adds it to the issue.
- `NoGhostRecording` (`IssueFilingProofs`).  A handler changes the recorder, the memory and the
  session in turn and awaits between them, so `NoGhost` says nothing while one is under way.
  `Orderly` says what each handler, at each await, finds and leaves (`AtWork`), that
  only the calls of a page that goes or comes overlap, and that the state is consistent
  once nobody is changing it.  `GhostInv` presupposes a user who waits, as the property does.
- `RunsHitTheirScenarios` (`LocalTestRunsProofs`), assuming `NoBackfill`: no request is a
  backfill, which guesses the identity of old runs from the files as they are by then.  `RunsInv`:
  what a request has read are contents that files may have, a request about to create a run has passed
  the checks, and in the file as it was read the run's line has the run's identity and no
  other line its tag as its one ID (`IsAlone`).  The same follows for whatever file is there
  when the API would accept the run again, so `Executes` gives the one line and, beside it, lines
  with several IDs (`TagHits`); without the refusal of ambiguous IDs it would not, which is the mutant.
- `RunsExecuteOnce` (`LocalTestRunsProofs`), also assuming `NoBackfill`: an action property, the safety half
  of `TestRunEnds`.  `OnceInv` says that the run the worker holds is RUNNING, that it has executed just when
  the worker has a child, and that what is QUEUED has not; so a crash leaves no run to be
  started again.  Not run: `TestRunEnds` is.
- `ClearIsAlone`, `ReadsSettleRows`, `RightRowsStay` (`LocalTestRunsProofs`), of `CatalogSpec` with no
  hypothesis.  A fingerprint by name is taken only if no other scenario of the file has the name, one by
  steps only if none has name and steps, and among those the count of earlier ones tells them apart
  (`OrderTellsApart`); so a scenario that is free of conflicts has its identity alone, and
  a synchronisation writes each row once and from the right place.  With
  that, a catalogue read of what the checkout still holds makes `RowsAgree` true
  whatever the rows said before, and a request that speaks for one file leaves the rows of the
  others as they were.  `ReadsCurrent` says that what a request has read is what the checkout holds, a
  file not listed being one that is not there; a step that leaves the checkout alone keeps it, and a new
  request has it.  That is `CatalogConverges` but for its fairness: the rows end up
  right once a current read has ended and older reads are over.  Not run: `CatalogConverges` is.
- `TypesOfBuilder`, `PreviewIsLatest`, `RecordedBuildIsThere`, `InitializedBuildIsPushed`,
  `SmokeResultIsOwn` (`FrameworkBuilderProofs`).  Types need more than `TypeOK`: handlers
  have numbers of their own, the awaited one is of the kind that the page expects, and
  a click has as many handlers left to start as its chain is long (`TypeInv`).  The
  request with the latest token is for the form as it is, unless the timer runs
  (`PreviewInv`).  What a handler has made so far is on the disk or on its branch, and no
  step of another takes it away: `origin` is added once, and the commit of a repository that
  is initialized stays (`MadeInv`).  While no request was given up the only handler of the
  one page is the one that is waited for, so nobody touches its report (`SmokeInv`).

The assumptions are the named ones of the modules, which bound nothing.  TLC
has checked the inductive invariants before they were proved, on instances larger than the runs where
those take too long: `SoleInv` on 6.1 million states, `GhostInv` on 3.6 million, `PrInv` on the
308 thousand of `interleaved` with its page, `RowsInv` and `DoneInv` with one job, two runs and two approvals
and with two jobs of which one wants no pull request, then with kills on 3.9 million, `RunsInv` and `OnceInv` on the states of
`local_test_runs`, and the two facts about the catalogue's rows on the 670 thousand of `scenario_catalog`.
Only model-checked: liveness (`StagesDrain`,
`PauseDrains`, `QueuedIsClaimed`, `PrIsInspected`, `RetainedIsSwept`, `StoppedIsOffered`,
`FilingEnds`, `ClickIsAnswered`, `CatalogConverges`, `TestRunEnds`), which is out of the prover's reach here.
Types of
`RunnerLoop`, `IssueFiling`, `FrameworkBuilder`, `ReviewDesk` and, for the pipeline without its page,
`JobPipeline` are proved and not run.

## What does not hold

Each of these is a behaviour of the modules, met by strengthening a run.  The first three
contradict what the repository says; the constants given make TLC
print the trace.

- Feedback can be lost (`Sequential.cfg` with `AttendedRoutes = TRUE`:
  `FeedbackReachesCodex`).  After validation passes, the runner writes the job
  (REVIEW, `ferret-runner/src/index.ts:1110`) before the run, and then replaces the run's metadata with
  what it read at its claim (1138).  A retry-stage with feedback between the two is
  answered "Job was returned to Codex with reviewer feedback."
  (`api/src/server.ts:3676`), but Codex runs without it.
- A canceled job comes back (`Interleaved.cfg`: `EndIsFinal`).  approve-review reads
  NEEDS_REVIEW, may file a Jira issue, and updates the job to QUEUED without a
  condition on its status (`server.ts:3248`), against `retry-routes.test.ts:262`, "cancels queued jobs to
  remove them from active queue work".  Where routes are not interrupted, an
  ended job stays ended: run `sequential`.
- Committed work can be lost (`Worktree.cfg` with `RemoteDeletes = TRUE`: `CommitsAreKept`).
  The reset counts the commits that no remote-tracking branch has, without fetching
  (`worktree.ts:434`); when the branch was deleted on GitHub the stale tracking branch still
  counts, and the next `fetch --prune` drops the last reference.  The comment at 401-403 says "committed work
  is never lost: if the branch has commits that are not on any remote, the reset refuses and the job
  stays blocked".  GitHub may still keep the commits of a pull request under
  `refs/pull`, which the code never uses.

Jobs and worktrees:

- With crashes `InFlightIsHeld` fails: a job in CLAIMED or RUNNING whose worker
  died stays there; no claim looks for it and no route accepts it.  The
  repository promises no recovery, so this is a known limit and no finding.
- With crashes `RowsAgree` and `GateIsCurrent` fail as well: a kill comes between the two writes of
  an outcome.  With routes interrupted between read and write (`Sequential.cfg` with
  `AtomicRoutes = FALSE`) all the properties of `sequential` fail but types and `DraftPrShownExists`.
- With attended retries and one worker `RowsAgree`, `ReviewedIsValidated` and
  `StageInputsPresent` fail: the worker's next write undoes half of the
  client's.  With two workers `RowsAgree` and `PushIsReviewed` fail, because the
  later stages do not lease, and so does `AutoRetriesBounded`: two workers hold
  one pull request, and the slower one compares the budget with the count from before
  the other's retry, once the job has come round to PR_CREATED again.
- The iteration kept for the queue (`loop-fairness.ts`) can go to a local test
  or another stage, so a queued job may wait more than N iterations for a claim;
  `QueuedIsClaimed` still holds when arrivals end.  With N = 1
  `PrIsInspected` fails: the pull request claim is never tried.
- The sweep decides on one snapshot of the rows, so a job that retry-stage moves
  on between decision and removal loses its worktree in flight; this is why
  `WaitingHasWorktree` is checked and proved without retry-stage.
- A requeued job pushes a new history under the branch name of its earlier
  attempt.  If that branch is still on origin, behind a closed pull request, every push is refused.
- After a commit whose push failed, or a kill between the two, every retry finds
  nothing to commit and requeue refuses too: with retry-stage or crashes
  `ApprovedHasChanges` fails.
- An automatic retry keeps the pull request open, and the next attempt runs
  `gh pr create` for the same branch, which gh refuses: `Worktree` has
  `CreatePr` disabled then.  Auto-heal pushes its fix and still ends BLOCKED.
- A check whose conclusion is neither a known failure nor a success (STARTUP_FAILURE)
  counts as pending for ever.  What is left of the feedback's budget after
  the second pass is not divided again, so a log may be cut although the whole
  would fit; and the shares may exceed the budget, by less than a character
  for each check, while headings are not counted (comment at `pull-request.ts:488-492`).

Page of a job:

- The answers are as old as the page.  An approval of the push covers changes that a
  retry made after the diff was loaded (`page.tsx:264`), although the page says "Review the local
  generated changes before approving draft PR creation." (1047).  `GateIsCurrent` is about the job's
  gate, and the route itself looks at the status alone.
- Job and runs come in two answers.  The job may be CODEX_APPROVED and the run still
  READY_FOR_CODEX, whose tone is "decision" (`beacon.tsx:35`), "reserved exclusively for
  'a human must act now'" (6-8).  When validation passes the job is written before the run, so a
  load in between shows REVIEW or COMPLETED without validation.
- The stage "Draft PR" is complete when the run has a `prUrl`, also when that pull request
  was closed and another one is under way; its branch for "blocked" is never reached.
- The button that retries a blocked run is there without a worktree too, and is
  answered with 409.
- "The generated change was validated and a pull request is available for merge."
  (`page.tsx:666-669`) is the header of a job that is COMPLETED with a pull request.  A job with a draft
  pull request becomes COMPLETED only when that was merged, so the sentence comes too late, and of a
  job in PR_CREATED, where it would be so, the page does not say it.  `HeaderIsEarned` is therefore about
  what has to be behind the sentence (validation, the approval of the push, the merge), not
  about its last words.

Review desk:

- A restart or a lost answer after Jira has the issue, or two approvals at a time, leave
  an issue that no job names; approving again files another.
- An edit whose write comes after the approval is kept without its issue, and one that
  comes before an approval's write is undone.
- The issue, and `payload.repositoryId`, name one repository and the row's `repositoryId`, which the
  runner works in, another, when an edit is written between the read of an approval and its
  write: the approval writes payload and status back and not the column (`server.ts:3248`).  Without
  `edited = "apart"` in `QueuedAsFiled`, `review_desk` shows it in a few steps: job for r1, an
  approval reads, an edit moves the job to r2, the issue asks for r1.
- An edit that was read in review may be written when the job is queued or claimed, against
  "Only jobs that need review can be edited." (`server.ts:3056`).
- One failed creation of several leaves jobs without marks, and the next attempt
  creates them again; two pages that queue at a time lose one page's
  marks (`server.ts:1767`).

Catalogue and local test runs:

- A duplicate that is added after a run was asked for by tag is executed too, so two
  scenarios run by accident, against `docs/specs/stable-scenario-ids.md:18`: "if the ID is duplicated
  the API already refused the run, so the runner never executes two scenarios by
  accident".  `RunHitsItsScenario` therefore promises nothing to a run whose file was edited
  into one that the API would refuse.
- Two scenarios can share an ID without a duplicate being noticed: the check counts
  a scenario with several ID tags under none of them (`cucumber-features.ts:145-159`), and cucumber-js
  selects it by each.  So an accepted run executes both, against `server.ts:2682-2683`, "an ambiguous
  ID is refused here and the runner never targets two scenarios by accident", and the docs' line above.
  This is the outcome "shared": `local_test_runs` has a scenario with two IDs and fails without it.
- A run by tag whose scenario has moved to another file executes nothing and passes.
- An older read that overlaps a newer one overwrites its rows until the next read.  A
  scenario that comes back as a duplicate stays missing, and a second ID tag makes the
  row of the first one missing (comment at `scenario-identity.ts:18-19`).
- The backfill assigns the identities of the checkout as it is now to runs of
  the past.
- A local test run whose worker dies stays RUNNING.

Framework builder:

- In a directory inside another repository the remote is created and pushed from
  whatever that repository has committed; its own commits are renamed and pushed
  (`framework-template.ts:380-389`), the framework's files are not.  `InitializedIsPushed` is about
  repositories the build initialized.
- After a push that failed, the name is taken on GitHub, or the remote is there and the
  page shows `already_remote` as complete (`framework/new/page.tsx:1179`).
- A file that was half written is skipped as existing by the next attempt
  (`framework-template.ts:1352-1368`).
- When a request was given up while its handler went on, or the page is open in two tabs, a second
  smoke test shares the report file, and the result of the first overwrites the newer one (`server.ts:559`).

Extension:

- When the service worker was restarted while a tab was recorded, the Stop handler
  tells no page (`qa_issue_background_service.ts:633`), although
  `apps/extension/README.md:33` says "Click **Stop** to return to the overlay with a recording
  preview."  `StoppedIsOffered` presupposes the memory.
- The answer of the upload of a recording is not looked at, so an issue may be shown
  as created without it; the recording is kept then.
- A user in a hurry can start two recorders; the first never stops.

## Not modelled

The audit log, heartbeats and Slack messages (nothing in the pipeline
reads them); the text of prompts, branches, commits, issues and pull requests; orphan
worktrees without a job row, because no route deletes jobs; dependency
installation in a worktree, whose failure the code only notes.  DRAFT, FAILED and
RETRY are job statuses that routes accept and no code writes.

The Gherkin parser and the text of explanations and generated files: pure functions of text.
What the analysis of a page recommends.  A tracker's token and its test route; a PUT
of a tracker writes back the token it read, so a token rotated meanwhile is overwritten
(`server.ts:2069`).  Of the framework builder the folder picker, the browser template and the buttons
that open or register a build later; the browser's Back button.  Of the
extension the capture of elements, console and network, and answers of Jira that are lost
after Jira has acted.  API and dashboard restart together in `ReviewDesk`.

## Plan

Done, in this order: `JobPipeline` with `SpendGate`, `RunnerLoop`, their theorems,
`Worktree`; then `TabRecording` and `IssueFiling`, `FrameworkBuild` and `FrameworkBuilder`,
`ScenarioCatalog`, `ChildProcess` and `LocalTestRuns`, `Registry` and `ReviewDesk`,
`PrInspection`, and the theorems on worktrees, the review desk, the extension and the framework
builder; then `JobPage`, and the theorems on one worker, on rows and page, on ghosts of recordings and on
local test runs.  Every safety property of the runs is a theorem now.

Next, a theorem: `EndIsFinal` where a route may be interrupted but no job is being
filed.  Next, models: the
tokens of trackers, a restart of the dashboard alone, and the buttons of the framework builder that
come after a build.
