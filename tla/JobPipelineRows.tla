---------------------------- MODULE JobPipelineRows ----------------------------
(***************************************************************************)
(* What one worker, and routes that take turns with it, keep true of the   *)
(* rows, also when the worker is killed: a stage finds what the stages     *)
(* before it left, feedback reaches Codex, ended jobs stay ended; without  *)
(* kills job and latest run agree.  And what of it the page of a job shows.*)
(***************************************************************************)
EXTENDS JobPipelineProofs, JobPage

\* One worker, which may be killed between any two writes, and routes that clients call
\* on jobs nobody is working on and that answer before anything else happens.
TakingTurns ==
  /\ SoleWorker
  /\ AtomicRoutes /\ ~AttendedRoutes

LateKeys == {"validation", "pullRequest", "prUrl"}
WaitingStatus ==
  {"DRAFT", "NEEDS_REVIEW", "QUEUED", "BLOCKED", "FAILED", "RETRY", "CANCELED"}
CodexStatus == {"READY_FOR_CODEX", "CODEX_APPROVED"}
ReviewStatus == {"REVIEW", "PR_APPROVED"}

LatestStatus(j) == IF runs[j] = <<>> THEN "none" ELSE runs[j][Len(runs[j])].status

\* The parts of a run's metadata are there in the order in which stages write them; a
\* kill can leave out the validation part alone, whose job is written before its run.
InOrder(meta, passed) ==
  /\ "codex" \in meta => "worktree" \in meta
  /\ "validation" \in meta => "codex" \in meta
  /\ "pullRequest" \in meta => "codex" \in meta /\ passed
  /\ "pullRequest" \in meta /\ ~Crashes => "validation" \in meta
  /\ "prUrl" \in meta => "pullRequest" \in meta

\* A run that Codex can be given.
Ready(run, meta, owes) ==
  /\ run = "READY_FOR_CODEX" /\ "worktree" \in meta /\ meta \cap LateKeys = {}
  /\ owes => "retryFeedback" \in meta

\* What the rows of a job say while no worker has it: its status, and the status and
\* metadata of its latest run; and what they also say if no worker was ever killed
\* between its write to the run and its write to the job.
SettledAs(status, run, meta, passed, owes) ==
  /\ status \in WaitingStatus => run \in {"none", "FAILED"}
  /\ status \in CodexStatus => Ready(run, meta, owes)
  /\ status \in ReviewStatus \cup {"VALIDATING"} => "codex" \in meta
  /\ status \in ReviewStatus => passed
  /\ status = "PR_CREATED" => "prUrl" \in meta
  /\ owes => status \in CodexStatus \cup InFlight
  /\ ~Crashes =>
       /\ status \notin InFlight
       /\ status = "VALIDATING" => run = "VALIDATING"
       /\ status \in ReviewStatus => run = "SUCCEEDED" /\ "validation" \in meta
       /\ status = "PR_CREATED" => run = "PR_CREATED"
       /\ status = "COMPLETED" => run = "SUCCEEDED"

StartLabels == {"codexStart", "codexSkip"}
PushLabels == {"push", "pushing", "prRun", "prJob"}
InspectLabels == {"inspect", "checksFailed"}

\* What they say while a worker has the job, by what it is about to write, and how
\* the metadata it holds from its claim relates to the row.
AttendedAs(pc, held, status, run, meta, passed, owes) ==
  /\ pc \notin ClaimLabels /\ pc # "failRun"
  /\ pc = "checkout" => status = "CLAIMED" /\ run \in {"none", "FAILED"}
  /\ pc \in SetupLabels \ {"checkout"} => status = "RUNNING"
  /\ pc = "prepare" => meta = {}
  /\ pc \in {"readyRun", "readyJob"} => meta = {"worktree"}
  /\ pc = "readyJob" => run = "READY_FOR_CODEX"
  /\ pc \in CodexLabels =>
       status = "RUNNING" /\ "worktree" \in held /\ held \cap LateKeys = {}
  /\ pc \in StartLabels => Ready(run, meta, owes) /\ meta = held
  /\ pc = "codexOk" => run = "VALIDATING" /\ meta = held \cup {"codex"}
  /\ pc = "validate" => status = "VALIDATING"
  /\ pc \in {"validate", "validationRun"} => "codex" \in held /\ meta = held
  /\ pc = "validationRun" => status \in ReviewStatus \cup {"COMPLETED"} /\ passed
  /\ pc \in PushLabels =>
       status = "PR_APPROVED" /\ {"worktree", "codex"} \subseteq held /\ "codex" \in meta /\ passed
  /\ pc \in PushLabels /\ ~Crashes => "validation" \in held
  /\ pc = "prJob" => run = "PR_CREATED" /\ "prUrl" \in meta
  /\ pc \in InspectLabels => status = "PR_CREATED" /\ meta = held /\ "prUrl" \in held
  /\ pc \in InspectLabels /\ ~Crashes => run = "PR_CREATED"
  /\ pc = "complete" => status = "PR_CREATED" /\ run = "SUCCEEDED" /\ "prUrl" \in meta
  /\ pc = "block" =>
       /\ status \in {"RUNNING", "VALIDATING", "PR_APPROVED", "PR_CREATED"}
       /\ run = "FAILED"
       /\ status \in {"VALIDATING", "PR_APPROVED"} => "codex" \in meta
       /\ status = "PR_APPROVED" => passed
       /\ status = "PR_CREATED" => "prUrl" \in meta
  /\ owes => pc \in StartLabels

Settled(j) ==
  SettledAs(jobs[j].status, LatestStatus(j), LatestMeta(j), validated[j], owed[j])

\* Once it has one, the run a worker holds is the latest.
HoldsLatest(w, j) ==
  worker[w].pc \notin {"checkout", "createRun"} =>
    runs[j] # <<>> /\ worker[w].run = Len(runs[j])

Attended(w, j) ==
  /\ HoldsLatest(w, j)
  /\ AttendedAs(worker[w].pc, worker[w].meta, jobs[j].status, LatestStatus(j),
                LatestMeta(j), validated[j], owed[j])

\* What a handler has read is still so when it writes.
Current(r) ==
  LET j == request[r].job
      feedback == request[r].feedback
  IN
  /\ Unattended(j)
  /\ request[r].route # None
  /\ request[r].route = "approveReview" => jobs[j].status = "NEEDS_REVIEW"
  /\ request[r].route = "requeue" => jobs[j].status \in Retryable
  /\ request[r].route = "retryStage" =>
       /\ jobs[j].status \in StageRetryable
       /\ runs[j] # <<>> /\ request[r].run = Len(runs[j])
       /\ request[r].target = RetryTarget(jobs[j].status, LatestMeta(j), feedback)
       /\ request[r].target # "DRAFT"
       /\ request[r].meta = RetryMeta(LatestMeta(j), feedback)

RowsInv ==
  /\ \A j \in Jobs : InOrder(LatestMeta(j), validated[j])
  /\ \A j \in Jobs : Unattended(j) => Settled(j)
  /\ \A w \in Workers : worker[w].job = None => worker[w].pc \in ClaimLabels
  /\ \A w \in Workers, j \in Jobs : worker[w].job = j => Attended(w, j)
  /\ \A r \in Requests : Idle(r) \/ Current(r)
  /\ \A q, r \in Requests : Idle(q) \/ Idle(r) \/ q = r
------------------------------------------------------------------------------
(* The database writes and the worker's locals. *)

LEMMA GotoLocals ==
  ASSUME Inv, NEW w \in Workers, NEW label, Goto(w, label)
  PROVE  /\ worker'[w].pc = label /\ worker'[w].job = worker[w].job
         /\ worker'[w].run = worker[w].run /\ worker'[w].meta = worker[w].meta
BY DEF Inv, TypeOK, WorkerState, Goto

LEMMA NextIterationLocals ==
  ASSUME Inv, NEW w \in Workers, NextIteration(w)
  PROVE  worker'[w].pc = "codexClaim" /\ worker'[w].job = None
BY DEF Inv, TypeOK, NextIteration, LoopTop

LEMMA ClaimLocals ==
  ASSUME Inv, NEW w \in Workers, NEW j \in Jobs, NEW label, Claim(w, j, label)
  PROVE  /\ worker'[w].pc = label /\ worker'[w].job = j
         /\ worker'[w].run = Len(runs[j]) /\ worker'[w].meta = LatestMeta(j)
         /\ worker'[w].retries = jobs[j].retries
BY DEF Inv, TypeOK, Claim

\* A write through the latest run is what the latest run then says.
LEMMA LatestWritten ==
  ASSUME Inv, NEW j \in Jobs, runs[j] # <<>>, NEW status \in RunStatus,
         NEW meta \in SUBSET MetaKeys, SetRun(j, Len(runs[j]), status, meta)
  PROVE  /\ runs'[j] # <<>> /\ Len(runs'[j]) = Len(runs[j])
         /\ LatestStatus(j)' = status /\ LatestMeta(j)' = meta
         /\ \A k \in Jobs \ {j} : runs'[k] = runs[k]
<1> DEFINE row == [status |-> status, meta |-> meta]
           n == Len(runs[j])
<1>1. runs[j] \in Seq(RunRow) /\ row \in RunRow
  BY DEF Inv, TypeOK, RunRow
<1>2. n \in 1..n /\ n \in Nat
  BY <1>1, EmptySeq, LenProperties
<1>3. /\ [runs[j] EXCEPT ![n] = row] \in Seq(RunRow)
      /\ Len([runs[j] EXCEPT ![n] = row]) = n
      /\ [runs[j] EXCEPT ![n] = row][n] = row
  BY <1>1, <1>2, ExceptSeq
<1>4. runs'[j] = [runs[j] EXCEPT ![n] = row] /\ \A k \in Jobs \ {j} : runs'[k] = runs[k]
  BY DEF SetRun, Inv, TypeOK
<1>5. runs'[j] # <<>> /\ Len(runs'[j]) = n /\ runs'[j][n] = row
  BY <1>2, <1>3, <1>4, EmptySeq
<1> HIDE DEF n
<1> QED
  BY <1>4, <1>5 DEF LatestStatus, LatestMeta, n

LEMMA LatestAppended ==
  ASSUME Inv, NEW j \in Jobs, NEW status \in RunStatus, NEW meta \in SUBSET MetaKeys,
         runs' = [runs EXCEPT ![j] = Append(@, [status |-> status, meta |-> meta])]
  PROVE  /\ runs'[j] # <<>> /\ Len(runs'[j]) = Len(runs[j]) + 1
         /\ LatestStatus(j)' = status /\ LatestMeta(j)' = meta
         /\ \A k \in Jobs \ {j} : runs'[k] = runs[k]
<1> DEFINE row == [status |-> status, meta |-> meta]
           n == Len(runs[j])
<1>1. runs[j] \in Seq(RunRow) /\ row \in RunRow
  BY DEF Inv, TypeOK, RunRow
<1>2. n \in Nat
  BY <1>1, LenProperties
<1>3. runs'[j] = Append(runs[j], row) /\ \A k \in Jobs \ {j} : runs'[k] = runs[k]
  BY DEF Inv, TypeOK
<1>4. Len(runs'[j]) = n + 1 /\ runs'[j][n + 1] = row
  BY <1>1, <1>2, <1>3, AppendProperties
<1>5. runs'[j] # <<>>
  BY <1>2, <1>4, EmptySeq
<1> QED
  BY <1>3, <1>4, <1>5 DEF LatestStatus, LatestMeta
------------------------------------------------------------------------------
(* A worker's step moves one job at most; the others keep what they had. *)

\* Nothing but the rows and history of job j changes.
OnlyJob(j) ==
  \A k \in Jobs \ {j} :
    /\ jobs'[k] = jobs[k] /\ runs'[k] = runs[k]
    /\ validated'[k] = validated[k] /\ owed'[k] = owed[k]

AllIdle == \A r \in Requests : Idle(r)

LEMMA OthersStaySettled ==
  ASSUME RowsInv, NEW j \in Jobs, OnlyJob(j),
         \A w \in Workers : worker[w].job \in {None, j} /\ worker'[w].job \in {None, j}
  PROVE  \A k \in Jobs \ {j} :
           Settled(k)' /\ InOrder(LatestMeta(k), validated[k])'
<1> SUFFICES ASSUME NEW k \in Jobs \ {j}
             PROVE  Settled(k)' /\ InOrder(LatestMeta(k), validated[k])'
  OBVIOUS
<1>1. Unattended(k)
  BY JobPipelineAssumption DEF Unattended
<1>2. Settled(k) /\ InOrder(LatestMeta(k), validated[k])
  BY <1>1 DEF RowsInv
<1>3. /\ jobs'[k] = jobs[k] /\ runs'[k] = runs[k]
      /\ validated'[k] = validated[k] /\ owed'[k] = owed[k]
  BY DEF OnlyJob
<1>4. LatestStatus(k)' = LatestStatus(k) /\ LatestMeta(k)' = LatestMeta(k)
  BY <1>3 DEF LatestStatus, LatestMeta
<1> QED
  BY <1>2, <1>3, <1>4 DEF Settled

\* It is enough to look at the job that the worker moves.
LEMMA OneJobMoves ==
  ASSUME TakingTurns, RowsInv, AllIdle, UNCHANGED request,
         NEW w \in Workers, NEW j \in Jobs, OnlyJob(j), worker[w].job \in {None, j},
         InOrder(LatestMeta(j)', validated'[j]),
         \/ /\ worker'[w].job = None /\ worker'[w].pc \in ClaimLabels /\ Settled(j)'
         \/ /\ worker'[w].job = j /\ Attended(w, j)'
  PROVE  RowsInv'
<1>1. \A v \in Workers : v = w
  BY DEF TakingTurns, SoleWorker
<1>2. \A v \in Workers : worker[v].job \in {None, j} /\ worker'[v].job \in {None, j}
  BY <1>1
<1>3. \A k \in Jobs \ {j} : Settled(k)' /\ InOrder(LatestMeta(k), validated[k])'
  BY <1>2, OthersStaySettled
<1>4. InOrder(LatestMeta(j), validated[j])'
  OBVIOUS
<1>5. \A k \in Jobs : InOrder(LatestMeta(k), validated[k])'
  BY <1>3, <1>4
<1>6. \A k \in Jobs : Unattended(k)' => Settled(k)'
  BY <1>1, <1>3 DEF Unattended
<1>7. \A v \in Workers : worker'[v].job = None => worker'[v].pc \in ClaimLabels
  BY <1>1, JobPipelineAssumption
<1>8. \A v \in Workers, k \in Jobs : worker'[v].job = k => Attended(v, k)'
  BY <1>1, JobPipelineAssumption
<1>9. \A r \in Requests : Idle(r)'
  BY DEF AllIdle, Idle
<1> QED
  BY <1>5, <1>6, <1>7, <1>8, <1>9 DEF RowsInv

\* What the invariant says of the job that a worker has.
LEMMA AttendedFacts ==
  ASSUME Inv, RowsInv, NEW w \in Workers, NEW j \in Jobs, worker[w].job = j
  PROVE  /\ Attended(w, j) /\ InOrder(LatestMeta(j), validated[j])
         /\ worker[w].meta \in SUBSET MetaKeys /\ LatestMeta(j) \in SUBSET MetaKeys
BY LatestTyped DEF RowsInv, Inv, TypeOK, WorkerState

\* The worker goes on to its next write, with what it holds.
LEMMA StaysWith ==
  ASSUME TakingTurns, Inv, RowsInv, AllIdle, UNCHANGED request,
         NEW w \in Workers, NEW j \in Jobs, worker[w].job = j, OnlyJob(j),
         NEW label, Goto(w, label),
         \/ label = "createRun"
         \/ /\ worker[w].pc \notin {"checkout", "createRun"}
            /\ runs'[j] # <<>> /\ Len(runs'[j]) = Len(runs[j]),
         InOrder(LatestMeta(j)', validated'[j]),
         AttendedAs(label, worker[w].meta, jobs'[j].status, LatestStatus(j)',
                    LatestMeta(j)', validated'[j], owed'[j])
  PROVE  RowsInv'
<1>1. /\ worker'[w].pc = label /\ worker'[w].job = j
      /\ worker'[w].run = worker[w].run /\ worker'[w].meta = worker[w].meta
  BY GotoLocals
<1>2. HoldsLatest(w, j)'
  BY <1>1, AttendedFacts DEF Attended, HoldsLatest
<1>3. Attended(w, j)'
  BY <1>1, <1>2 DEF Attended
<1> QED
  BY <1>1, <1>3, OneJobMoves

\* It makes its last write for the job.
LEMMA LeavesIt ==
  ASSUME TakingTurns, Inv, RowsInv, AllIdle, UNCHANGED request,
         NEW w \in Workers, NEW j \in Jobs, worker[w].job = j, OnlyJob(j),
         NextIteration(w),
         InOrder(LatestMeta(j)', validated'[j]),
         SettledAs(jobs'[j].status, LatestStatus(j)', LatestMeta(j)',
                   validated'[j], owed'[j])
  PROVE  RowsInv'
<1>1. worker'[w].pc = "codexClaim" /\ worker'[w].job = None
  BY NextIterationLocals
<1>2. Settled(j)'
  BY DEF Settled
<1> QED
  BY <1>1, <1>2, OneJobMoves DEF ClaimLabels

\* A write to the run that the worker holds.
LEMMA HeldRunWritten ==
  ASSUME Inv, RowsInv, NEW w \in Workers, NEW j \in Jobs, worker[w].job = j,
         worker[w].pc \notin {"checkout", "createRun"},
         NEW status \in RunStatus, NEW meta \in SUBSET MetaKeys,
         MarkRun(w, status, meta), UNCHANGED <<jobs, validated>>,
         \A k \in Jobs \ {j} : owed'[k] = owed[k]
  PROVE  /\ OnlyJob(j) /\ jobs'[j] = jobs[j] /\ validated'[j] = validated[j]
         /\ LatestStatus(j)' = status /\ LatestMeta(j)' = meta
         /\ runs'[j] # <<>> /\ Len(runs'[j]) = Len(runs[j])
<1>1. runs[j] # <<>> /\ worker[w].run = Len(runs[j])
  BY AttendedFacts DEF Attended, HoldsLatest
<1>2. SetRun(j, Len(runs[j]), status, meta)
  BY <1>1 DEF MarkRun
<1> QED
  BY <1>1, <1>2, LatestWritten DEF OnlyJob

LEMMA WritesRun ==
  ASSUME TakingTurns, Inv, RowsInv, AllIdle,
         NEW w \in Workers, NEW j \in Jobs, worker[w].job = j,
         worker[w].pc \notin {"checkout", "createRun"},
         NEW status \in RunStatus, NEW meta \in SUBSET MetaKeys,
         MarkRun(w, status, meta), UNCHANGED <<jobs, request, validated, owed>>,
         InOrder(meta, validated[j]),
         \/ /\ NextIteration(w)
            /\ SettledAs(jobs[j].status, status, meta, validated[j], owed[j])
         \/ \E label :
              /\ Goto(w, label)
              /\ AttendedAs(label, worker[w].meta, jobs[j].status, status, meta,
                            validated[j], owed[j])
  PROVE  RowsInv'
<1>1. /\ OnlyJob(j) /\ jobs'[j] = jobs[j]
      /\ validated'[j] = validated[j] /\ owed'[j] = owed[j]
      /\ LatestStatus(j)' = status /\ LatestMeta(j)' = meta
      /\ runs'[j] # <<>> /\ Len(runs'[j]) = Len(runs[j])
  BY HeldRunWritten
<1>2. InOrder(LatestMeta(j)', validated'[j])
  BY <1>1
<1>3. CASE /\ NextIteration(w)
           /\ SettledAs(jobs[j].status, status, meta, validated[j], owed[j])
  <2>1. SettledAs(jobs'[j].status, LatestStatus(j)', LatestMeta(j)',
                  validated'[j], owed'[j])
    BY <1>1, <1>3
  <2> QED
    BY <1>1, <1>2, <1>3, <2>1, LeavesIt
<1>4. ASSUME NEW label, Goto(w, label),
             AttendedAs(label, worker[w].meta, jobs[j].status, status, meta,
                        validated[j], owed[j])
      PROVE  RowsInv'
  <2>1. AttendedAs(label, worker[w].meta, jobs'[j].status, LatestStatus(j)',
                   LatestMeta(j)', validated'[j], owed'[j])
    BY <1>1, <1>4
  <2> QED
    BY <1>1, <1>2, <1>4, <2>1, StaysWith
<1> QED
  BY <1>3, <1>4

\* A write to the job that the worker holds, or none at all.
LEMMA WritesJob ==
  ASSUME TakingTurns, Inv, RowsInv, AllIdle,
         NEW w \in Workers, NEW j \in Jobs, worker[w].job = j,
         NEW status \in JobStatus,
         MarkJob(w, status) \/ (UNCHANGED jobs /\ jobs[j].status = status),
         UNCHANGED <<runs, request, owed>>,
         NEW passed, validated'[j] = passed,
         \A k \in Jobs \ {j} : validated'[k] = validated[k],
         InOrder(LatestMeta(j), passed),
         \/ /\ NextIteration(w)
            /\ SettledAs(status, LatestStatus(j), LatestMeta(j), passed, owed[j])
         \/ \E label :
              /\ Goto(w, label)
              /\ label = "createRun" \/ worker[w].pc \notin {"checkout", "createRun"}
              /\ AttendedAs(label, worker[w].meta, status, LatestStatus(j),
                            LatestMeta(j), passed, owed[j])
  PROVE  RowsInv'
<1>1. jobs'[j].status = status /\ \A k \in Jobs \ {j} : jobs'[k] = jobs[k]
  BY SetJobRow DEF MarkJob
<1>2. OnlyJob(j) /\ owed'[j] = owed[j] /\ runs'[j] = runs[j]
  BY <1>1 DEF OnlyJob
<1>3. LatestStatus(j)' = LatestStatus(j) /\ LatestMeta(j)' = LatestMeta(j)
  BY DEF LatestStatus, LatestMeta
<1>4. InOrder(LatestMeta(j)', validated'[j])
  BY <1>3
<1>5. CASE /\ NextIteration(w)
           /\ SettledAs(status, LatestStatus(j), LatestMeta(j), passed, owed[j])
  <2>1. SettledAs(jobs'[j].status, LatestStatus(j)', LatestMeta(j)',
                  validated'[j], owed'[j])
    BY <1>1, <1>2, <1>3, <1>5
  <2> QED
    BY <1>2, <1>4, <1>5, <2>1, LeavesIt
<1>6. ASSUME NEW label, Goto(w, label),
             label = "createRun" \/ worker[w].pc \notin {"checkout", "createRun"},
             AttendedAs(label, worker[w].meta, status, LatestStatus(j),
                        LatestMeta(j), passed, owed[j])
      PROVE  RowsInv'
  <2>1. AttendedAs(label, worker[w].meta, jobs'[j].status, LatestStatus(j)',
                   LatestMeta(j)', validated'[j], owed'[j])
    BY <1>1, <1>2, <1>3, <1>6
  <2>2. \/ label = "createRun"
        \/ /\ worker[w].pc \notin {"checkout", "createRun"}
           /\ runs'[j] # <<>> /\ Len(runs'[j]) = Len(runs[j])
    BY <1>2, <1>6, AttendedFacts DEF Attended, HoldsLatest
  <2> QED
    BY <1>2, <1>4, <1>6, <2>1, <2>2, StaysWith
<1> QED
  BY <1>5, <1>6

\* A worker at a claim has no job, so nobody has.
LEMMA ClaimsFromNone ==
  ASSUME TakingTurns, Inv, RowsInv, NEW w \in Workers, worker[w].pc \in ClaimLabels
  PROVE  worker[w].job = None /\ \A j \in Jobs : Unattended(j) /\ Settled(j)
<1>1. worker[w].job \in Jobs \cup {None}
  BY DEF Inv, TypeOK, WorkerState
<1>2. ASSUME NEW j \in Jobs, worker[w].job = j PROVE FALSE
  <2>1. Attended(w, j)
    BY <1>2 DEF RowsInv
  <2> QED
    BY <2>1 DEF Attended, AttendedAs
<1>3. worker[w].job = None
  BY <1>1, <1>2
<1>4. \A j \in Jobs : Unattended(j)
  BY <1>3, JobPipelineAssumption DEF TakingTurns, SoleWorker, Unattended
<1> QED
  BY <1>3, <1>4 DEF RowsInv

LEMMA FindsNothing ==
  ASSUME TakingTurns, Inv, RowsInv, AllIdle,
         NEW w \in Workers, worker[w].pc \in ClaimLabels,
         UNCHANGED <<jobs, runs, request, validated, owed>>,
         NextIteration(w) \/ \E label \in ClaimLabels : Goto(w, label)
  PROVE  RowsInv'
<1>1. worker'[w].pc \in ClaimLabels /\ worker'[w].job = None
  BY ClaimsFromNone, NextIterationLocals, GotoLocals DEF ClaimLabels
<1>2. \A v \in Workers : v = w
  BY DEF TakingTurns, SoleWorker
<1>3. \A j \in Jobs : Settled(j)' /\ InOrder(LatestMeta(j), validated[j])'
  BY ClaimsFromNone DEF RowsInv, Settled, LatestStatus, LatestMeta
<1>4. \A v \in Workers, j \in Jobs : worker'[v].job # j
  BY <1>1, <1>2, JobPipelineAssumption
<1>5. \A r \in Requests : Idle(r)'
  BY DEF AllIdle, Idle
<1> QED
  BY <1>1, <1>2, <1>3, <1>4, <1>5 DEF RowsInv

LEMMA TakesJob ==
  ASSUME TakingTurns, Inv, RowsInv, AllIdle,
         NEW w \in Workers, worker[w].pc \in ClaimLabels,
         NEW j \in Jobs, NEW label, Claim(w, j, label),
         runs[j] # <<>>, UNCHANGED <<runs, request, owed>>, OnlyJob(j),
         InOrder(LatestMeta(j), validated'[j]),
         AttendedAs(label, LatestMeta(j), jobs'[j].status, LatestStatus(j),
                    LatestMeta(j), validated'[j], owed[j])
  PROVE  RowsInv'
<1>1. /\ worker'[w].pc = label /\ worker'[w].job = j
      /\ worker'[w].run = Len(runs[j]) /\ worker'[w].meta = LatestMeta(j)
  BY ClaimLocals
<1>2. LatestStatus(j)' = LatestStatus(j) /\ LatestMeta(j)' = LatestMeta(j)
  BY DEF LatestStatus, LatestMeta
<1>3. HoldsLatest(w, j)' /\ worker[w].job = None
  BY <1>1, ClaimsFromNone DEF HoldsLatest
<1>4. AttendedAs(worker'[w].pc, worker'[w].meta, jobs'[j].status, LatestStatus(j)',
                 LatestMeta(j)', validated'[j], owed'[j])
  BY <1>1, <1>2
<1>5. Attended(w, j)'
  BY <1>3, <1>4 DEF Attended
<1>6. InOrder(LatestMeta(j)', validated'[j])
  BY <1>2
<1> QED
  BY <1>1, <1>3, <1>5, <1>6, OneJobMoves

\* A job with what only a job with a run has can be taken with that run.
LEMMA SettledRun ==
  ASSUME NEW j \in Jobs, LatestStatus(j) # "none" \/ LatestMeta(j) # {}
  PROVE  runs[j] # <<>>
BY DEF LatestStatus, LatestMeta

\* The claims of the later stages leave the row alone.
LEMMA FoundRows ==
  ASSUME TakingTurns, Inv, RowsInv, AllIdle,
         NEW w \in Workers, worker[w].pc \in ClaimLabels,
         NEW status, NEW next \in ClaimLabels, NEW label,
         FoundPaused(w) \/ FoundNone(w, status, next) \/ FoundUnleased(w, status, label),
         UNCHANGED <<runs, request, validated, owed>>,
         <<status, label>> \in {<<"VALIDATING", "validate">>, <<"PR_APPROVED", "push">>,
                                <<"PR_CREATED", "inspect">>}
  PROVE  RowsInv'
<1>1. CASE FoundPaused(w) \/ FoundNone(w, status, next)
  BY <1>1, FindsNothing DEF FoundPaused, FoundNone
<1>2. ASSUME NEW j \in Jobs, jobs[j].status = status, Claim(w, j, label), UNCHANGED jobs
      PROVE  RowsInv'
  <2>1. Settled(j) /\ InOrder(LatestMeta(j), validated[j])
    BY ClaimsFromNone DEF RowsInv
  <2>2. SettledAs(status, LatestStatus(j), LatestMeta(j), validated[j], owed[j])
    BY <1>2, <2>1 DEF Settled
  <2>3. LatestMeta(j) # {} /\ ~owed[j]
    BY <2>2 DEF SettledAs, ReviewStatus, CodexStatus, InFlight
  <2>4. AttendedAs(label, LatestMeta(j), status, LatestStatus(j), LatestMeta(j),
                   validated[j], owed[j])
    <3> USE DEF AttendedAs, ClaimLabels, SetupLabels, CodexLabels, StartLabels, PushLabels,
                InspectLabels
    <3>1. CASE status = "VALIDATING" /\ label = "validate"
      BY <2>2, <2>3, <3>1 DEF SettledAs
    <3>2. CASE status = "PR_APPROVED" /\ label = "push"
      BY <2>1, <2>2, <2>3, <3>2 DEF SettledAs, ReviewStatus, InOrder
    <3>3. CASE status = "PR_CREATED" /\ label = "inspect"
      BY <2>2, <2>3, <3>3 DEF SettledAs
    <3> QED
      BY <3>1, <3>2, <3>3
  <2>5. OnlyJob(j)
    BY <1>2 DEF OnlyJob
  <2> QED
    BY <1>2, <2>1, <2>3, <2>4, <2>5, SettledRun, TakesJob
<1> QED
  BY <1>1, <1>2 DEF FoundUnleased
------------------------------------------------------------------------------
(* Stage by stage. *)

\* The parts are all there, so no stage blocks a job for want of one.
LEMMA NothingMissing ==
  ASSUME Inv, RowsInv, NEW w \in Workers
  PROVE  /\ worker[w].pc \in {"codexStart", "validate", "push"} => ~Lacks(w, {"worktree"})
         /\ worker[w].pc = "inspect" => ~Lacks(w, {"worktree", "prUrl"})
<1> SUFFICES ASSUME worker[w].pc \in {"codexStart", "validate", "push", "inspect"}
             PROVE  /\ worker[w].run # 0 /\ "worktree" \in worker[w].meta
                    /\ worker[w].pc = "inspect" => "prUrl" \in worker[w].meta
  BY DEF Lacks
<1> DEFINE j == worker[w].job
<1>1. j \in Jobs
  BY Holding DEF ClaimLabels
<1>2. Attended(w, j) /\ InOrder(LatestMeta(j), validated[j])
  BY <1>1, AttendedFacts
<1>3. runs[j] # <<>> /\ worker[w].run = Len(runs[j])
  BY <1>2 DEF Attended, HoldsLatest
<1>4. worker[w].run # 0
  BY <1>1, <1>3, EmptySeq DEF Inv, TypeOK
<1> QED
  BY <1>2, <1>4
     DEF Attended, AttendedAs, InOrder, CodexLabels, PushLabels, InspectLabels

LEMMA CodexStageRows ==
  ASSUME TakingTurns, Inv, RowsInv, AllIdle, NEW w \in Workers, CodexStage(w)
  PROVE  RowsInv'
<1> USE DEF At
<1>1. CASE ClaimCodex(w)
  <2>1. worker[w].pc \in ClaimLabels
    BY <1>1 DEF ClaimCodex, ClaimLabels
  <2>2. CASE FoundNone(w, "CODEX_APPROVED", "validationClaim") /\ UNCHANGED history
    BY <1>1, <2>1, <2>2, FindsNothing DEF ClaimCodex, FoundNone, ClaimLabels, history
  <2>3. ASSUME NEW j \in Jobs, jobs[j].status = "CODEX_APPROVED", SetJob(j, "RUNNING"),
               NEW label \in StartLabels, Claim(w, j, label),
               validated' = [validated EXCEPT ![j] = FALSE], UNCHANGED owed
        PROVE  RowsInv'
    <3>1. Settled(j) /\ InOrder(LatestMeta(j), validated[j])
      BY <2>1, ClaimsFromNone DEF RowsInv
    <3>2. Ready(LatestStatus(j), LatestMeta(j), owed[j])
      BY <2>3, <3>1 DEF Settled, SettledAs, CodexStatus
    <3>3. /\ jobs'[j].status = "RUNNING" /\ validated'[j] = FALSE
          /\ UNCHANGED <<runs, request>> /\ OnlyJob(j)
      <4>1. jobs'[j].status = "RUNNING" /\ \A k \in Jobs \ {j} : jobs'[k] = jobs[k]
        BY <2>3, SetJobRow DEF JobStatus
      <4>2. validated'[j] = FALSE /\ \A k \in Jobs \ {j} : validated'[k] = validated[k]
        BY <2>3 DEF Inv, TypeOK
      <4> QED
        BY <1>1, <2>3, <4>1, <4>2 DEF ClaimCodex, OnlyJob
    <3>4. InOrder(LatestMeta(j), FALSE)
      BY <3>1, <3>2 DEF InOrder, Ready, LateKeys
    <3>5. AttendedAs(label, LatestMeta(j), "RUNNING", LatestStatus(j), LatestMeta(j),
                     FALSE, owed[j])
      BY <2>3, <3>2
         DEF AttendedAs, Ready, ClaimLabels, SetupLabels, CodexLabels, StartLabels,
             PushLabels, InspectLabels
    <3>6. runs[j] # <<>>
      BY <3>2, SettledRun DEF Ready
    <3> QED
      BY <2>1, <2>3, <3>3, <3>4, <3>5, <3>6, TakesJob
  <2> QED
    BY <1>1, <2>2, <2>3 DEF ClaimCodex, StartLabels
<1>2. CASE CodexMissing(w)
  BY <1>2, NothingMissing DEF CodexMissing
<1>3. CASE SkipCodex(w) \/ StartCodex(w) \/ CodexFails(w) \/ CodexSucceeds(w)
             \/ MarkValidating(w)
  <2>1. /\ worker[w].pc \in CodexLabels
        /\ worker[w].pc \notin ClaimLabels \cup {"checkout", "createRun"}
    BY <1>3 DEF SkipCodex, StartCodex, CodexFails, CodexSucceeds, MarkValidating,
                CodexLabels, ClaimLabels
  <2>2. PICK j \in Jobs : worker[w].job = j
    BY <2>1, Holding
  <2>3. PICK held \in SUBSET MetaKeys : held = worker[w].meta
    BY <2>2, AttendedFacts
  <2>4. /\ AttendedAs(worker[w].pc, held, jobs[j].status, LatestStatus(j),
                      LatestMeta(j), validated[j], owed[j])
        /\ InOrder(LatestMeta(j), validated[j])
    BY <2>2, <2>3, AttendedFacts DEF Attended
  <2>5. /\ jobs[j].status = "RUNNING" /\ "worktree" \in held
        /\ held \cap LateKeys = {}
    BY <2>1, <2>4 DEF AttendedAs
  <2>6. /\ held \cup {"codex"} \in SUBSET MetaKeys
        /\ {"FAILED", "VALIDATING", "CODEX_RUNNING"} \subseteq RunStatus
        /\ {"READY_FOR_CODEX", "VALIDATING"} \subseteq JobStatus
    BY DEF MetaKeys, RunStatus, JobStatus
  <2>7. InOrder(held \cup {"codex"}, validated[j])
    BY <2>5 DEF InOrder, LateKeys
  <2> USE DEF AttendedAs, ClaimLabels, SetupLabels, CodexLabels, StartLabels, PushLabels,
              InspectLabels
  <2>8. CASE SkipCodex(w)
    <3>1. SettledAs("READY_FOR_CODEX", LatestStatus(j), LatestMeta(j), validated[j], owed[j])
      BY <2>4, <2>8
         DEF SkipCodex, SettledAs, InFlight, WaitingStatus, CodexStatus, ReviewStatus
    <3> QED
      BY <2>1, <2>2, <2>4, <2>6, <2>8, <3>1, WritesJob DEF SkipCodex, history
  <2>9. CASE StartCodex(w)
    <3>1. MarkRun(w, "CODEX_RUNNING", held \cup {"codex"})
      BY <2>3, <2>9 DEF StartCodex
    <3>2. UNCHANGED <<jobs, request, validated>> /\ Goto(w, "codexRunning")
          /\ owed'[j] = FALSE /\ \A k \in Jobs \ {j} : owed'[k] = owed[k]
      BY <2>2, <2>9 DEF StartCodex, Inv, TypeOK
    <3>3. /\ OnlyJob(j) /\ jobs'[j] = jobs[j] /\ validated'[j] = validated[j]
          /\ LatestStatus(j)' = "CODEX_RUNNING" /\ LatestMeta(j)' = held \cup {"codex"}
          /\ runs'[j] # <<>> /\ Len(runs'[j]) = Len(runs[j])
      BY <2>1, <2>2, <2>6, <3>1, <3>2, HeldRunWritten
    <3>4. AttendedAs("codexRunning", held, "RUNNING", "CODEX_RUNNING",
                     held \cup {"codex"}, validated[j], FALSE)
      BY <2>5
    <3>5. AttendedAs("codexRunning", worker[w].meta, jobs'[j].status, LatestStatus(j)',
                     LatestMeta(j)', validated'[j], owed'[j])
      BY <2>3, <2>5, <3>2, <3>3, <3>4
    <3>6. InOrder(LatestMeta(j)', validated'[j])
      BY <2>7, <3>3
    <3> HIDE DEF AttendedAs
    <3> QED
      BY <2>1, <2>2, <3>2, <3>3, <3>5, <3>6, StaysWith
  <2>10. CASE CodexFails(w)
    <3>1. AttendedAs("block", held, jobs[j].status, "FAILED", held \cup {"codex"},
                     validated[j], owed[j])
      BY <2>4, <2>5, <2>10 DEF CodexFails
    <3> QED
      BY <2>1, <2>2, <2>3, <2>6, <2>7, <2>10, <3>1, WritesRun DEF CodexFails, history
  <2>11. CASE CodexSucceeds(w)
    <3>1. AttendedAs("codexOk", held, jobs[j].status, "VALIDATING", held \cup {"codex"},
                     validated[j], owed[j])
      BY <2>4, <2>5, <2>11 DEF CodexSucceeds
    <3> QED
      BY <2>1, <2>2, <2>3, <2>6, <2>7, <2>11, <3>1, WritesRun DEF CodexSucceeds, history
  <2>12. CASE MarkValidating(w)
    <3>1. SettledAs("VALIDATING", LatestStatus(j), LatestMeta(j), validated[j], owed[j])
      BY <2>4, <2>12
         DEF MarkValidating, SettledAs, InFlight, WaitingStatus, CodexStatus, ReviewStatus
    <3> QED
      BY <2>1, <2>2, <2>4, <2>6, <2>12, <3>1, WritesJob DEF MarkValidating, history
  <2> QED
    BY <1>3, <2>8, <2>9, <2>10, <2>11, <2>12
<1> QED
  BY <1>1, <1>2, <1>3 DEF CodexStage

\* The job, and what is known of it, of a worker that is about to write.
LEMMA Attending ==
  ASSUME Inv, RowsInv, NEW w \in Workers, worker[w].pc \notin ClaimLabels
  PROVE  \E j \in Jobs, held \in SUBSET MetaKeys :
           /\ worker[w].job = j /\ worker[w].meta = held
           /\ AttendedAs(worker[w].pc, held, jobs[j].status, LatestStatus(j),
                         LatestMeta(j), validated[j], owed[j])
           /\ InOrder(LatestMeta(j), validated[j])
BY Holding, AttendedFacts DEF Attended

LEMMA ValidationStageRows ==
  ASSUME TakingTurns, Inv, RowsInv, AllIdle, NEW w \in Workers, ValidationStage(w)
  PROVE  RowsInv'
<1> USE DEF At
<1>1. CASE ClaimValidating(w)
  BY <1>1, FoundRows DEF ClaimValidating, ClaimLabels, history
<1>2. CASE ValidationMissing(w)
  BY <1>2, NothingMissing DEF ValidationMissing
<1>3. CASE ValidationFails(w) \/ ValidationPasses(w) \/ MarkValidated(w)
  <2>1. worker[w].pc \in {"validate", "validationRun"}
    BY <1>3 DEF ValidationFails, ValidationPasses, MarkValidated
  <2>2. worker[w].pc \notin ClaimLabels \cup {"checkout", "createRun"}
    BY <2>1 DEF ClaimLabels
  <2>3. PICK j \in Jobs, held \in SUBSET MetaKeys :
          /\ worker[w].job = j /\ worker[w].meta = held
          /\ AttendedAs(worker[w].pc, held, jobs[j].status, LatestStatus(j),
                        LatestMeta(j), validated[j], owed[j])
          /\ InOrder(LatestMeta(j), validated[j])
    BY <2>2, Attending
  <2>4. held = LatestMeta(j) /\ "codex" \in held /\ InOrder(held, validated[j])
    BY <2>1, <2>3 DEF AttendedAs
  <2>5. /\ held \cup {"validation"} \in SUBSET MetaKeys
        /\ {"FAILED", "SUCCEEDED"} \subseteq RunStatus
        /\ {"REVIEW", "COMPLETED"} \subseteq JobStatus
    BY DEF MetaKeys, RunStatus, JobStatus
  <2>6. InOrder(held \cup {"validation"}, validated[j]) /\ InOrder(held, TRUE)
    BY <2>4 DEF InOrder
  <2> USE DEF AttendedAs, ClaimLabels, SetupLabels, CodexLabels, StartLabels, PushLabels,
              InspectLabels
  <2>7. CASE ValidationFails(w)
    <3>1. AttendedAs("block", held, jobs[j].status, "FAILED", held \cup {"validation"},
                     validated[j], owed[j])
      BY <2>3, <2>7 DEF ValidationFails
    <3> HIDE DEF AttendedAs
    <3> QED
      BY <2>2, <2>3, <2>5, <2>6, <2>7, <3>1, WritesRun DEF ValidationFails, history
  <2>8. CASE ValidationPasses(w)
    <3>1. PICK status \in JobStatus :
            status \in {"REVIEW", "COMPLETED"} /\ MarkJob(w, status)
      BY <2>5, <2>8 DEF ValidationPasses
    <3>2. PICK passed \in BOOLEAN : passed
      OBVIOUS
    <3>3. /\ Goto(w, "validationRun") /\ UNCHANGED <<runs, request, owed>>
          /\ validated'[j] = passed /\ \A k \in Jobs \ {j} : validated'[k] = validated[k]
      BY <2>3, <2>8, <3>2 DEF ValidationPasses, Inv, TypeOK
    <3>4. AttendedAs("validationRun", held, status, LatestStatus(j), LatestMeta(j),
                     passed, owed[j])
      BY <2>3, <2>4, <2>8, <3>1, <3>2 DEF ValidationPasses, ReviewStatus
    <3>5. InOrder(LatestMeta(j), passed)
      BY <2>4, <2>6, <3>2
    <3> HIDE DEF AttendedAs
    <3> QED
      BY <2>2, <2>3, <3>1, <3>3, <3>4, <3>5, WritesJob
  <2>9. CASE MarkValidated(w)
    <3>1. SettledAs(jobs[j].status, "SUCCEEDED", held \cup {"validation"},
                    validated[j], owed[j])
      BY <2>3, <2>4, <2>9
         DEF MarkValidated, SettledAs, InFlight, WaitingStatus, CodexStatus, ReviewStatus
    <3> QED
      BY <2>2, <2>3, <2>5, <2>6, <2>9, <3>1, WritesRun DEF MarkValidated, history
  <2> QED
    BY <1>3, <2>7, <2>8, <2>9
<1> QED
  BY <1>1, <1>2, <1>3 DEF ValidationStage

LEMMA PushStageRows ==
  ASSUME TakingTurns, Inv, RowsInv, AllIdle, NEW w \in Workers, PushStage(w)
  PROVE  RowsInv'
<1> USE DEF At
<1>1. CASE ClaimReview(w)
  BY <1>1, FoundRows DEF ClaimReview, ClaimLabels, history
<1>2. CASE PushMissing(w)
  BY <1>2, NothingMissing DEF PushMissing
<1>3. CASE StartPush(w) \/ PushFails(w) \/ PushSucceeds(w) \/ MarkRunPrCreated(w)
             \/ MarkJobPrCreated(w)
  <2>1. worker[w].pc \in PushLabels
    BY <1>3 DEF StartPush, PushFails, PushSucceeds, MarkRunPrCreated, MarkJobPrCreated,
                PushLabels
  <2>2. worker[w].pc \notin ClaimLabels \cup {"checkout", "createRun"}
    BY <2>1 DEF PushLabels, ClaimLabels
  <2>3. PICK j \in Jobs, held \in SUBSET MetaKeys :
          /\ worker[w].job = j /\ worker[w].meta = held
          /\ AttendedAs(worker[w].pc, held, jobs[j].status, LatestStatus(j),
                        LatestMeta(j), validated[j], owed[j])
          /\ InOrder(LatestMeta(j), validated[j])
    BY <2>2, Attending
  <2>4. /\ jobs[j].status = "PR_APPROVED" /\ {"worktree", "codex"} \subseteq held
        /\ ~Crashes => "validation" \in held
        /\ validated[j] /\ ~owed[j] /\ "codex" \in LatestMeta(j)
    BY <2>1, <2>3 DEF AttendedAs, PushLabels, StartLabels
  <2>5. /\ \A keys \in {{}, {"prUrl"}} :
             /\ WithPullRequest(held, keys) \in SUBSET MetaKeys
             /\ InOrder(WithPullRequest(held, keys), validated[j])
             /\ "codex" \in WithPullRequest(held, keys)
        /\ "prUrl" \in WithPullRequest(held, {"prUrl"})
    BY <2>4 DEF WithPullRequest, InOrder, MetaKeys
  <2>6. /\ {"FAILED", "PUSHING", "PR_CREATED"} \subseteq RunStatus
        /\ {"PR_APPROVED", "PR_CREATED"} \subseteq JobStatus
    BY DEF RunStatus, JobStatus
  <2> USE DEF AttendedAs, ClaimLabels, SetupLabels, CodexLabels, StartLabels, PushLabels,
              InspectLabels
  <2>7. CASE StartPush(w)
    <3>1. PICK meta \in SUBSET MetaKeys :
            /\ meta = WithPullRequest(held, {}) /\ InOrder(meta, validated[j])
            /\ "codex" \in meta
      BY <2>5
    <3>2. AttendedAs("pushing", held, jobs[j].status, "PUSHING", meta,
                     validated[j], owed[j])
      BY <2>4, <3>1
    <3> HIDE DEF AttendedAs
    <3> QED
      BY <2>2, <2>3, <2>6, <2>7, <3>1, <3>2, WritesRun DEF StartPush, history
  <2>8. CASE PushFails(w)
    <3>1. PICK meta \in SUBSET MetaKeys :
            /\ meta = WithPullRequest(held, {}) /\ InOrder(meta, validated[j])
            /\ "codex" \in meta
      BY <2>5
    <3>2. AttendedAs("block", held, jobs[j].status, "FAILED", meta, validated[j], owed[j])
      BY <2>4, <3>1
    <3> HIDE DEF AttendedAs
    <3> QED
      BY <2>2, <2>3, <2>6, <2>8, <3>1, <3>2, WritesRun DEF PushFails, history
  <2>9. CASE PushSucceeds(w)
    <3>1. AttendedAs("prRun", held, "PR_APPROVED", LatestStatus(j), LatestMeta(j),
                     validated[j], owed[j])
      BY <2>4
    <3>2. UNCHANGED <<jobs, runs, request, validated, owed>> /\ Goto(w, "prRun")
      BY <2>9 DEF PushSucceeds, history
    <3> HIDE DEF AttendedAs
    <3> QED
      BY <2>2, <2>3, <2>4, <2>6, <3>1, <3>2, WritesJob
  <2>10. CASE MarkRunPrCreated(w)
    <3>1. PICK meta \in SUBSET MetaKeys :
            /\ meta = WithPullRequest(held, {"prUrl"}) /\ InOrder(meta, validated[j])
            /\ {"codex", "prUrl"} \subseteq meta
      BY <2>5
    <3>2. AttendedAs("prJob", held, jobs[j].status, "PR_CREATED", meta,
                     validated[j], owed[j])
      BY <2>4, <3>1
    <3> HIDE DEF AttendedAs
    <3> QED
      BY <2>2, <2>3, <2>6, <2>10, <3>1, <3>2, WritesRun DEF MarkRunPrCreated, history
  <2>11. CASE MarkJobPrCreated(w)
    <3>1. SettledAs("PR_CREATED", LatestStatus(j), LatestMeta(j), validated[j], owed[j])
      BY <2>3, <2>4, <2>11
         DEF MarkJobPrCreated, SettledAs, InFlight, WaitingStatus, CodexStatus, ReviewStatus
    <3> QED
      BY <2>2, <2>3, <2>6, <2>11, <3>1, WritesJob DEF MarkJobPrCreated, history
  <2> QED
    BY <1>3, <2>7, <2>8, <2>9, <2>10, <2>11
<1> QED
  BY <1>1, <1>2, <1>3 DEF PushStage

\* What a retry leaves of the metadata is a run that Codex can be given.
LEMMA RetriedMeta ==
  ASSUME NEW meta \in SUBSET MetaKeys, NEW passed, InOrder(meta, passed),
         "worktree" \in meta, NEW owes, NEW passed2,
         NEW kept, kept = (meta \ LateKeys) \cup {"retryFeedback"}
  PROVE  /\ kept \in SUBSET MetaKeys /\ InOrder(kept, passed2)
         /\ Ready("READY_FOR_CODEX", kept, owes)
BY DEF InOrder, Ready, LateKeys, MetaKeys

LEMMA HeldRunIsLatest ==
  ASSUME Inv, RowsInv, NEW w \in Workers, NEW j \in Jobs, worker[w].job = j,
         worker[w].pc \notin ClaimLabels \cup {"checkout", "createRun"}
  PROVE  /\ HeldRun(w).status = LatestStatus(j) /\ HeldRun(w).meta = LatestMeta(j)
         /\ LatestStatus(j) \in RunStatus
<1>1. runs[j] # <<>> /\ worker[w].run = Len(runs[j])
  BY AttendedFacts DEF Attended, HoldsLatest
<1>2. HeldRun(w).status = LatestStatus(j) /\ HeldRun(w).meta = LatestMeta(j)
  BY <1>1 DEF HeldRun, LatestStatus, LatestMeta
<1>3. Len(runs[j]) \in Nat /\ Len(runs[j]) # 0
  BY <1>1, EmptySeq, LatestTyped DEF Inv, TypeOK
<1>4. HeldRun(w) \in RunRow
  BY <1>1, <1>3, HeldRunTyped
<1> QED
  BY <1>2, <1>4 DEF RunRow

LEMMA LifecycleStageRows ==
  ASSUME TakingTurns, Inv, RowsInv, AllIdle, NEW w \in Workers, LifecycleStage(w)
  PROVE  RowsInv'
<1> USE DEF At
<1>1. CASE ClaimPrCreated(w)
  <2>1. worker[w].pc \in ClaimLabels
    BY <1>1 DEF ClaimPrCreated, ClaimLabels
  <2>2. CASE Goto(w, "queuedClaim") /\ UNCHANGED jobs
    BY <1>1, <2>1, <2>2, FindsNothing DEF ClaimPrCreated, ClaimLabels, history
  <2> QED
    BY <1>1, <2>1, <2>2, FoundRows DEF ClaimPrCreated, ClaimLabels, history
<1>2. CASE LifecycleMissing(w)
  BY <1>2, NothingMissing DEF LifecycleMissing
<1>3. CASE NoteLifecycle(w) \/ FindMerged(w) \/ MarkCompleted(w) \/ FindClosed(w)
             \/ FindChecksFailed(w) \/ GiveUpOnChecks(w) \/ AutoRetry(w)
  <2>1. worker[w].pc \in InspectLabels \cup {"complete"}
    BY <1>3 DEF NoteLifecycle, FindMerged, MarkCompleted, FindClosed, FindChecksFailed,
                GiveUpOnChecks, AutoRetry, CanInspect, InspectLabels
  <2>2. worker[w].pc \notin ClaimLabels \cup {"checkout", "createRun"}
    BY <2>1 DEF InspectLabels, ClaimLabels
  <2>3. PICK j \in Jobs, held \in SUBSET MetaKeys :
          /\ worker[w].job = j /\ worker[w].meta = held
          /\ AttendedAs(worker[w].pc, held, jobs[j].status, LatestStatus(j),
                        LatestMeta(j), validated[j], owed[j])
          /\ InOrder(LatestMeta(j), validated[j])
    BY <2>2, Attending
  <2>4. jobs[j].status = "PR_CREATED" /\ ~owed[j]
    BY <2>1, <2>3 DEF AttendedAs, InspectLabels, StartLabels
  <2>5. worker[w].pc \in InspectLabels =>
          /\ held = LatestMeta(j) /\ "prUrl" \in held
          /\ ~Crashes => LatestStatus(j) = "PR_CREATED"
          /\ InOrder(held, validated[j]) /\ "worktree" \in held
    BY <2>3 DEF AttendedAs, InOrder
  <2>6. /\ {"FAILED", "SUCCEEDED", "PR_CREATED", "READY_FOR_CODEX"} \subseteq RunStatus
        /\ {"PR_CREATED", "COMPLETED"} \subseteq JobStatus
    BY DEF RunStatus, JobStatus
  <2> USE DEF AttendedAs, ClaimLabels, SetupLabels, CodexLabels, StartLabels, PushLabels,
              InspectLabels
  <2>7. CASE NoteLifecycle(w)
    <3>1. PICK run \in RunStatus : run = LatestStatus(j) /\ HeldRun(w).status = run
      BY <2>2, <2>3, HeldRunIsLatest
    <3>2. MarkRun(w, run, held) /\ NextIteration(w)
          /\ UNCHANGED <<jobs, request, validated, owed>>
      BY <2>3, <2>7, <3>1 DEF NoteLifecycle, history
    <3>3. SettledAs(jobs[j].status, run, held, validated[j], owed[j])
      BY <2>4, <2>5, <2>7, <3>1
         DEF NoteLifecycle, CanInspect, SettledAs, InFlight, WaitingStatus, CodexStatus,
             ReviewStatus
    <3>4. InOrder(held, validated[j])
      BY <2>5, <2>7 DEF NoteLifecycle, CanInspect
    <3> HIDE DEF AttendedAs
    <3> QED
      BY <2>2, <2>3, <3>1, <3>2, <3>3, <3>4, WritesRun
  <2>8. CASE FindMerged(w)
    <3>1. AttendedAs("complete", held, jobs[j].status, "SUCCEEDED", held,
                     validated[j], owed[j])
      BY <2>4, <2>5, <2>8 DEF FindMerged, CanInspect
    <3>2. InOrder(held, validated[j])
      BY <2>5, <2>8 DEF FindMerged, CanInspect
    <3> HIDE DEF AttendedAs
    <3> QED
      BY <2>2, <2>3, <2>6, <2>8, <3>1, <3>2, WritesRun DEF FindMerged, history
  <2>9. CASE MarkCompleted(w)
    <3>1. SettledAs("COMPLETED", LatestStatus(j), LatestMeta(j), validated[j], owed[j])
      BY <2>3, <2>4, <2>9
         DEF MarkCompleted, SettledAs, InFlight, WaitingStatus, CodexStatus, ReviewStatus
    <3> HIDE DEF AttendedAs
    <3> QED
      BY <2>2, <2>3, <2>6, <2>9, <3>1, WritesJob DEF MarkCompleted, history
  <2>10. CASE FindClosed(w) \/ GiveUpOnChecks(w)
    <3>1. AttendedAs("block", held, jobs[j].status, "FAILED", held, validated[j], owed[j])
      BY <2>4, <2>5, <2>10 DEF FindClosed, GiveUpOnChecks, CanInspect
    <3>2. InOrder(held, validated[j])
      BY <2>5, <2>10 DEF FindClosed, GiveUpOnChecks, CanInspect
    <3> HIDE DEF AttendedAs
    <3> QED
      BY <2>2, <2>3, <2>6, <2>10, <3>1, <3>2, WritesRun
         DEF FindClosed, GiveUpOnChecks, history
  <2>11. CASE FindChecksFailed(w)
    <3>1. AttendedAs("checksFailed", held, "PR_CREATED", LatestStatus(j), LatestMeta(j),
                     validated[j], owed[j])
      BY <2>4, <2>5, <2>11 DEF FindChecksFailed, CanInspect
    <3>2. UNCHANGED <<jobs, runs, request, validated, owed>> /\ Goto(w, "checksFailed")
      BY <2>11 DEF FindChecksFailed, history
    <3> HIDE DEF AttendedAs
    <3> QED
      BY <2>2, <2>3, <2>4, <2>6, <3>1, <3>2, WritesJob
  <2>12. CASE AutoRetry(w)
    <3>1. PICK kept : kept = (held \ LateKeys) \cup {"retryFeedback"}
      OBVIOUS
    <3>2. /\ kept \in SUBSET MetaKeys
          /\ \A passed, owes : InOrder(kept, passed) /\ Ready("READY_FOR_CODEX", kept, owes)
      BY <2>5, <2>12, <3>1, RetriedMeta DEF AutoRetry
    <3>3. /\ jobs' = [jobs EXCEPT ![j] =
                       [status |-> "CODEX_APPROVED", retries |-> @.retries + 1]]
          /\ MarkRun(w, "READY_FOR_CODEX", kept)
          /\ owed' = [owed EXCEPT ![j] = TRUE]
          /\ NextIteration(w) /\ UNCHANGED <<request, validated>>
      BY <2>3, <2>4, <2>12, <3>1 DEF AutoRetry, LateKeys
    <3>4. runs[j] # <<>> /\ worker[w].run = Len(runs[j])
      BY <2>2, <2>3, AttendedFacts DEF Attended, HoldsLatest
    <3>5. /\ LatestStatus(j)' = "READY_FOR_CODEX" /\ LatestMeta(j)' = kept
          /\ \A k \in Jobs \ {j} : runs'[k] = runs[k]
      <4>1. SetRun(j, Len(runs[j]), "READY_FOR_CODEX", kept)
        BY <2>3, <3>3, <3>4 DEF MarkRun
      <4> HIDE DEF AttendedAs
      <4> QED
        BY <2>6, <3>2, <3>4, <4>1, LatestWritten
    <3>6. /\ jobs'[j].status = "CODEX_APPROVED"
          /\ \A k \in Jobs \ {j} : jobs'[k] = jobs[k] /\ owed'[k] = owed[k]
      BY <3>3 DEF Inv, TypeOK
    <3>7. OnlyJob(j)
      BY <3>3, <3>5, <3>6 DEF OnlyJob
    <3>8. SettledAs("CODEX_APPROVED", "READY_FOR_CODEX", kept, validated'[j], owed'[j])
      BY <3>2 DEF SettledAs, InFlight, WaitingStatus, CodexStatus, ReviewStatus
    <3>9. /\ InOrder(LatestMeta(j)', validated'[j])
          /\ SettledAs(jobs'[j].status, LatestStatus(j)', LatestMeta(j)',
                       validated'[j], owed'[j])
      BY <3>2, <3>5, <3>6, <3>8
    <3> HIDE DEF AttendedAs
    <3> QED
      BY <2>3, <3>3, <3>7, <3>9, LeavesIt
  <2> QED
    BY <1>3, <2>7, <2>8, <2>9, <2>10, <2>11, <2>12
<1> QED
  BY <1>1, <1>2, <1>3 DEF LifecycleStage

LEMMA ClaimQueuedRows ==
  ASSUME TakingTurns, Inv, RowsInv, AllIdle, NEW w \in Workers, ClaimQueued(w)
  PROVE  RowsInv'
<1>1. worker[w].pc \in ClaimLabels
  BY DEF ClaimQueued, At, ClaimLabels
<1>2. CASE FoundPaused(w) \/ FoundNone(w, "QUEUED", "codexClaim")
  BY <1>1, <1>2, FindsNothing
     DEF ClaimQueued, FoundPaused, FoundNone, ClaimLabels, history
<1>3. ASSUME NEW j \in Jobs, jobs[j].status = "QUEUED", SetJob(j, "CLAIMED"),
             worker' = [worker EXCEPT ![w] = [LoopTop EXCEPT !.pc = "checkout", !.job = j]]
      PROVE  RowsInv'
  <2>1. /\ Settled(j) /\ InOrder(LatestMeta(j), validated[j])
        /\ worker[w].job = None
    BY <1>1, ClaimsFromNone DEF RowsInv
  <2>2. LatestStatus(j) \in {"none", "FAILED"} /\ ~owed[j]
    BY <1>3, <2>1 DEF Settled, SettledAs, WaitingStatus, CodexStatus, InFlight
  <2>3. jobs'[j].status = "CLAIMED" /\ \A k \in Jobs \ {j} : jobs'[k] = jobs[k]
    BY <1>3, SetJobRow DEF JobStatus
  <2>4. UNCHANGED <<runs, request, validated, owed>>
    BY DEF ClaimQueued, history
  <2>5. OnlyJob(j)
    BY <2>3, <2>4 DEF OnlyJob
  <2>6. LatestStatus(j)' = LatestStatus(j) /\ LatestMeta(j)' = LatestMeta(j)
    BY <2>4 DEF LatestStatus, LatestMeta
  <2>7. worker'[w].job = j /\ worker'[w].pc = "checkout" /\ worker'[w].meta = {}
    BY <1>3 DEF LoopTop, Inv, TypeOK
  <2>8. AttendedAs("checkout", {}, "CLAIMED", LatestStatus(j), LatestMeta(j),
                   validated[j], owed[j])
    BY <2>2 DEF AttendedAs, ClaimLabels, SetupLabels, CodexLabels, StartLabels, PushLabels,
                InspectLabels
  <2>9. Attended(w, j)'
    BY <2>3, <2>4, <2>6, <2>7, <2>8 DEF Attended, HoldsLatest
  <2>10. InOrder(LatestMeta(j)', validated'[j])
    BY <2>1, <2>4, <2>6
  <2> QED
    BY <2>1, <2>4, <2>5, <2>7, <2>9, <2>10, OneJobMoves
<1> QED
  BY <1>2, <1>3 DEF ClaimQueued

LEMMA CreateJobRunRows ==
  ASSUME TakingTurns, Inv, RowsInv, AllIdle, NEW w \in Workers, CreateJobRun(w)
  PROVE  RowsInv'
<1>1. worker[w].pc = "createRun" /\ worker[w].pc \notin ClaimLabels
  BY DEF CreateJobRun, At, ClaimLabels
<1>2. PICK j \in Jobs, held \in SUBSET MetaKeys :
        /\ worker[w].job = j /\ worker[w].meta = held
        /\ AttendedAs(worker[w].pc, held, jobs[j].status, LatestStatus(j),
                      LatestMeta(j), validated[j], owed[j])
  BY <1>1, Attending
<1>3. jobs[j].status = "RUNNING" /\ ~owed[j]
  BY <1>1, <1>2 DEF AttendedAs, SetupLabels, StartLabels
<1>4. /\ runs' = [runs EXCEPT ![j] = Append(@, [status |-> "STARTED", meta |-> {}])]
      /\ worker' = [worker EXCEPT ![w].pc = "prepare", ![w].run = Len(runs[j]) + 1]
      /\ UNCHANGED <<jobs, request, validated, owed>>
  BY <1>2 DEF CreateJobRun, history
<1>5. /\ runs'[j] # <<>> /\ Len(runs'[j]) = Len(runs[j]) + 1
      /\ LatestStatus(j)' = "STARTED" /\ LatestMeta(j)' = {}
      /\ \A k \in Jobs \ {j} : runs'[k] = runs[k]
  <2>1. "STARTED" \in RunStatus /\ {} \in SUBSET MetaKeys
    BY DEF RunStatus
  <2> QED
    BY <1>4, <2>1, LatestAppended
<1>6. /\ worker'[w].pc = "prepare" /\ worker'[w].job = j
      /\ worker'[w].run = Len(runs[j]) + 1 /\ worker'[w].meta = held
  BY <1>2, <1>4 DEF Inv, TypeOK, WorkerState
<1>7. OnlyJob(j)
  BY <1>4, <1>5 DEF OnlyJob
<1>8. AttendedAs("prepare", held, "RUNNING", "STARTED", {}, validated[j], owed[j])
  BY <1>3 DEF AttendedAs, ClaimLabels, SetupLabels, CodexLabels, StartLabels, PushLabels,
              InspectLabels
<1>9. AttendedAs(worker'[w].pc, worker'[w].meta, jobs'[j].status, LatestStatus(j)',
                 LatestMeta(j)', validated'[j], owed'[j])
  BY <1>3, <1>4, <1>5, <1>6, <1>8
<1>10. HoldsLatest(w, j)'
  BY <1>5, <1>6 DEF HoldsLatest
<1>11. Attended(w, j)'
  BY <1>9, <1>10 DEF Attended
<1>12. InOrder(LatestMeta(j)', validated'[j])
  BY <1>5 DEF InOrder
<1> QED
  BY <1>2, <1>4, <1>6, <1>7, <1>11, <1>12, OneJobMoves

LEMMA SetupStageRows ==
  ASSUME TakingTurns, Inv, RowsInv, AllIdle, NEW w \in Workers, SetupStage(w)
  PROVE  RowsInv'
<1> USE DEF At
<1>1. CASE CheckoutFails(w) \/ CheckoutValid(w) \/ PrepareFails(w) \/ PrepareSucceeds(w)
             \/ MarkRunReady(w) \/ MarkJobReady(w)
  <2>1. worker[w].pc \in SetupLabels /\ worker[w].pc \notin ClaimLabels
    BY <1>1 DEF CheckoutFails, CheckoutValid, PrepareFails, PrepareSucceeds, MarkRunReady,
                MarkJobReady, SetupLabels, ClaimLabels
  <2>2. PICK j \in Jobs, held \in SUBSET MetaKeys :
          /\ worker[w].job = j /\ worker[w].meta = held
          /\ AttendedAs(worker[w].pc, held, jobs[j].status, LatestStatus(j),
                        LatestMeta(j), validated[j], owed[j])
          /\ InOrder(LatestMeta(j), validated[j])
    BY <2>1, Attending
  <2>3. /\ worker[w].pc # "checkout" => jobs[j].status = "RUNNING"
        /\ ~owed[j]
    BY <2>1, <2>2 DEF AttendedAs, SetupLabels, StartLabels
  <2>4. /\ {"FAILED", "READY_FOR_CODEX"} \subseteq RunStatus
        /\ {"BLOCKED", "RUNNING", "READY_FOR_CODEX"} \subseteq JobStatus
        /\ {} \in SUBSET MetaKeys /\ {"worktree"} \in SUBSET MetaKeys
    BY DEF RunStatus, JobStatus, MetaKeys
  <2>5. InOrder({}, validated[j]) /\ InOrder({"worktree"}, validated[j])
    BY DEF InOrder
  <2> USE DEF AttendedAs, ClaimLabels, SetupLabels, CodexLabels, StartLabels, PushLabels,
              InspectLabels
  <2>6. CASE CheckoutFails(w)
    <3>1. SettledAs("BLOCKED", LatestStatus(j), LatestMeta(j), validated[j], owed[j])
      BY <2>2, <2>3, <2>6
         DEF CheckoutFails, SettledAs, InFlight, WaitingStatus, CodexStatus, ReviewStatus
    <3> HIDE DEF AttendedAs
    <3> QED
      BY <2>2, <2>4, <2>6, <3>1, WritesJob DEF CheckoutFails, history
  <2>7. CASE CheckoutValid(w)
    <3>1. AttendedAs("createRun", held, "RUNNING", LatestStatus(j), LatestMeta(j),
                     validated[j], owed[j])
      BY <2>3
    <3> HIDE DEF AttendedAs
    <3> QED
      BY <2>2, <2>4, <2>7, <3>1, WritesJob DEF CheckoutValid, history
  <2>8. CASE PrepareFails(w)
    <3>1. MarkRun(w, "FAILED", {})
      BY <2>2, <2>8, HeldRunIsLatest DEF PrepareFails
    <3>2. AttendedAs("block", held, jobs[j].status, "FAILED", {}, validated[j], owed[j])
      BY <2>3, <2>8 DEF PrepareFails
    <3> HIDE DEF AttendedAs
    <3> QED
      BY <2>2, <2>4, <2>5, <2>8, <3>1, <3>2, WritesRun DEF PrepareFails, history
  <2>9. CASE PrepareSucceeds(w)
    <3>1. MarkRun(w, LatestStatus(j), {"worktree"}) /\ LatestStatus(j) \in RunStatus
      BY <2>2, <2>9, HeldRunIsLatest DEF PrepareSucceeds
    <3>2. AttendedAs("readyRun", held, jobs[j].status, LatestStatus(j), {"worktree"},
                     validated[j], owed[j])
      BY <2>3, <2>9 DEF PrepareSucceeds
    <3> HIDE DEF AttendedAs
    <3> QED
      BY <2>2, <2>4, <2>5, <2>9, <3>1, <3>2, WritesRun DEF PrepareSucceeds, history
  <2>10. CASE MarkRunReady(w)
    <3>1. MarkRun(w, "READY_FOR_CODEX", {"worktree"})
      BY <2>2, <2>10, HeldRunIsLatest DEF MarkRunReady
    <3>2. AttendedAs("readyJob", held, jobs[j].status, "READY_FOR_CODEX", {"worktree"},
                     validated[j], owed[j])
      BY <2>3, <2>10 DEF MarkRunReady
    <3> HIDE DEF AttendedAs
    <3> QED
      BY <2>2, <2>4, <2>5, <2>10, <3>1, <3>2, WritesRun DEF MarkRunReady, history
  <2>11. CASE MarkJobReady(w)
    <3>1. SettledAs("READY_FOR_CODEX", LatestStatus(j), LatestMeta(j), validated[j], owed[j])
      BY <2>2, <2>3, <2>11
         DEF MarkJobReady, SettledAs, Ready, LateKeys, InFlight, WaitingStatus, CodexStatus,
             ReviewStatus
    <3> HIDE DEF AttendedAs
    <3> QED
      BY <2>2, <2>4, <2>11, <3>1, WritesJob DEF MarkJobReady, history
  <2> QED
    BY <1>1, <2>6, <2>7, <2>8, <2>9, <2>10, <2>11
<1> QED
  BY <1>1, ClaimQueuedRows, CreateJobRunRows DEF SetupStage

LEMMA BlockRows ==
  ASSUME TakingTurns, Inv, RowsInv, AllIdle, NEW w \in Workers, Block(w) \/ FailRun(w)
  PROVE  RowsInv'
<1>1. worker[w].pc \in {"block", "failRun"} /\ worker[w].pc \notin ClaimLabels
  BY DEF Block, FailRun, At, ClaimLabels
<1>2. PICK j \in Jobs, held \in SUBSET MetaKeys :
        /\ worker[w].job = j /\ worker[w].meta = held
        /\ AttendedAs(worker[w].pc, held, jobs[j].status, LatestStatus(j),
                      LatestMeta(j), validated[j], owed[j])
        /\ InOrder(LatestMeta(j), validated[j])
  BY <1>1, Attending
<1>3. worker[w].pc = "block" /\ LatestStatus(j) = "FAILED" /\ ~owed[j]
  BY <1>1, <1>2 DEF AttendedAs, StartLabels
<1>4. SettledAs("BLOCKED", LatestStatus(j), LatestMeta(j), validated[j], owed[j])
  BY <1>3 DEF SettledAs, InFlight, WaitingStatus, CodexStatus, ReviewStatus
<1>5. Block(w) /\ "BLOCKED" \in JobStatus
  BY <1>3 DEF FailRun, At, JobStatus
<1> QED
  BY <1>2, <1>3, <1>4, <1>5, WritesJob DEF Block, history

\* What a killed worker leaves behind is what the rows may say while no worker has the
\* job: it is the promise to move the job on that is lost.
LEMMA LeftBehind ==
  ASSUME Crashes, NEW pc \in Labels, NEW held, NEW status, NEW run, NEW meta,
         NEW passed \in BOOLEAN, NEW owes \in BOOLEAN,
         AttendedAs(pc, held, status, run, meta, passed, owes)
  PROVE  SettledAs(status, run, meta, passed, owes)
<1> USE DEF AttendedAs, SettledAs, InFlight, WaitingStatus, CodexStatus, ReviewStatus,
            ClaimLabels, SetupLabels, CodexLabels, StartLabels, PushLabels, InspectLabels
<1>1. CASE pc \in SetupLabels \cup CodexLabels
  BY <1>1
<1>2. CASE pc \in {"validate", "validationRun"}
  BY <1>2
<1>3. CASE pc \in PushLabels
  BY <1>3
<1>4. CASE pc \in InspectLabels \cup {"complete"}
  BY <1>4
<1>5. CASE pc = "block"
  BY <1>5
<1> QED
  BY <1>1, <1>2, <1>3, <1>4, <1>5 DEF Labels, OtherLabels

LEMMA CrashRows ==
  ASSUME TakingTurns, Inv, RowsInv, AllIdle, NEW w \in Workers, Crash(w)
  PROVE  RowsInv'
<1>1. NextIteration(w) /\ UNCHANGED <<jobs, runs, request, validated, owed>> /\ Crashes
  BY DEF Crash, history
<1>2. CASE worker[w].job = None
  BY <1>1, <1>2, FindsNothing DEF RowsInv
<1>3. ASSUME NEW j \in Jobs, worker[w].job = j
      PROVE  RowsInv'
  <2>1. OnlyJob(j)
    BY <1>1 DEF OnlyJob
  <2>2. /\ AttendedAs(worker[w].pc, worker[w].meta, jobs[j].status, LatestStatus(j),
                      LatestMeta(j), validated[j], owed[j])
        /\ InOrder(LatestMeta(j), validated[j])
    BY <1>3, AttendedFacts DEF Attended
  <2>3. worker[w].pc \in Labels /\ validated[j] \in BOOLEAN /\ owed[j] \in BOOLEAN
    BY DEF Inv, TypeOK, WorkerState
  <2>4. SettledAs(jobs[j].status, LatestStatus(j), LatestMeta(j), validated[j], owed[j])
    BY <1>1, <2>2, <2>3, LeftBehind
  <2>5. LatestStatus(j)' = LatestStatus(j) /\ LatestMeta(j)' = LatestMeta(j)
    BY <1>1 DEF LatestStatus, LatestMeta
  <2>6. InOrder(LatestMeta(j)', validated'[j])
        /\ SettledAs(jobs'[j].status, LatestStatus(j)', LatestMeta(j)',
                     validated'[j], owed'[j])
    BY <1>1, <2>2, <2>4, <2>5
  <2> QED
    BY <1>1, <1>3, <2>1, <2>6, LeavesIt
<1> QED
  BY <1>2, <1>3 DEF Inv, TypeOK, WorkerState

LEMMA WorkerRows ==
  ASSUME TakingTurns, Inv, RowsInv, AllIdle, NEW w \in Workers, WorkerStep(w) \/ Crash(w)
  PROVE  RowsInv'
BY CodexStageRows, ValidationStageRows, PushStageRows, LifecycleStageRows, SetupStageRows,
   BlockRows, CrashRows DEF WorkerStep
------------------------------------------------------------------------------
(* The routes. *)

\* A job that a worker has is in one of these statuses, and in REVIEW only until the
\* run is marked as well.
LEMMA AttendedStatus ==
  ASSUME Inv, RowsInv, NEW w \in Workers, NEW j \in Jobs, worker[w].job = j
  PROVE  /\ jobs[j].status \in {"CLAIMED", "RUNNING", "VALIDATING", "REVIEW", "PR_APPROVED",
                                "PR_CREATED", "COMPLETED"}
         /\ jobs[j].status = "REVIEW" => worker[w].pc = "validationRun"
<1>1. AttendedAs(worker[w].pc, worker[w].meta, jobs[j].status, LatestStatus(j),
                 LatestMeta(j), validated[j], owed[j])
  BY AttendedFacts DEF Attended
<1>2. worker[w].pc \in Labels
  BY DEF Inv, TypeOK, WorkerState
<1> QED
  BY <1>1, <1>2
     DEF AttendedAs, Labels, ClaimLabels, SetupLabels, CodexLabels, OtherLabels, StartLabels,
         PushLabels, InspectLabels, ReviewStatus

\* A route's write to one job, after which no request is in progress.
LEMMA RouteWritesJob ==
  ASSUME RowsInv, NEW j \in Jobs, OnlyJob(j), UNCHANGED worker, AllIdle',
         InOrder(LatestMeta(j)', validated'[j]),
         Unattended(j) => Settled(j)',
         \A w \in Workers : worker[w].job = j => Attended(w, j)'
  PROVE  RowsInv'
<1>1. \A k \in Jobs \ {j} : /\ jobs'[k] = jobs[k] /\ runs'[k] = runs[k]
                            /\ LatestStatus(k)' = LatestStatus(k)
                            /\ LatestMeta(k)' = LatestMeta(k)
                            /\ validated'[k] = validated[k] /\ owed'[k] = owed[k]
  BY DEF OnlyJob, LatestStatus, LatestMeta
<1>2. \A k \in Jobs : InOrder(LatestMeta(k), validated[k])'
  <2>1. ASSUME NEW k \in Jobs \ {j} PROVE InOrder(LatestMeta(k)', validated'[k])
    BY <1>1 DEF RowsInv
  <2> QED
    BY <2>1
<1>3. \A k \in Jobs : Unattended(k)' => Settled(k)'
  <2>1. ASSUME NEW k \in Jobs \ {j}, Unattended(k) PROVE Settled(k)'
    BY <1>1, <2>1 DEF RowsInv, Settled
  <2> QED
    BY <2>1 DEF Unattended
<1>4. \A w \in Workers : worker'[w].job = None => worker'[w].pc \in ClaimLabels
  BY DEF RowsInv
<1>5. \A w \in Workers, k \in Jobs : worker'[w].job = k => Attended(w, k)'
  <2>1. ASSUME NEW w \in Workers, NEW k \in Jobs \ {j}, worker[w].job = k
        PROVE  Attended(w, k)'
    BY <1>1, <2>1 DEF RowsInv, Attended, HoldsLatest
  <2> QED
    BY <2>1
<1> QED
  BY <1>2, <1>3, <1>4, <1>5 DEF RowsInv, AllIdle

\* The three approvals and cancellations that are guarded in the update itself.
LEMMA GuardedRows ==
  ASSUME TakingTurns, Inv, RowsInv, AllIdle, NEW j \in Jobs,
         Cancel(j) \/ ApproveCodex(j) \/ ApprovePr(j)
  PROVE  RowsInv'
<1>1. PICK status \in JobStatus :
        /\ SetJob(j, status)
        /\ \/ jobs[j].status \in Cancelable /\ status = "CANCELED"
           \/ jobs[j].status = "READY_FOR_CODEX" /\ status = "CODEX_APPROVED"
           \/ jobs[j].status = "REVIEW" /\ status = "PR_APPROVED"
  BY DEF Cancel, ApproveCodex, ApprovePr, JobStatus
<1>2. UNCHANGED <<runs, worker, request, validated, owed>>
  BY DEF Cancel, ApproveCodex, ApprovePr, history
<1>3. jobs'[j].status = status /\ \A k \in Jobs \ {j} : jobs'[k] = jobs[k]
  BY <1>1, SetJobRow
<1>4. OnlyJob(j)
  BY <1>2, <1>3 DEF OnlyJob
<1>5. LatestStatus(j)' = LatestStatus(j) /\ LatestMeta(j)' = LatestMeta(j)
  BY <1>2 DEF LatestStatus, LatestMeta
<1>6. ASSUME Unattended(j) PROVE Settled(j)'
  <2>1. SettledAs(jobs[j].status, LatestStatus(j), LatestMeta(j), validated[j], owed[j])
    BY <1>6 DEF RowsInv, Settled
  <2>2. SettledAs(status, LatestStatus(j), LatestMeta(j), validated[j], owed[j])
    BY <1>1, <2>1
       DEF SettledAs, Cancelable, InFlight, WaitingStatus, CodexStatus, ReviewStatus
  <2> QED
    BY <1>2, <1>3, <1>5, <2>2 DEF Settled
<1>7. ASSUME NEW w \in Workers, worker[w].job = j PROVE Attended(w, j)'
  <2>1. worker[w].pc = "validationRun" /\ status = "PR_APPROVED"
    BY <1>1, <1>7, AttendedStatus DEF Cancelable
  <2>2. HoldsLatest(w, j) /\ AttendedAs(worker[w].pc, worker[w].meta, jobs[j].status,
                             LatestStatus(j), LatestMeta(j), validated[j], owed[j])
    BY <1>7, AttendedFacts DEF Attended
  <2>3. AttendedAs(worker[w].pc, worker[w].meta, status, LatestStatus(j), LatestMeta(j),
                   validated[j], owed[j])
    BY <2>1, <2>2
       DEF AttendedAs, SetupLabels, CodexLabels, StartLabels, PushLabels, InspectLabels,
           ReviewStatus
  <2>4. HoldsLatest(w, j)'
    BY <1>2, <2>2 DEF HoldsLatest
  <2> QED
    BY <1>2, <1>3, <1>5, <2>3, <2>4 DEF Attended
<1>8. AllIdle'
  BY <1>2 DEF AllIdle, Idle
<1>9. InOrder(LatestMeta(j)', validated'[j])
  BY <1>2, <1>5 DEF RowsInv
<1> QED
  BY <1>2, <1>4, <1>6, <1>7, <1>8, <1>9, RouteWritesJob

\* A handler begins with what it has just read of a job that nobody is working on.
LEMMA BeginRows ==
  ASSUME TakingTurns, Inv, RowsInv, AllIdle, NEW r \in Requests, NEW j \in Jobs,
         NEW route \in RouteNames, NEW target, NEW feedback, NEW meta,
         Begin(r, route, j, target, feedback, meta),
         route = "approveReview" => jobs[j].status = "NEEDS_REVIEW",
         route = "requeue" => jobs[j].status \in Retryable,
         route = "retryStage" =>
           /\ jobs[j].status \in StageRetryable /\ runs[j] # <<>> /\ target # "DRAFT"
           /\ target = RetryTarget(jobs[j].status, LatestMeta(j), feedback)
           /\ meta = RetryMeta(LatestMeta(j), feedback)
  PROVE  RowsInv'
<1>1. /\ request'[r].route = route /\ request'[r].job = j
      /\ request'[r].run = Len(runs[j]) /\ request'[r].meta = meta
      /\ request'[r].target = target /\ request'[r].feedback = feedback
      /\ \A q \in Requests \ {r} : request'[q] = request[q]
  BY DEF Begin, Inv, TypeOK
<1>2. UNCHANGED <<jobs, runs, worker, validated, owed>> /\ Unattended(j)
  BY DEF Begin, TakingTurns, history
<1>3. Current(r)'
  BY <1>1, <1>2, JobPipelineAssumption DEF Current, Unattended, LatestMeta
<1>4. \A q \in Requests \ {r} : Idle(q)'
  BY <1>1 DEF AllIdle, Idle
<1>5. /\ \A k \in Jobs : InOrder(LatestMeta(k), validated[k])'
      /\ \A k \in Jobs : Unattended(k)' => Settled(k)'
      /\ \A w \in Workers : worker'[w].job = None => worker'[w].pc \in ClaimLabels
      /\ \A w \in Workers, k \in Jobs : worker'[w].job = k => Attended(w, k)'
  BY <1>2
     DEF RowsInv, Unattended, Settled, Attended, HoldsLatest, LatestStatus, LatestMeta
<1> QED
  BY <1>3, <1>4, <1>5 DEF RowsInv

LEMMA ReadsRows ==
  ASSUME TakingTurns, Inv, RowsInv, AllIdle, NEW r \in Requests, RouteReads(r)
  PROVE  RowsInv'
<1>1. PICK j \in Jobs :
        \/ ReadForApproval(r, j) \/ ReadForRequeue(r, j)
        \/ \E feedback \in BOOLEAN : ReadForRetryStage(r, j, feedback)
  BY DEF RouteReads
<1>2. CASE ReadForApproval(r, j)
  BY <1>2, BeginRows DEF ReadForApproval, RouteNames
<1>3. CASE ReadForRequeue(r, j)
  BY <1>3, BeginRows DEF ReadForRequeue, RouteNames
<1>4. ASSUME NEW feedback \in BOOLEAN, ReadForRetryStage(r, j, feedback)
      PROVE  RowsInv'
  <2>1. PICK target : target = RetryTarget(jobs[j].status, LatestMeta(j), feedback)
    OBVIOUS
  <2>2. PICK meta : meta = RetryMeta(LatestMeta(j), feedback)
    OBVIOUS
  <2>3. /\ jobs[j].status \in StageRetryable /\ runs[j] # <<>> /\ target # "DRAFT"
        /\ Begin(r, "retryStage", j, target, feedback, meta)
    BY <1>4, <2>1, <2>2 DEF ReadForRetryStage
  <2> QED
    BY <2>1, <2>2, <2>3, BeginRows DEF RouteNames
<1> QED
  BY <1>1, <1>2, <1>3, <1>4

\* The stage that retry-stage returns a job to can go on from what it leaves there.
LEMMA RetrySettles ==
  ASSUME NEW status \in StageRetryable, NEW meta \in SUBSET MetaKeys,
         NEW passed \in BOOLEAN, NEW feedback \in BOOLEAN, InOrder(meta, passed),
         status \in ReviewStatus => "codex" \in meta /\ passed,
         status \in ReviewStatus /\ ~Crashes => "validation" \in meta,
         NEW target, target = RetryTarget(status, meta, feedback), target # "DRAFT",
         NEW kept, kept = RetryMeta(meta, feedback),
         NEW run, run = RetriedRunStatus(target),
         NEW owes, owes => feedback /\ target = "READY_FOR_CODEX"
  PROVE  /\ InOrder(kept, passed) /\ kept \in SUBSET MetaKeys /\ run \in RunStatus
         /\ SettledAs(target, run, kept, passed, owes)
<1> USE DEF RetryTarget, RetriedRunStatus, RetryMeta, InOrder, SettledAs, Ready, LateKeys,
            InFlight, WaitingStatus, CodexStatus, ReviewStatus, MetaKeys, RunStatus
<1>1. CASE feedback /\ meta \cap {"codex", "worktree"} # {}
  <2>1. target = "READY_FOR_CODEX" /\ run = "READY_FOR_CODEX"
        /\ kept = (meta \ LateKeys) \cup {"retryFeedback"} /\ "worktree" \in kept
    BY <1>1
  <2> QED
    BY <2>1
<1>2. CASE ~(feedback /\ meta \cap {"codex", "worktree"} # {})
  <2>1. ~feedback /\ kept = meta /\ ~owes
    BY <1>2
  <2>2. CASE "pullRequest" \in meta \/ status \in {"REVIEW", "PR_APPROVED"}
    <3>1. target = "REVIEW" /\ run = "SUCCEEDED"
      BY <2>1, <2>2
    <3> QED
      BY <2>1, <2>2, <3>1
  <2>3. CASE ~("pullRequest" \in meta \/ status \in {"REVIEW", "PR_APPROVED"})
             /\ "validation" \in meta
    <3>1. target = "VALIDATING" /\ run = "VALIDATING"
      BY <2>1, <2>3
    <3> QED
      BY <2>1, <2>3, <3>1
  <2>4. CASE ~("pullRequest" \in meta \/ status \in {"REVIEW", "PR_APPROVED"})
             /\ "validation" \notin meta
    <3>1. target = "READY_FOR_CODEX" /\ run = "READY_FOR_CODEX" /\ "worktree" \in meta
      BY <2>1, <2>4
    <3> QED
      BY <2>1, <2>4, <3>1
  <2> QED
    BY <2>2, <2>3, <2>4
<1> QED
  BY <1>1, <1>2

LEMMA WritesRows ==
  ASSUME TakingTurns, Inv, RowsInv, NEW r \in Requests, RouteWrites(r)
  PROVE  RowsInv'
<1>1. PICK j \in Jobs : j = request[r].job
  BY JobPipelineAssumption
     DEF RouteWrites, ApproveReview, Requeue, RetryStage, RouteNames, Inv, RequestsHold
<1>2. ~Idle(r)
  BY JobPipelineAssumption
     DEF RouteWrites, ApproveReview, Requeue, RetryStage, RouteNames, Idle, NoRequest
<1>3. Current(r) /\ \A q \in Requests \ {r} : Idle(q)
  BY <1>2 DEF RowsInv
<1>4. /\ Unattended(j) /\ InOrder(LatestMeta(j), validated[j])
      /\ SettledAs(jobs[j].status, LatestStatus(j), LatestMeta(j), validated[j], owed[j])
  BY <1>1, <1>3 DEF Current, RowsInv, Settled
<1>5. UNCHANGED <<worker, validated>> /\ Reply(r)
  BY DEF RouteWrites, ApproveReview, Requeue, RetryStage, history
<1>6. AllIdle'
  BY <1>3, <1>5 DEF Reply, AllIdle, Idle, Inv, TypeOK
<1>7. \A w \in Workers : worker[w].job # j
  BY <1>4 DEF Unattended
<1>8. CASE ApproveReview(r) \/ Requeue(r)
  <2>1. /\ SetJob(j, "QUEUED") /\ UNCHANGED runs
        /\ jobs[j].status \in WaitingStatus
    BY <1>1, <1>3, <1>8
       DEF ApproveReview, Requeue, Current, WaitingStatus, Retryable
  <2>2. \A k \in Jobs : owed'[k] = owed[k] \/ (k = j /\ owed'[k] = FALSE)
    BY <1>1, <1>8 DEF ApproveReview, Requeue, history, Inv, TypeOK
  <2>3. jobs'[j].status = "QUEUED" /\ \A k \in Jobs \ {j} : jobs'[k] = jobs[k]
    BY <2>1, SetJobRow DEF JobStatus
  <2>4. OnlyJob(j) /\ ~owed'[j]
    BY <1>4, <1>5, <2>1, <2>2, <2>3 DEF OnlyJob, SettledAs, WaitingStatus, CodexStatus, InFlight
  <2>5. LatestStatus(j)' = LatestStatus(j) /\ LatestMeta(j)' = LatestMeta(j)
    BY <2>1 DEF LatestStatus, LatestMeta
  <2>6. SettledAs("QUEUED", LatestStatus(j), LatestMeta(j), validated[j], owed'[j])
    BY <1>4, <2>1, <2>4
       DEF SettledAs, InFlight, WaitingStatus, CodexStatus, ReviewStatus
  <2>7. Settled(j)' /\ InOrder(LatestMeta(j)', validated'[j])
    BY <1>4, <1>5, <2>3, <2>5, <2>6 DEF Settled
  <2> QED
    BY <1>5, <1>6, <1>7, <2>4, <2>7, RouteWritesJob
<1>9. CASE RetryStage(r)
  <2>1. PICK target \in JobStatus, kept \in SUBSET MetaKeys, feedback \in BOOLEAN :
          /\ target = request[r].target /\ kept = request[r].meta
          /\ feedback = request[r].feedback
    BY DEF Inv, TypeOK
  <2>2. PICK run : run = RetriedRunStatus(target)
    OBVIOUS
  <2>3. /\ jobs[j].status \in StageRetryable
        /\ runs[j] # <<>> /\ request[r].run = Len(runs[j])
        /\ target = RetryTarget(jobs[j].status, LatestMeta(j), feedback)
        /\ target # "DRAFT" /\ kept = RetryMeta(LatestMeta(j), feedback)
    BY <1>1, <1>3, <1>9, <2>1 DEF RetryStage, Current
  <2>4. /\ SetRun(j, Len(runs[j]), run, kept) /\ SetJob(j, target)
        /\ owed' = [owed EXCEPT ![j] =
             @ \/ (feedback /\ target = "READY_FOR_CODEX")]
    BY <1>1, <1>9, <2>1, <2>2, <2>3 DEF RetryStage
  <2>5. /\ ~owed[j]
        /\ jobs[j].status \in ReviewStatus => "codex" \in LatestMeta(j) /\ validated[j]
        /\ jobs[j].status \in ReviewStatus /\ ~Crashes => "validation" \in LatestMeta(j)
    BY <1>4, <2>3 DEF SettledAs, CodexStatus, InFlight, StageRetryable, Retryable
  <2>6. PICK owes \in BOOLEAN : owes = (feedback /\ target = "READY_FOR_CODEX")
    OBVIOUS
  <2>7. owed'[j] = owes /\ \A k \in Jobs \ {j} : owed'[k] = owed[k]
    BY <2>4, <2>5, <2>6 DEF Inv, TypeOK
  <2>8. /\ InOrder(kept, validated[j]) /\ run \in RunStatus
        /\ SettledAs(target, run, kept, validated[j], owes)
    <3>1. PICK meta \in SUBSET MetaKeys, passed \in BOOLEAN :
            meta = LatestMeta(j) /\ passed = validated[j]
      BY LatestTyped DEF Inv, TypeOK
    <3>2. PICK status \in StageRetryable : status = jobs[j].status
      BY <2>3
    <3>3. /\ InOrder(meta, passed)
          /\ status \in ReviewStatus => "codex" \in meta /\ passed
          /\ status \in ReviewStatus /\ ~Crashes => "validation" \in meta
          /\ target = RetryTarget(status, meta, feedback) /\ target # "DRAFT"
          /\ kept = RetryMeta(meta, feedback)
          /\ run = RetriedRunStatus(target)
          /\ owes => feedback /\ target = "READY_FOR_CODEX"
      BY <1>4, <2>2, <2>3, <2>5, <2>6, <3>1, <3>2
    <3>4. /\ InOrder(kept, passed) /\ run \in RunStatus
          /\ SettledAs(target, run, kept, passed, owes)
      BY <3>3, RetrySettles
    <3> QED
      BY <3>1, <3>4
  <2>9. jobs'[j].status = target /\ \A k \in Jobs \ {j} : jobs'[k] = jobs[k]
    BY <2>4, SetJobRow
  <2>10. /\ LatestStatus(j)' = run /\ LatestMeta(j)' = kept
         /\ \A k \in Jobs \ {j} : runs'[k] = runs[k]
    BY <2>3, <2>4, <2>8, LatestWritten
  <2>11. OnlyJob(j)
    BY <1>5, <2>7, <2>9, <2>10 DEF OnlyJob
  <2>12. Settled(j)' /\ InOrder(LatestMeta(j)', validated'[j])
    BY <1>5, <2>7, <2>8, <2>9, <2>10 DEF Settled
  <2> QED
    BY <1>5, <1>6, <1>7, <2>11, <2>12, RouteWritesJob
<1> QED
  BY <1>8, <1>9 DEF RouteWrites
------------------------------------------------------------------------------
(* The invariant, and what it implies. *)

LEMMA RowsInitial ==
  ASSUME Init
  PROVE  RowsInv
<1>1. \A j \in Jobs : LatestStatus(j) = "none" /\ LatestMeta(j) = {}
  BY DEF Init, LatestStatus, LatestMeta
<1>2. \A j \in Jobs : jobs[j].status = "NEEDS_REVIEW" /\ owed[j] = FALSE
  BY DEF Init
<1>3. \A j \in Jobs : InOrder(LatestMeta(j), validated[j]) /\ Settled(j)
  BY <1>1, <1>2
     DEF InOrder, Settled, SettledAs, InFlight, WaitingStatus, CodexStatus, ReviewStatus
<1>4. \A w \in Workers : worker[w].job = None /\ worker[w].pc \in ClaimLabels
  BY DEF Init, LoopTop, ClaimLabels
<1>5. \A r \in Requests : Idle(r)
  BY DEF Init, Idle
<1> QED
  BY <1>3, <1>4, <1>5, JobPipelineAssumption DEF RowsInv

LEMMA RowsUnchanged ==
  ASSUME RowsInv, UNCHANGED <<jobs, runs, worker, request, validated, owed>>
  PROVE  RowsInv'
BY DEF RowsInv, Settled, Attended, HoldsLatest, LatestStatus, LatestMeta, Unattended, Idle,
       Current

LEMMA RowsStep ==
  ASSUME TakingTurns, Inv, RowsInv, [Next]_vars
  PROVE  RowsInv'
<1>1. CASE UNCHANGED vars
  BY <1>1, RowsUnchanged DEF vars, history
<1>2. CASE \E r \in Requests : RouteWrites(r)
  BY <1>2, WritesRows
<1>3. ASSUME MayInterleave,
             \/ \E w \in Workers : WorkerStep(w) \/ Crash(w)
             \/ \E r \in Requests : RouteReads(r)
             \/ \E j \in Jobs : Cancel(j) \/ ApproveCodex(j) \/ ApprovePr(j)
             \/ \E j \in Jobs, state \in PrState : ResolvePr(j, state)
             \/ \E p \in BOOLEAN : SetPaused(p)
      PROVE  RowsInv'
  <2>1. AllIdle
    BY <1>3 DEF MayInterleave, TakingTurns, AllIdle
  <2>2. CASE \/ \E j \in Jobs, state \in PrState : ResolvePr(j, state)
             \/ \E p \in BOOLEAN : SetPaused(p)
    BY <2>2, RowsUnchanged DEF ResolvePr, SetPaused, history
  <2> QED
    BY <1>3, <2>1, <2>2, WorkerRows, ReadsRows, GuardedRows
<1> QED
  BY <1>1, <1>2, <1>3 DEF Next

THEOREM RowsInvariant ==
  ASSUME TakingTurns
  PROVE  Spec => []RowsInv
BY Invariant, RowsInitial, RowsStep, PTL DEF Spec

\* With one worker that is not killed, and routes that take turns with it: whenever
\* nobody works on a job, its row and its latest run tell the same story.
THEOREM RowsAlwaysAgree ==
  ASSUME TakingTurns, ~Crashes
  PROVE  Spec => []RowsAgree
<1>1. Inv /\ RowsInv => RowsAgree
  <2> SUFFICES ASSUME Inv, RowsInv, NEW j \in Jobs, Unattended(j)
               PROVE  RunAgrees(j)
    BY DEF RowsAgree
  <2>1. /\ SettledAs(jobs[j].status, LatestStatus(j), LatestMeta(j), validated[j], owed[j])
        /\ InOrder(LatestMeta(j), validated[j])
    BY DEF RowsInv, Settled
  <2>2. CASE runs[j] = <<>>
    <3>1. LatestStatus(j) = "none"
      BY <2>2 DEF LatestStatus
    <3> QED
      BY <2>1, <2>2, <3>1
         DEF RunAgrees, SettledAs, Ready, CodexStatus, ReviewStatus, WaitingStatus
  <2>3. CASE runs[j] # <<>>
    <3>1. PICK run : run = runs[j][Len(runs[j])]
      OBVIOUS
    <3>2. LatestStatus(j) = run.status /\ LatestMeta(j) = run.meta
      BY <2>3, <3>1 DEF LatestStatus, LatestMeta
    <3>3. run.status # "none"
      <4>1. runs[j] \in Seq(RunRow)
        BY DEF Inv, TypeOK
      <4>2. Len(runs[j]) \in 1..Len(runs[j])
        BY <2>3, <4>1, EmptySeq, LenProperties
      <4>3. run \in RunRow
        BY <3>1, <4>1, <4>2, ElementOfSeq
      <4> QED
        BY <4>3 DEF RunRow, RunStatus
    <3>4. PICK status : status = jobs[j].status
      OBVIOUS
    <3>5. /\ status \in CodexStatus =>
               run.status = "READY_FOR_CODEX" /\ "worktree" \in run.meta
          /\ status = "VALIDATING" =>
               run.status = "VALIDATING" /\ {"worktree", "codex"} \subseteq run.meta
          /\ status \in ReviewStatus =>
               run.status = "SUCCEEDED" /\ {"worktree", "codex"} \subseteq run.meta
          /\ status = "PR_CREATED" => run.status = "PR_CREATED" /\ "prUrl" \in run.meta
          /\ status = "COMPLETED" => run.status = "SUCCEEDED"
          /\ status = "BLOCKED" => run.status = "FAILED"
      BY <2>1, <3>2, <3>3, <3>4
         DEF SettledAs, Ready, InOrder, WaitingStatus
    <3>6. CASE status \in CodexStatus
      BY <3>1, <3>4, <3>5, <3>6 DEF RunAgrees, CodexStatus
    <3>7. CASE status \in ReviewStatus
      BY <3>1, <3>4, <3>5, <3>7 DEF RunAgrees, ReviewStatus
    <3>8. CASE status \in {"VALIDATING", "PR_CREATED"}
      BY <3>1, <3>4, <3>5, <3>8 DEF RunAgrees
    <3>9. CASE status \in {"COMPLETED", "BLOCKED"}
      BY <3>1, <3>4, <3>5, <3>9 DEF RunAgrees
    <3>10. CASE status \notin CodexStatus \cup ReviewStatus \cup
                        {"VALIDATING", "PR_CREATED", "COMPLETED", "BLOCKED"}
      BY <3>1, <3>4, <3>10 DEF RunAgrees, CodexStatus, ReviewStatus
    <3> QED
      BY <3>6, <3>7, <3>8, <3>9, <3>10
  <2> QED
    BY <2>2, <2>3
<1> QED
  BY Invariant, RowsInvariant, <1>1, PTL

\* With one worker, killed at any point or not, and routes that take turns with it: what a
\* reviewer is shown has passed validation since Codex last ran, through every retry,
\* approval and failure.
THEOREM ReviewedAlwaysValidated ==
  ASSUME TakingTurns
  PROVE  Spec => []ReviewedIsValidated
<1>1. Inv /\ RowsInv => ReviewedIsValidated
  <2> SUFFICES ASSUME Inv, RowsInv, NEW j \in Jobs, jobs[j].status \in ReviewStatus
               PROVE  validated[j]
    BY DEF ReviewedIsValidated, ReviewStatus
  <2>1. CASE Unattended(j)
    BY <2>1 DEF RowsInv, Settled, SettledAs
  <2>2. ASSUME NEW w \in Workers, worker[w].job = j
        PROVE  validated[j]
    <3>1. AttendedAs(worker[w].pc, worker[w].meta, jobs[j].status, LatestStatus(j),
                     LatestMeta(j), validated[j], owed[j])
      BY <2>2, AttendedFacts DEF Attended
    <3>2. worker[w].pc \in Labels
      BY DEF Inv, TypeOK, WorkerState
    <3> QED
      BY <3>1, <3>2
         DEF AttendedAs, Labels, ClaimLabels, SetupLabels, CodexLabels, OtherLabels,
             StartLabels, PushLabels, InspectLabels, ReviewStatus
  <2> QED
    BY <2>1, <2>2 DEF Unattended
<1> QED
  BY Invariant, RowsInvariant, <1>1, PTL

\* Likewise, through kills, no stage ever lacks what the stages before it leave in the run,
\* so the branches that block a job for missing metadata are never taken.
THEOREM InputsAlwaysPresent ==
  ASSUME TakingTurns
  PROVE  Spec => []StageInputsPresent
<1>1. Inv /\ RowsInv => StageInputsPresent
  BY NothingMissing DEF StageInputsPresent
<1> QED
  BY Invariant, RowsInvariant, <1>1, PTL

\* Likewise, through kills, feedback that was accepted is in the metadata of the next run
\* that Codex is given, whatever stages and decisions lie in between.
THEOREM FeedbackAlwaysReachesCodex ==
  ASSUME TakingTurns
  PROVE  Spec => []FeedbackReachesCodex
<1>1. Inv /\ RowsInv => FeedbackReachesCodex
  <2> SUFFICES ASSUME Inv, RowsInv, NEW w \in Workers, worker[w].pc = "codexStart",
                      owed[worker[w].job]
               PROVE  "retryFeedback" \in worker[w].meta
    BY DEF FeedbackReachesCodex, At
  <2>1. worker[w].job \in Jobs
    BY Holding DEF ClaimLabels
  <2> QED
    BY <2>1, AttendedFacts DEF Attended, AttendedAs, StartLabels, Ready
<1> QED
  BY Invariant, RowsInvariant, <1>1, PTL
------------------------------------------------------------------------------
(* Ended jobs. *)

Ended == {"CANCELED", "COMPLETED"}
EndsKept == \A j \in Jobs : jobs[j].status \in Ended => jobs'[j].status = jobs[j].status

LEMMA LiveJobWritten ==
  ASSUME Inv, NEW j \in Jobs, jobs[j].status \notin Ended,
         \A k \in Jobs \ {j} : jobs'[k] = jobs[k]
  PROVE  EndsKept
BY DEF EndsKept

LEMMA SetLiveJob ==
  ASSUME Inv, NEW j \in Jobs, jobs[j].status \notin Ended,
         NEW status \in JobStatus, SetJob(j, status)
  PROVE  EndsKept
BY SetJobRow, LiveJobWritten

\* The job of a worker is live until the worker itself has ended it.
LEMMA HeldIsLive ==
  ASSUME Inv, RowsInv, NEW w \in Workers, worker[w].pc \notin ClaimLabels,
         worker[w].pc # "validationRun"
  PROVE  worker[w].job \in Jobs /\ jobs[worker[w].job].status \notin Ended
<1>1. PICK j \in Jobs, held \in SUBSET MetaKeys :
        /\ worker[w].job = j /\ worker[w].meta = held
        /\ AttendedAs(worker[w].pc, held, jobs[j].status, LatestStatus(j),
                      LatestMeta(j), validated[j], owed[j])
  BY Attending
<1>2. worker[w].pc \in Labels
  BY DEF Inv, TypeOK, WorkerState
<1> QED
  BY <1>1, <1>2
     DEF AttendedAs, Labels, ClaimLabels, SetupLabels, CodexLabels, OtherLabels,
         StartLabels, PushLabels, InspectLabels, Ended

LEMMA MarkLiveJob ==
  ASSUME Inv, RowsInv, NEW w \in Workers, worker[w].pc \notin ClaimLabels,
         worker[w].pc # "validationRun", NEW status \in JobStatus, MarkJob(w, status)
  PROVE  EndsKept
BY HeldIsLive, SetLiveJob DEF MarkJob

LEMMA WorkerKeepsEnds ==
  ASSUME Inv, RowsInv, NEW w \in Workers, WorkerStep(w) \/ Crash(w)
  PROVE  EndsKept
<1>1. {"READY_FOR_CODEX", "VALIDATING", "BLOCKED", "REVIEW", "COMPLETED", "PR_CREATED",
       "RUNNING", "CLAIMED"} \subseteq JobStatus
  BY DEF JobStatus
<1>2. CASE SkipCodex(w) \/ MarkValidating(w) \/ Block(w) \/ ValidationPasses(w) \/
           MarkJobPrCreated(w) \/ MarkCompleted(w) \/ CheckoutFails(w) \/
           CheckoutValid(w) \/ MarkJobReady(w)
  <2>1. worker[w].pc \notin ClaimLabels /\ worker[w].pc # "validationRun"
    BY <1>2 DEF SkipCodex, MarkValidating, Block, ValidationPasses, MarkJobPrCreated,
                MarkCompleted, CheckoutFails, CheckoutValid, MarkJobReady, At, ClaimLabels
  <2> QED
    BY <1>1, <1>2, <2>1, MarkLiveJob
       DEF SkipCodex, MarkValidating, Block, ValidationPasses, MarkJobPrCreated,
           MarkCompleted, CheckoutFails, CheckoutValid, MarkJobReady
<1>3. CASE CodexMissing(w) \/ ValidationMissing(w) \/ PushMissing(w) \/ LifecycleMissing(w)
  <2>1. /\ worker[w].pc \notin ClaimLabels /\ worker[w].pc # "validationRun"
        /\ MarkJob(w, "BLOCKED")
    BY <1>3 DEF CodexMissing, ValidationMissing, PushMissing, LifecycleMissing,
                BlockForMissing, At, ClaimLabels
  <2> QED
    BY <1>1, <2>1, MarkLiveJob
<1>4. CASE UNCHANGED jobs
  BY <1>4 DEF EndsKept
<1>5. CASE ClaimCodex(w) \/ ClaimQueued(w)
  BY <1>1, <1>4, <1>5, SetLiveJob DEF ClaimCodex, ClaimQueued, FoundPaused, FoundNone, Ended
<1>6. CASE AutoRetry(w)
  <2>1. worker[w].job \in Jobs
    BY <1>6, Holding DEF AutoRetry, At, ClaimLabels
  <2>2. CASE /\ jobs[worker[w].job].status = "PR_CREATED"
             /\ jobs' = [jobs EXCEPT ![worker[w].job] =
                   [status |-> "CODEX_APPROVED", retries |-> @.retries + 1]]
    BY <2>1, <2>2, LiveJobWritten DEF Ended, Inv, TypeOK
  <2> QED
    BY <1>4, <1>6, <2>2 DEF AutoRetry
<1>7. CASE \/ StartCodex(w) \/ CodexFails(w) \/ CodexSucceeds(w) \/
              ClaimValidating(w) \/ ValidationFails(w) \/ MarkValidated(w) \/
              ClaimReview(w) \/ StartPush(w) \/ PushFails(w) \/
              PushSucceeds(w) \/ MarkRunPrCreated(w) \/ ClaimPrCreated(w) \/
              NoteLifecycle(w) \/ FindMerged(w) \/ FindClosed(w) \/
              FindChecksFailed(w) \/ GiveUpOnChecks(w) \/ CreateJobRun(w) \/
              PrepareFails(w) \/ PrepareSucceeds(w) \/ MarkRunReady(w) \/
              FailRun(w) \/ Crash(w)
  <2>1. UNCHANGED jobs
    BY <1>7
       DEF StartCodex, CodexFails, CodexSucceeds, ClaimValidating, ValidationFails,
           MarkValidated, ClaimReview, StartPush, PushFails, PushSucceeds,
           MarkRunPrCreated, ClaimPrCreated, NoteLifecycle, FindMerged, FindClosed,
           FindChecksFailed, GiveUpOnChecks, CreateJobRun, PrepareFails,
           PrepareSucceeds, MarkRunReady, FailRun, Crash, FoundPaused, FoundNone,
           FoundUnleased
  <2> QED
    BY <1>4, <2>1
<1> QED
  BY <1>2, <1>3, <1>5, <1>6, <1>7
     DEF WorkerStep, CodexStage, ValidationStage, PushStage, LifecycleStage, SetupStage

\* A route ends a job from a status in which nothing has ended it, and what a request
\* that writes later has read is still so.
LEMMA RoutesKeepEnds ==
  ASSUME Inv, RowsInv,
         \/ \E r \in Requests : RouteReads(r) \/ RouteWrites(r)
         \/ \E j \in Jobs : Cancel(j) \/ ApproveCodex(j) \/ ApprovePr(j)
         \/ \E j \in Jobs, state \in PrState : ResolvePr(j, state)
         \/ \E p \in BOOLEAN : SetPaused(p)
  PROVE  EndsKept
<1>1. {"CANCELED", "CODEX_APPROVED", "PR_APPROVED", "QUEUED"} \subseteq JobStatus
  BY DEF JobStatus
<1>2. ASSUME NEW r \in Requests, RouteWrites(r)
      PROVE  EndsKept
  <2>1. PICK j \in Jobs : j = request[r].job
    BY <1>2, JobPipelineAssumption
       DEF RouteWrites, ApproveReview, Requeue, RetryStage, RouteNames, Inv, RequestsHold
  <2>2. ~Idle(r)
    BY <1>2, JobPipelineAssumption
       DEF RouteWrites, ApproveReview, Requeue, RetryStage, RouteNames, Idle, NoRequest
  <2>3. jobs[j].status \notin Ended
    BY <1>2, <2>1, <2>2
       DEF RowsInv, Current, RouteWrites, ApproveReview, Requeue, RetryStage, Retryable,
           StageRetryable, Ended
  <2>4. PICK status \in JobStatus : SetJob(j, status)
    BY <1>1, <1>2, <2>1
       DEF RouteWrites, ApproveReview, Requeue, RetryStage, Inv, TypeOK
  <2> QED
    BY <2>3, <2>4, SetLiveJob
<1>3. ASSUME NEW j \in Jobs, Cancel(j) \/ ApproveCodex(j) \/ ApprovePr(j)
      PROVE  EndsKept
  <2>1. jobs[j].status \notin Ended
    BY <1>3 DEF Cancel, ApproveCodex, ApprovePr, Cancelable, Ended
  <2> QED
    BY <1>1, <1>3, <2>1, SetLiveJob DEF Cancel, ApproveCodex, ApprovePr
<1>4. CASE \/ \E r \in Requests : RouteReads(r)
           \/ \E j \in Jobs, state \in PrState : ResolvePr(j, state)
           \/ \E p \in BOOLEAN : SetPaused(p)
  <2>1. UNCHANGED jobs
    BY <1>4 DEF RouteReads, ReadForApproval, ReadForRequeue, ReadForRetryStage, Begin,
                ResolvePr, SetPaused
  <2> QED
    BY <2>1 DEF EndsKept
<1> QED
  BY <1>2, <1>3, <1>4

\* Likewise, through kills, a job that was canceled or has been completed is never worked
\* on again: no stage, late request or retry takes it back.
THEOREM EndsAreFinal ==
  ASSUME TakingTurns
  PROVE  Spec => EndIsFinal
<1>1. Inv /\ RowsInv /\ [Next]_vars => [EndsKept]_vars
  <2>1. ASSUME Inv, RowsInv, Next
        PROVE  EndsKept
    BY <2>1, WorkerKeepsEnds, RoutesKeepEnds DEF Next
  <2> QED
    BY <2>1
<1>2. EndsKept <=> \A j \in Jobs : jobs[j].status \in {"CANCELED", "COMPLETED"}
                      => jobs'[j].status = jobs[j].status
  BY DEF EndsKept, Ended
<1> QED
  BY Invariant, RowsInvariant, <1>1, <1>2, PTL DEF Spec, EndIsFinal
------------------------------------------------------------------------------
(* The page of a job.  It takes no step that the pipeline does not take     *)
(* without it, so what holds of the pipeline holds beside it.               *)

PageTyped ==
  page \in [at : PageStates, id : PageJobs \cup {None}, due : SUBSET Answers,
            status : JobStatus \cup {"none"}, run : RunRow \cup {NoRun},
            by : Requests \cup {None}]

\* A page that waits for an answer, or shows some, is the page of a job.
PageInv ==
  /\ PageTyped /\ loads \in 0 .. MaxLoads
  /\ page.at = "shown" \/ page.due # {} => page.id \in PageJobs
  /\ page.due # {} => page.at # "shown"
  /\ page.by # None => page.at = "shown"

LEMMA LatestRunTyped ==
  ASSUME Inv, NEW j \in Jobs
  PROVE  /\ LatestRun(j) \in RunRow \cup {NoRun} /\ LatestRun(j).meta = LatestMeta(j)
         /\ runs[j] # <<>> => LatestRun(j).status = LatestStatus(j) /\ LatestRun(j) # NoRun
<1>1. runs[j] \in Seq(RunRow) /\ Len(runs[j]) \in Nat
  BY LenProperties DEF Inv, TypeOK
<1>2. CASE runs[j] = <<>>
  BY <1>2 DEF LatestRun, LatestMeta, NoRun
<1>3. CASE runs[j] # <<>>
  <2>1. Len(runs[j]) \in 1..Len(runs[j])
    BY <1>1, <1>3, EmptySeq
  <2>2. PICK run \in RunRow : run = runs[j][Len(runs[j])]
    BY <1>1, <2>1, ElementOfSeq
  <2>3. LatestRun(j) = run /\ LatestMeta(j) = run.meta /\ LatestStatus(j) = run.status
    BY <1>3, <2>2 DEF LatestRun, LatestMeta, LatestStatus
  <2>4. run # NoRun
    BY DEF NoRun, RunRow, RunStatus
  <2> QED
    BY <2>3, <2>4
<1> QED
  BY <1>2, <1>3

\* What a step of the page leaves on it.
LEMMA LoadingTyped ==
  ASSUME NEW j \in PageJobs, page' = Loading(j), loads' \in 0 .. MaxLoads
  PROVE  PageInv'
<1>1. /\ page'.at = "loading" /\ page'.id = j /\ page'.due = Answers
      /\ page'.status = "none" /\ page'.run = NoRun /\ page'.by = None
      /\ page' \in [at : PageStates, id : PageJobs \cup {None}, due : SUBSET Answers,
                    status : JobStatus \cup {"none"}, run : RunRow \cup {NoRun},
                    by : Requests \cup {None}]
  BY DEF Loading, Closed, PageStates
<1> QED
  BY <1>1 DEF PageInv, PageTyped

LEMMA ClosedTyped ==
  ASSUME page' = [Closed EXCEPT !.at = "failed"], loads' \in 0 .. MaxLoads
  PROVE  PageInv'
<1>1. /\ page'.at = "failed" /\ page'.due = {} /\ page'.by = None
      /\ page' \in [at : PageStates, id : PageJobs \cup {None}, due : SUBSET Answers,
                    status : JobStatus \cup {"none"}, run : RunRow \cup {NoRun},
                    by : Requests \cup {None}]
  BY DEF Closed, PageStates
<1> QED
  BY <1>1 DEF PageInv, PageTyped

LEMMA GotTyped ==
  ASSUME PageInv, NEW answer \in Answers, answer \in page.due,
         NEW status \in JobStatus \cup {"none"}, NEW run \in RunRow \cup {NoRun},
         page' = [Got(answer) EXCEPT !.status = status, !.run = run],
         loads' \in 0 .. MaxLoads
  PROVE  PageInv'
<1>1. PICK due \in SUBSET Answers : due = page.due \ {answer}
  BY DEF PageInv, PageTyped
<1>2. PICK at \in PageStates : at = IF due = {} THEN "shown" ELSE "loading"
  BY DEF PageStates
<1>3. Got(answer) = [page EXCEPT !.due = due, !.at = at]
  BY <1>1, <1>2 DEF Got
<1>4. page' = [page EXCEPT !.due = due, !.at = at, !.status = status, !.run = run]
  BY <1>3 DEF PageInv, PageTyped
<1>5. page.id \in PageJobs /\ page.by = None
  BY DEF PageInv
<1> QED
  BY <1>2, <1>4, <1>5 DEF PageInv, PageTyped

LEMMA WaitsTyped ==
  ASSUME PageInv, NEW r \in Requests, Shown, WaitsFor(r)
  PROVE  PageInv'
<1>1. page' = [page EXCEPT !.by = r] /\ loads' = loads /\ page.at = "shown"
  BY DEF WaitsFor, Shown
<1> QED
  BY <1>1 DEF PageInv, PageTyped

\* A step of the page is a step of the pipeline, or leaves it alone.
LEMMA PageStepMoves ==
  ASSUME Inv, PageInv, MayInterleave, PageStep
  PROVE  PageInv' /\ [Next]_vars
<1> USE JobPageAssumption
<1>1. ASSUME NEW j \in PageJobs, Open(j)
      PROVE  PageInv' /\ UNCHANGED vars
  <2>1. loads' \in 0 .. MaxLoads
    BY <1>1 DEF Open, PageInv
  <2> QED
    BY <1>1, <2>1, LoadingTyped DEF Open
<1>2. CASE GetJob
  <2>1. page.id \in Jobs /\ loads' \in 0 .. MaxLoads
    BY <1>2 DEF GetJob, PageInv
  <2>2. PICK status \in JobStatus, run \in RunRow \cup {NoRun} :
          /\ status = jobs[page.id].status
          /\ run = IF page.run = NoRun THEN LatestRun(page.id) ELSE page.run
    BY <2>1, LatestRunTyped DEF PageInv, PageTyped, Inv, TypeOK, JobRow
  <2>3. Got("job").run = page.run
    BY DEF Got, PageInv, PageTyped
  <2>4. page' = [Got("job") EXCEPT !.status = status, !.run = run]
    BY <1>2, <2>2, <2>3 DEF GetJob
  <2> QED
    BY <1>2, <2>1, <2>4, GotTyped DEF GetJob, Answers
<1>3. CASE GetJobFails
  BY <1>3, ClosedTyped DEF GetJobFails, PageInv
<1>4. CASE GetJobRuns
  <2>1. page.id \in Jobs /\ loads' \in 0 .. MaxLoads
    BY <1>4 DEF GetJobRuns, PageInv
  <2>2. PICK run \in {LatestRun(page.id), NoRun} :
          page' = [Got("runs") EXCEPT !.run = IF run = NoRun THEN @ ELSE run]
    BY <1>4 DEF GetJobRuns
  <2>3. PICK shown \in RunRow \cup {NoRun} : shown = IF run = NoRun THEN page.run ELSE run
    BY <2>1, LatestRunTyped DEF PageInv, PageTyped
  <2>4. PICK status \in JobStatus \cup {"none"} : status = page.status
    BY DEF PageInv, PageTyped
  <2>5. Got("runs").run = page.run /\ Got("runs").status = page.status
        /\ DOMAIN Got("runs") = {"at", "id", "due", "status", "run", "by"}
    BY DEF Got, PageInv, PageTyped
  <2>6. page' = [Got("runs") EXCEPT !.status = status, !.run = shown]
    BY <2>2, <2>3, <2>4, <2>5 DEF Got, PageInv, PageTyped
  <2> QED
    BY <1>4, <2>1, <2>6, GotTyped DEF GetJobRuns, Answers
<1>5. CASE PressApproveCodex \/ PressApprovePr \/ PressCancel
  <2>1. page.id \in PageJobs /\ page' = Loading(page.id) /\ loads' \in 0 .. MaxLoads
    BY <1>5 DEF PressApproveCodex, PressApprovePr, PressCancel, Shown, LoadsAgain, PageInv
  <2>2. Cancel(page.id) \/ ApproveCodex(page.id) \/ ApprovePr(page.id)
    BY <1>5 DEF PressApproveCodex, PressApprovePr, PressCancel
  <2> QED
    BY <2>1, <2>2, LoadingTyped DEF Next
<1>6. CASE Answered
  <2>1. page.id \in PageJobs /\ page' = Loading(page.id) /\ loads' \in 0 .. MaxLoads
    BY <1>6 DEF Answered, LoadsAgain, PageInv
  <2> QED
    BY <1>6, <2>1, LoadingTyped DEF Answered
<1>7. CASE Refused
  BY <1>7, ClosedTyped DEF Refused, PageInv
<1>8. ASSUME NEW r \in Requests,
             PressRequeue(r) \/ \E feedback \in BOOLEAN : PressRetry(r, feedback)
      PROVE  PageInv' /\ Next
  <2>1. page.id \in Jobs /\ Shown /\ WaitsFor(r)
    BY <1>8 DEF PressRequeue, PressRetry, Shown, PageInv
  <2>2. RouteReads(r)
    BY <1>8, <2>1 DEF PressRequeue, PressRetry, RouteReads
  <2> QED
    BY <2>1, <2>2, WaitsTyped DEF Next
<1> QED
  BY <1>1, <1>2, <1>3, <1>4, <1>5, <1>6, <1>7, <1>8
     DEF PageStep, GetJob, GetJobFails, GetJobRuns, Answered, Refused

LEMMA PageNextMoves ==
  ASSUME Inv, PageInv, [PageNext]_pageVars
  PROVE  PageInv' /\ [Next]_vars
<1>1. ASSUME UNCHANGED <<page, loads>>
      PROVE  PageInv'
  BY <1>1 DEF PageInv, PageTyped
<1>2. CASE Next /\ UNCHANGED <<page, loads>>
  BY <1>1, <1>2
<1>3. CASE UNCHANGED pageVars
  BY <1>1, <1>3 DEF pageVars
<1>4. CASE MayInterleave /\ PageStep
  BY <1>4, PageStepMoves
<1> QED
  BY <1>2, <1>3, <1>4 DEF PageNext

LEMMA PageInitial ==
  ASSUME PageInit
  PROVE  Init /\ PageInv
BY JobPageAssumption
   DEF PageInit, PageInv, PageTyped, Closed, PageStates, Answers

LEMMA PageInvariant == PageSpec => [](Inv /\ PageInv)
<1>1. Inv /\ PageInv /\ [PageNext]_pageVars => (Inv /\ PageInv)'
  BY PageNextMoves, InvStep
<1>2. PageInit => Inv /\ PageInv
  BY PageInitial, InvInitial
<1> QED
  BY <1>1, <1>2, PTL DEF PageSpec

\* Whatever the page has loaded, and whenever, it holds a status and a run that the
\* database had, or none; and the pipeline beside it keeps its types.
THEOREM PageTypes == PageSpec => []PageTypeOK
<1>1. Inv /\ PageInv => PageTypeOK
  BY DEF Inv, PageInv, PageTyped, PageTypeOK
<1> QED
  BY PageInvariant, <1>1, PTL
------------------------------------------------------------------------------
(* What is said of a pull request, wherever it is said and however old it   *)
(* is: a pull request that was once there stays on record.                  *)

\* What metadata and status say of the pull request of job j, given its state.
MetaTrue(meta, j, pr) ==
  /\ "prUrl" \in meta => pr # "none"
  /\ "pullRequest" \in meta => j \in DraftPrJobs

StatusTrue(status, j, pr) ==
  /\ status = "PR_CREATED" => pr # "none"
  /\ status = "COMPLETED" /\ j \in DraftPrJobs => pr # "none"
  /\ status \in {"REVIEW", "PR_APPROVED", "PR_CREATED"} => j \in DraftPrJobs

\* A worker that pushes or inspects has a job that asked for a pull request, and one
\* that is about to record a pull request, or its merge, has made or seen it.
PlaceTrue(pc, j, pr) ==
  /\ pc \in PushLabels \cup InspectLabels => j \in DraftPrJobs
  /\ pc \in {"prRun", "prJob", "complete"} => pr # "none"

PrsTrue == \A j \in Jobs : prs[j] # "none" => j \in DraftPrJobs
JobsTrue == \A j \in Jobs : StatusTrue(jobs[j].status, j, prs[j])
RunsTrue == \A j \in Jobs : \A n \in 1 .. Len(runs[j]) : MetaTrue(runs[j][n].meta, j, prs[j])
WorkerTrue(w) ==
  worker[w].job \in Jobs =>
    /\ MetaTrue(worker[w].meta, worker[w].job, prs[worker[w].job])
    /\ PlaceTrue(worker[w].pc, worker[w].job, prs[worker[w].job])
RequestTrue(r) ==
  request[r].job \in Jobs =>
    /\ MetaTrue(request[r].meta, request[r].job, prs[request[r].job])
    /\ request[r].target = "REVIEW" => request[r].job \in DraftPrJobs

PrInv ==
  /\ PrsTrue /\ JobsTrue /\ RunsTrue
  /\ \A w \in Workers : WorkerTrue(w)
  /\ \A r \in Requests : RequestTrue(r)

\* No step takes a pull request off the record.
PrsKept == \A j \in Jobs : prs[j] # "none" => prs'[j] # "none"

LEMMA StillTrue ==
  ASSUME PrsKept, NEW j \in Jobs
  PROVE  /\ \A meta : MetaTrue(meta, j, prs[j]) => MetaTrue(meta, j, prs'[j])
         /\ \A status : StatusTrue(status, j, prs[j]) => StatusTrue(status, j, prs'[j])
         /\ \A pc : PlaceTrue(pc, j, prs[j]) => PlaceTrue(pc, j, prs'[j])
BY DEF PrsKept, MetaTrue, StatusTrue, PlaceTrue

LEMMA LatestTrue ==
  ASSUME Inv, PrInv, NEW j \in Jobs
  PROVE  MetaTrue(LatestMeta(j), j, prs[j])
<1>1. runs[j] \in Seq(RunRow)
  BY DEF Inv, TypeOK
<1>2. CASE runs[j] = <<>>
  BY <1>2 DEF LatestMeta, MetaTrue
<1>3. CASE runs[j] # <<>>
  <2>1. Len(runs[j]) \in 1..Len(runs[j])
    BY <1>1, <1>3, EmptySeq, LenProperties
  <2> QED
    BY <1>3, <2>1 DEF PrInv, RunsTrue, LatestMeta
<1> QED
  BY <1>2, <1>3

LEMMA PullRequestsStay ==
  ASSUME Inv, PrInv, [Next]_vars
  PROVE  PrsKept /\ PrsTrue'
<1>1. CASE UNCHANGED prs
  BY <1>1 DEF PrsKept, PrInv, PrsTrue
<1>2. ASSUME NEW w \in Workers, PushSucceeds(w)
      PROVE  PrsKept /\ PrsTrue'
  <2>1. worker[w].job \in Jobs /\ worker[w].job \in DraftPrJobs
    BY <1>2, Holding DEF PushSucceeds, At, ClaimLabels, PrInv, WorkerTrue, PlaceTrue, PushLabels
  <2> QED
    BY <1>2, <2>1 DEF PushSucceeds, PrsKept, PrInv, PrsTrue, Inv, TypeOK
<1>3. ASSUME NEW j \in Jobs, NEW state \in PrState, ResolvePr(j, state)
      PROVE  PrsKept /\ PrsTrue'
  BY <1>3 DEF ResolvePr, PrsKept, PrInv, PrsTrue, Inv, TypeOK
<1>4. ASSUME NEW w \in Workers, WorkerStep(w) \/ Crash(w), ~PushSucceeds(w)
      PROVE  UNCHANGED prs
  <2>1. CASE CodexStage(w) \/ ValidationStage(w) \/ Crash(w)
    BY <2>1
       DEF CodexStage, ClaimCodex, SkipCodex, CodexMissing, StartCodex, CodexFails,
           CodexSucceeds, MarkValidating, ValidationStage, ClaimValidating,
           ValidationMissing, ValidationFails, ValidationPasses, MarkValidated,
           BlockForMissing, Crash
  <2>2. CASE PushStage(w) \/ LifecycleStage(w)
    BY <1>4, <2>2
       DEF PushStage, ClaimReview, PushMissing, StartPush, PushFails, MarkRunPrCreated,
           MarkJobPrCreated, LifecycleStage, ClaimPrCreated, LifecycleMissing,
           NoteLifecycle, FindMerged, MarkCompleted, FindClosed, FindChecksFailed,
           GiveUpOnChecks, AutoRetry, BlockForMissing
  <2>3. CASE SetupStage(w) \/ Block(w) \/ FailRun(w)
    BY <2>3
       DEF SetupStage, ClaimQueued, CheckoutFails, CheckoutValid, CreateJobRun,
           PrepareFails, PrepareSucceeds, MarkRunReady, MarkJobReady, Block, FailRun
  <2> QED
    BY <1>4, <2>1, <2>2, <2>3 DEF WorkerStep
<1>5. CASE \/ \E r \in Requests : RouteReads(r) \/ RouteWrites(r)
           \/ \E j \in Jobs : Cancel(j) \/ ApproveCodex(j) \/ ApprovePr(j)
           \/ \E p \in BOOLEAN : SetPaused(p)
           \/ UNCHANGED vars
  <2>1. UNCHANGED prs
    BY <1>5
       DEF RouteReads, ReadForApproval, ReadForRequeue, ReadForRetryStage, Begin,
           RouteWrites, ApproveReview, Requeue, RetryStage, Cancel, ApproveCodex,
           ApprovePr, SetPaused, vars
  <2> QED
    BY <1>1, <2>1
<1> QED
  BY <1>1, <1>2, <1>3, <1>4, <1>5 DEF Next

\* A write of a job's status that says nothing false, and of a run's metadata.
LEMMA JobWriteTrue ==
  ASSUME Inv, PrInv, PrsKept, NEW j \in Jobs, NEW status \in JobStatus, SetJob(j, status),
         StatusTrue(status, j, prs'[j])
  PROVE  JobsTrue'
<1>1. jobs'[j].status = status /\ \A k \in Jobs \ {j} : jobs'[k] = jobs[k]
  BY SetJobRow
<1> QED
  BY <1>1, StillTrue DEF PrInv, JobsTrue

LEMMA JobsStillTrue ==
  ASSUME PrInv, PrsKept, UNCHANGED jobs
  PROVE  JobsTrue'
BY StillTrue DEF PrInv, JobsTrue

LEMMA RunWriteTrue ==
  ASSUME Inv, PrInv, PrsKept, NEW j \in Jobs, NEW n \in 1..Len(runs[j]), NEW status,
         NEW meta, SetRun(j, n, status, meta), MetaTrue(meta, j, prs'[j])
  PROVE  RunsTrue'
<1> DEFINE row == [status |-> status, meta |-> meta]
<1>1. runs[j] \in Seq(RunRow) /\ row.meta = meta
  BY DEF Inv, TypeOK
<1> HIDE DEF row
<1>2. runs'[j] = [runs[j] EXCEPT ![n] = row] /\ \A k \in Jobs \ {j} : runs'[k] = runs[k]
  BY DEF SetRun, Inv, TypeOK, row
<1>3. /\ Len(runs'[j]) = Len(runs[j])
      /\ \A i \in 1..Len(runs[j]) : runs'[j][i] = IF i = n THEN row ELSE runs[j][i]
  BY <1>1, <1>2, LenProperties
<1>4. \A i \in 1..Len(runs'[j]) : MetaTrue(runs'[j][i].meta, j, prs'[j])
  BY <1>1, <1>3, StillTrue DEF PrInv, RunsTrue
<1>5. \A k \in Jobs \ {j} : \A i \in 1..Len(runs'[k]) :
        MetaTrue(runs'[k][i].meta, k, prs'[k])
  BY <1>2, StillTrue DEF PrInv, RunsTrue
<1> QED
  BY <1>4, <1>5 DEF RunsTrue

LEMMA RunsStillTrue ==
  ASSUME PrInv, PrsKept, UNCHANGED runs
  PROVE  RunsTrue'
BY StillTrue DEF PrInv, RunsTrue

\* What a worker does to its locals: it forgets them, keeps its metadata or notes a
\* missing part in it, or claims a job with its latest run.
LEMMA WorkerStillTrue ==
  ASSUME Inv, PrInv, PrsKept, NEW w \in Workers, OnlyMoves(w),
         \/ NextIteration(w)
         \/ /\ worker'[w].job = worker[w].job
            /\ worker'[w].meta = worker[w].meta
            /\ worker[w].job \in Jobs =>
                 PlaceTrue(worker'[w].pc, worker[w].job, prs'[worker[w].job])
         \/ /\ worker'[w].job = worker[w].job /\ worker'[w].pc = "failRun"
            /\ worker[w].job \in Jobs =>
                 MetaTrue(worker'[w].meta, worker[w].job, prs'[worker[w].job])
         \/ \E j \in Jobs : \E label :
              Claim(w, j, label) /\ PlaceTrue(label, j, prs[j])
         \/ /\ worker'[w].pc = "checkout" /\ worker'[w].meta = {}
  PROVE  \A v \in Workers : WorkerTrue(v)'
<1>1. ASSUME NEW v \in Workers, v # w
      PROVE  WorkerTrue(v)'
  BY <1>1, StillTrue DEF OnlyMoves, PrInv, WorkerTrue
<1>2. WorkerTrue(w)'
  <2>1. CASE NextIteration(w)
    BY <2>1, NextIterationLocals, JobPipelineAssumption DEF WorkerTrue
  <2>2. CASE /\ worker'[w].job = worker[w].job
             /\ worker'[w].meta = worker[w].meta
             /\ worker[w].job \in Jobs =>
                  PlaceTrue(worker'[w].pc, worker[w].job, prs'[worker[w].job])
    BY <2>2, StillTrue DEF PrInv, WorkerTrue
  <2>3. CASE /\ worker'[w].job = worker[w].job /\ worker'[w].pc = "failRun"
             /\ worker[w].job \in Jobs =>
                  MetaTrue(worker'[w].meta, worker[w].job, prs'[worker[w].job])
    BY <2>3 DEF WorkerTrue, PlaceTrue, PushLabels, InspectLabels
  <2>4. ASSUME NEW j \in Jobs, NEW label, Claim(w, j, label), PlaceTrue(label, j, prs[j])
        PROVE  WorkerTrue(w)'
    BY <2>4, ClaimLocals, LatestTrue, StillTrue DEF WorkerTrue
  <2>5. CASE worker'[w].pc = "checkout" /\ worker'[w].meta = {}
    BY <2>5 DEF WorkerTrue, MetaTrue, PlaceTrue, PushLabels, InspectLabels
  <2> QED
    BY <2>1, <2>2, <2>3, <2>4, <2>5
<1> QED
  BY <1>1, <1>2

LEMMA WorkersStillTrue ==
  ASSUME PrInv, PrsKept, UNCHANGED worker
  PROVE  \A w \in Workers : WorkerTrue(w)'
BY StillTrue DEF PrInv, WorkerTrue

LEMMA RequestsStillTrue ==
  ASSUME PrInv, PrsKept, UNCHANGED request
  PROVE  \A r \in Requests : RequestTrue(r)'
BY StillTrue DEF PrInv, RequestTrue

\* A worker's step: what it writes to its job and its run is true, and so is what its
\* next place says.
TellsTrue == JobsTrue' /\ RunsTrue' /\ \A w \in Workers : WorkerTrue(w)'

LEMMA StepTellsTrue ==
  ASSUME Inv, PrInv, PrsKept, NEW w \in Workers, NEW j \in Jobs, worker[w].job = j,
         \/ UNCHANGED jobs
         \/ \E status \in JobStatus : MarkJob(w, status) /\ StatusTrue(status, j, prs'[j]),
         \/ UNCHANGED runs
         \/ \E status, meta : /\ worker[w].run >= 1 /\ MarkRun(w, status, meta)
                              /\ MetaTrue(meta, j, prs'[j]),
         \/ NextIteration(w)
         \/ \E label : Goto(w, label) /\ PlaceTrue(label, j, prs'[j])
  PROVE  TellsTrue
<1>1. JobsTrue'
  BY JobsStillTrue, JobWriteTrue DEF MarkJob
<1>2. RunsTrue'
  <2>1. ASSUME NEW status, NEW meta, worker[w].run >= 1, MarkRun(w, status, meta),
               MetaTrue(meta, j, prs'[j])
        PROVE  RunsTrue'
    <3>1. worker[w].run \in 1..Len(runs[j]) /\ SetRun(j, worker[w].run, status, meta)
      BY <2>1, HeldRunTyped DEF MarkRun
    <3> QED
      BY <2>1, <3>1, RunWriteTrue
  <2> QED
    BY <2>1, RunsStillTrue
<1>3. \A v \in Workers : WorkerTrue(v)'
  <2>1. CASE NextIteration(w)
    BY <2>1, NextIterationMoves, WorkerStillTrue
  <2>2. ASSUME NEW label, Goto(w, label), PlaceTrue(label, j, prs'[j])
        PROVE  \A v \in Workers : WorkerTrue(v)'
    <3>1. /\ worker'[w].job = worker[w].job /\ worker'[w].meta = worker[w].meta
          /\ worker'[w].pc = label /\ OnlyMoves(w)
      BY <2>2, GotoLocals, GotoMoves
    <3> QED
      BY <2>2, <3>1, WorkerStillTrue
  <2> QED
    BY <2>1, <2>2
<1> QED
  BY <1>1, <1>2, <1>3 DEF TellsTrue

\* The three claims that leave the row alone, and those that find nothing.
LEMMA FoundTellsTrue ==
  ASSUME Inv, PrInv, PrsKept, NEW w \in Workers, worker[w].pc \in ClaimLabels,
         NEW status, NEW next \in ClaimLabels, NEW label,
         \/ FoundPaused(w) \/ FoundNone(w, status, next) \/ FoundUnleased(w, status, label)
         \/ Goto(w, next) /\ UNCHANGED jobs,
         UNCHANGED runs,
         <<status, label>> \in {<<"VALIDATING", "validate">>, <<"PR_APPROVED", "push">>,
                                <<"PR_CREATED", "inspect">>}
  PROVE  TellsTrue
<1>1. JobsTrue' /\ RunsTrue'
  BY JobsStillTrue, RunsStillTrue DEF FoundPaused, FoundNone, FoundUnleased
<1>2. CASE FoundPaused(w)
  BY <1>1, <1>2, NextIterationMoves, WorkerStillTrue DEF FoundPaused, TellsTrue
<1>3. CASE FoundNone(w, status, next) \/ Goto(w, next)
  <2>1. /\ worker'[w].job = worker[w].job /\ worker'[w].meta = worker[w].meta
        /\ worker'[w].pc = next /\ OnlyMoves(w)
    BY <1>3, GotoLocals, GotoMoves DEF FoundNone
  <2>2. PlaceTrue(next, worker[w].job, prs'[worker[w].job])
    BY DEF PlaceTrue, ClaimLabels, PushLabels, InspectLabels
  <2> QED
    BY <1>1, <2>1, <2>2, WorkerStillTrue DEF TellsTrue
<1>4. CASE FoundUnleased(w, status, label)
  <2>1. PICK j \in Jobs : jobs[j].status = status /\ Claim(w, j, label)
    BY <1>4 DEF FoundUnleased
  <2>2. StatusTrue(status, j, prs[j])
    BY <2>1 DEF PrInv, JobsTrue
  <2>3. PlaceTrue(label, j, prs[j])
    BY <2>2 DEF StatusTrue, PlaceTrue, PushLabels, InspectLabels
  <2> QED
    BY <1>1, <2>1, <2>3, ClaimMoves, WorkerStillTrue DEF TellsTrue
<1> QED
  BY <1>2, <1>3, <1>4

LEMMA MissingTellsTrue ==
  ASSUME Inv, PrInv, PrsKept, NEW w \in Workers, NEW j \in Jobs, worker[w].job = j,
         NEW meta, BlockForMissing(w, meta), MetaTrue(meta, j, prs[j])
  PROVE  TellsTrue
<1>1. JobsTrue' /\ RunsTrue'
  <2>1. "BLOCKED" \in JobStatus /\ StatusTrue("BLOCKED", j, prs'[j])
    BY DEF JobStatus, StatusTrue
  <2>2. SetJob(j, "BLOCKED") /\ UNCHANGED runs
    BY DEF BlockForMissing, MarkJob
  <2> QED
    BY <2>1, <2>2, JobWriteTrue, RunsStillTrue
<1>2. OnlyMoves(w)
  BY MissingMoves
<1>3. CASE worker[w].run = 0
  BY <1>1, <1>2, <1>3, WorkerStillTrue DEF BlockForMissing, TellsTrue
<1>4. CASE worker[w].run # 0
  <2>1. worker'[w].job = j /\ worker'[w].pc = "failRun" /\ worker'[w].meta = meta
    BY <1>4 DEF BlockForMissing, Inv, TypeOK, WorkerState
  <2> QED
    BY <1>1, <1>2, <2>1, StillTrue, WorkerStillTrue DEF TellsTrue
<1> QED
  BY <1>3, <1>4

\* What is known of the job of a worker that is about to write.
LEMMA HeldTrue ==
  ASSUME Inv, PrInv, NEW w \in Workers, worker[w].pc \notin ClaimLabels
  PROVE  \E j \in Jobs, held \in SUBSET MetaKeys :
           /\ worker[w].job = j /\ worker[w].meta = held
           /\ MetaTrue(held, j, prs[j]) /\ PlaceTrue(worker[w].pc, j, prs[j])
           /\ worker[w].pc \in RunLabels => worker[w].run >= 1
           /\ \A keys : ~Lacks(w, keys) => worker[w].run >= 1
           /\ worker[w].run >= 1 => MetaTrue(HeldRun(w).meta, j, prs[j])
<1>1. PICK j \in Jobs, held \in SUBSET MetaKeys : worker[w].job = j /\ worker[w].meta = held
  BY Holding
<1>2. MetaTrue(held, j, prs[j]) /\ PlaceTrue(worker[w].pc, j, prs[j])
  BY <1>1 DEF PrInv, WorkerTrue
<1>3. worker[w].run >= 1 => MetaTrue(HeldRun(w).meta, j, prs[j])
  BY <1>1, HeldRunTyped DEF PrInv, RunsTrue, HeldRun
<1>4. \A keys : ~Lacks(w, keys) => worker[w].run >= 1
  BY HoldsRunUnlessLacking
<1> QED
  BY <1>1, <1>2, <1>3, <1>4, Holding

LEMMA CodexStageTellsTrue ==
  ASSUME Inv, PrInv, PrsKept, NEW w \in Workers, CodexStage(w)
  PROVE  TellsTrue
<1> USE DEF At
<1>1. CASE ClaimCodex(w)
  <2>1. UNCHANGED runs
    BY <1>1 DEF ClaimCodex
  <2>2. CASE FoundNone(w, "CODEX_APPROVED", "validationClaim")
    <3>1. Goto(w, "validationClaim") /\ UNCHANGED jobs /\ worker[w].pc \in ClaimLabels
      BY <1>1, <2>2 DEF FoundNone, ClaimCodex, ClaimLabels
    <3>2. "validationClaim" \in ClaimLabels
      BY DEF ClaimLabels
    <3> QED
      BY <2>1, <3>1, <3>2, FoundTellsTrue
  <2>3. ASSUME NEW j \in Jobs, SetJob(j, "RUNNING"),
               NEW label \in {"codexStart", "codexSkip"}, Claim(w, j, label)
        PROVE  TellsTrue
    <3>1. "RUNNING" \in JobStatus /\ StatusTrue("RUNNING", j, prs'[j])
          /\ PlaceTrue(label, j, prs[j])
      BY DEF JobStatus, StatusTrue, PlaceTrue, PushLabels, InspectLabels
    <3> QED
      BY <2>1, <2>3, <3>1, JobWriteTrue, RunsStillTrue, ClaimMoves, WorkerStillTrue
         DEF TellsTrue
  <2> QED
    BY <1>1, <2>2, <2>3 DEF ClaimCodex
<1>2. CASE ~ClaimCodex(w)
  <2>1. worker[w].pc \in CodexLabels /\ worker[w].pc \notin ClaimLabels
    BY <1>2 DEF CodexStage, SkipCodex, CodexMissing, StartCodex, CodexFails, CodexSucceeds,
                MarkValidating, CodexLabels, ClaimLabels
  <2>2. PICK j \in Jobs, held \in SUBSET MetaKeys :
          /\ worker[w].job = j /\ worker[w].meta = held
          /\ MetaTrue(held, j, prs[j]) /\ PlaceTrue(worker[w].pc, j, prs[j])
          /\ worker[w].pc \in RunLabels => worker[w].run >= 1
          /\ \A keys : ~Lacks(w, keys) => worker[w].run >= 1
    BY <2>1, HeldTrue
  <2>3. /\ MetaTrue(held \cup {"codex"}, j, prs[j]) /\ MetaTrue(held \cup {"codex"}, j, prs'[j])
        /\ \A label \in {"codexRunning", "block", "codexOk"} : PlaceTrue(label, j, prs'[j])
        /\ \A status \in {"READY_FOR_CODEX", "VALIDATING"} :
             status \in JobStatus /\ StatusTrue(status, j, prs'[j])
    BY <2>2, StillTrue
       DEF MetaTrue, PlaceTrue, StatusTrue, PushLabels, InspectLabels, JobStatus
  <2>4. CASE CodexMissing(w)
    BY <2>2, <2>3, <2>4, MissingTellsTrue DEF CodexMissing
  <2>5. CASE SkipCodex(w) \/ MarkValidating(w)
    BY <2>2, <2>3, <2>5, StepTellsTrue DEF SkipCodex, MarkValidating
  <2>6. CASE StartCodex(w) \/ CodexFails(w) \/ CodexSucceeds(w)
    <3>1. worker[w].run >= 1
      BY <2>2, <2>6 DEF StartCodex, CodexFails, CodexSucceeds, RunLabels
    <3> QED
      BY <2>2, <2>3, <2>6, <3>1, StepTellsTrue DEF StartCodex, CodexFails, CodexSucceeds
  <2> QED
    BY <1>2, <2>4, <2>5, <2>6 DEF CodexStage
<1> QED
  BY <1>1, <1>2

LEMMA ValidationStageTellsTrue ==
  ASSUME Inv, PrInv, PrsKept, NEW w \in Workers, ValidationStage(w)
  PROVE  TellsTrue
<1> USE DEF At
<1>1. CASE ClaimValidating(w)
  <2>1. UNCHANGED runs /\ worker[w].pc \in ClaimLabels
    BY <1>1 DEF ClaimValidating, ClaimLabels
  <2>2. {"reviewClaim", "lifecycleClaim"} \subseteq ClaimLabels
    BY DEF ClaimLabels
  <2> QED
    BY <1>1, <2>1, <2>2, FoundTellsTrue DEF ClaimValidating
<1>2. CASE ~ClaimValidating(w)
  <2>1. worker[w].pc \notin ClaimLabels
    BY <1>2 DEF ValidationStage, ValidationMissing, ValidationFails, ValidationPasses,
                MarkValidated, ClaimLabels
  <2>2. PICK j \in Jobs, held \in SUBSET MetaKeys :
          /\ worker[w].job = j /\ worker[w].meta = held
          /\ MetaTrue(held, j, prs[j]) /\ PlaceTrue(worker[w].pc, j, prs[j])
          /\ worker[w].pc \in RunLabels => worker[w].run >= 1
          /\ \A keys : ~Lacks(w, keys) => worker[w].run >= 1
    BY <2>1, HeldTrue
  <2>3. /\ MetaTrue(held \cup {"validation"}, j, prs[j])
        /\ MetaTrue(held \cup {"validation"}, j, prs'[j])
        /\ \A label \in {"block", "validationRun"} : PlaceTrue(label, j, prs'[j])
        /\ (IF j \in DraftPrJobs THEN "REVIEW" ELSE "COMPLETED") \in JobStatus
        /\ StatusTrue(IF j \in DraftPrJobs THEN "REVIEW" ELSE "COMPLETED", j, prs'[j])
    BY <2>2, StillTrue
       DEF MetaTrue, PlaceTrue, StatusTrue, PushLabels, InspectLabels, JobStatus
  <2>4. CASE ValidationMissing(w)
    BY <2>2, <2>3, <2>4, MissingTellsTrue DEF ValidationMissing
  <2>5. CASE ValidationPasses(w)
    BY <2>2, <2>3, <2>5, StepTellsTrue DEF ValidationPasses
  <2>6. CASE ValidationFails(w) \/ MarkValidated(w)
    <3>1. worker[w].run >= 1
      BY <2>2, <2>6 DEF ValidationFails, MarkValidated, RunLabels
    <3> QED
      BY <2>2, <2>3, <2>6, <3>1, StepTellsTrue DEF ValidationFails, MarkValidated
  <2> QED
    BY <1>2, <2>4, <2>5, <2>6 DEF ValidationStage
<1> QED
  BY <1>1, <1>2

LEMMA PushStageTellsTrue ==
  ASSUME Inv, PrInv, PrsKept, NEW w \in Workers, PushStage(w)
  PROVE  TellsTrue
<1> USE DEF At
<1>1. CASE ClaimReview(w)
  <2>1. UNCHANGED runs /\ worker[w].pc \in ClaimLabels
    BY <1>1 DEF ClaimReview, ClaimLabels
  <2>2. "lifecycleClaim" \in ClaimLabels
    BY DEF ClaimLabels
  <2> QED
    BY <1>1, <2>1, <2>2, FoundTellsTrue DEF ClaimReview
<1>2. CASE ~ClaimReview(w)
  <2>1. worker[w].pc \in PushLabels /\ worker[w].pc \notin ClaimLabels
    BY <1>2 DEF PushStage, PushMissing, StartPush, PushFails, PushSucceeds,
                MarkRunPrCreated, MarkJobPrCreated, PushLabels, ClaimLabels
  <2>2. PICK j \in Jobs, held \in SUBSET MetaKeys :
          /\ worker[w].job = j /\ worker[w].meta = held
          /\ MetaTrue(held, j, prs[j]) /\ PlaceTrue(worker[w].pc, j, prs[j])
          /\ worker[w].pc \in RunLabels => worker[w].run >= 1
          /\ \A keys : ~Lacks(w, keys) => worker[w].run >= 1
    BY <2>1, HeldTrue
  <2>3. /\ MetaTrue(WithPullRequest(held, {}), j, prs[j])
        /\ MetaTrue(WithPullRequest(held, {}), j, prs'[j])
        /\ PlaceTrue("pushing", j, prs'[j]) /\ PlaceTrue("block", j, prs'[j])
    BY <2>1, <2>2 DEF MetaTrue, PlaceTrue, WithPullRequest, PushLabels, InspectLabels
  <2>4. CASE PushMissing(w)
    BY <2>2, <2>3, <2>4, MissingTellsTrue DEF PushMissing
  <2>5. CASE StartPush(w) \/ PushFails(w)
    <3>1. worker[w].run >= 1
      BY <2>2, <2>5 DEF StartPush, PushFails, RunLabels
    <3> QED
      BY <2>2, <2>3, <2>5, <3>1, StepTellsTrue DEF StartPush, PushFails
  <2>6. CASE PushSucceeds(w)
    <3>1. prs'[j] = "open"
      BY <2>2, <2>6 DEF PushSucceeds, Inv, TypeOK
    <3>2. PlaceTrue("prRun", j, prs'[j])
      BY <2>1, <2>2, <3>1 DEF PlaceTrue
    <3> QED
      BY <2>2, <2>6, <3>2, StepTellsTrue DEF PushSucceeds
  <2>7. CASE MarkRunPrCreated(w)
    <3>1. /\ MetaTrue(WithPullRequest(held, {"prUrl"}), j, prs'[j])
          /\ PlaceTrue("prJob", j, prs'[j]) /\ worker[w].run >= 1
      BY <2>1, <2>2, <2>7
         DEF MarkRunPrCreated, MetaTrue, PlaceTrue, WithPullRequest, PushLabels, RunLabels,
             PrsKept
    <3> QED
      BY <2>2, <2>7, <3>1, StepTellsTrue DEF MarkRunPrCreated
  <2>8. CASE MarkJobPrCreated(w)
    <3>1. "PR_CREATED" \in JobStatus /\ StatusTrue("PR_CREATED", j, prs'[j])
      BY <2>1, <2>2, <2>8
         DEF MarkJobPrCreated, StatusTrue, PlaceTrue, PushLabels, PrsKept, JobStatus
    <3> QED
      BY <2>2, <2>8, <3>1, StepTellsTrue DEF MarkJobPrCreated
  <2> QED
    BY <1>2, <2>4, <2>5, <2>6, <2>7, <2>8 DEF PushStage
<1> QED
  BY <1>1, <1>2

LEMMA AutoRetryTellsTrue ==
  ASSUME Inv, PrInv, PrsKept, NEW w \in Workers, AutoRetry(w)
  PROVE  TellsTrue
<1>1. PICK j \in Jobs, held \in SUBSET MetaKeys :
        /\ worker[w].job = j /\ worker[w].meta = held
        /\ MetaTrue(held, j, prs[j]) /\ PlaceTrue(worker[w].pc, j, prs[j])
        /\ worker[w].pc \in RunLabels => worker[w].run >= 1
  BY HeldTrue DEF AutoRetry, At, ClaimLabels
<1>2. NextIteration(w) /\ worker[w].run >= 1
  BY <1>1 DEF AutoRetry, At, RunLabels
<1>3. CASE jobs[j].status = "PR_CREATED"
  <2> DEFINE meta == (held \ {"validation", "pullRequest", "prUrl"}) \cup {"retryFeedback"}
  <2>1. MarkRun(w, "READY_FOR_CODEX", meta) /\ MetaTrue(meta, j, prs'[j])
    BY <1>1, <1>3 DEF AutoRetry, MetaTrue
  <2>2. /\ jobs'[j].status = "CODEX_APPROVED"
        /\ \A k \in Jobs \ {j} : jobs'[k] = jobs[k]
    BY <1>1, <1>3 DEF AutoRetry, Inv, TypeOK
  <2>3. JobsTrue'
    <3>1. StatusTrue("CODEX_APPROVED", j, prs'[j])
      BY DEF StatusTrue
    <3> QED
      BY <2>2, <3>1, StillTrue DEF PrInv, JobsTrue
  <2> HIDE DEF meta
  <2>4. worker[w].run \in 1..Len(runs[j]) /\ SetRun(j, worker[w].run, "READY_FOR_CODEX", meta)
    BY <1>1, <1>2, <2>1, HeldRunTyped DEF MarkRun
  <2>5. RunsTrue'
    BY <2>1, <2>4, RunWriteTrue
  <2> QED
    BY <1>2, <2>3, <2>5, NextIterationMoves, WorkerStillTrue DEF TellsTrue
<1>4. CASE jobs[j].status # "PR_CREATED"
  <2>1. UNCHANGED <<jobs, runs>>
    BY <1>1, <1>4 DEF AutoRetry
  <2> QED
    BY <1>1, <1>2, <2>1, StepTellsTrue
<1> QED
  BY <1>3, <1>4

LEMMA LifecycleStageTellsTrue ==
  ASSUME Inv, PrInv, PrsKept, NEW w \in Workers, LifecycleStage(w)
  PROVE  TellsTrue
<1> USE DEF At
<1>1. CASE ClaimPrCreated(w)
  <2>1. UNCHANGED runs /\ worker[w].pc \in ClaimLabels
    BY <1>1 DEF ClaimPrCreated, ClaimLabels
  <2>2. "queuedClaim" \in ClaimLabels
    BY DEF ClaimLabels
  <2> QED
    BY <1>1, <2>1, <2>2, FoundTellsTrue DEF ClaimPrCreated
<1>2. CASE ~ClaimPrCreated(w)
  <2>1. worker[w].pc \in InspectLabels \cup {"complete"} /\ worker[w].pc \notin ClaimLabels
    BY <1>2
       DEF LifecycleStage, LifecycleMissing, CanInspect, NoteLifecycle, FindMerged,
           MarkCompleted, FindClosed, FindChecksFailed, GiveUpOnChecks, AutoRetry,
           InspectLabels, ClaimLabels
  <2>2. PICK j \in Jobs, held \in SUBSET MetaKeys :
          /\ worker[w].job = j /\ worker[w].meta = held
          /\ MetaTrue(held, j, prs[j]) /\ PlaceTrue(worker[w].pc, j, prs[j])
          /\ worker[w].pc \in RunLabels => worker[w].run >= 1
          /\ \A keys : ~Lacks(w, keys) => worker[w].run >= 1
    BY <2>1, HeldTrue
  <2>3. MetaTrue(held, j, prs'[j]) /\ PlaceTrue("block", j, prs'[j])
    BY <2>2, StillTrue DEF PlaceTrue, PushLabels, InspectLabels
  <2>4. CASE LifecycleMissing(w)
    <3>1. MetaTrue(held \cup {"pullRequest"}, j, prs[j])
      BY <2>2, <2>4 DEF LifecycleMissing, MetaTrue, PlaceTrue, InspectLabels
    <3> QED
      BY <2>2, <2>4, <3>1, MissingTellsTrue DEF LifecycleMissing
  <2>5. CASE NoteLifecycle(w) \/ FindClosed(w)
    <3>1. worker[w].run >= 1
      BY <2>2, <2>5 DEF NoteLifecycle, FindClosed, CanInspect
    <3> QED
      BY <2>2, <2>3, <2>5, <3>1, StepTellsTrue DEF NoteLifecycle, FindClosed
  <2>6. CASE FindMerged(w)
    <3>1. worker[w].run >= 1 /\ PlaceTrue("complete", j, prs'[j])
      BY <2>2, <2>6
         DEF FindMerged, CanInspect, PlaceTrue, PrsKept, PushLabels, InspectLabels
    <3> QED
      BY <2>2, <2>3, <2>6, <3>1, StepTellsTrue DEF FindMerged
  <2>7. CASE MarkCompleted(w)
    <3>1. "COMPLETED" \in JobStatus /\ StatusTrue("COMPLETED", j, prs'[j])
      BY <2>2, <2>7 DEF MarkCompleted, StatusTrue, PlaceTrue, PrsKept, JobStatus
    <3> QED
      BY <2>2, <2>7, <3>1, StepTellsTrue DEF MarkCompleted
  <2>8. CASE FindChecksFailed(w)
    <3>1. PlaceTrue("checksFailed", j, prs'[j])
      BY <2>2, <2>8
         DEF FindChecksFailed, CanInspect, PlaceTrue, PushLabels, InspectLabels
    <3> QED
      BY <2>2, <2>8, <3>1, StepTellsTrue DEF FindChecksFailed
  <2>9. CASE GiveUpOnChecks(w)
    <3>1. worker[w].run >= 1
      BY <2>2, <2>9 DEF GiveUpOnChecks, RunLabels
    <3> QED
      BY <2>2, <2>3, <2>9, <3>1, StepTellsTrue DEF GiveUpOnChecks
  <2> QED
    BY <1>2, <2>4, <2>5, <2>6, <2>7, <2>8, <2>9, AutoRetryTellsTrue DEF LifecycleStage
<1> QED
  BY <1>1, <1>2

\* A new run says nothing yet.
LEMMA RunAppendedTrue ==
  ASSUME Inv, PrInv, PrsKept, NEW j \in Jobs, NEW status,
         runs' = [runs EXCEPT ![j] = Append(@, [status |-> status, meta |-> {}])]
  PROVE  RunsTrue'
<1> DEFINE row == [status |-> status, meta |-> {}]
           n == Len(runs[j])
<1>1. runs[j] \in Seq(RunRow) /\ n \in Nat /\ row.meta = {}
  BY LenProperties DEF Inv, TypeOK
<1> HIDE DEF row
<1>2. runs'[j] = Append(runs[j], row) /\ \A k \in Jobs \ {j} : runs'[k] = runs[k]
  BY DEF Inv, TypeOK, row
<1>3. /\ Len(runs'[j]) = n + 1
      /\ \A i \in 1..n : runs'[j][i] = runs[j][i]
      /\ runs'[j][n + 1] = row
  BY <1>1, <1>2
<1>4. MetaTrue(row.meta, j, prs'[j])
  BY <1>1 DEF MetaTrue
<1>5. \A i \in 1..n : MetaTrue(runs'[j][i].meta, j, prs'[j])
  BY <1>3, StillTrue DEF PrInv, RunsTrue
<1>6. \A k \in Jobs \ {j} : \A i \in 1..Len(runs'[k]) :
        MetaTrue(runs'[k][i].meta, k, prs'[k])
  BY <1>2, StillTrue DEF PrInv, RunsTrue
<1> HIDE DEF n
<1>7. \A i \in 1..n + 1 : i \in 1..n \/ i = n + 1
  BY <1>1
<1>8. \A i \in 1..Len(runs'[j]) : MetaTrue(runs'[j][i].meta, j, prs'[j])
  BY <1>3, <1>4, <1>5, <1>7
<1> QED
  BY <1>6, <1>8 DEF RunsTrue

LEMMA SetupStageTellsTrue ==
  ASSUME Inv, PrInv, PrsKept, NEW w \in Workers, SetupStage(w)
  PROVE  TellsTrue
<1> USE DEF At
<1>1. CASE ClaimQueued(w)
  <2>1. UNCHANGED runs /\ worker[w].pc \in ClaimLabels
    BY <1>1 DEF ClaimQueued, ClaimLabels
  <2>2. "codexClaim" \in ClaimLabels
    BY DEF ClaimLabels
  <2>3. CASE FoundPaused(w) \/ FoundNone(w, "QUEUED", "codexClaim")
    <3>1. FoundPaused(w) \/ (Goto(w, "codexClaim") /\ UNCHANGED jobs)
      BY <2>3 DEF FoundNone
    <3> QED
      BY <2>1, <2>2, <3>1, FoundTellsTrue
  <2>4. ASSUME NEW j \in Jobs, SetJob(j, "CLAIMED"),
               worker' = [worker EXCEPT ![w] = [LoopTop EXCEPT !.pc = "checkout", !.job = j]]
        PROVE  TellsTrue
    <3>1. "CLAIMED" \in JobStatus /\ StatusTrue("CLAIMED", j, prs'[j])
      BY DEF JobStatus, StatusTrue
    <3>2. OnlyMoves(w) /\ worker'[w].pc = "checkout" /\ worker'[w].meta = {}
      BY <2>4 DEF Inv, TypeOK, OnlyMoves, LoopTop
    <3> QED
      BY <2>1, <2>4, <3>1, <3>2, JobWriteTrue, RunsStillTrue, WorkerStillTrue DEF TellsTrue
  <2> QED
    BY <1>1, <2>3, <2>4 DEF ClaimQueued
<1>2. CASE ~ClaimQueued(w)
  <2>1. worker[w].pc \in SetupLabels /\ worker[w].pc \notin ClaimLabels
    BY <1>2
       DEF SetupStage, CheckoutFails, CheckoutValid, CreateJobRun, PrepareFails,
           PrepareSucceeds, MarkRunReady, MarkJobReady, SetupLabels, ClaimLabels
  <2>2. PICK j \in Jobs, held \in SUBSET MetaKeys :
          /\ worker[w].job = j /\ worker[w].meta = held
          /\ MetaTrue(held, j, prs[j]) /\ PlaceTrue(worker[w].pc, j, prs[j])
          /\ worker[w].pc \in RunLabels => worker[w].run >= 1
          /\ worker[w].run >= 1 => MetaTrue(HeldRun(w).meta, j, prs[j])
    BY <2>1, HeldTrue
  <2>3. /\ MetaTrue({"worktree"}, j, prs'[j])
        /\ \A label \in {"block", "createRun", "prepare", "readyRun", "readyJob"} :
             PlaceTrue(label, j, prs'[j])
        /\ \A status \in {"BLOCKED", "RUNNING", "READY_FOR_CODEX"} :
             status \in JobStatus /\ StatusTrue(status, j, prs'[j])
    BY DEF MetaTrue, PlaceTrue, StatusTrue, PushLabels, InspectLabels, JobStatus
  <2>4. CASE CheckoutFails(w) \/ CheckoutValid(w) \/ MarkJobReady(w)
    BY <2>2, <2>3, <2>4, StepTellsTrue DEF CheckoutFails, CheckoutValid, MarkJobReady
  <2>5. CASE CreateJobRun(w)
    <3>1. /\ runs' = [runs EXCEPT ![j] = Append(@, [status |-> "STARTED", meta |-> {}])]
          /\ UNCHANGED jobs
      BY <2>2, <2>5 DEF CreateJobRun
    <3>2. /\ worker'[w].job = j /\ worker'[w].meta = held /\ worker'[w].pc = "prepare"
          /\ OnlyMoves(w)
      BY <2>2, <2>5 DEF CreateJobRun, Inv, TypeOK, WorkerState, OnlyMoves
    <3>3. RunsTrue'
      BY <3>1, RunAppendedTrue
    <3> QED
      BY <2>2, <2>3, <3>1, <3>2, <3>3, JobsStillTrue, WorkerStillTrue DEF TellsTrue
  <2>6. CASE PrepareFails(w) \/ PrepareSucceeds(w) \/ MarkRunReady(w)
    <3>1. worker[w].run >= 1
      BY <2>2, <2>6 DEF PrepareFails, PrepareSucceeds, MarkRunReady, RunLabels
    <3>2. MetaTrue(HeldRun(w).meta, j, prs'[j])
      BY <2>2, <3>1, StillTrue
    <3>3. CASE PrepareFails(w)
      BY <2>2, <2>3, <3>1, <3>2, <3>3, StepTellsTrue DEF PrepareFails
    <3>4. CASE PrepareSucceeds(w)
      BY <2>2, <2>3, <3>1, <3>4, StepTellsTrue DEF PrepareSucceeds
    <3>5. CASE MarkRunReady(w)
      BY <2>2, <2>3, <3>1, <3>2, <3>5, StepTellsTrue DEF MarkRunReady
    <3> QED
      BY <2>6, <3>3, <3>4, <3>5
  <2> QED
    BY <1>2, <2>4, <2>5, <2>6 DEF SetupStage
<1> QED
  BY <1>1, <1>2

LEMMA WorkerTellsTrue ==
  ASSUME Inv, PrInv, PrsKept, NEW w \in Workers, WorkerStep(w) \/ Crash(w)
  PROVE  TellsTrue
<1>1. CASE Block(w)
  <2>1. PICK j \in Jobs : worker[w].job = j
    BY <1>1, Holding DEF Block, At, ClaimLabels
  <2>2. "BLOCKED" \in JobStatus /\ StatusTrue("BLOCKED", j, prs'[j])
    BY DEF JobStatus, StatusTrue
  <2> QED
    BY <1>1, <2>1, <2>2, StepTellsTrue DEF Block
<1>2. CASE FailRun(w)
  <2>1. PICK j \in Jobs, held \in SUBSET MetaKeys :
          /\ worker[w].job = j /\ worker[w].meta = held
          /\ MetaTrue(held, j, prs[j])
          /\ worker[w].pc \in RunLabels => worker[w].run >= 1
    BY <1>2, HeldTrue DEF FailRun, At, ClaimLabels
  <2>2. worker[w].run >= 1 /\ MetaTrue(held, j, prs'[j])
    BY <1>2, <2>1, StillTrue DEF FailRun, At, RunLabels
  <2> QED
    BY <1>2, <2>1, <2>2, StepTellsTrue DEF FailRun
<1>3. CASE Crash(w)
  <2>1. NextIteration(w) /\ UNCHANGED <<jobs, runs>>
    BY <1>3 DEF Crash
  <2> QED
    BY <2>1, NextIterationMoves, WorkerStillTrue, JobsStillTrue, RunsStillTrue DEF TellsTrue
<1> QED
  BY <1>1, <1>2, <1>3, CodexStageTellsTrue, ValidationStageTellsTrue, PushStageTellsTrue,
     LifecycleStageTellsTrue, SetupStageTellsTrue DEF WorkerStep

LEMMA WorkerLeavesRequests ==
  ASSUME NEW w \in Workers, WorkerStep(w) \/ Crash(w)
  PROVE  UNCHANGED request
<1>1. CASE CodexStage(w) \/ ValidationStage(w) \/ Crash(w)
  BY <1>1
     DEF CodexStage, ClaimCodex, SkipCodex, CodexMissing, StartCodex, CodexFails,
         CodexSucceeds, MarkValidating, ValidationStage, ClaimValidating,
         ValidationMissing, ValidationFails, ValidationPasses, MarkValidated,
         BlockForMissing, Crash
<1>2. CASE PushStage(w) \/ LifecycleStage(w)
  BY <1>2
     DEF PushStage, ClaimReview, PushMissing, StartPush, PushFails, PushSucceeds,
         MarkRunPrCreated, MarkJobPrCreated, LifecycleStage, ClaimPrCreated,
         LifecycleMissing, NoteLifecycle, FindMerged, MarkCompleted, FindClosed,
         FindChecksFailed, GiveUpOnChecks, AutoRetry, BlockForMissing
<1>3. CASE SetupStage(w) \/ Block(w) \/ FailRun(w)
  BY <1>3
     DEF SetupStage, ClaimQueued, CheckoutFails, CheckoutValid, CreateJobRun,
         PrepareFails, PrepareSucceeds, MarkRunReady, MarkJobReady, Block, FailRun
<1> QED
  BY <1>1, <1>2, <1>3 DEF WorkerStep

\* The handlers: what they read was true, so what they write is.
LEMMA BeginTrue ==
  ASSUME Inv, PrInv, PrsKept, PrsTrue', NEW r \in Requests, NEW j \in Jobs, NEW route,
         NEW target, NEW feedback, NEW meta,
         Begin(r, route, j, target, feedback, meta),
         MetaTrue(meta, j, prs[j]), target = "REVIEW" => j \in DraftPrJobs
  PROVE  PrInv'
<1>1. JobsTrue' /\ RunsTrue' /\ \A w \in Workers : WorkerTrue(w)'
  BY JobsStillTrue, RunsStillTrue, WorkersStillTrue DEF Begin
<1>2. /\ request'[r].job = j /\ request'[r].meta = meta /\ request'[r].target = target
      /\ \A q \in Requests \ {r} : request'[q] = request[q]
  BY DEF Begin, Inv, TypeOK
<1>3. MetaTrue(meta, j, prs'[j])
  BY StillTrue
<1>4. \A q \in Requests : RequestTrue(q)'
  BY <1>2, <1>3, StillTrue DEF RequestTrue, PrInv
<1> QED
  BY <1>1, <1>4 DEF PrInv

LEMMA ReadsTrue ==
  ASSUME Inv, PrInv, PrsKept, PrsTrue', NEW r \in Requests, RouteReads(r)
  PROVE  PrInv'
<1>1. PICK j \in Jobs :
        \/ ReadForApproval(r, j) \/ ReadForRequeue(r, j)
        \/ \E feedback \in BOOLEAN : ReadForRetryStage(r, j, feedback)
  BY DEF RouteReads
<1>2. CASE ReadForApproval(r, j) \/ ReadForRequeue(r, j)
  <2>1. MetaTrue({}, j, prs[j])
    BY DEF MetaTrue
  <2>2. \E route : Begin(r, route, j, "QUEUED", FALSE, {})
    BY <1>2 DEF ReadForApproval, ReadForRequeue
  <2> QED
    BY <2>1, <2>2, BeginTrue
<1>3. ASSUME NEW feedback \in BOOLEAN, ReadForRetryStage(r, j, feedback)
      PROVE  PrInv'
  <2> DEFINE target == RetryTarget(jobs[j].status, LatestMeta(j), feedback)
             meta == RetryMeta(LatestMeta(j), feedback)
  <2>1. MetaTrue(LatestMeta(j), j, prs[j]) /\ StatusTrue(jobs[j].status, j, prs[j])
    BY LatestTrue DEF PrInv, JobsTrue
  <2>2. MetaTrue(meta, j, prs[j])
    BY <2>1 DEF RetryMeta, MetaTrue
  <2>3. target = "REVIEW" => j \in DraftPrJobs
    BY <2>1 DEF RetryTarget, MetaTrue, StatusTrue
  <2>4. Begin(r, "retryStage", j, target, feedback, meta)
    BY <1>3 DEF ReadForRetryStage
  <2> HIDE DEF target, meta
  <2> QED
    BY <2>2, <2>3, <2>4, BeginTrue
<1> QED
  BY <1>1, <1>2, <1>3

LEMMA ReplyTrue ==
  ASSUME Inv, PrInv, PrsKept, NEW r \in Requests, Reply(r)
  PROVE  \A q \in Requests : RequestTrue(q)'
<1>1. request'[r].job = None /\ \A q \in Requests \ {r} : request'[q] = request[q]
  BY DEF Reply, NoRequest, Inv, TypeOK
<1> QED
  BY <1>1, StillTrue, JobPipelineAssumption DEF RequestTrue, PrInv

LEMMA WritesTrue ==
  ASSUME Inv, PrInv, PrsKept, PrsTrue', NEW r \in Requests, RouteWrites(r)
  PROVE  PrInv'
<1>1. PICK j \in Jobs, target \in RouteTargets :
        /\ request[r].job = j /\ request[r].target = target
        /\ request[r].route = "retryStage" => request[r].run \in 1..Len(runs[j])
  BY JobPipelineAssumption
     DEF RouteWrites, ApproveReview, Requeue, RetryStage, RouteNames, Inv, RequestsHold
<1>2. Reply(r) /\ UNCHANGED worker
  BY DEF RouteWrites, ApproveReview, Requeue, RetryStage
<1>3. (\A q \in Requests : RequestTrue(q)') /\ \A w \in Workers : WorkerTrue(w)'
  BY <1>2, ReplyTrue, WorkersStillTrue
<1>4. CASE ApproveReview(r) \/ Requeue(r)
  <2>1. "QUEUED" \in JobStatus /\ StatusTrue("QUEUED", j, prs'[j])
    BY DEF JobStatus, StatusTrue
  <2>2. SetJob(j, "QUEUED") /\ UNCHANGED runs
    BY <1>1, <1>4 DEF ApproveReview, Requeue
  <2> QED
    BY <1>3, <2>1, <2>2, JobWriteTrue, RunsStillTrue DEF PrInv
<1>5. CASE RetryStage(r)
  <2>1. PICK n \in 1..Len(runs[j]), meta \in SUBSET MetaKeys :
          n = request[r].run /\ meta = request[r].meta
    BY <1>1, <1>5 DEF RetryStage, Inv, TypeOK
  <2>2. SetRun(j, n, RetriedRunStatus(target), meta) /\ SetJob(j, target)
    BY <1>1, <1>5, <2>1 DEF RetryStage
  <2>3. MetaTrue(meta, j, prs[j]) /\ (target = "REVIEW" => j \in DraftPrJobs)
    BY <1>1, <2>1 DEF PrInv, RequestTrue
  <2>4. MetaTrue(meta, j, prs'[j])
    BY <2>3, StillTrue
  <2>5. target \in JobStatus /\ StatusTrue(target, j, prs'[j])
    BY <2>3, RouteTargetIsStatus DEF StatusTrue, RouteTargets
  <2>6. JobsTrue'
    BY <2>2, <2>5, JobWriteTrue
  <2>7. RunsTrue'
    BY <2>2, <2>4, RunWriteTrue
  <2> QED
    BY <1>3, <2>6, <2>7 DEF PrInv
<1> QED
  BY <1>4, <1>5 DEF RouteWrites

LEMMA GuardedTrue ==
  ASSUME Inv, PrInv, PrsKept, PrsTrue', NEW j \in Jobs,
         Cancel(j) \/ ApproveCodex(j) \/ ApprovePr(j)
  PROVE  PrInv'
<1>1. UNCHANGED <<runs, worker, request>>
  BY DEF Cancel, ApproveCodex, ApprovePr
<1>2. StatusTrue(jobs[j].status, j, prs[j])
  BY DEF PrInv, JobsTrue
<1>3. PICK status \in {"CANCELED", "CODEX_APPROVED", "PR_APPROVED"} :
        SetJob(j, status) /\ (status = "PR_APPROVED" => jobs[j].status = "REVIEW")
  BY DEF Cancel, ApproveCodex, ApprovePr
<1>4. status \in JobStatus /\ StatusTrue(status, j, prs'[j])
  BY <1>2, <1>3 DEF JobStatus, StatusTrue
<1> QED
  BY <1>1, <1>3, <1>4, JobWriteTrue, RunsStillTrue, WorkersStillTrue, RequestsStillTrue
     DEF PrInv

LEMMA PrInitial == Init => PrInv
<1> SUFFICES ASSUME Init PROVE PrInv
  OBVIOUS
<1>1. PrsTrue /\ JobsTrue
  BY DEF Init, PrsTrue, JobsTrue, StatusTrue
<1>2. RunsTrue
  <2>1. \A j \in Jobs : runs[j] = <<>> /\ Len(runs[j]) = 0
    BY DEF Init
  <2> QED
    BY <2>1 DEF RunsTrue
<1>3. \A w \in Workers : worker[w].job = None
  BY DEF Init, LoopTop
<1>4. \A r \in Requests : request[r].job = None
  BY DEF Init, NoRequest
<1> QED
  BY <1>1, <1>2, <1>3, <1>4, JobPipelineAssumption DEF PrInv, WorkerTrue, RequestTrue

LEMMA PrStep == Inv /\ PrInv /\ [Next]_vars => PrInv' /\ PrsKept
<1> SUFFICES ASSUME Inv, PrInv, [Next]_vars
             PROVE  PrInv' /\ PrsKept
  OBVIOUS
<1>1. PrsKept /\ PrsTrue'
  BY PullRequestsStay
<1>2. ASSUME UNCHANGED <<jobs, runs, worker, request>>
      PROVE  PrInv'
  BY <1>1, <1>2, JobsStillTrue, RunsStillTrue, WorkersStillTrue, RequestsStillTrue
     DEF PrInv
<1>3. ASSUME NEW w \in Workers, WorkerStep(w) \/ Crash(w)
      PROVE  PrInv'
  <2>1. TellsTrue
    BY <1>1, <1>3, WorkerTellsTrue
  <2>2. UNCHANGED request
    BY <1>3, WorkerLeavesRequests
  <2> QED
    BY <1>1, <2>1, <2>2, RequestsStillTrue DEF TellsTrue, PrInv
<1>4. CASE \/ \E j \in Jobs, state \in PrState : ResolvePr(j, state)
           \/ \E p \in BOOLEAN : SetPaused(p)
           \/ UNCHANGED vars
  <2>1. UNCHANGED <<jobs, runs, worker, request>>
    BY <1>4 DEF ResolvePr, SetPaused, vars
  <2> QED
    BY <1>1, <1>2, <2>1
<1> QED
  BY <1>1, <1>3, <1>4, ReadsTrue, WritesTrue, GuardedTrue DEF Next

\* The answers a page holds, however old.
PageTrue ==
  page.id \in Jobs =>
    MetaTrue(page.run.meta, page.id, prs[page.id])
      /\ StatusTrue(page.status, page.id, prs[page.id])

\* Without answers it says nothing.
LEMMA BlankTrue ==
  ASSUME NEW id, NEW pr
  PROVE  MetaTrue({}, id, pr) /\ StatusTrue("none", id, pr)
         /\ NoRun.meta = {} /\ Closed.run = NoRun /\ Closed.status = "none"
BY DEF MetaTrue, StatusTrue, NoRun, Closed

LEMMA BlankPageTrue ==
  ASSUME page' = [Closed EXCEPT !.at = "failed"] \/ \E j : page' = Loading(j)
  PROVE  PageTrue'
<1>1. page'.run = NoRun /\ page'.status = "none"
  BY DEF Closed, Loading
<1>2. page'.run.meta = {}
  BY <1>1 DEF NoRun
<1> QED
  BY <1>1, <1>2, BlankTrue DEF PageTrue

LEMMA SamePageTrue ==
  ASSUME PageTrue, PrsKept,
         page'.id = page.id, page'.status = page.status, page'.run = page.run
  PROVE  PageTrue'
BY StillTrue DEF PageTrue

\* An answer is what the database says when it is given.
LEMMA AnswerTrue ==
  ASSUME Inv, PrInv, PageInv, PageTrue, PrsKept, NEW answer \in Answers,
         answer \in page.due, NEW status \in {page.status, jobs[page.id].status},
         NEW run \in {page.run, LatestRun(page.id), NoRun},
         page' = [Got(answer) EXCEPT !.status = status, !.run = run]
  PROVE  PageTrue'
<1> DEFINE j == page.id
<1>1. j \in Jobs
  BY JobPageAssumption DEF PageInv
<1>2. page'.id = j /\ page'.status = status /\ page'.run = run
  BY DEF Got, PageInv, PageTyped
<1>3. StatusTrue(status, j, prs[j])
  BY <1>1 DEF PrInv, JobsTrue, PageTrue
<1>4. MetaTrue(run.meta, j, prs[j])
  BY <1>1, LatestTrue, LatestRunTyped, BlankTrue DEF PageTrue
<1> QED
  BY <1>1, <1>2, <1>3, <1>4, StillTrue DEF PageTrue

LEMMA PageStepTrue ==
  ASSUME Inv, PrInv, PageInv, PageTrue, PrsKept, PageStep
  PROVE  PageTrue'
<1>1. CASE GetJob
  <2>1. PICK status, run :
          /\ status = jobs[page.id].status
          /\ run = IF page.run = NoRun THEN LatestRun(page.id) ELSE page.run
    OBVIOUS
  <2>2. Got("job").run = page.run
    BY DEF Got, PageInv, PageTyped
  <2>3. page' = [Got("job") EXCEPT !.status = status, !.run = run] /\ "job" \in page.due
    BY <1>1, <2>1, <2>2 DEF GetJob
  <2> QED
    BY <2>1, <2>3, AnswerTrue DEF Answers
<1>2. CASE GetJobRuns
  <2>1. PICK run \in {LatestRun(page.id), NoRun} :
          page' = [Got("runs") EXCEPT !.run = IF run = NoRun THEN @ ELSE run]
    BY <1>2 DEF GetJobRuns
  <2>2. PICK status, shown :
          status = page.status /\ shown = IF run = NoRun THEN page.run ELSE run
    OBVIOUS
  <2>3. Got("runs").run = page.run /\ Got("runs").status = page.status
        /\ DOMAIN Got("runs") = {"at", "id", "due", "status", "run", "by"}
    BY DEF Got, PageInv, PageTyped
  <2>4. page' = [Got("runs") EXCEPT !.status = status, !.run = shown]
    BY <2>1, <2>2, <2>3 DEF Got, PageInv, PageTyped
  <2> QED
    BY <1>2, <2>1, <2>2, <2>4, AnswerTrue DEF Answers, GetJobRuns
<1>3. CASE \/ \E j \in PageJobs : Open(j)
           \/ GetJobFails \/ PressApproveCodex \/ PressApprovePr \/ PressCancel
           \/ Answered \/ Refused
  BY <1>3, BlankPageTrue
     DEF Open, GetJobFails, PressApproveCodex, PressApprovePr, PressCancel, Answered,
         Refused, LoadsAgain
<1>4. CASE \E r \in Requests :
             PressRequeue(r) \/ \E feedback \in BOOLEAN : PressRetry(r, feedback)
  <2>1. PICK r \in Requests : page' = [page EXCEPT !.by = r]
    BY <1>4 DEF PressRequeue, PressRetry, WaitsFor
  <2>2. page'.id = page.id /\ page'.status = page.status /\ page'.run = page.run
    BY <2>1 DEF PageInv, PageTyped
  <2> QED
    BY <2>2, SamePageTrue
<1> QED
  BY <1>1, <1>2, <1>3, <1>4 DEF PageStep

LEMMA PageTruth == PageSpec => [](Inv /\ PageInv /\ PrInv /\ PageTrue)
<1>1. PageInit => Inv /\ PageInv /\ PrInv /\ PageTrue
  <2> SUFFICES ASSUME PageInit PROVE Inv /\ PageInv /\ PrInv /\ PageTrue
    OBVIOUS
  <2>1. Inv /\ PageInv /\ PrInv
    BY PageInitial, InvInitial, PrInitial
  <2>2. PageTrue
    BY JobPageAssumption, JobPipelineAssumption DEF PageInit, Closed, PageTrue
  <2> QED
    BY <2>1, <2>2
<1>2. Inv /\ PageInv /\ PrInv /\ PageTrue /\ [PageNext]_pageVars
        => (Inv /\ PageInv /\ PrInv /\ PageTrue)'
  <2> SUFFICES ASSUME Inv, PageInv, PrInv, PageTrue, [PageNext]_pageVars
               PROVE  (Inv /\ PageInv /\ PrInv /\ PageTrue)'
    OBVIOUS
  <2>1. PageInv' /\ [Next]_vars
    BY PageNextMoves
  <2>2. Inv' /\ PrInv' /\ PrsKept
    BY <2>1, InvStep, PrStep
  <2>3. PageTrue'
    <3>1. CASE PageStep
      BY <2>2, <3>1, PageStepTrue
    <3>2. CASE UNCHANGED page
      BY <2>2, <3>2, SamePageTrue
    <3> QED
      BY <3>1, <3>2 DEF PageNext, pageVars
  <2> QED
    BY <2>1, <2>2, <2>3
<1> QED
  BY <1>1, <1>2, PTL DEF PageSpec

\* However old the answers of a page are, and whichever came first: where it shows the
\* draft PR of a job that asked for one as there, the branch has had one.
THEOREM DraftPrsShownExist == PageSpec => []DraftPrShownExists
<1>1. Inv /\ PageInv /\ PrInv /\ PageTrue => DraftPrShownExists
  <2> SUFFICES ASSUME PageInv, PageTrue, page.at = "shown", page.id \in DraftPrJobs,
                      ShownStages[DraftPrStep] = "complete"
               PROVE  prs[page.id] # "none"
    BY DEF DraftPrShownExists
  <2> DEFINE j == page.id
             status == page.status
             run == page.run
  <2>1. j \in Jobs
    BY JobPageAssumption DEF PageInv
  <2>2. HasPr(run) \/ status \in {"PR_CREATED", "COMPLETED"}
    BY DEF ShownStages, Stages, Stage, DraftPrStep
  <2> QED
    BY <2>1, <2>2 DEF PageTrue, MetaTrue, StatusTrue, HasPr
<1> QED
  BY PageTruth, <1>1, PTL
------------------------------------------------------------------------------
(* Ends and beginnings. *)

\* The pull request of the job was approved and merged, and its latest run tells of it.
Merged(j) == prs[j] = "merged" /\ reviewed[j] /\ "prUrl" \in LatestMeta(j)

DoneInv ==
  /\ \A j \in Jobs : jobs[j].status = "PR_CREATED" => reviewed[j]
  /\ \A w \in Workers : worker[w].pc = "complete" => Merged(worker[w].job)
  /\ \A j \in DraftPrJobs : jobs[j].status = "COMPLETED" => Unattended(j) /\ Merged(j)
  /\ \A j \in Jobs : jobs[j].status = "NEEDS_REVIEW" =>
       Unattended(j) /\ runs[j] = <<>> /\ spends[j] = 0

\* The statuses that those are about.
TellingStatus == {"PR_CREATED", "COMPLETED", "NEEDS_REVIEW"}

\* A step of nobody that has a job, and that gives no job one of those.
LEMMA DoneKept ==
  ASSUME Inv, DoneInv, UNCHANGED <<worker, spends>>,
         \A j \in Jobs : /\ reviewed[j] => reviewed'[j]
                         /\ prs[j] = "merged" => prs'[j] = "merged",
         \A j \in Jobs : \/ runs'[j] = runs[j]
                         \/ Unattended(j) /\ jobs'[j].status \notin TellingStatus,
         \A j \in Jobs : \/ jobs'[j].status = jobs[j].status
                         \/ jobs'[j].status \notin TellingStatus
  PROVE  DoneInv'
<1>1. ASSUME NEW j \in Jobs, Merged(j), runs'[j] = runs[j]
      PROVE  Merged(j)'
  BY <1>1 DEF Merged, LatestMeta
<1>2. (\A w \in Workers : worker[w].pc = "complete" => Merged(worker[w].job))'
  <2> SUFFICES ASSUME NEW w \in Workers, worker[w].pc = "complete"
               PROVE  Merged(worker[w].job)'
    OBVIOUS
  <2>1. PICK j \in Jobs : worker[w].job = j /\ ~Unattended(j)
    BY Holding DEF ClaimLabels, Unattended
  <2>2. Merged(j)
    BY <2>1 DEF DoneInv
  <2>3. Merged(j)'
    BY <1>1, <2>1, <2>2
  <2> QED
    BY <2>1, <2>3
<1>3. \A j \in DraftPrJobs : jobs'[j].status = "COMPLETED" => Unattended(j)' /\ Merged(j)'
  BY <1>1, JobPipelineAssumption DEF DoneInv, Unattended, TellingStatus
<1>4. \A j \in Jobs : jobs'[j].status = "NEEDS_REVIEW" =>
        Unattended(j)' /\ runs'[j] = <<>> /\ spends'[j] = 0
  BY DEF DoneInv, Unattended, TellingStatus
<1>5. \A j \in Jobs : jobs'[j].status = "PR_CREATED" => reviewed'[j]
  BY DEF DoneInv, TellingStatus
<1> QED
  BY <1>2, <1>3, <1>4, <1>5 DEF DoneInv

LEMMA OutsideDone ==
  ASSUME TakingTurns, Inv, RowsInv, DoneInv,
         \/ \E r \in Requests : RouteReads(r) \/ RouteWrites(r)
         \/ \E j \in Jobs : Cancel(j) \/ ApproveCodex(j) \/ ApprovePr(j)
         \/ \E j \in Jobs, state \in PrState : ResolvePr(j, state)
         \/ \E p \in BOOLEAN : SetPaused(p)
         \/ UNCHANGED vars
  PROVE  DoneInv'
<1>1. ASSUME UNCHANGED <<jobs, runs, worker, spends, reviewed>>,
             \A j \in Jobs : prs[j] = "merged" => prs'[j] = "merged"
      PROVE  DoneInv'
  BY <1>1, DoneKept
<1>2. CASE (\E r \in Requests : RouteReads(r)) \/ (\E p \in BOOLEAN : SetPaused(p))
           \/ UNCHANGED vars
  <2>1. UNCHANGED <<jobs, runs, prs, worker, spends, reviewed>>
    BY <1>2 DEF RouteReads, ReadForApproval, ReadForRequeue, ReadForRetryStage, Begin,
                SetPaused, vars, history
  <2> QED
    BY <1>1, <2>1
<1>3. ASSUME NEW j \in Jobs, NEW state \in PrState, ResolvePr(j, state)
      PROVE  DoneInv'
  <2>1. \A k \in Jobs : prs[k] = "merged" => prs'[k] = "merged"
    BY <1>3 DEF ResolvePr, Inv, TypeOK
  <2>2. UNCHANGED <<jobs, runs, worker, spends, reviewed>>
    BY <1>3 DEF ResolvePr, history
  <2> QED
    BY <1>1, <2>1, <2>2
<1>4. ASSUME NEW j \in Jobs, Cancel(j) \/ ApproveCodex(j) \/ ApprovePr(j)
      PROVE  DoneInv'
  <2>1. PICK status \in {"CANCELED", "CODEX_APPROVED", "PR_APPROVED"} : SetJob(j, status)
    BY <1>4 DEF Cancel, ApproveCodex, ApprovePr
  <2>2. /\ status \in JobStatus /\ status \notin TellingStatus
        /\ jobs'[j].status = status /\ \A k \in Jobs \ {j} : jobs'[k] = jobs[k]
    BY <2>1, SetJobRow DEF JobStatus, TellingStatus
  <2>3. UNCHANGED <<runs, prs, worker, spends>>
    BY <1>4 DEF Cancel, ApproveCodex, ApprovePr, history
  <2>4. \A k \in Jobs : reviewed[k] => reviewed'[k]
    BY <1>4 DEF Cancel, ApproveCodex, ApprovePr, history, Inv, TypeOK
  <2> QED
    BY <2>2, <2>3, <2>4, DoneKept
<1>5. ASSUME NEW r \in Requests, RouteWrites(r)
      PROVE  DoneInv'
  <2>1. PICK j \in Jobs, target \in RouteTargets :
          request[r].job = j /\ request[r].target = target
    BY <1>5, JobPipelineAssumption
       DEF RouteWrites, ApproveReview, Requeue, RetryStage, RouteNames, Inv, RequestsHold
  <2>2. Unattended(j)
    <3>1. Current(r)
      BY <1>5, JobPipelineAssumption
         DEF RouteWrites, ApproveReview, Requeue, RetryStage, RouteNames, RowsInv, Idle,
             NoRequest
    <3> QED
      BY <2>1, <3>1 DEF Current
  <2>3. UNCHANGED <<prs, worker, spends, reviewed>>
    BY <1>5 DEF RouteWrites, ApproveReview, Requeue, RetryStage, history
  <2>4. PICK status \in RouteTargets : SetJob(j, status)
    BY <1>5, <2>1 DEF RouteWrites, ApproveReview, Requeue, RetryStage, RouteTargets
  <2>5. /\ status \notin TellingStatus
        /\ jobs'[j].status = status /\ \A k \in Jobs \ {j} : jobs'[k] = jobs[k]
    BY <2>4, SetJobRow, RouteTargetIsStatus DEF RouteTargets, TellingStatus
  <2>6. \A k \in Jobs \ {j} : runs'[k] = runs[k]
    BY <1>5, <2>1
       DEF RouteWrites, ApproveReview, Requeue, RetryStage, SetRun, Inv, TypeOK
  <2> QED
    BY <2>2, <2>3, <2>5, <2>6, DoneKept
<1> QED
  BY <1>2, <1>3, <1>4, <1>5

\* What a claim leaves alone, and the statuses of the jobs it may take.
ClaimableStatus == {"CODEX_APPROVED", "VALIDATING", "PR_APPROVED", "PR_CREATED", "QUEUED"}
OnlyClaims(w) ==
  /\ worker'[w].pc # "complete"
  /\ \A j \in Jobs : worker'[w].job = j => jobs[j].status \in ClaimableStatus
  /\ \A j \in Jobs : \/ jobs'[j].status = jobs[j].status
                     \/ jobs'[j].status \notin TellingStatus
  /\ \A j \in Jobs : jobs[j].status # "CODEX_APPROVED" =>
       reviewed'[j] = reviewed[j] /\ spends'[j] = spends[j]

LEMMA StepIsClaim ==
  ASSUME NEW w \in Workers, WorkerStep(w), worker[w].pc \in ClaimLabels
  PROVE  \/ ClaimCodex(w) \/ ClaimValidating(w) \/ ClaimReview(w) \/ ClaimPrCreated(w)
         \/ ClaimQueued(w)
<1>1. CASE CodexStage(w) \/ ValidationStage(w)
  BY <1>1
     DEF ClaimLabels, At, CodexStage, SkipCodex, CodexMissing, StartCodex, CodexFails,
         CodexSucceeds, MarkValidating, ValidationStage, ValidationMissing,
         ValidationFails, ValidationPasses, MarkValidated
<1>2. CASE PushStage(w) \/ LifecycleStage(w)
  BY <1>2
     DEF ClaimLabels, At, PushStage, PushMissing, StartPush, PushFails, PushSucceeds,
         MarkRunPrCreated, MarkJobPrCreated, LifecycleStage, LifecycleMissing,
         NoteLifecycle, FindMerged, MarkCompleted, FindClosed, FindChecksFailed,
         GiveUpOnChecks, AutoRetry, CanInspect
<1>3. CASE SetupStage(w) \/ Block(w) \/ FailRun(w)
  BY <1>3
     DEF ClaimLabels, At, SetupStage, CheckoutFails, CheckoutValid, CreateJobRun,
         PrepareFails, PrepareSucceeds, MarkRunReady, MarkJobReady, Block, FailRun
<1> QED
  BY <1>1, <1>2, <1>3 DEF WorkerStep

LEMMA ClaimsOnly ==
  ASSUME Inv, NEW w \in Workers, worker[w].job \notin Jobs,
         \/ ClaimCodex(w) \/ ClaimValidating(w) \/ ClaimReview(w) \/ ClaimPrCreated(w)
         \/ ClaimQueued(w)
  PROVE  OnlyClaims(w)
<1>1. CASE FoundPaused(w) /\ UNCHANGED history
  BY <1>1, NextIterationLocals, JobPipelineAssumption DEF FoundPaused, history, OnlyClaims
<1>2. ASSUME NEW label \in ClaimLabels, Goto(w, label), UNCHANGED <<jobs, history>>
      PROVE  OnlyClaims(w)
  BY <1>2, GotoLocals DEF history, ClaimLabels, OnlyClaims
<1>3. ASSUME NEW status \in {"VALIDATING", "PR_APPROVED", "PR_CREATED"},
             NEW label \in {"validate", "push", "inspect"},
             FoundUnleased(w, status, label), UNCHANGED history
      PROVE  OnlyClaims(w)
  BY <1>3, ClaimLocals DEF FoundUnleased, history, OnlyClaims, ClaimableStatus
<1>4. ASSUME NEW j \in Jobs, jobs[j].status \in {"CODEX_APPROVED", "QUEUED"},
             NEW status \in {"RUNNING", "CLAIMED"}, SetJob(j, status),
             worker'[w].job = j, worker'[w].pc # "complete",
             \A k \in Jobs : jobs[k].status # "CODEX_APPROVED" =>
               reviewed'[k] = reviewed[k] /\ spends'[k] = spends[k]
      PROVE  OnlyClaims(w)
  <2>1. status \in JobStatus /\ status \notin TellingStatus
    BY DEF JobStatus, TellingStatus
  <2>2. jobs'[j].status = status /\ \A k \in Jobs \ {j} : jobs'[k] = jobs[k]
    BY <1>4, <2>1, SetJobRow
  <2> QED
    BY <1>4, <2>1, <2>2 DEF OnlyClaims, ClaimableStatus
<1>5. CASE ClaimCodex(w)
  <2>1. CASE FoundNone(w, "CODEX_APPROVED", "validationClaim") /\ UNCHANGED history
    BY <1>2, <2>1 DEF FoundNone, ClaimLabels
  <2>2. ASSUME NEW j \in Jobs, jobs[j].status = "CODEX_APPROVED", SetJob(j, "RUNNING"),
               NEW label \in {"codexStart", "codexSkip"}, Claim(w, j, label),
               spends' = [spends EXCEPT ![j] = @ + 1],
               reviewed' = [reviewed EXCEPT ![j] = FALSE]
        PROVE  OnlyClaims(w)
    <3>1. worker'[w].job = j /\ worker'[w].pc # "complete"
      BY <2>2, ClaimLocals
    <3>2. \A k \in Jobs \ {j} : reviewed'[k] = reviewed[k] /\ spends'[k] = spends[k]
      BY <2>2 DEF Inv, TypeOK
    <3> QED
      BY <1>4, <2>2, <3>1, <3>2
  <2> QED
    BY <1>5, <2>1, <2>2 DEF ClaimCodex
<1>6. CASE ClaimQueued(w)
  <2>1. UNCHANGED history /\ UNCHANGED <<reviewed, spends>>
    BY <1>6 DEF ClaimQueued, history
  <2>2. CASE FoundNone(w, "QUEUED", "codexClaim")
    BY <1>2, <2>1, <2>2 DEF FoundNone, ClaimLabels
  <2>3. ASSUME NEW j \in Jobs, jobs[j].status = "QUEUED", SetJob(j, "CLAIMED"),
               worker' = [worker EXCEPT ![w] = [LoopTop EXCEPT !.pc = "checkout", !.job = j]]
        PROVE  OnlyClaims(w)
    <3>1. worker'[w].job = j /\ worker'[w].pc # "complete"
      BY <2>3 DEF Inv, TypeOK, LoopTop
    <3> QED
      BY <1>4, <2>1, <2>3, <3>1
  <2> QED
    BY <1>1, <1>6, <2>1, <2>2, <2>3 DEF ClaimQueued
<1>7. CASE ClaimValidating(w) \/ ClaimReview(w) \/ ClaimPrCreated(w)
  <2>1. UNCHANGED history
    BY <1>7 DEF ClaimValidating, ClaimReview, ClaimPrCreated
  <2>2. \/ FoundPaused(w)
        \/ \E label \in ClaimLabels : Goto(w, label) /\ UNCHANGED jobs
        \/ \E status \in {"VALIDATING", "PR_APPROVED", "PR_CREATED"},
              label \in {"validate", "push", "inspect"} : FoundUnleased(w, status, label)
    BY <1>7 DEF ClaimValidating, ClaimReview, ClaimPrCreated, FoundNone, ClaimLabels
  <2> QED
    BY <1>1, <1>2, <1>3, <2>1, <2>2
<1> QED
  BY <1>5, <1>6, <1>7

LEMMA ClaimsDone ==
  ASSUME TakingTurns, Inv, RowsInv, DoneInv, NEW w \in Workers, WorkerStep(w),
         worker[w].pc \in ClaimLabels
  PROVE  DoneInv'
<1>1. worker[w].job \notin Jobs
  <2>1. ASSUME NEW j \in Jobs, worker[w].job = j
        PROVE  FALSE
    BY <2>1, AttendedFacts DEF Attended, AttendedAs
  <2> QED
    BY <2>1
<1>2. UNCHANGED <<runs, prs>>
  BY StepIsClaim DEF ClaimCodex, ClaimValidating, ClaimReview, ClaimPrCreated, ClaimQueued
<1>3. OnlyClaims(w) /\ \A v \in Workers : v = w
  BY <1>1, StepIsClaim, ClaimsOnly DEF TakingTurns, SoleWorker
<1>4. \A j \in Jobs : jobs'[j].status \in TellingStatus =>
        /\ jobs'[j].status = jobs[j].status
        /\ reviewed'[j] = reviewed[j] /\ spends'[j] = spends[j]
        /\ jobs[j].status # "PR_CREATED" => Unattended(j)'
  <2> SUFFICES ASSUME NEW j \in Jobs, jobs'[j].status \in TellingStatus
               PROVE  /\ jobs'[j].status = jobs[j].status
                      /\ reviewed'[j] = reviewed[j] /\ spends'[j] = spends[j]
                      /\ jobs[j].status # "PR_CREATED" => Unattended(j)'
    OBVIOUS
  <2>1. jobs'[j].status = jobs[j].status /\ jobs[j].status # "CODEX_APPROVED"
    BY <1>3 DEF OnlyClaims, TellingStatus
  <2>2. jobs[j].status # "PR_CREATED" => worker'[w].job # j
    BY <1>3, <2>1 DEF OnlyClaims, TellingStatus, ClaimableStatus
  <2> QED
    BY <1>3, <2>1, <2>2 DEF OnlyClaims, Unattended
<1>5. \A j \in Jobs : jobs'[j].status \in TellingStatus /\ Merged(j) => Merged(j)'
  BY <1>2, <1>4 DEF Merged, LatestMeta
<1>6. (\A j \in DraftPrJobs : jobs[j].status = "COMPLETED" => Unattended(j) /\ Merged(j))'
  BY <1>4, <1>5, JobPipelineAssumption DEF DoneInv, TellingStatus
<1>7. (\A v \in Workers : worker[v].pc = "complete" => Merged(worker[v].job))'
  BY <1>3 DEF OnlyClaims
<1>8. (\A j \in Jobs : jobs[j].status = "NEEDS_REVIEW" =>
         Unattended(j) /\ runs[j] = <<>> /\ spends[j] = 0)'
  BY <1>2, <1>4 DEF DoneInv, TellingStatus
<1>9. (\A j \in Jobs : jobs[j].status = "PR_CREATED" => reviewed[j])'
  BY <1>4 DEF DoneInv, TellingStatus
<1> QED
  BY <1>6, <1>7, <1>8, <1>9 DEF DoneInv

\* What a step of a worker that has job j leaves alone, and what it makes of j.
OnlyWrites(w, j) ==
  /\ \A k \in Jobs \ {j} : jobs'[k] = jobs[k] /\ runs'[k] = runs[k] /\ prs'[k] = prs[k]
  /\ UNCHANGED <<reviewed, spends>>
  /\ worker'[w].job \in {None, j}
  /\ jobs'[j].status = "PR_CREATED" => jobs[j].status = "PR_CREATED" \/ At(w, "prJob")
  /\ jobs'[j].status = "COMPLETED" =>
       jobs[j].status = "COMPLETED" \/ MarkCompleted(w) \/ j \notin DraftPrJobs
  /\ jobs'[j].status = "NEEDS_REVIEW" => jobs[j].status = "NEEDS_REVIEW"
  /\ worker'[w].pc = "complete" => FindMerged(w)

LEMMA WritesOnly ==
  ASSUME Inv, NEW w \in Workers, NEW j \in Jobs, worker[w].job = j,
         UNCHANGED <<reviewed, spends>>,
         \/ UNCHANGED jobs
         \/ \E status \in JobStatus :
              /\ MarkJob(w, status)
              /\ status = "PR_CREATED" => At(w, "prJob")
              /\ status = "COMPLETED" => MarkCompleted(w) \/ j \notin DraftPrJobs
              /\ status # "NEEDS_REVIEW",
         \/ UNCHANGED runs
         \/ \E status, meta : MarkRun(w, status, meta),
         UNCHANGED prs,
         \/ NextIteration(w)
         \/ \E label : Goto(w, label) /\ (label = "complete" => FindMerged(w))
  PROVE  OnlyWrites(w, j)
<1>1. \A k \in Jobs \ {j} : runs'[k] = runs[k]
  BY DEF MarkRun, SetRun, Inv, TypeOK
<1>2. worker'[w].job \in {None, j} /\ (worker'[w].pc = "complete" => FindMerged(w))
  <2>1. CASE NextIteration(w)
    BY <2>1, NextIterationLocals
  <2>2. ASSUME NEW label, Goto(w, label), label = "complete" => FindMerged(w)
        PROVE  worker'[w].job \in {None, j} /\ (worker'[w].pc = "complete" => FindMerged(w))
    BY <2>2, GotoLocals
  <2> QED
    BY <2>1, <2>2
<1>3. CASE UNCHANGED jobs
  BY <1>1, <1>2, <1>3 DEF OnlyWrites
<1>4. ASSUME NEW status \in JobStatus, MarkJob(w, status),
             status = "PR_CREATED" => At(w, "prJob"),
             status = "COMPLETED" => MarkCompleted(w) \/ j \notin DraftPrJobs,
             status # "NEEDS_REVIEW"
      PROVE  OnlyWrites(w, j)
  <2>1. jobs'[j].status = status /\ \A k \in Jobs \ {j} : jobs'[k] = jobs[k]
    BY <1>4, SetJobRow DEF MarkJob
  <2> QED
    BY <1>1, <1>2, <1>4, <2>1 DEF OnlyWrites
<1> QED
  BY <1>3, <1>4

LEMMA MissingWrites ==
  ASSUME Inv, NEW w \in Workers, NEW j \in Jobs, worker[w].job = j, NEW meta,
         BlockForMissing(w, meta)
  PROVE  OnlyWrites(w, j)
<1>1. "BLOCKED" \in JobStatus /\ MarkJob(w, "BLOCKED") /\ UNCHANGED <<runs, prs>>
      /\ UNCHANGED <<reviewed, spends>>
  BY DEF BlockForMissing, JobStatus, history
<1>2. jobs'[j].status = "BLOCKED" /\ \A k \in Jobs \ {j} : jobs'[k] = jobs[k]
  BY <1>1, SetJobRow DEF MarkJob
<1>3. worker'[w].job \in {None, j} /\ worker'[w].pc # "complete"
  BY NextIterationLocals DEF BlockForMissing, Inv, TypeOK, WorkerState
<1> QED
  BY <1>1, <1>2, <1>3 DEF OnlyWrites

LEMMA HeldStepWrites ==
  ASSUME Inv, NEW w \in Workers, WorkerStep(w), NEW j \in Jobs, worker[w].job = j,
         worker[w].pc \notin ClaimLabels
  PROVE  OnlyWrites(w, j)
<1> USE DEF At
<1>1. {"READY_FOR_CODEX", "VALIDATING", "BLOCKED", "REVIEW", "COMPLETED", "PR_CREATED",
       "RUNNING"} \subseteq JobStatus
  BY DEF JobStatus
<1>2. CASE CodexStage(w)
  <2>1. CASE CodexMissing(w)
    BY <2>1, MissingWrites DEF CodexMissing
  <2>2. CASE SkipCodex(w) \/ MarkValidating(w)
    BY <1>1, <2>2, WritesOnly DEF SkipCodex, MarkValidating, history
  <2>3. CASE StartCodex(w) \/ CodexFails(w) \/ CodexSucceeds(w)
    BY <2>3, WritesOnly DEF StartCodex, CodexFails, CodexSucceeds, history
  <2> QED
    BY <1>2, <2>1, <2>2, <2>3 DEF CodexStage, ClaimCodex, ClaimLabels
<1>3. CASE ValidationStage(w)
  <2>1. CASE ValidationMissing(w)
    BY <2>1, MissingWrites DEF ValidationMissing
  <2>2. CASE ValidationPasses(w)
    BY <1>1, <2>2, WritesOnly DEF ValidationPasses
  <2>3. CASE ValidationFails(w) \/ MarkValidated(w)
    BY <2>3, WritesOnly DEF ValidationFails, MarkValidated, history
  <2> QED
    BY <1>3, <2>1, <2>2, <2>3 DEF ValidationStage, ClaimValidating, ClaimLabels
<1>4. CASE PushStage(w)
  <2>1. CASE PushMissing(w)
    BY <2>1, MissingWrites DEF PushMissing
  <2>2. CASE StartPush(w) \/ PushFails(w) \/ MarkRunPrCreated(w)
    BY <2>2, WritesOnly DEF StartPush, PushFails, MarkRunPrCreated, history
  <2>3. CASE MarkJobPrCreated(w)
    BY <1>1, <2>3, WritesOnly DEF MarkJobPrCreated, history
  <2>4. CASE PushSucceeds(w)
    <3>1. worker'[w].job = j /\ worker'[w].pc = "prRun"
      BY <2>4, GotoLocals DEF PushSucceeds
    <3>2. \A k \in Jobs \ {j} : prs'[k] = prs[k]
      BY <2>4 DEF PushSucceeds, Inv, TypeOK
    <3> QED
      BY <2>4, <3>1, <3>2 DEF PushSucceeds, OnlyWrites, history
  <2> QED
    BY <1>4, <2>1, <2>2, <2>3, <2>4 DEF PushStage, ClaimReview, ClaimLabels
<1>5. CASE LifecycleStage(w)
  <2>1. CASE LifecycleMissing(w)
    BY <2>1, MissingWrites DEF LifecycleMissing
  <2>2. CASE NoteLifecycle(w) \/ FindClosed(w) \/ GiveUpOnChecks(w)
    BY <2>2, WritesOnly DEF NoteLifecycle, FindClosed, GiveUpOnChecks, history
  <2>3. CASE FindMerged(w)
    <3>1. /\ UNCHANGED <<reviewed, spends>> /\ UNCHANGED jobs /\ UNCHANGED prs
          /\ MarkRun(w, "SUCCEEDED", worker[w].meta) /\ Goto(w, "complete")
      BY <2>3 DEF FindMerged, history
    <3> QED
      BY <2>3, <3>1, WritesOnly
  <2>4. CASE MarkCompleted(w)
    <3>1. /\ UNCHANGED <<reviewed, spends>> /\ UNCHANGED runs /\ UNCHANGED prs
          /\ MarkJob(w, "COMPLETED") /\ NextIteration(w)
      BY <2>4 DEF MarkCompleted, history
    <3> QED
      BY <1>1, <2>4, <3>1, WritesOnly
  <2>5. CASE FindChecksFailed(w)
    BY <2>5, WritesOnly DEF FindChecksFailed, history
  <2>6. CASE AutoRetry(w)
    <3>1. NextIteration(w) /\ UNCHANGED <<prs, reviewed, spends>>
      BY <2>6 DEF AutoRetry
    <3>2. CASE jobs[j].status = "PR_CREATED"
      <4>1. jobs'[j].status = "CODEX_APPROVED" /\ \A k \in Jobs \ {j} : jobs'[k] = jobs[k]
        BY <2>6, <3>2 DEF AutoRetry, Inv, TypeOK
      <4>2. \A k \in Jobs \ {j} : runs'[k] = runs[k]
        BY <2>6, <3>2 DEF AutoRetry, MarkRun, SetRun, Inv, TypeOK
      <4> QED
        BY <3>1, <4>1, <4>2, NextIterationLocals DEF OnlyWrites
    <3>3. CASE jobs[j].status # "PR_CREATED"
      BY <2>6, <3>1, <3>3, WritesOnly DEF AutoRetry
    <3> QED
      BY <3>2, <3>3
  <2> QED
    BY <1>5, <2>1, <2>2, <2>3, <2>4, <2>5, <2>6
       DEF LifecycleStage, ClaimPrCreated, ClaimLabels
<1>6. CASE SetupStage(w)
  <2>1. CASE CheckoutFails(w) \/ CheckoutValid(w) \/ MarkJobReady(w)
    BY <1>1, <2>1, WritesOnly DEF CheckoutFails, CheckoutValid, MarkJobReady, history
  <2>2. CASE PrepareFails(w) \/ PrepareSucceeds(w) \/ MarkRunReady(w)
    BY <2>2, WritesOnly DEF PrepareFails, PrepareSucceeds, MarkRunReady, history
  <2>3. CASE CreateJobRun(w)
    <3>1. \A k \in Jobs \ {j} : runs'[k] = runs[k]
      BY <2>3 DEF CreateJobRun, Inv, TypeOK
    <3>2. worker'[w].job = j /\ worker'[w].pc = "prepare"
      BY <2>3 DEF CreateJobRun, Inv, TypeOK, WorkerState
    <3> QED
      BY <2>3, <3>1, <3>2 DEF CreateJobRun, OnlyWrites, history
  <2> QED
    BY <1>6, <2>1, <2>2, <2>3 DEF SetupStage, ClaimQueued, ClaimLabels
<1>7. CASE Block(w)
  BY <1>1, <1>7, WritesOnly DEF Block, history
<1>8. CASE FailRun(w)
  BY <1>8, WritesOnly DEF FailRun, history
<1> QED
  BY <1>2, <1>3, <1>4, <1>5, <1>6, <1>7, <1>8 DEF WorkerStep

LEMMA WritesDone ==
  ASSUME TakingTurns, Inv, RowsInv, SoleInv, DoneInv, NEW w \in Workers, WorkerStep(w),
         worker[w].pc \notin ClaimLabels
  PROVE  DoneInv'
<1>1. PICK j \in Jobs, held \in SUBSET MetaKeys :
        /\ worker[w].job = j /\ worker[w].meta = held
        /\ AttendedAs(worker[w].pc, held, jobs[j].status, LatestStatus(j),
                      LatestMeta(j), validated[j], owed[j])
  BY Attending
<1>2. OnlyWrites(w, j) /\ \A v \in Workers : v = w
  BY <1>1, HeldStepWrites DEF TakingTurns, SoleWorker
<1>3. ASSUME NEW k \in Jobs \ {j}
      PROVE  /\ jobs'[k] = jobs[k] /\ runs'[k] = runs[k]
             /\ reviewed'[k] = reviewed[k] /\ spends'[k] = spends[k]
             /\ Unattended(k)' /\ (Merged(k) => Merged(k)')
  BY <1>2, <1>3, JobPipelineAssumption DEF OnlyWrites, Unattended, Merged, LatestMeta
<1>4. jobs[j].status # "NEEDS_REVIEW"
  BY <1>1, AttendedStatus
<1>5. jobs'[j].status = "PR_CREATED" => reviewed'[j]
  BY <1>1, <1>2
     DEF OnlyWrites, AttendedAs, PushLabels, DoneInv, SoleInv, At, PushIsReviewed
<1>6. MarkCompleted(w) => Merged(j)' /\ Unattended(j)'
  <2> SUFFICES ASSUME MarkCompleted(w) PROVE Merged(j)' /\ Unattended(j)'
    OBVIOUS
  <2>1. UNCHANGED <<runs, prs, reviewed>> /\ Merged(j) /\ worker'[w].job = None
    BY <1>1, NextIterationLocals DEF MarkCompleted, At, DoneInv, history
  <2> QED
    BY <1>2, <2>1, JobPipelineAssumption DEF Merged, LatestMeta, Unattended
<1>7. j \in DraftPrJobs /\ jobs'[j].status = "COMPLETED" => Merged(j)' /\ Unattended(j)'
  <2>1. j \in DraftPrJobs => jobs[j].status # "COMPLETED"
    BY <1>1 DEF DoneInv, Unattended
  <2> QED
    BY <1>2, <1>6, <2>1 DEF OnlyWrites
<1>8. FindMerged(w) => Merged(j)' /\ worker'[w].job = j
  <2> SUFFICES ASSUME FindMerged(w) PROVE Merged(j)' /\ worker'[w].job = j
    OBVIOUS
  <2>1. prs'[j] = "merged" /\ worker'[w].job = j /\ UNCHANGED <<jobs, reviewed>>
    BY <1>1, GotoLocals DEF FindMerged, history
  <2>2. reviewed[j] /\ "prUrl" \in held
    BY <1>1 DEF AttendedAs, InspectLabels, FindMerged, CanInspect, At, DoneInv
  <2>3. runs[j] # <<>> /\ worker[w].run = Len(runs[j])
    BY <1>1, AttendedFacts DEF Attended, HoldsLatest, FindMerged, CanInspect, At
  <2>4. SetRun(j, Len(runs[j]), "SUCCEEDED", held) /\ "SUCCEEDED" \in RunStatus
    BY <1>1, <2>3 DEF FindMerged, MarkRun, RunStatus
  <2>5. LatestMeta(j)' = held
    BY <2>3, <2>4, LatestWritten
  <2> QED
    BY <2>1, <2>2, <2>5 DEF Merged
<1>9. (\A v \in Workers : worker[v].pc = "complete" => Merged(worker[v].job))'
  <2> SUFFICES ASSUME worker'[w].pc = "complete"
               PROVE  Merged(worker[w].job)'
    BY <1>2
  <2>1. Merged(j)' /\ worker'[w].job = j
    BY <1>2, <1>8 DEF OnlyWrites
  <2> QED
    BY <2>1
<1>10. (\A k \in DraftPrJobs : jobs[k].status = "COMPLETED" => Unattended(k) /\ Merged(k))'
  BY <1>3, <1>7, JobPipelineAssumption DEF DoneInv
<1>11. (\A k \in Jobs : jobs[k].status = "NEEDS_REVIEW" =>
          Unattended(k) /\ runs[k] = <<>> /\ spends[k] = 0)'
  BY <1>2, <1>3, <1>4 DEF DoneInv, OnlyWrites
<1>12. (\A k \in Jobs : jobs[k].status = "PR_CREATED" => reviewed[k])'
  BY <1>3, <1>5 DEF DoneInv
<1> QED
  BY <1>9, <1>10, <1>11, <1>12 DEF DoneInv

\* A kill writes nothing, and nobody has the job any more.
LEMMA CrashDone ==
  ASSUME TakingTurns, Inv, DoneInv, NEW w \in Workers, Crash(w)
  PROVE  DoneInv'
<1>1. UNCHANGED <<jobs, runs, prs, spends, reviewed>>
  BY DEF Crash, history
<1>2. worker'[w].pc = "codexClaim" /\ worker'[w].job = None
  BY NextIterationLocals DEF Crash
<1>3. \A v \in Workers : v = w
  BY DEF TakingTurns, SoleWorker
<1>4. \A j \in Jobs : Unattended(j)'
  BY <1>2, <1>3, JobPipelineAssumption DEF Unattended
<1>5. \A j \in Jobs : Merged(j) => Merged(j)'
  BY <1>1 DEF Merged, LatestMeta
<1> QED
  BY <1>1, <1>2, <1>3, <1>4, <1>5, JobPipelineAssumption DEF DoneInv

LEMMA DoneStep ==
  ASSUME TakingTurns, Inv, RowsInv, SoleInv, DoneInv, [Next]_vars
  PROVE  DoneInv'
<1>1. ASSUME NEW w \in Workers, WorkerStep(w) \/ Crash(w)
      PROVE  DoneInv'
  BY <1>1, ClaimsDone, WritesDone, CrashDone
<1> QED
  BY <1>1, OutsideDone DEF Next

LEMMA DoneInitial == Init => DoneInv
BY JobPipelineAssumption DEF Init, DoneInv, Unattended, LoopTop

\* The pipeline beside the page.
RowsTold == Inv /\ RowsInv /\ SoleInv /\ PrInv /\ DoneInv

LEMMA RowsToldAlways ==
  ASSUME TakingTurns
  PROVE  PageSpec => []RowsTold
<1>1. PageInit => RowsTold /\ PageInv
  <2> SUFFICES ASSUME PageInit PROVE RowsTold /\ PageInv
    OBVIOUS
  <2>1. Init /\ PageInv
    BY PageInitial
  <2>2. SoleInv
    BY <2>1, JobPipelineAssumption
       DEF Init, SoleInv, AutoRetriesBounded, PushIsReviewed, LoopTop, RetryingLabels
  <2> QED
    BY <2>1, <2>2, InvInitial, RowsInitial, PrInitial, DoneInitial DEF RowsTold
<1>2. RowsTold /\ PageInv /\ [PageNext]_pageVars => (RowsTold /\ PageInv)'
  <2> SUFFICES ASSUME RowsTold, PageInv, [PageNext]_pageVars
               PROVE  (RowsTold /\ PageInv)'
    OBVIOUS
  <2>1. PageInv' /\ [Next]_vars
    BY PageNextMoves DEF RowsTold
  <2>2. Inv' /\ RowsInv' /\ SoleInv' /\ PrInv' /\ DoneInv'
    BY <2>1, InvStep, RowsStep, SoleStep, PrStep, DoneStep DEF RowsTold, TakingTurns
  <2> QED
    BY <2>1, <2>2 DEF RowsTold
<1> QED
  BY <1>1, <1>2, PTL DEF PageSpec

LEMMA GateFromRows ==
  ASSUME RowsTold, ~Crashes
  PROVE  GateIsCurrent
<1> SUFFICES ASSUME NEW j \in Jobs, NEW status, status = jobs[j].status,
                    NEW run, run = LatestRun(j), Unattended(j),
                    ApprovalStep(status) # 0
             PROVE  /\ \A i \in 1 .. ApprovalStep(status) - 1 :
                         Stages(j, status, run)[i] = "complete"
                    /\ \A i \in DOMAIN Stages(j, status, run) \ {ApprovalStep(status)} :
                         Stages(j, status, run)[i] # "current"
                    /\ Stages(j, status, run)[ApprovalStep(status)] =
                         IF ApprovalStep(status) = DraftPrStep /\ HasPr(run)
                           THEN "complete" ELSE "current"
  BY DEF GateIsCurrent
<1>1. SettledAs(status, LatestStatus(j), run.meta, validated[j], owed[j])
      /\ StatusTrue(status, j, prs[j]) /\ InOrder(run.meta, validated[j])
  BY LatestRunTyped DEF RowsTold, RowsInv, Settled, PrInv, JobsTrue
<1>2. LatestStatus(j) \notin {"none"} => run # NoRun /\ run.status = LatestStatus(j)
  BY LatestRunTyped DEF RowsTold, LatestStatus
<1>3. CASE status = "READY_FOR_CODEX"
  <2>1. /\ run # NoRun /\ run.status = "READY_FOR_CODEX"
        /\ "validation" \notin run.meta /\ "prUrl" \notin run.meta
    BY <1>1, <1>2, <1>3 DEF SettledAs, CodexStatus, Ready, LateKeys
  <2>2. ApprovalStep(status) = 3
    BY <1>3 DEF ApprovalStep, CodexStep
  <2>3. Stages(j, status, run) =
          <<"complete", "complete", "current", "waiting", "waiting", "waiting">>
    BY <1>3, <2>1
       DEF Stages, Stage, CodexDone, ValidationDone, HasPr, ShouldCreateDraftPr,
           AttentionStatus
  <2> QED
    BY <2>2, <2>3 DEF DraftPrStep
<1>4. CASE status = "REVIEW"
  <2>1. /\ run # NoRun /\ run.status = "SUCCEEDED" /\ "validation" \in run.meta
        /\ j \in DraftPrJobs
    BY <1>1, <1>2, <1>4 DEF SettledAs, ReviewStatus, StatusTrue
  <2>2. ApprovalStep(status) = 5
    BY <1>4 DEF ApprovalStep, DraftPrStep
  <2>3. Stages(j, status, run) =
          <<"complete", "complete", "complete", "complete",
            IF HasPr(run) THEN "complete" ELSE "current", "waiting">>
    BY <1>4, <2>1
       DEF Stages, Stage, CodexDone, ValidationDone, HasPr, ShouldCreateDraftPr,
           AttentionStatus
  <2> QED
    BY <2>2, <2>3 DEF DraftPrStep
<1> QED
  BY <1>3, <1>4 DEF ApprovalStep

\* With one worker that is not killed, and routes that take turns with it: a page that
\* asks for an approval while nobody works on the job shows as done what comes before
\* its step, and nothing else as due.
THEOREM GatesAreCurrent ==
  ASSUME TakingTurns, ~Crashes
  PROVE  PageSpec => []GateIsCurrent
BY RowsToldAlways, GateFromRows, PTL

LEMMA HeaderFromRows ==
  ASSUME RowsTold
  PROVE  HeaderIsEarned
<1> SUFFICES ASSUME NEW j \in Jobs, NEW status, status = jobs[j].status,
                    NEW run, run = LatestRun(j), NEW header,
                    header = TrustHeader(status, run), Unattended(j)
             PROVE  /\ header = "nothingHasRun" => runs[j] = <<>> /\ spends[j] = 0
                    /\ header = "completedWithPr" =>
                         validated[j] /\ reviewed[j] /\ prs[j] = "merged"
                    /\ header = "completedWithoutPr" => prs[j] = "none"
  BY DEF HeaderIsEarned
<1>1. header = "nothingHasRun" => status = "NEEDS_REVIEW"
  BY DEF TrustHeader
<1>2. header = "completedWithPr" => status = "COMPLETED" /\ HasPr(run)
  BY DEF TrustHeader
<1>3. header = "completedWithoutPr" => status = "COMPLETED" /\ ~HasPr(run)
  BY DEF TrustHeader
<1>4. MetaTrue(run.meta, j, prs[j]) /\ run.meta = LatestMeta(j)
  BY LatestTrue, LatestRunTyped DEF RowsTold
<1>5. prs[j] # "none" => j \in DraftPrJobs
  BY DEF RowsTold, PrInv, PrsTrue
<1>6. status = "COMPLETED" /\ j \in DraftPrJobs => Merged(j)
  BY DEF RowsTold, DoneInv
<1>7. HasPr(run) => validated[j]
  BY <1>4 DEF RowsTold, RowsInv, InOrder, HasPr
<1> QED
  BY <1>1, <1>2, <1>3, <1>4, <1>5, <1>6, <1>7 DEF RowsTold, DoneInv, Merged, MetaTrue, HasPr

\* With one worker, killed at any point or not, and routes that take turns with it, the
\* sentence at the top of the page of a job that nobody works on has this behind it: of a
\* fresh job nothing has run; a completed one whose page names a pull request was validated
\* and reviewed after Codex last ran, and its pull request is no longer "available for merge",
\* as the page has it, but merged; and a completed one whose page names none never had one.
THEOREM HeadersAreEarned ==
  ASSUME TakingTurns
  PROVE  PageSpec => []HeaderIsEarned
BY RowsToldAlways, HeaderFromRows, PTL
=================================================================================
