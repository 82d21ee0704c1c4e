--------------------------- MODULE JobPipelineProofs ---------------------------
(***************************************************************************)
(* Theorems about the job pipeline for every number of jobs, workers and   *)
(* concurrent requests, every bound, and every choice of the switches: its *)
(* types; it implements SpendGate, and what follows from that for the      *)
(* history of approvals and claims; no job in flight is ever left behind   *)
(* by a worker that is not killed; and what a sole worker may trust of its *)
(* claims.                                                                 *)
(***************************************************************************)
EXTENDS JobPipeline, SequenceTheorems, TLAPS

\* The labels at which a worker is about to write the run it holds.
RunLabels ==
  {"prepare", "readyRun", "codexRunning", "failRun", "validationRun",
   "pushing", "prRun", "checksFailed"}

RowsTyped ==
  jobs \in [Jobs -> JobRow] /\ runs \in [Jobs -> Seq(RunRow)]

WorkersTyped == worker \in [Workers -> WorkerState]

\* Past its claims a worker holds a job, and the run it holds exists.
WorkersHold ==
  \A w \in Workers :
    /\ worker[w].pc \notin ClaimLabels => worker[w].job \in Jobs
    /\ worker[w].job \in Jobs => worker[w].run <= Len(runs[worker[w].job])
    /\ worker[w].pc \in RunLabels => worker[w].run >= 1

\* No route writes a status that only a worker, or an approval, may give a job.
RouteTargets == {"DRAFT", "QUEUED", "READY_FOR_CODEX", "REVIEW", "VALIDATING"}

RequestsHold ==
  \A r \in Requests :
    /\ request[r].target \in RouteTargets
    /\ request[r].route # None => request[r].job \in Jobs
    /\ request[r].route = "retryStage" =>
         request[r].run \in 1..Len(runs[request[r].job])

Inv == TypeOK /\ WorkersHold /\ RequestsHold

NoRunLost == \A j \in Jobs : Len(runs'[j]) >= Len(runs[j])

------------------------------------------------------------------------------
(* The database writes. *)

LEMMA SetJobTyped ==
  ASSUME jobs \in [Jobs -> JobRow], NEW j \in Jobs, NEW status \in JobStatus,
         SetJob(j, status)
  PROVE  jobs' \in [Jobs -> JobRow]
BY DEF SetJob, JobRow

LEMMA SetRunTyped ==
  ASSUME runs \in [Jobs -> Seq(RunRow)], NEW j \in Jobs, NEW n \in 1..Len(runs[j]),
         NEW status \in RunStatus, NEW meta \in SUBSET MetaKeys,
         SetRun(j, n, status, meta)
  PROVE  runs' \in [Jobs -> Seq(RunRow)] /\ NoRunLost
<1> DEFINE row == [status |-> status, meta |-> meta]
<1>1. row \in RunRow
  BY DEF RunRow
<1>2. /\ [runs[j] EXCEPT ![n] = row] \in Seq(RunRow)
      /\ Len([runs[j] EXCEPT ![n] = row]) = Len(runs[j])
  BY <1>1, ExceptSeq
<1>3. runs' = [runs EXCEPT ![j] = [runs[j] EXCEPT ![n] = row]]
  BY DEF SetRun
<1> QED
  BY <1>2, <1>3, LenProperties DEF NoRunLost

LEMMA HeldRunTyped ==
  ASSUME Inv, NEW w \in Workers, worker[w].job \in Jobs, worker[w].run >= 1
  PROVE  /\ worker[w].run \in 1..Len(runs[worker[w].job])
         /\ HeldRun(w) \in RunRow
<1>1. worker[w].run \in Nat /\ runs[worker[w].job] \in Seq(RunRow)
  BY DEF Inv, TypeOK, WorkerState
<1>2. worker[w].run <= Len(runs[worker[w].job])
  BY DEF Inv, WorkersHold
<1>3. worker[w].run \in 1..Len(runs[worker[w].job])
  BY <1>1, <1>2, LenProperties
<1> QED
  BY <1>1, <1>3, ElementOfSeq DEF HeldRun

LEMMA NoRunLostUnchanged ==
  ASSUME runs \in [Jobs -> Seq(RunRow)], UNCHANGED runs
  PROVE  NoRunLost
BY LenProperties DEF NoRunLost

\* What a worker keeps of its claim: nothing it may later write through is lost.
LEMMA GotoHolds ==
  ASSUME Inv, NoRunLost, runs' \in [Jobs -> Seq(RunRow)],
         NEW w \in Workers, NEW label \in Labels, Goto(w, label),
         label \notin ClaimLabels => worker[w].job \in Jobs,
         label \in RunLabels => worker[w].run >= 1
  PROVE  WorkersTyped' /\ WorkersHold'
<1>1. WorkersTyped'
  <2>1. worker[w] \in WorkerState /\ worker \in [Workers -> WorkerState]
    BY DEF Inv, TypeOK
  <2>2. [worker[w] EXCEPT !.pc = label] \in WorkerState
    BY <2>1 DEF WorkerState
  <2>3. worker' = [worker EXCEPT ![w] = [worker[w] EXCEPT !.pc = label]]
    BY DEF Goto
  <2> QED
    BY <2>1, <2>2, <2>3 DEF WorkersTyped
<1>2. ASSUME NEW v \in Workers, v # w
      PROVE  worker'[v] = worker[v]
  BY <1>2 DEF Goto, Inv, TypeOK
<1>3. /\ worker'[w].pc = label /\ worker'[w].job = worker[w].job
      /\ worker'[w].run = worker[w].run
  BY DEF Goto, Inv, TypeOK, WorkerState
<1>4. \A j \in Jobs : /\ Len(runs'[j]) \in Nat /\ Len(runs[j]) \in Nat
                      /\ Len(runs'[j]) >= Len(runs[j])
  BY LenProperties DEF Inv, TypeOK, NoRunLost
<1>5. \A v \in Workers : worker[v].run \in Nat
  BY DEF Inv, TypeOK, WorkerState
<1>6. ASSUME NEW v \in Workers
      PROVE  /\ worker'[v].pc \notin ClaimLabels => worker'[v].job \in Jobs
             /\ worker'[v].job \in Jobs => worker'[v].run <= Len(runs'[worker'[v].job])
             /\ worker'[v].pc \in RunLabels => worker'[v].run >= 1
  <2>1. CASE v = w
    BY <1>3, <1>4, <1>5, <2>1 DEF Inv, WorkersHold
  <2>2. CASE v # w
    BY <1>2, <1>4, <1>5, <2>2 DEF Inv, WorkersHold
  <2> QED
    BY <2>1, <2>2
<1> QED
  BY <1>1, <1>6 DEF WorkersHold

LEMMA NextIterationHolds ==
  ASSUME Inv, NoRunLost, runs' \in [Jobs -> Seq(RunRow)],
         NEW w \in Workers, NextIteration(w)
  PROVE  WorkersTyped' /\ WorkersHold'
<1>1. /\ LoopTop.pc = "codexClaim" /\ LoopTop.job = None /\ LoopTop.run = 0
      /\ LoopTop.meta = {} /\ LoopTop.retries = 0
      /\ LoopTop \in WorkerState
  BY DEF LoopTop, WorkerState, Labels, ClaimLabels
<1>2. WorkersTyped'
  BY <1>1 DEF NextIteration, Inv, TypeOK, WorkersTyped
<1>3. worker'[w] = LoopTop /\ \A v \in Workers \ {w} : worker'[v] = worker[v]
  BY DEF NextIteration, Inv, TypeOK
<1>4. \A j \in Jobs : /\ Len(runs'[j]) \in Nat /\ Len(runs[j]) \in Nat
                      /\ Len(runs'[j]) >= Len(runs[j])
  BY LenProperties DEF Inv, TypeOK, NoRunLost
<1>5. \A v \in Workers : worker[v].run \in Nat
  BY DEF Inv, TypeOK, WorkerState
<1>6. ASSUME NEW v \in Workers
      PROVE  /\ worker'[v].pc \notin ClaimLabels => worker'[v].job \in Jobs
             /\ worker'[v].job \in Jobs => worker'[v].run <= Len(runs'[worker'[v].job])
             /\ worker'[v].pc \in RunLabels => worker'[v].run >= 1
  <2>1. CASE v = w
    BY <1>1, <1>3, <2>1, JobPipelineAssumption DEF ClaimLabels, RunLabels
  <2>2. CASE v # w
    BY <1>3, <1>4, <1>5, <2>2 DEF Inv, WorkersHold
  <2> QED
    BY <2>1, <2>2
<1> QED
  BY <1>2, <1>6 DEF WorkersHold

\* The run that a claim returns is the latest one, if there is one.
LEMMA LatestTyped ==
  ASSUME Inv, NEW j \in Jobs
  PROVE  Len(runs[j]) \in Nat /\ LatestMeta(j) \in SUBSET MetaKeys
<1>1. runs[j] \in Seq(RunRow) /\ Len(runs[j]) \in Nat
  BY LenProperties DEF Inv, TypeOK
<1>2. CASE runs[j] = <<>>
  BY <1>1, <1>2 DEF LatestMeta
<1>3. CASE runs[j] # <<>>
  <2>1. Len(runs[j]) \in 1..Len(runs[j])
    BY <1>1, <1>3, EmptySeq
  <2>2. runs[j][Len(runs[j])] \in RunRow
    BY <1>1, <2>1, ElementOfSeq
  <2> QED
    BY <1>1, <1>3, <2>2 DEF LatestMeta, RunRow
<1> QED
  BY <1>2, <1>3

LEMMA ClaimHolds ==
  ASSUME Inv, UNCHANGED runs, NEW w \in Workers, NEW j \in Jobs,
         NEW label \in Labels \ RunLabels, Claim(w, j, label)
  PROVE  WorkersTyped' /\ WorkersHold'
<1> DEFINE held == [pc |-> label, job |-> j, run |-> Len(runs[j]),
                    meta |-> LatestMeta(j), retries |-> jobs[j].retries]
<1>1. held \in WorkerState
  BY LatestTyped DEF Inv, TypeOK, JobRow, WorkerState
<1>2. worker' = [worker EXCEPT ![w] = held]
  BY DEF Claim
<1>3. WorkersTyped'
  BY <1>1, <1>2 DEF Inv, TypeOK, WorkersTyped
<1>4. worker'[w] = held /\ \A v \in Workers \ {w} : worker'[v] = worker[v]
  BY <1>2 DEF Inv, TypeOK
<1>5. held.pc = label /\ held.job = j /\ held.run = Len(runs[j])
  OBVIOUS
<1> HIDE DEF held
<1>6. ASSUME NEW v \in Workers
      PROVE  /\ worker'[v].pc \notin ClaimLabels => worker'[v].job \in Jobs
             /\ worker'[v].job \in Jobs => worker'[v].run <= Len(runs'[worker'[v].job])
             /\ worker'[v].pc \in RunLabels => worker'[v].run >= 1
  <2>1. CASE v = w
    BY <1>4, <1>5, <2>1, LatestTyped
  <2>2. CASE v # w
    BY <1>4, <2>2 DEF Inv, WorkersHold
  <2> QED
    BY <2>1, <2>2
<1> QED
  BY <1>3, <1>6 DEF WorkersHold

------------------------------------------------------------------------------
(* The shapes of a worker's step. *)

HistoryTyped ==
  /\ approvals \in [Jobs -> Nat] /\ spends \in [Jobs -> Nat]
  /\ reviewed \in [Jobs -> BOOLEAN] /\ validated \in [Jobs -> BOOLEAN]
  /\ owed \in [Jobs -> BOOLEAN]

LEMMA HistoryUnchanged ==
  ASSUME Inv, UNCHANGED history
  PROVE  HistoryTyped'
BY DEF Inv, TypeOK, history, HistoryTyped

LEMMA RequestsStillHold ==
  ASSUME Inv, NoRunLost, runs' \in [Jobs -> Seq(RunRow)], UNCHANGED request
  PROVE  RequestsHold'
<1>1. \A j \in Jobs : /\ Len(runs'[j]) \in Nat /\ Len(runs[j]) \in Nat
                      /\ Len(runs'[j]) >= Len(runs[j])
  BY LenProperties DEF Inv, TypeOK, NoRunLost
<1>2. ASSUME NEW r \in Requests, request[r].route = "retryStage"
      PROVE  request[r].job \in Jobs
  BY <1>2, JobPipelineAssumption DEF Inv, RequestsHold, RouteNames
<1> QED
  BY <1>1, <1>2 DEF Inv, RequestsHold

LEMMA WorkerStepKeeps ==
  ASSUME Inv, NoRunLost, RowsTyped', WorkersTyped', WorkersHold', HistoryTyped',
         prs' \in [Jobs -> PrState], UNCHANGED <<paused, request>>
  PROVE  Inv'
<1>1. TypeOK'
  BY DEF Inv, TypeOK, RowsTyped, WorkersTyped, HistoryTyped
<1> QED
  BY <1>1, RequestsStillHold DEF Inv, RowsTyped

\* After a write the worker goes back to the top of its loop, or to its next write.
GoesOn(w) ==
  NextIteration(w) \/ \E label \in Labels \ RunLabels : Goto(w, label)

LEMMA GoesOnHolds ==
  ASSUME Inv, NoRunLost, runs' \in [Jobs -> Seq(RunRow)],
         NEW w \in Workers, worker[w].job \in Jobs, GoesOn(w)
  PROVE  WorkersTyped' /\ WorkersHold'
BY NextIterationHolds, GotoHolds DEF GoesOn

LEMMA MarkJobKeeps ==
  ASSUME Inv, NEW w \in Workers, worker[w].job \in Jobs,
         NEW status \in JobStatus, MarkJob(w, status),
         GoesOn(w) \/ (worker[w].run >= 1 /\ \E label \in Labels : Goto(w, label)),
         HistoryTyped', UNCHANGED <<runs, prs, paused, request>>
  PROVE  Inv'
<1>1. RowsTyped'
  BY SetJobTyped DEF MarkJob, Inv, TypeOK, RowsTyped
<1>2. NoRunLost
  BY NoRunLostUnchanged DEF Inv, TypeOK
<1>3. WorkersTyped' /\ WorkersHold'
  BY <1>1, <1>2, GoesOnHolds, GotoHolds DEF RowsTyped
<1> QED
  BY <1>1, <1>2, <1>3, WorkerStepKeeps DEF Inv, TypeOK

LEMMA MarkRunKeeps ==
  ASSUME Inv, NEW w \in Workers, worker[w].job \in Jobs, worker[w].run >= 1,
         NEW status \in RunStatus, NEW meta \in SUBSET MetaKeys,
         MarkRun(w, status, meta),
         NextIteration(w) \/ \E label \in Labels : Goto(w, label),
         HistoryTyped', UNCHANGED <<jobs, prs, paused, request>>
  PROVE  Inv'
<1>1. worker[w].run \in 1..Len(runs[worker[w].job])
  BY HeldRunTyped
<1>2. runs' \in [Jobs -> Seq(RunRow)] /\ NoRunLost
  BY <1>1, SetRunTyped DEF MarkRun, Inv, TypeOK
<1>3. WorkersTyped' /\ WorkersHold'
  BY <1>2, NextIterationHolds, GotoHolds
<1>4. RowsTyped'
  BY <1>2 DEF Inv, TypeOK, RowsTyped
<1> QED
  BY <1>2, <1>3, <1>4, WorkerStepKeeps DEF Inv, TypeOK

LEMMA ClaimKeeps ==
  ASSUME Inv, NEW w \in Workers, jobs' \in [Jobs -> JobRow], HistoryTyped',
         \/ NextIteration(w)
         \/ \E label \in ClaimLabels : Goto(w, label)
         \/ \E j \in Jobs, label \in Labels \ RunLabels : Claim(w, j, label),
         UNCHANGED <<runs, prs, paused, request>>
  PROVE  Inv'
<1>1. NoRunLost /\ runs' \in [Jobs -> Seq(RunRow)]
  BY NoRunLostUnchanged DEF Inv, TypeOK
<1>2. WorkersTyped' /\ WorkersHold'
  <2>1. CASE NextIteration(w)
    BY <1>1, <2>1, NextIterationHolds
  <2>2. ASSUME NEW label \in ClaimLabels, Goto(w, label)
        PROVE  WorkersTyped' /\ WorkersHold'
    <3>1. label \in Labels /\ label \notin RunLabels
      BY DEF Labels, ClaimLabels, RunLabels
    <3> QED
      BY <1>1, <2>2, <3>1, GotoHolds
  <2>3. ASSUME NEW j \in Jobs, NEW label \in Labels \ RunLabels, Claim(w, j, label)
        PROVE  WorkersTyped' /\ WorkersHold'
    BY <2>3, ClaimHolds
  <2> QED
    BY <2>1, <2>2, <2>3
<1> QED
  BY <1>1, <1>2, WorkerStepKeeps DEF RowsTyped, Inv, TypeOK

LEMMA Holding ==
  ASSUME Inv, NEW w \in Workers, worker[w].pc \notin ClaimLabels
  PROVE  /\ worker[w].job \in Jobs /\ worker[w].meta \in SUBSET MetaKeys
         /\ worker[w].run \in Nat
         /\ worker[w].pc \in RunLabels => worker[w].run >= 1
BY DEF Inv, TypeOK, WorkersHold, WorkerState

LEMMA HoldsRunUnlessLacking ==
  ASSUME Inv, NEW w \in Workers, NEW keys, ~Lacks(w, keys)
  PROVE  worker[w].run >= 1
BY DEF Lacks, Inv, TypeOK, WorkerState

LEMMA FoundKeeps ==
  ASSUME Inv, NEW w \in Workers, NEW status, NEW next \in ClaimLabels,
         NEW label \in Labels \ RunLabels,
         FoundPaused(w) \/ FoundNone(w, status, next) \/ FoundUnleased(w, status, label),
         UNCHANGED <<runs, prs, paused, request, history>>
  PROVE  Inv'
<1>1. UNCHANGED jobs
  BY DEF FoundPaused, FoundNone, FoundUnleased
<1>2. jobs' \in [Jobs -> JobRow]
  BY <1>1 DEF Inv, TypeOK
<1>3. HistoryTyped'
  BY HistoryUnchanged
<1> QED
  BY <1>2, <1>3, ClaimKeeps DEF FoundPaused, FoundNone, FoundUnleased

LEMMA BlockForMissingKeeps ==
  ASSUME Inv, NEW w \in Workers, worker[w].pc \notin ClaimLabels,
         NEW meta \in SUBSET MetaKeys, BlockForMissing(w, meta)
  PROVE  Inv'
<1>1. /\ worker[w].job \in Jobs /\ worker[w].run \in Nat
      /\ HistoryTyped' /\ UNCHANGED <<runs, prs, paused, request>>
  BY Holding, HistoryUnchanged DEF BlockForMissing
<1>2. "BLOCKED" \in JobStatus /\ MarkJob(w, "BLOCKED")
  BY DEF BlockForMissing, JobStatus
<1>3. CASE worker[w].run = 0
  BY <1>1, <1>2, <1>3, MarkJobKeeps DEF BlockForMissing, GoesOn
<1>4. CASE worker[w].run # 0
  <2> DEFINE moved == [worker[w] EXCEPT !.pc = "failRun"]
             noted == [worker[w] EXCEPT !.pc = "failRun", !.meta = meta]
  <2>1. /\ noted \in WorkerState /\ noted.pc = "failRun"
        /\ noted.job = worker[w].job /\ noted.run = worker[w].run
    <3>1. worker[w] \in WorkerState /\ "failRun" \in Labels
      BY DEF Inv, TypeOK, Labels, OtherLabels
    <3> QED
      BY <3>1 DEF WorkerState
  <2>2. worker' = [worker EXCEPT ![w] = noted]
    BY <1>4 DEF BlockForMissing
  <2>3. WorkersTyped'
    BY <2>1, <2>2 DEF Inv, TypeOK, WorkersTyped
  <2>4. worker'[w] = noted /\ \A v \in Workers \ {w} : worker'[v] = worker[v]
    BY <2>2 DEF Inv, TypeOK
  <2> HIDE DEF noted
  <2>5. WorkersHold'
    BY <1>1, <1>4, <2>1, <2>4 DEF Inv, WorkersHold
  <2>6. RowsTyped'
    BY <1>1, <1>2, SetJobTyped DEF MarkJob, Inv, TypeOK, RowsTyped
  <2>7. NoRunLost
    BY <1>1, NoRunLostUnchanged DEF Inv, TypeOK
  <2> QED
    BY <1>1, <2>3, <2>5, <2>6, <2>7, WorkerStepKeeps DEF Inv, TypeOK
<1> QED
  BY <1>3, <1>4

------------------------------------------------------------------------------
(* The invariant, stage by stage. *)

LEMMA CodexStageKeeps ==
  ASSUME Inv, NEW w \in Workers, CodexStage(w)
  PROVE  Inv'
<1> USE DEF At
<1>1. CASE ClaimCodex(w)
  <2>1. CASE FoundNone(w, "CODEX_APPROVED", "validationClaim") /\ UNCHANGED history
    <3>1. "validationClaim" \in ClaimLabels /\ "push" \in Labels \ RunLabels
      BY DEF ClaimLabels, Labels, OtherLabels, RunLabels
    <3> QED
      BY <1>1, <2>1, <3>1, FoundKeeps DEF ClaimCodex
  <2>2. ASSUME NEW j \in Jobs, SetJob(j, "RUNNING"),
               Claim(w, j, IF w \in CodexWorkers THEN "codexStart" ELSE "codexSkip"),
               spends' = [spends EXCEPT ![j] = @ + 1],
               reviewed' = [reviewed EXCEPT ![j] = FALSE],
               validated' = [validated EXCEPT ![j] = FALSE],
               UNCHANGED <<approvals, owed>>
        PROVE  Inv'
    <3>1. jobs' \in [Jobs -> JobRow]
      BY <2>2, SetJobTyped DEF Inv, TypeOK, JobStatus
    <3>2. HistoryTyped'
      BY <2>2 DEF Inv, TypeOK, HistoryTyped
    <3>3. (IF w \in CodexWorkers THEN "codexStart" ELSE "codexSkip") \in Labels \ RunLabels
      BY DEF Labels, CodexLabels, RunLabels
    <3> QED
      BY <1>1, <2>2, <3>1, <3>2, <3>3, ClaimKeeps DEF ClaimCodex
  <2> QED
    BY <1>1, <2>1, <2>2 DEF ClaimCodex
<1>2. CASE SkipCodex(w)
  BY <1>2, Holding, HistoryUnchanged, MarkJobKeeps
     DEF SkipCodex, GoesOn, ClaimLabels, JobStatus
<1>3. CASE CodexMissing(w)
  BY <1>3, Holding, BlockForMissingKeeps DEF CodexMissing, ClaimLabels, MetaKeys
<1>4. CASE StartCodex(w)
  <2>1. HistoryTyped'
    BY <1>4 DEF StartCodex, Inv, TypeOK, HistoryTyped
  <2>2. /\ worker[w].job \in Jobs /\ worker[w].run >= 1
        /\ worker[w].meta \cup {"codex"} \in SUBSET MetaKeys
        /\ "CODEX_RUNNING" \in RunStatus /\ "codexRunning" \in Labels
    BY <1>4, Holding, HoldsRunUnlessLacking
       DEF StartCodex, ClaimLabels, MetaKeys, RunStatus, Labels, CodexLabels
  <2> QED
    BY <1>4, <2>1, <2>2, MarkRunKeeps DEF StartCodex
<1>5. CASE CodexFails(w)
  <2>1. /\ worker[w].job \in Jobs /\ worker[w].run >= 1
        /\ worker[w].meta \cup {"codex"} \in SUBSET MetaKeys
        /\ "FAILED" \in RunStatus /\ "block" \in Labels
    BY <1>5, Holding
       DEF CodexFails, ClaimLabels, RunLabels, MetaKeys, RunStatus, Labels, OtherLabels
  <2> QED
    BY <1>5, <2>1, HistoryUnchanged, MarkRunKeeps DEF CodexFails
<1>6. CASE CodexSucceeds(w)
  <2>1. /\ worker[w].job \in Jobs /\ worker[w].run >= 1
        /\ worker[w].meta \cup {"codex"} \in SUBSET MetaKeys
        /\ "VALIDATING" \in RunStatus /\ "codexOk" \in Labels
    BY <1>6, Holding
       DEF CodexSucceeds, ClaimLabels, RunLabels, MetaKeys, RunStatus, Labels, CodexLabels
  <2> QED
    BY <1>6, <2>1, HistoryUnchanged, MarkRunKeeps DEF CodexSucceeds
<1>7. CASE MarkValidating(w)
  BY <1>7, Holding, HistoryUnchanged, MarkJobKeeps
     DEF MarkValidating, GoesOn, ClaimLabels, JobStatus
<1> QED
  BY <1>1, <1>2, <1>3, <1>4, <1>5, <1>6, <1>7 DEF CodexStage

LEMMA ValidationStageKeeps ==
  ASSUME Inv, NEW w \in Workers, ValidationStage(w)
  PROVE  Inv'
<1> USE DEF At
<1>1. CASE ClaimValidating(w)
  <2>1. (IF w \in PrWorkers THEN "reviewClaim" ELSE "lifecycleClaim") \in ClaimLabels /\ "validate" \in Labels \ RunLabels
    BY DEF ClaimLabels, Labels, OtherLabels, RunLabels
  <2> QED
    BY <1>1, <2>1, FoundKeeps DEF ClaimValidating
<1>2. CASE ValidationMissing(w)
  BY <1>2, Holding, BlockForMissingKeeps DEF ValidationMissing, ClaimLabels, MetaKeys
<1>3. CASE ValidationFails(w)
  <2>1. /\ worker[w].job \in Jobs /\ worker[w].run >= 1
        /\ worker[w].meta \cup {"validation"} \in SUBSET MetaKeys
        /\ "FAILED" \in RunStatus /\ "block" \in Labels
    BY <1>3, Holding, HoldsRunUnlessLacking
       DEF ValidationFails, ClaimLabels, RunLabels, MetaKeys, RunStatus, Labels, OtherLabels
  <2> QED
    BY <1>3, <2>1, HistoryUnchanged, MarkRunKeeps DEF ValidationFails
<1>4. CASE ValidationPasses(w)
  <2>1. HistoryTyped'
    BY <1>4 DEF ValidationPasses, Inv, TypeOK, HistoryTyped
  <2>2. /\ worker[w].job \in Jobs /\ worker[w].run >= 1
        /\ (IF worker[w].job \in DraftPrJobs THEN "REVIEW" ELSE "COMPLETED") \in JobStatus
        /\ "validationRun" \in Labels
    BY <1>4, Holding, HoldsRunUnlessLacking
       DEF ValidationPasses, ClaimLabels, JobStatus, Labels, OtherLabels
  <2> QED
    BY <1>4, <2>1, <2>2, MarkJobKeeps DEF ValidationPasses
<1>5. CASE MarkValidated(w)
  <2>1. /\ worker[w].job \in Jobs /\ worker[w].run >= 1
        /\ worker[w].meta \cup {"validation"} \in SUBSET MetaKeys
        /\ "SUCCEEDED" \in RunStatus
    BY <1>5, Holding
       DEF MarkValidated, ClaimLabels, RunLabels, MetaKeys, RunStatus
  <2> QED
    BY <1>5, <2>1, HistoryUnchanged, MarkRunKeeps DEF MarkValidated
<1> QED
  BY <1>1, <1>2, <1>3, <1>4, <1>5 DEF ValidationStage

LEMMA PushStageKeeps ==
  ASSUME Inv, NEW w \in Workers, PushStage(w)
  PROVE  Inv'
<1> USE DEF At
<1>1. CASE ClaimReview(w)
  <2>1. "lifecycleClaim" \in ClaimLabels /\ "push" \in Labels \ RunLabels
    BY DEF ClaimLabels, Labels, OtherLabels, RunLabels
  <2> QED
    BY <1>1, <2>1, FoundKeeps DEF ClaimReview
<1>2. CASE PushMissing(w)
  BY <1>2, Holding, BlockForMissingKeeps DEF PushMissing, ClaimLabels, MetaKeys, WithPullRequest
<1>3. CASE StartPush(w)
  <2>1. /\ worker[w].job \in Jobs /\ worker[w].run >= 1
        /\ WithPullRequest(worker[w].meta, {}) \in SUBSET MetaKeys
        /\ "PUSHING" \in RunStatus /\ "pushing" \in Labels
    BY <1>3, Holding, HoldsRunUnlessLacking
       DEF StartPush, ClaimLabels, RunLabels, MetaKeys, RunStatus, WithPullRequest, Labels, OtherLabels
  <2> QED
    BY <1>3, <2>1, HistoryUnchanged, MarkRunKeeps DEF StartPush
<1>4. CASE PushFails(w)
  <2>1. /\ worker[w].job \in Jobs /\ worker[w].run >= 1
        /\ WithPullRequest(worker[w].meta, {}) \in SUBSET MetaKeys
        /\ "FAILED" \in RunStatus /\ "block" \in Labels
    BY <1>4, Holding
       DEF PushFails, ClaimLabels, RunLabels, MetaKeys, RunStatus, WithPullRequest, Labels, OtherLabels
  <2> QED
    BY <1>4, <2>1, HistoryUnchanged, MarkRunKeeps DEF PushFails
<1>5. CASE PushSucceeds(w)
  <2>1. prs' \in [Jobs -> PrState]
    BY <1>5 DEF PushSucceeds, PrState, Inv, TypeOK
  <2>2. RowsTyped' /\ NoRunLost
    BY <1>5, NoRunLostUnchanged DEF PushSucceeds, Inv, TypeOK, RowsTyped
  <2>3. worker[w].job \in Jobs /\ worker[w].run >= 1 /\ "prRun" \in Labels
    BY <1>5, Holding DEF PushSucceeds, ClaimLabels, RunLabels, Labels, OtherLabels
  <2>4. WorkersTyped' /\ WorkersHold'
    BY <1>5, <2>2, <2>3, GotoHolds DEF PushSucceeds, RowsTyped
  <2> QED
    BY <1>5, <2>1, <2>2, <2>4, HistoryUnchanged, WorkerStepKeeps DEF PushSucceeds
<1>6. CASE MarkRunPrCreated(w)
  <2>1. /\ worker[w].job \in Jobs /\ worker[w].run >= 1
        /\ WithPullRequest(worker[w].meta, {"prUrl"}) \in SUBSET MetaKeys
        /\ "PR_CREATED" \in RunStatus /\ "prJob" \in Labels
    BY <1>6, Holding
       DEF MarkRunPrCreated, ClaimLabels, RunLabels, MetaKeys, RunStatus, WithPullRequest, Labels, OtherLabels
  <2> QED
    BY <1>6, <2>1, HistoryUnchanged, MarkRunKeeps DEF MarkRunPrCreated
<1>7. CASE MarkJobPrCreated(w)
  BY <1>7, Holding, HistoryUnchanged, MarkJobKeeps
     DEF MarkJobPrCreated, GoesOn, ClaimLabels, JobStatus
<1> QED
  BY <1>1, <1>2, <1>3, <1>4, <1>5, <1>6, <1>7 DEF PushStage

LEMMA LifecycleStageKeeps ==
  ASSUME Inv, NEW w \in Workers, LifecycleStage(w)
  PROVE  Inv'
<1> USE DEF At
<1>1. CASE ClaimPrCreated(w)
  <2>1. "queuedClaim" \in ClaimLabels /\ "inspect" \in Labels \ RunLabels
    BY DEF ClaimLabels, Labels, OtherLabels, RunLabels
  <2>2. ASSUME Goto(w, "queuedClaim"), UNCHANGED jobs PROVE Inv'
    BY <1>1, <2>1, <2>2, HistoryUnchanged, ClaimKeeps DEF ClaimPrCreated, Inv, TypeOK
  <2> QED
    BY <1>1, <2>1, <2>2, FoundKeeps DEF ClaimPrCreated
<1>2. CASE LifecycleMissing(w)
  BY <1>2, Holding, BlockForMissingKeeps DEF LifecycleMissing, ClaimLabels, MetaKeys
<1>3. CASE NoteLifecycle(w)
  <2>1. /\ worker[w].job \in Jobs /\ worker[w].run >= 1
        /\ worker[w].meta \in SUBSET MetaKeys
    BY <1>3, Holding, HoldsRunUnlessLacking DEF NoteLifecycle, CanInspect, ClaimLabels
  <2>2. HeldRun(w).status \in RunStatus
    BY <2>1, HeldRunTyped DEF RunRow
  <2> QED
    BY <1>3, <2>1, <2>2, HistoryUnchanged, MarkRunKeeps DEF NoteLifecycle
<1>4. CASE FindMerged(w)
  <2>1. /\ worker[w].job \in Jobs /\ worker[w].run >= 1
        /\ worker[w].meta \in SUBSET MetaKeys
        /\ "SUCCEEDED" \in RunStatus /\ "complete" \in Labels
    BY <1>4, Holding, HoldsRunUnlessLacking
       DEF FindMerged, ClaimLabels, RunLabels, MetaKeys, RunStatus, CanInspect, Labels, OtherLabels
  <2> QED
    BY <1>4, <2>1, HistoryUnchanged, MarkRunKeeps DEF FindMerged
<1>5. CASE MarkCompleted(w)
  BY <1>5, Holding, HistoryUnchanged, MarkJobKeeps
     DEF MarkCompleted, GoesOn, ClaimLabels, JobStatus
<1>6. CASE FindClosed(w)
  <2>1. /\ worker[w].job \in Jobs /\ worker[w].run >= 1
        /\ worker[w].meta \in SUBSET MetaKeys /\ "FAILED" \in RunStatus /\ "block" \in Labels
    BY <1>6, Holding, HoldsRunUnlessLacking
       DEF FindClosed, ClaimLabels, RunLabels, MetaKeys, RunStatus, CanInspect, Labels, OtherLabels
  <2> QED
    BY <1>6, <2>1, HistoryUnchanged, MarkRunKeeps DEF FindClosed
<1>7. CASE FindChecksFailed(w)
  <2>1. RowsTyped' /\ NoRunLost /\ prs' \in [Jobs -> PrState]
    BY <1>7, NoRunLostUnchanged DEF FindChecksFailed, Inv, TypeOK, RowsTyped
  <2>2. worker[w].job \in Jobs /\ worker[w].run >= 1 /\ "checksFailed" \in Labels
    BY <1>7, Holding, HoldsRunUnlessLacking
       DEF FindChecksFailed, CanInspect, ClaimLabels, Labels, OtherLabels
  <2>3. WorkersTyped' /\ WorkersHold'
    BY <1>7, <2>1, <2>2, GotoHolds DEF FindChecksFailed, RowsTyped
  <2> QED
    BY <1>7, <2>1, <2>3, HistoryUnchanged, WorkerStepKeeps DEF FindChecksFailed
<1>8. CASE GiveUpOnChecks(w)
  <2>1. /\ worker[w].job \in Jobs /\ worker[w].run >= 1
        /\ worker[w].meta \in SUBSET MetaKeys /\ "FAILED" \in RunStatus /\ "block" \in Labels
    BY <1>8, Holding
       DEF GiveUpOnChecks, ClaimLabels, RunLabels, MetaKeys, RunStatus, Labels, OtherLabels
  <2> QED
    BY <1>8, <2>1, HistoryUnchanged, MarkRunKeeps DEF GiveUpOnChecks
<1>9. CASE AutoRetry(w)
  <2> DEFINE j == worker[w].job
             retried == [status |-> "CODEX_APPROVED", retries |-> jobs[j].retries + 1]
             meta == (worker[w].meta \ {"validation", "pullRequest", "prUrl"})
                       \cup {"retryFeedback"}
  <2>1. /\ j \in Jobs /\ worker[w].run \in 1..Len(runs[j])
        /\ meta \in SUBSET MetaKeys /\ "READY_FOR_CODEX" \in RunStatus
    BY <1>9, Holding, HeldRunTyped
       DEF AutoRetry, ClaimLabels, RunLabels, MetaKeys, RunStatus
  <2>2. CASE jobs[j].status = "PR_CREATED"
    <3>1. retried \in JobRow
      BY <2>1 DEF Inv, TypeOK, JobRow, JobStatus
    <3>2. jobs' = [jobs EXCEPT ![j] = retried]
      BY <1>9, <2>2 DEF AutoRetry
    <3>3. jobs' \in [Jobs -> JobRow]
      BY <2>1, <3>1, <3>2 DEF Inv, TypeOK
    <3>4. SetRun(j, worker[w].run, "READY_FOR_CODEX", meta)
      BY <1>9, <2>2 DEF AutoRetry, MarkRun
    <3>5. runs' \in [Jobs -> Seq(RunRow)] /\ NoRunLost
      BY <2>1, <3>4, SetRunTyped DEF Inv, TypeOK
    <3>6. HistoryTyped'
      BY <1>9, <2>1, <2>2 DEF AutoRetry, Inv, TypeOK, HistoryTyped
    <3>7. WorkersTyped' /\ WorkersHold'
      BY <1>9, <3>5, NextIterationHolds DEF AutoRetry
    <3> QED
      BY <1>9, <3>3, <3>5, <3>6, <3>7, WorkerStepKeeps DEF AutoRetry, RowsTyped, Inv, TypeOK
  <2>3. CASE jobs[j].status # "PR_CREATED"
    <3>1. UNCHANGED <<jobs, runs, owed>>
      BY <1>9, <2>3 DEF AutoRetry
    <3>2. RowsTyped' /\ NoRunLost
      BY <3>1, NoRunLostUnchanged DEF Inv, TypeOK, RowsTyped
    <3>3. HistoryTyped'
      BY <1>9, <3>1 DEF AutoRetry, Inv, TypeOK, HistoryTyped
    <3>4. WorkersTyped' /\ WorkersHold'
      BY <1>9, <3>2, NextIterationHolds DEF AutoRetry, RowsTyped
    <3> QED
      BY <1>9, <3>2, <3>3, <3>4, WorkerStepKeeps DEF AutoRetry, Inv, TypeOK
  <2> QED
    BY <2>2, <2>3
<1> QED
  BY <1>1, <1>2, <1>3, <1>4, <1>5, <1>6, <1>7, <1>8, <1>9 DEF LifecycleStage
LEMMA SetupStageKeeps ==
  ASSUME Inv, NEW w \in Workers, SetupStage(w)
  PROVE  Inv'
<1> USE DEF At
<1>1. CASE ClaimQueued(w)
  <2>1. ASSUME NEW j \in Jobs, SetJob(j, "CLAIMED"),
               worker' = [worker EXCEPT ![w] =
                 [LoopTop EXCEPT !.pc = "checkout", !.job = j]]
        PROVE  Inv'
    <3> DEFINE held == [LoopTop EXCEPT !.pc = "checkout", !.job = j]
    <3>1. /\ held \in WorkerState /\ held.pc = "checkout" /\ held.job = j /\ held.run = 0
      BY DEF LoopTop, WorkerState, Labels, SetupLabels
    <3>2. RowsTyped' /\ NoRunLost
      BY <1>1, <2>1, SetJobTyped, NoRunLostUnchanged
         DEF ClaimQueued, Inv, TypeOK, RowsTyped, JobStatus
    <3>3. /\ WorkersTyped' /\ worker'[w] = held
          /\ \A v \in Workers \ {w} : worker'[v] = worker[v]
      BY <2>1, <3>1 DEF Inv, TypeOK, WorkersTyped
    <3> HIDE DEF held
    <3>4. runs' = runs /\ Len(runs[j]) \in Nat
      BY <1>1, LatestTyped DEF ClaimQueued
    <3>5. WorkersHold'
      BY <3>1, <3>3, <3>4 DEF Inv, WorkersHold, RunLabels
    <3> QED
      BY <1>1, <3>2, <3>3, <3>5, HistoryUnchanged, WorkerStepKeeps
         DEF ClaimQueued, Inv, TypeOK
  <2>2. CASE FoundPaused(w) \/ FoundNone(w, "QUEUED", "codexClaim")
    <3>1. "codexClaim" \in ClaimLabels /\ "push" \in Labels \ RunLabels
      BY DEF ClaimLabels, Labels, OtherLabels, RunLabels
    <3> QED
      BY <1>1, <2>2, <3>1, FoundKeeps DEF ClaimQueued
  <2> QED
    BY <1>1, <2>1, <2>2 DEF ClaimQueued
<1>2. CASE CheckoutFails(w)
  BY <1>2, Holding, HistoryUnchanged, MarkJobKeeps
     DEF CheckoutFails, GoesOn, ClaimLabels, JobStatus
<1>3. CASE CheckoutValid(w)
  <2>1. /\ worker[w].job \in Jobs /\ "RUNNING" \in JobStatus
        /\ "createRun" \in Labels \ RunLabels
    BY <1>3, Holding DEF CheckoutValid, ClaimLabels, JobStatus, Labels, SetupLabels, RunLabels
  <2> QED
    BY <1>3, <2>1, HistoryUnchanged, MarkJobKeeps DEF CheckoutValid, GoesOn
<1>4. CASE CreateJobRun(w)
  <2> DEFINE j == worker[w].job
             fresh == [status |-> "STARTED", meta |-> {}]
             held == [worker[w] EXCEPT !.pc = "prepare", !.run = Len(runs[j]) + 1]
  <2>1. j \in Jobs /\ runs[j] \in Seq(RunRow) /\ fresh \in RunRow
    BY <1>4, Holding DEF CreateJobRun, ClaimLabels, Inv, TypeOK, RunRow, RunStatus
  <2>2. Append(runs[j], fresh) \in Seq(RunRow) /\ Len(Append(runs[j], fresh)) = Len(runs[j]) + 1
    BY <2>1, AppendProperties
  <2>3. runs' = [runs EXCEPT ![j] = Append(runs[j], fresh)]
    BY <1>4 DEF CreateJobRun
  <2>4. RowsTyped'
    BY <1>4, <2>1, <2>2, <2>3 DEF CreateJobRun, Inv, TypeOK, RowsTyped
  <2>5. /\ \A k \in Jobs : Len(runs[k]) \in Nat
        /\ Len(runs'[j]) = Len(runs[j]) + 1
        /\ \A k \in Jobs \ {j} : runs'[k] = runs[k]
    BY <2>1, <2>2, <2>3, LenProperties DEF Inv, TypeOK
  <2>6. NoRunLost
    BY <2>1, <2>5 DEF NoRunLost
  <2>7. /\ held \in WorkerState /\ held.pc = "prepare"
        /\ held.job = j /\ held.run = Len(runs[j]) + 1
    <3>1. worker[w] \in WorkerState /\ "prepare" \in Labels /\ Len(runs[j]) + 1 \in Nat
      BY <2>1, <2>5 DEF Inv, TypeOK, Labels, SetupLabels
    <3> QED
      BY <3>1 DEF WorkerState
  <2>8. worker' = [worker EXCEPT ![w] = held]
    BY <1>4 DEF CreateJobRun
  <2>9. /\ WorkersTyped' /\ worker'[w] = held
        /\ \A v \in Workers \ {w} : worker'[v] = worker[v]
    BY <2>7, <2>8 DEF Inv, TypeOK, WorkersTyped
  <2>10. \A v \in Workers : worker[v].run \in Nat
    BY DEF Inv, TypeOK, WorkerState
  <2> HIDE DEF held, j
  <2>11. WorkersHold'
    BY <2>1, <2>5, <2>7, <2>9, <2>10 DEF Inv, WorkersHold
  <2> QED
    BY <1>4, <2>4, <2>6, <2>9, <2>11, HistoryUnchanged, WorkerStepKeeps
       DEF CreateJobRun, Inv, TypeOK
<1>5. CASE PrepareFails(w)
  <2>1. /\ worker[w].job \in Jobs /\ worker[w].run >= 1
        /\ "FAILED" \in RunStatus /\ "block" \in Labels
    BY <1>5, Holding DEF PrepareFails, ClaimLabels, RunLabels, RunStatus, Labels, OtherLabels
  <2>2. HeldRun(w).meta \in SUBSET MetaKeys
    BY <2>1, HeldRunTyped DEF RunRow
  <2> QED
    BY <1>5, <2>1, <2>2, HistoryUnchanged, MarkRunKeeps DEF PrepareFails
<1>6. CASE PrepareSucceeds(w)
  <2>1. /\ worker[w].job \in Jobs /\ worker[w].run >= 1
        /\ {"worktree"} \in SUBSET MetaKeys /\ "readyRun" \in Labels
    BY <1>6, Holding DEF PrepareSucceeds, ClaimLabels, RunLabels, MetaKeys, Labels, SetupLabels
  <2>2. HeldRun(w).status \in RunStatus
    BY <2>1, HeldRunTyped DEF RunRow
  <2> QED
    BY <1>6, <2>1, <2>2, HistoryUnchanged, MarkRunKeeps DEF PrepareSucceeds
<1>7. CASE MarkRunReady(w)
  <2>1. /\ worker[w].job \in Jobs /\ worker[w].run >= 1
        /\ "READY_FOR_CODEX" \in RunStatus /\ "readyJob" \in Labels
    BY <1>7, Holding DEF MarkRunReady, ClaimLabels, RunLabels, RunStatus, Labels, SetupLabels
  <2>2. HeldRun(w).meta \in SUBSET MetaKeys
    BY <2>1, HeldRunTyped DEF RunRow
  <2> QED
    BY <1>7, <2>1, <2>2, HistoryUnchanged, MarkRunKeeps DEF MarkRunReady
<1>8. CASE MarkJobReady(w)
  BY <1>8, Holding, HistoryUnchanged, MarkJobKeeps
     DEF MarkJobReady, GoesOn, ClaimLabels, JobStatus
<1> QED
  BY <1>1, <1>2, <1>3, <1>4, <1>5, <1>6, <1>7, <1>8 DEF SetupStage

LEMMA WorkerKeeps ==
  ASSUME Inv, NEW w \in Workers, WorkerStep(w) \/ Crash(w)
  PROVE  Inv'
<1>1. CASE Block(w)
  BY <1>1, Holding, HistoryUnchanged, MarkJobKeeps DEF Block, At, GoesOn, ClaimLabels, JobStatus
<1>2. CASE FailRun(w)
  <2>1. /\ worker[w].job \in Jobs /\ worker[w].run >= 1
        /\ worker[w].meta \in SUBSET MetaKeys /\ "FAILED" \in RunStatus
    BY <1>2, Holding DEF FailRun, At, ClaimLabels, RunLabels, RunStatus
  <2> QED
    BY <1>2, <2>1, HistoryUnchanged, MarkRunKeeps DEF FailRun
<1>3. CASE Crash(w)
  <2>1. HistoryTyped' /\ jobs' \in [Jobs -> JobRow]
    BY <1>3, HistoryUnchanged DEF Crash, Inv, TypeOK
  <2> QED
    BY <1>3, <2>1, ClaimKeeps DEF Crash
<1> QED
  BY <1>1, <1>2, <1>3, CodexStageKeeps, ValidationStageKeeps, PushStageKeeps,
     LifecycleStageKeeps, SetupStageKeeps DEF WorkerStep

------------------------------------------------------------------------------
(* The routes, and what happens outside. *)

LEMMA WorkersStillHold ==
  ASSUME Inv, NoRunLost, runs' \in [Jobs -> Seq(RunRow)], UNCHANGED worker
  PROVE  WorkersTyped' /\ WorkersHold'
<1>1. \A j \in Jobs : /\ Len(runs'[j]) \in Nat /\ Len(runs[j]) \in Nat
                      /\ Len(runs'[j]) >= Len(runs[j])
  BY LenProperties DEF Inv, TypeOK, NoRunLost
<1>2. \A v \in Workers : worker[v].run \in Nat
  BY DEF Inv, TypeOK, WorkerState
<1> QED
  BY <1>1, <1>2 DEF Inv, TypeOK, WorkersTyped, WorkersHold

RequestTyped ==
  request \in [Requests ->
    [route : RouteNames \cup {None}, job : Jobs \cup {None}, run : Nat,
     meta : SUBSET MetaKeys, target : JobStatus, feedback : BOOLEAN]]

LEMMA OutsideStepKeeps ==
  ASSUME Inv, NoRunLost, RowsTyped', RequestTyped', RequestsHold', HistoryTyped',
         prs' \in [Jobs -> PrState], paused' \in BOOLEAN, UNCHANGED worker
  PROVE  Inv'
<1>1. WorkersTyped' /\ WorkersHold'
  BY WorkersStillHold DEF RowsTyped
<1>2. TypeOK'
  BY <1>1 DEF Inv, TypeOK, RowsTyped, WorkersTyped, RequestTyped, HistoryTyped
<1> QED
  BY <1>1, <1>2 DEF Inv

LEMMA RetryTargetTyped ==
  ASSUME NEW status, NEW meta, NEW feedback
  PROVE  RetryTarget(status, meta, feedback) \in RouteTargets
BY DEF RetryTarget, RouteTargets

LEMMA RouteTargetIsStatus == RouteTargets \subseteq JobStatus
BY DEF RouteTargets, JobStatus

LEMMA BeginKeeps ==
  ASSUME Inv, NEW r \in Requests, NEW j \in Jobs, NEW route \in RouteNames,
         NEW target \in RouteTargets, NEW feedback \in BOOLEAN,
         NEW meta \in SUBSET MetaKeys,
         route = "retryStage" => runs[j] # <<>>,
         Begin(r, route, j, target, feedback, meta)
  PROVE  Inv'
<1> DEFINE begun == [route |-> route, job |-> j, run |-> Len(runs[j]), meta |-> meta,
                     target |-> target, feedback |-> feedback]
<1>1. /\ begun \in [route : RouteNames \cup {None}, job : Jobs \cup {None}, run : Nat,
                    meta : SUBSET MetaKeys, target : JobStatus, feedback : BOOLEAN]
      /\ begun.route = route /\ begun.job = j /\ begun.run = Len(runs[j])
      /\ begun.target = target
  BY LatestTyped, RouteTargetIsStatus
<1>2. request' = [request EXCEPT ![r] = begun]
  BY DEF Begin
<1>3. /\ RequestTyped' /\ request'[r] = begun
      /\ \A q \in Requests \ {r} : request'[q] = request[q]
  BY <1>1, <1>2 DEF Inv, TypeOK, RequestTyped
<1> HIDE DEF begun
<1>4. UNCHANGED <<jobs, runs, prs, paused, worker, history>>
  BY DEF Begin
<1>5. runs[j] # <<>> => Len(runs[j]) \in 1..Len(runs[j])
  BY EmptySeq, LenProperties DEF Inv, TypeOK
<1>6. RequestsHold'
  BY <1>1, <1>3, <1>4, <1>5 DEF Inv, RequestsHold
<1>7. NoRunLost /\ RowsTyped'
  BY <1>4, NoRunLostUnchanged DEF Inv, TypeOK, RowsTyped
<1> QED
  BY <1>3, <1>4, <1>6, <1>7, HistoryUnchanged, OutsideStepKeeps DEF Inv, TypeOK

LEMMA ReadsKeep ==
  ASSUME Inv, NEW r \in Requests, RouteReads(r)
  PROVE  Inv'
<1>1. PICK j \in Jobs :
        \/ ReadForApproval(r, j) \/ ReadForRequeue(r, j)
        \/ \E feedback \in BOOLEAN : ReadForRetryStage(r, j, feedback)
  BY DEF RouteReads
<1>2. CASE ReadForApproval(r, j)
  <2>1. Begin(r, "approveReview", j, "QUEUED", FALSE, {})
    BY <1>2 DEF ReadForApproval
  <2>2. /\ "approveReview" \in RouteNames /\ "approveReview" # "retryStage"
        /\ "QUEUED" \in RouteTargets /\ {} \in SUBSET MetaKeys
    BY DEF RouteNames, RouteTargets
  <2>3. FALSE \in BOOLEAN
    OBVIOUS
  <2> QED
    BY <2>1, <2>2, <2>3, BeginKeeps
<1>3. CASE ReadForRequeue(r, j)
  <2>1. Begin(r, "requeue", j, "QUEUED", FALSE, {})
    BY <1>3 DEF ReadForRequeue
  <2>2. /\ "requeue" \in RouteNames /\ "requeue" # "retryStage"
        /\ "QUEUED" \in RouteTargets /\ {} \in SUBSET MetaKeys
    BY DEF RouteNames, RouteTargets
  <2>3. FALSE \in BOOLEAN
    OBVIOUS
  <2> QED
    BY <2>1, <2>2, <2>3, BeginKeeps
<1>4. ASSUME NEW feedback \in BOOLEAN, ReadForRetryStage(r, j, feedback)
      PROVE  Inv'
  <2> DEFINE target == RetryTarget(jobs[j].status, LatestMeta(j), feedback)
             meta == RetryMeta(LatestMeta(j), feedback)
  <2>1. target \in RouteTargets /\ runs[j] # <<>> /\ "retryStage" \in RouteNames
    BY <1>4, RetryTargetTyped DEF ReadForRetryStage, RouteNames
  <2>2. meta \in SUBSET MetaKeys
    BY LatestTyped DEF RetryMeta, MetaKeys
  <2>3. Begin(r, "retryStage", j, target, feedback, meta)
    BY <1>4 DEF ReadForRetryStage
  <2> HIDE DEF target, meta
  <2> QED
    BY <2>1, <2>2, <2>3, BeginKeeps
<1> QED
  BY <1>1, <1>2, <1>3, <1>4

LEMMA ReplyHolds ==
  ASSUME Inv, NoRunLost, runs' \in [Jobs -> Seq(RunRow)], NEW r \in Requests, Reply(r)
  PROVE  RequestTyped' /\ RequestsHold'
<1>1. /\ NoRequest \in [route : RouteNames \cup {None}, job : Jobs \cup {None}, run : Nat,
                        meta : SUBSET MetaKeys, target : JobStatus, feedback : BOOLEAN]
      /\ NoRequest.route = None /\ NoRequest.target = "DRAFT"
  BY DEF NoRequest, JobStatus
<1>2. /\ RequestTyped' /\ request'[r] = NoRequest
      /\ \A q \in Requests \ {r} : request'[q] = request[q]
  BY <1>1 DEF Reply, Inv, TypeOK, RequestTyped
<1>3. None # "retryStage"
  BY JobPipelineAssumption DEF RouteNames
<1>4. \A j \in Jobs : /\ Len(runs'[j]) \in Nat /\ Len(runs[j]) \in Nat
                      /\ Len(runs'[j]) >= Len(runs[j])
  BY LenProperties DEF Inv, TypeOK, NoRunLost
<1>5. ASSUME NEW q \in Requests
      PROVE  /\ request'[q].target \in RouteTargets
             /\ request'[q].route # None => request'[q].job \in Jobs
             /\ request'[q].route = "retryStage" =>
                  request'[q].run \in 1..Len(runs'[request'[q].job])
  <2>1. CASE q = r
    BY <1>1, <1>2, <1>3, <2>1 DEF RouteTargets
  <2>2. CASE q # r
    <3>1. /\ request'[q] = request[q] /\ request[q].target \in RouteTargets
          /\ request[q].route # None => request[q].job \in Jobs
          /\ request[q].route = "retryStage" =>
               request[q].run \in 1..Len(runs[request[q].job])
      BY <1>2, <2>2 DEF Inv, RequestsHold
    <3> QED
      BY <1>3, <1>4, <3>1
  <2> QED
    BY <2>1, <2>2
<1> QED
  BY <1>2, <1>5 DEF RequestsHold

LEMMA WritesKeep ==
  ASSUME Inv, NEW r \in Requests, RouteWrites(r)
  PROVE  Inv'
<1> DEFINE j == request[r].job
<1>1. j \in Jobs
  BY JobPipelineAssumption
     DEF RouteWrites, ApproveReview, Requeue, RetryStage, RouteNames, Inv, RequestsHold
<1>2. request[r].target \in RouteTargets /\ request[r].meta \in SUBSET MetaKeys
  BY DEF Inv, RequestsHold, TypeOK
<1>3. CASE ApproveReview(r) \/ Requeue(r)
  <2>1. RowsTyped' /\ NoRunLost
    BY <1>1, <1>3, SetJobTyped, NoRunLostUnchanged
       DEF ApproveReview, Requeue, Inv, TypeOK, RowsTyped, JobStatus
  <2>2. HistoryTyped'
    BY <1>3, HistoryUnchanged DEF ApproveReview, Requeue, Inv, TypeOK, HistoryTyped
  <2>3. RequestTyped' /\ RequestsHold'
    BY <1>3, <2>1, ReplyHolds DEF ApproveReview, Requeue, RowsTyped
  <2> QED
    BY <1>3, <2>1, <2>2, <2>3, OutsideStepKeeps DEF ApproveReview, Requeue, Inv, TypeOK
<1>4. CASE RetryStage(r)
  <2>1. request[r].run \in 1..Len(runs[j])
    BY <1>4 DEF RetryStage, Inv, RequestsHold
  <2>2. RetriedRunStatus(request[r].target) \in RunStatus
    BY DEF RetriedRunStatus, RunStatus
  <2>3. SetRun(j, request[r].run, RetriedRunStatus(request[r].target), request[r].meta)
    BY <1>4 DEF RetryStage
  <2>4. runs' \in [Jobs -> Seq(RunRow)] /\ NoRunLost
    BY <1>1, <1>2, <2>1, <2>2, <2>3, SetRunTyped DEF Inv, TypeOK
  <2>5. RowsTyped'
    BY <1>1, <1>2, <1>4, <2>4, SetJobTyped, RouteTargetIsStatus
       DEF RetryStage, RowsTyped, Inv, TypeOK
  <2>6. HistoryTyped'
    BY <1>4 DEF RetryStage, Inv, TypeOK, HistoryTyped
  <2>7. RequestTyped' /\ RequestsHold'
    BY <1>4, <2>4, ReplyHolds DEF RetryStage
  <2> QED
    BY <1>4, <2>4, <2>5, <2>6, <2>7, OutsideStepKeeps DEF RetryStage, Inv, TypeOK
<1> QED
  BY <1>3, <1>4 DEF RouteWrites

LEMMA OutsideKeeps ==
  ASSUME Inv,
         \/ \E j \in Jobs : Cancel(j) \/ ApproveCodex(j) \/ ApprovePr(j)
         \/ \E j \in Jobs, state \in PrState : ResolvePr(j, state)
         \/ \E p \in BOOLEAN : SetPaused(p)
  PROVE  Inv'
<1>1. UNCHANGED <<runs, worker, request>>
  BY DEF Cancel, ApproveCodex, ApprovePr, ResolvePr, SetPaused
<1>2. NoRunLost /\ runs' \in [Jobs -> Seq(RunRow)]
  BY <1>1, NoRunLostUnchanged DEF Inv, TypeOK
<1>3. jobs' \in [Jobs -> JobRow]
  BY SetJobTyped
     DEF Cancel, ApproveCodex, ApprovePr, ResolvePr, SetPaused, Inv, TypeOK, JobStatus
<1>4. HistoryTyped'
  <2>1. CASE \E j \in Jobs : ApproveCodex(j)
    BY <2>1 DEF ApproveCodex, Inv, TypeOK, HistoryTyped
  <2>2. CASE \E j \in Jobs : ApprovePr(j)
    <3>1. reviewed' \in [Jobs -> BOOLEAN]
      BY <2>2 DEF ApprovePr, Inv, TypeOK
    <3> QED
      BY <2>2, <3>1 DEF ApprovePr, Inv, TypeOK, HistoryTyped
  <2>3. CASE \/ \E j \in Jobs : Cancel(j)
             \/ \E j \in Jobs, state \in PrState : ResolvePr(j, state)
             \/ \E p \in BOOLEAN : SetPaused(p)
    <3>1. UNCHANGED history
      BY <2>3 DEF Cancel, ResolvePr, SetPaused
    <3> QED
      BY <3>1, HistoryUnchanged
  <2> QED
    BY <2>1, <2>2, <2>3
<1>5. prs' \in [Jobs -> PrState] /\ paused' \in BOOLEAN
  BY DEF Cancel, ApproveCodex, ApprovePr, ResolvePr, SetPaused, Inv, TypeOK
<1>6. RequestTyped' /\ RequestsHold'
  BY <1>1, <1>2, RequestsStillHold DEF Inv, TypeOK, RequestTyped
<1> QED
  BY <1>1, <1>2, <1>3, <1>4, <1>5, <1>6, OutsideStepKeeps DEF RowsTyped

------------------------------------------------------------------------------

LEMMA InvInitial == Init => Inv
<1> SUFFICES ASSUME Init PROVE Inv
  OBVIOUS
<1>1. jobs \in [Jobs -> JobRow]
  BY DEF Init, JobRow, JobStatus
<1>2. runs \in [Jobs -> Seq(RunRow)] /\ \A j \in Jobs : Len(runs[j]) = 0
  BY EmptySeq DEF Init
<1>3. /\ LoopTop \in WorkerState /\ LoopTop.pc = "codexClaim"
      /\ LoopTop.job = None /\ LoopTop.run = 0
  BY DEF LoopTop, WorkerState, Labels, ClaimLabels
<1>4. worker \in [Workers -> WorkerState] /\ \A w \in Workers : worker[w] = LoopTop
  BY <1>3 DEF Init
<1>5. WorkersHold
  BY <1>3, <1>4, JobPipelineAssumption DEF WorkersHold, ClaimLabels, RunLabels
<1>6. /\ NoRequest \in [route : RouteNames \cup {None}, job : Jobs \cup {None}, run : Nat,
                        meta : SUBSET MetaKeys, target : JobStatus, feedback : BOOLEAN]
      /\ NoRequest.route = None /\ NoRequest.target = "DRAFT"
  BY DEF NoRequest, JobStatus
<1>7. RequestTyped /\ \A r \in Requests : request[r] = NoRequest
  BY <1>6 DEF Init, RequestTyped
<1>8. RequestsHold
  BY <1>6, <1>7, JobPipelineAssumption DEF RequestsHold, RouteTargets, RouteNames
<1>9. HistoryTyped
  <2>1. approvals \in [Jobs -> Nat] /\ spends \in [Jobs -> Nat]
    BY DEF Init
  <2>2. /\ reviewed \in [Jobs -> BOOLEAN] /\ validated \in [Jobs -> BOOLEAN]
        /\ owed \in [Jobs -> BOOLEAN]
    BY DEF Init
  <2> QED
    BY <2>1, <2>2 DEF HistoryTyped
<1>10. prs \in [Jobs -> PrState] /\ paused \in BOOLEAN
  BY DEF Init, PrState
<1> QED
  BY <1>1, <1>2, <1>4, <1>5, <1>7, <1>8, <1>9, <1>10
     DEF Inv, TypeOK, RequestTyped, HistoryTyped

LEMMA InvStep == Inv /\ [Next]_vars => Inv'
<1> SUFFICES ASSUME Inv, [Next]_vars PROVE Inv'
  OBVIOUS
<1>1. ASSUME NEW r \in Requests, RouteWrites(r) PROVE Inv'
  BY <1>1, WritesKeep
<1>2. ASSUME NEW w \in Workers, WorkerStep(w) \/ Crash(w) PROVE Inv'
  BY <1>2, WorkerKeeps
<1>3. ASSUME NEW r \in Requests, RouteReads(r) PROVE Inv'
  BY <1>3, ReadsKeep
<1>4. ASSUME \/ \E j \in Jobs : Cancel(j) \/ ApproveCodex(j) \/ ApprovePr(j)
             \/ \E j \in Jobs, state \in PrState : ResolvePr(j, state)
             \/ \E p \in BOOLEAN : SetPaused(p)
      PROVE  Inv'
  BY <1>4, OutsideKeeps
<1>5. CASE UNCHANGED vars
  BY <1>5 DEF vars, history, Inv, TypeOK, WorkersHold, RequestsHold
<1> QED
  BY <1>1, <1>2, <1>3, <1>4, <1>5 DEF Next

THEOREM Invariant == Spec => []Inv
BY InvInitial, InvStep, PTL DEF Spec

\* The rows, the workers' locals and the requests always have their types: no worker
\* or route ever writes a status that is none, or through a run that is not there.
THEOREM Types == Spec => []TypeOK
<1>1. Inv => TypeOK
  BY DEF Inv
<1> QED
  BY Invariant, <1>1, PTL

------------------------------------------------------------------------------
(* What a step of a worker does to jobs and workers, for the safety theorems. *)

\* The rest of the pipeline neither gives a licence nor a retry.
QuietJobs ==
  \A j \in Jobs :
    /\ jobs'[j].retries = jobs[j].retries
    /\ jobs'[j].status = "CODEX_APPROVED" => jobs[j].status = "CODEX_APPROVED"

OnlyMoves(w) == \A v \in Workers \ {w} : worker'[v] = worker[v]

LEMMA SetJobQuiet ==
  ASSUME Inv, NEW j \in Jobs, NEW status \in JobStatus \ {"CODEX_APPROVED"},
         SetJob(j, status)
  PROVE  QuietJobs
BY DEF Inv, TypeOK, JobRow, SetJob, QuietJobs

LEMMA GotoMoves ==
  ASSUME Inv, NEW w \in Workers, NEW label, Goto(w, label)
  PROVE  OnlyMoves(w) /\ worker'[w].pc = label /\ worker'[w].job = worker[w].job
BY DEF Inv, TypeOK, WorkerState, Goto, OnlyMoves

LEMMA NextIterationMoves ==
  ASSUME Inv, NEW w \in Workers, NextIteration(w)
  PROVE  OnlyMoves(w) /\ worker'[w].pc = "codexClaim"
BY DEF Inv, TypeOK, NextIteration, OnlyMoves, LoopTop

LEMMA ClaimMoves ==
  ASSUME Inv, NEW w \in Workers, NEW j \in Jobs, NEW label, Claim(w, j, label)
  PROVE  OnlyMoves(w) /\ worker'[w].pc = label /\ worker'[w].job = j
BY DEF Inv, TypeOK, Claim, OnlyMoves

------------------------------------------------------------------------------
(* Spending. *)

LEMMA QuietGate ==
  ASSUME Inv, Inv', QuietJobs, UNCHANGED approvals
  PROVE  Licensed' \subseteq Licensed /\ Granted' = Granted
BY DEF Inv, TypeOK, JobRow, QuietJobs, Licensed, Granted

\* A step that gives no licence and takes none is a Finish, a Withdraw or nothing.
LEMMA QuietStep ==
  ASSUME Inv, Inv', QuietJobs, UNCHANGED <<approvals, spends>>,
         NEW w \in Workers, OnlyMoves(w),
         \/ worker'[w].pc \notin TakingLabels
         \/ /\ worker[w].pc \in TakingLabels /\ worker'[w].pc \in TakingLabels
            /\ worker'[w].job = worker[w].job
  PROVE  Gate!Next
<1>1. Licensed' \subseteq Licensed /\ Granted' = Granted
  BY QuietGate
<1>2. \A v \in Workers \ {w} : Taken'[v] = Taken[v]
  BY DEF Taken, OnlyMoves
<1>3. CASE Taken'[w] = Taken[w]
  <2>1. Taken' = Taken
    BY <1>2, <1>3 DEF Taken
  <2>2. Gate!Withdraw
    BY <1>1, <2>1 DEF Gate!Withdraw
  <2> QED
    BY <2>2 DEF Gate!Next
<1>4. CASE Taken'[w] # Taken[w]
  <2>1. Taken'[w] = None /\ Taken[w] # None
    BY <1>4 DEF Taken
  <2>2. Taken' = [Taken EXCEPT ![w] = None]
    BY <1>2, <2>1 DEF Taken
  <2>3. Gate!Finish(w)
    BY <1>1, <2>1, <2>2 DEF Gate!Finish
  <2> QED
    BY <2>3 DEF Gate!Next
<1> QED
  BY <1>3, <1>4

LEMMA QuietOutside ==
  ASSUME Inv, Inv', QuietJobs, UNCHANGED <<approvals, spends, worker>>
  PROVE  Gate!Next
<1>1. Licensed' \subseteq Licensed /\ Granted' = Granted
  BY QuietGate
<1>2. Taken' = Taken
  BY DEF Taken
<1>3. Gate!Withdraw
  BY <1>1, <1>2 DEF Gate!Withdraw
<1> QED
  BY <1>3 DEF Gate!Next

LEMMA JobsUnchangedQuiet ==
  ASSUME UNCHANGED jobs
  PROVE  QuietJobs
BY DEF QuietJobs

LEMMA MarkJobQuiet ==
  ASSUME Inv, NEW w \in Workers, worker[w].pc \notin ClaimLabels,
         NEW status \in JobStatus \ {"CODEX_APPROVED"}, MarkJob(w, status)
  PROVE  QuietJobs
BY Holding, SetJobQuiet DEF MarkJob

\* Everything a worker does except to claim a job for Codex and to retry one.
OtherWorkerStep(w) ==
  \/ SkipCodex(w) \/ CodexMissing(w) \/ StartCodex(w) \/ CodexFails(w)
  \/ CodexSucceeds(w) \/ MarkValidating(w)
  \/ ValidationStage(w) \/ PushStage(w) \/ SetupStage(w) \/ Block(w) \/ FailRun(w)
  \/ ClaimPrCreated(w) \/ LifecycleMissing(w) \/ NoteLifecycle(w) \/ FindMerged(w)
  \/ MarkCompleted(w) \/ FindClosed(w) \/ FindChecksFailed(w) \/ GiveUpOnChecks(w)
  \/ Crash(w)

LEMMA MissingMoves ==
  ASSUME Inv, NEW w \in Workers, NEW meta, BlockForMissing(w, meta)
  PROVE  OnlyMoves(w) /\ worker'[w].pc \in {"codexClaim", "failRun"}
<1>1. CASE worker[w].run = 0
  BY <1>1, NextIterationMoves DEF BlockForMissing
<1>2. CASE worker[w].run # 0
  BY <1>2 DEF BlockForMissing, Inv, TypeOK, WorkerState, OnlyMoves
<1> QED
  BY <1>1, <1>2

\* None of those steps writes the status CODEX_APPROVED, or counts.
LEMMA OtherStepQuiet ==
  ASSUME Inv, NEW w \in Workers, OtherWorkerStep(w)
  PROVE  QuietJobs /\ UNCHANGED <<approvals, spends>>
<1> USE DEF At, ClaimLabels, JobStatus
<1>1. CASE SkipCodex(w)
  BY <1>1, MarkJobQuiet DEF SkipCodex, history
<1>2. CASE MarkValidating(w)
  BY <1>2, MarkJobQuiet DEF MarkValidating, history
<1>3. CASE Block(w)
  BY <1>3, MarkJobQuiet DEF Block, history
<1>4. CASE ValidationPasses(w)
  BY <1>4, MarkJobQuiet DEF ValidationPasses, history
<1>5. CASE MarkJobPrCreated(w)
  BY <1>5, MarkJobQuiet DEF MarkJobPrCreated, history
<1>6. CASE MarkCompleted(w)
  BY <1>6, MarkJobQuiet DEF MarkCompleted, history
<1>7. CASE CheckoutFails(w)
  BY <1>7, MarkJobQuiet DEF CheckoutFails, history
<1>8. CASE CheckoutValid(w)
  BY <1>8, MarkJobQuiet DEF CheckoutValid, history
<1>9. CASE MarkJobReady(w)
  BY <1>9, MarkJobQuiet DEF MarkJobReady, history
<1>10. CASE CodexMissing(w) \/ ValidationMissing(w) \/ PushMissing(w) \/ LifecycleMissing(w)
  BY <1>10, MarkJobQuiet
     DEF CodexMissing, ValidationMissing, PushMissing, LifecycleMissing, BlockForMissing, history
<1>11. CASE ClaimQueued(w)
  BY <1>11, SetJobQuiet, JobsUnchangedQuiet DEF ClaimQueued, FoundPaused, FoundNone, history
<1>12. ASSUME \/ StartCodex(w) \/ CodexFails(w) \/ CodexSucceeds(w) \/
                ClaimValidating(w) \/ ValidationFails(w) \/ MarkValidated(w) \/
                ClaimReview(w) \/ StartPush(w) \/ PushFails(w) \/
                PushSucceeds(w) \/ MarkRunPrCreated(w) \/ ClaimPrCreated(w) \/
                NoteLifecycle(w) \/ FindMerged(w) \/ FindClosed(w) \/
                FindChecksFailed(w) \/ GiveUpOnChecks(w) \/ CreateJobRun(w) \/
                PrepareFails(w) \/ PrepareSucceeds(w) \/ MarkRunReady(w) \/
                FailRun(w) \/ Crash(w)
      PROVE  QuietJobs /\ UNCHANGED <<approvals, spends>>
  <2>1. UNCHANGED <<jobs, approvals, spends>>
    BY <1>12
       DEF StartCodex, CodexFails, CodexSucceeds, ClaimValidating, ValidationFails,
           MarkValidated, ClaimReview, StartPush, PushFails, PushSucceeds,
           MarkRunPrCreated, ClaimPrCreated, NoteLifecycle, FindMerged, FindClosed,
           FindChecksFailed, GiveUpOnChecks, CreateJobRun, PrepareFails,
           PrepareSucceeds, MarkRunReady, FailRun, Crash, FoundPaused, FoundNone,
           FoundUnleased, history
  <2> QED
    BY <2>1, JobsUnchangedQuiet
<1> QED
  BY <1>1, <1>2, <1>3, <1>4, <1>5, <1>6, <1>7, <1>8, <1>9, <1>10, <1>11, <1>12
     DEF OtherWorkerStep, ValidationStage, PushStage, SetupStage

\* And none of them takes a licence: at most the worker lets go of the one it has.
LetsGo(w) ==
  \/ worker'[w].pc \notin TakingLabels
  \/ /\ worker[w].pc \in TakingLabels /\ worker'[w].pc \in TakingLabels
     /\ worker'[w].job = worker[w].job

LEMMA OtherStepMoves ==
  ASSUME Inv, NEW w \in Workers, OtherWorkerStep(w)
  PROVE  OnlyMoves(w) /\ LetsGo(w)
<1> USE DEF TakingLabels, LetsGo
<1>1. CASE SkipCodex(w) \/ MarkValidating(w) \/ MarkValidated(w) \/
           MarkJobPrCreated(w) \/ NoteLifecycle(w) \/ MarkCompleted(w) \/
           CheckoutFails(w) \/ MarkJobReady(w) \/ Block(w) \/ FailRun(w) \/ Crash(w)
  <2>1. NextIteration(w)
    BY <1>1
       DEF SkipCodex, MarkValidating, MarkValidated, MarkJobPrCreated,
           NoteLifecycle, MarkCompleted, CheckoutFails, MarkJobReady, Block,
           FailRun, Crash
  <2> QED
    BY <2>1, NextIterationMoves
<1>2. CASE CodexFails(w) \/ CodexSucceeds(w) \/ ValidationFails(w) \/
           ValidationPasses(w) \/ StartPush(w) \/ PushFails(w) \/
           PushSucceeds(w) \/ MarkRunPrCreated(w) \/ FindMerged(w) \/
           FindClosed(w) \/ FindChecksFailed(w) \/ GiveUpOnChecks(w) \/
           CheckoutValid(w) \/ PrepareFails(w) \/ PrepareSucceeds(w) \/
           MarkRunReady(w)
  <2>1. \E label \in Labels \ TakingLabels : Goto(w, label)
    BY <1>2
       DEF CodexFails, CodexSucceeds, ValidationFails, ValidationPasses, StartPush,
           PushFails, PushSucceeds, MarkRunPrCreated, FindMerged, FindClosed,
           FindChecksFailed, GiveUpOnChecks, CheckoutValid, PrepareFails,
           PrepareSucceeds, MarkRunReady, Labels, SetupLabels, CodexLabels,
           OtherLabels
  <2> QED
    BY <2>1, GotoMoves
<1>3. CASE StartCodex(w)
  BY <1>3, GotoMoves DEF StartCodex, At
<1>4. CASE CodexMissing(w) \/ ValidationMissing(w) \/ PushMissing(w) \/
           LifecycleMissing(w)
  <2>1. \E meta : BlockForMissing(w, meta)
    BY <1>4 DEF CodexMissing, ValidationMissing, PushMissing, LifecycleMissing
  <2> QED
    BY <2>1, MissingMoves
<1>5. CASE ClaimValidating(w) \/ ClaimReview(w) \/ ClaimPrCreated(w)
  <2>1. \/ NextIteration(w)
        \/ \E label \in Labels \ TakingLabels :
              Goto(w, label) \/ \E j \in Jobs : Claim(w, j, label)
    BY <1>5
       DEF ClaimValidating, ClaimReview, ClaimPrCreated, FoundPaused, FoundNone,
           FoundUnleased, Labels, ClaimLabels, OtherLabels
  <2> QED
    BY <2>1, NextIterationMoves, GotoMoves, ClaimMoves
<1>6. CASE ClaimQueued(w)
  <2>1. ASSUME NEW j \in Jobs,
               worker' = [worker EXCEPT ![w] =
                 [LoopTop EXCEPT !.pc = "checkout", !.job = j]]
        PROVE  OnlyMoves(w) /\ LetsGo(w)
    BY <2>1 DEF OnlyMoves, LoopTop, Inv, TypeOK
  <2> QED
    BY <1>6, <2>1, NextIterationMoves, GotoMoves DEF ClaimQueued, FoundPaused, FoundNone
<1>7. CASE CreateJobRun(w)
  BY <1>7 DEF CreateJobRun, OnlyMoves, Inv, TypeOK, WorkerState
<1> QED
  BY <1>1, <1>2, <1>3, <1>4, <1>5, <1>6, <1>7
     DEF OtherWorkerStep, ValidationStage, PushStage, SetupStage

LEMMA ClaimCodexTakes ==
  ASSUME Inv, Inv', NEW w \in Workers, ClaimCodex(w)
  PROVE  Gate!Next
<1>1. CASE FoundNone(w, "CODEX_APPROVED", "validationClaim") /\ UNCHANGED history
  <2>1. QuietJobs /\ UNCHANGED <<approvals, spends>>
    BY <1>1, JobsUnchangedQuiet DEF FoundNone, history
  <2>2. OnlyMoves(w) /\ worker'[w].pc = "validationClaim"
    BY <1>1, GotoMoves DEF FoundNone
  <2> QED
    BY <2>1, <2>2, QuietStep DEF TakingLabels
<1>2. ASSUME NEW j \in Jobs, jobs[j].status = "CODEX_APPROVED", SetJob(j, "RUNNING"),
             Claim(w, j, IF w \in CodexWorkers THEN "codexStart" ELSE "codexSkip"),
             spends' = [spends EXCEPT ![j] = @ + 1], UNCHANGED approvals
      PROVE  Gate!Next
  <2>1. OnlyMoves(w) /\ worker'[w].pc \in TakingLabels /\ worker'[w].job = j
    BY <1>2, ClaimMoves DEF TakingLabels
  <2>2. \A v \in Workers \ {w} : Taken'[v] = Taken[v]
    BY <2>1 DEF Taken, OnlyMoves
  <2>3. Taken'[w] = j /\ Taken[w] = None
    BY <2>1 DEF Taken, ClaimCodex, At, TakingLabels
  <2>4. Taken' = [Taken EXCEPT ![w] = j]
    BY <2>2, <2>3 DEF Taken
  <2>5. j \in Licensed /\ Licensed' = Licensed \ {j}
    BY <1>2 DEF Licensed, SetJob, Inv, TypeOK, JobRow
  <2>6. Granted' = Granted
    BY <1>2 DEF Granted, SetJob, Inv, TypeOK, JobRow
  <2>7. Gate!Take(w, j)
    BY <1>2, <2>3, <2>4, <2>5, <2>6 DEF Gate!Take
  <2> QED
    BY <2>7 DEF Gate!Next
<1> QED
  BY <1>1, <1>2 DEF ClaimCodex

LEMMA AutoRetryGrants ==
  ASSUME Inv, Inv', NEW w \in Workers, AutoRetry(w)
  PROVE  Gate!Next
<1> DEFINE j == worker[w].job
<1>1. j \in Jobs /\ worker[w].pc = "checksFailed" /\ NextIteration(w)
  BY Holding DEF AutoRetry, At, ClaimLabels
<1>2. OnlyMoves(w) /\ worker'[w].pc = "codexClaim"
  BY <1>1, NextIterationMoves
<1>3. UNCHANGED <<approvals, spends>>
  BY DEF AutoRetry
<1>4. CASE jobs[j].status = "PR_CREATED"
  <2>1. jobs' = [jobs EXCEPT ![j] =
                  [status |-> "CODEX_APPROVED", retries |-> jobs[j].retries + 1]]
    BY <1>4 DEF AutoRetry
  <2>2. j \notin Licensed /\ Licensed' = Licensed \cup {j}
    BY <1>1, <1>4, <2>1 DEF Licensed, Inv, TypeOK, JobRow
  <2>3. Granted' = [Granted EXCEPT ![j] = @ + 1]
    <3>1. /\ jobs'[j].retries = jobs[j].retries + 1
          /\ \A k \in Jobs \ {j} : jobs'[k] = jobs[k]
      BY <1>1, <2>1 DEF Inv, TypeOK
    <3>2. approvals[j] \in Nat /\ jobs[j].retries \in Nat
      BY <1>1 DEF Inv, TypeOK, JobRow
    <3>3. approvals'[j] + jobs'[j].retries = (approvals[j] + jobs[j].retries) + 1
      BY <1>3, <3>1, <3>2
    <3>4. Granted'[j] = Granted[j] + 1 /\ \A k \in Jobs \ {j} : Granted'[k] = Granted[k]
      BY <1>1, <1>3, <3>1, <3>3 DEF Granted
    <3> QED
      BY <3>4 DEF Granted
  <2>4. Taken' = Taken
    BY <1>1, <1>2 DEF Taken, OnlyMoves, TakingLabels
  <2>5. Gate!Grant(j)
    BY <1>3, <2>2, <2>3, <2>4 DEF Gate!Grant
  <2> QED
    BY <1>1, <2>5 DEF Gate!Next
<1>5. CASE jobs[j].status # "PR_CREATED"
  <2>1. QuietJobs
    BY <1>5, JobsUnchangedQuiet DEF AutoRetry
  <2> QED
    BY <1>2, <1>3, <2>1, QuietStep DEF TakingLabels
<1> QED
  BY <1>4, <1>5

LEMMA WorkerSpends ==
  ASSUME Inv, Inv', NEW w \in Workers, WorkerStep(w) \/ Crash(w)
  PROVE  Gate!Next
<1>1. CASE OtherWorkerStep(w)
  BY <1>1, OtherStepQuiet, OtherStepMoves, QuietStep DEF LetsGo
<1> QED
  BY <1>1, ClaimCodexTakes, AutoRetryGrants
     DEF WorkerStep, CodexStage, LifecycleStage, OtherWorkerStep

LEMMA RoutesSpend ==
  ASSUME Inv, Inv', NEW r \in Requests, RouteReads(r) \/ RouteWrites(r)
  PROVE  Gate!Next
<1>1. UNCHANGED <<approvals, spends, worker>>
  BY DEF RouteReads, ReadForApproval, ReadForRequeue, ReadForRetryStage, Begin,
         RouteWrites, ApproveReview, Requeue, RetryStage, history
<1>2. QuietJobs
  <2>1. CASE RouteReads(r)
    BY <2>1, JobsUnchangedQuiet
       DEF RouteReads, ReadForApproval, ReadForRequeue, ReadForRetryStage, Begin
  <2>2. CASE RouteWrites(r)
    <3>1. request[r].job \in Jobs /\ request[r].target \in JobStatus \ {"CODEX_APPROVED"}
      BY <2>2, JobPipelineAssumption
         DEF RouteWrites, ApproveReview, Requeue, RetryStage, RouteNames,
             Inv, RequestsHold, RouteTargets, JobStatus
    <3>2. "QUEUED" \in JobStatus \ {"CODEX_APPROVED"}
      BY DEF JobStatus
    <3> QED
      BY <2>2, <3>1, <3>2, SetJobQuiet DEF RouteWrites, ApproveReview, Requeue, RetryStage
  <2> QED
    BY <2>1, <2>2
<1> QED
  BY <1>1, <1>2, QuietOutside

LEMMA ApprovalGrants ==
  ASSUME Inv, Inv', NEW j \in Jobs, ApproveCodex(j)
  PROVE  Gate!Next
<1>1. /\ jobs[j].status = "READY_FOR_CODEX" /\ SetJob(j, "CODEX_APPROVED")
      /\ approvals' = [approvals EXCEPT ![j] = @ + 1] /\ UNCHANGED <<worker, spends>>
  BY DEF ApproveCodex
<1>2. j \notin Licensed /\ Licensed' = Licensed \cup {j}
  BY <1>1 DEF Licensed, SetJob, Inv, TypeOK, JobRow
<1>3. Granted' = [Granted EXCEPT ![j] = @ + 1]
  <2>1. \A k \in Jobs : jobs'[k].retries = jobs[k].retries
    BY <1>1 DEF SetJob, Inv, TypeOK, JobRow
  <2>2. approvals[j] \in Nat /\ jobs[j].retries \in Nat
    BY DEF Inv, TypeOK, JobRow
  <2>3. approvals'[j] = approvals[j] + 1 /\ \A k \in Jobs \ {j} : approvals'[k] = approvals[k]
    BY <1>1 DEF Inv, TypeOK
  <2>4. Granted'[j] = Granted[j] + 1 /\ \A k \in Jobs \ {j} : Granted'[k] = Granted[k]
    BY <2>1, <2>2, <2>3 DEF Granted
  <2> QED
    BY <2>4 DEF Granted
<1>4. Taken' = Taken
  BY <1>1 DEF Taken
<1>5. Gate!Grant(j)
  BY <1>1, <1>2, <1>3, <1>4 DEF Gate!Grant
<1> QED
  BY <1>5 DEF Gate!Next

LEMMA OutsideSpends ==
  ASSUME Inv, Inv',
         \/ \E j \in Jobs : Cancel(j) \/ ApproveCodex(j) \/ ApprovePr(j)
         \/ \E j \in Jobs, state \in PrState : ResolvePr(j, state)
         \/ \E p \in BOOLEAN : SetPaused(p)
  PROVE  Gate!Next
<1>1. ASSUME NEW j \in Jobs, Cancel(j) \/ ApprovePr(j)
      PROVE  Gate!Next
  <2>1. UNCHANGED <<approvals, spends, worker>>
    BY <1>1 DEF Cancel, ApprovePr, history
  <2>2. QuietJobs
    BY <1>1, SetJobQuiet DEF Cancel, ApprovePr, JobStatus
  <2> QED
    BY <2>1, <2>2, QuietOutside
<1>2. CASE \/ \E j \in Jobs, state \in PrState : ResolvePr(j, state)
           \/ \E p \in BOOLEAN : SetPaused(p)
  <2>1. UNCHANGED <<jobs, approvals, spends, worker>>
    BY <1>2 DEF ResolvePr, SetPaused, history
  <2> QED
    BY <2>1, JobsUnchangedQuiet, QuietOutside
<1> QED
  BY <1>1, <1>2, ApprovalGrants

LEMMA GateInitial == Init => Gate!Init
<1> SUFFICES ASSUME Init PROVE Gate!Init
  OBVIOUS
<1>1. \A w \in Workers : worker[w].pc = "codexClaim"
  BY DEF Init, LoopTop
<1>2. Licensed = {}
  BY DEF Init, Licensed
<1>3. Taken = [w \in Workers |-> None]
  BY <1>1 DEF Taken, TakingLabels
<1>4. Granted = [j \in Jobs |-> 0]
  BY DEF Init, Granted
<1> QED
  BY <1>2, <1>3, <1>4 DEF Init, Gate!Init

LEMMA GateStep == Inv /\ Inv' /\ [Next]_vars => [Gate!Next]_(Gate!gateVars)
<1> SUFFICES ASSUME Inv, Inv', [Next]_vars PROVE Gate!Next \/ UNCHANGED Gate!gateVars
  OBVIOUS
<1>1. CASE Next
  BY <1>1, WorkerSpends, RoutesSpend, OutsideSpends DEF Next
<1>2. CASE UNCHANGED vars
  BY <1>2 DEF vars, history, Gate!gateVars, Licensed, Taken, Granted
<1> QED
  BY <1>1, <1>2

\* However many workers, requests and crashes: the pipeline spends on a model only as
\* SpendGate lets it.  Every licence is taken from the status CODEX_APPROVED in the
\* transaction that ends that status, and given by approve-codex or an automatic retry.
THEOREM ImplementsSpendGate == Spec => SpendGateSpec
BY Invariant, GateInitial, GateStep, PTL DEF Spec, SpendGateSpec, Gate!Spec

\* What is spent, and the licence that is still open, has been granted.
Covered ==
  \A j \in Jobs : spends[j] + (IF j \in Licensed THEN 1 ELSE 0) <= Granted[j]

LEMMA CoveredInitial == Init => Covered
<1> SUFFICES ASSUME Init, NEW j \in Jobs
             PROVE  spends[j] + (IF j \in Licensed THEN 1 ELSE 0) <= Granted[j]
  BY DEF Covered
<1>1. spends[j] = 0 /\ Granted[j] = 0 /\ j \notin Licensed
  BY DEF Init, Granted, Licensed
<1> QED
  BY <1>1

LEMMA CoveredStep ==
  Inv /\ Inv' /\ Covered /\ [Gate!Next]_(Gate!gateVars) => Covered'
<1> SUFFICES ASSUME Inv, Inv', Covered, Gate!Next \/ UNCHANGED Gate!gateVars,
                    NEW j \in Jobs
             PROVE  spends'[j] + (IF j \in Licensed' THEN 1 ELSE 0) <= Granted'[j]
  BY DEF Covered
<1>1. /\ spends[j] \in Nat /\ Granted[j] \in Nat /\ Granted \in [Jobs -> Nat]
      /\ spends \in [Jobs -> Nat]
  BY DEF Inv, TypeOK, JobRow, Granted
<1>2. spends[j] + (IF j \in Licensed THEN 1 ELSE 0) <= Granted[j]
  BY DEF Covered
<1>3. ASSUME NEW k \in Jobs, Gate!Grant(k)
      PROVE  spends'[j] + (IF j \in Licensed' THEN 1 ELSE 0) <= Granted'[j]
  BY <1>1, <1>2, <1>3 DEF Gate!Grant
<1>4. ASSUME NEW k \in Jobs, NEW w \in Workers, Gate!Take(w, k)
      PROVE  spends'[j] + (IF j \in Licensed' THEN 1 ELSE 0) <= Granted'[j]
  BY <1>1, <1>2, <1>4 DEF Gate!Take
<1>5. ASSUME Gate!Withdraw \/ (\E w \in Workers : Gate!Finish(w))
             \/ UNCHANGED Gate!gateVars
      PROVE  spends'[j] + (IF j \in Licensed' THEN 1 ELSE 0) <= Granted'[j]
  <2>1. Licensed' \subseteq Licensed /\ spends' = spends /\ Granted' = Granted
    BY <1>5 DEF Gate!Withdraw, Gate!Finish, Gate!gateVars
  <2> QED
    BY <1>1, <1>2, <2>1
<1> QED
  BY <1>3, <1>4, <1>5 DEF Gate!Next

\* Workers never take a job to Codex more often than approve-codex approved it and
\* failed checks had it retried: no stale write, crash or second worker forges a licence.
THEOREM SpendsAreGranted == Spec => []SpendIsGranted
<1>1. Inv /\ Covered => SpendIsGranted
  <2> SUFFICES ASSUME Inv, Covered, NEW j \in Jobs
               PROVE  spends[j] <= approvals[j] + jobs[j].retries
    BY DEF SpendIsGranted
  <2>1. /\ spends[j] \in Nat /\ approvals[j] \in Nat /\ jobs[j].retries \in Nat
        /\ Granted[j] = approvals[j] + jobs[j].retries
    BY DEF Inv, TypeOK, JobRow, Granted
  <2>2. spends[j] + (IF j \in Licensed THEN 1 ELSE 0) <= Granted[j]
    BY DEF Covered
  <2> QED
    BY <2>1, <2>2
<1>2. Inv /\ Inv' /\ Covered /\ [Next]_vars => Covered'
  BY GateStep, CoveredStep
<1> QED
  BY Invariant, CoveredInitial, <1>1, <1>2, PTL DEF Spec

------------------------------------------------------------------------------
(* Jobs in flight. *)

\* Every step but a crash is of one of four kinds: the job's next writer stays on it;
\* the worker gives its job a status that is not in flight; it takes a job; or a
\* route or a retry gives a job a status that is not in flight.
LEMMA StaysOn ==
  ASSUME Inv, InFlightIsHeld, NEW w \in Workers, OnlyMoves(w), UNCHANGED jobs,
         \/ worker[w].pc \notin MovingOn
         \/ worker'[w].pc \in MovingOn /\ worker'[w].job = worker[w].job
  PROVE  InFlightIsHeld'
BY DEF InFlightIsHeld, OnlyMoves

\* The job's row after a write of its status alone, and everybody else's.
LEMMA SetJobRow ==
  ASSUME Inv, NEW j \in Jobs, NEW status \in JobStatus, SetJob(j, status)
  PROVE  jobs'[j].status = status /\ \A k \in Jobs \ {j} : jobs'[k] = jobs[k]
BY DEF Inv, TypeOK, JobRow, SetJob

LEMMA Parks ==
  ASSUME Inv, InFlightIsHeld, NEW w \in Workers, OnlyMoves(w), worker[w].job \in Jobs,
         jobs'[worker[w].job].status \notin InFlight,
         \A k \in Jobs \ {worker[w].job} : jobs'[k] = jobs[k]
  PROVE  InFlightIsHeld'
BY DEF InFlightIsHeld, OnlyMoves

LEMMA Takes ==
  ASSUME Inv, InFlightIsHeld, NEW w \in Workers, OnlyMoves(w), NEW j \in Jobs,
         worker'[w].job = j, worker'[w].pc \in MovingOn,
         worker[w].pc \notin MovingOn \/ worker[w].job = j,
         \A k \in Jobs \ {j} : jobs'[k] = jobs[k]
  PROVE  InFlightIsHeld'
BY DEF InFlightIsHeld, OnlyMoves

LEMMA Released ==
  ASSUME InFlightIsHeld, UNCHANGED worker,
         \A k \in Jobs : jobs'[k].status \in InFlight => jobs[k].status = jobs'[k].status
  PROVE  InFlightIsHeld'
BY DEF InFlightIsHeld

LEMMA MarkJobParks ==
  ASSUME Inv, InFlightIsHeld, NEW w \in Workers, OnlyMoves(w),
         worker[w].pc \notin ClaimLabels,
         NEW status \in JobStatus \ InFlight, MarkJob(w, status)
  PROVE  InFlightIsHeld'
<1>1. worker[w].job \in Jobs
  BY Holding
<1>2. /\ jobs'[worker[w].job].status \notin InFlight
      /\ \A k \in Jobs \ {worker[w].job} : jobs'[k] = jobs[k]
  BY <1>1, SetJobRow DEF MarkJob
<1> QED
  BY <1>1, <1>2, Parks

LEMMA WorkerHolds ==
  ASSUME Inv, InFlightIsHeld, NEW w \in Workers, WorkerStep(w)
  PROVE  InFlightIsHeld'
<1> USE DEF At
<1>1. CASE SkipCodex(w) \/ MarkValidating(w) \/ Block(w) \/ ValidationPasses(w) \/
           MarkJobPrCreated(w) \/ MarkCompleted(w) \/ CheckoutFails(w) \/
           MarkJobReady(w)
  <2>1. /\ worker[w].pc \notin ClaimLabels
        /\ \E status \in JobStatus \ InFlight : MarkJob(w, status)
    BY <1>1
       DEF SkipCodex, MarkValidating, Block, ValidationPasses, MarkJobPrCreated,
           MarkCompleted, CheckoutFails, MarkJobReady, ClaimLabels, JobStatus,
           InFlight
  <2>2. NextIteration(w) \/ \E label : Goto(w, label)
    BY <1>1
       DEF SkipCodex, MarkValidating, Block, ValidationPasses, MarkJobPrCreated,
           MarkCompleted, CheckoutFails, MarkJobReady
  <2>3. OnlyMoves(w)
    BY <2>2, NextIterationMoves, GotoMoves
  <2> QED
    BY <2>1, <2>3, MarkJobParks
<1>2. CASE CodexMissing(w) \/ ValidationMissing(w) \/ PushMissing(w) \/
           LifecycleMissing(w)
  <2>1. worker[w].pc \notin ClaimLabels /\ \E meta : BlockForMissing(w, meta)
    BY <1>2 DEF CodexMissing, ValidationMissing, PushMissing, LifecycleMissing,
                ClaimLabels
  <2>2. MarkJob(w, "BLOCKED") /\ "BLOCKED" \in JobStatus \ InFlight
    BY <2>1 DEF BlockForMissing, JobStatus, InFlight
  <2> QED
    BY <2>1, <2>2, MissingMoves, MarkJobParks
<1>3. CASE MarkValidated(w) \/ NoteLifecycle(w) \/ FailRun(w)
  <2>1. /\ worker[w].pc \notin MovingOn /\ NextIteration(w) /\ UNCHANGED jobs
    BY <1>3
       DEF MarkValidated, NoteLifecycle, FailRun, MovingOn, SetupLabels,
           CodexLabels, CanInspect
  <2> QED
    BY <2>1, NextIterationMoves, StaysOn
<1>4. CASE StartCodex(w) \/ CodexFails(w) \/ CodexSucceeds(w) \/
           ValidationFails(w) \/ StartPush(w) \/ PushFails(w) \/ PushSucceeds(w) \/
           MarkRunPrCreated(w) \/ FindMerged(w) \/ FindClosed(w) \/
           FindChecksFailed(w) \/ GiveUpOnChecks(w) \/ PrepareFails(w) \/
           PrepareSucceeds(w) \/ MarkRunReady(w)
  <2>1. /\ UNCHANGED jobs
        /\ \E label : /\ Goto(w, label)
                      /\ worker[w].pc \notin MovingOn \/ label \in MovingOn
    BY <1>4
       DEF StartCodex, CodexFails, CodexSucceeds, ValidationFails, StartPush,
           PushFails, PushSucceeds, MarkRunPrCreated, FindMerged, FindClosed,
           FindChecksFailed, GiveUpOnChecks, PrepareFails, PrepareSucceeds,
           MarkRunReady, MovingOn, SetupLabels, CodexLabels, CanInspect
  <2> QED
    BY <2>1, GotoMoves, StaysOn
<1>5. CASE ClaimValidating(w) \/ ClaimReview(w) \/ ClaimPrCreated(w)
  <2>1. /\ worker[w].pc \notin MovingOn /\ UNCHANGED jobs
        /\ \/ NextIteration(w)
           \/ \E label : Goto(w, label) \/ \E j \in Jobs : Claim(w, j, label)
    BY <1>5
       DEF ClaimValidating, ClaimReview, ClaimPrCreated, FoundPaused, FoundNone,
           FoundUnleased, MovingOn, SetupLabels, CodexLabels
  <2> QED
    BY <2>1, NextIterationMoves, GotoMoves, ClaimMoves, StaysOn
<1>6. CASE ClaimCodex(w)
  <2>1. worker[w].pc \notin MovingOn
    BY <1>6 DEF ClaimCodex, MovingOn, SetupLabels, CodexLabels
  <2>2. CASE FoundNone(w, "CODEX_APPROVED", "validationClaim")
    BY <2>1, <2>2, GotoMoves, StaysOn DEF FoundNone
  <2>3. ASSUME NEW j \in Jobs, SetJob(j, "RUNNING"),
               Claim(w, j, IF w \in CodexWorkers THEN "codexStart" ELSE "codexSkip")
        PROVE  InFlightIsHeld'
    <3>1. OnlyMoves(w) /\ worker'[w].job = j /\ worker'[w].pc \in MovingOn
      BY <2>3, ClaimMoves DEF MovingOn, CodexLabels
    <3>2. \A k \in Jobs \ {j} : jobs'[k] = jobs[k]
      BY <2>3, SetJobRow DEF JobStatus
    <3> QED
      BY <2>1, <3>1, <3>2, Takes
  <2> QED
    BY <1>6, <2>2, <2>3 DEF ClaimCodex
<1>7. CASE ClaimQueued(w)
  <2>1. worker[w].pc \notin MovingOn
    BY <1>7 DEF ClaimQueued, MovingOn, SetupLabels, CodexLabels
  <2>2. CASE FoundPaused(w) \/ FoundNone(w, "QUEUED", "codexClaim")
    BY <2>1, <2>2, NextIterationMoves, GotoMoves, StaysOn DEF FoundPaused, FoundNone
  <2>3. ASSUME NEW j \in Jobs, SetJob(j, "CLAIMED"),
               worker' = [worker EXCEPT ![w] =
                 [LoopTop EXCEPT !.pc = "checkout", !.job = j]]
        PROVE  InFlightIsHeld'
    <3>1. OnlyMoves(w) /\ worker'[w].job = j /\ worker'[w].pc = "checkout"
      BY <2>3 DEF OnlyMoves, LoopTop, Inv, TypeOK
    <3>2. \A k \in Jobs \ {j} : jobs'[k] = jobs[k]
      BY <2>3, SetJobRow DEF JobStatus
    <3> QED
      BY <2>1, <3>1, <3>2, Takes DEF MovingOn, SetupLabels
  <2> QED
    BY <1>7, <2>2, <2>3 DEF ClaimQueued
<1>8. CASE CheckoutValid(w)
  <2>1. worker[w].job \in Jobs
    BY <1>8, Holding DEF CheckoutValid, ClaimLabels
  <2>2. OnlyMoves(w) /\ worker'[w].job = worker[w].job /\ worker'[w].pc = "createRun"
    BY <1>8, GotoMoves DEF CheckoutValid
  <2>3. \A k \in Jobs \ {worker[w].job} : jobs'[k] = jobs[k]
    BY <1>8, <2>1, SetJobRow DEF CheckoutValid, MarkJob, JobStatus
  <2> QED
    BY <2>1, <2>2, <2>3, Takes DEF MovingOn, SetupLabels
<1>9. CASE CreateJobRun(w)
  <2>1. OnlyMoves(w) /\ worker'[w].pc = "prepare" /\ worker'[w].job = worker[w].job
    BY <1>9 DEF CreateJobRun, OnlyMoves, Inv, TypeOK, WorkerState
  <2> QED
    BY <1>9, <2>1, StaysOn DEF CreateJobRun, MovingOn, SetupLabels
<1>10. CASE AutoRetry(w)
  <2>1. /\ worker[w].job \in Jobs /\ OnlyMoves(w)
        /\ worker[w].pc \notin MovingOn
    BY <1>10, Holding, NextIterationMoves
       DEF AutoRetry, ClaimLabels, MovingOn, SetupLabels, CodexLabels
  <2>2. CASE UNCHANGED jobs
    BY <2>1, <2>2, StaysOn
  <2>3. CASE jobs' = [jobs EXCEPT ![worker[w].job] =
                   [status |-> "CODEX_APPROVED", retries |-> @.retries + 1]]
    <3>1. /\ jobs'[worker[w].job].status = "CODEX_APPROVED"
          /\ \A k \in Jobs \ {worker[w].job} : jobs'[k] = jobs[k]
      BY <2>1, <2>3 DEF Inv, TypeOK
    <3> QED
      BY <2>1, <3>1, Parks DEF InFlight
  <2> QED
    BY <1>10, <2>2, <2>3 DEF AutoRetry
<1> QED
  BY <1>1, <1>2, <1>3, <1>4, <1>5, <1>6, <1>7, <1>8, <1>9, <1>10
     DEF WorkerStep, CodexStage, ValidationStage, PushStage, LifecycleStage, SetupStage

LEMMA OthersHold ==
  ASSUME Inv, InFlightIsHeld,
         \/ \E r \in Requests : RouteReads(r) \/ RouteWrites(r)
         \/ \E j \in Jobs : Cancel(j) \/ ApproveCodex(j) \/ ApprovePr(j)
         \/ \E j \in Jobs, state \in PrState : ResolvePr(j, state)
         \/ \E p \in BOOLEAN : SetPaused(p)
  PROVE  InFlightIsHeld'
<1>1. UNCHANGED worker
  BY DEF RouteReads, ReadForApproval, ReadForRequeue, ReadForRetryStage, Begin,
         RouteWrites, ApproveReview, Requeue, RetryStage,
         Cancel, ApproveCodex, ApprovePr, ResolvePr, SetPaused
<1>2. ASSUME NEW j \in Jobs, NEW status \in JobStatus \ InFlight, SetJob(j, status)
      PROVE  InFlightIsHeld'
  BY <1>1, <1>2, SetJobRow, Released
<1>3. ASSUME NEW r \in Requests, RouteWrites(r)
      PROVE  InFlightIsHeld'
  <2>1. request[r].job \in Jobs /\ request[r].target \in JobStatus \ InFlight
    BY <1>3, JobPipelineAssumption
       DEF RouteWrites, ApproveReview, Requeue, RetryStage, RouteNames,
           Inv, RequestsHold, RouteTargets, JobStatus, InFlight
  <2>2. "QUEUED" \in JobStatus \ InFlight
    BY DEF JobStatus, InFlight
  <2> QED
    BY <1>2, <1>3, <2>1, <2>2 DEF RouteWrites, ApproveReview, Requeue, RetryStage
<1>4. ASSUME NEW j \in Jobs, Cancel(j) \/ ApproveCodex(j) \/ ApprovePr(j)
      PROVE  InFlightIsHeld'
  <2>1. {"CANCELED", "CODEX_APPROVED", "PR_APPROVED"} \subseteq JobStatus \ InFlight
    BY DEF JobStatus, InFlight
  <2> QED
    BY <1>2, <1>4, <2>1 DEF Cancel, ApproveCodex, ApprovePr
<1>5. CASE \/ \E r \in Requests : RouteReads(r)
           \/ \E j \in Jobs, state \in PrState : ResolvePr(j, state)
           \/ \E p \in BOOLEAN : SetPaused(p)
  <2>1. UNCHANGED jobs
    BY <1>5 DEF RouteReads, ReadForApproval, ReadForRequeue, ReadForRetryStage, Begin,
                ResolvePr, SetPaused
  <2> QED
    BY <1>1, <2>1, Released
<1> QED
  BY <1>3, <1>4, <1>5

\* As long as no worker is killed, every job that is being set up or run is held by a
\* worker whose next writes move it on, however many workers and requests there are.
THEOREM InFlightHeld ==
  ASSUME ~Crashes
  PROVE  Spec => []InFlightIsHeld
<1>1. Init => InFlightIsHeld
  BY DEF Init, InFlightIsHeld, InFlight
<1>2. Inv /\ InFlightIsHeld /\ [Next]_vars => InFlightIsHeld'
  <2> SUFFICES ASSUME Inv, InFlightIsHeld, [Next]_vars PROVE InFlightIsHeld'
    OBVIOUS
  <2>1. ASSUME NEW w \in Workers, Crash(w) PROVE FALSE
    BY <2>1 DEF Crash
  <2>2. CASE UNCHANGED vars
    BY <2>2, Released DEF vars
  <2> QED
    BY <2>1, <2>2, WorkerHolds, OthersHold DEF Next
<1> QED
  BY Invariant, <1>1, <1>2, PTL DEF Spec
------------------------------------------------------------------------------
(* What a sole worker may trust of its claims, whatever routes and kills do. *)

SoleWorker == \A v, w \in Workers : v = w

PushingLabels == {"push", "pushing"}
RetryingLabels == {"inspect", "checksFailed"}

\* Nobody else counts retries, or gives the job to Codex, behind the worker's back.
SoleInv ==
  /\ AutoRetriesBounded
  /\ \A w \in Workers : worker[w].pc \in RetryingLabels =>
       worker[w].retries = jobs[worker[w].job].retries
  /\ \A j \in Jobs : jobs[j].status = "PR_APPROVED" => reviewed[j]
  /\ PushIsReviewed

\* No step except a Codex claim and an automatic retry changes what those rest on.
TrustKept ==
  /\ \A j \in Jobs : jobs'[j].retries = jobs[j].retries
  /\ \A j \in Jobs : jobs'[j].status = "PR_APPROVED" =>
       jobs[j].status = "PR_APPROVED" \/ reviewed'[j]
  /\ \A j \in Jobs : reviewed[j] => reviewed'[j]

\* The worker claims the job, keeps to its stage, or is in neither stage.
TrustsClaim(w) ==
  \/ worker'[w].pc \notin PushingLabels \cup RetryingLabels
  \/ \E labels \in {PushingLabels, RetryingLabels} :
       /\ worker[w].pc \in labels /\ worker'[w].pc \in labels
       /\ worker'[w].job = worker[w].job /\ worker'[w].retries = worker[w].retries
  \/ \E j \in Jobs :
       /\ worker'[w].job = j /\ worker'[w].retries = jobs[j].retries
       /\ worker'[w].pc = "inspect" \/ jobs[j].status = "PR_APPROVED"
       /\ worker'[w].pc \in {"inspect", "push"}

LEMMA TrustKeepsSole ==
  ASSUME SoleWorker, Inv, SoleInv, TrustKept,
         UNCHANGED worker \/ \E w \in Workers : TrustsClaim(w)
  PROVE  SoleInv'
<1> USE DEF PushingLabels, RetryingLabels
<1>1. AutoRetriesBounded' /\ \A j \in Jobs : jobs'[j].status = "PR_APPROVED" => reviewed'[j]
  BY DEF SoleInv, TrustKept, AutoRetriesBounded
<1>2. ASSUME NEW w \in Workers, worker'[w].pc \in PushingLabels \cup RetryingLabels
      PROVE  /\ worker'[w].pc \in RetryingLabels =>
                  worker'[w].retries = jobs'[worker'[w].job].retries
             /\ worker'[w].pc \in PushingLabels => reviewed'[worker'[w].job]
  <2>1. CASE worker'[w] = worker[w]
    <3>1. worker[w].job \in Jobs
      BY <1>2, <2>1, Holding DEF ClaimLabels
    <3> QED
      BY <1>2, <2>1, <3>1 DEF SoleInv, PushIsReviewed, TrustKept
  <2>2. ASSUME NEW labels \in {PushingLabels, RetryingLabels},
               worker[w].pc \in labels, worker'[w].pc \in labels,
               worker'[w].job = worker[w].job, worker'[w].retries = worker[w].retries
        PROVE  /\ worker'[w].pc \in RetryingLabels =>
                    worker'[w].retries = jobs'[worker'[w].job].retries
               /\ worker'[w].pc \in PushingLabels => reviewed'[worker'[w].job]
    <3>1. worker[w].job \in Jobs
      BY <2>2, Holding DEF ClaimLabels
    <3> QED
      BY <2>2, <3>1 DEF SoleInv, PushIsReviewed, TrustKept
  <2>3. ASSUME NEW j \in Jobs, worker'[w].job = j, worker'[w].retries = jobs[j].retries,
               worker'[w].pc = "inspect" \/ jobs[j].status = "PR_APPROVED",
               worker'[w].pc \in {"inspect", "push"}
        PROVE  /\ worker'[w].pc \in RetryingLabels =>
                    worker'[w].retries = jobs'[worker'[w].job].retries
               /\ worker'[w].pc \in PushingLabels => reviewed'[worker'[w].job]
    BY <2>3 DEF SoleInv, TrustKept
  <2>4. worker'[w] = worker[w] \/ TrustsClaim(w)
    BY DEF SoleWorker
  <2> QED
    BY <1>2, <2>1, <2>2, <2>3, <2>4 DEF TrustsClaim
<1> QED
  BY <1>1, <1>2 DEF SoleInv, PushIsReviewed

LEMMA OtherStepTrust ==
  ASSUME Inv, NEW w \in Workers, OtherWorkerStep(w)
  PROVE  TrustKept
<1>1. \A j \in Jobs : jobs'[j].retries = jobs[j].retries
  BY OtherStepQuiet DEF QuietJobs
<1>2. UNCHANGED reviewed
  BY DEF OtherWorkerStep, SkipCodex, CodexMissing, StartCodex, CodexFails, CodexSucceeds,
         MarkValidating, ValidationStage, ClaimValidating, ValidationMissing,
         ValidationFails, ValidationPasses, MarkValidated, PushStage, ClaimReview,
         PushMissing, StartPush, PushFails, PushSucceeds, MarkRunPrCreated,
         MarkJobPrCreated, SetupStage, ClaimQueued, CheckoutFails, CheckoutValid,
         CreateJobRun, PrepareFails, PrepareSucceeds, MarkRunReady, MarkJobReady, Block,
         FailRun, ClaimPrCreated, LifecycleMissing, NoteLifecycle, FindMerged,
         MarkCompleted, FindClosed, FindChecksFailed, GiveUpOnChecks, Crash,
         BlockForMissing, history
<1>3. ASSUME NEW j \in Jobs, jobs'[j].status = "PR_APPROVED"
      PROVE  jobs[j].status = "PR_APPROVED"
  <2>1. CASE UNCHANGED jobs
    BY <1>3, <2>1
  <2>2. ASSUME NEW k \in Jobs, NEW status \in JobStatus \ {"PR_APPROVED"}, SetJob(k, status)
        PROVE  jobs[j].status = "PR_APPROVED"
    BY <1>3, <2>2, SetJobRow
  <2>3. ASSUME worker[w].pc \notin ClaimLabels,
               NEW status \in JobStatus \ {"PR_APPROVED"}, MarkJob(w, status)
        PROVE  jobs[j].status = "PR_APPROVED"
    BY <2>2, <2>3, Holding DEF MarkJob
  <2>4. {"READY_FOR_CODEX", "VALIDATING", "BLOCKED", "REVIEW", "COMPLETED", "PR_CREATED",
         "RUNNING", "CLAIMED"} \subseteq JobStatus \ {"PR_APPROVED"}
    BY DEF JobStatus
  <2>5. CASE SkipCodex(w) \/ MarkValidating(w) \/ Block(w) \/ ValidationPasses(w) \/
             MarkJobPrCreated(w) \/ MarkCompleted(w) \/ CheckoutFails(w) \/
             CheckoutValid(w) \/ MarkJobReady(w)
    <3>1. worker[w].pc \notin ClaimLabels
      BY <2>5 DEF SkipCodex, MarkValidating, Block, ValidationPasses, MarkJobPrCreated,
                  MarkCompleted, CheckoutFails, CheckoutValid, MarkJobReady, At, ClaimLabels
    <3> QED
      BY <2>3, <2>4, <2>5, <3>1
         DEF SkipCodex, MarkValidating, Block, ValidationPasses, MarkJobPrCreated,
             MarkCompleted, CheckoutFails, CheckoutValid, MarkJobReady
  <2>6. CASE CodexMissing(w) \/ ValidationMissing(w) \/ PushMissing(w) \/ LifecycleMissing(w)
    <3>1. worker[w].pc \notin ClaimLabels /\ MarkJob(w, "BLOCKED")
      BY <2>6 DEF CodexMissing, ValidationMissing, PushMissing, LifecycleMissing,
                  BlockForMissing, At, ClaimLabels
    <3> QED
      BY <2>3, <2>4, <3>1
  <2>7. CASE ClaimQueued(w)
    BY <2>1, <2>2, <2>4, <2>7 DEF ClaimQueued, FoundPaused, FoundNone
  <2>8. CASE \/ StartCodex(w) \/ CodexFails(w) \/ CodexSucceeds(w) \/
                ClaimValidating(w) \/ ValidationFails(w) \/ MarkValidated(w) \/
                ClaimReview(w) \/ StartPush(w) \/ PushFails(w) \/
                PushSucceeds(w) \/ MarkRunPrCreated(w) \/ ClaimPrCreated(w) \/
                NoteLifecycle(w) \/ FindMerged(w) \/ FindClosed(w) \/
                FindChecksFailed(w) \/ GiveUpOnChecks(w) \/ CreateJobRun(w) \/
                PrepareFails(w) \/ PrepareSucceeds(w) \/ MarkRunReady(w) \/
                FailRun(w) \/ Crash(w)
    <3>1. UNCHANGED jobs
      BY <2>8
         DEF StartCodex, CodexFails, CodexSucceeds, ClaimValidating, ValidationFails,
             MarkValidated, ClaimReview, StartPush, PushFails, PushSucceeds,
             MarkRunPrCreated, ClaimPrCreated, NoteLifecycle, FindMerged, FindClosed,
             FindChecksFailed, GiveUpOnChecks, CreateJobRun, PrepareFails,
             PrepareSucceeds, MarkRunReady, FailRun, Crash, FoundPaused, FoundNone,
             FoundUnleased
    <3> QED
      BY <2>1, <3>1
  <2> QED
    BY <2>5, <2>6, <2>7, <2>8 DEF OtherWorkerStep, ValidationStage, PushStage, SetupStage
<1> QED
  BY <1>1, <1>2, <1>3 DEF TrustKept

LEMMA OtherStepClaims ==
  ASSUME Inv, NEW w \in Workers, OtherWorkerStep(w)
  PROVE  TrustsClaim(w)
<1> DEFINE elsewhere == worker'[w].pc \notin PushingLabels \cup RetryingLabels
<1> USE DEF PushingLabels, RetryingLabels
<1>0. elsewhere => TrustsClaim(w)
  BY DEF TrustsClaim
<1>1. CASE SkipCodex(w) \/ MarkValidating(w) \/ MarkValidated(w) \/
           MarkJobPrCreated(w) \/ NoteLifecycle(w) \/ MarkCompleted(w) \/
           CheckoutFails(w) \/ MarkJobReady(w) \/ Block(w) \/ FailRun(w) \/ Crash(w)
  <2>1. NextIteration(w)
    BY <1>1
       DEF SkipCodex, MarkValidating, MarkValidated, MarkJobPrCreated,
           NoteLifecycle, MarkCompleted, CheckoutFails, MarkJobReady, Block,
           FailRun, Crash
  <2> QED
    BY <1>0, <2>1, NextIterationMoves
<1>2. CASE StartCodex(w) \/ CodexFails(w) \/ CodexSucceeds(w) \/ ValidationFails(w) \/
           ValidationPasses(w) \/ PushFails(w) \/ PushSucceeds(w) \/
           MarkRunPrCreated(w) \/ FindMerged(w) \/ FindClosed(w) \/ GiveUpOnChecks(w) \/
           CheckoutValid(w) \/ PrepareFails(w) \/ PrepareSucceeds(w) \/ MarkRunReady(w)
  <2>1. \E label \in Labels \ (PushingLabels \cup RetryingLabels) : Goto(w, label)
    BY <1>2
       DEF StartCodex, CodexFails, CodexSucceeds, ValidationFails, ValidationPasses,
           PushFails, PushSucceeds, MarkRunPrCreated, FindMerged,
           FindClosed, GiveUpOnChecks, CheckoutValid, PrepareFails,
           PrepareSucceeds, MarkRunReady, Labels, SetupLabels, CodexLabels,
           OtherLabels
  <2> QED
    BY <1>0, <2>1, GotoMoves
<1>3. CASE StartPush(w) \/ FindChecksFailed(w)
  <2>1. \/ worker[w].pc = "push" /\ Goto(w, "pushing")
        \/ worker[w].pc = "inspect" /\ Goto(w, "checksFailed")
    BY <1>3 DEF StartPush, FindChecksFailed, CanInspect, At
  <2>2. /\ worker'[w].job = worker[w].job /\ worker'[w].retries = worker[w].retries
        /\ \/ worker[w].pc = "push" /\ worker'[w].pc = "pushing"
           \/ worker[w].pc = "inspect" /\ worker'[w].pc = "checksFailed"
    BY <2>1 DEF Goto, Inv, TypeOK, WorkerState
  <2> QED
    BY <2>2 DEF TrustsClaim
<1>4. CASE CodexMissing(w) \/ ValidationMissing(w) \/ PushMissing(w) \/
           LifecycleMissing(w)
  <2>1. \E meta : BlockForMissing(w, meta)
    BY <1>4 DEF CodexMissing, ValidationMissing, PushMissing, LifecycleMissing
  <2> QED
    BY <1>0, <2>1, MissingMoves
<1>5. CASE ClaimValidating(w) \/ ClaimReview(w) \/ ClaimPrCreated(w)
  <2>1. \/ NextIteration(w)
        \/ \E label \in ClaimLabels : Goto(w, label)
        \/ \E j \in Jobs : Claim(w, j, "validate") \/ Claim(w, j, "inspect")
        \/ \E j \in Jobs : jobs[j].status = "PR_APPROVED" /\ Claim(w, j, "push")
    BY <1>5
       DEF ClaimValidating, ClaimReview, ClaimPrCreated, FoundPaused, FoundNone,
           FoundUnleased, ClaimLabels
  <2>2. ASSUME NEW j \in Jobs, NEW label, Claim(w, j, label)
        PROVE  worker'[w].retries = jobs[j].retries
    BY <2>2 DEF Claim, Inv, TypeOK
  <2>3. CASE \/ NextIteration(w)
             \/ \E label \in ClaimLabels : Goto(w, label)
             \/ \E j \in Jobs : Claim(w, j, "validate")
    BY <1>0, <2>3, NextIterationMoves, GotoMoves, ClaimMoves DEF ClaimLabels
  <2>4. ASSUME NEW j \in Jobs, NEW label, Claim(w, j, label),
               \/ label = "inspect"
               \/ label = "push" /\ jobs[j].status = "PR_APPROVED"
        PROVE  TrustsClaim(w)
    <3>1. /\ worker'[w].pc = label /\ worker'[w].job = j
          /\ worker'[w].retries = jobs[j].retries
      BY <2>2, <2>4, ClaimMoves
    <3> QED
      BY <2>4, <3>1 DEF TrustsClaim
  <2> QED
    BY <2>1, <2>3, <2>4
<1>6. CASE ClaimQueued(w)
  <2>1. ASSUME NEW j \in Jobs,
               worker' = [worker EXCEPT ![w] =
                 [LoopTop EXCEPT !.pc = "checkout", !.job = j]]
        PROVE  worker'[w].pc = "checkout"
    BY <2>1 DEF LoopTop, Inv, TypeOK
  <2>2. worker'[w].pc \in {"checkout", "codexClaim"}
    BY <1>6, <2>1, NextIterationMoves, GotoMoves DEF ClaimQueued, FoundPaused, FoundNone
  <2> QED
    BY <1>0, <2>2
<1>7. CASE CreateJobRun(w)
  BY <1>0, <1>7 DEF CreateJobRun, Inv, TypeOK, WorkerState
<1> QED
  BY <1>1, <1>2, <1>3, <1>4, <1>5, <1>6, <1>7
     DEF OtherWorkerStep, ValidationStage, PushStage, SetupStage

LEMMA ClaimCodexSole ==
  ASSUME SoleWorker, Inv, SoleInv, NEW w \in Workers, ClaimCodex(w)
  PROVE  SoleInv'
<1>1. CASE FoundNone(w, "CODEX_APPROVED", "validationClaim") /\ UNCHANGED history
  <2>1. TrustKept /\ worker'[w].pc = "validationClaim"
    BY <1>1, GotoMoves DEF TrustKept, FoundNone, history
  <2>2. TrustsClaim(w)
    BY <2>1 DEF TrustsClaim, PushingLabels, RetryingLabels
  <2> QED
    BY <2>1, <2>2, TrustKeepsSole
<1>2. ASSUME NEW j \in Jobs, SetJob(j, "RUNNING"),
             Claim(w, j, IF w \in CodexWorkers THEN "codexStart" ELSE "codexSkip"),
             reviewed' = [reviewed EXCEPT ![j] = FALSE]
      PROVE  SoleInv'
  <2>1. jobs'[j].status = "RUNNING" /\ \A k \in Jobs \ {j} : jobs'[k] = jobs[k]
    BY <1>2, SetJobRow DEF JobStatus
  <2>2. \A k \in Jobs : jobs'[k].retries = jobs[k].retries
    BY <1>2 DEF SetJob, Inv, TypeOK, JobRow
  <2>3. \A k \in Jobs \ {j} : reviewed'[k] = reviewed[k]
    BY <1>2 DEF Inv, TypeOK
  <2>4. worker'[w].pc \in {"codexStart", "codexSkip"}
    BY <1>2, ClaimMoves
  <2>5. \A v \in Workers : worker'[v].pc \notin PushingLabels \cup RetryingLabels
    BY <2>4 DEF SoleWorker, PushingLabels, RetryingLabels
  <2> QED
    BY <2>1, <2>2, <2>3, <2>5
       DEF SoleInv, AutoRetriesBounded, PushIsReviewed, PushingLabels
<1> QED
  BY <1>1, <1>2 DEF ClaimCodex

LEMMA AutoRetrySole ==
  ASSUME SoleWorker, Inv, SoleInv, NEW w \in Workers, AutoRetry(w)
  PROVE  SoleInv'
<1>1. PICK j \in Jobs : worker[w].job = j
  BY Holding DEF AutoRetry, At, ClaimLabels
<1>2. worker'[w].pc = "codexClaim" /\ UNCHANGED reviewed
  BY NextIterationMoves DEF AutoRetry
<1>3. \A v \in Workers : worker'[v].pc \notin PushingLabels \cup RetryingLabels
  BY <1>2 DEF SoleWorker, PushingLabels, RetryingLabels
<1>4. CASE UNCHANGED jobs
  BY <1>2, <1>3, <1>4 DEF SoleInv, AutoRetriesBounded, PushIsReviewed, PushingLabels
<1>5. CASE jobs' = [jobs EXCEPT ![j] =
               [status |-> "CODEX_APPROVED", retries |-> @.retries + 1]]
  <2>1. /\ jobs'[j].status = "CODEX_APPROVED" /\ jobs'[j].retries = jobs[j].retries + 1
        /\ \A k \in Jobs \ {j} : jobs'[k] = jobs[k]
    BY <1>5 DEF Inv, TypeOK
  <2>2. jobs[j].retries \in Nat /\ jobs[j].retries < MaxAutoRetries
    BY <1>1 DEF AutoRetry, At, HasRetryBudget, SoleInv, RetryingLabels, Inv, TypeOK, JobRow
  <2>3. jobs'[j].retries <= MaxAutoRetries
    BY <2>1, <2>2, JobPipelineAssumption
  <2> QED
    BY <1>2, <1>3, <2>1, <2>3
       DEF SoleInv, AutoRetriesBounded, PushIsReviewed, PushingLabels
<1> QED
  BY <1>1, <1>4, <1>5 DEF AutoRetry

LEMMA RoutesTrust ==
  ASSUME Inv,
         \/ \E r \in Requests : RouteReads(r) \/ RouteWrites(r)
         \/ \E j \in Jobs : Cancel(j) \/ ApproveCodex(j) \/ ApprovePr(j)
         \/ \E j \in Jobs, state \in PrState : ResolvePr(j, state)
         \/ \E p \in BOOLEAN : SetPaused(p)
  PROVE  TrustKept /\ UNCHANGED worker
<1>1. UNCHANGED worker
  BY DEF RouteReads, ReadForApproval, ReadForRequeue, ReadForRetryStage, Begin,
         RouteWrites, ApproveReview, Requeue, RetryStage,
         Cancel, ApproveCodex, ApprovePr, ResolvePr, SetPaused
<1>2. ASSUME NEW j \in Jobs, NEW status \in JobStatus, SetJob(j, status),
             \/ UNCHANGED reviewed /\ status # "PR_APPROVED"
             \/ reviewed' = [reviewed EXCEPT ![j] = TRUE]
      PROVE  TrustKept
  <2>1. jobs'[j].status = status /\ \A k \in Jobs \ {j} : jobs'[k] = jobs[k]
    BY <1>2, SetJobRow
  <2>2. \A k \in Jobs : jobs'[k].retries = jobs[k].retries
    BY <1>2 DEF SetJob, Inv, TypeOK, JobRow
  <2>3. /\ \A k \in Jobs : reviewed[k] => reviewed'[k]
        /\ status = "PR_APPROVED" => reviewed'[j]
    BY <1>2 DEF Inv, TypeOK
  <2> QED
    BY <2>1, <2>2, <2>3 DEF TrustKept
<1>3. ASSUME NEW r \in Requests, RouteWrites(r)
      PROVE  TrustKept
  <2>1. /\ request[r].job \in Jobs
        /\ request[r].route = "retryStage" =>
             request[r].target \in JobStatus \ {"PR_APPROVED"}
    BY <1>3, JobPipelineAssumption
       DEF RouteWrites, ApproveReview, Requeue, RetryStage, RouteNames,
           Inv, RequestsHold, RouteTargets, JobStatus
  <2>2. "QUEUED" \in JobStatus \ {"PR_APPROVED"}
    BY DEF JobStatus
  <2>3. CASE ApproveReview(r) \/ Requeue(r)
    <3>1. SetJob(request[r].job, "QUEUED") /\ UNCHANGED reviewed
      BY <2>3 DEF ApproveReview, Requeue, history
    <3> QED
      BY <1>2, <2>1, <2>2, <3>1
  <2>4. CASE RetryStage(r)
    <3>1. PICK target \in JobStatus \ {"PR_APPROVED"} : target = request[r].target
      BY <2>1, <2>4 DEF RetryStage
    <3>2. SetJob(request[r].job, target) /\ UNCHANGED reviewed
      BY <2>4, <3>1 DEF RetryStage
    <3> QED
      BY <1>2, <2>1, <3>1, <3>2
  <2> QED
    BY <1>3, <2>3, <2>4 DEF RouteWrites
<1>4. ASSUME NEW j \in Jobs, Cancel(j) \/ ApproveCodex(j) \/ ApprovePr(j)
      PROVE  TrustKept
  <2>1. {"CANCELED", "CODEX_APPROVED", "PR_APPROVED"} \subseteq JobStatus
    BY DEF JobStatus
  <2> QED
    BY <1>2, <1>4, <2>1 DEF Cancel, ApproveCodex, ApprovePr, history
<1>5. CASE \/ \E r \in Requests : RouteReads(r)
           \/ \E j \in Jobs, state \in PrState : ResolvePr(j, state)
           \/ \E p \in BOOLEAN : SetPaused(p)
  <2>1. UNCHANGED <<jobs, reviewed>>
    BY <1>5 DEF RouteReads, ReadForApproval, ReadForRequeue, ReadForRetryStage, Begin,
                ResolvePr, SetPaused, history
  <2> QED
    BY <1>1, <2>1 DEF TrustKept
<1> QED
  BY <1>1, <1>3, <1>4, <1>5

LEMMA SoleStep ==
  ASSUME SoleWorker, Inv, SoleInv, [Next]_vars
  PROVE  SoleInv'
<1>1. CASE UNCHANGED vars
  BY <1>1 DEF vars, history, SoleInv, AutoRetriesBounded, PushIsReviewed
<1>2. ASSUME NEW w \in Workers, WorkerStep(w) \/ Crash(w)
      PROVE  SoleInv'
  <2>1. CASE OtherWorkerStep(w)
    BY <2>1, OtherStepTrust, OtherStepClaims, TrustKeepsSole
  <2> QED
    BY <1>2, <2>1, ClaimCodexSole, AutoRetrySole
       DEF WorkerStep, CodexStage, LifecycleStage, OtherWorkerStep
<1>3. CASE \/ \E r \in Requests : RouteReads(r) \/ RouteWrites(r)
           \/ \E j \in Jobs : Cancel(j) \/ ApproveCodex(j) \/ ApprovePr(j)
           \/ \E j \in Jobs, state \in PrState : ResolvePr(j, state)
           \/ \E p \in BOOLEAN : SetPaused(p)
  BY <1>3, RoutesTrust, TrustKeepsSole
<1> QED
  BY <1>1, <1>2, <1>3 DEF Next

LEMMA SoleInvariant ==
  ASSUME SoleWorker
  PROVE  Spec => []SoleInv
<1>1. Init => SoleInv
  BY JobPipelineAssumption
     DEF Init, SoleInv, AutoRetriesBounded, PushIsReviewed, LoopTop, RetryingLabels
<1> QED
  BY Invariant, <1>1, SoleStep, PTL DEF Spec

\* With a sole worker FERRET_RUNNER_MAX_AUTO_RETRIES bounds the automatic retries of a
\* job over its whole life, through kills, requeues and retries of stages.
THEOREM AutoRetriesStayBounded ==
  ASSUME SoleWorker
  PROVE  Spec => []AutoRetriesBounded
<1>1. SoleInv => AutoRetriesBounded
  BY DEF SoleInv
<1> QED
  BY SoleInvariant, <1>1, PTL

\* With a sole worker no branch is pushed that a human has not approved since Codex
\* last took the job, however routes come between the claim and the push.
THEOREM PushesAreReviewed ==
  ASSUME SoleWorker
  PROVE  Spec => []PushIsReviewed
<1>1. SoleInv => PushIsReviewed
  BY DEF SoleInv
<1> QED
  BY SoleInvariant, <1>1, PTL
==============================================================================
