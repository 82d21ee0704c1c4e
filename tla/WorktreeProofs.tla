--------------------------- MODULE WorktreeProofs ---------------------------
(***************************************************************************)
(* Theorems about Worktree for any jobs, routes, faults and crashes.       *)
(***************************************************************************)
EXTENDS Worktree, TLAPS

USE WorktreeAssumption

\* A command other than the first four is about a job.
Holding == at \notin {"top", "claims", "sweep", "dead"} => job \in Jobs

TypeInv == TypeOK /\ Holding

LEMMA TypeInvInit == Init => TypeInv
<1> SUFFICES ASSUME Init PROVE TypeInv
  OBVIOUS
<1>1. TypeOK
  BY DEF Init, TypeOK, Status, Commands, Purposes
<1>2. Holding
  BY DEF Init, Holding
<1> QED
  BY <1>1, <1>2 DEF TypeInv

\* The end of a stage keeps the types.
LEMMA EndTyped ==
  ASSUME TypeOK, job \in Jobs, NEW s \in Status, NEW t \in SUBSET Parts, End(s, t)
  PROVE  /\ status' \in [Jobs -> Status] /\ trace' \in [Jobs -> SUBSET Parts]
         /\ expired' \in [Jobs -> BOOLEAN] /\ retries' \in [Jobs -> Nat]
         /\ at' = "top" /\ job' = NoJob
         /\ purpose' \in Purposes /\ ok' \in BOOLEAN
         /\ doomed' \in SUBSET Jobs /\ due' \in BOOLEAN
  BY DEF TypeOK, End, Write, Top, Do

LEMMA WorkerStepTyped ==
  ASSUME TypeInv, WorkerStep PROVE TypeInv'
<1> USE DEF TypeInv, TypeOK, Holding, Status, Parts, Purposes, Commands, rows, tree, origin
<1>1. CASE StartSweep
  BY <1>1 DEF StartSweep
<1>2. CASE SkipSweep
  BY <1>2 DEF SkipSweep, Top, Do
<1>3. CASE SweepNext
  BY <1>3 DEF SweepNext, Do, StartRemoval
<1>4. CASE RemoveWorktree
  BY <1>4 DEF RemoveWorktree, Then, Do
<1>5. CASE DeleteBranch
  <2>1. job \in Jobs
    BY <1>5 DEF DeleteBranch
  <2>2. branch' \in [Jobs -> BOOLEAN] /\ local' \in [Jobs -> SUBSET Nat]
    BY <1>5, <2>1 DEF DeleteBranch
  <2>5. discarded' \in [Jobs -> SUBSET Nat]
    <3>1. \/ UNCHANGED discarded
          \/ discarded' = [discarded EXCEPT ![job] =
                IF purpose = "requeue-reset" THEN discarded[job] ELSE discarded[job] \cup local[job]]
      BY <1>5 DEF DeleteBranch
    <3>2. (IF purpose = "requeue-reset" THEN discarded[job] ELSE discarded[job] \cup local[job])
            \in SUBSET Nat
      BY <2>1
    <3> QED
      BY <2>1, <3>1, <3>2
  <2>3. at' \in Commands /\ job' = job /\ ok' \in BOOLEAN
    BY <1>5 DEF DeleteBranch, Then, Do
  <2>4. UNCHANGED <<rows, dir, dirty, origin, calls, made, purpose, doomed, due>>
    BY <1>5 DEF DeleteBranch, Then, Do
  <2> QED
    BY <2>1, <2>2, <2>3, <2>4, <2>5
<1>6. CASE AfterRemoval
  <2>1. job \in Jobs /\ UNCHANGED <<tree, origin, calls, made, discarded>>
    BY <1>6 DEF AfterRemoval
  <2>2. CASE purpose = "requeue-reset" /\ ok
    BY <1>6, <2>1, <2>2 DEF AfterRemoval, Then, Do
  <2>3. CASE purpose = "requeue-reset" /\ ~ok
    <3>1. End("BLOCKED", trace[job])
      BY <1>6, <2>1, <2>3 DEF AfterRemoval, Block
    <3> QED
      BY <2>1, <3>1, EndTyped
  <2>4. CASE purpose = "pr-merged"
    <3>1. End("COMPLETED", trace[job])
      BY <1>6, <2>4 DEF AfterRemoval
    <3> QED
      BY <2>1, <3>1, EndTyped
  <2>5. CASE purpose \notin {"requeue-reset", "pr-merged"}
    <3>1. /\ at' = "sweep" /\ doomed' = doomed \ {job}
          /\ UNCHANGED <<rows, job, purpose, ok, due>>
      BY <1>6, <2>5 DEF AfterRemoval
    <3> QED
      BY <2>1, <3>1
  <2> QED
    BY <2>2, <2>3, <2>4, <2>5
<1>7. CASE ClaimQueued
  BY <1>7 DEF ClaimQueued, Write, Do
<1>8. CASE CheckoutFails
  BY <1>8 DEF CheckoutFails, Block, End, Write, Top, Do
<1>9. CASE Reset
  BY <1>9 DEF Reset, Then, Do, End, Write, Top, StartRemoval
<1>10. CASE AddWorktree
  BY <1>10 DEF AddWorktree, Then, Do
<1>11. CASE CreationFails
  BY <1>11 DEF CreationFails, Block, End, Write, Top, Do
<1>12. CASE SwitchToBranch
  BY <1>12 DEF SwitchToBranch, End, Write, Top, Do
<1>13. CASE SwitchFails
  BY <1>13 DEF SwitchFails, Block, End, Write, Top, Do
<1>14. CASE ClaimCodex
  BY <1>14 DEF ClaimCodex, Write, Do
<1>15. CASE CodexEnds
  <2>1. job \in Jobs /\ UNCHANGED <<dir, branch, local, origin, calls, made, discarded>>
    BY <1>15 DEF CodexEnds
  <2>2. dirty' \in [Jobs -> BOOLEAN]
    BY <1>15 DEF CodexEnds
  <2>3. PICK s \in Status, t \in SUBSET Parts : End(s, t)
    <3>1. trace[job] \cup {"codex"} \in SUBSET Parts
      BY <2>1
    <3> QED
      BY <1>15, <2>1, <3>1 DEF CodexEnds, Block
  <2> QED
    BY <2>1, <2>2, <2>3, EndTyped
<1>16. CASE ClaimValidating
  BY <1>16 DEF ClaimValidating, Claim, Do
<1>17. CASE Validate
  <2>1. job \in Jobs /\ UNCHANGED <<tree, origin, calls, made, discarded>>
    BY <1>17 DEF Validate
  <2>2. PICK s \in Status, t \in SUBSET Parts : End(s, t)
    <3>1. trace[job] \cup {"validation"} \in SUBSET Parts
      BY <2>1
    <3> QED
      BY <1>17, <2>1, <3>1 DEF Validate, Block
  <2> QED
    BY <2>1, <2>2, EndTyped
<1>18. CASE ValidateNothing
  BY <1>18 DEF ValidateNothing, Do
<1>19. CASE ClaimReview
  BY <1>19 DEF ClaimReview, Claim, Do
<1>20. CASE Commit
  BY <1>20 DEF Commit, Then, Do
<1>21. CASE CommitFails
  BY <1>21 DEF CommitFails, Block, End, Write, Top, Do
<1>22. CASE Push
  BY <1>22 DEF Push, Then, Do
<1>23. CASE PushFails
  BY <1>23 DEF PushFails, Block, End, Write, Top, Do
<1>24. CASE CreatePr
  BY <1>24 DEF CreatePr, End, Write, Top, Do
<1>25. CASE CreatePrFails
  BY <1>25 DEF CreatePrFails, Block, End, Write, Top, Do
<1>26. CASE ClaimPrCreated
  BY <1>26 DEF ClaimPrCreated, Claim, Do
<1>27. CASE Inspect
  <2>1. job \in Jobs /\ UNCHANGED <<tree, origin, calls, made, discarded>>
    BY <1>27 DEF Inspect
  <2>2. CASE Top /\ UNCHANGED rows
    BY <2>1, <2>2 DEF Top, Do
  <2>3. CASE StartRemoval(job, "pr-merged") /\ UNCHANGED rows
    BY <2>1, <2>3 DEF StartRemoval
  <2>4. CASE Block({})
    BY <2>1, <2>4 DEF Block, End, Write, Top, Do
  <2>5. ASSUME status' = [status EXCEPT ![job] = "READY_FOR_CODEX"],
               trace' = [trace EXCEPT ![job] = @ \ {"validation", "pullRequest"}],
               retries' = [retries EXCEPT ![job] = @ + 1], Top, UNCHANGED expired
        PROVE  TypeInv'
    BY <2>1, <2>5 DEF Top, Do
  <2> QED
    BY <1>27, <2>2, <2>3, <2>4, <2>5 DEF Inspect
<1>28. CASE NothingToClaim
  BY <1>28 DEF NothingToClaim, Top, Do
<1> QED
  BY <1>1, <1>2, <1>3, <1>4, <1>5, <1>6, <1>7, <1>8, <1>9, <1>10, <1>11, <1>12, <1>13, <1>14, <1>15, <1>16, <1>17, <1>18, <1>19, <1>20, <1>21, <1>22, <1>23, <1>24, <1>25, <1>26, <1>27, <1>28 DEF WorkerStep

LEMMA TypeInvStep == TypeInv /\ [Next]_vars => TypeInv'
<1> SUFFICES ASSUME TypeInv, [Next]_vars PROVE TypeInv'
  OBVIOUS
<1> USE DEF TypeInv, TypeOK, Holding, Status, Parts, Purposes, Commands, rows, tree, origin,
            place
<1>1. CASE WorkerStep
  BY <1>1, WorkerStepTyped
<1>2. ASSUME NEW j \in Jobs, Requeue(j) PROVE TypeInv'
  BY <1>2 DEF Requeue, Call, Write
<1>3. ASSUME NEW j \in Jobs, Cancel(j) PROVE TypeInv'
  BY <1>3 DEF Cancel, Write
<1>4. ASSUME NEW j \in Jobs, RetryStage(j) PROVE TypeInv'
  <2>1. PICK s \in Status, t \in SUBSET Parts : Write(j, s, t)
    <3>1. RetryTarget(j) \in Status
      BY DEF RetryTarget
    <3> QED
      BY <1>4, <3>1 DEF RetryStage
  <2>2. calls' \in [Jobs -> Nat]
    BY <1>4 DEF RetryStage, Call
  <2>3. UNCHANGED <<tree, origin, place, made, discarded>>
    BY <1>4 DEF RetryStage
  <2> QED
    BY <2>1, <2>2, <2>3 DEF Write
<1>5. ASSUME NEW j \in Jobs, Expire(j) PROVE TypeInv'
  BY <1>5 DEF Expire
<1>6. ASSUME NEW j \in Jobs, DeleteRemoteBranch(j) PROVE TypeInv'
  BY <1>6 DEF DeleteRemoteBranch
<1>7. ASSUME NEW j \in Jobs, NEW state \in {"merged", "closed"}, ResolvePr(j, state)
      PROVE  TypeInv'
  BY <1>7 DEF ResolvePr
<1>8. CASE SweepComesDue
  BY <1>8 DEF SweepComesDue
<1>9. CASE Restart
  BY <1>9 DEF Restart
<1>10. CASE UNCHANGED vars
  BY <1>10 DEF vars
<1> QED
  BY <1>1, <1>2, <1>3, <1>4, <1>5, <1>6, <1>7, <1>8, <1>9, <1>10 DEF Next

\* The state stays well typed, whatever fails, is killed, called or deleted, for any
\* number of jobs (worktree.ts, pull-request.ts and the job routes).
THEOREM Types == Spec => []TypeOK
<1>1. Spec => []TypeInv
  BY TypeInvInit, TypeInvStep, PTL DEF Spec
<1> QED
  BY <1>1, PTL DEF TypeInv

------------------------------------------------------------------------------
(* Committed work is kept, when nobody deletes branches on origin.          *)

\* What the local repository believes is on origin is there.
Tracked == \A j \in Jobs : tracking[j] \subseteq remote[j]

NoBranchNoCommits == \A j \in Jobs : ~branch[j] => local[j] = {}

\* A job whose run records its worktree has its branch checked out in it, if the
\* worktree still exists.
CheckedOut == \A j \in Jobs : "worktree" \in trace[j] /\ dir[j] => branch[j]

\* A stage that needs a worktree is entered only by a job whose run records one.
Traced ==
  \A j \in Jobs :
    /\ "codex" \in trace[j] => "worktree" \in trace[j]
    /\ status[j] \in {"READY_FOR_CODEX", "VALIDATING", "REVIEW", "PR_CREATED"}
         => "worktree" \in trace[j]

AtWork ==
  at \in {"codex", "validate", "commit", "push", "gh", "inspect"} => "worktree" \in trace[job]

\* A job that is made ready has a run of its own, with nothing recorded yet.
Preparing ==
  /\ at = "reset" => status[job] = "RUNNING"
  /\ \/ at \in {"create", "switch"}
     \/ at \in {"remove", "delete", "removed"} /\ purpose = "requeue-reset"
     => trace[job] = {}

\* A reset removes a branch only when origin has every commit on it.
Removing ==
  /\ at = "delete" => ~dir[job]
  /\ at \in {"remove", "delete"} /\ purpose = "requeue-reset"
       => local[job] \subseteq tracking[job]

KeepInv ==
  /\ TypeInv
  /\ Tracked /\ NoBranchNoCommits /\ CheckedOut /\ Traced
  /\ AtWork /\ Preparing /\ Removing
  /\ CommitsAreKept

LEMMA KeepInvInit == Init => KeepInv
<1> SUFFICES ASSUME Init PROVE KeepInv
  OBVIOUS
<1>1. TypeInv
  BY TypeInvInit
<1>2. Tracked /\ NoBranchNoCommits /\ CheckedOut /\ Traced /\ AtWork /\ Preparing /\ Removing
  BY DEF Init, Tracked, NoBranchNoCommits, CheckedOut, Traced, AtWork, Preparing, Removing
<1>3. CommitsAreKept
  BY DEF Init, CommitsAreKept
<1> QED
  BY <1>1, <1>2, <1>3 DEF KeepInv

LEMMA WorkerStepKeeps ==
  ASSUME KeepInv, TypeInv', WorkerStep PROVE KeepInv'
<1> USE DEF KeepInv, TypeInv, TypeOK, Holding, Tracked, NoBranchNoCommits, CheckedOut, Traced, AtWork,
        Preparing, Removing, CommitsAreKept, rows, tree, origin
<1>1. CASE StartSweep
  BY <1>1 DEF StartSweep
<1>2. CASE SkipSweep
  BY <1>2 DEF SkipSweep, Top, Do
<1>3. CASE SweepNext
  BY <1>3 DEF SweepNext, Do, StartRemoval
<1>4. CASE RemoveWorktree
  BY <1>4 DEF RemoveWorktree, Then, Do
<1>5. CASE DeleteBranch
  BY <1>5 DEF DeleteBranch, Then, Do
<1>6. CASE AfterRemoval
  BY <1>6 DEF AfterRemoval, Then, Do, Block, End, Write, Top
<1>7. CASE ClaimQueued
  BY <1>7 DEF ClaimQueued, Write, Do
<1>8. CASE CheckoutFails
  BY <1>8 DEF CheckoutFails, Block, End, Write, Top, Do
<1>9. CASE Reset
  <2>1. at = "reset" /\ job \in Jobs /\ UNCHANGED <<tree, origin, calls, made, discarded>>
    BY <1>9 DEF Reset
  <2>2. CASE /\ trace' = [trace EXCEPT ![job] = {}] /\ Then("create")
             /\ UNCHANGED <<status, expired, retries>>
    BY <2>1, <2>2 DEF Then, Do
  <2>3. CASE End("BLOCKED", {})
    BY <2>1, <2>3 DEF End, Write, Top, Do
  <2>4. CASE /\ trace' = [trace EXCEPT ![job] = {}] /\ StartRemoval(job, "requeue-reset")
             /\ UNCHANGED <<status, expired, retries>> /\ ~(branch[job] /\ Unpushed(job) # {})
    <3>1. local[job] \subseteq tracking[job]
      BY <2>1, <2>4 DEF Unpushed
    <3> QED
      BY <2>1, <2>4, <3>1 DEF StartRemoval
  <2> QED
    BY <1>9, <2>2, <2>3, <2>4 DEF Reset
<1>10. CASE AddWorktree
  BY <1>10 DEF AddWorktree, Then, Do
<1>11. CASE CreationFails
  BY <1>11 DEF CreationFails, Block, End, Write, Top, Do
<1>12. CASE SwitchToBranch
  BY <1>12 DEF SwitchToBranch, End, Write, Top, Do
<1>13. CASE SwitchFails
  BY <1>13 DEF SwitchFails, Block, End, Write, Top, Do
<1>14. CASE ClaimCodex
  BY <1>14 DEF ClaimCodex, Write, Do
<1>15. CASE CodexEnds
  <2>1. /\ at = "codex" /\ job \in Jobs
        /\ UNCHANGED <<dir, branch, local, origin, calls, made, discarded>>
    BY <1>15 DEF CodexEnds
  <2>2. PICK s \in {"VALIDATING", "BLOCKED"} : End(s, trace[job] \cup {"codex"})
    BY <1>15 DEF CodexEnds, Block
  <2> QED
    BY <2>1, <2>2 DEF End, Write, Top, Do
<1>16. CASE ClaimValidating
  BY <1>16 DEF ClaimValidating, Claim, Do
<1>17. CASE Validate
  <2>1. at = "validate" /\ job \in Jobs /\ UNCHANGED <<tree, origin, calls, made, discarded>>
    BY <1>17 DEF Validate
  <2>2. PICK s \in {"BLOCKED", "REVIEW", "COMPLETED"} : End(s, trace[job] \cup {"validation"})
    BY <1>17 DEF Validate, Block
  <2> QED
    BY <2>1, <2>2 DEF End, Write, Top, Do
<1>18. CASE ValidateNothing
  BY <1>18 DEF ValidateNothing, Do
<1>19. CASE ClaimReview
  BY <1>19 DEF ClaimReview, Claim, Do
<1>20. CASE Commit
  <2>1. /\ at = "commit" /\ job \in Jobs /\ dir[job] /\ branch[job]
        /\ at' = "push" /\ job' = job /\ UNCHANGED <<rows, dir, branch, origin, purpose, discarded>>
    BY <1>20 DEF Commit, Then, Do
  <2>2. /\ made' = [made EXCEPT ![job] = made[job] + 1]
        /\ local' = [local EXCEPT ![job] = local[job] \cup {made[job] + 1}]
    BY <1>20 DEF Commit
  <2>3. CommitsAreKept'
    <3> SUFFICES ASSUME NEW j \in Jobs, NEW n \in 1..made'[j]
                 PROVE  n \in local'[j] \cup remote[j] \cup discarded[j]
      BY <2>1
    <3>1. CASE j = job /\ n = made[job] + 1
      BY <2>1, <2>2, <3>1
    <3>2. CASE ~(j = job /\ n = made[job] + 1)
      <4>1. n \in 1..made[j]
        BY <2>1, <2>2, <3>2
      <4>2. local[j] \subseteq local'[j]
        BY <2>1, <2>2
      <4> QED
        BY <4>1, <4>2
    <3> QED
      BY <3>1, <3>2
  <2> QED
    BY <2>1, <2>2, <2>3
<1>21. CASE CommitFails
  BY <1>21 DEF CommitFails, Block, End, Write, Top, Do
<1>22. CASE Push
  BY <1>22 DEF Push, Then, Do
<1>23. CASE PushFails
  BY <1>23 DEF PushFails, Block, End, Write, Top, Do
<1>24. CASE CreatePr
  BY <1>24 DEF CreatePr, End, Write, Top, Do
<1>25. CASE CreatePrFails
  BY <1>25 DEF CreatePrFails, Block, End, Write, Top, Do
<1>26. CASE ClaimPrCreated
  BY <1>26 DEF ClaimPrCreated, Claim, Do
<1>27. CASE Inspect
  <2>1. at = "inspect" /\ job \in Jobs /\ UNCHANGED <<tree, origin, calls, made, discarded>>
    BY <1>27 DEF Inspect
  <2>2. CASE Top /\ UNCHANGED rows
    BY <2>1, <2>2 DEF Top, Do
  <2>3. CASE StartRemoval(job, "pr-merged") /\ UNCHANGED rows
    BY <2>1, <2>3 DEF StartRemoval
  <2>4. CASE Block({})
    BY <2>1, <2>4 DEF Block, End, Write, Top, Do
  <2>5. ASSUME status' = [status EXCEPT ![job] = "READY_FOR_CODEX"],
               trace' = [trace EXCEPT ![job] = @ \ {"validation", "pullRequest"}], Top
        PROVE  KeepInv'
    BY <2>1, <2>5 DEF Top, Do
  <2> QED
    BY <1>27, <2>2, <2>3, <2>4, <2>5 DEF Inspect
<1>28. CASE NothingToClaim
  BY <1>28 DEF NothingToClaim, Top, Do
<1> QED
  BY <1>1, <1>2, <1>3, <1>4, <1>5, <1>6, <1>7, <1>8, <1>9, <1>10, <1>11, <1>12, <1>13, <1>14, <1>15, <1>16, <1>17, <1>18, <1>19, <1>20, <1>21, <1>22, <1>23, <1>24, <1>25, <1>26, <1>27, <1>28 DEF WorkerStep

LEMMA KeepInvStep ==
  ASSUME ~RemoteDeletes, KeepInv, [Next]_vars PROVE KeepInv'
<1> USE DEF KeepInv, TypeInv, TypeOK, Holding, Tracked, NoBranchNoCommits, CheckedOut, Traced, AtWork,
        Preparing, Removing, CommitsAreKept, rows, tree, origin, place
<1>0. TypeInv'
  BY TypeInvStep
<1>1. CASE WorkerStep
  BY <1>0, <1>1, WorkerStepKeeps
<1>2. ASSUME NEW j \in Jobs, Requeue(j) PROVE KeepInv'
  BY <1>0, <1>2 DEF Requeue, Call, Write
<1>3. ASSUME NEW j \in Jobs, Cancel(j) PROVE KeepInv'
  BY <1>0, <1>3 DEF Cancel, Write
<1>4. ASSUME NEW j \in Jobs, RetryStage(j) PROVE KeepInv'
  <2>1. /\ trace[j] \cap {"worktree", "codex"} # {} /\ status[j] \in {"BLOCKED", "REVIEW"}
        /\ UNCHANGED <<tree, origin, place, made, discarded>>
    BY <1>4 DEF RetryStage
  <2>2. "worktree" \in trace[j]
    BY <2>1
  <2>3. PICK s \in Status, t \in {trace[j], trace[j] \ {"validation", "pullRequest"}} :
           Write(j, s, t)
    <3>1. RetryTarget(j) \in Status
      BY DEF RetryTarget, Status
    <3> QED
      BY <1>4, <3>1 DEF RetryStage, Status
  <2>4. /\ status' = [status EXCEPT ![j] = s] /\ trace' = [trace EXCEPT ![j] = t]
        /\ "worktree" \in t
    BY <2>2, <2>3 DEF Write
  <2>5. trace[j] # {}
    BY <2>2
  <2>6. CheckedOut' /\ Traced'
    BY <2>1, <2>2, <2>4
  <2>7. AtWork' /\ Preparing'
    BY <2>1, <2>4, <2>5
  <2> QED
    BY <1>0, <2>1, <2>6, <2>7
<1>5. ASSUME NEW j \in Jobs, Expire(j) PROVE KeepInv'
  BY <1>0, <1>5 DEF Expire
<1>6. ASSUME NEW j \in Jobs, DeleteRemoteBranch(j) PROVE KeepInv'
  BY <1>6 DEF DeleteRemoteBranch
<1>7. ASSUME NEW j \in Jobs, NEW state \in {"merged", "closed"}, ResolvePr(j, state)
      PROVE  KeepInv'
  BY <1>0, <1>7 DEF ResolvePr
<1>8. CASE SweepComesDue
  BY <1>0, <1>8 DEF SweepComesDue
<1>9. CASE Restart
  BY <1>0, <1>9 DEF Restart
<1>10. CASE UNCHANGED vars
  BY <1>0, <1>10 DEF vars
<1> QED
  BY <1>1, <1>2, <1>3, <1>4, <1>5, <1>6, <1>7, <1>8, <1>9, <1>10 DEF Next

\* As long as nobody deletes a work branch on GitHub, no commit made for a job is lost:
\* not when a command fails, not when the worker is killed between two commands, not
\* by a requeue, a retry or a sweep at any moment (resetJobWorktreeForFreshStart,
\* removeJobWorktree, cleanupExpiredWorktrees, createDraftPullRequest).
THEOREM KeepsCommits ==
  ASSUME ~RemoteDeletes PROVE Spec => []CommitsAreKept
<1>1. Init => KeepInv
  BY KeepInvInit
<1>2. KeepInv /\ [Next]_vars => KeepInv'
  BY KeepInvStep
<1>3. KeepInv => CommitsAreKept
  BY DEF KeepInv
<1> QED
  BY <1>1, <1>2, <1>3, PTL DEF Spec
------------------------------------------------------------------------------
(* Waiting jobs keep their worktree, when clients do not retry stages.       *)

\* What the sweep is about to remove belongs to jobs that only a requeue or a cancel moves,
\* and the worker, who alone could take them further, is sweeping.
Doomed ==
  /\ \A j \in doomed : status[j] \in {"BLOCKED", "CANCELED", "QUEUED"}
  /\ at \notin {"sweep", "remove", "delete", "removed"} => doomed = {}

\* The status of the job that the worker works on.
Held ==
  /\ at \in {"reset", "create", "switch", "codex"} => status[job] = "RUNNING"
  /\ at = "validate" => status[job] = "VALIDATING"
  /\ at \in {"commit", "push", "gh"} => status[job] = "REVIEW"
  /\ at = "inspect" => status[job] = "PR_CREATED"

\* Who loses a worktree, and why.
Removed ==
  at \in {"remove", "delete", "removed"} =>
    \/ purpose = "retention-expired" /\ job \in doomed
    \/ purpose = "requeue-reset" /\ status[job] = "RUNNING" /\ doomed = {}
    \/ /\ purpose = "pr-merged" /\ doomed = {}
       /\ status[job] = "PR_CREATED" /\ pr[job] = "merged"

\* What a stage that makes a job wait has in its hands.
Prepared ==
  /\ at = "switch" => dir[job]
  /\ at = "codex" => dir[job] /\ branch[job]

WaitInv == TypeInv /\ WaitingHasWorktree /\ Doomed /\ Held /\ Removed /\ Prepared

LEMMA WaitInvInit == Init => WaitInv
<1> SUFFICES ASSUME Init PROVE WaitInv
  OBVIOUS
<1>1. TypeInv
  BY TypeInvInit
<1>2. WaitingHasWorktree /\ Doomed /\ Held /\ Removed /\ Prepared
  BY DEF Init, WaitingHasWorktree, Doomed, Held, Removed, Prepared
<1> QED
  BY <1>1, <1>2 DEF WaitInv

LEMMA WorkerStepWaits ==
  ASSUME WaitInv, TypeInv', WorkerStep PROVE WaitInv'
<1> USE DEF WaitInv, TypeInv, TypeOK, Holding, WaitingHasWorktree, Doomed, Held, Removed,
        Prepared, rows, tree, origin
<1>1. CASE StartSweep
  BY <1>1 DEF StartSweep, Decide, RetentionStatuses, Status
<1>2. CASE SkipSweep
  BY <1>2 DEF SkipSweep, Top, Do
<1>3. CASE SweepNext
  BY <1>3 DEF SweepNext, Do, StartRemoval
<1>4. CASE RemoveWorktree
  BY <1>4 DEF RemoveWorktree, Then, Do
<1>5. CASE DeleteBranch
  BY <1>5 DEF DeleteBranch, Then, Do
<1>6. CASE AfterRemoval
  BY <1>6 DEF AfterRemoval, Then, Do, Block, End, Write, Top
<1>7. CASE ClaimQueued
  BY <1>7 DEF ClaimQueued, Write, Do
<1>8. CASE CheckoutFails
  BY <1>8 DEF CheckoutFails, Block, End, Write, Top, Do
<1>9. CASE Reset
  BY <1>9 DEF Reset, Then, Do, End, Write, Top, StartRemoval, Unpushed
<1>10. CASE AddWorktree
  BY <1>10 DEF AddWorktree, Then, Do
<1>11. CASE CreationFails
  BY <1>11 DEF CreationFails, Block, End, Write, Top, Do
<1>12. CASE SwitchToBranch
  BY <1>12 DEF SwitchToBranch, End, Write, Top, Do
<1>13. CASE SwitchFails
  BY <1>13 DEF SwitchFails, Block, End, Write, Top, Do
<1>14. CASE ClaimCodex
  BY <1>14 DEF ClaimCodex, Write, Do
<1>15. CASE CodexEnds
  BY <1>15 DEF CodexEnds, Block, End, Write, Top, Do
<1>16. CASE ClaimValidating
  BY <1>16 DEF ClaimValidating, Claim, Do
<1>17. CASE Validate
  <2>1. at = "validate" /\ job \in Jobs /\ UNCHANGED <<tree, origin, calls, made, discarded>>
    BY <1>17 DEF Validate
  <2>2. PICK s \in {"BLOCKED", "REVIEW", "COMPLETED"} : End(s, trace[job] \cup {"validation"})
    BY <1>17 DEF Validate, Block
  <2> QED
    BY <2>1, <2>2 DEF End, Write, Top, Do
<1>18. CASE ValidateNothing
  BY <1>18 DEF ValidateNothing, Do
<1>19. CASE ClaimReview
  BY <1>19 DEF ClaimReview, Claim, Do
<1>20. CASE Commit
  BY <1>20 DEF Commit, Then, Do
<1>21. CASE CommitFails
  BY <1>21 DEF CommitFails, Block, End, Write, Top, Do
<1>22. CASE Push
  BY <1>22 DEF Push, Then, Do
<1>23. CASE PushFails
  BY <1>23 DEF PushFails, Block, End, Write, Top, Do
<1>24. CASE CreatePr
  BY <1>24 DEF CreatePr, End, Write, Top, Do
<1>25. CASE CreatePrFails
  BY <1>25 DEF CreatePrFails, Block, End, Write, Top, Do
<1>26. CASE ClaimPrCreated
  BY <1>26 DEF ClaimPrCreated, Claim, Do
<1>27. CASE Inspect
  <2>1. at = "inspect" /\ job \in Jobs /\ UNCHANGED <<tree, origin, calls, made, discarded>>
    BY <1>27 DEF Inspect
  <2>2. CASE Top /\ UNCHANGED rows
    BY <2>1, <2>2 DEF Top, Do
  <2>3. CASE pr[job] = "merged" /\ StartRemoval(job, "pr-merged") /\ UNCHANGED rows
    BY <2>1, <2>3 DEF StartRemoval
  <2>4. CASE Block({})
    BY <2>1, <2>4 DEF Block, End, Write, Top, Do
  <2>5. ASSUME pr[job] = "open", status' = [status EXCEPT ![job] = "READY_FOR_CODEX"],
               trace' = [trace EXCEPT ![job] = @ \ {"validation", "pullRequest"}], Top
        PROVE  WaitInv'
    BY <2>1, <2>5 DEF Top, Do
  <2> QED
    BY <1>27, <2>2, <2>3, <2>4, <2>5 DEF Inspect
<1>28. CASE NothingToClaim
  BY <1>28 DEF NothingToClaim, Top, Do
<1> QED
  BY <1>1, <1>2, <1>3, <1>4, <1>5, <1>6, <1>7, <1>8, <1>9, <1>10, <1>11, <1>12, <1>13, <1>14, <1>15, <1>16, <1>17, <1>18, <1>19, <1>20, <1>21, <1>22, <1>23, <1>24, <1>25, <1>26, <1>27, <1>28 DEF WorkerStep

LEMMA WaitInvStep ==
  ASSUME "retryStage" \notin Routes, WaitInv, [Next]_vars PROVE WaitInv'
<1> USE DEF WaitInv, TypeInv, TypeOK, Holding, WaitingHasWorktree, Doomed, Held, Removed,
        Prepared, rows, tree, origin, place
<1>0. TypeInv'
  BY TypeInvStep
<1>1. CASE WorkerStep
  BY <1>0, <1>1, WorkerStepWaits
<1>2. ASSUME NEW j \in Jobs, Requeue(j) PROVE WaitInv'
  BY <1>0, <1>2 DEF Requeue, Call, Write
<1>3. ASSUME NEW j \in Jobs, Cancel(j) PROVE WaitInv'
  BY <1>0, <1>3 DEF Cancel, Write
<1>4. ASSUME NEW j \in Jobs, RetryStage(j) PROVE WaitInv'
  BY <1>4 DEF RetryStage
<1>5. ASSUME NEW j \in Jobs, Expire(j) PROVE WaitInv'
  BY <1>0, <1>5 DEF Expire
<1>6. ASSUME NEW j \in Jobs, DeleteRemoteBranch(j) PROVE WaitInv'
  BY <1>0, <1>6 DEF DeleteRemoteBranch
<1>7. ASSUME NEW j \in Jobs, NEW state \in {"merged", "closed"}, ResolvePr(j, state)
      PROVE  WaitInv'
  BY <1>0, <1>7 DEF ResolvePr
<1>8. CASE SweepComesDue
  BY <1>0, <1>8 DEF SweepComesDue
<1>9. CASE Restart
  BY <1>0, <1>9 DEF Restart
<1>10. CASE UNCHANGED vars
  BY <1>0, <1>10 DEF vars
<1> QED
  BY <1>1, <1>2, <1>3, <1>4, <1>5, <1>6, <1>7, <1>8, <1>9, <1>10 DEF Next

\* As long as no client retries a stage, a job that waits for the worker or at a gate has its
\* worktree and its branch, through failing commands, kills, requeues, sweeps and branches
\* deleted on GitHub (cleanupExpiredWorktrees, resetJobWorktreeForFreshStart,
\* createJobWorktree).
THEOREM WaitingKeepsWorktree ==
  ASSUME "retryStage" \notin Routes PROVE Spec => []WaitingHasWorktree
<1>1. Init => WaitInv
  BY WaitInvInit
<1>2. WaitInv /\ [Next]_vars => WaitInv'
  BY WaitInvStep
<1>3. WaitInv => WaitingHasWorktree
  BY DEF WaitInv
<1> QED
  BY <1>1, <1>2, <1>3, PTL DEF Spec
------------------------------------------------------------------------------
(* Approved work has changes, when the worker is not killed either.          *)

\* Work in review is not committed yet, except between its commit and the end of the stage.
UncommittedReview ==
  \A j \in Jobs : status[j] = "REVIEW" => dirty[j] \/ (at \in {"push", "gh"} /\ job = j)

LEMMA WorkerStepLeavesChanges ==
  ASSUME WaitInv, UncommittedReview, WorkerStep PROVE UncommittedReview'
<1> USE DEF WaitInv, TypeInv, TypeOK, Holding, Doomed, Held, Removed, UncommittedReview,
        rows, tree, origin
<1>1. CASE StartSweep
  BY <1>1 DEF StartSweep
<1>2. CASE SkipSweep
  BY <1>2 DEF SkipSweep, Top, Do
<1>3. CASE SweepNext
  BY <1>3 DEF SweepNext, Do, StartRemoval
<1>4. CASE RemoveWorktree
  BY <1>4 DEF RemoveWorktree, Then, Do
<1>5. CASE DeleteBranch
  BY <1>5 DEF DeleteBranch, Then, Do
<1>6. CASE AfterRemoval
  BY <1>6 DEF AfterRemoval, Then, Do, Block, End, Write, Top
<1>7. CASE ClaimQueued
  BY <1>7 DEF ClaimQueued, Write, Do
<1>8. CASE CheckoutFails
  BY <1>8 DEF CheckoutFails, Block, End, Write, Top, Do
<1>9. CASE Reset
  BY <1>9 DEF Reset, Then, Do, End, Write, Top, StartRemoval, Unpushed
<1>10. CASE AddWorktree
  BY <1>10 DEF AddWorktree, Then, Do
<1>11. CASE CreationFails
  BY <1>11 DEF CreationFails, Block, End, Write, Top, Do
<1>12. CASE SwitchToBranch
  BY <1>12 DEF SwitchToBranch, End, Write, Top, Do
<1>13. CASE SwitchFails
  BY <1>13 DEF SwitchFails, Block, End, Write, Top, Do
<1>14. CASE ClaimCodex
  BY <1>14 DEF ClaimCodex, Write, Do
<1>15. CASE CodexEnds
  BY <1>15 DEF CodexEnds, Block, End, Write, Top, Do
<1>16. CASE ClaimValidating
  BY <1>16 DEF ClaimValidating, Claim, Do
<1>17. CASE Validate
  <2>1. at = "validate" /\ job \in Jobs /\ UNCHANGED <<tree, origin, calls, made, discarded>>
    BY <1>17 DEF Validate
  <2>2. PICK s \in {"BLOCKED", "REVIEW", "COMPLETED"} :
          /\ End(s, trace[job] \cup {"validation"})
          /\ s = "REVIEW" => dirty[job]
    BY <1>17 DEF Validate, Block
  <2> QED
    BY <2>1, <2>2 DEF End, Write, Top, Do
<1>18. CASE ValidateNothing
  BY <1>18 DEF ValidateNothing, Do
<1>19. CASE ClaimReview
  BY <1>19 DEF ClaimReview, Claim, Do
<1>20. CASE Commit
  BY <1>20 DEF Commit, Then, Do
<1>21. CASE CommitFails
  BY <1>21 DEF CommitFails, Block, End, Write, Top, Do
<1>22. CASE Push
  BY <1>22 DEF Push, Then, Do
<1>23. CASE PushFails
  BY <1>23 DEF PushFails, Block, End, Write, Top, Do
<1>24. CASE CreatePr
  BY <1>24 DEF CreatePr, End, Write, Top, Do
<1>25. CASE CreatePrFails
  BY <1>25 DEF CreatePrFails, Block, End, Write, Top, Do
<1>26. CASE ClaimPrCreated
  BY <1>26 DEF ClaimPrCreated, Claim, Do
<1>27. CASE Inspect
  <2>1. at = "inspect" /\ job \in Jobs /\ UNCHANGED <<tree, origin, calls, made, discarded>>
    BY <1>27 DEF Inspect
  <2>2. CASE Top /\ UNCHANGED rows
    BY <2>1, <2>2 DEF Top, Do
  <2>3. CASE pr[job] = "merged" /\ StartRemoval(job, "pr-merged") /\ UNCHANGED rows
    BY <2>1, <2>3 DEF StartRemoval
  <2>4. CASE Block({})
    BY <2>1, <2>4 DEF Block, End, Write, Top, Do
  <2>5. ASSUME pr[job] = "open", status' = [status EXCEPT ![job] = "READY_FOR_CODEX"],
               trace' = [trace EXCEPT ![job] = @ \ {"validation", "pullRequest"}], Top
        PROVE  UncommittedReview'
    BY <2>1, <2>5 DEF Top, Do
  <2> QED
    BY <1>27, <2>2, <2>3, <2>4, <2>5 DEF Inspect
<1>28. CASE NothingToClaim
  BY <1>28 DEF NothingToClaim, Top, Do
<1> QED
  BY <1>1, <1>2, <1>3, <1>4, <1>5, <1>6, <1>7, <1>8, <1>9, <1>10, <1>11, <1>12, <1>13, <1>14, <1>15, <1>16, <1>17, <1>18, <1>19, <1>20, <1>21, <1>22, <1>23, <1>24, <1>25, <1>26, <1>27, <1>28 DEF WorkerStep

LEMMA UncommittedReviewStep ==
  ASSUME "retryStage" \notin Routes, ~Crashes, WaitInv, UncommittedReview, [Next]_vars
  PROVE  UncommittedReview'
<1> USE DEF UncommittedReview, WaitInv, TypeInv, TypeOK, tree, origin, place
<1>1. CASE WorkerStep
  BY <1>1, WorkerStepLeavesChanges
<1>2. ASSUME NEW j \in Jobs, Requeue(j) \/ Cancel(j) PROVE UncommittedReview'
  BY <1>2 DEF Requeue, Cancel, Write
<1>3. ASSUME NEW j \in Jobs, RetryStage(j) PROVE UncommittedReview'
  BY <1>3 DEF RetryStage
<1>4. ASSUME NEW j \in Jobs, Expire(j) \/ DeleteRemoteBranch(j) PROVE UncommittedReview'
  BY <1>4 DEF Expire, DeleteRemoteBranch, rows
<1>5. ASSUME NEW j \in Jobs, NEW state \in {"merged", "closed"}, ResolvePr(j, state)
      PROVE  UncommittedReview'
  BY <1>5 DEF ResolvePr, rows
<1>6. CASE SweepComesDue
  BY <1>6 DEF SweepComesDue, rows
<1>7. CASE Restart
  BY <1>7 DEF Restart, rows
<1>8. CASE UNCHANGED vars
  BY <1>8 DEF vars, rows
<1> QED
  BY <1>1, <1>2, <1>3, <1>4, <1>5, <1>6, <1>7, <1>8 DEF Next

\* As long as no client retries a stage and the worker is not killed between commands, work
\* that was approved for a pull request still has something to commit, whatever git, gh and
\* other people do (validateGeneratedWork, createDraftPullRequest).
THEOREM ApprovedKeepsChanges ==
  ASSUME "retryStage" \notin Routes, ~Crashes PROVE Spec => []ApprovedHasChanges
<1>1. Init => WaitInv /\ UncommittedReview
  BY WaitInvInit DEF Init, UncommittedReview
<1>2. WaitInv /\ UncommittedReview /\ [Next]_vars => WaitInv' /\ UncommittedReview'
  BY WaitInvStep, UncommittedReviewStep
<1>3. WaitInv /\ UncommittedReview => ApprovedHasChanges
  BY DEF WaitInv, TypeInv, Holding, Held, UncommittedReview, ApprovedHasChanges
<1> QED
  BY <1>1, <1>2, <1>3, PTL DEF Spec
=============================================================================
