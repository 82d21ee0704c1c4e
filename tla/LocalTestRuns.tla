---------------------------- MODULE LocalTestRuns ----------------------------
(***************************************************************************)
(* Local test runs from the request to their result: one ferret-runner     *)
(* worker (index.ts, local-test-run.ts) on top of ScenarioCatalog and      *)
(* ChildProcess.  A local test run comes first in every iteration; the     *)
(* children of the job stages keep the worker from it in between.          *)
(***************************************************************************)
EXTENDS ScenarioCatalog, ChildProcess

CONSTANTS
  Stages,        \* the children that the job stages may start
  MaxCrashes     \* bound on the worker's crashes

ASSUME LocalTestRunsAssumption == Stages \subseteq Kinds \ {"test"} /\ MaxCrashes \in Nat

VARIABLES
  held,          \* the run the worker has claimed; 0 is none
  crashes        \* crashes so far

vars == <<catalogVars, child, held, crashes>>

TypeOK ==
  /\ CatalogTypes /\ ChildType
  /\ held \in 0 .. MaxRuns /\ crashes \in 0 .. MaxCrashes

Init == CatalogInit /\ ChildInit /\ held = 0 /\ crashes = 0

------------------------------------------------------------------------------
(* The worker. *)

Queued == {n \in DOMAIN testRuns : testRuns[n].status = "QUEUED"}
Oldest == CHOOSE n \in Queued : \A m \in Queued : n <= m
SetRun(run) == testRuns' = [testRuns EXCEPT ![held] = run]

ClaimTest ==
  /\ held = 0 /\ child = NoChild /\ Queued # {}
  /\ held' = Oldest
  /\ testRuns' = [testRuns EXCEPT ![Oldest].status = "RUNNING"]
  /\ UNCHANGED <<checkout, edits, scenarios, requests, failures, child, crashes>>

\* What cucumber-js executes: what has the tag, which scenarios inherit from the other
\* lines of the file, or the scenario on the line, or the whole file.
Tagged(run) ==
  LET c == checkout[run.path] IN {i \in Lines(c) : run.tag \in c.scenarios[i].ids \cup c.tags}
OnLine(run) == {run.line} \cap Lines(checkout[run.path])
\* buildLocalTestCommand
Executes(run) ==
  IF run.tag # NoTag THEN Tagged(run)
  ELSE IF run.line # 0 THEN OnLine(run)
  ELSE Lines(checkout[run.path])

\* The run executes the scenario it is recorded for alone, or with it only scenarios that
\* carry several IDs: those the duplicate check does not count under any.
Own(run) == {i \in Lines(checkout[run.path]) : Identity(run.path, checkout[run.path], i) = run.id}
HasSeveral(c, i) == Cardinality(c.scenarios[i].ids) > 1
Outcome(run) ==
  LET several == {i \in Executes(run) : HasSeveral(checkout[run.path], i)} IN
    CASE Executes(run) = {} -> "nothing"
      [] \E i \in Own(run) : Executes(run) = {i} -> "own"
      [] several # {} /\ \E i \in Own(run) : Executes(run) = {i} \cup several -> "shared"
      [] OTHER -> "others"

\* The API has accepted the run and its file is still as it was read for that, or, of a run
\* by tag, the API would accept it again, whatever has become of the files.
IsUntouched(run) == run.of # NoFile /\ checkout[run.path] = run.of
WouldBeAccepted(run) ==
  ~IsRefused([path |-> run.path, target |-> [by |-> "id", id |-> run.id], got |-> checkout])
IsPromised(run) == run.id # NoId /\ (IsUntouched(run) \/ (run.tag # NoTag /\ WouldBeAccepted(run)))

StartTest ==
  /\ held # 0 /\ Spawn("test")
  /\ LET run == testRuns[held] IN
       SetRun([run EXCEPT !.of = NoFile, !.promised = IsPromised(run), !.ran = Outcome(run)])
  /\ UNCHANGED <<checkout, edits, scenarios, requests, failures, held, crashes>>

\* No checkout configured, or a command that cannot be spawned.
CannotStart ==
  /\ held # 0 /\ child = NoChild
  /\ SetRun([testRuns[held] EXCEPT !.status = "FAILED", !.of = NoFile])
  /\ held' = 0
  /\ UNCHANGED <<checkout, edits, scenarios, requests, failures, child, crashes>>

EndTest ==
  /\ held # 0 /\ IsClosed
  /\ SetRun([testRuns[held] EXCEPT !.status = IF IsOk THEN "PASSED" ELSE "FAILED"])
  /\ held' = 0 /\ child' = NoChild
  /\ UNCHANGED <<checkout, edits, scenarios, requests, failures, crashes>>

\* A stage's child, when no test run waits.
StartStage ==
  /\ held = 0 /\ Queued = {} /\ \E kind \in Stages : Spawn(kind)
  /\ UNCHANGED <<catalogVars, held, crashes>>
EndStage ==
  /\ held = 0 /\ IsClosed
  /\ child' = NoChild
  /\ UNCHANGED <<catalogVars, held, crashes>>

\* The worker dies and is started again; nothing looks for the run it had claimed.
Crash ==
  /\ crashes < MaxCrashes /\ held # 0
  /\ crashes' = crashes + 1 /\ held' = 0 /\ child' = NoChild
  /\ UNCHANGED catalogVars

Worker == ClaimTest \/ StartTest \/ CannotStart \/ EndTest \/ EndStage
------------------------------------------------------------------------------

Next ==
  \/ Edit /\ UNCHANGED <<child, held, crashes>>
  \/ \E s \in Clients : (Ask(s) \/ Serve(s)) /\ UNCHANGED <<child, held, crashes>>
  \/ Worker \/ StartStage \/ Crash
  \/ Runs /\ UNCHANGED <<catalogVars, held, crashes>>

\* A process that no time limit ends, and what only a group's SIGKILL reaches when nobody
\* sends it, are taken to end by themselves.
MustEnd == IsRunning /\ child.kind \notin Grouped
Fairness ==
  /\ \A s \in Clients : WF_vars(Serve(s) /\ UNCHANGED <<child, held, crashes>>)
  /\ WF_vars(Worker)
  /\ WF_vars((TimeOut \/ Kill) /\ UNCHANGED <<catalogVars, held, crashes>>)
  /\ WF_vars(MustEnd /\ (DirectEnds \/ HeirsEnd) /\ UNCHANGED <<catalogVars, held, crashes>>)

Spec == Init /\ [][Next]_vars /\ Fairness

------------------------------------------------------------------------------
(* Properties. *)

\* The API refuses a run by an ambiguous ID, and the runner "never targets two scenarios by
\* accident" (POST /repositories/:id/features/local-test-runs, buildLocalTestCommand): a run
\* recorded for a scenario executes it, and no other that the duplicate check counts, as long
\* as its file is left alone after the request has read it; and a run by tag also after edits
\* under which the API would accept it still, wherever the scenario is in the file by then.
RunHitsItsScenario ==
  \A n \in DOMAIN testRuns : testRuns[n].promised => testRuns[n].ran \in {"own", "shared"}

\* Every run that is queued ends, unless the worker dies with it.
TestRunEnds ==
  \A n \in 1 .. MaxRuns :
    (n \in Queued) ~> (n \in DOMAIN testRuns /\
      \/ testRuns[n].status \in {"PASSED", "FAILED"}
      \/ testRuns[n].status = "RUNNING" /\ held # n)
=============================================================================
