---- MODULE MCRunnerLoop ----
EXTENDS PrInspection, TLC
CONSTANTS j1, j2
\* j1 is the more urgent job.
TwoRanks == (j1 :> 2) @@ (j2 :> 1)

View(state, rollup) == [state |-> state, rollup |-> rollup]
Run(conclusion) == [conclusion |-> conclusion, status |-> "COMPLETED"]
Status(state) == [conclusion |-> "", status |-> state]
Running == [conclusion |-> "", status |-> "IN_PROGRESS"]
PrViews ==
  {View("MERGED", {Run("SUCCESS")}), View("CLOSED", {Run("FAILURE")}), View("OPEN", {}),
   View("OPEN", {Run("SUCCESS"), Running}), View("OPEN", {Run("SKIPPED"), Status("SUCCESS")}),
   View("OPEN", {Running, Status("ERROR")}), View("OPEN", {Run("TIMED_OUT")})}

\* Logs of every length up to one more than the budget, of up to three checks; checks that
\* pass by now; a check outside Actions; more checks than characters.
Check(bucket, actions, log) ==
  [bucket |-> bucket, state |-> "", actions |-> actions, log |-> log]
Logs(s) == [i \in DOMAIN s |-> Check("fail", TRUE, s[i])]
CheckListings ==
  {Logs(s) : s \in UNION {[1 .. n -> 0 .. Budget + 1] : n \in 1 .. 3}}
    \cup {<<Check("pass", TRUE, 9)>>, <<Check("cancel", FALSE, 0), Check("pass", TRUE, 9)>>,
          <<Check("fail", TRUE, 9), Check("fail", FALSE, 0), Check("pending", TRUE, 0)>>,
          Logs([i \in 1 .. Budget + 2 |-> 1]), Logs([i \in 1 .. Budget + 2 |-> i - 1])}
====
