---------------------------- MODULE PrInspection ----------------------------
(***************************************************************************)
(* What an inspection of a pull request sees and does (pull-request.ts):   *)
(* the lifecycle state of what `gh pr view` answers, the failing checks of *)
(* what `gh pr checks` answers afterwards, and the feedback that an        *)
(* automatic retry hands to Codex, whose budget of characters the checks   *)
(* share.  RunnerLoop decides when a pull request is inspected; JobPipeline *)
(* counts the retries.                                                     *)
(***************************************************************************)
EXTENDS RunnerLoop, Integers, Sequences, FiniteSets, Functions

CONSTANTS
  Views,           \* what `gh pr view` may answer
  Listings,        \* what `gh pr checks` may answer: a sequence of checks
  NoAnswer,        \* `gh pr view` failed
  Budget,          \* FEEDBACK_BUDGET_CHARACTERS
  FallbackLength   \* the length of what stands for the log of a check outside Actions

\* What the code reads of a check, with the length of its log.
Checks == [bucket : STRING, state : STRING, actions : BOOLEAN, log : Nat]

ASSUME PrInspectionAssumption ==
  /\ NoAnswer \notin Views
  /\ Listings \subseteq Seq(Checks)
  /\ Budget \in Nat \ {0} /\ FallbackLength \in Nat

VARIABLE feedback  \* history: each failing check's length and share in the feedback that
                   \* the last step handed to Codex; empty if it handed none
NoFeedback == <<>>

inspectionVars == <<vars, feedback>>

------------------------------------------------------------------------------
(* The lifecycle state. *)

FailingStates == {"ACTION_REQUIRED", "CANCELLED", "CANCELED", "FAILURE", "TIMED_OUT"}

\* A check run has a conclusion when it is over, a commit status only a state.
Failed(check) ==
  \/ check.conclusion \in FailingStates
  \/ /\ check.conclusion \notin {"SUCCESS", "NEUTRAL", "SKIPPED"}
     /\ check.status \in {"FAILURE", "ERROR"}
Passed(check) ==
  \/ check.conclusion \in {"SUCCESS", "NEUTRAL", "SKIPPED"}
  \/ check.conclusion \notin FailingStates /\ check.status = "SUCCESS"
LifecycleState(view) ==
  IF view.state \in {"MERGED", "CLOSED"} THEN view.state
  ELSE IF \E c \in view.rollup : Failed(c) THEN "CHECKS_FAILED"
  ELSE IF view.rollup = {} THEN "NO_CHECKS"
  ELSE IF \A c \in view.rollup : Passed(c) THEN "CHECKS_PASSED"
  ELSE "CHECKS_PENDING"

------------------------------------------------------------------------------
(* The feedback. *)

IsFailing(check) == check.bucket \in {"fail", "cancel"} \/ check.state \in FailingStates
FailingChecks(listing) == {i \in DOMAIN listing : IsFailing(listing[i])}

\* A check of GitHub Actions contributes its log, any other a line that points to it.
DetailLength(check) == IF check.actions THEN check.log ELSE FallbackLength

AtMost(a, b) == IF a <= b THEN a ELSE b
AtLeastOne(n) == IF n >= 1 THEN n ELSE 1
Total(lengths) == FoldFunction(+, 0, lengths)

\* A faulty variant of AllocateBudgets: what comes first takes all it needs.
FirstTakesAll(lengths) ==
  [i \in DOMAIN lengths |->
     LET before == Total([k \in {k \in DOMAIN lengths : k < i} |-> lengths[k]]) IN
     IF before >= Budget THEN 0 ELSE AtMost(lengths[i], Budget - before)]

\* allocateCheckBudgets: an even share first, then an even share of what is left over for
\* those that need more.
AllocateBudgets(lengths) ==
  LET even == AtLeastOne(Budget \div Cardinality(DOMAIN lengths))
      first == [i \in DOMAIN lengths |-> AtMost(lengths[i], even)]
      leftover == Budget - Total(first)
      needsMore == {i \in DOMAIN lengths : lengths[i] > first[i]}
      extra == AtLeastOne(leftover \div Cardinality(needsMore))
  IN IF leftover <= 0 \/ needsMore = {} THEN first
     ELSE [i \in DOMAIN lengths |-> first[i] + AtMost(lengths[i] - first[i], extra)]

BuildFeedback(listing) ==
  LET lengths == [i \in FailingChecks(listing) |-> DetailLength(listing[i])]
      shares == AllocateBudgets(lengths)
  IN [i \in DOMAIN lengths |-> [length |-> lengths[i], share |-> shares[i]]]

------------------------------------------------------------------------------
(* The inspection. *)

\* The run has what an inspection needs: JobPipeline's StageInputsPresent.
InspectPassing(j) ==
  \E view \in Views \cup {NoAnswer} :
    /\ view # NoAnswer => LifecycleState(view) # "CHECKS_FAILED"
    /\ place'[j] = IF view = NoAnswer THEN "prCreated"
                   ELSE IF LifecycleState(view) = "MERGED" THEN "done"
                   ELSE IF LifecycleState(view) = "CLOSED" THEN "human"
                   ELSE "prCreated"
    /\ feedback' = NoFeedback

\* With a retry left, the checks are listed again and the log of each failing one is fetched;
\* a command that fails, or no check that still fails, blocks the job as well.
Feedbacks == {BuildFeedback(listing) : listing \in Listings}
InspectFailed(j) ==
  /\ \E view \in Views : LifecycleState(view) = "CHECKS_FAILED"
  /\ \E retryLeft, fetched \in BOOLEAN, given \in Feedbacks :
       IF retryLeft /\ fetched /\ given # NoFeedback
       THEN place'[j] = "codex" /\ feedback' = given
       ELSE place'[j] = "human" /\ feedback' = NoFeedback

InspectionStep ==
  \/ OtherStep /\ feedback' = NoFeedback
  \/ \E j \in Jobs : InspectPr(j) /\ (InspectPassing(j) \/ InspectFailed(j))

InspectionInit == Init /\ feedback = NoFeedback

InspectionNext ==
  \/ InspectionStep
  \/ (Arrive \/ SetPaused) /\ feedback' = NoFeedback

InspectionSpec == InspectionInit /\ [][InspectionNext]_inspectionVars
                   /\ WF_inspectionVars(InspectionStep)

------------------------------------------------------------------------------

\* With any number of failing checks each has at least its even share of the budget (or all
\* it needs, and one character when there are more checks than characters), none has more
\* than a longer one, and what rounding adds to the budget is less than one character for
\* each check (allocateCheckBudgets).
FeedbackIsFair ==
  feedback # NoFeedback =>
    LET share == [i \in DOMAIN feedback |-> feedback[i].share]
        length == [i \in DOMAIN feedback |-> feedback[i].length]
    IN /\ \A i \in DOMAIN feedback :
            share[i] >= AtMost(length[i], AtLeastOne(Budget \div Cardinality(DOMAIN feedback)))
       /\ \A i, k \in DOMAIN feedback : length[i] <= length[k] => share[i] <= share[k]
       /\ Total(share) < Budget + Cardinality(DOMAIN feedback)
=============================================================================
