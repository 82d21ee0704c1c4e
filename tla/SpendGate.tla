------------------------------ MODULE SpendGate ------------------------------
(***************************************************************************)
(* What FlawFerret2 promises about spending on a model, apart from how the *)
(* pipeline keeps it: Codex runs on a licence, a licence comes from a      *)
(* human approval or from an automatic retry, and a licence is good for    *)
(* one worker, once.  A licence may be lost unused; it is never copied.    *)
(***************************************************************************)
EXTENDS Naturals

CONSTANTS Jobs, Workers, None

VARIABLES
  licensed,   \* the jobs with a licence nobody has taken
  taken,      \* the job whose licence a worker has taken and not yet used up
  granted,    \* licences granted for a job so far
  spent       \* licences taken for a job so far

gateVars == <<licensed, taken, granted, spent>>

Init ==
  /\ licensed = {}
  /\ taken = [w \in Workers |-> None]
  /\ granted = [j \in Jobs |-> 0]
  /\ spent = [j \in Jobs |-> 0]

\* A human approves the job, or a failed check is retried automatically.
Grant(j) ==
  /\ j \notin licensed
  /\ licensed' = licensed \cup {j}
  /\ granted' = [granted EXCEPT ![j] = @ + 1]
  /\ UNCHANGED <<taken, spent>>

Take(w, j) ==
  /\ j \in licensed /\ taken[w] = None
  /\ licensed' = licensed \ {j}
  /\ taken' = [taken EXCEPT ![w] = j]
  /\ spent' = [spent EXCEPT ![j] = @ + 1]
  /\ UNCHANGED granted

\* Codex ends, or the worker does; the job's next status may replace a licence.
Finish(w) ==
  /\ taken[w] # None
  /\ taken' = [taken EXCEPT ![w] = None]
  /\ licensed' \subseteq licensed
  /\ UNCHANGED <<granted, spent>>

\* Another write to the job replaces a licence that was not taken yet.
Withdraw ==
  /\ licensed' \subseteq licensed
  /\ UNCHANGED <<taken, granted, spent>>

Next ==
  \/ \E j \in Jobs : Grant(j) \/ \E w \in Workers : Take(w, j)
  \/ \E w \in Workers : Finish(w)
  \/ Withdraw

Spec == Init /\ [][Next]_gateVars
==============================================================================
