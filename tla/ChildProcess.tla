---------------------------- MODULE ChildProcess ----------------------------
(***************************************************************************)
(* The child process a runner waits for: a local test run, a dependency    *)
(* installation, a validation command or Codex (local-test-run.ts,         *)
(* dependency-install.ts, validation.ts, codex-invocation.ts).  The runner *)
(* goes on when the direct child has ended and every process that holds    *)
(* its pipes has, or when it could not be spawned.                         *)
(***************************************************************************)
EXTENDS Naturals

VARIABLE child   \* the child process waited for, or NoChild

Kinds == {"test", "install", "validation", "codex"}
\* Whose time is limited, and whose whole process group is killed then.
Limited == {"test", "install", "codex"}
Grouped == {"test", "install"}

\* direct: how the direct child is; heirs: whether processes it left hold the pipes.
\* signal: the last one sent.
Children ==
  [kind : Kinds, direct : {"up", "ok", "bad", "killed"}, heirs : BOOLEAN,
   timedOut : BOOLEAN, signal : {"", "TERM", "KILL"}]
NoChild == [kind |-> "none"]

ChildType == child \in Children \cup {NoChild}
ChildInit == child = NoChild

IsRunning == child # NoChild

\* The child may start processes of its own that inherit its pipes.
Spawn(kind) ==
  /\ child = NoChild
  /\ \E heirs \in BOOLEAN :
       child' = [kind |-> kind, direct |-> "up", heirs |-> heirs, timedOut |-> FALSE, signal |-> ""]

\* The direct child ends by itself, the processes it started end or stay.
DirectEnds ==
  /\ IsRunning /\ child.direct = "up"
  /\ \E how \in {"ok", "bad"} : child' = [child EXCEPT !.direct = how]
HeirsEnd ==
  /\ IsRunning /\ child.heirs
  /\ child' = [child EXCEPT !.heirs = FALSE]

\* A signal ends those of its receivers that do not ignore it.
Obey(receivers, signal) ==
  \E gone \in SUBSET receivers :
    /\ signal = "KILL" => gone = receivers
    /\ child' = [child EXCEPT !.signal = signal, !.timedOut = TRUE,
                   !.direct = IF "direct" \in gone /\ @ = "up" THEN "killed" ELSE @,
                   !.heirs = @ /\ "heirs" \notin gone]
\* A faulty variant of Receivers: nobody but the direct child.
ReceiversDirect == {"direct"}
Receivers == IF child.kind \in Grouped THEN {"direct", "heirs"} ELSE {"direct"}

\* SIGTERM when the time is over, SIGKILL five seconds later; Codex gets the second only
\* if it has not exited.
TimeOut ==
  /\ IsRunning /\ child.kind \in Limited /\ child.signal = ""
  /\ Obey(Receivers, "TERM")
Kill ==
  /\ IsRunning /\ child.signal = "TERM"
  /\ child.kind \in Grouped \/ child.direct \notin {"ok", "bad"}
  /\ Obey(Receivers, "KILL")

\* The event that ends the wait.  ok: exit code 0 in time.
IsClosed == IsRunning /\ child.direct # "up" /\ ~child.heirs
IsOk == child.direct = "ok" /\ ~child.timedOut

Runs == DirectEnds \/ HeirsEnd \/ TimeOut \/ Kill
=============================================================================
