-------------------------- MODULE FrameworkBuilder --------------------------
(***************************************************************************)
(* The framework builder's page on top of FrameworkBuild: the server       *)
(* actions of app/framework/new/page.tsx, which wait for one handler of    *)
(* the API after the other and leave the outcome in the page's URL, and    *)
(* the live preview of the form (framework-files-preview.tsx).             *)
(***************************************************************************)
EXTENDS FrameworkBuild

CONSTANTS
  Impatient,     \* TRUE: a request to the API may fail before its handler ends
  MaxEdits       \* bound on the edits of the form

ASSUME FrameworkBuilderAssumption == Impatient \in BOOLEAN /\ MaxEdits \in Nat

VARIABLES
  page,          \* the parameters of the URL
  waiting,       \* the handler that the page's server action waits for; 0 is none
  form,          \* the last form submitted
  button,        \* what was clicked last
  acts,          \* handlers started so far
  clicks,        \* clicks so far
  gaveUp,        \* history: a request has failed before its handler ended
  edits,         \* the number of the form's current content
  timer,         \* whether the debounce timer runs
  latest,        \* the latest token of the request sequencer
  requests,      \* the preview requests in progress
  preview        \* what the preview shows

pageVars == <<page, waiting, form, button, acts, clicks, gaveUp>>
previewVars == <<edits, timer, latest, requests, preview>>
vars == <<buildVars, pageVars, previewVars>>

Pages == [build : Nat, error : BOOLEAN, install : InstallStatuses, smoke : SmokeStatuses]
Blank == [build |-> 0, error |-> FALSE, install |-> "", smoke |-> ""]

TypeOK ==
  /\ BuildTypes
  /\ page \in Pages /\ waiting \in {0} \cup Acts
  /\ form \in Options \cup {NoForm} /\ button \in {"submit", "install", "smoke"}
  /\ acts \in {0} \cup Acts /\ clicks \in 0 .. MaxClicks /\ gaveUp \in BOOLEAN
  /\ edits \in 0 .. MaxEdits /\ timer \in BOOLEAN /\ latest \in 0 .. 2 * MaxEdits
  /\ requests \subseteq
       [token : 1 .. 2 * MaxEdits, of : 0 .. MaxEdits, at : {"fetch", "body"}, ok : BOOLEAN]
  /\ preview \in [of : 0 .. MaxEdits, error : BOOLEAN, refreshing : BOOLEAN]

Init ==
  /\ BuildInit
  /\ page = Blank /\ waiting = 0 /\ form = NoForm /\ button = "submit" /\ acts = 0 /\ clicks = 0 /\ gaveUp = FALSE
  /\ edits = 0 /\ timer = FALSE /\ latest = 0 /\ requests = {}
  /\ preview = [of |-> 0, error |-> FALSE, refreshing |-> FALSE]

------------------------------------------------------------------------------
(* The preview, which shares nothing with the handlers.  Bound: the user either edits *)
(* the form or submits it as it is. *)

\* refreshPreview aborts the request before it, which may be too late to stop it.
Refresh ==
  /\ latest' = latest + 1
  /\ preview' = [preview EXCEPT !.refreshing = TRUE]
  /\ \E survivors \in SUBSET requests :
       requests' = survivors \cup {[token |-> latest', of |-> edits', at |-> "fetch", ok |-> TRUE]}

\* A native event starts the timer again; a programmatic change refreshes at once; the
\* destination radio does both.
Edit ==
  /\ edits < MaxEdits /\ clicks = 0
  /\ edits' = edits + 1
  /\ \/ timer' = TRUE /\ UNCHANGED <<latest, requests, preview>>
     \/ Refresh /\ (timer' = TRUE \/ UNCHANGED timer)
  /\ UNCHANGED <<buildVars, pageVars>>

Debounced ==
  /\ timer
  /\ timer' = FALSE /\ UNCHANGED edits /\ Refresh
  /\ UNCHANGED <<buildVars, pageVars>>

IsStale(r) == r.token # latest
Drop(r) == requests' = requests \ {r} /\ UNCHANGED preview
Settle(r, of, error) ==
  /\ requests' = requests \ {r}
  /\ preview' = [of |-> of, error |-> error, refreshing |-> FALSE]

\* The response has arrived, its body has not.
Respond(r) ==
  /\ r.at = "fetch"
  /\ IF IsStale(r) THEN Drop(r)
     ELSE /\ \E ok \in BOOLEAN : requests' = (requests \ {r}) \cup {[r EXCEPT !.at = "body", !.ok = ok]}
          /\ UNCHANGED preview
  /\ UNCHANGED <<buildVars, pageVars, edits, timer, latest>>

\* A faulty variant of ReadBody: staleness is checked after the fetch only.
ReadBodyUnchecked(r) ==
  /\ r.at = "body"
  /\ Settle(r, IF r.ok THEN r.of ELSE preview.of, ~r.ok)
  /\ UNCHANGED <<buildVars, pageVars, edits, timer, latest>>

ReadBody(r) ==
  /\ r.at = "body"
  /\ IF IsStale(r) THEN Drop(r) ELSE Settle(r, IF r.ok THEN r.of ELSE preview.of, ~r.ok)
  /\ UNCHANGED <<buildVars, pageVars, edits, timer, latest>>

\* fetch or the parsing rejects: an aborted request says nothing.
RequestFails(r) ==
  /\ IF IsStale(r) THEN Drop(r) ELSE Settle(r, preview.of, TRUE)
  /\ UNCHANGED <<buildVars, pageVars, edits, timer, latest>>

------------------------------------------------------------------------------
(* The server actions. *)

Shown(param, saved) == IF param # "" THEN param ELSE saved
Saved == rows[page.build]
CanRunSmoke == Saved.dest = "local" /\ Shown(page.install, Saved.install) = "installed"

Starts(kind, opts, build) ==
  /\ acts' = acts + 1 /\ waiting' = acts'
  /\ handlers' = handlers \cup {Handler(acts', kind, opts, build)}
Clicks(what) ==
  /\ waiting = 0 /\ clicks < MaxClicks /\ clicks' = clicks + 1
  /\ button' = what
  /\ UNCHANGED <<dir, hub, rows, registered, answers, page, gaveUp, previewVars>>

Quiet == ~timer /\ requests = {}
\* The form is there until the page has a build to show.
Submit(o) ==
  /\ page.build = 0 /\ edits = 0
  /\ Clicks("submit") /\ form' = o /\ Starts("create", o, 0)
InstallClick ==
  /\ page.build # 0 /\ Saved.dest = "local"
  /\ Clicks("install") /\ Starts("install", NoForm, page.build) /\ UNCHANGED form
SmokeClick ==
  /\ page.build # 0 /\ CanRunSmoke
  /\ Clicks("smoke") /\ Starts("smoke", NoForm, page.build) /\ UNCHANGED form

\* The build's page reopens it, with nothing in the URL but its number.
Reopen(i) ==
  /\ waiting = 0 /\ page # [Blank EXCEPT !.build = i]
  /\ page' = [Blank EXCEPT !.build = i]
  /\ UNCHANGED <<buildVars, waiting, form, button, acts, clicks, gaveUp, previewVars>>
StartNew ==
  /\ waiting = 0 /\ page # Blank
  /\ page' = Blank
  /\ UNCHANGED <<buildVars, waiting, form, button, acts, clicks, gaveUp, previewVars>>

Ends == waiting' = 0 /\ UNCHANGED <<handlers, acts>>

\* createFramework: after the answer of the API, install and smoke test when asked for.
Created(build) ==
  /\ page' = [Blank EXCEPT !.build = build]
  /\ IF form.dest = "local" /\ form.auto THEN Starts("install", NoForm, build) ELSE Ends
CreateError == page' = [Blank EXCEPT !.error = TRUE] /\ Ends

Installed(status) ==
  /\ page' = [page EXCEPT !.install = status]
  /\ IF button = "submit" /\ status = "installed" THEN Starts("smoke", NoForm, page.build) ELSE Ends
Smoked(status) == page' = [page EXCEPT !.smoke = status] /\ Ends

\* A faulty variant of Outcome: the error of a creation is not caught.
OutcomeOfSuccess(kind, build, status) ==
  \/ kind = "create" /\ status = "created" /\ Created(build)
  \/ kind = "install" /\ Installed(IF status = "error" THEN "failed" ELSE status)
  \/ kind = "smoke" /\ Smoked(IF status = "error" THEN "failed" ELSE status)
Outcome(kind, build, status) ==
  \/ kind = "create" /\ status = "created" /\ Created(build)
  \/ kind = "create" /\ status = "error" /\ CreateError
  \/ kind = "install" /\ Installed(IF status = "error" THEN "failed" ELSE status)
  \/ kind = "smoke" /\ Smoked(IF status = "error" THEN "failed" ELSE status)

\* What the page waits for: the handlers of a submitted form come in a row.
Kind ==
  IF button # "submit" THEN button
  ELSE IF page.build = 0 THEN "create"
  ELSE IF page.install = "" THEN "install" ELSE "smoke"
Receive ==
  \E a \in answers :
    /\ a.id = waiting
    /\ Outcome(Kind, a.build, a.status)
    /\ answers' = answers \ {a}
    /\ UNCHANGED <<dir, hub, rows, registered, form, button, clicks, gaveUp, previewVars>>

\* The request fails, for example because its headers take too long; the handler goes on.
\* Bound: once.
GiveUp ==
  /\ Impatient /\ ~gaveUp /\ waiting # 0
  /\ gaveUp' = TRUE
  /\ Outcome(Kind, 0, "error")
  /\ UNCHANGED <<dir, hub, rows, registered, answers, form, button, clicks, previewVars>>

------------------------------------------------------------------------------

Previewing == Debounced \/ \E r \in requests : Respond(r) \/ ReadBody(r) \/ RequestFails(r)
Handling == \E h \in handlers : Handle(h)
Next ==
  \/ Edit \/ Previewing
  \/ \E o \in Options : Submit(o)
  \/ InstallClick \/ SmokeClick \/ StartNew
  \/ \E i \in DOMAIN rows : Reopen(i)
  \/ Receive \/ GiveUp
  \/ Handling /\ UNCHANGED <<pageVars, previewVars>>

\* Timers fire, requests and the commands of a handler end, all of them with a timeout or
\* by the database; nobody has to click.
Fairness ==
  /\ WF_vars(Previewing) /\ WF_vars(Receive)
  /\ WF_vars(Handling /\ UNCHANGED <<pageVars, previewVars>>)

Spec == Init /\ [][Next]_vars /\ Fairness

------------------------------------------------------------------------------
(* Properties. *)

\* When the form's requests are over the preview shows the form as it is, or an error.
LatestPreviewShown == Quiet => (preview.of = edits \/ preview.error) /\ ~preview.refreshing

\* A build that initialized its repository and created the remote has its files there.
InitializedIsPushed ==
  \A i \in DOMAIN rows :
    rows[i].git = "initialized" /\ rows[i].remote = "created" => Files \subseteq hub.main

\* A recorded build is there: its files on the disk, or a pull request that offers those
\* that the build reports.
RecordedIsThere ==
  \A i \in DOMAIN rows :
    IF rows[i].dest = "local" THEN Files \subseteq dir.files
    ELSE rows[i].act \in hub.prs /\ rows[i].made \subseteq hub.branches[rows[i].act]

\* While every answer is awaited, a smoke result is read from the report of its own run.
SmokeIsOwn ==
  ~gaveUp => \A i \in DOMAIN rows : rows[i].smokeReport \in {0, rows[i].smokeRun}

\* Every click is answered.
ClickIsAnswered == waiting # 0 ~> waiting = 0
=============================================================================
