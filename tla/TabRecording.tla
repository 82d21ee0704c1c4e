---------------------------- MODULE TabRecording ----------------------------
(***************************************************************************)
(* How the browser extension records a tab: the content scripts of the     *)
(* pages (content_script.ts), the service worker, which Chrome stops when  *)
(* it idles (qa_issue_background_service.ts), and the offscreen document   *)
(* that holds the MediaRecorder (offscreen.ts).                            *)
(*                                                                         *)
(* A call is a message to the service worker whose handler is in progress. *)
(* One action is the part of a handler up to its next await; the last one  *)
(* runs the callback in the page as well, when the page is still there.    *)
(***************************************************************************)
EXTENDS Naturals, Sequences, FiniteSets

CONSTANTS
  Tabs, None,
  Restarts,        \* TRUE: Chrome stops the idle service worker
  MaxStarts,       \* bound on the recordings started
  MaxLoads,        \* bound on the navigations
  MaxHurries       \* bound on the user's acts while a handler is in progress

ASSUME TabRecordingAssumption ==
  /\ None \notin Tabs
  /\ Restarts \in BOOLEAN /\ MaxStarts \in Nat /\ MaxLoads \in Nat /\ MaxHurries \in Nat

VARIABLES
  script,      \* whether the page of the tab runs the content script
  overlay,     \* its overlay, and the recording the overlay offers
  control,     \* its recording control
  loads,       \* navigations so far
  calls,       \* the handlers in progress
  memory,      \* recordingState of the service worker
  session,     \* what chrome.storage.session keeps of it
  started,     \* the tabs of the recordings started so far
  recorder,    \* the recording of the current MediaRecorder; 0 is null
  live,        \* the recordings whose MediaRecorders have not stopped
  chunks,      \* the recordings with data in the shared list of chunks
  held,        \* the recordings in the map of the offscreen document
  content,     \* the recordings with data in each finished one
  hurried      \* history: how often the user acted while a handler was in progress

pages == <<script, overlay, control, loads>>
offscreen == <<started, recorder, live, chunks, held, content>>
state == <<memory, session>>
recordingVars == <<pages, calls, state, offscreen, hurried>>

Recordings == 0 .. MaxStarts
Overlays == [shown : BOOLEAN, rec : Recordings, status : {"", "creating", "created", "failed"}, issue : Nat]
States == [active : BOOLEAN, context : Tabs \cup {None}, tab : Tabs \cup {None}]
NoOverlay == [shown |-> FALSE, rec |-> 0, status |-> "", issue |-> 0]
Offering(rec) == [shown |-> TRUE, rec |-> rec, status |-> "", issue |-> 0]
NoState == [active |-> FALSE, context |-> None, tab |-> None]

\* rec is what a stop has recorded, what a filing will attach, or the new issue's number;
\* here: the page that sent the message is still loaded; own: and so is its overlay.
Kinds == {"start", "mark", "stop", "clear", "restore", "init", "file"}
Points ==
  {"stream", "check", "media", "set", "stop", "flush", "notify", "get", "create", "createTask",
   "createStory", "snapshot", "recording", "upload", "comment", "rejected"}
Calls ==
  [kind : Kinds,
   tab : Tabs, at : Points, rec : Nat, issue : Nat, here : BOOLEAN, own : BOOLEAN]

RecordingTypes ==
  /\ script \in [Tabs -> {"none", "loading", "injected"}] /\ overlay \in [Tabs -> Overlays]
  /\ control \in [Tabs -> {"none", "shown", "stopping"}] /\ loads \in 0 .. MaxLoads
  /\ \A c \in calls : c \in Calls
  /\ memory \in States /\ session \in States
  /\ started \in Seq(Tabs) /\ recorder \in Recordings
  /\ live \subseteq Recordings /\ chunks \subseteq Recordings /\ held \subseteq Recordings
  /\ content \in [Recordings -> SUBSET Recordings]
  /\ hurried \in 0 .. MaxHurries

RecordingInit ==
  /\ script = [t \in Tabs |-> "none"] /\ overlay = [t \in Tabs |-> NoOverlay]
  /\ control = [t \in Tabs |-> "none"] /\ loads = 0
  /\ calls = {} /\ memory = NoState /\ session = NoState
  /\ started = <<>> /\ recorder = 0 /\ live = {} /\ chunks = {}
  /\ held = {} /\ content = [r \in Recordings |-> {}]
  /\ hurried = 0

------------------------------------------------------------------------------

Call(kind, t, at) ==
  [kind |-> kind, tab |-> t, at |-> at, rec |-> 0, issue |-> 0, here |-> TRUE, own |-> TRUE]

\* The user acts in a tab, in a hurry unless every handler has ended.
UserActs ==
  \/ calls = {} /\ UNCHANGED hurried
  \/ calls # {} /\ hurried < MaxHurries /\ hurried' = hurried + 1

\* The overlay of t goes: the handlers it started have nothing left to show.
Disowned(t, set) == {IF c.tab = t THEN [c EXCEPT !.own = FALSE] ELSE c : c \in set}
Orphaned(t, set) == {IF c.tab = t THEN [c EXCEPT !.own = FALSE, !.here = FALSE] ELSE c : c \in set}

\* The context menu: the content script is injected, asks for the recording state
\* and shows an overlay for the element.
Capture(t) ==
  /\ script[t] # "loading"
  /\ script' = [script EXCEPT ![t] = "injected"]
  /\ overlay' = [overlay EXCEPT ![t] = Offering(0)]
  /\ calls' = Disowned(t, calls) \cup {Call("init", t, "get")}
  /\ UserActs /\ UNCHANGED <<control, loads, state, offscreen>>

CloseOverlay(t) ==
  /\ overlay[t].shown
  /\ overlay' = [overlay EXCEPT ![t] = NoOverlay]
  /\ calls' = Disowned(t, calls)
  /\ UserActs /\ UNCHANGED <<script, control, loads, state, offscreen>>

Navigate(t) ==
  /\ script[t] = "injected" /\ loads < MaxLoads
  /\ script' = [script EXCEPT ![t] = "loading"]
  /\ overlay' = [overlay EXCEPT ![t] = NoOverlay]
  /\ control' = [control EXCEPT ![t] = "none"]
  /\ loads' = loads + 1
  /\ calls' = Orphaned(t, calls)
  /\ UserActs /\ UNCHANGED <<state, offscreen>>

\* tabs.onUpdated, complete: the tab being recorded gets the content script again.
Loaded(t) ==
  /\ script[t] = "loading"
  /\ IF memory.active /\ memory.tab = t
     THEN /\ script' = [script EXCEPT ![t] = "injected"]
          /\ calls' = calls \cup {Call("init", t, "get")}
     ELSE script' = [script EXCEPT ![t] = "none"] /\ UNCHANGED calls
  /\ UNCHANGED <<overlay, control, loads, state, offscreen, hurried>>

\* Chrome stops the service worker, which has no handler in progress.  A handler that
\* was rejected has ended, although it has never answered.
Restart ==
  /\ Restarts /\ (\A c \in calls : c.at = "rejected") /\ memory # NoState
  /\ memory' = NoState
  /\ UNCHANGED <<pages, calls, session, offscreen, hurried>>

------------------------------------------------------------------------------
(* The calls.  Ends(c, more) is the end of handler c, with the calls that the *)
(* callback makes in its place. *)

Ends(c, more) == calls' = (calls \ {c}) \cup more
Goes(c, at) == Ends(c, {[c EXCEPT !.at = at]})

\* The messages of one page arrive in the order in which it sent them.
InOrder(c) ==
  /\ c.kind = "restore" => ~\E d \in calls : d.tab = c.tab /\ d.kind = "clear"
  /\ c.kind \in {"mark", "init"} =>
       ~\E d \in calls : d.tab = c.tab /\ d.kind \in {"clear", "restore"}

RecordClick(t) ==
  /\ overlay[t].shown /\ Len(started) < MaxStarts
  /\ ~\E c \in calls : c.tab = t /\ c.own /\ c.kind \in {"start", "mark"}
  /\ calls' = calls \cup {Call("start", t, "stream")}
  /\ UserActs /\ UNCHANGED <<pages, state, offscreen>>

\* handleRecordStart gets a stream id, or not, and asks the offscreen document.
GetStream(c) ==
  /\ c.kind = "start" /\ c.at = "stream"
  /\ Goes(c, "check") \/ Ends(c, {})
  /\ UNCHANGED <<pages, state, offscreen, hurried>>

\* startRecording looks at recorder before it waits for the media stream.
AlreadyRecording == recorder # 0
StartCheck(c) ==
  /\ c.kind = "start" /\ c.at = "check"
  /\ IF AlreadyRecording THEN Ends(c, {}) ELSE Goes(c, "media")
  /\ UNCHANGED <<pages, state, offscreen, hurried>>

\* The page, if it is still there, goes on to record the state; setRecordingState.
Marking(c) == IF c.here THEN {[c EXCEPT !.kind = "mark", !.at = "set"]} ELSE {}
StartRecording(c) ==
  /\ c.kind = "start" /\ c.at = "media" /\ Len(started) < MaxStarts
  /\ LET s == Len(started) + 1 IN
       /\ started' = Append(started, c.tab)
       /\ recorder' = s /\ live' = live \cup {s} /\ chunks' = {}
  /\ Ends(c, Marking(c))
  /\ UNCHANGED <<pages, state, held, content, hurried>>

MediaFails(c) ==
  /\ c.kind = "start" /\ c.at = "media"
  /\ Ends(c, {})
  /\ UNCHANGED <<pages, state, offscreen, hurried>>

\* handleRecordStateSet: in memory and in the session storage, with the sender's tab.
StateSet(active, context, t) ==
  /\ memory' = [active |-> active, context |-> context, tab |-> t]
  /\ session' = [active |-> active, context |-> context, tab |-> t]

\* The Record button's handler ends: the control takes the place of the overlay.
Mark(c) ==
  /\ c.kind = "mark" /\ InOrder(c)
  /\ StateSet(TRUE, c.tab, c.tab)
  /\ overlay' = IF c.own THEN [overlay EXCEPT ![c.tab] = NoOverlay] ELSE overlay
  /\ control' = IF c.here THEN [control EXCEPT ![c.tab] = "shown"] ELSE control
  /\ Ends(c, {})
  /\ UNCHANGED <<script, loads, offscreen, hurried>>

------------------------------------------------------------------------------

StopClick(t) ==
  /\ control[t] = "shown"
  /\ control' = [control EXCEPT ![t] = "stopping"]
  /\ calls' = calls \cup {Call("stop", t, "stop")}
  /\ UserActs /\ UNCHANGED <<script, overlay, loads, state, offscreen>>

\* stopRecording gives up the recorder before the recorder has stopped.
StopRecorder(c) ==
  /\ c.kind = "stop" /\ c.at = "stop"
  /\ IF recorder = 0
     THEN Goes(c, "notify")
     ELSE Ends(c, {[c EXCEPT !.at = "flush", !.rec = recorder]})
  /\ recorder' = 0
  /\ UNCHANGED <<pages, state, started, live, chunks, held, content, hurried>>

\* The recorder's last chunk and its stop event come in one task.
Flush(c) ==
  /\ c.kind = "stop" /\ c.at = "flush"
  /\ chunks' = chunks \cup {c.rec}
  /\ content' = [content EXCEPT ![c.rec] = chunks']
  /\ held' = held \cup {c.rec} /\ live' = live \ {c.rec}
  /\ Goes(c, "notify")
  /\ UNCHANGED <<pages, state, started, recorder, hurried>>

\* handleRecordStop tells the tab that its memory names, and answers; the page that asked
\* removes its control, clears the state and asks for the context.
Known == memory
NobodyNotified == {}
Notified == IF Known.context # None /\ script[Known.tab] = "injected" THEN {Known.tab} ELSE {}
Clearing(c) ==
  IF c.here THEN {[c EXCEPT !.kind = "clear", !.at = "set"], [c EXCEPT !.kind = "restore", !.at = "get"]}
  ELSE {}
Notify(c) ==
  /\ c.kind = "stop" /\ c.at = "notify"
  /\ overlay' = [t \in Tabs |-> IF t \in Notified THEN Offering(c.rec) ELSE overlay[t]]
  /\ control' = IF c.here /\ control[c.tab] = "stopping" THEN [control EXCEPT ![c.tab] = "none"] ELSE control
  /\ calls' = {IF d.tab \in Notified THEN [d EXCEPT !.own = FALSE] ELSE d : d \in calls \ {c}}
              \cup Clearing(c)
  /\ UNCHANGED <<script, loads, state, offscreen, hurried>>

\* A faulty variant of Clear: the flag is not reset.
ClearContext(c) ==
  /\ c.kind = "clear"
  /\ StateSet(TRUE, None, c.tab)
  /\ Ends(c, {})
  /\ UNCHANGED <<pages, offscreen, hurried>>

\* setRecordingState(false, null).
Clear(c) ==
  /\ c.kind = "clear"
  /\ StateSet(FALSE, None, c.tab)
  /\ Ends(c, {})
  /\ UNCHANGED <<pages, offscreen, hurried>>

\* restoreOverlayFromRecording: the session storage overrides the memory.
Restore(c) ==
  /\ c.kind = "restore" /\ InOrder(c)
  /\ IF session.context # None /\ c.here
     THEN /\ overlay' = [overlay EXCEPT ![c.tab] = Offering(c.rec)]
          /\ calls' = Disowned(c.tab, calls \ {c}) \cup {[c EXCEPT !.kind = "clear", !.at = "set"]}
     ELSE Ends(c, {}) /\ UNCHANGED overlay
  /\ UNCHANGED <<script, control, loads, state, offscreen, hurried>>

\* initRecordingControl of a content script that was just injected.
InitControl(c) ==
  /\ c.kind = "init" /\ InOrder(c)
  /\ control' = IF session.active /\ c.here THEN [control EXCEPT ![c.tab] = "shown"] ELSE control
  /\ Ends(c, {})
  /\ UNCHANGED <<script, overlay, loads, state, offscreen, hurried>>

------------------------------------------------------------------------------

Handle(c) ==
  \/ GetStream(c) \/ StartCheck(c) \/ StartRecording(c) \/ MediaFails(c) \/ Mark(c)
  \/ StopRecorder(c) \/ Flush(c) \/ Notify(c) \/ Clear(c) \/ Restore(c) \/ InitControl(c)
User(t) ==
  \/ Capture(t) \/ CloseOverlay(t) \/ Navigate(t) \/ RecordClick(t) \/ StopClick(t)
RecordingStep ==
  \/ \E t \in Tabs : User(t) \/ Loaded(t)
  \/ \E c \in calls : Handle(c)
  \/ Restart
=============================================================================
