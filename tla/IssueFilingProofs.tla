-------------------------- MODULE IssueFilingProofs --------------------------
(***************************************************************************)
(* What the extension promises about recordings and issues holds for any   *)
(* tabs, navigations, restarts of the service worker and acts of a user in *)
(* a hurry: a finished recording is kept until an issue has it, and an     *)
(* issue that is shown as created has its snapshot and comment.  The       *)
(* inductive part is what a filing under way carries from one request to   *)
(* the next: the number of an issue that is there, is about the filing's   *)
(* recording, and has the snapshot once the filing is past it.  That the   *)
(* session and the recorder agree while the user waits for each answer     *)
(* rests on what is so at each point of the one handler in progress.       *)
(***************************************************************************)
EXTENDS IssueFiling, TLAPS

USE TabRecordingAssumption, IssueFilingAssumption

\* The steps of a filing whose issue has been created.
Filed == {"snapshot", "recording", "upload", "comment"}

\* A filing's issue is there, and has what the filing has put there.
Carries(c) ==
  /\ c.issue \in DOMAIN issues /\ issues[c.issue].rec = c.rec
  /\ c.at # "snapshot" /\ "snapshot" \in issues[c.issue].wants => "snapshot" \in issues[c.issue].has
CallOK(c) ==
  /\ c \in Calls /\ c.rec \in Recordings
  /\ c.kind = "file" /\ c.at \in Filed => Carries(c)

\* An overlay that says an issue was created shows one that is there.
Shows(o) ==
  o.status = "created" =>
    /\ o.issue \in DOMAIN issues
    /\ issues[o.issue].wants \ {"recording"} \subseteq issues[o.issue].has

Kept == \A r \in Recordings : content[r] # {} =>
  r \in held \/ \E i \in DOMAIN issues : issues[i].rec = r /\ "recording" \in issues[i].has

FilingInv ==
  /\ TypeOK
  /\ \A c \in calls : CallOK(c)
  /\ \A t \in Tabs : Shows(overlay[t])
  /\ Kept

LEMMA FilingInvInitial == Init => FilingInv
<1> SUFFICES ASSUME Init PROVE FilingInv
  OBVIOUS
<1>1. TypeOK
  <2>1. NoOverlay \in Overlays /\ NoState \in States
    BY DEF NoOverlay, NoState, Overlays, States, Recordings
  <2>2. started \in Seq(Tabs) /\ issues \in Seq(Issues)
    BY DEF Init, RecordingInit
  <2> QED
    BY <2>1, <2>2 DEF Init, RecordingInit, TypeOK, RecordingTypes, Recordings
<1>2. calls = {} /\ \A t \in Tabs : overlay[t].status = ""
  BY DEF Init, RecordingInit, NoOverlay
<1>3. Kept
  BY DEF Init, RecordingInit, Kept
<1> QED
  BY <1>1, <1>2, <1>3 DEF FilingInv, Shows

------------------------------------------------------------------------------
(* Calls. *)

\* A call that is only moved on by a step that files nothing is as it has to be.
LEMMA MovesOn ==
  ASSUME NEW c, CallOK(c), UNCHANGED issues,
         NEW at \in Points, NEW own \in BOOLEAN, NEW here \in BOOLEAN,
         c.kind = "file" => at = c.at
  PROVE  /\ CallOK([c EXCEPT !.own = own])'
         /\ CallOK([c EXCEPT !.own = own, !.here = here])'
         /\ CallOK([c EXCEPT !.at = at])'
         /\ CallOK(c)'
BY DEF CallOK, Calls, Carries

LEMMA FreshCalls ==
  ASSUME NEW t \in Tabs
  PROVE  /\ CallOK(Call("init", t, "get"))'
         /\ CallOK(Call("start", t, "stream"))'
         /\ CallOK(Call("stop", t, "stop"))'
<1>1. ASSUME NEW kind \in {"init", "start", "stop"}, NEW at \in Points
      PROVE  Call(kind, t, at) \in Calls
  BY DEF Calls, Call, Kinds
<1>2. ASSUME NEW kind \in {"init", "start", "stop"}, NEW at
      PROVE  Call(kind, t, at).rec \in Recordings /\ Call(kind, t, at).kind # "file"
  BY DEF Call, Recordings
<1>3. {"get", "stream", "stop"} \subseteq Points
  BY DEF Points
<1> QED
  BY <1>1, <1>2, <1>3 DEF CallOK

LEMMA CallsStillOK ==
  ASSUME FilingInv, UNCHANGED issues
  PROVE  \A c \in calls : CallOK(c)' /\ c \in Calls
BY DEF FilingInv, CallOK, Carries

\* The calls of a tab whose overlay or page goes.
LEMMA StillOK ==
  ASSUME UNCHANGED issues, NEW set, \A c \in set : CallOK(c), NEW t \in Tabs
  PROVE  /\ \A c \in set : CallOK(c)'
         /\ \A c \in Disowned(t, set) : CallOK(c)'
         /\ \A c \in Orphaned(t, set) : CallOK(c)'
<1>1. ASSUME NEW c \in set
      PROVE  /\ CallOK(c)' /\ CallOK([c EXCEPT !.own = FALSE])'
             /\ CallOK([c EXCEPT !.own = FALSE, !.here = FALSE])'
  BY <1>1, MovesOn DEF CallOK, Calls
<1> QED
  BY <1>1 DEF Disowned, Orphaned

------------------------------------------------------------------------------
(* The recording. *)

\* A step that files nothing, adds no "created" and gives no recording up.
LEMMA RecordingFrame ==
  ASSUME FilingInv, UNCHANGED issues, RecordingTypes',
         \A c \in calls' : CallOK(c)',
         \A t \in Tabs : overlay'[t].status = "created" => overlay'[t] = overlay[t],
         held \subseteq held',
         \A r \in Recordings : content'[r] # {} => content[r] # {} \/ r \in held'
  PROVE  FilingInv'
<1>1. \A t \in Tabs : Shows(overlay[t])'
  BY DEF FilingInv, Shows
<1>2. Kept'
  BY DEF FilingInv, Kept
<1> QED
  BY <1>1, <1>2 DEF FilingInv, TypeOK

LEMMA OverlaysTyped ==
  /\ NoOverlay \in Overlays /\ NoOverlay.status = ""
  /\ \A rec \in Recordings : Offering(rec) \in Overlays /\ Offering(rec).status = ""
  /\ 0 \in Recordings
BY DEF NoOverlay, Offering, Overlays, Recordings

LEMMA UserKeeps ==
  ASSUME FilingInv, NEW t \in Tabs, User(t), UNCHANGED issues
  PROVE  FilingInv'
<1> USE DEF FilingInv, TypeOK, RecordingTypes, Kinds
<1>u. UserActs => hurried' \in 0 .. MaxHurries
  BY DEF UserActs
<1>c. /\ \A c \in calls : CallOK(c)' /\ c \in Calls
      /\ \A c \in Disowned(t, calls) : CallOK(c)'
      /\ \A c \in Orphaned(t, calls) : CallOK(c)'
  BY StillOK DEF CallOK
<1>t. (\A c \in calls' : CallOK(c)') => \A c \in calls' : c \in Calls
  BY DEF CallOK
<1>1. CASE Capture(t)
  <2>1. \A c \in calls' : CallOK(c)'
    BY <1>1, <1>c, FreshCalls DEF Capture
  <2> QED
    BY <1>1, <1>u, <1>t, <2>1, OverlaysTyped, RecordingFrame DEF Capture, state, offscreen
<1>2. CASE CloseOverlay(t)
  <2>1. \A c \in calls' : CallOK(c)'
    BY <1>2, <1>c DEF CloseOverlay
  <2> QED
    BY <1>2, <1>u, <1>t, <2>1, OverlaysTyped, RecordingFrame DEF CloseOverlay, state, offscreen
<1>3. CASE Navigate(t)
  <2>1. \A c \in calls' : CallOK(c)'
    BY <1>3, <1>c DEF Navigate
  <2>2. /\ script' \in [Tabs -> {"none", "loading", "injected"}]
        /\ overlay' \in [Tabs -> Overlays] /\ control' \in [Tabs -> {"none", "shown", "stopping"}]
        /\ \A u \in Tabs : overlay'[u].status = "created" => overlay'[u] = overlay[u]
    BY <1>3, OverlaysTyped DEF Navigate
  <2>3. loads' \in 0 .. MaxLoads
    BY <1>3 DEF Navigate
  <2>4. RecordingTypes'
    BY <1>3, <1>u, <1>t, <2>1, <2>2, <2>3 DEF Navigate, state, offscreen
  <2> QED
    BY <1>3, <2>1, <2>2, <2>4, RecordingFrame DEF Navigate, state, offscreen
<1>4. CASE RecordClick(t)
  <2>1. \A c \in calls' : CallOK(c)'
    BY <1>4, <1>c, FreshCalls DEF RecordClick
  <2> QED
    BY <1>4, <1>u, <1>t, <2>1, RecordingFrame DEF RecordClick, pages, state, offscreen
<1>5. CASE StopClick(t)
  <2>1. \A c \in calls' : CallOK(c)'
    BY <1>5, <1>c, FreshCalls DEF StopClick
  <2> QED
    BY <1>5, <1>u, <1>t, <2>1, RecordingFrame DEF StopClick, state, offscreen
<1> QED
  BY <1>1, <1>2, <1>3, <1>4, <1>5 DEF User

LEMMA ChromeKeeps ==
  ASSUME FilingInv, UNCHANGED issues, Restart \/ \E t \in Tabs : Loaded(t)
  PROVE  FilingInv'
<1> USE DEF FilingInv, TypeOK, RecordingTypes, Kinds
<1>c. \A c \in calls : CallOK(c)' /\ c \in Calls
  BY CallsStillOK
<1>t. (\A c \in calls' : CallOK(c)') => \A c \in calls' : c \in Calls
  BY DEF CallOK
<1>1. CASE Restart
  BY <1>1, <1>c, RecordingFrame DEF Restart, pages, offscreen, NoState, States
<1>2. ASSUME NEW t \in Tabs, Loaded(t)
      PROVE  FilingInv'
  <2>1. \A c \in calls' : CallOK(c)'
    BY <1>2, <1>c, FreshCalls DEF Loaded
  <2> QED
    BY <1>2, <1>t, <2>1, RecordingFrame DEF Loaded, state, offscreen
<1> QED
  BY <1>1, <1>2
\* What becomes of a handler that files nothing.
LEMMA Moved ==
  ASSUME NEW c, CallOK(c), c.kind # "file",
         NEW kind \in Kinds \ {"file"}, NEW at \in Points, NEW rec \in Recordings
  PROVE  /\ CallOK([c EXCEPT !.at = at])'
         /\ CallOK([c EXCEPT !.kind = kind, !.at = at])'
         /\ CallOK([c EXCEPT !.at = at, !.rec = rec])'
<1>c. c \in Calls /\ c.rec \in Recordings
  BY DEF CallOK
<1>r. Recordings \subseteq Nat
  BY DEF Recordings
<1>1. ASSUME NEW d, d \in Calls, d.rec \in Recordings, d.kind # "file"
      PROVE  CallOK(d)'
  BY <1>1 DEF CallOK
<1>2. /\ [c EXCEPT !.at = at] \in Calls /\ [c EXCEPT !.at = at].rec = c.rec
      /\ [c EXCEPT !.at = at].kind = c.kind
  BY <1>c DEF Calls
<1>3. /\ [c EXCEPT !.kind = kind, !.at = at] \in Calls
      /\ [c EXCEPT !.kind = kind, !.at = at].rec = c.rec
      /\ [c EXCEPT !.kind = kind, !.at = at].kind = kind
  BY <1>c DEF Calls
<1>4. /\ [c EXCEPT !.at = at, !.rec = rec] \in Calls
      /\ [c EXCEPT !.at = at, !.rec = rec].rec = rec
      /\ [c EXCEPT !.at = at, !.rec = rec].kind = c.kind
  BY <1>c, <1>r DEF Calls
<1> QED
  BY <1>c, <1>1, <1>2, <1>3, <1>4

\* The handlers after a step that ends one and makes others in its place.
LEMMA EndsOK ==
  ASSUME FilingInv, UNCHANGED issues, NEW c, NEW more, Ends(c, more),
         \A d \in more : CallOK(d)'
  PROVE  \A d \in calls' : CallOK(d)' /\ d \in Calls
<1>1. \A d \in calls' : d \in calls \/ d \in more
  BY DEF Ends
<1>2. \A d \in calls' : CallOK(d)'
  BY <1>1, CallsStillOK
<1> QED
  BY <1>2 DEF CallOK

\* One handler in its place.
LEMMA EndsWithOne ==
  ASSUME FilingInv, UNCHANGED issues, NEW c, NEW d, Ends(c, {d}), CallOK(d)'
  PROVE  \A e \in calls' : CallOK(e)' /\ e \in Calls
BY EndsOK

LEMMA EndsForGood ==
  ASSUME FilingInv, UNCHANGED issues, NEW c, Ends(c, {})
  PROVE  \A e \in calls' : CallOK(e)' /\ e \in Calls
BY EndsOK

LEMMA HandleKeeps ==
  ASSUME FilingInv, NEW c \in calls, Handle(c), UNCHANGED issues
  PROVE  FilingInv'
<1> USE DEF FilingInv, TypeOK, RecordingTypes
<1>c. CallOK(c) /\ c.tab \in Tabs /\ c.kind \in Kinds /\ c.rec \in Recordings
      /\ c.here \in BOOLEAN /\ c.own \in BOOLEAN
  BY DEF CallOK, Calls
<1>p. {"stream", "check", "media", "set", "stop", "flush", "notify", "get"} \subseteq Points
      /\ {"mark", "clear", "restore"} \subseteq Kinds \ {"file"}
  BY DEF Points, Kinds
<1>m. ASSUME c.kind # "file"
      PROVE  /\ \A at \in {"check", "media", "flush", "notify"} : CallOK([c EXCEPT !.at = at])'
             /\ \A kind \in {"mark", "clear"} : CallOK([c EXCEPT !.kind = kind, !.at = "set"])'
             /\ CallOK([c EXCEPT !.kind = "restore", !.at = "get"])'
             /\ \A rec \in Recordings : CallOK([c EXCEPT !.at = "flush", !.rec = rec])'
  BY <1>c, <1>p, <1>m, Moved DEF Kinds
<1>s. ASSUME NEW active \in BOOLEAN, NEW context \in Tabs \cup {None}, StateSet(active, context, c.tab)
      PROVE  memory' \in States /\ session' \in States
  BY <1>c, <1>s DEF StateSet, States
<1>1. CASE GetStream(c)
  <2>1. \A d \in calls' : CallOK(d)' /\ d \in Calls
    BY <1>1, <1>m, EndsWithOne, EndsForGood DEF GetStream, Goes
  <2> QED
    BY <1>1, <2>1, RecordingFrame DEF GetStream, pages, state, offscreen
<1>2. CASE StartCheck(c)
  <2>1. \A d \in calls' : CallOK(d)' /\ d \in Calls
    BY <1>2, <1>m, EndsWithOne, EndsForGood DEF StartCheck, Goes
  <2> QED
    BY <1>2, <2>1, RecordingFrame DEF StartCheck, pages, state, offscreen
<1>3. CASE StartRecording(c)
  <2>1. \A d \in Marking(c) : CallOK(d)'
    BY <1>3, <1>m DEF StartRecording, Marking
  <2>2. \A d \in calls' : CallOK(d)' /\ d \in Calls
    BY <1>3, <2>1, EndsOK DEF StartRecording
  <2>3. /\ started' \in Seq(Tabs) /\ recorder' \in Recordings
        /\ live' \subseteq Recordings /\ chunks' \subseteq Recordings
    <3>1. Len(started) + 1 \in Recordings
      BY <1>3 DEF StartRecording, Recordings
    <3>2. /\ started' = Append(started, c.tab) /\ recorder' = Len(started) + 1
          /\ live' = live \cup {Len(started) + 1} /\ chunks' = {}
      BY <1>3 DEF StartRecording
    <3>3. started' \in Seq(Tabs)
      BY <1>c, <3>2
    <3> QED
      BY <3>1, <3>2, <3>3
  <2> QED
    BY <1>3, <2>2, <2>3, RecordingFrame DEF StartRecording, pages, state
<1>4. CASE MediaFails(c)
  <2>1. \A d \in calls' : CallOK(d)' /\ d \in Calls
    BY <1>4, EndsForGood DEF MediaFails
  <2> QED
    BY <1>4, <2>1, RecordingFrame DEF MediaFails, pages, state, offscreen
<1>5. CASE Mark(c)
  <2>1. \A d \in calls' : CallOK(d)' /\ d \in Calls
    BY <1>5, EndsForGood DEF Mark
  <2>2. memory' \in States /\ session' \in States
    BY <1>5, <1>c, <1>s DEF Mark
  <2>3. /\ overlay' \in [Tabs -> Overlays] /\ control' \in [Tabs -> {"none", "shown", "stopping"}]
        /\ \A u \in Tabs : overlay'[u].status = "created" => overlay'[u] = overlay[u]
    BY <1>5, <1>c, OverlaysTyped DEF Mark
  <2> QED
    BY <1>5, <2>1, <2>2, <2>3, RecordingFrame DEF Mark, offscreen
<1>6. CASE StopRecorder(c)
  <2>1. \A d \in calls' : CallOK(d)' /\ d \in Calls
    BY <1>6, <1>m, EndsWithOne DEF StopRecorder, Goes
  <2> QED
    BY <1>6, <2>1, OverlaysTyped, RecordingFrame DEF StopRecorder, pages, state
<1>7. CASE Flush(c)
  <2>1. \A d \in calls' : CallOK(d)' /\ d \in Calls
    BY <1>7, <1>m, EndsWithOne DEF Flush, Goes
  <2>2. /\ chunks' \subseteq Recordings /\ held' \subseteq Recordings /\ held \subseteq held'
        /\ live' \subseteq Recordings /\ content' \in [Recordings -> SUBSET Recordings]
        /\ \A r \in Recordings : content'[r] # {} => content[r] # {} \/ r \in held'
    BY <1>7, <1>c DEF Flush
  <2> QED
    BY <1>7, <2>1, <2>2, RecordingFrame DEF Flush, pages, state
<1>8. CASE Notify(c)
  <2>1. \A d \in Clearing(c) : CallOK(d)'
    BY <1>8, <1>m DEF Notify, Clearing
  <2>2. \A d \in calls : CallOK(d)' /\ CallOK([d EXCEPT !.own = FALSE])'
    <3>1. \A d \in calls : CallOK(d)
      OBVIOUS
    <3>2. ASSUME NEW d \in calls
          PROVE  CallOK([d EXCEPT !.own = FALSE])'
      <4>1. CallOK(d) /\ d.at \in Points /\ d.here \in BOOLEAN
        BY <3>1 DEF CallOK, Calls
      <4> QED
        BY <4>1, MovesOn
    <3> QED
      BY <3>1, <3>2, CallsStillOK
  <2>3. \A d \in calls' : CallOK(d)'
    BY <1>8, <2>1, <2>2 DEF Notify
  <2>4. \A d \in calls' : d \in Calls
    BY <2>3 DEF CallOK
  <2>5. /\ overlay' \in [Tabs -> Overlays] /\ control' \in [Tabs -> {"none", "shown", "stopping"}]
        /\ \A u \in Tabs : overlay'[u].status = "created" => overlay'[u] = overlay[u]
    BY <1>8, <1>c, OverlaysTyped DEF Notify
  <2> QED
    BY <1>8, <2>3, <2>4, <2>5, RecordingFrame DEF Notify, state, offscreen
<1>9. CASE Clear(c)
  <2>1. \A d \in calls' : CallOK(d)' /\ d \in Calls
    BY <1>9, EndsForGood DEF Clear
  <2>2. memory' \in States /\ session' \in States
    BY <1>9, <1>s DEF Clear
  <2> QED
    BY <1>9, <2>1, <2>2, RecordingFrame DEF Clear, pages, offscreen
<1>10. CASE Restore(c)
  <2>1. \A d \in calls' : CallOK(d)'
    <3>1. CASE session.context # None /\ c.here
      <4>1. \A d \in Disowned(c.tab, calls \ {c}) : CallOK(d)'
        BY <1>c, StillOK
      <4>2. CallOK([c EXCEPT !.kind = "clear", !.at = "set"])'
        BY <1>10, <1>m DEF Restore
      <4> QED
        BY <1>10, <3>1, <4>1, <4>2 DEF Restore
    <3>2. CASE ~(session.context # None /\ c.here)
      BY <1>10, <3>2, EndsForGood DEF Restore
    <3> QED
      BY <3>1, <3>2
  <2>2. \A d \in calls' : d \in Calls
    BY <2>1 DEF CallOK
  <2>3. /\ overlay' \in [Tabs -> Overlays]
        /\ \A u \in Tabs : overlay'[u].status = "created" => overlay'[u] = overlay[u]
    BY <1>10, <1>c, OverlaysTyped DEF Restore
  <2> QED
    BY <1>10, <2>1, <2>2, <2>3, RecordingFrame DEF Restore, state, offscreen
<1>11. CASE InitControl(c)
  <2>1. \A d \in calls' : CallOK(d)' /\ d \in Calls
    BY <1>11, EndsForGood DEF InitControl
  <2>2. control' \in [Tabs -> {"none", "shown", "stopping"}]
    BY <1>11 DEF InitControl
  <2> QED
    BY <1>11, <2>1, <2>2, RecordingFrame DEF InitControl, state, offscreen
<1> QED
  BY <1>1, <1>2, <1>3, <1>4, <1>5, <1>6, <1>7, <1>8, <1>9, <1>10, <1>11 DEF Handle
------------------------------------------------------------------------------
(* The filing. *)

\* Jira keeps its issues and what is attached to them.
IssuesGrow ==
  /\ DOMAIN issues \subseteq DOMAIN issues'
  /\ \A i \in DOMAIN issues : /\ issues'[i].rec = issues[i].rec
                             /\ issues'[i].wants = issues[i].wants
                             /\ issues[i].has \subseteq issues'[i].has

LEMMA UnchangedGrow == UNCHANGED issues => IssuesGrow
BY DEF IssuesGrow

LEMMA CreatedGrow ==
  ASSUME TypeOK, NEW issue \in Issues, issues' = Append(issues, issue)
  PROVE  /\ IssuesGrow /\ issues' \in Seq(Issues)
         /\ Len(issues') \in DOMAIN issues' /\ issues'[Len(issues')] = issue
<1>1. issues \in Seq(Issues)
  BY DEF TypeOK
<1>2. /\ issues' \in Seq(Issues) /\ Len(issues') = Len(issues) + 1
      /\ issues'[Len(issues) + 1] = issue
      /\ \A i \in 1 .. Len(issues) : issues'[i] = issues[i]
  BY <1>1
<1>3. DOMAIN issues = 1 .. Len(issues) /\ DOMAIN issues' = 1 .. Len(issues) + 1 /\ Len(issues) \in Nat
  BY <1>1, <1>2
<1> QED
  BY <1>2, <1>3 DEF IssuesGrow

LEMMA AddsGrow ==
  ASSUME TypeOK, NEW c, c.issue \in DOMAIN issues, NEW part \in Parts, Adds(c, part)
  PROVE  /\ IssuesGrow /\ issues' \in Seq(Issues)
         /\ part \in issues'[c.issue].has /\ DOMAIN issues' = DOMAIN issues
<1>1. issues \in Seq(Issues) /\ issues[c.issue] \in Issues
  BY DEF TypeOK
<1> DEFINE issue == [issues[c.issue] EXCEPT !.has = @ \cup {part}]
<1>2. /\ issue \in Issues /\ issue.rec = issues[c.issue].rec
      /\ issue.wants = issues[c.issue].wants /\ issue.has = issues[c.issue].has \cup {part}
  BY <1>1 DEF Issues
<1>3. issues' = [issues EXCEPT ![c.issue] = issue]
  BY DEF Adds
<1> HIDE DEF issue
<1>4. /\ issues' \in Seq(Issues) /\ DOMAIN issues' = DOMAIN issues
      /\ \A i \in DOMAIN issues : issues'[i] = IF i = c.issue THEN issue ELSE issues[i]
  BY <1>1, <1>2, <1>3
<1> QED
  BY <1>2, <1>4 DEF IssuesGrow

\* A step of a filing: it changes at most its own call, its overlay and one issue, and gives
\* up at most a recording that an issue has by then.
LEMMA FilingFrame ==
  ASSUME FilingInv, IssuesGrow, issues' \in Seq(Issues), Elsewhere, hurried' \in 0 .. MaxHurries,
         \A d \in calls' : CallOK(d)',
         overlay' \in [Tabs -> Overlays],
         \A t \in Tabs : overlay'[t].status = "created" => overlay'[t] = overlay[t] \/ Shows(overlay[t])',
         held' \subseteq held,
         \A r \in held \ held' : \E i \in DOMAIN issues' :
           issues'[i].rec = r /\ "recording" \in issues'[i].has
  PROVE  FilingInv'
<1>1. TypeOK'
  <2>1. \A d \in calls' : d \in Calls
    BY DEF CallOK
  <2> QED
    BY <2>1 DEF FilingInv, TypeOK, RecordingTypes, Elsewhere, state
<1>2. ASSUME NEW t \in Tabs
      PROVE  Shows(overlay[t])'
  BY DEF FilingInv, Shows, IssuesGrow
<1>3. Kept'
  BY DEF FilingInv, Kept, IssuesGrow, Elsewhere
<1> QED
  BY <1>1, <1>2, <1>3 DEF FilingInv

LEMMA OtherCalls ==
  ASSUME FilingInv, IssuesGrow, NEW c, NEW more, Ends(c, more),
         \A d \in more : CallOK(d)'
  PROVE  \A d \in calls' : CallOK(d)'
<1>1. \A d \in calls : CallOK(d)'
  BY DEF FilingInv, CallOK, Carries, IssuesGrow
<1> QED
  BY <1>1 DEF Ends
\* A filing's call that goes on.
LEMMA FilingMoves ==
  ASSUME NEW c, CallOK(c), c.kind = "file", NEW at \in Points,
         IssuesGrow,
         at \in Filed => /\ c.at \in Filed /\ at # "snapshot"
                       /\ \/ c.at # "snapshot"
                          \/ "snapshot" \in issues'[c.issue].wants
                               => "snapshot" \in issues'[c.issue].has
  PROVE  CallOK([c EXCEPT !.at = at])'
<1> DEFINE d == [c EXCEPT !.at = at]
<1>1. /\ d \in Calls /\ d.rec = c.rec /\ d.kind = "file" /\ d.at = at /\ d.issue = c.issue
      /\ c.rec \in Recordings
  BY DEF CallOK, Calls
<1> HIDE DEF d
<1>2. at \in Filed =>
        /\ c.issue \in DOMAIN issues' /\ issues'[c.issue].rec = c.rec
        /\ "snapshot" \in issues'[c.issue].wants => "snapshot" \in issues'[c.issue].has
  BY DEF CallOK, Carries, IssuesGrow
<1>3. CallOK(d)'
  BY <1>1, <1>2 DEF CallOK, Carries
<1> QED
  BY <1>3 DEF d

LEMMA FileClickKeeps ==
  ASSUME FilingInv, NEW t \in Tabs, FileClick(t)
  PROVE  FilingInv'
<1> PICK c : c = [Call("file", t, "create") EXCEPT !.rec = overlay[t].rec]
  OBVIOUS
<1>1. CallOK(c)'
  <2>1. overlay[t].rec \in Recordings /\ overlay[t].rec \in Nat
    <3>1. overlay[t] \in Overlays
      BY DEF FilingInv, TypeOK, RecordingTypes
    <3>2. overlay[t].rec \in Recordings
      BY <3>1 DEF Overlays
    <3> QED
      BY <3>2 DEF Recordings
  <2>2. c \in Calls /\ c.rec = overlay[t].rec /\ c.at = "create"
    BY <2>1 DEF Call, Calls, Kinds, Points
  <2> QED
    BY <2>1, <2>2 DEF CallOK, Filed
<1>2. calls' = calls \cup {c}
  BY DEF FileClick
<1>3. \A d \in calls' : CallOK(d)'
  BY <1>1, <1>2, CallsStillOK DEF FileClick
<1>4. overlay' \in [Tabs -> Overlays]
      /\ \A u \in Tabs : overlay'[u].status = "created" => overlay'[u] = overlay[u]
  <2> DEFINE creating == [overlay[t] EXCEPT !.status = "creating", !.issue = 0]
  <2>1. overlay \in [Tabs -> Overlays] /\ overlay' = [overlay EXCEPT ![t] = creating]
    BY DEF FileClick, FilingInv, TypeOK, RecordingTypes
  <2>2. creating \in Overlays /\ creating.status = "creating"
    BY <2>1 DEF Overlays
  <2> HIDE DEF creating
  <2> QED
    BY <2>1, <2>2
<1>5. hurried' \in 0 .. MaxHurries
  BY DEF FileClick, UserActs, FilingInv, TypeOK, RecordingTypes
<1> QED
  BY <1>3, <1>4, <1>5, UnchangedGrow, FilingFrame DEF FileClick, FilingInv, TypeOK

LEMMA FileKeeps ==
  ASSUME FilingInv, NEW c \in calls, File(c)
  PROVE  FilingInv'
<1>c. CallOK(c) /\ c.tab \in Tabs /\ c.issue \in Nat /\ c.rec \in Recordings /\ c \in Calls
  BY DEF FilingInv, CallOK, Calls
<1>p. {"createTask", "createStory", "recording", "upload", "comment", "rejected"} \subseteq Points
  BY DEF Points
<1>h. hurried \in 0 .. MaxHurries /\ issues \in Seq(Issues) /\ overlay \in [Tabs -> Overlays]
  BY DEF FilingInv, TypeOK, RecordingTypes
<1>a. ASSUME NEW status \in {"created", "failed"}, NEW issue \in Nat, Answer(c, status, issue)
      PROVE  /\ overlay' \in [Tabs -> Overlays]
             /\ \A t \in Tabs : overlay'[t] = overlay[t]
                  \/ (overlay'[t].status = status /\ overlay'[t].issue = issue)
             /\ Ends(c, {})
  <2> DEFINE answered == [overlay[c.tab] EXCEPT !.status = status, !.issue = issue]
  <2>1. overlay[c.tab] \in Overlays
    BY <1>c, <1>h
  <2>2. answered \in Overlays /\ answered.status = status /\ answered.issue = issue
    BY <2>1, <1>a DEF Overlays
  <2>3. overlay' = (IF c.own THEN [overlay EXCEPT ![c.tab] = answered] ELSE overlay) /\ Ends(c, {})
    BY <1>a, <1>c, <1>h DEF Answer
  <2> HIDE DEF answered
  <2> QED
    BY <1>c, <1>h, <2>2, <2>3
<1>f. ASSUME Answer(c, "failed", 0), UNCHANGED <<held, hurried, issues>>, Elsewhere
      PROVE  FilingInv'
  <2>1. \A d \in calls' : CallOK(d)'
    BY <1>a, <1>f, UnchangedGrow, OtherCalls
  <2> QED
    BY <1>a, <1>f, <1>h, <2>1, UnchangedGrow, FilingFrame
<1>g. ASSUME NEW at \in Points, Goes(c, at), UNCHANGED <<overlay, held, hurried, issues>>, Elsewhere,
             CallOK([c EXCEPT !.at = at])'
      PROVE  FilingInv'
  <2>1. \A d \in calls' : CallOK(d)'
    BY <1>g, UnchangedGrow, OtherCalls DEF Goes
  <2> QED
    BY <1>g, <1>h, <2>1, UnchangedGrow, FilingFrame
<1>1. CASE TypeRefused(c)
  <2>1. NextType[c.at] \in {"createTask", "createStory"} /\ c.kind = "file"
    BY <1>1 DEF TypeRefused, NextType
  <2>2. NextType[c.at] \in Points /\ NextType[c.at] \notin Filed
    BY <1>p, <2>1 DEF Filed
  <2>3. CallOK([c EXCEPT !.at = NextType[c.at]])'
    BY <1>1, <1>c, <2>1, <2>2, FilingMoves, UnchangedGrow DEF TypeRefused
  <2> QED
    BY <1>1, <1>g, <2>2, <2>3 DEF TypeRefused
<1>2. CASE CreateRefused(c)
  BY <1>2, <1>f DEF CreateRefused
<1>3. CASE CreateIssue(c)
  <2>1. PICK snapshot \in BOOLEAN :
          issues' = Append(issues, [wants |-> Wanted(c, snapshot), has |-> {}, rec |-> c.rec])
    BY <1>3 DEF CreateIssue
  <2> DEFINE issue == [wants |-> Wanted(c, snapshot), has |-> {}, rec |-> c.rec]
  <2> PICK d : d = [c EXCEPT !.at = "snapshot", !.issue = Len(issues')]
    OBVIOUS
  <2>2. issue \in Issues /\ issue.rec = c.rec
    BY <1>c DEF Issues, Wanted, Parts
  <2>3. issues' = Append(issues, issue)
    BY <2>1
  <2> HIDE DEF issue
  <2>4. /\ IssuesGrow /\ issues' \in Seq(Issues)
        /\ Len(issues') \in DOMAIN issues' /\ issues'[Len(issues')] = issue
    BY <2>2, <2>3, CreatedGrow DEF FilingInv
  <2>5. Len(issues') \in Nat
    BY <2>4
  <2>6. /\ d \in Calls /\ d.at = "snapshot" /\ d.issue = Len(issues') /\ d.rec = c.rec
    BY <1>c, <2>5 DEF Calls, Points
  <2>7. Ends(c, {d})
    BY <1>3 DEF CreateIssue
  <2>8. CallOK(d)'
    BY <1>c, <2>2, <2>4, <2>6 DEF CallOK, Carries
  <2>9. \A e \in calls' : CallOK(e)'
    BY <2>4, <2>7, <2>8, OtherCalls
  <2> QED
    BY <1>3, <1>h, <2>4, <2>9, FilingFrame DEF CreateIssue
<1>4. CASE AttachSnapshot(c)
  <2>1. c.kind = "file" /\ c.at = "snapshot" /\ c.issue \in DOMAIN issues
    BY <1>4, <1>c DEF AttachSnapshot, CallOK, Carries, Filed
  <2>2. CASE "snapshot" \in issues[c.issue].wants
    <3>1. Adds(c, "snapshot") /\ "snapshot" \in Parts
      BY <1>4, <2>2 DEF AttachSnapshot, Parts
    <3>2. IssuesGrow /\ issues' \in Seq(Issues) /\ "snapshot" \in issues'[c.issue].has
      BY <2>1, <3>1, AddsGrow DEF FilingInv
    <3>3. CallOK([c EXCEPT !.at = "recording"])'
      BY <1>c, <1>p, <2>1, <3>2, FilingMoves DEF Filed
    <3>4. \A d \in calls' : CallOK(d)'
      BY <1>4, <3>2, <3>3, OtherCalls DEF AttachSnapshot, Goes
    <3> QED
      BY <1>4, <1>h, <3>2, <3>4, FilingFrame DEF AttachSnapshot
  <2>3. CASE "snapshot" \notin issues[c.issue].wants
    <3>1. UNCHANGED issues
      BY <1>4, <2>3 DEF AttachSnapshot
    <3>2. CallOK([c EXCEPT !.at = "recording"])'
      BY <1>c, <1>p, <2>1, <2>3, <3>1, UnchangedGrow, FilingMoves DEF Filed
    <3> QED
      BY <1>4, <1>g, <1>p, <3>1, <3>2 DEF AttachSnapshot
  <2> QED
    BY <2>2, <2>3
<1>5. CASE RequestThrows(c)
  <2>1. CallOK([c EXCEPT !.at = "rejected"])'
    BY <1>5, <1>c, <1>p, UnchangedGrow, FilingMoves DEF RequestThrows, Filed
  <2> QED
    BY <1>5, <1>g, <1>p, <2>1 DEF RequestThrows
<1>6. CASE ChannelCloses(c)
  BY <1>6, <1>f DEF ChannelCloses
<1>7. CASE FindRecording(c)
  <2>1. PICK at \in {"upload", "comment"} : Goes(c, at)
    BY <1>7 DEF FindRecording
  <2>2. CallOK([c EXCEPT !.at = at])'
    BY <1>7, <1>c, <1>p, <2>1, UnchangedGrow, FilingMoves DEF FindRecording, Filed
  <2> QED
    BY <1>7, <1>g, <1>p, <2>1, <2>2 DEF FindRecording
<1>8. CASE AttachRecording(c)
  <2>1. c.kind = "file" /\ c.at = "upload" /\ c.issue \in DOMAIN issues /\ issues[c.issue].rec = c.rec
    BY <1>8, <1>c DEF AttachRecording, CallOK, Carries, Filed
  <2>2. Adds(c, "recording") /\ "recording" \in Parts
    BY <1>8 DEF AttachRecording, Parts
  <2>3. /\ IssuesGrow /\ issues' \in Seq(Issues) /\ "recording" \in issues'[c.issue].has
        /\ DOMAIN issues' = DOMAIN issues
    BY <2>1, <2>2, AddsGrow DEF FilingInv
  <2>4. issues'[c.issue].rec = c.rec
    BY <2>1, <2>3 DEF IssuesGrow
  <2>5. CallOK([c EXCEPT !.at = "comment"])'
    BY <1>c, <1>p, <2>1, <2>3, FilingMoves DEF Filed
  <2>6. \A d \in calls' : CallOK(d)'
    BY <1>8, <2>3, <2>5, OtherCalls DEF AttachRecording, Goes
  <2>7. \A r \in held \ held' : \E i \in DOMAIN issues' :
           issues'[i].rec = r /\ "recording" \in issues'[i].has
    BY <1>8, <2>1, <2>3, <2>4 DEF AttachRecording
  <2> QED
    BY <1>8, <1>h, <2>3, <2>6, <2>7, FilingFrame DEF AttachRecording
<1>9. CASE RecordingFails(c)
  <2>1. CallOK([c EXCEPT !.at = "comment"])'
    BY <1>9, <1>c, <1>p, UnchangedGrow, FilingMoves DEF RecordingFails, Filed
  <2> QED
    BY <1>9, <1>g, <1>p, <2>1 DEF RecordingFails
<1>10. CASE Comment(c)
  <2>1. /\ c.issue \in DOMAIN issues
        /\ "snapshot" \in issues[c.issue].wants => "snapshot" \in issues[c.issue].has
    BY <1>10, <1>c DEF Comment, CallOK, Carries, Filed
  <2>2. Adds(c, "comment") /\ "comment" \in Parts
    BY <1>10 DEF Comment, Parts
  <2>3. /\ IssuesGrow /\ issues' \in Seq(Issues) /\ "comment" \in issues'[c.issue].has
        /\ DOMAIN issues' = DOMAIN issues
    BY <2>1, <2>2, AddsGrow DEF FilingInv
  <2>4. issues'[c.issue].wants \ {"recording"} \subseteq issues'[c.issue].has
    <3>1. issues'[c.issue] \in Issues
      BY <2>1, <2>3
    <3>2. issues'[c.issue].wants \subseteq Parts
      BY <3>1 DEF Issues
    <3>3. "snapshot" \in issues'[c.issue].wants => "snapshot" \in issues'[c.issue].has
      BY <2>1, <2>3 DEF IssuesGrow
    <3> QED
      BY <2>3, <3>2, <3>3 DEF Parts
  <2>5. /\ overlay' \in [Tabs -> Overlays] /\ Ends(c, {})
        /\ \A t \in Tabs : overlay'[t] = overlay[t]
             \/ (overlay'[t].status = "created" /\ overlay'[t].issue = c.issue)
    BY <1>10, <1>a, <1>c DEF Comment
  <2>6. \A d \in calls' : CallOK(d)'
    BY <2>3, <2>5, OtherCalls
  <2>7. \A t \in Tabs : overlay'[t] = overlay[t] \/ Shows(overlay[t])'
    BY <2>1, <2>3, <2>4, <2>5 DEF Shows
  <2> QED
    BY <1>10, <1>h, <2>3, <2>5, <2>6, <2>7, FilingFrame DEF Comment
<1>11. CASE CommentFails(c)
  BY <1>11, <1>f DEF CommentFails
<1> QED
  BY <1>1, <1>2, <1>3, <1>4, <1>5, <1>6, <1>7, <1>8, <1>9, <1>10, <1>11 DEF File

LEMMA FilingInvStep == FilingInv /\ [Next]_vars => FilingInv'
<1> SUFFICES ASSUME FilingInv, [Next]_vars PROVE FilingInv'
  OBVIOUS
<1>1. CASE RecordingStep /\ UNCHANGED issues
  BY <1>1, UserKeeps, ChromeKeeps, HandleKeeps DEF RecordingStep
<1>2. ASSUME NEW t \in Tabs, FileClick(t)
      PROVE  FilingInv'
  BY <1>2, FileClickKeeps
<1>3. ASSUME NEW c \in calls, File(c)
      PROVE  FilingInv'
  BY <1>3, FileKeeps
<1>4. CASE UNCHANGED vars
  <2>1. UNCHANGED <<script, overlay, control, loads, calls, memory, session, started, recorder,
                    live, chunks, held, content, hurried, issues>>
    BY <1>4 DEF vars, recordingVars, pages, state, offscreen
  <2>2. \A c \in calls' : CallOK(c)'
    BY <2>1, CallsStillOK
  <2>3. RecordingTypes'
    BY <2>1 DEF FilingInv, TypeOK, RecordingTypes
  <2> QED
    BY <2>1, <2>2, <2>3, RecordingFrame
<1> QED
  BY <1>1, <1>2, <1>3, <1>4 DEF Next

THEOREM FilingInvariant == Spec => []FilingInv
BY FilingInvInitial, FilingInvStep, PTL DEF Spec

\* The state of pages, handlers, recorder and issues is well typed, for any tabs and bounds.
THEOREM FilingTypes == Spec => []TypeOK
<1>1. FilingInv => TypeOK
  BY DEF FilingInv
<1> QED
  BY FilingInvariant, <1>1, PTL

\* A finished recording stays in the offscreen document until an issue has it, whatever is
\* refused, closed, navigated away from or restarted (uploadRecording in offscreen.ts).
THEOREM RecordingsKept == Spec => []RecordingsAreKept
<1>1. FilingInv => RecordingsAreKept
  BY DEF FilingInv, Kept, RecordingsAreKept, Finished
<1> QED
  BY FilingInvariant, <1>1, PTL

\* An issue that an overlay shows as created has its snapshot and its comment
\* (handleJiraCreateIssue).
THEOREM CreatedComplete == Spec => []CreatedIsComplete
<1>1. FilingInv => CreatedIsComplete
  BY DEF FilingInv, Shows, CreatedIsComplete
<1> QED
  BY FilingInvariant, <1>1, PTL

------------------------------------------------------------------------------
(* The session and the recorder. *)

\* The handlers other than those of a page that has just been injected.
Busy == {c \in calls : c.kind # "init"}

Recording == recorder # 0 /\ live = {recorder} /\ chunks = {}
Silent == recorder = 0 /\ live = {}
Consistent == IF session.active THEN Recording ELSE Silent

\* What is so at the point that a handler has reached.
AtWork(c) ==
  /\ c.here
  /\ c.kind = "start" /\ c.at = "media" => ~session.active
  /\ c.kind = "mark" => Recording
  /\ c.kind = "stop" /\ c.at = "flush" =>
       recorder = 0 /\ c.rec # 0 /\ live = {c.rec} /\ chunks = {}
  /\ c.kind = "stop" /\ c.at = "notify" => Silent
  /\ c.kind \in {"clear", "restore"} => Silent

\* Until this handler ends the session may say what is no longer, or not yet, so.
Changing(c) ==
  \/ c.kind \in {"mark", "clear"}
  \/ c.kind = "stop" /\ c.at \in {"flush", "notify"}

Orderly ==
  /\ \A c \in Busy : AtWork(c)
  /\ \A c, d \in Busy : c = d \/ {c.kind, d.kind} \subseteq {"clear", "restore"}
  /\ (\A c \in Busy : ~Changing(c)) => Consistent
  /\ \A r \in Finished : content[r] = {r}

GhostInv == hurried = 0 => Orderly

LEMMA OrderlyInitial == Init => Orderly
BY DEF Init, RecordingInit, Orderly, Busy, Consistent, Silent, NoState, Finished

\* A handler that is none of a page's last two calls is the only one.
LEMMA Alone ==
  ASSUME Orderly, NEW c \in Busy, c.kind \notin {"clear", "restore"}
  PROVE  Busy = {c}
BY DEF Orderly

\* Nothing but init calls and one other is left.
LEMMA OneLeft ==
  ASSUME NEW n,
         \/ Busy' = {n} /\ AtWork(n)' /\ (Changing(n) \/ Consistent')
         \/ Busy' = {} /\ Consistent',
         \A r \in Finished' : content'[r] = {r}
  PROVE  Orderly'
<1>1. Changing(n)' <=> Changing(n)
  BY DEF Changing
<1> QED
  BY <1>1 DEF Orderly

Still == UNCHANGED <<session, recorder, live, chunks, content>>

LEMMA StillSame ==
  ASSUME Still
  PROVE  /\ Consistent' = Consistent /\ Silent' = Silent /\ Recording' = Recording
         /\ Finished' = Finished /\ content' = content
         /\ \A c : AtWork(c)' = AtWork(c)
BY DEF Still, Consistent, Silent, Recording, Finished, AtWork

\* The user acts while nothing is in progress.
LEMMA UserOrderly ==
  ASSUME Orderly, calls = {}, Still, NEW n, calls' \in {{}, {n}},
         n.here, n.kind \in {"init", "start", "stop", "file"}, n.at \notin {"media", "flush", "notify"}
  PROVE  Orderly'
<1>1. Busy = {} /\ Busy' \in {{}, {n}}
  BY DEF Busy
<1>2. Consistent'
  BY <1>1, StillSame DEF Orderly
<1>3. AtWork(n)' /\ ~Changing(n)
  BY DEF AtWork, Changing
<1>4. \A r \in Finished' : content'[r] = {r}
  BY StillSame DEF Orderly
<1> QED
  BY <1>1, <1>2, <1>3, <1>4, OneLeft

\* A page's init calls come and go.
LEMMA InitOrderly ==
  ASSUME Orderly, Still, Busy' = Busy
  PROVE  Orderly'
<1>1. \A c : Changing(c)' <=> Changing(c)
  BY DEF Changing
<1> QED
  BY <1>1, StillSame DEF Orderly

\* A handler goes on, or ends, without a change to session or recorder.
LEMMA GoesOrderly ==
  ASSUME Orderly, Still, NEW c \in Busy, c.kind \in {"start", "stop", "file"}, ~Changing(c),
         NEW n, calls' \in {calls \ {c}, (calls \ {c}) \cup {n}},
         n.here, n.kind = c.kind,
         n.kind = "start" /\ n.at = "media" => ~session.active,
         n.kind = "stop" => n.at = "notify" /\ Silent
  PROVE  Orderly'
<1>1. Busy = {c}
  BY Alone
<1>2. Busy' \in {{}, {n}}
  BY <1>1 DEF Busy
<1>3. Consistent'
  BY <1>1, StillSame DEF Orderly
<1>4. AtWork(n)'
  BY StillSame DEF AtWork
<1>5. \A r \in Finished' : content'[r] = {r}
  BY StillSame DEF Orderly
<1> QED
  BY <1>2, <1>3, <1>4, <1>5, OneLeft

LEMMA UserNoGhost ==
  ASSUME Orderly, calls = {}, NEW t \in Tabs, User(t) \/ FileClick(t)
  PROVE  Orderly'
<1> DEFINE Fresh(n) == /\ calls' \in {{}, {n}} /\ n.here
                       /\ n.kind \in {"init", "start", "stop", "file"}
                       /\ n.at \notin {"media", "flush", "notify"}
<1>1. Disowned(t, calls) = {} /\ Orphaned(t, calls) = {}
  BY DEF Disowned, Orphaned
<1>2. Still
  BY DEF Still, User, Capture, CloseOverlay, Navigate, RecordClick, StopClick, FileClick,
         Elsewhere, state, offscreen
<1>3. \E n : Fresh(n)
  <2>1. CASE Capture(t)
    <3>1. Fresh(Call("init", t, "get"))
      BY <1>1, <2>1 DEF Capture, Call
    <3> QED
      BY <3>1
  <2>2. CASE CloseOverlay(t) \/ Navigate(t)
    <3>1. calls' = {}
      BY <1>1, <2>2 DEF CloseOverlay, Navigate
    <3>2. Fresh(Call("init", t, "get"))
      BY <3>1 DEF Call
    <3> QED
      BY <3>2
  <2>3. CASE RecordClick(t)
    <3>1. Fresh(Call("start", t, "stream"))
      BY <2>3 DEF RecordClick, Call
    <3> QED
      BY <3>1
  <2>4. CASE StopClick(t)
    <3>1. Fresh(Call("stop", t, "stop"))
      BY <2>4 DEF StopClick, Call
    <3> QED
      BY <3>1
  <2>5. CASE FileClick(t)
    <3>1. Fresh([Call("file", t, "create") EXCEPT !.rec = overlay[t].rec])
      BY <2>5 DEF FileClick, Call
    <3> QED
      BY <3>1
  <2> QED
    BY <2>1, <2>2, <2>3, <2>4, <2>5 DEF User
<1> QED
  BY <1>2, <1>3, UserOrderly

LEMMA FileNoGhost ==
  ASSUME FilingInv, Orderly, NEW c \in calls, File(c)
  PROVE  Orderly'
<1>1. c \in Calls /\ c.kind = "file"
  BY DEF FilingInv, CallOK, File, TypeRefused, CreateRefused, CreateIssue, AttachSnapshot,
         RequestThrows, ChannelCloses, FindRecording, AttachRecording, RecordingFails, Comment,
         CommentFails
<1>2. c \in Busy /\ ~Changing(c)
  BY <1>1 DEF Busy, Changing
<1>3. Still
  BY DEF Still, File, TypeRefused, CreateRefused, CreateIssue, AttachSnapshot,
         RequestThrows, ChannelCloses, FindRecording, AttachRecording, RecordingFails, Comment,
         CommentFails, Elsewhere, state
<1>4. c.here
  BY <1>2 DEF Orderly, AtWork
<1> DEFINE Onward(n) == n.here /\ n.kind = "file" /\ calls' \in {calls \ {c}, (calls \ {c}) \cup {n}}
<1>5. \E n : Onward(n)
  <2>1. CASE \E at : Goes(c, at)
    <3>1. PICK at : Goes(c, at)
      BY <2>1
    <3>2. Onward([c EXCEPT !.at = at])
      BY <1>1, <1>4, <3>1 DEF Goes, Ends, Calls
    <3> QED
      BY <3>2
  <2>2. CASE Ends(c, {})
    <3>1. Onward(c)
      BY <1>1, <1>4, <2>2 DEF Ends
    <3> QED
      BY <3>1
  <2>3. CASE CreateIssue(c)
    <3>1. Onward([c EXCEPT !.at = "snapshot", !.issue = Len(issues')])
      BY <1>1, <1>4, <2>3 DEF CreateIssue, Ends, Calls
    <3> QED
      BY <3>1
  <2> QED
    BY <2>1, <2>2, <2>3 DEF File, TypeRefused, CreateRefused, AttachSnapshot,
         RequestThrows, ChannelCloses, FindRecording, AttachRecording, RecordingFails, Comment,
         CommentFails, Answer
<1> QED
  BY <1>1, <1>2, <1>3, <1>5, GoesOrderly

LEMMA StartNoGhost ==
  ASSUME FilingInv, Orderly, NEW c \in calls,
         GetStream(c) \/ StartCheck(c) \/ StartRecording(c) \/ MediaFails(c)
  PROVE  Orderly'
<1>1. c \in Calls /\ c.kind = "start"
  BY DEF FilingInv, CallOK, GetStream, StartCheck, StartRecording, MediaFails
<1>2. c \in Busy /\ ~Changing(c)
  BY <1>1 DEF Busy, Changing
<1>3. Busy = {c} /\ AtWork(c) /\ c.here /\ Consistent
  BY <1>1, <1>2, Alone DEF Orderly, AtWork
<1>4. CASE GetStream(c) \/ StartCheck(c) \/ MediaFails(c)
  <2>1. Still
    BY <1>4 DEF Still, GetStream, StartCheck, MediaFails, state, offscreen
  <2>2. CASE Ends(c, {})
    BY <1>1, <1>2, <1>3, <2>1, <2>2, GoesOrderly DEF Ends, AtWork
  <2>3. CASE GetStream(c) /\ Goes(c, "check")
    <3> DEFINE n == [c EXCEPT !.at = "check"]
    <3>1. n.here /\ n.kind = "start" /\ n.at = "check" /\ calls' = (calls \ {c}) \cup {n}
      BY <1>1, <1>3, <2>3 DEF Goes, Ends, Calls
    <3> HIDE DEF n
    <3> QED
      BY <1>1, <1>2, <2>1, <3>1, GoesOrderly
  <2>4. CASE StartCheck(c) /\ ~AlreadyRecording
    <3> DEFINE n == [c EXCEPT !.at = "media"]
    <3>1. n.here /\ n.kind = "start" /\ calls' = (calls \ {c}) \cup {n}
      BY <1>1, <1>3, <2>4 DEF StartCheck, Goes, Ends, Calls
    <3>2. ~session.active
      BY <1>3, <2>4 DEF AlreadyRecording, Consistent, Recording
    <3> HIDE DEF n
    <3> QED
      BY <1>1, <1>2, <2>1, <3>1, <3>2, GoesOrderly
  <2> QED
    BY <1>4, <2>2, <2>3, <2>4 DEF GetStream, StartCheck, MediaFails
<1>5. CASE StartRecording(c)
  <2> DEFINE n == [c EXCEPT !.kind = "mark", !.at = "set"]
  <2>1. n.here /\ n.kind = "mark" /\ calls' = (calls \ {c}) \cup {n}
    BY <1>1, <1>3, <1>5 DEF StartRecording, Ends, Marking, Calls
  <2>2. Silent
    BY <1>1, <1>3, <1>5 DEF AtWork, Consistent, StartRecording
  <2>3. recorder' # 0 /\ live' = {recorder'} /\ chunks' = {} /\ content' = content
    <3>1. Len(started) + 1 # 0
      BY DEF FilingInv, TypeOK, RecordingTypes
    <3> QED
      BY <1>5, <2>2, <3>1 DEF StartRecording, Silent
  <2> HIDE DEF n
  <2>4. Busy' = {n}
    BY <1>3, <2>1 DEF Busy
  <2>5. AtWork(n)' /\ Changing(n)
    BY <2>1, <2>3 DEF AtWork, Recording, Changing
  <2>6. \A r \in Finished' : content'[r] = {r}
    BY <2>3 DEF Orderly, Finished
  <2> QED
    BY <2>4, <2>5, <2>6, OneLeft
<1> QED
  BY <1>4, <1>5

LEMMA StopNoGhost ==
  ASSUME FilingInv, Orderly, NEW c \in calls, StopRecorder(c) \/ Flush(c) \/ Notify(c)
  PROVE  Orderly'
<1>1. c \in Calls /\ c.kind = "stop"
  BY DEF FilingInv, CallOK, StopRecorder, Flush, Notify
<1>2. Busy = {c} /\ AtWork(c) /\ c.here
  BY <1>1, Alone DEF Orderly, AtWork, Busy
<1>3. \A r \in Finished : content[r] = {r}
  BY DEF Orderly
<1>4. CASE StopRecorder(c)
  <2>1. Consistent /\ c.at = "stop"
    BY <1>1, <1>2, <1>4 DEF Orderly, Changing, StopRecorder
  <2>2. content' = content /\ live' = live /\ chunks' = chunks /\ recorder' = 0 /\ session' = session
    BY <1>4 DEF StopRecorder, state
  <2>3. \A r \in Finished' : content'[r] = {r}
    BY <1>3, <2>2 DEF Finished
  <2>4. CASE recorder = 0
    <3> DEFINE n == [c EXCEPT !.at = "notify"]
    <3>1. n.here /\ n.kind = "stop" /\ n.at = "notify" /\ calls' = (calls \ {c}) \cup {n}
      BY <1>1, <1>2, <1>4, <2>4 DEF StopRecorder, Goes, Ends, Calls
    <3>2. Silent'
      BY <2>1, <2>2, <2>4 DEF Consistent, Silent, Recording
    <3> HIDE DEF n
    <3>3. Busy' = {n} /\ AtWork(n)' /\ Changing(n)
      BY <1>2, <3>1, <3>2 DEF Busy, AtWork, Changing
    <3> QED
      BY <2>3, <3>3, OneLeft
  <2>5. CASE recorder # 0
    <3>0. PICK rec : rec = recorder
      OBVIOUS
    <3> DEFINE n == [c EXCEPT !.at = "flush", !.rec = rec]
    <3>1. /\ n.here /\ n.kind = "stop" /\ n.at = "flush" /\ n.rec = recorder
          /\ calls' = (calls \ {c}) \cup {n}
      BY <1>1, <1>2, <1>4, <2>5, <3>0 DEF StopRecorder, Ends, Calls
    <3>2. Recording
      BY <2>1, <2>5 DEF Consistent, Silent
    <3> HIDE DEF n
    <3>3. Busy' = {n} /\ AtWork(n)' /\ Changing(n)
      BY <1>2, <2>2, <2>5, <3>1, <3>2 DEF Busy, AtWork, Changing, Recording
    <3> QED
      BY <2>3, <3>3, OneLeft
  <2> QED
    BY <2>4, <2>5
<1>5. CASE Flush(c)
  <2> DEFINE n == [c EXCEPT !.at = "notify"]
  <2>1. n.here /\ n.kind = "stop" /\ n.at = "notify" /\ calls' = (calls \ {c}) \cup {n}
    BY <1>1, <1>2, <1>5 DEF Flush, Goes, Ends, Calls
  <2>2. recorder = 0 /\ live = {c.rec} /\ chunks = {}
    BY <1>1, <1>2, <1>5 DEF AtWork, Flush
  <2>3. Silent'
    BY <1>5, <2>2 DEF Flush, Silent
  <2>4. content' = [content EXCEPT ![c.rec] = {c.rec}]
    BY <1>5, <2>2 DEF Flush
  <2>5. c.rec \in Recordings /\ content \in [Recordings -> SUBSET Recordings]
    BY DEF FilingInv, CallOK, TypeOK, RecordingTypes
  <2>6. \A r \in Finished' : content'[r] = {r}
    BY <1>3, <2>4, <2>5 DEF Finished
  <2> HIDE DEF n
  <2>7. Busy' = {n} /\ AtWork(n)' /\ Changing(n)
    BY <1>2, <2>1, <2>3 DEF Busy, AtWork, Changing
  <2> QED
    BY <2>6, <2>7, OneLeft
<1>6. CASE Notify(c)
  <2> DEFINE clear == [c EXCEPT !.kind = "clear", !.at = "set"]
             restore == [c EXCEPT !.kind = "restore", !.at = "get"]
  <2>1. Still /\ Silent
    BY <1>1, <1>2, <1>6 DEF Notify, AtWork, Still, state, offscreen
  <2>2. /\ clear.here /\ clear.kind = "clear" /\ restore.here /\ restore.kind = "restore"
        /\ Clearing(c) = {clear, restore}
    BY <1>1, <1>2 DEF Clearing, Calls
  <2>3. \A d \in calls \ {c} : d.kind = "init" /\ [d EXCEPT !.own = FALSE].kind = "init"
    BY <1>2 DEF Busy, FilingInv, CallOK, Calls
  <2> HIDE DEF clear, restore
  <2>4. Busy' = {clear, restore}
    <3> DEFINE Rest == {IF d.tab \in Notified THEN [d EXCEPT !.own = FALSE] ELSE d : d \in calls \ {c}}
    <3>1. \A d \in Rest : d.kind = "init"
      BY <2>3
    <3>2. calls' = Rest \cup {clear, restore}
      BY <1>6, <2>2 DEF Notify
    <3> HIDE DEF Rest
    <3> QED
      BY <2>2, <3>1, <3>2 DEF Busy
  <2>5. AtWork(clear)' /\ AtWork(restore)' /\ Changing(clear)'
    BY <2>1, <2>2, StillSame DEF AtWork, Changing
  <2>6. \A r \in Finished' : content'[r] = {r}
    BY <1>3, <2>1, StillSame
  <2>7. \A d, e \in Busy' : {d.kind, e.kind} \subseteq {"clear", "restore"}
    BY <2>2, <2>4
  <2> QED
    BY <2>4, <2>5, <2>6, <2>7 DEF Orderly
<1> QED
  BY <1>4, <1>5, <1>6

LEMMA MarkNoGhost ==
  ASSUME FilingInv, Orderly, NEW c \in calls, Mark(c)
  PROVE  Orderly'
<1>1. c.kind = "mark"
  BY DEF Mark
<1>2. Busy = {c} /\ Recording
  BY <1>1, Alone DEF Busy, Orderly, AtWork
<1>3. session'.active /\ UNCHANGED <<recorder, live, chunks, content>> /\ calls' = calls \ {c}
  BY DEF Mark, StateSet, Ends, offscreen
<1>4. Busy' = {} /\ Consistent'
  BY <1>2, <1>3 DEF Busy, Consistent, Recording
<1>5. \A r \in Finished' : content'[r] = {r}
  BY <1>3 DEF Orderly, Finished
<1> QED
  BY <1>4, <1>5, OneLeft

LEMMA ClearNoGhost ==
  ASSUME FilingInv, Orderly, NEW c \in calls, Clear(c) \/ Restore(c)
  PROVE  Orderly'
<1>1. c \in Calls /\ c.kind \in {"clear", "restore"} /\ c \in Busy
  BY DEF Clear, Restore, FilingInv, CallOK, Busy
<1>2. Silent /\ c.here /\ \A d \in Busy : d.kind \in {"clear", "restore"} /\ d.here
  BY <1>1 DEF Orderly, AtWork
<1>3. UNCHANGED <<recorder, live, chunks, content>>
  BY DEF Clear, Restore, offscreen
<1>4. Silent' /\ \A r \in Finished' : content'[r] = {r}
  BY <1>2, <1>3 DEF Silent, Orderly, Finished
<1> DEFINE Last(set) == \A d \in set : d.kind \in {"clear", "restore"} /\ d.here
<1>5. ASSUME Last(Busy'), (\A d \in Busy' : d.kind # "clear") => Consistent'
      PROVE  Orderly'
  <2>1. \A d \in Busy' : AtWork(d)'
    BY <1>4, <1>5 DEF AtWork
  <2>2. \A d \in Busy' : Changing(d)' <=> d.kind = "clear"
    BY <1>5 DEF Changing
  <2> QED
    BY <1>4, <1>5, <2>1, <2>2 DEF Orderly
<1>6. CASE Clear(c)
  <2>1. Busy' = Busy \ {c} /\ ~session'.active
    BY <1>6 DEF Clear, StateSet, Ends, Busy
  <2> QED
    BY <1>2, <1>4, <1>5, <2>1 DEF Consistent
<1>7. CASE Restore(c) /\ Ends(c, {})
  <2>1. Busy' = Busy \ {c} /\ session' = session /\ c.kind = "restore"
    BY <1>7 DEF Restore, Ends, Busy, state
  <2>2. (\A d \in Busy' : d.kind # "clear") => Consistent
    BY <1>2, <2>1 DEF Orderly, Changing
  <2>3. Consistent' = Consistent
    BY <1>3, <2>1 DEF Consistent, Recording, Silent
  <2> QED
    BY <1>2, <1>5, <2>1, <2>2, <2>3
<1>8. CASE Restore(c) /\ ~Ends(c, {})
  <2> DEFINE clear == [c EXCEPT !.kind = "clear", !.at = "set"]
  <2>1. calls' = Disowned(c.tab, calls \ {c}) \cup {clear}
    BY <1>8 DEF Restore
  <2>2. clear.kind = "clear" /\ clear.here
    BY <1>1, <1>2 DEF Calls
  <2>3. ASSUME NEW d \in calls \ {c}
        PROVE  LET e == IF d.tab = c.tab THEN [d EXCEPT !.own = FALSE] ELSE d
               IN  e.kind = d.kind /\ e.here = d.here
    BY DEF FilingInv, CallOK, Calls
  <2> HIDE DEF clear
  <2>4. Last(Busy') /\ clear \in Busy'
    BY <1>2, <2>1, <2>2, <2>3 DEF Busy, Disowned
  <2> QED
    BY <1>5, <2>2, <2>4
<1> QED
  BY <1>6, <1>7, <1>8

LEMMA GhostStep ==
  ASSUME FilingInv, GhostInv, [Next]_vars
  PROVE  GhostInv'
<1> SUFFICES ASSUME hurried' = 0 PROVE Orderly'
  BY DEF GhostInv
<1>1. ASSUME NEW t \in Tabs, User(t) \/ FileClick(t)
      PROVE  Orderly'
  <2>1. UserActs
    BY <1>1 DEF User, Capture, CloseOverlay, Navigate, RecordClick, StopClick, FileClick
  <2>2. calls = {} /\ hurried = 0
    BY <2>1 DEF UserActs, FilingInv, TypeOK, RecordingTypes
  <2> QED
    BY <1>1, <2>2, UserNoGhost DEF GhostInv
<1>2. ASSUME NEW t \in Tabs, Loaded(t)
      PROVE  Orderly'
  <2>1. Orderly /\ Still
    BY <1>2 DEF GhostInv, Loaded, Still, state, offscreen
  <2>2. Busy' = Busy
    BY <1>2 DEF Loaded, Busy, Call
  <2> QED
    BY <2>1, <2>2, InitOrderly
<1>3. ASSUME NEW c \in calls, Handle(c)
      PROVE  Orderly'
  <2>1. Orderly
    BY <1>3 DEF GhostInv, Handle, GetStream, StartCheck, StartRecording, MediaFails, Mark,
                StopRecorder, Flush, Notify, Clear, Restore, InitControl
  <2>2. CASE InitControl(c)
    <3>1. Still /\ Busy' = Busy
      BY <2>2 DEF InitControl, Still, Ends, Busy, state, offscreen
    <3> QED
      BY <2>1, <3>1, InitOrderly
  <2> QED
    BY <1>3, <2>1, <2>2, StartNoGhost, StopNoGhost, MarkNoGhost, ClearNoGhost DEF Handle
<1>4. ASSUME Restart
      PROVE  Orderly'
  <2>1. Orderly /\ Still /\ Busy' = Busy
    BY <1>4 DEF GhostInv, Restart, Still, Busy, offscreen
  <2> QED
    BY <2>1, InitOrderly
<1>5. ASSUME NEW c \in calls, File(c)
      PROVE  Orderly'
  <2>1. Orderly
    BY <1>5 DEF GhostInv, File, TypeRefused, CreateRefused, CreateIssue, AttachSnapshot,
         RequestThrows, ChannelCloses, FindRecording, AttachRecording, RecordingFails, Comment,
         CommentFails
  <2> QED
    BY <1>5, <2>1, FileNoGhost
<1>6. CASE UNCHANGED vars
  <2>1. Orderly /\ Still /\ Busy' = Busy
    BY <1>6 DEF GhostInv, Still, Busy, vars, recordingVars, state, offscreen
  <2> QED
    BY <2>1, InitOrderly
<1> QED
  BY <1>1, <1>2, <1>3, <1>4, <1>5, <1>6 DEF Next, RecordingStep

\* As long as the user waits for each answer, no recording goes on that the session does
\* not know of, none is announced that does not run, and no recording has another's data:
\* for any tabs, navigations, restarts of the service worker and failing requests.
THEOREM NoGhostRecording == Spec => []NoGhost
<1>1. Init => GhostInv
  BY OrderlyInitial DEF GhostInv
<1>2. FilingInv /\ GhostInv => NoGhost
  <2>1. ASSUME Orderly, calls = {}
        PROVE  /\ session.active <=> recorder # 0
               /\ live = (IF recorder = 0 THEN {} ELSE {recorder})
               /\ \A r \in Finished : content[r] = {r}
    BY <2>1 DEF Orderly, Busy, Consistent, Recording, Silent
  <2> QED
    BY <2>1 DEF GhostInv, NoGhost, Waited
<1> QED
  BY FilingInvariant, GhostStep, <1>1, <1>2, PTL DEF Spec
==============================================================================
