---------------------------- MODULE IssueFiling ----------------------------
(***************************************************************************)
(* The overlay's "Create Jira Ticket" on top of TabRecording: the handler  *)
(* in the service worker makes one request to Jira after the other         *)
(* (handleJiraCreateIssue) and lets the offscreen document upload the      *)
(* recording (uploadRecording).                                            *)
(***************************************************************************)
EXTENDS TabRecording

CONSTANT MaxIssues   \* bound on the issues created

ASSUME IssueFilingAssumption == MaxIssues \in Nat

VARIABLE issues      \* the issues created: what each was to carry, and what it carries

vars == <<recordingVars, issues>>

Parts == {"snapshot", "recording", "comment"}
Issues == [wants : SUBSET Parts, has : SUBSET Parts, rec : Recordings]

TypeOK == RecordingTypes /\ issues \in Seq(Issues)

Init == RecordingInit /\ issues = <<>>

------------------------------------------------------------------------------

Elsewhere == UNCHANGED <<script, control, loads, state, started, recorder, live, chunks, content>>

\* The response reaches the overlay that asked, unless it is gone.
Answer(c, status, issue) ==
  /\ overlay' = IF c.own
                THEN [overlay EXCEPT ![c.tab].status = status, ![c.tab].issue = issue]
                ELSE overlay
  /\ Ends(c, {})

\* The overlay's recording goes with the message.
FileClick(t) ==
  /\ overlay[t].shown /\ overlay[t].status # "creating" /\ Len(issues) < MaxIssues
  /\ overlay' = [overlay EXCEPT ![t].status = "creating", ![t].issue = 0]
  /\ calls' = calls \cup {[Call("file", t, "create") EXCEPT !.rec = overlay[t].rec]}
  /\ UserActs /\ Elsewhere /\ UNCHANGED <<held, issues>>

\* An issue type that the project lacks is tried once more with the next candidate.
NextType == [create |-> "createTask", createTask |-> "createStory"]
Creating == {"create", "createTask", "createStory"}
TypeRefused(c) ==
  /\ c.kind = "file" /\ c.at \in DOMAIN NextType
  /\ Goes(c, NextType[c.at])
  /\ Elsewhere /\ UNCHANGED <<overlay, held, hurried, issues>>

\* A faulty variant of CreateRefused: the page gets no answer.
RefuseSilently(c) ==
  /\ c.kind = "file" /\ c.at \in Creating
  /\ Ends(c, {})
  /\ Elsewhere /\ UNCHANGED <<overlay, held, hurried, issues>>

CreateRefused(c) ==
  /\ c.kind = "file" /\ c.at \in Creating
  /\ Answer(c, "failed", 0)
  /\ Elsewhere /\ UNCHANGED <<held, hurried, issues>>

Wanted(c, snapshot) ==
  {"comment"} \cup (IF snapshot THEN {"snapshot"} ELSE {})
              \cup (IF c.rec # 0 THEN {"recording"} ELSE {})
CreateIssue(c) ==
  /\ c.kind = "file" /\ c.at \in Creating /\ Len(issues) < MaxIssues
  /\ \E snapshot \in BOOLEAN :
       issues' = Append(issues, [wants |-> Wanted(c, snapshot), has |-> {}, rec |-> c.rec])
  /\ Ends(c, {[c EXCEPT !.at = "snapshot", !.issue = Len(issues')]})
  /\ Elsewhere /\ UNCHANGED <<overlay, held, hurried>>

Adds(c, part) == issues' = [issues EXCEPT ![c.issue].has = @ \cup {part}]

AttachSnapshot(c) ==
  /\ c.kind = "file" /\ c.at = "snapshot"
  /\ IF "snapshot" \in issues[c.issue].wants THEN Adds(c, "snapshot") ELSE UNCHANGED issues
  /\ Goes(c, "recording")
  /\ Elsewhere /\ UNCHANGED <<overlay, held, hurried>>

\* A faulty variant of RequestThrows: a refused snapshot does not stop the handler.
SnapshotIgnored(c) ==
  /\ c.kind = "file" /\ c.at = "snapshot"
  /\ Goes(c, "recording")
  /\ Elsewhere /\ UNCHANGED <<overlay, held, hurried, issues>>

\* A request that cannot be sent, or a refused attachment, throws: the handler has
\* ended without an answer.
RequestThrows(c) ==
  /\ c.kind = "file" /\ c.at \in Creating \cup {"snapshot", "comment"}
  /\ c.at = "snapshot" => "snapshot" \in issues[c.issue].wants
  /\ Goes(c, "rejected")
  /\ Elsewhere /\ UNCHANGED <<overlay, held, hurried, issues>>

\* Until Chrome closes the message channel.
ChannelCloses(c) ==
  /\ c.kind = "file" /\ c.at = "rejected"
  /\ Answer(c, "failed", 0)
  /\ Elsewhere /\ UNCHANGED <<held, hurried, issues>>

\* uploadRecording looks the recording up and sends it.
FindRecording(c) ==
  /\ c.kind = "file" /\ c.at = "recording"
  /\ Goes(c, IF c.rec \in held THEN "upload" ELSE "comment")
  /\ Elsewhere /\ UNCHANGED <<overlay, held, hurried, issues>>

\* It gives the recording up once Jira has it.
AttachRecording(c) ==
  /\ c.kind = "file" /\ c.at = "upload"
  /\ Adds(c, "recording") /\ held' = held \ {c.rec}
  /\ Goes(c, "comment")
  /\ Elsewhere /\ UNCHANGED <<overlay, hurried>>

\* A faulty variant of RecordingFails: the recording is gone before the answer is read.
FailAndDrop(c) ==
  /\ c.kind = "file" /\ c.at = "upload"
  /\ held' = held \ {c.rec} /\ Goes(c, "comment")
  /\ Elsewhere /\ UNCHANGED <<overlay, hurried, issues>>

\* That the upload failed is an answer that handleJiraCreateIssue does not look at.
RecordingFails(c) ==
  /\ c.kind = "file" /\ c.at = "upload"
  /\ Goes(c, "comment")
  /\ Elsewhere /\ UNCHANGED <<overlay, held, hurried, issues>>

Comment(c) ==
  /\ c.kind = "file" /\ c.at = "comment"
  /\ Adds(c, "comment") /\ Answer(c, "created", c.issue)
  /\ Elsewhere /\ UNCHANGED <<held, hurried>>

CommentFails(c) ==
  /\ c.kind = "file" /\ c.at = "comment"
  /\ Answer(c, "failed", 0)
  /\ Elsewhere /\ UNCHANGED <<held, hurried, issues>>

File(c) ==
  \/ TypeRefused(c) \/ CreateRefused(c) \/ CreateIssue(c)
  \/ AttachSnapshot(c) \/ RequestThrows(c) \/ ChannelCloses(c)
  \/ FindRecording(c) \/ AttachRecording(c) \/ RecordingFails(c) \/ Comment(c) \/ CommentFails(c)

Next ==
  \/ RecordingStep /\ UNCHANGED issues
  \/ \E t \in Tabs : FileClick(t)
  \/ \E c \in calls : File(c)

\* A stop goes on, and so does a filing whose overlay is still there; nobody has to click,
\* and Chrome need not stop anything.
Stopping(t) ==
  \E c \in calls : /\ c.tab = t /\ c.kind \in {"stop", "clear", "restore"}
                   /\ Handle(c) /\ UNCHANGED issues
Filing(t) == \E c \in calls : c.tab = t /\ c.own /\ File(c)
Fairness == \A t \in Tabs : WF_vars(Stopping(t)) /\ WF_vars(Filing(t))

Spec == Init /\ [][Next]_vars /\ Fairness

------------------------------------------------------------------------------
(* Properties. *)

Finished == {r \in Recordings : content[r] # {}}

\* A finished recording stays in the offscreen document until an issue has it.
RecordingsAreKept ==
  \A r \in Finished :
    r \in held \/ \E i \in DOMAIN issues : issues[i].rec = r /\ "recording" \in issues[i].has

\* An overlay that says an issue was created shows one with its snapshot and comment.
CreatedIsComplete ==
  \A t \in Tabs : overlay[t].status = "created" =>
    issues[overlay[t].issue].wants \ {"recording"} \subseteq issues[overlay[t].issue].has

\* When the user waits for each answer, one recorder runs at a time, a recording holds
\* the data of one tab, and the session says "recording" exactly while one is recorded.
Waited == hurried = 0 /\ calls = {}
NoGhost ==
  Waited => /\ session.active <=> recorder # 0
            /\ live = (IF recorder = 0 THEN {} ELSE {recorder})
            /\ \A r \in Finished : content[r] = {r}

\* Stop brings the overlay back with the recording, if the service worker still
\* remembers the recording and the recorded tab has a page to show it.
Offered(t) == overlay[t].shown /\ overlay[t].rec # 0
StoppedIsOffered ==
  \A t \in Tabs :
    (\E u \in Tabs : control[u] = "stopping") /\ recorder # 0
      /\ memory.context = t /\ script[t] = "injected"
      ~> Offered(t) \/ script[t] # "injected" \/ hurried > 0

\* Every click on Create Jira Ticket is answered.
FilingEnds == \A t \in Tabs : overlay[t].status = "creating" ~> overlay[t].status # "creating"
=============================================================================
