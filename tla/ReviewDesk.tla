----------------------------- MODULE ReviewDesk -----------------------------
(***************************************************************************)
(* A job from its creation to the reviewer's decision: the Discover pages  *)
(* that make one job for each recommendation, the forms that make one, the *)
(* routes of server.ts that edit, approve and cancel a job in NEEDS_REVIEW *)
(* and file a Jira issue for it, over the rows of Registry.  A handler     *)
(* reads a row and writes it later; others run in between.                 *)
(***************************************************************************)
EXTENDS Registry, Naturals, Sequences

CONSTANTS
  Clients,       \* the requests that can be under way at once
  Runs,          \* the discovery runs there may be
  Titles,        \* the tests that a discovery run recommends
  Texts,         \* what a job may ask for, a recommendation's test included
  SampleText,    \* what the development sample asks for
  NoRepo,        \* the repository column of a job whose repository was deleted
  MaxJobs,       \* bound on the jobs created
  MaxClicks,     \* bound on the requests that read first and write later
  MaxChanges,    \* bound on the changes to the rows that jobs refer to
  MaxFailures    \* bound on lost answers, failed writes and restarts

ASSUME ReviewDeskAssumption ==
  /\ Titles \subseteq Texts /\ SampleText \in Texts
  /\ NoRepo \notin Repos
  /\ {MaxJobs, MaxClicks, MaxChanges, MaxFailures} \subseteq Nat

VARIABLES
  runs,          \* each discovery run: its life, its repository, the titles marked as queued
  jobs,          \* the jobs in the order of their creation
  issues,        \* what each issue in Jira asks for
  requests,      \* what each client's request has read and done
  failures,      \* failures so far
  changes,       \* changes so far
  clicks         \* clicks so far

vars == <<registryVars, runs, jobs, issues, requests, failures, changes, clicks>>

\* text and target stand for the payload: the goal, the criteria and the branch, and
\* payload.repositoryId; repository is the column, which the runner works in; issue is the
\* number of payload.jiraIssue, 0 is none.  Two are no columns: origin, the recommendation
\* that the job was created for, and edited, whether the last edit was written beside an
\* approval under way.
Origins == (Runs \X Titles) \cup {<<>>}
Jobs ==
  [status : {"NEEDS_REVIEW", "QUEUED", "CLAIMED", "CANCELED"}, text : Texts, target : Repos,
   repository : Repos \cup {NoRepo}, issue : Nat, origin : Origins,
   edited : {"apart", "beside"}]
Issues == [text : Texts, repository : Repos \cup {NoRepo}]

\* A request under way.
Idle == [kind |-> "none"]
Edits == [kind : {"edit"}, job : Nat \ {0}, read : Jobs, text : Texts, target : Repos]
Approvals == [kind : {"approve"}, job : Nat \ {0}, read : Jobs, at : {"filing", "writing"},
              issue : Nat]
Queuings == [kind : {"queue"}, run : Runs, titles : SUBSET Titles, left : SUBSET Titles,
             ok : BOOLEAN, at : {"creating", "marking"}, read : SUBSET Titles]
Samples == [kind : {"sample"}]
Requests == {Idle} \cup Edits \cup Approvals \cup Queuings \cup Samples

\* Type correctness; a request's job is there.
TypeOK ==
  /\ RegistryTypes
  /\ runs \in [Runs -> [life : Lives, repository : Repos, queued : SUBSET Titles]]
  /\ jobs \in Seq(Jobs) /\ issues \in Seq(Issues)
  /\ requests \in [Clients -> Requests]
  /\ \A c \in Clients :
       requests[c].kind \in {"edit", "approve"} => requests[c].job \in DOMAIN jobs
  /\ failures \in 0 .. MaxFailures /\ changes \in 0 .. MaxChanges
  /\ clicks \in 0 .. MaxClicks

Init ==
  /\ RegistryInit
  /\ runs = [d \in Runs |-> [life |-> "new", repository |-> Sample, queued |-> {}]]
  /\ jobs = <<>> /\ issues = <<>>
  /\ requests = [c \in Clients |-> Idle]
  /\ failures = 0 /\ changes = 0 /\ clicks = 0

------------------------------------------------------------------------------

Goes(c, request) == requests' = [requests EXCEPT ![c] = request]
Ends(c) == Goes(c, Idle)
At(c, kind) == requests[c].kind = kind
Clicks(c) == At(c, "none") /\ clicks < MaxClicks /\ clicks' = clicks + 1
Changes == changes < MaxChanges /\ changes' = changes + 1
Fails == failures < MaxFailures /\ failures' = failures + 1

\* The integrations page and the repositories page.
AdministerTrackers ==
  /\ \E t \in Trackers : SaveTracker(t) \/ DeleteTracker(t)
  /\ Changes /\ UNCHANGED <<runs, jobs, issues, requests, failures, clicks>>
AdministerRepositories ==
  /\ \E r \in Repos, t \in Trackers \cup {NoTracker} : SaveRepository(r, t)
  /\ Changes /\ UNCHANGED <<runs, jobs, issues, requests, failures, clicks>>

\* The database deletes the repository's discovery runs and clears its jobs' column.
DeleteRepository(r) ==
  /\ DropRepository(r)
  /\ runs' = [d \in Runs |-> IF runs[d].life = "here" /\ runs[d].repository = r
                             THEN [runs[d] EXCEPT !.life = "gone"] ELSE runs[d]]
  /\ jobs' = [j \in DOMAIN jobs |-> IF jobs[j].repository = r
                                    THEN [jobs[j] EXCEPT !.repository = NoRepo] ELSE jobs[j]]
  /\ Changes /\ UNCHANGED <<issues, requests, failures, clicks>>

\* A job is created for a registered repository, for review.
Created(r, text, origin) ==
  /\ Registered(r) /\ Len(jobs) < MaxJobs
  /\ jobs' = Append(jobs, [status |-> "NEEDS_REVIEW", text |-> text, target |-> r,
                           repository |-> r, issue |-> 0, origin |-> origin,
                           edited |-> "apart"])

NewJob(r, text) ==
  /\ Created(r, text, <<>>)
  /\ UNCHANGED <<registryVars, runs, issues, requests, failures, changes, clicks>>

\* The sample's repository is upserted first; another client may delete it before the job
\* is created.
SampleClick(c) ==
  /\ Clicks(c) /\ UpsertSample /\ Goes(c, [kind |-> "sample"])
  /\ UNCHANGED <<runs, jobs, issues, failures, changes>>
SampleCreates(c) ==
  /\ At(c, "sample") /\ Ends(c)
  /\ IF Registered(Sample) THEN Created(Sample, SampleText, <<>>) ELSE UNCHANGED jobs
  /\ UNCHANGED <<registryVars, runs, issues, failures, changes, clicks>>

------------------------------------------------------------------------------
(* Discover. *)

SaveRun(d, r) ==
  /\ runs[d].life = "new" /\ Registered(r)
  /\ runs' = [runs EXCEPT ![d].life = "here", ![d].repository = r]

\* The analysis only reads; what it finds is saved.
AnalyzePage(d, r) ==
  /\ SaveRun(d, r)
  /\ Changes /\ UNCHANGED <<registryVars, jobs, issues, requests, failures, clicks>>

DeleteRun(d) ==
  /\ runs[d].life = "here"
  /\ runs' = [runs EXCEPT ![d].life = "gone"]
  /\ Changes /\ UNCHANGED <<registryVars, jobs, issues, requests, failures, clicks>>

\* The page may be old: it offers what was not marked when it was rendered, and the run may
\* be gone by now.
QueueClick(c, d, titles) ==
  /\ Clicks(c) /\ runs[d].life # "new" /\ titles # {}
  /\ Goes(c, [kind |-> "queue", run |-> d, titles |-> titles, left |-> titles, ok |-> TRUE,
              at |-> "creating", read |-> {}])
  /\ UNCHANGED <<registryVars, runs, jobs, issues, failures, changes>>

\* The jobs are created side by side; an answer that is lost counts as a failure.
CreateOne(c, t) ==
  /\ At(c, "queue") /\ t \in requests[c].left
  /\ Created(runs[requests[c].run].repository, t, <<requests[c].run, t>>)
  /\ \E answered \in BOOLEAN :
       /\ IF answered THEN UNCHANGED failures ELSE Fails
       /\ Goes(c, [requests[c] EXCEPT !.left = @ \ {t}, !.ok = @ /\ answered])
  /\ UNCHANGED <<registryVars, runs, issues, changes, clicks>>
CreateFails(c, t) ==
  /\ At(c, "queue") /\ t \in requests[c].left
  /\ IF Registered(runs[requests[c].run].repository) THEN Fails ELSE UNCHANGED failures
  /\ Goes(c, [requests[c] EXCEPT !.left = @ \ {t}, !.ok = FALSE])
  /\ UNCHANGED <<registryVars, runs, jobs, issues, changes, clicks>>

\* Promise.all is over: one failure is the action's, and nothing is marked.
AllCreated(c) ==
  At(c, "queue") /\ requests[c].left = {} /\ requests[c].at = "creating"
QueueFails(c) ==
  /\ AllCreated(c) /\ ~requests[c].ok
  /\ Ends(c)
  /\ UNCHANGED <<registryVars, runs, jobs, issues, failures, changes, clicks>>

\* A faulty variant of MarkReads: what failed is marked, too.
MarkReadsAnyway(c) ==
  LET d == requests[c].run IN
  /\ AllCreated(c) /\ runs[d].life = "here"
  /\ Goes(c, [requests[c] EXCEPT !.at = "marking", !.read = runs[d].queued])
  /\ UNCHANGED <<registryVars, runs, jobs, issues, failures, changes, clicks>>
MarkReads(c) ==
  LET d == requests[c].run IN
  /\ AllCreated(c) /\ requests[c].ok
  /\ IF runs[d].life = "here"
     THEN Goes(c, [requests[c] EXCEPT !.at = "marking", !.read = runs[d].queued])
     ELSE Ends(c)
  /\ UNCHANGED <<registryVars, runs, jobs, issues, failures, changes, clicks>>

\* The titles read are written back with the new ones, unless the run is gone.
MarkWrites(c) ==
  LET d == requests[c].run IN
  /\ At(c, "queue") /\ requests[c].at = "marking"
  /\ runs' = IF runs[d].life = "here"
             THEN [runs EXCEPT ![d].queued = requests[c].read \cup requests[c].titles]
             ELSE runs
  /\ Ends(c)
  /\ UNCHANGED <<registryVars, jobs, issues, failures, changes, clicks>>

------------------------------------------------------------------------------
(* Review. *)

\* A faulty variant of EditReads: an approved job can be edited.
EditReadsAlways(c, j, text, target) ==
  /\ Clicks(c) /\ Registered(target)
  /\ Goes(c, [kind |-> "edit", job |-> j, read |-> jobs[j], text |-> text, target |-> target])
  /\ UNCHANGED <<registryVars, runs, jobs, issues, failures, changes>>
EditReads(c, j, text, target) ==
  /\ Clicks(c) /\ jobs[j].status = "NEEDS_REVIEW" /\ Registered(target)
  /\ Goes(c, [kind |-> "edit", job |-> j, read |-> jobs[j], text |-> text, target |-> target])
  /\ UNCHANGED <<registryVars, runs, jobs, issues, failures, changes>>

\* The payload read is written back with the edits, whatever became of the job; the column
\* has to refer to a repository that is there.
IsBesideApproval(j) == \E d \in Clients : At(d, "approve") /\ requests[d].job = j
EditWrites(c) ==
  LET q == requests[c] IN
  /\ At(c, "edit")
  /\ jobs' = IF Registered(q.target)
             THEN [jobs EXCEPT ![q.job] = [@ EXCEPT !.text = q.text, !.target = q.target,
                                                    !.repository = q.target,
                                                    !.issue = q.read.issue,
                       !.edited = IF IsBesideApproval(q.job) THEN "beside" ELSE "apart"]]
             ELSE jobs
  /\ Ends(c)
  /\ UNCHANGED <<registryVars, runs, issues, failures, changes, clicks>>

\* An issue is filed when the reviewer asks, a tracker is attached and there is none yet.
TrackerOf(job) ==
  IF job.repository = NoRepo THEN NoTracker ELSE repositories[job.repository].tracker
ApproveReads(c, j, createJiraTicket) ==
  /\ Clicks(c) /\ jobs[j].status = "NEEDS_REVIEW"
  /\ Goes(c, [kind |-> "approve", job |-> j, read |-> jobs[j], issue |-> jobs[j].issue,
              at |-> IF createJiraTicket /\ TrackerOf(jobs[j]) # NoTracker /\ jobs[j].issue = 0
                     THEN "filing" ELSE "writing"])
  /\ UNCHANGED <<registryVars, runs, jobs, issues, failures, changes>>

\* createJiraIssueForJob: the payload as it was read, and the repository of the column.
Asked(read) == [text |-> read.text, repository |-> read.repository]
FilesIssue(c) ==
  /\ At(c, "approve") /\ requests[c].at = "filing"
  /\ issues' = Append(issues, Asked(requests[c].read))
  /\ Goes(c, [requests[c] EXCEPT !.at = "writing", !.issue = Len(issues')])
  /\ UNCHANGED <<registryVars, runs, jobs, failures, changes, clicks>>

\* Jira refuses, or its answer is lost: the approval goes on without an issue.
FilingFails(c) ==
  /\ At(c, "approve") /\ requests[c].at = "filing" /\ Fails
  /\ issues' \in {issues, Append(issues, Asked(requests[c].read))}
  /\ Goes(c, [requests[c] EXCEPT !.at = "writing"])
  /\ UNCHANGED <<registryVars, runs, jobs, changes, clicks>>

\* The payload read is written back with the issue, whatever became of the job; the column
\* is not.
ApproveWrites(c) ==
  LET q == requests[c] IN
  /\ At(c, "approve") /\ q.at = "writing"
  /\ jobs' = [jobs EXCEPT ![q.job] = [@ EXCEPT !.text = q.read.text, !.target = q.read.target,
                                               !.issue = q.issue, !.status = "QUEUED"]]
  /\ Ends(c)
  /\ UNCHANGED <<registryVars, runs, issues, failures, changes, clicks>>

\* A conditional write.
Cancel(j) ==
  /\ jobs[j].status \in {"NEEDS_REVIEW", "QUEUED"}
  /\ jobs' = [jobs EXCEPT ![j].status = "CANCELED"]
  /\ UNCHANGED <<registryVars, runs, issues, requests, failures, changes, clicks>>

\* The runner's claim; JobPipeline has the rest.
Claim(j) ==
  /\ jobs[j].status = "QUEUED"
  /\ jobs' = [jobs EXCEPT ![j].status = "CLAIMED"]
  /\ UNCHANGED <<registryVars, runs, issues, requests, failures, changes, clicks>>

\* The handlers under way are gone; what they wrote stays.
Restart ==
  /\ Fails
  /\ requests' = [c \in Clients |-> Idle]
  /\ UNCHANGED <<registryVars, runs, jobs, issues, changes, clicks>>

------------------------------------------------------------------------------

Request(c) ==
  \/ SampleClick(c) \/ SampleCreates(c)
  \/ \E d \in Runs, titles \in SUBSET Titles : QueueClick(c, d, titles)
  \/ \E t \in Titles : CreateOne(c, t) \/ CreateFails(c, t)
  \/ QueueFails(c) \/ MarkReads(c) \/ MarkWrites(c)
  \/ \E j \in DOMAIN jobs, text \in Texts, target \in Repos : EditReads(c, j, text, target)
  \/ EditWrites(c)
  \/ \E j \in DOMAIN jobs, createJiraTicket \in BOOLEAN : ApproveReads(c, j, createJiraTicket)
  \/ FilesIssue(c) \/ FilingFails(c) \/ ApproveWrites(c)

Next ==
  \/ AdministerTrackers \/ AdministerRepositories \/ \E r \in Repos : DeleteRepository(r)
  \/ \E r \in Repos, text \in Texts : NewJob(r, text)
  \/ \E d \in Runs : DeleteRun(d) \/ \E r \in Repos : AnalyzePage(d, r)
  \/ \E c \in Clients : Request(c)
  \/ \E j \in DOMAIN jobs : Cancel(j) \/ Claim(j)
  \/ Restart

Spec == Init /\ [][Next]_vars

------------------------------------------------------------------------------

\* A recommendation that the Discover page shows as "Already Queued", and no longer offers,
\* has a job, whatever requests failed, ran side by side or were made from an old page
\* (queueSelectedTests, PUT /discover/runs/:id/queued).
QueuedHasJob ==
  \A d \in Runs : \A t \in runs[d].queued : \E j \in DOMAIN jobs : jobs[j].origin = <<d, t>>

\* A job's Jira issue asks for what the job's payload asks for, and in the repository that the
\* payload names, however edits and approvals of the job interleave: each writes back a payload
\* that it read earlier (PUT /jobs/:id/review-request, POST /jobs/:id/approve-review).  The
\* column names the issue's repository too, as long as the repository is there, unless the last
\* edit was written while an approval was under way: the approval does not write the column
\* back, and the runner then works in another repository than the issue tells.
QueuedAsFiled ==
  \A j \in DOMAIN jobs : LET job == jobs[j] IN
    job.issue # 0 =>
      /\ job.issue <= Len(issues)
      /\ issues[job.issue] = [text |-> job.text, repository |-> job.target]
      /\ job.edited = "apart" => job.repository \in {issues[job.issue].repository, NoRepo}
=============================================================================
