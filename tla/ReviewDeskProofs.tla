-------------------------- MODULE ReviewDeskProofs --------------------------
(***************************************************************************)
(* What ReviewDesk promises holds for any rows, clients, recommendations   *)
(* and bounds: its types, that a marked recommendation has its job, and    *)
(* that a job's issue asks for what the job asks for.  The last two rest   *)
(* on what a request may still write, which is the inductive part: a job   *)
(* in NEEDS_REVIEW has no issue, so an edit, which read it there, takes    *)
(* the issue of another approval away rather than leave it on another      *)
(* text, and an approval writes the very text it filed.  The column names  *)
(* the payload's repository while a job is in review, so an issue is filed *)
(* for that one; and an approval beside which no edit was written puts     *)
(* back the repository that the payload already names.                     *)
(***************************************************************************)
EXTENDS ReviewDesk, TLAPS

USE RegistryAssumption, ReviewDeskAssumption

HasJob(d, t) == \E j \in DOMAIN jobs : jobs[j].origin = <<d, t>>

\* What jobs and requests hold about issues.
Asks(job) == [text |-> job.text, repository |-> job.target]
Carries(issue, asked) == issue # 0 => issue <= Len(issues) /\ issues[issue] = asked
ReviewInv ==
  /\ \A j \in DOMAIN jobs :
       /\ jobs[j].status = "NEEDS_REVIEW" => jobs[j].issue = 0
       /\ Carries(jobs[j].issue, Asks(jobs[j]))
  /\ \A c \in Clients :
       /\ requests[c].kind = "edit" => requests[c].read.issue = 0
       /\ requests[c].kind = "approve" => Carries(requests[c].issue, Asks(requests[c].read))

\* The column of a job and its payload name one repository, unless an edit was written beside
\* an approval; so do the rows that approvals have read and may still write back.
IsWhole(job) == job.repository \in {job.target, NoRepo}
ColumnInv ==
  /\ \A j \in DOMAIN jobs :
       jobs[j].status = "NEEDS_REVIEW" \/ jobs[j].edited = "apart" => IsWhole(jobs[j])
  /\ \A c \in Clients : requests[c].kind = "approve" =>
       /\ requests[c].at = "filing" => requests[c].read.repository = requests[c].read.target
       /\ jobs[requests[c].job].edited = "apart" =>
            requests[c].read.target = jobs[requests[c].job].target

\* What a queueing that has had no failure has created, and what it is about to write.
MarkInv ==
  /\ \A d \in Runs : \A t \in runs[d].queued : HasJob(d, t)
  /\ \A c \in Clients : requests[c].kind = "queue" =>
       /\ requests[c].ok =>
            \A t \in requests[c].titles \ requests[c].left : HasJob(requests[c].run, t)
       /\ requests[c].at = "marking" =>
            /\ requests[c].ok /\ requests[c].left = {}
            /\ \A t \in requests[c].read : HasJob(requests[c].run, t)

------------------------------------------------------------------------------

\* A request's kind tells what it holds.
LEMMA RequestKinds ==
  ASSUME TypeOK, NEW c \in Clients
  PROVE  /\ requests[c].kind = "edit" => requests[c] \in Edits
         /\ requests[c].kind = "approve" => requests[c] \in Approvals
         /\ requests[c].kind = "queue" => requests[c] \in Queuings
         /\ requests[c].kind \in {"none", "edit", "approve", "queue", "sample"}
<1>1. requests[c] \in Requests
  BY DEF TypeOK
<1> QED
  BY <1>1 DEF Requests, Idle, Edits, Approvals, Queuings, Samples

\* One request changes: the types of the others stay.
LEMMA GoesTyped ==
  ASSUME TypeOK, NEW c \in Clients, NEW request \in Requests, Goes(c, request)
  PROVE  /\ requests' \in [Clients -> Requests]
         /\ \A d \in Clients : requests'[d] = IF d = c THEN request ELSE requests[d]
BY DEF TypeOK, Goes

LEMMA IdleTyped == Idle \in Requests /\ Idle.kind = "none"
BY DEF Requests, Idle

\* What creating a job does.
LEMMA CreatedTyped ==
  ASSUME TypeOK, NEW r \in Repos, NEW text \in Texts, NEW origin \in Origins,
         Created(r, text, origin)
  PROVE  /\ jobs' \in Seq(Jobs)
         /\ DOMAIN jobs \subseteq DOMAIN jobs'
         /\ \A j \in DOMAIN jobs : jobs'[j] = jobs[j]
         /\ \A j \in DOMAIN jobs' \ DOMAIN jobs :
              /\ jobs'[j].status = "NEEDS_REVIEW" /\ jobs'[j].issue = 0
              /\ jobs'[j].repository = jobs'[j].target
         /\ \E j \in DOMAIN jobs' : jobs'[j].origin = origin
<1> DEFINE job == [status |-> "NEEDS_REVIEW", text |-> text, target |-> r,
                   repository |-> r, issue |-> 0, origin |-> origin, edited |-> "apart"]
<1>1. job \in Jobs /\ jobs \in Seq(Jobs) /\ jobs' = Append(jobs, job)
  BY DEF Jobs, TypeOK, Created
<1>2. /\ jobs' \in Seq(Jobs) /\ Len(jobs') = Len(jobs) + 1
      /\ jobs'[Len(jobs) + 1] = job
      /\ \A j \in 1 .. Len(jobs) : jobs'[j] = jobs[j]
  BY <1>1
<1>3. /\ job.status = "NEEDS_REVIEW" /\ job.issue = 0 /\ job.origin = origin
      /\ job.repository = job.target
  OBVIOUS
<1> HIDE DEF job
<1>4. DOMAIN jobs = 1 .. Len(jobs) /\ DOMAIN jobs' = 1 .. Len(jobs) + 1 /\ Len(jobs) \in Nat
  BY <1>1, <1>2
<1> QED
  BY <1>2, <1>3, <1>4

\* What writing one job does.
LEMMA WriteTyped ==
  ASSUME TypeOK, NEW j \in DOMAIN jobs, NEW job \in Jobs, jobs' = [jobs EXCEPT ![j] = job]
  PROVE  /\ jobs' \in Seq(Jobs) /\ DOMAIN jobs' = DOMAIN jobs
         /\ \A k \in DOMAIN jobs : jobs'[k] = IF k = j THEN job ELSE jobs[k]
BY DEF TypeOK

------------------------------------------------------------------------------
(* Types. *)

LEMMA RegistryStep ==
  ASSUME RegistryTypes,
         \/ \E t \in Trackers : SaveTracker(t) \/ DeleteTracker(t)
         \/ \E r \in Repos, t \in Trackers \cup {NoTracker} : SaveRepository(r, t)
         \/ UpsertSample
         \/ \E r \in Repos : DropRepository(r)
  PROVE  RegistryTypes'
BY DEF RegistryTypes, SaveTracker, DeleteTracker, SaveRepository, UpsertSample, DropRepository,
       Lives

LEMMA TypesInitial == Init => TypeOK
<1> SUFFICES ASSUME Init PROVE TypeOK
  OBVIOUS
<1>1. RegistryTypes
  BY DEF Init, RegistryInit, RegistryTypes, Lives
<1>2. runs \in [Runs -> [life : Lives, repository : Repos, queued : SUBSET Titles]]
  BY DEF Init, Lives
<1>3. requests \in [Clients -> Requests] /\ \A c \in Clients : requests[c].kind = "none"
  BY IdleTyped DEF Init
<1> QED
  BY <1>1, <1>2, <1>3 DEF TypeOK, Init

RunTypes == [Runs -> [life : Lives, repository : Repos, queued : SUBSET Titles]]

\* A step of a client's request keeps the types if what it writes has them.
LEMMA RequestTyped ==
  ASSUME TypeOK, NEW c \in Clients, NEW request \in Requests, Goes(c, request),
         request.kind \in {"edit", "approve"} => request.job \in DOMAIN jobs,
         jobs' \in Seq(Jobs), DOMAIN jobs \subseteq DOMAIN jobs',
         RegistryTypes', runs' \in RunTypes, issues' \in Seq(Issues),
         failures' \in 0 .. MaxFailures, changes' \in 0 .. MaxChanges,
         clicks' \in 0 .. MaxClicks
  PROVE  TypeOK'
<1>1. /\ requests' \in [Clients -> Requests]
      /\ \A d \in Clients : requests'[d] = IF d = c THEN request ELSE requests[d]
  BY GoesTyped
<1>2. \A d \in Clients :
        requests'[d].kind \in {"edit", "approve"} => requests'[d].job \in DOMAIN jobs'
  BY <1>1 DEF TypeOK
<1> QED
  BY <1>1, <1>2 DEF TypeOK, RunTypes

\* A step that makes no request keeps the types if what it writes has them.
LEMMA OthersTyped ==
  ASSUME TypeOK, UNCHANGED requests,
         jobs' \in Seq(Jobs), DOMAIN jobs \subseteq DOMAIN jobs',
         RegistryTypes', runs' \in RunTypes, issues' \in Seq(Issues),
         failures' \in 0 .. MaxFailures, changes' \in 0 .. MaxChanges,
         clicks' \in 0 .. MaxClicks
  PROVE  TypeOK'
BY DEF TypeOK, RunTypes

\* What is in the types of a state whose registry rows stay.
LEMMA RegistryStays ==
  ASSUME TypeOK, UNCHANGED registryVars
  PROVE  RegistryTypes'
BY DEF TypeOK, RegistryTypes, registryVars

LEMMA CountsTyped ==
  ASSUME TypeOK
  PROVE  /\ Fails => failures' \in 0 .. MaxFailures
         /\ Changes => changes' \in 0 .. MaxChanges
         /\ \A c \in Clients : Clicks(c) => clicks' \in 0 .. MaxClicks
BY DEF TypeOK, Fails, Changes, Clicks

LEMMA SampleKeepsTypes ==
  ASSUME TypeOK, NEW c \in Clients, SampleClick(c) \/ SampleCreates(c)
  PROVE  TypeOK'
<1>1. CASE SampleClick(c)
  <2>1. [kind |-> "sample"] \in Requests
    BY DEF Requests, Samples
  <2>2. RegistryTypes'
    BY <1>1, RegistryStep DEF SampleClick, TypeOK
  <2>3. clicks' \in 0 .. MaxClicks
    BY <1>1, CountsTyped DEF SampleClick
  <2> QED
    BY <1>1, <2>1, <2>2, <2>3, RequestTyped DEF SampleClick, TypeOK, RunTypes
<1>2. CASE SampleCreates(c)
  <2>1. jobs' \in Seq(Jobs) /\ DOMAIN jobs \subseteq DOMAIN jobs'
    <3>1. SampleText \in Texts /\ Sample \in Repos /\ <<>> \in Origins
      BY DEF Origins
    <3>2. CASE Registered(Sample)
      BY <1>2, <3>1, <3>2, CreatedTyped DEF SampleCreates
    <3> QED
      BY <1>2, <3>2 DEF SampleCreates, TypeOK
  <2>2. RegistryTypes'
    BY <1>2, RegistryStays DEF SampleCreates
  <2> QED
    BY <1>2, <2>1, <2>2, RequestTyped, IdleTyped DEF SampleCreates, Ends, TypeOK, RunTypes
<1> QED
  BY <1>1, <1>2

LEMMA QueuingKeepsTypes ==
  ASSUME TypeOK, NEW c \in Clients,
         \/ \E d \in Runs, titles \in SUBSET Titles : QueueClick(c, d, titles)
         \/ \E t \in Titles : CreateOne(c, t) \/ CreateFails(c, t)
         \/ QueueFails(c) \/ MarkReads(c) \/ MarkWrites(c)
  PROVE  TypeOK'
<1>1. ASSUME NEW d \in Runs, NEW titles \in SUBSET Titles, QueueClick(c, d, titles)
      PROVE  TypeOK'
  <2>1. [kind |-> "queue", run |-> d, titles |-> titles, left |-> titles, ok |-> TRUE,
         at |-> "creating", read |-> {}] \in Requests
    BY DEF Requests, Queuings
  <2>2. RegistryTypes' /\ clicks' \in 0 .. MaxClicks
    BY <1>1, RegistryStays, CountsTyped DEF QueueClick
  <2> QED
    BY <1>1, <2>1, <2>2, RequestTyped DEF QueueClick, TypeOK, RunTypes
<1>2. ASSUME NEW t \in Titles, CreateOne(c, t)
      PROVE  TypeOK'
  <2>1. requests[c] \in Queuings
    BY <1>2, RequestKinds DEF CreateOne, At
  <2>2. PICK answered \in BOOLEAN :
          /\ IF answered THEN UNCHANGED failures ELSE Fails
          /\ Goes(c, [requests[c] EXCEPT !.left = @ \ {t}, !.ok = @ /\ answered])
    BY <1>2 DEF CreateOne
  <2> DEFINE request == [requests[c] EXCEPT !.left = @ \ {t}, !.ok = @ /\ answered]
  <2>3. request \in Requests /\ request.kind = "queue"
    <3>1. request.ok \in BOOLEAN /\ request.left \in SUBSET Titles
      BY <2>1, Zenon DEF Queuings
    <3>2. request \in Queuings
      BY <2>1, <3>1 DEF Queuings
    <3> QED
      BY <3>2 DEF Requests, Queuings
  <2>4. runs[requests[c].run].repository \in Repos /\ <<requests[c].run, t>> \in Origins
    BY <2>1 DEF TypeOK, Queuings, Origins
  <2>5. jobs' \in Seq(Jobs) /\ DOMAIN jobs \subseteq DOMAIN jobs'
    BY <1>2, <2>4, CreatedTyped DEF CreateOne, ReviewDeskAssumption
  <2>6. failures' \in 0 .. MaxFailures
    BY <2>2, CountsTyped DEF TypeOK
  <2>7. RegistryTypes'
    BY <1>2, RegistryStays DEF CreateOne
  <2> HIDE DEF request
  <2> QED
    BY <1>2, <2>2, <2>3, <2>5, <2>6, <2>7, RequestTyped DEF CreateOne, TypeOK, RunTypes, request
<1>3. ASSUME NEW t \in Titles, CreateFails(c, t)
      PROVE  TypeOK'
  <2>1. requests[c] \in Queuings
    BY <1>3, RequestKinds DEF CreateFails, At
  <2> DEFINE request == [requests[c] EXCEPT !.left = @ \ {t}, !.ok = FALSE]
  <2>2. request \in Requests /\ request.kind = "queue"
    BY <2>1 DEF Requests, Queuings
  <2>3. failures' \in 0 .. MaxFailures /\ RegistryTypes'
    BY <1>3, CountsTyped, RegistryStays DEF CreateFails, TypeOK
  <2>4. Goes(c, request)
    BY <1>3 DEF CreateFails
  <2> HIDE DEF request
  <2> QED
    BY <1>3, <2>2, <2>3, <2>4, RequestTyped DEF CreateFails, TypeOK, RunTypes
<1>4. CASE QueueFails(c)
  BY <1>4, RequestTyped, IdleTyped, RegistryStays DEF QueueFails, Ends, TypeOK, RunTypes
<1>5. CASE MarkReads(c)
  <2>1. requests[c] \in Queuings
    BY <1>5, RequestKinds DEF MarkReads, AllCreated, At
  <2> DEFINE request == [requests[c] EXCEPT !.at = "marking",
                                            !.read = runs[requests[c].run].queued]
  <2>2. request \in Requests /\ request.kind = "queue"
    BY <2>1 DEF Requests, Queuings, TypeOK
  <2>3. Goes(c, request) \/ Ends(c)
    BY <1>5 DEF MarkReads
  <2>4. RegistryTypes'
    BY <1>5, RegistryStays DEF MarkReads
  <2> HIDE DEF request
  <2> QED
    BY <1>5, <2>2, <2>3, <2>4, RequestTyped, IdleTyped DEF MarkReads, Ends, TypeOK, RunTypes
<1>6. CASE MarkWrites(c)
  <2>1. requests[c] \in Queuings
    BY <1>6, RequestKinds DEF MarkWrites, At
  <2>2. runs' \in RunTypes
    <3>1. /\ runs \in RunTypes
          /\ requests[c].run \in Runs /\ requests[c].read \cup requests[c].titles \in SUBSET Titles
      BY <2>1 DEF Queuings, TypeOK, RunTypes
    <3> QED
      BY <1>6, <3>1 DEF MarkWrites, RunTypes
  <2>3. RegistryTypes'
    BY <1>6, RegistryStays DEF MarkWrites
  <2> QED
    BY <1>6, <2>2, <2>3, RequestTyped, IdleTyped DEF MarkWrites, Ends, TypeOK
<1> QED
  BY <1>1, <1>2, <1>3, <1>4, <1>5, <1>6
LEMMA ReviewKeepsTypes ==
  ASSUME TypeOK, NEW c \in Clients,
         \/ \E j \in DOMAIN jobs, text \in Texts, target \in Repos : EditReads(c, j, text, target)
         \/ EditWrites(c)
         \/ \E j \in DOMAIN jobs, createJiraTicket \in BOOLEAN :
              ApproveReads(c, j, createJiraTicket)
         \/ FilesIssue(c) \/ FilingFails(c) \/ ApproveWrites(c)
  PROVE  TypeOK'
<1> USE DEF RunTypes
<1>j. ASSUME NEW j \in DOMAIN jobs
      PROVE  jobs[j] \in Jobs /\ j \in Nat \ {0}
  BY DEF TypeOK
<1>1. ASSUME NEW j \in DOMAIN jobs, NEW text \in Texts, NEW target \in Repos,
             EditReads(c, j, text, target)
      PROVE  TypeOK'
  <2> DEFINE request == [kind |-> "edit", job |-> j, read |-> jobs[j], text |-> text,
                         target |-> target]
  <2>1. request \in Requests /\ request.job = j
    BY <1>j DEF Requests, Edits
  <2>2. clicks' \in 0 .. MaxClicks /\ RegistryTypes' /\ Goes(c, request)
    BY <1>1, CountsTyped, RegistryStays DEF EditReads
  <2> HIDE DEF request
  <2> QED
    BY <1>1, <2>1, <2>2, RequestTyped DEF EditReads, TypeOK
<1>2. CASE EditWrites(c)
  <2>1. requests[c] \in Edits /\ requests[c].job \in DOMAIN jobs
    BY <1>2, RequestKinds DEF EditWrites, At, TypeOK
  <2> DEFINE q == requests[c]
             edited == IF IsBesideApproval(q.job) THEN "beside" ELSE "apart"
             job == [jobs[q.job] EXCEPT !.text = q.text, !.target = q.target,
                                        !.repository = q.target, !.issue = q.read.issue,
                                        !.edited = edited]
  <2>2. job \in Jobs
    BY <2>1, <1>j DEF Edits, Jobs
  <2>3. jobs' = [jobs EXCEPT ![q.job] = job] \/ jobs' = jobs
    BY <1>2 DEF EditWrites
  <2> HIDE DEF job
  <2>4. jobs' \in Seq(Jobs) /\ DOMAIN jobs' = DOMAIN jobs
    BY <2>1, <2>2, <2>3, WriteTyped DEF TypeOK
  <2>5. RegistryTypes'
    BY <1>2, RegistryStays DEF EditWrites
  <2> QED
    BY <1>2, <2>4, <2>5, RequestTyped, IdleTyped DEF EditWrites, Ends, TypeOK
<1>3. ASSUME NEW j \in DOMAIN jobs, NEW createJiraTicket \in BOOLEAN,
             ApproveReads(c, j, createJiraTicket)
      PROVE  TypeOK'
  <2> DEFINE request ==
        [kind |-> "approve", job |-> j, read |-> jobs[j], issue |-> jobs[j].issue,
         at |-> IF createJiraTicket /\ TrackerOf(jobs[j]) # NoTracker /\ jobs[j].issue = 0
                THEN "filing" ELSE "writing"]
  <2>1. request \in Requests /\ request.job = j
    BY <1>j DEF Requests, Approvals, Jobs
  <2>2. clicks' \in 0 .. MaxClicks /\ RegistryTypes' /\ Goes(c, request)
    BY <1>3, CountsTyped, RegistryStays DEF ApproveReads
  <2> HIDE DEF request
  <2> QED
    BY <1>3, <2>1, <2>2, RequestTyped DEF ApproveReads, TypeOK
<1>4. ASSUME FilesIssue(c) \/ FilingFails(c)
      PROVE  TypeOK'
  <2>1. requests[c] \in Approvals /\ requests[c].job \in DOMAIN jobs
    BY <1>4, RequestKinds DEF FilesIssue, FilingFails, At, TypeOK
  <2>2. Append(issues, Asked(requests[c].read)) \in Seq(Issues)
    BY <2>1 DEF Approvals, Jobs, TypeOK, Issues, Asked
  <2>3. issues' \in Seq(Issues) /\ Len(issues') \in Nat
    <3>1. issues' \in {issues, Append(issues, Asked(requests[c].read))}
      BY <1>4, Zenon DEF FilesIssue, FilingFails
    <3>2. issues' \in Seq(Issues)
      BY <2>2, <3>1 DEF TypeOK
    <3> QED
      BY <3>2
  <2>4. failures' \in 0 .. MaxFailures /\ RegistryTypes'
    BY <1>4, CountsTyped, RegistryStays DEF FilesIssue, FilingFails, TypeOK
  <2>5. PICK issue \in {requests[c].issue, Len(issues')} :
          Goes(c, [requests[c] EXCEPT !.at = "writing", !.issue = issue])
    <3>1. [requests[c] EXCEPT !.at = "writing"]
            = [requests[c] EXCEPT !.at = "writing", !.issue = requests[c].issue]
      BY <2>1 DEF Approvals
    <3> QED
      BY <1>4, <3>1 DEF FilesIssue, FilingFails
  <2> DEFINE request == [requests[c] EXCEPT !.at = "writing", !.issue = issue]
  <2>6. request \in Requests /\ request.job = requests[c].job
    BY <2>1, <2>3 DEF Requests, Approvals
  <2>7. Goes(c, request)
    BY <2>5
  <2> HIDE DEF request
  <2> QED
    BY <1>4, <2>1, <2>3, <2>4, <2>6, <2>7, RequestTyped DEF FilesIssue, FilingFails, TypeOK
<1>5. CASE ApproveWrites(c)
  <2>1. requests[c] \in Approvals /\ requests[c].job \in DOMAIN jobs
    BY <1>5, RequestKinds DEF ApproveWrites, At, TypeOK
  <2> DEFINE q == requests[c]
             job == [jobs[q.job] EXCEPT !.text = q.read.text, !.target = q.read.target,
                                        !.issue = q.issue, !.status = "QUEUED"]
  <2>2. job \in Jobs
    BY <2>1, <1>j DEF Approvals, Jobs
  <2>3. jobs' = [jobs EXCEPT ![q.job] = job]
    BY <1>5 DEF ApproveWrites
  <2> HIDE DEF job
  <2>4. jobs' \in Seq(Jobs) /\ DOMAIN jobs' = DOMAIN jobs
    BY <2>1, <2>2, <2>3, WriteTyped
  <2>5. RegistryTypes'
    BY <1>5, RegistryStays DEF ApproveWrites
  <2> QED
    BY <1>5, <2>4, <2>5, RequestTyped, IdleTyped DEF ApproveWrites, Ends, TypeOK
<1> QED
  BY <1>1, <1>2, <1>3, <1>4, <1>5
LEMMA AdministrationKeepsTypes ==
  ASSUME TypeOK,
         \/ AdministerTrackers \/ AdministerRepositories
         \/ \E r \in Repos : DeleteRepository(r)
         \/ \E d \in Runs : DeleteRun(d) \/ \E r \in Repos : AnalyzePage(d, r)
  PROVE  TypeOK'
<1> USE DEF RunTypes
<1>c. Changes => changes' \in 0 .. MaxChanges
  BY CountsTyped
<1>1. CASE AdministerTrackers
  <2>1. RegistryTypes'
    BY <1>1, RegistryStep DEF AdministerTrackers, TypeOK
  <2> QED
    BY <1>1, <1>c, <2>1, OthersTyped DEF AdministerTrackers, TypeOK
<1>2. CASE AdministerRepositories
  <2>1. RegistryTypes'
    BY <1>2, RegistryStep DEF AdministerRepositories, TypeOK
  <2> QED
    BY <1>2, <1>c, <2>1, OthersTyped DEF AdministerRepositories, TypeOK
<1>3. ASSUME NEW r \in Repos, DeleteRepository(r)
      PROVE  TypeOK'
  <2>1. RegistryTypes'
    BY <1>3, RegistryStep DEF DeleteRepository, TypeOK
  <2>2. runs' \in RunTypes
    BY <1>3 DEF DeleteRepository, TypeOK, Lives
  <2>3. jobs' \in Seq(Jobs) /\ DOMAIN jobs' = DOMAIN jobs
    <3>1. \A j \in DOMAIN jobs : jobs[j] \in Jobs
      BY DEF TypeOK
    <3>2. \A j \in DOMAIN jobs : jobs'[j] \in Jobs
      BY <1>3, <3>1 DEF DeleteRepository, Jobs
    <3>3. DOMAIN jobs' = 1 .. Len(jobs) /\ Len(jobs) \in Nat /\ DOMAIN jobs = 1 .. Len(jobs)
      BY <1>3 DEF DeleteRepository, TypeOK
    <3>4. jobs' = [j \in 1 .. Len(jobs) |-> jobs'[j]]
      BY <1>3, <3>3 DEF DeleteRepository
    <3> QED
      BY <3>2, <3>3, <3>4
  <2> QED
    BY <1>3, <1>c, <2>1, <2>2, <2>3, OthersTyped DEF DeleteRepository, TypeOK
<1>4. ASSUME NEW d \in Runs, DeleteRun(d)
      PROVE  TypeOK'
  <2>1. runs' \in RunTypes /\ RegistryTypes'
    BY <1>4, RegistryStays DEF DeleteRun, TypeOK, Lives
  <2> QED
    BY <1>4, <1>c, <2>1, OthersTyped DEF DeleteRun, TypeOK
<1>5. ASSUME NEW d \in Runs, NEW r \in Repos, AnalyzePage(d, r)
      PROVE  TypeOK'
  <2>1. runs' \in RunTypes /\ RegistryTypes'
    BY <1>5, RegistryStays DEF AnalyzePage, SaveRun, TypeOK, Lives
  <2> QED
    BY <1>5, <1>c, <2>1, OthersTyped DEF AnalyzePage, TypeOK
<1> QED
  BY <1>1, <1>2, <1>3, <1>4, <1>5

LEMMA OthersKeepTypes ==
  ASSUME TypeOK,
         \/ \E r \in Repos, text \in Texts : NewJob(r, text)
         \/ \E j \in DOMAIN jobs : Cancel(j) \/ Claim(j)
         \/ Restart
  PROVE  TypeOK'
<1> USE DEF RunTypes
<1>1. ASSUME NEW r \in Repos, NEW text \in Texts, NewJob(r, text)
      PROVE  TypeOK'
  <2>1. jobs' \in Seq(Jobs) /\ DOMAIN jobs \subseteq DOMAIN jobs' /\ RegistryTypes'
    BY <1>1, CreatedTyped, RegistryStays DEF NewJob, Origins
  <2> QED
    BY <1>1, <2>1, OthersTyped DEF NewJob, TypeOK
<1>2. ASSUME NEW j \in DOMAIN jobs, Cancel(j) \/ Claim(j)
      PROVE  TypeOK'
  <2>1. PICK status \in {"CANCELED", "CLAIMED"} :
          jobs' = [jobs EXCEPT ![j] = [jobs[j] EXCEPT !.status = status]]
    BY <1>2 DEF Cancel, Claim
  <2> DEFINE job == [jobs[j] EXCEPT !.status = status]
  <2>2. job \in Jobs
    <3>1. jobs[j] \in Jobs
      BY DEF TypeOK
    <3> QED
      BY <3>1 DEF Jobs
  <2>3. jobs' = [jobs EXCEPT ![j] = job]
    BY <2>1
  <2> HIDE DEF job
  <2>4. jobs' \in Seq(Jobs) /\ DOMAIN jobs' = DOMAIN jobs
    BY <2>2, <2>3, WriteTyped
  <2>5. RegistryTypes'
    BY <1>2, RegistryStays DEF Cancel, Claim
  <2> QED
    BY <1>2, <2>4, <2>5, OthersTyped DEF Cancel, Claim, TypeOK
<1>3. CASE Restart
  <2>1. requests' \in [Clients -> Requests] /\ \A c \in Clients : requests'[c].kind = "none"
    BY <1>3, IdleTyped DEF Restart
  <2>2. failures' \in 0 .. MaxFailures /\ RegistryTypes'
    BY <1>3, CountsTyped, RegistryStays DEF Restart
  <2> QED
    BY <1>3, <2>1, <2>2 DEF Restart, TypeOK
<1> QED
  BY <1>1, <1>2, <1>3

LEMMA TypesStep == TypeOK /\ [Next]_vars => TypeOK'
<1> SUFFICES ASSUME TypeOK, [Next]_vars PROVE TypeOK'
  OBVIOUS
<1>1. ASSUME NEW c \in Clients, Request(c)
      PROVE  TypeOK'
  BY <1>1, SampleKeepsTypes, QueuingKeepsTypes, ReviewKeepsTypes DEF Request
<1>2. CASE UNCHANGED vars
  BY <1>2, RegistryStays, OthersTyped DEF vars, TypeOK, RunTypes
<1> QED
  BY <1>1, <1>2, AdministrationKeepsTypes, OthersKeepTypes DEF Next

\* The types of the rows and requests; among them that a request's job is there.
THEOREM DeskTypes == Spec => []TypeOK
BY TypesInitial, TypesStep, PTL DEF Spec
------------------------------------------------------------------------------
(* What a step does to the jobs. *)

\* No job goes away, and none changes what it was created for.
JobsGrow ==
  /\ DOMAIN jobs \subseteq DOMAIN jobs'
  /\ \A j \in DOMAIN jobs : jobs'[j].origin = jobs[j].origin

\* A job that has an issue after the step had it before, for the same, and does not
\* come back to review.
IssuesStay ==
  \A j \in DOMAIN jobs' :
    \/ jobs'[j].issue = 0
    \/ /\ j \in DOMAIN jobs
       /\ jobs'[j].issue = jobs[j].issue /\ Asks(jobs[j])' = Asks(jobs[j])
       /\ jobs'[j].status = "NEEDS_REVIEW" => jobs[j].status = "NEEDS_REVIEW"

LEMMA JobsWritten ==
  ASSUME TypeOK, [Next]_vars
  PROVE  \/ UNCHANGED jobs
         \/ \E r \in Repos, text \in Texts, origin \in Origins : Created(r, text, origin)
         \/ \E r \in Repos : DeleteRepository(r)
         \/ \E j \in DOMAIN jobs : Cancel(j) \/ Claim(j)
         \/ \E c \in Clients : EditWrites(c) \/ ApproveWrites(c)
<1>o. <<>> \in Origins
  BY DEF Origins
<1>1. CASE UNCHANGED vars
  BY <1>1 DEF vars
<1>2. ASSUME NEW c \in Clients, SampleClick(c) \/ SampleCreates(c)
      PROVE  UNCHANGED jobs \/ Created(Sample, SampleText, <<>>)
  BY <1>2 DEF SampleClick, SampleCreates
<1>3. ASSUME NEW c \in Clients, NEW t \in Titles, CreateOne(c, t)
      PROVE  \E r \in Repos, origin \in Origins : Created(r, t, origin)
  <2>1. requests[c] \in Queuings
    BY <1>3, RequestKinds DEF CreateOne, At
  <2>2. runs[requests[c].run].repository \in Repos /\ <<requests[c].run, t>> \in Origins
    BY <2>1 DEF TypeOK, Queuings, Origins
  <2> QED
    BY <1>3, <2>2 DEF CreateOne
<1>4. ASSUME NEW c \in Clients, NEW t \in Titles, CreateFails(c, t)
      PROVE  UNCHANGED jobs
  BY <1>4 DEF CreateFails
<1>5. ASSUME NEW c \in Clients, NEW d \in Runs, NEW titles \in SUBSET Titles,
             QueueClick(c, d, titles)
      PROVE  UNCHANGED jobs
  BY <1>5 DEF QueueClick
<1>6. ASSUME NEW c \in Clients, QueueFails(c) \/ MarkReads(c) \/ MarkWrites(c)
      PROVE  UNCHANGED jobs
  BY <1>6 DEF QueueFails, MarkReads, MarkWrites
<1>7. ASSUME NEW c \in Clients,
             NEW j \in DOMAIN jobs, NEW text \in Texts, NEW target \in Repos,
             EditReads(c, j, text, target)
      PROVE  UNCHANGED jobs
  BY <1>7 DEF EditReads
<1>8. ASSUME NEW c \in Clients, NEW j \in DOMAIN jobs, NEW createJiraTicket \in BOOLEAN,
             ApproveReads(c, j, createJiraTicket)
      PROVE  UNCHANGED jobs
  BY <1>8 DEF ApproveReads
<1>9. ASSUME NEW c \in Clients, FilesIssue(c) \/ FilingFails(c)
      PROVE  UNCHANGED jobs
  BY <1>9 DEF FilesIssue, FilingFails
<1>10. ASSUME AdministerTrackers \/ AdministerRepositories \/ Restart
       PROVE  UNCHANGED jobs
  BY <1>10 DEF AdministerTrackers, AdministerRepositories, Restart
<1>11. ASSUME NEW d \in Runs, DeleteRun(d) \/ \E r \in Repos : AnalyzePage(d, r)
       PROVE  UNCHANGED jobs
  BY <1>11 DEF DeleteRun, AnalyzePage
<1>12. ASSUME NEW r \in Repos, NEW text \in Texts, NewJob(r, text)
       PROVE  Created(r, text, <<>>)
  BY <1>12 DEF NewJob
<1>13. ASSUME NEW c \in Clients, Request(c)
       PROVE  \/ UNCHANGED jobs
              \/ \E r \in Repos, text \in Texts, origin \in Origins : Created(r, text, origin)
              \/ EditWrites(c) \/ ApproveWrites(c)
  <2>1. Titles \subseteq Texts /\ SampleText \in Texts /\ Sample \in Repos
    OBVIOUS
  <2> QED
    BY <1>13, <1>o, <1>2, <1>3, <1>4, <1>5, <1>6, <1>7, <1>8, <1>9, <2>1 DEF Request
<1> QED
  BY <1>o, <1>1, <1>10, <1>11, <1>12, <1>13 DEF Next

LEMMA JobsStep ==
  ASSUME TypeOK, ReviewInv, [Next]_vars
  PROVE  /\ JobsGrow
         /\ IssuesStay \/ \E c \in Clients : ApproveWrites(c)
<1> USE DEF JobsGrow, IssuesStay
<1>j. \A j \in DOMAIN jobs : jobs[j] \in Jobs
  BY DEF TypeOK
<1>1. CASE UNCHANGED jobs
  BY <1>1
<1>2. ASSUME NEW r \in Repos, NEW text \in Texts, NEW origin \in Origins,
             Created(r, text, origin)
      PROVE  JobsGrow /\ IssuesStay
  BY <1>2, CreatedTyped
<1>3. ASSUME NEW r \in Repos, DeleteRepository(r)
      PROVE  JobsGrow /\ IssuesStay
  BY <1>3, <1>j DEF DeleteRepository, Jobs, Asks
<1>4. ASSUME NEW j \in DOMAIN jobs, Cancel(j) \/ Claim(j)
      PROVE  JobsGrow /\ IssuesStay
  BY <1>4, <1>j DEF Cancel, Claim, Jobs, Asks
<1>5. ASSUME NEW c \in Clients, EditWrites(c)
      PROVE  JobsGrow /\ IssuesStay
  <2>1. requests[c] \in Edits /\ requests[c].job \in DOMAIN jobs
    BY <1>5, RequestKinds DEF EditWrites, At, TypeOK
  <2>2. requests[c].read.issue = 0
    BY <1>5 DEF ReviewInv, EditWrites, At
  <2> QED
    BY <1>5, <1>j, <2>1, <2>2 DEF EditWrites, Jobs
<1>6. ASSUME NEW c \in Clients, ApproveWrites(c)
      PROVE  JobsGrow
  <2>1. requests[c] \in Approvals /\ requests[c].job \in DOMAIN jobs
    BY <1>6, RequestKinds DEF ApproveWrites, At, TypeOK
  <2> QED
    BY <1>6, <1>j, <2>1 DEF ApproveWrites, Jobs
<1> QED
  BY <1>1, <1>2, <1>3, <1>4, <1>5, <1>6, JobsWritten
------------------------------------------------------------------------------
(* Issues. *)

\* Jira keeps its issues, so what an issue asked for it asks for later.
IssuesGrow ==
  /\ Len(issues) <= Len(issues')
  /\ \A n \in 1 .. Len(issues) : issues'[n] = issues[n]

\* What a request holds about an issue, and what it will write.
Holds(request) ==
  /\ request.kind = "edit" => request.read.issue = 0
  /\ request.kind = "approve" =>
       /\ Carries(request.issue, Asks(request.read))
       /\ request.at = "filing" => request.read.repository = request.read.target
       /\ jobs[request.job].edited = "apart" => request.read.target = jobs[request.job].target

LEMMA AppendGrows ==
  ASSUME TypeOK, NEW asked \in Issues,
         issues' \in {issues, Append(issues, asked)}
  PROVE  IssuesGrow
BY DEF TypeOK, IssuesGrow

LEMMA IssuesStep ==
  ASSUME TypeOK, [Next]_vars
  PROVE  IssuesGrow
<1>1. ASSUME UNCHANGED issues
      PROVE  IssuesGrow
  BY <1>1 DEF IssuesGrow, TypeOK
<1>2. ASSUME NEW c \in Clients, FilesIssue(c) \/ FilingFails(c)
      PROVE  IssuesGrow
  <2>1. requests[c] \in Approvals
    BY <1>2, RequestKinds DEF FilesIssue, FilingFails, At
  <2>2. issues' \in {issues, Append(issues, Asked(requests[c].read))}
    BY <1>2, Zenon DEF FilesIssue, FilingFails
  <2> QED
    BY <2>1, <2>2, AppendGrows DEF Approvals, Jobs, Asked, Issues
<1>3. \/ UNCHANGED issues
      \/ \E c \in Clients : FilesIssue(c) \/ FilingFails(c)
  BY DEF Next, Request, vars, AdministerTrackers, AdministerRepositories, DeleteRepository, NewJob,
         DeleteRun, AnalyzePage, SampleClick, SampleCreates, QueueClick, CreateOne, CreateFails,
         QueueFails, MarkReads, MarkWrites, EditReads, EditWrites, ApproveReads, ApproveWrites,
         Cancel, Claim, Restart
<1> QED
  BY <1>1, <1>2, <1>3

\* A request that changes holds about its issue what it has to.
LEMMA RequestHolds ==
  ASSUME TypeOK, ColumnInv, ReviewInv, [Next]_vars
  PROVE  \A c \in Clients : requests'[c] = requests[c] \/ Holds(requests[c])'
<1> SUFFICES ASSUME NEW c \in Clients PROVE requests'[c] = requests[c] \/ Holds(requests[c])'
  OBVIOUS
<1>1. ASSUME NEW d \in Clients, NEW request, Goes(d, request)
      PROVE  requests'[c] = requests[c] \/ requests'[c] = request
  BY <1>1 DEF Goes, TypeOK
<1>2. ASSUME NEW request, request.kind \notin {"edit", "approve"}, requests'[c] = request
      PROVE  Holds(requests[c])'
  BY <1>2 DEF Holds
<1>3. ASSUME NEW d \in Clients, SampleClick(d)
      PROVE  requests'[c] = requests[c] \/ Holds(requests[c])'
  BY <1>1, <1>2, <1>3 DEF SampleClick
<1>4. ASSUME NEW d \in Clients,
             \/ SampleCreates(d) \/ QueueFails(d) \/ MarkWrites(d)
             \/ EditWrites(d) \/ ApproveWrites(d)
      PROVE  requests'[c] = requests[c] \/ Holds(requests[c])'
  BY <1>1, <1>2, <1>4, IdleTyped
     DEF SampleCreates, QueueFails, MarkWrites, EditWrites, ApproveWrites, Ends
<1>5. ASSUME NEW d \in Clients,
             \/ \E run \in Runs, titles \in SUBSET Titles : QueueClick(d, run, titles)
             \/ \E t \in Titles : CreateOne(d, t) \/ CreateFails(d, t)
             \/ MarkReads(d)
      PROVE  requests'[c] = requests[c] \/ Holds(requests[c])'
  <2>1. ASSUME NEW run \in Runs, NEW titles \in SUBSET Titles, QueueClick(d, run, titles)
        PROVE  requests'[c] = requests[c] \/ Holds(requests[c])'
    BY <1>1, <1>2, <2>1 DEF QueueClick
  <2>2. ASSUME NEW t \in Titles, CreateOne(d, t) \/ CreateFails(d, t)
        PROVE  requests'[c] = requests[c] \/ Holds(requests[c])'
    <3>1. requests[d] \in Queuings
      BY <2>2, RequestKinds DEF CreateOne, CreateFails, At
    <3>2. PICK left, ok : Goes(d, [requests[d] EXCEPT !.left = left, !.ok = ok])
      BY <2>2, Zenon DEF CreateOne, CreateFails
    <3> DEFINE request == [requests[d] EXCEPT !.left = left, !.ok = ok]
    <3>3. request.kind = "queue" /\ Goes(d, request)
      BY <3>1, <3>2 DEF Queuings
    <3> HIDE DEF request
    <3> QED
      BY <1>1, <1>2, <3>3
  <2>3. CASE MarkReads(d)
    <3> DEFINE request == [requests[d] EXCEPT !.at = "marking",
                                              !.read = runs[requests[d].run].queued]
    <3>1. requests[d] \in Queuings
      BY <2>3, RequestKinds DEF MarkReads, AllCreated, At
    <3>2. request.kind = "queue" /\ (Goes(d, request) \/ Goes(d, Idle))
      BY <2>3, <3>1 DEF MarkReads, Ends, Queuings
    <3> HIDE DEF request
    <3> QED
      BY <1>1, <1>2, <3>2, IdleTyped
  <2> QED
    BY <1>5, <2>1, <2>2, <2>3
<1>6. ASSUME NEW d \in Clients, NEW j \in DOMAIN jobs, NEW text \in Texts, NEW target \in Repos,
             EditReads(d, j, text, target)
      PROVE  requests'[c] = requests[c] \/ Holds(requests[c])'
  <2>1. jobs[j].issue = 0
    BY <1>6 DEF EditReads, ReviewInv
  <2> QED
    BY <1>1, <1>6, <2>1 DEF EditReads, Holds
<1>7. ASSUME NEW d \in Clients, NEW j \in DOMAIN jobs, NEW createJiraTicket \in BOOLEAN,
             ApproveReads(d, j, createJiraTicket)
      PROVE  requests'[c] = requests[c] \/ Holds(requests[c])'
  <2> DEFINE request ==
        [kind |-> "approve", job |-> j, read |-> jobs[j], issue |-> jobs[j].issue,
         at |-> IF createJiraTicket /\ TrackerOf(jobs[j]) # NoTracker /\ jobs[j].issue = 0
                THEN "filing" ELSE "writing"]
  <2>1. jobs[j].issue = 0 /\ IsWhole(jobs[j]) /\ UNCHANGED jobs
    BY <1>7 DEF ApproveReads, ReviewInv, ColumnInv
  <2>2. request.at = "filing" => jobs[j].repository # NoRepo
    BY DEF TrackerOf
  <2>3. /\ request.kind = "approve" /\ request.job = j /\ request.read = jobs[j]
        /\ request.issue = 0 /\ Goes(d, request)
    BY <1>7, <2>1 DEF ApproveReads
  <2> HIDE DEF request
  <2> QED
    BY <1>1, <2>1, <2>2, <2>3 DEF Holds, Carries, IsWhole
<1>8. ASSUME NEW d \in Clients, FilesIssue(d) \/ FilingFails(d)
      PROVE  requests'[c] = requests[c] \/ Holds(requests[c])'
  <2>1. requests[d] \in Approvals /\ requests[d].kind = "approve"
    BY <1>8, RequestKinds DEF FilesIssue, FilingFails, At
  <2>4. /\ UNCHANGED jobs
        /\ jobs[requests[d].job].edited = "apart" =>
             requests[d].read.target = jobs[requests[d].job].target
    BY <1>8, <2>1 DEF FilesIssue, FilingFails, ColumnInv
  <2>2. CASE FilingFails(d)
    <3> DEFINE request == [requests[d] EXCEPT !.at = "writing"]
    <3>1. request.kind = "approve" /\ request.issue = requests[d].issue
          /\ request.read = requests[d].read /\ request.job = requests[d].job
          /\ request.at = "writing"
      BY <2>1 DEF Approvals
    <3>2. Goes(d, request)
      BY <2>2 DEF FilingFails
    <3>3. requests[d].issue # 0 =>
             /\ requests[d].issue <= Len(issues')
             /\ issues'[requests[d].issue] = Asks(requests[d].read)
      <4>1. requests[d].issue \in Nat /\ Carries(requests[d].issue, Asks(requests[d].read))
        BY <2>1 DEF ReviewInv, Approvals
      <4>2. issues \in Seq(Issues) /\ Asked(requests[d].read) \in Issues
        BY <2>1 DEF TypeOK, Approvals, Jobs, Asked, Issues
      <4>3. Len(issues) \in Nat /\ Len(issues') \in Nat
        BY <2>2, <4>2 DEF FilingFails
      <4> QED
        BY <4>1, <4>2, <4>3, IssuesStep DEF IssuesGrow, Carries
    <3> HIDE DEF request
    <3> QED
      BY <1>1, <2>4, <3>1, <3>2, <3>3 DEF Holds, Carries
  <2>3. CASE FilesIssue(d)
    <3> DEFINE request == [requests[d] EXCEPT !.at = "writing", !.issue = Len(issues')]
    <3>1. request.kind = "approve" /\ request.issue = Len(issues')
          /\ request.read = requests[d].read /\ request.job = requests[d].job
          /\ request.at = "writing"
      BY <2>1 DEF Approvals
    <3>2. Goes(d, request)
      BY <2>3 DEF FilesIssue
    <3>3. Len(issues') \in Nat /\ issues'[Len(issues')] = Asks(requests[d].read)
      <4>1. issues \in Seq(Issues) /\ Asked(requests[d].read) \in Issues
        BY <2>1 DEF TypeOK, Approvals, Jobs, Asked, Issues
      <4>2. Asked(requests[d].read) = Asks(requests[d].read)
        BY <2>1, <2>3 DEF ColumnInv, FilesIssue, Asked, Asks
      <4> QED
        BY <2>3, <4>1, <4>2 DEF FilesIssue
    <3> HIDE DEF request
    <3> QED
      BY <1>1, <2>4, <3>1, <3>2, <3>3 DEF Holds, Carries
  <2> QED
    BY <1>8, <2>2, <2>3
<1>9. CASE Restart
  BY <1>2, <1>9, IdleTyped DEF Restart
<1>10. CASE UNCHANGED requests
  BY <1>10
<1>11. \/ UNCHANGED requests \/ Restart
       \/ \E d \in Clients : Request(d)
  BY DEF Next, vars, AdministerTrackers, AdministerRepositories, DeleteRepository, NewJob,
         DeleteRun, AnalyzePage, Cancel, Claim
<1> QED
  BY <1>3, <1>4, <1>5, <1>6, <1>7, <1>8, <1>9, <1>10, <1>11 DEF Request
LEMMA ReviewStep ==
  ASSUME TypeOK, TypeOK', ColumnInv, ReviewInv, [Next]_vars
  PROVE  ReviewInv'
<1>1. ASSUME NEW j \in DOMAIN jobs'
      PROVE  /\ jobs'[j].status = "NEEDS_REVIEW" => jobs'[j].issue = 0
             /\ Carries(jobs[j].issue, Asks(jobs[j]))'
  <2>1. CASE IssuesStay
    <3>1. CASE jobs'[j].issue = 0
      BY <3>1 DEF Carries
    <3>2. CASE jobs'[j].issue # 0
      <4>1. /\ j \in DOMAIN jobs
            /\ jobs'[j].issue = jobs[j].issue /\ Asks(jobs[j])' = Asks(jobs[j])
            /\ jobs'[j].status = "NEEDS_REVIEW" => jobs[j].status = "NEEDS_REVIEW"
        BY <2>1, <3>2 DEF IssuesStay
      <4>2. jobs[j].issue \in Nat /\ Len(issues) \in Nat /\ Len(issues') \in Nat
        <5>1. jobs[j] \in Jobs
          BY <4>1 DEF TypeOK
        <5>2. jobs[j].issue \in Nat
          BY <5>1 DEF Jobs
        <5>3. issues \in Seq(Issues) /\ issues' \in Seq(Issues)
          BY DEF TypeOK
        <5> QED
          BY <5>2, <5>3
      <4>3. jobs[j].issue <= Len(issues) /\ issues[jobs[j].issue] = Asks(jobs[j])
        BY <3>2, <4>1 DEF ReviewInv, Carries
      <4>4. jobs[j].issue \in 1 .. Len(issues)
        BY <3>2, <4>1, <4>2, <4>3
      <4>5. jobs[j].issue <= Len(issues') /\ issues'[jobs[j].issue] = Asks(jobs[j])
        BY <4>2, <4>3, <4>4, IssuesStep DEF IssuesGrow
      <4> QED
        BY <4>1, <4>5 DEF ReviewInv, Carries
    <3> QED
      BY <3>1, <3>2
  <2>2. ASSUME NEW c \in Clients, ApproveWrites(c)
        PROVE  /\ jobs'[j].status = "NEEDS_REVIEW" => jobs'[j].issue = 0
               /\ Carries(jobs[j].issue, Asks(jobs[j]))'
    <3>1. requests[c] \in Approvals /\ requests[c].kind = "approve"
          /\ requests[c].job \in DOMAIN jobs
      BY <2>2, RequestKinds DEF ApproveWrites, At, TypeOK
    <3>2. Carries(requests[c].issue, Asks(requests[c].read)) /\ UNCHANGED issues
      BY <2>2, <3>1 DEF ReviewInv, ApproveWrites
    <3>3. j \in DOMAIN jobs /\ jobs[j] \in Jobs
      BY <2>2, <3>1 DEF ApproveWrites, TypeOK
    <3>4. CASE j = requests[c].job
      <4>1. /\ jobs'[j].issue = requests[c].issue /\ Asks(jobs[j])' = Asks(requests[c].read)
            /\ jobs'[j].status = "QUEUED"
        BY <2>2, <3>3, <3>4 DEF ApproveWrites, Jobs, Asks
      <4> QED
        BY <3>2, <4>1 DEF Carries
    <3>5. CASE j # requests[c].job
      <4>1. jobs'[j] = jobs[j]
        BY <2>2, <3>3, <3>5 DEF ApproveWrites
      <4> QED
        BY <3>2, <3>3, <4>1 DEF ReviewInv, Carries
    <3> QED
      BY <3>4, <3>5
  <2> QED
    BY <2>1, <2>2, JobsStep
<1>2. ASSUME NEW c \in Clients
      PROVE  /\ requests'[c].kind = "edit" => requests'[c].read.issue = 0
             /\ requests'[c].kind = "approve" =>
                  Carries(requests[c].issue, Asks(requests[c].read))'
  <2>1. CASE requests'[c] = requests[c]
    <3>1. Holds(requests[c])
      BY DEF ReviewInv, ColumnInv, Holds
    <3>2. requests[c].kind = "approve" => requests[c].issue \in Nat
      BY RequestKinds DEF Approvals
    <3>3. requests[c].kind = "approve" /\ requests[c].issue # 0 =>
            /\ requests[c].issue <= Len(issues')
            /\ issues'[requests[c].issue] = Asks(requests[c].read)
      <4> SUFFICES ASSUME requests[c].kind = "approve", requests[c].issue # 0
                   PROVE  /\ requests[c].issue <= Len(issues')
                          /\ issues'[requests[c].issue] = Asks(requests[c].read)
        OBVIOUS
      <4>1. Len(issues) \in Nat /\ Len(issues') \in Nat
        BY DEF TypeOK
      <4>2. /\ requests[c].issue \in 1 .. Len(issues)
            /\ issues[requests[c].issue] = Asks(requests[c].read)
        BY <3>1, <3>2, <4>1 DEF Holds, Carries
      <4> QED
        BY <4>1, <4>2, IssuesStep DEF IssuesGrow
    <3> QED
      BY <2>1, <3>1, <3>3 DEF Holds, Carries, Asks
  <2>2. CASE Holds(requests[c])'
    BY <2>2 DEF Holds
  <2> QED
    BY <2>1, <2>2, RequestHolds
<1> QED
  BY <1>1, <1>2 DEF ReviewInv

------------------------------------------------------------------------------
(* The column. *)

\* What a step leaves of the columns, and of the rows that approvals under way have read.
LEMMA ColumnJobs ==
  ASSUME TypeOK, ColumnInv, [Next]_vars
  PROVE  /\ \A j \in DOMAIN jobs' :
              jobs'[j].status = "NEEDS_REVIEW" \/ jobs'[j].edited = "apart" => IsWhole(jobs[j])'
         /\ \A c \in Clients :
              requests[c].kind = "approve" /\ jobs'[requests[c].job].edited = "apart" =>
                requests[c].read.target = jobs'[requests[c].job].target
<1> USE DEF IsWhole
<1>j. /\ \A j \in DOMAIN jobs : jobs[j] \in Jobs
      /\ \A c \in Clients : requests[c].kind = "approve" => requests[c].job \in DOMAIN jobs
  BY DEF TypeOK
<1>1. CASE UNCHANGED jobs
  BY <1>1, <1>j DEF ColumnInv
<1>2. ASSUME NEW r \in Repos, NEW text \in Texts, NEW origin \in Origins,
             Created(r, text, origin)
      PROVE  /\ \A j \in DOMAIN jobs' :
                  jobs'[j].status = "NEEDS_REVIEW" \/ jobs'[j].edited = "apart" =>
                    IsWhole(jobs[j])'
             /\ \A j \in DOMAIN jobs : jobs'[j] = jobs[j]
  BY <1>2, CreatedTyped DEF ColumnInv
<1>3. ASSUME NEW r \in Repos, DeleteRepository(r)
      PROVE  \A j \in DOMAIN jobs :
               /\ jobs'[j].status = jobs[j].status /\ jobs'[j].edited = jobs[j].edited
               /\ jobs'[j].target = jobs[j].target
               /\ jobs'[j].repository \in {jobs[j].repository, NoRepo}
  BY <1>3, <1>j DEF DeleteRepository, Jobs
<1>4. ASSUME NEW i \in DOMAIN jobs, Cancel(i) \/ Claim(i)
      PROVE  \A j \in DOMAIN jobs :
               /\ jobs'[j].status = "NEEDS_REVIEW" => jobs[j].status = "NEEDS_REVIEW"
               /\ jobs'[j].edited = jobs[j].edited /\ jobs'[j].target = jobs[j].target
               /\ jobs'[j].repository = jobs[j].repository
  BY <1>4, <1>j DEF Cancel, Claim, Jobs
<1>5. ASSUME NEW d \in Clients, EditWrites(d)
      PROVE  \A j \in DOMAIN jobs :
               \/ jobs'[j] = jobs[j]
               \/ /\ jobs'[j].repository = jobs'[j].target
                  /\ IsBesideApproval(j) => jobs'[j].edited = "beside"
  <2>1. requests[d] \in Edits /\ requests[d].job \in DOMAIN jobs
    BY <1>5, RequestKinds DEF EditWrites, At, TypeOK
  <2> QED
    BY <1>5, <1>j, <2>1 DEF EditWrites, Jobs
<1>6. ASSUME NEW d \in Clients, ApproveWrites(d)
      PROVE  \A j \in DOMAIN jobs :
               \/ jobs'[j] = jobs[j]
               \/ /\ jobs'[j].status = "QUEUED" /\ jobs'[j].edited = jobs[j].edited
                  /\ jobs'[j].repository = jobs[j].repository
                  /\ jobs'[j].edited = "apart" => jobs'[j].target = jobs[j].target
  <2>1. requests[d] \in Approvals /\ requests[d].job \in DOMAIN jobs
    BY <1>6, RequestKinds DEF ApproveWrites, At, TypeOK
  <2>2. jobs[requests[d].job].edited = "apart" =>
          requests[d].read.target = jobs[requests[d].job].target
    BY <1>6 DEF ColumnInv, ApproveWrites, At
  <2> QED
    BY <1>6, <1>j, <2>1, <2>2 DEF ApproveWrites, Jobs
<1>7. ASSUME NEW r \in Repos, DeleteRepository(r) PROVE DOMAIN jobs' = DOMAIN jobs
  BY <1>7 DEF DeleteRepository
<1>8. ASSUME NEW i \in DOMAIN jobs, Cancel(i) \/ Claim(i) PROVE DOMAIN jobs' = DOMAIN jobs
  BY <1>8 DEF Cancel, Claim
<1>9. ASSUME NEW d \in Clients, EditWrites(d) \/ ApproveWrites(d)
      PROVE  DOMAIN jobs' = DOMAIN jobs
  BY <1>9 DEF EditWrites, ApproveWrites
<1>10. ASSUME NEW d \in Clients, EditWrites(d)
       PROVE  \A c \in Clients :
                requests[c].kind = "approve" => IsBesideApproval(requests[c].job)
  BY DEF IsBesideApproval, At
<1> QED
  BY <1>j, <1>1, <1>2, <1>3, <1>4, <1>5, <1>6, <1>7, <1>8, <1>9, <1>10, JobsWritten DEF ColumnInv

LEMMA ColumnStep ==
  ASSUME TypeOK, ColumnInv, ReviewInv, [Next]_vars PROVE ColumnInv'
<1>1. ASSUME NEW c \in Clients, requests'[c].kind = "approve"
      PROVE  /\ requests'[c].at = "filing" =>
                  requests'[c].read.repository = requests'[c].read.target
             /\ jobs'[requests'[c].job].edited = "apart" =>
                  requests'[c].read.target = jobs'[requests'[c].job].target
  <2>1. CASE requests'[c] = requests[c]
    BY <1>1, <2>1, ColumnJobs DEF ColumnInv
  <2>2. CASE Holds(requests[c])'
    BY <1>1, <2>2 DEF Holds
  <2> QED
    BY <2>1, <2>2, RequestHolds
<1> QED
  BY <1>1, ColumnJobs DEF ColumnInv

\* What jobs, approvals and edits hold in every state.
LEMMA ReviewHolds == Spec => [](ReviewInv /\ ColumnInv)
<1>1. Init => ReviewInv /\ ColumnInv
  BY IdleTyped DEF Init, ReviewInv, ColumnInv
<1>2. TypeOK /\ TypeOK' /\ ColumnInv /\ ReviewInv /\ [Next]_vars => ReviewInv' /\ ColumnInv'
  BY ReviewStep, ColumnStep
<1> QED
  BY <1>1, <1>2, DeskTypes, PTL DEF Spec

\* A job's Jira issue asks for what the job's payload asks for and in the payload's repository,
\* however edits and approvals interleave; the column names that repository too, unless the
\* last edit was written beside an approval or the repository is gone.
THEOREM IssuesAgree == Spec => []QueuedAsFiled
<1>1. ReviewInv /\ ColumnInv => QueuedAsFiled
  <2> SUFFICES ASSUME ReviewInv, ColumnInv, NEW j \in DOMAIN jobs, jobs[j].issue # 0
               PROVE  /\ jobs[j].issue <= Len(issues) /\ issues[jobs[j].issue] = Asks(jobs[j])
                      /\ jobs[j].edited = "apart" =>
                           jobs[j].repository \in {issues[jobs[j].issue].repository, NoRepo}
    BY DEF QueuedAsFiled, Asks
  <2>1. jobs[j].issue <= Len(issues) /\ issues[jobs[j].issue] = Asks(jobs[j])
    BY DEF ReviewInv, Carries
  <2> QED
    BY <2>1 DEF ColumnInv, IsWhole, Asks
<1> QED
  BY <1>1, ReviewHolds, PTL

------------------------------------------------------------------------------
(* Recommendations. *)

\* What a queueing knows of the jobs it created.
Tracks(request) ==
  request.kind = "queue" =>
    /\ request.ok => \A t \in request.titles \ request.left : HasJob(request.run, t)
    /\ request.at = "marking" =>
         /\ request.ok /\ request.left = {}
         /\ \A t \in request.read : HasJob(request.run, t)
\* After the step, the run's title has its job.
WillHaveJob(d, t) == \E j \in DOMAIN jobs' : jobs'[j].origin = <<d, t>>

LEMMA StillHasJob ==
  ASSUME NEW d, NEW t, HasJob(d, t), JobsGrow
  PROVE  WillHaveJob(d, t)
BY DEF HasJob, WillHaveJob, JobsGrow

\* Only the last step of a queueing marks.
LEMMA MarksWritten ==
  ASSUME TypeOK, [Next]_vars, NEW d \in Runs
  PROVE  \/ runs'[d].queued = runs[d].queued
         \/ \E c \in Clients :
              /\ requests[c] \in Queuings /\ requests[c].kind = "queue"
              /\ requests[c].run = d /\ requests[c].at = "marking"
              /\ runs'[d].queued = requests[c].read \cup requests[c].titles
<1> DEFINE Goal ==
      \/ runs'[d].queued = runs[d].queued
      \/ \E c \in Clients :
           /\ requests[c] \in Queuings /\ requests[c].kind = "queue"
           /\ requests[c].run = d /\ requests[c].at = "marking"
           /\ runs'[d].queued = requests[c].read \cup requests[c].titles
<1>1. CASE UNCHANGED runs
  BY <1>1
<1>2. ASSUME NEW e \in Runs, DeleteRun(e) \/ \E r \in Repos : SaveRun(e, r)
      PROVE  Goal
  BY <1>2 DEF DeleteRun, SaveRun, TypeOK
<1>3. ASSUME NEW r \in Repos, DeleteRepository(r)
      PROVE  Goal
  BY <1>3 DEF DeleteRepository, TypeOK
<1>4. ASSUME NEW c \in Clients, MarkWrites(c)
      PROVE  Goal
  <2>1. requests[c] \in Queuings /\ requests[c].kind = "queue" /\ requests[c].at = "marking"
    BY <1>4, RequestKinds DEF MarkWrites, At
  <2>2. CASE requests[c].run = d /\ runs[d].life = "here"
    <3>1. runs'[d].queued = requests[c].read \cup requests[c].titles
      BY <1>4, <2>2 DEF MarkWrites, TypeOK
    <3> QED
      BY <2>1, <2>2, <3>1
  <2>3. CASE ~(requests[c].run = d /\ runs[d].life = "here")
    BY <1>4, <2>3 DEF MarkWrites, TypeOK
  <2> QED
    BY <2>2, <2>3
<1>5. \/ UNCHANGED runs
      \/ \E e \in Runs : DeleteRun(e) \/ \E r \in Repos : SaveRun(e, r)
      \/ \E r \in Repos : DeleteRepository(r)
      \/ \E c \in Clients : MarkWrites(c)
  BY DEF Next, Request, vars, AdministerTrackers, AdministerRepositories, NewJob, AnalyzePage,
         SampleClick, SampleCreates, QueueClick, CreateOne, CreateFails, QueueFails, MarkReads,
         EditReads, EditWrites, ApproveReads, FilesIssue, FilingFails, ApproveWrites, Cancel,
         Claim, Restart
<1> HIDE DEF Goal
<1>6. Goal
  BY <1>1, <1>2, <1>3, <1>4, <1>5 DEF Goal
<1> QED
  BY <1>6 DEF Goal

\* A queueing that changes has created what it counts, and read what has its jobs.
LEMMA RequestTracks ==
  ASSUME TypeOK, ReviewInv, MarkInv, [Next]_vars
  PROVE  \A c \in Clients : requests'[c] = requests[c] \/ Tracks(requests[c])'
<1> SUFFICES ASSUME NEW c \in Clients
             PROVE  requests'[c] = requests[c] \/ Tracks(requests[c])'
  OBVIOUS
<1> DEFINE Goal == requests'[c] = requests[c] \/ Tracks(requests[c])'
<1>g. JobsGrow
  BY JobsStep
<1>1. ASSUME NEW d \in Clients, NEW request, Goes(d, request)
      PROVE  requests'[c] = requests[c] \/ (d = c /\ requests'[c] = request)
  BY <1>1 DEF Goes, TypeOK
<1>2. ASSUME NEW d \in Clients, NEW request, Goes(d, request), request.kind # "queue"
      PROVE  Goal
  BY <1>1, <1>2 DEF Tracks
<1>3. ASSUME NEW d \in Clients, NEW run \in Runs, NEW titles \in SUBSET Titles,
             QueueClick(d, run, titles)
      PROVE  Goal
  BY <1>1, <1>3 DEF QueueClick, Tracks
<1>4. ASSUME NEW d \in Clients, NEW t \in Titles, CreateOne(d, t)
      PROVE  Goal
  <2>1. requests[d] \in Queuings /\ requests[d].kind = "queue" /\ t \in requests[d].left
    BY <1>4, RequestKinds DEF CreateOne, At
  <2>2. WillHaveJob(requests[d].run, t)
    <3>1. runs[requests[d].run].repository \in Repos /\ <<requests[d].run, t>> \in Origins
      BY <2>1 DEF TypeOK, Queuings, Origins
    <3>2. Created(runs[requests[d].run].repository, t, <<requests[d].run, t>>)
      BY <1>4 DEF CreateOne
    <3>3. \E j \in DOMAIN jobs' : jobs'[j].origin = <<requests[d].run, t>>
      BY <3>1, <3>2, CreatedTyped
    <3> QED
      BY <3>3 DEF WillHaveJob
  <2>3. PICK answered \in BOOLEAN :
          Goes(d, [requests[d] EXCEPT !.left = @ \ {t}, !.ok = @ /\ answered])
    BY <1>4 DEF CreateOne
  <2> DEFINE request == [requests[d] EXCEPT !.left = @ \ {t}, !.ok = @ /\ answered]
  <2>4. /\ request.run = requests[d].run /\ request.titles = requests[d].titles
        /\ request.left = requests[d].left \ {t} /\ request.at = requests[d].at
        /\ request.ok => requests[d].ok
    <3>1. requests[d].ok \in BOOLEAN
      BY <2>1 DEF Queuings
    <3> QED
      BY <2>1, <3>1, Zenon DEF Queuings
  <2>5. requests[d].at # "marking"
    BY <2>1 DEF MarkInv
  <2>6. request.ok => \A u \in request.titles \ request.left : WillHaveJob(request.run, u)
    <3> SUFFICES ASSUME request.ok, NEW u \in request.titles \ request.left
                 PROVE  WillHaveJob(request.run, u)
      OBVIOUS
    <3>1. CASE u = t
      BY <2>2, <2>4, <3>1
    <3>2. CASE u # t
      <4>1. HasJob(requests[d].run, u)
        BY <2>1, <2>4, <3>2 DEF MarkInv
      <4>2. WillHaveJob(requests[d].run, u)
        BY <1>g, <4>1, StillHasJob
      <4> QED
        BY <2>4, <4>2
    <3> QED
      BY <3>1, <3>2
  <2>7. Goes(d, request)
    BY <2>3
  <2> HIDE DEF request
  <2> QED
    BY <1>1, <2>4, <2>5, <2>6, <2>7 DEF Tracks, HasJob, WillHaveJob
<1>5. ASSUME NEW d \in Clients, NEW t \in Titles, CreateFails(d, t)
      PROVE  Goal
  <2>1. requests[d] \in Queuings /\ requests[d].kind = "queue" /\ t \in requests[d].left
    BY <1>5, RequestKinds DEF CreateFails, At
  <2> DEFINE request == [requests[d] EXCEPT !.left = @ \ {t}, !.ok = FALSE]
  <2>2. ~request.ok /\ request.at = requests[d].at
    BY <2>1 DEF Queuings
  <2>3. requests[d].at # "marking"
    BY <2>1 DEF MarkInv
  <2>4. Goes(d, request)
    BY <1>5 DEF CreateFails
  <2> HIDE DEF request
  <2> QED
    BY <1>1, <2>2, <2>3, <2>4 DEF Tracks
<1>6. ASSUME NEW d \in Clients, MarkReads(d)
      PROVE  Goal
  <2>1. requests[d] \in Queuings /\ requests[d].kind = "queue" /\ requests[d].left = {}
        /\ requests[d].ok
    BY <1>6, RequestKinds DEF MarkReads, AllCreated, At
  <2> DEFINE request == [requests[d] EXCEPT !.at = "marking",
                                            !.read = runs[requests[d].run].queued]
  <2>2. /\ request.run = requests[d].run /\ request.titles = requests[d].titles
        /\ request.left = {} /\ request.ok /\ request.read = runs[requests[d].run].queued
    BY <2>1 DEF Queuings
  <2>3. requests[d].run \in Runs
    BY <2>1 DEF Queuings
  <2>4. \A t \in request.read \cup request.titles : HasJob(request.run, t)
    BY <2>1, <2>2, <2>3 DEF MarkInv
  <2>5. \A t \in request.read \cup request.titles : WillHaveJob(request.run, t)
    BY <1>g, <2>4, StillHasJob
  <2>6. Goes(d, request) \/ Goes(d, Idle)
    BY <1>6 DEF MarkReads, Ends
  <2> HIDE DEF request
  <2>7. CASE Goes(d, request)
    BY <1>1, <2>2, <2>5, <2>7 DEF Tracks, HasJob, WillHaveJob
  <2> QED
    BY <1>2, <2>6, <2>7, IdleTyped
<1>7. ASSUME NEW d \in Clients,
             \/ SampleCreates(d) \/ QueueFails(d) \/ MarkWrites(d)
             \/ EditWrites(d) \/ ApproveWrites(d)
      PROVE  Goal
  <2>1. Goes(d, Idle)
    BY <1>7 DEF SampleCreates, QueueFails, MarkWrites, EditWrites, ApproveWrites, Ends
  <2> QED
    BY <1>2, <2>1, IdleTyped
<1>8. ASSUME NEW d \in Clients, SampleClick(d)
      PROVE  Goal
  BY <1>2, <1>8 DEF SampleClick
<1>9. ASSUME NEW d \in Clients, NEW j \in DOMAIN jobs, NEW text \in Texts, NEW target \in Repos,
             EditReads(d, j, text, target)
      PROVE  Goal
  BY <1>2, <1>9 DEF EditReads
<1>10. ASSUME NEW d \in Clients, NEW j \in DOMAIN jobs, NEW createJiraTicket \in BOOLEAN,
              ApproveReads(d, j, createJiraTicket)
       PROVE  Goal
  BY <1>2, <1>10 DEF ApproveReads
<1>11. ASSUME NEW d \in Clients, FilesIssue(d) \/ FilingFails(d)
       PROVE  Goal
  <2>1. requests[d] \in Approvals
    BY <1>11, RequestKinds DEF FilesIssue, FilingFails, At
  <2>2. /\ [requests[d] EXCEPT !.at = "writing"].kind = "approve"
        /\ [requests[d] EXCEPT !.at = "writing", !.issue = Len(issues')].kind = "approve"
    BY <2>1 DEF Approvals
  <2> QED
    BY <1>2, <1>11, <2>2 DEF FilesIssue, FilingFails
<1>12. CASE Restart
  BY <1>12, IdleTyped DEF Restart, Tracks
<1>13. CASE UNCHANGED requests
  BY <1>13
<1>14. \/ UNCHANGED requests \/ Restart
       \/ \E d \in Clients : Request(d)
  BY DEF Next, vars, AdministerTrackers, AdministerRepositories, DeleteRepository, NewJob,
         DeleteRun, AnalyzePage, Cancel, Claim
<1> HIDE DEF Goal
<1>15. Goal
  BY <1>3, <1>4, <1>5, <1>6, <1>7, <1>8, <1>9, <1>10, <1>11, <1>12, <1>13, <1>14
     DEF Request, Goal
<1> QED
  BY <1>15 DEF Goal
LEMMA MarkStep ==
  ASSUME TypeOK, ReviewInv, MarkInv, [Next]_vars
  PROVE  MarkInv'
<1>g. JobsGrow
  BY JobsStep
<1>1. ASSUME NEW d \in Runs, NEW t \in runs'[d].queued
      PROVE  WillHaveJob(d, t)
  <2>1. CASE runs'[d].queued = runs[d].queued
    <3>1. HasJob(d, t)
      BY <1>1, <2>1 DEF MarkInv
    <3> QED
      BY <1>g, <3>1, StillHasJob
  <2>2. ASSUME NEW c \in Clients, requests[c].kind = "queue",
               requests[c].run = d, requests[c].at = "marking",
               runs'[d].queued = requests[c].read \cup requests[c].titles
        PROVE  WillHaveJob(d, t)
    <3>1. HasJob(d, t)
      BY <1>1, <2>2 DEF MarkInv
    <3> QED
      BY <1>g, <3>1, StillHasJob
  <2> QED
    BY <2>1, <2>2, MarksWritten
<1>2. ASSUME NEW c \in Clients
      PROVE  Tracks(requests[c])'
  <2>1. CASE requests'[c] = requests[c]
    <3>1. Tracks(requests[c])
      BY DEF MarkInv, Tracks
    <3>2. \A t : HasJob(requests[c].run, t) => WillHaveJob(requests[c].run, t)
      BY <1>g, StillHasJob
    <3> QED
      BY <2>1, <3>1, <3>2 DEF Tracks, HasJob, WillHaveJob
  <2> QED
    BY <2>1, RequestTracks
<1> QED
  BY <1>1, <1>2 DEF MarkInv, Tracks, HasJob, WillHaveJob

\* A recommendation marked as queued has a job, whatever requests failed, ran side by side or
\* were made from an old page.
THEOREM MarkedHasJob == Spec => []QueuedHasJob
<1>1. Init => MarkInv
  BY IdleTyped DEF Init, MarkInv
<1>2. TypeOK /\ ReviewInv /\ MarkInv /\ [Next]_vars => MarkInv'
  BY MarkStep
<1>3. Spec => []MarkInv
  BY <1>1, <1>2, DeskTypes, ReviewHolds, PTL DEF Spec
<1>4. MarkInv => QueuedHasJob
  BY DEF MarkInv, HasJob, QueuedHasJob
<1> QED
  BY <1>3, <1>4, PTL
=============================================================================
