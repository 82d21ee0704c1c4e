--------------------------- MODULE FrameworkBuild ---------------------------
(***************************************************************************)
(* The framework routes of the API: creating the files of a generated test *)
(* framework in a local directory or in a pull request, installing its     *)
(* dependencies and running its smoke test (server.ts,                     *)
(* framework-template.ts, framework-validation.ts).                        *)
(*                                                                         *)
(* Every build of the model has the same target directory and GitHub       *)
(* repository.  A handler runs to its end whether or not anybody waits for *)
(* it; one action is one of its outside effects.                           *)
(***************************************************************************)
EXTENDS Naturals, Sequences, FiniteSets

CONSTANTS
  NFiles,        \* the files of the template; the first is package.json
  Options,       \* the forms a user may submit
  MaxClicks      \* bound on the user's clicks; each starts three handlers at most

ASSUME FrameworkBuildAssumption ==
  /\ NFiles \in Nat \ {0} /\ MaxClicks \in Nat
  /\ \A o \in Options :
       /\ o.dest \in {"local", "github"}
       /\ {o.overwrite, o.init, o.remote, o.register, o.auto} \subseteq BOOLEAN

VARIABLES
  dir,           \* the target directory
  hub,           \* GitHub
  rows,          \* the framework_builds rows
  registered,    \* whether the directory is registered as a repository
  handlers,      \* the handlers in progress
  answers        \* what the ended handlers have answered

buildVars == <<dir, hub, rows, registered, handlers, answers>>

Files == 1 .. NFiles
Manifest == 1
Acts == 1 .. 3 * MaxClicks

\* A file that exists need not be whole: writeFile truncates it first.
\* git: the work tree the directory belongs to; report: the run that wrote it.
Directories ==
  [files : SUBSET Files, whole : SUBSET Files, git : {"none", "enclosing", "own"},
   commit : SUBSET Files, origin : BOOLEAN, modules : BOOLEAN, report : {0} \cup Acts]

\* main: the framework files on the default branch; branches: the files on the branch of
\* each handler; prs: the handlers whose pull requests were opened.
Hubs ==
  [repo : BOOLEAN, main : SUBSET Files, branches : [Acts -> SUBSET Files],
   refs : SUBSET Acts, prs : SUBSET Acts]

GitStatuses == {"", "not_requested", "already_repo", "initialized", "skipped"}
RemoteStatuses == {"", "not_requested", "skipped", "already_remote", "created", "failed"}
InstallStatuses == {"", "skipped", "failed", "installed"}
SmokeStatuses == {"", "skipped", "failed", "passed"}
\* smokeRun: the handler of the last smoke test; smokeReport: whose report it read.
Rows ==
  [act : Acts, dest : {"local", "github"}, made : SUBSET Files, git : GitStatuses,
   remote : RemoteStatuses, registered : BOOLEAN, install : InstallStatuses,
   smoke : SmokeStatuses, smokeRun : {0} \cup Acts, smokeReport : {0} \cup Acts]

NoForm ==
  [dest |-> "none", overwrite |-> FALSE, init |-> FALSE, remote |-> FALSE,
   register |-> FALSE, auto |-> FALSE]
Points ==
  {"start", "remote", "push", "tree", "ref", "commit", "pr", "register", "record",
   "install", "approve", "again", "browser", "delete", "test", "report", "save"}
Statuses == {"created", "error"} \cup InstallStatuses \cup SmokeStatuses
Handlers ==
  [id : Acts, kind : {"create", "install", "smoke"}, at : Points, opts : Options \cup {NoForm},
   build : Nat, next : 1 .. NFiles + 1, made : SUBSET Files, git : GitStatuses,
   remote : RemoteStatuses, status : Statuses, report : {0} \cup Acts]
Answers == [id : Acts, build : Nat, status : Statuses]

BuildTypes ==
  /\ dir \in Directories /\ hub \in Hubs /\ rows \in Seq(Rows) /\ registered \in BOOLEAN
  /\ handlers \subseteq Handlers /\ answers \subseteq Answers

BuildInit ==
  /\ dir \in [files : {{}}, whole : {{}}, git : {"none", "enclosing"}, commit : {{}},
              origin : {FALSE}, modules : {FALSE}, report : {0}]
  /\ hub \in [repo : BOOLEAN, main : {{}}, branches : {[a \in Acts |-> {}]},
              refs : {{}}, prs : {{}}]
  /\ rows = <<>> /\ registered = FALSE /\ handlers = {} /\ answers = {}

------------------------------------------------------------------------------

Handler(id, kind, opts, build) ==
  [id |-> id, kind |-> kind, at |-> "start", opts |-> opts, build |-> build, next |-> 1,
   made |-> {}, git |-> "", remote |-> "", status |-> "", report |-> 0]

Becomes(h, g) == handlers' = (handlers \ {h}) \cup {g} /\ UNCHANGED answers
Goes(h, at) == Becomes(h, [h EXCEPT !.at = at])
Answers_(h, build, status) ==
  /\ handlers' = handlers \ {h}
  /\ answers' = answers \cup {[id |-> h.id, build |-> build, status |-> status]}
\* A handler that throws answers with an error.
Throws(h) == Answers_(h, 0, "error")

At(h, kind, at) == h.kind = kind /\ h.at = at

------------------------------------------------------------------------------
(* POST /frameworks/create, destination "local": createFrameworkFiles. *)

IsLocal(h) == h.opts.dest = "local"

\* A file that is there is skipped unless the user wants it overwritten.
SkipFile(h) ==
  /\ At(h, "create", "start") /\ IsLocal(h) /\ h.next \in dir.files /\ ~h.opts.overwrite
  /\ Becomes(h, [h EXCEPT !.next = @ + 1])
  /\ UNCHANGED <<dir, hub, rows, registered>>

Writes(h) ==
  /\ At(h, "create", "start") /\ IsLocal(h) /\ h.next \in Files
  /\ h.next \in dir.files => h.opts.overwrite
WriteNext(h) ==
  /\ Writes(h)
  /\ dir' = [dir EXCEPT !.files = @ \cup {h.next}, !.whole = @ \cup {h.next}]
  /\ Becomes(h, [h EXCEPT !.next = @ + 1, !.made = @ \cup {h.next}])
  /\ UNCHANGED <<hub, rows, registered>>

\* mkdir or writeFile throws, with or without a file left behind.
WriteFails(h) ==
  /\ Writes(h)
  /\ \/ dir' = [dir EXCEPT !.files = @ \cup {h.next}, !.whole = @ \ {h.next}]
     \/ UNCHANGED dir
  /\ Throws(h) /\ UNCHANGED <<hub, rows, registered>>

\* initializeLocalGitRepository: a failure is a status, also when git init had succeeded.
GitDone(h, status) == Becomes(h, [h EXCEPT !.at = "remote", !.git = status])
InitGit(h) ==
  /\ At(h, "create", "start") /\ IsLocal(h) /\ h.next \notin Files
  /\ \/ ~h.opts.init /\ GitDone(h, "not_requested") /\ UNCHANGED dir
     \/ h.opts.init /\ dir.git # "none" /\ GitDone(h, "already_repo") /\ UNCHANGED dir
     \/ /\ h.opts.init /\ dir.git = "none" /\ GitDone(h, "initialized")
        /\ dir' = [dir EXCEPT !.git = "own", !.commit = dir.files]
     \/ /\ h.opts.init /\ dir.git = "none" /\ GitDone(h, "skipped")
        /\ \/ dir' = [dir EXCEPT !.git = "own"]
           \/ UNCHANGED dir
  /\ UNCHANGED <<hub, rows, registered>>

\* createGithubRemoteForLocalFramework, up to the creation of the repository.
RemoteDone(h, status) == Becomes(h, [h EXCEPT !.at = "register", !.remote = status])
NoRemote(h) ==
  /\ At(h, "create", "remote")
  /\ \/ ~h.opts.remote /\ RemoteDone(h, "not_requested")
     \/ h.opts.remote /\ RemoteDone(h, "skipped")              \* no token or no work tree
     \/ h.opts.remote /\ dir.git # "none" /\ dir.origin /\ RemoteDone(h, "already_remote")
  /\ UNCHANGED <<dir, hub, rows, registered>>

WantsRemote(h) == h.opts.remote /\ dir.git # "none" /\ ~dir.origin
CreateRemote(h) ==
  /\ At(h, "create", "remote") /\ WantsRemote(h) /\ ~hub.repo
  /\ hub' = [hub EXCEPT !.repo = TRUE]
  /\ Goes(h, "push")
  /\ UNCHANGED <<dir, rows, registered>>

\* A name that is taken, or any other refusal, throws: files and git stay as they are.
RemoteRefused(h) ==
  /\ At(h, "create", "remote") /\ WantsRemote(h)
  /\ Throws(h) /\ UNCHANGED <<dir, hub, rows, registered>>

\* A faulty variant of PushFails: the failure is not reported.
PushFailsSilently(h) ==
  /\ At(h, "create", "push")
  /\ RemoteDone(h, "created")
  /\ UNCHANGED <<dir, hub, rows, registered>>

\* git branch -M, remote add and push: pushes what the work tree has committed.
CanPush == ~dir.origin /\ (dir.git = "enclosing" \/ dir.commit # {})
Push(h) ==
  /\ At(h, "create", "push") /\ CanPush
  /\ dir' = [dir EXCEPT !.origin = TRUE]
  /\ hub' = [hub EXCEPT !.main = dir.commit]
  /\ RemoteDone(h, "created")
  /\ UNCHANGED <<rows, registered>>

PushFails(h) ==
  /\ At(h, "create", "push")
  /\ \/ dir' = [dir EXCEPT !.origin = TRUE]
     \/ UNCHANGED dir
  /\ RemoteDone(h, "failed")
  /\ UNCHANGED <<hub, rows, registered>>

\* registerGeneratedFrameworkRepository upserts.
Register(h) ==
  /\ At(h, "create", "register")
  /\ registered' = (registered \/ h.opts.register)
  /\ Goes(h, "record")
  /\ UNCHANGED <<dir, hub, rows>>

------------------------------------------------------------------------------
(* Destination "github": createFrameworkPullRequest. *)

HubStep(h, from, to) == At(h, "create", from) /\ ~IsLocal(h) /\ Goes(h, to)

\* A repository that was just created holds a README only, and is overwritten.
CreateRepository(h) ==
  /\ At(h, "create", "start") /\ ~IsLocal(h) /\ h.opts.remote /\ ~hub.repo
  /\ hub' = [hub EXCEPT !.repo = TRUE]
  /\ Goes(h, "tree") /\ UNCHANGED <<dir, rows, registered>>
UseRepository(h) ==
  /\ HubStep(h, "start", "tree") /\ ~h.opts.remote /\ hub.repo
  /\ UNCHANGED <<dir, hub, rows, registered>>

\* The files of the tree; none is an error.
ReadBranch(h) ==
  /\ At(h, "create", "tree")
  /\ LET new == IF h.opts.overwrite \/ h.opts.remote THEN Files ELSE Files \ hub.main IN
       IF new = {} THEN Throws(h) ELSE Becomes(h, [h EXCEPT !.at = "ref", !.made = new])
  /\ UNCHANGED <<dir, hub, rows, registered>>
\* A faulty variant of CreateRef: the step that moves the branch is left out.
CreateRefOnly(h) ==
  /\ HubStep(h, "ref", "pr")
  /\ hub' = [hub EXCEPT !.refs = @ \cup {h.id}, !.branches[h.id] = hub.main]
  /\ UNCHANGED <<dir, rows, registered>>
CreateRef(h) ==
  /\ HubStep(h, "ref", "commit")
  /\ hub' = [hub EXCEPT !.refs = @ \cup {h.id}, !.branches[h.id] = hub.main]
  /\ UNCHANGED <<dir, rows, registered>>
\* The tree and the commit are nothing to look at until the branch is moved to them.
MoveRef(h) ==
  /\ HubStep(h, "commit", "pr")
  /\ hub' = [hub EXCEPT !.branches[h.id] = @ \cup h.made]
  /\ UNCHANGED <<dir, rows, registered>>
OpenPr(h) ==
  /\ HubStep(h, "pr", "record")
  /\ hub' = [hub EXCEPT !.prs = @ \cup {h.id}]
  /\ UNCHANGED <<dir, rows, registered>>
\* Any request to GitHub may be refused; what the earlier ones did stays.
HubRefuses(h) ==
  /\ h.kind = "create" /\ ~IsLocal(h) /\ h.at \in {"start", "tree", "ref", "commit", "pr"}
  /\ Throws(h) /\ UNCHANGED <<dir, hub, rows, registered>>

------------------------------------------------------------------------------

Row(h) ==
  [act |-> h.id, dest |-> h.opts.dest, made |-> h.made, git |-> h.git, remote |-> h.remote,
   registered |-> IsLocal(h) /\ h.opts.register,
   install |-> "", smoke |-> "", smokeRun |-> 0, smokeReport |-> 0]
Record(h) ==
  /\ At(h, "create", "record")
  /\ rows' = Append(rows, Row(h))
  /\ Answers_(h, Len(rows'), "created")
  /\ UNCHANGED <<dir, hub, registered>>
\* The database refuses the repository or the build.
DatabaseFails(h) ==
  /\ \/ At(h, "create", "register") /\ h.opts.register
     \/ At(h, "create", "record")
     \/ h.at = "save"
  /\ Throws(h) /\ UNCHANGED <<dir, hub, rows, registered>>

------------------------------------------------------------------------------
(* POST /frameworks/install-dependencies. *)

Saves(h, status) == Becomes(h, [h EXCEPT !.at = "save", !.status = status])

FindManifest(h) ==
  /\ At(h, "install", "start")
  /\ IF Manifest \in dir.files THEN Goes(h, "install") ELSE Saves(h, "skipped")
  /\ UNCHANGED <<dir, hub, rows, registered>>
\* pnpm install, which may first want its build scripts approved, once.
NeedsApproval(h) ==
  /\ At(h, "install", "install")
  /\ Goes(h, "approve") /\ UNCHANGED <<dir, hub, rows, registered>>
ApproveBuilds(h) ==
  /\ At(h, "install", "approve")
  /\ Goes(h, "again") /\ UNCHANGED <<dir, hub, rows, registered>>
PnpmInstall(h) ==
  /\ h.kind = "install" /\ h.at \in {"install", "again"}
  /\ dir' = [dir EXCEPT !.modules = TRUE]
  /\ Goes(h, "browser") /\ UNCHANGED <<hub, rows, registered>>
InstallBrowser(h) ==
  /\ At(h, "install", "browser")
  /\ Saves(h, "installed") /\ UNCHANGED <<dir, hub, rows, registered>>

\* A command fails or runs out of time, with or without node_modules left behind.
InstallFails(h) ==
  /\ h.kind = "install" /\ h.at \in {"install", "approve", "again", "browser"}
  /\ \/ dir' = [dir EXCEPT !.modules = TRUE]
     \/ UNCHANGED dir
  /\ Saves(h, "failed") /\ UNCHANGED <<hub, rows, registered>>

(* POST /frameworks/validate-smoke. *)

FindModules(h) ==
  /\ At(h, "smoke", "start")
  /\ IF dir.modules THEN Goes(h, "delete") ELSE Saves(h, "skipped")
  /\ UNCHANGED <<dir, hub, rows, registered>>
\* A faulty variant of DeleteReport: a failure is ignored.
DeleteReportMaybe(h) ==
  /\ At(h, "smoke", "delete")
  /\ Goes(h, "test") /\ UNCHANGED <<dir, hub, rows, registered>>
DeleteReport(h) ==
  /\ At(h, "smoke", "delete")
  /\ dir' = [dir EXCEPT !.report = 0]
  /\ Goes(h, "test") /\ UNCHANGED <<hub, rows, registered>>
DeleteFails(h) ==
  /\ At(h, "smoke", "delete")
  /\ Saves(h, "failed") /\ UNCHANGED <<dir, hub, rows, registered>>
\* pnpm test:smoke ends, with or without a report.
SmokeTest(h) ==
  /\ At(h, "smoke", "test")
  /\ \/ dir' = [dir EXCEPT !.report = h.id]
     \/ UNCHANGED dir
  /\ \E status \in {"passed", "failed"} :
       Becomes(h, [h EXCEPT !.at = "report", !.status = status])
  /\ UNCHANGED <<hub, rows, registered>>
ReadReport(h) ==
  /\ At(h, "smoke", "report")
  /\ Becomes(h, [h EXCEPT !.at = "save", !.report = dir.report])
  /\ UNCHANGED <<dir, hub, rows, registered>>

\* updateFrameworkBuildAction, then the answer.
Save(h) ==
  /\ h.at = "save"
  /\ rows' = IF h.build = 0 THEN rows
             ELSE IF h.kind = "install" THEN [rows EXCEPT ![h.build].install = h.status]
             ELSE [rows EXCEPT ![h.build].smoke = h.status, ![h.build].smokeRun = h.id,
                               ![h.build].smokeReport = h.report]
  /\ Answers_(h, h.build, h.status)
  /\ UNCHANGED <<dir, hub, registered>>

------------------------------------------------------------------------------

Create(h) ==
  \/ SkipFile(h) \/ WriteNext(h) \/ WriteFails(h) \/ InitGit(h)
  \/ NoRemote(h) \/ CreateRemote(h) \/ RemoteRefused(h) \/ Push(h) \/ PushFails(h)
  \/ CreateRepository(h) \/ UseRepository(h) \/ ReadBranch(h)
  \/ CreateRef(h) \/ MoveRef(h) \/ OpenPr(h) \/ HubRefuses(h)
  \/ Register(h) \/ Record(h) \/ DatabaseFails(h)
Install(h) ==
  \/ FindManifest(h) \/ NeedsApproval(h) \/ ApproveBuilds(h)
  \/ PnpmInstall(h) \/ InstallBrowser(h) \/ InstallFails(h)
Smoke(h) ==
  \/ FindModules(h) \/ DeleteReport(h) \/ DeleteFails(h) \/ SmokeTest(h) \/ ReadReport(h)
Handle(h) == Create(h) \/ Install(h) \/ Smoke(h) \/ Save(h)
=============================================================================
