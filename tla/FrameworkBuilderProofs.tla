----------------------- MODULE FrameworkBuilderProofs -----------------------
(***************************************************************************)
(* What the framework builder promises holds for any template, any forms   *)
(* and any number of clicks and edits, with every failure of a command and *)
(* a request that is given up.                                             *)
(***************************************************************************)
EXTENDS FrameworkBuilder, TLAPS

USE FrameworkBuildAssumption, FrameworkBuilderAssumption

\* The results that a handler of some kind may report.
Results(kind) ==
  CASE kind = "create" -> {"created"}
    [] kind = "install" -> InstallStatuses
    [] kind = "smoke" -> SmokeStatuses

\* A handler knows a recorded build and, once it has one, a result of its kind.
HandlerOK(h) ==
  /\ h.build <= Len(rows)
  /\ h.kind = "create" => h.opts \in Options
  /\ h.at = "save" =>
       \/ h.kind = "install" /\ h.status \in InstallStatuses
       \/ h.kind = "smoke" /\ h.status \in SmokeStatuses
  /\ h.kind = "smoke" /\ h.at = "report" => h.status \in SmokeStatuses
AnswerOK(a) ==
  /\ a.build <= Len(rows)
  /\ a.id = waiting =>
       /\ a.status \in Results(Kind) \cup {"error"}
       /\ a.status = "created" => a.build # 0

\* Handlers have numbers of their own, which their answers and rows keep.
Numbered ==
  /\ \A h \in handlers : h.id <= acts
  /\ \A g, h \in handlers : g.id = h.id => g = h
  /\ \A a \in answers : a.id <= acts /\ \A h \in handlers : h.id # a.id
  /\ \A i \in DOMAIN rows :
       rows[i].act <= acts /\ \A h \in handlers : h.kind = "create" => h.id # rows[i].act
  /\ waiting <= acts

\* How many handlers a click may still start.
Chain ==
  /\ acts <= 3 * clicks
  /\ waiting # 0 /\ Kind = "create" => acts + 2 <= 3 * clicks
  /\ waiting # 0 /\ Kind = "install" /\ button = "submit" => acts + 1 <= 3 * clicks

TypeInv ==
  /\ TypeOK
  /\ \A h \in handlers : HandlerOK(h) /\ (h.id = waiting => h.kind = Kind)
  /\ \A a \in answers : AnswerOK(a)
  /\ page.build <= Len(rows)
  /\ Numbered /\ Chain
  /\ latest + (IF timer THEN 1 ELSE 0) <= 2 * edits

------------------------------------------------------------------------------
(* The handlers. *)

\* A handler goes on as g, or ends; the rows stay, or one row is added or changed.
HandlerSteps(h) ==
  \/ \E g \in Handlers :
       /\ Becomes(h, g) /\ UNCHANGED rows
       /\ g.id = h.id /\ g.kind = h.kind /\ g.opts = h.opts /\ g.build = h.build
       /\ HandlerOK(g)
  \/ Throws(h) /\ UNCHANGED rows
  \/ h.kind = "create" /\ rows' = Append(rows, Row(h)) /\ Answers_(h, Len(rows'), "created")
  \/ Save(h)

BuildOutsideTypes ==
  dir \in Directories /\ hub \in Hubs /\ registered \in BOOLEAN

LEMMA HandlerMoves ==
  ASSUME NEW h \in Handlers, HandlerOK(h), NEW at \in Points \ {"save", "report"}, Goes(h, at),
         UNCHANGED rows
  PROVE  HandlerSteps(h)
<1> DEFINE g == [h EXCEPT !.at = at]
<1>1. g \in Handlers /\ g.id = h.id /\ g.kind = h.kind /\ g.opts = h.opts /\ g.build = h.build
      /\ g.at = at
  BY DEF Handlers
<1>2. HandlerOK(g)
  BY <1>1 DEF HandlerOK
<1> QED
  BY <1>1, <1>2 DEF HandlerSteps, Goes

LEMMA HandlerSaves ==
  ASSUME NEW h \in Handlers, HandlerOK(h), NEW status \in Statuses, Saves(h, status),
         \/ h.kind = "install" /\ status \in InstallStatuses
         \/ h.kind = "smoke" /\ status \in SmokeStatuses,
         UNCHANGED rows
  PROVE  HandlerSteps(h)
<1> DEFINE g == [h EXCEPT !.at = "save", !.status = status]
<1>1. g \in Handlers /\ g.id = h.id /\ g.kind = h.kind /\ g.opts = h.opts /\ g.build = h.build
      /\ g.at = "save" /\ g.status = status
  BY DEF Handlers, Points
<1>2. HandlerOK(g)
  BY <1>1 DEF HandlerOK
<1> QED
  BY <1>1, <1>2 DEF HandlerSteps, Saves

LEMMA CreateSteps ==
  ASSUME BuildOutsideTypes, NEW h \in Handlers, HandlerOK(h), Create(h), h.kind = "create"
  PROVE  HandlerSteps(h) /\ BuildOutsideTypes'
<1> USE DEF BuildOutsideTypes
<1>0. /\ h.id \in Acts /\ h.next \in 1 .. NFiles + 1 /\ h.made \subseteq Files
      /\ h.git \in GitStatuses /\ h.remote \in RemoteStatuses /\ h.opts \in Options
      /\ h.opts.register \in BOOLEAN
      /\ dir.files \subseteq Files /\ dir.whole \subseteq Files /\ dir.commit \subseteq Files
      /\ hub.main \subseteq Files /\ hub.branches \in [Acts -> SUBSET Files]
      /\ hub.refs \subseteq Acts /\ hub.prs \subseteq Acts
  BY DEF Handlers, HandlerOK, Directories, Hubs
<1>1. ASSUME NEW g, Becomes(h, g), UNCHANGED rows,
             \/ g = [h EXCEPT !.next = h.next + 1] /\ h.next \in Files /\ h.at = "start"
             \/ /\ g = [h EXCEPT !.next = h.next + 1, !.made = h.made \cup {h.next}]
                /\ h.next \in Files /\ h.at = "start"
             \/ \E status \in GitStatuses : g = [h EXCEPT !.at = "remote", !.git = status]
             \/ \E status \in RemoteStatuses : g = [h EXCEPT !.at = "register", !.remote = status]
             \/ \E new \in SUBSET Files : g = [h EXCEPT !.at = "ref", !.made = new]
      PROVE  HandlerSteps(h)
  <2> DEFINE Same == /\ g \in Handlers /\ g.at \in {"start", "remote", "register", "ref"}
                     /\ g.id = h.id /\ g.kind = h.kind /\ g.opts = h.opts /\ g.build = h.build
  <2>1. ASSUME g = [h EXCEPT !.next = h.next + 1] /\ h.next \in Files /\ h.at = "start" PROVE Same
    <3>1. h.next + 1 \in 1 .. NFiles + 1
      BY <2>1 DEF Files
    <3> QED
      BY <2>1, <3>1 DEF Handlers
  <2>2. ASSUME /\ g = [h EXCEPT !.next = h.next + 1, !.made = h.made \cup {h.next}]
               /\ h.next \in Files /\ h.at = "start"
        PROVE  Same
    <3>1. h.next + 1 \in 1 .. NFiles + 1 /\ h.made \cup {h.next} \in SUBSET Files
      BY <1>0, <2>2 DEF Files
    <3> QED
      BY <2>2, <3>1 DEF Handlers
  <2>3. ASSUME \E status \in GitStatuses : g = [h EXCEPT !.at = "remote", !.git = status] PROVE Same
    <3>1. PICK status \in GitStatuses : g = [h EXCEPT !.at = "remote", !.git = status]
      BY <2>3
    <3>2. "remote" \in Points
      BY DEF Points
    <3> QED
      BY <3>1, <3>2 DEF Handlers
  <2>4. ASSUME \E status \in RemoteStatuses : g = [h EXCEPT !.at = "register", !.remote = status] PROVE Same
    <3>1. PICK status \in RemoteStatuses : g = [h EXCEPT !.at = "register", !.remote = status]
      BY <2>4
    <3>2. "register" \in Points
      BY DEF Points
    <3> QED
      BY <3>1, <3>2 DEF Handlers
  <2>5. ASSUME \E new \in SUBSET Files : g = [h EXCEPT !.at = "ref", !.made = new] PROVE Same
    <3>1. PICK new \in SUBSET Files : g = [h EXCEPT !.at = "ref", !.made = new]
      BY <2>5
    <3>2. "ref" \in Points
      BY DEF Points
    <3> QED
      BY <3>1, <3>2 DEF Handlers
  <2>6. Same
    BY <1>1, <2>1, <2>2, <2>3, <2>4, <2>5
  <2>7. HandlerOK(g)
    BY <1>0, <1>1, <2>6 DEF HandlerOK
  <2> QED
    BY <1>1, <2>6, <2>7 DEF HandlerSteps
<1>2. {"remote", "push", "tree", "ref", "commit", "pr", "register", "record"}
        \subseteq Points \ {"save", "report"}
  BY DEF Points
<1>3. CASE SkipFile(h)
  <2>1. h.next \in Files
    BY <1>0, <1>3 DEF SkipFile
  <2> QED
    BY <1>1, <1>3, <2>1 DEF SkipFile, At
<1>4. CASE WriteNext(h)
  <2>1. dir' \in Directories
    BY <1>0, <1>4 DEF WriteNext, Writes, Directories
  <2>2. h.next \in Files /\ h.at = "start"
        /\ Becomes(h, [h EXCEPT !.next = h.next + 1, !.made = h.made \cup {h.next}])
        /\ UNCHANGED <<hub, rows, registered>>
    BY <1>4 DEF WriteNext, Writes, At
  <2> QED
    BY <1>1, <2>1, <2>2
<1>5. CASE WriteFails(h)
  <2>1. dir' \in Directories
    <3>1. h.next \in Files
      BY <1>5 DEF WriteFails, Writes
    <3>2. [dir EXCEPT !.files = dir.files \cup {h.next}, !.whole = dir.whole \ {h.next}] \in Directories
      BY <1>0, <3>1 DEF Directories
    <3> QED
      BY <1>5, <3>2 DEF WriteFails
  <2> QED
    BY <1>5, <2>1 DEF WriteFails, HandlerSteps
<1>6. CASE InitGit(h)
  <2>1. dir' \in Directories
    <3>1. \/ UNCHANGED dir \/ dir' = [dir EXCEPT !.git = "own"]
          \/ dir' = [dir EXCEPT !.git = "own", !.commit = dir.files]
      BY <1>6 DEF InitGit
    <3>2. [dir EXCEPT !.git = "own"] \in Directories
      BY <1>0 DEF Directories
    <3>3. [dir EXCEPT !.git = "own", !.commit = dir.files] \in Directories
      BY <1>0 DEF Directories
    <3> QED
      BY <3>1, <3>2, <3>3
  <2>2. PICK status \in GitStatuses : GitDone(h, status)
    BY <1>6 DEF InitGit, GitStatuses
  <2> QED
    BY <1>1, <1>6, <2>1, <2>2 DEF InitGit, GitDone
<1>7. CASE NoRemote(h)
  <2>1. PICK status \in RemoteStatuses : RemoteDone(h, status)
    BY <1>7 DEF NoRemote, RemoteStatuses
  <2> QED
    BY <1>1, <1>7, <2>1 DEF NoRemote, RemoteDone
<1>8. CASE CreateRemote(h)
  <2>1. hub' \in Hubs
    BY <1>0, <1>8 DEF CreateRemote, Hubs
  <2> QED
    BY <1>2, <1>8, <2>1, HandlerMoves DEF CreateRemote
<1>9. CASE RemoteRefused(h)
  BY <1>9 DEF RemoteRefused, HandlerSteps
<1>10. CASE Push(h)
  <2>1. dir' \in Directories
    BY <1>0, <1>10 DEF Push, Directories
  <2>2. hub' \in Hubs
    BY <1>0, <1>10 DEF Push, Hubs
  <2> QED
    BY <1>1, <1>10, <2>1, <2>2 DEF Push, RemoteDone, RemoteStatuses
<1>11. CASE PushFails(h)
  <2>1. dir' \in Directories
    BY <1>0, <1>11 DEF PushFails, Directories
  <2> QED
    BY <1>1, <1>11, <2>1 DEF PushFails, RemoteDone, RemoteStatuses
<1>12. CASE CreateRepository(h)
  <2>1. hub' \in Hubs
    BY <1>0, <1>12 DEF CreateRepository, Hubs
  <2> QED
    BY <1>2, <1>12, <2>1, HandlerMoves DEF CreateRepository
<1>13. CASE UseRepository(h)
  BY <1>2, <1>13, HandlerMoves DEF UseRepository, HubStep
<1>14. CASE ReadBranch(h)
  <2> DEFINE new == IF h.opts.overwrite \/ h.opts.remote THEN Files ELSE Files \ hub.main
  <2>1. CASE new = {}
    BY <1>14, <2>1 DEF ReadBranch, HandlerSteps
  <2>2. CASE new # {}
    <3>1. new \in SUBSET Files /\ Becomes(h, [h EXCEPT !.at = "ref", !.made = new])
      BY <1>14, <2>2 DEF ReadBranch
    <3> HIDE DEF new
    <3> QED
      BY <1>1, <1>14, <3>1 DEF ReadBranch
  <2> QED
    BY <2>1, <2>2
<1>15. CASE CreateRef(h)
  <2>1. hub' \in Hubs
    BY <1>0, <1>15 DEF CreateRef, Hubs
  <2> QED
    BY <1>2, <1>15, <2>1, HandlerMoves DEF CreateRef, HubStep
<1>16. CASE MoveRef(h)
  <2>1. hub' \in Hubs
    BY <1>0, <1>16 DEF MoveRef, Hubs
  <2> QED
    BY <1>2, <1>16, <2>1, HandlerMoves DEF MoveRef, HubStep
<1>17. CASE OpenPr(h)
  <2>1. hub' \in Hubs
    BY <1>0, <1>17 DEF OpenPr, Hubs
  <2> QED
    BY <1>2, <1>17, <2>1, HandlerMoves DEF OpenPr, HubStep
<1>18. CASE HubRefuses(h)
  BY <1>18 DEF HubRefuses, HandlerSteps
<1>19. CASE Register(h)
  <2>1. registered' \in BOOLEAN
    BY <1>0, <1>19 DEF Register
  <2> QED
    BY <1>2, <1>19, <2>1, HandlerMoves DEF Register
<1>20. CASE Record(h)
  BY <1>20 DEF Record, HandlerSteps
<1>21. CASE DatabaseFails(h)
  BY <1>21 DEF DatabaseFails, HandlerSteps
<1> QED
  BY <1>3, <1>4, <1>5, <1>6, <1>7, <1>8, <1>9, <1>10, <1>11, <1>12, <1>13, <1>14, <1>15, <1>16,
     <1>17, <1>18, <1>19, <1>20, <1>21 DEF Create

LEMMA CommandSteps ==
  ASSUME BuildOutsideTypes, NEW h \in Handlers, HandlerOK(h), Install(h) \/ Smoke(h)
  PROVE  HandlerSteps(h) /\ BuildOutsideTypes'
<1> USE DEF BuildOutsideTypes
<1>1. {"skipped", "failed", "installed"} \subseteq InstallStatuses
      /\ {"skipped", "failed", "passed"} \subseteq SmokeStatuses
      /\ InstallStatuses \subseteq Statuses /\ SmokeStatuses \subseteq Statuses
      /\ {"install", "approve", "again", "browser", "delete", "test"} \subseteq Points \ {"save", "report"}
  BY DEF Points, Statuses, InstallStatuses, SmokeStatuses
<1>2. CASE FindManifest(h)
  BY <1>1, <1>2, HandlerMoves, HandlerSaves DEF FindManifest, At
<1>3. CASE NeedsApproval(h)
  BY <1>1, <1>3, HandlerMoves DEF NeedsApproval
<1>4. CASE ApproveBuilds(h)
  BY <1>1, <1>4, HandlerMoves DEF ApproveBuilds
<1>5. CASE PnpmInstall(h)
  <2>1. dir' \in Directories
    BY <1>5 DEF PnpmInstall, Directories
  <2> QED
    BY <1>1, <1>5, <2>1, HandlerMoves DEF PnpmInstall
<1>6. CASE InstallBrowser(h)
  BY <1>1, <1>6, HandlerSaves DEF InstallBrowser, At
<1>7. CASE InstallFails(h)
  <2>1. dir' \in Directories
    BY <1>7 DEF InstallFails, Directories
  <2> QED
    BY <1>1, <1>7, <2>1, HandlerSaves DEF InstallFails
<1>8. CASE FindModules(h)
  BY <1>1, <1>8, HandlerMoves, HandlerSaves DEF FindModules, At
<1>9. CASE DeleteReport(h)
  <2>1. dir' \in Directories
    BY <1>9 DEF DeleteReport, Directories
  <2> QED
    BY <1>1, <1>9, <2>1, HandlerMoves DEF DeleteReport
<1>10. CASE DeleteFails(h)
  BY <1>1, <1>10, HandlerSaves DEF DeleteFails, At
<1>11. CASE SmokeTest(h)
  <2>1. dir' \in Directories
    <3>1. h.id \in Acts
      BY DEF Handlers
    <3> QED
      BY <1>11, <3>1 DEF SmokeTest, Directories
  <2>2. PICK status \in {"passed", "failed"} : Becomes(h, [h EXCEPT !.at = "report", !.status = status])
    BY <1>11 DEF SmokeTest
  <2> DEFINE g == [h EXCEPT !.at = "report", !.status = status]
  <2>3. g \in Handlers /\ g.id = h.id /\ g.kind = h.kind /\ g.opts = h.opts /\ g.build = h.build
        /\ g.at = "report" /\ g.status = status
    BY <1>1 DEF Handlers, Points
  <2>4. HandlerOK(g)
    BY <1>1, <2>3 DEF HandlerOK
  <2> HIDE DEF g
  <2> QED
    BY <1>11, <2>1, <2>2, <2>3, <2>4 DEF SmokeTest, HandlerSteps, g
<1>12. CASE ReadReport(h)
  <2> DEFINE g == [h EXCEPT !.at = "save", !.report = dir.report]
  <2>1. g \in Handlers /\ g.id = h.id /\ g.kind = h.kind /\ g.opts = h.opts /\ g.build = h.build
        /\ g.at = "save" /\ g.status = h.status
    BY DEF Handlers, Points, Directories
  <2>2. HandlerOK(g)
    BY <1>12, <2>1 DEF HandlerOK, ReadReport, At
  <2>3. Becomes(h, g) /\ UNCHANGED rows
    BY <1>12 DEF ReadReport
  <2> HIDE DEF g
  <2> QED
    BY <1>12, <2>1, <2>2, <2>3 DEF ReadReport, HandlerSteps
<1> QED
  BY <1>2, <1>3, <1>4, <1>5, <1>6, <1>7, <1>8, <1>9, <1>10, <1>11, <1>12 DEF Install, Smoke

LEMMA HandleSteps ==
  ASSUME BuildOutsideTypes, NEW h \in Handlers, HandlerOK(h), Handle(h)
  PROVE  HandlerSteps(h) /\ BuildOutsideTypes'
<1>1. CASE Create(h) /\ h.kind = "create"
  BY <1>1, CreateSteps
<1>2. CASE Create(h) /\ h.kind # "create"
  <2>1. Throws(h) /\ UNCHANGED <<dir, hub, rows, registered>>
    BY <1>2 DEF Create, At, SkipFile, WriteNext, Writes, WriteFails, InitGit, NoRemote,
       CreateRemote, RemoteRefused, Push, PushFails, CreateRepository, UseRepository, HubStep,
       ReadBranch, CreateRef, MoveRef, OpenPr, HubRefuses, Register, Record, DatabaseFails
  <2> QED
    BY <2>1 DEF HandlerSteps, BuildOutsideTypes
<1>3. CASE Install(h) \/ Smoke(h)
  BY <1>3, CommandSteps
<1>4. CASE Save(h)
  BY <1>4 DEF Save, HandlerSteps, BuildOutsideTypes
<1> QED
  BY <1>1, <1>2, <1>3, <1>4 DEF Handle

------------------------------------------------------------------------------
(* Types. *)

LEMMA RowsAfterRecord ==
  ASSUME rows \in Seq(Rows), NEW h \in Handlers, h.opts \in Options,
         rows' = Append(rows, Row(h))
  PROVE  /\ rows' \in Seq(Rows) /\ Len(rows') = Len(rows) + 1 /\ Len(rows) \in Nat
         /\ \A i \in DOMAIN rows' :
              \/ i \in DOMAIN rows /\ rows'[i] = rows[i]
              \/ i = Len(rows) + 1 /\ rows'[i] = Row(h)
<1>1. Row(h) \in Rows
  BY DEF Row, Rows, Handlers, IsLocal, InstallStatuses, SmokeStatuses
<1> QED
  BY <1>1

LEMMA RowsAfterSave ==
  ASSUME rows \in Seq(Rows), NEW h \in Handlers, HandlerOK(h), Save(h)
  PROVE  /\ rows' \in Seq(Rows) /\ DOMAIN rows' = DOMAIN rows /\ Len(rows') = Len(rows)
         /\ \/ h.kind = "install" /\ h.status \in InstallStatuses
            \/ h.kind = "smoke" /\ h.status \in SmokeStatuses
         /\ \A i \in DOMAIN rows :
              /\ rows'[i].act = rows[i].act /\ rows'[i].dest = rows[i].dest
              /\ rows'[i].made = rows[i].made /\ rows'[i].git = rows[i].git
              /\ rows'[i].remote = rows[i].remote
              /\ \/ /\ rows'[i].smokeRun = rows[i].smokeRun
                    /\ rows'[i].smokeReport = rows[i].smokeReport
                 \/ /\ h.kind = "smoke" /\ h.at = "save"
                    /\ rows'[i].smokeRun = h.id /\ rows'[i].smokeReport = h.report
<1>1. /\ \/ h.kind = "install" /\ h.status \in InstallStatuses
         \/ h.kind = "smoke" /\ h.status \in SmokeStatuses
      /\ h.at = "save" /\ h.build \in 0 .. Len(rows) /\ h.id \in Acts /\ h.report \in {0} \cup Acts
  BY DEF Save, HandlerOK, Handlers
<1>2. DOMAIN rows = 1 .. Len(rows) /\ \A i \in DOMAIN rows : rows[i] \in Rows
  OBVIOUS
<1>3. CASE h.build = 0
  BY <1>1, <1>3 DEF Save
<1>4. CASE h.build # 0 /\ h.kind = "install"
  <2> DEFINE row == [rows[h.build] EXCEPT !.install = h.status]
  <2>1. h.build \in DOMAIN rows /\ rows' = [rows EXCEPT ![h.build] = row]
    BY <1>1, <1>2, <1>4 DEF Save
  <2>2. /\ row \in Rows
        /\ row.act = rows[h.build].act /\ row.dest = rows[h.build].dest
        /\ row.made = rows[h.build].made /\ row.git = rows[h.build].git
        /\ row.remote = rows[h.build].remote
        /\ row.smokeRun = rows[h.build].smokeRun /\ row.smokeReport = rows[h.build].smokeReport
    BY <1>1, <1>2, <1>4, <2>1 DEF Rows
  <2> HIDE DEF row
  <2> QED
    BY <1>1, <2>1, <2>2
<1>5. CASE h.build # 0 /\ h.kind = "smoke"
  <2> DEFINE row == [rows[h.build] EXCEPT !.smoke = h.status, !.smokeRun = h.id,
                                          !.smokeReport = h.report]
  <2>1. h.build \in DOMAIN rows /\ rows' = [rows EXCEPT ![h.build] = row]
    <3>1. rows' = [rows EXCEPT ![h.build].smoke = h.status, ![h.build].smokeRun = h.id,
                               ![h.build].smokeReport = h.report]
      BY <1>5 DEF Save
    <3>2. h.build \in DOMAIN rows
      BY <1>1, <1>2, <1>5
    <3>3. DOMAIN rows' = DOMAIN rows /\ rows'[h.build] = row
          /\ \A i \in DOMAIN rows : i # h.build => rows'[i] = rows[i]
      BY <1>2, <3>1, <3>2 DEF Rows
    <3> HIDE DEF row
    <3> QED
      BY <3>1, <3>2, <3>3
  <2>2. /\ row \in Rows
        /\ row.act = rows[h.build].act /\ row.dest = rows[h.build].dest
        /\ row.made = rows[h.build].made /\ row.git = rows[h.build].git
        /\ row.remote = rows[h.build].remote
        /\ row.smokeRun = h.id /\ row.smokeReport = h.report
    <3>1. rows[h.build] \in Rows /\ h.status \in SmokeStatuses
      BY <1>1, <1>2, <1>5, <2>1
    <3> QED
      BY <1>1, <3>1 DEF Rows
  <2> HIDE DEF row
  <2> QED
    BY <1>1, <1>5, <2>1, <2>2
<1> QED
  BY <1>1, <1>3, <1>4, <1>5

LEMMA HandlerStepKeepsTypes ==
  ASSUME TypeInv, NEW h \in handlers, Handle(h), UNCHANGED <<pageVars, previewVars>>
  PROVE  TypeInv' /\ HandlerSteps(h)
<1>1. /\ h \in Handlers /\ HandlerOK(h) /\ BuildOutsideTypes /\ rows \in Seq(Rows)
      /\ handlers \subseteq Handlers /\ answers \subseteq Answers /\ h.id \in Acts /\ acts \in Nat
      /\ (h.id = waiting => h.kind = Kind)
  BY DEF TypeInv, TypeOK, BuildTypes, BuildOutsideTypes, Handlers, Acts
<1>2. HandlerSteps(h) /\ BuildOutsideTypes'
  BY <1>1, HandleSteps
<1>3. /\ page' = page /\ waiting' = waiting /\ form' = form /\ button' = button /\ acts' = acts
      /\ clicks' = clicks /\ gaveUp' = gaveUp /\ edits' = edits /\ timer' = timer
      /\ latest' = latest /\ requests' = requests /\ preview' = preview /\ Kind' = Kind
  BY DEF pageVars, previewVars, Kind
<1>4. ASSUME BuildTypes', Len(rows') >= Len(rows), Numbered',
             \A g \in handlers' : HandlerOK(g)' /\ (g.id = waiting => g.kind = Kind),
             \A a \in answers' : AnswerOK(a)'
      PROVE  TypeInv'
  <2>1. TypeOK'
    BY <1>3, <1>4 DEF TypeInv, TypeOK
  <2>2. Chain' /\ page'.build <= Len(rows')
    BY <1>1, <1>3, <1>4 DEF TypeInv, TypeOK, Chain, Pages
  <2> QED
    BY <1>3, <1>4, <2>1, <2>2 DEF TypeInv
<1>5. ASSUME NEW g \in Handlers, Becomes(h, g), UNCHANGED rows, HandlerOK(g),
             g.id = h.id, g.kind = h.kind
      PROVE  TypeInv'
  <2>1. handlers' = (handlers \ {h}) \cup {g} /\ answers' = answers
    BY <1>5 DEF Becomes
  <2>2. BuildTypes'
    BY <1>1, <1>2, <1>5, <2>1 DEF BuildTypes, BuildOutsideTypes
  <2>3. Numbered'
    BY <1>1, <1>3, <1>5, <2>1 DEF TypeInv, Numbered
  <2>4. \A x \in handlers' : HandlerOK(x)' /\ (x.id = waiting => x.kind = Kind)
    BY <1>1, <1>5, <2>1 DEF TypeInv, HandlerOK
  <2>5. \A a \in answers' : AnswerOK(a)'
    BY <1>3, <1>5, <2>1 DEF TypeInv, AnswerOK
  <2> QED
    BY <1>4, <1>5, <2>2, <2>3, <2>4, <2>5
<1>6. ASSUME NEW build \in Nat, NEW status \in Statuses, Answers_(h, build, status),
             rows' \in Seq(Rows), Len(rows') >= Len(rows), build <= Len(rows'),
             h.id = waiting => status \in Results(Kind) \cup {"error"},
             status = "created" => build # 0,
             \A i \in DOMAIN rows' :
               \/ i \in DOMAIN rows /\ rows'[i].act = rows[i].act
               \/ h.kind = "create" /\ rows'[i].act = h.id
      PROVE  TypeInv'
  <2> DEFINE b == [id |-> h.id, build |-> build, status |-> status]
  <2>1. handlers' = handlers \ {h} /\ answers' = answers \cup {b} /\ b \in Answers
    BY <1>1, <1>6 DEF Answers_, Answers
  <2>2. BuildTypes'
    BY <1>1, <1>2, <1>6, <2>1 DEF BuildTypes, BuildOutsideTypes
  <2>3. Numbered'
    <3>1. \A x \in handlers' : x \in handlers /\ x.id # h.id
      BY <2>1 DEF TypeInv, Numbered
    <3>2. \A a \in answers' : a.id <= acts' /\ \A x \in handlers' : x.id # a.id
      BY <1>3, <2>1, <3>1 DEF TypeInv, Numbered
    <3>3. \A i \in DOMAIN rows' :
            rows'[i].act <= acts' /\ \A x \in handlers' : x.kind = "create" => x.id # rows'[i].act
      BY <1>3, <1>6, <3>1 DEF TypeInv, Numbered
    <3> QED
      BY <1>3, <3>1, <3>2, <3>3 DEF TypeInv, Numbered
  <2>4. \A x \in handlers' : HandlerOK(x)' /\ (x.id = waiting => x.kind = Kind)
    <3> SUFFICES ASSUME NEW x \in handlers'
                 PROVE  HandlerOK(x)' /\ (x.id = waiting => x.kind = Kind)
      OBVIOUS
    <3>1. x \in handlers /\ x.build \in Nat /\ HandlerOK(x) /\ Len(rows) \in Nat /\ Len(rows') \in Nat
      BY <1>1, <1>6, <2>1 DEF Handlers, TypeInv
    <3> QED
      BY <1>6, <3>1 DEF TypeInv, HandlerOK
  <2>5. \A a \in answers' : AnswerOK(a)'
    <3> SUFFICES ASSUME NEW a \in answers' PROVE AnswerOK(a)'
      OBVIOUS
    <3>1. CASE a \in answers
      <4>1. a.build \in Nat /\ Len(rows) \in Nat /\ Len(rows') \in Nat /\ AnswerOK(a)
        BY <1>1, <1>6, <3>1 DEF Answers, TypeInv
      <4> QED
        BY <1>3, <1>6, <4>1 DEF AnswerOK
    <3>2. CASE a = b
      BY <1>3, <1>6, <3>2 DEF AnswerOK
    <3> QED
      BY <2>1, <3>1, <3>2
  <2> QED
    BY <1>4, <1>6, <2>2, <2>3, <2>4, <2>5
<1>7. CASE Throws(h) /\ UNCHANGED rows
  <2>1. "error" \in Statuses
    BY DEF Statuses
  <2>2. Answers_(h, 0, "error")
    BY <1>7 DEF Throws
  <2>3. /\ Len(rows') >= Len(rows) /\ 0 <= Len(rows') /\ rows' \in Seq(Rows)
        /\ \A i \in DOMAIN rows' : i \in DOMAIN rows /\ rows'[i].act = rows[i].act
    BY <1>1, <1>7
  <2>4. TypeInv'
    BY <1>6, <2>1, <2>2, <2>3
  <2> QED
    BY <1>2, <2>4
<1>8. CASE h.kind = "create" /\ rows' = Append(rows, Row(h)) /\ Answers_(h, Len(rows'), "created")
  <2>1. h.opts \in Options
    BY <1>1, <1>8 DEF HandlerOK
  <2>2. /\ rows' \in Seq(Rows) /\ Len(rows') = Len(rows) + 1 /\ Len(rows) \in Nat
        /\ \A i \in DOMAIN rows' :
              \/ i \in DOMAIN rows /\ rows'[i] = rows[i]
              \/ i = Len(rows) + 1 /\ rows'[i] = Row(h)
    BY <1>1, <1>8, <2>1, RowsAfterRecord
  <2>3. Row(h).act = h.id
    BY DEF Row
  <2>4. "created" \in Statuses /\ (h.id = waiting => "created" \in Results(Kind))
    BY <1>1, <1>8 DEF Statuses, Results
  <2>5. TypeInv'
    BY <1>6, <1>8, <2>2, <2>3, <2>4
  <2> QED
    BY <1>2, <2>5
<1>9. CASE Save(h)
  <2>1. /\ rows' \in Seq(Rows) /\ DOMAIN rows' = DOMAIN rows /\ Len(rows') = Len(rows)
        /\ \/ h.kind = "install" /\ h.status \in InstallStatuses
           \/ h.kind = "smoke" /\ h.status \in SmokeStatuses
        /\ \A i \in DOMAIN rows : rows'[i].act = rows[i].act
    BY <1>1, <1>9, RowsAfterSave
  <2>2. /\ h.status \in Statuses /\ h.status # "created" /\ Answers_(h, h.build, h.status)
        /\ h.build \in Nat /\ h.build <= Len(rows)
        /\ (h.id = waiting => h.status \in Results(Kind))
    BY <1>1, <1>9, <2>1 DEF Save, Statuses, InstallStatuses, SmokeStatuses, HandlerOK, Handlers, Results
  <2>3. TypeInv'
    BY <1>1, <1>6, <2>1, <2>2
  <2> QED
    BY <1>2, <2>3
<1> QED
  BY <1>2, <1>5, <1>7, <1>8, <1>9 DEF HandlerSteps

\* A step of the page that starts a handler, or none.
LEMMA StartKeepsTypes ==
  ASSUME TypeInv, NEW kind \in {"create", "install", "smoke"}, NEW opts \in Options \cup {NoForm},
         NEW build \in Nat, Starts(kind, opts, build),
         kind = "create" => opts \in Options, build <= Len(rows),
         answers' \subseteq answers, UNCHANGED <<dir, hub, rows, registered, previewVars>>,
         page' \in Pages, page'.build <= Len(rows), form' \in Options \cup {NoForm},
         button' \in {"submit", "install", "smoke"}, gaveUp' \in BOOLEAN, Kind' = kind,
         NEW c \in 0 .. MaxClicks, clicks' = c, acts + 1 <= 3 * c,
         kind = "create" => acts + 3 <= 3 * c,
         kind = "install" /\ button' = "submit" => acts + 2 <= 3 * c
  PROVE  TypeInv'
<1>0. PICK new : new = Handler(acts', kind, opts, build)
  OBVIOUS
<1>1. /\ acts \in {0} \cup Acts /\ acts \in Nat /\ BuildTypes /\ Len(rows) \in Nat
      /\ \A g \in handlers : g.id \in Acts /\ g.id <= acts
      /\ \A a \in answers : a.id \in Acts /\ a.id <= acts
  BY DEF TypeInv, TypeOK, BuildTypes, Numbered, Handlers, Answers, Acts
<1>2. acts' = acts + 1 /\ acts' \in Acts /\ waiting' = acts' /\ handlers' = handlers \cup {new}
  <2>1. acts' = acts + 1 /\ waiting' = acts' /\ handlers' = handlers \cup {new}
    BY <1>0 DEF Starts
  <2>2. acts + 1 \in 1 .. 3 * MaxClicks
    BY <1>1
  <2> QED
    BY <2>1, <2>2 DEF Acts
<1>3. new \in Handlers /\ new.id = acts' /\ new.kind = kind /\ new.build = build
      /\ new.at = "start" /\ new.opts = opts
  <2>1. /\ 1 \in 1 .. NFiles + 1 /\ "start" \in Points /\ "" \in Statuses
        /\ "" \in GitStatuses /\ "" \in RemoteStatuses
    BY DEF Points, Statuses, GitStatuses, RemoteStatuses, InstallStatuses
  <2> QED
    BY <1>0, <1>2, <2>1 DEF Handler, Handlers
<1>4. BuildTypes'
  BY <1>1, <1>2, <1>3 DEF BuildTypes
<1>5. TypeOK'
  BY <1>2, <1>4 DEF TypeInv, TypeOK, previewVars
<1>6. Numbered'
  <2>1. \A g \in handlers' : g.id <= acts' /\ (g \in handlers => g.id # acts')
    BY <1>1, <1>2, <1>3 DEF Acts
  <2>2. \A g, h \in handlers' : g.id = h.id => g = h
    BY <1>2, <1>3, <2>1 DEF TypeInv, Numbered
  <2>3. \A a \in answers' : a.id <= acts' /\ \A h \in handlers' : h.id # a.id
    <3>1. \A a \in answers' : a.id <= acts' /\ a.id # acts'
      BY <1>1, <1>2 DEF Acts
    <3> QED
      BY <1>2, <1>3, <3>1 DEF TypeInv, Numbered
  <2>4. \A i \in DOMAIN rows' :
          rows'[i].act <= acts' /\ \A h \in handlers' : h.kind = "create" => h.id # rows'[i].act
    <3>1. \A i \in DOMAIN rows : rows[i].act \in Nat /\ rows[i].act <= acts
      <4>1. \A i \in DOMAIN rows : rows[i] \in Rows
        BY <1>1 DEF BuildTypes
      <4> QED
        BY <4>1 DEF TypeInv, Numbered, Rows, Acts
    <3>2. rows' = rows /\ \A i \in DOMAIN rows : rows[i].act <= acts' /\ rows[i].act # acts'
      BY <1>1, <1>2, <3>1
    <3> QED
      BY <1>2, <1>3, <3>2 DEF TypeInv, Numbered
  <2> QED
    BY <1>1, <1>2, <2>1, <2>2, <2>3, <2>4 DEF Numbered
<1>7. Chain'
  <2>1. acts' <= 3 * c
    BY <1>2
  <2>2. kind = "create" => acts' + 2 <= 3 * c
    BY <1>1, <1>2
  <2>3. kind = "install" /\ button' = "submit" => acts' + 1 <= 3 * c
    BY <1>1, <1>2
  <2> QED
    BY <2>1, <2>2, <2>3 DEF Chain
<1>8. \A g \in handlers' : HandlerOK(g)' /\ (g.id = waiting' => g.kind = Kind')
  <2>1. \A g \in handlers : HandlerOK(g)' /\ g.id # waiting'
    BY <1>1, <1>2 DEF TypeInv, HandlerOK, Acts
  <2>2. HandlerOK(new)'
    BY <1>3 DEF HandlerOK
  <2> QED
    BY <1>2, <1>3, <2>1, <2>2
<1>9. \A a \in answers' : AnswerOK(a)'
  BY <1>1, <1>2 DEF TypeInv, AnswerOK, Acts
<1> QED
  BY <1>5, <1>6, <1>7, <1>8, <1>9 DEF TypeInv, previewVars

LEMMA EndKeepsTypes ==
  ASSUME TypeInv, waiting' = 0, UNCHANGED <<handlers, acts, clicks>>,
         answers' \subseteq answers, UNCHANGED <<dir, hub, rows, registered, previewVars>>,
         page' \in Pages, page'.build <= Len(rows), form' \in Options \cup {NoForm},
         button' \in {"submit", "install", "smoke"}, gaveUp' \in BOOLEAN
  PROVE  TypeInv'
<1>1. /\ acts \in Nat /\ BuildTypes
      /\ \A g \in handlers : g.id # 0
      /\ \A a \in answers : a.id # 0
  BY DEF TypeInv, TypeOK, BuildTypes, Handlers, Answers, Acts
<1>2. TypeOK'
  BY <1>1 DEF TypeInv, TypeOK, BuildTypes, previewVars
<1>3. Numbered' /\ Chain'
  BY <1>1 DEF TypeInv, Numbered, Chain
<1>4. \A g \in handlers' : HandlerOK(g)' /\ (g.id = waiting' => g.kind = Kind')
  BY <1>1 DEF TypeInv, HandlerOK
<1>5. \A a \in answers' : AnswerOK(a)'
  BY <1>1 DEF TypeInv, AnswerOK
<1> QED
  BY <1>2, <1>3, <1>4, <1>5 DEF TypeInv, previewVars

LEMMA ClickKeepsTypes ==
  ASSUME TypeInv,
         (\E o \in Options : Submit(o)) \/ InstallClick \/ SmokeClick
  PROVE  TypeInv'
<1>1. /\ acts \in Nat /\ clicks \in 0 .. MaxClicks /\ acts <= 3 * clicks /\ page \in Pages
      /\ page.build \in Nat /\ page.build <= Len(rows) /\ gaveUp \in BOOLEAN
      /\ form \in Options \cup {NoForm}
  BY DEF TypeInv, TypeOK, Pages, Chain, Acts
<1>2. clicks < MaxClicks =>
        clicks + 1 \in 0 .. MaxClicks /\ acts + 1 <= 3 * (clicks + 1) /\ acts + 3 <= 3 * (clicks + 1)
        /\ acts + 2 <= 3 * (clicks + 1)
  BY <1>1
<1>3. CASE \E o \in Options : Submit(o)
  <2>1. PICK o \in Options : Submit(o)
    BY <1>3
  <2>2. Kind' = "create"
    BY <2>1 DEF Submit, Clicks, Kind
  <2> QED
    BY <1>1, <1>2, <2>1, <2>2, StartKeepsTypes DEF Submit, Clicks
<1>4. CASE InstallClick
  <2>1. Kind' = "install"
    BY <1>4 DEF InstallClick, Clicks, Kind
  <2> QED
    BY <1>1, <1>2, <1>4, <2>1, StartKeepsTypes DEF InstallClick, Clicks
<1>5. CASE SmokeClick
  <2>1. Kind' = "smoke"
    BY <1>5 DEF SmokeClick, Clicks, Kind
  <2> QED
    BY <1>1, <1>2, <1>5, <2>1, StartKeepsTypes DEF SmokeClick, Clicks
<1> QED
  BY <1>3, <1>4, <1>5

LEMMA OutcomeKeepsTypes ==
  ASSUME TypeInv, waiting # 0, NEW build \in Nat, build <= Len(rows),
         NEW status \in Results(Kind) \cup {"error"}, status = "created" => build # 0,
         Outcome(Kind, build, status), answers' \subseteq answers, gaveUp' \in BOOLEAN,
         UNCHANGED <<dir, hub, rows, registered, form, button, clicks, previewVars>>
  PROVE  TypeInv'
<1>1. /\ acts \in Nat /\ clicks \in 0 .. MaxClicks /\ acts <= 3 * clicks /\ page \in Pages
      /\ page.build \in Nat /\ page.build <= Len(rows)
      /\ form \in Options \cup {NoForm} /\ button \in {"submit", "install", "smoke"}
  BY DEF TypeInv, TypeOK, Pages, Chain, Acts
<1>2. /\ Kind = "create" => acts + 2 <= 3 * clicks /\ button = "submit"
      /\ Kind = "install" /\ button = "submit" => acts + 1 <= 3 * clicks /\ page.build # 0
  BY <1>1 DEF TypeInv, Chain, Kind
<1>3. CASE Kind = "create" /\ Created(build) /\ status = "created"
  <2>1. page' \in Pages /\ page'.build = build /\ page'.install = ""
    BY <1>3 DEF Created, Blank, Pages, InstallStatuses, SmokeStatuses
  <2>2. CASE Starts("install", NoForm, build)
    <3>1. Kind' = "install"
      BY <1>2, <1>3, <2>1 DEF Kind
    <3>2. NoForm \in Options \cup {NoForm} /\ acts + 1 <= 3 * clicks /\ acts + 2 <= 3 * clicks
      BY <1>1, <1>2, <1>3
    <3> QED
      BY <1>1, <1>3, <2>1, <2>2, <3>1, <3>2, StartKeepsTypes
  <2>3. CASE Ends
    BY <1>1, <2>1, <2>3, EndKeepsTypes DEF Ends
  <2> QED
    BY <1>3, <2>2, <2>3 DEF Created
<1>4. CASE CreateError
  <2>1. page' \in Pages /\ page'.build = 0
    BY <1>4 DEF CreateError, Blank, Pages, InstallStatuses, SmokeStatuses
  <2> QED
    BY <1>1, <1>4, <2>1, EndKeepsTypes DEF CreateError, Ends
<1>5. CASE Kind = "install" /\ Installed(IF status = "error" THEN "failed" ELSE status)
  <2> DEFINE st == IF status = "error" THEN "failed" ELSE status
  <2>1. st \in InstallStatuses
    BY <1>5 DEF Results, InstallStatuses
  <2>2. page' \in Pages /\ page'.build = page.build /\ page'.install = st
    BY <1>1, <1>5, <2>1 DEF Installed, Pages
  <2>3. CASE button = "submit" /\ st = "installed" /\ Starts("smoke", NoForm, page.build)
    <3>1. Kind' = "smoke"
      BY <1>2, <1>5, <2>2, <2>3 DEF Kind
    <3> QED
      BY <1>1, <1>2, <1>5, <2>2, <2>3, <3>1, StartKeepsTypes
  <2>4. CASE Ends
    BY <1>1, <2>2, <2>4, EndKeepsTypes DEF Ends
  <2> QED
    BY <1>5, <2>3, <2>4 DEF Installed
<1>6. CASE Kind = "smoke" /\ Smoked(IF status = "error" THEN "failed" ELSE status)
  <2>1. (IF status = "error" THEN "failed" ELSE status) \in SmokeStatuses
    BY <1>6 DEF Results, SmokeStatuses
  <2>2. page' \in Pages /\ page'.build = page.build
    BY <1>1, <1>6, <2>1 DEF Smoked, Pages
  <2> QED
    BY <1>1, <1>6, <2>2, EndKeepsTypes DEF Smoked, Ends
<1> QED
  BY <1>3, <1>4, <1>5, <1>6 DEF Outcome

------------------------------------------------------------------------------
(* The preview. *)

\* The request with the latest token is for the form as it is, unless the timer runs; when
\* it is over the preview shows the form or an error.
PreviewInv ==
  /\ \A r \in requests : r.token <= latest /\ (r.token = latest /\ ~timer => r.of = edits)
  /\ ~timer => \/ \E r \in requests : r.token = latest
               \/ (preview.of = edits \/ preview.error) /\ ~preview.refreshing

PreviewTypes ==
  /\ edits \in 0 .. MaxEdits /\ timer \in BOOLEAN /\ latest \in 0 .. 2 * MaxEdits
  /\ requests \subseteq
       [token : 1 .. 2 * MaxEdits, of : 0 .. MaxEdits, at : {"fetch", "body"}, ok : BOOLEAN]
  /\ preview \in [of : 0 .. MaxEdits, error : BOOLEAN, refreshing : BOOLEAN]
  /\ latest + (IF timer THEN 1 ELSE 0) <= 2 * edits

LEMMA RefreshKeeps ==
  ASSUME PreviewTypes, PreviewInv, Refresh, NEW e \in 0 .. MaxEdits, edits' = e,
         latest + 1 <= 2 * MaxEdits
  PROVE  /\ latest' = latest + 1 /\ latest' \in 0 .. 2 * MaxEdits
         /\ requests' \subseteq
              [token : 1 .. 2 * MaxEdits, of : 0 .. MaxEdits, at : {"fetch", "body"}, ok : BOOLEAN]
         /\ preview' \in [of : 0 .. MaxEdits, error : BOOLEAN, refreshing : BOOLEAN]
         /\ PreviewInv'
<1>1. latest' = latest + 1 /\ latest \in Nat /\ preview' = [preview EXCEPT !.refreshing = TRUE]
  BY DEF Refresh, PreviewTypes
<1>2. PICK survivors \in SUBSET requests :
        requests' = survivors \cup {[token |-> latest', of |-> edits', at |-> "fetch", ok |-> TRUE]}
  BY DEF Refresh
<1>3. PICK new : new = [token |-> latest + 1, of |-> e, at |-> "fetch", ok |-> TRUE]
  OBVIOUS
<1>4. /\ requests' = survivors \cup {new} /\ new.token = latest' /\ new.of = edits'
      /\ new \in [token : 1 .. 2 * MaxEdits, of : 0 .. MaxEdits, at : {"fetch", "body"}, ok : BOOLEAN]
  BY <1>1, <1>2, <1>3
<1>5. \A r \in survivors : r.token \in Nat /\ r.token <= latest
  BY DEF PreviewTypes, PreviewInv
<1>6. \A r \in survivors : r.token <= latest' /\ r.token # latest'
  BY <1>1, <1>5
<1>7. PreviewInv'
  BY <1>1, <1>4, <1>6 DEF PreviewInv
<1>8. latest' \in 0 .. 2 * MaxEdits
  BY <1>1
<1>9. requests' \subseteq
        [token : 1 .. 2 * MaxEdits, of : 0 .. MaxEdits, at : {"fetch", "body"}, ok : BOOLEAN]
  BY <1>4 DEF PreviewTypes
<1>10. preview' \in [of : 0 .. MaxEdits, error : BOOLEAN, refreshing : BOOLEAN]
  BY <1>1 DEF PreviewTypes
<1> QED
  BY <1>1, <1>7, <1>8, <1>9, <1>10

LEMMA EditKeeps ==
  ASSUME PreviewTypes, PreviewInv, Edit
  PROVE  PreviewTypes' /\ PreviewInv'
<1>1. PICK e \in 0 .. MaxEdits : e = edits + 1 /\ edits' = e /\ edits < MaxEdits
  <2>1. edits < MaxEdits /\ edits' = edits + 1 /\ edits \in 0 .. MaxEdits
    BY DEF Edit, PreviewTypes
  <2> QED
    BY <2>1
<1>2. latest + 1 <= 2 * MaxEdits /\ latest \in Nat /\ latest <= 2 * edits /\ latest + 2 <= 2 * e
  <2>1. latest \in Nat /\ latest <= 2 * edits /\ edits \in Nat
    BY DEF PreviewTypes
  <2> QED
    BY <1>1, <2>1
<1>3. timer' \in BOOLEAN
  BY DEF Edit, PreviewTypes
<1>4. CASE timer' = TRUE /\ UNCHANGED <<latest, requests, preview>>
  <2>1. latest' + 1 <= 2 * edits'
    BY <1>1, <1>2, <1>4
  <2>2. PreviewTypes'
    BY <1>1, <1>4, <2>1 DEF PreviewTypes
  <2>3. PreviewInv'
    BY <1>4 DEF PreviewInv
  <2> QED
    BY <2>2, <2>3
<1>5. CASE Refresh /\ (timer' = TRUE \/ UNCHANGED timer)
  <2>1. latest + 1 <= 2 * MaxEdits
    BY <1>1, <1>2
  <2>2. /\ latest' = latest + 1 /\ latest' \in 0 .. 2 * MaxEdits
        /\ requests' \subseteq
              [token : 1 .. 2 * MaxEdits, of : 0 .. MaxEdits, at : {"fetch", "body"}, ok : BOOLEAN]
        /\ preview' \in [of : 0 .. MaxEdits, error : BOOLEAN, refreshing : BOOLEAN]
        /\ PreviewInv'
    BY <1>1, <1>5, <2>1, RefreshKeeps
  <2>3. latest' + (IF timer' THEN 1 ELSE 0) <= 2 * edits'
    BY <1>1, <1>2, <1>3, <2>2
  <2> QED
    BY <1>1, <1>3, <2>2, <2>3 DEF PreviewTypes
<1> QED
  BY <1>4, <1>5 DEF Edit

LEMMA DebouncedKeeps ==
  ASSUME PreviewTypes, PreviewInv, Debounced
  PROVE  PreviewTypes' /\ PreviewInv'
<1>1. edits \in 0 .. MaxEdits /\ edits' = edits /\ timer /\ timer' = FALSE /\ Refresh
  BY DEF Debounced, PreviewTypes
<1>2. latest + 1 <= 2 * edits /\ latest + 1 <= 2 * MaxEdits /\ latest \in Nat
  BY <1>1 DEF PreviewTypes
<1>3. /\ latest' = latest + 1 /\ latest' \in 0 .. 2 * MaxEdits
      /\ requests' \subseteq
            [token : 1 .. 2 * MaxEdits, of : 0 .. MaxEdits, at : {"fetch", "body"}, ok : BOOLEAN]
      /\ preview' \in [of : 0 .. MaxEdits, error : BOOLEAN, refreshing : BOOLEAN]
      /\ PreviewInv'
  BY <1>1, <1>2, RefreshKeeps
<1>4. latest' + (IF timer' THEN 1 ELSE 0) <= 2 * edits'
  BY <1>1, <1>2, <1>3
<1> QED
  BY <1>1, <1>3, <1>4 DEF PreviewTypes

LEMMA RequestKeeps ==
  ASSUME PreviewTypes, PreviewInv, NEW r \in requests,
         Respond(r) \/ ReadBody(r) \/ RequestFails(r)
  PROVE  PreviewTypes' /\ PreviewInv'
<1>1. edits' = edits /\ timer' = timer /\ latest' = latest
  BY DEF Respond, ReadBody, RequestFails
<1>2. CASE Drop(r) /\ IsStale(r)
  BY <1>1, <1>2 DEF Drop, IsStale, PreviewTypes, PreviewInv
<1>3. ASSUME NEW of \in 0 .. MaxEdits, NEW error \in BOOLEAN, Settle(r, of, error), ~IsStale(r),
             error \/ of = r.of
      PROVE  PreviewTypes' /\ PreviewInv'
  BY <1>1, <1>3 DEF Settle, IsStale, PreviewTypes, PreviewInv
<1>4. CASE Respond(r) /\ ~IsStale(r)
  <2>1. PICK ok \in BOOLEAN : requests' = (requests \ {r}) \cup {[r EXCEPT !.at = "body", !.ok = ok]}
    BY <1>4 DEF Respond
  <2>2. PICK new : new = [r EXCEPT !.at = "body", !.ok = ok]
    OBVIOUS
  <2>3. /\ new \in [token : 1 .. 2 * MaxEdits, of : 0 .. MaxEdits, at : {"fetch", "body"}, ok : BOOLEAN]
        /\ new.token = r.token /\ new.of = r.of
    BY <2>2 DEF PreviewTypes
  <2>4. requests' = (requests \ {r}) \cup {new} /\ preview' = preview
    BY <1>4, <2>1, <2>2 DEF Respond
  <2> QED
    BY <1>1, <2>3, <2>4 DEF PreviewTypes, PreviewInv
<1>5. CASE ReadBody(r) /\ ~IsStale(r)
  <2>1. r.ok \in BOOLEAN /\ r.of \in 0 .. MaxEdits /\ preview.of \in 0 .. MaxEdits
    BY DEF PreviewTypes
  <2>2. CASE r.ok
    BY <1>3, <1>5, <2>1, <2>2 DEF ReadBody
  <2>3. CASE ~r.ok
    BY <1>3, <1>5, <2>1, <2>3 DEF ReadBody
  <2> QED
    BY <2>1, <2>2, <2>3
<1>6. CASE RequestFails(r) /\ ~IsStale(r)
  BY <1>3, <1>6 DEF RequestFails, PreviewTypes
<1> QED
  BY <1>2, <1>4, <1>5, <1>6 DEF Respond, ReadBody, RequestFails

LEMMA PreviewSteps ==
  ASSUME PreviewTypes, PreviewInv, [Next]_vars
  PROVE  PreviewTypes' /\ PreviewInv'
<1>1. ASSUME UNCHANGED previewVars PROVE PreviewTypes' /\ PreviewInv'
  BY <1>1 DEF previewVars, PreviewTypes, PreviewInv
<1>2. CASE \/ \E o \in Options : Submit(o)
           \/ InstallClick \/ SmokeClick \/ StartNew
           \/ \E i \in DOMAIN rows : Reopen(i)
           \/ Receive \/ GiveUp
           \/ Handling /\ UNCHANGED <<pageVars, previewVars>>
           \/ UNCHANGED vars
  BY <1>1, <1>2 DEF Submit, InstallClick, SmokeClick, Clicks, StartNew, Reopen, Receive, GiveUp, vars
<1> QED
  BY <1>2, EditKeeps, DebouncedKeeps, RequestKeeps DEF Next, Previewing

LEMMA InitPreview == Init => PreviewTypes /\ PreviewInv
<1> SUFFICES ASSUME Init PROVE PreviewTypes /\ PreviewInv
  OBVIOUS
<1>1. /\ edits = 0 /\ timer = FALSE /\ latest = 0 /\ requests = {}
      /\ preview = [of |-> 0, error |-> FALSE, refreshing |-> FALSE]
  BY DEF Init
<1>2. 0 \in 0 .. MaxEdits /\ 0 \in 0 .. 2 * MaxEdits /\ 0 + 0 <= 2 * 0
  OBVIOUS
<1>3. PreviewTypes
  BY <1>1, <1>2 DEF PreviewTypes
<1>4. PreviewInv
  BY <1>1 DEF PreviewInv
<1> QED
  BY <1>3, <1>4

\* When no timer runs and no request is in progress the live preview shows the form as it
\* is, or an error, whatever the order in which the responses and their bodies arrived.
THEOREM PreviewIsLatest == Spec => []LatestPreviewShown
<1>1. Init => PreviewTypes /\ PreviewInv
  BY InitPreview
<1>2. PreviewTypes /\ PreviewInv /\ [Next]_vars => PreviewTypes' /\ PreviewInv'
  BY PreviewSteps
<1>3. PreviewInv => LatestPreviewShown
  BY DEF PreviewInv, LatestPreviewShown, Quiet
<1> QED
  BY <1>1, <1>2, <1>3, PTL DEF Spec

------------------------------------------------------------------------------
(* All the types. *)

LEMMA PreviewingKeepsTypes ==
  ASSUME TypeInv, PreviewTypes', UNCHANGED <<buildVars, pageVars>>
  PROVE  TypeInv'
<1>1. /\ dir' = dir /\ hub' = hub /\ rows' = rows /\ registered' = registered
      /\ handlers' = handlers /\ answers' = answers /\ page' = page /\ waiting' = waiting
      /\ form' = form /\ button' = button /\ acts' = acts /\ clicks' = clicks /\ gaveUp' = gaveUp
  BY DEF buildVars, pageVars
<1>2. TypeOK'
  BY <1>1 DEF TypeInv, TypeOK, BuildTypes, PreviewTypes
<1>3. Kind' = Kind
  BY <1>1 DEF Kind
<1>4. \A h \in handlers : HandlerOK(h)' /\ (h.id = waiting => h.kind = Kind)
  BY <1>1 DEF TypeInv, HandlerOK
<1>5. \A a \in answers : AnswerOK(a)'
  BY <1>1, <1>3 DEF TypeInv, AnswerOK
<1>6. Numbered' /\ Chain'
  BY <1>1, <1>3 DEF TypeInv, Numbered, Chain
<1> QED
  BY <1>1, <1>2, <1>3, <1>4, <1>5, <1>6 DEF TypeInv, PreviewTypes

LEMMA TypeSteps ==
  ASSUME TypeInv, PreviewInv, [Next]_vars
  PROVE  TypeInv'
<1>1. /\ page \in Pages /\ page.build <= Len(rows) /\ rows \in Seq(Rows) /\ gaveUp \in BOOLEAN
      /\ form \in Options \cup {NoForm} /\ button \in {"submit", "install", "smoke"}
  BY DEF TypeInv, TypeOK, BuildTypes
<1>2. PreviewTypes
  BY DEF TypeInv, TypeOK, PreviewTypes
<1>3. PreviewTypes'
  BY <1>2, PreviewSteps
<1>4. CASE Edit \/ Previewing \/ UNCHANGED vars
  BY <1>3, <1>4, PreviewingKeepsTypes
     DEF Edit, Previewing, Debounced, Respond, ReadBody, RequestFails, vars
<1>5. CASE (\E o \in Options : Submit(o)) \/ InstallClick \/ SmokeClick
  BY <1>5, ClickKeepsTypes
<1>6. CASE StartNew \/ \E i \in DOMAIN rows : Reopen(i)
  <2>1. page' \in Pages /\ page'.build <= Len(rows)
    <3>1. CASE StartNew
      <4>1. page' = Blank
        BY <3>1 DEF StartNew
      <4>2. Blank \in Pages /\ Blank.build = 0
        BY DEF Blank, Pages, InstallStatuses, SmokeStatuses
      <4>3. Len(rows) \in Nat
        BY <1>1
      <4> QED
        BY <4>1, <4>2, <4>3
    <3>2. CASE \E i \in DOMAIN rows : Reopen(i)
      <4>1. PICK i \in DOMAIN rows : page' = [Blank EXCEPT !.build = i]
        BY <3>2 DEF Reopen
      <4>2. i \in Nat /\ i <= Len(rows)
        BY <1>1
      <4> QED
        BY <4>1, <4>2 DEF Blank, Pages, InstallStatuses, SmokeStatuses
    <3> QED
      BY <1>6, <3>1, <3>2
  <2>2. waiting' = 0 /\ UNCHANGED <<buildVars, form, button, acts, clicks, gaveUp, previewVars>>
    BY <1>6 DEF StartNew, Reopen
  <2> QED
    BY <1>1, <2>1, <2>2, EndKeepsTypes DEF buildVars
<1>7. CASE Receive
  <2>1. PICK a \in answers :
          /\ a.id = waiting /\ Outcome(Kind, a.build, a.status) /\ answers' = answers \ {a}
          /\ UNCHANGED <<dir, hub, rows, registered, form, button, clicks, gaveUp, previewVars>>
    BY <1>7 DEF Receive
  <2>2. waiting # 0 /\ a.build \in Nat
    BY <2>1 DEF TypeInv, TypeOK, BuildTypes, Answers, Acts
  <2>3. a.build <= Len(rows) /\ a.status \in Results(Kind) \cup {"error"}
        /\ (a.status = "created" => a.build # 0)
    BY <2>1 DEF TypeInv, AnswerOK
  <2> QED
    BY <1>1, <2>1, <2>2, <2>3, OutcomeKeepsTypes
<1>8. CASE GiveUp
  BY <1>1, <1>8, OutcomeKeepsTypes DEF GiveUp
<1>9. CASE Handling /\ UNCHANGED <<pageVars, previewVars>>
  BY <1>9, HandlerStepKeepsTypes DEF Handling
<1> QED
  BY <1>4, <1>5, <1>6, <1>7, <1>8, <1>9 DEF Next

LEMMA InitTypes == Init => TypeInv /\ PreviewTypes /\ PreviewInv
<1> SUFFICES ASSUME Init PROVE TypeInv /\ PreviewTypes /\ PreviewInv
  OBVIOUS
<1>1. PreviewTypes /\ PreviewInv
  BY InitPreview
<1>2. dir \in Directories
  <2>1. {} \in SUBSET Files /\ FALSE \in BOOLEAN /\ 0 \in {0} \cup Acts
    OBVIOUS
  <2> QED
    BY <2>1 DEF Init, BuildInit, Directories
<1>3. hub \in Hubs
  BY DEF Init, BuildInit, Hubs
<1>4. rows = <<>> /\ registered = FALSE /\ handlers = {} /\ answers = {} /\ acts = 0 /\ clicks = 0
      /\ waiting = 0 /\ page = Blank
  BY DEF Init, BuildInit
<1>5. page \in Pages /\ page.build = 0
  BY <1>4 DEF Blank, Pages, InstallStatuses, SmokeStatuses
<1>6. TypeOK
  <2>1. BuildTypes
    <3>1. <<>> \in Seq(Rows) /\ {} \subseteq Handlers /\ {} \subseteq Answers
      OBVIOUS
    <3>2. rows \in Seq(Rows) /\ handlers \subseteq Handlers /\ answers \subseteq Answers
      BY <1>4, <3>1
    <3> QED
      BY <1>2, <1>3, <1>4, <3>2 DEF BuildTypes
  <2>2. form = NoForm /\ button = "submit" /\ gaveUp = FALSE /\ 0 \in 0 .. MaxClicks
    BY DEF Init
  <2>3. acts \in {0} \cup Acts /\ waiting \in {0} \cup Acts /\ clicks \in 0 .. MaxClicks
        /\ form \in Options \cup {NoForm} /\ button \in {"submit", "install", "smoke"}
        /\ gaveUp \in BOOLEAN
    BY <1>4, <2>2
  <2> QED
    BY <1>1, <1>5, <2>1, <2>3 DEF TypeOK, PreviewTypes
<1>7. Numbered /\ Chain
  BY <1>4 DEF Numbered, Chain
<1> QED
  BY <1>1, <1>4, <1>5, <1>6, <1>7 DEF TypeInv, PreviewTypes

\* Every variable keeps its type, in particular no click starts more than three handlers, no
\* result is one of another command, and the URL never names a build that is not recorded.
THEOREM TypesOfBuilder == Spec => []TypeOK
<1>1. Init => TypeInv /\ PreviewTypes /\ PreviewInv
  BY InitTypes
<1>2. TypeInv /\ PreviewTypes /\ PreviewInv /\ [Next]_vars
        => TypeInv' /\ PreviewTypes' /\ PreviewInv'
  BY TypeSteps, PreviewSteps
<1>3. TypeInv => TypeOK
  BY DEF TypeInv
<1> QED
  BY <1>1, <1>2, <1>3, PTL DEF Spec

------------------------------------------------------------------------------
(* What a build has made is there. *)

\* What a creating handler has made so far is on the disk or on GitHub.
LocalOK(h) ==
  /\ h.at \in {"start", "remote", "push", "register", "record"}
  /\ \A i \in Files : h.at # "start" \/ i < h.next => i \in dir.files
  /\ h.git = "initialized" => h.at # "start" /\ dir.git = "own" /\ Files \subseteq dir.commit
  /\ h.remote = "created" => h.at \in {"register", "record"}
  /\ h.git = "initialized" /\ h.remote = "created" => dir.origin /\ Files \subseteq hub.main
HubOK(h) ==
  /\ h.at \in {"start", "tree", "ref", "commit", "pr", "record"}
  /\ h.git = ""
  /\ h.at \in {"pr", "record"} => h.made \subseteq hub.branches[h.id]
  /\ h.at = "record" => h.id \in hub.prs
MadeOK(h) == h.kind = "create" => IF IsLocal(h) THEN LocalOK(h) ELSE HubOK(h)
RowOK(row) ==
  /\ IF row.dest = "local" THEN Files \subseteq dir.files
     ELSE row.act \in hub.prs /\ row.made \subseteq hub.branches[row.act]
  /\ row.git = "initialized" /\ row.remote = "created" => dir.origin /\ Files \subseteq hub.main

MadeInv ==
  /\ \A h \in handlers : MadeOK(h)
  /\ \A i \in DOMAIN rows : RowOK(rows[i])

\* A step of handler h takes nothing away, and touches no branch but its own.
Grows(h) ==
  /\ dir.files \subseteq dir'.files
  /\ dir.git = "own" => dir'.git = "own" /\ dir'.commit = dir.commit
  /\ dir.origin => dir'.origin /\ hub'.main = hub.main
  /\ hub.prs \subseteq hub'.prs
  /\ \A a \in Acts : hub'.branches[a] = hub.branches[a] \/ (a = h.id /\ h.kind = "create")

MadeSteps(h) ==
  \/ \E g : Becomes(h, g) /\ UNCHANGED rows /\ g.id = h.id /\ MadeOK(g)'
  \/ Throws(h) /\ UNCHANGED rows
  \/ rows' = Append(rows, Row(h)) /\ handlers' = handlers \ {h} /\ RowOK(Row(h))'
  \/ Save(h)

LEMMA CreateMakes ==
  ASSUME BuildOutsideTypes, NEW h \in Handlers, HandlerOK(h), MadeOK(h), Create(h),
         h.kind = "create"
  PROVE  Grows(h) /\ MadeSteps(h)
<1>0. /\ h.id \in Acts /\ h.next \in 1 .. NFiles + 1 /\ h.opts \in Options
      /\ hub.branches \in [Acts -> SUBSET Files] /\ dir \in Directories /\ hub \in Hubs
      /\ Files = 1 .. NFiles
  BY DEF Handlers, HandlerOK, BuildOutsideTypes, Hubs, Files
<1>1. ASSUME UNCHANGED <<dir, hub>> PROVE Grows(h)
  BY <1>1 DEF Grows
<1>2. ASSUME NEW g, Becomes(h, g), UNCHANGED rows, g.id = h.id, g.kind = "create", g.opts = h.opts,
             IF IsLocal(h) THEN LocalOK(g)' ELSE HubOK(g)'
      PROVE  MadeSteps(h)
  BY <1>2 DEF MadeSteps, MadeOK, IsLocal
<1>3. (IsLocal(h) => LocalOK(h)) /\ (~IsLocal(h) => HubOK(h))
  BY DEF MadeOK
<1>4. CASE Throws(h) /\ UNCHANGED <<dir, hub, rows, registered>>
  BY <1>1, <1>4 DEF MadeSteps
<1>5. CASE SkipFile(h)
  <2>1. PICK g : g = [h EXCEPT !.next = h.next + 1]
    OBVIOUS
  <2>2. g.id = h.id /\ g.kind = h.kind /\ g.opts = h.opts /\ g.at = h.at /\ g.next = h.next + 1
        /\ g.git = h.git /\ g.remote = h.remote
    BY <2>1 DEF Handlers
  <2>3. Becomes(h, g) /\ IsLocal(h) /\ h.at = "start" /\ h.next \in dir.files
        /\ UNCHANGED <<dir, hub, rows, registered>>
    BY <1>5, <2>1 DEF SkipFile, At
  <2>4. LocalOK(g)'
    BY <1>0, <1>3, <2>2, <2>3 DEF LocalOK
  <2> QED
    BY <1>1, <1>2, <2>2, <2>3, <2>4
<1>6. CASE WriteNext(h)
  <2>1. PICK g : g = [h EXCEPT !.next = h.next + 1, !.made = h.made \cup {h.next}]
    OBVIOUS
  <2>2. g.id = h.id /\ g.kind = h.kind /\ g.opts = h.opts /\ g.at = h.at /\ g.next = h.next + 1
        /\ g.git = h.git /\ g.remote = h.remote
    BY <2>1 DEF Handlers
  <2>3. Becomes(h, g) /\ IsLocal(h) /\ h.at = "start" /\ UNCHANGED <<hub, rows, registered>>
        /\ dir' = [dir EXCEPT !.files = @ \cup {h.next}, !.whole = @ \cup {h.next}]
    BY <1>6, <2>1 DEF WriteNext, Writes, At
  <2>4. dir'.files = dir.files \cup {h.next} /\ dir'.git = dir.git /\ dir'.commit = dir.commit
        /\ dir'.origin = dir.origin
    BY <1>0, <2>3 DEF Directories
  <2>5. Grows(h)
    BY <2>3, <2>4 DEF Grows
  <2>6. LocalOK(g)'
    BY <1>0, <1>3, <2>2, <2>3, <2>4 DEF LocalOK
  <2> QED
    BY <1>2, <2>2, <2>3, <2>5, <2>6
<1>7. CASE WriteFails(h)
  <2>1. Throws(h) /\ UNCHANGED <<hub, rows, registered>>
    BY <1>7 DEF WriteFails
  <2>2. dir.files \subseteq dir'.files /\ dir'.git = dir.git /\ dir'.commit = dir.commit
        /\ dir'.origin = dir.origin
    <3>1. \/ dir' = dir
          \/ dir' = [dir EXCEPT !.files = dir.files \cup {h.next}, !.whole = dir.whole \ {h.next}]
      BY <1>7 DEF WriteFails
    <3>2. CASE dir' = dir
      BY <3>2
    <3>3. CASE dir' = [dir EXCEPT !.files = dir.files \cup {h.next}, !.whole = dir.whole \ {h.next}]
      BY <1>0, <3>3 DEF Directories
    <3> QED
      BY <3>1, <3>2, <3>3
  <2> QED
    BY <2>1, <2>2 DEF Grows, MadeSteps
<1>8. CASE InitGit(h)
  <2>1. IsLocal(h) /\ h.at = "start" /\ h.next \notin Files /\ UNCHANGED <<hub, rows, registered>>
    BY <1>8 DEF InitGit, At
  <2>2. Files \subseteq dir.files
    BY <1>0, <1>3, <2>1 DEF LocalOK
  <2>3. PICK status : /\ GitDone(h, status)
                      /\ \/ UNCHANGED dir /\ status # "initialized"
                         \/ dir.git = "none" /\ dir' = [dir EXCEPT !.git = "own"] /\ status # "initialized"
                         \/ dir.git = "none" /\ dir' = [dir EXCEPT !.git = "own", !.commit = dir.files]
    BY <1>8 DEF InitGit
  <2>4. PICK g : g = [h EXCEPT !.at = "remote", !.git = status]
    OBVIOUS
  <2>5. g.id = h.id /\ g.kind = h.kind /\ g.opts = h.opts /\ g.at = "remote"
        /\ g.git = status /\ g.remote = h.remote
    BY <2>4 DEF Handlers
  <2>6. /\ dir'.files = dir.files /\ dir'.origin = dir.origin
        /\ \/ dir' = dir /\ status # "initialized"
           \/ dir.git = "none" /\ dir'.git = "own" /\ (status = "initialized" => dir'.commit = dir.files)
    BY <1>0, <2>3 DEF Directories
  <2>7. Grows(h)
    BY <2>1, <2>6 DEF Grows
  <2>8. LocalOK(g)'
    BY <1>3, <2>1, <2>2, <2>5, <2>6 DEF LocalOK
  <2> QED
    BY <1>2, <2>1, <2>3, <2>4, <2>5, <2>7, <2>8 DEF GitDone
<1>9. ASSUME NEW status, IsLocal(h), h.at \in {"remote", "push"}, RemoteDone(h, status), UNCHANGED rows,
             Grows(h),
             status = "created" /\ h.git = "initialized" => dir'.origin /\ Files \subseteq hub'.main
      PROVE  MadeSteps(h)
  <2>1. PICK g : g = [h EXCEPT !.at = "register", !.remote = status]
    OBVIOUS
  <2>2. g.id = h.id /\ g.kind = h.kind /\ g.opts = h.opts /\ g.at = "register"
        /\ g.git = h.git /\ g.remote = status
    BY <2>1 DEF Handlers
  <2>3. LocalOK(g)'
    BY <1>3, <1>9, <2>2 DEF LocalOK, Grows
  <2> QED
    BY <1>2, <1>9, <2>1, <2>2, <2>3 DEF RemoteDone
<1>10. h.at \in {"remote", "push", "register"} => IsLocal(h)
  BY <1>3 DEF HubOK
<1>11. CASE NoRemote(h)
  <2>1. PICK status : RemoteDone(h, status) /\ status # "created"
    BY <1>11 DEF NoRemote
  <2> QED
    BY <1>1, <1>9, <1>10, <1>11, <2>1 DEF NoRemote, At
<1>12. ASSUME NEW at, Goes(h, at), UNCHANGED rows, Grows(h), IsLocal(h), h.at # "start",
              at \in {"push", "register", "record"}, h.remote = "created" => at # "push"
       PROVE  MadeSteps(h)
  <2>1. PICK g : g = [h EXCEPT !.at = at]
    OBVIOUS
  <2>2. g.id = h.id /\ g.kind = h.kind /\ g.opts = h.opts /\ g.at = at
        /\ g.git = h.git /\ g.remote = h.remote
    BY <2>1 DEF Handlers
  <2>3. LocalOK(g)'
    BY <1>3, <1>12, <2>2 DEF LocalOK, Grows
  <2> QED
    BY <1>2, <1>12, <2>1, <2>2, <2>3 DEF Goes
<1>13. CASE CreateRemote(h)
  <2>1. h.at = "remote" /\ UNCHANGED <<dir, rows>> /\ Goes(h, "push") /\ hub' = [hub EXCEPT !.repo = TRUE]
    BY <1>13 DEF CreateRemote, At
  <2>2. Grows(h)
    BY <1>0, <2>1 DEF Grows, Hubs
  <2>3. IsLocal(h) /\ h.remote # "created"
    BY <1>3, <1>10, <2>1 DEF LocalOK
  <2> QED
    BY <1>12, <2>1, <2>2, <2>3
<1>14. CASE Push(h)
  <2>1. h.at = "push" /\ CanPush /\ UNCHANGED rows /\ RemoteDone(h, "created")
        /\ dir' = [dir EXCEPT !.origin = TRUE] /\ hub' = [hub EXCEPT !.main = dir.commit]
    BY <1>14 DEF Push, At
  <2>2. /\ dir'.files = dir.files /\ dir'.git = dir.git /\ dir'.commit = dir.commit /\ dir'.origin
        /\ hub'.main = dir.commit /\ hub'.prs = hub.prs /\ hub'.branches = hub.branches /\ ~dir.origin
    BY <1>0, <2>1 DEF Directories, Hubs, CanPush
  <2>3. Grows(h)
    BY <2>2 DEF Grows
  <2>4. h.git = "initialized" => Files \subseteq dir.commit
    BY <1>3, <1>10, <2>1 DEF LocalOK
  <2> QED
    BY <1>9, <1>10, <2>1, <2>2, <2>3, <2>4
<1>15. CASE PushFails(h)
  <2>1. h.at = "push" /\ UNCHANGED <<hub, rows>> /\ RemoteDone(h, "failed")
        /\ (UNCHANGED dir \/ dir' = [dir EXCEPT !.origin = TRUE])
    BY <1>15 DEF PushFails, At
  <2>2. /\ dir'.files = dir.files /\ dir'.git = dir.git /\ dir'.commit = dir.commit
        /\ dir.origin => dir'.origin
    BY <1>0, <2>1 DEF Directories
  <2>3. Grows(h)
    BY <2>1, <2>2 DEF Grows
  <2> QED
    BY <1>9, <1>10, <2>1, <2>3
<1>16. CASE Register(h)
  <2>1. h.at = "register" /\ Goes(h, "record") /\ UNCHANGED <<dir, hub, rows>>
    BY <1>16 DEF Register, At
  <2> QED
    BY <1>1, <1>10, <1>12, <2>1
<1>17. ASSUME NEW at \in {"tree", "commit", "pr", "record"}, Goes(h, at), UNCHANGED rows,
              ~IsLocal(h), Grows(h),
              at \in {"pr", "record"} => h.made \subseteq hub'.branches[h.id],
              at = "record" => h.id \in hub'.prs
       PROVE  MadeSteps(h)
  <2>1. PICK g : g = [h EXCEPT !.at = at]
    OBVIOUS
  <2>2. g.id = h.id /\ g.kind = h.kind /\ g.opts = h.opts /\ g.at = at
        /\ g.git = h.git /\ g.made = h.made
    BY <2>1 DEF Handlers
  <2>3. HubOK(g)'
    BY <1>3, <1>17, <2>2 DEF HubOK
  <2> QED
    BY <1>2, <1>17, <2>1, <2>2, <2>3 DEF Goes
<1>18. CASE CreateRepository(h) \/ UseRepository(h)
  <2>1. Goes(h, "tree") /\ UNCHANGED <<dir, rows>> /\ ~IsLocal(h)
        /\ (UNCHANGED hub \/ hub' = [hub EXCEPT !.repo = TRUE])
    BY <1>18 DEF CreateRepository, UseRepository, HubStep
  <2>2. Grows(h)
    BY <1>0, <2>1 DEF Grows, Hubs
  <2> QED
    BY <1>17, <2>1, <2>2
<1>19. CASE CreateRef(h)
  <2>1. Goes(h, "commit") /\ UNCHANGED <<dir, rows>> /\ ~IsLocal(h)
    BY <1>19 DEF CreateRef, HubStep
  <2>2. Grows(h)
    BY <1>0, <1>19 DEF CreateRef, HubStep, At, Grows, Hubs
  <2> QED
    BY <1>17, <2>1, <2>2
<1>20. CASE MoveRef(h)
  <2>1. Goes(h, "pr") /\ UNCHANGED <<dir, rows>> /\ ~IsLocal(h)
    BY <1>20 DEF MoveRef, HubStep
  <2>2. Grows(h) /\ h.made \subseteq hub'.branches[h.id]
    BY <1>0, <1>20 DEF MoveRef, HubStep, At, Grows, Hubs
  <2> QED
    BY <1>17, <2>1, <2>2
<1>21. CASE OpenPr(h)
  <2>1. Goes(h, "record") /\ UNCHANGED <<dir, rows>> /\ ~IsLocal(h) /\ h.at = "pr"
    BY <1>21 DEF OpenPr, HubStep, At
  <2>2. Grows(h) /\ h.id \in hub'.prs /\ hub'.branches = hub.branches
    BY <1>0, <1>21 DEF OpenPr, HubStep, Grows, Hubs
  <2>3. h.made \subseteq hub.branches[h.id]
    BY <1>3, <2>1 DEF HubOK
  <2> QED
    BY <1>17, <2>1, <2>2, <2>3
<1>22. CASE ReadBranch(h)
  <2>1. h.at = "tree" /\ ~IsLocal(h) /\ UNCHANGED <<dir, hub, rows, registered>>
    BY <1>3, <1>22 DEF ReadBranch, At, LocalOK
  <2>2. PICK new : Throws(h) \/ Becomes(h, [h EXCEPT !.at = "ref", !.made = new])
    <3> DEFINE N == IF h.opts.overwrite \/ h.opts.remote THEN Files ELSE Files \ hub.main
    <3>1. IF N = {} THEN Throws(h) ELSE Becomes(h, [h EXCEPT !.at = "ref", !.made = N])
      BY <1>22 DEF ReadBranch
    <3> HIDE DEF N
    <3> QED
      BY <3>1
  <2>3. PICK g : g = [h EXCEPT !.at = "ref", !.made = new]
    OBVIOUS
  <2>4. g.id = h.id /\ g.kind = h.kind /\ g.opts = h.opts /\ g.at = "ref" /\ g.git = h.git
    BY <2>3 DEF Handlers
  <2>5. HubOK(g)'
    BY <1>3, <2>1, <2>4 DEF HubOK
  <2>6. CASE Throws(h)
    BY <1>4, <2>1, <2>6
  <2>7. CASE Becomes(h, g)
    BY <1>1, <1>2, <2>1, <2>4, <2>5, <2>7
  <2> QED
    BY <2>2, <2>3, <2>6, <2>7
<1>23. CASE Record(h)
  <2>1. h.at = "record" /\ UNCHANGED <<dir, hub>> /\ rows' = Append(rows, Row(h))
        /\ handlers' = handlers \ {h}
    BY <1>23 DEF Record, At, Answers_
  <2>2. RowOK(Row(h))'
    BY <1>3, <2>1 DEF RowOK, Row, LocalOK, HubOK, IsLocal
  <2> QED
    BY <1>1, <2>1, <2>2 DEF MadeSteps
<1>24. CASE RemoteRefused(h) \/ HubRefuses(h) \/ DatabaseFails(h)
  BY <1>4, <1>24 DEF RemoteRefused, HubRefuses, DatabaseFails
<1> QED
  BY <1>5, <1>6, <1>7, <1>8, <1>11, <1>13, <1>14, <1>15, <1>16, <1>18, <1>19, <1>20, <1>21,
     <1>22, <1>23, <1>24 DEF Create

LEMMA HandleMakes ==
  ASSUME BuildOutsideTypes, NEW h \in Handlers, HandlerOK(h), MadeOK(h), Handle(h)
  PROVE  Grows(h) /\ MadeSteps(h)
<1>0. dir \in Directories /\ hub \in Hubs
  BY DEF BuildOutsideTypes
<1>1. CASE Create(h) /\ h.kind = "create"
  BY <1>1, CreateMakes
<1>2. CASE Create(h) /\ h.kind # "create"
  <2>1. Throws(h) /\ UNCHANGED <<dir, hub, rows, registered>>
    BY <1>2 DEF Create, At, SkipFile, WriteNext, Writes, WriteFails, InitGit, NoRemote,
       CreateRemote, RemoteRefused, Push, PushFails, CreateRepository, UseRepository, HubStep,
       ReadBranch, CreateRef, MoveRef, OpenPr, HubRefuses, Register, Record, DatabaseFails
  <2>2. Grows(h)
    BY <2>1 DEF Grows
  <2> QED
    BY <2>1, <2>2 DEF MadeSteps
<1>3. CASE Install(h) \/ Smoke(h)
  <2>1. h.kind # "create"
    BY <1>3 DEF Install, Smoke, FindManifest, NeedsApproval, ApproveBuilds, PnpmInstall,
       InstallBrowser, InstallFails, FindModules, DeleteReport, DeleteFails, SmokeTest, ReadReport, At
  <2>2. /\ UNCHANGED <<hub, rows>>
        /\ \/ UNCHANGED dir \/ dir' = [dir EXCEPT !.modules = TRUE]
           \/ \E r : dir' = [dir EXCEPT !.report = r]
    BY <1>3 DEF Install, Smoke, FindManifest, NeedsApproval, ApproveBuilds, PnpmInstall,
       InstallBrowser, InstallFails, FindModules, DeleteReport, DeleteFails, SmokeTest, ReadReport
  <2>3. dir'.files = dir.files /\ dir'.git = dir.git /\ dir'.commit = dir.commit
        /\ dir'.origin = dir.origin
    BY <1>0, <2>2 DEF Directories
  <2>4. Grows(h)
    <3>1. hub' = hub
      BY <2>2
    <3> QED
      BY <2>3, <3>1 DEF Grows
  <2>5. ASSUME NEW at, Goes(h, at) PROVE MadeSteps(h)
    <3>1. PICK g : g = [h EXCEPT !.at = at]
      OBVIOUS
    <3>2. g.id = h.id /\ g.kind = h.kind
      BY <3>1 DEF Handlers
    <3> QED
      BY <2>1, <2>2, <2>5, <3>1, <3>2 DEF MadeSteps, MadeOK, Goes
  <2>6. ASSUME NEW status, Saves(h, status) PROVE MadeSteps(h)
    <3>1. PICK g : g = [h EXCEPT !.at = "save", !.status = status]
      OBVIOUS
    <3>2. g.id = h.id /\ g.kind = h.kind
      BY <3>1 DEF Handlers
    <3> QED
      BY <2>1, <2>2, <2>6, <3>1, <3>2 DEF MadeSteps, MadeOK, Saves
  <2>7. CASE SmokeTest(h)
    <3>1. PICK status : Becomes(h, [h EXCEPT !.at = "report", !.status = status])
      BY <2>7 DEF SmokeTest
    <3>2. PICK g : g = [h EXCEPT !.at = "report", !.status = status]
      OBVIOUS
    <3>3. g.id = h.id /\ g.kind = h.kind
      BY <3>2 DEF Handlers
    <3>4. Becomes(h, g) /\ MadeOK(g)' /\ UNCHANGED rows
      BY <2>1, <2>2, <3>1, <3>2, <3>3 DEF MadeOK
    <3> QED
      BY <2>4, <3>3, <3>4 DEF MadeSteps
  <2>8. CASE ReadReport(h)
    <3>1. PICK g : g = [h EXCEPT !.at = "save", !.report = dir.report]
      OBVIOUS
    <3>2. g.id = h.id /\ g.kind = h.kind /\ Becomes(h, g)
      BY <2>8, <3>1 DEF Handlers, ReadReport
    <3>3. MadeOK(g)' /\ UNCHANGED rows
      BY <2>1, <2>2, <3>2 DEF MadeOK
    <3> QED
      BY <2>4, <3>2, <3>3 DEF MadeSteps
  <2>9. MadeSteps(h)
    BY <1>3, <2>5, <2>6, <2>7, <2>8 DEF Install, Smoke, FindManifest, NeedsApproval, ApproveBuilds,
       PnpmInstall, InstallBrowser, InstallFails, FindModules, DeleteReport, DeleteFails
  <2> QED
    BY <2>4, <2>9
<1>4. CASE Save(h)
  <2>1. UNCHANGED <<dir, hub>>
    BY <1>4 DEF Save
  <2>2. Grows(h)
    BY <2>1 DEF Grows
  <2> QED
    BY <1>4, <2>2 DEF MadeSteps
<1> QED
  BY <1>1, <1>2, <1>3, <1>4 DEF Handle

LEMMA HandlingKeepsMade ==
  ASSUME TypeInv, MadeInv, NEW h \in handlers, Handle(h)
  PROVE  MadeInv'
<1>1. /\ h \in Handlers /\ HandlerOK(h) /\ MadeOK(h) /\ BuildOutsideTypes /\ rows \in Seq(Rows)
      /\ handlers \subseteq Handlers
  BY DEF TypeInv, TypeOK, BuildTypes, BuildOutsideTypes, MadeInv
<1>2. Grows(h) /\ MadeSteps(h)
  BY <1>1, HandleMakes
<1>3. \A x \in handlers : x # h => MadeOK(x)'
  <2> SUFFICES ASSUME NEW x \in handlers, x # h, x.kind = "create" PROVE MadeOK(x)'
    BY DEF MadeOK
  <2>1. x.id \in Acts /\ x.id # h.id /\ MadeOK(x)
    BY <1>1 DEF TypeInv, Numbered, Handlers, MadeInv
  <2>2. hub'.branches[x.id] = hub.branches[x.id]
    BY <1>2, <2>1 DEF Grows
  <2>3. IsLocal(x) => LocalOK(x)'
    BY <1>2, <2>1 DEF Grows, MadeOK, LocalOK
  <2>4. ~IsLocal(x) => HubOK(x)'
    BY <1>2, <2>1, <2>2 DEF Grows, MadeOK, HubOK
  <2> QED
    BY <2>3, <2>4 DEF MadeOK, IsLocal
<1>4. ASSUME NEW i \in DOMAIN rows, NEW row, row.act = rows[i].act, row.dest = rows[i].dest,
             row.made = rows[i].made, row.git = rows[i].git, row.remote = rows[i].remote
      PROVE  RowOK(row)'
  <2>1. rows[i].act \in Acts /\ RowOK(rows[i])
    <3>1. rows[i] \in Rows
      BY <1>1
    <3> QED
      BY <3>1 DEF Rows, MadeInv
  <2>2. h.kind = "create" => h.id # rows[i].act
    BY DEF TypeInv, Numbered
  <2>3. hub'.branches[rows[i].act] = hub.branches[rows[i].act]
    BY <1>2, <2>1, <2>2 DEF Grows
  <2> QED
    BY <1>2, <1>4, <2>1, <2>3 DEF Grows, RowOK
<1>5. CASE \E g : Becomes(h, g) /\ UNCHANGED rows /\ g.id = h.id /\ MadeOK(g)'
  BY <1>3, <1>4, <1>5 DEF Becomes, MadeInv
<1>6. CASE Throws(h) /\ UNCHANGED rows
  BY <1>3, <1>4, <1>6 DEF Throws, Answers_, MadeInv
<1>7. CASE rows' = Append(rows, Row(h)) /\ handlers' = handlers \ {h} /\ RowOK(Row(h))'
  <2>1. \A i \in DOMAIN rows' : (i \in DOMAIN rows /\ rows'[i] = rows[i]) \/ rows'[i] = Row(h)
    BY <1>1, <1>7
  <2> QED
    BY <1>3, <1>4, <1>7, <2>1 DEF MadeInv
<1>8. CASE Save(h)
  <2>1. /\ DOMAIN rows' = DOMAIN rows
        /\ \A i \in DOMAIN rows :
              /\ rows'[i].act = rows[i].act /\ rows'[i].dest = rows[i].dest
              /\ rows'[i].made = rows[i].made /\ rows'[i].git = rows[i].git
              /\ rows'[i].remote = rows[i].remote
    BY <1>1, <1>8, RowsAfterSave
  <2>2. handlers' = handlers \ {h}
    BY <1>8 DEF Save, Answers_
  <2>3. \A i \in DOMAIN rows' : RowOK(rows[i])'
    <3> SUFFICES ASSUME NEW i \in DOMAIN rows' PROVE RowOK(rows[i])'
      OBVIOUS
    <3>1. PICK row : row = rows'[i]
      OBVIOUS
    <3>2. RowOK(row)'
      BY <1>4, <2>1, <3>1
    <3> QED
      BY <3>1, <3>2 DEF RowOK
  <2> QED
    BY <1>3, <2>2, <2>3 DEF MadeInv
<1> QED
  BY <1>2, <1>5, <1>6, <1>7, <1>8 DEF MadeSteps

LEMMA StartIsMade ==
  ASSUME NEW id, NEW kind, NEW opts, NEW build
  PROVE  MadeOK(Handler(id, kind, opts, build))
BY DEF MadeOK, IsLocal, LocalOK, HubOK, Handler, Files

\* Everything else but a handler leaves the disk, GitHub and the rows alone, and at most starts
\* a handler.
LEMMA OtherSteps ==
  ASSUME [Next]_vars
  PROVE  \/ \E h \in handlers : Handle(h) /\ UNCHANGED <<pageVars, previewVars>>
         \/ /\ UNCHANGED <<dir, hub, rows>>
            /\ \/ UNCHANGED handlers
               \/ \E kind, opts, build : Starts(kind, opts, build)
<1>1. CASE Edit \/ Previewing \/ StartNew \/ (\E i \in DOMAIN rows : Reopen(i)) \/ UNCHANGED vars
  BY <1>1 DEF Edit, Previewing, Debounced, Respond, ReadBody, RequestFails, StartNew, Reopen, vars,
     buildVars
<1>2. CASE (\E o \in Options : Submit(o)) \/ InstallClick \/ SmokeClick
  <2>1. (\E kind, opts, build : Starts(kind, opts, build)) /\ UNCHANGED <<dir, hub, rows>>
    BY <1>2 DEF Submit, InstallClick, SmokeClick, Clicks
  <2> QED
    BY <2>1
<1>3. CASE Receive \/ GiveUp
  <2>1. (\E build, status : Outcome(Kind, build, status)) /\ UNCHANGED <<dir, hub, rows>>
    BY <1>3 DEF Receive, GiveUp
  <2>2. UNCHANGED handlers \/ \E kind, opts, build : Starts(kind, opts, build)
    BY <2>1 DEF Outcome, Created, CreateError, Installed, Smoked, Ends
  <2> QED
    BY <2>1, <2>2
<1>4. CASE Handling /\ UNCHANGED <<pageVars, previewVars>>
  BY <1>4 DEF Handling
<1> QED
  BY <1>1, <1>2, <1>3, <1>4 DEF Next

LEMMA MadeStays ==
  ASSUME TypeInv, MadeInv, [Next]_vars
  PROVE  MadeInv'
<1>1. CASE \E h \in handlers : Handle(h)
  BY <1>1, HandlingKeepsMade
<1>2. CASE UNCHANGED <<dir, hub, rows>> /\ UNCHANGED handlers
  BY <1>2 DEF MadeInv, MadeOK, LocalOK, HubOK, RowOK
<1>3. CASE UNCHANGED <<dir, hub, rows>> /\ \E kind, opts, build : Starts(kind, opts, build)
  <2>1. PICK kind, opts, build : Starts(kind, opts, build)
    BY <1>3
  <2>2. PICK new : new = Handler(acts', kind, opts, build)
    OBVIOUS
  <2>3. handlers' = handlers \cup {new} /\ MadeOK(new)
    BY <2>1, <2>2, StartIsMade DEF Starts
  <2>4. \A h \in handlers : MadeOK(h)'
    BY <1>3 DEF MadeInv, MadeOK, LocalOK, HubOK
  <2>5. MadeOK(new)'
    BY <1>3, <2>3 DEF MadeOK, LocalOK, HubOK
  <2>6. \A i \in DOMAIN rows : RowOK(rows[i])'
    BY <1>3 DEF MadeInv, RowOK
  <2> QED
    BY <1>3, <2>3, <2>4, <2>5, <2>6 DEF MadeInv
<1> QED
  BY <1>1, <1>2, <1>3, OtherSteps

LEMMA MadeAlways == Spec => []MadeInv
<1>1. Init => TypeInv /\ PreviewTypes /\ PreviewInv /\ MadeInv
  <2>1. Init => MadeInv
    BY DEF Init, BuildInit, MadeInv
  <2> QED
    BY <2>1, InitTypes
<1>2. TypeInv /\ PreviewTypes /\ PreviewInv /\ MadeInv /\ [Next]_vars
        => TypeInv' /\ PreviewTypes' /\ PreviewInv' /\ MadeInv'
  BY TypeSteps, PreviewSteps, MadeStays
<1> QED
  BY <1>1, <1>2, PTL DEF Spec

\* A build that is recorded is there: every file of a local one is on the disk, and the files
\* that a build on GitHub reports are on the branch of a pull request that was opened.
THEOREM RecordedBuildIsThere == Spec => []RecordedIsThere
<1>1. MadeInv => RecordedIsThere
  BY DEF MadeInv, RowOK, RecordedIsThere
<1> QED
  BY <1>1, MadeAlways, PTL

\* When a build has initialized its repository and created the remote one, all of its files
\* are on the default branch there.
THEOREM InitializedBuildIsPushed == Spec => []InitializedIsPushed
<1>1. MadeInv => InitializedIsPushed
  BY DEF MadeInv, RowOK, InitializedIsPushed
<1> QED
  BY <1>1, MadeAlways, PTL

------------------------------------------------------------------------------
(* Smoke results. *)

\* While no request was given up there is one handler at most, the one that is waited for, so
\* that nobody else touches the report between its deletion and its reading.
SmokeOK(h) ==
  /\ h.id = waiting
  /\ h.report \in {0, h.id}
  /\ h.kind = "smoke" /\ h.at = "test" => dir.report = 0
  /\ h.kind = "smoke" /\ h.at = "report" => dir.report \in {0, h.id}
SmokeInv ==
  ~gaveUp =>
    /\ \A h \in handlers : SmokeOK(h)
    /\ \A i \in DOMAIN rows : rows[i].smokeReport \in {0, rows[i].smokeRun}

SmokeSteps(h) ==
  \/ \E g : Becomes(h, g) /\ SmokeOK(g)' /\ UNCHANGED rows
  \/ handlers' = handlers \ {h} /\ (UNCHANGED rows \/ rows' = Append(rows, Row(h)))
  \/ Save(h)

LEMMA CreateIsNoSmoke ==
  ASSUME NEW h \in Handlers, SmokeOK(h), Create(h), waiting' = waiting
  PROVE  SmokeSteps(h)
<1>1. ASSUME NEW g, h.kind = "create", Becomes(h, g), UNCHANGED rows,
             g.id = h.id, g.kind = h.kind, g.report = h.report
      PROVE  SmokeSteps(h)
  BY <1>1 DEF SmokeSteps, SmokeOK
<1>2. ASSUME h.kind = "create", UNCHANGED rows, NEW next, NEW made, NEW at, NEW git, NEW remote,
             \/ Becomes(h, [h EXCEPT !.next = next])
             \/ Becomes(h, [h EXCEPT !.next = next, !.made = made])
             \/ Becomes(h, [h EXCEPT !.at = at])
             \/ Becomes(h, [h EXCEPT !.at = at, !.git = git])
             \/ Becomes(h, [h EXCEPT !.at = at, !.remote = remote])
             \/ Becomes(h, [h EXCEPT !.at = at, !.made = made])
      PROVE  SmokeSteps(h)
  <2>1. PICK g : /\ Becomes(h, g)
                 /\ \/ g = [h EXCEPT !.next = next]
                    \/ g = [h EXCEPT !.next = next, !.made = made]
                    \/ g = [h EXCEPT !.at = at]
                    \/ g = [h EXCEPT !.at = at, !.git = git]
                    \/ g = [h EXCEPT !.at = at, !.remote = remote]
                    \/ g = [h EXCEPT !.at = at, !.made = made]
    BY <1>2
  <2>2. g.id = h.id /\ g.kind = h.kind /\ g.report = h.report
    BY <2>1 DEF Handlers
  <2> QED
    BY <1>1, <1>2, <2>1, <2>2
<1>3. CASE Throws(h) /\ UNCHANGED rows
  BY <1>3 DEF Throws, Answers_, SmokeSteps
<1>4. CASE SkipFile(h) \/ WriteNext(h)
  BY <1>2, <1>4 DEF SkipFile, WriteNext, Writes, At
<1>5. CASE InitGit(h)
  BY <1>2, <1>5 DEF InitGit, GitDone, At
<1>6. CASE NoRemote(h) \/ Push(h) \/ PushFails(h)
  BY <1>2, <1>6 DEF NoRemote, Push, PushFails, RemoteDone, At
<1>7. CASE CreateRemote(h) \/ CreateRepository(h) \/ UseRepository(h) \/ CreateRef(h)
           \/ MoveRef(h) \/ OpenPr(h) \/ Register(h)
  BY <1>2, <1>7 DEF CreateRemote, CreateRepository, UseRepository, HubStep, CreateRef, MoveRef,
     OpenPr, Register, Goes, At
<1>8. CASE ReadBranch(h)
  <2> DEFINE N == IF h.opts.overwrite \/ h.opts.remote THEN Files ELSE Files \ hub.main
  <2>1. UNCHANGED rows /\ h.kind = "create"
        /\ IF N = {} THEN Throws(h) ELSE Becomes(h, [h EXCEPT !.at = "ref", !.made = N])
    BY <1>8 DEF ReadBranch, At
  <2> HIDE DEF N
  <2> QED
    BY <1>2, <1>3, <2>1
<1>9. CASE Record(h)
  BY <1>9 DEF Record, Answers_, SmokeSteps
<1>10. CASE WriteFails(h) \/ RemoteRefused(h) \/ HubRefuses(h) \/ DatabaseFails(h)
  BY <1>3, <1>10 DEF WriteFails, RemoteRefused, HubRefuses, DatabaseFails
<1> QED
  BY <1>4, <1>5, <1>6, <1>7, <1>8, <1>9, <1>10 DEF Create

LEMMA HandlerStepKeepsSmoke ==
  ASSUME NEW h \in Handlers, SmokeOK(h), Handle(h), dir \in Directories, waiting' = waiting
  PROVE  SmokeSteps(h)
<1>1. ASSUME NEW g, Becomes(h, g), UNCHANGED rows, g.id = h.id, g.report \in {0, h.id},
             g.kind = "smoke" /\ g.at = "test" => dir'.report = 0,
             g.kind = "smoke" /\ g.at = "report" => dir'.report \in {0, h.id}
      PROVE  SmokeSteps(h)
  BY <1>1 DEF SmokeSteps, SmokeOK
<1>2. ASSUME NEW at, Goes(h, at), UNCHANGED rows, at # "report",
             at # "test" \/ dir'.report = 0
      PROVE  SmokeSteps(h)
  <2>1. PICK g : g = [h EXCEPT !.at = at]
    OBVIOUS
  <2>2. g.id = h.id /\ g.at = at /\ g.report = h.report
    BY <2>1 DEF Handlers
  <2> QED
    BY <1>1, <1>2, <2>1, <2>2 DEF Goes, SmokeOK
<1>3. ASSUME NEW status, Saves(h, status), UNCHANGED rows
      PROVE  SmokeSteps(h)
  <2>1. PICK g : g = [h EXCEPT !.at = "save", !.status = status]
    OBVIOUS
  <2>2. g.id = h.id /\ g.at = "save" /\ g.report = h.report
    BY <2>1 DEF Handlers
  <2> QED
    BY <1>1, <1>3, <2>1, <2>2 DEF Saves, SmokeOK
<1>4. CASE Install(h)
  BY <1>2, <1>3, <1>4 DEF Install, FindManifest, NeedsApproval, ApproveBuilds, PnpmInstall,
     InstallBrowser, InstallFails
<1>5. CASE FindModules(h) \/ DeleteFails(h)
  BY <1>2, <1>3, <1>5 DEF FindModules, DeleteFails
<1>6. CASE DeleteReport(h)
  <2>1. Goes(h, "test") /\ UNCHANGED rows /\ dir'.report = 0
    BY <1>6 DEF DeleteReport, Directories
  <2> QED
    BY <1>2, <2>1
<1>7. CASE SmokeTest(h)
  <2>1. PICK status : Becomes(h, [h EXCEPT !.at = "report", !.status = status])
    BY <1>7 DEF SmokeTest
  <2>2. PICK g : g = [h EXCEPT !.at = "report", !.status = status]
    OBVIOUS
  <2>3. g.id = h.id /\ g.at = "report" /\ g.report = h.report
    BY <2>2 DEF Handlers
  <2>4. dir'.report \in {0, h.id} /\ UNCHANGED rows
    BY <1>7 DEF SmokeTest, At, SmokeOK, Directories
  <2> QED
    BY <1>1, <2>1, <2>2, <2>3, <2>4 DEF SmokeOK
<1>8. CASE ReadReport(h)
  <2>1. PICK g : g = [h EXCEPT !.at = "save", !.report = dir.report]
    OBVIOUS
  <2>2. g.id = h.id /\ g.at = "save" /\ g.report = dir.report
    BY <2>1 DEF Handlers
  <2>3. Becomes(h, g) /\ UNCHANGED rows /\ dir.report \in {0, h.id}
    BY <1>8, <2>1 DEF ReadReport, At, SmokeOK
  <2> QED
    BY <1>1, <2>2, <2>3
<1>9. CASE Create(h)
  BY <1>9, CreateIsNoSmoke
<1>10. CASE Save(h)
  BY <1>10 DEF SmokeSteps
<1> QED
  BY <1>4, <1>5, <1>6, <1>7, <1>8, <1>9, <1>10 DEF Handle, Smoke

LEMMA HandlingKeepsSmoke ==
  ASSUME TypeInv, SmokeInv, NEW h \in handlers, Handle(h), UNCHANGED <<pageVars, previewVars>>
  PROVE  SmokeInv'
<1> SUFFICES ASSUME ~gaveUp
             PROVE  /\ \A x \in handlers' : SmokeOK(x)'
                    /\ \A i \in DOMAIN rows' : rows'[i].smokeReport \in {0, rows'[i].smokeRun}
  BY DEF SmokeInv, pageVars
<1>1. /\ h \in Handlers /\ HandlerOK(h) /\ SmokeOK(h) /\ dir \in Directories /\ rows \in Seq(Rows)
      /\ waiting' = waiting
      /\ \A i \in DOMAIN rows : rows[i].smokeReport \in {0, rows[i].smokeRun}
  BY DEF TypeInv, TypeOK, BuildTypes, SmokeInv, pageVars
<1>2. handlers = {h}
  BY DEF SmokeInv, SmokeOK, TypeInv, Numbered
<1>3. SmokeSteps(h)
  BY <1>1, HandlerStepKeepsSmoke
<1>4. CASE \E g : Becomes(h, g) /\ SmokeOK(g)' /\ UNCHANGED rows
  BY <1>1, <1>2, <1>4 DEF Becomes
<1>5. CASE handlers' = handlers \ {h} /\ (UNCHANGED rows \/ rows' = Append(rows, Row(h)))
  <2>1. \A i \in DOMAIN rows' : (i \in DOMAIN rows /\ rows'[i] = rows[i]) \/ rows'[i] = Row(h)
    BY <1>1, <1>5
  <2>2. Row(h).smokeReport = 0
    BY DEF Row
  <2> QED
    BY <1>1, <1>2, <1>5, <2>1, <2>2
<1>6. CASE Save(h)
  <2>1. /\ DOMAIN rows' = DOMAIN rows
        /\ \A i \in DOMAIN rows :
              \/ /\ rows'[i].smokeRun = rows[i].smokeRun
                 /\ rows'[i].smokeReport = rows[i].smokeReport
              \/ rows'[i].smokeRun = h.id /\ rows'[i].smokeReport = h.report
    BY <1>1, <1>6, RowsAfterSave
  <2>2. handlers' = {} /\ h.report \in {0, h.id}
    BY <1>1, <1>2, <1>6 DEF Save, Answers_, SmokeOK
  <2> QED
    BY <1>1, <2>1, <2>2
<1> QED
  BY <1>3, <1>4, <1>5, <1>6 DEF SmokeSteps

LEMMA SmokeStays ==
  ASSUME TypeInv, SmokeInv, [Next]_vars
  PROVE  SmokeInv'
<1>1. CASE Handling /\ UNCHANGED <<pageVars, previewVars>>
  BY <1>1, HandlingKeepsSmoke DEF Handling
<1>2. CASE Edit \/ Previewing \/ StartNew \/ (\E i \in DOMAIN rows : Reopen(i)) \/ UNCHANGED vars
  <2>1. UNCHANGED <<dir, rows, handlers, waiting, gaveUp>>
    BY <1>2 DEF Edit, Previewing, Debounced, Respond, ReadBody, RequestFails, StartNew, Reopen, vars,
       buildVars, pageVars
  <2> QED
    BY <2>1 DEF SmokeInv, SmokeOK
<1>3. ASSUME UNCHANGED <<dir, rows, gaveUp>>, ~gaveUp => handlers = {},
             UNCHANGED handlers \/ \E kind, opts, build : Starts(kind, opts, build)
      PROVE  SmokeInv'
  <2> SUFFICES ASSUME ~gaveUp PROVE \A h \in handlers' : SmokeOK(h)'
    BY <1>3 DEF SmokeInv
  <2>1. CASE UNCHANGED handlers
    BY <1>3, <2>1
  <2>2. CASE \E kind, opts, build : Starts(kind, opts, build)
    <3>1. PICK kind, opts, build : Starts(kind, opts, build)
      BY <2>2
    <3>2. PICK new : new = Handler(acts', kind, opts, build)
      OBVIOUS
    <3>3. handlers' = {new} /\ new.id = waiting' /\ new.at = "start" /\ new.report = 0
      BY <1>3, <3>1, <3>2 DEF Starts, Handler
    <3> QED
      BY <3>3 DEF SmokeOK
  <2> QED
    BY <1>3, <2>1, <2>2
<1>4. \A h \in handlers : h.id # 0
  BY DEF TypeInv, TypeOK, BuildTypes, Handlers, Acts
<1>5. CASE (\E o \in Options : Submit(o)) \/ InstallClick \/ SmokeClick
  <2>1. /\ waiting = 0 /\ UNCHANGED <<dir, rows, gaveUp>>
        /\ \E kind, opts, build : Starts(kind, opts, build)
    BY <1>5 DEF Submit, InstallClick, SmokeClick, Clicks
  <2>2. ~gaveUp => handlers = {}
    BY <1>4, <2>1 DEF SmokeInv, SmokeOK
  <2> QED
    BY <1>3, <2>1, <2>2
<1>6. CASE Receive
  <2>1. PICK a \in answers : /\ a.id = waiting /\ Outcome(Kind, a.build, a.status)
                             /\ UNCHANGED <<dir, rows, gaveUp>>
    BY <1>6 DEF Receive
  <2>2. ~gaveUp => handlers = {}
    BY <2>1 DEF SmokeInv, SmokeOK, TypeInv, Numbered
  <2>3. UNCHANGED handlers \/ \E kind, opts, build : Starts(kind, opts, build)
    BY <2>1 DEF Outcome, Created, CreateError, Installed, Smoked, Ends
  <2> QED
    BY <1>3, <2>1, <2>2, <2>3
<1>7. CASE GiveUp
  BY <1>7 DEF GiveUp, SmokeInv
<1> QED
  BY <1>1, <1>2, <1>5, <1>6, <1>7 DEF Next

\* Unless a request was given up, the result of a smoke test is read from the report that its
\* own run has written: one that a run before it left behind is never taken for it.
THEOREM SmokeResultIsOwn == Spec => []SmokeIsOwn
<1>1. Init => TypeInv /\ PreviewTypes /\ PreviewInv /\ SmokeInv
  <2>1. Init => SmokeInv
    BY DEF Init, BuildInit, SmokeInv
  <2> QED
    BY <2>1, InitTypes
<1>2. TypeInv /\ PreviewTypes /\ PreviewInv /\ SmokeInv /\ [Next]_vars
        => TypeInv' /\ PreviewTypes' /\ PreviewInv' /\ SmokeInv'
  BY TypeSteps, PreviewSteps, SmokeStays
<1>3. SmokeInv => SmokeIsOwn
  BY DEF SmokeInv, SmokeIsOwn
<1> QED
  BY <1>1, <1>2, <1>3, PTL DEF Spec
=============================================================================
