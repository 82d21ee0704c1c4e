-------------------------- MODULE ScenarioCatalog --------------------------
(***************************************************************************)
(* The Cucumber scenarios of one registered checkout: how a catalogue or   *)
(* detail read, a new local test run and the backfill script parse the     *)
(* feature files, which identity each scenario gets, and what is written   *)
(* to the scenarios and local_test_runs tables (cucumber-features.ts,      *)
(* scenario-identity.ts, scenario-backfill.ts, server.ts, db/index.ts).    *)
(*                                                                         *)
(* A file is a sequence of scenarios, and the line of a scenario is its    *)
(* position in the file.                                                   *)
(***************************************************************************)
EXTENDS Naturals, Sequences, FiniteSets

CONSTANTS
  Files,         \* paths of feature files
  Contents,      \* Contents[f]: what the file f may hold
  Starts,        \* what the files may hold at first
  Clients,       \* each has one request in progress at a time
  Asks,          \* Asks[s]: the kinds of request that the client s makes
  MaxEdits,      \* bound on the edits of the checkout
  MaxRuns,       \* bound on the local test runs
  MaxFailures    \* bound on the transactions that fail

NoFile == [exists |-> FALSE, tags |-> {}, scenarios |-> <<>>]

ASSUME ScenarioCatalogAssumption ==
  /\ Files # {} /\ Asks \in [Clients -> SUBSET {"catalog", "detail", "run", "backfill"}]
  /\ {MaxEdits, MaxRuns, MaxFailures} \subseteq Nat
  /\ \A f \in Files : NoFile \in Contents[f]
  /\ \A f \in Files : \A c \in Contents[f] :
       /\ c.exists \/ c = NoFile   \* a file that is not there holds nothing
       /\ Len(c.scenarios) \in Nat /\ DOMAIN c.scenarios = 1 .. Len(c.scenarios)
       /\ \A i \in DOMAIN c.scenarios : IsFiniteSet(c.scenarios[i].ids)
  /\ Starts \subseteq [Files -> UNION {Contents[f] : f \in Files}]
  /\ \A start \in Starts : \A f \in Files : start[f] \in Contents[f]

VARIABLES
  checkout,      \* what the files hold
  edits,         \* edits so far
  scenarios,     \* the scenarios rows, by identity
  testRuns,      \* the local_test_runs rows, oldest first
  requests,      \* the request of each client
  failures       \* failed transactions so far

catalogVars == <<checkout, edits, scenarios, testRuns, requests, failures>>

------------------------------------------------------------------------------
(* Parsing.  A scenario is [name, steps, ids], where ids are those of its own tags that  *)
(* match the ID pattern; a file's tags are those on its Feature, Rule and Examples lines. *)

Lines(c) == DOMAIN c.scenarios
Named(c, i) == {j \in Lines(c) : c.scenarios[j].name = c.scenarios[i].name}
Alike(c, i) == {j \in Named(c, i) : c.scenarios[j].steps = c.scenarios[i].steps}

\* assignFingerprints: the path and the name, then the steps, then the order.
Fingerprint(f, c, i) ==
  LET s == c.scenarios[i] IN
    IF Named(c, i) = {i} THEN <<"name", f, s.name>>
    ELSE IF Alike(c, i) = {i} THEN <<"steps", f, s.name, s.steps>>
    ELSE <<"order", f, s.name, s.steps, Cardinality({j \in Alike(c, i) : j < i})>>

IsTagged(c, i) == Cardinality(c.scenarios[i].ids) = 1
TagOf(c, i) == CHOOSE id \in c.scenarios[i].ids : TRUE
\* scenarioIdentityOf
Identity(f, c, i) == IF IsTagged(c, i) THEN <<"tag", TagOf(c, i)>> ELSE Fingerprint(f, c, i)

\* A parse maps every file to what was read of it.
Places(parse) == UNION {{f} \X Lines(parse[f]) : f \in Files}
IdentityAt(parse, p) == Identity(p[1], parse[p[1]], p[2])

\* idConflict: several IDs, an ID that the file's other lines carry, or a duplicate.
HasConflict(parse, p) ==
  LET c == parse[p[1]] IN
    \/ Cardinality(c.scenarios[p[2]].ids) > 1
    \/ /\ IsTagged(c, p[2])
       /\ \/ TagOf(c, p[2]) \in c.tags
          \/ \E q \in Places(parse) : q # p /\ IdentityAt(parse, q) = IdentityAt(parse, p)

Present(parse, files) == {IdentityAt(parse, p) : p \in {q \in Places(parse) : q[1] \in files}}
Clear(parse, files) == {p \in Places(parse) : p[1] \in files /\ ~HasConflict(parse, p)}
------------------------------------------------------------------------------
(* State. *)

NoId == <<>>
Checkouts == {parse \in [Files -> UNION {Contents[f] : f \in Files}] :
                \A f \in Files : parse[f] \in Contents[f]}
Identities == UNION {Present(parse, Files) : parse \in Checkouts}
Tags == UNION {UNION {c.scenarios[i].ids : i \in Lines(c)} : c \in UNION {Contents[f] : f \in Files}}
Rows == [path : Files, line : Nat, missing : BOOLEAN]
NoTag == "none"

\* of: history, the file as the request for the run has read it, until the run starts.
\* ran: what it executes then: its own scenario, nothing, something else, or its own together
\* with scenarios that carry several IDs.
\* promised: history, whether the API has promised by then that it executes its own.
TestRuns ==
  [path : Files, line : Nat, id : Identities \cup {NoId}, tag : Tags \cup {NoTag},
   status : {"QUEUED", "RUNNING", "PASSED", "FAILED"}, of : UNION {Contents[f] : f \in Files},
   ran : {"", "own", "nothing", "others", "shared"}, promised : BOOLEAN]

\* What a client asks to run: the feature, the scenario on a line or one with an identity.
Targets == [by : {"feature"}] \cup [by : {"line"}, line : Nat] \cup [by : {"id"}, id : Identities]
NoTarget == [by |-> "feature"]
NoRequest ==
  [kind |-> "none", at |-> "", path |-> CHOOSE f \in Files : TRUE, target |-> NoTarget,
   left |-> {}, got |-> [f \in Files |-> NoFile], old |-> {}]

CatalogTypes ==
  /\ checkout \in Checkouts /\ edits \in 0 .. MaxEdits /\ failures \in 0 .. MaxFailures
  /\ DOMAIN scenarios \subseteq Identities /\ \A k \in DOMAIN scenarios : scenarios[k] \in Rows
  /\ testRuns \in Seq(TestRuns)
  /\ DOMAIN requests = Clients
  /\ \A s \in Clients :
       /\ requests[s].kind \in {"none", "catalog", "detail", "run", "backfill"}
       /\ requests[s].left \subseteq Files /\ requests[s].target \in Targets
       /\ requests[s].got \in Checkouts

TestRun(path, line, id, tag, status, of) ==
  [path |-> path, line |-> line, id |-> id, tag |-> tag, status |-> status, of |-> of,
   ran |-> "", promised |-> FALSE]

\* Runs from the time before scenario IDs have none.
CatalogInit ==
  /\ checkout \in Starts
  /\ edits = 0 /\ failures = 0 /\ scenarios = <<>>
  /\ testRuns \in {<<>>} \cup
       IF \E s \in Clients : "backfill" \in Asks[s] THEN {<<TestRun(f, 1, NoId, NoTag, "PASSED", NoFile)>> : f \in Files} ELSE {}
  /\ requests = [s \in Clients |-> NoRequest]

Becomes(s, r) == requests' = [requests EXCEPT ![s] = r]
Goes(s, at) == Becomes(s, [requests[s] EXCEPT !.at = at])
Answer(s) == Becomes(s, NoRequest)
At(s, kinds, at) == requests[s].kind \in kinds /\ requests[s].at = at

------------------------------------------------------------------------------
(* The developer and git change the checkout, a file at a time. *)

Edit ==
  /\ edits < MaxEdits
  /\ edits' = edits + 1
  /\ \E f \in Files, c \in UNION {Contents[g] : g \in Files} :
       /\ c \in Contents[f] /\ c # checkout[f]
       /\ checkout' = [checkout EXCEPT ![f] = c]
  /\ UNCHANGED <<scenarios, testRuns, requests, failures>>

------------------------------------------------------------------------------
(* Requests. *)

Request(kind, at, path, target) ==
  [NoRequest EXCEPT !.kind = kind, !.at = at, !.path = path, !.target = target]
Begins(s, r) ==
  /\ requests[s] = NoRequest /\ r.kind \in Asks[s] /\ Becomes(s, r)
  /\ UNCHANGED <<checkout, edits, scenarios, testRuns, failures>>

OpenCatalog(s) == Begins(s, Request("catalog", "list", NoRequest.path, NoTarget))
OpenDetail(s) == \E f \in Files : Begins(s, Request("detail", "own", f, NoTarget))
AskRun(s) ==
  /\ Len(testRuns) + Cardinality({t \in Clients : requests[t].kind = "run"}) < MaxRuns
  /\ \E f \in Files :
       \/ Begins(s, Request("run", "own", f, [by |-> "feature"]))
       \/ \E i \in Lines(checkout[f]) :
            \/ Begins(s, Request("run", "own", f, [by |-> "line", line |-> i]))
            \/ Begins(s, Request("run", "own", f, [by |-> "id", id |-> IdentityAt(checkout, <<f, i>>)]))

\* listLocalTestRunTargetsWithoutScenarioId
IsOld(run) == run.id = NoId /\ run.line # 0
RunBackfill(s) ==
  /\ LET old == {<<testRuns[n].path, testRuns[n].line>> : n \in {m \in DOMAIN testRuns : IsOld(testRuns[m])}}
     IN old # {} /\ Begins(s, [Request("backfill", "list", NoRequest.path, NoTarget) EXCEPT !.old = old])

\* buildFeatureDetail first reads the file asked for.
ReadOwn(s) ==
  /\ At(s, {"detail", "run"}, "own")
  /\ LET r == requests[s] IN
       IF checkout[r.path].exists
         THEN Becomes(s, [r EXCEPT !.at = "list", !.got[r.path] = checkout[r.path]])
         ELSE Answer(s)
  /\ UNCHANGED <<checkout, edits, scenarios, testRuns, failures>>

\* listFeatureSummaries: the files there are, then their contents in any order.
ListFiles(s) ==
  /\ requests[s].kind # "none" /\ requests[s].at = "list"
  /\ Becomes(s, [requests[s] EXCEPT !.at = "read", !.left = {f \in Files : checkout[f].exists}])
  /\ UNCHANGED <<checkout, edits, scenarios, testRuns, failures>>

\* A file that is gone by now makes readFile reject and the request fail.  The file asked
\* for is read again, but counts as it was read first.
IsOwn(r, f) == r.kind \in {"detail", "run"} /\ f = r.path
ReadFile(s) ==
  /\ requests[s].kind # "none" /\ requests[s].at = "read"
  /\ \E f \in requests[s].left :
       IF checkout[f].exists
         THEN Becomes(s, [requests[s] EXCEPT !.left = @ \ {f},
                            !.got[f] = IF IsOwn(requests[s], f) THEN @ ELSE checkout[f]])
         ELSE Answer(s)
  /\ UNCHANGED <<checkout, edits, scenarios, testRuns, failures>>

IsParsed(s, kinds) == At(s, kinds, "read") /\ requests[s].left = {}

Matches(r) == {i \in Lines(r.got[r.path]) : Identity(r.path, r.got[r.path], i) = r.target.id}
\* A faulty variant of IsRefused: an ambiguous ID is accepted.
IsRefusedIfGone(r) ==
  CASE r.target.by = "feature" -> FALSE
    [] r.target.by = "line" -> r.target.line \notin Lines(r.got[r.path])
    [] r.target.by = "id" -> Matches(r) = {}
\* A run by identity needs exactly one scenario of the file, free of conflicts.
IsRefused(r) ==
  CASE r.target.by = "feature" -> FALSE
    [] r.target.by = "line" -> r.target.line \notin Lines(r.got[r.path])
    [] r.target.by = "id" -> \/ Cardinality(Matches(r)) # 1
                             \/ \E i \in Matches(r) : HasConflict(r.got, <<r.path, i>>)
Refuse(s) ==
  /\ IsParsed(s, {"run"}) /\ IsRefused(requests[s])
  /\ Answer(s) /\ UNCHANGED <<checkout, edits, scenarios, testRuns, failures>>

\* recordScenarioSnapshots: which files the request speaks for, and whether what they do
\* not hold is missing.
Scope(r) == IF r.kind = "catalog" THEN {f \in Files : r.got[f].exists} ELSE {r.path}
MarksMissing(r) == r.kind = "catalog" /\ Scope(r) # {}

\* A faulty variant of Synced: what is seen again stays missing.
SyncedKeepMissing(r) ==
  LET seen == Clear(r.got, Scope(r))
      Place(k) == CHOOSE p \in seen : IdentityAt(r.got, p) = k
      ids == {IdentityAt(r.got, p) : p \in seen}
  IN [k \in DOMAIN scenarios \cup ids |->
        IF k \in ids
          THEN [path |-> Place(k)[1], line |-> Place(k)[2],
                missing |-> k \in DOMAIN scenarios /\ scenarios[k].missing]
          ELSE [scenarios[k] EXCEPT !.missing = @ \/ (MarksMissing(r) /\ k \notin Present(r.got, Scope(r)))]]

\* syncRepositoryScenarios, one transaction: what is clear is written, what is not
\* present is missing.
Synced(r) ==
  LET seen == Clear(r.got, Scope(r))
      Place(k) == CHOOSE p \in seen : IdentityAt(r.got, p) = k
      ids == {IdentityAt(r.got, p) : p \in seen}
  IN [k \in DOMAIN scenarios \cup ids |->
        IF k \in ids THEN [path |-> Place(k)[1], line |-> Place(k)[2], missing |-> FALSE]
        ELSE [scenarios[k] EXCEPT !.missing = @ \/ (MarksMissing(r) /\ k \notin Present(r.got, Scope(r)))]]

\* A transaction that fails is logged and forgotten.
Sync(s) ==
  /\ IsParsed(s, {"catalog", "detail", "run"})
  /\ requests[s].kind = "run" => ~IsRefused(requests[s])
  /\ \/ scenarios' = Synced(requests[s]) /\ UNCHANGED failures
     \/ failures < MaxFailures /\ failures' = failures + 1 /\ UNCHANGED scenarios
  /\ IF requests[s].kind = "run" THEN Goes(s, "create") ELSE Answer(s)
  /\ UNCHANGED <<checkout, edits, testRuns>>

\* The row of a run: a tag when it is asked for by a tag, a line when there is one.
NewRun(r) ==
  LET c == r.got[r.path]
      line == CASE r.target.by = "feature" -> 0
                [] r.target.by = "line" -> r.target.line
                [] r.target.by = "id" -> CHOOSE i \in Matches(r) : TRUE
      id == IF line = 0 \/ (r.target.by = "line" /\ HasConflict(r.got, <<r.path, line>>)) THEN NoId
            ELSE Identity(r.path, c, line)
      tag == IF r.target.by = "id" /\ IsTagged(c, line) THEN TagOf(c, line) ELSE NoTag
  IN TestRun(r.path, line, id, tag, "QUEUED", c)
CreateRun(s) ==
  /\ At(s, {"run"}, "create")
  /\ testRuns' = Append(testRuns, NewRun(requests[s]))
  /\ Answer(s) /\ UNCHANGED <<checkout, edits, scenarios, failures>>

\* backfillRepositoryScenarioIds: an update for each target, of the rows without identity.
ResolveAt(r, t) ==
  IF t[2] \in Lines(r.got[t[1]]) /\ ~HasConflict(r.got, t) THEN IdentityAt(r.got, t) ELSE NoId
Assigned(r, t) ==
  [n \in DOMAIN testRuns |->
     IF IsOld(testRuns[n]) /\ <<testRuns[n].path, testRuns[n].line>> = t
       THEN [testRuns[n] EXCEPT !.id = ResolveAt(r, t)] ELSE testRuns[n]]
Backfill(s) ==
  /\ IsParsed(s, {"backfill"})
  /\ IF requests[s].old = {} THEN Answer(s) /\ UNCHANGED testRuns
     ELSE \E t \in requests[s].old :
            /\ testRuns' = Assigned(requests[s], t)
            /\ Becomes(s, [requests[s] EXCEPT !.old = @ \ {t}])
  /\ UNCHANGED <<checkout, edits, scenarios, failures>>

Serve(s) ==
  \/ ReadOwn(s) \/ ListFiles(s) \/ ReadFile(s) \/ Refuse(s)
  \/ Sync(s) \/ CreateRun(s) \/ Backfill(s)
Ask(s) == OpenCatalog(s) \/ OpenDetail(s) \/ AskRun(s) \/ RunBackfill(s)

CatalogNext == Edit \/ \E s \in Clients : Ask(s) \/ Serve(s)
CatalogSpec ==
  CatalogInit /\ [][CatalogNext]_catalogVars /\ \A s \in Clients : WF_catalogVars(Serve(s))

------------------------------------------------------------------------------
(* Properties. *)

\* What the rows say is what the checkout holds: a scenario that is free of conflicts has
\* a row with its place, which is not missing, and one that is not there is missing.
RowsAgree ==
  LET files == {f \in Files : checkout[f].exists} IN
    files # {} =>
      /\ \A p \in Clear(checkout, files) :
           /\ IdentityAt(checkout, p) \in DOMAIN scenarios
           /\ scenarios[IdentityAt(checkout, p)] = [path |-> p[1], line |-> p[2], missing |-> FALSE]
      /\ \A k \in DOMAIN scenarios \ Present(checkout, files) : scenarios[k].missing

\* When the checkout is left alone and the catalogue is read again and again, its rows end
\* up right, whatever older reads still write.
Reading == \E s \in Clients : requests[s].kind = "catalog"
CatalogConverges == []<>Reading /\ []<>~Reading => <>[]RowsAgree
=============================================================================
