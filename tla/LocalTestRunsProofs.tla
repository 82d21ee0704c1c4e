------------------------ MODULE LocalTestRunsProofs ------------------------
(***************************************************************************)
(* Theorems about LocalTestRuns and the catalogue of ScenarioCatalog, for  *)
(* any files, contents, clients and bounds: a run executes the scenario it *)
(* is recorded for, and at most once; a scenario that is free of conflicts *)
(* has its identity alone; a catalogue read of what the checkout holds     *)
(* makes the rows right and later requests leave them right.               *)
(***************************************************************************)
EXTENDS LocalTestRuns, FiniteSetTheorems, SequenceTheorems, TLAPS

\* A backfill gives the rows without identity one from the files as they are by then, a
\* best effort; the other requests give a row its identity when they create it.
NoBackfill == \A s \in Clients : "backfill" \notin Asks[s]

------------------------------------------------------------------------------
(* What a parse gives. *)

LEMMA NotEmpty ==
  ASSUME NEW S, Cardinality(S) = 1 PROVE \E x : x \in S
<1>1. Cardinality({}) = 0
  BY FS_EmptySet
<1>2. S = {} => Cardinality(S) = Cardinality({})
  BY Zenon
<1>3. S # {}
  BY <1>1, <1>2
<1> QED
  BY <1>3

LEMMA LinesFinite ==
  ASSUME NEW f \in Files, NEW c \in Contents[f]
  PROVE  /\ Lines(c) \subseteq Nat \ {0} /\ IsFiniteSet(Lines(c))
         /\ \A i \in Lines(c) : IsFiniteSet(c.scenarios[i].ids)
<1>1. Len(c.scenarios) \in Nat /\ Lines(c) = 1 .. Len(c.scenarios)
  BY ScenarioCatalogAssumption DEF Lines
<1>2. IsFiniteSet(1 .. Len(c.scenarios))
  BY <1>1, FS_Interval
<1> QED
  BY <1>1, <1>2, ScenarioCatalogAssumption DEF Lines

\* A scenario with one ID has that ID.
LEMMA OneTag ==
  ASSUME NEW c, NEW i, IsTagged(c, i) PROVE TagOf(c, i) \in c.scenarios[i].ids
<1>1. \E id : id \in c.scenarios[i].ids
  BY NotEmpty DEF IsTagged
<1> QED
  BY <1>1 DEF TagOf

LEMMA OnlyTag ==
  ASSUME NEW c, NEW i, IsFiniteSet(c.scenarios[i].ids), IsTagged(c, i), NEW t \in c.scenarios[i].ids
  PROVE  TagOf(c, i) = t
<1>1. PICK x : c.scenarios[i].ids = {x}
  BY FS_Singleton DEF IsTagged
<1> QED
  BY <1>1, OneTag

LEMMA PlaceTyped ==
  ASSUME NEW parse \in Checkouts, NEW f \in Files, NEW i \in Lines(parse[f])
  PROVE  /\ <<f, i>> \in Places(parse) /\ i \in Nat \ {0}
         /\ IdentityAt(parse, <<f, i>>) = Identity(f, parse[f], i)
         /\ Identity(f, parse[f], i) \in Identities
         /\ IsTagged(parse[f], i) => TagOf(parse[f], i) \in Tags
<1>1. parse[f] \in Contents[f]
  BY DEF Checkouts
<1>2. i \in Nat \ {0}
  BY <1>1, LinesFinite
<1>3. <<f, i>> \in {f} \X Lines(parse[f])
  OBVIOUS
<1>4. <<f, i>> \in Places(parse)
  BY <1>3 DEF Places
<1>5. IdentityAt(parse, <<f, i>>) = Identity(f, parse[f], i)
  BY DEF IdentityAt
<1>6. IdentityAt(parse, <<f, i>>) \in Present(parse, Files)
  BY <1>4 DEF Present
<1>7. Identity(f, parse[f], i) \in Identities
  BY <1>5, <1>6 DEF Identities
<1>8. IsTagged(parse[f], i) => TagOf(parse[f], i) \in Tags
  <2> SUFFICES ASSUME IsTagged(parse[f], i) PROVE TagOf(parse[f], i) \in Tags
    OBVIOUS
  <2>1. TagOf(parse[f], i) \in parse[f].scenarios[i].ids
    BY OneTag
  <2>2. parse[f] \in UNION {Contents[g] : g \in Files}
    BY <1>1
  <2> QED
    BY <2>1, <2>2 DEF Tags
<1> QED
  BY <1>2, <1>4, <1>5, <1>7, <1>8

LEMMA FingerprintForms ==
  ASSUME NEW f, NEW c, NEW i, NEW name, NEW steps, NEW before,
         name = c.scenarios[i].name, steps = c.scenarios[i].steps,
         before = Cardinality({j \in Alike(c, i) : j < i})
  PROVE  \/ Named(c, i) = {i} /\ Fingerprint(f, c, i) = <<"name", f, name>>
         \/ Alike(c, i) = {i} /\ Fingerprint(f, c, i) = <<"steps", f, name, steps>>
         \/ Fingerprint(f, c, i) = <<"order", f, name, steps, before>>
BY DEF Fingerprint

\* What a fingerprint starts with.
LEMMA FingerprintStart ==
  ASSUME NEW f, NEW c, NEW i
  PROVE  Fingerprint(f, c, i)[1] \in {"name", "steps", "order"} /\ Fingerprint(f, c, i)[2] = f
<1>1. PICK print, name, steps, before :
        /\ print = Fingerprint(f, c, i)
        /\ name = c.scenarios[i].name /\ steps = c.scenarios[i].steps
        /\ before = Cardinality({k \in Alike(c, i) : k < i})
  OBVIOUS
<1>2. \/ print = <<"name", f, name>> \/ print = <<"steps", f, name, steps>>
      \/ print = <<"order", f, name, steps, before>>
  BY <1>1, FingerprintForms
<1>3. print[1] \in {"name", "steps", "order"} /\ print[2] = f
  BY <1>2
<1> QED
  BY <1>1, <1>3

LEMMA FingerprintIsNoTag ==
  ASSUME NEW f, NEW c, NEW i, NEW tag PROVE Fingerprint(f, c, i) # <<"tag", tag>>
<1>1. Fingerprint(f, c, i)[1] # "tag"
  BY FingerprintStart
<1> QED
  BY <1>1

\* A tag that the duplicate check finds nothing against is one scenario's alone, among the
\* file's scenarios with one ID, and no other line of the file has it.
HasTag(c, i, tag) == IsTagged(c, i) /\ TagOf(c, i) = tag
IsAlone(c, i, tag) ==
  /\ HasTag(c, i, tag) /\ tag \notin c.tags
  /\ \A j \in Lines(c) : HasTag(c, j, tag) => j = i

LEMMA TagIsAlone ==
  ASSUME NEW parse \in Checkouts, NEW f \in Files, NEW i \in Lines(parse[f]),
         IsTagged(parse[f], i), ~HasConflict(parse, <<f, i>>)
  PROVE  IsAlone(parse[f], i, TagOf(parse[f], i))
<1> DEFINE c == parse[f]
<1>1. /\ TagOf(c, i) \notin c.tags
      /\ \A q \in Places(parse) : q # <<f, i>> => IdentityAt(parse, q) # IdentityAt(parse, <<f, i>>)
  BY DEF HasConflict
<1>2. ASSUME NEW j \in Lines(c), HasTag(c, j, TagOf(c, i)) PROVE j = i
  <2>1. /\ <<f, j>> \in Places(parse)
        /\ IdentityAt(parse, <<f, j>>) = Identity(f, c, j)
        /\ IdentityAt(parse, <<f, i>>) = Identity(f, c, i)
    BY PlaceTyped
  <2>2. Identity(f, c, j) = Identity(f, c, i)
    BY <1>2 DEF Identity, HasTag
  <2> QED
    BY <1>1, <2>1, <2>2
<1> QED
  BY <1>1, <1>2 DEF IsAlone, HasTag

------------------------------------------------------------------------------
(* The inductive invariant. *)

Fields == {"kind", "at", "path", "target", "left", "got", "old"}
\* A request never is a backfill, it has read what files may hold, and one that is about
\* to create a run has passed the checks.
IsValid(r) ==
  /\ DOMAIN r = Fields /\ r.kind # "backfill" /\ r.path \in Files /\ r.got \in Checkouts
  /\ r.target.by \in {"feature", "line", "id"}
  /\ r.kind = "run" /\ r.at = "create" => ~IsRefused(r)

\* In the file as it was read, a run's line has its identity, and its tag alone.
Fits(run) ==
  /\ run.tag # NoTag => run.id = <<"tag", run.tag>>
  /\ run.id # NoId /\ run.of # NoFile =>
       /\ run.line \in Lines(run.of) /\ Identity(run.path, run.of, run.line) = run.id
       /\ run.tag # NoTag => IsAlone(run.of, run.line, run.tag)

IsHit(run) == run.promised => run.ran \in {"own", "shared"}
IsSound(run) == Fits(run) /\ IsHit(run)

RunsInv ==
  /\ checkout \in Checkouts
  /\ testRuns \in Seq(TestRuns) /\ \A n \in DOMAIN testRuns : IsSound(testRuns[n])
  /\ DOMAIN requests = Clients /\ \A s \in Clients : IsValid(requests[s])

LEMMA NoFileParsed == [f \in Files |-> NoFile] \in Checkouts
  BY ScenarioCatalogAssumption DEF Checkouts

LEMMA NoRequestValid == IsValid(NoRequest)
<1>1. NoRequest.path \in Files
  BY ScenarioCatalogAssumption DEF NoRequest
<1> QED
  BY <1>1, NoFileParsed DEF IsValid, NoRequest, NoTarget, Fields

\* The invariant is one about checkout, testRuns and requests.
LEMMA ValidKept ==
  ASSUME \A s \in Clients : IsValid(requests[s]), UNCHANGED requests
  PROVE  \A s \in Clients : IsValid(requests[s])'
<1> SUFFICES ASSUME NEW s \in Clients PROVE IsValid(requests[s])'
  OBVIOUS
<1>1. IsValid(requests[s])
  OBVIOUS
<1>2. IsRefused(requests[s])' <=> IsRefused(requests[s])
  BY DEF IsRefused, Matches
<1> QED
  BY <1>1, <1>2 DEF IsValid

LEMMA InvKept ==
  ASSUME RunsInv, UNCHANGED <<testRuns, requests>>, checkout' \in Checkouts
  PROVE  RunsInv'
<1>1. \A s \in Clients : IsValid(requests[s])'
  BY ValidKept DEF RunsInv
<1>2. \A n \in DOMAIN testRuns' : IsSound(testRuns[n])'
  BY DEF RunsInv, IsSound, Fits, IsHit
<1> QED
  BY <1>1, <1>2 DEF RunsInv

LEMMA RunsInvInit == NoBackfill /\ Init => RunsInv
<1> SUFFICES ASSUME NoBackfill, Init PROVE RunsInv
  OBVIOUS
<1>1. checkout \in Checkouts
  BY ScenarioCatalogAssumption DEF Init, CatalogInit, Checkouts
<1>2. testRuns = <<>>
  BY DEF Init, CatalogInit, NoBackfill
<1>3. requests = [s \in Clients |-> NoRequest]
  BY DEF Init, CatalogInit
<1> QED
  BY <1>1, <1>2, <1>3, NoRequestValid DEF RunsInv

------------------------------------------------------------------------------
(* The requests. *)

\* What a request becomes is all that counts of a step that leaves files and runs alone.
LEMMA RequestStep ==
  ASSUME RunsInv, NEW s \in Clients, NEW r, IsValid(r), Becomes(s, r), UNCHANGED <<checkout, testRuns>>
  PROVE  RunsInv'
<1>1. DOMAIN requests' = Clients /\ \A t \in Clients : requests'[t] = IF t = s THEN r ELSE requests[t]
  BY DEF RunsInv, Becomes
<1>2. \A t \in Clients : IsValid(requests'[t])
  BY <1>1 DEF RunsInv
<1>3. \A t \in Clients : IsValid(requests[t])'
  BY <1>2 DEF IsValid, IsRefused, Matches
<1> QED
  BY <1>1, <1>3 DEF RunsInv, IsSound, Fits, IsHit

LEMMA AskKeeps ==
  ASSUME NoBackfill, RunsInv, NEW s \in Clients, Ask(s) PROVE RunsInv'
<1>1. ASSUME NEW r, Begins(s, r), IsValid(r) PROVE RunsInv'
  BY <1>1, RequestStep DEF Begins
<1>2. ASSUME NEW kind \in {"catalog", "detail", "run"}, NEW at \in {"own", "list"}, NEW f \in Files,
             NEW target, target.by \in {"feature", "line", "id"}
      PROVE  IsValid(Request(kind, at, f, target))
  BY <1>2, NoFileParsed DEF IsValid, Request, NoRequest, NoTarget, Fields
<1>3. NoRequest.path \in Files
  BY ScenarioCatalogAssumption DEF NoRequest
<1>4. CASE OpenCatalog(s)
  BY <1>4, <1>1, <1>2, <1>3 DEF OpenCatalog, NoTarget
<1>5. CASE OpenDetail(s)
  BY <1>5, <1>1, <1>2 DEF OpenDetail, NoTarget
<1>6. CASE AskRun(s)
  <2>1. PICK f \in Files :
          \/ Begins(s, Request("run", "own", f, [by |-> "feature"]))
          \/ \E i \in Lines(checkout[f]) :
               \/ Begins(s, Request("run", "own", f, [by |-> "line", line |-> i]))
               \/ Begins(s, Request("run", "own", f, [by |-> "id", id |-> IdentityAt(checkout, <<f, i>>)]))
    BY <1>6 DEF AskRun
  <2>2. IsValid(Request("run", "own", f, [by |-> "feature"]))
    BY <1>2
  <2>3. \A i \in Lines(checkout[f]) : IsValid(Request("run", "own", f, [by |-> "line", line |-> i]))
    BY <1>2
  <2>4. \A i \in Lines(checkout[f]) :
          IsValid(Request("run", "own", f, [by |-> "id", id |-> IdentityAt(checkout, <<f, i>>)]))
    BY <1>2
  <2> QED
    BY <2>2, <2>3, <2>4, <2>1, <1>1
<1>7. CASE RunBackfill(s)
  <2>1. PICK old : Begins(s, [Request("backfill", "list", NoRequest.path, NoTarget) EXCEPT !.old = old])
    BY <1>7 DEF RunBackfill
  <2>2. "backfill" \in Asks[s]
    BY <2>1 DEF Begins, Request, NoRequest
  <2> QED
    BY <2>2 DEF NoBackfill
<1> QED
  BY <1>4, <1>5, <1>6, <1>7 DEF Ask

LEMMA ServeKeeps ==
  ASSUME RunsInv, NEW s \in Clients, ReadOwn(s) \/ ListFiles(s) \/ ReadFile(s) \/ Refuse(s) \/ Sync(s)
  PROVE  RunsInv'
<1> DEFINE r == requests[s]
<1>1. IsValid(r) /\ checkout \in Checkouts
  BY DEF RunsInv
<1>2. ASSUME Answer(s), UNCHANGED <<checkout, testRuns>> PROVE RunsInv'
  BY <1>2, RequestStep, NoRequestValid DEF Answer
<1>3. CASE ReadOwn(s)
  <2>1. CASE checkout[r.path].exists
    <3> DEFINE q == [r EXCEPT !.at = "list", !.got[r.path] = checkout[r.path]]
    <3>1. q.got \in Checkouts
      BY <1>1 DEF IsValid, Checkouts, Fields
    <3>2. IsValid(q)
      BY <3>1, <1>1 DEF IsValid, Fields
    <3> QED
      BY <1>3, <2>1, <3>2, RequestStep DEF ReadOwn
  <2> QED
    BY <1>3, <2>1, <1>2 DEF ReadOwn
<1>4. CASE ListFiles(s)
  <2> DEFINE q == [r EXCEPT !.at = "read", !.left = {f \in Files : checkout[f].exists}]
  <2>1. IsValid(q)
    BY <1>1 DEF IsValid, Fields
  <2> QED
    BY <1>4, <2>1, RequestStep DEF ListFiles
<1>5. CASE ReadFile(s)
  <2>1. PICK f \in r.left :
          IF checkout[f].exists
            THEN Becomes(s, [r EXCEPT !.left = @ \ {f}, !.got[f] = IF IsOwn(r, f) THEN @ ELSE checkout[f]])
            ELSE Answer(s)
    BY <1>5 DEF ReadFile
  <2>2. r.at = "read" /\ UNCHANGED <<checkout, testRuns>>
    BY <1>5 DEF ReadFile
  <2>3. CASE checkout[f].exists
    <3> DEFINE q == [r EXCEPT !.left = @ \ {f}, !.got[f] = IF IsOwn(r, f) THEN @ ELSE checkout[f]]
    <3>1. q.got \in Checkouts
      BY <1>1 DEF IsValid, Checkouts, Fields
    <3>2. IsValid(q)
      BY <3>1, <1>1, <2>2 DEF IsValid, Fields
    <3> QED
      BY <2>1, <2>2, <2>3, <3>2, RequestStep
  <2> QED
    BY <2>1, <2>2, <2>3, <1>2
<1>6. CASE Refuse(s)
  BY <1>6, <1>2 DEF Refuse
<1>7. CASE Sync(s)
  <2>1. CASE r.kind = "run"
    <3> DEFINE q == [r EXCEPT !.at = "create"]
    <3>1. ~IsRefused(r)
      BY <1>7, <2>1 DEF Sync
    <3>2. ~IsRefused(q)
      BY <3>1, <1>1 DEF IsRefused, Matches, IsValid, Fields
    <3>3. IsValid(q)
      BY <3>2, <1>1 DEF IsValid, Fields
    <3> QED
      BY <1>7, <2>1, <3>3, RequestStep DEF Sync, Goes
  <2> QED
    BY <1>7, <2>1, <1>2 DEF Sync
<1> QED
  BY <1>3, <1>4, <1>5, <1>6, <1>7


LEMMA NewRunSound ==
  ASSUME NEW path \in Files, NEW line \in Nat, NEW id \in Identities \cup {NoId},
         NEW tag \in Tags \cup {NoTag}, NEW c \in Contents[path],
         id # NoId => line \in Lines(c) /\ Identity(path, c, line) = id,
         tag # NoTag => id = <<"tag", tag>> /\ IsAlone(c, line, tag)
  PROVE  /\ TestRun(path, line, id, tag, "QUEUED", c) \in TestRuns
         /\ IsSound(TestRun(path, line, id, tag, "QUEUED", c))
<1> DEFINE run == TestRun(path, line, id, tag, "QUEUED", c)
<1>1. c \in UNION {Contents[f] : f \in Files}
  OBVIOUS
<1>2. run \in TestRuns
  BY <1>1 DEF TestRun, TestRuns
<1>3. run.path = path /\ run.line = line /\ run.id = id /\ run.tag = tag /\ run.of = c /\ ~run.promised
  BY DEF TestRun
<1> HIDE DEF run
<1>4. IsSound(run)
  BY <1>3 DEF IsSound, Fits, IsHit
<1> QED
  BY <1>2, <1>4 DEF run

\* The row of a request that has passed the checks is one of the scenario on its line.
LEMMA CreateKeeps ==
  ASSUME RunsInv, NEW s \in Clients, CreateRun(s) PROVE RunsInv'
<1> DEFINE r == requests[s]
           c == r.got[r.path]
<1>1. IsValid(r) /\ r.path \in Files /\ r.got \in Checkouts /\ ~IsRefused(r)
  BY DEF RunsInv, IsValid, CreateRun, At
<1>2. c \in Contents[r.path] /\ c \in UNION {Contents[f] : f \in Files}
  BY <1>1 DEF Checkouts
<1>3. NewRun(r) \in TestRuns /\ IsSound(NewRun(r))
  <2>1. CASE r.target.by = "feature"
    <3>1. NewRun(r) = TestRun(r.path, 0, NoId, NoTag, "QUEUED", c)
      BY <2>1 DEF NewRun
    <3> QED
      BY <3>1, <1>1, <1>2, NewRunSound
  <2>2. CASE r.target.by = "line"
    <3> DEFINE i == r.target.line
               id == IF HasConflict(r.got, <<r.path, i>>) THEN NoId ELSE Identity(r.path, c, i)
    <3>1. i \in Lines(c)
      BY <1>1, <2>2 DEF IsRefused
    <3>2. i \in Nat \ {0} /\ Identity(r.path, c, i) \in Identities
      BY <1>1, <3>1, PlaceTyped
    <3>3. NewRun(r) = TestRun(r.path, i, id, NoTag, "QUEUED", c)
      BY <2>2, <3>2 DEF NewRun
    <3> HIDE DEF c, i
    <3>4. id \in Identities \cup {NoId} /\ (id # NoId => id = Identity(r.path, c, i))
      BY <3>2
    <3> HIDE DEF id
    <3>5. /\ TestRun(r.path, i, id, NoTag, "QUEUED", c) \in TestRuns
          /\ IsSound(TestRun(r.path, i, id, NoTag, "QUEUED", c))
      BY <3>1, <3>2, <3>4, <1>1, <1>2, NewRunSound
    <3> QED
      BY <3>3, <3>5
  <2>3. CASE r.target.by = "id"
    <3> DEFINE i == CHOOSE j \in Matches(r) : TRUE
               id == Identity(r.path, c, i)
               tag == IF IsTagged(c, i) THEN TagOf(c, i) ELSE NoTag
    <3>1. Matches(r) # {} /\ \A j \in Matches(r) : ~HasConflict(r.got, <<r.path, j>>)
      <4>1. Cardinality(Matches(r)) = 1 /\ \A j \in Matches(r) : ~HasConflict(r.got, <<r.path, j>>)
        BY <1>1, <2>3 DEF IsRefused
      <4>2. \E j : j \in Matches(r)
        BY <4>1, NotEmpty
      <4> QED
        BY <4>1, <4>2
    <3>2. i \in Lines(c) /\ ~HasConflict(r.got, <<r.path, i>>)
      BY <3>1 DEF Matches
    <3>3. /\ i \in Nat \ {0} /\ id \in Identities /\ <<r.path, i>> \in Places(r.got)
          /\ IsTagged(c, i) => TagOf(c, i) \in Tags
      BY <1>1, <3>2, PlaceTyped
    <3>4. NewRun(r) = TestRun(r.path, i, id, tag, "QUEUED", c)
      BY <2>3, <3>3 DEF NewRun
    <3>5. IsTagged(c, i) => IsAlone(c, i, TagOf(c, i))
      BY <1>1, <3>2, TagIsAlone
    <3>6. IsTagged(c, i) => id = <<"tag", TagOf(c, i)>>
      BY DEF Identity
    <3>7. tag \in Tags \cup {NoTag}
      BY <3>3
    <3>8. tag # NoTag => id = <<"tag", tag>> /\ IsAlone(c, i, tag)
      <4>1. CASE IsTagged(c, i)
        <5>1. tag = TagOf(c, i)
          BY <4>1
        <5> QED
          BY <5>1, <4>1, <3>5, <3>6
      <4>2. CASE ~IsTagged(c, i)
        BY <4>2
      <4> QED
        BY <4>1, <4>2
    <3> HIDE DEF i, id, tag, c
    <3>9. NewRun(r) = TestRun(r.path, i, id, tag, "QUEUED", c) /\ id = Identity(r.path, c, i)
      BY <3>4 DEF id
    <3>10. /\ TestRun(r.path, i, id, tag, "QUEUED", c) \in TestRuns
           /\ IsSound(TestRun(r.path, i, id, tag, "QUEUED", c))
      BY <3>2, <3>3, <3>7, <3>8, <3>9, <1>1, <1>2, NewRunSound
    <3> QED
      BY <3>9, <3>10
  <2> QED
    BY <1>1, <2>1, <2>2, <2>3 DEF IsValid
<1>4. /\ testRuns' = Append(testRuns, NewRun(r)) /\ checkout' = checkout
      /\ requests' = [requests EXCEPT ![s] = NoRequest]
  BY DEF CreateRun, Answer, Becomes
<1>5. testRuns' \in Seq(TestRuns) /\ \A n \in DOMAIN testRuns' : IsSound(testRuns'[n])
  <2>1. testRuns \in Seq(TestRuns) /\ \A n \in DOMAIN testRuns : IsSound(testRuns[n])
    BY DEF RunsInv
  <2>2. testRuns' \in Seq(TestRuns)
    BY <1>3, <1>4, <2>1
  <2>3. \A n \in DOMAIN testRuns' : testRuns'[n] = NewRun(r) \/ (n \in DOMAIN testRuns /\ testRuns'[n] = testRuns[n])
    BY <1>3, <1>4, <2>1
  <2> QED
    BY <1>3, <2>1, <2>2, <2>3
<1>6. DOMAIN requests' = Clients /\ \A t \in Clients : IsValid(requests'[t])
  BY <1>4, NoRequestValid DEF RunsInv
<1>7. \A t \in Clients : IsValid(requests[t])'
  BY <1>6 DEF IsValid, IsRefused, Matches
<1> QED
  BY <1>4, <1>5, <1>6, <1>7 DEF RunsInv, IsSound, Fits, IsHit

------------------------------------------------------------------------------
(* The worker. *)

\* What becomes of the run the worker holds is all that counts of its steps.
LEMMA HeldStep ==
  ASSUME RunsInv, NEW n, NEW run, UNCHANGED <<checkout, requests>>,
         n \in DOMAIN testRuns => run \in TestRuns /\ IsSound(run),
         testRuns' = [testRuns EXCEPT ![n] = run]
  PROVE  RunsInv'
<1>1. testRuns \in Seq(TestRuns) /\ \A m \in DOMAIN testRuns : IsSound(testRuns[m])
  BY DEF RunsInv
<1>2. DOMAIN testRuns' = DOMAIN testRuns
  OBVIOUS
<1>3. \A m \in DOMAIN testRuns : testRuns'[m] \in TestRuns /\ IsSound(testRuns'[m])
  <2> TAKE m \in DOMAIN testRuns
  <2>1. testRuns'[m] = IF m = n THEN run ELSE testRuns[m]
    OBVIOUS
  <2>2. testRuns[m] \in TestRuns
    BY <1>1, ElementOfSeq
  <2> QED
    BY <2>1, <2>2, <1>1
<1>4. testRuns' \in Seq(TestRuns)
  <2>1. Len(testRuns) \in Nat /\ DOMAIN testRuns = 1 .. Len(testRuns)
    BY <1>1
  <2>2. testRuns' \in [1 .. Len(testRuns) -> TestRuns]
    BY <1>2, <1>3, <2>1
  <2> QED
    BY <2>1, <2>2, SeqDef
<1>5. \A s \in Clients : IsValid(requests[s])'
  BY ValidKept DEF RunsInv
<1> QED
  BY <1>2, <1>3, <1>4, <1>5 DEF RunsInv, IsSound, Fits, IsHit

\* By a tag that it has alone a scenario is executed alone, or with ones that have several IDs.
LEMMA TagHits ==
  ASSUME NEW run, run.path \in Files, checkout[run.path] \in Contents[run.path],
         run.tag # NoTag, NEW i \in Own(run), IsAlone(checkout[run.path], i, run.tag)
  PROVE  Outcome(run) \in {"own", "shared"}
<1> DEFINE c == checkout[run.path]
           several == {j \in Executes(run) : HasSeveral(c, j)}
<1>1. Executes(run) = {j \in Lines(c) : run.tag \in c.scenarios[j].ids}
  BY DEF Executes, Tagged, IsAlone
<1>2. i \in Executes(run)
  BY <1>1, OneTag DEF Own, IsAlone, HasTag
<1>3. ASSUME NEW j \in Executes(run), ~HasSeveral(c, j) PROVE j = i
  <2>1. j \in Lines(c) /\ run.tag \in c.scenarios[j].ids /\ IsFiniteSet(c.scenarios[j].ids)
    BY <1>1, LinesFinite
  <2>2. Cardinality(c.scenarios[j].ids) \in Nat /\ Cardinality(c.scenarios[j].ids) # 0
    BY <2>1, FS_CardinalityType, FS_EmptySet
  <2>3. IsTagged(c, j)
    BY <1>3, <2>2 DEF HasSeveral, IsTagged
  <2> QED
    BY <2>1, <2>3, OnlyTag DEF IsAlone, HasTag
<1>4. Executes(run) = {i} \cup several
  BY <1>2, <1>3
<1>5. CASE several = {}
  BY <1>4, <1>5 DEF Outcome
<1>6. CASE several # {}
  BY <1>2, <1>4, <1>6 DEF Outcome
<1> QED
  BY <1>5, <1>6

\* A promised run hits its scenario: on its line, or by its tag, as the checks that it has
\* passed, or would pass, leave the tag to one scenario.
LEMMA StartHits ==
  ASSUME RunsInv, NEW n \in DOMAIN testRuns, IsPromised(testRuns[n])
  PROVE  Outcome(testRuns[n]) \in {"own", "shared"}
<1> DEFINE run == testRuns[n]
           c == checkout[run.path]
<1>1. run \in TestRuns /\ Fits(run) /\ run.id # NoId
  BY ElementOfSeq DEF RunsInv, IsSound, IsPromised
<1>2. checkout \in Checkouts /\ run.path \in Files /\ c \in Contents[run.path]
  BY <1>1 DEF RunsInv, Checkouts, TestRuns
<1>3. CASE IsUntouched(run)
  <2>1. /\ run.line \in Lines(c) /\ Identity(run.path, c, run.line) = run.id
        /\ run.tag # NoTag => IsAlone(c, run.line, run.tag)
    BY <1>1, <1>3 DEF Fits, IsUntouched
  <2>2. run.line \in Own(run)
    BY <2>1 DEF Own
  <2>3. CASE run.tag # NoTag
    <3>1. IsAlone(c, run.line, run.tag)
      BY <2>1, <2>3
    <3> QED
      BY <1>2, <2>2, <2>3, <3>1, TagHits
  <2>4. CASE run.tag = NoTag
    <3>1. run.line # 0
      BY <1>2, <2>1, LinesFinite
    <3>2. Executes(run) = {run.line}
      BY <2>1, <2>4, <3>1 DEF Executes, OnLine
    <3> QED
      BY <2>2, <3>2 DEF Outcome
  <2> QED
    BY <2>3, <2>4
<1>4. CASE run.tag # NoTag /\ WouldBeAccepted(run)
  <2> DEFINE r == [path |-> run.path, target |-> [by |-> "id", id |-> run.id], got |-> checkout]
  <2>1. Cardinality(Matches(r)) = 1 /\ \A i \in Matches(r) : ~HasConflict(checkout, <<run.path, i>>)
    BY <1>4 DEF WouldBeAccepted, IsRefused
  <2>2. PICK i : i \in Matches(r)
    BY <2>1, NotEmpty
  <2>3. /\ i \in Lines(c) /\ Identity(run.path, c, i) = run.id /\ i \in Own(run)
        /\ ~HasConflict(checkout, <<run.path, i>>)
    BY <2>1, <2>2 DEF Matches, Own
  <2>4. run.id = <<"tag", run.tag>>
    BY <1>1, <1>4 DEF Fits
  <2>5. IsTagged(c, i)
    BY <2>3, <2>4, FingerprintIsNoTag DEF Identity
  <2>6. <<"tag", TagOf(c, i)>> = <<"tag", run.tag>>
    BY <2>3, <2>4, <2>5 DEF Identity
  <2>7. IsAlone(c, i, run.tag)
    BY <1>2, <2>3, <2>5, <2>6, TagIsAlone
  <2> QED
    BY <1>2, <1>4, <2>3, <2>7, TagHits
<1> QED
  BY <1>3, <1>4 DEF IsPromised

LEMMA OutcomeTyped == ASSUME NEW run PROVE Outcome(run) \in {"own", "nothing", "others", "shared"}
BY DEF Outcome

LEMMA WorkerKeeps ==
  ASSUME RunsInv, ClaimTest \/ StartTest \/ CannotStart \/ EndTest PROVE RunsInv'
<1> DEFINE run == testRuns[held]
<1>1. \A n \in DOMAIN testRuns : testRuns[n] \in TestRuns /\ IsSound(testRuns[n])
  BY ElementOfSeq DEF RunsInv
<1>2. CASE ClaimTest
  <2> DEFINE n == Oldest
             new == [testRuns[n] EXCEPT !.status = "RUNNING"]
  <2>1. n \in DOMAIN testRuns => new \in TestRuns /\ IsSound(new)
    BY <1>1 DEF TestRuns, IsSound, Fits, IsHit
  <2>2. testRuns' = [testRuns EXCEPT ![n] = new] /\ UNCHANGED <<checkout, requests>>
    BY <1>2 DEF ClaimTest
  <2> QED
    BY <2>1, <2>2, HeldStep
<1>3. CASE StartTest
  <2> DEFINE new == [run EXCEPT !.of = NoFile, !.promised = IsPromised(run), !.ran = Outcome(run)]
  <2>1. ASSUME held \in DOMAIN testRuns PROVE new \in TestRuns /\ IsSound(new)
    <3>1. IsPromised(run) => Outcome(run) \in {"own", "shared"}
      BY <2>1, StartHits
    <3>2. run \in TestRuns /\ IsSound(run)
      BY <1>1, <2>1
    <3>3. NoFile \in UNION {Contents[f] : f \in Files}
      BY ScenarioCatalogAssumption
    <3>4. IsPromised(run) \in BOOLEAN /\ Outcome(run) \in {"own", "nothing", "others", "shared"}
      BY OutcomeTyped DEF IsPromised, IsUntouched, WouldBeAccepted
    <3>5. PICK promised, ran : promised = IsPromised(run) /\ ran = Outcome(run)
      OBVIOUS
    <3> QED
      BY <3>1, <3>2, <3>3, <3>4, <3>5 DEF TestRuns, IsSound, Fits, IsHit
  <2>2. testRuns' = [testRuns EXCEPT ![held] = new] /\ UNCHANGED <<checkout, requests>>
    BY <1>3 DEF StartTest, SetRun
  <2> QED
    BY <2>1, <2>2, HeldStep
<1>4. CASE CannotStart
  <2> DEFINE new == [run EXCEPT !.status = "FAILED", !.of = NoFile]
  <2>1. NoFile \in UNION {Contents[f] : f \in Files}
    BY ScenarioCatalogAssumption
  <2>2. held \in DOMAIN testRuns => new \in TestRuns /\ IsSound(new)
    BY <1>1, <2>1 DEF TestRuns, IsSound, Fits, IsHit
  <2>3. testRuns' = [testRuns EXCEPT ![held] = new] /\ UNCHANGED <<checkout, requests>>
    BY <1>4 DEF CannotStart, SetRun
  <2> QED
    BY <2>2, <2>3, HeldStep
<1>5. CASE EndTest
  <2> DEFINE new == [run EXCEPT !.status = IF IsOk THEN "PASSED" ELSE "FAILED"]
  <2>1. held \in DOMAIN testRuns => new \in TestRuns /\ IsSound(new)
    BY <1>1 DEF TestRuns, IsSound, Fits, IsHit
  <2>2. testRuns' = [testRuns EXCEPT ![held] = new] /\ UNCHANGED <<checkout, requests>>
    BY <1>5 DEF EndTest, SetRun
  <2> QED
    BY <2>1, <2>2, HeldStep
<1> QED
  BY <1>2, <1>3, <1>4, <1>5

------------------------------------------------------------------------------

LEMMA RunsInvStep ==
  ASSUME NoBackfill, RunsInv, [Next]_vars PROVE RunsInv'
<1>1. ASSUME UNCHANGED <<checkout, testRuns, requests>> PROVE RunsInv'
  BY <1>1, InvKept DEF RunsInv
<1>2. CASE Edit
  <2>1. checkout' \in Checkouts /\ UNCHANGED <<testRuns, requests>>
    BY <1>2 DEF Edit, RunsInv, Checkouts
  <2> QED
    BY <2>1, InvKept
<1>3. ASSUME NEW s \in Clients, Ask(s) PROVE RunsInv'
  BY <1>3, AskKeeps
<1>4. ASSUME NEW s \in Clients, Serve(s) PROVE RunsInv'
  <2>1. ~Backfill(s)
    BY DEF Backfill, IsParsed, At, RunsInv, IsValid
  <2> QED
    BY <1>4, <2>1, ServeKeeps, CreateKeeps DEF Serve
<1>5. CASE Worker \/ StartStage \/ Crash
  <2>1. CASE ClaimTest \/ StartTest \/ CannotStart \/ EndTest
    BY <2>1, WorkerKeeps
  <2>2. CASE EndStage \/ StartStage \/ Crash
    BY <2>2, <1>1 DEF EndStage, StartStage, Crash, catalogVars
  <2> QED
    BY <1>5, <2>1, <2>2 DEF Worker
<1>6. CASE Runs /\ UNCHANGED <<catalogVars, held, crashes>>
  BY <1>6, <1>1 DEF catalogVars
<1>7. CASE UNCHANGED vars
  BY <1>7, <1>1 DEF vars, catalogVars
<1> QED
  BY <1>2, <1>3, <1>4, <1>5, <1>6, <1>7 DEF Next

\* Since the API refuses an ambiguous ID, a run recorded for a scenario executes it, and no other
\* scenario with one ID or none, as long as its file is left alone after the request has read
\* it; and a run by tag also after any edits under which the API would accept it still.
THEOREM RunsHitTheirScenarios ==
  ASSUME NoBackfill PROVE Spec => []RunHitsItsScenario
<1>1. Init => RunsInv
  BY RunsInvInit
<1>2. RunsInv /\ [Next]_vars => RunsInv'
  BY RunsInvStep
<1>3. RunsInv => RunHitsItsScenario
  BY DEF RunsInv, IsSound, IsHit, RunHitsItsScenario
<1> QED
  BY <1>1, <1>2, <1>3, PTL DEF Spec
------------------------------------------------------------------------------
(* One execution, one result. *)

\* What the worker holds, a child of its or none, and what that says of the rows.
OnceInv ==
  /\ child # NoChild => "kind" \in DOMAIN child /\ child.kind # "none"
  /\ held # 0 =>
       /\ held \in DOMAIN testRuns /\ testRuns[held].status = "RUNNING"
       /\ testRuns[held].ran = "" <=> child = NoChild
  /\ \A n \in DOMAIN testRuns :
       /\ testRuns[n].status = "QUEUED" => testRuns[n].ran = ""
       /\ testRuns[n].status = "PASSED" => testRuns[n].ran # ""

\* A run that has executed is not executed again, and one that has ended stays as it is.
RunsOnce ==
  \A n \in DOMAIN testRuns :
    /\ n \in DOMAIN testRuns'
    /\ testRuns[n].ran # "" => testRuns'[n].ran = testRuns[n].ran
    /\ testRuns[n].status \in {"PASSED", "FAILED"} => testRuns'[n] = testRuns[n]

LEMMA RunRows ==
  ASSUME RunsInv
  PROVE  /\ Len(testRuns) \in Nat /\ DOMAIN testRuns = 1 .. Len(testRuns)
         /\ \A n \in DOMAIN testRuns : testRuns[n] \in TestRuns
<1>1. testRuns \in Seq(TestRuns)
  BY DEF RunsInv
<1> QED
  BY <1>1, ElementOfSeq

LEMMA OldestQueued ==
  ASSUME RunsInv, Queued # {} PROVE Oldest \in Queued
<1>1. Queued \subseteq Nat
  BY RunRows DEF Queued
<1>2. IsWellFoundedOn({pair \in Nat \X Nat : pair[1] < pair[2]}, Nat)
  BY NatLessThanWellFounded DEF OpToRel
<1>3. PICK n \in Queued : \A m \in Queued : <<m, n>> \notin {pair \in Nat \X Nat : pair[1] < pair[2]}
  BY <1>1, <1>2, WFMin
<1>4. ASSUME NEW m \in Queued PROVE n <= m
  <2>1. n \in Nat /\ m \in Nat /\ ~ (m < n)
    BY <1>1, <1>3
  <2> QED
    BY <2>1
<1> QED
  BY <1>3, <1>4 DEF Oldest

\* A step that leaves the rows alone, and what the worker waits for or whether it does.
LEMMA OnceKept ==
  ASSUME OnceInv, UNCHANGED <<testRuns, held>>, UNCHANGED child \/ Runs
  PROVE  OnceInv' /\ RunsOnce
<1>1. CASE UNCHANGED child
  BY <1>1 DEF OnceInv, RunsOnce
<1>2. CASE Runs
  <2>1. child # NoChild /\ "kind" \in DOMAIN child /\ child.kind # "none"
    BY <1>2 DEF OnceInv, Runs, DirectEnds, HeirsEnd, TimeOut, Kill, IsRunning
  <2>2. "kind" \in DOMAIN child' /\ child'.kind = child.kind
    BY <1>2, <2>1 DEF Runs, DirectEnds, HeirsEnd, TimeOut, Kill, Obey
  <2>3. child' # NoChild
    BY <2>1, <2>2 DEF NoChild
  <2> QED
    BY <2>1, <2>2, <2>3 DEF OnceInv, RunsOnce
<1> QED
  BY <1>1, <1>2

LEMMA SpawnedChild ==
  ASSUME NEW kind, kind # "none", Spawn(kind)
  PROVE  child = NoChild /\ child' # NoChild /\ "kind" \in DOMAIN child' /\ child'.kind # "none"
<1>1. PICK heirs \in BOOLEAN :
        child' = [kind |-> kind, direct |-> "up", heirs |-> heirs, timedOut |-> FALSE, signal |-> ""]
  BY DEF Spawn
<1>2. child'.kind = kind
  BY <1>1
<1>3. "kind" \in DOMAIN child'
  BY <1>1
<1>4. NoChild.kind = "none"
  BY DEF NoChild
<1> QED
  BY <1>2, <1>3, <1>4 DEF Spawn

LEMMA OnceInitial == NoBackfill /\ Init => OnceInv
<1> SUFFICES ASSUME NoBackfill, Init PROVE OnceInv
  OBVIOUS
<1>1. testRuns = <<>>
  BY DEF Init, CatalogInit, NoBackfill
<1>2. child = NoChild /\ held = 0
  BY DEF Init, ChildInit
<1> QED
  BY <1>1, <1>2 DEF OnceInv

LEMMA OnceWorker ==
  ASSUME RunsInv, OnceInv, Worker \/ StartStage \/ Crash
  PROVE  OnceInv' /\ RunsOnce
<1> DEFINE run == testRuns[held]
<1>1. ASSUME held # 0 PROVE held \in DOMAIN testRuns /\ run \in TestRuns /\ run.status = "RUNNING"
  BY <1>1, RunRows DEF OnceInv
<1>2. ASSUME NEW n \in DOMAIN testRuns, NEW new, testRuns' = [testRuns EXCEPT ![n] = new]
      PROVE  /\ DOMAIN testRuns' = DOMAIN testRuns /\ testRuns'[n] = new
             /\ \A m \in DOMAIN testRuns : m # n => testRuns'[m] = testRuns[m]
  BY <1>2
<1>3. CASE ClaimTest
  <2>1. held = 0 /\ child = NoChild /\ held' = Oldest /\ UNCHANGED child
    BY <1>3 DEF ClaimTest
  <2>2. Oldest \in DOMAIN testRuns /\ testRuns[Oldest].status = "QUEUED"
    BY <1>3, OldestQueued DEF ClaimTest, Queued
  <2>3. testRuns[Oldest] \in TestRuns /\ testRuns[Oldest].ran = ""
    BY <2>2, RunRows DEF OnceInv
  <2> DEFINE new == [testRuns[Oldest] EXCEPT !.status = "RUNNING"]
  <2>4. new.status = "RUNNING" /\ new.ran = ""
    BY <2>3 DEF TestRuns
  <2>5. testRuns' = [testRuns EXCEPT ![Oldest] = new]
    BY <1>3 DEF ClaimTest
  <2> HIDE DEF new
  <2>6. /\ DOMAIN testRuns' = DOMAIN testRuns /\ testRuns'[Oldest] = new
        /\ \A m \in DOMAIN testRuns : m # Oldest => testRuns'[m] = testRuns[m]
    BY <1>2, <2>2, <2>5
  <2> QED
    BY <2>1, <2>2, <2>3, <2>4, <2>6 DEF OnceInv, RunsOnce
<1>4. CASE StartTest
  <2>1. held # 0 /\ child = NoChild /\ child' # NoChild /\ "kind" \in DOMAIN child' /\ child'.kind # "none"
    BY <1>4, SpawnedChild DEF StartTest
  <2>2. run.ran = "" /\ run \in TestRuns /\ run.status = "RUNNING" /\ held \in DOMAIN testRuns
    BY <1>1, <2>1 DEF OnceInv
  <2>3. \E promised, ran : ran # "" /\
          testRuns' = [testRuns EXCEPT ![held] =
                        [run EXCEPT !.of = NoFile, !.promised = promised, !.ran = ran]]
    BY <1>4, OutcomeTyped DEF StartTest, SetRun
  <2>4. PICK new : new.status = "RUNNING" /\ new.ran # "" /\ testRuns' = [testRuns EXCEPT ![held] = new]
    BY <2>2, <2>3 DEF TestRuns
  <2>5. /\ DOMAIN testRuns' = DOMAIN testRuns /\ testRuns'[held] = new
        /\ \A m \in DOMAIN testRuns : m # held => testRuns'[m] = testRuns[m]
    BY <1>2, <2>2, <2>4
  <2>6. held' = held
    BY <1>4 DEF StartTest
  <2> QED
    BY <2>1, <2>2, <2>4, <2>5, <2>6 DEF OnceInv, RunsOnce
<1>5. CASE CannotStart \/ EndTest
  <2>1. held # 0 /\ held' = 0 /\ child' = NoChild
    BY <1>5 DEF CannotStart, EndTest
  <2>2. run \in TestRuns /\ run.status = "RUNNING" /\ held \in DOMAIN testRuns
    BY <1>1, <2>1
  <2>3. PICK new : /\ testRuns' = [testRuns EXCEPT ![held] = new] /\ new.ran = run.ran
                   /\ new.status \in {"PASSED", "FAILED"} /\ (new.status = "PASSED" => run.ran # "")
    <3>1. CASE CannotStart
      <4> DEFINE new == [run EXCEPT !.status = "FAILED", !.of = NoFile]
      <4>1. new.ran = run.ran /\ new.status = "FAILED"
        BY <2>2 DEF TestRuns
      <4>2. testRuns' = [testRuns EXCEPT ![held] = new]
        BY <3>1 DEF CannotStart, SetRun
      <4> QED
        BY <4>1, <4>2
    <3>2. CASE EndTest
      <4> DEFINE new == [run EXCEPT !.status = IF IsOk THEN "PASSED" ELSE "FAILED"]
      <4>1. new.ran = run.ran /\ new.status \in {"PASSED", "FAILED"}
        BY <2>2 DEF TestRuns
      <4>2. testRuns' = [testRuns EXCEPT ![held] = new]
        BY <3>2 DEF EndTest, SetRun
      <4>3. run.ran # ""
        BY <2>1, <3>2 DEF EndTest, IsClosed, IsRunning, OnceInv
      <4> QED
        BY <4>1, <4>2, <4>3
    <3> QED
      BY <1>5, <3>1, <3>2
  <2>4. /\ DOMAIN testRuns' = DOMAIN testRuns /\ testRuns'[held] = new
        /\ \A m \in DOMAIN testRuns : m # held => testRuns'[m] = testRuns[m]
    BY <1>2, <2>2, <2>3
  <2> QED
    BY <2>1, <2>2, <2>3, <2>4 DEF OnceInv, RunsOnce
<1>6. CASE EndStage \/ Crash
  BY <1>6 DEF EndStage, Crash, catalogVars, OnceInv, RunsOnce
<1>7. CASE StartStage
  <2>1. held = 0 /\ UNCHANGED <<testRuns, held>>
    BY <1>7 DEF StartStage, catalogVars
  <2>2. child' # NoChild /\ "kind" \in DOMAIN child' /\ child'.kind # "none"
    <3>1. PICK kind \in Stages : Spawn(kind)
      BY <1>7 DEF StartStage
    <3>2. kind # "none"
      BY LocalTestRunsAssumption DEF Kinds
    <3> QED
      BY <3>1, <3>2, SpawnedChild
  <2> QED
    BY <2>1, <2>2 DEF OnceInv, RunsOnce
<1> QED
  BY <1>3, <1>4, <1>5, <1>6, <1>7 DEF Worker

LEMMA OnceStep ==
  ASSUME RunsInv, OnceInv, [Next]_vars PROVE OnceInv' /\ RunsOnce
<1>1. CASE UNCHANGED <<testRuns, held, child>>
  BY <1>1, OnceKept
<1>2. CASE Edit /\ UNCHANGED <<child, held, crashes>>
  BY <1>2, <1>1 DEF Edit
<1>3. ASSUME NEW s \in Clients, Ask(s) \/ Serve(s), UNCHANGED <<child, held>> PROVE OnceInv' /\ RunsOnce
  <2>1. UNCHANGED testRuns \/ CreateRun(s)
    <3>1. ~Backfill(s)
      BY DEF Backfill, IsParsed, At, RunsInv, IsValid
    <3> QED
      BY <1>3, <3>1 DEF Ask, OpenCatalog, OpenDetail, AskRun, RunBackfill, Begins, Serve, ReadOwn,
                        ListFiles, ReadFile, Refuse, Sync
  <2>2. CASE CreateRun(s)
    <3>1. PICK run : testRuns' = Append(testRuns, run) /\ run.status = "QUEUED" /\ run.ran = ""
      <4>1. \A path, line, id, tag, of :
              /\ TestRun(path, line, id, tag, "QUEUED", of).status = "QUEUED"
              /\ TestRun(path, line, id, tag, "QUEUED", of).ran = ""
        BY DEF TestRun
      <4>2. PICK path, line, id, tag, of :
              NewRun(requests[s]) = TestRun(path, line, id, tag, "QUEUED", of)
        BY Zenon DEF NewRun
      <4> QED
        BY <2>2, <4>1, <4>2 DEF CreateRun
    <3>2. testRuns \in Seq(TestRuns \cup {run})
      <4>1. testRuns \in Seq(TestRuns)
        BY DEF RunsInv
      <4>2. Len(testRuns) \in Nat /\ testRuns \in [1 .. Len(testRuns) -> TestRuns \cup {run}]
        BY <4>1
      <4> QED
        BY <4>2, SeqDef
    <3>3. /\ DOMAIN testRuns \subseteq DOMAIN testRuns'
          /\ \A n \in DOMAIN testRuns : testRuns'[n] = testRuns[n]
          /\ \A n \in DOMAIN testRuns' \ DOMAIN testRuns : testRuns'[n] = run
      <4> DEFINE S == TestRuns \cup {run}
      <4>1. testRuns \in Seq(S) /\ run \in S
        BY <3>2
      <4> HIDE DEF S
      <4>2. testRuns' = Append(testRuns, run)
        BY <3>1
      <4>3. /\ Len(testRuns) \in Nat /\ DOMAIN testRuns = 1 .. Len(testRuns)
            /\ DOMAIN testRuns' = 1 .. Len(testRuns) + 1
            /\ \A n \in 1 .. Len(testRuns) : testRuns'[n] = testRuns[n]
            /\ testRuns'[Len(testRuns) + 1] = run
        BY <4>1, <4>2
      <4> QED
        BY <4>3
    <3> QED
      BY <1>3, <3>1, <3>3 DEF OnceInv, RunsOnce
  <2> QED
    BY <1>1, <1>3, <2>1, <2>2
<1>4. CASE Worker \/ StartStage \/ Crash
  BY <1>4, OnceWorker
<1>5. CASE Runs /\ UNCHANGED <<catalogVars, held, crashes>>
  BY <1>5, OnceKept DEF catalogVars
<1>6. CASE UNCHANGED vars
  BY <1>6, <1>1 DEF vars, catalogVars
<1> QED
  BY <1>2, <1>3, <1>4, <1>5, <1>6 DEF Next

\* Without backfills, the worker executes a run once at most, also when it dies and is
\* started again, and the result, which is written once, stays: the next run, a timeout or
\* the late exit of a child does not reach it.
THEOREM RunsExecuteOnce ==
  ASSUME NoBackfill PROVE Spec => [][RunsOnce]_vars
<1>1. Init => RunsInv /\ OnceInv
  BY RunsInvInit, OnceInitial
<1>2. RunsInv /\ OnceInv /\ [Next]_vars => (RunsInv /\ OnceInv)'
  BY RunsInvStep, OnceStep
<1>3. RunsInv /\ OnceInv /\ [Next]_vars => [RunsOnce]_vars
  BY OnceStep
<1> QED
  BY <1>1, <1>2, <1>3, PTL DEF Spec

------------------------------------------------------------------------------
(* Identities.  What the parsers take for granted: only a tag can be shared. *)

\* The scenarios with the same name and steps come in an order.
LEMMA OrderTellsApart ==
  ASSUME NEW f \in Files, NEW c \in Contents[f], NEW i \in Lines(c), NEW j \in Lines(c),
         Alike(c, i) = Alike(c, j), i \in Alike(c, i), i < j
  PROVE  Cardinality({k \in Alike(c, i) : k < i}) # Cardinality({k \in Alike(c, j) : k < j})
<1> DEFINE S == {k \in Alike(c, i) : k < i}
           T == {k \in Alike(c, j) : k < j}
<1>1. Lines(c) \subseteq Nat /\ IsFiniteSet(Lines(c))
  BY LinesFinite
<1>2. Alike(c, i) \subseteq Lines(c)
  BY DEF Alike, Named
<1>3. IsFiniteSet(T)
  BY <1>1, <1>2, FS_Subset
<1>4. S \subseteq T /\ i \in T /\ i \notin S
  BY <1>1, <1>2
<1> QED
  BY <1>3, <1>4, FS_Subset

LEMMA FingerprintIsOwn ==
  ASSUME NEW f \in Files, NEW c \in Contents[f], NEW i \in Lines(c), NEW j \in Lines(c),
         Fingerprint(f, c, i) = Fingerprint(f, c, j)
  PROVE  i = j
<1>1. PICK print : print = Fingerprint(f, c, i) /\ print = Fingerprint(f, c, j)
  OBVIOUS
<1>2. PICK name, steps, before :
        /\ name = c.scenarios[i].name /\ steps = c.scenarios[i].steps
        /\ before = Cardinality({k \in Alike(c, i) : k < i})
  OBVIOUS
<1>3. PICK name2, steps2, before2 :
        /\ name2 = c.scenarios[j].name /\ steps2 = c.scenarios[j].steps
        /\ before2 = Cardinality({k \in Alike(c, j) : k < j})
  OBVIOUS
<1>4. \/ Named(c, i) = {i} /\ print = <<"name", f, name>>
      \/ Alike(c, i) = {i} /\ print = <<"steps", f, name, steps>>
      \/ print = <<"order", f, name, steps, before>>
  BY <1>1, <1>2, FingerprintForms
<1>5. \/ print = <<"name", f, name2>>
      \/ print = <<"steps", f, name2, steps2>>
      \/ print = <<"order", f, name2, steps2, before2>>
  BY <1>1, <1>3, FingerprintForms
<1>6. name = name2 => j \in Named(c, i)
  BY <1>2, <1>3 DEF Named
<1>7. name = name2 /\ steps = steps2 =>
        /\ Alike(c, i) = Alike(c, j) /\ i \in Alike(c, i) /\ j \in Alike(c, i)
  BY <1>2, <1>3 DEF Alike, Named
<1>8. CASE Named(c, i) = {i} /\ print = <<"name", f, name>>
  <2>1. name = name2
    BY <1>5, <1>8
  <2> QED
    BY <1>6, <1>8, <2>1
<1>9. CASE Alike(c, i) = {i} /\ print = <<"steps", f, name, steps>>
  <2>1. name = name2 /\ steps = steps2
    BY <1>5, <1>9
  <2> QED
    BY <1>7, <1>9, <2>1
<1>10. CASE print = <<"order", f, name, steps, before>>
  <2>1. name = name2 /\ steps = steps2 /\ before = before2
    BY <1>5, <1>10
  <2>2. ~(i < j) /\ ~(j < i)
    BY <1>2, <1>3, <1>7, <2>1, OrderTellsApart
  <2>3. i \in Nat /\ j \in Nat
    BY LinesFinite
  <2> QED
    BY <2>2, <2>3
<1> QED
  BY <1>4, <1>8, <1>9, <1>10

\* A scenario that is free of conflicts has its identity alone: no other scenario of the
\* checkout is given it, whatever the tags, the names, the steps and their repetitions are.
THEOREM ClearIsAlone ==
  ASSUME NEW parse \in Checkouts, NEW p \in Places(parse), ~HasConflict(parse, p),
         NEW q \in Places(parse), IdentityAt(parse, q) = IdentityAt(parse, p)
  PROVE  q = p
<1>1. CASE IsTagged(parse[p[1]], p[2])
  BY <1>1 DEF HasConflict
<1>2. CASE ~IsTagged(parse[p[1]], p[2])
  <2>1. PICK f, i : f \in Files /\ i \in Lines(parse[f]) /\ p = <<f, i>>
    BY DEF Places
  <2>2. PICK g, j : g \in Files /\ j \in Lines(parse[g]) /\ q = <<g, j>>
    BY DEF Places
  <2>3. Identity(f, parse[f], i) = Identity(g, parse[g], j)
    BY <2>1, <2>2 DEF IdentityAt
  <2>4. Identity(f, parse[f], i) = Fingerprint(f, parse[f], i)
    BY <1>2, <2>1 DEF Identity
  <2>5. Identity(g, parse[g], j) = Fingerprint(g, parse[g], j)
    BY <2>3, <2>4, FingerprintIsNoTag DEF Identity
  <2>6. f = g
    <3>1. Fingerprint(f, parse[f], i)[2] = f /\ Fingerprint(g, parse[g], j)[2] = g
      BY FingerprintStart
    <3> QED
      BY <2>3, <2>4, <2>5, <3>1
  <2>7. i = j
    <3>1. Fingerprint(f, parse[f], i) = Fingerprint(f, parse[f], j) /\ parse[f] \in Contents[f]
      BY <2>1, <2>3, <2>4, <2>5, <2>6 DEF Checkouts
    <3> QED
      BY <2>1, <2>2, <2>6, <3>1, FingerprintIsOwn
  <2> QED
    BY <2>1, <2>2, <2>6, <2>7
<1> QED
  BY <1>1, <1>2

------------------------------------------------------------------------------
(* The rows of the catalogue. *)

\* What a request has read is still what the checkout holds.
ReadsCurrent(r) ==
  /\ r.kind \in {"detail", "run"} /\ r.at \in {"list", "read"} => r.got[r.path] = checkout[r.path]
  /\ r.at = "read" => \A f \in Files \ r.left : r.got[f] = checkout[f]
AllCurrent == \A s \in Clients : ReadsCurrent(requests[s])

IsTyped(r) ==
  /\ DOMAIN r = Fields /\ r.path \in Files /\ r.got \in Checkouts
  /\ r.at \in {"own", "list"} =>
       \A f \in Files : r.got[f] = NoFile \/ (r.at = "list" /\ IsOwn(r, f))
CatalogInv ==
  /\ checkout \in Checkouts /\ failures \in Nat
  /\ \A k \in DOMAIN scenarios : scenarios[k] \in Rows
  /\ DOMAIN requests = Clients /\ \A s \in Clients : IsTyped(requests[s])

\* What a synchronisation makes of the row with the identity k.
IsSeen(r, k) == \E p \in Clear(r.got, Scope(r)) : IdentityAt(r.got, p) = k
IsRefreshed(r, k, row) ==
  \E p \in Clear(r.got, Scope(r)) :
    IdentityAt(r.got, p) = k /\ row = [path |-> p[1], line |-> p[2], missing |-> FALSE]
IsGone(r, k) == MarksMissing(r) /\ k \notin Present(r.got, Scope(r))
IsKept(r, k, row) == row = [scenarios[k] EXCEPT !.missing = @ \/ IsGone(r, k)]

LEMMA SyncedRows ==
  ASSUME NEW r, scenarios' = Synced(r)
  PROVE  /\ \A k : k \in DOMAIN scenarios' <=> k \in DOMAIN scenarios \/ IsSeen(r, k)
         /\ \A k \in DOMAIN scenarios' :
              IF IsSeen(r, k) THEN IsRefreshed(r, k, scenarios'[k]) ELSE IsKept(r, k, scenarios'[k])
<1> DEFINE seen == Clear(r.got, Scope(r))
           Place(k) == CHOOSE p \in seen : IdentityAt(r.got, p) = k
           ids == {IdentityAt(r.got, p) : p \in seen}
<1>1. scenarios' = [k \in DOMAIN scenarios \cup ids |->
        IF k \in ids THEN [path |-> Place(k)[1], line |-> Place(k)[2], missing |-> FALSE]
        ELSE [scenarios[k] EXCEPT !.missing = @ \/ IsGone(r, k)]]
  BY DEF Synced, IsGone
<1>2. \A k : k \in ids <=> IsSeen(r, k)
  BY DEF IsSeen
<1>3. \A k \in ids : Place(k) \in seen /\ IdentityAt(r.got, Place(k)) = k
  OBVIOUS
<1> HIDE DEF Place, ids
<1>4. DOMAIN scenarios' = DOMAIN scenarios \cup ids
  BY <1>1
<1>5. \A k \in ids : IsRefreshed(r, k, scenarios'[k])
  BY <1>1, <1>3 DEF IsRefreshed
<1>6. \A k \in DOMAIN scenarios \ ids : IsKept(r, k, scenarios'[k])
  BY <1>1 DEF IsKept
<1> QED
  BY <1>2, <1>4, <1>5, <1>6

\* A row that is not missing and stays so is kept as it is.
LEMMA KeptRow ==
  ASSUME NEW r, NEW k, NEW row, ~IsGone(r, k), scenarios[k] \in Rows, ~scenarios[k].missing,
         IsKept(r, k, row)
  PROVE  row = scenarios[k]
<1>1. scenarios[k].missing \in BOOLEAN
  BY DEF Rows
<1>2. (scenarios[k].missing \/ IsGone(r, k)) = FALSE
  BY <1>1
<1>3. row = [scenarios[k] EXCEPT !.missing = FALSE]
  BY <1>2 DEF IsKept
<1>4. ASSUME NEW old \in Rows, ~old.missing PROVE [old EXCEPT !.missing = FALSE] = old
  BY <1>4 DEF Rows
<1> QED
  BY <1>3, <1>4

\* A synchronisation with what the checkout holds makes the rows right of the files that
\* it speaks for, which are all of them for a catalogue.
LEMMA SyncSettles ==
  ASSUME CatalogInv, NEW r, IsTyped(r), r.got = checkout,
         scenarios' = Synced(r), checkout' = checkout, r.kind = "catalog" \/ RowsAgree
  PROVE  RowsAgree'
<1> DEFINE files == {f \in Files : checkout[f].exists}
           Right(p) == [path |-> p[1], line |-> p[2], missing |-> FALSE]
<1> SUFFICES ASSUME files # {}
             PROVE  /\ \A p \in Clear(checkout, files) :
                         /\ IdentityAt(checkout, p) \in DOMAIN scenarios'
                         /\ scenarios'[IdentityAt(checkout, p)] = Right(p)
                    /\ \A k \in DOMAIN scenarios' \ Present(checkout, files) : scenarios'[k].missing
  BY DEF RowsAgree
<1> PICK seen : seen = Clear(checkout, Scope(r))
  OBVIOUS
<1>1. /\ r.kind = "catalog" => Scope(r) = files /\ MarksMissing(r)
      /\ r.kind # "catalog" => Scope(r) = {r.path} /\ ~MarksMissing(r)
  BY DEF Scope, MarksMissing
<1>2. \A p \in Places(checkout) : p[1] \in files
  <2> SUFFICES ASSUME NEW f \in Files, NEW i \in Lines(checkout[f]) PROVE checkout[f].exists
    BY DEF Places
  <2>1. checkout[f].exists \/ checkout[f] = NoFile
    BY ScenarioCatalogAssumption DEF CatalogInv, Checkouts
  <2> QED
    BY <2>1 DEF NoFile, Lines
<1>3. \A p : p \in seen <=> p \in Clear(checkout, files) /\ p[1] \in Scope(r)
  BY <1>1, <1>2 DEF Clear
<1>4. \A p \in Clear(checkout, files), q \in seen :
        IdentityAt(checkout, q) = IdentityAt(checkout, p) => q = p
  BY ClearIsAlone DEF Clear, CatalogInv
<1>5. \A p \in seen : IdentityAt(checkout, p) \in Present(checkout, files)
  BY <1>2 DEF Clear, Present
<1>6. ASSUME NEW k
      PROVE  /\ IsSeen(r, k) <=> \E p \in seen : IdentityAt(checkout, p) = k
             /\ r.kind # "catalog" => ~IsGone(r, k)
             /\ r.kind = "catalog" /\ k \notin Present(checkout, files) => IsGone(r, k)
  BY <1>1 DEF IsSeen, IsGone
<1>7. ASSUME NEW k, NEW row, IsRefreshed(r, k, row)
      PROVE  \E p \in seen : IdentityAt(checkout, p) = k /\ row = Right(p)
  BY <1>7 DEF IsRefreshed
<1> HIDE DEF Right
<1>8. ASSUME NEW p \in Clear(checkout, files), NEW k, k = IdentityAt(checkout, p)
      PROVE  k \in DOMAIN scenarios' /\ scenarios'[k] = Right(p)
  <2>1. CASE p \in seen
    <3>1. IsSeen(r, k) /\ k \in DOMAIN scenarios'
      BY <1>6, <1>8, <2>1, SyncedRows
    <3>2. IsRefreshed(r, k, scenarios'[k])
      BY <3>1, SyncedRows
    <3>3. PICK q \in seen : IdentityAt(checkout, q) = k /\ scenarios'[k] = Right(q)
      BY <1>7, <3>2
    <3> QED
      BY <1>4, <1>8, <3>1, <3>3
  <2>2. CASE p \notin seen
    <3>1. r.kind # "catalog" /\ RowsAgree /\ ~IsGone(r, k)
      <4>1. r.kind # "catalog"
        BY <1>1, <1>2, <1>3, <2>2 DEF Clear
      <4> QED
        BY <1>6, <4>1
    <3>2. k \in DOMAIN scenarios /\ scenarios[k] = Right(p)
      BY <1>8, <3>1 DEF RowsAgree, Right
    <3>3. ~IsSeen(r, k)
      <4> SUFFICES ASSUME IsSeen(r, k) PROVE FALSE
        OBVIOUS
      <4>1. PICK q \in seen : IdentityAt(checkout, q) = k
        BY <1>6
      <4>2. q = p
        BY <1>4, <1>8, <4>1
      <4> QED
        BY <2>2, <4>1, <4>2
    <3>4. k \in DOMAIN scenarios' /\ IsKept(r, k, scenarios'[k])
      BY <3>2, <3>3, SyncedRows
    <3>5. scenarios[k] = [path |-> p[1], line |-> p[2], missing |-> FALSE]
      BY <3>2 DEF Right
    <3>6. scenarios'[k] = scenarios[k]
      <4>1. PICK row : row = scenarios'[k]
        OBVIOUS
      <4>2. scenarios[k] \in Rows
        BY <3>2 DEF CatalogInv
      <4>6. ~scenarios[k].missing
        BY <3>5
      <4>3. ~IsGone(r, k)
        BY <3>1
      <4>4. IsKept(r, k, row)
        BY <3>4, <4>1
      <4>5. row = scenarios[k]
        BY <4>2, <4>3, <4>4, <4>6, KeptRow
      <4> QED
        BY <4>1, <4>5
    <3> QED
      BY <3>2, <3>4, <3>6
  <2> QED
    BY <2>1, <2>2
<1>9. ASSUME NEW k \in DOMAIN scenarios', k \notin Present(checkout, files)
      PROVE  scenarios'[k].missing
  <2>1. k \in DOMAIN scenarios /\ IsKept(r, k, scenarios'[k])
    BY <1>5, <1>6, <1>9, SyncedRows
  <2>2. scenarios[k] \in Rows
    BY <2>1 DEF CatalogInv
  <2>3. scenarios'[k].missing = (scenarios[k].missing \/ IsGone(r, k))
    BY <2>1, <2>2 DEF Rows, IsKept
  <2>4. CASE r.kind = "catalog"
    <3>1. IsGone(r, k)
      BY <1>6, <1>9, <2>4
    <3> QED
      BY <2>3, <3>1
  <2>5. CASE r.kind # "catalog"
    BY <1>9, <2>1, <2>3, <2>5 DEF RowsAgree
  <2> QED
    BY <2>4, <2>5
<1> QED
  BY <1>8, <1>9


------------------------------------------------------------------------------
(* The reads. *)

LEMMA FileIsThere ==
  ASSUME NEW parse \in Checkouts, NEW f \in Files
  PROVE  parse[f] \in Contents[f] /\ (parse[f].exists \/ parse[f] = NoFile)
<1>1. parse[f] \in Contents[f]
  BY DEF Checkouts
<1> QED
  BY <1>1, ScenarioCatalogAssumption

\* What a request becomes: typed, and current if it was.
Follows(s, q) ==
  Becomes(s, q) /\ IsTyped(q) /\ (ReadsCurrent(requests[s]) => ReadsCurrent(q))

LEMMA BeginFollows ==
  ASSUME CatalogInv, NEW s \in Clients, Ask(s) PROVE \E q : Follows(s, q)
<1>1. ASSUME NEW r, Begins(s, r), IsTyped(r), ReadsCurrent(r) PROVE \E q : Follows(s, q)
  BY <1>1 DEF Begins, Follows
<1>2. ASSUME NEW kind, NEW at, NEW f \in Files, NEW target, NEW old,
             \/ kind \in {"detail", "run"} /\ at = "own"
             \/ kind \in {"catalog", "backfill"} /\ at = "list"
      PROVE  /\ IsTyped(Request(kind, at, f, target)) /\ ReadsCurrent(Request(kind, at, f, target))
             /\ IsTyped([Request(kind, at, f, target) EXCEPT !.old = old])
             /\ ReadsCurrent([Request(kind, at, f, target) EXCEPT !.old = old])
  BY <1>2, NoFileParsed DEF IsTyped, ReadsCurrent, Request, NoRequest, NoTarget, Fields
<1>3. NoRequest.path \in Files
  BY ScenarioCatalogAssumption DEF NoRequest
<1>4. CASE OpenCatalog(s)
  BY <1>4, <1>1, <1>2, <1>3 DEF OpenCatalog
<1>5. CASE OpenDetail(s)
  BY <1>5, <1>1, <1>2 DEF OpenDetail
<1>6. CASE AskRun(s)
  <2>1. \E f \in Files : \E target : Begins(s, Request("run", "own", f, target))
    BY <1>6 DEF AskRun
  <2> QED
    BY <2>1, <1>1, <1>2
<1>7. CASE RunBackfill(s)
  <2>1. \E old : Begins(s, [Request("backfill", "list", NoRequest.path, NoTarget) EXCEPT !.old = old])
    BY <1>7 DEF RunBackfill
  <2> QED
    BY <2>1, <1>1, <1>2, <1>3
<1> QED
  BY <1>4, <1>5, <1>6, <1>7 DEF Ask

LEMMA ServeFollows ==
  ASSUME CatalogInv, NEW s \in Clients, Serve(s) PROVE \E q : Follows(s, q)
<1> DEFINE r == requests[s]
<1>1. IsTyped(r) /\ checkout \in Checkouts
  BY DEF CatalogInv
<1>2. ASSUME Answer(s) PROVE \E q : Follows(s, q)
  <2>1. IsTyped(NoRequest) /\ ReadsCurrent(NoRequest)
    BY NoFileParsed, ScenarioCatalogAssumption DEF IsTyped, ReadsCurrent, NoRequest, Fields
  <2> QED
    BY <1>2, <2>1 DEF Answer, Follows
<1>3. CASE ReadOwn(s)
  <2>1. CASE checkout[r.path].exists
    <3> DEFINE q == [r EXCEPT !.at = "list", !.got[r.path] = checkout[r.path]]
    <3>1. q.got \in Checkouts
      BY <1>1 DEF IsTyped, Checkouts, Fields
    <3>2. r.kind \in {"detail", "run"} /\ r.at = "own"
      BY <1>3 DEF ReadOwn, At
    <3>3. IsTyped(q)
      BY <3>1, <3>2, <1>1 DEF IsTyped, IsOwn, Checkouts, Fields
    <3>4. ReadsCurrent(q)
      BY <1>1 DEF ReadsCurrent, IsTyped, Checkouts, Fields
    <3>5. Becomes(s, q)
      BY <1>3, <2>1 DEF ReadOwn
    <3> QED
      BY <3>3, <3>4, <3>5 DEF Follows
  <2> QED
    BY <1>3, <2>1, <1>2 DEF ReadOwn
<1>4. CASE ListFiles(s)
  <2> DEFINE q == [r EXCEPT !.at = "read", !.left = {f \in Files : checkout[f].exists}]
  <2>1. r.at = "list" /\ Becomes(s, q)
    BY <1>4 DEF ListFiles
  <2>2. IsTyped(q)
    BY <1>1 DEF IsTyped, Fields
  <2>3. ASSUME ReadsCurrent(r) PROVE ReadsCurrent(q)
    <3>1. q.kind = r.kind /\ q.path = r.path /\ q.got = r.got /\ q.left = {f \in Files : checkout[f].exists}
      BY <1>1 DEF IsTyped, Fields
    <3>2. ASSUME NEW f \in Files, ~checkout[f].exists PROVE r.got[f] = checkout[f]
      <4>1. checkout[f] = NoFile
        BY <1>1, <3>2, FileIsThere
      <4>2. r.got[f] = NoFile \/ (r.kind \in {"detail", "run"} /\ f = r.path)
        BY <1>1, <2>1 DEF IsTyped, IsOwn
      <4> QED
        BY <2>1, <2>3, <4>1, <4>2 DEF ReadsCurrent
    <3>3. r.kind \in {"detail", "run"} => r.got[r.path] = checkout[r.path]
      BY <2>1, <2>3 DEF ReadsCurrent
    <3> HIDE DEF q
    <3> QED
      BY <3>1, <3>2, <3>3 DEF ReadsCurrent
  <2> QED
    BY <2>1, <2>2, <2>3 DEF Follows
<1>5. CASE ReadFile(s)
  <2>1. PICK f \in r.left :
          IF checkout[f].exists
            THEN Becomes(s, [r EXCEPT !.left = @ \ {f}, !.got[f] = IF IsOwn(r, f) THEN @ ELSE checkout[f]])
            ELSE Answer(s)
    BY <1>5 DEF ReadFile
  <2>2. r.at = "read"
    BY <1>5 DEF ReadFile
  <2>3. CASE checkout[f].exists
    <3> DEFINE q == [r EXCEPT !.left = @ \ {f}, !.got[f] = IF IsOwn(r, f) THEN @ ELSE checkout[f]]
    <3>1. q.got \in Checkouts
      BY <1>1 DEF IsTyped, Checkouts, Fields
    <3>2. IsTyped(q)
      BY <3>1, <2>2, <1>1 DEF IsTyped, Fields
    <3>3. ReadsCurrent(r) => ReadsCurrent(q)
      BY <1>1, <2>2 DEF ReadsCurrent, IsTyped, IsOwn, Checkouts, Fields
    <3> QED
      BY <2>1, <2>3, <3>2, <3>3 DEF Follows
  <2> QED
    BY <2>1, <2>3, <1>2
<1>6. CASE Refuse(s) \/ CreateRun(s)
  BY <1>6, <1>2 DEF Refuse, CreateRun
<1>7. CASE Sync(s)
  <2>1. CASE r.kind = "run"
    <3> DEFINE q == [r EXCEPT !.at = "create"]
    <3>1. IsTyped(q) /\ ReadsCurrent(q)
      BY <1>1 DEF IsTyped, ReadsCurrent, Fields
    <3> QED
      BY <1>7, <2>1, <3>1 DEF Sync, Goes, Follows
  <2> QED
    BY <1>7, <2>1, <1>2 DEF Sync
<1>8. CASE Backfill(s)
  <2>1. CASE \E t : Becomes(s, [r EXCEPT !.old = @ \ {t}])
    <3>1. PICK t : Becomes(s, [r EXCEPT !.old = @ \ {t}])
      BY <2>1
    <3> DEFINE q == [r EXCEPT !.old = @ \ {t}]
    <3>2. IsTyped(q) /\ (ReadsCurrent(r) => ReadsCurrent(q))
      BY <1>1 DEF IsTyped, IsOwn, ReadsCurrent, Fields
    <3> QED
      BY <3>1, <3>2 DEF Follows
  <2> QED
    BY <1>8, <2>1, <1>2 DEF Backfill
<1> QED
  BY <1>3, <1>4, <1>5, <1>6, <1>7, <1>8 DEF Serve

------------------------------------------------------------------------------
(* The catalogue over time. *)

\* A client's step leaves the checkout alone, and the rows too unless it synchronises.
LEMMA ClientLeaves ==
  ASSUME NEW s, Ask(s) \/ Serve(s)
  PROVE  /\ UNCHANGED checkout
         /\ UNCHANGED <<scenarios, failures>> \/ Sync(s)
BY DEF Ask, OpenCatalog, OpenDetail, AskRun, RunBackfill, Begins, Serve, ReadOwn, ListFiles,
       ReadFile, Refuse, CreateRun, Backfill, Sync

LEMMA SyncedTyped ==
  ASSUME CatalogInv, NEW r, IsTyped(r), scenarios' = Synced(r), NEW k \in DOMAIN scenarios'
  PROVE  scenarios'[k] \in Rows
<1>1. CASE IsSeen(r, k)
  <2>1. IsRefreshed(r, k, scenarios'[k])
    BY <1>1, SyncedRows
  <2>2. PICK p \in Clear(r.got, Scope(r)) :
          scenarios'[k] = [path |-> p[1], line |-> p[2], missing |-> FALSE]
    BY <2>1 DEF IsRefreshed
  <2>3. p \in Places(r.got) /\ r.got \in Checkouts
    BY DEF Clear, IsTyped
  <2>4. PICK f \in Files : p[1] = f /\ p[2] \in Lines(r.got[f])
    BY <2>3 DEF Places
  <2>5. p[2] \in Nat
    BY <2>3, <2>4, FileIsThere, LinesFinite
  <2> QED
    BY <2>2, <2>4, <2>5 DEF Rows
<1>2. CASE ~IsSeen(r, k)
  <2>1. k \in DOMAIN scenarios /\ IsKept(r, k, scenarios'[k])
    BY <1>2, SyncedRows
  <2>2. scenarios[k] \in Rows
    BY <2>1 DEF CatalogInv
  <2>3. IsGone(r, k) \in BOOLEAN
    BY DEF IsGone
  <2> QED
    BY <2>1, <2>2, <2>3 DEF IsKept, Rows
<1> QED
  BY <1>1, <1>2

LEMMA CatalogInvInit == CatalogInit => CatalogInv
<1> SUFFICES ASSUME CatalogInit PROVE CatalogInv
  OBVIOUS
<1>1. checkout \in Checkouts /\ failures \in Nat /\ DOMAIN scenarios = {}
  BY ScenarioCatalogAssumption DEF CatalogInit, Checkouts
<1>2. IsTyped(NoRequest)
  BY NoFileParsed, ScenarioCatalogAssumption DEF IsTyped, NoRequest, Fields
<1>3. requests = [s \in Clients |-> NoRequest]
  BY DEF CatalogInit
<1> QED
  BY <1>1, <1>2, <1>3 DEF CatalogInv

\* The invariant, and reads that are current, by what becomes of the one request.
LEMMA RequestFollows ==
  ASSUME CatalogInv, NEW s \in Clients, NEW q, Follows(s, q), UNCHANGED checkout
  PROVE  /\ DOMAIN requests' = Clients /\ \A t \in Clients : IsTyped(requests'[t])
         /\ AllCurrent => AllCurrent'
<1>1. DOMAIN requests' = Clients /\ \A t \in Clients : requests'[t] = IF t = s THEN q ELSE requests[t]
  BY DEF CatalogInv, Follows, Becomes
<1>2. \A t \in Clients : IsTyped(requests'[t])
  BY <1>1 DEF CatalogInv, Follows
<1>3. ASSUME AllCurrent PROVE AllCurrent'
  <2>1. \A t \in Clients : ReadsCurrent(requests'[t])
    BY <1>1, <1>3 DEF AllCurrent, Follows
  <2> QED
    BY <2>1 DEF AllCurrent, ReadsCurrent
<1> QED
  BY <1>1, <1>2, <1>3

LEMMA CatalogInvStep ==
  ASSUME CatalogInv, [CatalogNext]_catalogVars PROVE CatalogInv'
<1>1. CASE UNCHANGED <<scenarios, requests, failures>> /\ checkout' \in Checkouts
  <2>1. \A s \in Clients : IsTyped(requests'[s])
    BY <1>1 DEF CatalogInv
  <2>2. \A s \in Clients : IsTyped(requests[s])'
    BY <2>1 DEF IsTyped, IsOwn
  <2> QED
    BY <1>1, <2>2 DEF CatalogInv
<1>2. CASE Edit
  <2>1. checkout' \in Checkouts /\ UNCHANGED <<scenarios, requests, failures>>
    BY <1>2 DEF Edit, CatalogInv, Checkouts
  <2> QED
    BY <1>1, <2>1
<1>3. ASSUME NEW s \in Clients, Ask(s) \/ Serve(s) PROVE CatalogInv'
  <2>1. PICK q : Follows(s, q)
    BY <1>3, BeginFollows, ServeFollows
  <2>2. UNCHANGED checkout /\ (UNCHANGED <<scenarios, failures>> \/ Sync(s))
    BY <1>3, ClientLeaves
  <2>3. DOMAIN requests' = Clients /\ \A t \in Clients : IsTyped(requests'[t])
    BY <2>1, <2>2, RequestFollows
  <2>4. \A t \in Clients : IsTyped(requests[t])'
    BY <2>3 DEF IsTyped, IsOwn
  <2>5. failures' \in Nat /\ \A k \in DOMAIN scenarios' : scenarios'[k] \in Rows
    <3>1. CASE UNCHANGED <<scenarios, failures>>
      BY <3>1 DEF CatalogInv
    <3>2. CASE Sync(s)
      <4>1. failures' \in Nat /\ (UNCHANGED scenarios \/ scenarios' = Synced(requests[s]))
        BY <3>2 DEF Sync, CatalogInv
      <4>2. IsTyped(requests[s])
        BY DEF CatalogInv
      <4>3. CASE UNCHANGED scenarios
        BY <4>1, <4>3 DEF CatalogInv
      <4>4. CASE scenarios' = Synced(requests[s])
        BY <4>1, <4>2, <4>4, SyncedTyped
      <4> QED
        BY <4>1, <4>3, <4>4
    <3> QED
      BY <2>2, <3>1, <3>2
  <2>6. checkout' \in Checkouts
    BY <2>2 DEF CatalogInv
  <2> QED
    BY <2>3, <2>4, <2>5, <2>6 DEF CatalogInv
<1>4. CASE UNCHANGED catalogVars
  BY <1>4, <1>1 DEF catalogVars, CatalogInv
<1> QED
  BY <1>2, <1>3, <1>4 DEF CatalogNext

\* What has been parsed and is current is the checkout.
LEMMA ParsedIsCurrent ==
  ASSUME CatalogInv, NEW s \in Clients, Sync(s), ReadsCurrent(requests[s])
  PROVE  requests[s].got = checkout
<1>1. requests[s].got \in Checkouts /\ checkout \in Checkouts
  BY DEF CatalogInv, IsTyped
<1>2. requests[s].at = "read" /\ requests[s].left = {}
  BY DEF Sync, IsParsed, At
<1>3. \A f \in Files : requests[s].got[f] = checkout[f]
  BY <1>2 DEF ReadsCurrent
<1> QED
  BY <1>1, <1>3 DEF Checkouts

LEMMA CurrentSyncSettles ==
  ASSUME CatalogInv, NEW s \in Clients, Sync(s), ReadsCurrent(requests[s]),
         scenarios' = Synced(requests[s]), requests[s].kind = "catalog" \/ RowsAgree
  PROVE  RowsAgree'
<1>1. IsTyped(requests[s]) /\ requests[s].got = checkout /\ checkout' = checkout
  BY ParsedIsCurrent DEF CatalogInv, Sync
<1> QED
  BY <1>1, SyncSettles

LEMMA RowsKept ==
  ASSUME RowsAgree, UNCHANGED <<checkout, scenarios>> PROVE RowsAgree'
BY DEF RowsAgree

\* The step in which a read of the catalogue, all of whose files are as the checkout still
\* holds them, writes its rows: after it the rows are right.
CatalogReadSettles ==
  \A s \in Clients :
    Sync(s) /\ requests[s].kind = "catalog" /\ ReadsCurrent(requests[s]) /\ UNCHANGED failures
      => RowsAgree'

\* syncRepositoryScenarios writes the rows as the checkout has them, whatever they said
\* before and whatever other requests are doing, when the catalogue was read from it as it
\* is and the transaction does not fail.
THEOREM ReadsSettleRows == CatalogSpec => [][CatalogReadSettles]_catalogVars
<1>1. CatalogInit => CatalogInv
  BY CatalogInvInit
<1>2. CatalogInv /\ [CatalogNext]_catalogVars => CatalogInv'
  BY CatalogInvStep
<1>3. CatalogInv => CatalogReadSettles
  <2> SUFFICES ASSUME CatalogInv, NEW s \in Clients, Sync(s), requests[s].kind = "catalog",
                      ReadsCurrent(requests[s]), UNCHANGED failures
               PROVE  RowsAgree'
    BY DEF CatalogReadSettles
  <2>1. scenarios' = Synced(requests[s])
    BY DEF Sync, CatalogInv
  <2> QED
    BY <2>1, CurrentSyncSettles
<1> QED
  BY <1>1, <1>2, <1>3, PTL DEF CatalogSpec

\* Right rows, and requests in progress that have read what the checkout holds, are there
\* after a step that leaves the checkout alone if they were there before it.
RowsStayRight == RowsAgree /\ AllCurrent /\ UNCHANGED checkout => (RowsAgree /\ AllCurrent)'

\* Rows that are right are spoiled by an edit or by a request that has read the checkout
\* as it was before one, and by nothing else: not by a catalogue, detail, run or backfill
\* request that begins later, nor by one that speaks for its own file only.
THEOREM RightRowsStay == CatalogSpec => [][RowsStayRight]_catalogVars
<1>1. CatalogInit => CatalogInv
  BY CatalogInvInit
<1>2. CatalogInv /\ [CatalogNext]_catalogVars => CatalogInv'
  BY CatalogInvStep
<1>3. CatalogInv /\ CatalogNext => RowsStayRight
  <2> SUFFICES ASSUME CatalogInv, CatalogNext, RowsAgree, AllCurrent, UNCHANGED checkout
               PROVE  RowsAgree' /\ AllCurrent'
    BY DEF RowsStayRight
  <2>1. CASE Edit
    <3>1. UNCHANGED <<scenarios, requests>>
      BY <2>1 DEF Edit
    <3> QED
      BY <3>1, RowsKept DEF AllCurrent, ReadsCurrent
  <2>2. ASSUME NEW s \in Clients, Ask(s) \/ Serve(s) PROVE RowsAgree' /\ AllCurrent'
    <3>1. PICK q : Follows(s, q)
      BY <2>2, BeginFollows, ServeFollows
    <3>2. AllCurrent'
      BY <3>1, RequestFollows
    <3>3. CASE UNCHANGED scenarios
      BY <3>2, <3>3, RowsKept
    <3>4. CASE Sync(s) /\ scenarios' = Synced(requests[s])
      <4>1. ReadsCurrent(requests[s])
        BY DEF AllCurrent
      <4> QED
        BY <3>2, <3>4, <4>1, CurrentSyncSettles
    <3> QED
      BY <2>2, <3>3, <3>4, ClientLeaves DEF Sync
  <2> QED
    BY <2>1, <2>2 DEF CatalogNext
<1> QED
  BY <1>1, <1>2, <1>3, PTL DEF CatalogSpec

=============================================================================
