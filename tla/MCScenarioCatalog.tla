---- MODULE MCScenarioCatalog ----
EXTENDS ScenarioCatalog
Scn(name, ids) == [name |-> name, steps |-> "s", ids |-> ids]
File(tags, scns) == [exists |-> TRUE, tags |-> tags, scenarios |-> scns]
FileNames == {"a", "b"}
A == Scn("A", {"x"})
B == Scn("B", {})
\* The first file: a tagged and an untagged scenario, in both orders, the tagged one twice,
\* with a second tag or with its tag on the Feature line too, or the untagged one twice.
\* The second: nothing or the tagged scenario.
FileContents ==
  [f \in FileNames |->
     IF f = "a"
       THEN {NoFile, File({}, <<A, B>>), File({}, <<B, A>>), File({}, <<A, A>>),
             File({}, <<Scn("A", {"x", "y"})>>), File({"x"}, <<A>>), File({}, <<B, B>>)}
     ELSE {NoFile, File({}, <<A>>)}]
AtFirst == {[f \in FileNames |-> IF f = "a" THEN File({}, <<A, B>>) ELSE NoFile]}
\* A browser that shows the catalogue, and somebody who shows files, runs the backfill or
\* asks for a run.
ClientNames == {"browser", "other"}
ClientAsks == [s \in ClientNames |-> IF s = "browser" THEN {"catalog"} ELSE {"detail", "run", "backfill"}]
====
