---- MODULE MCLocalTestRuns ----
EXTENDS LocalTestRuns
Scn(name, ids) == [name |-> name, steps |-> "s", ids |-> ids]
File(tags, scns) == [exists |-> TRUE, tags |-> tags, scenarios |-> scns]
FileNames == {"a", "b"}
A == Scn("A", {"x"})
B == Scn("B", {})
C == Scn("C", {"x", "y"})
\* The first file: a tagged and an untagged scenario, in both orders, or the tagged one
\* twice, together with one that also has another ID, or under a Feature line with its tag.
\* The second: nothing or the tagged scenario.
FileContents ==
  [f \in FileNames |->
     IF f = "a" THEN {NoFile, File({}, <<A, B>>), File({}, <<B, A>>), File({}, <<A, A>>), File({}, <<A, C>>),
                        File({"x"}, <<A, B>>)}
     ELSE {NoFile, File({}, <<A>>)}]
AtFirst == {[f \in FileNames |-> IF f = "a" THEN File({}, <<A, B>>) ELSE NoFile]}
ClientNames == {"caller"}
ClientAsks == [s \in ClientNames |-> {"run"}]
====
