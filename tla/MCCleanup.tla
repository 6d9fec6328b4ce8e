----------------------------- MODULE MCCleanup -----------------------------
(* An instance of Cleanup for TLC.                                          *)
EXTENDS Cleanup, TLC

Image(p, n, old) == [kind |-> "image", project |-> p, repo |-> "root", id |-> n, old |-> old]
Cluster(p, n, old) == [Image(p, n, old) EXCEPT !.kind = "cluster"]
Tag(p, n) == [project |-> p, repo |-> "root", name |-> n]

\* Project p1 has an old image with a tag, a new one, and an old cluster; p2 an old
\* image without tags, and p3 nothing.
MCStored == {Image("p1", 1, TRUE), Image("p1", 2, FALSE), Image("p2", 1, TRUE),
             Cluster("p1", 1, TRUE), Cluster("p2", 1, FALSE)}
MCTagged == Tag("p1", 1) :> Image("p1", 1, TRUE)

Options1 == [project |-> <<"p1", "p2", "p3">>, given |-> FALSE, files |-> <<>>,
             kinds |-> Kinds, dryRun |-> FALSE, registry |-> TRUE]

\* All projects; a file with a project listed twice; a dry run; and what the tool
\* refuses.
MCOptionSets ==
    {Options1,
     [Options1 EXCEPT !.project = <<>>, !.given = TRUE, !.files = <<"p1", "p1">>],
     [Options1 EXCEPT !.dryRun = TRUE, !.kinds = {"cluster"}],
     [Options1 EXCEPT !.given = TRUE],
     [Options1 EXCEPT !.project = <<>>],
     [Options1 EXCEPT !.project = <<>>, !.given = TRUE, !.files = None],
     [Options1 EXCEPT !.registry = FALSE]}

MCForbidden == [k \in Kinds |-> IF k = "cluster" THEN {"p3"} ELSE {}]

=============================================================================
