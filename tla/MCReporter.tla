----------------------------- MODULE MCReporter -----------------------------
(* Instances of Reporter for TLC, and the loop of getFlakyIssues that       *)
(* removes closed issues, as it is written, against Remaining and           *)
(* OutOfRange.                                                              *)
EXTENDS Reporter, TLC

CONSTANT MaxListed  \* bound: issues in a list

\* loop[i] is what i iterations make of issues 1 .. n, the newest first: v is the
\* array that both slices share, and len the length of the one in issuesMap.
Loop(n, C) ==
    LET loop[i \in 0 .. n] ==
            IF i = 0
            THEN [v |-> [j \in 1 .. n |-> n + 1 - j], len |-> n, panic |-> FALSE]
            ELSE LET l == loop[i - 1] IN
                 IF l.panic \/ l.v[i] \notin C THEN l
                 ELSE IF i > l.len THEN [l EXCEPT !.panic = TRUE]
                 ELSE [l EXCEPT !.len = @ - 1,
                                !.v = [j \in 1 .. n |->
                                         IF i <= j /\ j < l.len THEN @[j + 1] ELSE @[j]]]
    IN  loop[n]

ASSUME LoopAsModelled ==
    \A n \in 2 .. MaxListed : \A C \in (SUBSET (1 .. n)) \ {{}, 1 .. n} :
        LET X    == {[id |-> i, state |-> IF i \in C THEN "closed" ELSE "open"] :
                        i \in 1 .. n}
            last == Loop(n, C)
        IN  /\ last.panic <=> OutOfRange(X)
            /\ ~last.panic =>
                  {last.v[j] : j \in 1 .. last.len} = {x.id : x \in Remaining(X)}

=============================================================================
