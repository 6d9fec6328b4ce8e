-------------------------- MODULE MCFlakyPipeline --------------------------
(* Instances of FlakyPipeline for TLC.                                      *)
EXTENDS FlakyPipeline, TLC

CONSTANTS serving, eventing, pull, TestA, TestASub, TestB, api, net

MCJobConfigs == <<[name |-> serving, repo |-> serving, channels |-> {api, net}],
                  [name |-> eventing, repo |-> eventing, channels |-> {net}]>>

MCTests == {TestA, TestASub, TestB}
MCParentOf == TestASub :> TestA

suite(results) == [kind |-> "suite", results |-> results]
broken == [kind |-> "broken", results |-> NoResults]
empty  == [kind |-> "empty", results |-> NoResults]

A(status) == TestA :> status @@ TestASub :> status
B(status) == TestB :> status

passing == <<suite(A("passed") @@ B("failed"))>>
failing == <<empty, suite(A("failed")), suite(B("failed"))>>
other   == <<suite(B("passed"))>>
unread  == <<suite(B("failed")), broken>>
sub     == <<suite(TestASub :> "failed")>>
both    == <<suite(TestASub :> "failed" @@ B("failed"))>>

Of(s, e, p) == [j \in JobNames |-> CASE j = serving -> s [] j = eventing -> e [] j = pull -> p]

MCContents == Of({failing}, {unread}, {sub})

MCEarly == {Of(<<passing, failing, passing>>, <<other>>, <<both>>), Of(<<failing, passing, passing>>, <<>>, <<sub>>),
            Of(<<failing, passing>>, <<unread>>, <<sub>>)}
MCMax   == Of(3, 1, 1)

\* A subtest that is flaky, and so is the test it belongs to; no new builds.
MCSubtests == {Of(<<passing, failing>>, <<other>>, <<<<suite(A("failed"))>>>>)}
MCNone     == Of(2, 1, 1)

=============================================================================
