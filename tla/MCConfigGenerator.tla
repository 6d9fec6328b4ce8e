------------------------- MODULE MCConfigGenerator -------------------------
(* Instances of ConfigGenerator for TLC.                                    *)
EXTENDS ConfigGenerator

e(key)       == [key |-> key, on |-> TRUE, text |-> <<key>>, num |-> 1]
text(key, t) == [e(key) EXCEPT !.text = t]
num(key, n)  == [e(key) EXCEPT !.num = n]
off(x)       == [x EXCEPT !.on = FALSE]

dot     == text("dot-release", <<"dot", "release">>)
auto    == text("auto-release", <<"auto", "release">>)
customJob(n) == text("custom-job", <<"istio", n>>)
custom  == text("custom-test", <<"istio">>)
rel(v)  == text("release", <<v>>)
build   == text("build-tests", <<"build", "tests">>)

serving == [org |-> <<"knative">>, name |-> <<"serving">>]
client  == [org |-> <<"knative">>, name |-> <<"client">>]
kafka   == [org |-> <<"knative", "sandbox">>, name |-> <<"kafka", "operator">>]

MCMajorMinor == [v \in {"0.8", "0.9", "0.10", "0.11", "0.12", "1.0"} |->
    CASE v = "0.8" -> <<0, 8>> [] v = "0.9" -> <<0, 9>> [] v = "0.10" -> <<0, 10>>
      [] v = "0.11" -> <<0, 11>> [] v = "0.12" -> <<0, 12>> [] OTHER -> <<1, 0>>]

settings == <<e("repo-settings"), e("performance")>>
coverage == <<e("go-coverage"), num("go-coverage-threshold", 80)>>

PresubmitJobSets ==
    {<<settings, coverage>>, <<settings, <<build, e("needs-monitor")>>, coverage>>,
     <<<<build, e("needs-dind")>>, <<off(e("go-coverage"))>>>>, <<coverage>>,
     <<<<custom, e("performance")>>, <<off(build)>>>>, <<<<custom, e("unknown")>>>>}

run == text("command", <<"run">>)
PeriodicJobs1 ==
    {<<e("continuous")>>, <<e("nightly"), e("needs-dind")>>, <<dot>>, <<auto>>,
     <<customJob("slow"), run, num("timeout", 240)>>, <<customJob("fast"), run, num("timeout", 58)>>,
     <<customJob("long"), run, num("timeout", 175)>>,
     <<customJob("none")>>, <<customJob("cron"), run, num("cron", 5), off(e("optional"))>>, <<off(e("continuous"))>>,
     <<e("branch-ci"), rel("0.9")>>, <<dot, rel("0.9")>>, <<rel("0.9"), e("continuous")>>}

Pairs(S) == {<<x, y>> : x \in S, y \in S} \ {<<x, x>> : x \in S}

\* Any two periodic jobs of serving, and a second repository in another organization.
Jobs1 == {[presubmits |-> <<[repo |-> serving, jobs |-> p], [repo |-> kafka, jobs |-> <<coverage>>]>>,
           periodics  |-> <<[repo |-> serving, jobs |-> q],
                            [repo |-> kafka, jobs |-> <<<<dot, rel("0.10")>>, <<auto>>>>]>>] :
             p \in PresubmitJobSets, q \in Pairs(PeriodicJobs1)}

\* Up to five release branches, of one kind or of both.
Old == {<<>>, <<"0.9">>, <<"0.8", "0.9", "0.10">>, <<"0.11", "0.8", "0.10", "0.9">>,
        <<"0.12", "0.8", "0.9", "0.10", "0.11">>}
Of(first, vs) == [i \in DOMAIN vs |-> <<first, rel(vs[i])>>]
Releases == {[presubmits |-> <<>>,
              periodics  |-> <<[repo |-> client, jobs |-> Of(e("branch-ci"), a) \o Of(dot, b)
                                                          \o <<<<e("continuous")>>>>]>>] :
                a \in Old, b \in Old}

\* Coverage without periodic jobs, and no periodic job in knative.
Apart == {[presubmits |-> <<[repo |-> client, jobs |-> <<coverage>>]>>,
           periodics  |-> <<[repo |-> r, jobs |-> <<<<auto>>>>]>>] : r \in {serving, kafka}}

MCConfigs == Jobs1 \cup Releases \cup Apart

MCBranches == [{serving, client, kafka} -> {{}}] \cup
    {[r \in {serving, client, kafka} |-> vs] : vs \in {{"0.9", "0.10"}, {"0.12"}, {"0.8", "1.0"}}}

MCCustomJobs == <<<<"ci", "knative", "cleanup">>, <<"post", "knative", "image", "push">>>>
MCMain == {kafka}
NoName == <<>>

\* The theorems have these hypotheses.
ASSUME MCFiles == TimeoutsNatural /\ ReposDistinct /\ VersionsKnown /\ BranchesListed
                  /\ BranchesNumbered /\ FilesSensible

=============================================================================
