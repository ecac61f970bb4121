----------------------------- MODULE MCEvidence -----------------------------
(* Instances of Evidence for TLC. *)
EXTENDS Evidence, TLC

CONSTANTS a1, a2

(* Notices of two builds: of one in two words, with and without the id of a
   delivery, or with one that two have; running, passed, of another kind, of a
   second attempt, and without the id of a build. *)
BuildNotice(build, job, word, kind, header) ==
    [build |-> build, job |-> job, word |-> word, kind |-> kind, header |-> header, definition |-> 9,
     attempt |-> IF word = "aborted" THEN 2 ELSE 1]
MCNotices == {
    BuildNotice(1, 0, "failed", "job", 11), BuildNotice(1, 4, "aborted", "job", 0),
    BuildNotice(2, 5, "broken", "job", 12), BuildNotice(2, 5, "passed", "job", 13), BuildNotice(2, 5, "running", "job", 12),
    BuildNotice(1, 0, "timedout", "push", 14), BuildNotice(0, 0, "failed", "job", 15), BuildNotice(2, 0, NoWord, "job", 0)}

(* Three deliveries about one account, in their order and out of it. *)
PlanNotice(action, effective, plan, installation) ==
    [action |-> action, effective |-> effective, plan |-> plan, installation |-> installation]
Story(a, ea, b, eb, c, ec) ==
    "d1" :> PlanNotice(a, ea, "p1", TRUE) @@ "d2" :> PlanNotice(b, eb, "p2", FALSE) @@ "d3" :> PlanNotice(c, ec, "p3", FALSE)
MCStories == {
    Story("purchased", 1, "changed", 2, "cancelled", 3),
    Story("purchased", 1, "pending_change", 3, "cancelled", 2),
    Story("purchased", 2, "pending_change_cancelled", 3, "unknown", 1),
    Story("purchased", 3, "cancelled", 1, "changed", 3)}

(* Reports of one test: of a run and of none, at two commits, in each format. *)
Report(format, run, commit, cases) == [format |-> format, run |-> run, commit |-> commit, cases |-> cases]
MCReports == {
    Report("junit", 1, 7, {[marks |-> {"failure"}], [marks |-> {}]}),
    Report("junit", 0, 7, {[marks |-> {"error"}]}),
    Report("junit", 4, 9, {}),
    Report("playwright", 2, 7, {[word |-> "flaky"]}),
    Report("jest", 2, 8, {[word |-> "passed"], [word |-> "todo"]}),
    Report("pytest", 1, 7, {[word |-> "failed"]}),
    Report("cypress", 3, 8, {[word |-> "passed", attempts |-> <<"failed", "passed", "">>]})}

(* A tree in three languages, with a chain of imports longer than is followed. *)
File(path, ext) == [path |-> path, ext |-> ext]
Card == File(<<"app", "card">>, ".go")
CardTest == File(<<"app", "card_test">>, ".go")
Ledger == File(<<"ledger", "write">>, ".go")
View == File(<<"web", "view">>, ".ts")
ViewSpec == File(<<"web", "view_spec">>, ".ts")
Util == File(<<"web", "util", "index">>, ".ts")
Job == File(<<"tools", "job">>, ".py")
JobTest == File(<<"tools", "test_job">>, ".py")
Lib == File(<<"tools", "lib">>, ".py")
Lone == File(<<"lone">>, ".go")
ChainTest == File(<<"s", "test_c">>, ".ts")
C(name) == File(<<"c", name>>, ".ts")
MCTestNames == {"card_test", "view_spec", "test_job", "test_c"}

E(file, imports) == [file |-> file, imports |-> imports]
MCTrees == {{
    E(Card, {<<"ledger">>}), E(CardTest, {}), E(Ledger, {}), E(Lone, {}), E(File(<<"go">>, ".sum"), {}),
    E(View, {<<"web", "util">>}), E(ViewSpec, {<<"web", "view">>}), E(Util, {}),
    E(Job, {<<"tools", "lib">>}), E(JobTest, {}), E(Lib, {}),
    E(ChainTest, {<<"c", "c1">>}), E(C("c1"), {<<"c", "c2">>}), E(C("c2"), {<<"c", "c3">>}), E(C("c3"), {<<"c", "c4">>}),
    E(C("c4"), {<<"c", "c5">>}), E(C("c5"), {<<"c", "c6">>}), E(C("c6"), {<<"c", "c7">>}), E(C("c7"), {<<"c", "c8">>}),
    E(C("c8"), {<<"c", "c9">>}), E(C("c9"), {})}}

T(key, names, file, framework, failures, flaky, quarantined) ==
    [key |-> key, names |-> names, words |-> {key}, file |-> file, framework |-> framework,
     failures |-> failures, flaky |-> flaky, quarantined |-> quarantined]
MCTests == {
    T("card", {"card", "pay/card"}, CardTest, "junit", 2, FALSE, FALSE),
    T("view", {"view"}, ViewSpec, "jest", 0, TRUE, TRUE),
    T("chain", {"chain"}, ChainTest, "jest", 0, FALSE, TRUE)}
MCCoverages == {{<<"pay/card", Ledger>>, <<"view", View>>}, {<<"view", Util>>, <<"chain", C("c1")>>, <<"card", Card>>}}

Q(changed, framework, limit, minimum, unsafe) ==
    [changed |-> changed, framework |-> framework, limit |-> limit, minimum |-> minimum, unsafe |-> unsafe, flaky |-> TRUE]
MCRequests == {
    Q({Ledger}, "any", 5, 10, FALSE), Q({Ledger, Util}, "any", 1, 46, FALSE), Q({Lone}, "any", 5, 10, TRUE),
    Q({C("c8")}, "jest", 5, 46, FALSE), Q({C("c9")}, "jest", 5, 10, FALSE), Q({}, "any", 5, 10, TRUE),
    Q({File(<<"write">>, ".go")}, "any", 1, 10, FALSE), Q({File(<<"go">>, ".mod"), Card}, "any", 5, 10, FALSE)}

(* Failures an analyst would call external, the code's, unknown, a tool's. *)
Rule(group, category, weight) == [group |-> group, category |-> category, weight |-> weight]
Change(known_, dependency) == [known |-> known_, workflow |-> FALSE, dependency |-> dependency]
FailedJob(fingerprint, rules, change, before) ==
    [fingerprint |-> fingerprint, rules |-> rules, change |-> change, passedBefore |-> before]
Reset == FailedJob("reset", {Rule("net", "network", 45), Rule("net", "network", 20)}, Change(TRUE, FALSE), TRUE)
Compile == FailedJob("compile", {Rule("compiler", "code", -40), Rule("cache", "cache", 30)}, Change(TRUE, TRUE), FALSE)
Odd == FailedJob("odd", {}, Change(FALSE, FALSE), FALSE)
Crash == FailedJob("crash", {Rule("ice", "toolchain", 35)}, Change(FALSE, FALSE), FALSE)
MCRuns == {{Reset, Compile}, {Odd}, {Crash}}
MCContexts == {
    [repositories |-> 0, organizations |-> 0, recent |-> 0, incident |-> FALSE, drift |-> TRUE],
    [repositories |-> 10, organizations |-> 2, recent |-> 25, incident |-> TRUE, drift |-> FALSE]}
Word(verdict, category, cause) == [verdict |-> verdict, category |-> category, cause |-> cause]
MCWords == {Word("correct", "none", "none"), Word("incorrect", "code", "code"), Word("incorrect", "none", "none")}

(* The handlers of every part go by the same names. *)
Symmetry == Permutations(Readers)
=============================================================================
