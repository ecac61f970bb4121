----------------------------- MODULE Selection ------------------------------
(***************************************************************************)
(* Choosing the tests a change needs: the import graph of a repository is  *)
(* indexed, coverage of its tests is merged into it by handlers that read  *)
(* it and write it back whole, and a selection is made from a list of the  *)
(* known tests and the graph, which are read one after the other.  Where   *)
(* the graph cannot bound the impact of a change every listed test is      *)
(* selected.                                                               *)
(* A file is its path, a sequence of names, and its extension.             *)
(***************************************************************************)
EXTENDS Faults, Integers, SequencesExt

CONSTANTS
    Tests,         \* the tests the repository has: key, names, file and history
    Trees,         \* what may be indexed: files with what they import
    TestNames,     \* the names of files that are test files
    Coverages,     \* what may be merged: links of an identity and a file
    Requests,      \* what may be asked for
    ListLimit,     \* how many of the known tests are listed
    Mergers,       \* the handlers that merge coverage
    MaxMerges,     \* how often they do, a bound
    MaxIndexed     \* how often a tree is indexed, a bound

(* The failures of a test are a count; a request without a limit between 1 and
   5000 has 500, and one without a score between 1 and 100 has 10. *)
ASSUME SelectionAssumption ==
    /\ ListLimit \in Nat \ {0}
    /\ \A test \in Tests : test.failures \in Nat
    /\ \A request \in Requests : request.limit \in Nat \ {0} /\ request.minimum \in Int

VARIABLES
    known,         \* the tests recorded so far
    graph,         \* the stored graph, or none
    merger,        \* what each handler has loaded, and whether nothing was saved since
    covered,       \* coverage acknowledged and not replaced since
    selection,     \* the selection being made, or made
    used           \* how often trees were indexed and coverage merged

selectionVars == <<known, graph, merger, covered, selection, used>>

(* Dependencies are pairs of files, coverage pairs of an identity and a file. *)
NoGraph == [stored |-> FALSE, deps |-> {}, tests |-> {}, coverage |-> {}]
NoMerge == [at |-> "idle", loaded |-> NoGraph, input |-> {}, alone |-> TRUE]
NoSelection == [at |-> "idle", known |-> {}, listed |-> {}, request |-> <<>>, answer |-> <<>>, due |-> {}]

SelectionInit ==
    /\ known = {} /\ graph = NoGraph /\ covered = {}
    /\ merger = [m \in Mergers |-> NoMerge]
    /\ selection = NoSelection
    /\ used = [indexed |-> 0, merged |-> 0]

-----------------------------------------------------------------------------
(* Files and the graph of a tree *)

Dir(file) == Front(file.path)
Base(file) == Last(file.path)
SameStem(a, b) == a.path = b.path
FileMatches(a, b) ==
    \/ SameStem(a, b)
    \/ a.ext = b.ext /\ (IsSuffix(a.path, b.path) \/ IsSuffix(b.path, a.path))

SourceLanguage(file) ==
    CASE file.ext = ".go" -> "go"
      [] file.ext \in {".js", ".jsx", ".mjs", ".cjs"} -> "javascript"
      [] file.ext \in {".ts", ".tsx", ".mts", ".cts"} -> "typescript"
      [] file.ext = ".py" -> "python"
      [] OTHER -> "none"

(* By its name, or by a directory below the first. *)
IsTestFile(file) ==
    \/ Base(file) \in TestNames
    \/ \E i \in 2..(Len(file.path) - 1) : file.path[i] \in {"tests", "test", "__tests__"}

(* A Go import names a directory of the module, *)
GoDependencies(files, imports) == {f \in files : Dir(f) \in imports /\ Base(f) \notin TestNames}

(* a script the path of a file without its extension, or of a directory with
   an index: the first that exists; *)
ScriptCandidates(path) ==
    LET exts == <<".ts", ".tsx", ".js", ".jsx", ".mjs", ".cjs">> IN
    [i \in 1..6 |-> [path |-> path, ext |-> exts[i]]]
      \o [i \in 1..4 |-> [path |-> Append(path, "index"), ext |-> exts[i]]]
PythonCandidates(path) ==
    <<[path |-> path, ext |-> ".py"], [path |-> Append(path, "__init__"), ext |-> ".py"]>>

FirstThatExists(files, candidates) ==
    LET there == SelectSeq(candidates, LAMBDA c : c \in files) IN
    IF there = <<>> THEN {} ELSE {Head(there)}

Imported(files, file, imports) ==
    CASE SourceLanguage(file) = "go" -> GoDependencies(files, imports)
      [] SourceLanguage(file) \in {"javascript", "typescript"} ->
           UNION {FirstThatExists(files, ScriptCandidates(path)) : path \in imports}
      [] SourceLanguage(file) = "python" ->
           UNION {FirstThatExists(files, PythonCandidates(path)) : path \in imports}

(* A test file depends on the other files of its directory as well. *)
Siblings(files, file) ==
    IF IsTestFile(file) THEN {f \in files : Dir(f) = Dir(file) /\ f # file /\ ~IsTestFile(f)} ELSE {}

BuildGraph(tree) ==
    LET sources == {entry \in tree : SourceLanguage(entry.file) # "none"}
        files   == {entry.file : entry \in sources}
        deps(f) == Siblings(files, f)
                     \cup UNION {Imported(files, f, entry.imports) : entry \in {e \in sources : e.file = f}} IN
    [stored |-> TRUE, deps |-> UNION {{f} \X deps(f) : f \in files},
     tests |-> {f \in files : IsTestFile(f)}, coverage |-> {}]

(* The code looks here for the languages of the indexed files where it means
   their names: a file without imports that nothing imports is not found. *)
GraphContainsFile(file) ==
    \/ \E dep \in graph.deps : FileMatches(dep[1], file) \/ FileMatches(dep[2], file)
    \/ \E test \in graph.tests : FileMatches(test, file)
    \/ \E link \in graph.coverage : FileMatches(link[2], file)

-----------------------------------------------------------------------------
(* Writing the graph *)

(* Every save is seen by the handlers that have loaded. *)
Overlap(except) == [m \in Mergers |-> IF m \in except \/ merger[m].at = "idle" THEN merger[m]
                                      ELSE [merger[m] EXCEPT !.alone = FALSE]]

(* Indexing replaces the graph, with its coverage. *)
SaveGraph(tree) ==
    /\ used.indexed < MaxIndexed
    /\ used' = [used EXCEPT !.indexed = @ + 1]
    /\ \/ /\ graph' = BuildGraph(tree) /\ covered' = {} /\ merger' = Overlap({})
          /\ Fine
       \/ Fault /\ UNCHANGED <<graph, covered, merger>>
    /\ UNCHANGED <<known, selection>>

LoadForMerge(m, input) ==
    /\ merger[m].at = "idle" /\ used.merged < MaxMerges
    /\ used' = [used EXCEPT !.merged = @ + 1]
    /\ merger' = [merger EXCEPT ![m] = [at |-> "merge", loaded |-> graph, input |-> input, alone |-> TRUE]]
    /\ Fine /\ UNCHANGED <<known, graph, covered, selection>>

(* Mutant: what is merged replaces the files an identity had. *)
Merged_Replaced(coverage, input) ==
    {link \in coverage : \A new \in input : new[1] # link[1]} \cup input

(* What is merged is added to the files an identity had. *)
Merged(coverage, input) == coverage \cup input

(* What the handler loaded is written back with its coverage; an answer may
   be lost.  Of what others saved meanwhile only what it loaded remains. *)
MergeCoverage(m) ==
    LET new == [merger[m].loaded EXCEPT !.stored = TRUE, !.coverage = Merged(@, merger[m].input)]
        kept == IF merger[m].alone THEN covered ELSE covered \cap new.coverage IN
    /\ merger[m].at = "merge"
    /\ \/ /\ graph' = new /\ merger' = [Overlap({m}) EXCEPT ![m] = NoMerge]
          /\ \/ Fine /\ covered' = kept \cup merger[m].input
             \/ Fault /\ covered' = kept
       \/ Fault /\ merger' = [merger EXCEPT ![m] = NoMerge] /\ UNCHANGED <<graph, covered>>
    /\ UNCHANGED <<known, selection, used>>

-----------------------------------------------------------------------------
(* Selecting *)

Covers(test) == {link[2] : link \in {l \in graph.coverage : l[1] \in test.names}}

(* Databases, settings, manifests and builds reach everything. *)
HighRisk(file) ==
    \/ "migrations" \in Range(Dir(file)) \/ file.ext = ".sql" \/ Base(file) = "schema"
    \/ "config" \in Range(Dir(file)) \/ file.ext \in {".env", ".yaml", ".yml", ".toml", ".ini"}
    \/ Base(file) \in {"go.mod", "package.json", "Dockerfile", "Makefile"}

FullSuiteRequired(changed, candidates) ==
    \/ changed = {} \/ ~graph.stored \/ graph.coverage = {}
    \/ \E file \in changed : HighRisk(file) \/ ~GraphContainsFile(file)
    \/ \E test \in candidates : Covers(test) = {}

MaxDepth == 8
Levels(start) ==
    LET imports(files) == {dep[2] : dep \in {d \in graph.deps : d[1] \in files}} IN
    FoldLeft(LAMBDA levels, n : Append(levels, imports(Last(levels))), <<{start}>>, [n \in 1..MaxDepth |-> n])

(* How many imports away the nearest changed file is, 0 when there is none. *)
ShortestImpactPath(start, changed) ==
    LET levels == Levels(start)
        hits == {n \in 1..MaxDepth : \E f \in levels[n + 1] \ {start} : \E c \in changed : FileMatches(f, c)} IN
    IF hits = {} THEN 0 ELSE CHOOSE n \in hits : \A m \in hits : n <= m

Clamped(score) == IF score > 100 THEN 100 ELSE IF score < 0 THEN 0 ELSE score
AdjustTestSignals(score, test, request) ==
    Clamped(score + (IF test.failures > 8 THEN 8 ELSE test.failures)
                  + (IF request.flaky /\ test.flaky THEN 4 ELSE 0)
                  - (IF test.quarantined THEN 12 ELSE 0))

HeuristicScore(test, request) ==
    LET near == IF \E c \in request.changed : FileMatches(test.file, c) THEN 55
                ELSE IF \E c \in request.changed : Dir(test.file) # <<>> /\ IsPrefix(Dir(test.file), Dir(c)) THEN 28 ELSE 0
        named == IF \E c \in request.changed : Base(c) \in test.words THEN 18 ELSE 0
        told  == near + named + (IF test.failures > 0 THEN 10 ELSE 0) + (IF request.flaky /\ test.flaky THEN 6 ELSE 0) IN
    IF told = 0 THEN 0 ELSE Clamped(told - (IF test.quarantined THEN 15 ELSE 0))

ImpactScore(test, request) ==
    LET direct == \E source \in Covers(test), c \in request.changed : FileMatches(source, c)
        depth  == ShortestImpactPath(test.file, request.changed) IN
    CASE request.changed = {} -> Clamped(20 + 3 * test.failures)
      [] request.changed # {} /\ graph.stored /\ direct -> AdjustTestSignals(100, test, request)
      [] request.changed # {} /\ graph.stored /\ ~direct /\ depth > 0 ->
           AdjustTestSignals(IF 98 - 8 * (depth - 1) > 58 THEN 98 - 8 * (depth - 1) ELSE 58, test, request)
      [] OTHER -> HeuristicScore(test, request)

(* The best of a set of tests, as many as a limit allows: ties as they come. *)
Best(tests, request) ==
    IF Cardinality(tests) <= request.limit THEN {tests}
    ELSE {best \in kSubset(request.limit, tests) :
            \A a \in best, b \in tests \ best : ImpactScore(a, request) >= ImpactScore(b, request)}

-----------------------------------------------------------------------------
(* What a change touches, told from the change: the tests that cover a changed
   file, and those that a chain of at most eight imports connects to one. *)
Importers(files) == {dep[1] : dep \in {d \in graph.deps : d[2] \in files}}
Affected(tests, changed) ==
    LET touched == {f \in {dep[2] : dep \in graph.deps} : \E c \in changed : FileMatches(f, c)}
        Reached(start) == FoldLeft(LAMBDA files, n : files \cup Importers(files), touched \ {start}, [n \in 1..MaxDepth |-> n]) IN
    {test \in tests :
        \/ \E f \in Covers(test), c \in changed : FileMatches(f, c)
        \/ test.file \in Reached(test.file)}

RecordTest(test) ==
    /\ test \notin known /\ known' = known \cup {test}
    /\ Fine /\ UNCHANGED <<graph, merger, covered, selection, used>>

(* The list is cut; what was known when it was made is remembered. *)
ListForSelection(request) ==
    /\ selection.at = "idle"
    /\ \E listed \in (IF Cardinality(known) <= ListLimit THEN {known} ELSE kSubset(ListLimit, known)) :
          selection' = [NoSelection EXCEPT !.at = "listed", !.known = known, !.listed = listed, !.request = request]
    /\ Fine /\ UNCHANGED <<known, graph, merger, covered, used>>

OfFramework(tests, request) == {t \in tests : request.framework \in {"any", t.framework}}

Select ==
    LET request    == selection.request
        candidates == OfFramework(selection.listed, request)
        scored     == {t \in candidates : ImpactScore(t, request) >= request.minimum}
        full       == FullSuiteRequired(request.changed, candidates) IN
    /\ selection.at = "listed"
    /\ \E best \in (IF full /\ ~request.unsafe THEN {candidates} ELSE Best(scored, request)) :
          selection' = [selection EXCEPT
             !.at = "done",
             !.answer = [selected |-> best, candidates |-> candidates, safe |-> ~full,
                         skipped |-> IF full /\ ~request.unsafe THEN 0 ELSE Cardinality(scored) - Cardinality(best)],
             !.due = Affected(OfFramework(selection.known, request), request.changed)]
    /\ Fine /\ UNCHANGED <<known, graph, merger, covered, used>>

Answered ==
    /\ selection.at = "done" /\ selection' = NoSelection
    /\ Fine /\ UNCHANGED <<known, graph, merger, covered, used>>

SelectionStep ==
    \/ (\E test \in Tests : RecordTest(test))
    \/ (\E tree \in Trees : SaveGraph(tree))
    \/ (\E m \in Mergers : MergeCoverage(m) \/ \E input \in Coverages : LoadForMerge(m, input))
    \/ (\E request \in Requests : ListForSelection(request))
    \/ Select \/ Answered

-----------------------------------------------------------------------------

(* Coverage that was acknowledged stays until the graph is indexed anew, unless
   another save came between a handler's load and its save. *)
CoverageKept == covered \subseteq graph.coverage

(* The lowest score that a dependency of a quarantined test can have. *)
Floor == 58 - 12

(* A selection that is called safe and leaves nothing out for its limit has
   every listed test that the change touches, unless a higher score was asked
   for; one that is not safe has every listed test, unless the caller overrode
   that.  The list is all known tests as long as they are no more than its
   limit: of a larger suite what is not listed is left out, and not counted. *)
SelectionCovers ==
    selection.at = "done" =>
      LET answer == selection.answer
          fitting == OfFramework(selection.known, selection.request) IN
      /\ (answer.safe /\ answer.skipped = 0 /\ selection.request.minimum <= Floor) =>
            selection.due \cap answer.candidates \subseteq answer.selected
      /\ (~answer.safe /\ ~selection.request.unsafe) => answer.selected = answer.candidates
      /\ answer.selected \subseteq fitting
      /\ Cardinality(selection.known) <= ListLimit => answer.candidates = fitting

SelectionTrue == CoverageKept /\ SelectionCovers
=============================================================================
