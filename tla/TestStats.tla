----------------------------- MODULE TestStats ------------------------------
(***************************************************************************)
(* The history of one test: reports in five formats are read into          *)
(* observations, which are counted once each in whatever order they come;  *)
(* from the counts the test is classified, and a flaky one may be          *)
(* quarantined by the handler that recorded it, while operators mark it    *)
(* critical, quarantine it and release it.  Retention removes observations *)
(* but not what was counted of them.                                       *)
(***************************************************************************)
EXTENDS Faults, Integers, SequencesExt

CONSTANTS
    Readers,       \* the handlers of reports
    Reports,       \* what may be reported
    MaxReports,    \* how many reports are posted, a bound
    MaxActs,       \* how often operators act, a bound
    MaxNow,        \* the clock, a bound
    WarmUp,        \* executions before a test is classified
    ConfirmAt,     \* executions before it is called flaky
    MinRuns,       \* runs before it is quarantined automatically
    MinScore,      \* the score from which it is
    Quarantine,    \* for how long
    Retention,     \* how old observations get, where they are removed
    PageLimit,     \* how many observations a reader is handed
    GroupLimit     \* how many kinds of failure it is shown

ASSUME TestStatsAssumption ==
    /\ WarmUp \in Nat /\ ConfirmAt \in Nat /\ 0 < WarmUp /\ WarmUp < ConfirmAt
    /\ Quarantine \in Nat \ {0} /\ MaxNow \in Nat
    /\ Retention \in Nat \ {0} /\ PageLimit \in Nat \ {0} /\ GroupLimit \in Nat \ {0}

VARIABLES
    now,           \* the clock
    history,       \* the observations recorded, in that order
    kept,          \* the places in it of those that are still stored
    stats,         \* what is counted of them
    ward,          \* the quarantine of the test, or none
    reader,        \* what each handler does, with which observations and which answer
    acts,          \* how often reports were posted and operators acted
    disregarded    \* a handler went against an operator whose word it could have known

statsVars == <<now, history, kept, stats, ward, reader, acts, disregarded>>

Statuses == {"passed", "failed", "skipped", "error"}
NoStatus == "none"
NoStats ==
    [total |-> 0, passes |-> 0, skipped |-> 0, failures |-> 0, transitions |-> 0, recoveries |-> 0,
     last |-> NoStatus, commit |-> 0, run |-> 0, seen |-> 0,
     critical |-> FALSE, quarantined |-> FALSE, class |-> NoStatus]
NoWard == [by |-> "none", until |-> 0]
NoReader == [at |-> "idle", batch |-> {}, eligible |-> FALSE, since |-> {}]

StatsInit ==
    /\ now = 1
    /\ history = <<>> /\ kept = {}
    /\ stats = NoStats
    /\ ward = NoWard
    /\ reader = [r \in Readers |-> NoReader]
    /\ acts = [posts |-> 0, operators |-> 0]
    /\ disregarded = FALSE

-----------------------------------------------------------------------------
(* Reading a report *)

NormalizeTestStatus(word) ==
    CASE word \in {"passed", "expected"} -> "passed"
      [] word \in {"failed", "unexpected", "timedout"} -> "failed"
      [] word \in {"error", "broken"} -> "error"
      [] word \in {"skipped", "pending", "flaky"} -> "skipped"
      [] OTHER -> word

(* JUnit says it with elements, of which the later ones count. *)
JUnitStatus(marks) ==
    IF "skipped" \in marks THEN "skipped"
    ELSE IF "error" \in marks THEN "error"
    ELSE IF "failure" \in marks THEN "failed" ELSE "passed"

(* Playwright, Jest and pytest with a word, *)
Worded(case) == NormalizeTestStatus(case.word)

(* Cypress with the state of the last attempt that has one. *)
Attempted(case) ==
    LET said == SelectSeq(case.attempts, LAMBDA state : state # "") IN
    NormalizeTestStatus(IF said = <<>> THEN case.word ELSE said[Len(said)])

StatusOf(format, case) ==
    CASE format = "junit" -> JUnitStatus(case.marks)
      [] format = "cypress" -> Attempted(case)
      [] OTHER -> Worded(case)

(* What is kept of a report: a status that is none of the four is dropped. *)
ParseReport(report) ==
    {[run |-> report.run, commit |-> report.commit, status |-> StatusOf(report.format, case), at |-> now] :
        case \in report.cases}

Executed(o) == o.status # "skipped"
Failing(status) == status \in {"failed", "error"}

(* An observation of a run is known by the run, one of none by its time. *)
ObservationID(o) == IF o.run # 0 THEN [o EXCEPT !.at = 0] ELSE o

-----------------------------------------------------------------------------
(* Counting an observation *)

Executions(s) == s.passes + s.failures
SameTestExecutionContext(s, o) ==
    IF s.commit # 0 /\ o.commit # 0 THEN s.commit = o.commit ELSE s.run # 0 /\ s.run = o.run

Turned(last, status) ==
    \/ last = "passed" /\ Failing(status)
    \/ Failing(last) /\ status = "passed"

One(b) == IF b THEN 1 ELSE 0
Distance(a, b) == IF a > b THEN a - b ELSE b - a

(* The score, which the code computes as a fraction of 100: three fifths how
   often the result turns, two fifths how balanced passes and failures are. *)
ScoreAtLeast(s, score) ==
    LET n == Executions(s)
        m == IF n > 1 THEN n - 1 ELSE 1 IN
    60 * s.transitions * n + 40 * (n - Distance(n, 2 * s.failures)) * m >= score * n * m

Classification(s) ==
    CASE Executions(s) = 0 -> "not_executed"
      [] Executions(s) > 0 /\ Executions(s) < WarmUp -> "warming_up"
      [] OTHER ->
           CASE s.failures = Executions(s) -> "consistently_failing"
             [] s.passes = Executions(s) -> "stable"
             [] OTHER -> IF Executions(s) >= ConfirmAt /\ ScoreAtLeast(s, 35) THEN "flaky"
                         ELSE IF ScoreAtLeast(s, 25) THEN "suspected_flaky" ELSE "mixed"

Active == ward # NoWard /\ ward.until > now

Count(s, o) ==
    LET inOrder == s.seen = 0 \/ o.at >= s.seen
        latest  == Executed(o) /\ inOrder
        counted ==
          [s EXCEPT
            !.total = @ + 1,
            !.passes = @ + One(o.status = "passed"),
            !.skipped = @ + One(o.status = "skipped"),
            !.failures = @ + One(Failing(o.status)),
            !.transitions = @ + One(latest /\ Turned(s.last, o.status)),
            !.recoveries = @ + One(latest /\ Failing(s.last) /\ o.status = "passed" /\ SameTestExecutionContext(s, o)),
            !.last = IF latest THEN o.status ELSE @,
            !.commit = IF latest THEN o.commit ELSE @,
            !.run = IF latest THEN o.run ELSE @,
            !.seen = IF o.at > @ THEN o.at ELSE @,
            !.quarantined = Active] IN
    [counted EXCEPT !.class = Classification(counted)]

(* An observation counts if none is stored that is known by the same. *)
NewOnes(batch) == {o \in batch : \A i \in kept : ObservationID(history[i]) # ObservationID(o)}

-----------------------------------------------------------------------------
(* The handler of a report *)

(* Mutant: a critical test is quarantined like any other. *)
Eligible_Any(s) ==
    s.class = "flaky" /\ s.total >= MinRuns /\ ScoreAtLeast(s, MinScore) /\ ~s.quarantined

Eligible(s) ==
    /\ ~s.critical /\ ~s.quarantined
    /\ s.class = "flaky" /\ s.total >= MinRuns /\ ScoreAtLeast(s, MinScore)

Ingest(r, report) ==
    LET batch == {o \in ParseReport(report) : o.status \in Statuses} IN
    /\ reader[r].at = "idle" /\ acts.posts < MaxReports
    /\ acts' = [acts EXCEPT !.posts = @ + 1]
    /\ reader' = [reader EXCEPT ![r] = IF report.cases = {} THEN NoReader
                                       ELSE [NoReader EXCEPT !.at = "record", !.batch = batch]]
    /\ Fine /\ UNCHANGED <<now, history, kept, stats, ward, disregarded>>

(* What the handler goes by from then on. *)
Reply(s) == [NoReader EXCEPT !.at = "auto", !.eligible = Eligible(s)]

(* All of a report is recorded in one step, or nothing; the observations of a
   report are as old as each other and are taken in the order of their ids. *)
RecordTestObservations(r) ==
    /\ reader[r].at = "record"
    /\ \/ \E order \in SetToSeqs(NewOnes(reader[r].batch)) :
            /\ stats' = FoldLeft(Count, stats, order)
            /\ history' = history \o order
            /\ kept' = kept \cup (Len(history) + 1)..(Len(history) + Len(order))
            /\ \/ Fine /\ reader' = [reader EXCEPT ![r] = IF order = <<>> THEN NoReader ELSE Reply(stats')]
               \/ Fault /\ reader' = [reader EXCEPT ![r] = NoReader]     \* the answer was lost
       \/ Fault /\ reader' = [reader EXCEPT ![r] = NoReader] /\ UNCHANGED <<stats, history, kept>>
    /\ UNCHANGED <<now, ward, acts, disregarded>>

PutWard(by, until) ==
    /\ ward' = [by |-> by, until |-> until]
    /\ stats' = [stats EXCEPT !.quarantined = TRUE]

(* Decided from what recording answered.  An error is only logged, as is one
   of queueing the notification that a flaky or quarantined test has. *)
AutoQuarantine(r) ==
    /\ reader[r].at = "auto"
    /\ IF reader[r].eligible
         THEN \/ /\ PutWard("system", now + Quarantine) /\ Fine
                 /\ disregarded' = (disregarded \/ \/ stats.critical /\ "critical" \notin reader[r].since
                                                   \/ Active /\ ward.by = "operator" /\ "quarantine" \notin reader[r].since)
              \/ Fault /\ UNCHANGED <<ward, stats, disregarded>>
         ELSE Fine /\ UNCHANGED <<ward, stats, disregarded>>
    /\ reader' = [reader EXCEPT ![r] = NoReader]
    /\ UNCHANGED <<now, history, kept, acts>>

-----------------------------------------------------------------------------
(* Operators *)

Acts(what) ==
    /\ stats.total > 0 /\ acts.operators < MaxActs
    /\ acts' = [acts EXCEPT !.operators = @ + 1]
    /\ reader' = [r \in Readers |-> IF reader[r].at \in {"idle", "record"} THEN reader[r]
                                    ELSE [reader[r] EXCEPT !.since = @ \cup {what}]]
    /\ Fine /\ UNCHANGED <<now, history, kept, disregarded>>

SetTestCritical(critical) ==
    /\ Acts("critical")
    /\ stats' = [stats EXCEPT !.critical = critical]
    /\ UNCHANGED ward

SetTestQuarantine(until) ==
    /\ until > now
    /\ Acts("quarantine")
    /\ PutWard("operator", until)

RemoveTestQuarantine ==
    /\ Acts("release")
    /\ ward' = NoWard
    /\ stats' = [stats EXCEPT !.quarantined = FALSE]

Tick ==
    /\ now < MaxNow /\ now' = now + 1
    /\ Fine /\ UNCHANGED <<history, kept, stats, ward, reader, acts, disregarded>>

-----------------------------------------------------------------------------
(* Retention, which only the database has: it drops whole partitions first,
   and these are gone even if it then fails to delete the rest. *)
Cleanup ==
    LET expired == {i \in kept : history[i].at + Retention <= now} IN
    /\ expired # {}
    /\ \/ Fine /\ kept' = kept \ expired
       \/ Fault /\ \E dropped \in SUBSET expired : kept' = kept \ dropped
    /\ UNCHANGED <<now, history, stats, ward, reader, acts, disregarded>>

StatsStep ==
    \/ \E r \in Readers :
          \/ (\E report \in Reports : Ingest(r, report))
          \/ RecordTestObservations(r) \/ AutoQuarantine(r)
    \/ (\E critical \in BOOLEAN : SetTestCritical(critical))
    \/ (\E until \in 1..(MaxNow + Quarantine) : SetTestQuarantine(until))
    \/ RemoveTestQuarantine
    \/ Tick \/ Cleanup

-----------------------------------------------------------------------------
(* Reading *)

(* The manifest a gate takes its exceptions from. *)
Manifest == Active

Lesser(a, b) == IF a < b THEN a ELSE b

(* The observations a reader is handed: the last ones of those stored, by when
   they were recorded in the file and by their time in the database. *)
ListTestObservations ==
    {page \in kSubset(Lesser(PageLimit, Cardinality(kept)), kept) :
        \/ \A i \in page, j \in kept \ page : j < i
        \/ \A i \in page, j \in kept \ page : history[j].at <= history[i].at}

(* Their failures grouped by what they say, here their status, and counted: the
   groups with the most, ties as they come. *)
FailureKinds(page) == {history[i].status : i \in page} \cap {"failed", "error"}
CountOf(page, kind) == Cardinality({i \in page : history[i].status = kind})
GroupFailureTypes(page) ==
    LET kinds == FailureKinds(page)
        first == {top \in kSubset(Lesser(GroupLimit, Cardinality(kinds)), kinds) :
                     \A a \in top, b \in kinds \ top : CountOf(page, a) >= CountOf(page, b)} IN
    {[kind \in top |-> CountOf(page, kind)] : top \in first}

-----------------------------------------------------------------------------

Having(kinds) == Cardinality({i \in 1..Len(history) : history[i].status \in kinds})
Same(o, p) ==
    o.status = p.status /\ o.commit = p.commit /\ o.run = p.run /\ (o.run = 0 => o.at = p.at)

(* The positions of executions, and those where the result differs from the one
   before. *)
Ran == {i \in 1..Len(history) : Executed(history[i])}
Turns == {i \in Ran : \E j \in Ran : /\ j < i /\ Failing(history[j].status) # Failing(history[i].status)
                                     /\ \A k \in Ran : k <= j \/ i <= k}
InOrder == \A i, j \in 1..Len(history) : i < j => history[i].at <= history[j].at

(* The counts are those of the recorded observations, whatever is reported
   again, overlaps or fails: nothing is lost, and nothing is counted twice until
   retention has removed it, which it does of what is old enough only.  A turn
   needs two executions and a recovery a turn; when history came in order, the
   turns and the last result are those of its executions; and late history
   changes the totals but never makes an older result the last one. *)
CountsTrue ==
    /\ \A i, j \in 1..Len(history) : (i < j /\ Same(history[i], history[j])) => i \notin kept
    /\ \A i \in 1..Len(history) : i \in kept \/ history[i].at + Retention <= now
    /\ stats.total = Len(history)
    /\ stats.passes = Having({"passed"})
    /\ stats.skipped = Having({"skipped"})
    /\ stats.failures = Having({"failed", "error"})
    /\ stats.recoveries <= stats.transitions
    /\ stats.transitions <= IF Ran = {} THEN 0 ELSE Cardinality(Ran) - 1
    /\ InOrder =>
         /\ stats.last = IF Ran = {} THEN NoStatus ELSE history[Max(Ran)].status
         /\ stats.transitions = Cardinality(Turns)
    /\ (Ran # {} /\ Ran = 1..Len(history)) =>
         \E i \in Ran : history[i].status = stats.last /\ \A j \in Ran : history[j].at <= history[i].at

(* A test that is called flaky has both passed and failed, often enough.  The
   failures it is shown to have by kind are never more than those counted, and
   add up to these while everything is stored and fits the limits of a page and
   of the groups: beyond them the list is short. *)
ClassesTrue ==
    /\ stats.class = "flaky" => stats.passes > 0 /\ stats.failures > 0 /\ Cardinality(Ran) >= ConfirmAt
    /\ \A page \in ListTestObservations : \A groups \in GroupFailureTypes(page) :
          LET counted(kind) == IF kind \in DOMAIN groups THEN groups[kind] ELSE 0
              sum == counted("failed") + counted("error") IN
          /\ sum <= stats.failures
          /\ (/\ kept = 1..Len(history) /\ Len(history) <= PageLimit
              /\ Cardinality(FailureKinds(kept)) <= GroupLimit) => sum = stats.failures

(* The flag on the test and the record of its quarantine agree until the
   quarantine runs out, and no handler quarantines a critical test or replaces
   an operator's quarantine unless the operator acted while it was at work. *)
WardsTrue ==
    /\ Manifest => stats.quarantined
    /\ stats.quarantined => ward # NoWard
    /\ ~disregarded

StatsHonest == CountsTrue /\ ClassesTrue /\ WardsTrue
=============================================================================
