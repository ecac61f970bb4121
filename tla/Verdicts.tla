------------------------------ MODULE Verdicts ------------------------------
(***************************************************************************)
(* The verdict on a failure and what is remembered of it.  A verdict adds  *)
(* up the weights of the rules that matched and of what is known besides;  *)
(* it is made twice, first from the failure alone and then with what the   *)
(* first one lets the worker look up.  Verdicts are kept per tenant for a  *)
(* day in the memory of the process, and what a tenant confirmed overrides *)
(* what is found later.  The verdicts of a run decide on its rerun.        *)
(***************************************************************************)
EXTENDS Faults, Integers, FiniteSetsExt

CONSTANTS
    Tenants,
    Runs,            \* runs, each a set of failed jobs: fingerprint, matched rules, what is known of the change
    Contexts,        \* what is looked up: counts, an incident, a changed environment
    Words,           \* what a tenant may say of a verdict
    Analysts,        \* the workers
    MaxPerTenant,    \* how many verdicts are kept for a tenant
    Ttl,             \* for how long
    MaxHour,         \* the clock, a bound
    MaxRuns,         \* how many runs are analysed, a bound
    MaxWords,        \* how often tenants say something, a bound
    RetryMinScore

ASSUME VerdictsAssumption ==
    /\ MaxPerTenant \in Nat \ {0} /\ Ttl \in Nat \ {0}
    /\ \A run \in Runs : \A f \in run : IsFiniteSet(f.rules) /\ \A r \in f.rules : r.weight \in Int

VARIABLES
    hour,
    memory,          \* per tenant the verdicts kept, each with its fingerprint
    recorded,        \* the verdicts stored
    analyst,         \* what each worker does
    adviser,         \* the word of a tenant that was stored and is to be remembered
    truth,           \* the words remembered that still count
    effort,          \* how often runs were analysed and words said
    ignored          \* a verdict or a rerun went against a word that counted

verdictVars == <<hour, memory, recorded, analyst, adviser, truth, effort, ignored>>

NoResult == [category |-> "none"]
NoAnalyst == [at |-> "idle", tenant |-> "none", left |-> {}, failure |-> "none", context |-> "none", result |-> NoResult,
              told |-> "none", first |-> "none", best |-> -101, retry |-> FALSE, against |-> FALSE]
NoAdvice == [at |-> "idle"]

VerdictInit ==
    /\ hour = 1 /\ memory = [t \in Tenants |-> {}] /\ recorded = {} /\ truth = {}
    /\ analyst = [a \in Analysts |-> NoAnalyst]
    /\ adviser = NoAdvice
    /\ effort = [runs |-> 0, words |-> 0]
    /\ ignored = FALSE

-----------------------------------------------------------------------------
(* The verdict *)

Size(n) == IF n < 0 THEN -n ELSE n
Heaviest(rules) == CHOOSE r \in rules : \A s \in rules : Size(s.weight) <= Size(r.weight)

(* Of the rules of one group only the heaviest counts. *)
RuleSignals(rules) ==
    {LET r == Heaviest({s \in rules : s.group = g}) IN <<g, r.weight>> : g \in {r.group : r \in rules}}

(* A step function: what the greatest bound reached gives. *)
Stepped(kind, count, steps) ==
    LET reached == {s \in steps : count >= s[1]} IN
    IF reached = {} THEN {} ELSE {<<kind, (CHOOSE s \in reached : \A r \in reached : r[1] <= s[1])[2]>>}

If(condition, signal) == IF condition THEN {signal} ELSE {}

ChangeSignals(change) ==
    IF ~change.known THEN {}
    ELSE {<<"workflow", IF change.workflow THEN -18 ELSE 8>>, <<"dependency", IF change.dependency THEN -20 ELSE 8>>}

Signals(failure, context) ==
    RuleSignals(failure.rules) \cup ChangeSignals(failure.change)
      \cup If(failure.passedBefore, <<"history", 15>>) \cup If(context.incident, <<"provider", 40>>)
      \cup Stepped("repositories", context.repositories, {<<3, 15>>, <<10, 25>>, <<50, 35>>})
      \cup Stepped("organizations", context.organizations, {<<2, 10>>, <<5, 20>>})
      \cup Stepped("burst", context.recent, {<<5, 10>>, <<25, 18>>})
      \cup If(context.drift, <<"environment", 22>>)

Total(signals) == MapThenSumSet(LAMBDA s : s[2], signals)

ConfidenceFor(score, category) ==
    CASE category = "code" /\ score <= 0 -> "likely code"
      [] category = "toolchain" /\ score >= 30 -> "moderate"
      [] OTHER -> CASE score >= 75 -> "strong" [] score >= 45 /\ score < 75 -> "moderate"
                    [] score >= 20 /\ score < 45 -> "mixed" [] score < 0 -> "likely code"
                    [] OTHER -> "insufficient"

AttributionFor(confidence, category, competing) ==
    CASE competing \/ confidence = "mixed" -> "mixed"
      [] ~competing /\ confidence # "mixed" /\ category = "toolchain" -> "toolchain"
      [] OTHER -> IF confidence = "likely code" \/ category = "code" THEN "code"
                  ELSE IF confidence \in {"strong", "moderate"} THEN "external" ELSE "unknown"

Category(failure, context) ==
    IF failure.rules # {} THEN Heaviest(failure.rules).category
    ELSE IF context.drift THEN "drift" ELSE "unknown"

Analyze(failure, context) ==
    LET signals   == Signals(failure, context)
        positive  == Total({s \in signals : s[2] > 0})
        negative  == Total({s \in signals : s[2] < 0})
        score     == IF positive + negative > 100 THEN 100 ELSE IF positive + negative < -100 THEN -100 ELSE positive + negative
        competing == positive >= 25 /\ negative <= -25
        category  == Category(failure, context)
        confidence == IF competing THEN "mixed" ELSE ConfidenceFor(score, category) IN
    [category |-> category, cause |-> AttributionFor(confidence, category, competing), confidence |-> confidence,
     score |-> score, incident |-> context.incident]

-----------------------------------------------------------------------------
(* The memory *)

Fresh(entries) == {e \in entries : e.until > hour}

(* An entry that ran out is not found. *)
Get(tenant, fingerprint) == {e \in Fresh(memory[tenant]) : e.fingerprint = fingerprint}

(* Mutant: whatever is found later takes the place of a confirmed verdict. *)
Stands_Never(old, new) == FALSE

(* A confirmed verdict stands until another is confirmed. *)
Stands(old, new) == old.sure /\ ~new.sure

(* A full memory drops its oldest entry, even to replace another one it has. *)
Full(entries) == Cardinality(entries) >= MaxPerTenant
Room(entries) ==
    IF Full(entries) THEN {entries \ {e} : e \in {o \in entries : \A p \in entries : o.since <= p.since}}
    ELSE {entries}

Put(tenant, new) ==
    LET entries == Fresh(memory[tenant])
        stands  == {e \in entries : e.fingerprint = new.fingerprint /\ Stands(e, new)} IN
    \E kept \in (IF stands # {} THEN {entries} ELSE Room(entries)) :
      /\ memory' = [memory EXCEPT ![tenant] =
            {e \in kept : e.fingerprint # new.fingerprint}
              \cup (IF stands = {} THEN {new} ELSE {[e EXCEPT !.since = new.since, !.until = new.until] : e \in stands})]
      (* What was confirmed counts for a day after it was last used, unless the
         memory was full. *)
      /\ LET lost(w) == w.tenant = tenant /\ Full(entries) /\ \A e \in kept : e.fingerprint # w.fingerprint
             told(w) == w.tenant = tenant /\ w.fingerprint = new.fingerprint
             valid   == {w \in truth : w.until > hour /\ ~lost(w)} IN
         truth' = {w \in valid : ~told(w)}
                    \cup (IF new.sure THEN {[tenant |-> tenant, fingerprint |-> new.fingerprint,
                                             cause |-> new.cause, until |-> new.until]}
                          ELSE {[w EXCEPT !.until = new.until] : w \in {v \in valid : told(v)}})

Entry(fingerprint, category, cause, sure) ==
    [fingerprint |-> fingerprint, category |-> category, cause |-> cause, sure |-> sure, since |-> hour, until |-> hour + Ttl]

Vague(result) == result.category = "unknown" \/ result.confidence = "insufficient"

(* A confirmed verdict is always recalled, any other for want of a better one. *)
Recalled(result, entries) ==
    IF \E e \in entries : e.sure \/ Vague(result)
      THEN LET e == CHOOSE f \in entries : TRUE IN
           [result EXCEPT !.category = e.category, !.cause = e.cause,
                          !.confidence = IF @ = "insufficient" THEN "moderate" ELSE @]
      ELSE result

Counting(tenant, fingerprint) ==
    {w.cause : w \in {v \in truth : v.tenant = tenant /\ v.fingerprint = fingerprint /\ v.until > hour}}
Told(tenant, fingerprint) ==
    IF Counting(tenant, fingerprint) = {} THEN "none" ELSE CHOOSE c \in Counting(tenant, fingerprint) : TRUE

-----------------------------------------------------------------------------
(* A run *)

NoContext == [repositories |-> 0, organizations |-> 0, recent |-> 0, incident |-> FALSE, drift |-> FALSE]

VerdictFrame == UNCHANGED <<hour, adviser>>

NextFailure(record, left) ==
    IF left = {} THEN [record EXCEPT !.at = "rerun", !.failure = "none", !.left = {}]
    ELSE LET f == CHOOSE g \in left : TRUE IN
         [record EXCEPT !.at = "first", !.failure = f, !.left = left \ {f}, !.context = NoContext]

StartRun(a, tenant, run) ==
    /\ analyst[a].at = "idle" /\ effort.runs < MaxRuns
    /\ effort' = [effort EXCEPT !.runs = @ + 1]
    /\ analyst' = [analyst EXCEPT ![a] = NextFailure([NoAnalyst EXCEPT !.tenant = tenant], run)]
    /\ Fine /\ VerdictFrame /\ UNCHANGED <<memory, recorded, truth, ignored>>

(* The failure is judged and the memory is asked; *)
Recall(a) ==
    LET x == analyst[a]
        f == x.failure
        found == Analyze(f, x.context) IN
    /\ x.at \in {"first", "second"}
    /\ analyst' = [analyst EXCEPT ![a].at = IF x.at = "first" THEN "keep first" ELSE "keep second",
                                  ![a].result = Recalled(found, Get(x.tenant, f.fingerprint)),
                                  ![a].first = IF x.at = "first" THEN found.cause ELSE @,
                                  ![a].told = Told(x.tenant, f.fingerprint)]
    /\ ignored' = (ignored \/ (x.at = "second" /\ x.first = "external" /\ found.cause # "external"))
    /\ Fine /\ VerdictFrame /\ UNCHANGED <<memory, recorded, truth, effort>>

(* then, the lock having been free meanwhile, the verdict is kept. *)
Keep(a) ==
    LET x == analyst[a] IN
    /\ x.at \in {"keep first", "keep second"}
    /\ IF x.result.category # "unknown" /\ x.result.confidence # "insufficient"
         THEN Put(x.tenant, Entry(x.failure.fingerprint, x.result.category, x.result.cause, FALSE))
         ELSE UNCHANGED <<memory, truth>>
    /\ analyst' = [analyst EXCEPT ![a].at = IF x.at = "keep first" THEN "look up" ELSE "record"]
    /\ Fine /\ VerdictFrame /\ UNCHANGED <<recorded, effort, ignored>>

(* What others saw of the failure; an error ends the job. *)
LookUp(a) ==
    /\ analyst[a].at = "look up"
    /\ \/ Fine /\ \E context \in Contexts : analyst' = [analyst EXCEPT ![a].at = "second", ![a].context = context]
       \/ Fault /\ analyst' = [analyst EXCEPT ![a] = NoAnalyst]
    /\ VerdictFrame /\ UNCHANGED <<memory, recorded, truth, effort, ignored>>

RetryEligible(category) == category \in {"registry", "network", "runner", "cache"}
SafeToRetry(result) == result.cause = "external" /\ ~result.incident /\ RetryEligible(result.category)

(* The rerun of a run goes by its job of the highest score, the first of them. *)
RecordAnalysis(a) ==
    LET x == analyst[a]
        better == x.result.score > x.best
        next == [x EXCEPT !.best = IF better THEN x.result.score ELSE @,
                          !.retry = IF better THEN SafeToRetry(x.result) ELSE @,
                          !.against = IF better THEN x.told \notin {"none", "external"} ELSE @] IN
    /\ x.at = "record"
    /\ \/ /\ Fine
          /\ recorded' = recorded \cup {[tenant |-> x.tenant, fingerprint |-> x.failure.fingerprint,
                                         category |-> x.result.category, cause |-> x.result.cause]}
          /\ ignored' = (ignored \/ x.told \notin {"none", x.result.cause})
          /\ analyst' = [analyst EXCEPT ![a] = NextFailure(next, x.left)]
       \/ Fault /\ analyst' = [analyst EXCEPT ![a] = NoAnalyst] /\ UNCHANGED <<recorded, ignored>>
    /\ VerdictFrame /\ UNCHANGED <<memory, truth, effort>>

MaybeRetry(a) ==
    LET x == analyst[a] IN
    /\ x.at = "rerun"
    /\ ignored' = (ignored \/ (x.retry /\ x.best >= RetryMinScore /\ x.against))
    /\ analyst' = [analyst EXCEPT ![a] = NoAnalyst]
    /\ Fine /\ VerdictFrame /\ UNCHANGED <<memory, recorded, truth, effort>>

-----------------------------------------------------------------------------
(* The word of a tenant: it is stored, then remembered. *)

UpsertDiagnosisFeedback(verdict, word) ==
    /\ adviser.at = "idle" /\ effort.words < MaxWords /\ verdict \in recorded
    /\ effort' = [effort EXCEPT !.words = @ + 1]
    /\ \/ Fine /\ adviser' = [at |-> "remember", verdict |-> verdict, word |-> word]
       \/ Fault /\ UNCHANGED adviser
    /\ UNCHANGED <<hour, memory, recorded, analyst, truth, ignored>>

(* "Correct" confirms the verdict as it was, and any other word says what was
   the matter instead; a word that does not is not remembered. *)
RememberFeedback ==
    LET verdict == adviser.verdict
        word == adviser.word
        Or(actual, was) == IF actual = "none" THEN was ELSE actual IN
    /\ adviser.at = "remember"
    /\ \/ /\ Fine
          /\ IF word.verdict = "correct" \/ word.category # "none" \/ word.cause # "none"
               THEN Put(verdict.tenant, Entry(verdict.fingerprint, Or(word.category, verdict.category), Or(word.cause, verdict.cause), TRUE))
               ELSE UNCHANGED <<memory, truth>>
       \/ Fault /\ UNCHANGED <<memory, truth>>      \* the analysis could not be read again
    /\ adviser' = NoAdvice
    /\ UNCHANGED <<hour, recorded, analyst, effort, ignored>>

-----------------------------------------------------------------------------
HourPasses ==
    /\ hour < MaxHour /\ hour' = hour + 1
    /\ Fine /\ UNCHANGED <<memory, recorded, analyst, adviser, truth, effort, ignored>>

(* Nothing of the memory is stored. *)
ProcessRestarts ==
    /\ Fault
    /\ memory' = [t \in Tenants |-> {}] /\ truth' = {}
    /\ analyst' = [a \in Analysts |-> NoAnalyst] /\ adviser' = NoAdvice
    /\ UNCHANGED <<hour, recorded, effort, ignored>>

VerdictStep ==
    \/ \E a \in Analysts :
          \/ (\E t \in Tenants, run \in Runs : StartRun(a, t, run))
          \/ Recall(a) \/ Keep(a) \/ LookUp(a) \/ RecordAnalysis(a) \/ MaybeRetry(a)
    \/ (\E verdict \in recorded, word \in Words : UpsertDiagnosisFeedback(verdict, word))
    \/ RememberFeedback
    \/ HourPasses
    \/ ProcessRestarts

-----------------------------------------------------------------------------

(* What a tenant confirmed of a failure is applied to every later verdict of
   the tenant on it, for a day after it was last used and while there is room:
   no verdict that is found or kept meanwhile displaces it, no run is rerun on
   a verdict that goes against it, and it stays with its tenant.  And what is
   looked up never makes a failure less external than it was at first. *)
FeedbackHolds ==
    /\ \A w \in truth : w.until > hour =>
         \E e \in memory[w.tenant] : e.fingerprint = w.fingerprint /\ e.sure /\ e.cause = w.cause /\ e.until >= w.until
    /\ \A t \in Tenants, e \in UNION {memory[u] : u \in Tenants} :
         (e \in memory[t] /\ e.sure) => \E r \in recorded : r.tenant = t /\ r.fingerprint = e.fingerprint
    /\ ~ignored
=============================================================================
