-------------------------- MODULE IncidentsProofs --------------------------
(***************************************************************************)
(* Proofs about module Incidents, for any number of failing jobs, any      *)
(* thresholds and times, and any number of faults: what is counted, what   *)
(* late handlers may do to an incident, and what is announced of it.       *)
(***************************************************************************)
EXTENDS Incidents, FiniteSetTheorems, TLAPS

(* Types *)

Phases == {"quiet", "retry", "record", "decide", "read", "write", "announce", "done"}

AnalysisRecord == [by: Observers, attempt: Nat, age: Ages]

IncidentRecord ==
    [state: {"none", "open", "acknowledged", "resolved"}, severity: 0..2,
     repos: Nat, orgs: Nat, occurrences: Nat, first: Ages, last: Ages, resolved: Ages]

ObserverRecord ==
    [phase: Phases, attempt: Nat, age: Ages, prior: SUBSET Observers,
     repos: Nat, orgs: Nat, occurrences: Nat, provider: BOOLEAN,
     stamp: Ages, created: BOOLEAN, cut: BOOLEAN]

SaidRecord == [openings: Nat, last: {"none", "opened", "updated", "resolved"}]

HistoryRecord ==
    [opened: Nat, seen: Ages, faults: Nat, changes: Nat,
     overlapped: BOOLEAN, silent: BOOLEAN, blamed: BOOLEAN]

IncidentsTypeOK ==
    /\ analyses \subseteq AnalysisRecord /\ IsFiniteSet(analyses)
    /\ incident \in IncidentRecord
    /\ obs \in [Observers -> ObserverRecord]
    /\ sweeper \in BOOLEAN
    /\ operator \in {"idle", "resolved", "updated"}
    /\ said \in SaidRecord
    /\ history \in HistoryRecord

(* Times: a handler writes soon after it has read the clock, and so the    *)
(* incident is hardly older than the last time somebody saw it.            *)
TimesInv ==
    /\ incident.state = "none" => incident = NoIncident
    /\ \A o \in Observers : obs[o].phase \in {"read", "write"} => obs[o].stamp <= Handling
    /\ incident.state # "none" => incident.last <= history.seen + Handling

(* Counts: each attempt leaves at most one analysis, and needs a failure   *)
(* or a fault of its own.                                                  *)
Attempting == {o \in Observers : obs[o].phase \in {"retry", "record"}}

CountInv ==
    /\ \A o \in Observers : obs[o].phase = "quiet" => obs[o].attempt = 0
    /\ \A o \in Observers : obs[o].phase \notin {"quiet", "done"} => obs[o].attempt > 0
    /\ \A a \in analyses : a.by \in Started
    /\ Cardinality(analyses) + Cardinality(Attempting) <= Cardinality(Started) + history.faults

Bounded(c) ==
    /\ c.repos <= Cardinality(ReposOf(Started))
    /\ c.orgs <= Cardinality(OrgsOf(Started))
    /\ c.occurrences <= Cardinality(Started) + history.faults

Warranted(c) == c.repos >= RepoThreshold \/ c.orgs >= OrgThreshold \/ history.blamed

BoundInv ==
    /\ \A o \in Observers : Bounded(obs[o])
    /\ \A o \in Observers : obs[o].provider => history.blamed
    /\ \A o \in Observers : obs[o].phase \in {"read", "write"} => Warranted(obs[o])
    /\ incident.state # "none" => Bounded(incident) /\ Warranted(incident)

(* Openings: what a handler counted is what it could count, and it has     *)
(* opened the incident if that was enough.                                 *)
ClusterOf(o) == obs[o].prior \cup {o}

OpenInv ==
    /\ \A o \in Observers : obs[o].phase \in {"record", "decide"} =>
         /\ obs[o].repos = Cardinality(ReposOf(ClusterOf(o)))
         /\ obs[o].orgs = Cardinality(OrgsOf(ClusterOf(o)))
    /\ incident.state # "none" => history.opened > 0
    /\ \A o \in Observers : obs[o].phase = "announce" => history.opened > 0
    /\ ThresholdOpens

(* Announcements: as long as nobody overlaps, whoever is engaged is alone  *)
(* and has the one announcement to make that is missing.                   *)
Orderly == ~history.overlapped /\ ~history.silent /\ history.faults = 0
EngagedOnes == {o \in Observers : obs[o].phase \in Critical}

Agreed ==
    /\ said.openings = history.opened
    /\ incident.state \in Active => said.last \in {"opened", "updated"}
    /\ incident.state = "resolved" => said.last = "resolved"

AnnounceInv == Orderly =>
    /\ \A o, p \in EngagedOnes : o = p
    /\ EngagedOnes # {} => ~sweeper /\ operator = "idle"
    /\ ~(sweeper /\ operator # "idle")
    /\ ~sweeper /\ operator = "idle" /\ (\A o \in EngagedOnes : obs[o].phase = "write") => Agreed
    /\ \A o \in Observers : obs[o].phase = "write" => obs[o].created = Created
    /\ \A o \in Observers : obs[o].phase = "announce" =>
         /\ incident.state \in Active
         /\ IF obs[o].created THEN said.openings + 1 = history.opened
            ELSE said.openings = history.opened
    /\ sweeper \/ operator # "idle" => said.openings = history.opened
    /\ sweeper \/ operator = "resolved" => incident.state \in {"none", "resolved"}
    /\ operator = "updated" => incident.state \in Active

IncidentsInv == IncidentsTypeOK /\ TimesInv /\ CountInv /\ BoundInv /\ OpenInv /\ AnnounceInv

-----------------------------------------------------------------------------
(* Numbers and sets *)

LEMMA AgeFacts ==
  /\ MaxAge \in Nat /\ 0 \in Ages
  /\ \A a \in Ages : a \in Nat /\ a <= MaxAge /\ Older(a) \in Ages
                     /\ Older(a) >= a /\ Older(a) <= a + 1
                     /\ (Older(a) = a + 1 \/ (a = MaxAge /\ Older(a) = MaxAge))
  BY TimingAssumption DEF MaxAge, Ages, Older

LEMMA LargerFacts ==
  ASSUME NEW a \in Nat, NEW b \in Nat
  PROVE  Larger(a, b) \in Nat /\ Larger(a, b) >= a /\ Larger(a, b) >= b /\ Larger(a, b) \in {a, b}
  BY DEF Larger

LEMMA SmallerFacts ==
  ASSUME NEW a \in Nat, NEW b \in Nat
  PROVE  Smaller(a, b) \in {a, b} /\ Smaller(a, b) <= a /\ Smaller(a, b) <= b
  BY DEF Smaller

(* The repositories of more observers are no fewer. *)
LEMMA ReposGrow ==
  ASSUME NEW S, NEW T, S \subseteq T, T \subseteq Observers
  PROVE  /\ Cardinality(ReposOf(S)) \in Nat /\ Cardinality(ReposOf(T)) \in Nat
         /\ Cardinality(ReposOf(S)) <= Cardinality(ReposOf(T))
         /\ Cardinality(OrgsOf(S)) \in Nat /\ Cardinality(OrgsOf(T)) \in Nat
         /\ Cardinality(OrgsOf(S)) <= Cardinality(OrgsOf(T))
  <1>1. IsFiniteSet(T)
    BY BoundsAssumption, FS_Subset
  <1>2. IsFiniteSet(ReposOf(T))
    <2> DEFINE f == [o \in T |-> RepoOf[o]]
    <2>1. f \in Surjection(T, ReposOf(T))
      BY DEF Surjection, ReposOf
    <2>2. QED
      BY <1>1, <2>1, FS_Surjection
  <1>3. IsFiniteSet(OrgsOf(T))
    <2> DEFINE orgs == {OrgOf[o] : o \in T}
               f == [o \in T |-> OrgOf[o]]
    <2>1. f \in Surjection(T, orgs)
      BY DEF Surjection
    <2>2. IsFiniteSet(orgs)
      BY <1>1, <2>1, FS_Surjection
    <2>3. OrgsOf(T) \subseteq orgs
      BY DEF OrgsOf
    <2>4. QED
      BY <2>2, <2>3, FS_Subset
  <1>4. ReposOf(S) \subseteq ReposOf(T) /\ OrgsOf(S) \subseteq OrgsOf(T)
    BY DEF ReposOf, OrgsOf
  <1>5. QED
    BY <1>2, <1>3, <1>4, FS_Subset, FS_CardinalityType

-----------------------------------------------------------------------------
(* What each step does, field by field *)

ObserverKept(o) == /\ obs' \in [Observers -> ObserverRecord]
                   /\ \A p \in Observers \ {o} : obs'[p] = obs[p]

LEMMA ObserverFields ==
  ASSUME IncidentsTypeOK, NEW o \in Observers
  PROVE  /\ obs[o] \in ObserverRecord
         /\ obs[o].phase \in Phases /\ obs[o].attempt \in Nat /\ obs[o].age \in Ages
         /\ obs[o].prior \in SUBSET Observers /\ obs[o].repos \in Nat /\ obs[o].orgs \in Nat
         /\ obs[o].occurrences \in Nat /\ obs[o].provider \in BOOLEAN /\ obs[o].stamp \in Ages
         /\ obs[o].created \in BOOLEAN /\ obs[o].cut \in BOOLEAN
  BY DEF IncidentsTypeOK, ObserverRecord

LEMMA RecordFields ==
  ASSUME IncidentsTypeOK
  PROVE  /\ incident.state \in {"none", "open", "acknowledged", "resolved"} /\ incident.severity \in 0..2
         /\ incident.repos \in Nat /\ incident.orgs \in Nat /\ incident.occurrences \in Nat
         /\ incident.first \in Ages /\ incident.last \in Ages /\ incident.resolved \in Ages
         /\ said.openings \in Nat /\ said.last \in {"none", "opened", "updated", "resolved"}
         /\ history.opened \in Nat /\ history.seen \in Ages /\ history.faults \in Nat
         /\ history.changes \in Nat /\ history.overlapped \in BOOLEAN
         /\ history.silent \in BOOLEAN /\ history.blamed \in BOOLEAN
  BY DEF IncidentsTypeOK, IncidentRecord, SaidRecord, HistoryRecord

(* One observer's record is replaced. *)
LEMMA Replaced ==
  ASSUME IncidentsTypeOK, NEW o \in Observers, NEW r \in ObserverRecord, obs' = [obs EXCEPT ![o] = r]
  PROVE  ObserverKept(o) /\ obs'[o] = r
  BY DEF IncidentsTypeOK, ObserverKept

LEMMA EndedFacts ==
  ASSUME IncidentsTypeOK, NEW o \in Observers, NEW cut \in BOOLEAN
  PROVE  /\ Ended(o, cut) \in ObserverRecord
         /\ Ended(o, cut).phase = "done" /\ Ended(o, cut).attempt = 0
         /\ Ended(o, cut).prior = obs[o].prior /\ Ended(o, cut).repos = 0 /\ Ended(o, cut).orgs = 0
         /\ Ended(o, cut).occurrences = 0 /\ Ended(o, cut).provider = FALSE /\ Ended(o, cut).stamp = 0
         /\ Ended(o, cut).created = FALSE /\ Ended(o, cut).cut = cut
  BY ObserverFields, AgeFacts DEF Ended, Silent, ObserverRecord, Phases

(* The count of what failed alike is taken over the recorded analyses and  *)
(* the failure itself: exactly the cluster the observer remembers.         *)
LEMMA CorrelateFacts ==
  ASSUME IncidentsTypeOK, NEW o \in Observers, NEW age \in Ages, Correlate(o, age)
  PROVE  /\ ObserverKept(o) /\ IncidentsTypeOK'
         /\ obs'[o].phase = "record" /\ obs'[o].attempt = obs[o].attempt + 1
         /\ obs'[o].prior = {p \in Observers : \E a \in Recent : a.by = p}
         /\ obs'[o].repos = Cardinality(ReposOf({a.by : a \in Recent} \cup {o}))
         /\ obs'[o].orgs = Cardinality(OrgsOf({a.by : a \in Recent} \cup {o}))
         /\ obs'[o].occurrences = Cardinality(Recent) + 1
         /\ {a.by : a \in Recent} = {p \in Observers : \E a \in Recent : a.by = p}
         /\ obs'[o].provider = obs[o].provider /\ obs'[o].stamp = obs[o].stamp
         /\ obs'[o].created = obs[o].created /\ obs'[o].cut = obs[o].cut
         /\ UNCHANGED <<analyses, incident, sweeper, operator, said, history>>
  <1> DEFINE alike == {a.by : a \in Recent} \cup {o}
             prior == {p \in Observers : \E a \in Recent : a.by = p}
             n == Cardinality(ReposOf(alike))
             m == Cardinality(OrgsOf(alike))
             k == Cardinality(Recent) + 1
             r == [obs[o] EXCEPT !.phase = "record", !.attempt = obs[o].attempt + 1, !.age = age,
                     !.prior = prior, !.repos = n, !.orgs = m, !.occurrences = k]
  <1>1. /\ {a.by : a \in Recent} \subseteq Observers /\ {a.by : a \in Recent} = prior
        /\ IsFiniteSet(Recent)
    BY FS_Subset DEF IncidentsTypeOK, Recent, AnalysisRecord
  <1>2. alike \subseteq Observers
    BY <1>1
  <1>3. n \in Nat /\ m \in Nat
    BY <1>2, ReposGrow
  <1>4. k \in Nat
    BY <1>1, FS_CardinalityType
  <1>5. obs' = [obs EXCEPT ![o] = r] /\ UNCHANGED <<analyses, incident, sweeper, operator, said, history>>
    BY DEF Correlate, CorrelationForTenant
  <1>6. prior \in SUBSET Observers
    OBVIOUS
  <1> HIDE DEF n, m, k, prior
  <1>7. /\ r \in ObserverRecord
        /\ r.phase = "record" /\ r.attempt = obs[o].attempt + 1 /\ r.prior = prior
        /\ r.repos = n /\ r.orgs = m /\ r.occurrences = k /\ r.provider = obs[o].provider
        /\ r.stamp = obs[o].stamp /\ r.created = obs[o].created /\ r.cut = obs[o].cut
    <2>1. obs[o] \in ObserverRecord /\ obs[o].attempt + 1 \in Nat
      BY ObserverFields
    <2>2. r \in ObserverRecord
      BY <1>3, <1>4, <1>6, <2>1 DEF ObserverRecord, Phases
    <2>3. /\ r.phase = "record" /\ r.attempt = obs[o].attempt + 1 /\ r.prior = prior
          /\ r.repos = n /\ r.orgs = m /\ r.occurrences = k
      BY <2>1 DEF ObserverRecord
    <2>4. /\ r.provider = obs[o].provider /\ r.stamp = obs[o].stamp
          /\ r.created = obs[o].created /\ r.cut = obs[o].cut
      BY <2>1 DEF ObserverRecord
    <2>5. QED
      BY <2>2, <2>3, <2>4
  <1> HIDE DEF r
  <1>8. ObserverKept(o) /\ obs'[o] = r
    BY <1>5, <1>7, Replaced
  <1>9. IncidentsTypeOK'
    BY <1>5, <1>8 DEF IncidentsTypeOK, ObserverKept
  <1>10. QED
    BY <1>1, <1>5, <1>7, <1>8, <1>9 DEF n, m, k, prior

LEMMA RecordFacts ==
  ASSUME IncidentsTypeOK, NEW o \in Observers, RecordAnalysisForTenant(o)
  PROVE  /\ ObserverKept(o) /\ IncidentsTypeOK'
         /\ obs[o].phase = "record" /\ obs'[o].phase = "decide"
         /\ obs'[o].attempt = obs[o].attempt /\ obs'[o].prior = obs[o].prior
         /\ obs'[o].repos = obs[o].repos /\ obs'[o].orgs = obs[o].orgs
         /\ obs'[o].occurrences = obs[o].occurrences
         /\ obs'[o].stamp = obs[o].stamp /\ obs'[o].created = obs[o].created /\ obs'[o].cut = obs[o].cut
         /\ \E a : a.by = o /\ analyses' = analyses \cup {a}
         /\ obs'[o].provider => history'.blamed
         /\ history.blamed => history'.blamed
         /\ history'.opened = history.opened /\ history'.seen = history.seen
         /\ history'.faults = history.faults /\ history'.changes = history.changes
         /\ history'.overlapped = history.overlapped /\ history'.silent = history.silent
         /\ UNCHANGED <<incident, sweeper, operator, said>>
  <1>1. PICK down \in BOOLEAN :
          /\ obs' = [obs EXCEPT ![o] = [obs[o] EXCEPT !.phase = "decide", !.provider = down]]
          /\ history' = [history EXCEPT !.blamed = history.blamed \/ down]
    <2>1. PICK down \in ProviderStates[o] :
            /\ obs' = [obs EXCEPT ![o] = [obs[o] EXCEPT !.phase = "decide", !.provider = down]]
            /\ history' = [history EXCEPT !.blamed = history.blamed \/ down]
      BY DEF RecordAnalysisForTenant
    <2>2. down \in BOOLEAN
      BY BoundsAssumption
    <2>3. QED
      BY <2>1, <2>2
  <1> DEFINE r == [obs[o] EXCEPT !.phase = "decide", !.provider = down]
             a == [by |-> o, attempt |-> obs[o].attempt, age |-> obs[o].age]
  <1>2. /\ r \in ObserverRecord
        /\ r.phase = "decide" /\ r.attempt = obs[o].attempt /\ r.prior = obs[o].prior
        /\ r.repos = obs[o].repos /\ r.orgs = obs[o].orgs /\ r.occurrences = obs[o].occurrences
        /\ r.stamp = obs[o].stamp /\ r.created = obs[o].created /\ r.cut = obs[o].cut
    <2>1. obs[o] \in ObserverRecord
      BY ObserverFields
    <2>2. r \in ObserverRecord
      BY <2>1 DEF ObserverRecord, Phases
    <2>3. /\ r.phase = "decide" /\ r.attempt = obs[o].attempt /\ r.prior = obs[o].prior
          /\ r.repos = obs[o].repos /\ r.orgs = obs[o].orgs /\ r.occurrences = obs[o].occurrences
      BY <2>1 DEF ObserverRecord
    <2>4. /\ r.stamp = obs[o].stamp /\ r.created = obs[o].created /\ r.cut = obs[o].cut
      BY <2>1 DEF ObserverRecord
    <2>5. QED
      BY <2>2, <2>3, <2>4
  <1>3. r.provider = down
    BY ObserverFields DEF ObserverRecord
  <1>4. obs' = [obs EXCEPT ![o] = r]
    BY <1>1
  <1> HIDE DEF r
  <1>5. ObserverKept(o) /\ obs'[o] = r
    BY <1>2, <1>4, Replaced
  <1>6. a \in AnalysisRecord /\ a.by = o
    BY ObserverFields DEF AnalysisRecord
  <1>7. /\ analyses' = analyses \cup {a} /\ UNCHANGED <<incident, sweeper, operator, said>>
        /\ obs[o].phase = "record"
    BY DEF RecordAnalysisForTenant
  <1>8. /\ history' \in HistoryRecord
        /\ history'.opened = history.opened /\ history'.seen = history.seen
        /\ history'.faults = history.faults /\ history'.changes = history.changes
        /\ history'.overlapped = history.overlapped /\ history'.silent = history.silent
    <2>1. history \in HistoryRecord /\ (history.blamed \/ down) \in BOOLEAN
      BY RecordFields DEF IncidentsTypeOK
    <2>2. QED
      BY <1>1, <2>1 DEF HistoryRecord
  <1>9. (history.blamed => history'.blamed) /\ (down => history'.blamed)
    <2>1. history'.blamed = (history.blamed \/ down)
      BY <1>1, Zenon DEF IncidentsTypeOK, HistoryRecord
    <2>2. QED
      BY <2>1
  <1>10. analyses' \subseteq AnalysisRecord /\ IsFiniteSet(analyses')
    BY <1>6, <1>7, FS_AddElement DEF IncidentsTypeOK
  <1>11. IncidentsTypeOK'
    BY <1>5, <1>7, <1>8, <1>10 DEF IncidentsTypeOK, ObserverKept
  <1>12. obs'[o].provider => history'.blamed
    BY <1>3, <1>5, <1>9
  <1>13. QED
    BY <1>2, <1>5, <1>6, <1>7, <1>8, <1>9, <1>11, <1>12

LEMMA DecideFacts ==
  ASSUME IncidentsTypeOK, NEW o \in Observers, Decide(o)
  PROVE  /\ ObserverKept(o) /\ IncidentsTypeOK'
         /\ obs[o].phase = "decide"
         /\ obs'[o].prior = obs[o].prior
         /\ \/ /\ Reached(o) /\ obs'[o].phase = "read" /\ obs'[o].stamp = 0
               /\ obs'[o].attempt = obs[o].attempt
               /\ obs'[o].repos = obs[o].repos /\ obs'[o].orgs = obs[o].orgs
               /\ obs'[o].occurrences = obs[o].occurrences /\ obs'[o].provider = obs[o].provider
            \/ ~Reached(o) /\ obs'[o] = Ended(o, FALSE)
         /\ UNCHANGED <<analyses, incident, sweeper, operator, said, history>>
  <1> DEFINE r == [obs[o] EXCEPT !.phase = "read", !.stamp = 0]
  <1>1. /\ r \in ObserverRecord
        /\ r.phase = "read" /\ r.stamp = 0 /\ r.attempt = obs[o].attempt /\ r.prior = obs[o].prior
        /\ r.repos = obs[o].repos /\ r.orgs = obs[o].orgs /\ r.occurrences = obs[o].occurrences
        /\ r.provider = obs[o].provider
    <2>1. obs[o] \in ObserverRecord /\ 0 \in Ages
      BY ObserverFields, AgeFacts
    <2>2. r \in ObserverRecord
      BY <2>1 DEF ObserverRecord, Phases
    <2>3. /\ r.phase = "read" /\ r.stamp = 0 /\ r.attempt = obs[o].attempt /\ r.prior = obs[o].prior
          /\ r.repos = obs[o].repos /\ r.orgs = obs[o].orgs /\ r.occurrences = obs[o].occurrences
          /\ r.provider = obs[o].provider
      BY <2>1 DEF ObserverRecord
    <2>4. QED
      BY <2>2, <2>3
  <1>2. /\ obs' = [obs EXCEPT ![o] = IF Reached(o) THEN r ELSE Ended(o, FALSE)]
        /\ obs[o].phase = "decide" /\ UNCHANGED <<analyses, incident, sweeper, operator, said, history>>
    BY DEF Decide
  <1> HIDE DEF r
  <1>3. Ended(o, FALSE) \in ObserverRecord /\ Ended(o, FALSE).prior = obs[o].prior
    BY EndedFacts
  <1>4. CASE Reached(o)
    <2>1. obs' = [obs EXCEPT ![o] = r]
      BY <1>2, <1>4
    <2>2. ObserverKept(o) /\ obs'[o] = r
      BY <1>1, <2>1, Replaced
    <2>3. IncidentsTypeOK'
      BY <1>2, <2>2 DEF IncidentsTypeOK, ObserverKept
    <2>4. QED
      BY <1>1, <1>2, <1>4, <2>2, <2>3
  <1>5. CASE ~Reached(o)
    <2>1. obs' = [obs EXCEPT ![o] = Ended(o, FALSE)]
      BY <1>2, <1>5
    <2>2. ObserverKept(o) /\ obs'[o] = Ended(o, FALSE)
      BY <1>3, <2>1, Replaced
    <2>3. IncidentsTypeOK'
      BY <1>2, <2>2 DEF IncidentsTypeOK, ObserverKept
    <2>4. QED
      BY <1>3, <1>2, <1>5, <2>2, <2>3
  <1>6. QED
    BY <1>4, <1>5

LEMMA ReadFacts ==
  ASSUME IncidentsTypeOK, NEW o \in Observers, Read(o)
  PROVE  /\ ObserverKept(o) /\ IncidentsTypeOK'
         /\ obs[o].phase = "read" /\ obs'[o].phase = "write"
         /\ obs'[o].attempt = obs[o].attempt /\ obs'[o].prior = obs[o].prior
         /\ obs'[o].repos = obs[o].repos /\ obs'[o].orgs = obs[o].orgs
         /\ obs'[o].occurrences = obs[o].occurrences /\ obs'[o].provider = obs[o].provider
         /\ obs'[o].stamp = obs[o].stamp /\ obs'[o].created = Created
         /\ history'.opened = history.opened /\ history'.seen = history.seen
         /\ history'.faults = history.faults /\ history'.changes = history.changes
         /\ history'.silent = history.silent /\ history'.blamed = history.blamed
         /\ history.overlapped => history'.overlapped
         /\ Engaged(o) => history'.overlapped
         /\ UNCHANGED <<analyses, incident, sweeper, operator, said>>
  <1> DEFINE r == [obs[o] EXCEPT !.phase = "write", !.created = Created]
  <1>1. obs[o] \in ObserverRecord /\ Created \in BOOLEAN /\ Engaged(o) \in BOOLEAN
    BY ObserverFields DEF Created, Engaged
  <1>2. r \in ObserverRecord
    BY <1>1 DEF ObserverRecord, Phases
  <1>3. /\ r.phase = "write" /\ r.attempt = obs[o].attempt /\ r.prior = obs[o].prior
        /\ r.repos = obs[o].repos /\ r.orgs = obs[o].orgs /\ r.occurrences = obs[o].occurrences
        /\ r.provider = obs[o].provider /\ r.stamp = obs[o].stamp
    BY <1>1 DEF ObserverRecord
  <1>4. r.created = Created
    BY <1>1, Zenon DEF ObserverRecord
  <1>5. /\ obs' = [obs EXCEPT ![o] = r] /\ obs[o].phase = "read"
        /\ history' = [history EXCEPT !.overlapped = history.overlapped \/ Engaged(o)]
        /\ UNCHANGED <<analyses, incident, sweeper, operator, said>>
    BY DEF Read
  <1> HIDE DEF r
  <1>6. ObserverKept(o) /\ obs'[o] = r
    BY <1>2, <1>5, Replaced
  <1>7. history'.overlapped = (history.overlapped \/ Engaged(o))
    BY <1>5, Zenon DEF IncidentsTypeOK, HistoryRecord
  <1>8. /\ history' \in HistoryRecord
        /\ history'.opened = history.opened /\ history'.seen = history.seen
        /\ history'.faults = history.faults /\ history'.changes = history.changes
        /\ history'.silent = history.silent /\ history'.blamed = history.blamed
    <2>1. history \in HistoryRecord /\ (history.overlapped \/ Engaged(o)) \in BOOLEAN
      BY RecordFields DEF IncidentsTypeOK
    <2> HIDE DEF Engaged
    <2>2. QED
      BY <1>5, <2>1 DEF HistoryRecord
  <1>9. IncidentsTypeOK'
    BY <1>5, <1>6, <1>8 DEF IncidentsTypeOK, ObserverKept
  <1>10. QED
    BY <1>3, <1>4, <1>5, <1>6, <1>7, <1>8, <1>9

(* The record that is written: what is larger wins, the state is decided   *)
(* by the stored one.                                                      *)
LEMMA UpsertedFacts ==
  ASSUME IncidentsTypeOK, NEW o \in Observers
  PROVE  /\ Upserted(o) \in IncidentRecord
         /\ Upserted(o).state = IF incident.state = "acknowledged" THEN "acknowledged" ELSE "open"
         /\ Upserted(o).repos = Larger(incident.repos, obs[o].repos)
         /\ Upserted(o).orgs = Larger(incident.orgs, obs[o].orgs)
         /\ Upserted(o).occurrences = Larger(incident.occurrences, obs[o].occurrences)
         /\ Upserted(o).last = obs[o].stamp
         /\ Upserted(o).repos >= incident.repos /\ Upserted(o).orgs >= incident.orgs
         /\ Upserted(o).occurrences >= incident.occurrences
         /\ Upserted(o).severity >= incident.severity /\ Upserted(o).first >= incident.first
  <1>1. Severity(o) \in 0..2
    BY BoundsAssumption DEF Severity, Larger
  <1>2. Larger(incident.severity, Severity(o)) \in 0..2 /\ Larger(incident.severity, Severity(o)) >= incident.severity
    BY <1>1, RecordFields DEF Larger
  <1>3. /\ Larger(incident.repos, obs[o].repos) \in Nat /\ Larger(incident.repos, obs[o].repos) >= incident.repos
        /\ Larger(incident.orgs, obs[o].orgs) \in Nat /\ Larger(incident.orgs, obs[o].orgs) >= incident.orgs
        /\ Larger(incident.occurrences, obs[o].occurrences) \in Nat
        /\ Larger(incident.occurrences, obs[o].occurrences) >= incident.occurrences
    BY RecordFields, ObserverFields, LargerFacts
  <1>4. /\ Larger(incident.first, obs[o].stamp) \in Ages /\ Larger(incident.first, obs[o].stamp) >= incident.first
        /\ obs[o].stamp \in Ages /\ 0 \in Ages
    <2>1. incident.first \in Ages /\ obs[o].stamp \in Ages
      BY RecordFields, ObserverFields
    <2>2. QED
      BY <2>1, LargerFacts, AgeFacts
  <1>5. QED
    BY <1>2, <1>3, <1>4 DEF Upserted, IncidentRecord

LEMMA UpsertFacts ==
  ASSUME IncidentsTypeOK, NEW o \in Observers, UpsertIncidentForTenant(o)
  PROVE  /\ ObserverKept(o) /\ IncidentsTypeOK'
         /\ obs[o].phase = "write" /\ obs'[o].phase = "announce"
         /\ obs'[o].attempt = obs[o].attempt /\ obs'[o].prior = obs[o].prior
         /\ obs'[o].repos = 0 /\ obs'[o].orgs = 0 /\ obs'[o].occurrences = 0
         /\ obs'[o].provider = FALSE /\ obs'[o].stamp = 0 /\ obs'[o].created = obs[o].created
         /\ incident' = Upserted(o)
         /\ history'.opened = history.opened + (IF Created THEN 1 ELSE 0)
         /\ history'.seen = IF incident.state = "none" THEN obs[o].stamp
                            ELSE Smaller(history.seen, obs[o].stamp)
         /\ history'.faults = history.faults /\ history'.changes = history.changes
         /\ history'.silent = history.silent /\ history'.blamed = history.blamed
         /\ history'.overlapped = history.overlapped
         /\ UNCHANGED <<analyses, sweeper, operator, said>>
  <1> DEFINE r == [obs[o] EXCEPT !.phase = "announce", !.repos = 0, !.orgs = 0,
                     !.occurrences = 0, !.provider = FALSE, !.stamp = 0]
             opened == history.opened + (IF Created THEN 1 ELSE 0)
             seen == IF incident.state = "none" THEN obs[o].stamp ELSE Smaller(history.seen, obs[o].stamp)
  <1>1. obs[o] \in ObserverRecord /\ 0 \in Ages /\ obs[o].stamp \in Ages
    BY ObserverFields, AgeFacts
  <1>2. r \in ObserverRecord
    BY <1>1 DEF ObserverRecord, Phases
  <1>3. /\ r.phase = "announce" /\ r.attempt = obs[o].attempt /\ r.prior = obs[o].prior
        /\ r.repos = 0 /\ r.orgs = 0 /\ r.occurrences = 0
        /\ r.stamp = 0 /\ r.created = obs[o].created
    BY <1>1 DEF ObserverRecord
  <1>4. r.provider = FALSE
    BY <1>1 DEF ObserverRecord
  <1>5. /\ obs' = [obs EXCEPT ![o] = r] /\ obs[o].phase = "write"
        /\ history' = [history EXCEPT !.opened = opened, !.seen = seen]
        /\ incident' = Upserted(o)
        /\ UNCHANGED <<analyses, sweeper, operator, said>>
    BY DEF UpsertIncidentForTenant
  <1> HIDE DEF r
  <1>6. ObserverKept(o) /\ obs'[o] = r
    BY <1>2, <1>5, Replaced
  <1>7. opened \in Nat /\ seen \in Ages
    <2>1. history.opened \in Nat /\ history.seen \in Ages
      BY RecordFields
    <2>2. QED
      BY <1>1, <2>1, AgeFacts DEF Smaller
  <1> HIDE DEF opened, seen
  <1>8. /\ history' \in HistoryRecord
        /\ history'.opened = opened /\ history'.seen = seen
        /\ history'.faults = history.faults /\ history'.changes = history.changes
        /\ history'.silent = history.silent /\ history'.blamed = history.blamed
        /\ history'.overlapped = history.overlapped
    BY <1>5, <1>7 DEF IncidentsTypeOK, HistoryRecord
  <1>9. IncidentsTypeOK'
    <2>1. Upserted(o) \in IncidentRecord
      BY UpsertedFacts
    <2>2. QED
      BY <1>5, <1>6, <1>8, <2>1 DEF IncidentsTypeOK, ObserverKept
  <1>10. QED
    BY <1>3, <1>4, <1>5, <1>6, <1>8, <1>9 DEF opened, seen

LEMMA AnnounceFacts ==
  ASSUME IncidentsTypeOK, NEW o \in Observers, Announce(o)
  PROVE  /\ ObserverKept(o) /\ IncidentsTypeOK'
         /\ obs[o].phase = "announce" /\ obs'[o] = Ended(o, FALSE)
         /\ incident.state = "none" => said' = said
         /\ incident.state # "none" /\ obs[o].created =>
              said'.openings = said.openings + 1 /\ said'.last = "opened"
         /\ incident.state # "none" /\ ~obs[o].created =>
              said'.openings = said.openings /\ said'.last = "updated"
         /\ UNCHANGED <<analyses, incident, sweeper, operator, history>>
  <1>1. /\ obs' = [obs EXCEPT ![o] = Ended(o, FALSE)] /\ obs[o].phase = "announce"
        /\ said' = Announcement(o)
        /\ UNCHANGED <<analyses, incident, sweeper, operator, history>>
    BY DEF Announce
  <1>2. ObserverKept(o) /\ obs'[o] = Ended(o, FALSE)
    BY <1>1, EndedFacts, Replaced
  <1>3. /\ Announcement(o) \in SaidRecord
        /\ incident.state = "none" => Announcement(o) = said
        /\ incident.state # "none" /\ obs[o].created =>
             Announcement(o).openings = said.openings + 1 /\ Announcement(o).last = "opened"
        /\ incident.state # "none" /\ ~obs[o].created =>
             Announcement(o).openings = said.openings /\ Announcement(o).last = "updated"
    BY DEF IncidentsTypeOK, SaidRecord, Announcement
  <1>4. IncidentsTypeOK'
    BY <1>1, <1>2, <1>3 DEF IncidentsTypeOK, ObserverKept
  <1>5. QED
    BY <1>1, <1>2, <1>3, <1>4

LEMMA CutShortFacts ==
  ASSUME IncidentsTypeOK, NEW o \in Observers, CutShort(o)
  PROVE  /\ ObserverKept(o) /\ IncidentsTypeOK'
         /\ obs[o].phase \notin {"quiet", "done"}
         /\ \/ /\ obs'[o].phase = "retry" /\ obs'[o].attempt = obs[o].attempt
            \/ /\ obs'[o].phase = "done" /\ obs'[o].attempt = 0 /\ obs'[o].cut
         /\ obs'[o].repos = 0 /\ obs'[o].orgs = 0 /\ obs'[o].occurrences = 0
         /\ obs'[o].provider = FALSE
         /\ history'.faults = history.faults + 1
         /\ history'.opened = history.opened /\ history'.seen = history.seen
         /\ history'.silent = history.silent /\ history'.blamed = history.blamed
         /\ history'.overlapped = history.overlapped /\ history'.changes = history.changes
         /\ UNCHANGED <<analyses, incident, sweeper, operator, said>>
  <1> DEFINE again == [Silent EXCEPT !.phase = "retry", !.attempt = obs[o].attempt, !.age = obs[o].age]
  <1>1. /\ again \in ObserverRecord
        /\ again.phase = "retry" /\ again.attempt = obs[o].attempt
        /\ again.repos = 0 /\ again.orgs = 0 /\ again.occurrences = 0 /\ again.provider = FALSE
    BY ObserverFields, AgeFacts DEF Silent, ObserverRecord, Phases
  <1> HIDE DEF again
  <1>2. /\ obs' = [obs EXCEPT ![o] = again] \/ obs' = [obs EXCEPT ![o] = Ended(o, TRUE)]
        /\ history' = [history EXCEPT !.faults = history.faults + 1]
        /\ obs[o].phase \notin {"quiet", "done"}
        /\ UNCHANGED <<analyses, incident, sweeper, operator, said>>
    BY DEF CutShort, again
  <1>3. ObserverKept(o) /\ obs'[o] \in {again, Ended(o, TRUE)}
    <2>1. Ended(o, TRUE) \in ObserverRecord
      BY EndedFacts
    <2>2. CASE obs' = [obs EXCEPT ![o] = again]
      BY <2>2, <1>1, Replaced
    <2>3. CASE obs' = [obs EXCEPT ![o] = Ended(o, TRUE)]
      BY <2>3, <2>1, Replaced
    <2>4. QED
      BY <1>2, <2>2, <2>3
  <1>4. /\ history' \in HistoryRecord
        /\ history'.faults = history.faults + 1
        /\ history'.opened = history.opened /\ history'.seen = history.seen
        /\ history'.silent = history.silent /\ history'.blamed = history.blamed
        /\ history'.overlapped = history.overlapped /\ history'.changes = history.changes
    BY <1>2 DEF IncidentsTypeOK, HistoryRecord
  <1>5. IncidentsTypeOK'
    BY <1>2, <1>3, <1>4 DEF IncidentsTypeOK, ObserverKept
  <1>6. /\ Ended(o, TRUE).phase = "done" /\ Ended(o, TRUE).attempt = 0 /\ Ended(o, TRUE).cut
        /\ Ended(o, TRUE).repos = 0 /\ Ended(o, TRUE).orgs = 0 /\ Ended(o, TRUE).occurrences = 0
        /\ Ended(o, TRUE).provider = FALSE
    BY EndedFacts
  <1>7. QED
    BY <1>1, <1>2, <1>3, <1>4, <1>5, <1>6

(* Only the state of the incident changes. *)
StateOnly ==
    /\ incident'.severity = incident.severity /\ incident'.repos = incident.repos
    /\ incident'.orgs = incident.orgs /\ incident'.occurrences = incident.occurrences
    /\ incident'.first = incident.first /\ incident'.last = incident.last

HandlersBusy == operator # "idle" \/ \E o \in Observers : obs[o].phase \in Critical

LEMMA ResolveFacts ==
  ASSUME IncidentsTypeOK, ResolveStaleIncidentsDetailed
  PROVE  /\ IncidentsTypeOK' /\ StateOnly
         /\ ~sweeper /\ sweeper' /\ incident.state \in Active /\ incident.last > ResolveAfter
         /\ incident'.state = "resolved"
         /\ history'.opened = history.opened /\ history'.seen = history.seen
         /\ history'.faults = history.faults /\ history'.changes = history.changes
         /\ history'.silent = history.silent /\ history'.blamed = history.blamed
         /\ history.overlapped => history'.overlapped
         /\ HandlersBusy => history'.overlapped
         /\ UNCHANGED <<analyses, obs, operator, said>>
  <1>1. /\ ~sweeper /\ sweeper' = TRUE /\ incident.state \in Active /\ incident.last > ResolveAfter
        /\ incident' = [incident EXCEPT !.state = "resolved", !.resolved = 0]
        /\ UNCHANGED <<analyses, obs, operator, said>>
    BY DEF ResolveStaleIncidentsDetailed, Stale
  <1>2. history' = [history EXCEPT !.overlapped = history.overlapped \/ HandlersBusy]
    BY Zenon DEF ResolveStaleIncidentsDetailed, HandlersBusy
  <1>3. incident' \in IncidentRecord /\ incident'.state = "resolved" /\ StateOnly
    BY <1>1, AgeFacts DEF IncidentsTypeOK, IncidentRecord, StateOnly
  <1>4. history'.overlapped = (history.overlapped \/ HandlersBusy)
    BY <1>2, Zenon DEF IncidentsTypeOK, HistoryRecord
  <1>5. /\ history' \in HistoryRecord
        /\ history'.opened = history.opened /\ history'.seen = history.seen
        /\ history'.faults = history.faults /\ history'.changes = history.changes
        /\ history'.silent = history.silent /\ history'.blamed = history.blamed
    <2>1. history \in HistoryRecord /\ (history.overlapped \/ HandlersBusy) \in BOOLEAN
      BY RecordFields DEF IncidentsTypeOK, HandlersBusy
    <2> HIDE DEF HandlersBusy
    <2>2. QED
      BY <1>2, <2>1 DEF HistoryRecord
  <1>6. IncidentsTypeOK'
    BY <1>1, <1>3, <1>5 DEF IncidentsTypeOK
  <1>7. QED
    BY <1>1, <1>3, <1>4, <1>5, <1>6

LEMMA AnnounceResolvedFacts ==
  ASSUME IncidentsTypeOK, AnnounceResolved
  PROVE  /\ IncidentsTypeOK'
         /\ sweeper /\ ~sweeper' /\ said'.openings = said.openings /\ said'.last = "resolved"
         /\ UNCHANGED <<analyses, incident, obs, operator, history>>
  BY DEF IncidentsTypeOK, AnnounceResolved, SaidRecord

LEMMA ResolutionLostFacts ==
  ASSUME IncidentsTypeOK, ResolutionLost
  PROVE  /\ IncidentsTypeOK'
         /\ sweeper /\ ~sweeper'
         /\ history'.faults = history.faults + 1
         /\ history'.opened = history.opened /\ history'.seen = history.seen
         /\ history'.changes = history.changes
         /\ history'.silent = history.silent /\ history'.blamed = history.blamed
         /\ history'.overlapped = history.overlapped
         /\ UNCHANGED <<analyses, incident, obs, operator, said>>
  <1>1. /\ sweeper /\ sweeper' = FALSE
        /\ history' = [history EXCEPT !.faults = history.faults + 1]
        /\ UNCHANGED <<analyses, incident, obs, operator, said>>
    BY DEF ResolutionLost
  <1>2. /\ history' \in HistoryRecord
        /\ history'.faults = history.faults + 1
        /\ history'.opened = history.opened /\ history'.seen = history.seen
        /\ history'.changes = history.changes
        /\ history'.silent = history.silent /\ history'.blamed = history.blamed
        /\ history'.overlapped = history.overlapped
    BY <1>1 DEF IncidentsTypeOK, HistoryRecord
  <1>3. QED
    BY <1>1, <1>2 DEF IncidentsTypeOK

LEMMA UpdateFacts ==
  ASSUME IncidentsTypeOK, NEW s \in {"open", "acknowledged", "resolved"}, NEW announces \in BOOLEAN,
         UpdateIncidentState(s, announces)
  PROVE  /\ IncidentsTypeOK' /\ StateOnly
         /\ operator = "idle" /\ incident.state # "none" /\ incident'.state = s
         /\ ~announces => operator' = "idle" /\ history'.silent
         /\ announces => operator' = IF s = "resolved" THEN "resolved" ELSE "updated"
         /\ history'.opened = history.opened /\ history'.seen = history.seen
         /\ history'.faults = history.faults /\ history'.blamed = history.blamed
         /\ history.overlapped => history'.overlapped
         /\ history.silent => history'.silent
         /\ (sweeper \/ \E o \in Observers : obs[o].phase \in Critical) => history'.overlapped
         /\ UNCHANGED <<analyses, obs, sweeper, said>>
  <1> DEFINE busy == sweeper \/ \E o \in Observers : obs[o].phase \in Critical
             overlaps == history.overlapped \/ busy
             quiet == history.silent \/ ~announces
             changes == history.changes + 1
  <1>1. /\ operator = "idle" /\ incident.state # "none"
        /\ incident' = WithState(s)
        /\ ~announces => operator' = "idle"
        /\ announces => operator' = IF s = "resolved" THEN "resolved" ELSE "updated"
        /\ UNCHANGED <<analyses, obs, sweeper, said>>
    BY DEF UpdateIncidentState
  <1>2. history' = [history EXCEPT !.changes = changes, !.silent = quiet, !.overlapped = overlaps]
    <2>1. overlaps <=> (history.overlapped \/ sweeper \/ \E o \in Observers : obs[o].phase \in Critical)
      OBVIOUS
    <2>2. QED
      BY <2>1, Zenon DEF UpdateIncidentState
  <1>3. overlaps \in BOOLEAN /\ quiet \in BOOLEAN /\ changes \in Nat
    BY RecordFields DEF IncidentsTypeOK
  <1>4. (busy => overlaps) /\ (history.overlapped => overlaps) /\ (~announces => quiet) /\ (history.silent => quiet)
    OBVIOUS
  <1> HIDE DEF overlaps, quiet, changes
  <1>5. /\ history' \in HistoryRecord
        /\ history'.opened = history.opened /\ history'.seen = history.seen
        /\ history'.faults = history.faults /\ history'.blamed = history.blamed
    BY <1>2, <1>3 DEF IncidentsTypeOK, HistoryRecord
  <1>6. history'.overlapped = overlaps /\ history'.silent = quiet
    BY <1>2, Zenon DEF IncidentsTypeOK, HistoryRecord
  <1>7. incident' \in IncidentRecord /\ incident'.state = s /\ StateOnly
    <2>1. (IF s = "acknowledged" THEN incident.resolved ELSE 0) \in Ages
      BY RecordFields, AgeFacts
    <2>2. QED
      BY <1>1, <2>1 DEF WithState, IncidentsTypeOK, IncidentRecord, StateOnly
  <1>8. IncidentsTypeOK'
    <2>1. operator' \in {"idle", "resolved", "updated"}
      BY <1>1
    <2>2. QED
      BY <1>1, <1>5, <1>7, <2>1 DEF IncidentsTypeOK
  <1>9. QED
    BY <1>1, <1>4, <1>5, <1>6, <1>7, <1>8

LEMMA ChangeFacts ==
  ASSUME IncidentsTypeOK, ChangeIncidentState
  PROVE  /\ IncidentsTypeOK'
         /\ operator # "idle" /\ operator' = "idle"
         /\ said'.openings = said.openings /\ said'.last = operator
         /\ UNCHANGED <<analyses, incident, obs, sweeper, history>>
  BY DEF IncidentsTypeOK, ChangeIncidentState, SaidRecord

LEMMA NoneFacts == NoIncident \in IncidentRecord /\ NoIncident.state = "none"
  BY AgeFacts DEF NoIncident, IncidentRecord

LEMMA CleanupFacts ==
  ASSUME IncidentsTypeOK, Cleanup
  PROVE  /\ IncidentsTypeOK'
         /\ analyses' \subseteq analyses
         /\ incident' = incident \/ (incident.state = "resolved" /\ incident' = NoIncident)
         /\ UNCHANGED <<obs, sweeper, operator, said, history>>
  <1>1. analyses' \subseteq analyses /\ IsFiniteSet(analyses')
    BY FS_Subset DEF Cleanup, IncidentsTypeOK
  <1>2. /\ incident' = incident \/ (incident.state = "resolved" /\ incident' = NoIncident)
        /\ UNCHANGED <<obs, sweeper, operator, said, history>>
    BY DEF Cleanup, Removable
  <1>3. QED
    BY <1>1, <1>2, NoneFacts DEF IncidentsTypeOK

(* Time changes ages and nothing else. *)
Same(o) ==
    /\ obs'[o].phase = obs[o].phase /\ obs'[o].attempt = obs[o].attempt
    /\ obs'[o].prior = obs[o].prior /\ obs'[o].repos = obs[o].repos
    /\ obs'[o].orgs = obs[o].orgs /\ obs'[o].occurrences = obs[o].occurrences
    /\ obs'[o].provider = obs[o].provider /\ obs'[o].created = obs[o].created
    /\ obs'[o].cut = obs[o].cut

LEMMA TickFacts ==
  ASSUME IncidentsTypeOK, Tick
  PROVE  /\ IncidentsTypeOK'
         /\ \A o \in Observers : Same(o)
         /\ \A o \in Observers : obs[o].phase \in {"read", "write"} =>
              obs[o].stamp < Handling /\ obs'[o].stamp = Older(obs[o].stamp)
         /\ analyses' = {[a EXCEPT !.age = Older(a.age)] : a \in analyses}
         /\ incident'.state = incident.state /\ incident'.severity = incident.severity
         /\ incident'.repos = incident.repos /\ incident'.orgs = incident.orgs
         /\ incident'.occurrences = incident.occurrences
         /\ incident.state = "none" => incident' = incident
         /\ incident.state # "none" => incident'.last = Older(incident.last)
         /\ incident'.first >= incident.first
         /\ history'.seen = Older(history.seen)
         /\ history'.opened = history.opened
         /\ history'.faults = history.faults /\ history'.changes = history.changes
         /\ history'.silent = history.silent /\ history'.blamed = history.blamed
         /\ history'.overlapped = history.overlapped
         /\ UNCHANGED <<sweeper, operator, said>>
  <1> DEFINE age(o) == IF o \notin Stamped \/ obs[o].phase \in {"quiet", "done"}
                       THEN obs[o].age ELSE Older(obs[o].age)
             stamp(o) == IF obs[o].phase \in {"read", "write"} THEN Older(obs[o].stamp) ELSE obs[o].stamp
             r(o) == [obs[o] EXCEPT !.age = age(o), !.stamp = stamp(o)]
  <1>1. /\ \A o \in Observers : obs[o].phase \in {"read", "write"} => obs[o].stamp < Handling
        /\ analyses' = {[a EXCEPT !.age = Older(a.age)] : a \in analyses}
        /\ history' = [history EXCEPT !.seen = Older(history.seen)]
        /\ UNCHANGED <<sweeper, operator, said>>
    BY DEF Tick
  <1>2. obs' = [o \in Observers |-> r(o)]
    BY DEF Tick
  <1>3. ASSUME NEW o \in Observers
        PROVE  /\ obs'[o] \in ObserverRecord /\ Same(o) /\ obs'[o].stamp = stamp(o)
    <2>1. obs[o] \in ObserverRecord /\ age(o) \in Ages /\ stamp(o) \in Ages
      BY ObserverFields, AgeFacts
    <2>2. obs'[o] = r(o)
      BY <1>2
    <2> HIDE DEF age, stamp
    <2>3. r(o) \in ObserverRecord /\ r(o).stamp = stamp(o)
      BY <2>1 DEF ObserverRecord
    <2>4. /\ r(o).phase = obs[o].phase /\ r(o).attempt = obs[o].attempt
          /\ r(o).prior = obs[o].prior /\ r(o).repos = obs[o].repos
          /\ r(o).orgs = obs[o].orgs /\ r(o).occurrences = obs[o].occurrences
      BY <2>1 DEF ObserverRecord
    <2>5. /\ r(o).provider = obs[o].provider /\ r(o).created = obs[o].created
          /\ r(o).cut = obs[o].cut
      BY <2>1 DEF ObserverRecord
    <2> HIDE DEF r
    <2>6. QED
      BY <2>2, <2>3, <2>4, <2>5 DEF Same
  <1>4. obs' \in [Observers -> ObserverRecord]
    <2> HIDE DEF r
    <2>1. QED
      BY <1>2, <1>3
  <1>5. analyses' \subseteq AnalysisRecord /\ IsFiniteSet(analyses')
    <2>1. \A a \in analyses : [a EXCEPT !.age = Older(a.age)] \in AnalysisRecord
      BY AgeFacts DEF IncidentsTypeOK, AnalysisRecord
    <2> DEFINE f == [a \in analyses |-> [a EXCEPT !.age = Older(a.age)]]
    <2>2. f \in Surjection(analyses, analyses')
      BY <1>1 DEF Surjection
    <2>3. QED
      BY <1>1, <2>1, <2>2, FS_Surjection DEF IncidentsTypeOK
  <1>6. /\ history' \in HistoryRecord
        /\ history'.seen = Older(history.seen)
        /\ history'.opened = history.opened
        /\ history'.faults = history.faults /\ history'.changes = history.changes
        /\ history'.silent = history.silent /\ history'.blamed = history.blamed
        /\ history'.overlapped = history.overlapped
    <2>1. Older(history.seen) \in Ages
      BY RecordFields, AgeFacts
    <2>2. QED
      BY <1>1, <2>1 DEF IncidentsTypeOK, HistoryRecord
  <1>7. /\ incident' \in IncidentRecord
        /\ incident'.state = incident.state /\ incident'.severity = incident.severity
        /\ incident'.repos = incident.repos /\ incident'.orgs = incident.orgs
        /\ incident'.occurrences = incident.occurrences
        /\ incident.state = "none" => incident' = incident
        /\ incident.state # "none" => incident'.last = Older(incident.last)
        /\ incident'.first >= incident.first
    <2> DEFINE resolved == IF incident.state = "resolved" THEN Older(incident.resolved) ELSE incident.resolved
               first == Older(incident.first)
               last == Older(incident.last)
    <2>1. incident' = IF incident.state = "none" THEN incident
                      ELSE [incident EXCEPT !.first = first, !.last = last, !.resolved = resolved]
      BY DEF Tick
    <2>2. /\ first \in Ages /\ last \in Ages /\ resolved \in Ages /\ first >= incident.first
          /\ incident.first >= incident.first
      <3>1. incident.first \in Ages /\ incident.last \in Ages /\ incident.resolved \in Ages
        BY RecordFields
      <3>2. incident.first \in Nat /\ first \in Ages /\ first >= incident.first
        BY <3>1, AgeFacts
      <3>3. last \in Ages /\ resolved \in Ages
        BY <3>1, AgeFacts
      <3>4. QED
        BY <3>2, <3>3
    <2> HIDE DEF first, last, resolved
    <2>3. CASE incident.state = "none"
      BY <2>1, <2>2, <2>3 DEF IncidentsTypeOK
    <2>4. CASE incident.state # "none"
      <3>1. incident' = [incident EXCEPT !.first = first, !.last = last, !.resolved = resolved]
        BY <2>1, <2>4
      <3>2. /\ incident' \in IncidentRecord
            /\ incident'.state = incident.state /\ incident'.severity = incident.severity
            /\ incident'.repos = incident.repos /\ incident'.orgs = incident.orgs
            /\ incident'.occurrences = incident.occurrences
            /\ incident'.last = last /\ incident'.first = first
        BY <3>1, <2>2 DEF IncidentsTypeOK, IncidentRecord
      <3>3. QED
        BY <2>4, <3>2, <2>2 DEF last
    <2>5. QED
      BY <2>3, <2>4
  <1>8. IncidentsTypeOK'
    BY <1>1, <1>4, <1>5, <1>6, <1>7 DEF IncidentsTypeOK
  <1>9. QED
    BY <1>1, <1>3, <1>6, <1>7, <1>8

-----------------------------------------------------------------------------
(* The steps of the system, one by one. *)

CorrelateStep == \E o \in Observers, age \in Ages :
                    obs[o].phase \in {"quiet", "retry"} /\ Correlate(o, age)

LEMMA NextCases ==
  ASSUME IncidentsTypeOK, [Next]_vars
  PROVE  \/ CorrelateStep
         \/ \E o \in Observers : RecordAnalysisForTenant(o)
         \/ \E o \in Observers : Decide(o)
         \/ \E o \in Observers : Read(o)
         \/ \E o \in Observers : UpsertIncidentForTenant(o)
         \/ \E o \in Observers : Announce(o)
         \/ \E o \in Observers : CutShort(o)
         \/ ResolveStaleIncidentsDetailed \/ AnnounceResolved \/ ResolutionLost
         \/ \E s \in {"open", "acknowledged", "resolved"}, announces \in BOOLEAN :
              UpdateIncidentState(s, announces)
         \/ ChangeIncidentState
         \/ Cleanup
         \/ Tick
         \/ UNCHANGED vars
  <1>1. ASSUME NEW o \in Observers, NEW age \in Ages, Fail(o, age)
        PROVE  CorrelateStep
    BY <1>1, Zenon DEF Fail, CorrelateStep
  <1>2. ASSUME NEW o \in Observers, Retry(o)
        PROVE  CorrelateStep
    <2>1. obs[o].age \in Ages
      BY ObserverFields
    <2>2. QED
      BY <1>2, <2>1, Zenon DEF Retry, CorrelateStep
  <1>3. QED
    BY <1>1, <1>2, Zenon DEF Next, Step

LEMMA TypeKept ==
  ASSUME IncidentsTypeOK, [Next]_vars
  PROVE  IncidentsTypeOK'
  <1>1. ASSUME CorrelateStep PROVE IncidentsTypeOK'
    BY <1>1, CorrelateFacts DEF CorrelateStep
  <1>2. ASSUME UNCHANGED vars PROVE IncidentsTypeOK'
    BY <1>2 DEF vars, IncidentsTypeOK
  <1>3. QED
    BY <1>1, <1>2, NextCases, RecordFacts, DecideFacts, ReadFacts, UpsertFacts, AnnounceFacts,
       CutShortFacts, ResolveFacts, AnnounceResolvedFacts, ResolutionLostFacts, UpdateFacts,
       ChangeFacts, CleanupFacts, TickFacts

-----------------------------------------------------------------------------
(* Times *)

(* What keeps the incident, the last sighting and what the writing         *)
(* observers are doing keeps the times.                                    *)
LEMMA TimesFrame ==
  ASSUME IncidentsTypeOK, TimesInv,
         incident' = incident, history'.seen = history.seen,
         NEW o \in Observers, ObserverKept(o),
         obs'[o].phase \in {"read", "write"} => obs'[o].stamp <= Handling
  PROVE  TimesInv'
  BY DEF TimesInv, ObserverKept

LEMMA TimesKept ==
  ASSUME IncidentsTypeOK, TimesInv, [Next]_vars
  PROVE  TimesInv'
  <1>1. ASSUME CorrelateStep PROVE TimesInv'
    <2>1. PICK o \in Observers, age \in Ages : Correlate(o, age)
      BY <1>1 DEF CorrelateStep
    <2>2. QED
      BY <2>1, CorrelateFacts, TimesFrame
  <1>2. ASSUME NEW o \in Observers, RecordAnalysisForTenant(o) PROVE TimesInv'
    BY <1>2, RecordFacts, TimesFrame
  <1>3. ASSUME NEW o \in Observers, Decide(o) PROVE TimesInv'
    <2>1. 0 <= Handling
      BY TimingAssumption
    <2>2. obs'[o].phase \in {"read", "write"} => obs'[o].stamp <= Handling
      BY <1>3, <2>1, DecideFacts, EndedFacts
    <2>3. QED
      BY <1>3, <2>2, DecideFacts, TimesFrame
  <1>4. ASSUME NEW o \in Observers, Read(o) PROVE TimesInv'
    <2>1. obs'[o].stamp <= Handling
      BY <1>4, ReadFacts DEF TimesInv
    <2>2. QED
      BY <1>4, <2>1, ReadFacts, TimesFrame
  <1>5. ASSUME NEW o \in Observers, UpsertIncidentForTenant(o) PROVE TimesInv'
    <2>1. obs[o].stamp \in Nat /\ obs[o].stamp <= Handling /\ Handling \in Nat
      <3>1. obs[o].stamp \in Ages
        BY ObserverFields
      <3>2. obs[o].phase = "write"
        BY <1>5, UpsertFacts
      <3>3. QED
        BY <3>1, <3>2, AgeFacts, TimingAssumption DEF TimesInv
    <2>2. incident'.last = obs[o].stamp /\ incident'.state # "none"
      BY <1>5, UpsertFacts, UpsertedFacts
    <2>3. incident'.last <= history'.seen + Handling
      <3>1. history.seen \in Nat
        BY RecordFields, AgeFacts
      <3>2. history'.seen \in {obs[o].stamp, history.seen}
        BY <1>5, <2>1, <3>1, UpsertFacts, SmallerFacts
      <3>3. QED
        BY <2>1, <2>2, <3>1, <3>2
    <2>4. \A p \in Observers : obs'[p].phase \in {"read", "write"} => obs'[p].stamp <= Handling
      BY <1>5, UpsertFacts DEF ObserverKept, TimesInv
    <2>5. QED
      BY <2>2, <2>3, <2>4 DEF TimesInv
  <1>6. ASSUME NEW o \in Observers, Announce(o) PROVE TimesInv'
    BY <1>6, AnnounceFacts, EndedFacts, TimesFrame
  <1>7. ASSUME NEW o \in Observers, CutShort(o) PROVE TimesInv'
    BY <1>7, CutShortFacts, TimesFrame
  <1>8. ASSUME ResolveStaleIncidentsDetailed PROVE TimesInv'
    BY <1>8, ResolveFacts DEF TimesInv, StateOnly, Active
  <1>9. ASSUME AnnounceResolved PROVE TimesInv'
    BY <1>9, AnnounceResolvedFacts DEF TimesInv
  <1>10. ASSUME ResolutionLost PROVE TimesInv'
    BY <1>10, ResolutionLostFacts DEF TimesInv
  <1>11. ASSUME NEW s \in {"open", "acknowledged", "resolved"}, NEW announces \in BOOLEAN,
                UpdateIncidentState(s, announces)
         PROVE  TimesInv'
    BY <1>11, UpdateFacts DEF TimesInv, StateOnly
  <1>12. ASSUME ChangeIncidentState PROVE TimesInv'
    BY <1>12, ChangeFacts DEF TimesInv
  <1>13. ASSUME Cleanup PROVE TimesInv'
    BY <1>13, CleanupFacts, NoneFacts DEF TimesInv
  <1>14. ASSUME Tick PROVE TimesInv'
    <2>1. \A o \in Observers : obs'[o].phase \in {"read", "write"} => obs'[o].stamp <= Handling
      <3>1. ASSUME NEW o \in Observers, obs'[o].phase \in {"read", "write"}
            PROVE  obs'[o].stamp <= Handling
        <4>1. obs[o].phase \in {"read", "write"}
          BY <1>14, <3>1, TickFacts DEF Same
        <4>2. obs[o].stamp < Handling /\ obs'[o].stamp = Older(obs[o].stamp)
          BY <1>14, <4>1, TickFacts
        <4>3. obs[o].stamp \in Ages
          BY ObserverFields
        <4>4. obs[o].stamp \in Nat /\ Older(obs[o].stamp) \in Nat /\ Older(obs[o].stamp) <= obs[o].stamp + 1
          BY <4>3, AgeFacts
        <4>5. QED
          BY <4>2, <4>4, TimingAssumption
      <3>2. QED
        BY <3>1
    <2>2. ASSUME incident'.state # "none"
          PROVE  incident'.last <= history'.seen + Handling
      <3>1. /\ incident.state # "none" /\ incident'.last = Older(incident.last)
            /\ history'.seen = Older(history.seen)
        BY <1>14, <2>2, TickFacts
      <3>2. incident.last <= history.seen + Handling
        BY <3>1 DEF TimesInv
      <3>3. incident.last \in Ages /\ history.seen \in Ages
        BY RecordFields
      <3>4. /\ incident.last \in Nat /\ history.seen \in Nat
            /\ Older(incident.last) \in Nat /\ Older(incident.last) <= incident.last + 1
            /\ Older(incident.last) <= MaxAge
            /\ Older(history.seen) \in Nat
            /\ (Older(history.seen) = history.seen + 1 \/ Older(history.seen) = MaxAge)
        <4>1. Older(incident.last) \in Ages
          BY <3>3, AgeFacts
        <4>2. QED
          BY <3>3, <4>1, AgeFacts
      <3>5. QED
        BY <3>1, <3>2, <3>4, AgeFacts, TimingAssumption
    <2>3. incident'.state = "none" => incident' = NoIncident
      BY <1>14, TickFacts DEF TimesInv
    <2>4. QED
      BY <2>1, <2>2, <2>3 DEF TimesInv
  <1>15. ASSUME UNCHANGED vars PROVE TimesInv'
    BY <1>15 DEF vars, TimesInv
  <1>16. QED
    BY <1>1, <1>2, <1>3, <1>4, <1>5, <1>6, <1>7, <1>8, <1>9, <1>10, <1>11, <1>12, <1>13, <1>14,
       <1>15, NextCases

-----------------------------------------------------------------------------
(* Counts *)

LEMMA CountTypes ==
  ASSUME IncidentsTypeOK
  PROVE  /\ IsFiniteSet(Started) /\ Cardinality(Started) \in Nat /\ Started \subseteq Observers
         /\ IsFiniteSet(Attempting) /\ Cardinality(Attempting) \in Nat
         /\ Attempting \subseteq Observers
         /\ IsFiniteSet(analyses) /\ Cardinality(analyses) \in Nat
         /\ history.faults \in Nat
  <1>1. Started \subseteq Observers /\ Attempting \subseteq Observers
    BY DEF Started, Attempting
  <1>2. IsFiniteSet(Started) /\ IsFiniteSet(Attempting) /\ IsFiniteSet(analyses)
    BY <1>1, BoundsAssumption, FS_Subset DEF IncidentsTypeOK
  <1>3. QED
    BY <1>1, <1>2, FS_CardinalityType, RecordFields

(* Sets that grow by at most one element. *)
LEMMA OneMore ==
  ASSUME NEW S, NEW T, NEW x, IsFiniteSet(S), T \subseteq S \cup {x}
  PROVE  /\ IsFiniteSet(T) /\ Cardinality(T) \in Nat /\ Cardinality(S) \in Nat
         /\ Cardinality(T) <= Cardinality(S) + 1
         /\ x \in S => Cardinality(T) <= Cardinality(S)
  <1>1. IsFiniteSet(S \cup {x}) /\ Cardinality(S \cup {x}) \in Nat /\ Cardinality(S) \in Nat
    BY FS_AddElement, FS_CardinalityType
  <1>2. Cardinality(S \cup {x}) <= Cardinality(S) + 1 /\ (x \in S => Cardinality(S \cup {x}) = Cardinality(S))
    BY <1>1, FS_AddElement
  <1>3. IsFiniteSet(T) /\ Cardinality(T) \in Nat /\ Cardinality(T) <= Cardinality(S \cup {x})
    BY <1>1, FS_Subset, FS_CardinalityType
  <1>4. QED
    BY <1>1, <1>2, <1>3

(* Once started, an observer stays counted: nobody's attempts are forgotten *)
(* but by those that are done.                                             *)
LEMMA StartedOf ==
  ASSUME IncidentsTypeOK, IncidentsTypeOK', CountInv, NEW o \in Observers, ObserverKept(o),
         obs'[o].attempt \in Nat,
         obs'[o].phase # "quiet", obs'[o].phase # "done" => obs'[o].attempt > 0
  PROVE  /\ Started' = Started \cup {o}
         /\ obs'[o].phase \in {"retry", "record"} => Attempting' = Attempting \cup {o}
         /\ obs'[o].phase \notin {"retry", "record"} => Attempting' = Attempting \ {o}
         /\ \A p \in Observers : obs'[p].phase = "quiet" => obs'[p].attempt = 0
         /\ \A p \in Observers : obs'[p].phase \notin {"quiet", "done"} => obs'[p].attempt > 0
  <1>1. Started' = Started \cup {o}
    BY DEF Started, ObserverKept
  <1>2. obs'[o].phase \in {"retry", "record"} => Attempting' = Attempting \cup {o}
    BY DEF Attempting, ObserverKept
  <1>3. obs'[o].phase \notin {"retry", "record"} => Attempting' = Attempting \ {o}
    BY DEF Attempting, ObserverKept
  <1>4. /\ \A p \in Observers : obs'[p].phase = "quiet" => obs'[p].attempt = 0
        /\ \A p \in Observers : obs'[p].phase \notin {"quiet", "done"} => obs'[p].attempt > 0
    BY DEF CountInv, ObserverKept
  <1>5. QED
    BY <1>1, <1>2, <1>3, <1>4

(* A step of an observer that has started, is not done, and is not about   *)
(* to attempt again: nothing is counted.                                   *)
LEMMA CountFrame ==
  ASSUME IncidentsTypeOK, IncidentsTypeOK', CountInv, NEW o \in Observers, ObserverKept(o),
         obs[o].phase \notin {"quiet", "done"},
         obs'[o].phase \notin {"quiet", "retry", "record"},
         obs'[o].attempt = obs[o].attempt \/ obs'[o].phase = "done",
         analyses' \subseteq analyses, history'.faults = history.faults
  PROVE  CountInv'
  <1>1. obs'[o].attempt \in Nat /\ obs[o].attempt > 0
    BY ObserverFields DEF CountInv, IncidentsTypeOK, ObserverRecord
  <1>2. /\ Started' = Started \cup {o} /\ Attempting' = Attempting \ {o}
        /\ \A p \in Observers : obs'[p].phase = "quiet" => obs'[p].attempt = 0
        /\ \A p \in Observers : obs'[p].phase \notin {"quiet", "done"} => obs'[p].attempt > 0
    BY <1>1, StartedOf
  <1>3. o \in Started
    BY <1>1 DEF Started
  <1>4. Started' = Started
    BY <1>2, <1>3
  <1>5. Cardinality(analyses') <= Cardinality(analyses) /\ Cardinality(Attempting') <= Cardinality(Attempting)
    BY <1>2, CountTypes, FS_Subset
  <1>6. /\ Cardinality(analyses') \in Nat /\ Cardinality(Attempting') \in Nat
        /\ Cardinality(analyses) \in Nat /\ Cardinality(Attempting) \in Nat
        /\ Cardinality(Started) \in Nat /\ history.faults \in Nat
    <2>1. IsFiniteSet(analyses') /\ IsFiniteSet(Attempting')
      BY <1>2, CountTypes, FS_Subset
    <2>2. QED
      BY <2>1, CountTypes, FS_CardinalityType
  <1>7. Cardinality(analyses') + Cardinality(Attempting') <= Cardinality(Started') + history'.faults
    <2>1. Cardinality(analyses) + Cardinality(Attempting) <= Cardinality(Started) + history.faults
      BY DEF CountInv
    <2>2. Cardinality(Started') = Cardinality(Started)
      BY <1>4
    <2>3. QED
      BY <1>5, <1>6, <2>1, <2>2
  <1>8. \A a \in analyses' : a.by \in Started'
    BY <1>4 DEF CountInv
  <1>9. QED
    BY <1>2, <1>7, <1>8 DEF CountInv

(* A step that is no observer's. *)
LEMMA CountIdle ==
  ASSUME IncidentsTypeOK, CountInv,
         obs' = obs, IncidentsTypeOK',
         analyses' \subseteq analyses, history'.faults \in {history.faults, history.faults + 1}
  PROVE  CountInv'
  <1>1. \A o \in Observers : obs'[o].phase = obs[o].phase /\ obs'[o].attempt = obs[o].attempt
    OBVIOUS
  <1>2. Started' = Started /\ Attempting' = Attempting
    BY <1>1 DEF Started, Attempting
  <1>3. Cardinality(analyses') <= Cardinality(analyses) /\ Cardinality(analyses') \in Nat
    BY CountTypes, FS_Subset, FS_CardinalityType
  <1>4. Cardinality(analyses') + Cardinality(Attempting') <= Cardinality(Started') + history'.faults
    <2>1. Cardinality(analyses) + Cardinality(Attempting) <= Cardinality(Started) + history.faults
      BY DEF CountInv
    <2>2. Cardinality(Started') = Cardinality(Started) /\ Cardinality(Attempting') = Cardinality(Attempting)
      BY <1>2
    <2>3. QED
      BY <1>3, <2>1, <2>2, CountTypes
  <1>5. \A a \in analyses' : a.by \in Started'
    BY <1>2 DEF CountInv
  <1>6. /\ \A o \in Observers : obs'[o].phase = "quiet" => obs'[o].attempt = 0
        /\ \A o \in Observers : obs'[o].phase \notin {"quiet", "done"} => obs'[o].attempt > 0
    BY <1>1 DEF CountInv
  <1>7. QED
    BY <1>4, <1>5, <1>6 DEF CountInv

LEMMA CorrelateCounts ==
  ASSUME IncidentsTypeOK, CountInv, NEW o \in Observers, NEW age \in Ages,
         obs[o].phase \in {"quiet", "retry"}, Correlate(o, age)
  PROVE  CountInv' /\ Started' = Started \cup {o} /\ o \in Attempting'
  <1>1. /\ ObserverKept(o) /\ IncidentsTypeOK' /\ obs'[o].phase = "record"
        /\ obs'[o].attempt = obs[o].attempt + 1 /\ analyses' = analyses /\ history' = history
    BY CorrelateFacts
  <1>2. obs[o].attempt \in Nat
    BY ObserverFields
  <1>3. /\ Started' = Started \cup {o} /\ Attempting' = Attempting \cup {o}
        /\ \A p \in Observers : obs'[p].phase = "quiet" => obs'[p].attempt = 0
        /\ \A p \in Observers : obs'[p].phase \notin {"quiet", "done"} => obs'[p].attempt > 0
    BY <1>1, <1>2, StartedOf
  <1>4. Cardinality(analyses) + Cardinality(Attempting) <= Cardinality(Started) + history.faults
    BY DEF CountInv
  <1>5. Cardinality(analyses') + Cardinality(Attempting') <= Cardinality(Started') + history'.faults
    <2>1. CASE obs[o].phase = "quiet"
      <3>1. o \notin Started
        BY <2>1, <1>2 DEF Started, CountInv
      <3>2. Cardinality(Started') = Cardinality(Started) + 1
        BY <1>3, <3>1, CountTypes, FS_AddElement
      <3>3. Cardinality(Attempting') <= Cardinality(Attempting) + 1 /\ Cardinality(Attempting') \in Nat
        BY <1>3, CountTypes, OneMore
      <3>4. Cardinality(analyses') = Cardinality(analyses) /\ history'.faults = history.faults
        BY <1>1
      <3>5. QED
        BY <1>4, <3>2, <3>3, <3>4, CountTypes
    <2>2. CASE obs[o].phase = "retry"
      <3>1. o \in Started /\ o \in Attempting
        BY <2>2, <1>2 DEF Started, Attempting, CountInv
      <3>2. Started' = Started /\ Attempting' = Attempting
        BY <1>3, <3>1
      <3>3. QED
        BY <1>1, <1>4, <3>2
    <2>3. QED
      BY <2>1, <2>2
  <1>6. \A a \in analyses' : a.by \in Started'
    BY <1>1, <1>3 DEF CountInv
  <1>7. QED
    BY <1>3, <1>5, <1>6 DEF CountInv

LEMMA RecordCounts ==
  ASSUME IncidentsTypeOK, CountInv, NEW o \in Observers, RecordAnalysisForTenant(o)
  PROVE  CountInv'
  <1>1. /\ ObserverKept(o) /\ IncidentsTypeOK' /\ obs[o].phase = "record" /\ obs'[o].phase = "decide"
        /\ obs'[o].attempt = obs[o].attempt /\ history'.faults = history.faults
    BY RecordFacts
  <1>2. PICK a : a.by = o /\ analyses' = analyses \cup {a}
    BY RecordFacts
  <1>3. obs[o].attempt \in Nat /\ obs[o].attempt > 0
    BY <1>1, ObserverFields DEF CountInv
  <1>4. /\ Started' = Started \cup {o} /\ Attempting' = Attempting \ {o}
        /\ \A p \in Observers : obs'[p].phase = "quiet" => obs'[p].attempt = 0
        /\ \A p \in Observers : obs'[p].phase \notin {"quiet", "done"} => obs'[p].attempt > 0
    BY <1>1, <1>3, StartedOf
  <1>5. o \in Started /\ o \in Attempting
    BY <1>1, <1>3 DEF Started, Attempting
  <1>6. Started' = Started
    BY <1>4, <1>5
  <1>7. Cardinality(Attempting') = Cardinality(Attempting) - 1
    BY <1>4, <1>5, CountTypes, FS_RemoveElement
  <1>8. Cardinality(analyses') <= Cardinality(analyses) + 1 /\ Cardinality(analyses') \in Nat
    BY <1>2, CountTypes, OneMore
  <1>9. Cardinality(analyses') + Cardinality(Attempting') <= Cardinality(Started') + history'.faults
    <2>1. Cardinality(analyses) + Cardinality(Attempting) <= Cardinality(Started) + history.faults
      BY DEF CountInv
    <2>2. Cardinality(Started') = Cardinality(Started) /\ history'.faults = history.faults
      BY <1>1, <1>6
    <2>3. QED
      BY <1>7, <1>8, <2>1, <2>2, CountTypes
  <1>10. \A b \in analyses' : b.by \in Started'
    BY <1>2, <1>5, <1>6 DEF CountInv
  <1>11. QED
    BY <1>4, <1>9, <1>10 DEF CountInv

LEMMA CutShortCounts ==
  ASSUME IncidentsTypeOK, CountInv, NEW o \in Observers, CutShort(o)
  PROVE  CountInv' /\ Started' = Started
  <1>1. /\ ObserverKept(o) /\ IncidentsTypeOK' /\ obs[o].phase \notin {"quiet", "done"}
        /\ analyses' = analyses /\ history'.faults = history.faults + 1
        /\ \/ obs'[o].phase = "retry" /\ obs'[o].attempt = obs[o].attempt
           \/ obs'[o].phase = "done" /\ obs'[o].attempt = 0
    BY CutShortFacts
  <1>2. obs[o].attempt \in Nat /\ obs[o].attempt > 0
    BY <1>1, ObserverFields DEF CountInv
  <1>3. obs'[o].attempt \in Nat /\ obs'[o].phase # "quiet" /\ (obs'[o].phase # "done" => obs'[o].attempt > 0)
    BY <1>1, <1>2
  <1>4. /\ Started' = Started \cup {o} /\ Attempting' \subseteq Attempting \cup {o}
        /\ \A p \in Observers : obs'[p].phase = "quiet" => obs'[p].attempt = 0
        /\ \A p \in Observers : obs'[p].phase \notin {"quiet", "done"} => obs'[p].attempt > 0
    BY <1>1, <1>3, StartedOf
  <1>5. Started' = Started
    BY <1>2, <1>4 DEF Started
  <1>6. Cardinality(Attempting') <= Cardinality(Attempting) + 1 /\ Cardinality(Attempting') \in Nat
    BY <1>4, CountTypes, OneMore
  <1>7. Cardinality(analyses') + Cardinality(Attempting') <= Cardinality(Started') + history'.faults
    <2>1. Cardinality(analyses) + Cardinality(Attempting) <= Cardinality(Started) + history.faults
      BY DEF CountInv
    <2>2. Cardinality(Started') = Cardinality(Started) /\ Cardinality(analyses') = Cardinality(analyses)
      BY <1>1, <1>5
    <2>3. QED
      BY <1>1, <1>6, <2>1, <2>2, CountTypes
  <1>8. \A a \in analyses' : a.by \in Started'
    BY <1>1, <1>5 DEF CountInv
  <1>9. QED
    BY <1>4, <1>5, <1>7, <1>8 DEF CountInv

LEMMA TickCounts ==
  ASSUME IncidentsTypeOK, CountInv, Tick
  PROVE  CountInv'
  <1>1. /\ \A o \in Observers : obs'[o].phase = obs[o].phase /\ obs'[o].attempt = obs[o].attempt
        /\ analyses' = {[a EXCEPT !.age = Older(a.age)] : a \in analyses}
        /\ history'.faults = history.faults /\ IncidentsTypeOK'
    BY TickFacts DEF Same
  <1>2. Started' = Started /\ Attempting' = Attempting
    BY <1>1 DEF Started, Attempting
  <1>3. Cardinality(analyses') <= Cardinality(analyses) /\ Cardinality(analyses') \in Nat
    <2> DEFINE f == [a \in analyses |-> [a EXCEPT !.age = Older(a.age)]]
    <2>1. f \in Surjection(analyses, analyses')
      BY <1>1 DEF Surjection
    <2>2. IsFiniteSet(analyses)
      BY CountTypes
    <2> HIDE DEF f
    <2>3. Cardinality(analyses') <= Cardinality(analyses) /\ IsFiniteSet(analyses')
      BY <2>1, <2>2, FS_Surjection
    <2>4. QED
      BY <2>3, FS_CardinalityType
  <1>4. Cardinality(analyses') + Cardinality(Attempting') <= Cardinality(Started') + history'.faults
    <2>1. Cardinality(analyses) + Cardinality(Attempting) <= Cardinality(Started) + history.faults
      BY DEF CountInv
    <2>2. /\ Cardinality(Started') = Cardinality(Started) /\ Cardinality(Attempting') = Cardinality(Attempting)
          /\ history'.faults = history.faults
      BY <1>1, <1>2
    <2>3. QED
      BY <1>3, <2>1, <2>2, CountTypes
  <1>5. \A a \in analyses' : a.by \in Started'
    <2>1. \A a \in analyses : [a EXCEPT !.age = Older(a.age)].by = a.by
      BY DEF IncidentsTypeOK, AnalysisRecord
    <2>2. QED
      BY <1>1, <1>2, <2>1 DEF CountInv
  <1>6. /\ \A o \in Observers : obs'[o].phase = "quiet" => obs'[o].attempt = 0
        /\ \A o \in Observers : obs'[o].phase \notin {"quiet", "done"} => obs'[o].attempt > 0
    BY <1>1 DEF CountInv
  <1>7. QED
    BY <1>4, <1>5, <1>6 DEF CountInv

LEMMA CountKept ==
  ASSUME IncidentsTypeOK, CountInv, [Next]_vars
  PROVE  CountInv'
  <1>0. IncidentsTypeOK'
    BY TypeKept
  <1>1. ASSUME CorrelateStep PROVE CountInv'
    BY <1>1, CorrelateCounts DEF CorrelateStep
  <1>2. ASSUME NEW o \in Observers, RecordAnalysisForTenant(o) PROVE CountInv'
    BY <1>2, RecordCounts
  <1>3. ASSUME NEW o \in Observers, Decide(o) PROVE CountInv'
    <2>1. /\ ObserverKept(o) /\ obs[o].phase = "decide" /\ obs'[o].phase \in {"read", "done"}
          /\ obs'[o].attempt = obs[o].attempt \/ obs'[o].phase = "done"
          /\ UNCHANGED <<analyses, history>>
      BY <1>3, DecideFacts, EndedFacts
    <2>2. QED
      BY <1>0, <2>1, CountFrame
  <1>4. ASSUME NEW o \in Observers, Read(o) PROVE CountInv'
    BY <1>0, <1>4, ReadFacts, CountFrame
  <1>5. ASSUME NEW o \in Observers, UpsertIncidentForTenant(o) PROVE CountInv'
    BY <1>0, <1>5, UpsertFacts, CountFrame
  <1>6. ASSUME NEW o \in Observers, Announce(o) PROVE CountInv'
    <2>1. /\ ObserverKept(o) /\ obs[o].phase = "announce" /\ obs'[o].phase = "done"
          /\ UNCHANGED <<analyses, history>>
      BY <1>6, AnnounceFacts, EndedFacts
    <2>2. QED
      BY <1>0, <2>1, CountFrame
  <1>7. ASSUME NEW o \in Observers, CutShort(o) PROVE CountInv'
    BY <1>7, CutShortCounts
  <1>8. ASSUME ResolveStaleIncidentsDetailed PROVE CountInv'
    BY <1>0, <1>8, ResolveFacts, CountIdle
  <1>9. ASSUME AnnounceResolved PROVE CountInv'
    BY <1>0, <1>9, AnnounceResolvedFacts, CountIdle
  <1>10. ASSUME ResolutionLost PROVE CountInv'
    BY <1>0, <1>10, ResolutionLostFacts, CountIdle
  <1>11. ASSUME NEW s \in {"open", "acknowledged", "resolved"}, NEW announces \in BOOLEAN,
                UpdateIncidentState(s, announces)
         PROVE  CountInv'
    BY <1>0, <1>11, UpdateFacts, CountIdle
  <1>12. ASSUME ChangeIncidentState PROVE CountInv'
    BY <1>0, <1>12, ChangeFacts, CountIdle
  <1>13. ASSUME Cleanup PROVE CountInv'
    BY <1>0, <1>13, CleanupFacts, CountIdle
  <1>14. ASSUME Tick PROVE CountInv'
    BY <1>14, TickCounts
  <1>15. ASSUME UNCHANGED vars PROVE CountInv'
    <2>1. obs' = obs /\ analyses' \subseteq analyses /\ history'.faults = history.faults
      BY <1>15 DEF vars
    <2>2. QED
      BY <1>0, <2>1, CountIdle
  <1>16. QED
    BY <1>1, <1>2, <1>3, <1>4, <1>5, <1>6, <1>7, <1>8, <1>9, <1>10, <1>11, <1>12, <1>13, <1>14,
       <1>15, NextCases

-----------------------------------------------------------------------------
(* Bounds: what is counted never goes below what was counted before. *)

LEMMA Grown ==
  ASSUME IncidentsTypeOK, CountInv, [Next]_vars
  PROVE  /\ Started \subseteq Started'
         /\ history.faults <= history'.faults /\ history.opened <= history'.opened
         /\ history.blamed => history'.blamed
  <1>0. history.faults \in Nat /\ history.opened \in Nat
    BY RecordFields
  <1> DEFINE Goal == /\ Started \subseteq Started'
                     /\ history.faults <= history'.faults /\ history.opened <= history'.opened
                     /\ history.blamed => history'.blamed
  <1>1. ASSUME NEW o \in Observers, ObserverKept(o),
               obs'[o].attempt > 0 \/ obs'[o].phase = "done"
        PROVE  Started \subseteq Started'
    BY <1>1 DEF Started, ObserverKept
  <1>2. ASSUME NEW o \in Observers, obs[o].phase \notin {"quiet", "done"}
        PROVE  obs[o].attempt > 0
    BY <1>2 DEF CountInv
  <1>3. ASSUME obs' = obs \/ \A o \in Observers : Same(o)
        PROVE  Started \subseteq Started'
    BY <1>3 DEF Started, Same
  <1>4. ASSUME CorrelateStep PROVE Goal
    <2>1. PICK o \in Observers, age \in Ages : Correlate(o, age)
      BY <1>4 DEF CorrelateStep
    <2>2. ObserverKept(o) /\ obs'[o].attempt = obs[o].attempt + 1 /\ history' = history
      BY <2>1, CorrelateFacts
    <2>3. obs[o].attempt \in Nat
      BY ObserverFields
    <2>4. Started \subseteq Started'
      BY <1>1, <2>2, <2>3
    <2>5. QED
      BY <1>0, <2>2, <2>4
  <1>5. ASSUME NEW o \in Observers, RecordAnalysisForTenant(o) PROVE Goal
    <2>1. /\ ObserverKept(o) /\ obs'[o].attempt = obs[o].attempt /\ obs[o].phase = "record"
          /\ history'.faults = history.faults /\ history'.opened = history.opened
          /\ history.blamed => history'.blamed
      BY <1>5, RecordFacts
    <2>2. QED
      BY <1>0, <1>1, <1>2, <2>1
  <1>6. ASSUME NEW o \in Observers, Decide(o) PROVE Goal
    <2>1. /\ ObserverKept(o)
          /\ obs'[o].attempt = obs[o].attempt \/ obs'[o].phase = "done"
          /\ obs[o].phase = "decide" /\ history' = history
      BY <1>6, DecideFacts, EndedFacts
    <2>2. QED
      BY <1>0, <1>1, <1>2, <2>1
  <1>7. ASSUME NEW o \in Observers, Read(o) PROVE Goal
    <2>1. /\ ObserverKept(o) /\ obs'[o].attempt = obs[o].attempt /\ obs[o].phase = "read"
          /\ history'.faults = history.faults /\ history'.opened = history.opened
          /\ history'.blamed = history.blamed
      BY <1>7, ReadFacts
    <2>2. QED
      BY <1>0, <1>1, <1>2, <2>1
  <1>8. ASSUME NEW o \in Observers, UpsertIncidentForTenant(o) PROVE Goal
    <2>1. /\ ObserverKept(o) /\ obs'[o].attempt = obs[o].attempt /\ obs[o].phase = "write"
          /\ history'.faults = history.faults
          /\ history'.opened = history.opened + (IF Created THEN 1 ELSE 0)
          /\ history'.blamed = history.blamed
      BY <1>8, UpsertFacts
    <2>2. history.opened <= history'.opened
      BY <1>0, <2>1
    <2>3. QED
      BY <1>0, <1>1, <1>2, <2>1, <2>2
  <1>9. ASSUME NEW o \in Observers, Announce(o) PROVE Goal
    <2>1. ObserverKept(o) /\ obs'[o].phase = "done" /\ history' = history
      BY <1>9, AnnounceFacts, EndedFacts
    <2>2. QED
      BY <1>0, <1>1, <2>1
  <1>10. ASSUME NEW o \in Observers, CutShort(o) PROVE Goal
    <2>1. /\ Started' = Started /\ history'.faults = history.faults + 1
          /\ history'.opened = history.opened /\ history'.blamed = history.blamed
      BY <1>10, CutShortCounts, CutShortFacts
    <2>2. QED
      BY <1>0, <2>1
  <1>11. ASSUME ResolveStaleIncidentsDetailed PROVE Goal
    BY <1>0, <1>3, <1>11, ResolveFacts
  <1>12. ASSUME AnnounceResolved PROVE Goal
    BY <1>0, <1>3, <1>12, AnnounceResolvedFacts
  <1>13. ASSUME ResolutionLost PROVE Goal
    BY <1>0, <1>3, <1>13, ResolutionLostFacts
  <1>14. ASSUME NEW s \in {"open", "acknowledged", "resolved"}, NEW announces \in BOOLEAN,
                UpdateIncidentState(s, announces)
         PROVE  Goal
    BY <1>0, <1>3, <1>14, UpdateFacts
  <1>15. ASSUME ChangeIncidentState PROVE Goal
    BY <1>0, <1>3, <1>15, ChangeFacts
  <1>16. ASSUME Cleanup PROVE Goal
    BY <1>0, <1>3, <1>16, CleanupFacts
  <1>17. ASSUME Tick PROVE Goal
    BY <1>0, <1>3, <1>17, TickFacts
  <1>18. ASSUME UNCHANGED vars PROVE Goal
    BY <1>0, <1>3, <1>18 DEF vars
  <1> HIDE DEF Goal
  <1>19. Goal
    BY <1>4, <1>5, <1>6, <1>7, <1>8, <1>9, <1>10, <1>11, <1>12, <1>13, <1>14, <1>15, <1>16, <1>17,
       <1>18, NextCases
  <1>20. QED
    BY <1>19 DEF Goal

(* What is above a count stays above it. *)
LEMMA BoundsGrow ==
  ASSUME IncidentsTypeOK, CountInv, [Next]_vars
  PROVE  /\ Cardinality(ReposOf(Started)) \in Nat /\ Cardinality(ReposOf(Started')) \in Nat
         /\ Cardinality(ReposOf(Started)) <= Cardinality(ReposOf(Started'))
         /\ Cardinality(OrgsOf(Started)) \in Nat /\ Cardinality(OrgsOf(Started')) \in Nat
         /\ Cardinality(OrgsOf(Started)) <= Cardinality(OrgsOf(Started'))
         /\ Cardinality(Started) + history.faults \in Nat
         /\ Cardinality(Started') + history'.faults \in Nat
         /\ Cardinality(Started) + history.faults <= Cardinality(Started') + history'.faults
  <1>1. Started \subseteq Started' /\ history.faults <= history'.faults
    BY Grown
  <1>2. Started' \subseteq Observers /\ IsFiniteSet(Started') /\ Cardinality(Started') \in Nat
        /\ history'.faults \in Nat
    <2>1. IncidentsTypeOK'
      BY TypeKept
    <2>2. Started' \subseteq Observers
      BY DEF Started
    <2>3. IsFiniteSet(Started')
      BY <2>2, BoundsAssumption, FS_Subset
    <2>4. history'.faults \in Nat
      BY <2>1 DEF IncidentsTypeOK, HistoryRecord
    <2>5. QED
      BY <2>2, <2>3, <2>4, FS_CardinalityType
  <1>3. Cardinality(Started) <= Cardinality(Started')
    BY <1>1, <1>2, FS_Subset
  <1>4. QED
    BY <1>1, <1>2, <1>3, CountTypes, ReposGrow

LEMMA StillBounded ==
  ASSUME IncidentsTypeOK, CountInv, [Next]_vars,
         NEW repos \in Nat, NEW orgs \in Nat, NEW occurrences \in Nat,
         repos <= Cardinality(ReposOf(Started)), orgs <= Cardinality(OrgsOf(Started)),
         occurrences <= Cardinality(Started) + history.faults
  PROVE  /\ repos <= Cardinality(ReposOf(Started')) /\ orgs <= Cardinality(OrgsOf(Started'))
         /\ occurrences <= Cardinality(Started') + history'.faults
  BY BoundsGrow

(* A record whose counts did not change, or became 0, is still bounded. *)
LEMMA ObserverBounded ==
  ASSUME IncidentsTypeOK, CountInv, BoundInv, [Next]_vars, NEW o \in Observers,
         \/ /\ obs'[o].repos = obs[o].repos /\ obs'[o].orgs = obs[o].orgs
            /\ obs'[o].occurrences = obs[o].occurrences
         \/ obs'[o].repos = 0 /\ obs'[o].orgs = 0 /\ obs'[o].occurrences = 0
  PROVE  Bounded(obs[o])'
  <1>1. /\ obs[o].repos \in Nat /\ obs[o].orgs \in Nat /\ obs[o].occurrences \in Nat
        /\ obs[o].repos <= Cardinality(ReposOf(Started)) /\ obs[o].orgs <= Cardinality(OrgsOf(Started))
        /\ obs[o].occurrences <= Cardinality(Started) + history.faults
    BY ObserverFields DEF BoundInv, Bounded
  <1>2. /\ obs[o].repos <= Cardinality(ReposOf(Started')) /\ obs[o].orgs <= Cardinality(OrgsOf(Started'))
        /\ obs[o].occurrences <= Cardinality(Started') + history'.faults
    BY <1>1, StillBounded
  <1>3. /\ 0 <= Cardinality(ReposOf(Started')) /\ 0 <= Cardinality(OrgsOf(Started'))
        /\ 0 <= Cardinality(Started') + history'.faults
    BY BoundsGrow
  <1>4. QED
    BY <1>2, <1>3 DEF Bounded

LEMMA IncidentBounded ==
  ASSUME IncidentsTypeOK, CountInv, BoundInv, [Next]_vars,
         incident'.state # "none" => /\ incident.state # "none"
                                     /\ incident'.repos = incident.repos
                                     /\ incident'.orgs = incident.orgs
                                     /\ incident'.occurrences = incident.occurrences
  PROVE  incident'.state # "none" => Bounded(incident)' /\ Warranted(incident)'
  <1> SUFFICES ASSUME incident'.state # "none" PROVE Bounded(incident)' /\ Warranted(incident)'
    OBVIOUS
  <1>1. /\ incident.repos \in Nat /\ incident.orgs \in Nat /\ incident.occurrences \in Nat
        /\ incident.repos <= Cardinality(ReposOf(Started)) /\ incident.orgs <= Cardinality(OrgsOf(Started))
        /\ incident.occurrences <= Cardinality(Started) + history.faults
    BY RecordFields DEF BoundInv, Bounded
  <1>2. Bounded(incident)'
    BY <1>1, StillBounded DEF Bounded
  <1>3. Warranted(incident)'
    BY Grown DEF BoundInv, Warranted
  <1>4. QED
    BY <1>2, <1>3

(* A step of one observer. *)
LEMMA BoundStep ==
  ASSUME IncidentsTypeOK, CountInv, BoundInv, [Next]_vars,
         NEW o \in Observers, ObserverKept(o),
         Bounded(obs[o])', obs'[o].provider => history'.blamed,
         obs'[o].phase \in {"read", "write"} => Warranted(obs[o])',
         incident'.state # "none" => Bounded(incident)' /\ Warranted(incident)'
  PROVE  BoundInv'
  <1>1. ASSUME NEW p \in Observers PROVE Bounded(obs[p])'
    <2>1. CASE p = o
      BY <2>1
    <2>2. CASE p # o
      <3>1. obs'[p] = obs[p]
        BY <2>2 DEF ObserverKept
      <3>2. QED
        BY <3>1, ObserverBounded
    <2>3. QED
      BY <2>1, <2>2
  <1>2. ASSUME NEW p \in Observers, obs'[p].provider PROVE history'.blamed
    BY <1>2, Grown DEF BoundInv, ObserverKept
  <1>3. ASSUME NEW p \in Observers, obs'[p].phase \in {"read", "write"} PROVE Warranted(obs[p])'
    BY <1>3, Grown DEF BoundInv, ObserverKept, Warranted
  <1>4. QED
    BY <1>1, <1>2, <1>3 DEF BoundInv

(* A step that is no observer's. *)
LEMMA BoundIdle ==
  ASSUME IncidentsTypeOK, CountInv, BoundInv, [Next]_vars,
         obs' = obs \/ (\A o \in Observers : Same(o)),
         incident'.state # "none" => /\ incident.state # "none"
                                     /\ incident'.repos = incident.repos
                                     /\ incident'.orgs = incident.orgs
                                     /\ incident'.occurrences = incident.occurrences
  PROVE  BoundInv'
  <1>1. \A o \in Observers : Same(o)
    BY DEF Same
  <1>2. ASSUME NEW o \in Observers PROVE Bounded(obs[o])'
    BY <1>1, ObserverBounded DEF Same
  <1>3. \A o \in Observers : obs'[o].provider => history'.blamed
    BY <1>1, Grown DEF BoundInv, Same
  <1>4. \A o \in Observers : obs'[o].phase \in {"read", "write"} => Warranted(obs[o])'
    BY <1>1, Grown DEF BoundInv, Same, Warranted
  <1>5. QED
    BY <1>2, <1>3, <1>4, IncidentBounded DEF BoundInv

LEMMA BoundKept ==
  ASSUME IncidentsTypeOK, TimesInv, CountInv, BoundInv, [Next]_vars
  PROVE  BoundInv'
  <1>0. IncidentsTypeOK' /\ CountInv'
    BY TypeKept, CountKept
  <1>1. ASSUME CorrelateStep PROVE BoundInv'
    <2>1. PICK o \in Observers, age \in Ages : obs[o].phase \in {"quiet", "retry"} /\ Correlate(o, age)
      BY <1>1 DEF CorrelateStep
    <2>2. /\ ObserverKept(o) /\ obs'[o].phase = "record"
          /\ obs'[o].repos = Cardinality(ReposOf({a.by : a \in Recent} \cup {o}))
          /\ obs'[o].orgs = Cardinality(OrgsOf({a.by : a \in Recent} \cup {o}))
          /\ obs'[o].occurrences = Cardinality(Recent) + 1
          /\ obs'[o].provider = obs[o].provider
          /\ UNCHANGED <<analyses, incident, history>>
      BY <2>1, CorrelateFacts
    <2>3. Started' = Started \cup {o} /\ o \in Attempting'
      BY <2>1, CorrelateCounts
    <2>4. {a.by : a \in Recent} \cup {o} \subseteq Started' /\ Started' \subseteq Observers
      BY <2>3, CountTypes DEF CountInv, Recent
    <2>5. Bounded(obs[o])'
      <3>1. obs'[o].repos <= Cardinality(ReposOf(Started')) /\ obs'[o].orgs <= Cardinality(OrgsOf(Started'))
        BY <2>2, <2>4, ReposGrow
      <3>2. Cardinality(Recent) <= Cardinality(analyses) /\ Cardinality(Recent) \in Nat
        <4>1. Recent \subseteq analyses
          BY DEF Recent
        <4>2. QED
          BY <4>1, CountTypes, FS_Subset, FS_CardinalityType
      <3>3. Cardinality(Attempting') >= 1 /\ Cardinality(Attempting') \in Nat
        <4>1. IsFiniteSet(Attempting')
          <5>1. Attempting' \subseteq Observers
            BY DEF Attempting
          <5>2. QED
            BY <5>1, BoundsAssumption, FS_Subset
        <4>2. {o} \subseteq Attempting' /\ Cardinality({o}) = 1
          BY <2>3, FS_Singleton
        <4>3. QED
          BY <4>1, <4>2, FS_Subset, FS_CardinalityType
      <3>4. Cardinality(analyses) + Cardinality(Attempting') <= Cardinality(Started') + history'.faults
        BY <1>0, <2>2 DEF CountInv
      <3>5. obs'[o].occurrences <= Cardinality(Started') + history'.faults
        BY <2>2, <3>2, <3>3, <3>4, CountTypes, BoundsGrow
      <3>6. QED
        BY <3>1, <3>5 DEF Bounded
    <2>6. obs'[o].provider => history'.blamed
      BY <2>2 DEF BoundInv
    <2>7. incident'.state # "none" => Bounded(incident)' /\ Warranted(incident)'
      BY <2>2, IncidentBounded
    <2>8. QED
      BY <2>2, <2>5, <2>6, <2>7, BoundStep
  <1>2. ASSUME NEW o \in Observers, RecordAnalysisForTenant(o) PROVE BoundInv'
    <2>1. /\ ObserverKept(o) /\ obs'[o].phase = "decide"
          /\ obs'[o].repos = obs[o].repos /\ obs'[o].orgs = obs[o].orgs
          /\ obs'[o].occurrences = obs[o].occurrences
          /\ obs'[o].provider => history'.blamed
          /\ incident' = incident
      BY <1>2, RecordFacts
    <2>2. Bounded(obs[o])'
      BY <2>1, ObserverBounded
    <2>3. incident'.state # "none" => Bounded(incident)' /\ Warranted(incident)'
      BY <2>1, IncidentBounded
    <2>4. QED
      BY <2>1, <2>2, <2>3, BoundStep
  <1>3. ASSUME NEW o \in Observers, Decide(o) PROVE BoundInv'
    <2>1. ObserverKept(o) /\ UNCHANGED <<incident, history>>
      BY <1>3, DecideFacts
    <2>2. incident'.state # "none" => Bounded(incident)' /\ Warranted(incident)'
      BY <2>1, IncidentBounded
    <2>3. CASE Reached(o) /\ obs'[o].phase = "read"
      <3>1. /\ obs'[o].repos = obs[o].repos /\ obs'[o].orgs = obs[o].orgs
            /\ obs'[o].occurrences = obs[o].occurrences /\ obs'[o].provider = obs[o].provider
        BY <1>3, <2>3, DecideFacts, EndedFacts
      <3>2. Bounded(obs[o])'
        BY <3>1, ObserverBounded
      <3>3. Warranted(obs[o])' /\ (obs'[o].provider => history'.blamed)
        BY <2>1, <2>3, <3>1 DEF BoundInv, Reached, Warranted
      <3>4. QED
        BY <2>1, <2>2, <3>2, <3>3, BoundStep
    <2>4. CASE obs'[o] = Ended(o, FALSE)
      <3>1. /\ obs'[o].repos = 0 /\ obs'[o].orgs = 0 /\ obs'[o].occurrences = 0
            /\ obs'[o].provider = FALSE /\ obs'[o].phase = "done"
        BY <2>4, EndedFacts
      <3>2. Bounded(obs[o])'
        BY <3>1, ObserverBounded
      <3>3. QED
        BY <2>1, <2>2, <3>1, <3>2, BoundStep
    <2>5. QED
      BY <1>3, <2>3, <2>4, DecideFacts
  <1>4. ASSUME NEW o \in Observers, Read(o) PROVE BoundInv'
    <2>1. /\ ObserverKept(o) /\ obs[o].phase = "read" /\ obs'[o].phase = "write"
          /\ obs'[o].repos = obs[o].repos /\ obs'[o].orgs = obs[o].orgs
          /\ obs'[o].occurrences = obs[o].occurrences /\ obs'[o].provider = obs[o].provider
          /\ history'.blamed = history.blamed /\ incident' = incident
      BY <1>4, ReadFacts
    <2>2. Bounded(obs[o])'
      BY <2>1, ObserverBounded
    <2>3. incident'.state # "none" => Bounded(incident)' /\ Warranted(incident)'
      BY <2>1, IncidentBounded
    <2>4. Warranted(obs[o])' /\ (obs'[o].provider => history'.blamed)
      BY <2>1 DEF BoundInv, Warranted
    <2>5. QED
      BY <2>1, <2>2, <2>3, <2>4, BoundStep
  <1>5. ASSUME NEW o \in Observers, UpsertIncidentForTenant(o) PROVE BoundInv'
    <2>1. /\ ObserverKept(o) /\ obs[o].phase = "write" /\ obs'[o].phase = "announce"
          /\ obs'[o].repos = 0 /\ obs'[o].orgs = 0 /\ obs'[o].occurrences = 0
          /\ obs'[o].provider = FALSE /\ incident' = Upserted(o)
          /\ history'.blamed = history.blamed
      BY <1>5, UpsertFacts
    <2>2. Bounded(obs[o])'
      BY <2>1, ObserverBounded
    <2>3. /\ incident.repos \in Nat /\ incident.orgs \in Nat /\ incident.occurrences \in Nat
          /\ obs[o].repos \in Nat /\ obs[o].orgs \in Nat /\ obs[o].occurrences \in Nat
      BY RecordFields, ObserverFields
    <2>4. /\ incident'.repos = Larger(incident.repos, obs[o].repos)
          /\ incident'.orgs = Larger(incident.orgs, obs[o].orgs)
          /\ incident'.occurrences = Larger(incident.occurrences, obs[o].occurrences)
      BY <2>1, UpsertedFacts
    <2>5. /\ obs[o].repos <= Cardinality(ReposOf(Started')) /\ obs[o].orgs <= Cardinality(OrgsOf(Started'))
          /\ obs[o].occurrences <= Cardinality(Started') + history'.faults
      <3>1. /\ obs[o].repos <= Cardinality(ReposOf(Started)) /\ obs[o].orgs <= Cardinality(OrgsOf(Started))
            /\ obs[o].occurrences <= Cardinality(Started) + history.faults
        BY DEF BoundInv, Bounded
      <3>2. QED
        BY <2>3, <3>1, StillBounded
    <2>6. /\ incident.repos <= Cardinality(ReposOf(Started')) /\ incident.orgs <= Cardinality(OrgsOf(Started'))
          /\ incident.occurrences <= Cardinality(Started') + history'.faults
      <3>1. CASE incident.state = "none"
        <4>1. incident.repos = 0 /\ incident.orgs = 0 /\ incident.occurrences = 0
          BY <3>1 DEF TimesInv, NoIncident
        <4>2. QED
          BY <4>1, BoundsGrow
      <3>2. CASE incident.state # "none"
        <4>1. /\ incident.repos <= Cardinality(ReposOf(Started)) /\ incident.orgs <= Cardinality(OrgsOf(Started))
              /\ incident.occurrences <= Cardinality(Started) + history.faults
          BY <3>2 DEF BoundInv, Bounded
        <4>2. QED
          BY <2>3, <4>1, StillBounded
      <3>3. QED
        BY <3>1, <3>2
    <2>7. /\ incident'.repos \in {incident.repos, obs[o].repos} /\ incident'.repos >= obs[o].repos
          /\ incident'.orgs \in {incident.orgs, obs[o].orgs} /\ incident'.orgs >= obs[o].orgs
          /\ incident'.occurrences \in {incident.occurrences, obs[o].occurrences}
      <3>1. Larger(incident.repos, obs[o].repos) \in {incident.repos, obs[o].repos}
            /\ Larger(incident.repos, obs[o].repos) >= obs[o].repos
        BY <2>3, LargerFacts
      <3>2. Larger(incident.orgs, obs[o].orgs) \in {incident.orgs, obs[o].orgs}
            /\ Larger(incident.orgs, obs[o].orgs) >= obs[o].orgs
        BY <2>3, LargerFacts
      <3>3. Larger(incident.occurrences, obs[o].occurrences) \in {incident.occurrences, obs[o].occurrences}
        BY <2>3, LargerFacts
      <3>4. QED
        BY <2>4, <3>1, <3>2, <3>3
    <2>8. Bounded(incident)' /\ Warranted(incident)'
      <3>1. Bounded(incident)'
        BY <2>5, <2>6, <2>7 DEF Bounded
      <3>2. Warranted(obs[o])
        BY <2>1 DEF BoundInv
      <3>3. incident'.repos \in Nat /\ incident'.orgs \in Nat
        BY <2>3, <2>7
      <3>4. incident'.repos >= RepoThreshold \/ incident'.orgs >= OrgThreshold \/ history'.blamed
        BY <2>1, <2>3, <2>7, <3>2, <3>3, ThresholdAssumption DEF Warranted
      <3>5. QED
        BY <3>1, <3>4 DEF Warranted
    <2>9. QED
      BY <2>1, <2>2, <2>8, BoundStep
  <1>6. ASSUME NEW o \in Observers, Announce(o) PROVE BoundInv'
    <2>1. /\ ObserverKept(o) /\ incident' = incident
          /\ obs'[o].repos = 0 /\ obs'[o].orgs = 0 /\ obs'[o].occurrences = 0
          /\ obs'[o].provider = FALSE /\ obs'[o].phase = "done"
      BY <1>6, AnnounceFacts, EndedFacts
    <2>2. Bounded(obs[o])'
      BY <2>1, ObserverBounded
    <2>3. incident'.state # "none" => Bounded(incident)' /\ Warranted(incident)'
      BY <2>1, IncidentBounded
    <2>4. QED
      BY <2>1, <2>2, <2>3, BoundStep
  <1>7. ASSUME NEW o \in Observers, CutShort(o) PROVE BoundInv'
    <2>1. /\ ObserverKept(o) /\ incident' = incident
          /\ obs'[o].repos = 0 /\ obs'[o].orgs = 0 /\ obs'[o].occurrences = 0
          /\ obs'[o].provider = FALSE /\ obs'[o].phase \in {"retry", "done"}
      BY <1>7, CutShortFacts
    <2>2. Bounded(obs[o])'
      BY <2>1, ObserverBounded
    <2>3. incident'.state # "none" => Bounded(incident)' /\ Warranted(incident)'
      BY <2>1, IncidentBounded
    <2>4. QED
      BY <2>1, <2>2, <2>3, BoundStep
  <1>8. ASSUME ResolveStaleIncidentsDetailed PROVE BoundInv'
    BY <1>8, ResolveFacts, BoundIdle DEF StateOnly, Active
  <1>9. ASSUME AnnounceResolved PROVE BoundInv'
    BY <1>9, AnnounceResolvedFacts, BoundIdle
  <1>10. ASSUME ResolutionLost PROVE BoundInv'
    BY <1>10, ResolutionLostFacts, BoundIdle
  <1>11. ASSUME NEW s \in {"open", "acknowledged", "resolved"}, NEW announces \in BOOLEAN,
                UpdateIncidentState(s, announces)
         PROVE  BoundInv'
    BY <1>11, UpdateFacts, BoundIdle DEF StateOnly
  <1>12. ASSUME ChangeIncidentState PROVE BoundInv'
    BY <1>12, ChangeFacts, BoundIdle
  <1>13. ASSUME Cleanup PROVE BoundInv'
    <2>1. obs' = obs /\ (incident' = incident \/ incident'.state = "none")
      BY <1>13, CleanupFacts, NoneFacts
    <2>2. QED
      BY <2>1, BoundIdle
  <1>14. ASSUME Tick PROVE BoundInv'
    BY <1>14, TickFacts, BoundIdle
  <1>15. ASSUME UNCHANGED vars PROVE BoundInv'
    <2>1. obs' = obs /\ incident' = incident
      BY <1>15 DEF vars
    <2>2. QED
      BY <2>1, BoundIdle
  <1>16. QED
    BY <1>1, <1>2, <1>3, <1>4, <1>5, <1>6, <1>7, <1>8, <1>9, <1>10, <1>11, <1>12, <1>13, <1>14,
       <1>15, NextCases

-----------------------------------------------------------------------------
(* Openings *)

Reaches(o) ==
    \/ Cardinality(ReposOf(ClusterOf(o))) >= RepoThreshold
    \/ Cardinality(OrgsOf(ClusterOf(o))) >= OrgThreshold

Counted(o) ==
    /\ obs[o].repos = Cardinality(ReposOf(ClusterOf(o)))
    /\ obs[o].orgs = Cardinality(OrgsOf(ClusterOf(o)))

LEMMA OpensMeans ==
  /\ ThresholdOpens <=> \A o \in Observers : obs[o].phase = "done" /\ ~obs[o].cut /\ Reaches(o) => history.opened > 0
  /\ OpenInv <=> /\ \A o \in Observers : obs[o].phase \in {"record", "decide"} => Counted(o)
                 /\ incident.state # "none" => history.opened > 0
                 /\ \A o \in Observers : obs[o].phase = "announce" => history.opened > 0
                 /\ ThresholdOpens
  <1>1. ThresholdOpens <=> \A o \in Observers : obs[o].phase = "done" /\ ~obs[o].cut /\ Reaches(o) => history.opened > 0
    BY Zenon DEF ThresholdOpens, Reaches, ClusterOf
  <1>2. QED
    BY <1>1, Zenon DEF OpenInv, Counted

(* Nobody forgets that the incident was opened. *)
LEMMA OpenedGrows ==
  ASSUME IncidentsTypeOK, CountInv, [Next]_vars
  PROVE  history.opened > 0 => history'.opened > 0
  <1>1. history.opened \in Nat /\ history'.opened \in Nat
    BY TypeKept, RecordFields DEF IncidentsTypeOK, HistoryRecord
  <1>2. QED
    BY <1>1, Grown

(* A step of one observer. *)
LEMMA OpenStep ==
  ASSUME IncidentsTypeOK, CountInv, OpenInv, [Next]_vars, NEW o \in Observers, ObserverKept(o),
         obs'[o].phase \in {"record", "decide"} => Counted(o)',
         obs'[o].phase = "announce" => history'.opened > 0,
         obs'[o].phase = "done" /\ ~obs'[o].cut /\ Reaches(o)' => history'.opened > 0,
         incident'.state # "none" => history'.opened > 0
  PROVE  OpenInv'
  <1>1. ASSUME NEW p \in Observers, p # o
        PROVE  /\ obs'[p] = obs[p] /\ (Counted(p)' <=> Counted(p)) /\ (Reaches(p)' <=> Reaches(p))
    BY <1>1 DEF ObserverKept, Counted, Reaches, ClusterOf
  <1>2. ASSUME NEW p \in Observers
        PROVE  /\ obs'[p].phase \in {"record", "decide"} => Counted(p)'
               /\ obs'[p].phase = "announce" => history'.opened > 0
               /\ obs'[p].phase = "done" /\ ~obs'[p].cut /\ Reaches(p)' => history'.opened > 0
    <2>1. CASE p = o
      BY <2>1
    <2>2. CASE p # o
      BY <1>1, <2>2, OpensMeans, OpenedGrows
    <2>3. QED
      BY <2>1, <2>2
  <1>3. ThresholdOpens' <=>
          \A p \in Observers : obs'[p].phase = "done" /\ ~obs'[p].cut /\ Reaches(p)' => history'.opened > 0
    BY Zenon DEF ThresholdOpens, Reaches, ClusterOf
  <1>4. OpenInv' <=> /\ \A p \in Observers : obs'[p].phase \in {"record", "decide"} => Counted(p)'
                     /\ incident'.state # "none" => history'.opened > 0
                     /\ \A p \in Observers : obs'[p].phase = "announce" => history'.opened > 0
                     /\ ThresholdOpens'
    BY Zenon DEF OpenInv, Counted
  <1>5. QED
    BY <1>2, <1>3, <1>4

(* A step that is no observer's. *)
LEMMA OpenIdle ==
  ASSUME IncidentsTypeOK, CountInv, OpenInv, [Next]_vars,
         obs' = obs \/ (\A o \in Observers : Same(o)),
         incident'.state # "none" => incident.state # "none"
  PROVE  OpenInv'
  <1>1. \A o \in Observers : Same(o)
    BY DEF Same
  <1>2. ASSUME NEW p \in Observers
        PROVE  /\ obs'[p].phase \in {"record", "decide"} => Counted(p)'
               /\ obs'[p].phase = "announce" => history'.opened > 0
               /\ obs'[p].phase = "done" /\ ~obs'[p].cut /\ Reaches(p)' => history'.opened > 0
    <2>1. (Counted(p)' <=> Counted(p)) /\ (Reaches(p)' <=> Reaches(p))
      BY <1>1 DEF Same, Counted, Reaches, ClusterOf
    <2>2. QED
      BY <1>1, <2>1, OpensMeans, OpenedGrows DEF Same
  <1>3. ThresholdOpens' <=>
          \A p \in Observers : obs'[p].phase = "done" /\ ~obs'[p].cut /\ Reaches(p)' => history'.opened > 0
    BY Zenon DEF ThresholdOpens, Reaches, ClusterOf
  <1>4. OpenInv' <=> /\ \A p \in Observers : obs'[p].phase \in {"record", "decide"} => Counted(p)'
                     /\ incident'.state # "none" => history'.opened > 0
                     /\ \A p \in Observers : obs'[p].phase = "announce" => history'.opened > 0
                     /\ ThresholdOpens'
    BY Zenon DEF OpenInv, Counted
  <1>5. incident'.state # "none" => history'.opened > 0
    BY OpensMeans, OpenedGrows
  <1>6. QED
    BY <1>2, <1>3, <1>4, <1>5

LEMMA OpenKept ==
  ASSUME IncidentsTypeOK, CountInv, BoundInv, OpenInv, [Next]_vars
  PROVE  OpenInv'
  <1>0. incident' = incident => (incident'.state # "none" => history'.opened > 0)
    BY OpensMeans, OpenedGrows
  <1>1. ASSUME CorrelateStep PROVE OpenInv'
    <2>1. PICK o \in Observers, age \in Ages : Correlate(o, age)
      BY <1>1 DEF CorrelateStep
    <2>2. /\ ObserverKept(o) /\ obs'[o].phase = "record" /\ incident' = incident
          /\ obs'[o].repos = Cardinality(ReposOf({a.by : a \in Recent} \cup {o}))
          /\ obs'[o].orgs = Cardinality(OrgsOf({a.by : a \in Recent} \cup {o}))
          /\ obs'[o].prior = {a.by : a \in Recent}
      BY <2>1, CorrelateFacts
    <2>3. Counted(o)'
      BY <2>2 DEF Counted, ClusterOf
    <2>4. QED
      BY <1>0, <2>2, <2>3, OpenStep
  <1>2. ASSUME NEW o \in Observers, RecordAnalysisForTenant(o) PROVE OpenInv'
    <2>1. /\ ObserverKept(o) /\ obs[o].phase = "record" /\ obs'[o].phase = "decide"
          /\ obs'[o].repos = obs[o].repos /\ obs'[o].orgs = obs[o].orgs
          /\ obs'[o].prior = obs[o].prior /\ incident' = incident
      BY <1>2, RecordFacts
    <2>2. Counted(o)'
      BY <2>1, OpensMeans DEF Counted, ClusterOf
    <2>3. QED
      BY <1>0, <2>1, <2>2, OpenStep
  <1>3. ASSUME NEW o \in Observers, Decide(o) PROVE OpenInv'
    <2>1. /\ ObserverKept(o) /\ obs[o].phase = "decide" /\ incident' = incident
          /\ obs'[o].prior = obs[o].prior /\ obs'[o].phase \in {"read", "done"}
          /\ obs'[o].phase = "done" => ~Reached(o)
      BY <1>3, DecideFacts, EndedFacts
    <2>2. obs'[o].phase = "done" => ~Reaches(o)'
      <3>1. Reaches(o)' <=> Reaches(o)
        BY <2>1 DEF Reaches, ClusterOf
      <3>2. Counted(o)
        BY <2>1, OpensMeans
      <3>3. QED
        BY <2>1, <3>1, <3>2 DEF Reached, Reaches, Counted
    <2>3. QED
      BY <1>0, <2>1, <2>2, OpenStep
  <1>4. ASSUME NEW o \in Observers, Read(o) PROVE OpenInv'
    BY <1>0, <1>4, ReadFacts, OpenStep
  <1>5. ASSUME NEW o \in Observers, UpsertIncidentForTenant(o) PROVE OpenInv'
    <2>1. /\ ObserverKept(o) /\ obs'[o].phase = "announce"
          /\ history'.opened = history.opened + (IF Created THEN 1 ELSE 0)
      BY <1>5, UpsertFacts
    <2>2. history'.opened > 0
      <3>1. history.opened \in Nat /\ incident.state \in {"none", "open", "acknowledged", "resolved"}
        BY RecordFields
      <3>2. CASE Created
        BY <2>1, <3>1, <3>2
      <3>3. CASE ~Created
        BY <2>1, <3>1, <3>3, OpensMeans DEF Created
      <3>4. QED
        BY <3>2, <3>3
    <2>3. QED
      BY <2>1, <2>2, OpenStep
  <1>6. ASSUME NEW o \in Observers, Announce(o) PROVE OpenInv'
    <2>1. /\ ObserverKept(o) /\ obs[o].phase = "announce" /\ obs'[o].phase = "done"
          /\ incident' = incident
      BY <1>6, AnnounceFacts, EndedFacts
    <2>2. history'.opened > 0
      BY <2>1, OpensMeans, OpenedGrows
    <2>3. QED
      BY <2>1, <2>2, OpenStep
  <1>7. ASSUME NEW o \in Observers, CutShort(o) PROVE OpenInv'
    <2>1. /\ ObserverKept(o) /\ obs'[o].phase \in {"retry", "done"} /\ incident' = incident
          /\ obs'[o].phase = "done" => obs'[o].cut
      BY <1>7, CutShortFacts
    <2>2. QED
      BY <1>0, <2>1, OpenStep
  <1>8. ASSUME ResolveStaleIncidentsDetailed PROVE OpenInv'
    BY <1>8, ResolveFacts, OpenIdle DEF Active
  <1>9. ASSUME AnnounceResolved PROVE OpenInv'
    BY <1>9, AnnounceResolvedFacts, OpenIdle
  <1>10. ASSUME ResolutionLost PROVE OpenInv'
    BY <1>10, ResolutionLostFacts, OpenIdle
  <1>11. ASSUME NEW s \in {"open", "acknowledged", "resolved"}, NEW announces \in BOOLEAN,
                UpdateIncidentState(s, announces)
         PROVE  OpenInv'
    BY <1>11, UpdateFacts, OpenIdle
  <1>12. ASSUME ChangeIncidentState PROVE OpenInv'
    BY <1>12, ChangeFacts, OpenIdle
  <1>13. ASSUME Cleanup PROVE OpenInv'
    <2>1. obs' = obs /\ (incident' = incident \/ incident'.state = "none")
      BY <1>13, CleanupFacts, NoneFacts
    <2>2. QED
      BY <2>1, OpenIdle
  <1>14. ASSUME Tick PROVE OpenInv'
    BY <1>14, TickFacts, OpenIdle
  <1>15. ASSUME UNCHANGED vars PROVE OpenInv'
    <2>1. obs' = obs /\ incident' = incident
      BY <1>15 DEF vars
    <2>2. QED
      BY <2>1, OpenIdle
  <1>16. QED
    BY <1>1, <1>2, <1>3, <1>4, <1>5, <1>6, <1>7, <1>8, <1>9, <1>10, <1>11, <1>12, <1>13, <1>14,
       <1>15, NextCases

-----------------------------------------------------------------------------
(* Announcements *)

(* An overlap, a silent change and a fault are never forgotten. *)
LEMMA OrderlyBefore ==
  ASSUME IncidentsTypeOK, [Next]_vars, Orderly'
  PROVE  Orderly
  <1>0. history.faults \in Nat
    BY RecordFields
  <1>1. ASSUME history' = history PROVE Orderly
    BY <1>1 DEF Orderly
  <1>2. ASSUME history.overlapped => history'.overlapped, history.silent => history'.silent,
               history'.faults = history.faults
        PROVE  Orderly
    BY <1>2 DEF Orderly
  <1>3. ASSUME NEW o \in Observers, CutShort(o) PROVE FALSE
    <2>1. history'.faults = history.faults + 1
      BY <1>3, CutShortFacts
    <2>2. QED
      BY <1>0, <2>1 DEF Orderly
  <1>4. ASSUME ResolutionLost PROVE FALSE
    BY <1>0, <1>4, ResolutionLostFacts DEF Orderly
  <1>5. ASSUME CorrelateStep PROVE Orderly
    BY <1>1, <1>5, CorrelateFacts DEF CorrelateStep
  <1>6. ASSUME NEW o \in Observers, RecordAnalysisForTenant(o) PROVE Orderly
    BY <1>2, <1>6, RecordFacts
  <1>7. ASSUME NEW o \in Observers, Decide(o) PROVE Orderly
    BY <1>1, <1>7, DecideFacts
  <1>8. ASSUME NEW o \in Observers, Read(o) PROVE Orderly
    BY <1>2, <1>8, ReadFacts
  <1>9. ASSUME NEW o \in Observers, UpsertIncidentForTenant(o) PROVE Orderly
    BY <1>2, <1>9, UpsertFacts
  <1>10. ASSUME NEW o \in Observers, Announce(o) PROVE Orderly
    BY <1>1, <1>10, AnnounceFacts
  <1>11. ASSUME ResolveStaleIncidentsDetailed PROVE Orderly
    BY <1>2, <1>11, ResolveFacts
  <1>12. ASSUME AnnounceResolved PROVE Orderly
    BY <1>1, <1>12, AnnounceResolvedFacts
  <1>13. ASSUME NEW s \in {"open", "acknowledged", "resolved"}, NEW announces \in BOOLEAN,
                UpdateIncidentState(s, announces)
         PROVE  Orderly
    BY <1>2, <1>13, UpdateFacts
  <1>14. ASSUME ChangeIncidentState PROVE Orderly
    BY <1>1, <1>14, ChangeFacts
  <1>15. ASSUME Cleanup PROVE Orderly
    BY <1>1, <1>15, CleanupFacts
  <1>16. ASSUME Tick PROVE Orderly
    BY <1>2, <1>16, TickFacts
  <1>17. ASSUME UNCHANGED vars PROVE Orderly
    BY <1>1, <1>17 DEF vars
  <1>18. QED
    BY <1>3, <1>4, <1>5, <1>6, <1>7, <1>8, <1>9, <1>10, <1>11, <1>12, <1>13, <1>14, <1>15, <1>16,
       <1>17, NextCases

(* Whoever is engaged is alone. *)
LEMMA Alone ==
  ASSUME AnnounceInv, Orderly
  PROVE  /\ \A o \in EngagedOnes : EngagedOnes = {o} /\ ~sweeper /\ operator = "idle"
         /\ sweeper => EngagedOnes = {} /\ operator = "idle"
         /\ operator # "idle" => EngagedOnes = {} /\ ~sweeper
  BY DEF AnnounceInv

(* A step of an observer that is not engaged, and engages in nothing, or   *)
(* the passing of time.                                                    *)
LEMMA AnnounceFrame ==
  ASSUME IncidentsTypeOK, AnnounceInv, [Next]_vars,
         \A p \in Observers :
            /\ obs'[p].phase \in Critical <=> obs[p].phase \in Critical
            /\ obs[p].phase \in Critical => obs'[p].phase = obs[p].phase /\ obs'[p].created = obs[p].created,
         incident'.state = incident.state, history'.opened = history.opened,
         UNCHANGED <<sweeper, operator, said>>
  PROVE  AnnounceInv'
  <1> SUFFICES ASSUME Orderly' PROVE AnnounceInv'
    BY DEF AnnounceInv
  <1>1. Orderly
    BY OrderlyBefore
  <1>2. EngagedOnes' = EngagedOnes
    BY DEF EngagedOnes
  <1>3. Created' <=> Created
    BY DEF Created
  <1>4. Agreed' <=> Agreed
    BY DEF Agreed
  <1>5. /\ \A o, p \in EngagedOnes' : o = p
        /\ EngagedOnes' # {} => ~sweeper' /\ operator' = "idle"
        /\ ~(sweeper' /\ operator' # "idle")
    BY <1>1, <1>2 DEF AnnounceInv
  <1>6. ~sweeper' /\ operator' = "idle" /\ (\A o \in EngagedOnes' : obs'[o].phase = "write") => Agreed'
    BY <1>1, <1>2, <1>4 DEF AnnounceInv, EngagedOnes
  <1>7. ASSUME NEW o \in Observers, obs'[o].phase = "write" PROVE obs'[o].created = Created'
    <2>1. obs[o].phase = "write" /\ obs'[o].created = obs[o].created
      BY <1>7 DEF Critical
    <2>2. obs[o].created = Created
      BY <1>1, <2>1 DEF AnnounceInv
    <2>3. Created' = Created
      BY DEF Created
    <2>4. QED
      BY <2>1, <2>2, <2>3
  <1>8. ASSUME NEW o \in Observers, obs'[o].phase = "announce"
        PROVE  /\ incident'.state \in Active
               /\ IF obs'[o].created THEN said'.openings + 1 = history'.opened
                  ELSE said'.openings = history'.opened
    <2>1. obs[o].phase = "announce" /\ obs'[o].created = obs[o].created
      BY <1>8 DEF Critical
    <2>2. /\ incident.state \in Active
          /\ IF obs[o].created THEN said.openings + 1 = history.opened
             ELSE said.openings = history.opened
      BY <1>1, <2>1 DEF AnnounceInv
    <2>3. QED
      BY <2>1, <2>2
  <1>9. /\ sweeper' \/ operator' # "idle" => said'.openings = history'.opened
        /\ sweeper' \/ operator' = "resolved" => incident'.state \in {"none", "resolved"}
        /\ operator' = "updated" => incident'.state \in Active
    BY <1>1 DEF AnnounceInv
  <1>10. QED
    BY <1>5, <1>6, <1>7, <1>8, <1>9 DEF AnnounceInv

(* After a step that leaves nobody engaged. *)
LEMMA NobodyEngaged ==
  ASSUME EngagedOnes' = {}, ~(sweeper' /\ operator' # "idle"),
         ~sweeper' /\ operator' = "idle" => Agreed',
         sweeper' \/ operator' # "idle" => said'.openings = history'.opened,
         sweeper' \/ operator' = "resolved" => incident'.state \in {"none", "resolved"},
         operator' = "updated" => incident'.state \in Active
  PROVE  AnnounceInv'
  <1>1. \A o \in Observers : obs'[o].phase # "write" /\ obs'[o].phase # "announce"
    BY DEF EngagedOnes, Critical
  <1>2. QED
    BY <1>1 DEF AnnounceInv

LEMMA AnnounceKept ==
  ASSUME IncidentsTypeOK, AnnounceInv, [Next]_vars
  PROVE  AnnounceInv'
  <1> SUFFICES ASSUME Orderly' PROVE AnnounceInv'
    BY DEF AnnounceInv
  <1>0. Orderly /\ incident.state \in {"none", "open", "acknowledged", "resolved"}
        /\ operator \in {"idle", "resolved", "updated"} /\ history.opened \in Nat /\ said.openings \in Nat
        /\ history.faults \in Nat
    BY OrderlyBefore, RecordFields DEF IncidentsTypeOK
  <1>1. ASSUME CorrelateStep PROVE AnnounceInv'
    <2>1. PICK o \in Observers, age \in Ages : obs[o].phase \in {"quiet", "retry"} /\ Correlate(o, age)
      BY <1>1 DEF CorrelateStep
    <2>2. ObserverKept(o) /\ obs'[o].phase = "record" /\ UNCHANGED <<incident, sweeper, operator, said, history>>
      BY <2>1, CorrelateFacts
    <2>3. \A p \in Observers :
            /\ obs'[p].phase \in Critical <=> obs[p].phase \in Critical
            /\ obs[p].phase \in Critical => obs'[p].phase = obs[p].phase /\ obs'[p].created = obs[p].created
      BY <2>1, <2>2 DEF ObserverKept, Critical
    <2>4. QED
      BY <2>2, <2>3, AnnounceFrame
  <1>2. ASSUME NEW o \in Observers, RecordAnalysisForTenant(o) PROVE AnnounceInv'
    <2>1. /\ ObserverKept(o) /\ obs[o].phase = "record" /\ obs'[o].phase = "decide"
          /\ UNCHANGED <<incident, sweeper, operator, said>> /\ history'.opened = history.opened
      BY <1>2, RecordFacts
    <2>2. \A p \in Observers :
            /\ obs'[p].phase \in Critical <=> obs[p].phase \in Critical
            /\ obs[p].phase \in Critical => obs'[p].phase = obs[p].phase /\ obs'[p].created = obs[p].created
      BY <2>1 DEF ObserverKept, Critical
    <2>3. QED
      BY <2>1, <2>2, AnnounceFrame
  <1>3. ASSUME NEW o \in Observers, Decide(o) PROVE AnnounceInv'
    <2>1. /\ ObserverKept(o) /\ obs[o].phase = "decide" /\ obs'[o].phase \in {"read", "done"}
          /\ UNCHANGED <<incident, sweeper, operator, said, history>>
      BY <1>3, DecideFacts, EndedFacts
    <2>2. \A p \in Observers :
            /\ obs'[p].phase \in Critical <=> obs[p].phase \in Critical
            /\ obs[p].phase \in Critical => obs'[p].phase = obs[p].phase /\ obs'[p].created = obs[p].created
      BY <2>1 DEF ObserverKept, Critical
    <2>3. QED
      BY <2>1, <2>2, AnnounceFrame
  <1>4. ASSUME NEW o \in Observers, Read(o) PROVE AnnounceInv'
    <2>1. /\ ObserverKept(o) /\ obs[o].phase = "read" /\ obs'[o].phase = "write"
          /\ obs'[o].created = Created /\ history'.opened = history.opened
          /\ Engaged(o) => history'.overlapped
          /\ UNCHANGED <<incident, sweeper, operator, said>>
      BY <1>4, ReadFacts
    <2>2. ~Engaged(o)
      BY <2>1 DEF Orderly
    <2>3. EngagedOnes = {} /\ EngagedOnes' = {o} /\ ~sweeper /\ operator = "idle"
      BY <2>1, <2>2 DEF Engaged, EngagedOnes, Critical, ObserverKept
    <2>4. Agreed'
      <3>1. Agreed
        BY <1>0, <2>3 DEF AnnounceInv
      <3>2. QED
        BY <2>1, <3>1 DEF Agreed
    <2>5. \A p \in Observers : p # o => obs'[p].phase # "write" /\ obs'[p].phase # "announce"
      BY <2>3 DEF EngagedOnes, Critical
    <2>6. \A p \in Observers : obs'[p].phase = "write" => obs'[p].created = Created'
      <3>1. Created' = Created
        BY <2>1 DEF Created
      <3>2. obs'[o].created = Created'
        BY <2>1, <3>1
      <3>3. QED
        BY <2>5, <3>2
    <2>7. \A p \in Observers : obs'[p].phase # "announce"
      BY <2>1, <2>5
    <2>8. QED
      BY <2>1, <2>3, <2>4, <2>6, <2>7 DEF AnnounceInv
  <1>5. ASSUME NEW o \in Observers, UpsertIncidentForTenant(o) PROVE AnnounceInv'
    <2>1. /\ ObserverKept(o) /\ obs[o].phase = "write" /\ obs'[o].phase = "announce"
          /\ obs'[o].created = obs[o].created
          /\ history'.opened = history.opened + (IF Created THEN 1 ELSE 0)
          /\ UNCHANGED <<sweeper, operator, said>>
      BY <1>5, UpsertFacts
    <2>2. EngagedOnes = {o} /\ ~sweeper /\ operator = "idle"
      <3>1. o \in EngagedOnes
        BY <2>1 DEF EngagedOnes, Critical
      <3>2. QED
        BY <1>0, <3>1, Alone
    <2>3. EngagedOnes' = {o}
      BY <2>1, <2>2 DEF EngagedOnes, Critical, ObserverKept
    <2>4. said.openings = history.opened
      BY <1>0, <2>1, <2>2 DEF AnnounceInv, Agreed
    <2>5. obs[o].created = Created
      BY <1>0, <2>1 DEF AnnounceInv
    <2>6. incident'.state \in Active
      BY <1>5, UpsertFacts, UpsertedFacts DEF Active
    <2>7. IF obs'[o].created THEN said'.openings + 1 = history'.opened ELSE said'.openings = history'.opened
      <3>1. CASE Created
        BY <1>0, <2>1, <2>4, <2>5, <3>1
      <3>2. CASE ~Created
        BY <1>0, <2>1, <2>4, <2>5, <3>2
      <3>3. QED
        BY <3>1, <3>2
    <2>8. \A p \in Observers : p # o => obs'[p].phase # "write" /\ obs'[p].phase # "announce"
      BY <2>3 DEF EngagedOnes, Critical
    <2>9. /\ \A p \in Observers : obs'[p].phase # "write"
          /\ \A p \in Observers : obs'[p].phase = "announce" => p = o
      BY <2>1, <2>8
    <2>10. ~sweeper' /\ operator' = "idle"
      BY <2>1, <2>2
    <2>11. ~(\A p \in EngagedOnes' : obs'[p].phase = "write")
      BY <2>1, <2>3
    <2>12. QED
      BY <2>3, <2>6, <2>7, <2>9, <2>10, <2>11 DEF AnnounceInv
  <1>6. ASSUME NEW o \in Observers, Announce(o) PROVE AnnounceInv'
    <2>1. /\ ObserverKept(o) /\ obs[o].phase = "announce" /\ obs'[o].phase = "done"
          /\ UNCHANGED <<incident, sweeper, operator, history>>
      BY <1>6, AnnounceFacts, EndedFacts
    <2>2. EngagedOnes = {o} /\ ~sweeper /\ operator = "idle"
      <3>1. o \in EngagedOnes
        BY <2>1 DEF EngagedOnes, Critical
      <3>2. QED
        BY <1>0, <3>1, Alone
    <2>3. EngagedOnes' = {}
      BY <2>1, <2>2 DEF EngagedOnes, Critical, ObserverKept
    <2>4. /\ incident.state \in Active
          /\ IF obs[o].created THEN said.openings + 1 = history.opened
             ELSE said.openings = history.opened
      BY <1>0, <2>1 DEF AnnounceInv
    <2>5. said'.openings = history.opened /\ said'.last \in {"opened", "updated"}
      <3>1. incident.state # "none" /\ incident.state # "resolved"
        BY <2>4 DEF Active
      <3>2. CASE obs[o].created
        BY <1>6, <2>4, <3>1, <3>2, AnnounceFacts
      <3>3. CASE ~obs[o].created
        BY <1>6, <2>4, <3>1, <3>3, AnnounceFacts
      <3>4. QED
        BY <3>2, <3>3
    <2>6. Agreed'
      BY <2>1, <2>4, <2>5 DEF Agreed, Active
    <2>7. QED
      BY <2>1, <2>2, <2>3, <2>6, NobodyEngaged
  <1>7. ASSUME NEW o \in Observers, CutShort(o) PROVE AnnounceInv'
    BY <1>0, <1>7, CutShortFacts DEF Orderly
  <1>8. ASSUME ResolveStaleIncidentsDetailed PROVE AnnounceInv'
    <2>1. /\ ~sweeper /\ sweeper' /\ incident'.state = "resolved"
          /\ history'.opened = history.opened /\ HandlersBusy => history'.overlapped
          /\ UNCHANGED <<obs, operator, said>>
      BY <1>8, ResolveFacts
    <2>2. ~HandlersBusy
      BY <1>8, ResolveFacts DEF Orderly
    <2>3. EngagedOnes = {} /\ operator = "idle"
      BY <2>2 DEF HandlersBusy, EngagedOnes
    <2>4. said.openings = history.opened
      BY <1>0, <2>1, <2>3 DEF AnnounceInv, Agreed
    <2>5. EngagedOnes' = {} /\ operator' = "idle" /\ said' = said /\ sweeper' /\ incident'.state = "resolved"
          /\ history'.opened = history.opened
      <3>1. obs' = obs /\ operator' = operator /\ said' = said /\ history'.opened = history.opened
            /\ sweeper' /\ incident'.state = "resolved"
        BY <1>8, ResolveFacts
      <3>2. QED
        BY <2>3, <3>1 DEF EngagedOnes
    <2>6. QED
      BY <2>4, <2>5, NobodyEngaged
  <1>9. ASSUME AnnounceResolved PROVE AnnounceInv'
    <2>1. /\ sweeper /\ ~sweeper' /\ said'.openings = said.openings /\ said'.last = "resolved"
          /\ UNCHANGED <<incident, obs, operator, history>>
      BY <1>9, AnnounceResolvedFacts
    <2>2. EngagedOnes = {} /\ operator = "idle"
      BY <1>0, <2>1, Alone
    <2>3. said.openings = history.opened /\ incident.state \in {"none", "resolved"}
      BY <1>0, <2>1 DEF AnnounceInv
    <2>4. EngagedOnes' = {} /\ operator' = "idle"
      BY <2>1, <2>2 DEF EngagedOnes
    <2>5. Agreed'
      BY <2>1, <2>3 DEF Agreed, Active
    <2>6. QED
      BY <2>1, <2>4, <2>5, NobodyEngaged
  <1>10. ASSUME ResolutionLost PROVE AnnounceInv'
    BY <1>0, <1>10, ResolutionLostFacts DEF Orderly
  <1>11. ASSUME NEW s \in {"open", "acknowledged", "resolved"}, NEW announces \in BOOLEAN,
                UpdateIncidentState(s, announces)
         PROVE  AnnounceInv'
    <2>1. /\ operator = "idle" /\ incident'.state = s
          /\ history'.opened = history.opened
          /\ obs' = obs /\ sweeper' = sweeper /\ said' = said
      BY <1>11, UpdateFacts
    <2>2. announces /\ ~sweeper /\ \A o \in Observers : obs[o].phase \notin Critical
      BY <1>11, UpdateFacts DEF Orderly
    <2>3. operator' = IF s = "resolved" THEN "resolved" ELSE "updated"
      BY <1>11, <2>2, UpdateFacts
    <2>4. EngagedOnes = {} /\ EngagedOnes' = {}
      BY <2>1, <2>2 DEF EngagedOnes
    <2>5. said.openings = history.opened
      BY <1>0, <2>1, <2>2, <2>4 DEF AnnounceInv, Agreed
    <2>6. /\ operator' = "resolved" => incident'.state = "resolved"
          /\ operator' = "updated" => incident'.state \in Active
          /\ operator' # "idle" /\ ~sweeper' /\ said'.openings = history'.opened
      BY <2>1, <2>2, <2>3, <2>5 DEF Active
    <2>7. QED
      BY <2>4, <2>6, NobodyEngaged
  <1>12. ASSUME ChangeIncidentState PROVE AnnounceInv'
    <2>1. /\ operator # "idle" /\ operator' = "idle"
          /\ said'.openings = said.openings /\ said'.last = operator
          /\ UNCHANGED <<incident, obs, sweeper, history>>
      BY <1>12, ChangeFacts
    <2>2. EngagedOnes = {} /\ ~sweeper
      BY <1>0, <2>1, Alone
    <2>3. /\ said.openings = history.opened
          /\ operator = "resolved" => incident.state \in {"none", "resolved"}
          /\ operator = "updated" => incident.state \in Active
      BY <1>0, <2>1 DEF AnnounceInv
    <2>4. EngagedOnes' = {} /\ ~sweeper'
      BY <2>1, <2>2 DEF EngagedOnes
    <2>5. Agreed'
      BY <1>0, <2>1, <2>3 DEF Agreed, Active
    <2>6. QED
      BY <2>1, <2>4, <2>5, NobodyEngaged
  <1>13. ASSUME Cleanup PROVE AnnounceInv'
    <2>1. /\ incident' = incident \/ (incident.state = "resolved" /\ incident'.state = "none")
          /\ UNCHANGED <<obs, sweeper, operator, said, history>>
      BY <1>13, CleanupFacts, NoneFacts
    <2>2. CASE incident'.state = incident.state
      BY <2>1, <2>2, AnnounceFrame
    <2>3. CASE incident.state = "resolved" /\ incident'.state = "none"
      <3>1. Created' = Created /\ EngagedOnes' = EngagedOnes
        BY <2>1, <2>3 DEF Created, EngagedOnes
      <3>2. Agreed => Agreed'
        BY <2>1, <2>3 DEF Agreed, Active
      <3>3. \A o \in Observers : obs[o].phase # "announce"
        BY <1>0, <2>3 DEF AnnounceInv, Active
      <3>4. operator # "updated"
        BY <1>0, <2>3 DEF AnnounceInv, Active
      <3>5. \A o \in Observers : obs[o].phase = "write" => obs[o].created = Created
        BY <1>0 DEF AnnounceInv
      <3>6. \A o \in Observers : obs'[o].phase = "write" => obs'[o].created = Created'
        BY <2>1, <3>1, <3>5
      <3>7. /\ \A o, p \in EngagedOnes' : o = p
            /\ EngagedOnes' # {} => ~sweeper' /\ operator' = "idle"
            /\ ~(sweeper' /\ operator' # "idle")
            /\ sweeper' \/ operator' # "idle" => said'.openings = history'.opened
        BY <1>0, <2>1, <3>1 DEF AnnounceInv
      <3>8. ~sweeper' /\ operator' = "idle" /\ (\A o \in EngagedOnes' : obs'[o].phase = "write") => Agreed'
        BY <1>0, <2>1, <3>1, <3>2 DEF AnnounceInv
      <3>9. QED
        BY <2>1, <2>3, <3>3, <3>4, <3>6, <3>7, <3>8 DEF AnnounceInv
    <2>4. QED
      BY <2>1, <2>2, <2>3
  <1>14. ASSUME Tick PROVE AnnounceInv'
    BY <1>14, TickFacts, AnnounceFrame DEF Same
  <1>15. ASSUME UNCHANGED vars PROVE AnnounceInv'
    <2>1. UNCHANGED <<incident, obs, sweeper, operator, said, history>>
      BY <1>15 DEF vars
    <2>2. QED
      BY <2>1, AnnounceFrame
  <1>16. QED
    BY <1>1, <1>2, <1>3, <1>4, <1>5, <1>6, <1>7, <1>8, <1>9, <1>10, <1>11, <1>12, <1>13, <1>14,
       <1>15, NextCases

-----------------------------------------------------------------------------
(* What is proved of every behaviour *)

LEMMA IncidentsInit ==
  ASSUME Init
  PROVE  IncidentsInv
  <1>1. /\ analyses = {} /\ incident = NoIncident /\ obs = [o \in Observers |-> Silent]
        /\ sweeper = FALSE /\ operator = "idle" /\ said = [openings |-> 0, last |-> "none"]
        /\ history = [opened |-> 0, seen |-> 0, faults |-> 0, changes |-> 0,
                      overlapped |-> FALSE, silent |-> FALSE, blamed |-> FALSE]
    BY DEF Init
  <1>2. Silent \in ObserverRecord
    BY AgeFacts DEF Silent, ObserverRecord, Phases
  <1>3. \A o \in Observers : obs[o] = Silent
    BY <1>1
  <1>4. /\ Silent.phase = "quiet" /\ Silent.attempt = 0 /\ Silent.repos = 0 /\ Silent.orgs = 0
        /\ Silent.occurrences = 0 /\ Silent.provider = FALSE
    BY DEF Silent
  <1>5. IncidentsTypeOK
    <2>1. obs \in [Observers -> ObserverRecord]
      BY <1>1, <1>2
    <2>2. IsFiniteSet(analyses) /\ analyses \subseteq AnalysisRecord
      BY <1>1, FS_EmptySet
    <2>3. history \in HistoryRecord /\ said \in SaidRecord
      BY <1>1, AgeFacts DEF HistoryRecord, SaidRecord
    <2>4. QED
      BY <1>1, <2>1, <2>2, <2>3, NoneFacts DEF IncidentsTypeOK
  <1>6. TimesInv
    BY <1>1, <1>3, <1>4, NoneFacts DEF TimesInv
  <1>7. CountInv
    <2>1. Started = {} /\ Attempting = {}
      BY <1>3, <1>4 DEF Started, Attempting
    <2>2. Cardinality(analyses) = 0 /\ Cardinality(Attempting) = 0 /\ Cardinality(Started) = 0
          /\ history.faults = 0
      BY <1>1, <2>1, FS_EmptySet
    <2>3. QED
      BY <1>1, <1>3, <1>4, <2>2 DEF CountInv
  <1>8. BoundInv
    <2>1. Started \subseteq Observers
      BY DEF Started
    <2>2. \A o \in Observers : Bounded(obs[o])
      <3>1. Cardinality(ReposOf(Started)) \in Nat /\ Cardinality(OrgsOf(Started)) \in Nat
            /\ Cardinality(Started) + history.faults \in Nat
        BY <1>5, <2>1, ReposGrow, CountTypes
      <3>2. QED
        BY <1>3, <1>4, <3>1 DEF Bounded
    <2>3. QED
      BY <1>1, <1>3, <1>4, <2>2, NoneFacts DEF BoundInv
  <1>9. OpenInv
    BY <1>1, <1>3, <1>4, NoneFacts DEF OpenInv, ThresholdOpens
  <1>10. AnnounceInv
    <2>1. EngagedOnes = {} /\ \A o \in Observers : obs[o].phase # "write" /\ obs[o].phase # "announce"
      BY <1>3, <1>4 DEF EngagedOnes, Critical
    <2>2. Agreed
      BY <1>1, NoneFacts DEF Agreed, Active
    <2>3. QED
      BY <1>1, <2>1, <2>2 DEF AnnounceInv
  <1>11. QED
    BY <1>5, <1>6, <1>7, <1>8, <1>9, <1>10 DEF IncidentsInv

LEMMA IncidentsStep ==
  ASSUME IncidentsInv, [Next]_vars
  PROVE  IncidentsInv'
  BY TypeKept, TimesKept, CountKept, BoundKept, OpenKept, AnnounceKept DEF IncidentsInv

(* The invariant of all of them: types, times, counts, bounds, openings    *)
(* and announcements, whatever the handlers, the maintenance loop and the  *)
(* operators do between each other's steps.                                *)
THEOREM IncidentsSafe == Spec => []IncidentsInv
  BY IncidentsInit, IncidentsStep, PTL DEF Spec

(* However many failing jobs there are and however their handlers overlap, *)
(* are cut short and run again, an incident never claims more repositories,*)
(* organizations or occurrences than there were, and a cluster somebody    *)
(* could see is never missed.                                              *)
THEOREM EveryCountIsRight == Spec => []CountedRight
  <1>1. IncidentsInv => CountedRight
    <2> SUFFICES ASSUME IncidentsInv PROVE CountedRight
      OBVIOUS
    <2>1. ThresholdOpens
      BY DEF IncidentsInv, OpenInv
    <2>2. CountsHonest
      BY DEF IncidentsInv, BoundInv, Bounded, Warranted, CountsHonest
    <2>3. QED
      BY <2>1, <2>2 DEF CountedRight
  <1>2. QED
    BY <1>1, IncidentsSafe, PTL

(* While no two of them overlap, nothing is changed silently and nothing   *)
(* fails, every opening is announced once, as an opening, and the last     *)
(* announcement says what the incident is, however long it goes on.        *)
THEOREM AnnouncementsAlwaysAgree == Spec => []AnnouncementsAgree
  <1>1. IncidentsInv => AnnouncementsAgree
    <2> SUFFICES ASSUME IncidentsInv, Resting, Orderly
                 PROVE  Agreed
      BY DEF AnnouncementsAgree, Orderly, Agreed
    <2>1. EngagedOnes = {}
      BY DEF Resting, EngagedOnes, Critical
    <2>2. QED
      BY <2>1 DEF IncidentsInv, AnnounceInv, Resting
  <1>2. QED
    BY <1>1, IncidentsSafe, PTL

(* One step of what a late handler may do. *)
GrowsStep ==
    incident.state # "none" /\ incident'.state # "none" =>
        /\ incident.repos <= incident'.repos
        /\ incident.orgs <= incident'.orgs
        /\ incident.occurrences <= incident'.occurrences
        /\ incident.severity <= incident'.severity
        /\ incident.first <= incident'.first
        /\ incident.state = "acknowledged" /\ obs' # obs
               => incident'.state = "acknowledged"

LEMMA Grows ==
  ASSUME IncidentsInv, [Next]_vars
  PROVE  GrowsStep
  <1>0. /\ IncidentsTypeOK
        /\ incident.repos \in Nat /\ incident.orgs \in Nat /\ incident.occurrences \in Nat
        /\ incident.severity \in Nat /\ incident.first \in Nat
    <2>1. IncidentsTypeOK
      BY DEF IncidentsInv
    <2>2. QED
      BY <2>1, RecordFields, AgeFacts
  <1>1. ASSUME incident' = incident PROVE GrowsStep
    BY <1>0, <1>1 DEF GrowsStep
  <1>2. ASSUME StateOnly, obs' = obs PROVE GrowsStep
    BY <1>0, <1>2 DEF GrowsStep, StateOnly
  <1>3. ASSUME CorrelateStep PROVE GrowsStep
    BY <1>0, <1>1, <1>3, CorrelateFacts DEF CorrelateStep
  <1>4. ASSUME NEW o \in Observers, RecordAnalysisForTenant(o) PROVE GrowsStep
    BY <1>0, <1>1, <1>4, RecordFacts
  <1>5. ASSUME NEW o \in Observers, Decide(o) PROVE GrowsStep
    BY <1>0, <1>1, <1>5, DecideFacts
  <1>6. ASSUME NEW o \in Observers, Read(o) PROVE GrowsStep
    BY <1>0, <1>1, <1>6, ReadFacts
  <1>7. ASSUME NEW o \in Observers, UpsertIncidentForTenant(o) PROVE GrowsStep
    <2>1. incident' = Upserted(o)
      BY <1>0, <1>7, UpsertFacts
    <2>2. /\ incident'.repos >= incident.repos /\ incident'.orgs >= incident.orgs
          /\ incident'.occurrences >= incident.occurrences
          /\ incident'.severity >= incident.severity /\ incident'.first >= incident.first
          /\ incident.state = "acknowledged" => incident'.state = "acknowledged"
      BY <1>0, <2>1, UpsertedFacts
    <2>3. incident' \in IncidentRecord
      BY <1>0, <2>1, UpsertedFacts
    <2>4. /\ incident'.repos \in Nat /\ incident'.orgs \in Nat /\ incident'.occurrences \in Nat
          /\ incident'.severity \in Nat /\ incident'.first \in Ages
      BY <2>3 DEF IncidentRecord
    <2>5. incident'.first \in Nat
      BY <2>4, AgeFacts
    <2>6. QED
      BY <1>0, <2>2, <2>4, <2>5 DEF GrowsStep
  <1>8. ASSUME NEW o \in Observers, Announce(o) PROVE GrowsStep
    BY <1>0, <1>1, <1>8, AnnounceFacts
  <1>9. ASSUME NEW o \in Observers, CutShort(o) PROVE GrowsStep
    BY <1>0, <1>1, <1>9, CutShortFacts
  <1>10. ASSUME ResolveStaleIncidentsDetailed PROVE GrowsStep
    BY <1>0, <1>2, <1>10, ResolveFacts
  <1>11. ASSUME AnnounceResolved PROVE GrowsStep
    BY <1>0, <1>1, <1>11, AnnounceResolvedFacts
  <1>12. ASSUME ResolutionLost PROVE GrowsStep
    BY <1>0, <1>1, <1>12, ResolutionLostFacts
  <1>13. ASSUME NEW s \in {"open", "acknowledged", "resolved"}, NEW announces \in BOOLEAN,
                UpdateIncidentState(s, announces)
         PROVE  GrowsStep
    BY <1>0, <1>2, <1>13, UpdateFacts
  <1>14. ASSUME ChangeIncidentState PROVE GrowsStep
    BY <1>0, <1>1, <1>14, ChangeFacts
  <1>15. ASSUME Cleanup PROVE GrowsStep
    <2>1. incident' = incident \/ incident'.state = "none"
      BY <1>0, <1>15, CleanupFacts, NoneFacts
    <2>2. QED
      BY <1>1, <2>1 DEF GrowsStep
  <1>16. ASSUME Tick PROVE GrowsStep
    <2>1. /\ incident'.state = incident.state /\ incident'.severity = incident.severity
          /\ incident'.repos = incident.repos /\ incident'.orgs = incident.orgs
          /\ incident'.occurrences = incident.occurrences /\ incident'.first >= incident.first
      BY <1>0, <1>16, TickFacts
    <2>2. IncidentsTypeOK'
      BY <1>0, <1>16, TickFacts
    <2>3. incident'.first \in Ages
      BY <2>2 DEF IncidentsTypeOK, IncidentRecord
    <2>4. incident'.first \in Nat
      BY <2>3, AgeFacts
    <2>5. QED
      BY <1>0, <2>1, <2>4 DEF GrowsStep
  <1>17. ASSUME UNCHANGED vars PROVE GrowsStep
    BY <1>1, <1>17 DEF vars
  <1>18. QED
    BY <1>0, <1>3, <1>4, <1>5, <1>6, <1>7, <1>8, <1>9, <1>10, <1>11, <1>12, <1>13, <1>14, <1>15,
       <1>16, <1>17, NextCases

LEMMA NotTooEarly ==
  ASSUME IncidentsInv, [Next]_vars, ~sweeper, sweeper'
  PROVE  history.seen + Handling > ResolveAfter
  <1>0. IncidentsTypeOK
    BY DEF IncidentsInv
  <1>1. ResolveStaleIncidentsDetailed
    <2>1. ASSUME sweeper' = sweeper PROVE FALSE
      BY <2>1
    <2>2. ASSUME CorrelateStep PROVE FALSE
      BY <1>0, <2>1, <2>2, CorrelateFacts DEF CorrelateStep
    <2>3. ASSUME NEW o \in Observers, RecordAnalysisForTenant(o) PROVE FALSE
      BY <1>0, <2>1, <2>3, RecordFacts
    <2>4. ASSUME NEW o \in Observers, Decide(o) PROVE FALSE
      BY <1>0, <2>1, <2>4, DecideFacts
    <2>5. ASSUME NEW o \in Observers, Read(o) PROVE FALSE
      BY <1>0, <2>1, <2>5, ReadFacts
    <2>6. ASSUME NEW o \in Observers, UpsertIncidentForTenant(o) PROVE FALSE
      BY <1>0, <2>1, <2>6, UpsertFacts
    <2>7. ASSUME NEW o \in Observers, Announce(o) PROVE FALSE
      BY <1>0, <2>1, <2>7, AnnounceFacts
    <2>8. ASSUME NEW o \in Observers, CutShort(o) PROVE FALSE
      BY <1>0, <2>1, <2>8, CutShortFacts
    <2>9. ASSUME NEW s \in {"open", "acknowledged", "resolved"}, NEW announces \in BOOLEAN,
                 UpdateIncidentState(s, announces)
          PROVE  FALSE
      BY <1>0, <2>1, <2>9, UpdateFacts
    <2>10. ASSUME AnnounceResolved \/ ResolutionLost \/ ChangeIncidentState PROVE FALSE
      BY <1>0, <2>1, <2>10, AnnounceResolvedFacts, ResolutionLostFacts, ChangeFacts
    <2>11. ASSUME Cleanup \/ Tick PROVE FALSE
      BY <1>0, <2>1, <2>11, CleanupFacts, TickFacts
    <2>12. ASSUME UNCHANGED vars PROVE FALSE
      BY <2>1, <2>12 DEF vars
    <2>13. QED
      BY <1>0, <2>2, <2>3, <2>4, <2>5, <2>6, <2>7, <2>8, <2>9, <2>10, <2>11, <2>12, NextCases
  <1>2. incident.state # "none" /\ incident.last > ResolveAfter
    BY <1>0, <1>1, ResolveFacts DEF Active
  <1>3. incident.last <= history.seen + Handling
    BY <1>2 DEF IncidentsInv, TimesInv
  <1>4. incident.last \in Nat /\ history.seen \in Nat
    BY <1>0, RecordFields, AgeFacts
  <1>5. QED
    BY <1>2, <1>3, <1>4, TimingAssumption

(* However late a handler writes: what an incident knows only grows, an    *)
(* acknowledgement stays, and the sweep resolves nothing that was seen     *)
(* within ResolveAfter, but for the time a handler may take.               *)
THEOREM LateWritesNeverHarm == Spec => LateWritesHarmless
  <1>1. IncidentsInv /\ [Next]_vars => GrowsStep
    BY Grows
  <1>2. IncidentsInv /\ [Next]_vars => (~sweeper /\ sweeper' => history.seen + Handling > ResolveAfter)
    BY NotTooEarly
  <1>3. Spec => OnlyGrows
    BY <1>1, IncidentsSafe, PTL DEF Spec, OnlyGrows, GrowsStep
  <1>4. Spec => ResolvedNotTooEarly
    BY <1>2, IncidentsSafe, PTL DEF Spec, ResolvedNotTooEarly
  <1>5. QED
    BY <1>3, <1>4 DEF LateWritesHarmless
=============================================================================
