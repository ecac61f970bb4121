----------------------------- MODULE Incidents ------------------------------
(***************************************************************************)
(* Incidents: one fingerprint of one tenant.                               *)
(*                                                                         *)
(* A failing job is analysed by a worker goroutine (worker.go) or an HTTP  *)
(* handler (server.go): it counts what failed alike (CorrelationForTenant),*)
(* records its own analysis, and, when enough repositories or              *)
(* organizations failed, upserts the incident and enqueues an              *)
(* announcement.  Each of these is a step of the store; nothing holds them *)
(* together.  The maintenance loop resolves incidents nobody saw for a     *)
(* while, operators change their state, retention removes them.            *)
(*                                                                         *)
(* Times are ages, cut off at MaxAge: no threshold is above it.            *)
(***************************************************************************)
EXTENDS Naturals, FiniteSets

CONSTANTS
    Observers,      \* failing jobs, each analysed by a process of its own
    RepoOf, OrgOf,  \* of each of them
    NoOrg,          \* a failure that names no organization
    Stamped,        \* those whose event says when they failed
    Criticality,    \* the least severity the repository's profile asks for
    RepoThreshold, OrgThreshold,
    MajorAt, CriticalAt,     \* repositories that make an incident severe
    Window,         \* IncidentWindow
    ResolveAfter,   \* IncidentResolveAfter
    Retention,
    Handling,       \* a handler's time from reading the clock to its upsert
    ProviderStates, \* what the provider statuses may say to each of them
    MaxEvents       \* bound: faults and changes by operators together

ASSUME ThresholdAssumption ==
    /\ RepoThreshold \in Nat /\ RepoThreshold >= 2
    /\ OrgThreshold \in Nat /\ OrgThreshold >= 2
    /\ MajorAt \in Nat /\ CriticalAt \in Nat /\ MajorAt <= CriticalAt

ASSUME TimingAssumption ==
    /\ Window \in Nat /\ ResolveAfter \in Nat
    /\ Retention \in Nat /\ Handling \in Nat
    /\ Window <= ResolveAfter
    /\ ResolveAfter <= Retention

ASSUME BoundsAssumption ==
    /\ IsFiniteSet(Observers)
    /\ RepoOf \in [Observers -> STRING]
    /\ OrgOf \in [Observers -> STRING]
    /\ Criticality \in [Observers -> 0..2]
    /\ Stamped \subseteq Observers
    /\ ProviderStates \in [Observers -> SUBSET BOOLEAN]
    /\ MaxEvents \in Nat

VARIABLES
    analyses,   \* the recorded analyses: whose, of which attempt, how old
    incident,   \* the incident record
    obs,        \* what each observer is doing
    sweeper,    \* the maintenance loop has an announcement to make
    operator,   \* the change an operator's handler has to announce
    said,       \* history: the announcements enqueued
    history     \* history: what the environment did

vars == <<analyses, incident, obs, sweeper, operator, said, history>>

MaxAge == Retention + 1
Ages == 0..MaxAge
Active == {"open", "acknowledged"}
Critical == {"write", "announce"}

NoIncident ==
    [state |-> "none", severity |-> 0, repos |-> 0, orgs |-> 0,
     occurrences |-> 0,
     first |-> 0, last |-> 0, resolved |-> 0]   \* ages: since FirstSeenAt and so on

Silent ==
    [phase |-> "quiet",    \* then "retry", "record", "decide", "read", "write", "announce", "done"
     attempt |-> 0, age |-> 0,
     prior |-> {},         \* history: whose analyses it could count
     repos |-> 0, orgs |-> 0, occurrences |-> 0, provider |-> FALSE,
     stamp |-> 0,          \* how long ago it read the clock for the incident
     created |-> FALSE,
     cut |-> FALSE]        \* history: a fault ended it

Larger(a, b) == IF a < b THEN b ELSE a
Smaller(a, b) == IF a < b THEN a ELSE b

Eventful == history.faults + history.changes < MaxEvents

(* Somebody other than o is between its look at the incident and its       *)
(* announcement.                                                           *)
Engaged(o) ==
    \/ \E p \in Observers \ {o} : obs[p].phase \in Critical
    \/ sweeper
    \/ operator # "idle"

-----------------------------------------------------------------------------
(* What is left of an observer when its handler returns. *)
Ended(o, cut) == [Silent EXCEPT !.phase = "done", !.cut = cut,
                                !.prior = obs[o].prior]

(* The analyses of the window, and the failure itself.                     *)
Recent == {a \in analyses : a.age <= Window}
ReposOf(S) == {RepoOf[o] : o \in S}
OrgsOf(S) == {OrgOf[o] : o \in S} \ {NoOrg}

(* Mutant: the failure itself is added although it was counted. *)
CorrelationForTenant_Twice(o) ==
    LET alike == {a.by : a \in Recent} \cup {o}
    IN [repos |-> Cardinality(ReposOf(alike)) + 1,
        orgs |-> Cardinality(OrgsOf(alike)) + 1,
        occurrences |-> Cardinality(Recent) + 1]

CorrelationForTenant(o) ==
    LET alike == {a.by : a \in Recent} \cup {o}
    IN [repos |-> Cardinality(ReposOf(alike)),
        orgs |-> Cardinality(OrgsOf(alike)),
        occurrences |-> Cardinality(Recent) + 1]

Correlate(o, age) ==
    /\ LET c == CorrelationForTenant(o)
       IN obs' = [obs EXCEPT ![o] = [obs[o] EXCEPT
              !.phase = "record", !.attempt = obs[o].attempt + 1, !.age = age,
              !.prior = {p \in Observers : \E a \in Recent : a.by = p},
              !.repos = c.repos, !.orgs = c.orgs, !.occurrences = c.occurrences]]
    /\ UNCHANGED <<analyses, incident, sweeper, operator, said, history>>

(* A job fails; a delayed event is old when somebody gets to analyse it. *)
Fail(o, age) ==
    /\ obs[o].phase = "quiet"
    /\ age = 0 \/ o \in Stamped
    /\ Correlate(o, age)

Retry(o) == obs[o].phase = "retry" /\ Correlate(o, obs[o].age)

(* The analysis has the time of the failure, if the event says it, and     *)
(* keeps it through retries; else it is dated now.  The provider's status  *)
(* is looked up on the way.                                                *)
RecordAnalysisForTenant(o) ==
    /\ obs[o].phase = "record"
    /\ analyses' = analyses \cup
           {[by |-> o, attempt |-> obs[o].attempt, age |-> obs[o].age]}
    /\ \E down \in ProviderStates[o] :
         /\ obs' = [obs EXCEPT ![o] = [obs[o] EXCEPT !.phase = "decide", !.provider = down]]
         /\ history' = [history EXCEPT !.blamed = history.blamed \/ down]
    /\ UNCHANGED <<incident, sweeper, operator, said>>

(* Below the thresholds there is no incident; else the clock is read. *)
Reached(o) ==
    \/ obs[o].provider
    \/ obs[o].repos >= RepoThreshold
    \/ obs[o].orgs >= OrgThreshold

Decide(o) ==
    /\ obs[o].phase = "decide"
    /\ obs' = [obs EXCEPT ![o] =
           IF Reached(o) THEN [obs[o] EXCEPT !.phase = "read", !.stamp = 0]
           ELSE Ended(o, FALSE)]
    /\ UNCHANGED <<analyses, incident, sweeper, operator, said, history>>

(* Mutant: a resolved incident counts as there. *)
Created_NotResolved == incident.state = "none"

(* GetIncidentForTenant: was there one? *)
Created == incident.state \in {"none", "resolved"}

Read(o) ==
    /\ obs[o].phase = "read"
    /\ obs' = [obs EXCEPT ![o] = [obs[o] EXCEPT !.phase = "write", !.created = Created]]
    /\ history' = [history EXCEPT !.overlapped = history.overlapped \/ Engaged(o)]
    /\ UNCHANGED <<analyses, incident, sweeper, operator, said>>

Severity(o) ==
    Larger(Criticality[o],
           IF obs[o].repos >= CriticalAt THEN 2
           ELSE IF obs[o].repos >= MajorAt \/ obs[o].provider THEN 1 ELSE 0)

(* Mutant: the stored LastSeenAt is kept, like FirstSeenAt. *)
Upserted_KeepLast(o) ==
    [state |-> IF incident.state = "acknowledged" THEN "acknowledged" ELSE "open",
     severity |-> Larger(incident.severity, Severity(o)),
     repos |-> Larger(incident.repos, obs[o].repos),
     orgs |-> Larger(incident.orgs, obs[o].orgs),
     occurrences |-> Larger(incident.occurrences, obs[o].occurrences),
     first |-> Larger(incident.first, obs[o].stamp),
     last |-> Larger(incident.last, obs[o].stamp),
     resolved |-> 0]

(* The counts, the severity and the first sighting of the stored record    *)
(* win over lower ones; its last sighting and, unless acknowledged, its    *)
(* state do not: the caller always says "open", so that a resolved         *)
(* incident reopens whether its resolution is older or newer than i.       *)
Upserted(o) ==
    [state |-> IF incident.state = "acknowledged" THEN "acknowledged" ELSE "open",
     severity |-> Larger(incident.severity, Severity(o)),
     repos |-> Larger(incident.repos, obs[o].repos),
     orgs |-> Larger(incident.orgs, obs[o].orgs),
     occurrences |-> Larger(incident.occurrences, obs[o].occurrences),
     first |-> Larger(incident.first, obs[o].stamp),
     last |-> obs[o].stamp,
     resolved |-> 0]

UpsertIncidentForTenant(o) ==
    /\ obs[o].phase = "write"
    /\ incident' = Upserted(o)
    /\ obs' = [obs EXCEPT ![o] = [obs[o] EXCEPT !.phase = "announce", !.repos = 0, !.orgs = 0,
           !.occurrences = 0, !.provider = FALSE, !.stamp = 0]]
    /\ history' = [history EXCEPT
           !.opened = history.opened + (IF Created THEN 1 ELSE 0),
           !.seen = IF incident.state = "none" THEN obs[o].stamp
                    ELSE Smaller(history.seen, obs[o].stamp)]
    /\ UNCHANGED <<analyses, sweeper, operator, said>>

(* The record is read again for the announcement; it may be gone.  The     *)
(* kind of the announcement does not depend on it: reading and enqueueing  *)
(* are one step.                                                           *)
Announcement(o) ==
    IF incident.state = "none" THEN said
    ELSE IF obs[o].created
    THEN [openings |-> said.openings + 1, last |-> "opened"]
    ELSE [said EXCEPT !.last = "updated"]

Announce(o) ==
    /\ obs[o].phase = "announce"
    /\ said' = Announcement(o)
    /\ obs' = [obs EXCEPT ![o] = Ended(o, FALSE)]
    /\ UNCHANGED <<analyses, incident, sweeper, operator, history>>

(* A store call fails, or the process dies, between two steps.  A job may  *)
(* run again from its start, an HTTP request does not, and a failed upsert *)
(* is only logged for a GitHub job: both ends are possible.  An analysis   *)
(* of an earlier attempt stays.                                            *)
CutShort(o) ==
    /\ obs[o].phase \notin {"quiet", "done"}
    /\ Eventful
    /\ history' = [history EXCEPT !.faults = history.faults + 1]
    /\ \/ obs' = [obs EXCEPT ![o] = [Silent EXCEPT !.phase = "retry",
                     !.attempt = obs[o].attempt, !.age = obs[o].age]]
       \/ obs' = [obs EXCEPT ![o] = Ended(o, TRUE)]
    /\ UNCHANGED <<analyses, incident, sweeper, operator, said>>

Step(o) ==
    \/ Retry(o) \/ RecordAnalysisForTenant(o) \/ Decide(o) \/ Read(o)
    \/ UpsertIncidentForTenant(o) \/ Announce(o)

-----------------------------------------------------------------------------
(* Mutant: only open incidents are resolved. *)
Stale_Open == incident.state = "open" /\ incident.last > ResolveAfter

(* The maintenance loop: what was last seen before the cutoff is resolved, *)
(* in one step, and then announced, in another.                            *)
Stale == incident.state \in Active /\ incident.last > ResolveAfter

ResolveStaleIncidentsDetailed ==
    /\ ~sweeper
    /\ Stale
    /\ incident' = [incident EXCEPT !.state = "resolved", !.resolved = 0]
    /\ sweeper' = TRUE
    /\ history' = [history EXCEPT !.overlapped = history.overlapped \/ operator # "idle"
                       \/ \E o \in Observers : obs[o].phase \in Critical]
    /\ UNCHANGED <<analyses, obs, operator, said>>

AnnounceResolved ==
    /\ sweeper
    /\ sweeper' = FALSE
    /\ said' = [said EXCEPT !.last = "resolved"]
    /\ UNCHANGED <<analyses, incident, obs, operator, history>>

(* The process stops between the two, or the announcement cannot be        *)
(* enqueued: it is only logged, and nobody makes it again.                 *)
ResolutionLost ==
    /\ sweeper
    /\ Eventful
    /\ sweeper' = FALSE
    /\ history' = [history EXCEPT !.faults = history.faults + 1]
    /\ UNCHANGED <<analyses, incident, obs, operator, said>>

(* An operator acknowledges, resolves or reopens.  The HTTP handler also   *)
(* announces it; ChatOps, MCP and the command line do not.                 *)
WithState(s) ==
    [incident EXCEPT !.state = s,
        !.resolved = IF s = "acknowledged" THEN incident.resolved ELSE 0]

UpdateIncidentState(s, announces) ==
    /\ operator = "idle"
    /\ incident.state # "none"
    /\ Eventful
    /\ incident' = WithState(s)
    /\ operator' = IF ~announces THEN "idle"
                   ELSE IF s = "resolved" THEN "resolved" ELSE "updated"
    /\ history' = [history EXCEPT !.changes = history.changes + 1,
           !.silent = history.silent \/ ~announces,
           !.overlapped = history.overlapped \/ sweeper
               \/ \E o \in Observers : obs[o].phase \in Critical]
    /\ UNCHANGED <<analyses, obs, sweeper, said>>

ChangeIncidentState ==
    /\ operator # "idle"
    /\ said' = [said EXCEPT !.last = operator]
    /\ operator' = "idle"
    /\ UNCHANGED <<analyses, incident, obs, sweeper, history>>

(* Retention.  The embedded store goes by the time of the resolution,      *)
(* PostgreSQL by the event time of the row, the last sighting.             *)
Removable(age) == incident.state = "resolved" /\ age > Retention

Cleanup ==
    /\ analyses' = {a \in analyses : a.age <= Retention}
    /\ \E age \in {incident.resolved, incident.last} :
         incident' = IF Removable(age) THEN NoIncident ELSE incident
    /\ UNCHANGED <<obs, sweeper, operator, said, history>>

(* Time passes.  A handler that read the clock writes before it is too     *)
(* old: its context ends with the lease, its store calls have timeouts.    *)
Older(a) == IF a < MaxAge THEN a + 1 ELSE a

Tick ==
    /\ \A o \in Observers :
         obs[o].phase \in {"read", "write"} => obs[o].stamp < Handling
    /\ analyses' = {[a EXCEPT !.age = Older(a.age)] : a \in analyses}
    /\ incident' = IF incident.state = "none" THEN incident
                   ELSE [incident EXCEPT !.first = Older(incident.first), !.last = Older(incident.last),
                            !.resolved = IF incident.state = "resolved"
                                         THEN Older(incident.resolved) ELSE incident.resolved]
    /\ obs' = [o \in Observers |->
           [obs[o] EXCEPT
               !.age = IF o \notin Stamped \/ obs[o].phase \in {"quiet", "done"}
                       THEN obs[o].age ELSE Older(obs[o].age),
               !.stamp = IF obs[o].phase \in {"read", "write"}
                         THEN Older(obs[o].stamp) ELSE obs[o].stamp]]
    /\ history' = [history EXCEPT !.seen = Older(history.seen)]
    /\ UNCHANGED <<sweeper, operator, said>>

-----------------------------------------------------------------------------
Init ==
    /\ analyses = {}
    /\ incident = NoIncident
    /\ obs = [o \in Observers |-> Silent]
    /\ sweeper = FALSE
    /\ operator = "idle"
    /\ said = [openings |-> 0, last |-> "none"]
    /\ history = [opened |-> 0, seen |-> 0, faults |-> 0, changes |-> 0,
                  overlapped |-> FALSE, silent |-> FALSE, blamed |-> FALSE]

Next ==
    \/ \E o \in Observers, age \in Ages : Fail(o, age)
    \/ \E o \in Observers : Step(o) \/ CutShort(o)
    \/ ResolveStaleIncidentsDetailed \/ AnnounceResolved \/ ResolutionLost
    \/ \E s \in {"open", "acknowledged", "resolved"}, announces \in BOOLEAN :
         UpdateIncidentState(s, announces)
    \/ ChangeIncidentState
    \/ Cleanup
    \/ Tick

(* Handlers and loops go on, and so does time; failures, operators, faults *)
(* and retention need not happen.                                          *)
Fairness ==
    /\ \A o \in Observers : WF_vars(Step(o))
    /\ WF_vars(ResolveStaleIncidentsDetailed)
    /\ WF_vars(AnnounceResolved)
    /\ WF_vars(ChangeIncidentState)
    /\ WF_vars(Tick)

Spec == Init /\ [][Next]_vars /\ Fairness

-----------------------------------------------------------------------------

Started == {o \in Observers : obs[o].attempt > 0 \/ obs[o].phase = "done"}

(* Nothing is counted twice but a failure whose handler was cut short: the *)
(* numbers of an incident are never above the repositories and             *)
(* organizations that failed, nor above the attempts to analyse them, and  *)
(* without a provider's outage an incident means a threshold was reached.  *)
CountsHonest ==
    incident.state # "none" =>
        /\ incident.repos <= Cardinality(ReposOf(Started))
        /\ incident.orgs <= Cardinality(OrgsOf(Started))
        /\ incident.occurrences <= Cardinality(Started) + history.faults
        /\ \/ incident.repos >= RepoThreshold
           \/ incident.orgs >= OrgThreshold
           \/ history.blamed

(* A cluster of failures is missed only by handlers that overlapped: one   *)
(* that started when the others were recorded, recently and in enough      *)
(* repositories or organizations, and was not cut short, opens the         *)
(* incident.                                                               *)
ThresholdOpens ==
    \A o \in Observers :
        LET cluster == obs[o].prior \cup {o}
        IN /\ obs[o].phase = "done" /\ ~obs[o].cut
           /\ \/ Cardinality(ReposOf(cluster)) >= RepoThreshold
              \/ Cardinality(OrgsOf(cluster)) >= OrgThreshold
           => history.opened > 0

(* What the failures of a cluster add up to: neither too much is counted   *)
(* nor is the threshold missed.                                            *)
CountedRight == CountsHonest /\ ThresholdOpens

(* However late a handler writes, what the incident knows only grows, and  *)
(* its acknowledgement stays: only an operator or inactivity ends it.      *)
OnlyGrows ==
    [][incident.state # "none" /\ incident'.state # "none" =>
          /\ incident.repos <= incident'.repos
          /\ incident.orgs <= incident'.orgs
          /\ incident.occurrences <= incident'.occurrences
          /\ incident.severity <= incident'.severity
          /\ incident.first <= incident'.first
          /\ incident.state = "acknowledged" /\ obs' # obs
                 => incident'.state = "acknowledged"]_vars

(* A late handler moves LastSeenAt back, but by no more than it was late:  *)
(* the sweep resolves only what nobody saw for ResolveAfter, but for that. *)
ResolvedNotTooEarly ==
    [][~sweeper /\ sweeper' => history.seen + Handling > ResolveAfter]_vars

(* A late handler harms neither what is known nor when it is resolved. *)
LateWritesHarmless == OnlyGrows /\ ResolvedNotTooEarly

Resting ==
    /\ \A o \in Observers : obs[o].phase \in {"quiet", "done"}
    /\ ~sweeper /\ operator = "idle"

(* Of handlers that neither overlap nor fail each opening is announced     *)
(* once as an opening, a reopening after a resolution included, and the    *)
(* last announcement says what the incident is.                            *)
AnnouncementsAgree ==
    Resting /\ ~history.overlapped /\ ~history.silent /\ history.faults = 0 =>
        /\ said.openings = history.opened
        /\ incident.state \in Active => said.last \in {"opened", "updated"}
        /\ incident.state = "resolved" => said.last = "resolved"

(* When failures stop, every incident is resolved in the end, whoever      *)
(* acknowledged or reopened it and whatever failed.                        *)
ResolvedAtLast == <>[](incident.state \notin Active)
=============================================================================
