------------------------------- MODULE Intake -------------------------------
(***************************************************************************)
(* Webhooks of the CI providers: what each one's notice of a build is      *)
(* turned into, which delivery records and jobs it leaves, and which       *)
(* builds are rerun for it.  Notices of one build arrive more than once,   *)
(* in any order, with or without an id of the delivery, or with one that   *)
(* another notice has too; they leave out what their provider leaves out,  *)
(* and not every word a provider has for the end of a build is known.      *)
(***************************************************************************)
EXTENDS Faults, Integers, FiniteSets

CONSTANTS
    Providers,     \* the providers whose webhooks are enabled
    Notices,       \* what they may send
    MaxPosts,      \* how many posts there are, a bound
    Workers        \* the workers that ask for reruns

NoWord == ""
(* The ways a build ends; what a provider calls them is its Spelling. *)
OverWords == {"passed", "failed", "broken", "aborted", "timedout"}

Supported ==
    {"gitlab", "buildkite", "circleci", "jenkins", "azuredevops", "bitrise", "teamcity", "travis", "codebuild",
     "bitbucket", "drone", "semaphore", "appveyor", "cloudbuild", "github"}

(* Ids are positive, 0 is one that is left out; all notices of a build name
   the definition it was built by. *)
ASSUME IntakeAssumption ==
    /\ IsFiniteSet(Workers)
    /\ Providers \subseteq Supported
    /\ \A n \in Notices :
          /\ n = [build |-> n.build, job |-> n.job, word |-> n.word, kind |-> n.kind, header |-> n.header,
                  definition |-> n.definition, attempt |-> n.attempt]
          /\ n.build \in Nat /\ n.job \in Nat /\ n.header \in Nat /\ n.definition \in Nat \ {0}
          /\ n.attempt \in Nat \ {0}
          /\ n.word \in OverWords \cup {"running", NoWord} /\ n.kind \in {"job", "push"}
    /\ \A m, n \in Notices : m.build = n.build => m.definition = n.definition

VARIABLES
    provider,      \* whose notices these are
    posts,         \* how many there were
    answered,      \* the notices the handler was done with
    deliveries,    \* delivery id -> status
    jobs,          \* delivery id -> the queued event
    worked,        \* the deliveries whose job is done
    attempts,      \* the keys of the recorded automatic reruns
    asked,         \* the builds found to be worth a rerun
    reruns,        \* how often each build was rerun
    hand,          \* the rerun a worker is at
    overlapped     \* the keys two workers found not to be on record, one after the other

intakeVars ==
    <<provider, posts, answered, deliveries, jobs, worked, attempts, asked, reruns, hand, overlapped>>

None == -1   \* a text that is empty
Invalid == [pipeline |-> None, run |-> 0, job |-> None, conclusion |-> "invalid", attempt |-> 0]
Idle == [id |-> <<>>, at |-> "idle"]
Stamped == {"gitlab", "buildkite"}
NoFunction == [id \in {} |-> id]
Builds == {n.build : n \in Notices}

IntakeInit ==
    /\ provider \in Providers
    /\ posts = 0
    /\ answered = {}
    /\ deliveries = NoFunction
    /\ jobs = NoFunction
    /\ worked = {}
    /\ attempts = {}
    /\ asked = {}
    /\ reruns = [b \in Builds |-> 0]
    /\ hand = [w \in Workers |-> Idle]
    /\ overlapped = {}

-----------------------------------------------------------------------------
(* Reading a notice.  An id that is missing is 0 as a number and None as
   text; 0 as text is 0. *)

Text(id) == IF id = 0 THEN None ELSE id
FirstNonEmpty(a, b) == IF a # None THEN a ELSE b

(* What a provider calls the end of a build, where it is none of the words that
   NormalizeConclusion knows. *)
Spelling(word) ==
    CASE word = "passed" /\ provider \in {"azuredevops", "codebuild"} -> "succeeded"
      [] word = "broken" /\ provider = "travis" -> "errored"
      [] word = "broken" /\ provider = "cloudbuild" -> "internal_error"
      [] word = "aborted" /\ provider \in {"codebuild", "bitbucket"} -> "stopped"
      [] OTHER -> word

(* A word it does not know is passed on as it is. *)
NormalizeConclusion(word) ==
    CASE word \in {"passed", "success", "successful", "fixed"} -> "success"
      [] word \in {"failed", "failure", "error", "broken", "unstable"} -> "failure"
      [] word \in {"canceled", "cancelled", "aborted"} -> "cancelled"
      [] word \in {"timedout", "timed_out", "timeout"} -> "timed_out"
      [] OTHER -> word

Event(pipeline, run, job, n) ==
    [pipeline |-> pipeline, run |-> run, job |-> job, conclusion |-> NormalizeConclusion(Spelling(n.word)),
     attempt |-> 0]

(* The fields of a build that each provider's parser keeps, and what it cannot
   do without. *)
ParseGitLab(n) ==
    IF n.kind = "push" THEN Invalid ELSE Event(n.build, n.build, n.job, n)
ParseBuildkite(n) ==
    IF n.kind = "push" THEN Invalid ELSE Event(Text(n.build), n.build, Text(n.job), n)
ParseCircleCI(n) == Event(Text(n.build), n.build, n.job, n)
ParseJenkins(n) == Event(None, n.build, n.build, n)
ParseAzureDevOps(n) ==
    IF n.build = 0 THEN Invalid ELSE Event(n.definition, n.build, n.build, n)
ParseBitrise(n) ==
    LET state == CASE n.word = "passed" -> "success" [] n.word \in {"running", NoWord} -> "running"
                   [] n.word = "aborted" -> "cancelled" [] OTHER -> "failure" IN
    IF n.build = 0 THEN Invalid ELSE Event(n.build, n.build, n.build, [n EXCEPT !.word = state])
ParseTeamCity(n) ==
    IF n.build = 0 THEN Invalid ELSE Event(Text(n.definition), n.build, n.build, n)
ParseTravis(n) ==
    IF n.build = 0 /\ n.job = 0 THEN Invalid
    ELSE Event(n.build, n.build, IF n.job = 0 THEN n.build ELSE n.job, n)
ParseCodeBuild(n) == IF n.build = 0 THEN Invalid ELSE Event(None, 0, n.build, n)
ParseBitbucket(n) ==
    IF n.word = NoWord THEN Invalid ELSE Event(Text(n.build), n.build, Text(n.job), n)
ParseDrone(n) == IF n.word = NoWord THEN Invalid ELSE Event(n.build, n.build, n.job, n)
ParseSemaphore(n) == IF n.word = NoWord THEN Invalid ELSE Event(Text(n.build), 0, None, n)
ParseAppVeyor(n) == IF n.word = NoWord THEN Invalid ELSE Event(None, n.build, Text(n.job), n)
ParseCloudBuild(n) ==
    IF n.build = 0 \/ n.word = NoWord THEN Invalid ELSE Event(None, 0, n.build, n)

(* GitHub says in a field of its own that a run is over, and which attempt it
   was; no other parser fills the attempt. *)
ParseGitHub(n) ==
    [Event(n.build, n.build, n.job, n) EXCEPT
        !.conclusion = IF n.kind = "push" THEN "running" ELSE @, !.attempt = n.attempt]

ParseWebhook(n) ==
    CASE provider = "gitlab" -> ParseGitLab(n)           [] provider = "buildkite" -> ParseBuildkite(n)
      [] provider = "circleci" -> ParseCircleCI(n)       [] provider = "jenkins" -> ParseJenkins(n)
      [] provider = "azuredevops" -> ParseAzureDevOps(n) [] provider = "bitrise" -> ParseBitrise(n)
      [] provider = "teamcity" -> ParseTeamCity(n)       [] provider = "travis" -> ParseTravis(n)
      [] provider = "codebuild" -> ParseCodeBuild(n)     [] provider = "bitbucket" -> ParseBitbucket(n)
      [] provider = "drone" -> ParseDrone(n)             [] provider = "semaphore" -> ParseSemaphore(n)
      [] provider = "appveyor" -> ParseAppVeyor(n)       [] provider = "cloudbuild" -> ParseCloudBuild(n)
      [] provider = "github" -> ParseGitHub(n)

Failed(ev) == ev.conclusion \in {"failure", "cancelled", "timed_out"}
Terminal(ev) == ev.conclusion = "success" \/ Failed(ev)

(* A delivery without an id is known by the hash of its body. *)
DeliveryID(n) == IF n.header # 0 THEN <<"id", n.header>> ELSE <<"body", n>>

-----------------------------------------------------------------------------
(* The handler of a webhook *)

(* Two providers sign the time with the body. *)
VerifyWebhook(auth) ==
    auth \in {"token", "signature"} \/ (auth = "old signature" /\ provider \notin Stamped)

Extend(f, x, v) == [y \in DOMAIN f \cup {x} |-> IF y = x THEN v ELSE f[y]]

(* A notice nothing follows from is recorded too, unless there is a record;
   that it could not be recorded is only logged. *)
RecordTerminalDelivery(id, status) ==
    /\ \/ Fine /\ deliveries' = IF id \in DOMAIN deliveries THEN deliveries ELSE Extend(deliveries, id, status)
       \/ Fault /\ UNCHANGED deliveries
    /\ UNCHANGED jobs

(* Mutant: the record is written before the job, and stays when that fails. *)
EnqueueDelivery_InTwo(n, ev) ==
    LET id == DeliveryID(n) IN
    \/ /\ Fine /\ answered' = answered \cup {n}
       /\ IF id \in DOMAIN deliveries THEN UNCHANGED <<deliveries, jobs>>
          ELSE /\ deliveries' = Extend(deliveries, id, "received")
               /\ jobs' = Extend(jobs, id, [event |-> ev, build |-> n.build])
    \/ Fault /\ UNCHANGED <<answered, jobs>>
       /\ deliveries' = IF id \in DOMAIN deliveries THEN deliveries ELSE Extend(deliveries, id, "received")

(* The record of the delivery and its job are written together, once. *)
EnqueueDelivery(n, ev) ==
    LET id == DeliveryID(n) IN
    \/ /\ Fine /\ answered' = answered \cup {n}
       /\ IF id \in DOMAIN deliveries THEN UNCHANGED <<deliveries, jobs>>
          ELSE /\ deliveries' = Extend(deliveries, id, "received")
               /\ jobs' = Extend(jobs, id, [event |-> ev, build |-> n.build])
    \/ Fault /\ UNCHANGED <<answered, deliveries, jobs>>

Refused(n, auth) == ~VerifyWebhook(auth) \/ (provider = "github" /\ n.header = 0)

Webhook(n, auth) ==
    LET ev == ParseWebhook(n) IN
    /\ posts < MaxPosts /\ posts' = posts + 1
    /\ IF Refused(n, auth) THEN Fine /\ UNCHANGED <<answered, deliveries, jobs>>
       ELSE IF Terminal(ev) THEN EnqueueDelivery(n, ev)
       ELSE /\ RecordTerminalDelivery(DeliveryID(n), IF ev = Invalid THEN "invalid" ELSE "ignored")
            /\ answered' = answered \cup {n}
    /\ UNCHANGED <<provider, worked, attempts, asked, reruns, hand, overlapped>>

-----------------------------------------------------------------------------
(* The worker, which may find the failure external and worth a rerun *)

(* Mutant: the job comes before the run it is part of. *)
RunKey_Job(id) ==
    LET key == FirstNonEmpty(jobs[id].event.job, jobs[id].event.run) IN
    IF key = 0 THEN None ELSE key

(* The record of a rerun is filed under the first of these that is not empty;
   a run number that is missing is the text 0, for which nothing is rerun. *)
RunKey(id) ==
    LET key == FirstNonEmpty(jobs[id].event.pipeline, jobs[id].event.run) IN
    IF key = 0 THEN None ELSE key

(* What the provider's call needs; two providers have none of their own. *)
RetryRequest(ev) ==
    CASE provider \in {"jenkins", "codebuild"} -> FALSE
      [] provider \in {"circleci", "semaphore", "bitrise", "teamcity"} -> ev.pipeline # None
      [] provider \in {"travis", "azuredevops", "drone", "appveyor"} -> ev.run # 0
      [] OTHER -> TRUE

ProcessSuccess(id) ==
    /\ id \notin worked /\ ~Failed(jobs[id].event)
    /\ worked' = worked \cup {id}
    /\ Fine
    /\ UNCHANGED <<provider, posts, answered, deliveries, jobs, attempts, asked, reruns, hand, overlapped>>

Holds(w, id) == hand[w] # Idle /\ hand[w].id = id

(* A failure that is not worth a rerun, or whose job failed before it. *)
ProcessFailure(id) ==
    /\ id \notin worked /\ Failed(jobs[id].event) /\ ~\E w \in Workers : Holds(w, id)
    /\ worked' = worked \cup {id}
    /\ Fine
    /\ UNCHANGED <<provider, posts, answered, deliveries, jobs, attempts, asked, reruns, hand, overlapped>>

(* Only a first attempt is rerun; that it is one is what the event says. *)
Worth(id) == Failed(jobs[id].event) /\ jobs[id].event.attempt < 2

(* GitHub is asked at once, nothing is looked up and nothing recorded.  A
   failed call is only logged; a worker that dies leaves the job to another. *)
RerunFailedJobs(id) ==
    LET b == jobs[id].build
        again == [reruns EXCEPT ![b] = @ + 1] IN
    /\ provider = "github" /\ id \notin worked /\ Worth(id)
    /\ asked' = asked \cup {b}
    /\ \/ Fine /\ worked' = worked \cup {id} /\ reruns' = again
       \/ Fault /\ worked' \in {worked, worked \cup {id}} /\ reruns' \in {reruns, again}
    /\ UNCHANGED <<provider, posts, answered, deliveries, jobs, attempts, hand, overlapped>>

FoundNone(w, key) == hand[w].at = "found none" /\ RunKey(hand[w].id) = key

(* Of the other providers a worker looks for the record first.  A job is one
   worker's, unless its lease was lost. *)
FindRetry(w, id) ==
    LET key == RunKey(id) IN
    /\ provider # "github" /\ hand[w] = Idle /\ id \notin worked /\ Worth(id)
    /\ IF \E v \in Workers : Holds(v, id) THEN Fault ELSE Fine
    /\ asked' = asked \cup {jobs[id].build}
    /\ IF key = None \/ key \in attempts
       THEN worked' = worked \cup {id} /\ UNCHANGED <<hand, overlapped>>
       ELSE /\ hand' = [hand EXCEPT ![w] = [id |-> id, at |-> "found none"]]
            /\ overlapped' = IF \E v \in Workers : FoundNone(v, key) THEN overlapped \cup {key} ELSE overlapped
            /\ UNCHANGED worked
    /\ UNCHANGED <<provider, posts, answered, deliveries, jobs, attempts, reruns>>

(* Whatever fails from here on is only logged, and the job is done. *)
GiveUp(w) == hand' = [hand EXCEPT ![w] = Idle] /\ worked' = worked \cup {hand[w].id}

(* Then it writes the record, *)
ClaimRetry(w) ==
    LET key == RunKey(hand[w].id) IN
    /\ hand[w].at = "found none"
    /\ \/ Fine /\ attempts' = attempts \cup {key} /\ hand' = [hand EXCEPT ![w].at = "claimed"] /\ UNCHANGED worked
       \/ Fault /\ attempts' \in {attempts, attempts \cup {key}} /\ GiveUp(w)
    /\ UNCHANGED <<provider, posts, answered, deliveries, jobs, asked, reruns, overlapped>>

(* and asks.  A call that cannot be made is an error like one that fails. *)
Retry(w) ==
    LET b == jobs[hand[w].id].build
        called == IF RetryRequest(jobs[hand[w].id].event) THEN [reruns EXCEPT ![b] = @ + 1] ELSE reruns IN
    /\ hand[w].at = "claimed"
    /\ GiveUp(w)
    /\ \/ Fine /\ reruns' = called
       \/ Fault /\ reruns' \in {reruns, called}
    /\ UNCHANGED <<provider, posts, answered, deliveries, jobs, attempts, asked, overlapped>>

(* A worker dies at its job, which another takes up from the start. *)
LoseWorker(w) ==
    /\ hand[w] # Idle /\ hand' = [hand EXCEPT ![w] = Idle]
    /\ Fault
    /\ UNCHANGED <<provider, posts, answered, deliveries, jobs, worked, attempts, asked, reruns, overlapped>>

IntakeStep ==
    \/ \E n \in Notices, auth \in {"token", "signature", "old signature", "wrong"} : Webhook(n, auth)
    \/ \E id \in DOMAIN jobs : ProcessSuccess(id) \/ ProcessFailure(id) \/ RerunFailedJobs(id)
    \/ \E w \in Workers, id \in DOMAIN jobs : FindRetry(w, id)
    \/ \E w \in Workers : ClaimRetry(w) \/ Retry(w) \/ LoseWorker(w)

-----------------------------------------------------------------------------

(* A notice that a build is over, in a word the code knows: of the words
   Spelling replaces it knows none. *)
Ended(n) == n.word \in OverWords /\ n.kind = "job" /\ n.build # 0 /\ Spelling(n.word) = n.word

Said(n) == [event |-> ParseWebhook(n), build |-> n.build]

(* What is on record under the id of a notice is what that one said. *)
RecordedAs(n) ==
    LET id == DeliveryID(n) IN
    IF id \in DOMAIN jobs THEN jobs[id] = Said(n) ELSE id \in DOMAIN deliveries /\ ~Terminal(ParseWebhook(n))

(* A build is heard of: once the handler has answered a notice that it is over,
   in a word the code knows, there is exactly one job with what the notice says,
   however often and after whatever failure it was posted.  The one way to be
   lost is another notice under the same delivery id - of a GitLab hook all have
   one - and then the record under that id is that other notice's.  Nothing else
   has a job: above all no notice in a word the code does not know. *)
EveryBuildHeard ==
    /\ \A n \in answered : Ended(n) =>
          \/ DeliveryID(n) \in DOMAIN jobs /\ RecordedAs(n)
          \/ \E m \in answered \ {n} : DeliveryID(m) = DeliveryID(n) /\ RecordedAs(m)
    /\ \A id \in DOMAIN jobs : \E n \in answered :
          /\ DeliveryID(n) = id /\ jobs[id] = Said(n)
          /\ n.word \in OverWords /\ Spelling(n.word) = n.word

(* The providers of which no build can be told from another by what is kept. *)
Unkeyed == {"codebuild", "cloudbuild"}
ByDefinition == {"azuredevops", "teamcity"}

AtBuild(w, b) == hand[w] # Idle /\ jobs[hand[w].id].build = b

(* A build is rerun no more often than there are jobs that say it failed for
   the first time, plus the faults: none of them asks twice but for these.  But
   for GitHub, of which nothing is recorded, it is rerun once at most unless two
   workers found nothing on record before either had written.  And with no
   failure every build found worth a rerun gets one, once the workers are done
   with it, but for the providers whose events leave no key of a run, or the
   same key for every build of a definition, or no address for the call. *)
RerunsFit ==
    /\ \A b \in Builds : reruns[b] > 0 =>
          reruns[b] <= Cardinality({id \in DOMAIN jobs : jobs[id].build = b /\ Worth(id)}) + faults
    /\ provider # "github" =>
          \A b \in Builds : reruns[b] > 1 =>
             \E id \in DOMAIN jobs : jobs[id].build = b /\ RunKey(id) \in overlapped
    /\ (faults = 0 /\ provider \notin Unkeyed \cup {"jenkins"}) =>
          \A b \in asked \ {0} :
             \/ reruns[b] > 0
             \/ \E w \in Workers : AtBuild(w, b)
             \/ /\ provider \in ByDefinition
                /\ \E c \in Builds : reruns[c] > 0 \/ \E w \in Workers : AtBuild(w, c)
    /\ provider \in Unkeyed => \A b \in Builds : reruns[b] = 0
=============================================================================
