--------------------------- MODULE EvidenceProofs ---------------------------
(***************************************************************************)
(* Proofs about module Evidence: every build is heard of in the words that *)
(* are known and rerun no more than its jobs and faults allow, the plan of *)
(* an account is what its newest notice says, tests are counted once while *)
(* their observations are kept and are quarantined with cause, coverage    *)
(* that was acknowledged stays, a safe selection has what a change touches *)
(* of the tests it was made from, and what a tenant says of a verdict      *)
(* holds; for any notices, stories, reports, trees, coverage, requests,    *)
(* runs and words, any number of handlers, workers, analysts, posts and    *)
(* faults.                                                                 *)
(***************************************************************************)
EXTENDS Evidence, FiniteSetTheorems, WellFoundedInduction, TLAPS

-----------------------------------------------------------------------------
(* Intake: what a notice is read as *)

(* The key of the event of a job. *)
KeyOf(ev) ==
    LET key == FirstNonEmpty(ev.pipeline, ev.run) IN
    IF key = 0 THEN None ELSE key

LEMMA NoticeFields ==
  ASSUME NEW n \in Notices
  PROVE  /\ n.build \in Nat /\ n.job \in Nat /\ n.header \in Nat /\ n.definition \in Nat \ {0}
         /\ n.attempt \in Nat
         /\ n.word \in OverWords \cup {"running", NoWord} /\ n.kind \in {"job", "push"}
         /\ \A word : LET m == [n EXCEPT !.word = word] IN m.word = word
  <1>1. n = [build |-> n.build, job |-> n.job, word |-> n.word, kind |-> n.kind, header |-> n.header,
             definition |-> n.definition, attempt |-> n.attempt]
    BY IntakeAssumption
  <1>2. \A word : LET m == [n EXCEPT !.word = word] IN m.word = word
    BY <1>1
  <1>3. QED
    BY <1>2, IntakeAssumption

(* Of an ended word that is known every conclusion is one that ends a build, of
   another word none. *)
LEMMA Conclusions ==
  ASSUME NEW word \in OverWords \cup {"running", NoWord}
  PROVE  NormalizeConclusion(Spelling(word)) \in {"success", "failure", "cancelled", "timed_out"}
           <=> (word \in OverWords /\ Spelling(word) = word)
  <1>1. Spelling(word) = word \/ Spelling(word) \in {"succeeded", "errored", "internal_error", "stopped"}
    BY DEF Spelling
  <1>2. CASE Spelling(word) = word
    BY <1>2 DEF NormalizeConclusion, OverWords, NoWord
  <1>3. CASE Spelling(word) \in {"succeeded", "errored", "internal_error", "stopped"} /\ Spelling(word) # word
    BY <1>3 DEF NormalizeConclusion
  <1>4. QED
    BY <1>1, <1>2, <1>3

(* A notice that its build is over is read as that, and no other notice is. *)
LEMMA OverIsTerminal ==
  ASSUME NEW n \in Notices, provider \in Supported
  PROVE  /\ Ended(n) => Terminal(ParseWebhook(n))
         /\ Terminal(ParseWebhook(n)) => (n.word \in OverWords /\ Spelling(n.word) = n.word)
  <1> DEFINE Over(ev) == ev.conclusion \in {"success", "failure", "cancelled", "timed_out"}
             Heeded == n.word \in OverWords /\ Spelling(n.word) = n.word
  <1> USE NoticeFields, Conclusions DEF Ended
  <1>0. \A ev : Terminal(ev) <=> Over(ev)
    BY DEF Terminal, Failed
  <1>1. \A a, b, c : Over(Event(a, b, c, n)) <=> Heeded
    BY DEF Event
  <1>2. ~Over(Invalid)
    BY DEF Invalid
  <1> HIDE DEF Over
  <1>3. CASE provider = "gitlab"
    BY <1>0, <1>1, <1>2, <1>3 DEF ParseWebhook, ParseGitLab
  <1>4. CASE provider = "buildkite"
    BY <1>0, <1>1, <1>2, <1>4 DEF ParseWebhook, ParseBuildkite
  <1>5. CASE provider = "circleci"
    BY <1>0, <1>1, <1>2, <1>5 DEF ParseWebhook, ParseCircleCI
  <1>6. CASE provider = "jenkins"
    BY <1>0, <1>1, <1>2, <1>6 DEF ParseWebhook, ParseJenkins
  <1>7. CASE provider = "azuredevops"
    BY <1>0, <1>1, <1>2, <1>7 DEF ParseWebhook, ParseAzureDevOps
  <1>8. CASE provider = "bitrise"
    <2> DEFINE state == CASE n.word = "passed" -> "success" [] n.word \in {"running", NoWord} -> "running"
                          [] n.word = "aborted" -> "cancelled" [] OTHER -> "failure"
               m == [n EXCEPT !.word = state]
    <2>1. ParseWebhook(n) = IF n.build = 0 THEN Invalid ELSE Event(n.build, n.build, n.build, m)
      BY <1>8 DEF ParseWebhook, ParseBitrise
    <2>2. m.word = state
      BY NoticeFields
    <2>3. /\ state \in {"success", "failure", "cancelled", "running"}
          /\ state = "running" <=> n.word \notin OverWords
      BY DEF OverWords, NoWord
    <2> HIDE DEF state
    <2>4. Spelling(m.word) = state /\ Spelling(n.word) = n.word
      BY <1>8, <2>2, <2>3 DEF Spelling
    <2>5. Over(Event(n.build, n.build, n.build, m)) <=> state # "running"
      BY <2>3, <2>4 DEF Event, Over, NormalizeConclusion
    <2> HIDE DEF m
    <2>6. QED
      BY <1>0, <1>2, <2>1, <2>3, <2>4, <2>5
  <1>9. CASE provider = "teamcity"
    BY <1>0, <1>1, <1>2, <1>9 DEF ParseWebhook, ParseTeamCity
  <1>10. CASE provider = "travis"
    BY <1>0, <1>1, <1>2, <1>10 DEF ParseWebhook, ParseTravis
  <1>11. CASE provider = "codebuild"
    BY <1>0, <1>1, <1>2, <1>11 DEF ParseWebhook, ParseCodeBuild
  <1>12. CASE provider = "bitbucket"
    BY <1>0, <1>1, <1>2, <1>12 DEF ParseWebhook, ParseBitbucket, OverWords, NoWord
  <1>13. CASE provider = "drone"
    BY <1>0, <1>1, <1>2, <1>13 DEF ParseWebhook, ParseDrone, OverWords, NoWord
  <1>14. CASE provider = "semaphore"
    BY <1>0, <1>1, <1>2, <1>14 DEF ParseWebhook, ParseSemaphore, OverWords, NoWord
  <1>15. CASE provider = "appveyor"
    BY <1>0, <1>1, <1>2, <1>15 DEF ParseWebhook, ParseAppVeyor, OverWords, NoWord
  <1>16. CASE provider = "cloudbuild"
    BY <1>0, <1>1, <1>2, <1>16 DEF ParseWebhook, ParseCloudBuild, OverWords, NoWord
  <1>17. CASE provider = "github"
    <2>1. ParseWebhook(n).conclusion = IF n.kind = "push" THEN "running" ELSE NormalizeConclusion(Spelling(n.word))
      BY <1>17 DEF ParseWebhook, ParseGitHub, Event
    <2>2. QED
      BY <1>0, <2>1 DEF Over
  <1>18. QED
    BY <1>3, <1>4, <1>5, <1>6, <1>7, <1>8, <1>9, <1>10, <1>11, <1>12, <1>13, <1>14, <1>15, <1>16, <1>17
       DEF Supported

(* The key of a build that ended is told from the build, or from what it was
   built by; where there is a key there is an address for the call, but for
   Jenkins. *)
LEMMA KeyOfBuild ==
  ASSUME NEW n \in Notices, provider \in Supported, Terminal(ParseWebhook(n))
  PROVE  /\ KeyOf(ParseWebhook(n)) =
              IF provider \in Unkeyed THEN None
              ELSE IF provider \in ByDefinition THEN n.definition
              ELSE IF n.build = 0 THEN None ELSE n.build
         /\ provider \in ByDefinition => n.build # 0
         /\ (n.build # 0 /\ provider \notin Unkeyed \cup {"jenkins"}) => RetryRequest(ParseWebhook(n))
         /\ ParseWebhook(n).pipeline \in Int /\ ParseWebhook(n).run \in Int
  <1>1. ParseWebhook(n) # Invalid
    BY DEF Invalid, Terminal, Failed
  <1> USE NoticeFields DEF KeyOf, FirstNonEmpty, None, Unkeyed, ByDefinition, RetryRequest, Event, ParseWebhook, Text
  <1>2. CASE provider = "gitlab"
    BY <1>1, <1>2 DEF ParseGitLab
  <1>3. CASE provider = "buildkite"
    BY <1>1, <1>3 DEF ParseBuildkite
  <1>4. CASE provider = "circleci"
    BY <1>1, <1>4 DEF ParseCircleCI
  <1>5. CASE provider = "jenkins"
    BY <1>1, <1>5 DEF ParseJenkins
  <1>6. CASE provider = "azuredevops"
    BY <1>1, <1>6 DEF ParseAzureDevOps
  <1>7. CASE provider = "bitrise"
    BY <1>1, <1>7 DEF ParseBitrise
  <1>8. CASE provider = "teamcity"
    BY <1>1, <1>8 DEF ParseTeamCity
  <1>9. CASE provider = "travis"
    BY <1>1, <1>9 DEF ParseTravis
  <1>10. CASE provider = "codebuild"
    BY <1>1, <1>10 DEF ParseCodeBuild
  <1>11. CASE provider = "bitbucket"
    BY <1>1, <1>11 DEF ParseBitbucket
  <1>12. CASE provider = "drone"
    BY <1>1, <1>12 DEF ParseDrone
  <1>13. CASE provider = "semaphore"
    BY <1>1, <1>13 DEF ParseSemaphore
  <1>14. CASE provider = "appveyor"
    BY <1>1, <1>14 DEF ParseAppVeyor
  <1>15. CASE provider = "cloudbuild"
    BY <1>1, <1>15 DEF ParseCloudBuild
  <1>16. CASE provider = "github"
    <2>1. ParseWebhook(n).pipeline = n.build /\ ParseWebhook(n).run = n.build
      BY <1>16 DEF ParseGitHub
    <2>2. QED
      BY <1>16, <2>1
  <1>17. QED
    BY <1>2, <1>3, <1>4, <1>5, <1>6, <1>7, <1>8, <1>9, <1>10, <1>11, <1>12, <1>13, <1>14, <1>15, <1>16
       DEF Supported

-----------------------------------------------------------------------------
(* Intake: the records *)

(* The key under which a build is recorded. *)
BuildKey(b) ==
    IF provider \in Unkeyed THEN None
    ELSE IF provider \in ByDefinition THEN (CHOOSE n \in Notices : n.build = b).definition
    ELSE IF b = 0 THEN None ELSE b

IntakeTypes ==
    /\ provider \in Supported
    /\ answered \subseteq Notices
    /\ asked \subseteq Builds
    /\ reruns \in [Builds -> Nat]
    /\ faults \in Nat
    /\ IsFiniteSet(DOMAIN jobs) /\ worked \subseteq DOMAIN jobs

(* A notice that was answered has a record, a record one that was answered,
   and a job if that one said that its build is over; a job is that of a notice
   that did. *)
Filed ==
    /\ \A n \in answered : Terminal(ParseWebhook(n)) => DeliveryID(n) \in DOMAIN deliveries
    /\ \A id \in DOMAIN deliveries : \E m \in answered :
          DeliveryID(m) = id /\ (Terminal(ParseWebhook(m)) => id \in DOMAIN jobs /\ jobs[id] = Said(m))
    /\ \A id \in DOMAIN jobs : \E m \in answered :
          DeliveryID(m) = id /\ Terminal(ParseWebhook(m)) /\ jobs[id] = Said(m)
    /\ DOMAIN jobs \subseteq DOMAIN deliveries

(* What a worker is at is a job that is worth it and has a key, which is on
   record once it claimed it; of GitHub nothing is looked up. *)
HandsFull ==
    /\ hand \in [Workers -> {Idle} \cup [id : DOMAIN jobs, at : {"found none", "claimed"}]]
    /\ \A w \in Workers : hand[w] # Idle => Worth(hand[w].id) /\ RunKey(hand[w].id) # None
    /\ \A w \in Workers : hand[w].at = "claimed" => RunKey(hand[w].id) \in attempts
    /\ provider = "github" => attempts = {} /\ \A w \in Workers : hand[w] = Idle

(* A build that was rerun has its key on record and a job. *)
KeysOnRecord ==
    \A b \in Builds : reruns[b] > 0 =>
      /\ \E id \in DOMAIN jobs : jobs[id].build = b
      /\ provider # "github" => BuildKey(b) # None /\ BuildKey(b) \in attempts

(* Of a key nobody overlapped one worker at most is at it, before the record is
   there and before any build of it was rerun; and that happens once. *)
OneAsker ==
    /\ \A v, w \in Workers :
          (hand[v] # Idle /\ hand[w] # Idle /\ RunKey(hand[v].id) = RunKey(hand[w].id)
             /\ RunKey(hand[v].id) \notin overlapped) => v = w
    /\ \A w \in Workers :
          (hand[w].at = "found none" /\ RunKey(hand[w].id) \notin overlapped) => RunKey(hand[w].id) \notin attempts
    /\ provider # "github" =>
          \A b \in Builds : BuildKey(b) \notin overlapped =>
             /\ reruns[b] <= 1
             /\ reruns[b] > 0 => \A w \in Workers : hand[w] # Idle => RunKey(hand[w].id) # BuildKey(b)

Asking(b) == reruns[b] > 0 \/ \E w \in Workers : AtBuild(w, b)

(* With no failure, what is on record was rerun or is about to be, and so is
   what was found worth it. *)
RecordsRerun ==
    (faults = 0 /\ provider \notin Unkeyed \cup {"jenkins"}) =>
      /\ provider \notin ByDefinition \cup {"github"} => \A b \in Builds : BuildKey(b) \in attempts => Asking(b)
      /\ (provider \in ByDefinition /\ attempts # {}) => \E c \in Builds : Asking(c)
      /\ \A b \in asked \ {0} : Asking(b) \/ (provider \in ByDefinition /\ \E c \in Builds : Asking(c))

(* The workers at a build, and the jobs of it that asked, are asking or will
   find the record: each rerun is of one of these, or owed to a fault. *)
InFlight(b) == {w \in Workers : AtBuild(w, b)}
Spent(b) ==
    {id \in DOMAIN jobs : /\ jobs[id].build = b /\ Worth(id)
                          /\ id \in worked \/ RunKey(id) \in attempts \/ \E w \in Workers : Holds(w, id)}
Counted == \A b \in Builds : reruns[b] + Cardinality(InFlight(b)) <= Cardinality(Spent(b)) + faults

IntakeInv ==
    IntakeTypes /\ Filed /\ HandsFull /\ KeysOnRecord /\ OneAsker /\ RecordsRerun /\ Counted

LEMMA CardFacts ==
  ASSUME NEW A, NEW B, IsFiniteSet(B)
  PROVE  /\ A \subseteq B => IsFiniteSet(A) /\ Cardinality(A) \in Nat /\ Cardinality(A) <= Cardinality(B)
         /\ \A x : (A \subseteq B /\ x \in B /\ x \notin A) => Cardinality(A) + 1 <= Cardinality(B)
         /\ \A x : (IsFiniteSet(A) /\ A \subseteq B \cup {x}) => Cardinality(A) <= Cardinality(B) + 1
         /\ Cardinality(B) \in Nat
         /\ \A x : x \in B => Cardinality(B \ {x}) + 1 = Cardinality(B)
         /\ \A x : x \notin B => Cardinality(B \cup {x}) = Cardinality(B) + 1
  <1>1. Cardinality(B) \in Nat
    BY FS_CardinalityType
  <1>2. A \subseteq B => IsFiniteSet(A) /\ Cardinality(A) \in Nat /\ Cardinality(A) <= Cardinality(B)
    BY FS_Subset, FS_CardinalityType
  <1>3. \A x : x \notin B => Cardinality(B \cup {x}) = Cardinality(B) + 1 /\ IsFiniteSet(B \cup {x})
    BY FS_AddElement
  <1>4. \A x : x \in B => Cardinality(B \ {x}) + 1 = Cardinality(B) /\ IsFiniteSet(B \ {x}) /\ Cardinality(B \ {x}) \in Nat
    <2> TAKE x
    <2>1. IsFiniteSet(B \ {x}) /\ Cardinality(B \ {x}) = IF x \in B THEN Cardinality(B) - 1 ELSE Cardinality(B)
      BY FS_RemoveElement
    <2>2. Cardinality(B \ {x}) \in Nat
      BY <2>1, FS_CardinalityType
    <2>3. QED
      BY <1>1, <2>1, <2>2
  <1>5. ASSUME NEW x, A \subseteq B, x \in B, x \notin A
        PROVE  Cardinality(A) + 1 <= Cardinality(B)
    <2>1. A \subseteq B \ {x}
      BY <1>5
    <2>2. Cardinality(A) <= Cardinality(B \ {x}) /\ Cardinality(A) \in Nat
      BY <1>2, <1>4, <1>5, <2>1, FS_Subset
    <2>3. QED
      BY <1>1, <1>4, <1>5, <2>2
  <1>6. ASSUME NEW x, IsFiniteSet(A), A \subseteq B \cup {x}
        PROVE  Cardinality(A) <= Cardinality(B) + 1
    <2>1. CASE x \in B
      <3>1. A \subseteq B
        BY <1>6, <2>1
      <3>2. QED
        BY <1>1, <1>2, <3>1
    <2>2. CASE x \notin B
      <3>1. Cardinality(A) <= Cardinality(B \cup {x})
        BY <1>3, <1>6, <2>2, FS_Subset
      <3>2. QED
        BY <1>3, <2>2, <3>1
    <2>3. QED
      BY <2>1, <2>2
  <1>7. QED
    BY <1>1, <1>2, <1>3, <1>4, <1>5, <1>6

LEMMA IntakeStarts ==
  ASSUME IntakeInit, faults \in Nat
  PROVE  IntakeInv
  <1>1. IntakeTypes
    BY IntakeAssumption, FS_EmptySet DEF IntakeInit, IntakeTypes, NoFunction
  <1>2. Filed
    BY DEF IntakeInit, Filed, NoFunction
  <1>3. HandsFull
    BY DEF IntakeInit, HandsFull, Idle
  <1>4. KeysOnRecord /\ OneAsker /\ RecordsRerun
    BY DEF IntakeInit, KeysOnRecord, OneAsker, RecordsRerun, Builds, Idle
  <1>5. Counted
    <2> SUFFICES ASSUME NEW b \in Builds
                 PROVE  reruns[b] + Cardinality(InFlight(b)) <= Cardinality(Spent(b)) + faults
      BY DEF Counted
    <2>1. InFlight(b) = {} /\ Spent(b) = {} /\ reruns[b] = 0
      BY DEF InFlight, Spent, AtBuild, IntakeInit, NoFunction
    <2>2. QED
      BY <2>1, FS_EmptySet
  <1>6. QED
    BY <1>1, <1>2, <1>3, <1>4, <1>5 DEF IntakeInv

(* What a notice is read as depends on nothing that changes. *)
LEMMA SameReading ==
  ASSUME UNCHANGED provider
  PROVE  /\ \A n : ParseWebhook(n)' = ParseWebhook(n) /\ Said(n)' = Said(n) /\ Spelling(n.word)' = Spelling(n.word)
         /\ \A b : BuildKey(b)' = BuildKey(b)
         /\ \A ev : RetryRequest(ev)' = RetryRequest(ev)
  <1>1. \A word : Spelling(word)' = Spelling(word)
    BY DEF Spelling
  <1>3. \A n : ParseWebhook(n)' = ParseWebhook(n)
    BY DEF Event, Spelling, ParseWebhook, ParseGitLab, ParseBuildkite, ParseCircleCI, ParseJenkins, ParseAzureDevOps, ParseBitrise,
         ParseTeamCity, ParseTravis, ParseCodeBuild, ParseBitbucket, ParseDrone, ParseSemaphore, ParseAppVeyor,
         ParseCloudBuild, ParseGitHub
  <1>4. QED
    BY <1>1, <1>3 DEF Said, BuildKey, RetryRequest

LEMMA ExtendFacts ==
  ASSUME NEW f, NEW x, NEW v
  PROVE  /\ DOMAIN Extend(f, x, v) = DOMAIN f \cup {x}
         /\ Extend(f, x, v)[x] = v
         /\ \A y \in DOMAIN f : y # x => Extend(f, x, v)[y] = f[y]
  BY DEF Extend

(* A notice is answered and nothing is filed for it. *)
LEMMA NothingFiled ==
  ASSUME Filed, NEW n, UNCHANGED <<provider, deliveries, jobs>>,
         answered' = answered \cup {n}, Terminal(ParseWebhook(n)) => DeliveryID(n) \in DOMAIN deliveries
  PROVE  Filed'
  BY SameReading DEF Filed

(* What the handler of a webhook may do to the records: nothing, or the next
   record, with its job if the notice ends a build. *)
LEMMA WebhookSteps ==
  ASSUME NEW n \in Notices, NEW auth, Webhook(n, auth)
  PROVE  LET id == DeliveryID(n)
             ev == ParseWebhook(n) IN
         /\ UNCHANGED <<provider, worked, attempts, asked, reruns, hand, overlapped>>
         /\ Fine \/ Fault
         /\ \/ UNCHANGED <<answered, deliveries, jobs>>
            \/ /\ answered' = answered \cup {n} /\ UNCHANGED <<deliveries, jobs>>
               /\ Terminal(ev) => id \in DOMAIN deliveries
            \/ /\ answered' = answered \cup {n} /\ id \notin DOMAIN deliveries
               /\ \E status : deliveries' = Extend(deliveries, id, status)
               /\ jobs' = IF Terminal(ev) THEN Extend(jobs, id, Said(n)) ELSE jobs
  <1> DEFINE id == DeliveryID(n)
             ev == ParseWebhook(n)
  <1>1. UNCHANGED <<provider, worked, attempts, asked, reruns, hand, overlapped>>
    BY DEF Webhook
  <1>2. CASE Refused(n, auth)
    BY <1>1, <1>2, Zenon DEF Webhook
  <1>3. CASE ~Refused(n, auth) /\ Terminal(ev)
    <2>1. EnqueueDelivery(n, ev)
      BY <1>3 DEF Webhook
    <2> HIDE DEF ev
    <2>2. \/ Fine /\ answered' = answered \cup {n}
             /\ IF id \in DOMAIN deliveries THEN UNCHANGED <<deliveries, jobs>>
                ELSE /\ deliveries' = Extend(deliveries, id, "received")
                     /\ jobs' = Extend(jobs, id, [event |-> ev, build |-> n.build])
          \/ Fault /\ UNCHANGED <<answered, deliveries, jobs>>
      BY <2>1, Zenon DEF EnqueueDelivery
    <2>3. Said(n) = [event |-> ev, build |-> n.build]
      BY DEF Said, ev
    <2> HIDE DEF id
    <2>4. QED
      BY <1>1, <1>3, <2>2, <2>3, Zenon DEF id, ev
  <1>4. CASE ~Refused(n, auth) /\ ~Terminal(ev)
    <2>1. /\ RecordTerminalDelivery(id, IF ev = Invalid THEN "invalid" ELSE "ignored")
          /\ answered' = answered \cup {n}
      BY <1>4, Zenon DEF Webhook
    <2> HIDE DEF id, ev
    <2>2. UNCHANGED jobs /\ (Fine \/ Fault)
          /\ (UNCHANGED deliveries
                \/ (id \notin DOMAIN deliveries /\ \E status : deliveries' = Extend(deliveries, id, status)))
      BY <2>1, Zenon DEF RecordTerminalDelivery
    <2>3. QED
      BY <1>1, <1>4, <2>1, <2>2, Zenon DEF id, ev
  <1>5. QED
    BY <1>2, <1>3, <1>4

LEMMA WebhookFiles ==
  ASSUME IntakeInv, NEW n \in Notices, NEW auth, Webhook(n, auth)
  PROVE  /\ Filed'
         /\ DOMAIN jobs \subseteq DOMAIN jobs' /\ IsFiniteSet(DOMAIN jobs')
         /\ \A i \in DOMAIN jobs : jobs'[i] = jobs[i]
  <1> DEFINE id == DeliveryID(n)
  <1>1. UNCHANGED provider /\ Filed /\ IsFiniteSet(DOMAIN jobs)
    BY WebhookSteps DEF IntakeInv, IntakeTypes
  <1>2. CASE UNCHANGED <<answered, deliveries, jobs>>
    BY <1>1, <1>2, SameReading DEF Filed
  <1>3. CASE /\ answered' = answered \cup {n} /\ UNCHANGED <<deliveries, jobs>>
             /\ Terminal(ParseWebhook(n)) => id \in DOMAIN deliveries
    BY <1>1, <1>3, NothingFiled
  <1>4. CASE /\ answered' = answered \cup {n} /\ id \notin DOMAIN deliveries
             /\ \E status : deliveries' = Extend(deliveries, id, status)
             /\ jobs' = IF Terminal(ParseWebhook(n)) THEN Extend(jobs, id, Said(n)) ELSE jobs
    <2>1. DOMAIN deliveries' = DOMAIN deliveries \cup {id}
      BY <1>4, ExtendFacts
    <2>2. id \notin DOMAIN jobs
      BY <1>1, <1>4 DEF Filed
    <2>3. /\ DOMAIN jobs' = IF Terminal(ParseWebhook(n)) THEN DOMAIN jobs \cup {id} ELSE DOMAIN jobs
          /\ \A i \in DOMAIN jobs : jobs'[i] = jobs[i]
          /\ Terminal(ParseWebhook(n)) => jobs'[id] = Said(n)
      <3> DEFINE new == Extend(jobs, id, Said(n))
      <3>1. DOMAIN new = DOMAIN jobs \cup {id} /\ new[id] = Said(n)
            /\ \A i \in DOMAIN jobs : i # id => new[i] = jobs[i]
        BY DEF Extend
      <3>2. jobs' = IF Terminal(ParseWebhook(n)) THEN new ELSE jobs
        BY <1>4
      <3> HIDE DEF new, id
      <3>3. QED
        BY <2>2, <3>1, <3>2
    <2>4. IsFiniteSet(DOMAIN jobs')
      BY <1>1, <2>3, FS_AddElement
    <2> HIDE DEF id
    <2>5. \A m \in answered' : Terminal(ParseWebhook(m)) => DeliveryID(m) \in DOMAIN deliveries'
      BY <1>1, <1>4, <2>1 DEF Filed, id
    <2>6. ASSUME NEW i \in DOMAIN deliveries'
          PROVE  \E m \in answered' :
                    DeliveryID(m) = i /\ (Terminal(ParseWebhook(m)) => i \in DOMAIN jobs' /\ jobs'[i] = Said(m))
      <3>1. CASE i = id
        BY <1>4, <2>1, <2>3, <3>1 DEF id
      <3>2. CASE i # id
        BY <1>1, <1>4, <2>1, <2>3, <3>2 DEF Filed
      <3>3. QED
        BY <3>1, <3>2
    <2>7. ASSUME NEW i \in DOMAIN jobs'
          PROVE  \E m \in answered' : DeliveryID(m) = i /\ Terminal(ParseWebhook(m)) /\ jobs'[i] = Said(m)
      <3>1. CASE i = id
        BY <1>4, <2>2, <2>3, <3>1 DEF id
      <3>2. CASE i # id
        BY <1>1, <1>4, <2>1, <2>3, <3>2 DEF Filed
      <3>3. QED
        BY <3>1, <3>2
    <2>8. DOMAIN jobs' \subseteq DOMAIN deliveries'
      BY <1>1, <2>1, <2>3 DEF Filed
    <2>9. QED
      BY <1>1, <2>3, <2>4, <2>5, <2>6, <2>7, <2>8, SameReading DEF Filed
  <1>5. QED
    BY <1>2, <1>3, <1>4, WebhookSteps

(* The build that the job of a delivery is about, and its key. *)
LEMMA JobFacts ==
  ASSUME IntakeTypes, Filed, NEW id \in DOMAIN jobs
  PROVE  LET b == jobs[id].build IN
         /\ b \in Builds /\ b \in Nat /\ RunKey(id) = BuildKey(b)
         /\ (b # 0 /\ provider \notin Unkeyed) => BuildKey(b) # None
         /\ (b # 0 /\ provider \notin Unkeyed \cup {"jenkins"}) => RetryRequest(jobs[id].event)
         /\ BuildKey(b) # None => b # 0 /\ provider \notin Unkeyed
  <1>1. PICK m \in answered : Terminal(ParseWebhook(m)) /\ jobs[id] = Said(m)
    BY DEF Filed
  <1>2. m \in Notices /\ m.build \in Builds /\ m.build \in Nat /\ provider \in Supported
        /\ m.definition \in Nat \ {0}
    BY NoticeFields DEF IntakeTypes, Builds
  <1>3. jobs[id].event = ParseWebhook(m) /\ jobs[id].build = m.build
    BY <1>1 DEF Said
  <1>4. RunKey(id) = KeyOf(ParseWebhook(m))
    BY <1>3, Zenon DEF RunKey, KeyOf
  <1>5. (CHOOSE n \in Notices : n.build = m.build).definition = m.definition
    <2>1. (CHOOSE n \in Notices : n.build = m.build) \in Notices
          /\ (CHOOSE n \in Notices : n.build = m.build).build = m.build
      BY <1>2
    <2>2. QED
      BY <1>2, <2>1, IntakeAssumption
  <1>6. /\ KeyOf(ParseWebhook(m)) = IF provider \in Unkeyed THEN None
                                    ELSE IF provider \in ByDefinition THEN m.definition
                                    ELSE IF m.build = 0 THEN None ELSE m.build
        /\ provider \in ByDefinition => m.build # 0
        /\ (m.build # 0 /\ provider \notin Unkeyed \cup {"jenkins"}) => RetryRequest(ParseWebhook(m))
    BY <1>1, <1>2, KeyOfBuild
  <1>7. KeyOf(ParseWebhook(m)) = BuildKey(m.build)
    BY <1>5, <1>6 DEF BuildKey
  <1>8. None \notin Nat
    BY DEF None
  <1>9. QED
    BY <1>2, <1>3, <1>4, <1>6, <1>7, <1>8

LEMMA IdleFacts == Idle.at = "idle" /\ Idle = [id |-> <<>>, at |-> "idle"]
  BY DEF Idle

(* While no job is added, what is read of the jobs stays. *)
LEMMA SameJobs ==
  ASSUME UNCHANGED <<provider, jobs>>
  PROVE  /\ \A id : RunKey(id)' = RunKey(id) /\ Worth(id)' = Worth(id)
         /\ \A b : BuildKey(b)' = BuildKey(b)
         /\ \A ev : RetryRequest(ev)' = RetryRequest(ev)
  BY SameReading DEF RunKey, Worth, Failed

LEMMA WebhookKeeps ==
  ASSUME IntakeInv, NEW n \in Notices, NEW auth, Webhook(n, auth)
  PROVE  IntakeInv'
  <1>1. /\ Filed' /\ DOMAIN jobs \subseteq DOMAIN jobs' /\ IsFiniteSet(DOMAIN jobs')
        /\ \A i \in DOMAIN jobs : jobs'[i] = jobs[i]
    BY WebhookFiles
  <1>2. /\ UNCHANGED <<provider, worked, attempts, asked, reruns, hand, overlapped>>
        /\ answered' \subseteq answered \cup {n} /\ (Fine \/ Fault)
    BY WebhookSteps
  <1>3. faults \in Nat /\ faults' \in Nat /\ faults <= faults' /\ (faults' = 0 => faults = 0)
    BY <1>2 DEF IntakeInv, IntakeTypes, Fine, Fault
  <1>4. IntakeTypes'
    BY <1>1, <1>2, <1>3 DEF IntakeInv, IntakeTypes
  <1>5. \A i \in DOMAIN jobs : RunKey(i)' = RunKey(i) /\ Worth(i)' = Worth(i)
    BY <1>1 DEF RunKey, Worth, Failed
  <1>6. \A b : BuildKey(b)' = BuildKey(b)
    BY <1>2, SameReading
  <1>7. \A w \in Workers : hand[w] # Idle => hand[w].id \in DOMAIN jobs
    BY DEF IntakeInv, HandsFull
  <1>8. \A w \in Workers : hand[w].at \in {"found none", "claimed"} => hand[w] # Idle
    BY IdleFacts
  <1>9. HandsFull'
    BY <1>1, <1>2, <1>5, <1>7, <1>8 DEF IntakeInv, HandsFull
  <1>10. KeysOnRecord'
    BY <1>1, <1>2, <1>6 DEF IntakeInv, KeysOnRecord
  <1>11. OneAsker'
    BY <1>2, <1>5, <1>6, <1>7, <1>8 DEF IntakeInv, OneAsker
  <1>12. \A w \in Workers : \A b : AtBuild(w, b)' <=> AtBuild(w, b)
    BY <1>1, <1>2, <1>7 DEF AtBuild
  <1>13. \A b : Asking(b)' <=> Asking(b)
    BY <1>2, <1>12 DEF Asking
  <1>14. RecordsRerun'
    BY <1>2, <1>3, <1>6, <1>13 DEF IntakeInv, RecordsRerun
  <1>15. Counted'
    <2> SUFFICES ASSUME NEW b \in Builds
                 PROVE  (reruns[b] + Cardinality(InFlight(b)) <= Cardinality(Spent(b)) + faults)'
      BY DEF Counted
    <2>1. InFlight(b)' = InFlight(b) /\ IsFiniteSet(InFlight(b))
      BY <1>12, IntakeAssumption, FS_Subset DEF InFlight
    <2>2. Spent(b) \subseteq Spent(b)'
      BY <1>1, <1>2, <1>5 DEF Spent, Holds
    <2>3. Spent(b)' \subseteq DOMAIN jobs'
      BY DEF Spent
    <2>4. IsFiniteSet(Spent(b)')
      BY <1>1, <2>3, FS_Subset
    <2>5. Cardinality(Spent(b)) \in Nat /\ Cardinality(Spent(b)') \in Nat
          /\ Cardinality(Spent(b)) <= Cardinality(Spent(b)')
      BY <2>2, <2>4, CardFacts
    <2>6. Cardinality(InFlight(b)) \in Nat /\ reruns[b] \in Nat
      BY <2>1, FS_CardinalityType DEF IntakeInv, IntakeTypes
    <2>7. reruns[b] + Cardinality(InFlight(b)) <= Cardinality(Spent(b)) + faults
      BY DEF IntakeInv, Counted
    <2>8. QED
      BY <1>2, <1>3, <2>1, <2>5, <2>6, <2>7
  <1>16. QED
    BY <1>1, <1>4, <1>9, <1>10, <1>11, <1>14, <1>15 DEF IntakeInv

LEMMA Finites ==
  ASSUME IsFiniteSet(DOMAIN jobs)
  PROVE  \A b : /\ IsFiniteSet(InFlight(b)) /\ Cardinality(InFlight(b)) \in Nat
                /\ IsFiniteSet(Spent(b)) /\ Cardinality(Spent(b)) \in Nat
  <1> TAKE b
  <1>1. InFlight(b) \subseteq Workers /\ Spent(b) \subseteq DOMAIN jobs
    BY DEF InFlight, Spent
  <1>2. IsFiniteSet(InFlight(b)) /\ IsFiniteSet(Spent(b))
    BY <1>1, IntakeAssumption, FS_Subset
  <1>3. QED
    BY <1>2, FS_CardinalityType

LEMMA FinitesNext ==
  ASSUME IsFiniteSet(DOMAIN jobs), UNCHANGED jobs
  PROVE  \A b : /\ IsFiniteSet(InFlight(b)') /\ Cardinality(InFlight(b)') \in Nat
                /\ IsFiniteSet(Spent(b)') /\ Cardinality(Spent(b)') \in Nat
  <1> TAKE b
  <1>1. InFlight(b)' \subseteq Workers /\ Spent(b)' \subseteq DOMAIN jobs
    BY DEF InFlight, Spent
  <1>2. IsFiniteSet(InFlight(b)') /\ IsFiniteSet(Spent(b)')
    BY <1>1, IntakeAssumption, FS_Subset
  <1>3. QED
    BY <1>2, FS_CardinalityType

(* A step of the workers leaves the notices and their records alone. *)
LEMMA WorkerFrame ==
  ASSUME IntakeInv, UNCHANGED <<provider, answered, deliveries, jobs>>, Fine \/ Fault,
         worked' \subseteq DOMAIN jobs, asked' \subseteq Builds, reruns' \in [Builds -> Nat]
  PROVE  /\ IntakeTypes' /\ Filed'
         /\ faults \in Nat /\ faults' \in Nat /\ (faults' = 0 => faults = 0 /\ Fine)
         /\ (Fault => faults' = faults + 1) /\ (Fine => faults' = faults)
  <1>1. faults \in Nat
    BY DEF IntakeInv, IntakeTypes
  <1>2. /\ faults \in Nat /\ faults' \in Nat /\ (faults' = 0 => faults = 0 /\ Fine)
        /\ (Fault => faults' = faults + 1) /\ (Fine => faults' = faults)
    BY <1>1 DEF Fine, Fault
  <1>3. IntakeTypes'
    BY <1>2 DEF IntakeInv, IntakeTypes
  <1>4. Filed'
    BY SameReading DEF IntakeInv, Filed
  <1>5. QED
    BY <1>2, <1>3, <1>4

(* The job a worker is at, in the words of its build. *)
LEMMA AtWork ==
  ASSUME IntakeInv, NEW w \in Workers, hand[w] # Idle
  PROVE  /\ hand[w].id \in DOMAIN jobs /\ hand[w].at \in {"found none", "claimed"}
         /\ jobs[hand[w].id].build \in Builds
         /\ RunKey(hand[w].id) = BuildKey(jobs[hand[w].id].build) /\ RunKey(hand[w].id) # None
         /\ Worth(hand[w].id) /\ provider # "github"
         /\ jobs[hand[w].id].build # 0 /\ provider \notin Unkeyed
         /\ provider # "jenkins" => RetryRequest(jobs[hand[w].id].event)
         /\ hand[w].at = "claimed" => RunKey(hand[w].id) \in attempts
  <1>1. hand[w].id \in DOMAIN jobs /\ hand[w].at \in {"found none", "claimed"} /\ Worth(hand[w].id)
        /\ RunKey(hand[w].id) # None /\ provider # "github"
        /\ (hand[w].at = "claimed" => RunKey(hand[w].id) \in attempts)
    BY DEF IntakeInv, HandsFull
  <1>2. LET b == jobs[hand[w].id].build IN
        /\ b \in Builds /\ RunKey(hand[w].id) = BuildKey(b)
        /\ (b # 0 /\ provider \notin Unkeyed \cup {"jenkins"}) => RetryRequest(jobs[hand[w].id].event)
        /\ BuildKey(b) # None => b # 0 /\ provider \notin Unkeyed
    BY <1>1, JobFacts DEF IntakeInv
  <1>3. QED
    BY <1>1, <1>2

(* A job ends without a word about a rerun. *)
LEMMA ProcessKeeps ==
  ASSUME IntakeInv, NEW id \in DOMAIN jobs, worked' = worked \cup {id}, Fine,
         UNCHANGED <<provider, answered, deliveries, jobs, attempts, reruns, hand, overlapped>>,
         \/ UNCHANGED asked
         \/ asked' = asked \cup {jobs[id].build} /\ (RunKey(id) = None \/ RunKey(id) \in attempts)
            /\ provider # "github"
  PROVE  IntakeInv'
  <1>1. LET b == jobs[id].build IN
        /\ b \in Builds /\ RunKey(id) = BuildKey(b)
        /\ (b # 0 /\ provider \notin Unkeyed) => BuildKey(b) # None
    BY JobFacts DEF IntakeInv
  <1>2. asked' \subseteq Builds /\ worked' \subseteq DOMAIN jobs /\ reruns' \in [Builds -> Nat]
    BY <1>1 DEF IntakeInv, IntakeTypes
  <1>3. IntakeTypes' /\ Filed' /\ faults \in Nat /\ faults' = faults
    BY <1>2, WorkerFrame
  <1>4. /\ \A i : RunKey(i)' = RunKey(i) /\ Worth(i)' = Worth(i)
        /\ \A b : BuildKey(b)' = BuildKey(b)
    BY SameJobs
  <1>5. HandsFull' /\ KeysOnRecord' /\ OneAsker'
    BY <1>4 DEF IntakeInv, HandsFull, KeysOnRecord, OneAsker
  <1>6. \A b : Asking(b)' <=> Asking(b)
    BY DEF Asking, AtBuild
  <1>7. RecordsRerun'
    <2> SUFFICES ASSUME faults = 0, provider \notin Unkeyed \cup {"jenkins"}
                 PROVE  \A b \in asked' \ {0} : Asking(b) \/ (provider \in ByDefinition /\ \E c \in Builds : Asking(c))
      BY <1>3, <1>4, <1>6 DEF IntakeInv, RecordsRerun
    <2>1. CASE UNCHANGED asked
      BY <2>1 DEF IntakeInv, RecordsRerun
    <2>2. CASE asked' = asked \cup {jobs[id].build} /\ (RunKey(id) = None \/ RunKey(id) \in attempts)
               /\ provider # "github"
      BY <1>1, <2>2 DEF IntakeInv, RecordsRerun
    <2>3. QED
      BY <2>1, <2>2
  <1>8. Counted'
    <2> SUFFICES ASSUME NEW b \in Builds
                 PROVE  (reruns[b] + Cardinality(InFlight(b)) <= Cardinality(Spent(b)) + faults)'
      BY DEF Counted
    <2>1. InFlight(b)' = InFlight(b)
      BY DEF InFlight, AtBuild
    <2>2. Spent(b) \subseteq Spent(b)'
      BY <1>4 DEF Spent, Holds
    <2>3. IsFiniteSet(DOMAIN jobs) /\ reruns[b] \in Nat
      BY DEF IntakeInv, IntakeTypes
    <2>4. Cardinality(Spent(b)) <= Cardinality(Spent(b)') /\ Cardinality(Spent(b)) \in Nat
          /\ Cardinality(Spent(b)') \in Nat /\ Cardinality(InFlight(b)) \in Nat
      BY <2>2, <2>3, Finites, FinitesNext, CardFacts
    <2>5. reruns[b] + Cardinality(InFlight(b)) <= Cardinality(Spent(b)) + faults
      BY DEF IntakeInv, Counted
    <2>6. QED
      BY <1>3, <2>1, <2>3, <2>4, <2>5
  <1>9. QED
    BY <1>3, <1>5, <1>7, <1>8 DEF IntakeInv

(* GitHub is asked: the job has asked now, or a fault is to blame. *)
LEMMA GitHubKeeps ==
  ASSUME IntakeInv, NEW id \in DOMAIN jobs, RerunFailedJobs(id)
  PROVE  IntakeInv'
  <1> DEFINE b == jobs[id].build
             again == [reruns EXCEPT ![b] = reruns[b] + 1]
  <1>1. b \in Builds /\ reruns \in [Builds -> Nat] /\ IsFiniteSet(DOMAIN jobs) /\ worked \subseteq DOMAIN jobs
        /\ asked \subseteq Builds
    BY JobFacts DEF IntakeInv, IntakeTypes
  <1>2. /\ provider = "github" /\ id \notin worked /\ Worth(id) /\ asked' = asked \cup {b}
        /\ \/ Fine /\ worked' = worked \cup {id} /\ reruns' = again
           \/ Fault /\ worked' \in {worked, worked \cup {id}} /\ reruns' \in {reruns, again}
        /\ UNCHANGED <<provider, answered, deliveries, jobs, attempts, hand, overlapped>>
    BY Zenon DEF RerunFailedJobs
  <1>3. again \in [Builds -> Nat] /\ again[b] = reruns[b] + 1 /\ \A c \in Builds : c # b => again[c] = reruns[c]
    BY <1>1
  <1> HIDE DEF again
  <1>4. reruns' \in [Builds -> Nat] /\ reruns' \in {reruns, again} /\ worked \subseteq worked' /\ worked' \subseteq DOMAIN jobs
    BY <1>1, <1>2, <1>3
  <1>5. /\ IntakeTypes' /\ Filed'
        /\ faults \in Nat /\ faults' \in Nat /\ (faults' = 0 => faults = 0 /\ Fine)
        /\ (Fault => faults' = faults + 1) /\ (Fine => faults' = faults)
    BY <1>1, <1>2, <1>4, WorkerFrame
  <1>6. /\ \A i : RunKey(i)' = RunKey(i) /\ Worth(i)' = Worth(i)
        /\ \A c : BuildKey(c)' = BuildKey(c)
    BY <1>2, SameJobs
  <1>7. attempts = {} /\ \A w \in Workers : hand[w] = Idle
    BY <1>2 DEF IntakeInv, HandsFull
  <1>8. HandsFull'
    BY <1>2, <1>6 DEF IntakeInv, HandsFull
  <1>9. KeysOnRecord'
    BY <1>1, <1>2, <1>3, <1>4 DEF IntakeInv, KeysOnRecord
  <1>10. OneAsker'
    BY <1>2, <1>6, <1>7, IdleFacts DEF OneAsker
  <1>11. RecordsRerun'
    <2> SUFFICES ASSUME faults' = 0
                 PROVE  \A c \in asked' \ {0} : Asking(c)'
      BY <1>2 DEF RecordsRerun, ByDefinition
    <2>1. faults = 0 /\ reruns' = again
      BY <1>2, <1>5, <1>1
    <2>2. \A c \in asked \ {0} : reruns[c] > 0
      BY <1>2, <1>7, <2>1 DEF IntakeInv, RecordsRerun, ByDefinition, Asking, AtBuild, Unkeyed
    <2>3. \A c \in Builds : reruns[c] > 0 => reruns'[c] > 0
      BY <1>1, <1>3, <2>1
    <2>4. reruns'[b] > 0
      BY <1>1, <1>3, <2>1
    <2>5. QED
      BY <1>1, <1>2, <2>2, <2>3, <2>4 DEF Asking
  <1>12. Counted'
    <2> SUFFICES ASSUME NEW c \in Builds
                 PROVE  (reruns[c] + Cardinality(InFlight(c)) <= Cardinality(Spent(c)) + faults)'
      BY DEF Counted
    <2>1. InFlight(c)' = InFlight(c)
      BY <1>2 DEF InFlight, AtBuild
    <2>2. Spent(c) \subseteq Spent(c)'
      BY <1>2, <1>4, <1>6 DEF Spent, Holds
    <2>3. Cardinality(Spent(c)) <= Cardinality(Spent(c)') /\ Cardinality(Spent(c)) \in Nat
          /\ Cardinality(Spent(c)') \in Nat /\ Cardinality(InFlight(c)) \in Nat
      BY <1>1, <1>2, <2>2, Finites, FinitesNext, CardFacts
    <2>4. reruns[c] + Cardinality(InFlight(c)) <= Cardinality(Spent(c)) + faults
      BY DEF IntakeInv, Counted
    <2>5. CASE c = b /\ Fine /\ worked' = worked \cup {id} /\ reruns' = again
      <3>1. id \in Spent(c)' /\ id \notin Spent(c)
        BY <1>2, <1>6, <1>7, <2>5 DEF Spent, Holds
      <3>2. Cardinality(Spent(c)) + 1 <= Cardinality(Spent(c)')
        BY <1>1, <1>2, <2>2, <3>1, FinitesNext, CardFacts
      <3>3. reruns'[c] = reruns[c] + 1
        BY <1>3, <2>5
      <3>4. QED
        BY <1>1, <1>5, <2>1, <2>3, <2>4, <2>5, <3>2, <3>3
    <2>6. CASE c # b
      <3>1. reruns'[c] = reruns[c] /\ faults <= faults'
        BY <1>2, <1>3, <1>4, <1>5, <2>6
      <3>2. QED
        BY <1>1, <1>5, <2>1, <2>3, <2>4, <3>1
    <2>7. CASE Fault
      <3>1. reruns'[c] <= reruns[c] + 1 /\ reruns'[c] \in Nat
        BY <1>1, <1>3, <1>4
      <3>2. QED
        BY <1>1, <1>5, <2>1, <2>3, <2>4, <2>7, <3>1
    <2>8. QED
      BY <1>2, <2>5, <2>6, <2>7
  <1>13. QED
    BY <1>5, <1>8, <1>9, <1>10, <1>11, <1>12 DEF IntakeInv

(* A worker finds no record: no one else was at the key, or it overlaps now. *)
LEMMA FindKeeps ==
  ASSUME IntakeInv, NEW w \in Workers, NEW id \in DOMAIN jobs, FindRetry(w, id)
  PROVE  IntakeInv'
  <1> DEFINE b == jobs[id].build
             key == RunKey(id)
             new == [id |-> id, at |-> "found none"]
  <1>1. /\ provider # "github" /\ hand[w] = Idle /\ id \notin worked /\ Worth(id)
        /\ IF \E v \in Workers : Holds(v, id) THEN Fault ELSE Fine
        /\ asked' = asked \cup {b}
        /\ UNCHANGED <<provider, answered, deliveries, jobs, attempts, reruns>>
        /\ IF key = None \/ key \in attempts
           THEN worked' = worked \cup {id} /\ UNCHANGED <<hand, overlapped>>
           ELSE /\ hand' = [hand EXCEPT ![w] = new]
                /\ overlapped' = IF \E v \in Workers : FoundNone(v, key) THEN overlapped \cup {key} ELSE overlapped
                /\ UNCHANGED worked
    BY Zenon DEF FindRetry
  <1>2. b \in Builds /\ key = BuildKey(b) /\ ((b # 0 /\ provider \notin Unkeyed) => key # None)
    BY JobFacts DEF IntakeInv
  <1>3. IsFiniteSet(DOMAIN jobs) /\ reruns \in [Builds -> Nat] /\ worked \subseteq DOMAIN jobs /\ asked \subseteq Builds
    BY DEF IntakeInv, IntakeTypes
  <1>4. CASE key = None \/ key \in attempts
    <2>1. CASE Fine
      BY <1>1, <1>4, <2>1, ProcessKeeps
    <2>2. CASE Fault
      <3>1. worked' \subseteq DOMAIN jobs /\ asked' \subseteq Builds
        BY <1>1, <1>2, <1>3, <1>4
      <3>2. /\ IntakeTypes' /\ Filed' /\ faults \in Nat /\ faults' = faults + 1
        BY <1>1, <1>3, <2>2, <3>1, WorkerFrame
      <3>3. /\ \A i : RunKey(i)' = RunKey(i) /\ Worth(i)' = Worth(i)
            /\ \A c : BuildKey(c)' = BuildKey(c)
        BY <1>1, SameJobs
      <3>9. UNCHANGED <<provider, jobs, attempts, reruns, hand, overlapped>> /\ worked \subseteq worked'
        BY <1>1, <1>4
      <3>4. HandsFull' /\ KeysOnRecord' /\ OneAsker'
        <4>1. HandsFull'
          BY <3>3, <3>9 DEF IntakeInv, HandsFull
        <4>2. KeysOnRecord'
          BY <3>3, <3>9 DEF IntakeInv, KeysOnRecord
        <4>3. OneAsker'
          BY <3>3, <3>9 DEF IntakeInv, OneAsker
        <4>4. QED
          BY <4>1, <4>2, <4>3
      <3>5. RecordsRerun'
        BY <3>2 DEF RecordsRerun
      <3>6. ASSUME NEW c \in Builds
            PROVE  (reruns[c] + Cardinality(InFlight(c)) <= Cardinality(Spent(c)) + faults)'
        <4>1. InFlight(c)' = InFlight(c)
          BY <3>9 DEF InFlight, AtBuild
        <4>2. Spent(c) \subseteq Spent(c)'
          BY <3>3, <3>9 DEF Spent, Holds
        <4>3. Cardinality(Spent(c)) <= Cardinality(Spent(c)') /\ Cardinality(Spent(c)) \in Nat
              /\ Cardinality(Spent(c)') \in Nat /\ Cardinality(InFlight(c)) \in Nat
          BY <1>1, <1>3, <4>2, Finites, FinitesNext, CardFacts
        <4>4. reruns[c] + Cardinality(InFlight(c)) <= Cardinality(Spent(c)) + faults
          BY DEF IntakeInv, Counted
        <4>5. reruns'[c] = reruns[c] /\ reruns[c] \in Nat
          BY <1>3, <3>9
        <4>6. QED
          BY <3>2, <4>1, <4>3, <4>4, <4>5
      <3>7. Counted'
        BY <3>6 DEF Counted
      <3>8. QED
        BY <3>2, <3>4, <3>5, <3>7 DEF IntakeInv
    <2>3. QED
      BY <1>1, <2>1, <2>2
  <1>5. CASE key # None /\ key \notin attempts
    <2>1. /\ hand' = [hand EXCEPT ![w] = new] /\ UNCHANGED worked
          /\ overlapped' = IF \E v \in Workers : FoundNone(v, key) THEN overlapped \cup {key} ELSE overlapped
      BY <1>1, <1>5
    <2>2. hand \in [Workers -> {Idle} \cup [id : DOMAIN jobs, at : {"found none", "claimed"}]]
      BY DEF IntakeInv, HandsFull
    <2>3. hand'[w] = new /\ (\A v \in Workers : v # w => hand'[v] = hand[v])
          /\ new.id = id /\ new.at = "found none" /\ new # Idle
      BY <2>1, <2>2, IdleFacts
    <2>4. /\ IntakeTypes' /\ Filed'
          /\ faults \in Nat /\ faults' \in Nat /\ (faults' = 0 => faults = 0 /\ Fine)
          /\ (Fault => faults' = faults + 1) /\ (Fine => faults' = faults)
      BY <1>1, <1>2, <1>3, <2>1, WorkerFrame
    <2>5. /\ \A i : RunKey(i)' = RunKey(i) /\ Worth(i)' = Worth(i)
          /\ \A c : BuildKey(c)' = BuildKey(c)
      BY <1>1, SameJobs
    <2>6. hand' \in [Workers -> {Idle} \cup [id : DOMAIN jobs, at : {"found none", "claimed"}]]
      BY <2>1, <2>2
    <2> HIDE DEF new
    <2>7. HandsFull'
      <3>1. \A v \in Workers : hand'[v] # Idle => Worth(hand'[v].id) /\ RunKey(hand'[v].id) # None
        BY <1>1, <1>5, <2>3 DEF IntakeInv, HandsFull
      <3>2. \A v \in Workers : hand'[v].at = "claimed" => RunKey(hand'[v].id) \in attempts
        BY <2>3 DEF IntakeInv, HandsFull
      <3>3. QED
        BY <1>1, <2>5, <2>6, <3>1, <3>2 DEF HandsFull
    <2>8. KeysOnRecord'
      BY <1>1, <2>5 DEF IntakeInv, KeysOnRecord
    <2>9. OneAsker'
      <3>1. key \notin overlapped' => \A v \in Workers : hand[v] # Idle => RunKey(hand[v].id) # key
        <4> SUFFICES ASSUME key \notin overlapped', NEW v \in Workers, hand[v] # Idle, RunKey(hand[v].id) = key
                     PROVE  FALSE
          OBVIOUS
        <4>1. hand[v].at = "found none"
          BY <1>5, AtWork
        <4>2. QED
          BY <2>1, <4>1 DEF FoundNone
      <3>2. overlapped \subseteq overlapped'
        BY <2>1
      <3>3. ASSUME NEW u \in Workers, NEW v \in Workers, hand'[u] # Idle, hand'[v] # Idle,
                   RunKey(hand'[u].id) = RunKey(hand'[v].id), RunKey(hand'[u].id) \notin overlapped'
            PROVE  u = v
        BY <2>3, <3>1, <3>2, <3>3 DEF IntakeInv, OneAsker
      <3>4. ASSUME NEW v \in Workers, hand'[v].at = "found none", RunKey(hand'[v].id) \notin overlapped'
            PROVE  RunKey(hand'[v].id) \notin attempts
        BY <1>5, <2>3, <3>2, <3>4 DEF IntakeInv, OneAsker
      <3>5. ASSUME NEW c \in Builds, BuildKey(c) \notin overlapped'
            PROVE  /\ reruns[c] <= 1
                   /\ reruns[c] > 0 => \A v \in Workers : hand'[v] # Idle => RunKey(hand'[v].id) # BuildKey(c)
        <4>1. reruns[c] > 0 => BuildKey(c) \in attempts
          BY <1>1 DEF IntakeInv, KeysOnRecord
        <4>2. QED
          BY <1>1, <1>5, <2>3, <3>2, <3>5, <4>1 DEF IntakeInv, OneAsker
      <3>6. QED
        BY <1>1, <2>5, <3>3, <3>4, <3>5 DEF OneAsker
    <2>10. \A v \in Workers : \A c : AtBuild(v, c)' <=> (AtBuild(v, c) \/ (v = w /\ c = b))
      BY <1>1, <2>3 DEF AtBuild
    <2>11. RecordsRerun'
      <3>1. \A c : (Asking(c) => Asking(c)') /\ Asking(b)'
        BY <1>1, <2>10 DEF Asking
      <3>2. QED
        BY <1>1, <1>2, <2>4, <2>5, <3>1 DEF IntakeInv, RecordsRerun
    <2>12. ASSUME NEW c \in Builds
           PROVE  (reruns[c] + Cardinality(InFlight(c)) <= Cardinality(Spent(c)) + faults)'
      <3>1. Spent(c) \subseteq Spent(c)'
        <4>1. \A v \in Workers : \A i : Holds(v, i) => Holds(v, i)'
          BY <1>1, <2>3 DEF Holds
        <4>2. QED
          BY <1>1, <2>1, <2>5, <4>1 DEF Spent
      <3>2. Cardinality(Spent(c)) <= Cardinality(Spent(c)') /\ Cardinality(Spent(c)) \in Nat
            /\ Cardinality(Spent(c)') \in Nat /\ Cardinality(InFlight(c)) \in Nat /\ IsFiniteSet(InFlight(c))
        BY <1>1, <1>3, <3>1, Finites, FinitesNext, CardFacts
      <3>3. reruns[c] + Cardinality(InFlight(c)) <= Cardinality(Spent(c)) + faults
        BY DEF IntakeInv, Counted
      <3>4. CASE c # b
        <4>1. InFlight(c)' = InFlight(c) /\ faults <= faults'
          BY <1>1, <2>4, <2>10, <3>4 DEF InFlight
        <4>2. QED
          BY <1>1, <1>3, <2>4, <3>2, <3>3, <4>1
      <3>5. CASE c = b
        <4>1. InFlight(c)' = InFlight(c) \cup {w} /\ w \notin InFlight(c)
          BY <1>1, <2>10, <3>5 DEF InFlight, AtBuild
        <4>2. Cardinality(InFlight(c)') = Cardinality(InFlight(c)) + 1
          BY <3>2, <4>1, CardFacts
        <4>3. CASE Fine /\ ~\E v \in Workers : Holds(v, id)
          <5>1. id \notin Spent(c)
            BY <1>1, <1>5, <4>3 DEF Spent
          <5>2. Holds(w, id)'
            BY <2>3 DEF Holds
          <5>3. id \in Spent(c)'
            BY <1>1, <2>5, <3>5, <5>2 DEF Spent
          <5>4. Cardinality(Spent(c)) + 1 <= Cardinality(Spent(c)')
            BY <1>1, <1>3, <3>1, <5>1, <5>3, FinitesNext, CardFacts
          <5>5. QED
            BY <1>1, <1>3, <2>4, <3>2, <3>3, <4>2, <4>3, <5>4
        <4>4. CASE Fault
          BY <1>1, <1>3, <2>4, <3>2, <3>3, <4>2, <4>4
        <4>5. QED
          BY <1>1, <4>3, <4>4
      <3>6. QED
        BY <3>4, <3>5
    <2>13. Counted'
      BY <2>12 DEF Counted
    <2>14. QED
      BY <2>4, <2>7, <2>8, <2>9, <2>11, <2>13 DEF IntakeInv
  <1>6. QED
    BY <1>4, <1>5

(* A worker writes the record, and goes on to ask. *)
LEMMA ClaimKeeps ==
  ASSUME IntakeInv, NEW w \in Workers, hand[w].at = "found none", Fine, UNCHANGED worked,
         attempts' = attempts \cup {RunKey(hand[w].id)}, hand' = [hand EXCEPT ![w].at = "claimed"],
         UNCHANGED <<provider, answered, deliveries, jobs, asked, reruns, overlapped>>
  PROVE  IntakeInv'
  <1> DEFINE id == hand[w].id
             b == jobs[id].build
             key == RunKey(id)
  <1>1. hand[w] # Idle
    BY IdleFacts
  <1>2. id \in DOMAIN jobs /\ b \in Builds /\ key = BuildKey(b) /\ key # None /\ Worth(id) /\ provider # "github"
    BY <1>1, AtWork
  <1>3. IsFiniteSet(DOMAIN jobs) /\ reruns \in [Builds -> Nat] /\ worked \subseteq DOMAIN jobs /\ asked \subseteq Builds
    BY DEF IntakeInv, IntakeTypes
  <1>4. hand \in [Workers -> {Idle} \cup [id : DOMAIN jobs, at : {"found none", "claimed"}]]
    BY DEF IntakeInv, HandsFull
  <1>5. hand[w] \in [id : DOMAIN jobs, at : {"found none", "claimed"}]
    BY <1>1, <1>4
  <1>6. /\ hand'[w] = [hand[w] EXCEPT !.at = "claimed"]
        /\ hand'[w] \in [id : DOMAIN jobs, at : {"found none", "claimed"}]
        /\ hand'[w].at = "claimed" /\ hand'[w].id = id /\ hand'[w] # Idle
        /\ \A v \in Workers : v # w => hand'[v] = hand[v]
    BY <1>4, <1>5, IdleFacts
  <1>7. /\ IntakeTypes' /\ Filed' /\ faults \in Nat /\ faults' = faults
    BY <1>3, WorkerFrame
  <1>8. /\ \A i : RunKey(i)' = RunKey(i) /\ Worth(i)' = Worth(i)
        /\ \A c : BuildKey(c)' = BuildKey(c)
    BY SameJobs
  <1>9. \A v \in Workers : hand'[v].id = hand[v].id /\ (hand'[v] = Idle <=> hand[v] = Idle)
        /\ (v # w => hand'[v].at = hand[v].at)
    BY <1>1, <1>6
  <1>10. HandsFull'
    <2>1. hand' \in [Workers -> {Idle} \cup [id : DOMAIN jobs, at : {"found none", "claimed"}]]
      BY <1>4, <1>6
    <2>2. \A v \in Workers : hand'[v] # Idle => Worth(hand'[v].id) /\ RunKey(hand'[v].id) # None
      BY <1>9 DEF IntakeInv, HandsFull
    <2>3. \A v \in Workers : hand'[v].at = "claimed" => RunKey(hand'[v].id) \in attempts'
      BY <1>6, <1>9 DEF IntakeInv, HandsFull
    <2>4. QED
      BY <1>2, <1>8, <2>1, <2>2, <2>3 DEF HandsFull
  <1>11. KeysOnRecord'
    BY <1>8 DEF IntakeInv, KeysOnRecord
  <1>12. OneAsker'
    <2>1. ASSUME NEW v \in Workers, hand'[v].at = "found none", RunKey(hand'[v].id) \notin overlapped
          PROVE  RunKey(hand'[v].id) \notin attempts'
      <3>1. v # w /\ hand[v].at = "found none" /\ hand[v] # Idle
        BY <1>6, <1>9, <2>1, IdleFacts
      <3>2. hand'[v].id = hand[v].id
        BY <1>9
      <3>3. RunKey(hand[v].id) # key
        BY <1>1, <2>1, <3>1, <3>2 DEF IntakeInv, OneAsker
      <3>4. RunKey(hand[v].id) \notin attempts
        BY <2>1, <3>1, <3>2 DEF IntakeInv, OneAsker
      <3>5. RunKey(hand'[v].id) = RunKey(hand[v].id)
        BY <3>2
      <3>6. attempts' = attempts \cup {key}
        OBVIOUS
      <3> HIDE DEF key
      <3>7. QED
        BY <3>3, <3>4, <3>5, <3>6 DEF key
    <2>2. ASSUME NEW u \in Workers, NEW v \in Workers, hand'[u] # Idle, hand'[v] # Idle,
                 RunKey(hand'[u].id) = RunKey(hand'[v].id), RunKey(hand'[u].id) \notin overlapped
          PROVE  u = v
      BY <1>9, <2>2 DEF IntakeInv, OneAsker
    <2>3. ASSUME NEW c \in Builds, BuildKey(c) \notin overlapped
          PROVE  /\ reruns[c] <= 1
                 /\ reruns[c] > 0 => \A v \in Workers : hand'[v] # Idle => RunKey(hand'[v].id) # BuildKey(c)
      BY <1>2, <1>9, <2>3 DEF IntakeInv, OneAsker
    <2>4. QED
      BY <1>8, <2>1, <2>2, <2>3 DEF OneAsker
  <1>13. \A v \in Workers : \A c : AtBuild(v, c)' <=> AtBuild(v, c)
    BY <1>9 DEF AtBuild
  <1>14. RecordsRerun'
    <2>1. (\A c : Asking(c)' <=> Asking(c)) /\ Asking(b)
      BY <1>1, <1>13 DEF Asking, AtBuild
    <2>2. provider \notin ByDefinition \cup Unkeyed => \A c \in Builds : BuildKey(c) = key => c = b
      BY <1>2 DEF BuildKey
    <2>3. QED
      BY <1>2, <1>7, <1>8, <2>1, <2>2 DEF IntakeInv, RecordsRerun
  <1>15. ASSUME NEW c \in Builds
         PROVE  (reruns[c] + Cardinality(InFlight(c)) <= Cardinality(Spent(c)) + faults)'
    <2>1. InFlight(c)' = InFlight(c)
      BY <1>13 DEF InFlight
    <2>2. Spent(c) \subseteq Spent(c)'
      BY <1>8, <1>9 DEF Spent, Holds
    <2>3. Cardinality(Spent(c)) <= Cardinality(Spent(c)') /\ Cardinality(Spent(c)) \in Nat
          /\ Cardinality(Spent(c)') \in Nat /\ Cardinality(InFlight(c)) \in Nat
      BY <1>3, <2>2, Finites, FinitesNext, CardFacts
    <2>4. reruns[c] + Cardinality(InFlight(c)) <= Cardinality(Spent(c)) + faults
      BY DEF IntakeInv, Counted
    <2>5. reruns'[c] = reruns[c] /\ reruns[c] \in Nat
      BY <1>3
    <2>6. faults \in Nat /\ faults' = faults /\ Cardinality(InFlight(c)') = Cardinality(InFlight(c))
      BY <1>7, <2>1
    <2>7. /\ reruns'[c] = reruns[c] /\ Cardinality(InFlight(c)') = Cardinality(InFlight(c)) /\ faults' = faults
          /\ reruns[c] + Cardinality(InFlight(c)) <= Cardinality(Spent(c)') + faults
      BY ONLY <2>3, <2>4, <2>5, <2>6
    <2>8. QED
      BY <2>7
  <1>16. Counted'
    BY <1>15 DEF Counted
  <1>17. QED
    BY <1>7, <1>10, <1>11, <1>12, <1>14, <1>16 DEF IntakeInv

(* A worker lets go of its job: it asked, or something failed. *)
LEMMA LeaveKeeps ==
  ASSUME IntakeInv, NEW w \in Workers, hand[w] # Idle, hand' = [hand EXCEPT ![w] = Idle],
         UNCHANGED <<provider, answered, deliveries, jobs, asked, overlapped>>,
         worked' \in {worked, worked \cup {hand[w].id}},
         attempts' \in {attempts, attempts \cup {RunKey(hand[w].id)}},
         LET again == [reruns EXCEPT ![jobs[hand[w].id].build] = reruns[jobs[hand[w].id].build] + 1]
             ok == RetryRequest(jobs[hand[w].id].event) IN
         /\ \/ UNCHANGED reruns
            \/ reruns' = again /\ hand[w].at = "claimed"
         /\ \/ Fault
            \/ Fine /\ worked' = worked \cup {hand[w].id} /\ UNCHANGED attempts /\ (ok => reruns' = again)
  PROVE  IntakeInv'
  <1> DEFINE id == hand[w].id
             b == jobs[id].build
             key == RunKey(id)
             again == [reruns EXCEPT ![b] = reruns[b] + 1]
             ok == RetryRequest(jobs[id].event)
  <1>1. /\ id \in DOMAIN jobs /\ b \in Builds /\ key = BuildKey(b) /\ key # None /\ Worth(id) /\ provider # "github"
        /\ b # 0 /\ provider \notin Unkeyed /\ (provider # "jenkins" => ok)
        /\ (hand[w].at = "claimed" => key \in attempts)
    BY AtWork
  <1>2. IsFiniteSet(DOMAIN jobs) /\ reruns \in [Builds -> Nat] /\ worked \subseteq DOMAIN jobs /\ asked \subseteq Builds
    BY DEF IntakeInv, IntakeTypes
  <1>3. again \in [Builds -> Nat] /\ again[b] = reruns[b] + 1 /\ \A c \in Builds : c # b => again[c] = reruns[c]
    BY <1>1, <1>2
  <1>4. /\ \/ UNCHANGED reruns
           \/ reruns' = again /\ hand[w].at = "claimed"
        /\ \/ Fault
           \/ Fine /\ worked' = worked \cup {id} /\ UNCHANGED attempts /\ (ok => reruns' = again)
    OBVIOUS
  <1> HIDE DEF again, ok
  <1>5. hand \in [Workers -> {Idle} \cup [id : DOMAIN jobs, at : {"found none", "claimed"}]]
    BY DEF IntakeInv, HandsFull
  <1>6. hand'[w] = Idle /\ \A v \in Workers : v # w => hand'[v] = hand[v]
    BY <1>5
  <1>7. reruns' \in [Builds -> Nat] /\ worked' \subseteq DOMAIN jobs
    BY <1>1, <1>2, <1>3, <1>4
  <1>8. /\ IntakeTypes' /\ Filed'
        /\ faults \in Nat /\ faults' \in Nat /\ (faults' = 0 => faults = 0 /\ Fine)
        /\ (Fault => faults' = faults + 1) /\ (Fine => faults' = faults)
    BY <1>2, <1>4, <1>7, WorkerFrame
  <1>9. /\ \A i : RunKey(i)' = RunKey(i) /\ Worth(i)' = Worth(i)
        /\ \A c : BuildKey(c)' = BuildKey(c)
    BY SameJobs
  <1>10. attempts \subseteq attempts' /\ attempts' \subseteq attempts \cup {key}
    OBVIOUS
  <1>11. HandsFull'
    <2>1. hand' \in [Workers -> {Idle} \cup [id : DOMAIN jobs, at : {"found none", "claimed"}]]
      BY <1>5
    <2>2. \A v \in Workers : hand'[v] # Idle => Worth(hand'[v].id) /\ RunKey(hand'[v].id) # None
      BY <1>6 DEF IntakeInv, HandsFull
    <2>3. \A v \in Workers : hand'[v].at = "claimed" => RunKey(hand'[v].id) \in attempts'
      BY <1>6, <1>10, IdleFacts DEF IntakeInv, HandsFull
    <2>4. QED
      BY <1>1, <1>9, <2>1, <2>2, <2>3 DEF HandsFull
  <1>12. \A c \in Builds : reruns'[c] = reruns[c] \/ (c = b /\ reruns'[c] = reruns[c] + 1 /\ hand[w].at = "claimed")
    BY <1>3, <1>4
  <1>13. KeysOnRecord'
    <2> SUFFICES ASSUME NEW c \in Builds, reruns'[c] > 0
                 PROVE  /\ \E i \in DOMAIN jobs : jobs[i].build = c
                        /\ BuildKey(c) # None /\ BuildKey(c) \in attempts'
      BY <1>9 DEF KeysOnRecord
    <2>1. CASE reruns'[c] = reruns[c]
      BY <1>1, <1>10, <2>1 DEF IntakeInv, KeysOnRecord
    <2>2. CASE c = b /\ hand[w].at = "claimed"
      BY <1>1, <1>10, <2>2
    <2>3. QED
      BY <1>12, <2>1, <2>2
  <1>14. OneAsker'
    <2>1. \A v \in Workers : (v # w /\ hand[v] # Idle /\ key \notin overlapped) => RunKey(hand[v].id) # key
      BY <1>1 DEF IntakeInv, OneAsker
    <2>2. ASSUME NEW u \in Workers, NEW v \in Workers, hand'[u] # Idle, hand'[v] # Idle,
                 RunKey(hand'[u].id) = RunKey(hand'[v].id), RunKey(hand'[u].id) \notin overlapped
          PROVE  u = v
      BY <1>6, <2>2 DEF IntakeInv, OneAsker
    <2>3. ASSUME NEW v \in Workers, hand'[v].at = "found none", RunKey(hand'[v].id) \notin overlapped
          PROVE  RunKey(hand'[v].id) \notin attempts'
      <3>1. v # w /\ hand'[v] = hand[v] /\ hand[v] # Idle
        BY <1>6, <2>3, IdleFacts
      <3>2. RunKey(hand[v].id) \notin attempts
        BY <2>3, <3>1 DEF IntakeInv, OneAsker
      <3>3. RunKey(hand[v].id) # key
        BY <2>1, <2>3, <3>1
      <3>4. QED
        BY <1>10, <3>1, <3>2, <3>3
    <2>4. ASSUME NEW c \in Builds, BuildKey(c) \notin overlapped
          PROVE  /\ reruns'[c] <= 1
                 /\ reruns'[c] > 0 => \A v \in Workers : hand'[v] # Idle => RunKey(hand'[v].id) # BuildKey(c)
      <3>1. /\ reruns[c] <= 1 /\ reruns[c] \in Nat
            /\ reruns[c] > 0 => \A v \in Workers : hand[v] # Idle => RunKey(hand[v].id) # BuildKey(c)
        BY <1>1, <1>2, <2>4 DEF IntakeInv, OneAsker
      <3>2. CASE reruns'[c] = reruns[c]
        BY <1>6, <3>1, <3>2
      <3>3. CASE c = b /\ reruns'[c] = reruns[c] + 1
        <4>1. reruns[c] = 0
          BY <1>1, <3>1, <3>3
        <4>2. QED
          BY <1>1, <1>6, <2>1, <2>4, <3>3, <4>1
      <3>4. QED
        BY <1>12, <3>2, <3>3
    <2>5. QED
      BY <1>9, <2>2, <2>3, <2>4 DEF OneAsker
  <1>15. \A v \in Workers : \A c : AtBuild(v, c)' <=> (AtBuild(v, c) /\ v # w)
    BY <1>6 DEF AtBuild
  <1>16. AtBuild(w, b) /\ \A c : AtBuild(w, c) => c = b
    BY DEF AtBuild
  <1>17. RecordsRerun'
    <2> SUFFICES ASSUME faults' = 0, provider \notin Unkeyed \cup {"jenkins"}
                 PROVE  /\ provider \notin ByDefinition \cup {"github"} =>
                             \A c \in Builds : BuildKey(c) \in attempts' => Asking(c)'
                        /\ (provider \in ByDefinition /\ attempts' # {}) => \E c \in Builds : Asking(c)'
                        /\ \A c \in asked' \ {0} : Asking(c)' \/ (provider \in ByDefinition /\ \E d \in Builds : Asking(d)')
      BY <1>9 DEF RecordsRerun
    <2>1. faults = 0 /\ Fine /\ ~Fault
      BY <1>8
    <2>2. UNCHANGED attempts /\ reruns'[b] > 0
      BY <1>1, <1>2, <1>3, <1>4, <2>1
    <2>3. \A c \in Builds : Asking(c) => Asking(c)'
      <3> SUFFICES ASSUME NEW c \in Builds, Asking(c)
                   PROVE  Asking(c)'
        OBVIOUS
      <3>1. CASE reruns[c] > 0
        BY <1>2, <1>12, <3>1 DEF Asking
      <3>2. CASE c = b
        BY <2>2, <3>2 DEF Asking
      <3>3. CASE c # b /\ \E v \in Workers : AtBuild(v, c)
        BY <1>15, <1>16, <3>3 DEF Asking
      <3>4. QED
        BY <3>1, <3>2, <3>3 DEF Asking
    <2>4. QED
      BY <1>2, <2>1, <2>2, <2>3 DEF IntakeInv, RecordsRerun
  <1>18. ASSUME NEW c \in Builds
         PROVE  (reruns[c] + Cardinality(InFlight(c)) <= Cardinality(Spent(c)) + faults)'
    <2>1. IsFiniteSet(InFlight(c)) /\ Cardinality(InFlight(c)) \in Nat /\ IsFiniteSet(Spent(c))
          /\ Cardinality(Spent(c)) \in Nat /\ IsFiniteSet(Spent(c)') /\ Cardinality(Spent(c)') \in Nat
      BY <1>2, Finites, FinitesNext
    <2>2. reruns[c] + Cardinality(InFlight(c)) <= Cardinality(Spent(c)) + faults /\ reruns[c] \in Nat
      BY <1>2 DEF IntakeInv, Counted
    <2>3. \A v \in Workers : \A i : Holds(v, i)' <=> (Holds(v, i) /\ v # w)
      BY <1>6 DEF Holds
    <2>4. \A i : Holds(w, i) => i = id
      BY DEF Holds
    <2>5. Spent(c) \subseteq Spent(c)' \cup {id}
      BY <1>9, <1>10, <2>3, <2>4 DEF Spent
    <2>6. Cardinality(Spent(c)) <= Cardinality(Spent(c)') + 1
      BY <2>1, <2>5, CardFacts
    <2>7. (worked' = worked \cup {id} \/ c # b) => Cardinality(Spent(c)) <= Cardinality(Spent(c)')
      <3>1. (worked' = worked \cup {id} \/ c # b) => Spent(c) \subseteq Spent(c)'
        BY <1>9, <1>10, <2>3, <2>4 DEF Spent
      <3>2. QED
        BY <2>1, <3>1, CardFacts
    <2>8. CASE c # b
      <3>1. InFlight(c)' = InFlight(c) /\ reruns'[c] = reruns[c]
        BY <1>12, <1>15, <1>16, <2>8 DEF InFlight
      <3>2. faults <= faults'
        BY <1>4, <1>8
      <3>3. QED
        BY <1>8, <2>1, <2>2, <2>7, <2>8, <3>1, <3>2
    <2>9. CASE c = b
      <3>1. w \in InFlight(c) /\ InFlight(c)' = InFlight(c) \ {w}
        BY <1>15, <1>16, <2>9 DEF InFlight
      <3>2. Cardinality(InFlight(c)') + 1 = Cardinality(InFlight(c))
        BY <2>1, <3>1, CardFacts
      <3>3. Cardinality(InFlight(c)') \in Nat /\ reruns'[c] \in Nat /\ reruns'[c] <= reruns[c] + 1
        BY <1>2, <1>7, <1>12, FinitesNext
      <3>4. CASE Fault
        BY <1>8, <2>1, <2>2, <2>6, <3>2, <3>3, <3>4
      <3>5. CASE Fine /\ worked' = worked \cup {id}
        BY <1>8, <2>1, <2>2, <2>7, <3>2, <3>3, <3>5
      <3>6. QED
        BY <1>4, <3>4, <3>5
    <2>10. QED
      BY <2>8, <2>9
  <1>19. Counted'
    BY <1>18 DEF Counted
  <1>20. QED
    BY <1>8, <1>11, <1>13, <1>14, <1>17, <1>19 DEF IntakeInv

LEMMA WorkersKeep ==
  ASSUME IntakeInv, NEW w \in Workers, ClaimRetry(w) \/ Retry(w) \/ LoseWorker(w)
  PROVE  IntakeInv'
  <1> USE IdleFacts
  <1>1. CASE ClaimRetry(w)
    <2>1. /\ hand[w].at = "found none" /\ UNCHANGED <<provider, answered, deliveries, jobs, asked, reruns, overlapped>>
          /\ \/ /\ Fine /\ attempts' = attempts \cup {RunKey(hand[w].id)} /\ hand' = [hand EXCEPT ![w].at = "claimed"]
                /\ UNCHANGED worked
             \/ /\ Fault /\ attempts' \in {attempts, attempts \cup {RunKey(hand[w].id)}}
                /\ hand' = [hand EXCEPT ![w] = Idle] /\ worked' = worked \cup {hand[w].id}
      BY <1>1, Zenon DEF ClaimRetry, GiveUp
    <2>2. CASE Fine /\ UNCHANGED worked /\ hand' = [hand EXCEPT ![w].at = "claimed"]
               /\ attempts' = attempts \cup {RunKey(hand[w].id)}
      BY <2>1, <2>2, ClaimKeeps
    <2>3. CASE Fault /\ attempts' \in {attempts, attempts \cup {RunKey(hand[w].id)}}
               /\ hand' = [hand EXCEPT ![w] = Idle] /\ worked' = worked \cup {hand[w].id}
      <3>1. hand[w] # Idle
        BY <2>1
      <3>2. QED
        BY <2>1, <2>3, <3>1, LeaveKeeps
    <2>4. QED
      BY <2>1, <2>2, <2>3
  <1>2. CASE Retry(w)
    <2> DEFINE b == jobs[hand[w].id].build
               again == [reruns EXCEPT ![b] = reruns[b] + 1]
               ok == RetryRequest(jobs[hand[w].id].event)
    <2>1. /\ hand[w].at = "claimed" /\ UNCHANGED <<provider, answered, deliveries, jobs, attempts, asked, overlapped>>
          /\ hand' = [hand EXCEPT ![w] = Idle] /\ worked' = worked \cup {hand[w].id}
          /\ \/ Fine /\ reruns' = IF ok THEN again ELSE reruns
             \/ Fault /\ reruns' \in {reruns, IF ok THEN again ELSE reruns}
      BY <1>2, Zenon DEF Retry, GiveUp
    <2>2. hand[w] # Idle
      BY <2>1
    <2>3. /\ UNCHANGED reruns \/ (reruns' = again /\ hand[w].at = "claimed")
          /\ Fault \/ (Fine /\ worked' = worked \cup {hand[w].id} /\ UNCHANGED attempts /\ (ok => reruns' = again))
      <3> HIDE DEF again, ok
      <3>1. QED
        BY <2>1
    <2>4. QED
      BY <2>1, <2>2, <2>3, LeaveKeeps
  <1>3. CASE LoseWorker(w)
    <2>1. hand[w] # Idle /\ hand' = [hand EXCEPT ![w] = Idle] /\ Fault
          /\ UNCHANGED <<provider, answered, deliveries, jobs, worked, attempts, asked, reruns, overlapped>>
      BY <1>3, Zenon DEF LoseWorker
    <2>2. QED
      BY <2>1, LeaveKeeps
  <1>4. QED
    BY <1>1, <1>2, <1>3

LEMMA IntakeKept ==
  ASSUME IntakeInv, IntakeStep
  PROVE  IntakeInv'
  <1>1. ASSUME NEW n \in Notices, NEW auth \in {"token", "signature", "old signature", "wrong"}, Webhook(n, auth)
        PROVE  IntakeInv'
    BY <1>1, WebhookKeeps
  <1>2. ASSUME NEW id \in DOMAIN jobs, ProcessSuccess(id) \/ ProcessFailure(id)
        PROVE  IntakeInv'
    <2>1. worked' = worked \cup {id} /\ Fine
          /\ UNCHANGED <<provider, answered, deliveries, jobs, attempts, asked, reruns, hand, overlapped>>
      BY <1>2 DEF ProcessSuccess, ProcessFailure
    <2>2. QED
      BY <2>1, ProcessKeeps
  <1>3. ASSUME NEW id \in DOMAIN jobs, RerunFailedJobs(id)
        PROVE  IntakeInv'
    BY <1>3, GitHubKeeps
  <1>4. ASSUME NEW w \in Workers, NEW id \in DOMAIN jobs, FindRetry(w, id)
        PROVE  IntakeInv'
    BY <1>4, FindKeeps
  <1>5. ASSUME NEW w \in Workers, ClaimRetry(w) \/ Retry(w) \/ LoseWorker(w)
        PROVE  IntakeInv'
    BY <1>5, WorkersKeep
  <1>6. QED
    BY <1>1, <1>2, <1>3, <1>4, <1>5 DEF IntakeStep

(* Of a notice that its build is over the record is its own, or that of another
   notice under the same id. *)
LEMMA Heard ==
  ASSUME IntakeInv
  PROVE  EveryBuildHeard
  <1>1. provider \in Supported /\ answered \subseteq Notices /\ Filed
    BY DEF IntakeInv, IntakeTypes
  <1>2. ASSUME NEW n \in answered, Ended(n)
        PROVE  \/ DeliveryID(n) \in DOMAIN jobs /\ RecordedAs(n)
               \/ \E m \in answered \ {n} : DeliveryID(m) = DeliveryID(n) /\ RecordedAs(m)
    <2> DEFINE id == DeliveryID(n)
    <2>1. Terminal(ParseWebhook(n)) /\ id \in DOMAIN deliveries
      BY <1>1, <1>2, OverIsTerminal DEF Filed
    <2>2. CASE id \in DOMAIN jobs
      <3>1. PICK m \in answered : DeliveryID(m) = id /\ jobs[id] = Said(m)
        BY <1>1, <2>2 DEF Filed
      <3> HIDE DEF id
      <3>2. RecordedAs(m)
        BY <2>2, <3>1 DEF RecordedAs
      <3>3. QED
        BY <2>2, <3>1, <3>2 DEF id
    <2>3. CASE id \notin DOMAIN jobs
      <3>1. PICK m \in answered : DeliveryID(m) = id /\ ~Terminal(ParseWebhook(m))
        BY <1>1, <2>1, <2>3 DEF Filed
      <3> HIDE DEF id
      <3>2. RecordedAs(m) /\ m # n
        BY <2>1, <2>3, <3>1 DEF RecordedAs
      <3>3. QED
        BY <3>1, <3>2 DEF id
    <2>4. QED
      BY <2>2, <2>3
  <1>3. ASSUME NEW id \in DOMAIN jobs
        PROVE  \E n \in answered : /\ DeliveryID(n) = id /\ jobs[id] = Said(n)
                                   /\ n.word \in OverWords /\ Spelling(n.word) = n.word
    <2>1. PICK m \in answered : DeliveryID(m) = id /\ Terminal(ParseWebhook(m)) /\ jobs[id] = Said(m)
      BY <1>1 DEF Filed
    <2>2. QED
      BY <1>1, <2>1, OverIsTerminal
  <1>4. QED
    BY <1>2, <1>3 DEF EveryBuildHeard

(* The reruns of a build fit its jobs, its key and what was asked for. *)
LEMMA RerunsDoFit ==
  ASSUME IntakeInv
  PROVE  RerunsFit
  <1>1. IsFiniteSet(DOMAIN jobs) /\ reruns \in [Builds -> Nat] /\ faults \in Nat
    BY DEF IntakeInv, IntakeTypes
  <1>2. ASSUME NEW b \in Builds
        PROVE  reruns[b] <= Cardinality({id \in DOMAIN jobs : jobs[id].build = b /\ Worth(id)}) + faults
    <2> DEFINE worth == {id \in DOMAIN jobs : jobs[id].build = b /\ Worth(id)}
    <2>1. Spent(b) \subseteq worth /\ worth \subseteq DOMAIN jobs
      BY DEF Spent
    <2> HIDE DEF worth
    <2>2. IsFiniteSet(worth) /\ Cardinality(worth) \in Nat
      BY <1>1, <2>1, FS_Subset, FS_CardinalityType
    <2>3. Cardinality(Spent(b)) <= Cardinality(worth) /\ Cardinality(Spent(b)) \in Nat
      BY <2>1, <2>2, CardFacts
    <2>4. reruns[b] + Cardinality(InFlight(b)) <= Cardinality(Spent(b)) + faults
          /\ Cardinality(InFlight(b)) \in Nat /\ reruns[b] \in Nat
      BY <1>1, Finites DEF IntakeInv, Counted
    <2>5. reruns[b] <= Cardinality(worth) + faults
      BY <1>1, <2>2, <2>3, <2>4
    <2>6. QED
      BY <2>5 DEF worth
  <1>3. ASSUME provider # "github", NEW b \in Builds, reruns[b] > 1
        PROVE  \E id \in DOMAIN jobs : jobs[id].build = b /\ RunKey(id) \in overlapped
    <2>1. PICK id \in DOMAIN jobs : jobs[id].build = b
      BY <1>1, <1>3 DEF IntakeInv, KeysOnRecord
    <2>2. RunKey(id) = BuildKey(b)
      BY <2>1, JobFacts DEF IntakeInv
    <2>3. reruns[b] \in Nat /\ ~(reruns[b] <= 1)
      BY <1>1, <1>3
    <2>4. BuildKey(b) \notin overlapped => reruns[b] <= 1
      BY <1>3 DEF IntakeInv, OneAsker
    <2>5. QED
      BY <2>1, <2>2, <2>3, <2>4
  <1>4. ASSUME faults = 0, provider \notin Unkeyed \cup {"jenkins"}, NEW b \in asked \ {0}
        PROVE  \/ reruns[b] > 0
               \/ \E w \in Workers : AtBuild(w, b)
               \/ /\ provider \in ByDefinition
                  /\ \E c \in Builds : reruns[c] > 0 \/ \E w \in Workers : AtBuild(w, c)
    BY <1>4 DEF IntakeInv, RecordsRerun, Asking
  <1>5. ASSUME provider \in Unkeyed, NEW b \in Builds
        PROVE  reruns[b] = 0
    <2>1. BuildKey(b) = None /\ provider # "github"
      BY <1>5 DEF BuildKey, Unkeyed
    <2>2. ~(reruns[b] > 0)
      BY <2>1 DEF IntakeInv, KeysOnRecord
    <2>3. QED
      BY <1>1, <2>2
  <1>6. QED
    BY <1>2, <1>3, <1>4, <1>5 DEF RerunsFit

-----------------------------------------------------------------------------
(* Marketplace *)

Steps == {"idle", "load", "tenant", "bind", "disable", "copy", "account", "processed", "error"}
Plans == {told[d].plan : told \in Stories, d \in Deliveries} \cup {FreePlan, NoPlan}
Subscriptions == [plan : Plans, status : {"none", "active", "cancelled", "free"}, at : Nat, pending : Plans]
Decides(n) == n.action \in {"purchased", "changed", "cancelled"}

MarketTypes ==
    /\ story \in Stories /\ policy \in {"disable", "free"} /\ raced \in BOOLEAN
    /\ claims \in [Deliveries -> [status : {"none", "processing", "processed", "error"}, times : Nat]]
    /\ clerk \in [Clerks -> [at : Steps, delivery : Deliveries \cup {"none"}, read : Subscriptions]]
    /\ account \in Subscriptions /\ copy \in Subscriptions
    /\ tenant \in {"none", "on", "off"}

(* A handler has its delivery to itself. *)
Claimed ==
    /\ \A c \in Clerks : clerk[c].at # "idle" =>
          clerk[c].delivery \in Deliveries /\ claims[clerk[c].delivery].status = "processing"
    /\ \A b, c \in Clerks :
          (clerk[b].at # "idle" /\ clerk[c].at # "idle" /\ b # c) => clerk[b].delivery # clerk[c].delivery

(* No subscription is one that was written; a cancelled one, wherever it is
   known or about to be written, has its tenant switched off. *)
Off ==
    /\ account.status = "none" => account = NoSubscription
    /\ \A c \in Clerks : clerk[c].read.status = "none" => clerk[c].read = NoSubscription
    /\ (account.status = "cancelled" \/ copy.status = "cancelled") => tenant = "off"
    /\ \A c \in Clerks : clerk[c].read.status = "cancelled" => tenant = "off"
    /\ \A c \in Clerks :
          (clerk[c].at \in {"copy", "account"} /\ story[clerk[c].delivery].action = "cancelled" /\ policy = "disable") =>
              tenant = "off"

Busy(c) == clerk[c].at \in {"tenant", "bind", "disable", "copy", "account"}

(* What a handler writes is not older than what it read; and one that no other
   overlaps with has read what is there. *)
Reads ==
    /\ \A c \in Clerks : clerk[c].at \in {"disable", "copy", "account"} => ~Older(story[clerk[c].delivery], clerk[c].read)
    /\ ~raced =>
         /\ \A b, c \in Clerks : (Busy(b) /\ Busy(c)) => b = c
         /\ \A c \in Clerks : Busy(c) => clerk[c].read = account
         /\ \A c \in Clerks : clerk[c].at = "account" => copy = Changed(clerk[c].read, story[clerk[c].delivery])

(* Where the records differ there is a delivery that will mend them, when it
   is handled again. *)
Mends(d) ==
    /\ claims[d].status \in {"processing", "error"}
    /\ ~Older(story[d], account)
    /\ \A c \in Clerks : clerk[c].delivery = d => clerk[c].at # "processed"
Behind == ~raced => (account = copy \/ \E d \in Deliveries : Mends(d))

Done(d) == claims[d].status = "processed" \/ \E c \in Clerks : clerk[c].delivery = d /\ clerk[c].at = "processed"

(* The account is as a delivery says that was handled. *)
SaidBy(d) ==
    /\ claims[d].status # "none" /\ story[d].effective = account.at
    /\ story[d].action # "cancelled" => account.plan = story[d].plan
    /\ story[d].action = "cancelled" =>
          \/ account.status \in {"cancelled", "free"}
          \/ \E p \in Deliveries : claims[p].status # "none" /\ ~Decides(story[p]) /\ story[p].effective >= account.at
Newest ==
    ~raced =>
      /\ \A d \in Deliveries : (Done(d) /\ Decides(story[d])) => account # NoSubscription /\ story[d].effective <= account.at
      /\ account # NoSubscription => \E d \in Deliveries : SaidBy(d)

MarketInv == MarketTypes /\ Claimed /\ Off /\ Reads /\ Behind /\ Newest

LEMMA NoSubscriptionTyped ==
  NoSubscription \in Subscriptions /\ NoSubscription.status = "none" /\ NoSubscription.at = 0
  BY DEF NoSubscription, Subscriptions, Plans, NoPlan

LEMMA MarketStarts ==
  ASSUME NEW told \in Stories, MarketInit(told)
  PROVE  MarketInv
  <1> USE NoSubscriptionTyped DEF MarketInit
  <1>1. \A c \in Clerks : clerk[c] = NoClerk
    OBVIOUS
  <1>2. NoClerk.at = "idle" /\ NoClerk.delivery = "none" /\ NoClerk.read = NoSubscription
        /\ NoClerk \in [at : Steps, delivery : Deliveries \cup {"none"}, read : Subscriptions]
    BY DEF NoClerk, Steps
  <1>3. MarketTypes
    <2>1. clerk \in [Clerks -> [at : Steps, delivery : Deliveries \cup {"none"}, read : Subscriptions]]
      BY <1>2
    <2>2. claims \in [Deliveries -> [status : {"none", "processing", "processed", "error"}, times : Nat]]
      OBVIOUS
    <2>3. QED
      BY <2>1, <2>2 DEF MarketTypes
  <1>4. Claimed /\ Off /\ Reads /\ Behind
    BY <1>1, <1>2 DEF Claimed, Off, Reads, Behind, Busy
  <1>5. Newest
    BY <1>1, <1>2 DEF Newest, Done
  <1>6. QED
    BY <1>3, <1>4, <1>5 DEF MarketInv

(* What a notice makes of a subscription. *)
LEMMA ChangedFacts ==
  ASSUME NEW old \in Subscriptions, old.status = "none" => old = NoSubscription, policy \in {"disable", "free"},
         NEW told \in Stories, NEW d \in Deliveries
  PROVE  LET n == told[d]
             sub == Changed(old, n) IN
         /\ sub \in Subscriptions /\ sub.status # "none" /\ sub # NoSubscription
         /\ sub.status = "cancelled" => old.status = "cancelled" \/ (n.action = "cancelled" /\ policy = "disable")
         /\ Decides(n) => sub.at = n.effective
         /\ ~Older(n, old) => old.at <= sub.at
         /\ \/ sub.at = n.effective /\ n.action # "cancelled" /\ sub.plan = n.plan
            \/ sub.at = n.effective /\ n.action = "cancelled" /\ sub.status \in {"cancelled", "free"}
            \/ ~Decides(n) /\ old # NoSubscription /\ sub.at = old.at /\ sub.plan = old.plan
  <1> DEFINE n == told[d]
             base == BaseOf(old, n)
             sub == Changed(old, n)
  <1>1. n.effective \in Nat /\ n.plan \in Plans /\ FreePlan \in Plans /\ NoPlan \in Plans
    BY MarketAssumption DEF Plans
  <1> HIDE DEF n
  <1>2. old.at \in Nat /\ old.plan \in Plans /\ (old # NoSubscription => old.status # "none")
        /\ (~Older(n, old) => old.at <= n.effective)
    BY <1>1, NoSubscriptionTyped DEF Subscriptions, Older
  <1>3. /\ base \in Subscriptions /\ base.status # "none"
        /\ base.status = "cancelled" => old.status = "cancelled"
        /\ n.action \in {"purchased", "changed"} => base.at = n.effective
        /\ ~Older(n, old) => old.at <= base.at
        /\ \/ base.at = n.effective /\ base.plan = n.plan
           \/ ~(n.action \in {"purchased", "changed"}) /\ old # NoSubscription /\ base.at = old.at /\ base.plan = old.plan
    <2>1. CASE base = Purchase(n)
      BY <1>1, <1>2, <2>1 DEF Purchase, Subscriptions
    <2>2. CASE base = old /\ old # NoSubscription /\ n.action \notin {"purchased", "changed"}
      BY <1>2, <2>2
    <2>3. QED
      BY <2>1, <2>2 DEF BaseOf
  <1> HIDE DEF base
  <1>4. CASE n.action = "cancelled"
    <2>1. sub = IF policy = "disable"
                THEN [base EXCEPT !.status = "cancelled", !.at = n.effective, !.pending = NoPlan]
                ELSE [plan |-> FreePlan, status |-> "free", at |-> n.effective, pending |-> NoPlan]
      BY <1>4 DEF Changed, base
    <2>2. sub \in Subscriptions /\ sub.at = n.effective /\ sub.status \in {"cancelled", "free"}
          /\ (sub.status = "cancelled" => policy = "disable")
      <3> HIDE DEF sub
      <3>1. QED
        BY <1>1, <1>3, <2>1 DEF Subscriptions
    <2> HIDE DEF sub
    <2>3. QED
      BY <1>2, <1>4, <2>2, NoSubscriptionTyped DEF n, sub
  <1>5. CASE n.action # "cancelled"
    <2>1. sub = CASE n.action = "pending_change" -> [base EXCEPT !.status = "active", !.pending = n.plan]
                  [] n.action = "pending_change_cancelled" -> [base EXCEPT !.status = "active", !.pending = NoPlan]
                  [] OTHER -> base
      BY <1>5 DEF Changed, base
    <2>2. sub \in Subscriptions /\ sub.at = base.at /\ sub.plan = base.plan /\ sub.status \in {"active", base.status}
      <3> HIDE DEF sub
      <3>1. QED
        BY <1>1, <1>3, <2>1 DEF Subscriptions
    <2> HIDE DEF sub
    <2>3. sub.status # "none" /\ (sub.status = "cancelled" => old.status = "cancelled")
      BY <1>3, <2>2
    <2>4. QED
      BY <1>2, <1>3, <1>5, <2>2, <2>3, NoSubscriptionTyped DEF n, sub, Decides
  <1>6. QED
    BY <1>4, <1>5

LEMMA MarketFields ==
  ASSUME MarketInv, NEW c \in Clerks
  PROVE  /\ clerk[c].at \in Steps /\ clerk[c].delivery \in Deliveries \cup {"none"} /\ clerk[c].read \in Subscriptions
         /\ account \in Subscriptions /\ copy \in Subscriptions /\ story \in Stories
         /\ clerk[c].at # "idle" => clerk[c].delivery \in Deliveries
  BY DEF MarketInv, MarketTypes, Claimed

LEMMA TurnFacts ==
  ASSUME MarketTypes, NEW c \in Clerks, NEW step \in Steps, Turn(c, step)
  PROVE  /\ clerk' \in [Clerks -> [at : Steps, delivery : Deliveries \cup {"none"}, read : Subscriptions]]
         /\ clerk'[c].at = step
         /\ \A b \in Clerks : clerk'[b].delivery = clerk[b].delivery /\ clerk'[b].read = clerk[b].read
         /\ \A b \in Clerks : b # c => clerk'[b].at = clerk[b].at
  BY DEF MarketTypes, Turn

(* The steps between a handler's reading and its writing. *)
LEMMA TurnKeeps ==
  ASSUME MarketInv, NEW c \in Clerks, NEW step \in {"bind", "error", "processed", "disable", "copy"},
         clerk[c].at \in {"load", "tenant", "bind", "disable"},
         clerk[c].at = "load" => step = "error",
         Turn(c, step), UNCHANGED <<story, policy, claims, account, copy>>,
         raced' \in BOOLEAN, raced => raced',
         tenant' \in {"none", "on", "off"}, tenant = "off" => tenant' = "off",
         step = "processed" => Older(Notice(c), clerk[c].read),
         step \in {"disable", "copy"} => ~Older(Notice(c), clerk[c].read),
         (step = "copy" /\ Notice(c).action = "cancelled" /\ policy = "disable") => tenant' = "off"
  PROVE  MarketInv'
  <1> DEFINE d == clerk[c].delivery
  <1>1. step \in Steps
    BY DEF Steps
  <1>2. /\ clerk' \in [Clerks -> [at : Steps, delivery : Deliveries \cup {"none"}, read : Subscriptions]]
        /\ clerk'[c].at = step
        /\ \A b \in Clerks : clerk'[b].delivery = clerk[b].delivery /\ clerk'[b].read = clerk[b].read
        /\ \A b \in Clerks : b # c => clerk'[b].at = clerk[b].at
    BY <1>1, TurnFacts DEF MarketInv
  <1>3. d \in Deliveries /\ clerk[c].at # "idle" /\ Notice(c) = story[d]
    BY MarketFields DEF Notice
  <1>4. MarketTypes'
    BY <1>2 DEF MarketInv, MarketTypes
  <1>5. Claimed'
    BY <1>2, <1>3 DEF MarketInv, Claimed
  <1>6. Off'
    BY <1>2, <1>3 DEF MarketInv, Off
  <1>7. \A b \in Clerks : Busy(b)' => (Busy(b) \/ b = c) /\ (b = c => Busy(c))
    BY <1>2 DEF Busy
  <1>8. Reads'
    <2>1. \A b \in Clerks : clerk'[b].at \in {"disable", "copy", "account"} => ~Older(story[clerk'[b].delivery], clerk'[b].read)
      BY <1>2, <1>3 DEF MarketInv, Reads
    <2>2. ASSUME ~raced'
          PROVE  /\ \A b, e \in Clerks : (Busy(b)' /\ Busy(e)') => b = e
                 /\ \A b \in Clerks : Busy(b)' => clerk'[b].read = account
                 /\ \A b \in Clerks : clerk'[b].at = "account" => copy = Changed(clerk'[b].read, story[clerk'[b].delivery])
      <3>1. ~raced
        BY <2>2
      <3>2. /\ \A b, e \in Clerks : (Busy(b) /\ Busy(e)) => b = e
            /\ \A b \in Clerks : Busy(b) => clerk[b].read = account
            /\ \A b \in Clerks : clerk[b].at = "account" => copy = Changed(clerk[b].read, story[clerk[b].delivery])
        BY <3>1 DEF MarketInv, Reads
      <3>3. QED
        BY <1>2, <1>7, <3>2
    <2>3. \A old, n : Older(n, old)' = Older(n, old) /\ Changed(old, n)' = Changed(old, n)
      BY DEF Older, Changed, BaseOf
    <2>4. QED
      BY <2>1, <2>2, <2>3 DEF Reads
  <1>9. (~raced' /\ step = "processed") => Older(story[d], account) /\ ~raced /\ Busy(c)
    BY <1>3 DEF MarketInv, Reads, Busy
  <1>10. Behind'
    <2> SUFFICES ASSUME ~raced', account # copy
                 PROVE  \E e \in Deliveries : Mends(e)'
      BY DEF Behind
    <2>1. PICK e \in Deliveries : Mends(e)
      BY DEF MarketInv, Behind
    <2>2. step = "processed" => e # d
      BY <1>9, <2>1 DEF Mends
    <2>3. \A b \in Clerks : clerk'[b].delivery = e => clerk'[b].at # "processed"
      BY <1>2, <2>1, <2>2 DEF Mends
    <2>4. QED
      BY <2>1, <2>3 DEF Mends, Older
  <1>11. Newest'
    <2> SUFFICES ASSUME ~raced'
                 PROVE  /\ \A e \in Deliveries : (Done(e)' /\ Decides(story[e])) =>
                               account # NoSubscription /\ story[e].effective <= account.at
                        /\ account # NoSubscription => \E e \in Deliveries : SaidBy(e)'
      BY DEF Newest
    <2>1. ~raced
      OBVIOUS
    <2>2. ASSUME NEW e \in Deliveries, Done(e)', Decides(story[e])
          PROVE  account # NoSubscription /\ story[e].effective <= account.at
      <3>1. CASE Done(e)
        BY <2>1, <2>2, <3>1 DEF MarketInv, Newest
      <3>2. CASE e = d /\ step = "processed"
        <4>1. account # NoSubscription /\ story[d].effective < account.at
          BY <1>9, <3>2 DEF Older
        <4>2. story[d].effective \in Nat /\ account.at \in Nat
          BY <1>3, MarketFields, MarketAssumption DEF Subscriptions
        <4>3. QED
          BY <3>2, <4>1, <4>2
      <3>3. QED
        BY <1>2, <2>2, <3>1, <3>2 DEF Done
    <2>3. \A e : SaidBy(e)' <=> SaidBy(e)
      BY DEF SaidBy
    <2>4. QED
      BY <2>1, <2>2, <2>3 DEF MarketInv, Newest
  <1>12. QED
    BY <1>4, <1>5, <1>6, <1>8, <1>10, <1>11 DEF MarketInv

(* A handler ends, and its delivery is filed as what it came to or as before. *)
LEMMA EndKeeps ==
  ASSUME MarketInv, NEW c \in Clerks, clerk[c].at # "idle",
         NEW status \in {"processing", "processed", "error"},
         status = "processed" => clerk[c].at = "processed",
         claims' = [claims EXCEPT ![clerk[c].delivery].status = status],
         clerk' = [clerk EXCEPT ![c] = NoClerk], UNCHANGED <<story, policy, account, copy, tenant, raced>>
  PROVE  MarketInv'
  <1> DEFINE d == clerk[c].delivery
  <1>1. d \in Deliveries
    BY MarketFields
  <1>2. NoClerk.at = "idle" /\ NoClerk.delivery = "none" /\ NoClerk.read = NoSubscription
        /\ NoClerk \in [at : Steps, delivery : Deliveries \cup {"none"}, read : Subscriptions]
    BY NoSubscriptionTyped DEF NoClerk, Steps
  <1>3. /\ clerk' \in [Clerks -> [at : Steps, delivery : Deliveries \cup {"none"}, read : Subscriptions]]
        /\ clerk'[c] = NoClerk /\ \A b \in Clerks : b # c => clerk'[b] = clerk[b]
    BY <1>2 DEF MarketInv, MarketTypes
  <1>4. /\ claims' \in [Deliveries -> [status : {"none", "processing", "processed", "error"}, times : Nat]]
        /\ claims'[d].status = status /\ \A e \in Deliveries : e # d => claims'[e] = claims[e]
    BY <1>1 DEF MarketInv, MarketTypes
  <1>5. claims[d].status = "processing"
    BY DEF MarketInv, Claimed
  <1>6. \A b \in Clerks : (b # c /\ clerk[b].at # "idle") => clerk[b].delivery # d
    BY DEF MarketInv, Claimed
  <1> HIDE DEF d
  <1>7. MarketTypes'
    BY <1>3, <1>4 DEF MarketInv, MarketTypes
  <1>8. Claimed'
    BY <1>2, <1>3, <1>4, <1>6 DEF MarketInv, Claimed
  <1>9. Off'
    BY <1>2, <1>3, NoSubscriptionTyped DEF MarketInv, Off
  <1>10. \A old, n : Older(n, old)' = Older(n, old) /\ Changed(old, n)' = Changed(old, n)
    BY DEF Older, Changed, BaseOf
  <1>11. Reads'
    BY <1>2, <1>3, <1>10 DEF MarketInv, Reads, Busy
  <1>12. Behind'
    <2> SUFFICES ASSUME ~raced, account # copy
                 PROVE  \E e \in Deliveries : Mends(e)'
      BY DEF Behind
    <2>1. PICK e \in Deliveries : Mends(e)
      BY DEF MarketInv, Behind
    <2>2. claims'[e].status \in {"processing", "error"}
      <3>1. e = d => status # "processed"
        BY <2>1 DEF Mends, d
      <3>2. QED
        BY <1>4, <2>1, <3>1 DEF Mends
    <2>3. \A b \in Clerks : clerk'[b].delivery = e => clerk'[b].at # "processed"
      BY <1>2, <1>3, <2>1 DEF Mends
    <2>4. QED
      BY <1>10, <2>1, <2>2, <2>3 DEF Mends
  <1>13. \A e \in Deliveries : Done(e)' => Done(e)
    BY <1>2, <1>3, <1>4 DEF Done, d
  <1>14. \A e \in Deliveries : SaidBy(e) => SaidBy(e)'
    <2>1. \A e \in Deliveries : claims[e].status # "none" => claims'[e].status # "none"
      BY <1>4
    <2>2. QED
      BY <2>1 DEF SaidBy, Decides
  <1>15. Newest'
    BY <1>13, <1>14 DEF MarketInv, Newest, Decides
  <1>16. QED
    BY <1>7, <1>8, <1>9, <1>11, <1>12, <1>15 DEF MarketInv

(* A delivery is claimed, with a handler to it or, when an answer was lost, with none. *)
LEMMA ReceiveKeeps ==
  ASSUME MarketInv, NEW c \in Clerks, NEW d \in Deliveries, Receive(c, d)
  PROVE  MarketInv'
  <1>1. UNCHANGED <<story, policy, account, copy, tenant, raced>> /\ clerk[c].at = "idle"
    BY Zenon DEF Receive, At
  <1>2. CASE UNCHANGED <<claims, clerk>>
    <2>1. \A e : Mends(e)' <=> Mends(e)
      BY <1>1, <1>2 DEF Mends, Older
    <2>2. Behind'
      BY <1>1, <2>1 DEF MarketInv, Behind
    <2>3. MarketTypes' /\ Claimed' /\ Off'
      BY <1>1, <1>2 DEF MarketInv, MarketTypes, Claimed, Off
    <2>4. Reads'
      BY <1>1, <1>2 DEF MarketInv, Reads, Busy, Older, Changed, BaseOf
    <2>5. Newest'
      <3>1. \A e : (Done(e)' <=> Done(e)) /\ (SaidBy(e)' <=> SaidBy(e))
        BY <1>1, <1>2 DEF Done, SaidBy
      <3>2. QED
        BY <1>1, <3>1 DEF MarketInv, Newest
    <2>6. QED
      BY <2>2, <2>3, <2>4, <2>5 DEF MarketInv
  <1> DEFINE working == [at |-> "load", delivery |-> d, read |-> NoSubscription]
  <1>3. CASE /\ ClaimDelivery(d)
             /\ \E times \in Nat : claims' = [claims EXCEPT ![d] = [status |-> "processing", times |-> times]]
             /\ clerk' = clerk \/ clerk' = [clerk EXCEPT ![c] = working]
    <2>1. working.at = "load" /\ working.delivery = d /\ working.read = NoSubscription
          /\ working \in [at : Steps, delivery : Deliveries \cup {"none"}, read : Subscriptions]
      BY NoSubscriptionTyped DEF Steps
    <2> HIDE DEF working
    <2>2. /\ clerk' \in [Clerks -> [at : Steps, delivery : Deliveries \cup {"none"}, read : Subscriptions]]
          /\ clerk'[c] \in {clerk[c], working} /\ \A b \in Clerks : b # c => clerk'[b] = clerk[b]
      BY <1>3, <2>1 DEF MarketInv, MarketTypes
    <2>3. /\ claims' \in [Deliveries -> [status : {"none", "processing", "processed", "error"}, times : Nat]]
          /\ claims'[d].status = "processing" /\ \A e \in Deliveries : e # d => claims'[e] = claims[e]
      BY <1>3 DEF MarketInv, MarketTypes
    <2>4. /\ \A b \in Clerks : clerk[b].at # "idle" => clerk[b].delivery # d
          /\ claims[d].status # "processed"
      BY <1>3 DEF ClaimDelivery, MarketInv, Claimed
    <2>5. MarketTypes'
      BY <1>1, <2>2, <2>3 DEF MarketInv, MarketTypes
    <2>6. Claimed'
      <3>1. \A b \in Clerks : clerk'[b].at # "idle" =>
              \/ b = c /\ clerk'[b].delivery = d
              \/ b # c /\ clerk'[b] = clerk[b] /\ clerk[b].delivery # d
                 /\ clerk[b].delivery \in Deliveries /\ claims[clerk[b].delivery].status = "processing"
        BY <1>1, <2>1, <2>2, <2>4 DEF MarketInv, Claimed
      <3>2. \A b \in Clerks : clerk'[b].at # "idle" =>
              clerk'[b].delivery \in Deliveries /\ claims'[clerk'[b].delivery].status = "processing"
        BY <2>3, <3>1
      <3>3. \A a, b \in Clerks : (clerk'[a].at # "idle" /\ clerk'[b].at # "idle" /\ a # b) =>
              clerk'[a].delivery # clerk'[b].delivery
        <4>1. \A a, b \in Clerks : (clerk[a].at # "idle" /\ clerk[b].at # "idle" /\ a # b) =>
                clerk[a].delivery # clerk[b].delivery
          BY DEF MarketInv, Claimed
        <4>2. QED
          BY <3>1, <4>1
      <3>4. QED
        BY <3>2, <3>3 DEF Claimed
    <2>7. Off'
      BY <1>1, <2>1, <2>2, NoSubscriptionTyped DEF MarketInv, Off
    <2>8. \A old, n : Older(n, old)' = Older(n, old) /\ Changed(old, n)' = Changed(old, n)
      BY <1>1 DEF Older, Changed, BaseOf
    <2>9. Reads'
      <3>1. \A b \in Clerks : Busy(b)' => b # c /\ Busy(b)
        BY <1>1, <2>1, <2>2 DEF Busy
      <3>2. \A b \in Clerks : clerk'[b].at \in {"disable", "copy", "account"} => b # c
        BY <1>1, <2>1, <2>2
      <3>3. \A b \in Clerks : b # c => clerk'[b] = clerk[b]
        BY <2>2
      <3>4. QED
        BY <1>1, <2>8, <3>1, <3>2, <3>3 DEF MarketInv, Reads
    <2>10. Behind'
      <3> SUFFICES ASSUME ~raced, account # copy
                   PROVE  \E e \in Deliveries : Mends(e)'
        BY <1>1 DEF Behind
      <3>1. PICK e \in Deliveries : Mends(e)
        BY DEF MarketInv, Behind
      <3>2. claims'[e].status \in {"processing", "error"}
        BY <2>3, <3>1 DEF Mends
      <3>3. \A b \in Clerks : clerk'[b].delivery = e => clerk'[b].at # "processed"
        BY <1>1, <2>1, <2>2, <3>1 DEF Mends
      <3>4. QED
        BY <1>1, <2>8, <3>1, <3>2, <3>3 DEF Mends
    <2>11. \A e \in Deliveries : Done(e)' => Done(e)
      BY <1>1, <2>1, <2>2, <2>3 DEF Done
    <2>12. \A e \in Deliveries : SaidBy(e) => SaidBy(e)'
      <3>1. \A e \in Deliveries : claims[e].status # "none" => claims'[e].status # "none"
        BY <2>3
      <3>2. QED
        BY <1>1, <3>1 DEF SaidBy, Decides
    <2>13. Newest'
      BY <1>1, <2>11, <2>12 DEF MarketInv, Newest, Decides
    <2>14. QED
      BY <2>5, <2>6, <2>7, <2>9, <2>10, <2>13 DEF MarketInv
  <1>4. QED
    <2>1. CASE /\ ClaimDelivery(d)
               /\ claims' = [claims EXCEPT ![d] = [status |-> "processing", times |-> claims[d].times + 1]]
               /\ clerk' = [clerk EXCEPT ![c] = working]
      <3>1. claims[d].times + 1 \in Nat
        BY DEF MarketInv, MarketTypes
      <3>2. QED
        BY <1>3, <2>1, <3>1
    <2>2. CASE ClaimDelivery(d) /\ claims' = [claims EXCEPT ![d].status = "processing"] /\ UNCHANGED clerk
      <3>1. [claims EXCEPT ![d].status = "processing"] =
              [claims EXCEPT ![d] = [status |-> "processing", times |-> claims[d].times]]
            /\ claims[d].times \in Nat
        <4>1. claims[d] \in [status : {"none", "processing", "processed", "error"}, times : Nat]
          BY DEF MarketInv, MarketTypes
        <4>2. [claims[d] EXCEPT !.status = "processing"] = [status |-> "processing", times |-> claims[d].times]
          BY <4>1
        <4>3. QED
          BY <4>1, <4>2
      <3>2. QED
        BY <1>3, <2>2, <3>1
    <2>3. \/ /\ ClaimDelivery(d)
             /\ claims' = [claims EXCEPT ![d] = [status |-> "processing", times |-> claims[d].times + 1]]
             /\ clerk' = [clerk EXCEPT ![c] = working]
          \/ ClaimDelivery(d) /\ claims' = [claims EXCEPT ![d].status = "processing"] /\ UNCHANGED clerk
          \/ UNCHANGED <<claims, clerk>>
      BY DEF Receive
    <2>4. QED
      BY <1>2, <2>1, <2>2, <2>3

(* The subscription is read. *)
LEMMA HandleKeeps ==
  ASSUME MarketInv, NEW c \in Clerks, Handle(c)
  PROVE  MarketInv'
  <1>1. /\ clerk[c].at = "load" /\ UNCHANGED <<story, policy, claims, account, copy, tenant>>
        /\ raced' = (raced \/ \E b \in Clerks \ {c} : clerk[b].at \in {"tenant", "bind", "disable", "copy", "account"})
        /\ \/ Turn(c, "error")
           \/ clerk' = [clerk EXCEPT ![c].at = "tenant", ![c].read = account]
    BY Zenon DEF Handle, At
  <1>2. raced' \in BOOLEAN /\ (raced => raced')
    BY <1>1
  <1>3. CASE Turn(c, "error")
    <2>1. tenant' \in {"none", "on", "off"}
      BY <1>1 DEF MarketInv, MarketTypes
    <2>2. QED
      BY <1>1, <1>2, <1>3, <2>1, TurnKeeps
  <1>4. CASE clerk' = [clerk EXCEPT ![c].at = "tenant", ![c].read = account]
    <2>1. /\ clerk' \in [Clerks -> [at : Steps, delivery : Deliveries \cup {"none"}, read : Subscriptions]]
          /\ clerk'[c].at = "tenant" /\ clerk'[c].read = account /\ clerk'[c].delivery = clerk[c].delivery
          /\ \A b \in Clerks : b # c => clerk'[b] = clerk[b]
      BY <1>4 DEF MarketInv, MarketTypes, Steps
    <2>2. MarketTypes'
      BY <1>1, <1>2, <2>1 DEF MarketInv, MarketTypes
    <2>3. Claimed'
      BY <1>1, <2>1 DEF MarketInv, Claimed
    <2>4. Off'
      BY <1>1, <2>1 DEF MarketInv, Off
    <2>5. \A old, n : Older(n, old)' = Older(n, old) /\ Changed(old, n)' = Changed(old, n)
      BY <1>1 DEF Older, Changed, BaseOf
    <2>6. Reads'
      <3>1. \A b \in Clerks : clerk'[b].at \in {"disable", "copy", "account"} => ~Older(story[clerk'[b].delivery], clerk'[b].read)
        BY <2>1 DEF MarketInv, Reads
      <3>2. ASSUME ~raced'
            PROVE  /\ \A b, e \in Clerks : (Busy(b)' /\ Busy(e)') => b = e
                   /\ \A b \in Clerks : Busy(b)' => clerk'[b].read = account
                   /\ \A b \in Clerks : clerk'[b].at = "account" => copy = Changed(clerk'[b].read, story[clerk'[b].delivery])
        <4>1. \A b \in Clerks : b # c => ~Busy(b)
          BY <1>1, <3>2 DEF Busy
        <4>2. \A b \in Clerks : Busy(b)' => b = c
          BY <2>1, <4>1 DEF Busy
        <4>3. \A b \in Clerks : clerk'[b].at # "account"
          BY <2>1, <4>1 DEF Busy
        <4>4. QED
          BY <2>1, <4>2, <4>3
      <3>3. QED
        BY <1>1, <2>5, <3>1, <3>2 DEF Reads
    <2>7. \A e : Mends(e) => Mends(e)'
      BY <1>1, <2>1, <2>5 DEF Mends
    <2>8. Behind'
      BY <1>1, <1>2, <2>7 DEF MarketInv, Behind
    <2>9. \A e : (Done(e)' => Done(e)) /\ (SaidBy(e)' <=> SaidBy(e))
      <3>1. \A e : Done(e)' => Done(e)
        BY <1>1, <2>1 DEF Done
      <3>2. \A e : SaidBy(e)' <=> SaidBy(e)
        BY <1>1 DEF SaidBy
      <3>3. QED
        BY <3>1, <3>2
    <2>10. Newest'
      BY <1>1, <1>2, <2>9 DEF MarketInv, Newest
    <2>11. QED
      BY <2>2, <2>3, <2>4, <2>6, <2>8, <2>10 DEF MarketInv
  <1>5. QED
    BY <1>1, <1>3, <1>4

(* The copy is written, or perhaps. *)
LEMMA PutCopyKeeps ==
  ASSUME MarketInv, NEW c \in Clerks, PutCopy(c)
  PROVE  MarketInv'
  <1> DEFINE d == clerk[c].delivery
             sub == Changed(clerk[c].read, story[d])
  <1>1. clerk[c].at = "copy" /\ UNCHANGED <<story, policy, claims, account, tenant, raced>>
    BY Zenon DEF PutCopy, At
  <1>2. \/ Turn(c, "account") /\ copy' = sub
        \/ Turn(c, "error") /\ copy' \in {copy, sub}
    BY DEF PutCopy, Notice
  <1>3. PICK step \in {"account", "error"} : Turn(c, step) /\ copy' \in {copy, sub} /\ (step = "account" => copy' = sub)
    BY <1>2
  <1>4. step \in Steps
    BY DEF Steps
  <1>5. /\ clerk' \in [Clerks -> [at : Steps, delivery : Deliveries \cup {"none"}, read : Subscriptions]]
        /\ clerk'[c].at = step
        /\ \A b \in Clerks : clerk'[b].delivery = clerk[b].delivery /\ clerk'[b].read = clerk[b].read
        /\ \A b \in Clerks : b # c => clerk'[b].at = clerk[b].at
    BY <1>3, <1>4, TurnFacts DEF MarketInv
  <1>6. d \in Deliveries /\ claims[d].status = "processing" /\ clerk[c].read \in Subscriptions /\ story \in Stories
        /\ Busy(c) /\ ~Older(story[d], clerk[c].read)
    BY <1>1, MarketFields DEF MarketInv, Claimed, Busy, Reads
  <1>7. sub \in Subscriptions /\ (sub.status = "cancelled" => tenant = "off")
    <2>1. (clerk[c].read.status = "none" => clerk[c].read = NoSubscription)
          /\ (clerk[c].read.status = "cancelled" => tenant = "off")
          /\ ((story[d].action = "cancelled" /\ policy = "disable") => tenant = "off")
      BY <1>1 DEF MarketInv, Off
    <2>2. policy \in {"disable", "free"}
      BY DEF MarketInv, MarketTypes
    <2>3. QED
      BY <1>6, <2>1, <2>2, ChangedFacts
  <1>8. \A b \in Clerks : (b # c /\ clerk[b].at # "idle") => clerk[b].delivery # d
    BY <1>1 DEF MarketInv, Claimed
  <1> HIDE DEF d, sub
  <1>9. MarketTypes'
    BY <1>1, <1>3, <1>5, <1>7 DEF MarketInv, MarketTypes
  <1>10. Claimed'
    BY <1>1, <1>5 DEF MarketInv, Claimed
  <1>11. Off'
    BY <1>1, <1>3, <1>5, <1>7 DEF MarketInv, Off
  <1>12. \A old, n : Older(n, old)' = Older(n, old) /\ Changed(old, n)' = Changed(old, n)
    BY <1>1 DEF Older, Changed, BaseOf
  <1>13. Reads'
    <2>1. \A b \in Clerks : clerk'[b].at \in {"disable", "copy", "account"} => ~Older(story[clerk'[b].delivery], clerk'[b].read)
      BY <1>5, <1>6 DEF MarketInv, Reads, d
    <2>2. ASSUME ~raced
          PROVE  /\ \A b, e \in Clerks : (Busy(b)' /\ Busy(e)') => b = e
                 /\ \A b \in Clerks : Busy(b)' => clerk'[b].read = account
                 /\ \A b \in Clerks : clerk'[b].at = "account" => copy' = Changed(clerk'[b].read, story[clerk'[b].delivery])
      <3>1. /\ \A b \in Clerks : Busy(b) => b = c
            /\ clerk[c].read = account
        BY <1>6, <2>2 DEF MarketInv, Reads
      <3>2. \A b \in Clerks : Busy(b)' => b = c
        BY <1>5, <3>1 DEF Busy
      <3>3. \A b \in Clerks : clerk'[b].at = "account" => b = c /\ step = "account"
        BY <1>5, <3>2 DEF Busy
      <3>4. QED
        BY <1>3, <1>5, <3>1, <3>2, <3>3 DEF sub, d
    <2>3. QED
      BY <1>1, <1>12, <2>1, <2>2 DEF Reads
  <1>14. Behind'
    <2> SUFFICES ASSUME ~raced, NEW e \in Deliveries, e = d
                 PROVE  Mends(e)'
      BY <1>1, <1>6 DEF Behind
    <2>1. ~Older(story[e], account)
      BY <1>6 DEF MarketInv, Reads
    <2>2. \A b \in Clerks : clerk'[b].delivery = e => clerk'[b].at # "processed"
      <3>1. \A b \in Clerks : (b # c /\ clerk[b].delivery = e) => clerk[b].at = "idle"
        BY <1>8
      <3>2. QED
        BY <1>5, <3>1
    <2>3. QED
      BY <1>1, <1>6, <1>12, <2>1, <2>2 DEF Mends
  <1>15. Newest'
    <2>1. \A e : Done(e)' => Done(e)
      BY <1>1, <1>5 DEF Done
    <2>2. \A e : SaidBy(e)' <=> SaidBy(e)
      BY <1>1 DEF SaidBy
    <2>3. QED
      BY <1>1, <2>1, <2>2 DEF MarketInv, Newest
  <1>16. QED
    BY <1>9, <1>10, <1>11, <1>13, <1>14, <1>15 DEF MarketInv

(* The account is written, or perhaps. *)
LEMMA PutAccountKeeps ==
  ASSUME MarketInv, NEW c \in Clerks, PutAccount(c)
  PROVE  MarketInv'
  <1> DEFINE d == clerk[c].delivery
             old == clerk[c].read
             sub == Changed(old, story[d])
  <1>1. clerk[c].at = "account" /\ UNCHANGED <<story, policy, claims, copy, tenant, raced>>
    BY Zenon DEF PutAccount, At
  <1>2. \/ Turn(c, "processed") /\ account' = sub
        \/ Turn(c, "error") /\ account' \in {account, sub}
    BY DEF PutAccount, Notice
  <1>3. PICK step \in {"processed", "error"} :
          Turn(c, step) /\ account' \in {account, sub} /\ (step = "processed" => account' = sub)
    BY <1>2
  <1>4. step \in Steps
    BY DEF Steps
  <1>5. /\ clerk' \in [Clerks -> [at : Steps, delivery : Deliveries \cup {"none"}, read : Subscriptions]]
        /\ clerk'[c].at = step
        /\ \A b \in Clerks : clerk'[b].delivery = clerk[b].delivery /\ clerk'[b].read = clerk[b].read
        /\ \A b \in Clerks : b # c => clerk'[b].at = clerk[b].at
    BY <1>3, <1>4, TurnFacts DEF MarketInv
  <1>6. d \in Deliveries /\ claims[d].status = "processing" /\ old \in Subscriptions /\ story \in Stories
        /\ Busy(c) /\ ~Older(story[d], old) /\ account \in Subscriptions
    BY <1>1, MarketFields DEF MarketInv, Claimed, Busy, Reads
  <1>7. (old.status = "none" => old = NoSubscription) /\ (old.status = "cancelled" => tenant = "off")
        /\ ((story[d].action = "cancelled" /\ policy = "disable") => tenant = "off")
        /\ policy \in {"disable", "free"}
    BY <1>1 DEF MarketInv, MarketTypes, Off
  <1>8. /\ sub \in Subscriptions /\ sub.status # "none" /\ sub # NoSubscription
        /\ sub.status = "cancelled" => tenant = "off"
        /\ Decides(story[d]) => sub.at = story[d].effective
        /\ old.at <= sub.at
        /\ \/ sub.at = story[d].effective /\ story[d].action # "cancelled" /\ sub.plan = story[d].plan
           \/ sub.at = story[d].effective /\ story[d].action = "cancelled" /\ sub.status \in {"cancelled", "free"}
           \/ ~Decides(story[d]) /\ old # NoSubscription /\ sub.at = old.at /\ sub.plan = old.plan
    BY <1>6, <1>7, ChangedFacts
  <1>9. \A b \in Clerks : (b # c /\ clerk[b].at # "idle") => clerk[b].delivery # d
    BY <1>1 DEF MarketInv, Claimed
  <1>10. ~raced => /\ account = old /\ copy = sub
                   /\ \A b \in Clerks : Busy(b) => b = c
    BY <1>1, <1>6 DEF MarketInv, Reads
  <1>11. story[d].effective \in Nat /\ sub.at \in Nat /\ account.at \in Nat /\ old.at \in Nat
         /\ \A e \in Deliveries : story[e].effective \in Nat
    BY <1>6, <1>8, MarketAssumption DEF Subscriptions
  <1>12. ~Older(story[d], old) /\ (Older(story[d], old) <=> old # NoSubscription /\ story[d].effective < old.at)
    BY <1>6 DEF Older
  <1> HIDE DEF d, old, sub
  <1>13. MarketTypes'
    BY <1>1, <1>3, <1>5, <1>8 DEF MarketInv, MarketTypes
  <1>14. Claimed'
    BY <1>1, <1>5 DEF MarketInv, Claimed
  <1>15. Off'
    BY <1>1, <1>3, <1>5, <1>8 DEF MarketInv, Off
  <1>16. \A x, n : Older(n, x)' = Older(n, x) /\ Changed(x, n)' = Changed(x, n)
    BY <1>1 DEF Older, Changed, BaseOf
  <1>17. Reads'
    <2>1. \A b \in Clerks : clerk'[b].at \in {"disable", "copy", "account"} => ~Older(story[clerk'[b].delivery], clerk'[b].read)
      BY <1>5 DEF MarketInv, Reads
    <2>2. ~raced => \A b \in Clerks : ~Busy(b)' /\ clerk'[b].at # "account"
      BY <1>5, <1>10 DEF Busy
    <2>3. QED
      BY <1>1, <1>16, <2>1, <2>2 DEF Reads
  <1>18. Behind'
    <2> SUFFICES ASSUME ~raced, account' # copy, NEW e \in Deliveries, e = d
                 PROVE  Mends(e)'
      BY <1>1, <1>6 DEF Behind
    <2>1. account' = account /\ step = "error" /\ ~Older(story[e], account)
      BY <1>3, <1>6, <1>10
    <2>2. \A b \in Clerks : clerk'[b].delivery = e => clerk'[b].at # "processed"
      <3>1. \A b \in Clerks : (b # c /\ clerk[b].delivery = e) => clerk[b].at = "idle"
        BY <1>9
      <3>2. QED
        BY <1>5, <2>1, <3>1
    <2>3. QED
      BY <1>1, <1>6, <1>16, <2>1, <2>2 DEF Mends
  <1>19. Newest'
    <2> SUFFICES ASSUME ~raced
                 PROVE  /\ \A e \in Deliveries : (Done(e)' /\ Decides(story[e])) =>
                               account' # NoSubscription /\ story[e].effective <= account'.at
                        /\ account' # NoSubscription => \E e \in Deliveries : SaidBy(e)'
      BY <1>1 DEF Newest
    <2>1. account = old /\ /\ \A e \in Deliveries : (Done(e) /\ Decides(story[e])) =>
                                  account # NoSubscription /\ story[e].effective <= account.at
                           /\ account # NoSubscription => \E e \in Deliveries : SaidBy(e)
      BY <1>10 DEF MarketInv, Newest
    <2>2. ASSUME NEW e \in Deliveries, Done(e)', Decides(story[e])
          PROVE  account' # NoSubscription /\ story[e].effective <= account'.at
      <3>1. CASE Done(e)
        <4>1. account # NoSubscription /\ story[e].effective <= account.at
          BY <2>1, <2>2, <3>1
        <4>2. account'.at \in Nat /\ account.at <= account'.at /\ account' # NoSubscription
          BY <1>3, <1>8, <1>11, <2>1, <4>1
        <4>3. QED
          BY <1>11, <4>1, <4>2
      <3>2. CASE e = d /\ step = "processed"
        BY <1>3, <1>8, <1>11, <2>2, <3>2
      <3>3. QED
        <4>1. Done(e) \/ (\E b \in Clerks : clerk'[b].delivery = e /\ clerk'[b].at = "processed")
          BY <1>1, <2>2 DEF Done
        <4>2. Done(e) \/ (e = d /\ step = "processed")
          BY <1>5, <4>1 DEF Done, d
        <4>3. QED
          BY <3>1, <3>2, <4>2
    <2>3. account' # NoSubscription => \E e \in Deliveries : SaidBy(e)'
      <3>1. CASE account' = account
        <4>1. \A e : SaidBy(e)' <=> SaidBy(e)
          BY <1>1, <3>1 DEF SaidBy
        <4>2. QED
          BY <2>1, <3>1, <4>1
      <3>2. CASE account' = sub
        <4> SUFFICES ASSUME NEW mine \in Deliveries, mine = d
                     PROVE  \E e \in Deliveries : SaidBy(e)'
          BY <1>6
        <4>1. claims'[mine].status # "none"
          BY <1>1, <1>6
        <4>2. CASE /\ sub.at = story[mine].effective
                   /\ story[mine].action # "cancelled" => sub.plan = story[mine].plan
                   /\ story[mine].action = "cancelled" => sub.status \in {"cancelled", "free"}
          <5>1. SaidBy(mine)'
            BY <1>1, <3>2, <4>1, <4>2 DEF SaidBy
          <5>2. QED
            BY <5>1
        <4>3. CASE ~Decides(story[mine]) /\ old # NoSubscription /\ sub.at = old.at /\ sub.plan = old.plan
          <5>1. PICK e \in Deliveries : SaidBy(e)
            BY <2>1, <4>3
          <5>2. story[mine].effective >= sub.at
            BY <1>11, <1>12, <4>3
          <5>3. SaidBy(e)'
            BY <1>1, <2>1, <3>2, <4>1, <4>3, <5>1, <5>2 DEF SaidBy, Decides
          <5>4. QED
            BY <5>3
        <4>4. QED
          BY <1>8, <4>2, <4>3
      <3>3. QED
        BY <1>3, <3>1, <3>2
    <2>4. QED
      BY <2>2, <2>3
  <1>20. QED
    BY <1>13, <1>14, <1>15, <1>17, <1>18, <1>19 DEF MarketInv

LEMMA MarketKept ==
  ASSUME MarketInv, MarketStep
  PROVE  MarketInv'
  <1> PICK c \in Clerks :
        \/ (\E d \in Deliveries : Receive(c, d)) \/ Handle(c) \/ FindTenant(c) \/ BindInstallation(c)
        \/ SetTenantEnabled(c) \/ PutCopy(c) \/ PutAccount(c) \/ UpdateDelivery(c) \/ Die(c)
    BY DEF MarketStep
  <1>1. raced \in BOOLEAN /\ tenant \in {"none", "on", "off"} /\ claims \in [Deliveries -> [status : {"none", "processing", "processed", "error"}, times : Nat]]
    BY DEF MarketInv, MarketTypes
  <1>2. CASE FindTenant(c)
    <2>1. /\ clerk[c].at = "tenant" /\ UNCHANGED <<story, policy, claims, account, copy, raced>>
          /\ Turn(c, "bind") \/ Turn(c, "error")
          /\ tenant' \in {tenant, IF tenant = "none" THEN "on" ELSE tenant}
      BY <1>2 DEF FindTenant, At
    <2>2. tenant' \in {"none", "on", "off"} /\ (tenant = "off" => tenant' = "off")
      BY <1>1, <2>1
    <2>3. PICK step \in {"bind", "error"} : Turn(c, step)
      BY <2>1
    <2>4. QED
      BY <1>1, <2>1, <2>2, <2>3, TurnKeeps
  <1>3. CASE BindInstallation(c)
    <2>1. /\ clerk[c].at = "bind" /\ UNCHANGED <<story, policy, claims, account, copy, tenant, raced>>
          /\ Turn(c, "error") \/ Turn(c, Write(c))
      BY <1>3 DEF BindInstallation, At
    <2>2. PICK step \in {"error", "processed", "disable", "copy"} : Turn(c, step) /\ (step # "error" => step = Write(c))
      BY <2>1 DEF Write
    <2>3. /\ step = "processed" => Older(Notice(c), clerk[c].read)
          /\ step \in {"disable", "copy"} => ~Older(Notice(c), clerk[c].read)
          /\ ~(step = "copy" /\ Notice(c).action = "cancelled" /\ policy = "disable")
      BY <2>2 DEF Write
    <2>4. QED
      BY <1>1, <2>1, <2>2, <2>3, TurnKeeps
  <1>4. CASE SetTenantEnabled(c)
    <2>1. /\ clerk[c].at = "disable" /\ UNCHANGED <<story, policy, claims, account, copy, raced>>
          /\ (Turn(c, "copy") /\ tenant' = "off") \/ (Turn(c, "error") /\ tenant' \in {tenant, "off"})
      BY <1>4 DEF SetTenantEnabled, At
    <2>2. tenant' \in {"none", "on", "off"} /\ (tenant = "off" => tenant' = "off")
      BY <1>1, <2>1
    <2>3. PICK step \in {"copy", "error"} : Turn(c, step) /\ (step = "copy" => tenant' = "off")
      BY <2>1
    <2>4. ~Older(Notice(c), clerk[c].read)
      BY <2>1 DEF MarketInv, Reads, Notice
    <2>5. QED
      BY <1>1, <2>1, <2>2, <2>3, <2>4, TurnKeeps
  <1>5. CASE UpdateDelivery(c)
    <2>1. /\ clerk[c].at \in {"processed", "error"} /\ UNCHANGED <<story, policy, account, copy, tenant, raced>>
          /\ clerk' = [clerk EXCEPT ![c] = NoClerk]
          /\ \/ claims' = [claims EXCEPT ![clerk[c].delivery].status = clerk[c].at]
             \/ claims' = claims
      BY <1>5 DEF UpdateDelivery, At
    <2>2. CASE claims' = [claims EXCEPT ![clerk[c].delivery].status = clerk[c].at]
      BY <2>1, <2>2, EndKeeps
    <2>3. CASE claims' = claims
      <3>1. claims' = [claims EXCEPT ![clerk[c].delivery].status = "processing"]
        BY <1>1, <2>1, <2>3 DEF MarketInv, Claimed
      <3>2. QED
        BY <2>1, <3>1, EndKeeps
    <2>4. QED
      BY <2>1, <2>2, <2>3
  <1>6. CASE Die(c)
    <2>1. /\ clerk[c].at # "idle" /\ UNCHANGED <<story, policy, claims, account, copy, tenant, raced>>
          /\ clerk' = [clerk EXCEPT ![c] = NoClerk]
      BY <1>6, Zenon DEF Die, At
    <2>2. claims' = [claims EXCEPT ![clerk[c].delivery].status = "processing"]
      BY <1>1, <2>1 DEF MarketInv, Claimed
    <2>3. QED
      BY <2>1, <2>2, EndKeeps
  <1>7. QED
    BY <1>2, <1>3, <1>4, <1>5, <1>6, ReceiveKeeps, HandleKeeps, PutCopyKeeps, PutAccountKeeps

LEMMA PlanIsKept ==
  ASSUME MarketInv
  PROVE  PlanKept
  <1>1. CancelledIsOff
    BY DEF MarketInv, Off, CancelledIsOff
  <1>2. CopiesAgree
    <2> SUFFICES ASSUME ~raced, AllQuiet
                 PROVE  account = copy
      BY DEF CopiesAgree
    <2>1. \A d \in Deliveries : ~Mends(d)
      BY DEF AllQuiet, Mends
    <2>2. QED
      BY <2>1 DEF MarketInv, Behind
  <1>3. NewestKept
    <2> SUFFICES ASSUME ~raced, AllQuiet, Deciding # {}
                 PROVE  /\ \A d \in Deciding : story[d].effective <= account.at
                        /\ \E d \in Processed :
                             /\ story[d].effective = account.at
                             /\ story[d].action # "cancelled" => account.plan = story[d].plan
                             /\ story[d].action = "cancelled" =>
                                   account.status \in {"cancelled", "free"} \/ \E p \in Processed \ Deciding : story[p].effective >= account.at
      BY DEF NewestKept
    <2>1. /\ \A d \in Deliveries : (Done(d) /\ Decides(story[d])) => account # NoSubscription /\ story[d].effective <= account.at
          /\ account # NoSubscription => \E d \in Deliveries : SaidBy(d)
      BY DEF MarketInv, Newest
    <2>2. \A d \in Deciding : d \in Deliveries /\ Done(d) /\ Decides(story[d])
      BY DEF Deciding, Processed, Done, Decides
    <2>3. account # NoSubscription
      BY <2>1, <2>2
    <2>4. PICK d \in Deliveries : SaidBy(d)
      BY <2>1, <2>3
    <2>5. \A p \in Deliveries : claims[p].status # "none" => p \in Processed
      BY DEF AllQuiet, Processed
    <2>6. \A p \in Processed : ~Decides(story[p]) => p \in Processed \ Deciding
      BY DEF Deciding, Decides
    <2>7. QED
      BY <2>1, <2>2, <2>4, <2>5, <2>6 DEF SaidBy
  <1>4. QED
    BY <1>1, <1>2, <1>3 DEF PlanKept

-----------------------------------------------------------------------------
(* Folds over sequences *)

(* Of some natural numbers one is the least. *)
LEMMA LeastNumber ==
  ASSUME NEW S \in SUBSET Nat, S # {}
  PROVE  \E n \in S : \A m \in S : n <= m
  <1>1. PICK n \in S : \A m \in S : ~(<<m, n>> \in OpToRel(<, Nat))
    BY NatLessThanWellFounded, WFMin
  <1>2. \A m \in S : ~(m < n)
    BY <1>1 DEF OpToRel
  <1>3. QED
    BY <1>2

LEMMA MaxIs ==
  ASSUME NEW t \in SUBSET Int, NEW k \in t, \A y \in t : y <= k
  PROVE  Max(t) = k
  <1>1. \A x \in t : (\A y \in t : x >= y) <=> x = k
    OBVIOUS
  <1>2. QED
    BY <1>1 DEF Max

(* What a fold computes with: a function that gives, for a set of positions of a
   sequence, what comes out when their elements are taken in order. *)
Tabulates(g, step, base, q, n) ==
    \A t \in SUBSET (1..n) : g[t] = IF t = {} THEN base ELSE step[g[t \ {Max(t)}], q[Max(t)]]

IsFold(A, X, step, base, q, n) ==
    step \in [A \X X -> A] /\ base \in A /\ n \in Nat /\ \A i \in 1..n : q[i] \in X
HasTable(A, step, base, q, n) == \E g \in [SUBSET (1..n) -> A] : Tabulates(g, step, base, q, n)

(* There is one for every step, start and sequence. *)
LEMMA TableExists ==
  ASSUME NEW A, NEW X, NEW step, NEW base, NEW q, NEW n, IsFold(A, X, step, base, q, n)
  PROVE  HasTable(A, step, base, q, n)
  <1>0. step \in [A \X X -> A] /\ base \in A /\ n \in Nat /\ \A i \in 1..n : q[i] \in X
    BY DEF IsFold
  <1> DEFINE Has(k) == \E g \in [SUBSET (1..k) -> A] : Tabulates(g, step, base, q, k)
             Bad == {k \in 0..n : ~Has(k)}
  <1>1. ASSUME Bad # {} PROVE FALSE
    <2>1. PICK k \in Bad : \A m \in Bad : k <= m
      <3>1. Bad \in SUBSET Nat
        BY <1>0
      <3> HIDE DEF Bad
      <3>2. QED
        BY <1>1, <3>1, LeastNumber
    <2>2. k \in 0..n /\ ~Has(k)
      BY <2>1
    <2>3. CASE k = 0
      <3> DEFINE g == [t \in SUBSET (1..0) |-> base]
      <3>1. \A t \in SUBSET (1..0) : t = {}
        OBVIOUS
      <3>2. g \in [SUBSET (1..0) -> A]
        BY <1>0
      <3>3. Tabulates(g, step, base, q, 0)
        BY <3>1 DEF Tabulates
      <3>4. Has(0)
        BY <3>2, <3>3
      <3>5. QED
        BY <2>2, <2>3, <3>4
    <2>4. CASE k # 0
      <3>1. k \in 1..n /\ k - 1 \in 0..n /\ k - 1 < k
        BY <1>0, <2>2, <2>4
      <3>2. Has(k - 1)
        <4> HIDE DEF Has
        <4> QED BY <2>1, <3>1
      <3>3. PICK g \in [SUBSET (1..(k - 1)) -> A] : Tabulates(g, step, base, q, k - 1)
        BY <3>2
      <3> DEFINE V(t) == IF k \in t THEN step[g[t \ {k}], q[k]] ELSE g[t]
                 h == [t \in SUBSET (1..k) |-> V(t)]
      <3>4. \A t \in SUBSET (1..k) : t \ {k} \in SUBSET (1..(k - 1)) /\ (k \notin t => t \in SUBSET (1..(k - 1)))
        BY <3>1
      <3>5. \A t \in SUBSET (1..k) : V(t) \in A
        BY <1>0, <3>1, <3>4
      <3>6. h \in [SUBSET (1..k) -> A]
        BY <3>5
      <3>7. ASSUME NEW t \in SUBSET (1..k)
            PROVE  h[t] = IF t = {} THEN base ELSE step[h[t \ {Max(t)}], q[Max(t)]]
        <4>1. CASE k \in t
          <5>1. Max(t) = k
            <6>1. t \in SUBSET Int /\ \A y \in t : y <= k
              BY <3>1
            <6>2. QED
              BY <4>1, <6>1, MaxIs
          <5>2. h[t] = step[g[t \ {k}], q[k]] /\ h[t \ {k}] = g[t \ {k}]
            BY <4>1
          <5>3. QED
            BY <4>1, <5>1, <5>2
        <4>2. CASE k \notin t
          <5> DEFINE u == t \ {Max(t)}
          <5>1. t \in SUBSET (1..(k - 1)) /\ k \notin u /\ u \in SUBSET (1..k)
            BY <3>4, <4>2
          <5>2. h[t] = g[t] /\ h[u] = g[u]
            BY <4>2, <5>1
          <5>3. g[t] = IF t = {} THEN base ELSE step[g[u], q[Max(t)]]
            BY <3>3, <5>1 DEF Tabulates
          <5>4. QED
            BY <5>2, <5>3
        <4>3. QED
          BY <4>1, <4>2
      <3>8. Tabulates(h, step, base, q, k)
        <4> HIDE DEF h
        <4> QED BY <3>7 DEF Tabulates
      <3>9. QED
        <4> HIDE DEF h
        <4> QED BY <2>2, <3>6, <3>8
    <2>5. QED
      BY <2>3, <2>4
  <1>2. n \in 0..n
    BY <1>0
  <1>3. Has(n)
    <2> HIDE DEF Has
    <2> QED BY <1>1, <1>2
  <1>4. QED
    BY <1>3 DEF HasTable

(* The positions up to one, without the last. *)
LEMMA UpTo ==
  ASSUME NEW k \in Nat
  PROVE  Max(1..(k + 1)) = k + 1 /\ (1..(k + 1)) \ {k + 1} = 1..k /\ 1..(k + 1) # {}
  <1>1. 1..(k + 1) \in SUBSET Int /\ k + 1 \in 1..(k + 1) /\ \A y \in 1..(k + 1) : y <= k + 1
    OBVIOUS
  <1>2. Max(1..(k + 1)) = k + 1
    BY <1>1, MaxIs
  <1>3. QED
    BY <1>2

(* What it gives for the first positions: the start, and one step after another. *)
LEMMA TablePrefix ==
  ASSUME NEW g, NEW step, NEW base, NEW q, NEW n \in Nat, Tabulates(g, step, base, q, n)
  PROVE  g[1..0] = base /\ \A k \in 0..(n - 1) : g[1..(k + 1)] = step[g[1..k], q[k + 1]]
  <1>1. g[1..0] = base
    <2>1. 1..0 = {} /\ 1..0 \in SUBSET (1..n)
      OBVIOUS
    <2>2. QED
      BY <2>1 DEF Tabulates
  <1>2. ASSUME NEW k \in 0..(n - 1)
        PROVE  g[1..(k + 1)] = step[g[1..k], q[k + 1]]
    <2>1. k \in Nat /\ 1..(k + 1) \in SUBSET (1..n)
      OBVIOUS
    <2>2. QED
      BY <2>1, UpTo DEF Tabulates
  <1>3. QED
    BY <1>1, <1>2

(* A set of positions has a last one. *)
LEMMA SomeMax ==
  ASSUME NEW n \in Nat, NEW t \in SUBSET (1..n), t # {}
  PROVE  Max(t) \in t
  <1> DEFINE S == {m \in Nat : \A y \in t : y <= m}
  <1>1. S \in SUBSET Nat /\ n \in S
    OBVIOUS
  <1>2. PICK m \in S : \A k \in S : m <= k
    <2> HIDE DEF S
    <2> QED BY <1>1, LeastNumber
  <1>3. m \in t
    <2>1. CASE m \notin t
      <3>1. \A y \in t : y <= m - 1
        BY <1>2, <2>1
      <3>2. PICK y \in t : TRUE
        OBVIOUS
      <3>3. m - 1 \in S
        BY <1>2, <3>1, <3>2
      <3>4. QED
        BY <1>2, <3>3
    <2>2. QED
      BY <2>1
  <1>4. t \in SUBSET Int /\ \A y \in t : y <= m
    BY <1>2
  <1>5. QED
    BY <1>3, <1>4, MaxIs

-----------------------------------------------------------------------------
(* Selection: coverage *)

IsGraph(g) == g \in [stored : {g.stored}, deps : {g.deps}, tests : {g.tests}, coverage : {g.coverage}]
IsMerge(x) == x \in [at : {x.at}, loaded : {x.loaded}, input : {x.input}, alone : {x.alone}] /\ IsGraph(x.loaded)

(* A handler that no other save came between has loaded what is stored. *)
CoverageInv ==
    /\ merger = [m \in Mergers |-> merger[m]]
    /\ \A m \in Mergers : IsMerge(merger[m])
    /\ IsGraph(graph)
    /\ CoverageKept
    /\ \A m \in Mergers : (merger[m].at # "idle" /\ merger[m].alone) => merger[m].loaded = graph

LEMMA NoMergeFacts == IsMerge(NoMerge) /\ NoMerge.at = "idle" /\ IsGraph(NoGraph)
  BY DEF IsMerge, NoMerge, IsGraph, NoGraph

LEMMA OverlapFacts ==
  ASSUME CoverageInv, NEW except \in SUBSET Mergers
  PROVE  /\ Overlap(except) = [m \in Mergers |-> Overlap(except)[m]]
         /\ \A m \in Mergers : IsMerge(Overlap(except)[m])
         /\ \A m \in Mergers \ except : Overlap(except)[m].at # "idle" => ~Overlap(except)[m].alone
  <1>1. \A m \in Mergers : Overlap(except)[m] = IF m \in except \/ merger[m].at = "idle" THEN merger[m]
                                               ELSE [merger[m] EXCEPT !.alone = FALSE]
    BY DEF Overlap
  <1>2. \A m \in Mergers : IsMerge(merger[m])
    BY DEF CoverageInv
  <1>3. ASSUME NEW x, IsMerge(x)
        PROVE  IsMerge([x EXCEPT !.alone = FALSE]) /\ ~[x EXCEPT !.alone = FALSE].alone
    <2> DEFINE y == [x EXCEPT !.alone = FALSE]
    <2>1. y \in [at : {x.at}, loaded : {x.loaded}, input : {x.input}, alone : {FALSE}]
      BY <1>3 DEF IsMerge
    <2> HIDE DEF y
    <2>2. y.at = x.at /\ y.loaded = x.loaded /\ y.input = x.input /\ y.alone = FALSE
      BY <2>1
    <2>3. IsMerge(y) /\ ~y.alone
      BY <1>3, <2>1, <2>2 DEF IsMerge
    <2>4. QED
      BY <2>3 DEF y
  <1>4. Overlap(except) = [m \in Mergers |-> Overlap(except)[m]]
    BY DEF Overlap
  <1>5. \A m \in Mergers : IsMerge(Overlap(except)[m])
    BY <1>1, <1>2, <1>3
  <1>6. \A m \in Mergers \ except : Overlap(except)[m].at # "idle" => ~Overlap(except)[m].alone
    <2> TAKE m \in Mergers \ except
    <2>1. CASE merger[m].at = "idle"
      BY <1>1, <2>1
    <2>2. CASE merger[m].at # "idle"
      <3>1. Overlap(except)[m] = [merger[m] EXCEPT !.alone = FALSE] /\ IsMerge(merger[m])
        BY <1>1, <1>2, <2>2
      <3>2. ~[merger[m] EXCEPT !.alone = FALSE].alone
        BY <1>3, <3>1
      <3>3. QED
        BY <3>1, <3>2
    <2>3. QED
      BY <2>1, <2>2
  <1>7. QED
    BY <1>4, <1>5, <1>6

LEMMA CoverageStep ==
  ASSUME CoverageInv, SelectionStep
  PROVE  CoverageInv'
  <1>1. CASE UNCHANGED <<graph, merger, covered>>
    BY <1>1 DEF CoverageInv, CoverageKept
  <1>2. ASSUME NEW tree \in Trees, SaveGraph(tree)
        PROVE  CoverageInv'
    <2>1. UNCHANGED <<graph, merger, covered>> \/ (graph' = BuildGraph(tree) /\ covered' = {} /\ merger' = Overlap({}))
      BY <1>2 DEF SaveGraph
    <2>2. CASE graph' = BuildGraph(tree) /\ covered' = {} /\ merger' = Overlap({})
      <3>1. IsGraph(BuildGraph(tree))
        <4>1. ASSUME NEW deps, NEW tests
              PROVE  IsGraph([stored |-> TRUE, deps |-> deps, tests |-> tests, coverage |-> {}])
          BY DEF IsGraph
        <4>2. QED
          BY <4>1, Zenon DEF BuildGraph
      <3>2. QED
        BY <2>2, <3>1, OverlapFacts DEF CoverageInv, CoverageKept
    <2>3. QED
      BY <1>1, <2>1, <2>2
  <1>3. ASSUME NEW m \in Mergers, NEW input, LoadForMerge(m, input)
        PROVE  CoverageInv'
    <2> DEFINE x == [at |-> "merge", loaded |-> graph, input |-> input, alone |-> TRUE]
    <2>1. merger' = [merger EXCEPT ![m] = x] /\ UNCHANGED <<graph, covered>>
      BY <1>3, Zenon DEF LoadForMerge
    <2>2. IsMerge(x) /\ x.loaded = graph
      BY DEF CoverageInv, IsMerge
    <2> HIDE DEF x
    <2>3. QED
      BY <2>1, <2>2 DEF CoverageInv, CoverageKept
  <1>4. ASSUME NEW m \in Mergers, MergeCoverage(m)
        PROVE  CoverageInv'
    <2> DEFINE old == merger[m].loaded
               input == merger[m].input
               new == [old EXCEPT !.stored = TRUE, !.coverage = Merged(old.coverage, input)]
               left == IF merger[m].alone THEN covered ELSE covered \cap new.coverage
    <2>1. /\ merger[m].at = "merge"
          /\ \/ /\ graph' = new /\ merger' = [Overlap({m}) EXCEPT ![m] = NoMerge]
                /\ covered' = left \cup input \/ covered' = left
             \/ merger' = [merger EXCEPT ![m] = NoMerge] /\ UNCHANGED <<graph, covered>>
      BY <1>4, Zenon DEF MergeCoverage
    <2>2. new \in [stored : {TRUE}, deps : {old.deps}, tests : {old.tests}, coverage : {old.coverage \cup input}]
      <3>1. IsGraph(old)
        BY DEF CoverageInv, IsMerge
      <3> HIDE DEF old, input
      <3>2. QED
        BY <3>1 DEF IsGraph, Merged
    <2>3. IsGraph(new) /\ new.coverage = old.coverage \cup input
      <3> HIDE DEF new, old, input
      <3>1. new.stored = TRUE /\ new.deps = old.deps /\ new.tests = old.tests /\ new.coverage = old.coverage \cup input
        BY <2>2
      <3>2. QED
        BY <2>2, <3>1 DEF IsGraph
    <2>4. (left \cup input) \subseteq new.coverage
      <3>1. merger[m].alone => covered \subseteq old.coverage
        BY <2>1 DEF CoverageInv, CoverageKept
      <3> HIDE DEF new, old, input
      <3>2. QED
        BY <2>3, <3>1
    <2> HIDE DEF new, left
    <2>5. CASE /\ graph' = new /\ merger' = [Overlap({m}) EXCEPT ![m] = NoMerge]
               /\ covered' = left \cup input \/ covered' = left
      <3>1. \A e \in Mergers : merger'[e] = IF e = m THEN NoMerge ELSE Overlap({m})[e]
        BY <2>5, OverlapFacts
      <3>2. merger' = [e \in Mergers |-> merger'[e]]
        BY <2>5, OverlapFacts
      <3>3. covered' \subseteq graph'.coverage
        BY <2>4, <2>5
      <3>4. \A e \in Mergers : IsMerge(merger'[e]) /\ (merger'[e].at # "idle" => ~merger'[e].alone)
        <4>1. \A e \in Mergers \ {m} : IsMerge(Overlap({m})[e]) /\ (Overlap({m})[e].at # "idle" => ~Overlap({m})[e].alone)
          BY OverlapFacts
        <4>2. QED
          BY <3>1, <4>1, NoMergeFacts
      <3>5. IsGraph(graph')
        BY <2>3, <2>5
      <3>6. QED
        BY <3>2, <3>3, <3>4, <3>5 DEF CoverageInv, CoverageKept, IsMerge, IsGraph
    <2>6. CASE merger' = [merger EXCEPT ![m] = NoMerge] /\ UNCHANGED <<graph, covered>>
      BY <2>6, NoMergeFacts DEF CoverageInv, CoverageKept
    <2>7. QED
      BY <2>1, <2>5, <2>6
  <1>5. QED
    BY <1>1, <1>2, <1>3, <1>4 DEF SelectionStep, RecordTest, ListForSelection, Select, Answered

-----------------------------------------------------------------------------
(* Selection: what a chain of imports reaches *)

Importing(files) == {dep[2] : dep \in {d \in graph.deps : d[1] \in files}}
Touched(changed) == {f \in {dep[2] : dep \in graph.deps} : \E c \in changed : FileMatches(f, c)}

LevelTable(start, g) ==
    g = [t \in SUBSET (1..MaxDepth) |->
          IF t = {} THEN <<{start}>> ELSE Append(g[t \ {Max(t)}], Importing(Last(g[t \ {Max(t)}])))]
ReachTable(files, g) ==
    g = [t \in SUBSET (1..MaxDepth) |->
          IF t = {} THEN files ELSE g[t \ {Max(t)}] \cup Importers(g[t \ {Max(t)}])]
Reach(files) == (CHOOSE g : ReachTable(files, g))[1..MaxDepth]

LEMMA LevelsAre ==
  ASSUME NEW start
  PROVE  Levels(start) = (CHOOSE g : LevelTable(start, g))[1..MaxDepth]
  BY DEF FoldLeft, MapThenFoldSet, Levels, LevelTable, Importing

LEMMA AffectedAre ==
  ASSUME NEW tests, NEW changed
  PROVE  Affected(tests, changed) =
            {test \in tests : \/ \E f \in Covers(test), c \in changed : FileMatches(f, c)
                              \/ test.file \in Reach(Touched(changed) \ {test.file})}
  BY DEF FoldLeft, MapThenFoldSet, Affected, Reach, ReachTable, Touched

(* The levels from a file: itself, what it imports, what that imports, ... *)
LEMMA LevelChain ==
  ASSUME NEW start
  PROVE  \E L : /\ L[0] = {start}
                /\ \A k \in 0..(MaxDepth - 1) : L[k + 1] = Importing(L[k])
                /\ \A k \in 0..MaxDepth : Levels(start)[k + 1] = L[k]
  <1> DEFINE F == {start} \cup {dep[2] : dep \in graph.deps}
             A == Seq(SUBSET F)
             first == <<{start}>>
             next(x) == Append(x[1], Importing(Last(x[1])))
             step == [x \in A \X Nat |-> next(x)]
             q == [n \in 1..MaxDepth |-> n]
  <1>0. MaxDepth \in Nat
    BY DEF MaxDepth
  <1>1. \A files : Importing(files) \in SUBSET F
    BY DEF Importing
  <1>2. step \in [A \X Nat -> A]
    <2>1. \A x \in A \X Nat : next(x) \in A
      BY <1>1
    <2>2. QED
      BY <2>1
  <1>3. first \in A
    OBVIOUS
  <1>4. PICK h \in [SUBSET (1..MaxDepth) -> A] : Tabulates(h, step, first, q, MaxDepth)
    <2>1. \A i \in 1..MaxDepth : q[i] \in Nat
      OBVIOUS
    <2> HIDE DEF step, q, A, first
    <2>2. IsFold(A, Nat, step, first, q, MaxDepth)
      BY <1>0, <1>2, <1>3, <2>1 DEF IsFold
    <2>3. HasTable(A, step, first, q, MaxDepth)
      BY <2>2, TableExists
    <2>4. QED
      BY <2>3 DEF HasTable
  <1>5. LevelTable(start, h)
    <2>1. ASSUME NEW t \in SUBSET (1..MaxDepth)
          PROVE  h[t] = IF t = {} THEN <<{start}>> ELSE Append(h[t \ {Max(t)}], Importing(Last(h[t \ {Max(t)}])))
      <3>1. CASE t = {}
        <4>1. h[t] = first
          <5> HIDE DEF step, q, A, first
          <5> QED BY <1>4, <3>1 DEF Tabulates
        <4>2. QED
          BY <3>1, <4>1
      <3>2. CASE t # {}
        <4>1. h[t] = step[h[t \ {Max(t)}], q[Max(t)]]
          <5> HIDE DEF step, q, A, first
          <5> QED BY <1>4, <3>2 DEF Tabulates
        <4>2. h[t \ {Max(t)}] \in A /\ q[Max(t)] \in Nat
          <5>1. Max(t) \in 1..MaxDepth
            BY <3>2, <1>0, SomeMax
          <5>2. h[t \ {Max(t)}] \in A
            <6> HIDE DEF A
            <6> QED BY <1>4
          <5>3. q[Max(t)] \in Nat
            BY <1>0, <5>1
          <5>4. QED
            <6> HIDE DEF A, q
            <6> QED BY <5>2, <5>3
        <4>3. QED
          <5> HIDE DEF q, A
          <5> QED BY <3>2, <4>1, <4>2
      <3>3. QED
        BY <3>1, <3>2
    <2>2. QED
      <3> HIDE DEF A
      <3> QED BY <1>4, <2>1 DEF LevelTable
  <1> DEFINE g == CHOOSE g : LevelTable(start, g)
             c == [k \in 0..MaxDepth |-> g[1..k]]
             L == [k \in 0..MaxDepth |-> Last(c[k])]
  <1>6. LevelTable(start, g)
    BY <1>5
  <1>7. c[0] = <<{start}>> /\ \A k \in 0..(MaxDepth - 1) : c[k + 1] = Append(c[k], Importing(Last(c[k])))
    <2> HIDE DEF g
    <2>1. 1..0 = {} /\ 1..0 \in SUBSET (1..MaxDepth)
      OBVIOUS
    <2>2. c[0] = <<{start}>>
      BY <1>0, <1>6, <2>1 DEF LevelTable
    <2>3. ASSUME NEW k \in 0..(MaxDepth - 1)
          PROVE  c[k + 1] = Append(c[k], Importing(Last(c[k])))
      <3>1. k \in Nat /\ 1..(k + 1) \in SUBSET (1..MaxDepth) /\ k + 1 \in 0..MaxDepth /\ k \in 0..MaxDepth
        BY <1>0
      <3>2. g[1..(k + 1)] = Append(g[1..k], Importing(Last(g[1..k])))
        <4> DEFINE t == 1..(k + 1)
        <4>1. Max(t) = k + 1 /\ t \ {k + 1} = 1..k /\ t # {}
          BY <3>1, UpTo
        <4>2. t \in SUBSET (1..MaxDepth)
          BY <3>1
        <4> HIDE DEF t
        <4>3. g[t] = Append(g[t \ {Max(t)}], Importing(Last(g[t \ {Max(t)}])))
          BY <1>6, <4>1, <4>2 DEF LevelTable
        <4>4. QED
          BY <4>1, <4>3 DEF t
      <3>3. QED
        BY <3>1, <3>2
    <2>4. QED
      BY <2>2, <2>3
  <1> HIDE DEF g, c
  <1>10. L[0] = {start}
    <2>1. L[0] = Last(c[0])
      BY <1>0
    <2>2. Last(<<{start}>>) = {start}
      BY DEF Last
    <2>3. QED
      BY <1>7, <2>1, <2>2
  <1> DEFINE P(k) == c[k] \in A /\ Len(c[k]) = k + 1 /\ \A j \in 0..k : c[k][j + 1] = L[j]
             Bad == {k \in 0..MaxDepth : ~P(k)}
  <1>8. ASSUME Bad # {} PROVE FALSE
    <2>1. PICK k \in Bad : \A m \in Bad : k <= m
      <3>1. Bad \in SUBSET Nat
        BY <1>0
      <3> HIDE DEF Bad
      <3>2. QED
        BY <1>8, <3>1, LeastNumber
    <2>2. k \in 0..MaxDepth /\ ~P(k)
      BY <2>1
    <2>3. CASE k = 0
      <3>2. P(0)
        BY <1>3, <1>7, <1>10
      <3>3. QED
        <4> HIDE DEF P
        <4> QED BY <2>2, <2>3, <3>2
    <2>4. CASE k # 0
      <3> DEFINE m == k - 1
      <3>1. m \in 0..(MaxDepth - 1) /\ m \in 0..MaxDepth /\ m < k /\ k = m + 1 /\ m \in Nat
        BY <1>0, <2>2, <2>4
      <3>2. P(m)
        <4> HIDE DEF P, m
        <4> QED BY <2>1, <3>1
      <3> HIDE DEF m
      <3>3. c[k] = Append(c[m], Importing(Last(c[m])))
        BY <1>7, <3>1
      <3>4. c[k] \in A /\ Len(c[k]) = k + 1
        BY <1>1, <3>1, <3>2, <3>3
      <3>5. \A j \in 0..m : c[k][j + 1] = L[j]
        <4>1. \A j \in 0..m : j + 1 \in 1..Len(c[m]) /\ c[m][j + 1] = L[j]
          <5> HIDE DEF L, A
          <5> QED BY <3>1, <3>2
        <4>2. \A i \in 1..Len(c[m]) : c[k][i] = c[m][i]
          <5> HIDE DEF L
          <5> QED BY <1>1, <3>2, <3>3
        <4>3. QED
          <5> HIDE DEF L
          <5> QED BY <4>1, <4>2
      <3>6. c[k][k + 1] = L[k]
        BY <2>2, <3>4 DEF Last
      <3>7. \A j \in 0..k : j \in 0..m \/ j = k
        BY <3>1
      <3>8. P(k)
        <4> HIDE DEF A, L
        <4> QED BY <3>4, <3>5, <3>6, <3>7
      <3>9. QED
        <4> HIDE DEF P
        <4> QED BY <2>2, <3>8
    <2>5. QED
      BY <2>3, <2>4
  <1>9. \A k \in 0..MaxDepth : P(k)
    <2> HIDE DEF P
    <2> QED BY <1>8
  <1>11. \A k \in 0..(MaxDepth - 1) : L[k + 1] = Importing(L[k])
    <2>1. TAKE k \in 0..(MaxDepth - 1)
    <2>2. k \in 0..MaxDepth /\ k + 1 \in 0..MaxDepth
      BY <1>0
    <2>3. P(k)
      <3> HIDE DEF P
      <3> QED BY <1>9, <2>2
    <2>4. c[k + 1] = Append(c[k], Importing(Last(c[k])))
      BY <1>7
    <2>5. Last(c[k + 1]) = Importing(Last(c[k]))
      BY <1>1, <2>3, <2>4 DEF Last
    <2>6. QED
      BY <2>2, <2>5
  <1>12. \A k \in 0..MaxDepth : Levels(start)[k + 1] = L[k]
    <2>1. Levels(start) = c[MaxDepth]
      BY <1>0, LevelsAre DEF g, c
    <2>2. P(MaxDepth)
      <3> HIDE DEF P
      <3> QED BY <1>0, <1>9
    <2>3. QED
      BY <2>1, <2>2
  <1>13. QED
    <2> HIDE DEF L
    <2> QED BY <1>10, <1>11, <1>12

(* The files from which an import reaches some, within so many imports. *)
LEMMA ReachChain ==
  ASSUME NEW files
  PROVE  \E r : /\ r[0] = files
                /\ \A k \in 0..(MaxDepth - 1) : r[k + 1] = r[k] \cup Importers(r[k])
                /\ Reach(files) = r[MaxDepth]
  <1> DEFINE F == files \cup {dep[1] : dep \in graph.deps}
             A == SUBSET F
             next(x) == x[1] \cup Importers(x[1])
             step == [x \in A \X Nat |-> next(x)]
             q == [n \in 1..MaxDepth |-> n]
  <1>0. MaxDepth \in Nat
    BY DEF MaxDepth
  <1>1. \A x : Importers(x) \in SUBSET F
    BY DEF Importers
  <1>2. step \in [A \X Nat -> A]
    <2>1. \A x \in A \X Nat : next(x) \in A
      BY <1>1
    <2>2. QED
      BY <2>1
  <1>3. files \in A
    OBVIOUS
  <1>4. PICK h \in [SUBSET (1..MaxDepth) -> A] : Tabulates(h, step, files, q, MaxDepth)
    <2>1. \A i \in 1..MaxDepth : q[i] \in Nat
      OBVIOUS
    <2> HIDE DEF step, q, A
    <2>2. IsFold(A, Nat, step, files, q, MaxDepth)
      BY <1>0, <1>2, <1>3, <2>1 DEF IsFold
    <2>3. HasTable(A, step, files, q, MaxDepth)
      BY <2>2, TableExists
    <2>4. QED
      BY <2>3 DEF HasTable
  <1>5. ReachTable(files, h)
    <2>1. ASSUME NEW t \in SUBSET (1..MaxDepth)
          PROVE  h[t] = IF t = {} THEN files ELSE h[t \ {Max(t)}] \cup Importers(h[t \ {Max(t)}])
      <3>1. CASE t = {}
        <4>1. h[t] = files
          <5> HIDE DEF step, q, A
          <5> QED BY <1>4, <3>1 DEF Tabulates
        <4>2. QED
          BY <3>1, <4>1
      <3>2. CASE t # {}
        <4>1. h[t] = step[h[t \ {Max(t)}], q[Max(t)]]
          <5> HIDE DEF step, q, A
          <5> QED BY <1>4, <3>2 DEF Tabulates
        <4>2. h[t \ {Max(t)}] \in A /\ q[Max(t)] \in Nat
          <5>1. Max(t) \in 1..MaxDepth
            BY <3>2, <1>0, SomeMax
          <5>2. h[t \ {Max(t)}] \in A
            <6> HIDE DEF A
            <6> QED BY <1>4
          <5>3. q[Max(t)] \in Nat
            BY <1>0, <5>1
          <5>4. QED
            <6> HIDE DEF A, q
            <6> QED BY <5>2, <5>3
        <4>3. QED
          <5> HIDE DEF q, A
          <5> QED BY <3>2, <4>1, <4>2
      <3>3. QED
        BY <3>1, <3>2
    <2>2. QED
      <3> HIDE DEF A
      <3> QED BY <1>4, <2>1 DEF ReachTable
  <1> DEFINE g == CHOOSE g : ReachTable(files, g)
             r == [k \in 0..MaxDepth |-> g[1..k]]
  <1>6. ReachTable(files, g)
    BY <1>5
  <1> HIDE DEF g
  <1>7. r[0] = files
    <2>1. 1..0 = {} /\ 1..0 \in SUBSET (1..MaxDepth)
      OBVIOUS
    <2>2. QED
      BY <1>0, <1>6, <2>1 DEF ReachTable
  <1>8. ASSUME NEW k \in 0..(MaxDepth - 1)
        PROVE  r[k + 1] = r[k] \cup Importers(r[k])
    <2> DEFINE t == 1..(k + 1)
    <2>1. k \in Nat /\ t \in SUBSET (1..MaxDepth) /\ k + 1 \in 0..MaxDepth /\ k \in 0..MaxDepth
      BY <1>0
    <2>2. Max(t) = k + 1 /\ t \ {k + 1} = 1..k /\ t # {}
      BY <2>1, UpTo
    <2> HIDE DEF t
    <2>3. g[t] = g[t \ {Max(t)}] \cup Importers(g[t \ {Max(t)}])
      BY <1>6, <2>1, <2>2 DEF ReachTable
    <2>4. QED
      BY <2>1, <2>2, <2>3 DEF t
  <1>9. Reach(files) = r[MaxDepth]
    BY <1>0 DEF Reach, g
  <1>10. QED
    <2> HIDE DEF r
    <2> QED BY <1>7, <1>8, <1>9

(* A file that a chain of imports connects to a touched one finds it. *)
LEMMA ChainFound ==
  ASSUME NEW start, NEW changed, start \in Reach(Touched(changed) \ {start})
  PROVE  ShortestImpactPath(start, changed) \in Nat /\ ShortestImpactPath(start, changed) > 0
  <1> DEFINE Goal == Touched(changed) \ {start}
  <1>0. MaxDepth \in Nat
    BY DEF MaxDepth
  <1>1. PICK L : /\ L[0] = {start}
                 /\ \A k \in 0..(MaxDepth - 1) : L[k + 1] = Importing(L[k])
                 /\ \A k \in 0..MaxDepth : Levels(start)[k + 1] = L[k]
    BY LevelChain
  <1>2. PICK r : /\ r[0] = Goal
                 /\ \A k \in 0..(MaxDepth - 1) : r[k + 1] = r[k] \cup Importers(r[k])
                 /\ Reach(Goal) = r[MaxDepth]
    <2> HIDE DEF Goal
    <2> QED BY ReachChain
  <1> HIDE DEF Goal
  <1> DEFINE Found == \E n \in 0..MaxDepth : \E f \in L[n] : f \in Goal
             P(k) == \A m \in 0..MaxDepth : \A x \in L[m] : (x \in r[k] /\ m + k <= MaxDepth) => Found
             Bad == {k \in 0..MaxDepth : ~P(k)}
  <1>3. ASSUME Bad # {} PROVE FALSE
    <2>1. PICK k \in Bad : \A m \in Bad : k <= m
      <3>1. Bad \in SUBSET Nat
        BY <1>0
      <3> HIDE DEF Bad
      <3>2. QED
        BY <1>3, <3>1, LeastNumber
    <2>2. k \in 0..MaxDepth /\ ~P(k)
      <3> HIDE DEF P
      <3> QED BY <2>1
    <2>3. CASE k = 0
      BY <1>2, <2>2, <2>3
    <2>4. CASE k # 0
      <3> DEFINE j == k - 1
      <3>1. j \in 0..(MaxDepth - 1) /\ j \in 0..MaxDepth /\ j < k /\ k = j + 1
        BY <1>0, <2>2, <2>4
      <3>2. P(j)
        <4> HIDE DEF P, j
        <4> QED BY <2>1, <3>1
      <3> HIDE DEF j
      <3>3. PICK m \in 0..MaxDepth : \E y \in L[m] : y \in r[k] /\ m + k <= MaxDepth /\ ~Found
        <4> HIDE DEF Found
        <4> QED BY <2>2
      <3>4. PICK x \in L[m] : x \in r[k] /\ m + k <= MaxDepth /\ ~Found
        BY <3>3
      <3>5. r[k] = r[j] \cup Importers(r[j])
        BY <1>2, <3>1
      <3>6. CASE x \in r[j]
        <4>1. m + j <= MaxDepth
          BY <1>0, <3>1, <3>4
        <4>2. QED
          <5> HIDE DEF Found
          <5> QED BY <3>2, <3>4, <3>6, <4>1
      <3>7. CASE x \in Importers(r[j])
        <4>1. PICK dep \in graph.deps : dep[1] = x /\ dep[2] \in r[j]
          BY <3>7 DEF Importers
        <4>2. m \in 0..(MaxDepth - 1) /\ m + 1 \in 0..MaxDepth /\ (m + 1) + j <= MaxDepth
          BY <1>0, <3>1, <3>4
        <4>3. L[m + 1] = Importing(L[m])
          BY <1>1, <4>2
        <4>4. dep[2] \in Importing(L[m])
          BY <3>4, <4>1 DEF Importing
        <4>5. dep[2] \in L[m + 1]
          BY <4>3, <4>4
        <4>6. QED
          <5> HIDE DEF Found
          <5> QED BY <3>2, <3>4, <4>1, <4>2, <4>5
      <3>8. QED
        BY <3>4, <3>5, <3>6, <3>7
    <2>5. QED
      BY <2>3, <2>4
  <1>4. P(MaxDepth)
    <2> HIDE DEF P
    <2> QED BY <1>0, <1>3
  <1>5. start \in r[MaxDepth] /\ start \in L[0] /\ 0 \in 0..MaxDepth
    BY <1>0, <1>1, <1>2 DEF Goal
  <1>6. Found
    <2> HIDE DEF Found
    <2> QED BY <1>0, <1>4, <1>5
  <1>7. PICK n \in 0..MaxDepth : \E f \in L[n] : f \in Goal
    BY <1>6
  <1>8. PICK f \in L[n] : f \in Touched(changed) /\ f # start
    BY <1>7 DEF Goal
  <1>9. n \in 1..MaxDepth
    BY <1>0, <1>1, <1>8
  <1> DEFINE hits == {i \in 1..MaxDepth : \E e \in Levels(start)[i + 1] \ {start} : \E c \in changed : FileMatches(e, c)}
  <1>10. n \in hits
    <2>1. \E c \in changed : FileMatches(f, c)
      BY <1>8 DEF Touched
    <2>2. f \in Levels(start)[n + 1] \ {start}
      BY <1>1, <1>8
    <2>3. QED
      BY <1>9, <2>1, <2>2
  <1>11. hits \in SUBSET Nat
    BY <1>0
  <1>12. \A i \in hits : i > 0
    BY <1>0
  <1>13. ShortestImpactPath(start, changed) = IF hits = {} THEN 0 ELSE CHOOSE i \in hits : \A m \in hits : i <= m
    BY DEF ShortestImpactPath
  <1> HIDE DEF hits
  <1>14. \E i \in hits : \A m \in hits : i <= m
    BY <1>10, <1>11, LeastNumber
  <1>15. (CHOOSE i \in hits : \A m \in hits : i <= m) \in hits
    BY <1>14
  <1>16. QED
    BY <1>10, <1>11, <1>12, <1>13, <1>15

(* Scores are integers. *)
LEMMA ScoreType ==
  ASSUME NEW test \in Tests, NEW request \in Requests
  PROVE  ImpactScore(test, request) \in Int
  <1>1. test.failures \in Nat
    BY SelectionAssumption
  <1>2. \A score \in Int : Clamped(score) \in Int
    BY DEF Clamped
  <1>3. \A score \in Int : AdjustTestSignals(score, test, request) \in Int
    BY <1>1, <1>2 DEF AdjustTestSignals
  <1>4. HeuristicScore(test, request) \in Int
    BY <1>2 DEF HeuristicScore
  <1>5. ShortestImpactPath(test.file, request.changed) \in Int
    <2> DEFINE hits == {n \in 1..MaxDepth : \E f \in Levels(test.file)[n + 1] \ {test.file} : \E c \in request.changed : FileMatches(f, c)}
    <2> DEFINE nearest == CHOOSE n \in hits : \A m \in hits : n <= m
    <2>1. ShortestImpactPath(test.file, request.changed) = IF hits = {} THEN 0 ELSE nearest
      BY DEF ShortestImpactPath
    <2>2. hits \in SUBSET Nat
      BY DEF MaxDepth
    <2> HIDE DEF hits
    <2>3. hits # {} => nearest \in hits
      <3>1. hits # {} => \E n \in hits : \A m \in hits : n <= m
        BY <2>2, LeastNumber
      <3>2. QED
        BY <3>1
    <2> HIDE DEF nearest
    <2>4. CASE hits = {}
      BY <2>1, <2>4
    <2>5. CASE hits # {}
      <3>1. nearest \in Nat
        BY <2>2, <2>3, <2>5
      <3>2. ShortestImpactPath(test.file, request.changed) = nearest
        BY <2>1, <2>5
      <3>3. QED
        BY <3>1, <3>2
    <2>6. QED
      BY <2>4, <2>5
  <1> DEFINE depth == ShortestImpactPath(test.file, request.changed)
             near == IF 98 - 8 * (depth - 1) > 58 THEN 98 - 8 * (depth - 1) ELSE 58
  <1>6. near \in Int
    <2>1. depth \in Int
      BY <1>5
    <2> HIDE DEF depth
    <2>2. QED
      BY <2>1
  <1>7. 20 + 3 * test.failures \in Int /\ 100 \in Int
    BY <1>1
  <1>8. ImpactScore(test, request) \in
           {Clamped(20 + 3 * test.failures), AdjustTestSignals(100, test, request),
            AdjustTestSignals(near, test, request), HeuristicScore(test, request)}
    BY DEF ImpactScore
  <1>9. QED
    <2> HIDE DEF near
    <2> QED BY <1>2, <1>3, <1>4, <1>6, <1>7, <1>8

(* Of a test that a change touches, the score is at least the floor, where
   there are changes and a graph. *)
LEMMA AffectedScores ==
  ASSUME NEW tests \in SUBSET Tests, NEW request \in Requests, NEW test \in Affected(tests, request.changed),
         request.changed # {}, graph.stored
  PROVE  test \in tests /\ ImpactScore(test, request) >= Floor
  <1> DEFINE changed == request.changed
             direct == \E source \in Covers(test), c \in changed : FileMatches(source, c)
             depth == ShortestImpactPath(test.file, changed)
  <1>1. test \in tests /\ (direct \/ test.file \in Reach(Touched(changed) \ {test.file}))
    BY AffectedAre
  <1>2. test.failures \in Nat
    BY <1>1, SelectionAssumption
  <1>3. \A score \in Nat : score >= 58 => AdjustTestSignals(score, test, request) >= Floor
    BY <1>2 DEF AdjustTestSignals, Clamped, Floor
  <1>4. CASE direct
    <2>1. ImpactScore(test, request) = AdjustTestSignals(100, test, request)
      BY <1>4 DEF ImpactScore
    <2>2. QED
      BY <1>1, <1>3, <2>1
  <1>5. CASE ~direct
    <2>1. depth \in Nat /\ depth > 0
      BY <1>1, <1>5, ChainFound
    <2> DEFINE score == IF 98 - 8 * (depth - 1) > 58 THEN 98 - 8 * (depth - 1) ELSE 58
    <2>2. ImpactScore(test, request) = AdjustTestSignals(score, test, request)
      BY <1>5, <2>1 DEF ImpactScore
    <2> HIDE DEF depth
    <2>3. score \in Nat /\ score >= 58
      BY <2>1
    <2> HIDE DEF score
    <2>4. QED
      BY <1>1, <1>3, <2>2, <2>3
  <1>6. QED
    BY <1>4, <1>5

(* Where nothing is left out for the limit, the best are all. *)
LEMMA BestAreAll ==
  ASSUME NEW tests, IsFiniteSet(tests), NEW request \in Requests, NEW best \in Best(tests, request),
         Cardinality(tests) - Cardinality(best) = 0
  PROVE  best = tests
  <1>1. request.limit \in Nat /\ Cardinality(tests) \in Nat
    BY SelectionAssumption, FS_CardinalityType
  <1>2. CASE Cardinality(tests) <= request.limit
    BY <1>2 DEF Best
  <1>3. CASE ~(Cardinality(tests) <= request.limit)
    <2>1. Cardinality(best) = request.limit
      BY <1>3 DEF Best, kSubset
    <2>2. QED
      BY <1>1, <1>3, <2>1
  <1>4. QED
    BY <1>2, <1>3

(* What is listed is some of the known tests, all of them when they fit the
   list, and what is answered covers. *)
Listed ==
    /\ selection.known \in SUBSET Tests /\ IsFiniteSet(selection.known)
    /\ selection.listed \in SUBSET selection.known
    /\ Cardinality(selection.known) <= ListLimit => selection.listed = selection.known
    /\ selection.request \in Requests

SelectionInv ==
    /\ known \in SUBSET Tests /\ IsFiniteSet(known)
    /\ selection = [at |-> selection.at, known |-> selection.known, listed |-> selection.listed,
                    request |-> selection.request, answer |-> selection.answer, due |-> selection.due]
    /\ selection.at = "listed" => Listed
    /\ SelectionCovers

LEMMA SelectionStarts ==
  ASSUME SelectionInit
  PROVE  SelectionInv
  BY FS_EmptySet DEF SelectionInit, SelectionInv, NoSelection, SelectionCovers

LEMMA ListKeeps ==
  ASSUME SelectionInv, NEW request \in Requests, ListForSelection(request)
  PROVE  SelectionInv'
  <1>1. PICK listed \in (IF Cardinality(known) <= ListLimit THEN {known} ELSE kSubset(ListLimit, known)) :
           selection' = [NoSelection EXCEPT !.at = "listed", !.known = known, !.listed = listed, !.request = request]
    BY DEF ListForSelection
  <1>2. listed \in SUBSET known /\ (Cardinality(known) <= ListLimit => listed = known)
    BY <1>1 DEF kSubset
  <1>3. selection' = [at |-> "listed", known |-> known, listed |-> listed, request |-> request,
                      answer |-> <<>>, due |-> {}]
    BY <1>1 DEF NoSelection
  <1>4. UNCHANGED known
    BY DEF ListForSelection
  <1>5. QED
    BY <1>2, <1>3, <1>4 DEF SelectionInv, Listed, SelectionCovers

LEMMA SelectCovers ==
  ASSUME SelectionInv, Select
  PROVE  SelectionInv'
  <1> DEFINE request == selection.request
             fitting == OfFramework(selection.known, request)
             candidates == OfFramework(selection.listed, request)
             scored == {t \in candidates : ImpactScore(t, request) >= request.minimum}
             full == FullSuiteRequired(request.changed, candidates)
             left(best) == IF full /\ ~request.unsafe THEN 0 ELSE Cardinality(scored) - Cardinality(best)
             due == Affected(fitting, request.changed)
  <1>1. /\ selection.at = "listed" /\ request \in Requests
        /\ fitting \in SUBSET Tests /\ candidates \in SUBSET fitting /\ IsFiniteSet(candidates)
        /\ Cardinality(selection.known) <= ListLimit => candidates = fitting
    <2>1. selection.at = "listed" /\ Listed
      BY DEF Select, SelectionInv
    <2>2. candidates \in SUBSET selection.known
      BY <2>1 DEF Listed, OfFramework
    <2>3. QED
      BY <2>1, <2>2, FS_Subset DEF Listed, OfFramework
  <1>2. PICK best \in (IF full /\ ~request.unsafe THEN {candidates} ELSE Best(scored, request)) :
           selection' = [selection EXCEPT !.at = "done",
              !.answer = [selected |-> best, candidates |-> candidates, safe |-> ~full, skipped |-> left(best)],
              !.due = due]
    BY DEF Select
  <1>3. selection = [at |-> selection.at, known |-> selection.known, listed |-> selection.listed, request |-> request,
                     answer |-> selection.answer, due |-> selection.due]
    BY DEF SelectionInv
  <1>4. IsFiniteSet(scored)
    BY <1>1, FS_Subset
  <1>5. best \in SUBSET candidates
    <2>1. CASE full /\ ~request.unsafe
      BY <1>2, <2>1
    <2>2. CASE ~(full /\ ~request.unsafe)
      BY <1>2, <2>2 DEF Best, kSubset
    <2>3. QED
      BY <2>1, <2>2
  <1>6. ASSUME ~full, left(best) = 0, request.minimum <= Floor
        PROVE  due \cap candidates \subseteq best
    <2>1. best \in Best(scored, request) /\ Cardinality(scored) - Cardinality(best) = 0
      BY <1>2, <1>6
    <2>2. best = scored
      <3> HIDE DEF scored, request
      <3> QED BY <1>1, <1>4, <2>1, BestAreAll
    <2>3. request.changed # {} /\ graph.stored
      BY <1>6 DEF FullSuiteRequired
    <2>4. ASSUME NEW test \in due \cap candidates
          PROVE  test \in scored
      <3>1. test \in Tests /\ ImpactScore(test, request) >= Floor
        <4> HIDE DEF candidates, fitting, request
        <4> QED BY <1>1, <2>3, <2>4, AffectedScores
      <3>2. ImpactScore(test, request) >= request.minimum
        <4>1. ImpactScore(test, request) \in Int
          BY <3>1, <1>1, ScoreType
        <4>2. request.minimum \in Int
          BY <1>1, SelectionAssumption
        <4>3. QED
          <5> HIDE DEF request
          <5> QED BY <1>6, <3>1, <4>1, <4>2 DEF Floor
      <3>3. QED
        BY <2>4, <3>2
    <2>5. QED
      BY <2>2, <2>4
  <1>7. ASSUME full, ~request.unsafe
        PROVE  best = candidates
    BY <1>2, <1>7
  <1> HIDE DEF full, due, candidates, left
  <1> DEFINE answer == [selected |-> best, candidates |-> candidates, safe |-> ~full, skipped |-> left(best)]
  <1>8. selection' = [at |-> "done", known |-> selection.known, listed |-> selection.listed, request |-> request,
                      answer |-> answer, due |-> due]
    BY <1>2, <1>3
  <1>9. SelectionCovers'
    <2>1. /\ selection'.answer = answer /\ selection'.due = due /\ selection'.request = request
          /\ selection'.known = selection.known
      BY <1>8
    <2>2. answer.selected = best /\ answer.candidates = candidates /\ answer.skipped = left(best) /\ (answer.safe <=> ~full)
      OBVIOUS
    <2>3. OfFramework(selection'.known, selection'.request) = fitting
      BY <2>1 DEF OfFramework
    <2> HIDE DEF answer, request, fitting
    <2>4. QED
      BY <1>1, <1>5, <1>6, <1>7, <2>1, <2>2, <2>3 DEF SelectionCovers
  <1>10. UNCHANGED known
    BY DEF Select
  <1>11. QED
    BY <1>8, <1>9, <1>10 DEF SelectionInv

LEMMA SelectionKept ==
  ASSUME SelectionInv, SelectionStep \/ UNCHANGED selectionVars
  PROVE  SelectionInv'
  <1>1. CASE Select
    BY <1>1, SelectCovers
  <1>2. CASE \E test \in Tests : RecordTest(test)
    BY <1>2, FS_AddElement DEF RecordTest, SelectionInv, Listed, SelectionCovers
  <1>3. CASE UNCHANGED <<known, selection>>
    BY <1>3 DEF SelectionInv, Listed, SelectionCovers
  <1>4. CASE \E request \in Requests : ListForSelection(request)
    BY <1>4, ListKeeps
  <1>5. CASE Answered
    BY <1>5 DEF Answered, SelectionInv, SelectionCovers, NoSelection
  <1>6. QED
    BY <1>1, <1>2, <1>3, <1>4, <1>5 DEF SelectionStep, SaveGraph, MergeCoverage, LoadForMerge, selectionVars

-----------------------------------------------------------------------------
(* Sums and finite sets *)

(* Of the sets in F, which are finite, one holds no other. *)
LEMMA SmallestSet ==
  ASSUME NEW S, IsFiniteSet(S), NEW F \in SUBSET (SUBSET S), F # {}
  PROVE  \E T \in F : \A U \in F : U \subseteq T => U = T
  <1>1. IsWellFoundedOn(StrictSubsetOrdering(S), FiniteSubsetsOf(S))
    BY FS_StrictSubsetOrderingWellFounded
  <1>2. FiniteSubsetsOf(S) = SUBSET S
    BY FS_FiniteSubsetsOfFinite
  <1>3. PICK T \in F : \A U \in F : ~(<<U, T>> \in StrictSubsetOrdering(S))
    BY <1>1, <1>2, WFMin
  <1>4. QED
    BY <1>3 DEF StrictSubsetOrdering

(* What Total computes with: a function that adds up the weights of any of the
   sets of S, one element after another. *)
Sums(g, S) == g = [s \in SUBSET S |-> IF s = {} THEN 0 ELSE (CHOOSE x \in s : TRUE)[2] + g[s \ {CHOOSE x \in s : TRUE}]]

(* Total is the value of such a function. *)
LEMMA TotalIs == \A S : Total(S) = (CHOOSE g : Sums(g, S))[S]
  BY DEF Total, MapThenSumSet, MapThenFoldSet, Sums

(* What such a function does with one set. *)
LEMMA SumsEquation ==
  ASSUME NEW S, NEW g, Sums(g, S)
  PROVE  /\ g[{}] = 0
         /\ \A s \in SUBSET S : s # {} => g[s] = (CHOOSE x \in s : TRUE)[2] + g[s \ {CHOOSE x \in s : TRUE}]
  BY DEF Sums

(* Two of them agree wherever both are defined, *)
LEMMA SumsAgree ==
  ASSUME NEW S, IsFiniteSet(S), NEW R, NEW g, NEW h, Sums(g, S), Sums(h, R), NEW s \in SUBSET S, s \in SUBSET R
  PROVE  g[s] = h[s]
  <1> DEFINE F == {T \in SUBSET S : T \in SUBSET R /\ g[T] # h[T]}
  <1>1. ASSUME F # {} PROVE FALSE
    <2>1. F \in SUBSET (SUBSET S)
      OBVIOUS
    <2>2. PICK T \in F : \A U \in F : U \subseteq T => U = T
      <3> HIDE DEF F
      <3> QED BY <1>1, <2>1, SmallestSet
    <2> DEFINE c == CHOOSE x \in T : TRUE
    <2>3. T # {}
      <3>1. g[{}] = 0 /\ h[{}] = 0
        BY SumsEquation
      <3>2. QED
        BY <2>2, <3>1
    <2>4. c \in T
      BY <2>3
    <2>5. T \ {c} \notin F
      BY <2>2, <2>4
    <2>6. g[T \ {c}] = h[T \ {c}]
      BY <2>5
    <2>7. g[T] = c[2] + g[T \ {c}] /\ h[T] = c[2] + h[T \ {c}]
      <3>1. T \in SUBSET S /\ T \in SUBSET R
        BY <2>2
      <3>2. g[T] = c[2] + g[T \ {c}]
        BY <2>3, <3>1 DEF Sums
      <3>3. h[T] = c[2] + h[T \ {c}]
        BY <2>3, <3>1 DEF Sums
      <3>4. QED
        BY <3>2, <3>3
    <2>8. QED
      BY <2>6, <2>7
  <1>2. QED
    BY <1>1

(* and every finite set has one. *)
LEMMA SumsExist ==
  ASSUME NEW S, IsFiniteSet(S)
  PROVE  \E g : Sums(g, S)
  <1> DEFINE F == {T \in SUBSET S : ~\E g : Sums(g, T)}
  <1>1. ASSUME F # {} PROVE FALSE
    <2>1. F \in SUBSET (SUBSET S)
      OBVIOUS
    <2>2. PICK T \in F : \A U \in F : U \subseteq T => U = T
      <3> HIDE DEF F
      <3> QED BY <1>1, <2>1, SmallestSet
    <2> DEFINE G(U) == CHOOSE g : Sums(g, U)
               c(U) == CHOOSE x \in U : TRUE
               V(U) == IF U = {} THEN 0 ELSE c(U)[2] + G(U \ {c(U)})[U \ {c(U)}]
               h == [s \in SUBSET T |-> V(s)]
    <2>3. \A U \in SUBSET T : U # {} => c(U) \in U
      OBVIOUS
    <2>4. \A U \in SUBSET T : U # T => Sums(G(U), U)
      BY <2>2
    <2>5. \A U \in SUBSET T : IsFiniteSet(U)
      BY FS_Subset
    <2>6. \A U \in SUBSET T : U # T => G(U)[U] = h[U]
      <3>0. T # {} => G({})[{}] = h[{}]
        <4>1. T # {} => Sums(G({}), {})
          BY <2>4
        <4>2. T # {} => G({})[{}] = 0
          <5> HIDE DEF G
          <5> QED BY <4>1, SumsEquation
        <4>3. QED
          BY <4>2
      <3>1. SUFFICES ASSUME NEW U \in SUBSET T, U # T, U # {}
                     PROVE  G(U)[U] = h[U]
        <4> HIDE DEF G, h
        <4> QED BY <3>0
      <3> DEFINE W == U \ {c(U)}
      <3>2. G(U)[U] = c(U)[2] + G(U)[W]
        BY <2>4, <3>1, SumsEquation
      <3>3. W # T /\ W \in SUBSET T /\ W \in SUBSET U
        BY <3>1
      <3>4. Sums(G(W), W) /\ Sums(G(U), U) /\ IsFiniteSet(U)
        BY <2>4, <2>5, <3>1, <3>3
      <3>5. G(U)[W] = G(W)[W]
        <4> HIDE DEF W, G
        <4> QED BY <3>3, <3>4, SumsAgree
      <3>6. QED
        BY <3>1, <3>2, <3>5
    <2>7. Sums(h, T)
      <3>1. \A s \in SUBSET T : V(s) = IF s = {} THEN 0 ELSE c(s)[2] + h[s \ {c(s)}]
        <4>1. TAKE s \in SUBSET T
        <4>2. CASE s = {}
          BY <4>2
        <4>3. CASE s # {}
          <5>1. s \ {c(s)} # T /\ s \ {c(s)} \in SUBSET T
            BY <2>3, <4>3
          <5>2. G(s \ {c(s)})[s \ {c(s)}] = h[s \ {c(s)}]
            <6> HIDE DEF G, h, c
            <6> QED BY <2>6, <5>1
          <5> HIDE DEF G, h, c
          <5>3. QED
            BY <4>3, <5>2
        <4>4. QED
          BY <4>2, <4>3
      <3>2. h = [s \in SUBSET T |-> IF s = {} THEN 0 ELSE c(s)[2] + h[s \ {c(s)}]]
        <4> HIDE DEF V, c
        <4> QED BY <3>1
      <3>3. QED
        BY <3>2 DEF Sums
    <2>8. QED
      BY <2>2, <2>7
  <1>2. QED
    BY <1>1

(* So a total is that of the chosen element and of the rest, *)
LEMMA TotalEquation ==
  ASSUME NEW S, IsFiniteSet(S)
  PROVE  /\ Total({}) = 0
         /\ S # {} => Total(S) = (CHOOSE x \in S : TRUE)[2] + Total(S \ {CHOOSE x \in S : TRUE})
  <1> DEFINE G(U) == CHOOSE g : Sums(g, U)
             c == CHOOSE x \in S : TRUE
             W == S \ {c}
  <1>1. IsFiniteSet(W) /\ IsFiniteSet({}) /\ W \in SUBSET S
    BY FS_Subset, FS_EmptySet
  <1>2. Sums(G(S), S) /\ Sums(G(W), W) /\ Sums(G({}), {})
    <2> HIDE DEF W
    <2> QED BY <1>1, SumsExist
  <1>3. Total(S) = G(S)[S] /\ Total(W) = G(W)[W] /\ Total({}) = G({})[{}]
    <2> HIDE DEF W
    <2> QED BY TotalIs
  <1>4. G(S)[W] = G(W)[W]
    <2> HIDE DEF W, G
    <2> QED BY <1>1, <1>2, SumsAgree
  <1>5. G({})[{}] = 0
    BY <1>2, SumsEquation
  <1>6. S # {} => G(S)[S] = c[2] + G(S)[W]
    BY <1>2, SumsEquation
  <1>7. QED
    BY <1>3, <1>4, <1>5, <1>6

(* an integer, *)
LEMMA TotalType ==
  ASSUME NEW S, IsFiniteSet(S), \A x \in S : x[2] \in Int
  PROVE  Total(S) \in Int
  <1> DEFINE F == {T \in SUBSET S : Total(T) \notin Int}
  <1>1. ASSUME F # {} PROVE FALSE
    <2>1. F \in SUBSET (SUBSET S)
      OBVIOUS
    <2>2. PICK T \in F : \A U \in F : U \subseteq T => U = T
      <3> HIDE DEF F
      <3> QED BY <1>1, <2>1, SmallestSet
    <2> DEFINE c == CHOOSE x \in T : TRUE
    <2>3. IsFiniteSet(T)
      BY FS_Subset
    <2>4. T # {}
      <3>1. Total({}) = 0
        BY TotalEquation, FS_EmptySet
      <3>2. QED
        BY <2>2, <3>1
    <2>5. c \in T /\ c[2] \in Int
      BY <2>4
    <2>6. T \ {c} \in SUBSET S /\ T \ {c} \notin F
      BY <2>2, <2>5
    <2>7. Total(T \ {c}) \in Int
      BY <2>6
    <2>8. Total(T) = c[2] + Total(T \ {c})
      BY <2>3, <2>4, TotalEquation
    <2>9. Total(T) \in Int
      BY <2>5, <2>7, <2>8
    <2>10. QED
      BY <2>2, <2>9
  <1>2. QED
    BY <1>1

(* and that of any element and of the rest. *)
LEMMA TotalTakesOut ==
  ASSUME NEW S, IsFiniteSet(S), \A x \in S : x[2] \in Int, NEW x \in S
  PROVE  Total(S) = x[2] + Total(S \ {x})
  <1> DEFINE P(T) == \A y \in T : Total(T) = y[2] + Total(T \ {y})
             F == {T \in SUBSET S : ~P(T)}
  <1>1. ASSUME F # {} PROVE FALSE
    <2>1. F \in SUBSET (SUBSET S)
      OBVIOUS
    <2>2. PICK T \in F : \A U \in F : U \subseteq T => U = T
      <3> HIDE DEF F
      <3> QED BY <1>1, <2>1, SmallestSet
    <2>3. PICK y \in T : Total(T) # y[2] + Total(T \ {y})
      BY <2>2
    <2> DEFINE c == CHOOSE z \in T : TRUE
               R == T \ {c, y}
    <2>4. \A U \in SUBSET T : IsFiniteSet(U) /\ \A z \in U : z[2] \in Int
      BY FS_Subset
    <2>5. c \in T /\ c[2] \in Int /\ y[2] \in Int
      BY <2>3
    <2>6. Total(T) = c[2] + Total(T \ {c})
      BY <2>4, <2>3, TotalEquation
    <2>7. y # c
      BY <2>3, <2>6
    <2>8. \A z \in T : P(T \ {z})
      <3>1. TAKE z \in T
      <3>2. T \ {z} \in SUBSET S /\ T \ {z} \notin F
        BY <2>2
      <3>3. QED
        BY <3>2
    <2>9. y \in T \ {c} /\ c \in T \ {y} /\ (T \ {c}) \ {y} = R /\ (T \ {y}) \ {c} = R
      BY <2>3, <2>5, <2>7
    <2>10. Total(T \ {c}) = y[2] + Total(R) /\ Total(T \ {y}) = c[2] + Total(R)
      <3> HIDE DEF c, R
      <3> QED BY <2>3, <2>5, <2>8, <2>9
    <2>11. Total(R) \in Int
      <3>1. IsFiniteSet(R) /\ \A z \in R : z[2] \in Int
        BY <2>4
      <3> HIDE DEF R
      <3>2. QED
        BY <3>1, TotalType
    <2>12. Total(T) = y[2] + Total(T \ {y})
      <3> HIDE DEF c, R
      <3> QED BY <2>5, <2>6, <2>10, <2>11
    <2>13. QED
      BY <2>3, <2>12
  <1>2. P(S)
    BY <1>1
  <1>3. QED
    BY <1>2

(* What is added to a sum with no sign against it does not make it less; what
   has none of it leaves it. *)
LEMMA TotalGrows ==
  ASSUME NEW S, IsFiniteSet(S), \A x \in S : x[2] \in Int,
         NEW R \in SUBSET S, \A x \in S \ R : x[2] >= 0
  PROVE  Total(R) <= Total(S) /\ Total(R) \in Int /\ Total(S) \in Int
  <1> DEFINE F == {T \in SUBSET S : R \subseteq T /\ ~(Total(R) <= Total(T))}
  <1>1. ASSUME F # {} PROVE FALSE
    <2>1. F \in SUBSET (SUBSET S)
      OBVIOUS
    <2>2. PICK T \in F : \A U \in F : U \subseteq T => U = T
      <3> HIDE DEF F
      <3> QED BY <1>1, <2>1, SmallestSet
    <2>3. \A U \in SUBSET S : Total(U) \in Int
      <3>1. TAKE U \in SUBSET S
      <3>2. IsFiniteSet(U) /\ \A x \in U : x[2] \in Int
        BY FS_Subset
      <3>3. QED
        BY <3>2, TotalType
    <2>4. T # R
      BY <2>2, <2>3
    <2>5. PICK y \in T \ R : TRUE
      BY <2>2, <2>4
    <2>6. IsFiniteSet(T) /\ (\A z \in T : z[2] \in Int) /\ y \in T
      BY <2>5, FS_Subset
    <2>7. Total(T) = y[2] + Total(T \ {y})
      BY <2>6, TotalTakesOut
    <2>8. T \ {y} \in SUBSET S /\ R \subseteq T \ {y} /\ T \ {y} \notin F
      BY <2>2, <2>5
    <2>9. Total(R) <= Total(T \ {y})
      BY <2>8
    <2>10. y[2] \in Int /\ y[2] >= 0
      BY <2>5
    <2>11. QED
      BY <2>2, <2>3, <2>7, <2>8, <2>9, <2>10
  <1>2. IsFiniteSet(R) /\ \A x \in R : x[2] \in Int
    BY FS_Subset
  <1>3. QED
    BY <1>1, <1>2, TotalType

(* What a function gives of finitely many arguments is finite. *)
LEMMA FiniteImage ==
  ASSUME NEW f, IsFiniteSet(DOMAIN f)
  PROVE  IsFiniteSet({f[x] : x \in DOMAIN f})
  <1> DEFINE T == {f[x] : x \in DOMAIN f}
             h == [x \in DOMAIN f |-> f[x]]
  <1>1. h \in Surjection(DOMAIN f, T)
    BY DEF Surjection
  <1> HIDE DEF T, h
  <1>2. IsFiniteSet(T)
    BY <1>1, FS_Surjection
  <1>3. QED
    BY <1>2 DEF T

(* Finitely many rules have a heaviest one. *)
LEMMA SomeHeaviest ==
  ASSUME NEW rules, IsFiniteSet(rules), rules # {}, \A r \in rules : r.weight \in Int
  PROVE  Heaviest(rules) \in rules
  <1> DEFINE Some(T) == \E r \in T : \A s \in T : Size(s.weight) <= Size(r.weight)
             F == {T \in SUBSET rules : T # {} /\ ~Some(T)}
  <1>1. ASSUME F # {} PROVE FALSE
    <2>1. F \in SUBSET (SUBSET rules)
      OBVIOUS
    <2>2. PICK T \in F : \A U \in F : U \subseteq T => U = T
      <3> HIDE DEF F
      <3> QED BY <1>1, <2>1, SmallestSet
    <2>3. PICK x \in T : TRUE
      BY <2>2
    <2>4. T \ {x} \in SUBSET rules /\ T \ {x} \notin F
      BY <2>2, <2>3
    <2>5. \A r \in T : Size(r.weight) \in Int
      BY <2>2 DEF Size
    <2>6. CASE T \ {x} = {}
      <3>1. \A s \in T : s = x
        BY <2>6
      <3>2. Some(T)
        BY <2>3, <2>5, <3>1
      <3>3. QED
        BY <2>2, <3>2
    <2>7. CASE T \ {x} # {}
      <3>1. PICK r \in T \ {x} : \A s \in T \ {x} : Size(s.weight) <= Size(r.weight)
        BY <2>4, <2>7
      <3>2. Some(T)
        <4>1. CASE Size(x.weight) <= Size(r.weight)
          BY <3>1, <4>1
        <4>2. CASE Size(r.weight) <= Size(x.weight)
          BY <2>3, <2>5, <3>1, <4>2
        <4>3. QED
          BY <2>3, <2>5, <4>1, <4>2
      <3>3. QED
        BY <2>2, <3>2
    <2>8. QED
      BY <2>6, <2>7
  <1>2. Some(rules)
    BY <1>1
  <1>3. QED
    BY <1>2 DEF Heaviest

(* What is told of the failure itself: finitely many signals with weights. *)
Inner(f) == RuleSignals(f.rules) \cup ChangeSignals(f.change) \cup If(f.passedBefore, <<"history", 15>>)

LEMMA InnerSignals ==
  ASSUME NEW f, IsFiniteSet(f.rules), \A r \in f.rules : r.weight \in Int
  PROVE  IsFiniteSet(Inner(f)) /\ \A s \in Inner(f) : s[2] \in Int
  <1> DEFINE groups == {r.group : r \in f.rules}
             Of(g) == {s \in f.rules : s.group = g}
             best == [g \in groups |-> <<g, Heaviest(Of(g)).weight>>]
             name == [r \in f.rules |-> r.group]
  <1>1. IsFiniteSet(groups)
    <2>1. DOMAIN name = f.rules /\ groups = {name[r] : r \in f.rules}
      OBVIOUS
    <2> HIDE DEF name, groups
    <2>2. QED
      BY <2>1, FiniteImage
  <1>2. RuleSignals(f.rules) = {best[g] : g \in groups}
    BY DEF RuleSignals
  <1>3. IsFiniteSet(RuleSignals(f.rules))
    <2>1. DOMAIN best = groups
      OBVIOUS
    <2> HIDE DEF best, groups
    <2>2. QED
      BY <1>1, <1>2, <2>1, FiniteImage
  <1>4. \A s \in RuleSignals(f.rules) : s[2] \in Int
    <2>1. ASSUME NEW g \in groups
          PROVE  best[g][2] \in Int
      <3>1. Of(g) # {} /\ Of(g) \in SUBSET f.rules
        OBVIOUS
      <3>2. IsFiniteSet(Of(g)) /\ \A r \in Of(g) : r.weight \in Int
        BY <3>1, FS_Subset
      <3>3. Heaviest(Of(g)) \in Of(g)
        <4> HIDE DEF Of
        <4> QED BY <3>1, <3>2, SomeHeaviest
      <3>4. QED
        BY <3>2, <3>3
    <2>2. QED
      BY <1>2, <2>1
  <1>5. IsFiniteSet(ChangeSignals(f.change)) /\ \A s \in ChangeSignals(f.change) : s[2] \in Int
    <2>1. \A x, y : IsFiniteSet({x, y})
      <3>1. TAKE x, y
      <3>2. IsFiniteSet({x}) /\ IsFiniteSet({y})
        BY FS_Singleton
      <3>3. IsFiniteSet({x} \cup {y})
        BY <3>2, FS_Union
      <3>4. {x, y} = {x} \cup {y}
        OBVIOUS
      <3>5. QED
        BY <3>3, <3>4
    <2>2. IsFiniteSet({})
      BY FS_EmptySet
    <2>3. ChangeSignals(f.change) = {} \/ \E m \in {-18, 8}, n \in {-20, 8} :
             ChangeSignals(f.change) = {<<"workflow", m>>, <<"dependency", n>>}
      BY DEF ChangeSignals
    <2>4. IsFiniteSet(ChangeSignals(f.change))
      <3>1. CASE ChangeSignals(f.change) = {}
        BY <2>2, <3>1
      <3>2. CASE ChangeSignals(f.change) # {}
        <4>1. PICK m \in {-18, 8}, n \in {-20, 8} : ChangeSignals(f.change) = {<<"workflow", m>>, <<"dependency", n>>}
          BY <2>3, <3>2
        <4>2. IsFiniteSet({<<"workflow", m>>, <<"dependency", n>>})
          BY <2>1
        <4>3. QED
          BY <4>1, <4>2, Zenon
      <3>3. QED
        BY <3>1, <3>2
    <2>5. \A s \in ChangeSignals(f.change) : s[2] \in Int
      BY <2>3
    <2>6. QED
      BY <2>4, <2>5
  <1>6. IsFiniteSet(If(f.passedBefore, <<"history", 15>>)) /\ \A s \in If(f.passedBefore, <<"history", 15>>) : s[2] \in Int
    <2>1. IsFiniteSet({}) /\ IsFiniteSet({<<"history", 15>>})
      BY FS_EmptySet, FS_Singleton
    <2>2. If(f.passedBefore, <<"history", 15>>) = {} \/ If(f.passedBefore, <<"history", 15>>) = {<<"history", 15>>}
      BY DEF If
    <2>3. QED
      BY <2>1, <2>2
  <1>7. IsFiniteSet(RuleSignals(f.rules) \cup ChangeSignals(f.change))
    BY <1>3, <1>5, FS_Union
  <1>8. IsFiniteSet(Inner(f))
    BY <1>6, <1>7, FS_Union DEF Inner
  <1>9. QED
    BY <1>4, <1>5, <1>6, <1>8 DEF Inner

(* What the context adds to it: *)
Outer(c) ==
    If(c.incident, <<"provider", 40>>)
      \cup Stepped("repositories", c.repositories, {<<3, 15>>, <<10, 25>>, <<50, 35>>})
      \cup Stepped("organizations", c.organizations, {<<2, 10>>, <<5, 20>>})
      \cup Stepped("burst", c.recent, {<<5, 10>>, <<25, 18>>})
      \cup If(c.drift, <<"environment", 22>>)

(* nothing where there is none, and only signals for an outside cause. *)
LEMMA OuterSignals ==
  /\ Outer(NoContext) = {}
  /\ \A c : IsFiniteSet(Outer(c)) /\ \A s \in Outer(c) : s[2] \in Int /\ s[2] > 0
  /\ \A f, c : Signals(f, c) = Inner(f) \cup Outer(c)
  <1>1. ASSUME NEW kind, NEW count, NEW steps,
               steps \in {{<<3, 15>>, <<10, 25>>, <<50, 35>>}, {<<2, 10>>, <<5, 20>>}, {<<5, 10>>, <<25, 18>>}}
        PROVE  /\ Stepped(kind, 0, steps) = {}
               /\ IsFiniteSet(Stepped(kind, count, steps))
               /\ \A s \in Stepped(kind, count, steps) : s[2] \in Int /\ s[2] > 0
    <2> DEFINE reached == {s \in steps : count >= s[1]}
               top == CHOOSE s \in reached : \A r \in reached : r[1] <= s[1]
    <2>1. Stepped(kind, 0, steps) = {}
      BY <1>1 DEF Stepped
    <2>2. Stepped(kind, count, steps) = IF reached = {} THEN {} ELSE {<<kind, top[2]>>}
      BY DEF Stepped
    <2>3. ASSUME reached # {}
          PROVE  top \in reached
      <3>1. \E s \in reached : \A r \in reached : r[1] <= s[1]
        BY <1>1, <2>3
      <3>2. QED
        BY <3>1
    <2>4. \A s \in steps : s[2] \in Int /\ s[2] > 0
      BY <1>1
    <2>5. reached # {} => top[2] \in Int /\ top[2] > 0
      BY <2>3, <2>4
    <2> HIDE DEF reached, top
    <2>6. IsFiniteSet({}) /\ IsFiniteSet({<<kind, top[2]>>})
      BY FS_EmptySet, FS_Singleton
    <2>7. IsFiniteSet(Stepped(kind, count, steps))
      BY <2>2, <2>6
    <2>8. \A s \in Stepped(kind, count, steps) : s[2] \in Int /\ s[2] > 0
      BY <2>2, <2>5
    <2>9. QED
      BY <2>1, <2>7, <2>8
  <1>2. \A x : If(FALSE, x) = {}
    BY DEF If
  <1>3. Outer(NoContext) = {}
    BY <1>1, <1>2 DEF Outer, NoContext
  <1>4. ASSUME NEW c
        PROVE  IsFiniteSet(Outer(c)) /\ \A s \in Outer(c) : s[2] \in Int /\ s[2] > 0
    <2> DEFINE A == If(c.incident, <<"provider", 40>>)
               B == Stepped("repositories", c.repositories, {<<3, 15>>, <<10, 25>>, <<50, 35>>})
               C == Stepped("organizations", c.organizations, {<<2, 10>>, <<5, 20>>})
               D == Stepped("burst", c.recent, {<<5, 10>>, <<25, 18>>})
               E == If(c.drift, <<"environment", 22>>)
    <2>1. IsFiniteSet(A) /\ IsFiniteSet(E) /\ \A s \in A \cup E : s[2] \in Int /\ s[2] > 0
      <3>1. A \in {{}, {<<"provider", 40>>}} /\ E \in {{}, {<<"environment", 22>>}}
        BY DEF If
      <3>2. \A x : IsFiniteSet({x}) /\ IsFiniteSet({})
        BY FS_EmptySet, FS_Singleton
      <3>3. IsFiniteSet({}) /\ IsFiniteSet({<<"provider", 40>>}) /\ IsFiniteSet({<<"environment", 22>>})
        BY <3>2
      <3> HIDE DEF A, E
      <3>4. IsFiniteSet(A) /\ IsFiniteSet(E)
        BY <3>1, <3>3, Zenon
      <3>5. \A s \in A \cup E : s[2] \in Int /\ s[2] > 0
        BY <3>1
      <3>6. QED
        BY <3>4, <3>5
    <2>2. IsFiniteSet(B) /\ IsFiniteSet(C) /\ IsFiniteSet(D)
      BY <1>1
    <2>3. \A s \in B \cup C \cup D : s[2] \in Int /\ s[2] > 0
      BY <1>1
    <2>4. Outer(c) = A \cup B \cup C \cup D \cup E
      BY DEF Outer
    <2> HIDE DEF A, B, C, D, E
    <2>5. IsFiniteSet(A \cup B)
      BY <2>1, <2>2, FS_Union
    <2>6. IsFiniteSet(A \cup B \cup C)
      BY <2>2, <2>5, FS_Union
    <2>7. IsFiniteSet(A \cup B \cup C \cup D)
      BY <2>2, <2>6, FS_Union
    <2>8. IsFiniteSet(A \cup B \cup C \cup D \cup E)
      BY <2>1, <2>7, FS_Union
    <2>9. QED
      BY <2>1, <2>3, <2>4, <2>8
  <1>5. \A f, c : Signals(f, c) = Inner(f) \cup Outer(c)
    BY DEF Signals, Inner, Outer
  <1>6. QED
    BY <1>3, <1>4, <1>5

(* What is looked up speaks for an outside cause only: a failure that was
   called external from itself alone is called so again. *)
LEMMA StillExternal ==
  ASSUME NEW f, IsFiniteSet(f.rules), \A r \in f.rules : r.weight \in Int,
         NEW c, Analyze(f, NoContext).cause = "external"
  PROVE  Analyze(f, c).cause = "external"
  <1> DEFINE S == Inner(f)
             T == Inner(f) \cup Outer(c)
             P == {s \in S : s[2] > 0}
             Q == {s \in T : s[2] > 0}
             N == {s \in S : s[2] < 0}
             M == {s \in T : s[2] < 0}
             Score(p, n) == IF p + n > 100 THEN 100 ELSE IF p + n < -100 THEN -100 ELSE p + n
             Competing(p, n) == p >= 25 /\ n <= -25
             Conf(p, n, cat) == IF Competing(p, n) THEN "mixed" ELSE ConfidenceFor(Score(p, n), cat)
  <1>1. Signals(f, NoContext) = S /\ Signals(f, c) = T
    BY OuterSignals
  <1>2. IsFiniteSet(S) /\ IsFiniteSet(T) /\ \A s \in T : s[2] \in Int
    <2>1. IsFiniteSet(S) /\ (\A s \in S : s[2] \in Int) /\ IsFiniteSet(Outer(c)) /\ \A s \in Outer(c) : s[2] \in Int
      BY InnerSignals, OuterSignals
    <2>2. QED
      BY <2>1, FS_Union
  <1>3. N = M
    BY <1>2, OuterSignals
  <1>4. Total(P) <= Total(Q) /\ Total(P) \in Int /\ Total(Q) \in Int
    <2>1. IsFiniteSet(Q) /\ P \in SUBSET Q /\ (\A s \in Q : s[2] \in Int) /\ \A s \in Q \ P : s[2] >= 0
      BY <1>2, FS_Subset
    <2> HIDE DEF P, Q
    <2>2. QED
      BY <2>1, TotalGrows
  <1>5. Total(N) \in Int
    <2>1. IsFiniteSet(N) /\ \A s \in N : s[2] \in Int
      BY <1>2, FS_Subset
    <2> HIDE DEF N
    <2>2. QED
      BY <2>1, TotalType
  <1> DEFINE p == Total(P)
             q == Total(Q)
             n == Total(N)
             k == Category(f, NoContext)
             l == Category(f, c)
  <1>6. /\ Analyze(f, NoContext).cause = AttributionFor(Conf(p, n, k), k, Competing(p, n))
        /\ Analyze(f, c).cause = AttributionFor(Conf(q, Total(M), l), l, Competing(q, Total(M)))
    <2> HIDE DEF S, T
    <2>1. QED
      BY <1>1 DEF Analyze
  <1>7. k = l \/ (k = "unknown" /\ l \in {"drift", "unknown"})
    BY DEF Category, NoContext
  <1> HIDE DEF P, Q, N, M, S, T, k, l
  <1>8. AttributionFor(Conf(p, n, k), k, Competing(p, n)) = "external"
    BY <1>6
  <1>9. k \notin {"code", "toolchain"} /\ ~Competing(p, n) /\ Conf(p, n, k) \in {"strong", "moderate"}
    BY <1>8 DEF AttributionFor
  <1>10. p + n >= 45
    BY <1>4, <1>5, <1>9 DEF ConfidenceFor
  <1>11. ~Competing(q, n) /\ q + n >= 45
    BY <1>4, <1>5, <1>9, <1>10
  <1>12. l \notin {"code", "toolchain"}
    BY <1>7, <1>9
  <1>13. Conf(q, n, l) \in {"strong", "moderate"}
    BY <1>4, <1>5, <1>11, <1>12 DEF ConfidenceFor
  <1>14. AttributionFor(Conf(q, n, l), l, Competing(q, n)) = "external"
    <2> HIDE DEF Conf, Competing
    <2> QED
      BY <1>11, <1>12, <1>13 DEF AttributionFor
  <1>15. QED
    BY <1>3, <1>6, <1>14

-----------------------------------------------------------------------------
(* TestStats: counting an observation *)

Obs == [run : {report.run : report \in Reports}, commit : {report.commit : report \in Reports},
        status : Statuses, at : Nat \ {0}]
Classes == {"none", "not_executed", "warming_up", "consistently_failing", "stable", "flaky", "suspected_flaky", "mixed"}
Stats ==
    [total : Nat, passes : Nat, skipped : Nat, failures : Nat, transitions : Nat, recoveries : Nat,
     last : {"none", "passed", "failed", "error"}, commit : {0} \cup {report.commit : report \in Reports},
     run : {0} \cup {report.run : report \in Reports}, seen : Nat,
     critical : BOOLEAN, quarantined : BOOLEAN, class : Classes]

(* What is counted of an observation that is the latest, or not. *)
IsLatest(s, o) == o.status # "skipped" /\ (s.seen = 0 \/ o.at >= s.seen)

LEMMA OneFacts == \A b \in BOOLEAN : One(b) \in {0, 1} /\ (b => One(b) = 1) /\ (~b => One(b) = 0)
  BY DEF One

LEMMA CountFields ==
  ASSUME NEW s \in Stats, NEW o \in Obs
  PROVE  LET c == Count(s, o) IN
         /\ c.total = s.total + 1
         /\ c.passes = s.passes + One(o.status = "passed")
         /\ c.skipped = s.skipped + One(o.status = "skipped")
         /\ c.failures = s.failures + One(o.status \in {"failed", "error"})
         /\ c.transitions = s.transitions + One(IsLatest(s, o) /\ Turned(s.last, o.status))
         /\ c.recoveries = s.recoveries
               + One(IsLatest(s, o) /\ Failing(s.last) /\ o.status = "passed" /\ SameTestExecutionContext(s, o))
         /\ c.last = IF IsLatest(s, o) THEN o.status ELSE s.last
         /\ c.commit = IF IsLatest(s, o) THEN o.commit ELSE s.commit
         /\ c.run = IF IsLatest(s, o) THEN o.run ELSE s.run
         /\ c.seen = IF o.at > s.seen THEN o.at ELSE s.seen
         /\ c.critical = s.critical /\ c.quarantined = Active
         /\ c.class \in Classes
         /\ c.class = "flaky" => c.passes > 0 /\ c.failures > 0 /\ c.passes + c.failures >= ConfirmAt
         /\ DOMAIN c = DOMAIN s /\ c = [x \in DOMAIN c |-> c[x]]
  <1> DEFINE total == s.total + 1
             passes == s.passes + One(o.status = "passed")
             skipped == s.skipped + One(o.status = "skipped")
             failures == s.failures + One(o.status \in {"failed", "error"})
             transitions == s.transitions + One(IsLatest(s, o) /\ Turned(s.last, o.status))
             recoveries == s.recoveries
               + One(IsLatest(s, o) /\ Failing(s.last) /\ o.status = "passed" /\ SameTestExecutionContext(s, o))
             last == IF IsLatest(s, o) THEN o.status ELSE s.last
             commit == IF IsLatest(s, o) THEN o.commit ELSE s.commit
             run == IF IsLatest(s, o) THEN o.run ELSE s.run
             seen == IF o.at > s.seen THEN o.at ELSE s.seen
             active == Active
             counted == [s EXCEPT !.total = total, !.passes = passes, !.skipped = skipped, !.failures = failures,
                                  !.transitions = transitions, !.recoveries = recoveries, !.last = last,
                                  !.commit = commit, !.run = run, !.seen = seen, !.quarantined = active]
  <1>0. passes \in Nat /\ failures \in Nat
    <2>1. s.passes \in Nat /\ s.failures \in Nat
      BY DEF Stats
    <2>2. One(o.status = "passed") \in Nat /\ One(o.status \in {"failed", "error"}) \in Nat
      BY DEF One
    <2>3. QED
      BY <2>1, <2>2
  <1>1. Count(s, o) = [counted EXCEPT !.class = Classification(counted)]
    BY DEF Count, IsLatest, Executed, Failing
  <1> HIDE DEF total, passes, skipped, failures, transitions, recoveries, last, commit, run, seen, active
  <1>2. /\ DOMAIN counted = DOMAIN s
        /\ counted.total = total /\ counted.passes = passes /\ counted.skipped = skipped /\ counted.failures = failures
        /\ counted.transitions = transitions /\ counted.recoveries = recoveries /\ counted.last = last
        /\ counted.commit = commit /\ counted.run = run /\ counted.seen = seen /\ counted.critical = s.critical
        /\ counted.quarantined = active
    <2>1. DOMAIN s = {"total", "passes", "skipped", "failures", "transitions", "recoveries", "last", "commit", "run",
                      "seen", "critical", "quarantined", "class"}
      BY DEF Stats
    <2>2. QED
      BY <2>1
  <1>3. counted.passes \in Nat /\ counted.failures \in Nat
    BY <1>0, <1>2
  <1>4. Classification(counted) \in Classes
    BY DEF Classification, Classes
  <1>5. Classification(counted) = "flaky" =>
           counted.passes > 0 /\ counted.failures > 0 /\ counted.passes + counted.failures >= ConfirmAt
    <2> HIDE DEF counted
    <2> QED BY <1>3, TestStatsAssumption DEF Classification, Executions
  <1> DEFINE class == Classification(counted)
  <1>6. Count(s, o) = [counted EXCEPT !.class = class]
    BY <1>1
  <1> HIDE DEF class, counted
  <1>7. Count(s, o).class = class /\ Count(s, o).passes = counted.passes /\ Count(s, o).failures = counted.failures
    BY <1>2, <1>6
  <1>8. class \in Classes /\ (class = "flaky" =>
           counted.passes > 0 /\ counted.failures > 0 /\ counted.passes + counted.failures >= ConfirmAt)
    BY <1>4, <1>5 DEF class
  <1>9. DOMAIN Count(s, o) = DOMAIN s
    BY <1>2, <1>6 DEF Stats
  <1>10. Count(s, o) = [x \in DOMAIN Count(s, o) |-> Count(s, o)[x]]
    BY <1>6
  <1>11. LET c == Count(s, o) IN
         /\ c.total = total /\ c.skipped = skipped /\ c.passes = passes /\ c.failures = failures
         /\ c.transitions = transitions /\ c.recoveries = recoveries /\ c.last = last
         /\ c.commit = commit /\ c.run = run /\ c.seen = seen /\ c.critical = s.critical /\ c.quarantined = active
    BY <1>2, <1>6
  <1>12. QED
    BY <1>7, <1>8, <1>9, <1>11, <1>10 DEF total, passes, skipped, failures, transitions, recoveries, last, commit, run, seen, active

LEMMA CountType ==
  ASSUME NEW s \in Stats, NEW o \in Obs
  PROVE  Count(s, o) \in Stats
  <1> DEFINE c == Count(s, o)
             f == [total |-> c.total, passes |-> c.passes, skipped |-> c.skipped, failures |-> c.failures,
                   transitions |-> c.transitions, recoveries |-> c.recoveries, last |-> c.last, commit |-> c.commit,
                   run |-> c.run, seen |-> c.seen, critical |-> c.critical, quarantined |-> c.quarantined,
                   class |-> c.class]
  <1>1. c = [x \in DOMAIN c |-> c[x]]
    BY CountFields
  <1>2. DOMAIN c = DOMAIN s /\ DOMAIN s = DOMAIN f
    BY CountFields DEF Stats
  <1>3. \A b : One(b) \in Nat
    BY DEF One
  <1>4. /\ o.at \in Nat /\ o.run \in {report.run : report \in Reports} /\ o.commit \in {report.commit : report \in Reports}
        /\ o.status \in Statuses
    BY DEF Obs
  <1>5. c.total \in Nat /\ c.passes \in Nat /\ c.skipped \in Nat /\ c.failures \in Nat /\ c.transitions \in Nat /\ c.recoveries \in Nat
    <2>1. /\ s.total \in Nat /\ s.passes \in Nat /\ s.skipped \in Nat /\ s.failures \in Nat
          /\ s.transitions \in Nat /\ s.recoveries \in Nat
      BY DEF Stats
    <2>2. QED
      BY <1>3, <2>1, CountFields
  <1>6. /\ c.last \in {"none", "passed", "failed", "error"}
        /\ c.commit \in {0} \cup {report.commit : report \in Reports} /\ c.run \in {0} \cup {report.run : report \in Reports}
        /\ c.seen \in Nat /\ c.critical \in BOOLEAN /\ c.class \in Classes
    <2>1. /\ s.last \in {"none", "passed", "failed", "error"}
          /\ s.commit \in {0} \cup {report.commit : report \in Reports} /\ s.run \in {0} \cup {report.run : report \in Reports}
          /\ s.seen \in Nat /\ s.critical \in BOOLEAN
      BY DEF Stats
    <2>2. IsLatest(s, o) => o.status \in {"passed", "failed", "error"}
      BY <1>4 DEF IsLatest, Statuses
    <2>3. QED
      BY <1>4, <2>1, <2>2, CountFields
  <1>7. c.quarantined \in BOOLEAN
    <2>1. c.quarantined = Active
      BY CountFields
    <2>2. Active \in BOOLEAN
      BY DEF Active
    <2>3. QED
      BY <2>1, <2>2
  <1> HIDE DEF c
  <1>8. f \in Stats
    BY <1>5, <1>6, <1>7 DEF Stats
  <1>9. c = f
    BY <1>1, <1>2
  <1>10. QED
    BY <1>8, <1>9 DEF c

-----------------------------------------------------------------------------
(* TestStats: what the counts say of a history *)

RanIn(h) == {i \in 1..Len(h) : h[i].status # "skipped"}
HavingIn(h, kinds) == {i \in 1..Len(h) : h[i].status \in kinds}
TurnsIn(h) == {i \in RanIn(h) : \E j \in RanIn(h) : /\ j < i /\ Failing(h[j].status) # Failing(h[i].status)
                                                   /\ \A k \in RanIn(h) : k <= j \/ i <= k}
OrderIn(h) == \A i, j \in 1..Len(h) : i < j => h[i].at <= h[j].at

Totals(h, s) ==
    /\ s.total = Len(h)
    /\ s.passes = Cardinality(HavingIn(h, {"passed"}))
    /\ s.skipped = Cardinality(HavingIn(h, {"skipped"}))
    /\ s.failures = Cardinality(HavingIn(h, {"failed", "error"}))
    /\ s.passes + s.failures = Cardinality(RanIn(h))
Changes(h, s) ==
    /\ s.recoveries <= s.transitions
    /\ s.last # "none" => RanIn(h) # {}
    /\ s.transitions <= IF RanIn(h) = {} THEN 0 ELSE Cardinality(RanIn(h)) - 1
(* The time of the latest observation is kept; of a history in order the last
   result and the turns are; of one without skips the latest result is. *)
Latest(h, s) ==
    /\ s.seen = 0 <=> Len(h) = 0
    /\ \A i \in 1..Len(h) : h[i].at <= s.seen
    /\ Len(h) > 0 => \E i \in 1..Len(h) : h[i].at = s.seen
    /\ (Len(h) > 0 /\ RanIn(h) = 1..Len(h)) => \E i \in 1..Len(h) : h[i].status = s.last /\ h[i].at = s.seen
Ordered(h, s) ==
    OrderIn(h) =>
      /\ RanIn(h) = {} => s.last = "none"
      /\ RanIn(h) # {} => \E m \in RanIn(h) : s.last = h[m].status /\ \A k \in RanIn(h) : k <= m
      /\ s.transitions = Cardinality(TurnsIn(h))
Flaky(s) == s.class = "flaky" => s.passes > 0 /\ s.failures > 0 /\ s.passes + s.failures >= ConfirmAt
Honest(h, s) == h \in Seq(Obs) /\ s \in Stats /\ Totals(h, s) /\ Changes(h, s) /\ Latest(h, s) /\ Ordered(h, s) /\ Flaky(s)

(* A history with one observation more. *)
Extends(h, o, l) == l \in Seq(Obs) /\ Len(l) = Len(h) + 1 /\ (\A i \in 1..Len(h) : l[i] = h[i]) /\ l[Len(l)] = o

(* There are as many positions as there are elements. *)
LEMMA PositionsCount ==
  ASSUME NEW n \in Nat
  PROVE  IsFiniteSet(1..n) /\ Cardinality(1..n) = n
  <1>1. 1 \in Int /\ n \in Int
    OBVIOUS
  <1>2. IsFiniteSet(1..n) /\ Cardinality(1..n) = IF 1 > n THEN 0 ELSE n - 1 + 1
    BY <1>1, FS_Interval
  <1>3. QED
    BY <1>2

(* A set of positions with one more, or not, has one more element, or not. *)
LEMMA OneMore ==
  ASSUME NEW n \in Nat, NEW S \in SUBSET (1..n), NEW T, NEW b \in BOOLEAN,
         T = S \cup (IF b THEN {n + 1} ELSE {})
  PROVE  /\ IsFiniteSet(T) /\ Cardinality(S) \in Nat /\ Cardinality(T) = Cardinality(S) + One(b)
  <1>1. IsFiniteSet(S)
    <2>1. IsFiniteSet(1..n)
      BY FS_Interval
    <2>2. QED
      BY <2>1, FS_Subset
  <1>2. n + 1 \notin S
    OBVIOUS
  <1>3. CASE b
    BY <1>1, <1>2, <1>3, FS_AddElement, FS_CardinalityType DEF One
  <1>4. CASE ~b
    BY <1>1, <1>4, FS_CardinalityType DEF One
  <1>5. QED
    BY <1>3, <1>4

LEMMA ObsFacts ==
  ASSUME NEW o \in Obs
  PROVE  o.at \in Nat /\ o.at > 0 /\ o.status \in Statuses
  BY DEF Obs

LEMMA TotalsGrow ==
  ASSUME NEW h, NEW s, NEW o \in Obs, NEW l, Honest(h, s), Extends(h, o, l)
  PROVE  Totals(l, Count(s, o))
  <1> DEFINE n == Len(h)
             c == Count(s, o)
  <1>1. n \in Nat /\ Len(l) = n + 1 /\ (\A i \in 1..n : l[i] = h[i]) /\ l[n + 1] = o /\ s \in Stats
    BY DEF Honest, Extends
  <1>2. \A i : i \in 1..(n + 1) <=> (i \in 1..n \/ i = n + 1)
    BY <1>1
  <1> HIDE DEF n
  <1>3. ASSUME NEW kinds
        PROVE  /\ Cardinality(HavingIn(h, kinds)) \in Nat
               /\ Cardinality(HavingIn(l, kinds)) = Cardinality(HavingIn(h, kinds)) + One(o.status \in kinds)
    <2>1. HavingIn(l, kinds) = HavingIn(h, kinds) \cup (IF o.status \in kinds THEN {n + 1} ELSE {})
      BY <1>1, <1>2 DEF HavingIn, n
    <2>2. HavingIn(h, kinds) \in SUBSET (1..n)
      BY DEF HavingIn, n
    <2>3. (o.status \in kinds) \in BOOLEAN
      OBVIOUS
    <2>4. QED
      BY <1>1, <2>1, <2>2, <2>3, OneMore
  <1>4. /\ Cardinality(RanIn(h)) \in Nat
        /\ Cardinality(RanIn(l)) = Cardinality(RanIn(h)) + One(o.status # "skipped")
    <2>1. RanIn(l) = RanIn(h) \cup (IF o.status # "skipped" THEN {n + 1} ELSE {})
      BY <1>1, <1>2 DEF RanIn, n
    <2>2. RanIn(h) \in SUBSET (1..n)
      BY DEF RanIn, n
    <2>3. (o.status # "skipped") \in BOOLEAN
      OBVIOUS
    <2>4. QED
      BY <1>1, <2>1, <2>2, <2>3, OneMore
  <1>5. One(o.status = "passed") + One(o.status \in {"failed", "error"}) = One(o.status # "skipped")
    BY ObsFacts DEF One, Statuses
  <1>6. /\ c.total = s.total + 1 /\ c.passes = s.passes + One(o.status = "passed")
        /\ c.skipped = s.skipped + One(o.status = "skipped")
        /\ c.failures = s.failures + One(o.status \in {"failed", "error"})
    BY <1>1, CountFields
  <1>7. One(o.status = "passed") = One(o.status \in {"passed"}) /\ One(o.status = "skipped") = One(o.status \in {"skipped"})
    BY DEF One
  <1>8. Totals(h, s)
    BY DEF Honest
  <1> DEFINE p == One(o.status = "passed")
             f == One(o.status \in {"failed", "error"})
             k == One(o.status = "skipped")
             r == One(o.status # "skipped")
  <1>9. p \in Nat /\ f \in Nat /\ k \in Nat /\ r \in Nat /\ p + f = r
    BY <1>5 DEF One
  <1>10. /\ c.passes = s.passes + p /\ c.failures = s.failures + f /\ c.skipped = s.skipped + k
         /\ Cardinality(HavingIn(l, {"passed"})) = Cardinality(HavingIn(h, {"passed"})) + p
         /\ Cardinality(HavingIn(l, {"failed", "error"})) = Cardinality(HavingIn(h, {"failed", "error"})) + f
         /\ Cardinality(HavingIn(l, {"skipped"})) = Cardinality(HavingIn(h, {"skipped"})) + k
         /\ Cardinality(RanIn(l)) = Cardinality(RanIn(h)) + r
    BY <1>3, <1>4, <1>6, <1>7
  <1>11. /\ Cardinality(HavingIn(h, {"passed"})) \in Nat /\ Cardinality(HavingIn(h, {"failed", "error"})) \in Nat
         /\ Cardinality(HavingIn(h, {"skipped"})) \in Nat /\ Cardinality(RanIn(h)) \in Nat
    BY <1>3, <1>4
  <1> HIDE DEF p, f, k, r, c
  <1>12. c.total = Len(l)
    BY <1>1, <1>6, <1>8 DEF Totals, n
  <1>13. c.passes + c.failures = Cardinality(RanIn(l))
    <2>1. s.passes \in Nat /\ s.failures \in Nat /\ s.passes + s.failures = Cardinality(RanIn(h))
      BY <1>8, <1>11 DEF Totals
    <2>2. c.passes = s.passes + p /\ c.failures = s.failures + f
      BY <1>10
    <2>3. Cardinality(RanIn(l)) = Cardinality(RanIn(h)) + r
      BY <1>10
    <2>4. c.passes + c.failures = (s.passes + s.failures) + (p + f)
      BY <1>9, <2>1, <2>2
    <2>5. QED
      BY <1>9, <2>1, <2>3, <2>4
  <1>14. Totals(l, c)
    BY <1>8, <1>10, <1>12, <1>13 DEF Totals
  <1>15. QED
    BY <1>14 DEF c

LEMMA ChangesGrow ==
  ASSUME NEW h, NEW s, NEW o \in Obs, NEW l, Honest(h, s), Extends(h, o, l)
  PROVE  Changes(l, Count(s, o))
  <1> DEFINE n == Len(h)
             c == Count(s, o)
             turned == One(IsLatest(s, o) /\ Turned(s.last, o.status))
             recovered == One(IsLatest(s, o) /\ Failing(s.last) /\ o.status = "passed" /\ SameTestExecutionContext(s, o))
             ran == One(o.status # "skipped")
             R == Cardinality(RanIn(h))
  <1>1. n \in Nat /\ Len(l) = n + 1 /\ (\A i \in 1..n : l[i] = h[i]) /\ l[n + 1] = o /\ s \in Stats
    BY DEF Honest, Extends
  <1>2. \A i : i \in 1..(n + 1) <=> (i \in 1..n \/ i = n + 1)
    BY <1>1
  <1> HIDE DEF n
  <1>3. RanIn(l) = RanIn(h) \cup (IF o.status # "skipped" THEN {n + 1} ELSE {})
    BY <1>1, <1>2 DEF RanIn, n
  <1>4. RanIn(h) \in SUBSET (1..n)
    BY DEF RanIn, n
  <1>5. R \in Nat /\ Cardinality(RanIn(l)) = R + ran
    <2>1. (o.status # "skipped") \in BOOLEAN
      OBVIOUS
    <2>2. QED
      BY <1>1, <1>3, <1>4, <2>1, OneMore
  <1>6. RanIn(h) # {} => R >= 1
    <2>1. IsFiniteSet(RanIn(h))
      <3>1. IsFiniteSet(1..n)
        BY <1>1, FS_Interval
      <3>2. QED
        BY <1>4, <3>1, FS_Subset
    <2>2. QED
      BY <1>5, <2>1, FS_EmptySet
  <1>7. /\ c.transitions = s.transitions + turned /\ c.recoveries = s.recoveries + recovered
        /\ c.last = IF IsLatest(s, o) THEN o.status ELSE s.last
    BY <1>1, CountFields
  <1>8. s.transitions \in Nat /\ s.recoveries \in Nat
    BY <1>1 DEF Stats
  <1>9. recovered <= turned /\ recovered \in Nat /\ turned \in Nat /\ ran \in Nat /\ turned <= ran
    BY DEF One, Turned, IsLatest
  <1>10. turned > 0 => s.last # "none"
    BY DEF One, Turned, Failing
  <1>11. Changes(h, s)
    BY DEF Honest
  <1>12. c.last # "none" => RanIn(l) # {}
    BY <1>3, <1>7, <1>11 DEF Changes, IsLatest
  <1>13. RanIn(h) # {} => RanIn(l) # {}
    BY <1>3
  <1>14. ran > 0 => RanIn(l) # {}
    BY <1>3 DEF One
  <1> HIDE DEF turned, recovered, ran, R, c
  <1>15. c.recoveries <= c.transitions
    BY <1>7, <1>8, <1>9, <1>11 DEF Changes
  <1>16. c.transitions <= IF RanIn(l) = {} THEN 0 ELSE Cardinality(RanIn(l)) - 1
    <2>1. CASE RanIn(h) # {}
      <3>1. s.transitions <= R - 1
        BY <1>11, <2>1 DEF Changes, R
      <3>2. QED
        BY <1>5, <1>7, <1>8, <1>9, <1>13, <2>1, <3>1
    <2>2. CASE RanIn(h) = {}
      <3>1. s.transitions = 0 /\ turned = 0
        BY <1>8, <1>9, <1>10, <1>11, <2>2 DEF Changes
      <3>2. R = 0
        BY <2>2, FS_EmptySet DEF R
      <3>3. c.transitions = 0
        BY <1>7, <3>1
      <3>4. RanIn(l) # {} => ran >= 1
        BY <1>3, <2>2 DEF One, ran
      <3>5. QED
        BY <1>5, <1>9, <3>2, <3>3, <3>4
    <2>3. QED
      BY <2>1, <2>2
  <1>17. QED
    BY <1>12, <1>15, <1>16 DEF Changes, c

LEMMA LatestGrows ==
  ASSUME NEW h, NEW s, NEW o \in Obs, NEW l, Honest(h, s), Extends(h, o, l)
  PROVE  Latest(l, Count(s, o))
  <1> DEFINE n == Len(h)
             c == Count(s, o)
  <1>1. n \in Nat /\ Len(l) = n + 1 /\ (\A i \in 1..n : l[i] = h[i]) /\ l[n + 1] = o /\ s \in Stats /\ l \in Seq(Obs)
    BY DEF Honest, Extends
  <1>2. \A i : i \in 1..(n + 1) <=> (i \in 1..n \/ i = n + 1)
    BY <1>1
  <1>3. /\ (s.seen = 0 <=> n = 0) /\ (\A i \in 1..n : h[i].at <= s.seen)
        /\ (n > 0 /\ RanIn(h) = 1..n) => \E i \in 1..n : h[i].status = s.last /\ h[i].at = s.seen
    BY DEF Honest, Latest
  <1> HIDE DEF n
  <1>4. /\ c.last = IF IsLatest(s, o) THEN o.status ELSE s.last
        /\ c.seen = IF o.at > s.seen THEN o.at ELSE s.seen
    BY <1>1, CountFields
  <1>5. s.seen \in Nat /\ o.at \in Nat /\ o.at > 0
    BY <1>1, ObsFacts DEF Stats
  <1> HIDE DEF c
  <1>6. c.seen \in Nat /\ c.seen > 0 /\ c.seen >= s.seen /\ c.seen >= o.at
    BY <1>4, <1>5
  <1>7. \A i \in 1..n : h[i].at \in Nat
    BY ObsFacts DEF Honest, n
  <1>8. \A i \in 1..(n + 1) : l[i].at <= c.seen
    BY <1>1, <1>2, <1>3, <1>5, <1>6, <1>7
  <1>9. ASSUME RanIn(l) = 1..(n + 1)
        PROVE  \E i \in 1..(n + 1) : l[i].status = c.last /\ l[i].at = c.seen
    <2>1. o.status # "skipped"
      BY <1>1, <1>2, <1>9 DEF RanIn
    <2>2. CASE s.seen = 0 \/ o.at >= s.seen
      <3>1. c.last = o.status /\ c.seen = o.at
        BY <1>4, <1>5, <2>1, <2>2 DEF IsLatest
      <3>2. QED
        BY <1>1, <1>2, <3>1
    <2>3. CASE ~(s.seen = 0 \/ o.at >= s.seen)
      <3>1. c.last = s.last /\ c.seen = s.seen /\ n > 0
        BY <1>1, <1>3, <1>4, <1>5, <2>3 DEF IsLatest
      <3>2. RanIn(h) = 1..n
        BY <1>1, <1>2, <1>9 DEF RanIn, n
      <3>3. PICK i \in 1..n : h[i].status = s.last /\ h[i].at = s.seen
        BY <1>3, <3>1, <3>2
      <3>4. QED
        BY <1>1, <1>2, <3>1, <3>3
    <2>4. QED
      BY <2>2, <2>3
  <1>10. \E i \in 1..(n + 1) : l[i].at = c.seen
    <2>1. CASE c.seen = o.at
      BY <1>1, <1>2, <2>1
    <2>2. CASE c.seen # o.at
      <3>1. c.seen = s.seen /\ n > 0
        BY <1>1, <1>3, <1>4, <1>5, <2>2
      <3>2. PICK i \in 1..n : h[i].at = s.seen
        BY <3>1 DEF Honest, Latest, n
      <3>3. QED
        BY <1>1, <1>2, <3>1, <3>2
    <2>3. QED
      BY <2>1, <2>2
  <1>11. Latest(l, c)
    BY <1>1, <1>6, <1>8, <1>9, <1>10 DEF Latest
  <1>12. QED
    BY <1>11 DEF c

LEMMA OrderedGrows ==
  ASSUME NEW h, NEW s, NEW o \in Obs, NEW l, Honest(h, s), Extends(h, o, l)
  PROVE  Ordered(l, Count(s, o))
  <1> DEFINE n == Len(h)
             c == Count(s, o)
             ran == o.status # "skipped"
             turned == ran /\ Turned(s.last, o.status)
  <1> SUFFICES ASSUME OrderIn(l)
               PROVE  /\ RanIn(l) = {} => c.last = "none"
                      /\ RanIn(l) # {} => \E m \in RanIn(l) : c.last = l[m].status /\ \A k \in RanIn(l) : k <= m
                      /\ c.transitions = Cardinality(TurnsIn(l))
    BY DEF Ordered
  <1>1. n \in Nat /\ Len(l) = n + 1 /\ (\A i \in 1..n : l[i] = h[i]) /\ l[n + 1] = o /\ s \in Stats
    BY DEF Honest, Extends
  <1>2. \A i : i \in 1..(n + 1) <=> (i \in 1..n \/ i = n + 1)
    BY <1>1
  <1>3. /\ (s.seen = 0 <=> n = 0) /\ (\A i \in 1..n : h[i].at <= s.seen)
    BY DEF Honest, Latest
  <1>4. OrderIn(h)
    BY <1>1, <1>2 DEF OrderIn
  <1>5. /\ RanIn(h) = {} => s.last = "none"
        /\ RanIn(h) # {} => \E m \in RanIn(h) : s.last = h[m].status /\ \A k \in RanIn(h) : k <= m
        /\ s.transitions = Cardinality(TurnsIn(h))
    BY <1>4 DEF Honest, Ordered
  <1>6. IsLatest(s, o) <=> ran
    <2>1. ran => (s.seen = 0 \/ o.at >= s.seen)
      <3>1. CASE n > 0
        <4>1. PICK i \in 1..n : h[i].at = s.seen
          BY <3>1 DEF Honest, Latest
        <4>2. l[i].at <= l[n + 1].at
          BY <1>1, <1>2, <4>1 DEF OrderIn
        <4>3. s.seen \in Nat /\ o.at \in Nat
          BY <1>1, ObsFacts DEF Stats
        <4>4. QED
          BY <1>1, <4>1, <4>2, <4>3
      <3>2. CASE ~(n > 0)
        BY <1>1, <1>3, <3>2
      <3>3. QED
        BY <3>1, <3>2
    <2>2. QED
      BY <2>1 DEF IsLatest
  <1>7. /\ c.last = IF ran THEN o.status ELSE s.last
        /\ c.transitions = s.transitions + One(turned)
    BY <1>1, <1>6, CountFields
  <1> HIDE DEF n, c
  <1>8. RanIn(l) = RanIn(h) \cup (IF ran THEN {n + 1} ELSE {})
    BY <1>1, <1>2 DEF RanIn, n
  <1>9. RanIn(h) \in SUBSET (1..n)
    BY DEF RanIn, n
  <1>10. RanIn(l) = {} => c.last = "none"
    BY <1>5, <1>7, <1>8
  <1>11. RanIn(l) # {} => \E m \in RanIn(l) : c.last = l[m].status /\ \A k \in RanIn(l) : k <= m
    <2>1. CASE ran
      <3>1. c.last = l[n + 1].status /\ n + 1 \in RanIn(l)
        BY <1>1, <1>7, <1>8, <2>1
      <3>2. \A k \in RanIn(l) : k <= n + 1
        BY <1>1, <1>8, <1>9
      <3>3. QED
        BY <3>1, <3>2
    <2>2. CASE ~ran
      <3>1. RanIn(l) = RanIn(h) /\ c.last = s.last
        BY <1>7, <1>8, <2>2
      <3>2. \A m \in RanIn(h) : l[m] = h[m]
        BY <1>1, <1>9
      <3> HIDE DEF ran
      <3>3. QED
        BY <1>5, <3>1, <3>2
    <2>3. QED
      BY <2>1, <2>2
  <1>12. TurnsIn(l) = TurnsIn(h) \cup (IF turned THEN {n + 1} ELSE {})
    <2>1. \A i \in RanIn(h) : i \in 1..n /\ l[i] = h[i] /\ h[i].status \in {"passed", "failed", "error"}
      <3>1. \A i \in 1..n : h[i] \in Obs
        BY DEF Honest, n
      <3>2. \A i \in 1..n : h[i].status \in Statuses
        BY <3>1, ObsFacts
      <3>3. QED
        BY <1>1, <1>9, <3>2 DEF RanIn, Statuses
    <2>2. ASSUME NEW i \in RanIn(h)
          PROVE  i \in TurnsIn(l) <=> i \in TurnsIn(h)
      <3>1. i \in RanIn(l) /\ i \in 1..n /\ i < n + 1
        BY <1>1, <1>8, <2>1
      <3>2. \A j \in RanIn(l) : j < i => j \in RanIn(h)
        BY <1>1, <1>8, <3>1
      <3>3. \A j \in RanIn(h) : (\A k \in RanIn(l) : k <= j \/ i <= k) <=> (\A k \in RanIn(h) : k <= j \/ i <= k)
        BY <1>1, <1>8, <3>1
      <3>4. RanIn(h) \subseteq RanIn(l)
        BY <1>8
      <3>5. \A j \in RanIn(h) : (/\ j < i /\ Failing(l[j].status) # Failing(l[i].status)
                                 /\ \A k \in RanIn(l) : k <= j \/ i <= k)
                            <=> (/\ j < i /\ Failing(h[j].status) # Failing(h[i].status)
                                 /\ \A k \in RanIn(h) : k <= j \/ i <= k)
        BY <2>1, <3>3
      <3>6. QED
        BY <3>1, <3>2, <3>4, <3>5 DEF TurnsIn
    <2>3. n + 1 \in TurnsIn(l) <=> turned
      <3>1. CASE RanIn(h) = {}
        <4>1. n + 1 \notin TurnsIn(l)
          BY <1>1, <1>8, <3>1 DEF TurnsIn
        <4>2. ~turned
          BY <1>5, <3>1 DEF Turned, Failing
        <4>3. QED
          BY <4>1, <4>2
      <3>2. CASE RanIn(h) # {}
        <4>1. PICK m \in RanIn(h) : s.last = h[m].status /\ \A k \in RanIn(h) : k <= m
          BY <1>5, <3>2
        <4>2. ASSUME ran
              PROVE  n + 1 \in TurnsIn(l) <=> Failing(h[m].status) # Failing(o.status)
          <5>1. RanIn(l) = RanIn(h) \cup {n + 1}
            BY <1>8, <4>2
          <5>2. \A j \in RanIn(l) : (j < n + 1 /\ \A k \in RanIn(l) : k <= j \/ n + 1 <= k) <=> j = m
            <6>1. \A j \in RanIn(h) : j \in Nat /\ j < n + 1
              BY <1>1, <2>1
            <6>2. ASSUME NEW j \in RanIn(h)
                  PROVE  (\A k \in RanIn(h) \cup {n + 1} : k <= j \/ n + 1 <= k) <=> j = m
              BY <1>1, <4>1, <6>1
            <6>3. QED
              BY <1>1, <4>1, <5>1, <6>1, <6>2
          <5>3. m \in RanIn(l) /\ n + 1 \in RanIn(l) /\ l[m] = h[m] /\ l[n + 1] = o
            BY <1>1, <2>1, <5>1
          <5>4. QED
            BY <5>2, <5>3 DEF TurnsIn
        <4>3. ran => o.status \in {"passed", "failed", "error"}
          BY ObsFacts DEF Statuses
        <4>4. ran => (Turned(s.last, o.status) <=> Failing(h[m].status) # Failing(o.status))
          BY <2>1, <4>1, <4>3 DEF Turned, Failing
        <4>5. ~ran => n + 1 \notin TurnsIn(l)
          BY <1>1, <1>8, <2>1 DEF TurnsIn
        <4>6. QED
          BY <4>2, <4>4, <4>5
      <3>3. QED
        BY <3>1, <3>2
    <2>4. \A i \in TurnsIn(l) : i \in RanIn(h) \/ i = n + 1
      BY <1>8 DEF TurnsIn
    <2>5. \A i \in TurnsIn(h) : i \in RanIn(h)
      BY DEF TurnsIn
    <2> HIDE DEF turned, ran
    <2>6. QED
      BY <2>2, <2>3, <2>4, <2>5
  <1>13. c.transitions = Cardinality(TurnsIn(l))
    <2>1. TurnsIn(h) \in SUBSET (1..n)
      BY <1>9 DEF TurnsIn
    <2>2. turned \in BOOLEAN
      BY DEF Turned, Failing
    <2> HIDE DEF turned
    <2>3. Cardinality(TurnsIn(l)) = Cardinality(TurnsIn(h)) + One(turned)
      <3>0. IsFiniteSet(TurnsIn(h)) /\ n + 1 \notin TurnsIn(h)
        <4>1. IsFiniteSet(1..n)
          BY <1>1, FS_Interval
        <4>2. QED
          BY <1>1, <2>1, <4>1, FS_Subset
      <3>1. CASE turned
        <4>1. TurnsIn(l) = TurnsIn(h) \cup {n + 1} /\ One(turned) = 1
          BY <1>12, <3>1 DEF One
        <4>2. QED
          BY <3>0, <4>1, FS_AddElement
      <3>2. CASE ~turned
        <4>1. TurnsIn(l) = TurnsIn(h) /\ One(turned) = 0
          BY <1>12, <3>2 DEF One
        <4>2. QED
          BY <3>0, <4>1, FS_CardinalityType
      <3>3. QED
        BY <3>1, <3>2
    <2>4. QED
      BY <1>5, <1>7, <2>3
  <1>14. QED
    BY <1>10, <1>11, <1>13 DEF c

(* An observation more keeps the counts honest. *)
LEMMA HonestGrows ==
  ASSUME NEW h, NEW s, NEW o \in Obs, NEW l, Honest(h, s), Extends(h, o, l)
  PROVE  Honest(l, Count(s, o))
  <1>1. s \in Stats /\ l \in Seq(Obs)
    BY DEF Honest, Extends
  <1>2. Count(s, o) \in Stats
    BY <1>1, CountType
  <1>3. Flaky(Count(s, o))
    BY <1>1, CountFields DEF Flaky
  <1>4. QED
    BY <1>1, <1>2, <1>3, TotalsGrow, ChangesGrow, LatestGrows, OrderedGrows DEF Honest

(* What counting computes with, for the observations of a report in some order. *)
CountTable(s, q, g) ==
    g = [t \in SUBSET (DOMAIN q) |-> IF t = {} THEN s ELSE Count(g[t \ {Max(t)}], q[Max(t)])]

LEMMA CountingIs ==
  ASSUME NEW s, NEW q
  PROVE  FoldLeft(Count, s, q) = (CHOOSE g : CountTable(s, q, g))[DOMAIN q]
  BY DEF FoldLeft, MapThenFoldSet, CountTable

(* The counts after the first observation, the second, and so on. *)
LEMMA CountChain ==
  ASSUME NEW s \in Stats, NEW n \in Nat, NEW q \in [1..n -> Obs]
  PROVE  \E c : /\ c[0] = s
                /\ \A k \in 0..(n - 1) : c[k + 1] = Count(c[k], q[k + 1])
                /\ FoldLeft(Count, s, q) = c[n]
  <1> DEFINE next(x) == Count(x[1], x[2])
             step == [x \in Stats \X Obs |-> next(x)]
  <1>1. step \in [Stats \X Obs -> Stats]
    <2>1. \A x \in Stats \X Obs : next(x) \in Stats
      BY CountType
    <2> HIDE DEF next
    <2>2. QED
      BY <2>1
  <1>2. PICK h \in [SUBSET (1..n) -> Stats] : Tabulates(h, step, s, q, n)
    <2>1. \A i \in 1..n : q[i] \in Obs
      OBVIOUS
    <2> HIDE DEF step
    <2>2. IsFold(Stats, Obs, step, s, q, n)
      BY <1>1, <2>1 DEF IsFold
    <2>3. HasTable(Stats, step, s, q, n)
      BY <2>2, TableExists
    <2>4. QED
      BY <2>3 DEF HasTable
  <1>3. CountTable(s, q, h)
    <2>1. ASSUME NEW t \in SUBSET (1..n)
          PROVE  h[t] = IF t = {} THEN s ELSE Count(h[t \ {Max(t)}], q[Max(t)])
      <3>1. CASE t = {}
        <4>1. h[t] = s
          <5> HIDE DEF step
          <5> QED BY <1>2, <3>1 DEF Tabulates
        <4>2. QED
          BY <3>1, <4>1
      <3>2. CASE t # {}
        <4>1. h[t] = step[h[t \ {Max(t)}], q[Max(t)]]
          <5> HIDE DEF step
          <5> QED BY <1>2, <3>2 DEF Tabulates
        <4>2. h[t \ {Max(t)}] \in Stats
          BY <1>2
        <4>3. q[Max(t)] \in Obs
          <5>1. Max(t) \in 1..n
            BY <3>2, SomeMax
          <5>2. QED
            BY <5>1
        <4> DEFINE u == h[t \ {Max(t)}]
                   o == q[Max(t)]
        <4>4. step[u, o] = Count(u, o)
          <5>1. <<u, o>> \in Stats \X Obs
            BY <4>2, <4>3
          <5> HIDE DEF u, o
          <5>2. step[u, o] = next(<<u, o>>)
            <6> HIDE DEF next
            <6> QED BY <5>1
          <5>3. next(<<u, o>>) = Count(u, o)
            OBVIOUS
          <5>4. QED
            BY <5>2, <5>3
        <4>5. QED
          <5> HIDE DEF step
          <5> QED BY <3>2, <4>1, <4>4
      <3>3. QED
        BY <3>1, <3>2
    <2>2. DOMAIN q = 1..n
      OBVIOUS
    <2>3. h = [t \in SUBSET (1..n) |-> IF t = {} THEN s ELSE Count(h[t \ {Max(t)}], q[Max(t)])]
      BY <1>2, <2>1
    <2>4. QED
      BY <2>2, <2>3 DEF CountTable
  <1> DEFINE g == CHOOSE g : CountTable(s, q, g)
             c == [k \in 0..n |-> g[1..k]]
  <1>4. CountTable(s, q, g)
    BY <1>3
  <1>5. FoldLeft(Count, s, q) = g[1..n]
    <2>1. DOMAIN q = 1..n
      OBVIOUS
    <2>2. QED
      BY <2>1, CountingIs
  <1> HIDE DEF g
  <1>6. \A t \in SUBSET (1..n) : g[t] = IF t = {} THEN s ELSE Count(g[t \ {Max(t)}], q[Max(t)])
    BY <1>4 DEF CountTable
  <1>7. c[0] = s
    <2>1. 1..0 = {} /\ 1..0 \in SUBSET (1..n) /\ 0 \in 0..n
      OBVIOUS
    <2>2. QED
      BY <1>6, <2>1
  <1>8. ASSUME NEW k \in 0..(n - 1)
        PROVE  c[k + 1] = Count(c[k], q[k + 1])
    <2> DEFINE t == 1..(k + 1)
    <2>1. k \in Nat /\ t \in SUBSET (1..n) /\ k + 1 \in 0..n /\ k \in 0..n
      OBVIOUS
    <2>2. Max(t) = k + 1 /\ t \ {k + 1} = 1..k /\ t # {}
      BY <2>1, UpTo
    <2> HIDE DEF t
    <2>3. g[t] = Count(g[t \ {Max(t)}], q[Max(t)])
      BY <1>6, <2>1, <2>2
    <2>4. QED
      BY <2>1, <2>2, <2>3 DEF t
  <1>9. FoldLeft(Count, s, q) = c[n]
    BY <1>5
  <1>10. QED
    <2> HIDE DEF c
    <2> QED BY <1>7, <1>8, <1>9

(* Counting a report keeps the counts honest and the test critical or not, and
   says of it that it is quarantined when it is. *)
LEMMA ReportCounted ==
  ASSUME NEW h, NEW s, Honest(h, s), NEW n \in Nat, NEW q \in [1..n -> Obs]
  PROVE  LET f == FoldLeft(Count, s, q) IN
         /\ Honest(h \o q, f)
         /\ f.critical = s.critical
         /\ n = 0 => f = s
         /\ n > 0 => f.quarantined = Active
  <1>0. s \in Stats /\ h \in Seq(Obs) /\ Len(h) \in Nat
    BY DEF Honest
  <1>1. PICK c : /\ c[0] = s
                 /\ \A k \in 0..(n - 1) : c[k + 1] = Count(c[k], q[k + 1])
                 /\ FoldLeft(Count, s, q) = c[n]
    BY <1>0, CountChain
  <1> DEFINE H(k) == [i \in 1..(Len(h) + k) |-> IF i <= Len(h) THEN h[i] ELSE q[i - Len(h)]]
             P(k) == Honest(H(k), c[k]) /\ c[k].critical = s.critical /\ (k > 0 => c[k].quarantined = Active)
             Bad == {k \in 0..n : ~P(k)}
  <1>2. \A k \in 0..n : H(k) \in Seq(Obs) /\ Len(H(k)) = Len(h) + k
    <2>1. TAKE k \in 0..n
    <2>2. \A i \in 1..(Len(h) + k) : (IF i <= Len(h) THEN h[i] ELSE q[i - Len(h)]) \in Obs
      BY <1>0
    <2>3. H(k) \in [1..(Len(h) + k) -> Obs] /\ Len(h) + k \in Nat
      BY <1>0, <2>2
    <2> HIDE DEF H
    <2>4. QED
      BY <2>3
  <1>3. ASSUME Bad # {} PROVE FALSE
    <2>1. PICK k \in Bad : \A m \in Bad : k <= m
      <3>1. Bad \in SUBSET Nat
        OBVIOUS
      <3> HIDE DEF Bad
      <3>2. QED
        BY <1>3, <3>1, LeastNumber
    <2>2. k \in 0..n /\ ~P(k)
      <3> HIDE DEF P
      <3> QED BY <2>1
    <2>3. CASE k = 0
      <3>1. H(0) = h
        BY <1>0
      <3>2. P(0)
        <4> HIDE DEF H
        <4> QED BY <1>1, <3>1
      <3>3. QED
        <4> HIDE DEF P
        <4> QED BY <2>2, <2>3, <3>2
    <2>4. CASE k # 0
      <3> DEFINE m == k - 1
      <3>1. m \in 0..(n - 1) /\ m \in 0..n /\ m < k /\ k = m + 1 /\ k \in 1..n
        BY <2>2, <2>4
      <3>2. P(m)
        <4> HIDE DEF P, m
        <4> QED BY <2>1, <3>1
      <3> HIDE DEF m
      <3>3. c[k] = Count(c[m], q[k]) /\ q[k] \in Obs /\ c[m] \in Stats
        BY <1>1, <3>1, <3>2 DEF Honest
      <3>4. Extends(H(m), q[k], H(k))
        <4>1. \A i \in 1..(Len(h) + m) : H(k)[i] = H(m)[i]
          BY <1>0, <3>1
        <4>2. H(k)[Len(h) + k] = q[k]
          BY <1>0, <3>1
        <4>3. H(k) \in Seq(Obs) /\ Len(H(k)) = Len(h) + k /\ Len(H(m)) = Len(h) + m
          <5> HIDE DEF H
          <5> QED BY <1>2, <3>1
        <4> HIDE DEF H
        <4>4. QED
          BY <1>0, <3>1, <4>1, <4>2, <4>3 DEF Extends
      <3>5. Honest(H(k), c[k])
        <4> HIDE DEF H
        <4> QED BY <3>2, <3>3, <3>4, HonestGrows
      <3>6. c[k].critical = c[m].critical /\ c[k].quarantined = Active
        BY <3>3, CountFields
      <3>7. P(k)
        <4> HIDE DEF H
        <4> QED BY <3>2, <3>5, <3>6
      <3>8. QED
        <4> HIDE DEF P
        <4> QED BY <2>2, <3>7
    <2>5. QED
      BY <2>3, <2>4
  <1>4. P(n)
    <2> HIDE DEF P
    <2> QED BY <1>3
  <1>5. h \o q = H(n)
    <2>1. Len(q) = n /\ q \in Seq(Obs)
      OBVIOUS
    <2>2. h \o q \in Seq(Obs) /\ Len(h \o q) = Len(h) + n
      BY <1>0, <2>1
    <2>3. ASSUME NEW i \in 1..(Len(h) + n)
          PROVE  (h \o q)[i] = H(n)[i]
      BY <1>0, <2>1
    <2>4. h \o q = [i \in 1..(Len(h) + n) |-> (h \o q)[i]]
      <3> DEFINE w == h \o q
      <3>1. w \in Seq(Obs) /\ Len(w) = Len(h) + n
        BY <2>2
      <3> HIDE DEF w
      <3>2. w = [i \in 1..(Len(h) + n) |-> w[i]]
        BY <3>1
      <3>3. QED
        BY <3>2 DEF w
    <2>5. H(n) = [i \in 1..(Len(h) + n) |-> H(n)[i]]
      OBVIOUS
    <2> HIDE DEF H
    <2>6. QED
      BY <2>3, <2>4, <2>5
  <1>6. n = 0 => c[n] = s
    BY <1>1
  <1>7. QED
    <2> HIDE DEF H
    <2> QED BY <1>1, <1>4, <1>5, <1>6

-----------------------------------------------------------------------------
(* TestStats: the invariant *)

(* Of observations known by the same, only the last can still be stored: the
   others, as all that are not, were removed when they were old enough. *)
Remembered(h, k, t) ==
    /\ k \in SUBSET (1..Len(h))
    /\ \A i \in 1..Len(h) : i \in k \/ h[i].at + Retention <= t
    /\ \A i, j \in 1..Len(h) : (i < j /\ ObservationID(h[i]) = ObservationID(h[j])) => i \notin k

(* What a handler has read of one report. *)
Batch(b) == \E run \in {report.run : report \in Reports}, commit \in {report.commit : report \in Reports}, at \in Nat \ {0} :
               b \subseteq {[run |-> run, commit |-> commit, status |-> status, at |-> at] : status \in Statuses}

(* A handler that found the test worth a quarantine found it neither critical
   nor quarantined, unless an operator acted since. *)
Warranted(r) ==
    (reader[r].at = "auto" /\ reader[r].eligible) =>
       /\ stats.critical => "critical" \in reader[r].since
       /\ (Active /\ ward.by = "operator") => "quarantine" \in reader[r].since

StatsInv ==
    /\ now \in Nat \ {0}
    /\ Honest(history, stats)
    /\ Remembered(history, kept, now)
    /\ ward \in [by : {"none", "system", "operator"}, until : Int]
    /\ reader = [r \in Readers |-> reader[r]]
    /\ \A r \in Readers : /\ reader[r] = [at |-> reader[r].at, batch |-> reader[r].batch,
                                          eligible |-> reader[r].eligible, since |-> reader[r].since]
                          /\ reader[r].at = "record" => Batch(reader[r].batch)
                          /\ Warranted(r)
    /\ WardsTrue

LEMMA StatsStart ==
  ASSUME StatsInit
  PROVE  StatsInv
  <1>1. history = <<>> /\ stats = NoStats /\ Len(history) = 0 /\ 1..Len(history) = {}
    BY DEF StatsInit
  <1>2. RanIn(history) = {} /\ TurnsIn(history) = {} /\ \A kinds : HavingIn(history, kinds) = {}
    BY <1>1 DEF RanIn, TurnsIn, HavingIn
  <1>3. stats \in Stats
    BY <1>1 DEF NoStats, NoStatus, Stats, Classes
  <1>4. Totals(history, stats)
    <2>1. /\ HavingIn(history, {"passed"}) = {} /\ HavingIn(history, {"skipped"}) = {}
          /\ HavingIn(history, {"failed", "error"}) = {}
      BY <1>2
    <2>2. Cardinality({}) = 0
      BY FS_EmptySet
    <2>3. stats.total = 0 /\ stats.passes = 0 /\ stats.skipped = 0 /\ stats.failures = 0
      BY <1>1 DEF NoStats
    <2>4. /\ Cardinality(HavingIn(history, {"passed"})) = 0 /\ Cardinality(HavingIn(history, {"skipped"})) = 0
          /\ Cardinality(HavingIn(history, {"failed", "error"})) = 0 /\ Cardinality(RanIn(history)) = 0
      BY <1>2, <2>1, <2>2
    <2>5. QED
      BY <1>1, <2>3, <2>4 DEF Totals
  <1>5. Changes(history, stats) /\ Latest(history, stats) /\ Flaky(stats)
    BY <1>1, <1>2 DEF Changes, Latest, Flaky, NoStats, NoStatus
  <1>6. Ordered(history, stats)
    BY <1>1, <1>2, FS_EmptySet DEF Ordered, NoStats, NoStatus
  <1>7. Honest(history, stats) /\ Remembered(history, kept, now)
    <2>1. kept = {}
      BY DEF StatsInit
    <2>2. QED
      BY <1>1, <1>3, <1>4, <1>5, <1>6, <2>1 DEF Honest, Remembered
  <1>8. ward \in [by : {"none", "system", "operator"}, until : Int]
    BY DEF StatsInit, NoWard
  <1>9. WardsTrue
    BY DEF StatsInit, WardsTrue, Manifest, Active, NoStats
  <1>10. QED
    BY <1>7, <1>8, <1>9 DEF StatsInit, StatsInv, Warranted, NoReader

(* What is the same is known by the same. *)
LEMMA Identified ==
  ASSUME NEW o \in Obs, NEW p \in Obs, Same(o, p)
  PROVE  ObservationID(o) = ObservationID(p)
  BY DEF Same, ObservationID, Obs

(* What is recorded of a batch: what is not known, each once. *)
LEMMA NewOnesFacts ==
  ASSUME NEW b, Batch(b), NEW q \in SetToSeqs(NewOnes(b)), history \in Seq(Obs), Remembered(history, kept, now)
  PROVE  /\ \E n \in Nat : q \in [1..n -> Obs] /\ (n = 0 <=> q = <<>>)
         /\ Remembered(history \o q, kept \cup (Len(history) + 1)..(Len(history) + Len(q)), now)
  <1>1. PICK run \in {report.run : report \in Reports}, commit \in {report.commit : report \in Reports}, at \in Nat \ {0} :
           b \subseteq {[run |-> run, commit |-> commit, status |-> status, at |-> at] : status \in Statuses}
    BY DEF Batch
  <1> DEFINE All == {[run |-> run, commit |-> commit, status |-> status, at |-> at] : status \in Statuses}
             S == NewOnes(b)
             n == Cardinality(S)
  <1>2. IsFiniteSet(S)
    <2>1. IsFiniteSet(Statuses)
      <3>1. IsFiniteSet({"passed"})
        BY FS_Singleton
      <3>2. IsFiniteSet({"passed"} \cup {"failed"})
        BY <3>1, FS_AddElement
      <3>3. IsFiniteSet(({"passed"} \cup {"failed"}) \cup {"skipped"})
        BY <3>2, FS_AddElement
      <3>4. IsFiniteSet((({"passed"} \cup {"failed"}) \cup {"skipped"}) \cup {"error"})
        BY <3>3, FS_AddElement
      <3>5. Statuses = (({"passed"} \cup {"failed"}) \cup {"skipped"}) \cup {"error"}
        BY DEF Statuses
      <3>6. QED
        BY <3>4, <3>5
    <2>2. IsFiniteSet(All)
      <3> DEFINE f == [status \in Statuses |-> [run |-> run, commit |-> commit, status |-> status, at |-> at]]
      <3>1. IsFiniteSet({f[x] : x \in DOMAIN f})
        <4>1. IsFiniteSet(DOMAIN f)
          BY <2>1
        <4> HIDE DEF f
        <4>2. QED
          BY <4>1, FiniteImage
      <3>2. {f[x] : x \in DOMAIN f} = All
        OBVIOUS
      <3>3. QED
        BY <3>1, <3>2
    <2>3. S \subseteq All
      BY <1>1 DEF NewOnes
    <2>4. QED
      BY <2>2, <2>3, FS_Subset
  <1>3. n \in Nat
    BY <1>2, FS_CardinalityType
  <1>4. q \in [1..n -> S] /\ \A i, j \in 1..n : i # j => q[i] # q[j]
    BY DEF SetToSeqs
  <1>5. S \subseteq b /\ S \subseteq Obs /\ \A o \in S : \A i \in kept : ObservationID(history[i]) # ObservationID(o)
    <2>1. S \subseteq b
      BY DEF NewOnes
    <2>2. \A o \in All : o \in Obs
      BY DEF Obs
    <2>3. \A o \in S : \A i \in kept : ObservationID(history[i]) # ObservationID(o)
      BY DEF NewOnes
    <2>4. QED
      BY <1>1, <2>1, <2>2, <2>3
  <1>6. q \in [1..n -> Obs] /\ q \in Seq(Obs) /\ Len(q) = n
    <2>1. q \in [1..n -> Obs]
      BY <1>4, <1>5
    <2> HIDE DEF n
    <2>2. QED
      BY <1>3, <2>1
  <1>7. \A o, p \in S : o # p => ObservationID(o) # ObservationID(p)
    <2>1. \A o \in S : /\ o = [run |-> run, commit |-> commit, status |-> o.status, at |-> at]
      BY <1>1, <1>5
    <2>2. \A o \in S : ObservationID(o).status = o.status
      <3>1. SUFFICES ASSUME NEW o \in S
                     PROVE  ObservationID(o).status = o.status
        OBVIOUS
      <3>2. o = [run |-> run, commit |-> commit, status |-> o.status, at |-> at]
        BY <2>1
      <3>3. QED
        BY <3>2 DEF ObservationID
    <2>3. QED
      BY <2>1, <2>2
  <1> HIDE DEF n, S, All
  <1>8. Remembered(history \o q, kept \cup (Len(history) + 1)..(Len(history) + Len(q)), now)
    <2> DEFINE w == history \o q
               m == Len(history)
               K == kept \cup (m + 1)..(m + n)
    <2>1. m \in Nat /\ Len(w) = m + n
      BY <1>3, <1>6
    <2>2. \A i \in 1..m : w[i] = history[i]
      BY <1>6
    <2>3. \A i \in 1..(m + n) : i \notin 1..m => i - m \in 1..n /\ w[i] = q[i - m] /\ i \in (m + 1)..(m + n)
      BY <1>3, <1>6, <2>1
    <2>4. kept \in SUBSET (1..m)
      BY DEF Remembered
    <2> HIDE DEF w, m
    <2>5. K \in SUBSET (1..(m + n)) /\ \A i \in 1..m : i \in K <=> i \in kept
      BY <1>3, <2>1, <2>4
    <2>6. ASSUME NEW i \in 1..(m + n)
          PROVE  i \in K \/ w[i].at + Retention <= now
      <3>1. CASE i \in 1..m
        BY <2>2, <2>5, <3>1 DEF Remembered, m
      <3>2. CASE i \notin 1..m
        BY <2>3, <3>2
      <3>3. QED
        BY <3>1, <3>2
    <2>7. ASSUME NEW i \in 1..(m + n), NEW j \in 1..(m + n), i < j, ObservationID(w[i]) = ObservationID(w[j])
          PROVE  i \notin K
      <3>1. CASE i \in 1..m /\ j \in 1..m
        BY <2>2, <2>5, <2>7, <3>1 DEF Remembered, m
      <3>2. CASE i \in 1..m /\ j \notin 1..m
        <4>1. w[j] \in S
          BY <1>4, <2>3, <3>2
        <4>2. i \notin kept
          BY <1>5, <2>2, <2>7, <3>2, <4>1
        <4>3. QED
          BY <2>5, <3>2, <4>2
      <3>3. CASE i \notin 1..m
        <4>1. j \notin 1..m /\ i - m # j - m
          BY <1>3, <2>1, <2>7, <3>3
        <4>2. q[i - m] # q[j - m] /\ q[i - m] \in S /\ q[j - m] \in S
          BY <1>4, <2>3, <3>3, <4>1
        <4>3. QED
          BY <1>7, <2>3, <2>7, <3>3, <4>1, <4>2
      <3>4. QED
        BY <3>1, <3>2, <3>3
    <2> HIDE DEF K
    <2>8. Remembered(w, K, now)
      BY <2>1, <2>5, <2>6, <2>7 DEF Remembered
    <2>9. QED
      BY <1>6, <2>8 DEF w, K, m
  <1>9. n = 0 <=> q = <<>>
    BY <1>3, <1>6
  <1>10. QED
    BY <1>3, <1>6, <1>8, <1>9

IsReader(x) == x = [at |-> x.at, batch |-> x.batch, eligible |-> x.eligible, since |-> x.since]

(* Recording a report. *)
LEMMA RecordingKeeps ==
  ASSUME StatsInv, NEW r \in Readers, RecordTestObservations(r)
  PROVE  StatsInv'
  <1>1. /\ now \in Nat \ {0} /\ history \in Seq(Obs) /\ Honest(history, stats) /\ Remembered(history, kept, now) /\ WardsTrue
        /\ reader = [x \in Readers |-> reader[x]] /\ Batch(reader[r].batch)
    BY DEF StatsInv, RecordTestObservations, Honest
  <1>2. UNCHANGED <<now, ward, disregarded>>
    BY DEF RecordTestObservations
  <1>3. Active' <=> Active
    BY <1>2 DEF Active, NoWard
  <1>4. IsReader(NoReader) /\ NoReader.at = "idle"
    BY DEF IsReader, NoReader
  <1>5. ASSUME Honest(history', stats'), Remembered(history', kept', now'), stats'.critical = stats.critical,
               stats'.quarantined = stats.quarantined \/ stats'.quarantined = Active,
               NEW x, reader' = [reader EXCEPT ![r] = x], IsReader(x), x.at # "record",
               (x.at = "auto" /\ x.eligible) => (~stats'.critical /\ ~Active)
        PROVE  StatsInv'
    <2>1. WardsTrue'
      <3>1. Manifest' <=> Active
        BY <1>3 DEF Manifest
      <3>2. Active => ward # NoWard
        BY DEF Active
      <3>3. QED
        BY <1>1, <1>2, <1>5, <3>1, <3>2 DEF WardsTrue, Manifest, NoWard
    <2>2. \A y \in Readers : reader'[y] = IF y = r THEN x ELSE reader[y]
      BY <1>1, <1>5
    <2>3. reader' = [y \in Readers |-> reader'[y]]
      BY <1>1, <1>5
    <2>4. ASSUME NEW y \in Readers
          PROVE  IsReader(reader'[y]) /\ (reader'[y].at = "record" => Batch(reader'[y].batch)) /\ Warranted(y)'
      <3>1. CASE y = r
        BY <1>3, <1>5, <2>2, <3>1 DEF Warranted
      <3>2. CASE y # r
        <4>1. reader'[y] = reader[y]
          BY <2>2, <3>2
        <4>2. IsReader(reader[y]) /\ (reader[y].at = "record" => Batch(reader[y].batch)) /\ Warranted(y)
          BY DEF StatsInv, IsReader
        <4>3. Warranted(y)'
          BY <1>2, <1>3, <1>5, <4>1, <4>2 DEF Warranted
        <4>4. QED
          BY <4>1, <4>2, <4>3
      <3>3. QED
        BY <3>1, <3>2
    <2>5. now' \in Nat \ {0} /\ ward' \in [by : {"none", "system", "operator"}, until : Int]
      BY <1>1, <1>2 DEF StatsInv
    <2>6. \A y \in Readers : /\ reader'[y] = [at |-> reader'[y].at, batch |-> reader'[y].batch,
                                               eligible |-> reader'[y].eligible, since |-> reader'[y].since]
                             /\ reader'[y].at = "record" => Batch(reader'[y].batch)
                             /\ Warranted(y)'
      BY <2>4 DEF IsReader
    <2>7. Batch(0)' <=> Batch(0)
      BY DEF Batch
    <2>8. QED
      BY <1>5, <2>1, <2>3, <2>5, <2>6 DEF StatsInv, Batch, Honest, Remembered, Warranted
  <1>6. ASSUME NEW order \in SetToSeqs(NewOnes(reader[r].batch)),
               stats' = FoldLeft(Count, stats, order), history' = history \o order,
               kept' = kept \cup (Len(history) + 1)..(Len(history) + Len(order)),
               reader' = [reader EXCEPT ![r] = IF order = <<>> THEN NoReader ELSE Reply(stats')]
                 \/ reader' = [reader EXCEPT ![r] = NoReader]
        PROVE  StatsInv'
    <2>1. PICK n \in Nat : order \in [1..n -> Obs] /\ (n = 0 <=> order = <<>>)
      BY <1>1, NewOnesFacts
    <2>2. Remembered(history', kept', now')
      BY <1>1, <1>2, <1>6, NewOnesFacts
    <2>3. Honest(history', stats') /\ stats'.critical = stats.critical /\ (n = 0 => stats' = stats) /\ (n > 0 => stats'.quarantined = Active)
      BY <1>1, <1>6, <2>1, ReportCounted
    <2>4. stats'.quarantined = stats.quarantined \/ stats'.quarantined = Active
      BY <2>1, <2>3
    <2>5. CASE reader' = [reader EXCEPT ![r] = NoReader]
      BY <1>4, <1>5, <2>2, <2>3, <2>4, <2>5
    <2>6. CASE reader' = [reader EXCEPT ![r] = Reply(stats')] /\ order # <<>>
      <3>1. IsReader(Reply(stats')) /\ Reply(stats').at = "auto" /\ Reply(stats').eligible = Eligible(stats')
        <4> DEFINE e == Eligible(stats')
        <4>1. Reply(stats') = [NoReader EXCEPT !.at = "auto", !.eligible = e]
          BY DEF Reply
        <4> HIDE DEF e
        <4>2. Reply(stats') = [at |-> "auto", batch |-> {}, eligible |-> e, since |-> {}]
          BY <4>1 DEF NoReader
        <4>3. QED
          BY <4>2 DEF IsReader, e
      <3>2. Eligible(stats') => (~stats'.critical /\ ~stats'.quarantined)
        BY DEF Eligible
      <3>3. stats'.quarantined = Active
        BY <2>1, <2>3, <2>6
      <3>4. Reply(stats').eligible => (~stats'.critical /\ ~Active)
        BY <3>1, <3>2, <3>3
      <3>5. QED
        BY <1>5, <2>2, <2>3, <2>4, <2>6, <3>1, <3>4
    <2>7. QED
      BY <1>6, <2>5, <2>6
  <1>7. ASSUME UNCHANGED <<stats, history, kept>>, reader' = [reader EXCEPT ![r] = NoReader]
        PROVE  StatsInv'
    <2>1. Honest(history', stats') /\ Remembered(history', kept', now') /\ stats'.critical = stats.critical /\ stats'.quarantined = stats.quarantined
      BY <1>1, <1>2, <1>7
    <2>2. QED
      BY <1>4, <1>5, <1>7, <2>1
  <1>8. QED
    BY <1>6, <1>7 DEF RecordTestObservations

LEMMA IngestKeeps ==
  ASSUME StatsInv, NEW r \in Readers, NEW report \in Reports, Ingest(r, report)
  PROVE  StatsInv'
  <1> DEFINE batch == {o \in ParseReport(report) : o.status \in Statuses}
             x == IF report.cases = {} THEN NoReader ELSE [NoReader EXCEPT !.at = "record", !.batch = batch]
  <1>1. reader' = [reader EXCEPT ![r] = x] /\ UNCHANGED <<now, history, kept, stats, ward, disregarded>>
    BY DEF Ingest
  <1>2. now \in Nat \ {0} /\ reader = [y \in Readers |-> reader[y]]
    BY DEF StatsInv
  <1>3. Batch(batch)
    <2>1. \A o \in batch : o = [run |-> report.run, commit |-> report.commit, status |-> o.status, at |-> now]
      BY DEF ParseReport
    <2>2. report.run \in {q.run : q \in Reports} /\ report.commit \in {q.commit : q \in Reports}
      OBVIOUS
    <2>3. batch \subseteq {[run |-> report.run, commit |-> report.commit, status |-> status, at |-> now] : status \in Statuses}
      BY <2>1
    <2> HIDE DEF batch
    <2>4. QED
      BY <1>2, <2>2, <2>3 DEF Batch
  <1> HIDE DEF batch
  <1>4. x = NoReader \/ x = [at |-> "record", batch |-> batch, eligible |-> FALSE, since |-> {}]
    BY DEF NoReader
  <1>5. IsReader(x) /\ (x.at = "record" => Batch(x.batch)) /\ x.at # "auto"
    BY <1>3, <1>4 DEF IsReader, NoReader
  <1> HIDE DEF x
  <1>6. \A y \in Readers : reader'[y] = IF y = r THEN x ELSE reader[y]
    BY <1>1, <1>2
  <1>7. reader' = [y \in Readers |-> reader'[y]]
    BY <1>1, <1>2
  <1>8. ASSUME NEW y \in Readers
        PROVE  IsReader(reader'[y]) /\ (reader'[y].at = "record" => Batch(reader'[y].batch)) /\ Warranted(y)'
    <2>1. CASE y = r
      BY <1>5, <1>6, <2>1 DEF Warranted
    <2>2. CASE y # r
      <3>1. reader'[y] = reader[y]
        BY <1>6, <2>2
      <3>2. IsReader(reader[y]) /\ (reader[y].at = "record" => Batch(reader[y].batch)) /\ Warranted(y)
        BY DEF StatsInv, IsReader
      <3>3. Warranted(y)'
        BY <1>1, <3>1, <3>2 DEF Warranted, Active, NoWard
      <3>4. QED
        BY <3>1, <3>2, <3>3
    <2>3. QED
      BY <2>1, <2>2
  <1>9. WardsTrue' /\ Honest(history', stats') /\ Remembered(history', kept', now')
    BY <1>1 DEF StatsInv, WardsTrue, Manifest, Active, NoWard
  <1>10. QED
    BY <1>1, <1>7, <1>8, <1>9 DEF StatsInv, IsReader, Batch, Honest, Remembered, Warranted

(* What changes of the counts is only what operators say. *)
LEMMA FlagsOnly ==
  ASSUME NEW h, NEW s, Honest(h, s), NEW f, NEW b \in BOOLEAN,
         f = [s EXCEPT !.critical = b] \/ f = [s EXCEPT !.quarantined = b]
  PROVE  Honest(h, f)
  <1>1. s \in Stats
    BY DEF Honest
  <1>2. f \in Stats
    BY <1>1 DEF Stats
  <1>3. /\ f.total = s.total /\ f.passes = s.passes /\ f.skipped = s.skipped /\ f.failures = s.failures
        /\ f.transitions = s.transitions /\ f.recoveries = s.recoveries /\ f.last = s.last /\ f.seen = s.seen
        /\ f.class = s.class
    BY <1>1 DEF Stats
  <1>4. QED
    BY <1>2, <1>3 DEF Honest, Totals, Changes, Latest, Ordered, Flaky

(* Putting a quarantine on record. *)
LEMMA WardFacts ==
  ASSUME StatsInv, NEW by \in {"system", "operator"}, NEW until \in Int, until > now, PutWard(by, until)
  PROVE  /\ Honest(history, stats') /\ stats'.quarantined = TRUE /\ stats'.critical = stats.critical
         /\ ward' \in [by : {"none", "system", "operator"}, until : Int] /\ ward' # NoWard /\ ward'.by = by
  <1>1. Honest(history, stats) /\ stats \in Stats
    BY DEF StatsInv, Honest
  <1>2. stats' = [stats EXCEPT !.quarantined = TRUE] /\ ward' = [by |-> by, until |-> until]
    BY DEF PutWard
  <1>3. Honest(history, stats')
    BY <1>1, <1>2, FlagsOnly
  <1>4. stats'.quarantined = TRUE /\ stats'.critical = stats.critical
    BY <1>1, <1>2 DEF Stats
  <1>5. QED
    BY <1>2, <1>3, <1>4 DEF NoWard

LEMMA AutoKeeps ==
  ASSUME StatsInv, NEW r \in Readers, AutoQuarantine(r)
  PROVE  StatsInv'
  <1>1. /\ reader' = [reader EXCEPT ![r] = NoReader] /\ UNCHANGED <<now, history, kept>>
        /\ reader[r].at = "auto" /\ now \in Nat \ {0} /\ reader = [y \in Readers |-> reader[y]]
    BY DEF AutoQuarantine, StatsInv
  <1>2. IsReader(NoReader) /\ NoReader.at = "idle"
    BY DEF IsReader, NoReader
  <1>3. \A y \in Readers : reader'[y] = IF y = r THEN NoReader ELSE reader[y]
    BY <1>1
  <1>4. reader' = [y \in Readers |-> reader'[y]]
    BY <1>1
  <1>5. CASE UNCHANGED <<ward, stats, disregarded>>
    <2>1. ASSUME NEW y \in Readers
          PROVE  IsReader(reader'[y]) /\ (reader'[y].at = "record" => Batch(reader'[y].batch)) /\ Warranted(y)'
      <3>1. CASE y = r
        BY <1>2, <1>3, <3>1 DEF Warranted
      <3>2. CASE y # r
        <4>1. reader'[y] = reader[y]
          BY <1>3, <3>2
        <4>2. IsReader(reader[y]) /\ (reader[y].at = "record" => Batch(reader[y].batch)) /\ Warranted(y)
          BY DEF StatsInv, IsReader
        <4>3. Warranted(y)'
          BY <1>1, <1>5, <4>1, <4>2 DEF Warranted, Active, NoWard
        <4>4. QED
          BY <4>1, <4>2, <4>3
      <3>3. QED
        BY <3>1, <3>2
    <2>2. WardsTrue' /\ Honest(history', stats') /\ Remembered(history', kept', now')
      BY <1>1, <1>5 DEF StatsInv, WardsTrue, Manifest, Active, NoWard
    <2>3. QED
      BY <1>1, <1>4, <1>5, <2>1, <2>2 DEF StatsInv, IsReader, Batch, Honest, Remembered, Warranted
  <1>6. CASE /\ reader[r].eligible /\ PutWard("system", now + Quarantine)
             /\ disregarded' = (disregarded \/ \/ stats.critical /\ "critical" \notin reader[r].since
                                               \/ Active /\ ward.by = "operator" /\ "quarantine" \notin reader[r].since)
    <2>1. now + Quarantine \in Int /\ now + Quarantine > now
      BY <1>1, TestStatsAssumption
    <2>2. /\ Honest(history, stats') /\ stats'.quarantined = TRUE /\ stats'.critical = stats.critical
          /\ ward' \in [by : {"none", "system", "operator"}, until : Int] /\ ward' # NoWard /\ ward'.by = "system"
      BY <1>6, <2>1, WardFacts
    <2>3. ~disregarded'
      <3>1. Warranted(r) /\ ~disregarded
        BY DEF StatsInv, WardsTrue
      <3>2. QED
        BY <1>1, <1>6, <3>1 DEF Warranted
    <2>4. ASSUME NEW y \in Readers
          PROVE  IsReader(reader'[y]) /\ (reader'[y].at = "record" => Batch(reader'[y].batch)) /\ Warranted(y)'
      <3>1. CASE y = r
        BY <1>2, <1>3, <3>1 DEF Warranted
      <3>2. CASE y # r
        <4>1. reader'[y] = reader[y]
          BY <1>3, <3>2
        <4>2. IsReader(reader[y]) /\ (reader[y].at = "record" => Batch(reader[y].batch)) /\ Warranted(y)
          BY DEF StatsInv, IsReader
        <4>3. Warranted(y)'
          BY <2>2, <4>1, <4>2 DEF Warranted
        <4>4. QED
          BY <4>1, <4>2, <4>3
      <3>3. QED
        BY <3>1, <3>2
    <2>5. WardsTrue'
      BY <2>2, <2>3 DEF WardsTrue, NoWard
    <2>6. Honest(history', stats') /\ Remembered(history', kept', now')
      BY <1>1, <2>2 DEF StatsInv
    <2>7. QED
      BY <1>1, <1>4, <2>2, <2>4, <2>5, <2>6 DEF StatsInv, IsReader, Batch, Honest, Remembered, Warranted
  <1>7. QED
    BY <1>5, <1>6 DEF AutoQuarantine

(* What handlers at work notice of an operator. *)
LEMMA NoticeFacts ==
  ASSUME StatsInv, NEW what, Acts(what)
  PROVE  /\ UNCHANGED <<now, history, kept, disregarded>>
         /\ reader' = [y \in Readers |-> reader'[y]]
         /\ \A y \in Readers : /\ IsReader(reader'[y]) /\ (reader'[y].at = "record" => Batch(reader'[y].batch))
                               /\ reader'[y].at = reader[y].at /\ reader'[y].eligible = reader[y].eligible
                               /\ reader[y].at = "auto" => reader'[y].since = reader[y].since \cup {what}
  <1> DEFINE x(y) == IF reader[y].at \in {"idle", "record"} THEN reader[y] ELSE [reader[y] EXCEPT !.since = @ \cup {what}]
  <1>1. reader' = [y \in Readers |-> x(y)] /\ UNCHANGED <<now, history, kept, disregarded>>
    BY DEF Acts
  <1>2. ASSUME NEW y \in Readers
        PROVE  /\ IsReader(x(y)) /\ (x(y).at = "record" => Batch(x(y).batch))
               /\ x(y).at = reader[y].at /\ x(y).eligible = reader[y].eligible
               /\ reader[y].at = "auto" => x(y).since = reader[y].since \cup {what}
    <2>1. IsReader(reader[y]) /\ (reader[y].at = "record" => Batch(reader[y].batch))
      BY DEF StatsInv, IsReader
    <2> DEFINE old == reader[y]
    <2>2. old = [at |-> old.at, batch |-> old.batch, eligible |-> old.eligible, since |-> old.since]
      BY <2>1 DEF IsReader
    <2>3. CASE old.at \in {"idle", "record"}
      BY <2>1, <2>3
    <2>4. CASE old.at \notin {"idle", "record"}
      <3>1. x(y) = [at |-> old.at, batch |-> old.batch, eligible |-> old.eligible, since |-> old.since \cup {what}]
        <4>1. x(y) = [old EXCEPT !.since = @ \cup {what}]
          BY <2>4
        <4> HIDE DEF old
        <4>2. QED
          BY <2>2, <4>1
      <3>2. QED
        BY <2>4, <3>1 DEF IsReader
    <2>5. QED
      BY <2>3, <2>4
  <1> HIDE DEF x
  <1>3. \A y \in Readers : reader'[y] = x(y)
    BY <1>1
  <1>4. reader' = [y \in Readers |-> reader'[y]]
    BY <1>1, <1>3
  <1>5. QED
    BY <1>1, <1>2, <1>3, <1>4

LEMMA OperatorsKeep ==
  ASSUME StatsInv,
         \/ \E critical \in BOOLEAN : SetTestCritical(critical)
         \/ \E until \in 1..(MaxNow + Quarantine) : SetTestQuarantine(until)
         \/ RemoveTestQuarantine
  PROVE  StatsInv'
  <1>1. /\ Honest(history, stats) /\ stats \in Stats /\ Remembered(history, kept, now) /\ WardsTrue /\ now \in Nat \ {0}
        /\ ward \in [by : {"none", "system", "operator"}, until : Int] /\ \A y \in Readers : Warranted(y)
    BY DEF StatsInv, Honest
  <1>2. ASSUME NEW what, Acts(what), Honest(history, stats'), WardsTrue',
               ward' \in [by : {"none", "system", "operator"}, until : Int], \A y \in Readers : Warranted(y)'
        PROVE  StatsInv'
    <2>1. /\ UNCHANGED <<now, history, kept>> /\ reader' = [y \in Readers |-> reader'[y]]
          /\ \A y \in Readers : IsReader(reader'[y]) /\ (reader'[y].at = "record" => Batch(reader'[y].batch))
      BY <1>2, NoticeFacts
    <2>2. QED
      BY <1>1, <1>2, <2>1 DEF StatsInv, IsReader, Batch, Honest, Remembered, Warranted
  <1>3. ASSUME NEW critical \in BOOLEAN, SetTestCritical(critical)
        PROVE  StatsInv'
    <2>1. Acts("critical") /\ stats' = [stats EXCEPT !.critical = critical] /\ ward' = ward
      BY <1>3 DEF SetTestCritical
    <2>2. Honest(history, stats')
      BY <1>1, <2>1, FlagsOnly
    <2>3. stats'.quarantined = stats.quarantined
      BY <1>1, <2>1 DEF Stats
    <2>4. now' = now /\ disregarded' = disregarded
      BY <2>1, NoticeFacts
    <2>5. WardsTrue'
      BY <1>1, <2>1, <2>3, <2>4 DEF WardsTrue, Manifest, Active, NoWard
    <2>6. ASSUME NEW y \in Readers
          PROVE  Warranted(y)'
      <3>1. /\ reader'[y].at = reader[y].at /\ reader'[y].eligible = reader[y].eligible
            /\ reader[y].at = "auto" => reader'[y].since = reader[y].since \cup {"critical"}
        BY <2>1, NoticeFacts
      <3>2. Warranted(y)
        BY <1>1
      <3>3. QED
        BY <2>1, <2>4, <3>1, <3>2 DEF Warranted, Active, NoWard
    <2>7. QED
      BY <1>1, <1>2, <2>1, <2>2, <2>5, <2>6
  <1>4. ASSUME NEW until \in 1..(MaxNow + Quarantine), SetTestQuarantine(until)
        PROVE  StatsInv'
    <2>1. Acts("quarantine") /\ until > now /\ PutWard("operator", until)
      BY <1>4 DEF SetTestQuarantine
    <2>2. until \in Int
      BY <1>4, TestStatsAssumption
    <2>3. /\ Honest(history, stats') /\ stats'.quarantined = TRUE /\ stats'.critical = stats.critical
          /\ ward' \in [by : {"none", "system", "operator"}, until : Int] /\ ward' # NoWard
      BY <2>1, <2>2, WardFacts
    <2>4. WardsTrue'
      <3>1. disregarded' = disregarded
        BY <2>1, NoticeFacts
      <3>2. QED
        BY <1>1, <2>3, <3>1 DEF WardsTrue, NoWard
    <2>5. ASSUME NEW y \in Readers
          PROVE  Warranted(y)'
      <3>1. /\ reader'[y].at = reader[y].at /\ reader'[y].eligible = reader[y].eligible
            /\ reader[y].at = "auto" => reader'[y].since = reader[y].since \cup {"quarantine"}
        BY <2>1, NoticeFacts
      <3>2. Warranted(y)
        BY <1>1
      <3>3. QED
        BY <2>3, <3>1, <3>2 DEF Warranted
    <2>6. QED
      BY <1>2, <2>1, <2>3, <2>4, <2>5
  <1>5. ASSUME RemoveTestQuarantine
        PROVE  StatsInv'
    <2>1. Acts("release") /\ ward' = NoWard /\ stats' = [stats EXCEPT !.quarantined = FALSE]
      BY <1>5 DEF RemoveTestQuarantine
    <2>2. Honest(history, stats')
      BY <1>1, <2>1, FlagsOnly
    <2>3. stats'.quarantined = FALSE /\ stats'.critical = stats.critical
      BY <1>1, <2>1 DEF Stats
    <2>4. ~Active'
      BY <2>1 DEF Active, NoWard
    <2>5. WardsTrue'
      <3>1. disregarded' = disregarded
        BY <2>1, NoticeFacts
      <3>2. QED
        BY <1>1, <2>3, <2>4, <3>1 DEF WardsTrue, Manifest
    <2>6. ASSUME NEW y \in Readers
          PROVE  Warranted(y)'
      <3>1. /\ reader'[y].at = reader[y].at /\ reader'[y].eligible = reader[y].eligible
            /\ reader[y].at = "auto" => reader'[y].since = reader[y].since \cup {"release"}
        BY <2>1, NoticeFacts
      <3>2. Warranted(y)
        BY <1>1
      <3>3. QED
        BY <2>3, <2>4, <3>1, <3>2 DEF Warranted
    <2>7. ward' \in [by : {"none", "system", "operator"}, until : Int]
      BY <2>1 DEF NoWard
    <2>8. QED
      BY <1>2, <2>1, <2>2, <2>5, <2>6, <2>7
  <1>6. QED
    BY <1>3, <1>4, <1>5

LEMMA StatsKept ==
  ASSUME StatsInv, StatsStep \/ UNCHANGED statsVars
  PROVE  StatsInv'
  <1>1. /\ now \in Nat \ {0} /\ Honest(history, stats) /\ Remembered(history, kept, now) /\ WardsTrue
        /\ ward \in [by : {"none", "system", "operator"}, until : Int] /\ \A y \in Readers : Warranted(y)
    BY DEF StatsInv
  <1>2. ASSUME UNCHANGED <<history, stats, ward, reader, disregarded>>, now' = now \/ now' = now + 1,
               Remembered(history', kept', now')
        PROVE  StatsInv'
    <2>1. Active' => Active
      BY <1>1, <1>2 DEF Active, NoWard
    <2>2. WardsTrue'
      BY <1>1, <1>2, <2>1 DEF WardsTrue, Manifest, NoWard
    <2>3. \A y \in Readers : Warranted(y)'
      BY <1>1, <1>2, <2>1 DEF Warranted
    <2>4. now' \in Nat \ {0} /\ Honest(history', stats')
      BY <1>1, <1>2
    <2>5. /\ reader' = [y \in Readers |-> reader'[y]]
          /\ \A y \in Readers : IsReader(reader'[y]) /\ (reader'[y].at = "record" => Batch(reader'[y].batch))
      BY <1>2 DEF StatsInv, IsReader
    <2>6. QED
      BY <1>1, <1>2, <2>2, <2>3, <2>4, <2>5 DEF StatsInv, IsReader, Batch, Honest, Remembered, Warranted
  <1>3. \A i \in 1..Len(history) : history[i].at \in Nat
    <2>1. history \in Seq(Obs)
      BY <1>1 DEF Honest
    <2>2. \A i \in 1..Len(history) : history[i] \in Obs
      BY <2>1
    <2>3. QED
      BY <2>2 DEF Obs
  <1>4. CASE Tick
    <2>1. UNCHANGED <<history, kept, stats, ward, reader, disregarded>> /\ now' = now + 1
      BY <1>4 DEF Tick
    <2>2. Remembered(history', kept', now')
      BY <1>1, <1>3, <2>1, TestStatsAssumption DEF Remembered
    <2>3. QED
      BY <1>2, <2>1, <2>2
  <1>5. CASE Cleanup
    <2>1. UNCHANGED <<now, history, stats, ward, reader, disregarded>>
      BY <1>5 DEF Cleanup
    <2>2. PICK dropped \in SUBSET {i \in kept : history[i].at + Retention <= now} : kept' = kept \ dropped
      BY <1>5 DEF Cleanup
    <2>3. Remembered(history', kept', now')
      BY <1>1, <2>1, <2>2 DEF Remembered
    <2>4. QED
      BY <1>2, <2>1, <2>3
  <1>6. CASE UNCHANGED statsVars
    <2>1. UNCHANGED <<now, history, kept, stats, ward, reader, disregarded>>
      BY <1>6 DEF statsVars
    <2>2. QED
      BY <1>1, <1>2, <2>1
  <1>7. QED
    BY <1>4, <1>5, <1>6, IngestKeeps, RecordingKeeps, AutoKeeps, OperatorsKeep DEF StatsStep

(* Among the failures of a page a reader is shown no more than were counted, and
   all of them when nothing is cut. *)
LEMMA GroupsAddUp ==
  ASSUME NEW page \in ListTestObservations, NEW groups \in GroupFailureTypes(page),
         history \in Seq(Obs), kept \in SUBSET (1..Len(history))
  PROVE  LET counted(kind) == IF kind \in DOMAIN groups THEN groups[kind] ELSE 0
             sum == counted("failed") + counted("error") IN
         /\ sum <= Having({"failed", "error"})
         /\ (/\ kept = 1..Len(history) /\ Len(history) <= PageLimit
             /\ Cardinality(FailureKinds(kept)) <= GroupLimit) => sum = Having({"failed", "error"})
  <1> DEFINE counted(kind) == IF kind \in DOMAIN groups THEN groups[kind] ELSE 0
             P(kind) == {i \in page : history[i].status = kind}
             kinds == FailureKinds(page)
             all == HavingIn(history, {"failed", "error"})
  <1>1. Len(history) \in Nat /\ IsFiniteSet(1..Len(history)) /\ Cardinality(1..Len(history)) = Len(history)
    <2>1. Len(history) \in Nat
      OBVIOUS
    <2>2. QED
      BY <2>1, PositionsCount
  <1>2. page \in SUBSET kept /\ Cardinality(page) = Lesser(PageLimit, Cardinality(kept))
    BY DEF ListTestObservations, kSubset
  <1>3. IsFiniteSet(page) /\ IsFiniteSet(kept) /\ IsFiniteSet(all) /\ Cardinality(all) \in Nat
    <2>1. all \in SUBSET (1..Len(history))
      BY DEF HavingIn
    <2> HIDE DEF all
    <2>2. QED
      BY <1>1, <1>2, <2>1, FS_Subset, FS_CardinalityType
  <1>4. Having({"failed", "error"}) = Cardinality(all)
    BY DEF Having, HavingIn
  <1>5. PICK top \in kSubset(Lesser(GroupLimit, Cardinality(kinds)), kinds) :
           groups = [kind \in top |-> CountOf(page, kind)]
    BY DEF GroupFailureTypes
  <1>6. top \in SUBSET kinds /\ Cardinality(top) = Lesser(GroupLimit, Cardinality(kinds))
    BY <1>5 DEF kSubset
  <1>7. \A kind : IsFiniteSet(P(kind)) /\ Cardinality(P(kind)) \in Nat
    BY <1>3, FS_Subset, FS_CardinalityType
  <1>8. \A kind : counted(kind) = IF kind \in top THEN Cardinality(P(kind)) ELSE 0
    BY <1>5 DEF CountOf
  <1>9. /\ P("failed") \cup P("error") \in SUBSET all
        /\ Cardinality(P("failed") \cup P("error")) = Cardinality(P("failed")) + Cardinality(P("error"))
    <2>1. P("failed") \cup P("error") \in SUBSET all /\ P("failed") \cap P("error") = {}
      BY <1>2 DEF HavingIn
    <2> DEFINE A == P("failed")
               B == P("error")
    <2>2. IsFiniteSet(A) /\ IsFiniteSet(B) /\ Cardinality(A) \in Nat /\ Cardinality(B) \in Nat
      BY <1>7
    <2>3. A \cap B = {}
      BY <2>1
    <2> HIDE DEF A, B
    <2>4. Cardinality(A \cup B) = Cardinality(A) + Cardinality(B) - Cardinality(A \cap B) /\ Cardinality(A \cap B) = 0
      BY <2>2, <2>3, FS_Union, FS_EmptySet
    <2>5. Cardinality(A \cup B) = Cardinality(A) + Cardinality(B)
      BY <2>2, <2>4
    <2>6. QED
      BY <2>1, <2>5 DEF A, B
  <1>10. counted("failed") + counted("error") <= Cardinality(all)
    <2>1. Cardinality(P("failed")) + Cardinality(P("error")) <= Cardinality(all)
      <3> DEFINE U == P("failed") \cup P("error")
      <3>1. Cardinality(U) <= Cardinality(all)
        <4>1. U \in SUBSET all
          BY <1>9
        <4> HIDE DEF U, all
        <4>2. QED
          BY <1>3, <4>1, FS_Subset
      <3>2. QED
        BY <1>9, <3>1
    <2> DEFINE f == Cardinality(P("failed"))
               e == Cardinality(P("error"))
    <2>2. f \in Nat /\ e \in Nat
      BY <1>7
    <2>3. counted("failed") \in {0, f} /\ counted("error") \in {0, e}
      BY <1>8
    <2> HIDE DEF f, e, counted
    <2>4. f + e <= Cardinality(all)
      BY <2>1 DEF f, e
    <2> HIDE DEF all
    <2>5. QED
      BY <1>3, <2>2, <2>3, <2>4
  <1>11. ASSUME kept = 1..Len(history), Len(history) <= PageLimit, Cardinality(FailureKinds(kept)) <= GroupLimit
         PROVE  counted("failed") + counted("error") = Cardinality(all)
    <2>1. page = kept
      <3>1. Cardinality(kept) = Len(history)
        BY <1>1, <1>11
      <3>2. Cardinality(page) = Cardinality(kept)
        BY <1>1, <1>2, <1>11, <3>1, TestStatsAssumption DEF Lesser
      <3>3. QED
        BY <1>2, <1>3, <3>2, FS_Subset
    <2>2. top = kinds
      <3>1. IsFiniteSet(kinds) /\ Cardinality(kinds) \in Nat
        <4>1. IsFiniteSet({"failed", "error"})
          <5>1. IsFiniteSet({"failed"})
            BY FS_Singleton
          <5>2. IsFiniteSet({"failed"} \cup {"error"})
            BY <5>1, FS_AddElement
          <5>3. {"failed"} \cup {"error"} = {"failed", "error"}
            OBVIOUS
          <5>4. QED
            BY <5>2, <5>3
        <4>2. kinds \in SUBSET {"failed", "error"}
          BY DEF FailureKinds
        <4> HIDE DEF kinds
        <4>3. QED
          BY <4>1, <4>2, FS_Subset, FS_CardinalityType
      <3>2. Cardinality(kinds) <= GroupLimit
        BY <1>11, <2>1
      <3> HIDE DEF kinds
      <3>3. Cardinality(top) = Cardinality(kinds)
        BY <1>6, <3>1, <3>2, TestStatsAssumption DEF Lesser
      <3>4. QED
        BY <1>6, <3>1, <3>3, FS_Subset
    <2>3. ASSUME NEW kind \in {"failed", "error"}
          PROVE  counted(kind) = Cardinality(P(kind))
      <3>1. CASE kind \in kinds
        BY <1>8, <2>2, <3>1
      <3>2. CASE kind \notin kinds
        <4>1. P(kind) = {}
          BY <2>3, <3>2 DEF FailureKinds
        <4>2. counted(kind) = 0
          BY <1>8, <2>2, <3>2
        <4> HIDE DEF counted, P
        <4>3. QED
          BY <4>1, <4>2, FS_EmptySet
      <3>3. QED
        BY <3>1, <3>2
    <2>4. P("failed") \cup P("error") = all
      BY <1>11, <2>1 DEF HavingIn
    <2>5. QED
      <3>1. counted("failed") = Cardinality(P("failed")) /\ counted("error") = Cardinality(P("error"))
        BY <2>3
      <3> HIDE DEF counted, P, all
      <3>2. QED
        BY <1>9, <2>4, <3>1
  <1> HIDE DEF all
  <1>12. QED
    BY <1>4, <1>10, <1>11

(* The invariant says what the counts, the class and the quarantine promise. *)
LEMMA StatsAreHonest ==
  ASSUME StatsInv
  PROVE  StatsHonest
  <1>1. /\ history \in Seq(Obs) /\ stats \in Stats /\ Totals(history, stats) /\ Changes(history, stats)
        /\ Latest(history, stats) /\ Ordered(history, stats) /\ Flaky(stats) /\ Remembered(history, kept, now) /\ WardsTrue
    BY DEF StatsInv, Honest
  <1>2. Ran = RanIn(history) /\ Turns = TurnsIn(history) /\ (InOrder <=> OrderIn(history))
    <2>1. Ran = RanIn(history)
      BY DEF Ran, RanIn, Executed
    <2>2. QED
      BY <2>1 DEF Turns, TurnsIn, InOrder, OrderIn
  <1>3. \A kinds : Having(kinds) = Cardinality(HavingIn(history, kinds))
    BY DEF Having, HavingIn
  <1>4. Len(history) \in Nat /\ \A i \in 1..Len(history) : history[i] \in Obs
    BY <1>1
  <1>5. /\ \A i, j \in 1..Len(history) : (i < j /\ Same(history[i], history[j])) => i \notin kept
        /\ \A i \in 1..Len(history) : i \in kept \/ history[i].at + Retention <= now
    BY <1>1, <1>4, Identified DEF Remembered
  <1>6. /\ stats.passes = Having({"passed"}) /\ stats.skipped = Having({"skipped"}) /\ stats.failures = Having({"failed", "error"})
    BY <1>1, <1>3 DEF Totals
  <1>7. stats.transitions <= IF Ran = {} THEN 0 ELSE Cardinality(Ran) - 1
    BY <1>1, <1>2 DEF Changes
  <1>8. ASSUME InOrder
        PROVE  /\ stats.last = IF Ran = {} THEN NoStatus ELSE history[Max(Ran)].status
               /\ stats.transitions = Cardinality(Turns)
    <2>1. /\ RanIn(history) = {} => stats.last = "none"
          /\ RanIn(history) # {} => \E m \in RanIn(history) : stats.last = history[m].status /\ \A k \in RanIn(history) : k <= m
          /\ stats.transitions = Cardinality(TurnsIn(history))
      BY <1>1, <1>2, <1>8 DEF Ordered
    <2>2. ASSUME Ran # {}
          PROVE  stats.last = history[Max(Ran)].status
      <3>1. PICK m \in Ran : stats.last = history[m].status /\ \A k \in Ran : k <= m
        BY <1>2, <2>1, <2>2
      <3>2. Ran \in SUBSET Int
        BY <1>4 DEF Ran
      <3>3. Max(Ran) = m
        BY <3>1, <3>2, MaxIs
      <3>4. QED
        BY <3>1, <3>3
    <2>3. QED
      BY <1>2, <2>1, <2>2 DEF NoStatus
  <1>9. ASSUME Ran # {}, Ran = 1..Len(history)
        PROVE  \E i \in Ran : history[i].status = stats.last /\ \A j \in Ran : history[j].at <= history[i].at
    <2>1. Len(history) > 0
      BY <1>4, <1>9
    <2>2. PICK i \in 1..Len(history) : history[i].status = stats.last /\ history[i].at = stats.seen
      BY <1>1, <1>2, <1>9, <2>1 DEF Latest
    <2>3. QED
      BY <1>1, <1>9, <2>2 DEF Latest
  <1>10. CountsTrue
    BY <1>1, <1>5, <1>6, <1>7, <1>8, <1>9 DEF CountsTrue, Totals, Changes
  <1>11. stats.class = "flaky" => stats.passes > 0 /\ stats.failures > 0 /\ Cardinality(Ran) >= ConfirmAt
    BY <1>1, <1>2 DEF Flaky, Totals
  <1>12. ClassesTrue
    <2>1. kept \in SUBSET (1..Len(history))
      BY <1>1 DEF Remembered
    <2>2. QED
      BY <1>1, <1>6, <1>11, <2>1, GroupsAddUp DEF ClassesTrue
  <1>13. QED
    BY <1>1, <1>10, <1>12 DEF StatsHonest

-----------------------------------------------------------------------------
(* Verdicts *)

IsEntry(e) == e \in [fingerprint : {e.fingerprint}, category : {e.category}, cause : {e.cause}, sure : BOOLEAN,
                     since : Nat, until : Nat]
IsWord(w) == w \in [tenant : Tenants, fingerprint : {w.fingerprint}, cause : {w.cause}, until : Nat]
IsAnalyst(x) ==
    x \in [at : {x.at}, tenant : {x.tenant}, left : {x.left}, failure : {x.failure}, context : {x.context},
           result : {x.result}, told : {x.told}, first : {x.first}, best : {x.best}, retry : {x.retry},
           against : {x.against}]

VerdictTypes ==
    /\ hour \in Nat
    /\ DOMAIN memory = Tenants /\ \A t \in Tenants : \A e \in memory[t] : IsEntry(e)
    /\ \A w \in truth : IsWord(w)
    /\ DOMAIN analyst = Analysts /\ \A a \in Analysts : IsAnalyst(analyst[a])
    /\ \A a \in Analysts : analyst[a].at # "idle" => analyst[a].tenant \in Tenants
    /\ \A a \in Analysts : analyst[a].left \subseteq UNION Runs
    /\ \A r \in recorded : r.tenant \in Tenants

(* The memory has one entry for a failure. *)
OneEntry == \A t \in Tenants : \A d, e \in memory[t] : d.fingerprint = e.fingerprint => d = e

(* What was confirmed is in it, *)
WordsKept ==
    \A w \in truth : w.until > hour =>
      \E e \in memory[w.tenant] : e.fingerprint = w.fingerprint /\ e.sure /\ e.cause = w.cause /\ e.until >= w.until

(* and was said by a tenant of a verdict of its own. *)
WordsSourced ==
    /\ \A t \in Tenants : \A e \in memory[t] :
          e.sure => \E r \in recorded : r.tenant = t /\ r.fingerprint = e.fingerprint
    /\ adviser.at = "remember" => adviser.verdict \in recorded

(* What an analyst has in hand fits what it has found so far. *)
InHand ==
    \A a \in Analysts :
      LET x == analyst[a] IN
      /\ x.at \in {"first", "keep first", "look up", "second", "keep second", "record"} => x.failure \in UNION Runs
      /\ x.at = "first" => x.context = NoContext
      /\ x.at \in {"keep first", "look up", "second"} => x.first = Analyze(x.failure, NoContext).cause
      /\ x.at = "record" => x.told \in {"none", x.result.cause}
      /\ x.at \in {"keep first", "keep second"} => x.told \in {"none", x.result.cause}
      /\ ~(x.retry /\ x.against)

MemoryInv == VerdictTypes /\ OneEntry /\ WordsKept /\ WordsSourced
VerdictInv == MemoryInv /\ InHand /\ ~ignored

(* At the start nothing is known and nobody is at work. *)
LEMMA VerdictsStart ==
  ASSUME VerdictInit
  PROVE  VerdictInv
  BY DEF VerdictInit, VerdictInv, MemoryInv, VerdictTypes, OneEntry, WordsKept, WordsSourced, InHand,
         NoAnalyst, NoAdvice, IsAnalyst

(* Whatever is kept, no word of a tenant is lost that there is room for. *)
LEMMA PutKeeps ==
  ASSUME MemoryInv, NEW t \in Tenants, NEW new, IsEntry(new), Put(t, new), UNCHANGED hour,
         new.sure => \E r \in recorded : r.tenant = t /\ r.fingerprint = new.fingerprint
  PROVE  /\ DOMAIN memory' = Tenants /\ \A u \in Tenants : \A e \in memory'[u] : IsEntry(e)
         /\ \A w \in truth' : IsWord(w)
         /\ OneEntry' /\ WordsKept'
         /\ \A u \in Tenants : \A e \in memory'[u] :
               e.sure => \E r \in recorded : r.tenant = u /\ r.fingerprint = e.fingerprint
  <1> DEFINE entries == Fresh(memory[t])
             stands == {e \in entries : e.fingerprint = new.fingerprint /\ Stands(e, new)}
             full == Full(entries)
             renewed(e) == [e EXCEPT !.since = new.since, !.until = new.until]
             mine(spared) == {e \in spared : e.fingerprint # new.fingerprint}
                              \cup (IF stands = {} THEN {new} ELSE {renewed(e) : e \in stands})
             lost(w, spared) == w.tenant = t /\ full /\ \A e \in spared : e.fingerprint # w.fingerprint
             told(w) == w.tenant = t /\ w.fingerprint = new.fingerprint
             valid(spared) == {w \in truth : w.until > hour /\ ~lost(w, spared)}
             longer(w) == [w EXCEPT !.until = new.until]
             said == [tenant |-> t, fingerprint |-> new.fingerprint, cause |-> new.cause, until |-> new.until]
  <1>1. PICK spared \in (IF stands # {} THEN {entries} ELSE Room(entries)) :
           /\ memory' = [memory EXCEPT ![t] = mine(spared)]
           /\ truth' = {w \in valid(spared) : ~told(w)}
                          \cup (IF new.sure THEN {said} ELSE {longer(w) : w \in {v \in valid(spared) : told(v)}})
    BY DEF Put
  <1>2. /\ \A u \in Tenants : \A e \in memory[u] : IsEntry(e)
        /\ \A w \in truth : IsWord(w)
        /\ hour \in Nat /\ DOMAIN memory = Tenants
    BY DEF MemoryInv, VerdictTypes
  <1>3. entries \subseteq memory[t] /\ \A e \in memory[t] : e \in entries <=> e.until > hour
    BY DEF Fresh
  <1>4. spared \subseteq entries /\ (stands # {} => spared = entries) /\ (~full => spared = entries)
    <2>2. CASE stands # {}
      BY <1>1, <2>2
    <2>3. CASE stands = {}
      <3> HIDE DEF stands, entries
      <3>1. spared \in Room(entries)
        BY <1>1, <2>3
      <3>2. spared \subseteq entries /\ (~full => spared = entries)
        BY <3>1 DEF Room
      <3>3. QED
        BY <2>3, <3>2
    <2>4. QED
      BY <2>2, <2>3
  <1>5. \A e : IsEntry(e) => IsEntry(renewed(e)) /\ renewed(e).fingerprint = e.fingerprint /\ renewed(e).sure = e.sure
                             /\ renewed(e).cause = e.cause /\ renewed(e).until = new.until
    BY DEF IsEntry
  <1>6. \A w : IsWord(w) => IsWord(longer(w)) /\ longer(w).tenant = w.tenant /\ longer(w).cause = w.cause
                            /\ longer(w).fingerprint = w.fingerprint /\ longer(w).until = new.until
    BY DEF IsWord, IsEntry
  <1>7. IsWord(said)
    BY DEF IsWord, IsEntry
  <1>8. stands \subseteq memory[t] /\ \A e \in stands : e.sure /\ ~new.sure /\ e.fingerprint = new.fingerprint
    BY <1>3 DEF Stands
  <1>9. \A e \in memory[t] : e.until > hour /\ e.fingerprint = new.fingerprint /\ e.sure /\ ~new.sure => e \in stands
    BY <1>3 DEF Stands
  <1>10. \A u \in Tenants : memory'[u] = IF u = t THEN mine(spared) ELSE memory[u]
    BY <1>1, <1>2
  <1>11. DOMAIN memory' = Tenants
    BY <1>1, <1>2
  <1> HIDE DEF stands, entries, full, renewed, longer, said
  <1>12. \A u \in Tenants : \A e \in memory'[u] : IsEntry(e)
    <2>1. \A e \in stands : IsEntry(renewed(e))
      BY <1>2, <1>5, <1>8
    <2>2. \A e \in spared : IsEntry(e)
      BY <1>2, <1>3, <1>4
    <2>3. \A e \in mine(spared) : IsEntry(e)
      BY <2>1, <2>2
    <2>4. QED
      <3> HIDE DEF mine
      <3> QED BY <1>2, <1>10, <2>3
  <1>13. \A w \in truth' : IsWord(w)
    BY <1>1, <1>2, <1>6, <1>7
  <1>14. OneEntry'
    <2>1. \A d, e \in memory[t] : d.fingerprint = e.fingerprint => d = e
      BY DEF MemoryInv, OneEntry
    <2>2. \A d, e \in mine(spared) : d.fingerprint = e.fingerprint => d = e
      BY <1>2, <1>3, <1>4, <1>5, <1>8, <2>1
    <2>3. \A u \in Tenants : \A d, e \in memory'[u] : d.fingerprint = e.fingerprint => d = e
      <3> HIDE DEF mine
      <3> QED BY <1>10, <2>2 DEF MemoryInv, OneEntry
    <2>4. QED
      BY <2>3 DEF OneEntry
  <1>15. WordsKept'
    <2>1. SUFFICES ASSUME NEW w \in truth', w.until > hour
                   PROVE  \E e \in memory'[w.tenant] : /\ e.fingerprint = w.fingerprint /\ e.sure
                                                       /\ e.cause = w.cause /\ e.until >= w.until
      BY DEF WordsKept
    <2>2. new.until \in Nat
      BY DEF IsEntry
    <2>3. ASSUME NEW v \in valid(spared)
          PROVE  /\ v \in truth /\ IsWord(v) /\ v.tenant \in Tenants
                 /\ \E e \in memory[v.tenant] : /\ e.fingerprint = v.fingerprint /\ e.sure /\ e.cause = v.cause
                                                /\ e.until >= v.until /\ IsEntry(e) /\ e.until > hour
      <3>1. v \in truth /\ IsWord(v) /\ v.tenant \in Tenants /\ v.until > hour /\ v.until \in Nat
        BY <1>2 DEF IsWord
      <3>2. PICK e \in memory[v.tenant] : e.fingerprint = v.fingerprint /\ e.sure /\ e.cause = v.cause /\ e.until >= v.until
        BY <3>1 DEF MemoryInv, WordsKept
      <3>3. IsEntry(e)
        BY <1>2, <3>1
      <3>4. e.until \in Nat
        BY <3>3 DEF IsEntry
      <3>5. e.until > hour
        BY <1>2, <3>1, <3>2, <3>4
      <3>6. QED
        BY <3>1, <3>2, <3>3, <3>5
    <2>4. CASE w \in {v \in valid(spared) : ~told(v)}
      <3>1. PICK e \in memory[w.tenant] : /\ e.fingerprint = w.fingerprint /\ e.sure /\ e.cause = w.cause
                                          /\ e.until >= w.until /\ IsEntry(e) /\ e.until > hour
        BY <2>3, <2>4
      <3>2. w.tenant \in Tenants
        BY <2>3, <2>4
      <3>3. CASE w.tenant # t
        BY <1>10, <3>1, <3>2, <3>3
      <3>4. CASE w.tenant = t
        <4>1. e \in entries /\ e.fingerprint # new.fingerprint
          BY <1>3, <2>4, <3>1, <3>4
        <4>2. e \in spared
          <5>1. CASE ~full
            BY <1>4, <4>1, <5>1
          <5>2. CASE full
            <6>1. PICK d \in spared : d.fingerprint = w.fingerprint
              BY <2>4, <3>4, <5>2
            <6>2. d = e
              BY <1>3, <1>4, <3>1, <3>4, <6>1 DEF MemoryInv, OneEntry
            <6>3. QED
              BY <6>1, <6>2
          <5>3. QED
            BY <5>1, <5>2
        <4>3. QED
          BY <1>10, <3>1, <3>4, <4>1, <4>2
      <3>5. QED
        BY <3>3, <3>4
    <2>5. CASE new.sure /\ w = said
      <3>1. stands = {}
        BY <1>8, <2>5
      <3>2. new \in memory'[t] /\ w.tenant = t /\ new.fingerprint = w.fingerprint /\ new.cause = w.cause /\ new.until = w.until
        BY <1>10, <2>5, <3>1 DEF said
      <3>3. QED
        BY <2>2, <2>5, <3>2
    <2>6. CASE \E v \in valid(spared) : ~new.sure /\ told(v) /\ w = longer(v)
      <3>1. PICK v \in valid(spared) : ~new.sure /\ told(v) /\ w = longer(v)
        BY <2>6
      <3>2. PICK e \in memory[v.tenant] : /\ e.fingerprint = v.fingerprint /\ e.sure /\ e.cause = v.cause
                                          /\ e.until >= v.until /\ IsEntry(e) /\ e.until > hour
        BY <2>3
      <3>3. IsWord(v) /\ v.tenant = t
        BY <2>3, <3>1
      <3>4. e \in stands
        BY <1>9, <3>1, <3>2, <3>3
      <3>5. renewed(e) \in memory'[t]
        BY <1>10, <3>4
      <3>6. w.tenant = t /\ w.cause = v.cause /\ w.fingerprint = v.fingerprint /\ w.until = new.until
        BY <1>6, <3>1, <3>3
      <3>7. /\ renewed(e).fingerprint = w.fingerprint /\ renewed(e).sure /\ renewed(e).cause = w.cause
            /\ renewed(e).until = w.until
        BY <1>5, <3>2, <3>6
      <3>8. QED
        BY <2>2, <3>5, <3>6, <3>7
    <2>7. QED
      <3>1. w \in {v \in valid(spared) : ~told(v)} \/ (new.sure /\ w = said)
              \/ \E v \in valid(spared) : ~new.sure /\ told(v) /\ w = longer(v)
        <4> HIDE DEF valid, told
        <4> QED BY <1>1, <2>1
      <3> HIDE DEF valid, told
      <3>2. QED
        BY <2>4, <2>5, <2>6, <3>1
  <1>16. \A u \in Tenants : \A e \in memory'[u] :
            e.sure => \E r \in recorded : r.tenant = u /\ r.fingerprint = e.fingerprint
    <2>1. \A u \in Tenants : \A e \in memory[u] :
            e.sure => \E r \in recorded : r.tenant = u /\ r.fingerprint = e.fingerprint
      BY DEF MemoryInv, WordsSourced
    <2>2. \A e \in mine(spared) : e.sure => \E r \in recorded : r.tenant = t /\ r.fingerprint = e.fingerprint
      <3>1. \A e \in spared : e.sure => \E r \in recorded : r.tenant = t /\ r.fingerprint = e.fingerprint
        BY <1>3, <1>4, <2>1
      <3>2. \A e \in stands : renewed(e).sure => \E r \in recorded : r.tenant = t /\ r.fingerprint = renewed(e).fingerprint
        BY <1>2, <1>5, <1>8, <2>1
      <3>3. QED
        BY <3>1, <3>2
    <2>3. QED
      <3> HIDE DEF mine
      <3> QED BY <1>10, <2>1, <2>2
  <1>17. QED
    BY <1>11, <1>12, <1>13, <1>14, <1>15, <1>16

(* A step that leaves the memory alone keeps what is known of it. *)
LEMMA MemoryStays ==
  ASSUME MemoryInv, UNCHANGED <<memory, truth>>, hour' \in Nat, hour' >= hour,
         \A r \in recorded : r \in recorded', \A r \in recorded' : r.tenant \in Tenants,
         DOMAIN analyst' = Analysts,
         \A a \in Analysts : /\ IsAnalyst(analyst'[a]) /\ analyst'[a].left \subseteq UNION Runs
                             /\ analyst'[a].at # "idle" => analyst'[a].tenant \in Tenants,
         adviser'.at = "remember" => adviser'.verdict \in recorded'
  PROVE  MemoryInv'
  <1>1. VerdictTypes'
    BY DEF MemoryInv, VerdictTypes
  <1>2. OneEntry'
    BY DEF MemoryInv, OneEntry
  <1>3. WordsKept'
    <2>1. SUFFICES ASSUME NEW w \in truth, w.until > hour'
                   PROVE  \E e \in memory[w.tenant] : /\ e.fingerprint = w.fingerprint /\ e.sure
                                                      /\ e.cause = w.cause /\ e.until >= w.until
      BY DEF WordsKept
    <2>2. w.until \in Nat /\ hour \in Nat
      BY DEF MemoryInv, VerdictTypes, IsWord
    <2>3. w.until > hour
      BY <2>1, <2>2
    <2>4. QED
      BY <2>3 DEF MemoryInv, WordsKept
  <1>4. WordsSourced'
    BY DEF MemoryInv, WordsSourced
  <1>5. QED
    BY <1>1, <1>2, <1>3, <1>4 DEF MemoryInv

(* The same, of a step of an analyst only. *)
LEMMA MemoryFramed ==
  ASSUME MemoryInv, UNCHANGED <<hour, memory, truth, adviser, recorded>>, DOMAIN analyst' = Analysts,
         \A a \in Analysts : /\ IsAnalyst(analyst'[a]) /\ analyst'[a].left \subseteq UNION Runs
                             /\ analyst'[a].at # "idle" => analyst'[a].tenant \in Tenants
  PROVE  MemoryInv'
  BY MemoryStays DEF MemoryInv, VerdictTypes, WordsSourced

(* A run is taken up with nothing in hand. *)
LEMMA StartRunKeeps ==
  ASSUME VerdictInv, NEW a \in Analysts, NEW t \in Tenants, NEW run \in Runs, StartRun(a, t, run)
  PROVE  VerdictInv'
  <1> DEFINE x == [NoAnalyst EXCEPT !.tenant = t]
             y == NextFailure(x, run)
  <1>1. /\ IsAnalyst(y) /\ y.tenant = t /\ y.left \subseteq UNION Runs /\ ~y.retry /\ y.at \in {"rerun", "first"}
        /\ y.at = "first" => y.failure \in UNION Runs /\ y.context = NoContext
    BY DEF NextFailure, NoAnalyst, IsAnalyst
  <1> HIDE DEF y
  <1>2. analyst' = [analyst EXCEPT ![a] = y] /\ UNCHANGED <<memory, truth, hour, adviser, recorded, ignored>>
    BY DEF StartRun, VerdictFrame, y
  <1>3. DOMAIN analyst = Analysts
    BY DEF VerdictInv, MemoryInv, VerdictTypes
  <1>4. MemoryInv'
    BY <1>1, <1>2, <1>3, MemoryStays DEF VerdictInv, MemoryInv, VerdictTypes, WordsSourced
  <1>5. InHand'
    BY <1>1, <1>2, <1>3 DEF VerdictInv, InHand
  <1>6. QED
    BY <1>2, <1>4, <1>5 DEF VerdictInv

(* A verdict of a failure that a tenant has told of is the one it told. *)
LEMMA RecalledAsTold ==
  ASSUME VerdictInv, NEW t \in Tenants, NEW fp, NEW f, NEW c
  PROVE  LET r == Recalled(Analyze(f, c), Get(t, fp)) IN Told(t, fp) \in {"none", r.cause}
  <1> DEFINE found == Analyze(f, c)
             entries == Get(t, fp)
  <1>1. CASE Counting(t, fp) = {}
    BY <1>1 DEF Told
  <1>2. CASE Counting(t, fp) # {}
    <2>1. Told(t, fp) \in Counting(t, fp)
      BY <1>2 DEF Told
    <2>2. PICK w \in truth : w.tenant = t /\ w.fingerprint = fp /\ w.until > hour /\ w.cause = Told(t, fp)
      BY <2>1 DEF Counting
    <2>3. PICK e \in memory[t] : e.fingerprint = fp /\ e.sure /\ e.cause = w.cause /\ e.until >= w.until
      BY <2>2 DEF VerdictInv, MemoryInv, WordsKept
    <2>4. e.until \in Nat /\ w.until \in Nat /\ hour \in Nat
      BY <2>2, <2>3 DEF VerdictInv, MemoryInv, VerdictTypes, IsEntry, IsWord
    <2>5. e \in entries
      BY <2>2, <2>3, <2>4 DEF Get, Fresh
    <2>6. \A d \in entries : d = e
      BY <2>3 DEF Get, Fresh, VerdictInv, MemoryInv, OneEntry
    <2>7. (CHOOSE d \in entries : TRUE) = e
      BY <2>5, <2>6
    <2>8. found = [category |-> found.category, cause |-> found.cause, confidence |-> found.confidence,
                   score |-> found.score, incident |-> found.incident]
      BY DEF Analyze
    <2> HIDE DEF found, entries
    <2>9. Recalled(found, entries) =
             [found EXCEPT !.category = e.category, !.cause = e.cause,
                           !.confidence = IF @ = "insufficient" THEN "moderate" ELSE @]
      BY <2>3, <2>5, <2>7 DEF Recalled
    <2>10. Recalled(found, entries).cause = e.cause
      BY <2>8, <2>9
    <2>11. QED
      BY <2>2, <2>3, <2>10 DEF found, entries
  <1>3. QED
    BY <1>1, <1>2

(* A verdict is found, and made to fit what its tenant told of the failure. *)
LEMMA RecallKeeps ==
  ASSUME VerdictInv, NEW a \in Analysts, Recall(a)
  PROVE  VerdictInv'
  <1> DEFINE x == analyst[a]
             f == x.failure
             found == Analyze(f, x.context)
             y == analyst'[a]
  <1>1. /\ x.at \in {"first", "second"} /\ IsAnalyst(x) /\ DOMAIN analyst = Analysts /\ x.tenant \in Tenants
        /\ x.left \subseteq UNION Runs /\ f \in UNION Runs /\ ~(x.retry /\ x.against)
        /\ x.at = "first" => x.context = NoContext
        /\ x.at = "second" => x.first = Analyze(f, NoContext).cause
    BY DEF Recall, VerdictInv, MemoryInv, VerdictTypes, InHand
  <1>2. /\ analyst' = [analyst EXCEPT ![a].at = IF x.at = "first" THEN "keep first" ELSE "keep second",
                                      ![a].result = Recalled(found, Get(x.tenant, f.fingerprint)),
                                      ![a].first = IF x.at = "first" THEN found.cause ELSE @,
                                      ![a].told = Told(x.tenant, f.fingerprint)]
        /\ ignored' = (ignored \/ (x.at = "second" /\ x.first = "external" /\ found.cause # "external"))
        /\ UNCHANGED <<memory, truth, hour, adviser, recorded>>
    BY DEF Recall, VerdictFrame
  <1>3. Told(x.tenant, f.fingerprint) \in {"none", Recalled(found, Get(x.tenant, f.fingerprint)).cause}
    BY <1>1, RecalledAsTold
  <1> HIDE DEF found
  <1>4. /\ IsAnalyst(y) /\ y.tenant = x.tenant /\ y.left = x.left /\ y.retry = x.retry /\ y.against = x.against
        /\ y.failure = f /\ y.context = x.context
        /\ y.at = IF x.at = "first" THEN "keep first" ELSE "keep second"
        /\ y.result = Recalled(found, Get(x.tenant, f.fingerprint)) /\ y.told = Told(x.tenant, f.fingerprint)
        /\ y.first = IF x.at = "first" THEN found.cause ELSE x.first
        /\ DOMAIN analyst' = Analysts /\ \A b \in Analysts : b # a => analyst'[b] = analyst[b]
    BY <1>1, <1>2 DEF IsAnalyst
  <1> HIDE DEF y
  <1>5. MemoryInv'
    <2>1. \A b \in Analysts : /\ IsAnalyst(analyst'[b]) /\ analyst'[b].left \subseteq UNION Runs
                              /\ analyst'[b].at # "idle" => analyst'[b].tenant \in Tenants
      BY <1>1, <1>4 DEF VerdictInv, MemoryInv, VerdictTypes, y
    <2>2. QED
      BY <1>2, <1>4, <2>1, MemoryFramed DEF VerdictInv
  <1>6. InHand'
    <2>1. x.at = "first" => found.cause = Analyze(f, NoContext).cause
      BY <1>1 DEF found
    <2>2. /\ y.at \in {"first", "keep first", "look up", "second", "keep second", "record"} => y.failure \in UNION Runs
          /\ y.at = "first" => y.context = NoContext
          /\ y.at \in {"keep first", "look up", "second"} => y.first = Analyze(y.failure, NoContext).cause
          /\ y.at = "record" => y.told \in {"none", y.result.cause}
          /\ y.at \in {"keep first", "keep second"} => y.told \in {"none", y.result.cause}
          /\ ~(y.retry /\ y.against)
      BY <1>1, <1>3, <1>4, <2>1
    <2>3. QED
      BY <1>4, <2>2 DEF VerdictInv, InHand, y
  <1>7. ~ignored'
    <2>1. ASSUME x.at = "second", x.first = "external"
          PROVE  found.cause = "external"
      <3>1. IsFiniteSet(f.rules) /\ \A r \in f.rules : r.weight \in Int
        BY <1>1, VerdictsAssumption
      <3>2. Analyze(f, NoContext).cause = "external"
        BY <1>1, <2>1
      <3>3. QED
        BY <3>1, <3>2, StillExternal DEF found
    <2>2. QED
      BY <1>2, <2>1 DEF VerdictInv
  <1>8. QED
    BY <1>5, <1>6, <1>7 DEF VerdictInv

(* A verdict that is found is kept, and displaces no word of a tenant. *)
LEMMA KeepKeeps ==
  ASSUME VerdictInv, NEW a \in Analysts, Keep(a)
  PROVE  VerdictInv'
  <1> DEFINE x == analyst[a]
             y == analyst'[a]
             new == Entry(x.failure.fingerprint, x.result.category, x.result.cause, FALSE)
  <1>1. /\ x.at \in {"keep first", "keep second"} /\ IsAnalyst(x) /\ DOMAIN analyst = Analysts /\ x.tenant \in Tenants
        /\ x.left \subseteq UNION Runs
    BY DEF Keep, VerdictInv, MemoryInv, VerdictTypes
  <1>2. /\ Put(x.tenant, new) \/ UNCHANGED <<memory, truth>>
        /\ analyst' = [analyst EXCEPT ![a].at = IF x.at = "keep first" THEN "look up" ELSE "record"]
        /\ UNCHANGED <<hour, adviser, recorded>> /\ UNCHANGED ignored
    BY DEF Keep, VerdictFrame
  <1>3. IsEntry(new) /\ ~new.sure
    <2>1. hour \in Nat
      BY DEF VerdictInv, MemoryInv, VerdictTypes
    <2>2. QED
      BY <2>1, VerdictsAssumption DEF Entry, IsEntry
  <1> HIDE DEF new
  <1>4. /\ y = [x EXCEPT !.at = IF x.at = "keep first" THEN "look up" ELSE "record"]
        /\ DOMAIN analyst' = Analysts /\ \A b \in Analysts : b # a => analyst'[b] = analyst[b]
    BY <1>1, <1>2
  <1>5. /\ IsAnalyst(y) /\ y.tenant = x.tenant /\ y.left = x.left /\ y.retry = x.retry /\ y.against = x.against
        /\ y.failure = x.failure /\ y.first = x.first /\ y.told = x.told /\ y.result = x.result
        /\ y.at = IF x.at = "keep first" THEN "look up" ELSE "record"
    BY <1>1, <1>4 DEF IsAnalyst
  <1>a. DOMAIN analyst' = Analysts /\ \A b \in Analysts : b # a => analyst'[b] = analyst[b]
    BY <1>4
  <1> HIDE DEF y
  <1>6. \A b \in Analysts : /\ IsAnalyst(analyst'[b]) /\ analyst'[b].left \subseteq UNION Runs
                            /\ analyst'[b].at # "idle" => analyst'[b].tenant \in Tenants
    BY <1>1, <1>a, <1>5 DEF VerdictInv, MemoryInv, VerdictTypes, y
  <1>7. MemoryInv'
    <2>1. CASE UNCHANGED <<memory, truth>>
      BY <1>2, <1>a, <1>6, <2>1, MemoryFramed DEF VerdictInv
    <2>2. CASE Put(x.tenant, new)
      <3>1. MemoryInv
        BY DEF VerdictInv
      <3> HIDE DEF x
      <3>2. /\ DOMAIN memory' = Tenants /\ \A u \in Tenants : \A e \in memory'[u] : IsEntry(e)
            /\ \A w \in truth' : IsWord(w)
            /\ OneEntry' /\ WordsKept'
            /\ \A u \in Tenants : \A e \in memory'[u] :
                  e.sure => \E r \in recorded : r.tenant = u /\ r.fingerprint = e.fingerprint
        BY <1>1, <1>2, <1>3, <2>2, <3>1, PutKeeps
      <3>3. UNCHANGED <<hour, adviser, recorded>>
        BY <1>2
      <3>4. VerdictTypes'
        BY <1>a, <1>6, <3>1, <3>2, <3>3 DEF MemoryInv, VerdictTypes
      <3>5. WordsSourced'
        BY <3>1, <3>2, <3>3 DEF MemoryInv, WordsSourced
      <3>6. QED
        BY <3>2, <3>4, <3>5 DEF MemoryInv
    <2>3. QED
      BY <1>2, <2>1, <2>2
  <1>8. InHand'
    <2>1. /\ y.at \in {"first", "keep first", "look up", "second", "keep second", "record"} => y.failure \in UNION Runs
          /\ y.at = "first" => y.context = NoContext
          /\ y.at \in {"keep first", "look up", "second"} => y.first = Analyze(y.failure, NoContext).cause
          /\ y.at = "record" => y.told \in {"none", y.result.cause}
          /\ y.at \in {"keep first", "keep second"} => y.told \in {"none", y.result.cause}
          /\ ~(y.retry /\ y.against)
      BY <1>1, <1>5 DEF VerdictInv, InHand
    <2>2. QED
      BY <1>a, <2>1 DEF VerdictInv, InHand, y
  <1>9. QED
    BY <1>2, <1>7, <1>8 DEF VerdictInv

(* An idle analyst. *)
LEMMA NoAnalystFacts ==
  /\ IsAnalyst(NoAnalyst) /\ NoAnalyst.left = {} /\ NoAnalyst.at = "idle" /\ ~NoAnalyst.retry
  BY DEF NoAnalyst, IsAnalyst

(* An analyst that stops has nothing in hand. *)
LEMMA StopKeeps ==
  ASSUME VerdictInv, NEW a \in Analysts, analyst' = [analyst EXCEPT ![a] = NoAnalyst],
         UNCHANGED <<hour, memory, truth, adviser, recorded, ignored>>
  PROVE  VerdictInv'
  <1>1. DOMAIN analyst = Analysts
    BY DEF VerdictInv, MemoryInv, VerdictTypes
  <1>2. MemoryInv'
    BY <1>1, NoAnalystFacts, MemoryStays DEF VerdictInv, MemoryInv, VerdictTypes, WordsSourced
  <1>3. InHand'
    BY <1>1, NoAnalystFacts DEF VerdictInv, InHand
  <1>4. QED
    BY <1>2, <1>3 DEF VerdictInv

(* The context is looked up, or the analysis ends there. *)
LEMMA LookUpKeeps ==
  ASSUME VerdictInv, NEW a \in Analysts, LookUp(a)
  PROVE  VerdictInv'
  <1> DEFINE x == analyst[a]
  <1>1. /\ x.at = "look up" /\ IsAnalyst(x) /\ DOMAIN analyst = Analysts /\ x.tenant \in Tenants /\ x.left \subseteq UNION Runs
    BY DEF LookUp, VerdictInv, MemoryInv, VerdictTypes
  <1>2. UNCHANGED <<hour, memory, truth, adviser, recorded, ignored>>
    BY DEF LookUp, VerdictFrame
  <1>3. CASE analyst' = [analyst EXCEPT ![a] = NoAnalyst]
    BY <1>2, <1>3, StopKeeps
  <1>4. CASE \E context \in Contexts : analyst' = [analyst EXCEPT ![a].at = "second", ![a].context = context]
    <2>1. PICK context \in Contexts : analyst' = [analyst EXCEPT ![a].at = "second", ![a].context = context]
      BY <1>4
    <2> DEFINE y == analyst'[a]
    <2>2. /\ IsAnalyst(y) /\ y.tenant = x.tenant /\ y.left = x.left /\ y.retry = x.retry /\ y.against = x.against
          /\ y.failure = x.failure /\ y.first = x.first /\ y.at = "second"
          /\ DOMAIN analyst' = Analysts /\ \A b \in Analysts : b # a => analyst'[b] = analyst[b]
      BY <1>1, <2>1 DEF IsAnalyst
    <2> HIDE DEF y
    <2>3. \A b \in Analysts : /\ IsAnalyst(analyst'[b]) /\ analyst'[b].left \subseteq UNION Runs
                              /\ analyst'[b].at # "idle" => analyst'[b].tenant \in Tenants
      BY <1>1, <2>2 DEF VerdictInv, MemoryInv, VerdictTypes, y
    <2>4. MemoryInv'
      BY <1>2, <2>2, <2>3, MemoryStays DEF VerdictInv, MemoryInv, VerdictTypes, WordsSourced
    <2>5. InHand'
      BY <1>1, <2>2 DEF VerdictInv, InHand, y
    <2>6. QED
      BY <1>2, <2>4, <2>5 DEF VerdictInv
  <1>5. QED
    BY <1>3, <1>4 DEF LookUp

(* A verdict is recorded as it was told, and the best one decides of the rerun. *)
LEMMA RecordKeeps ==
  ASSUME VerdictInv, NEW a \in Analysts, RecordAnalysis(a)
  PROVE  VerdictInv'
  <1> DEFINE x == analyst[a]
             better == x.result.score > x.best
             next == [x EXCEPT !.best = IF better THEN x.result.score ELSE @,
                               !.retry = IF better THEN SafeToRetry(x.result) ELSE @,
                               !.against = IF better THEN x.told \notin {"none", "external"} ELSE @]
             y == NextFailure(next, x.left)
             r == [tenant |-> x.tenant, fingerprint |-> x.failure.fingerprint,
                   category |-> x.result.category, cause |-> x.result.cause]
  <1>1. /\ x.at = "record" /\ IsAnalyst(x) /\ DOMAIN analyst = Analysts /\ x.tenant \in Tenants /\ x.left \subseteq UNION Runs
        /\ x.told \in {"none", x.result.cause} /\ ~(x.retry /\ x.against)
    BY DEF RecordAnalysis, VerdictInv, MemoryInv, VerdictTypes, InHand
  <1>2. UNCHANGED <<hour, memory, truth, adviser>>
    BY DEF RecordAnalysis, VerdictFrame
  <1>3. CASE analyst' = [analyst EXCEPT ![a] = NoAnalyst] /\ UNCHANGED <<recorded, ignored>>
    BY <1>2, <1>3, StopKeeps
  <1>4. CASE /\ recorded' = recorded \cup {r}
             /\ ignored' = (ignored \/ x.told \notin {"none", x.result.cause})
             /\ analyst' = [analyst EXCEPT ![a] = y]
    <2>1. /\ IsAnalyst(next) /\ next.tenant = x.tenant /\ next.left = x.left
          /\ next.retry = IF better THEN SafeToRetry(x.result) ELSE x.retry
          /\ next.against = IF better THEN x.told \notin {"none", "external"} ELSE x.against
      BY <1>1 DEF IsAnalyst
    <2>2. ~(next.retry /\ next.against)
      BY <1>1, <2>1 DEF SafeToRetry
    <2> HIDE DEF next
    <2>3. /\ IsAnalyst(y) /\ y.tenant = x.tenant /\ y.left \subseteq UNION Runs /\ y.retry = next.retry
          /\ y.against = next.against /\ y.at \in {"rerun", "first"}
          /\ y.at = "first" => y.failure \in UNION Runs /\ y.context = NoContext
      BY <1>1, <2>1 DEF NextFailure, IsAnalyst
    <2> HIDE DEF y
    <2>4. \A b \in Analysts : /\ IsAnalyst(analyst'[b]) /\ analyst'[b].left \subseteq UNION Runs
                              /\ analyst'[b].at # "idle" => analyst'[b].tenant \in Tenants
      BY <1>1, <1>4, <2>3 DEF VerdictInv, MemoryInv, VerdictTypes
    <2>5. MemoryInv'
      <3>1. r.tenant \in Tenants
        BY <1>1
      <3>2. DOMAIN analyst' = Analysts /\ (\A q \in recorded : q \in recorded') /\ \A q \in recorded' : q.tenant \in Tenants
        BY <1>1, <1>4, <3>1 DEF VerdictInv, MemoryInv, VerdictTypes
      <3>3. adviser'.at = "remember" => adviser'.verdict \in recorded'
        BY <1>2, <1>4 DEF VerdictInv, MemoryInv, WordsSourced
      <3>4. QED
        BY <1>2, <2>4, <3>2, <3>3, MemoryStays DEF VerdictInv, MemoryInv, VerdictTypes
    <2>6. InHand'
      BY <1>1, <1>4, <2>2, <2>3 DEF VerdictInv, InHand
    <2>7. QED
      BY <1>1, <1>4, <2>5, <2>6 DEF VerdictInv
  <1>5. QED
    BY <1>3, <1>4 DEF RecordAnalysis

(* No build is rerun against the word of its tenant. *)
LEMMA RetryKeeps ==
  ASSUME VerdictInv, NEW a \in Analysts, MaybeRetry(a)
  PROVE  VerdictInv'
  <1>1. ~(analyst[a].retry /\ analyst[a].against)
    BY DEF VerdictInv, InHand
  <1>2. /\ analyst' = [analyst EXCEPT ![a] = NoAnalyst] /\ (ignored' <=> ignored)
        /\ UNCHANGED <<hour, memory, truth, adviser, recorded>>
    BY <1>1 DEF MaybeRetry, VerdictFrame
  <1>3. DOMAIN analyst = Analysts
    BY DEF VerdictInv, MemoryInv, VerdictTypes
  <1>4. MemoryInv'
    BY <1>2, <1>3, NoAnalystFacts, MemoryStays DEF VerdictInv, MemoryInv, VerdictTypes, WordsSourced
  <1>5. InHand'
    BY <1>2, <1>3, NoAnalystFacts DEF VerdictInv, InHand
  <1>6. QED
    BY <1>2, <1>4, <1>5 DEF VerdictInv

(* A tenant says what a verdict of its own was worth. *)
LEMMA WordKeeps ==
  ASSUME VerdictInv, NEW verdict \in recorded, NEW word \in Words, UpsertDiagnosisFeedback(verdict, word)
  PROVE  VerdictInv'
  <1>1. /\ UNCHANGED <<hour, memory, recorded, analyst, truth, ignored>>
        /\ adviser' = [at |-> "remember", verdict |-> verdict, word |-> word] \/ UNCHANGED adviser
    BY DEF UpsertDiagnosisFeedback
  <1>2. adviser'.at = "remember" => adviser'.verdict \in recorded'
    BY <1>1 DEF VerdictInv, MemoryInv, WordsSourced
  <1>3. MemoryInv'
    BY <1>1, <1>2, MemoryStays DEF VerdictInv, MemoryInv, VerdictTypes
  <1>4. InHand'
    BY <1>1 DEF VerdictInv, InHand
  <1>5. QED
    BY <1>1, <1>3, <1>4 DEF VerdictInv

(* What was said is kept, sure, for a verdict that is on record. *)
LEMMA RememberKeeps ==
  ASSUME VerdictInv, RememberFeedback
  PROVE  VerdictInv'
  <1> DEFINE verdict == adviser.verdict
             word == adviser.word
             Or(actual, was) == IF actual = "none" THEN was ELSE actual
             new == Entry(verdict.fingerprint, Or(word.category, verdict.category), Or(word.cause, verdict.cause), TRUE)
  <1>1. verdict \in recorded /\ verdict.tenant \in Tenants
    BY DEF RememberFeedback, VerdictInv, MemoryInv, VerdictTypes, WordsSourced
  <1>2. /\ Put(verdict.tenant, new) \/ UNCHANGED <<memory, truth>>
        /\ adviser' = NoAdvice /\ UNCHANGED <<hour, recorded, analyst, ignored>>
    BY DEF RememberFeedback
  <1>3. IsEntry(new) /\ new.fingerprint = verdict.fingerprint
    <2>1. hour \in Nat
      BY DEF VerdictInv, MemoryInv, VerdictTypes
    <2>2. QED
      BY <2>1, VerdictsAssumption DEF Entry, IsEntry
  <1> HIDE DEF new
  <1>4. adviser'.at # "remember"
    BY <1>2 DEF NoAdvice
  <1>5. MemoryInv'
    <2>1. CASE UNCHANGED <<memory, truth>>
      BY <1>2, <1>4, <2>1, MemoryStays DEF VerdictInv, MemoryInv, VerdictTypes
    <2>2. CASE Put(verdict.tenant, new)
      <3>1. MemoryInv
        BY DEF VerdictInv
      <3>2. new.sure => \E r \in recorded : r.tenant = verdict.tenant /\ r.fingerprint = new.fingerprint
        BY <1>1, <1>3
      <3> HIDE DEF verdict
      <3>3. /\ DOMAIN memory' = Tenants /\ \A u \in Tenants : \A e \in memory'[u] : IsEntry(e)
            /\ \A w \in truth' : IsWord(w)
            /\ OneEntry' /\ WordsKept'
            /\ \A u \in Tenants : \A e \in memory'[u] :
                  e.sure => \E r \in recorded : r.tenant = u /\ r.fingerprint = e.fingerprint
        BY <1>1, <1>2, <1>3, <2>2, <3>1, <3>2, PutKeeps
      <3>4. QED
        BY <1>2, <1>4, <3>1, <3>3 DEF MemoryInv, VerdictTypes, WordsSourced
    <2>3. QED
      BY <1>2, <2>1, <2>2
  <1>6. InHand'
    BY <1>2 DEF VerdictInv, InHand
  <1>7. QED
    BY <1>2, <1>5, <1>6 DEF VerdictInv

(* Every step of the verdicts keeps the invariant, *)
LEMMA VerdictsKept ==
  ASSUME VerdictInv, VerdictStep \/ UNCHANGED verdictVars
  PROVE  VerdictInv'
  <1>1. ASSUME UNCHANGED <<memory, recorded, analyst, adviser, truth, ignored>>, hour' \in Nat, hour' >= hour
        PROVE  VerdictInv'
    <2>1. MemoryInv'
      BY <1>1, MemoryStays DEF VerdictInv, MemoryInv, VerdictTypes, WordsSourced
    <2>2. InHand'
      BY <1>1 DEF VerdictInv, InHand
    <2>3. QED
      BY <1>1, <2>1, <2>2 DEF VerdictInv
  <1>2. hour \in Nat
    BY DEF VerdictInv, MemoryInv, VerdictTypes
  <1>3. CASE HourPasses
    BY <1>1, <1>2, <1>3 DEF HourPasses
  <1>4. CASE UNCHANGED verdictVars
    BY <1>1, <1>2, <1>4 DEF verdictVars
  <1>5. CASE ProcessRestarts
    <2>1. /\ memory' = [t \in Tenants |-> {}] /\ truth' = {} /\ analyst' = [a \in Analysts |-> NoAnalyst]
          /\ adviser' = NoAdvice /\ UNCHANGED <<hour, recorded, ignored>>
      BY <1>5 DEF ProcessRestarts
    <2>2. VerdictTypes'
      BY <2>1, NoAnalystFacts DEF VerdictInv, MemoryInv, VerdictTypes
    <2>3. OneEntry' /\ WordsKept' /\ WordsSourced'
      BY <2>1 DEF OneEntry, WordsKept, WordsSourced, NoAdvice
    <2>4. InHand'
      BY <2>1, NoAnalystFacts DEF InHand
    <2>5. QED
      BY <2>1, <2>2, <2>3, <2>4 DEF VerdictInv, MemoryInv
  <1>6. CASE \E a \in Analysts : \/ \E t \in Tenants, run \in Runs : StartRun(a, t, run)
                                 \/ Recall(a) \/ Keep(a) \/ LookUp(a) \/ RecordAnalysis(a) \/ MaybeRetry(a)
    BY <1>6, StartRunKeeps, RecallKeeps, KeepKeeps, LookUpKeeps, RecordKeeps, RetryKeeps
  <1>7. CASE \E verdict \in recorded, word \in Words : UpsertDiagnosisFeedback(verdict, word)
    BY <1>7, WordKeeps
  <1>8. CASE RememberFeedback
    BY <1>8, RememberKeeps
  <1>9. QED
    BY <1>3, <1>4, <1>5, <1>6, <1>7, <1>8 DEF VerdictStep

(* which says that no word of a tenant is lost or contradicted. *)
LEMMA VerdictsHold ==
  ASSUME VerdictInv
  PROVE  FeedbackHolds
  <1>1. \A t \in Tenants, e \in UNION {memory[u] : u \in Tenants} :
          (e \in memory[t] /\ e.sure) => \E r \in recorded : r.tenant = t /\ r.fingerprint = e.fingerprint
    BY DEF VerdictInv, MemoryInv, WordsSourced
  <1>2. QED
    BY <1>1 DEF FeedbackHolds, VerdictInv, MemoryInv, WordsKept

-----------------------------------------------------------------------------
(* The specification.  A part that a behaviour is not about stays as it was at
   the start. *)

IInv ==
    /\ scene = "intake" => IntakeInv
    /\ scene # "intake" => IntakeInit
    /\ scene = "market" => MarketInv
    /\ scene # "market" => \E told \in Stories : MarketInit(told)
    /\ CoverageInv

LEMMA Starts ==
  ASSUME Init
  PROVE  IInv
  <1>1. IntakeInit /\ faults \in Nat
    BY DEF Init
  <1>2. PICK told \in (IF scene = "market" THEN Stories ELSE {FirstOf(Stories)}) : MarketInit(told)
    BY DEF Init
  <1>3. told \in Stories
    BY <1>2, MarketAssumption DEF FirstOf
  <1>4. CoverageInv
    BY NoMergeFacts DEF Init, SelectionInit, CoverageInv, CoverageKept
  <1>5. QED
    BY <1>1, <1>2, <1>3, <1>4, IntakeStarts, MarketStarts DEF IInv

LEMMA Kept ==
  ASSUME IInv, [Next]_vars
  PROVE  IInv'
  <1>1. ASSUME UNCHANGED intakeVars, scene # "intake"
        PROVE  IntakeInit'
    <2>1. IntakeInit
      BY <1>1 DEF IInv
    <2>2. QED
      BY <1>1, <2>1 DEF IntakeInit, intakeVars, Builds
  <1>2. ASSUME UNCHANGED marketVars, scene # "market"
        PROVE  \E told \in Stories : MarketInit(told)'
    <2>1. PICK told \in Stories : MarketInit(told)
      BY <1>2 DEF IInv
    <2>2. MarketInit(told)'
      BY <1>2, <2>1 DEF MarketInit, marketVars
    <2>3. QED
      BY <2>2
  <1>3. ASSUME UNCHANGED selectionVars
        PROVE  CoverageInv'
    BY <1>3 DEF IInv, CoverageInv, CoverageKept, selectionVars
  <1>4. CASE scene = "intake" /\ IntakeStep /\ UNCHANGED <<scene, marketVars, selectionVars>>
    BY <1>2, <1>3, <1>4, IntakeKept DEF IInv
  <1>5. CASE scene = "market" /\ MarketStep /\ UNCHANGED <<scene, intakeVars, selectionVars>>
    BY <1>1, <1>3, <1>5, MarketKept DEF IInv
  <1>6. CASE scene = "selection" /\ SelectionStep /\ UNCHANGED <<scene, intakeVars, marketVars>>
    <2>1. CoverageInv'
      BY <1>6, CoverageStep DEF IInv
    <2>2. QED
      BY <1>1, <1>2, <1>6, <2>1 DEF IInv
  <1>7. CASE scene \notin {"intake", "market"} /\ UNCHANGED <<scene, intakeVars, marketVars, selectionVars>>
    BY <1>1, <1>2, <1>3, <1>7 DEF IInv
  <1>8. CASE UNCHANGED vars
    <2>1. UNCHANGED <<scene, faults, intakeVars, marketVars, selectionVars>>
      BY <1>8 DEF vars
    <2>2. scene = "intake" => IntakeInv'
      <3>1. ASSUME IntakeInv
            PROVE  IntakeInv'
        <4>1. UNCHANGED <<provider, answered, deliveries, jobs, worked, attempts, asked, reruns, hand, overlapped>>
              /\ Fine
          BY <2>1 DEF intakeVars, Fine
        <4>2. \A n : Terminal(ParseWebhook(n))' = Terminal(ParseWebhook(n)) /\ Said(n)' = Said(n)
          BY <4>1, SameReading
        <4>3. /\ \A i : RunKey(i)' = RunKey(i) /\ Worth(i)' = Worth(i)
              /\ \A b : BuildKey(b)' = BuildKey(b)
          BY <4>1, SameJobs
        <4>4. \A b : (Asking(b)' <=> Asking(b)) /\ InFlight(b)' = InFlight(b) /\ Spent(b)' = Spent(b)
          BY <4>1, <4>3 DEF Asking, InFlight, Spent, AtBuild, Holds
        <4>5. IntakeTypes' /\ Filed'
          BY <3>1, <4>1, <4>2 DEF IntakeInv, IntakeTypes, Filed, Fine
        <4>6. HandsFull' /\ KeysOnRecord' /\ OneAsker'
          BY <3>1, <4>1, <4>3 DEF IntakeInv, HandsFull, KeysOnRecord, OneAsker
        <4>7. RecordsRerun' /\ Counted'
          BY <3>1, <4>1, <4>3, <4>4 DEF IntakeInv, RecordsRerun, Counted, Fine
        <4>8. QED
          BY <4>5, <4>6, <4>7 DEF IntakeInv
      <3>2. QED
        BY <3>1 DEF IInv
    <2>3. scene = "market" => MarketInv'
      <3>1. ASSUME MarketInv
            PROVE  MarketInv'
        <4>1. \A x, n : Older(n, x)' = Older(n, x) /\ Changed(x, n)' = Changed(x, n)
          BY <2>1 DEF marketVars, Older, Changed, BaseOf
        <4>2. UNCHANGED <<story, policy, claims, clerk, account, copy, tenant, raced>>
          BY <2>1 DEF marketVars
        <4>3. MarketTypes' /\ Claimed' /\ Off'
          BY <3>1, <4>2 DEF MarketInv, MarketTypes, Claimed, Off
        <4>4. Reads'
          BY <3>1, <4>1, <4>2 DEF MarketInv, Reads, Busy
        <4>5. \A e : (Mends(e)' <=> Mends(e)) /\ (Done(e)' <=> Done(e)) /\ (SaidBy(e)' <=> SaidBy(e))
          BY <4>1, <4>2 DEF Mends, Done, SaidBy
        <4>6. Behind' /\ Newest'
          BY <3>1, <4>2, <4>5 DEF MarketInv, Behind, Newest
        <4>7. QED
          BY <4>3, <4>4, <4>6 DEF MarketInv
      <3>2. QED
        BY <3>1 DEF IInv
    <2>4. QED
      BY <1>1, <1>2, <1>3, <2>1, <2>2, <2>3 DEF IInv
  <1>9. QED
    BY <1>4, <1>5, <1>6, <1>7, <1>8 DEF Next

(* In every behaviour the invariant holds. *)
THEOREM EvidenceInvariant == Spec => []IInv
  <1>1. Init => IInv
    BY Starts
  <1>2. IInv /\ [Next]_vars => IInv'
    BY Kept
  <1>3. QED
    BY <1>1, <1>2, PTL DEF Spec

(* Every notice that a build is over, in a word the code knows, has exactly the
   job it says, however often and after whatever failure it was posted, unless
   the record under its id is that of another notice; and nothing else has a
   job. *)
THEOREM BuildsAreHeard == Spec => []EveryBuildHeard
  <1>1. IInv => EveryBuildHeard
    <2>1. IntakeInit => EveryBuildHeard
      BY DEF IntakeInit, EveryBuildHeard, NoFunction
    <2>2. QED
      BY <2>1, Heard DEF IInv
  <1>2. QED
    BY <1>1, EvidenceInvariant, PTL

(* A build is rerun no more often than there are jobs that say it failed for
   the first time, plus the faults; but for GitHub only once, unless two workers
   found no record of it before either had written one.  And without a failure
   every build found worth a rerun gets one, but where its provider leaves no
   key, no key of its own or no address. *)
THEOREM RerunsAlwaysFit == Spec => []RerunsFit
  <1>1. IInv => RerunsFit
    <2>1. IntakeInit => RerunsFit
      BY DEF IntakeInit, RerunsFit, Builds
    <2>2. QED
      BY <2>1, RerunsDoFit DEF IInv
  <1>2. QED
    BY <1>1, EvidenceInvariant, PTL

(* A cancelled plan has its tenant switched off, the plan is what the newest
   notice says and both records of it agree, while handlers fail, die and take
   their notices in any order. *)
THEOREM PlansAreKept == Spec => []PlanKept
  <1>1. IInv => PlanKept
    BY MarketStarts, PlanIsKept DEF IInv
  <1>2. QED
    BY <1>1, EvidenceInvariant, PTL

(* Coverage that was acknowledged stays until the graph is indexed anew, unless
   another save came between a handler's load and its save. *)
THEOREM CoverageStays == Spec => []CoverageKept
  <1>1. IInv => CoverageKept
    BY DEF IInv, CoverageInv
  <1>2. QED
    BY <1>1, EvidenceInvariant, PTL

(* A word of a tenant about a verdict is kept for as long as it counts and there
   is room for it, no verdict and no rerun goes against it, and no other tenant
   sees it. *)
THEOREM FeedbackAlwaysHolds == Spec => []FeedbackHolds
  <1>1. Init => VerdictInv
    BY VerdictsStart DEF Init
  <1>2. VerdictInv /\ [Next]_vars => VerdictInv'
    BY VerdictsKept DEF Next, vars
  <1>3. VerdictInv => FeedbackHolds
    BY VerdictsHold
  <1>4. QED
    BY <1>1, <1>2, <1>3, PTL DEF Spec

(* A selection that is called safe and leaves nothing out for its limit has
   every listed test that the change touches, unless a higher score was asked
   for; one that is not safe has every listed test, unless the caller overrode
   that; the list is all that is known and fits the request, as long as that is
   no more than the limit of the list; and coverage that was acknowledged stays. *)
THEOREM SelectionsAreTrue == Spec => []SelectionTrue
  <1>1. Init => SelectionInv
    BY SelectionStarts DEF Init
  <1>2. SelectionInv /\ [Next]_vars => SelectionInv'
    BY SelectionKept DEF Next, vars
  <1>3. IInv /\ SelectionInv => SelectionTrue
    BY DEF IInv, CoverageInv, SelectionInv, SelectionTrue
  <1>4. QED
    BY <1>1, <1>2, <1>3, EvidenceInvariant, PTL DEF Spec

(* The counts are those of the recorded observations, whatever is reported again
   or fails, and an observation is recorded again only after retention removed
   it; the turns, the last result and the class are those of the history; the
   failures shown by kind are never more than those counted, and are these when
   nothing is cut; the flag of a quarantine and its record agree, and no handler
   goes against an operator whose word it could have known. *)
THEOREM StatsAlwaysHonest == Spec => []StatsHonest
  <1>1. Init => StatsInv
    BY StatsStart DEF Init
  <1>2. StatsInv /\ [Next]_vars => StatsInv'
    BY StatsKept DEF Next, vars
  <1>3. StatsInv => StatsHonest
    BY StatsAreHonest
  <1>4. QED
    BY <1>1, <1>2, <1>3, PTL DEF Spec
=============================================================================
