------------------------ MODULE NotificationsProofs ------------------------
(***************************************************************************)
(* Proofs about module Notifications, for any number of jobs, workers,     *)
(* events and channels, and any crashes, failed writes and lost answers:   *)
(* each message an endpoint gets of an event, beyond the first, is paid    *)
(* for by a fault; as long as no attempt outlives the window, slow or in a *)
(* suspended process, no notification is posted more than max_attempts     *)
(* times and no two events of one key are recorded as sent within a        *)
(* cooldown; and, when no store write fails either, the jobs of an event   *)
(* leave no channel without a final status.  Nothing is assumed about how  *)
(* long an attempt takes.                                                  *)
(*                                                                         *)
(* The first rests on the invariant Budget, the last on JobsInv at the end *)
(* of this module.  The others rest on Exclusive: a runner that is         *)
(* sending on a channel owns the record of its event there, because the    *)
(* record is younger than Window for as long as the request may take, and  *)
(* so everyone else passes it over; and it has no rival, a runner sending  *)
(* an event of the same key there or a recent message of such an event.    *)
(***************************************************************************)
EXTENDS Notifications, FiniteSetTheorems, TLAPS

Pairs == Events \X Channels

JobRecord ==
    [status: {"none", "queued", "running", "done", "failed"},
     event: Events \cup {NoEvent}, attempts: Nat, silent: Nat]

DeliveryRecord ==
    [status: {"none", "sending", "retrying"} \cup Terminal,
     attempts: Nat, age: Nat, sentAge: Nat]

RunRecord ==
    [phase: {"idle", "begin", "send", "record"},
     job: Jobs \cup {NoJob}, lease: Nat, left: SUBSET Channels,
     channel: Channels \cup {NoChannel}, attempt: Nat,
     outcome: Outcomes, time: Nat,
     slow: BOOLEAN, retry: BOOLEAN, suspended: BOOLEAN, cancelled: BOOLEAN]

TypeOK ==
    /\ job \in [Jobs -> JobRecord]
    /\ rec \in [Pairs -> DeliveryRecord]
    /\ run \in [Runners -> RunRecord]
    /\ posted \in [Pairs -> Nat]
    /\ faults \in [Kinds -> Nat]

(* A runner works on a job that has an event. *)
Employed ==
    /\ \A j \in Jobs : job[j].status # "none" => job[j].event \in Events
    /\ \A r \in Runners : run[r].phase # "idle" =>
         /\ run[r].job \in Jobs
         /\ job[run[r].job].status # "none"
    /\ \A r \in Runners : run[r].phase \in {"send", "record"} =>
         run[r].channel \in Channels

Busy(r) == run[r].phase \in {"send", "record"}
At(r, e, c) == Busy(r) /\ EventOf(r) = e /\ run[r].channel = c

(* A busy runner owns its record, which others hold to be fresh. *)
Owns ==
    \A r \in Runners : Busy(r) =>
        LET x == <<EventOf(r), run[r].channel>> IN
        /\ rec[x].status = "sending"
        /\ rec[x].attempts = run[r].attempt
        /\ rec[x].age = run[r].time
        /\ run[r].time < Window /\ ~run[r].slow

(* Of the events of one key, one is being sent on a channel at a time. *)
Alone ==
    \A r, q \in Runners :
        (/\ Busy(r) /\ Busy(q)
         /\ run[r].channel = run[q].channel
         /\ EventOf(q) \in Key(EventOf(r))) => r = q

(* Nothing of the same key was sent on the channel within the cooldown. *)
Quiet ==
    Cooldown > 0 =>
    \A r \in Runners : Busy(r) =>
        \A f \in Key(EventOf(r)) \ {EventOf(r)} :
            rec[<<f, run[r].channel>>].status = "sent" =>
                rec[<<f, run[r].channel>>].sentAge > Cooldown

(* Two runners never send the same event on the same channel. *)
Single ==
    \A r, q \in Runners :
        (/\ Busy(r) /\ Busy(q)
         /\ run[r].channel = run[q].channel
         /\ EventOf(q) = EventOf(r)) => r = q

(* Every request was counted before it went out. *)
Counted ==
    \A x \in Pairs :
        /\ posted[x] <= ChannelAttempts
        /\ rec[x].attempts <= ChannelAttempts
        /\ rec[x].status = "none" => rec[x].attempts = 0
        /\ rec[x].status \notin Terminal => posted[x] <= rec[x].attempts

(* ... so one that is about to go out fits in. *)
Fits ==
    \A r \in Runners : run[r].phase = "send" =>
        posted[<<EventOf(r), run[r].channel>>] < run[r].attempt

Exclusive ==
    Timely =>
        /\ \A r \in Runners : ~run[r].suspended
        /\ Owns
        /\ Single
        /\ Cooldown > 0 => Alone
        /\ Quiet
        /\ Counted
        /\ Fits

-----------------------------------------------------------------------------
(* Types *)

LEMMA IdleType == Idle \in RunRecord
  BY DEF Idle, RunRecord, Outcomes

LEMMA FaultType ==
    ASSUME TypeOK, NEW k \in Kinds, Fault(k)
    PROVE  /\ faults' \in [Kinds -> Nat]
           /\ faults' = [faults EXCEPT ![k] = @ + 1]
  BY DEF TypeOK, Fault

(* A fault of another kind leaves Timely as it is. *)
LEMMA FaultKeeps ==
    ASSUME TypeOK, NEW k \in Kinds, k \notin {"slow", "suspend"}, Fault(k)
    PROVE  Timely' => Timely
  BY DEF TypeOK, Fault, Timely, Kinds

LEMMA StoreFailsType ==
    ASSUME TypeOK, NEW r \in Runners, StoreFails(r)
    PROVE  faults' \in [Kinds -> Nat] /\ (Timely' => Timely)
  <1>1. CASE UNCHANGED faults
    BY <1>1 DEF TypeOK, Timely
  <1>2. CASE Fault("error")
    BY <1>2, FaultType, FaultKeeps DEF Kinds
  <1> QED
    BY <1>1, <1>2 DEF StoreFails

LEMMA InitType == Init => TypeOK /\ Employed
  <1> SUFFICES ASSUME Init PROVE TypeOK /\ Employed
    OBVIOUS
  <1>1. run \in [Runners -> RunRecord] /\ \A r \in Runners : run[r].phase = "idle"
    BY IdleType DEF Init, Idle
  <1>2. job \in [Jobs -> JobRecord] /\ \A j \in Jobs : job[j].status = "none"
    BY DEF Init, JobRecord
  <1>3. /\ rec \in [Pairs -> DeliveryRecord]
        /\ posted \in [Pairs -> Nat]
        /\ faults \in [Kinds -> Nat]
    BY DEF Init, DeliveryRecord, Pairs
  <1> QED
    BY <1>1, <1>2, <1>3 DEF TypeOK, Employed

(* Keys part the events. *)
LEMMA KeyFacts ==
    ASSUME NEW e \in Events
    PROVE  /\ Key(e) \subseteq Events
           /\ e \in Key(e)
           /\ \A f \in Key(e) : Key(f) = Key(e)
  <1>1. Key(e) \in SameKey /\ e \in Key(e)
    BY KeyAssumption DEF Key
  <1>2. Key(e) \subseteq Events
    BY <1>1, KeyAssumption
  <1>3. ASSUME NEW f \in Key(e) PROVE Key(f) = Key(e)
    <2>1. Key(f) \in SameKey /\ f \in Key(f)
      BY <1>2, KeyAssumption DEF Key
    <2> QED
      BY <1>1, <2>1, KeyAssumption
  <1> QED
    BY <1>1, <1>2, <1>3

(* Where a busy runner is. *)
LEMMA AtType ==
    ASSUME TypeOK, Employed, NEW r \in Runners, Busy(r)
    PROVE  /\ EventOf(r) \in Events
           /\ run[r].channel \in Channels
           /\ <<EventOf(r), run[r].channel>> \in Pairs
  BY DEF TypeOK, Employed, Busy, EventOf, RunRecord, Pairs

(* ... or one that has not come to the end of its channels. *)
LEMMA WorkType ==
    ASSUME TypeOK, Employed, NEW r \in Runners, run[r].phase # "idle"
    PROVE  EventOf(r) \in Events
  BY DEF Employed, EventOf

(* What the decision writes is a record of the same kind. *)
LEMMA DecidedType ==
    ASSUME TypeOK, NEW e \in Events, NEW c \in Channels
    PROVE  /\ Decision(e, c) \in {"skip", "exhausted", "suppressed", "send"}
           /\ Decided(e, c) \in DeliveryRecord
           /\ Decision(e, c) = "skip" => Decided(e, c) = rec[<<e, c>>]
           /\ Decision(e, c) = "exhausted" =>
                /\ Decided(e, c).status = "failed"
                /\ Decided(e, c).attempts = rec[<<e, c>>].attempts
           /\ Decision(e, c) = "suppressed" =>
                /\ Decided(e, c).status = "suppressed"
                /\ Decided(e, c).attempts = 0
           /\ Decision(e, c) = "send" =>
                /\ Decided(e, c).status = "sending"
                /\ Decided(e, c).attempts = rec[<<e, c>>].attempts + 1
                /\ Decided(e, c).age = 0
  <1>1. Decision(e, c) \in {"skip", "exhausted", "suppressed", "send"}
    BY DEF Decision
  <1>2. rec[<<e, c>>] \in DeliveryRecord
    BY DEF TypeOK, Pairs
  <1>3. CASE Decision(e, c) = "skip"
    BY <1>2, <1>3 DEF Decided
  <1>4. CASE Decision(e, c) = "exhausted"
    BY <1>2, <1>4 DEF Decided, DeliveryRecord, Terminal
  <1>5. CASE Decision(e, c) = "suppressed"
    BY <1>5 DEF Decided, DeliveryRecord, Terminal
  <1>6. CASE Decision(e, c) = "send"
    <2> DEFINE d == rec[<<e, c>>]
               n == d.attempts + 1
               s == [d EXCEPT !.status = "sending", !.age = 0, !.attempts = n]
    <2>1. Decided(e, c) = s
      BY <1>6, Zenon DEF Decided
    <2>2. n \in Nat /\ d \in DeliveryRecord
      BY <1>2 DEF DeliveryRecord
    <2>3. n = rec[<<e, c>>].attempts + 1
      OBVIOUS
    <2> HIDE DEF d, n
    <2>4. s \in DeliveryRecord /\ s.status = "sending" /\ s.attempts = n /\ s.age = 0
      BY <2>2 DEF DeliveryRecord
    <2> QED
      BY <1>6, <2>1, <2>3, <2>4
  <1> QED
    BY <1>1, <1>3, <1>4, <1>5, <1>6

-----------------------------------------------------------------------------
(* What each step of a runner does *)

(* Runner r is the only one that moves, and stays on its job. *)
Moves(r) ==
    /\ run' \in [Runners -> RunRecord]
    /\ \A q \in Runners \ {r} : run'[q] = run[q]
    /\ run'[r].job = run[r].job
    /\ run'[r].suspended = run[r].suspended

LEMMA ClaimStep ==
    ASSUME TypeOK, NEW r \in Runners, Claim(r)
    PROVE  /\ UNCHANGED <<rec, posted, faults>>
           /\ run' \in [Runners -> RunRecord]
           /\ \A q \in Runners \ {r} : run'[q] = run[q]
           /\ run[r].phase = "idle" /\ run'[r].phase = "begin"
           /\ run'[r].suspended = FALSE
           /\ run'[r].job \in Jobs
           /\ job[run'[r].job].status = "queued"
           /\ job' \in [Jobs -> JobRecord]
           /\ \A j \in Jobs : job'[j].event = job[j].event
           /\ \A j \in Jobs : job'[j].status = "none" <=> job[j].status = "none"
  <1>1. PICK j \in Jobs :
          /\ job[j].status = "queued"
          /\ job' = [job EXCEPT ![j].status = "running", ![j].silent = 0,
                                ![j].attempts = @ + 1]
          /\ run' = [run EXCEPT ![r] = [Idle EXCEPT
                        !.phase = "begin", !.job = j,
                        !.lease = job[j].attempts + 1, !.left = Channels]]
    BY DEF Claim
  <1> DEFINE n == job[j].attempts + 1
             w == [Idle EXCEPT !.phase = "begin", !.job = j, !.lease = n, !.left = Channels]
  <1>2. n \in Nat /\ job[j] \in JobRecord
    BY DEF TypeOK, JobRecord
  <1>3. run' = [run EXCEPT ![r] = w]
    BY <1>1
  <1>4. job' = [job EXCEPT ![j] = [job[j] EXCEPT !.status = "running", !.silent = 0,
                                                 !.attempts = n]]
    BY <1>1
  <1> HIDE DEF n
  <1>5. w \in RunRecord /\ w.phase = "begin" /\ w.suspended = FALSE /\ w.job = j
    BY <1>2 DEF Idle, RunRecord, Outcomes
  <1> HIDE DEF w
  <1>6. /\ run' \in [Runners -> RunRecord]
        /\ run'[r] = w
        /\ \A q \in Runners \ {r} : run'[q] = run[q]
    BY <1>3, <1>5 DEF TypeOK
  <1> DEFINE d == [job[j] EXCEPT !.status = "running", !.silent = 0, !.attempts = n]
  <1>7. d \in JobRecord /\ d.status = "running" /\ d.event = job[j].event
    BY <1>2 DEF JobRecord
  <1>8. job' = [job EXCEPT ![j] = d]
    BY <1>4
  <1> HIDE DEF d
  <1>9. /\ job' \in [Jobs -> JobRecord]
        /\ job'[j] = d
        /\ \A k \in Jobs \ {j} : job'[k] = job[k]
    BY <1>7, <1>8 DEF TypeOK
  <1> QED
    BY <1>1, <1>5, <1>6, <1>7, <1>9 DEF Claim

LEMMA FinishStep ==
    ASSUME TypeOK, Employed, NEW r \in Runners, Finish(r)
    PROVE  /\ UNCHANGED <<rec, posted>>
           /\ run' = [run EXCEPT ![r] = Idle]
           /\ run[r].phase = "begin"
           /\ faults' \in [Kinds -> Nat] /\ (Timely' => Timely)
           /\ job' \in [Jobs -> JobRecord]
           /\ \A j \in Jobs : job'[j].event = job[j].event
           /\ \A j \in Jobs : job'[j].status = "none" <=> job[j].status = "none"
  <1>1. CASE Fault("error") /\ UNCHANGED job
    BY <1>1, FaultType, FaultKeeps DEF Finish, TypeOK, Kinds
  <1>2. CASE job' = job /\ UNCHANGED faults
    BY <1>2 DEF Finish, TypeOK, Timely
  <1>3. CASE /\ job' = [job EXCEPT ![run[r].job] = Ended(run[r].job, run[r].retry)]
             /\ UNCHANGED faults
    <2> DEFINE j == run[r].job
               d == Ended(j, run[r].retry)
    <2>1. j \in Jobs /\ job[j] \in JobRecord /\ job[j].status # "none"
      BY <1>3 DEF Finish, Employed, TypeOK, Running
    <2>2. d \in JobRecord /\ d.status # "none" /\ d.event = job[j].event
      BY <2>1 DEF Ended, JobRecord
    <2>3. job' = [job EXCEPT ![j] = d]
      BY <1>3
    <2> HIDE DEF j, d
    <2>4. /\ job' \in [Jobs -> JobRecord]
          /\ job'[j] = d
          /\ \A k \in Jobs \ {j} : job'[k] = job[k]
      BY <2>1, <2>2, <2>3 DEF TypeOK
    <2> QED
      BY <1>3, <2>1, <2>2, <2>4 DEF Finish, TypeOK, Timely
  <1> QED
    BY <1>1, <1>2, <1>3 DEF Finish

(* Begin either leaves the runner where it is or sends it off; the record  *)
(* becomes what was decided.                                               *)
LEMMA BeginStep ==
    ASSUME TypeOK, Employed, NEW r \in Runners, NEW c \in Channels, Begin(r, c)
    PROVE  LET e == EventOf(r) IN
           /\ UNCHANGED <<job, posted>>
           /\ Moves(r)
           /\ run[r].phase = "begin"
           /\ e \in Events
           /\ faults' \in [Kinds -> Nat] /\ (Timely' => Timely)
           /\ \/ UNCHANGED rec /\ run'[r].phase = "begin"
              \/ /\ rec' = [rec EXCEPT ![<<e, c>>] = Decided(e, c)]
                 /\ run'[r].phase = IF Decision(e, c) = "send" THEN "send" ELSE "begin"
                 /\ run'[r].channel = c
                 /\ run'[r].time = 0 /\ ~run'[r].slow
                 /\ run'[r].attempt = Decided(e, c).attempts
  <1> DEFINE e == EventOf(r)
             x == <<e, c>>
             old == run[r]
  <1>1. /\ UNCHANGED <<job, posted>>
        /\ old.phase = "begin" /\ old \in RunRecord
        /\ e \in Events /\ x \in Pairs
        /\ Decided(e, c) \in DeliveryRecord
    BY WorkType, DecidedType DEF Begin, TypeOK, Pairs
  <1>2. CASE StoreFails(r) /\ UNCHANGED rec
             /\ run' = [run EXCEPT ![r].left = @ \ {c}, ![r].retry = TRUE]
    <2> DEFINE w == [old EXCEPT !.left = @ \ {c}, !.retry = TRUE]
    <2>1. w \in RunRecord /\ w.phase = old.phase /\ w.job = old.job
          /\ w.suspended = old.suspended
      BY <1>1 DEF RunRecord
    <2>2. run' = [run EXCEPT ![r] = w]
      BY <1>2
    <2> HIDE DEF w
    <2>3. Moves(r) /\ run'[r].phase = "begin"
      BY <1>1, <2>1, <2>2 DEF Moves, TypeOK
    <2> QED
      BY <1>1, <1>2, <2>3, StoreFailsType
  <1>3. CASE /\ rec' = [rec EXCEPT ![x] = Decided(e, c)]
             /\ run' = [run EXCEPT ![r] = Asked(r, c)]
             /\ UNCHANGED faults
    <2> DEFINE a == Decided(e, c).attempts
               p == IF Decision(e, c) = "send" THEN "send" ELSE "begin"
               w == [old EXCEPT !.left = @ \ {c}, !.channel = c, !.time = 0, !.slow = FALSE,
                                !.attempt = a, !.phase = p]
    <2>1. a \in Nat /\ p \in {"begin", "send"}
      BY <1>1 DEF DeliveryRecord
    <2>2. Asked(r, c) = w
      BY DEF Asked
    <2> HIDE DEF a, p
    <2>3. /\ w \in RunRecord /\ w.phase = p /\ w.job = old.job /\ w.time = 0 /\ ~w.slow
          /\ w.suspended = old.suspended /\ w.channel = c /\ w.attempt = a
      BY <1>1, <2>1 DEF RunRecord
    <2> HIDE DEF w
    <2>4. Moves(r) /\ run'[r] = w
      BY <1>3, <2>2, <2>3 DEF Moves, TypeOK
    <2> QED
      BY <1>1, <1>3, <2>3, <2>4 DEF a, p, TypeOK, Timely
  <1> QED
    BY <1>2, <1>3 DEF Begin

LEMMA PostStep ==
    ASSUME TypeOK, Employed, NEW r \in Runners, NEW o \in Outcomes, Post(r, o)
    PROVE  LET x == <<EventOf(r), run[r].channel>> IN
           /\ UNCHANGED <<job, rec>>
           /\ Moves(r)
           /\ run[r].phase = "send" /\ run'[r].phase = "record"
           /\ run'[r].channel = run[r].channel
           /\ run'[r].time = run[r].time /\ run'[r].slow = run[r].slow
           /\ run'[r].attempt = run[r].attempt
           /\ faults' \in [Kinds -> Nat] /\ (Timely' => Timely)
           /\ x \in Pairs
           /\ posted' \in [Pairs -> Nat]
           /\ posted'[x] <= posted[x] + 1
           /\ \A y \in Pairs \ {x} : posted'[y] = posted[y]
  <1> DEFINE x == <<EventOf(r), run[r].channel>>
             old == run[r]
             w == [old EXCEPT !.phase = "record", !.outcome = o]
  <1>1. /\ UNCHANGED <<job, rec>>
        /\ old.phase = "send" /\ old \in RunRecord
        /\ x \in Pairs
    BY AtType DEF Post, TypeOK, Busy
  <1>2. run' = [run EXCEPT ![r] = w]
    BY DEF Post
  <1>3. /\ w \in RunRecord /\ w.phase = "record" /\ w.channel = old.channel
        /\ w.time = old.time /\ w.slow = old.slow /\ w.attempt = old.attempt /\ w.job = old.job
        /\ w.suspended = old.suspended
    BY <1>1 DEF RunRecord
  <1> HIDE DEF w
  <1>4. Moves(r) /\ run'[r] = w
    BY <1>2, <1>3 DEF Moves, TypeOK
  <1>5. faults' \in [Kinds -> Nat] /\ (Timely' => Timely)
    <2>1. CASE UNCHANGED faults
      BY <2>1 DEF TypeOK, Timely
    <2>2. CASE Fault("lost")
      BY <2>2, FaultType, FaultKeeps DEF Kinds
    <2> QED
      BY <2>1, <2>2 DEF Post
  <1>6. posted' = [posted EXCEPT ![x] = @ + 1] \/ posted' = posted
    BY DEF Post
  <1>7. /\ posted' \in [Pairs -> Nat]
        /\ posted'[x] <= posted[x] + 1
        /\ \A y \in Pairs \ {x} : posted'[y] = posted[y]
    BY <1>1, <1>6 DEF TypeOK
  <1> QED
    BY <1>1, <1>3, <1>4, <1>5, <1>7

LEMMA RecordStep ==
    ASSUME TypeOK, Employed, NEW r \in Runners, Record(r)
    PROVE  LET x == <<EventOf(r), run[r].channel>> IN
           /\ UNCHANGED <<job, posted>>
           /\ Moves(r)
           /\ run[r].phase = "record" /\ run'[r].phase = "begin"
           /\ faults' \in [Kinds -> Nat] /\ (Timely' => Timely)
           /\ x \in Pairs
           /\ \/ UNCHANGED rec
              \/ /\ rec' \in [Pairs -> DeliveryRecord]
                 /\ rec'[x].status \in {"sent", "suppressed", "failed", "retrying"}
                 /\ rec'[x].attempts = run[r].attempt
                 /\ \A y \in Pairs \ {x} : rec'[y] = rec[y]
  <1> DEFINE x == <<EventOf(r), run[r].channel>>
             old == run[r]
  <1>1. /\ UNCHANGED <<job, posted>>
        /\ old.phase = "record" /\ old \in RunRecord
        /\ x \in Pairs
    BY AtType DEF Record, TypeOK, Busy
  <1>2. faults' \in [Kinds -> Nat] /\ (Timely' => Timely)
    BY StoreFailsType DEF Record, TypeOK, Timely
  <1>3. PICK t \in BOOLEAN :
          run' = [run EXCEPT ![r].phase = "begin", ![r].channel = NoChannel,
                             ![r].time = 0, ![r].slow = FALSE, ![r].retry = @ \/ t]
    BY DEF Record, Retry, GivenUp
  <1> DEFINE w == [old EXCEPT !.phase = "begin", !.channel = NoChannel,
                              !.time = 0, !.slow = FALSE, !.retry = @ \/ t]
  <1>4. run' = [run EXCEPT ![r] = w]
    BY <1>3
  <1>5. /\ w \in RunRecord /\ w.phase = "begin" /\ w.job = old.job
        /\ w.suspended = old.suspended
    BY <1>1 DEF RunRecord
  <1> HIDE DEF w
  <1>6. Moves(r) /\ run'[r].phase = "begin"
    BY <1>4, <1>5 DEF Moves, TypeOK
  <1>7. CASE rec' = [rec EXCEPT ![x] =
                [status |-> StatusFor(r), attempts |-> run[r].attempt,
                 age |-> 0, sentAge |-> 0]]
    <2> DEFINE d == [status |-> StatusFor(r), attempts |-> run[r].attempt,
                     age |-> 0, sentAge |-> 0]
    <2>1. StatusFor(r) \in {"sent", "suppressed", "failed", "retrying"}
      BY DEF StatusFor
    <2>2. /\ d \in DeliveryRecord /\ d.attempts = run[r].attempt
          /\ d.status \in {"sent", "suppressed", "failed", "retrying"}
      BY <1>1, <2>1 DEF RunRecord, DeliveryRecord, Terminal
    <2> HIDE DEF d
    <2> QED
      BY <1>1, <1>2, <1>6, <1>7, <2>2 DEF TypeOK, d
  <1>8. CASE UNCHANGED rec
    BY <1>1, <1>2, <1>6, <1>8
  <1> QED
    BY <1>7, <1>8 DEF Record

LEMMA TickStep ==
    ASSUME TypeOK, Tick
    PROVE  /\ UNCHANGED <<posted, faults>>
           /\ \A r \in Runners : Running(r) =>
                Lasts(r)
           /\ run' \in [Runners -> RunRecord]
           /\ \A r \in Runners :
                /\ run'[r].phase = run[r].phase /\ run'[r].job = run[r].job
                /\ run'[r].channel = run[r].channel
                /\ run'[r].attempt = run[r].attempt
                /\ run'[r].suspended = run[r].suspended /\ run'[r].slow = run[r].slow
                /\ run'[r].time = IF Running(r) THEN run[r].time + 1 ELSE run[r].time
           /\ job' \in [Jobs -> JobRecord]
           /\ \A j \in Jobs : job'[j].status = job[j].status /\ job'[j].event = job[j].event
           /\ rec' \in [Pairs -> DeliveryRecord]
           /\ \A x \in Pairs :
                /\ rec'[x].status = rec[x].status
                /\ rec'[x].attempts = rec[x].attempts
                /\ rec'[x].sentAge >= rec[x].sentAge
                /\ rec[x].status = "sending" =>
                     rec'[x].age = IF rec[x].age <= Window - 1 THEN rec[x].age + 1
                                   ELSE rec[x].age
  <1>1. \A r \in Runners :
          /\ run'[r] \in RunRecord
          /\ run'[r].phase = run[r].phase /\ run'[r].job = run[r].job
          /\ run'[r].channel = run[r].channel
          /\ run'[r].attempt = run[r].attempt
          /\ run'[r].suspended = run[r].suspended /\ run'[r].slow = run[r].slow
          /\ run'[r].time = IF Running(r) THEN run[r].time + 1 ELSE run[r].time
    <2> TAKE r \in Runners
    <2> DEFINE n == run[r].time + 1
               w == [run[r] EXCEPT !.time = n]
    <2>1. n \in Nat /\ run[r] \in RunRecord
      BY DEF TypeOK, RunRecord
    <2>2. run'[r] = IF Running(r) THEN w ELSE run[r]
      BY DEF Tick
    <2> HIDE DEF n
    <2>3. /\ w \in RunRecord /\ w.time = n
          /\ w.phase = run[r].phase /\ w.job = run[r].job
          /\ w.channel = run[r].channel /\ w.attempt = run[r].attempt
          /\ w.suspended = run[r].suspended /\ w.slow = run[r].slow
      BY <2>1 DEF RunRecord
    <2> QED
      BY <2>1, <2>2, <2>3 DEF n
  <1>2. \A j \in Jobs :
          /\ job'[j] \in JobRecord
          /\ job'[j].status = job[j].status /\ job'[j].event = job[j].event
    <2> TAKE j \in Jobs
    <2> DEFINE n == IF job[j].status # "running" \/ Renewed(j) THEN 0
                    ELSE Older(job[j].silent, LeaseTimeout)
               d == [job[j] EXCEPT !.silent = n]
    <2>1. n \in Nat /\ job[j] \in JobRecord
      BY TimingAssumption DEF TypeOK, JobRecord, Older
    <2>2. job'[j] = d
      BY DEF Tick
    <2> HIDE DEF n
    <2>3. /\ d \in JobRecord /\ d.status = job[j].status /\ d.event = job[j].event
      BY <2>1 DEF JobRecord
    <2> QED
      BY <2>2, <2>3
  <1>3. \A x \in Pairs :
          /\ rec'[x] \in DeliveryRecord
          /\ rec'[x].status = rec[x].status
          /\ rec'[x].attempts = rec[x].attempts
          /\ rec'[x].sentAge >= rec[x].sentAge
          /\ rec[x].status = "sending" =>
               rec'[x].age = IF rec[x].age <= Window - 1 THEN rec[x].age + 1
                             ELSE rec[x].age
    <2> TAKE x \in Pairs
    <2> DEFINE n == IF rec[x].status \in {"sending", "retrying"}
                    THEN Older(rec[x].age, Window - 1) ELSE rec[x].age
               m == IF rec[x].status = "sent"
                    THEN Older(rec[x].sentAge, Cooldown) ELSE rec[x].sentAge
               d == [rec[x] EXCEPT !.age = n, !.sentAge = m]
    <2>1. /\ n \in Nat /\ m \in Nat /\ rec[x] \in DeliveryRecord
          /\ m >= rec[x].sentAge
          /\ rec[x].status = "sending" =>
               n = IF rec[x].age <= Window - 1 THEN rec[x].age + 1 ELSE rec[x].age
      BY TimingAssumption DEF TypeOK, DeliveryRecord, Older
    <2>2. rec'[x] = d
      BY DEF Tick, Pairs
    <2> HIDE DEF n, m
    <2>3. /\ d \in DeliveryRecord /\ d.status = rec[x].status
          /\ d.attempts = rec[x].attempts /\ d.age = n /\ d.sentAge = m
      BY <2>1 DEF DeliveryRecord
    <2> QED
      BY <2>1, <2>2, <2>3
  <1>4. /\ run' = [r \in Runners |-> run'[r]]
        /\ job' = [j \in Jobs |-> job'[j]]
        /\ rec' = [x \in Pairs |-> rec'[x]]
    BY DEF Tick, Pairs
  <1>5. /\ run' \in [Runners -> RunRecord]
        /\ job' \in [Jobs -> JobRecord]
        /\ rec' \in [Pairs -> DeliveryRecord]
    BY <1>1, <1>2, <1>3, <1>4
  <1> QED
    BY <1>1, <1>2, <1>3, <1>5 DEF Tick

LEMMA RequeueStep ==
    ASSUME TypeOK, RequeueStaleJobs
    PROVE  /\ UNCHANGED <<rec, run, posted, faults>>
           /\ job' \in [Jobs -> JobRecord]
           /\ \A j \in Jobs : job'[j].event = job[j].event
           /\ \A j \in Jobs : job'[j].status = "none" <=> job[j].status = "none"
  <1>1. \A j \in Jobs :
          /\ job'[j] \in JobRecord
          /\ job'[j].event = job[j].event
          /\ job'[j].status = "none" <=> job[j].status = "none"
    <2> TAKE j \in Jobs
    <2> DEFINE d == [job[j] EXCEPT !.status = "queued", !.silent = 0]
    <2>1. job[j] \in JobRecord
      BY DEF TypeOK
    <2>2. d \in JobRecord /\ d.event = job[j].event /\ d.status = "queued"
      BY <2>1 DEF JobRecord
    <2>3. \/ job'[j] = d /\ job[j].status = "running"
          \/ job'[j] = job[j]
      BY DEF RequeueStaleJobs
    <2> QED
      BY <2>1, <2>2, <2>3
  <1>2. job' = [j \in Jobs |-> job'[j]]
    BY DEF RequeueStaleJobs
  <1>3. job' \in [Jobs -> JobRecord]
    BY <1>1, <1>2
  <1> QED
    BY <1>1, <1>3 DEF RequeueStaleJobs

LEMMA EnqueueStep ==
    ASSUME TypeOK, NEW j \in Jobs, NEW e \in Events, Enqueue(j, e)
    PROVE  /\ UNCHANGED <<rec, run, posted, faults>>
           /\ job[j].status = "none"
           /\ job' \in [Jobs -> JobRecord]
           /\ job'[j].event = e
           /\ \A k \in Jobs \ {j} : job'[k] = job[k]
  <1> DEFINE d == [job[j] EXCEPT !.status = "queued", !.event = e]
  <1>1. job[j] \in JobRecord
    BY DEF TypeOK
  <1>2. d \in JobRecord /\ d.event = e
    BY <1>1 DEF JobRecord
  <1>3. job' = [job EXCEPT ![j] = d]
    BY DEF Enqueue
  <1> HIDE DEF d
  <1> QED
    BY <1>2, <1>3 DEF Enqueue, TypeOK

(* A worker that is gone, stands still, goes on or is told to stop.        *)
LEMMA LeaseStep ==
    ASSUME TypeOK, NEW r \in Runners,
           Crash(r) \/ Suspend(r) \/ Resume(r) \/ LeaseLost(r) \/ Outlive(r)
    PROVE  /\ UNCHANGED <<job, rec, posted>>
           /\ run' \in [Runners -> RunRecord]
           /\ faults' \in [Kinds -> Nat]
           /\ \A q \in Runners \ {r} : run'[q] = run[q]
           /\ \/ run'[r] = Idle /\ (Timely' => Timely)
              \/ ~Timely' /\ run'[r].phase = run[r].phase
                 /\ run'[r].job = run[r].job /\ run'[r].channel = run[r].channel
              \/ /\ Timely' = Timely
                 /\ run'[r].phase = run[r].phase /\ run'[r].job = run[r].job
                 /\ run'[r].channel = run[r].channel
                 /\ run'[r].attempt = run[r].attempt
                 /\ run'[r].time = run[r].time
                 /\ run'[r].slow = run[r].slow
                 /\ run'[r].suspended \in {run[r].suspended, FALSE}
  <1>1. run[r] \in RunRecord /\ run \in [Runners -> RunRecord]
    BY DEF TypeOK
  <1>2. CASE Crash(r)
    BY <1>1, <1>2, IdleType, FaultType, FaultKeeps DEF Crash, Kinds
  <1>3. CASE Suspend(r)
    <2> DEFINE d == [run[r] EXCEPT !.suspended = TRUE]
    <2>1. d \in RunRecord /\ d.phase = run[r].phase /\ d.job = run[r].job
          /\ d.channel = run[r].channel
      BY <1>1 DEF RunRecord
    <2>2. run' = [run EXCEPT ![r] = d]
      BY <1>3 DEF Suspend
    <2> HIDE DEF d
    <2>3. ~Timely'
      BY <1>3, FaultType DEF Suspend, Kinds, TypeOK, Timely
    <2> QED
      BY <1>1, <1>3, <2>1, <2>2, <2>3, FaultType DEF Suspend, Kinds
  <1>4. CASE Resume(r)
    <2> DEFINE d == [run[r] EXCEPT !.suspended = FALSE]
    <2>1. /\ d \in RunRecord /\ d.phase = run[r].phase /\ d.job = run[r].job
          /\ d.channel = run[r].channel /\ d.attempt = run[r].attempt
          /\ d.time = run[r].time /\ d.slow = run[r].slow /\ d.suspended = FALSE
      BY <1>1 DEF RunRecord
    <2>2. run' = [run EXCEPT ![r] = d]
      BY <1>4 DEF Resume
    <2> HIDE DEF d
    <2> QED
      BY <1>1, <1>4, <2>1, <2>2 DEF Resume, Timely, TypeOK
  <1>5. CASE LeaseLost(r)
    <2> DEFINE d == [run[r] EXCEPT !.cancelled = TRUE]
    <2>1. /\ d \in RunRecord /\ d.phase = run[r].phase /\ d.job = run[r].job
          /\ d.channel = run[r].channel /\ d.attempt = run[r].attempt
          /\ d.time = run[r].time /\ d.slow = run[r].slow /\ d.suspended = run[r].suspended
      BY <1>1 DEF RunRecord
    <2>2. run' = [run EXCEPT ![r] = d]
      BY <1>5 DEF LeaseLost
    <2> HIDE DEF d
    <2> QED
      BY <1>1, <1>5, <2>1, <2>2 DEF LeaseLost, Timely, TypeOK
  <1>6. CASE Outlive(r)
    <2> DEFINE d == [run[r] EXCEPT !.slow = TRUE]
    <2>1. d \in RunRecord /\ d.phase = run[r].phase /\ d.job = run[r].job
          /\ d.channel = run[r].channel
      BY <1>1 DEF RunRecord
    <2>2. run' = [run EXCEPT ![r] = d]
      BY <1>6 DEF Outlive
    <2> HIDE DEF d
    <2>3. ~Timely'
      BY <1>6, FaultType DEF Outlive, Kinds, TypeOK, Timely
    <2> QED
      BY <1>1, <1>6, <2>1, <2>2, <2>3, FaultType DEF Outlive, Kinds
  <1> QED
    BY <1>2, <1>3, <1>4, <1>5, <1>6

-----------------------------------------------------------------------------
(* Types hold always *)

(* A runner that goes on stays on its job, and jobs keep their events.     *)
LEMMA EmployedKept ==
    ASSUME Employed,
           \A j \in Jobs : job[j].status # "none" =>
               job'[j].status # "none" /\ job'[j].event = job[j].event,
           \A j \in Jobs : job'[j].status # "none" =>
               job[j].status # "none" \/ job'[j].event \in Events,
           \A q \in Runners :
               \/ run'[q].phase = "idle"
               \/ /\ run[q].phase # "idle"
                  /\ run'[q].job = run[q].job
                  /\ run'[q].phase \in {"send", "record"} => run'[q].channel \in Channels
    PROVE  Employed'
  <1>1. \A j \in Jobs : job'[j].status # "none" => job'[j].event \in Events
    BY DEF Employed
  <1>2. ASSUME NEW q \in Runners, run'[q].phase # "idle"
        PROVE  run'[q].job \in Jobs /\ job'[run'[q].job].status # "none"
    BY <1>2 DEF Employed
  <1>3. ASSUME NEW q \in Runners, run'[q].phase \in {"send", "record"}
        PROVE  run'[q].channel \in Channels
    BY <1>3
  <1> QED
    BY <1>1, <1>2, <1>3 DEF Employed

LEMMA TypeStep ==
    ASSUME TypeOK, Employed, [Next]_vars
    PROVE  TypeOK' /\ Employed'
  <1>1. CASE UNCHANGED vars
    BY <1>1 DEF vars, TypeOK, Employed
  <1>2. ASSUME NEW j \in Jobs, NEW e \in Events, Enqueue(j, e)
        PROVE  TypeOK' /\ Employed'
    BY <1>2, EnqueueStep DEF TypeOK, Employed
  <1>3. ASSUME NEW r \in Runners, Claim(r)
        PROVE  TypeOK' /\ Employed'
    <2>1. TypeOK'
      BY <1>3, ClaimStep DEF TypeOK
    <2>2. /\ run'[r].phase = "begin" /\ run'[r].job \in Jobs
          /\ job[run'[r].job].status # "none"
          /\ \A q \in Runners \ {r} : run'[q] = run[q]
      BY <1>3, ClaimStep
    <2>3. \A j \in Jobs : /\ job'[j].event = job[j].event
                          /\ job'[j].status = "none" <=> job[j].status = "none"
      BY <1>3, ClaimStep
    <2>4. Employed'
      BY <2>2, <2>3 DEF Employed
    <2> QED
      BY <2>1, <2>4
  <1>4. ASSUME NEW r \in Runners, NEW c \in Channels, Begin(r, c)
        PROVE  TypeOK' /\ Employed'
    <2>0. rec' \in [Pairs -> DeliveryRecord]
      <3>1. EventOf(r) \in Events
        BY <1>4, BeginStep
      <3>2. Decided(EventOf(r), c) \in DeliveryRecord
        BY <3>1, DecidedType
      <3>3. \/ UNCHANGED rec
            \/ rec' = [rec EXCEPT ![<<EventOf(r), c>>] = Decided(EventOf(r), c)]
        BY <1>4, BeginStep
      <3> QED
        BY <3>2, <3>3 DEF TypeOK
    <2>1. TypeOK'
      BY <1>4, <2>0, BeginStep DEF TypeOK, Moves
    <2>2. \A j \in Jobs : /\ job[j].status # "none" =>
                               job'[j].status # "none" /\ job'[j].event = job[j].event
                          /\ job'[j].status # "none" => job[j].status # "none"
      BY <1>4, BeginStep
    <2>3. \A q \in Runners :
            \/ run'[q].phase = "idle"
            \/ /\ run[q].phase # "idle"
               /\ run'[q].job = run[q].job
               /\ run'[q].phase \in {"send", "record"} => run'[q].channel \in Channels
      <3>1. /\ run[r].phase = "begin" /\ run'[r].job = run[r].job
            /\ \A q \in Runners \ {r} : run'[q] = run[q]
            /\ run'[r].phase = "begin" \/ run'[r].channel = c
        BY <1>4, BeginStep DEF Moves
      <3> QED
        BY <3>1 DEF Employed
    <2>4. Employed'
      BY <2>2, <2>3, EmployedKept
    <2> QED
      BY <2>1, <2>4
  <1>5. ASSUME NEW r \in Runners, NEW o \in Outcomes, Post(r, o)
        PROVE  TypeOK' /\ Employed'
    <2>1. TypeOK'
      BY <1>5, PostStep DEF TypeOK, Moves
    <2>2. \A j \in Jobs : /\ job[j].status # "none" =>
                               job'[j].status # "none" /\ job'[j].event = job[j].event
                          /\ job'[j].status # "none" => job[j].status # "none"
      BY <1>5, PostStep
    <2>3. \A q \in Runners :
            \/ run'[q].phase = "idle"
            \/ /\ run[q].phase # "idle"
               /\ run'[q].job = run[q].job
               /\ run'[q].phase \in {"send", "record"} => run'[q].channel \in Channels
      BY <1>5, PostStep DEF Employed, Moves
    <2>4. Employed'
      BY <2>2, <2>3, EmployedKept
    <2> QED
      BY <2>1, <2>4
  <1>6. ASSUME NEW r \in Runners, Record(r)
        PROVE  TypeOK' /\ Employed'
    <2>1. TypeOK'
      BY <1>6, RecordStep DEF TypeOK, Moves
    <2>2. \A j \in Jobs : /\ job[j].status # "none" =>
                               job'[j].status # "none" /\ job'[j].event = job[j].event
                          /\ job'[j].status # "none" => job[j].status # "none"
      BY <1>6, RecordStep
    <2>3. \A q \in Runners :
            \/ run'[q].phase = "idle"
            \/ /\ run[q].phase # "idle"
               /\ run'[q].job = run[q].job
               /\ run'[q].phase \in {"send", "record"} => run'[q].channel \in Channels
      BY <1>6, RecordStep DEF Employed, Moves
    <2>4. Employed'
      BY <2>2, <2>3, EmployedKept
    <2> QED
      BY <2>1, <2>4
  <1>7. ASSUME NEW r \in Runners, Finish(r)
        PROVE  TypeOK' /\ Employed'
    <2>0. /\ run' \in [Runners -> RunRecord]
          /\ \A q \in Runners \ {r} : run'[q] = run[q]
          /\ run'[r].phase = "idle"
      <3>1. run' = [run EXCEPT ![r] = Idle] /\ Idle.phase = "idle"
        BY <1>7, FinishStep DEF Idle
      <3> QED
        BY <3>1, IdleType DEF TypeOK
    <2>1. TypeOK'
      BY <1>7, <2>0, FinishStep DEF TypeOK
    <2>2. \A j \in Jobs : /\ job[j].status # "none" =>
                               job'[j].status # "none" /\ job'[j].event = job[j].event
                          /\ job'[j].status # "none" => job[j].status # "none"
      BY <1>7, FinishStep
    <2>3. \A q \in Runners :
            \/ run'[q].phase = "idle"
            \/ /\ run[q].phase # "idle"
               /\ run'[q].job = run[q].job
               /\ run'[q].phase \in {"send", "record"} => run'[q].channel \in Channels
      BY <1>7, <2>0, FinishStep DEF Employed
    <2>4. Employed'
      BY <2>2, <2>3, EmployedKept
    <2> QED
      BY <2>1, <2>4
  <1>8. ASSUME NEW r \in Runners, Crash(r) \/ Suspend(r) \/ Resume(r) \/ LeaseLost(r) \/ Outlive(r)
        PROVE  TypeOK' /\ Employed'
    <2>0. \/ run'[r].phase = "idle"
          \/ /\ run'[r].phase = run[r].phase /\ run'[r].job = run[r].job
             /\ run'[r].channel = run[r].channel
      <3>1. Idle.phase = "idle"
        BY DEF Idle
      <3> QED
        BY <1>8, <3>1, LeaseStep
    <2>1. TypeOK'
      BY <1>8, <2>0, LeaseStep DEF TypeOK
    <2>2. \A j \in Jobs : /\ job[j].status # "none" =>
                               job'[j].status # "none" /\ job'[j].event = job[j].event
                          /\ job'[j].status # "none" => job[j].status # "none"
      BY <1>8, LeaseStep
    <2>3. \A q \in Runners :
            \/ run'[q].phase = "idle"
            \/ /\ run[q].phase # "idle"
               /\ run'[q].job = run[q].job
               /\ run'[q].phase \in {"send", "record"} => run'[q].channel \in Channels
      BY <1>8, <2>0, LeaseStep DEF Employed
    <2>4. Employed'
      BY <2>2, <2>3, EmployedKept
    <2> QED
      BY <2>1, <2>4
  <1>9. CASE RequeueStaleJobs
    <2>1. TypeOK'
      BY <1>9, RequeueStep DEF TypeOK
    <2>2. \A j \in Jobs : /\ job[j].status # "none" =>
                               job'[j].status # "none" /\ job'[j].event = job[j].event
                          /\ job'[j].status # "none" => job[j].status # "none"
      BY <1>9, RequeueStep
    <2>3. \A q \in Runners :
            \/ run'[q].phase = "idle"
            \/ /\ run[q].phase # "idle"
               /\ run'[q].job = run[q].job
               /\ run'[q].phase \in {"send", "record"} => run'[q].channel \in Channels
      BY <1>9, RequeueStep DEF Employed
    <2>4. Employed'
      BY <2>2, <2>3, EmployedKept
    <2> QED
      BY <2>1, <2>4
  <1>10. CASE Tick
    <2>1. TypeOK'
      BY <1>10, TickStep DEF TypeOK
    <2>2. \A j \in Jobs : /\ job[j].status # "none" =>
                               job'[j].status # "none" /\ job'[j].event = job[j].event
                          /\ job'[j].status # "none" => job[j].status # "none"
      BY <1>10, TickStep
    <2>3. \A q \in Runners :
            \/ run'[q].phase = "idle"
            \/ /\ run[q].phase # "idle"
               /\ run'[q].job = run[q].job
               /\ run'[q].phase \in {"send", "record"} => run'[q].channel \in Channels
      BY <1>10, TickStep DEF Employed
    <2>4. Employed'
      BY <2>2, <2>3, EmployedKept
    <2> QED
      BY <2>1, <2>4
  <1> QED
    BY <1>1, <1>2, <1>3, <1>4, <1>5, <1>6, <1>7, <1>8, <1>9, <1>10
    DEF Next, Dispatch

(* Every variable keeps its type, and a runner works on a job that has an  *)
(* event and sends on a channel.                                           *)
THEOREM TypeCorrect == Spec => [](TypeOK /\ Employed)
  <1>1. TypeOK /\ Employed /\ [Next]_vars => (TypeOK /\ Employed)'
    BY TypeStep
  <1> QED
    BY InitType, <1>1, PTL DEF Spec

-----------------------------------------------------------------------------
(* Exclusive is kept *)

LEMMA InitExclusive == Init => Exclusive
  <1> SUFFICES ASSUME Init PROVE Exclusive
    OBVIOUS
  <1>1. \A r \in Runners : ~Busy(r) /\ run[r].phase = "idle" /\ ~run[r].suspended
    BY DEF Init, Idle, Busy
  <1>2. \A x \in Pairs :
          posted[x] = 0 /\ rec[x].attempts = 0
    BY DEF Init, Pairs
  <1>3. Counted
    BY <1>2, BoundsAssumption DEF Counted
  <1> QED
    BY <1>1, <1>3 DEF Exclusive, Owns, Single, Alone, Quiet, Fits

(* The busy runner's place before and after a step that does not move it.  *)
Stays(q) ==
    /\ run[q].phase = run'[q].phase
    /\ EventOf(q) = EventOf(q)'
    /\ run[q].channel = run'[q].channel
    /\ run[q].attempt = run'[q].attempt
    /\ run[q].time = run'[q].time /\ run'[q].slow = run[q].slow

(* Nothing to show when no record changes and nobody becomes busy.         *)
LEMMA Fewer ==
    ASSUME Exclusive, Timely, UNCHANGED <<rec, posted>>,
           \A q \in Runners : ~run'[q].suspended,
           \A q \in Runners : Busy(q)' => Busy(q) /\ Stays(q)
    PROVE  Exclusive'
  <1>1. Owns'
    BY DEF Exclusive, Owns, Stays, Busy
  <1>2. Single' /\ (Cooldown > 0 => Alone')
    BY DEF Exclusive, Single, Alone, Stays, Busy
  <1>3. Quiet'
    BY DEF Exclusive, Quiet, Stays, Busy
  <1>4. Counted'
    BY DEF Exclusive, Counted
  <1>5. Fits'
    BY DEF Exclusive, Fits, Stays, Busy
  <1> QED
    BY <1>1, <1>2, <1>3, <1>4, <1>5 DEF Exclusive

(* A runner that nothing happens to stays where it is when its job keeps   *)
(* its event.                                                              *)
LEMMA StaysPut ==
    ASSUME Employed, NEW q \in Runners, Busy(q)', run'[q] = run[q],
           \A j \in Jobs : job[j].status # "none" => job'[j].event = job[j].event
    PROVE  Busy(q) /\ Stays(q)
  <1>1. run[q].job \in Jobs /\ job[run[q].job].status # "none"
    BY DEF Employed, Busy
  <1> QED
    BY <1>1 DEF Busy, Stays, EventOf

LEMMA QuietSteps ==
    ASSUME TypeOK, Employed, Exclusive, Timely, Timely',
           \/ \E j \in Jobs, e \in Events : Enqueue(j, e)
           \/ \E r \in Runners : Claim(r) \/ Finish(r)
           \/ \E r \in Runners : Crash(r) \/ Suspend(r) \/ Resume(r) \/ LeaseLost(r) \/ Outlive(r)
           \/ RequeueStaleJobs
    PROVE  Exclusive'
  <1>0. \A q \in Runners : ~run[q].suspended
    BY DEF Exclusive
  <1>1. ASSUME NEW j \in Jobs, NEW e \in Events, Enqueue(j, e)
        PROVE  Exclusive'
    <2>1. /\ UNCHANGED <<rec, posted, run>>
          /\ \A k \in Jobs : job[k].status # "none" => job'[k].event = job[k].event
      BY <1>1, EnqueueStep
    <2>2. \A q \in Runners : Busy(q)' => Busy(q) /\ Stays(q)
      BY <2>1, StaysPut
    <2> QED
      BY <1>0, <2>1, <2>2, Fewer
  <1>2. ASSUME NEW r \in Runners, Claim(r)
        PROVE  Exclusive'
    <2>1. /\ UNCHANGED <<rec, posted>>
          /\ \A k \in Jobs : job[k].status # "none" => job'[k].event = job[k].event
          /\ \A q \in Runners \ {r} : run'[q] = run[q]
          /\ ~run'[r].suspended /\ run'[r].phase = "begin"
      BY <1>2, ClaimStep
    <2>2. \A q \in Runners : Busy(q)' => Busy(q) /\ Stays(q)
      BY <2>1, StaysPut DEF Busy
    <2> QED
      BY <1>0, <2>1, <2>2, Fewer
  <1>3. ASSUME NEW r \in Runners, Finish(r)
        PROVE  Exclusive'
    <2>1. /\ UNCHANGED <<rec, posted>>
          /\ \A k \in Jobs : job[k].status # "none" => job'[k].event = job[k].event
          /\ run' = [run EXCEPT ![r] = Idle]
      BY <1>3, FinishStep
    <2>2. /\ \A q \in Runners \ {r} : run'[q] = run[q]
          /\ ~run'[r].suspended /\ run'[r].phase = "idle"
      BY <2>1 DEF TypeOK, Idle
    <2>3. \A q \in Runners : Busy(q)' => Busy(q) /\ Stays(q)
      BY <2>1, <2>2, StaysPut DEF Busy
    <2> QED
      BY <1>0, <2>1, <2>2, <2>3, Fewer
  <1>4. ASSUME NEW r \in Runners, Crash(r) \/ Suspend(r) \/ Resume(r) \/ LeaseLost(r) \/ Outlive(r)
        PROVE  Exclusive'
    <2>1. /\ UNCHANGED <<job, rec, posted>>
          /\ \A q \in Runners \ {r} : run'[q] = run[q]
      BY <1>4, LeaseStep
    <2>0. Idle.phase = "idle" /\ ~Idle.suspended
      BY DEF Idle
    <2>2. \/ run'[r].phase = "idle" /\ ~run'[r].suspended
          \/ /\ run'[r].phase = run[r].phase /\ run'[r].job = run[r].job
             /\ run'[r].channel = run[r].channel
             /\ run'[r].attempt = run[r].attempt
             /\ run'[r].time = run[r].time /\ run'[r].slow = run[r].slow
             /\ run'[r].suspended \in {run[r].suspended, FALSE}
      BY <1>4, <2>0, LeaseStep
    <2>3. \A q \in Runners : ~run'[q].suspended
      BY <1>0, <2>1, <2>2
    <2>4. Busy(r)' => Busy(r) /\ Stays(r)
      BY <2>1, <2>2 DEF Busy, Stays, EventOf
    <2>5. \A q \in Runners \ {r} : Busy(q)' => Busy(q) /\ Stays(q)
      BY <2>1, StaysPut
    <2> QED
      BY <2>1, <2>3, <2>4, <2>5, Fewer
  <1>5. CASE RequeueStaleJobs
    <2>1. /\ UNCHANGED <<rec, posted, run>>
          /\ \A k \in Jobs : job[k].status # "none" => job'[k].event = job[k].event
      BY <1>5, RequeueStep
    <2>2. \A q \in Runners : Busy(q)' => Busy(q) /\ Stays(q)
      BY <2>1, StaysPut
    <2> QED
      BY <1>0, <2>1, <2>2, Fewer
  <1> QED
    BY <1>1, <1>2, <1>3, <1>4, <1>5

(* The record of a busy runner is passed over by everyone else. *)
LEMMA OwnedIsFresh ==
    ASSUME TypeOK, Exclusive, Timely, NEW q \in Runners, Busy(q)
    PROVE  LET e == EventOf(q)
               c == run[q].channel
           IN  /\ rec[<<e, c>>].status = "sending"
               /\ Fresh(e, c)
               /\ Decision(e, c) = "skip"
  <1> DEFINE e == EventOf(q)
             c == run[q].channel
  <1>1. /\ rec[<<e, c>>].status = "sending"
        /\ rec[<<e, c>>].age = run[q].time
        /\ run[q].time < Window /\ ~run[q].slow
        /\ run[q].time \in Nat
    BY DEF Exclusive, Owns, TypeOK, RunRecord
  <1>2. Fresh(e, c)
    BY <1>1, TimingAssumption DEF Fresh
  <1> QED
    BY <1>1, <1>2 DEF Decision

LEMMA PostExclusive ==
    ASSUME TypeOK, Employed, Exclusive, Timely,
           NEW r \in Runners, NEW o \in Outcomes, Post(r, o)
    PROVE  Exclusive'
  <1> DEFINE x == <<EventOf(r), run[r].channel>>
  <1>1. /\ UNCHANGED <<job, rec>>
        /\ run'[r].job = run[r].job /\ run'[r].suspended = run[r].suspended
        /\ \A q \in Runners \ {r} : run'[q] = run[q]
        /\ run[r].phase = "send" /\ run'[r].phase = "record"
        /\ run'[r].channel = run[r].channel
        /\ run'[r].time = run[r].time /\ run'[r].slow = run[r].slow
        /\ run'[r].attempt = run[r].attempt
    BY PostStep DEF Moves
  <1>2. /\ x \in Pairs
        /\ posted \in [Pairs -> Nat] /\ posted' \in [Pairs -> Nat]
        /\ posted'[x] <= posted[x] + 1
        /\ \A y \in Pairs \ {x} : posted'[y] = posted[y]
    BY PostStep DEF TypeOK
  <1>3. \A q \in Runners : Busy(q)' =>
          /\ Busy(q)
          /\ EventOf(q) = EventOf(q)'
          /\ run[q].channel = run'[q].channel
          /\ run[q].attempt = run'[q].attempt
          /\ run[q].time = run'[q].time /\ run'[q].slow = run[q].slow
    BY <1>1 DEF Busy, EventOf
  <1>4. Owns'
    BY <1>1, <1>3 DEF Exclusive, Owns
  <1>5. Single' /\ (Cooldown > 0 => Alone')
    BY <1>3 DEF Exclusive, Single, Alone
  <1>6. Quiet'
    BY <1>1, <1>3 DEF Exclusive, Quiet
  <1>7. /\ posted[x] < run[r].attempt
        /\ rec[x].attempts = run[r].attempt
        /\ rec[x].status = "sending"
    BY <1>1 DEF Exclusive, Fits, Owns, Busy
  <1>8. Counted'
    <2>1. /\ \A y \in Pairs : rec[y].attempts \in Nat /\ rec[y].attempts <= ChannelAttempts
          /\ ChannelAttempts \in Nat
      BY BoundsAssumption DEF Exclusive, Counted, TypeOK, DeliveryRecord
    <2>2. posted'[x] <= rec[x].attempts
      BY <1>2, <1>7, <2>1
    <2> QED
      BY <1>1, <1>2, <2>1, <2>2 DEF Exclusive, Counted
  <1>9. Fits'
    <2>1. SUFFICES ASSUME NEW q \in Runners, run'[q].phase = "send"
                   PROVE  posted'[<<EventOf(q), run[q].channel>>] < run[q].attempt
      BY <1>3 DEF Fits, Busy
    <2>2. q # r /\ run[q].phase = "send" /\ Busy(q) /\ Busy(r)
      BY <1>1, <2>1 DEF Busy
    <2>3. <<EventOf(q), run[q].channel>> \in Pairs \ {x}
      BY <2>2, AtType DEF Exclusive, Single
    <2> QED
      BY <1>2, <2>2, <2>3 DEF Exclusive, Fits
  <1>10. \A q \in Runners : ~run'[q].suspended
    BY <1>1 DEF Exclusive
  <1> QED
    BY <1>4, <1>5, <1>6, <1>8, <1>9, <1>10 DEF Exclusive

LEMMA RecordExclusive ==
    ASSUME TypeOK, Employed, Exclusive, Timely, NEW r \in Runners, Record(r)
    PROVE  Exclusive'
  <1> DEFINE x == <<EventOf(r), run[r].channel>>
  <1>1. /\ UNCHANGED <<job, posted>>
        /\ run'[r].suspended = run[r].suspended
        /\ \A q \in Runners \ {r} : run'[q] = run[q]
        /\ run[r].phase = "record" /\ run'[r].phase = "begin"
        /\ x \in Pairs
    BY RecordStep DEF Moves
  <1>2. \A q \in Runners : Busy(q)' => q # r /\ Busy(q) /\ Stays(q)
    BY <1>1 DEF Busy, Stays, EventOf
  <1>3. \A q \in Runners : ~run'[q].suspended
    BY <1>1 DEF Exclusive
  <1>4. CASE UNCHANGED rec
    BY <1>1, <1>2, <1>3, <1>4, Fewer
  <1>5. CASE /\ rec' \in [Pairs -> DeliveryRecord]
             /\ rec'[x].status \in {"sent", "suppressed", "failed", "retrying"}
             /\ rec'[x].attempts = run[r].attempt
             /\ \A y \in Pairs \ {x} : rec'[y] = rec[y]
    <2>1. Busy(r) /\ rec[x].attempts = run[r].attempt /\ rec[x].status = "sending"
      BY <1>1 DEF Busy, Exclusive, Owns
    <2>2. \A q \in Runners : Busy(q)' =>
            <<EventOf(q), run[q].channel>> \in Pairs \ {x}
      BY <1>2, <2>1, AtType DEF Exclusive, Single
    <2>3. Owns'
      BY <1>2, <1>5, <2>2 DEF Exclusive, Owns, Stays
    <2>4. Single' /\ (Cooldown > 0 => Alone')
      BY <1>2 DEF Exclusive, Single, Alone, Stays
    <2>5. Quiet'
      <3> SUFFICES ASSUME Cooldown > 0, NEW q \in Runners, Busy(q)',
                          NEW f \in Key(EventOf(q)) \ {EventOf(q)},
                          rec'[<<f, run[q].channel>>].status = "sent"
                   PROVE  rec'[<<f, run[q].channel>>].sentAge > Cooldown
        BY <1>2 DEF Quiet, Stays
      <3>1. Busy(q) /\ q # r /\ EventOf(q) \in Events /\ run[q].channel \in Channels
        BY <1>2, AtType
      <3>2. <<f, run[q].channel>> \in Pairs
        BY <3>1, KeyFacts DEF Pairs
      <3>3. <<f, run[q].channel>> # x
        BY <2>1, <3>1 DEF Exclusive, Alone
      <3> QED
        BY <1>5, <3>1, <3>2, <3>3 DEF Exclusive, Quiet
    <2>6. Counted'
      BY <1>1, <1>5, <2>1 DEF Exclusive, Counted, Terminal
    <2>7. Fits'
      BY <1>1, <1>2 DEF Exclusive, Fits, Stays, Busy
    <2> QED
      BY <1>3, <2>3, <2>4, <2>5, <2>6, <2>7 DEF Exclusive
  <1> QED
    BY <1>4, <1>5, RecordStep

LEMMA TickExclusive ==
    ASSUME TypeOK, Employed, Exclusive, Timely, Tick
    PROVE  Exclusive'
  <1>1. \A q \in Runners : Busy(q) =>
          /\ Lasts(q) /\ run[q].time \in Nat
          /\ run'[q].time = run[q].time + 1 /\ run'[q].slow = run[q].slow
    BY TickStep DEF Exclusive, Busy, Running, TypeOK, RunRecord
  <1>2. /\ posted' = posted
        /\ \A q \in Runners :
             /\ run'[q].phase = run[q].phase /\ run'[q].job = run[q].job
             /\ run'[q].channel = run[q].channel
             /\ run'[q].attempt = run[q].attempt
             /\ run'[q].suspended = run[q].suspended
        /\ \A j \in Jobs : job'[j].event = job[j].event
    BY TickStep
  <1>3. \A q \in Runners : Busy(q)' =>
          /\ Busy(q) /\ EventOf(q)' = EventOf(q)
          /\ <<EventOf(q), run[q].channel>> \in Pairs
    BY <1>2, AtType DEF Busy, EventOf, Employed
  <1>4. \A x \in Pairs :
          /\ rec'[x].status = rec[x].status
          /\ rec'[x].attempts = rec[x].attempts
          /\ rec'[x].sentAge >= rec[x].sentAge
          /\ rec'[x].sentAge \in Nat /\ rec[x].sentAge \in Nat
          /\ rec[x].status = "sending" =>
               rec'[x].age = IF rec[x].age <= Window - 1 THEN rec[x].age + 1
                             ELSE rec[x].age
    BY TickStep DEF TypeOK, DeliveryRecord
  <1>5. Owns'
    <2> SUFFICES ASSUME NEW q \in Runners, Busy(q)'
                 PROVE  LET x == <<EventOf(q), run[q].channel>> IN
                        /\ rec'[x].status = "sending"
                        /\ rec'[x].attempts = run[q].attempt
                        /\ rec'[x].age = run'[q].time
                        /\ run'[q].time < Window /\ ~run'[q].slow
      BY <1>2, <1>3 DEF Owns
    <2> DEFINE x == <<EventOf(q), run[q].channel>>
    <2>1. /\ x \in Pairs
          /\ run[q].time \in Nat /\ Lasts(q) /\ ~run[q].slow
          /\ run'[q].time = run[q].time + 1 /\ run'[q].slow = run[q].slow
      BY <1>1, <1>3 DEF Exclusive, Owns
    <2>2. /\ rec[x].status = "sending"
          /\ rec[x].attempts = run[q].attempt
          /\ rec[x].age = run[q].time
      BY <1>3 DEF Exclusive, Owns
    <2>3. run[q].time <= Window - 1 /\ run[q].time + 1 < Window
      BY <2>1, TimingAssumption DEF Lasts
    <2> QED
      BY <1>4, <2>1, <2>2, <2>3
  <1>6. Single' /\ (Cooldown > 0 => Alone')
    BY <1>2, <1>3 DEF Exclusive, Single, Alone
  <1>7. Quiet'
    <2> SUFFICES ASSUME Cooldown > 0, NEW q \in Runners, Busy(q)',
                        NEW f \in Key(EventOf(q)) \ {EventOf(q)},
                        rec'[<<f, run[q].channel>>].status = "sent"
                 PROVE  rec'[<<f, run[q].channel>>].sentAge > Cooldown
      BY <1>2, <1>3 DEF Quiet
    <2> DEFINE y == <<f, run[q].channel>>
    <2>1. Busy(q) /\ EventOf(q) \in Events /\ run[q].channel \in Channels
      BY <1>3, AtType
    <2>2. y \in Pairs
      BY <2>1, KeyFacts DEF Pairs
    <2>3. rec[y].status = "sent" /\ rec[y].sentAge > Cooldown
      BY <1>4, <2>1, <2>2 DEF Exclusive, Quiet
    <2> QED
      BY <1>4, <2>2, <2>3, TimingAssumption
  <1>8. Counted'
    BY <1>2, <1>4 DEF Exclusive, Counted
  <1>9. Fits'
    BY <1>2, <1>3 DEF Exclusive, Fits, Busy
  <1>10. \A q \in Runners : ~run'[q].suspended
    BY <1>2 DEF Exclusive
  <1> QED
    BY <1>5, <1>6, <1>7, <1>8, <1>9, <1>10 DEF Exclusive

(* The decision to send is taken for a record that nobody owns and that    *)
(* has no rival on its channel.                                            *)
LEMMA BeginExclusive ==
    ASSUME TypeOK, Employed, Exclusive, Timely,
           NEW r \in Runners, NEW c \in Channels, Begin(r, c)
    PROVE  Exclusive'
  <1> DEFINE e == EventOf(r)
             x == <<e, c>>
  <1>1. /\ UNCHANGED <<job, posted>>
        /\ run'[r].job = run[r].job /\ run'[r].suspended = run[r].suspended
        /\ \A q \in Runners \ {r} : run'[q] = run[q]
        /\ run[r].phase = "begin" /\ e \in Events /\ x \in Pairs
    BY BeginStep DEF Moves, Pairs
  <1>2. /\ \A q \in Runners : EventOf(q)' = EventOf(q)
        /\ \A q \in Runners \ {r} : Busy(q)' => Busy(q) /\ Stays(q)
    BY <1>1 DEF Busy, Stays, EventOf
  <1>3. \A q \in Runners : ~run'[q].suspended
    BY <1>1 DEF Exclusive
  <1>4. CASE UNCHANGED rec /\ run'[r].phase = "begin"
    <2>1. ~Busy(r)'
      BY <1>4 DEF Busy
    <2> QED
      BY <1>1, <1>2, <1>3, <1>4, <2>1, Fewer
  <1>5. CASE /\ rec' = [rec EXCEPT ![x] = Decided(e, c)]
             /\ run'[r].phase = IF Decision(e, c) = "send" THEN "send" ELSE "begin"
             /\ run'[r].channel = c
             /\ run'[r].time = 0 /\ ~run'[r].slow
             /\ run'[r].attempt = Decided(e, c).attempts
    <2>1. /\ rec' \in [Pairs -> DeliveryRecord]
          /\ rec'[x] = Decided(e, c)
          /\ \A y \in Pairs \ {x} : rec'[y] = rec[y]
      BY <1>1, <1>5, DecidedType DEF TypeOK
    <2>2. CASE Decision(e, c) = "skip"
      <3>1. rec' = rec
        BY <1>1, <1>5, <2>2, DecidedType DEF TypeOK
      <3>2. run'[r].phase = "begin"
        BY <1>5, <2>2
      <3> QED
        BY <1>4, <3>1, <3>2
    <2>3. ASSUME Decision(e, c) # "skip", NEW q \in Runners, Busy(q)
          PROVE  <<EventOf(q), run[q].channel>> \in Pairs \ {x}
      BY <2>3, OwnedIsFresh, AtType
    <2>4. CASE Decision(e, c) \in {"exhausted", "suppressed"}
      <3>1. ~Busy(r)' /\ run'[r].phase # "send"
        BY <1>5, <2>4 DEF Busy
      <3>2. /\ rec'[x].status \in {"failed", "suppressed"}
            /\ rec'[x].attempts <= ChannelAttempts
        <4>1. rec[x] \in DeliveryRecord /\ rec[x].attempts <= ChannelAttempts
          BY <1>1 DEF TypeOK, Exclusive, Counted
        <4>2. CASE Decision(e, c) = "exhausted"
          BY <1>1, <2>1, <4>1, <4>2, DecidedType DEF DeliveryRecord
        <4>3. CASE Decision(e, c) = "suppressed"
          BY <1>1, <2>1, <4>3, DecidedType, BoundsAssumption
        <4> QED
          BY <2>4, <4>2, <4>3
      <3>3. Owns'
        BY <1>2, <2>1, <2>3, <2>4, <3>1 DEF Exclusive, Owns, Stays
      <3>4. Single' /\ (Cooldown > 0 => Alone')
        BY <1>2, <3>1 DEF Exclusive, Single, Alone, Stays
      <3>5. Quiet'
        <4> SUFFICES ASSUME Cooldown > 0, NEW q \in Runners, Busy(q)',
                            NEW f \in Key(EventOf(q)) \ {EventOf(q)},
                            rec'[<<f, run'[q].channel>>].status = "sent"
                     PROVE  rec'[<<f, run'[q].channel>>].sentAge > Cooldown
          BY <1>2 DEF Quiet
        <4>1. Busy(q) /\ q # r /\ run'[q].channel = run[q].channel
          BY <1>2, <3>1 DEF Stays
        <4>2. <<f, run[q].channel>> \in Pairs
          BY <4>1, AtType, KeyFacts DEF Pairs
        <4>3. rec'[<<f, run[q].channel>>] = rec[<<f, run[q].channel>>]
          BY <2>1, <3>2, <4>1, <4>2
        <4> QED
          BY <4>1, <4>3 DEF Exclusive, Quiet
      <3>6. Counted'
        BY <1>1, <2>1, <3>2 DEF Exclusive, Counted, Terminal
      <3>7. Fits'
        BY <1>1, <1>2, <3>1 DEF Exclusive, Fits, Stays, Busy
      <3> QED
        BY <1>3, <3>3, <3>4, <3>5, <3>6, <3>7 DEF Exclusive
    <2>5. CASE Decision(e, c) = "send"
      <3>1. /\ rec'[x].status = "sending" /\ rec'[x].age = 0
            /\ rec'[x].attempts = rec[x].attempts + 1
            /\ run'[r].attempt = rec'[x].attempts
            /\ run'[r].phase = "send"
        BY <1>1, <1>5, <2>1, <2>5, DecidedType
      <3>2. ~Settled(e, c) /\ ~Exhausted(e, c) /\ ~Duplicate(e, c)
        BY <2>5 DEF Decision
      <3>3. /\ rec[x].attempts \in Nat /\ posted[x] \in Nat /\ ChannelAttempts \in Nat
            /\ rec[x].attempts + 1 <= ChannelAttempts
            /\ posted[x] <= rec[x].attempts
        <4>1. /\ rec[x].attempts \in Nat /\ posted[x] \in Nat
              /\ ChannelAttempts \in Nat \ {0}
          BY <1>1, BoundsAssumption DEF TypeOK, DeliveryRecord
        <4>2. /\ posted[x] <= rec[x].attempts
              /\ rec[x].status = "none" => rec[x].attempts = 0
          BY <1>1, <3>2 DEF Settled, Exclusive, Counted
        <4> QED
          BY <3>2, <4>1, <4>2 DEF Exhausted
      <3>4. \A q \in Runners : Busy(q)' => q = r \/ (Busy(q) /\ Stays(q))
        BY <1>2
      <3>5. ASSUME Cooldown > 0, NEW f \in Key(e), f # e
            PROVE  /\ rec[<<f, c>>].status = "sent" => rec[<<f, c>>].sentAge > Cooldown
                   /\ ~(rec[<<f, c>>].status = "sending" /\ Fresh(f, c))
        <4>1. rec[<<f, c>>].sentAge \in Nat
          BY <1>1, <3>5, KeyFacts DEF TypeOK, DeliveryRecord, Pairs
        <4> QED
          BY <3>2, <3>5, <4>1, TimingAssumption DEF Duplicate, Suppressing
      <3>6. Owns'
        <4>1. ASSUME NEW q \in Runners \ {r}, Busy(q)'
              PROVE  LET y == <<EventOf(q)', run'[q].channel>> IN
                     /\ rec'[y].status = "sending"
                     /\ rec'[y].attempts = run'[q].attempt
                     /\ rec'[y].age = run'[q].time
                     /\ run'[q].time < Window /\ ~run'[q].slow
          BY <1>2, <2>1, <2>3, <2>5, <4>1 DEF Exclusive, Owns, Stays
        <4>2. LET y == <<EventOf(r)', run'[r].channel>> IN
              /\ rec'[y].status = "sending"
              /\ rec'[y].attempts = run'[r].attempt
              /\ rec'[y].age = run'[r].time
              /\ run'[r].time < Window /\ ~run'[r].slow
          BY <1>2, <1>5, <3>1, TimingAssumption
        <4> QED
          BY <4>1, <4>2 DEF Owns
      <3>7. \A q \in Runners \ {r} : Busy(q)' =>
              ~(run'[q].channel = c /\ EventOf(q) = e)
        BY <1>2, <2>3, <2>5 DEF Stays
      <3>8. Single'
        BY <1>2, <1>5, <3>7 DEF Exclusive, Single, Stays
      <3>9. ASSUME Cooldown > 0, NEW q \in Runners \ {r}, Busy(q)', run'[q].channel = c,
                   EventOf(q) \in Key(e) \/ e \in Key(EventOf(q))
            PROVE  FALSE
        <4>1. Busy(q) /\ run[q].channel = c /\ EventOf(q) \in Events
          BY <1>2, <3>9, AtType DEF Stays
        <4>2. EventOf(q) \in Key(e)
          BY <1>1, <3>9, <4>1, KeyFacts
        <4>3. EventOf(q) # e
          BY <3>7, <3>9
        <4> QED
          BY <3>5, <3>9, <4>1, <4>2, <4>3, OwnedIsFresh
      <3>10. Cooldown > 0 => Alone'
        BY <1>2, <1>5, <3>9 DEF Exclusive, Alone, Stays
      <3>11. Quiet'
        <4> SUFFICES ASSUME Cooldown > 0, NEW q \in Runners, Busy(q)',
                            NEW f \in Key(EventOf(q)) \ {EventOf(q)},
                            rec'[<<f, run'[q].channel>>].status = "sent"
                     PROVE  rec'[<<f, run'[q].channel>>].sentAge > Cooldown
          BY <1>2 DEF Quiet
        <4>1. run'[q].channel \in Channels /\ EventOf(q) \in Events
          BY <1>1, <1>2, <1>5, AtType DEF Stays
        <4>2. <<f, run'[q].channel>> \in Pairs
          BY <4>1, KeyFacts DEF Pairs
        <4>3. rec'[<<f, run'[q].channel>>] = rec[<<f, run'[q].channel>>]
          BY <2>1, <3>1, <4>2
        <4>4. CASE q = r
          BY <1>5, <3>5, <4>3, <4>4
        <4>5. CASE q # r
          BY <1>2, <4>3, <4>5 DEF Exclusive, Quiet, Stays
        <4> QED
          BY <4>4, <4>5
      <3>12. Counted'
        BY <1>1, <2>1, <3>1, <3>3 DEF Exclusive, Counted
      <3>13. Fits'
        <4>1. ASSUME NEW q \in Runners \ {r}, run'[q].phase = "send"
              PROVE  posted[<<EventOf(q), run'[q].channel>>] < run'[q].attempt
          BY <1>1, <4>1 DEF Exclusive, Fits
        <4>2. posted[x] < run'[r].attempt
          BY <3>1, <3>3
        <4> QED
          BY <1>1, <1>2, <1>5, <4>1, <4>2 DEF Fits
      <3> QED
        BY <1>3, <3>6, <3>8, <3>10, <3>11, <3>12, <3>13 DEF Exclusive
    <2> QED
      BY <1>1, <2>2, <2>4, <2>5, DecidedType
  <1> QED
    BY <1>4, <1>5, BeginStep

-----------------------------------------------------------------------------
(* The theorems *)

Inv == TypeOK /\ Employed /\ Exclusive

(* No step takes back that an attempt was late. *)
LEMMA LateForGood ==
    ASSUME TypeOK, Employed, [Next]_vars, Timely'
    PROVE  Timely
  <1>1. CASE UNCHANGED vars
    BY <1>1 DEF vars, Timely
  <1>2. ASSUME NEW j \in Jobs, NEW e \in Events, Enqueue(j, e) PROVE Timely
    BY <1>2, EnqueueStep DEF Timely
  <1>3. ASSUME NEW r \in Runners, Claim(r) PROVE Timely
    BY <1>3, ClaimStep DEF Timely
  <1>4. ASSUME NEW r \in Runners, NEW c \in Channels, Begin(r, c) PROVE Timely
    BY <1>4, BeginStep, Zenon
  <1>5. ASSUME NEW r \in Runners, NEW o \in Outcomes, Post(r, o) PROVE Timely
    BY <1>5, PostStep
  <1>6. ASSUME NEW r \in Runners, Record(r) PROVE Timely
    BY <1>6, RecordStep
  <1>7. ASSUME NEW r \in Runners, Finish(r) PROVE Timely
    BY <1>7, FinishStep, Zenon
  <1>8. ASSUME NEW r \in Runners, Crash(r) \/ Suspend(r) \/ Resume(r) \/ LeaseLost(r) \/ Outlive(r)
        PROVE  Timely
    BY <1>8, LeaseStep
  <1>9. CASE RequeueStaleJobs
    BY <1>9, RequeueStep DEF Timely
  <1>10. CASE Tick
    BY <1>10, TickStep DEF Timely
  <1> QED
    BY <1>1, <1>2, <1>3, <1>4, <1>5, <1>6, <1>7, <1>8, <1>9, <1>10
    DEF Next, Dispatch

LEMMA ExclusiveStep ==
    ASSUME Inv, [Next]_vars
    PROVE  Exclusive'
  <1> SUFFICES ASSUME Timely, Timely'
               PROVE  Exclusive'
    BY LateForGood DEF Inv, Exclusive
  <1> USE DEF Inv
  <1>1. CASE UNCHANGED vars
    <2>1. UNCHANGED <<job, rec, run, posted>>
      BY <1>1 DEF vars
    <2>2. \A q \in Runners : Busy(q)' => Busy(q) /\ Stays(q)
      BY <2>1, StaysPut
    <2>3. \A q \in Runners : ~run'[q].suspended
      BY <2>1 DEF Exclusive
    <2> QED
      BY <2>1, <2>2, <2>3, Fewer
  <1>2. ASSUME NEW r \in Runners, Dispatch(r)
        PROVE  Exclusive'
    BY <1>2, QuietSteps, BeginExclusive, PostExclusive, RecordExclusive DEF Dispatch
  <1>3. CASE Tick
    BY <1>3, TickExclusive
  <1> QED
    BY <1>1, <1>2, <1>3, QuietSteps DEF Next

(* Types, and who is alone: while no attempt outlives the window, slow or  *)
(* in a suspended process, no two runners are at attempts of one event   *)
(* on one channel; nor, on a channel with a cooldown, of two events that   *)
(* share a key.                                                            *)
THEOREM ExclusiveAlways == Spec => []Inv
  <1>1. Init => Inv
    BY InitType, InitExclusive DEF Inv
  <1>2. Inv /\ [Next]_vars => Inv'
    BY TypeStep, ExclusiveStep DEF Inv
  <1> QED
    BY <1>1, <1>2, PTL DEF Spec

(* Only Record turns a record into "sent", and it does so to the record    *)
(* its runner owns.                                                        *)
LEMMA OnlyRecordSends ==
    ASSUME Inv, Timely, [Next]_vars,
           NEW e \in Events, NEW c \in Channels,
           rec[<<e, c>>].status # "sent", rec'[<<e, c>>].status = "sent"
    PROVE  \E r \in Runners : Busy(r) /\ EventOf(r) = e /\ run[r].channel = c
  <1> USE DEF Inv
  <1>0. <<e, c>> \in Pairs
    BY DEF Pairs
  <1>1. CASE UNCHANGED rec
    BY <1>1
  <1>2. ASSUME NEW r \in Runners, NEW d \in Channels, Begin(r, d)
        PROVE  FALSE
    <2> DEFINE x == <<EventOf(r), d>>
    <2>1. \/ UNCHANGED rec
          \/ rec' = [rec EXCEPT ![x] = Decided(EventOf(r), d)] /\ EventOf(r) \in Events
      BY <1>2, BeginStep, Zenon
    <2>2. \/ Decided(EventOf(r), d).status # "sent"
          \/ Decided(EventOf(r), d) = rec[x]
          \/ UNCHANGED rec
      BY <2>1, DecidedType
    <2> QED
      BY <1>0, <2>1, <2>2 DEF TypeOK
  <1>3. ASSUME NEW r \in Runners, Record(r)
        PROVE  Busy(r) /\ EventOf(r) = e /\ run[r].channel = c
    BY <1>0, <1>3, RecordStep DEF Busy
  <1>4. CASE Tick
    BY <1>0, <1>4, TickStep
  <1>5. ASSUME NEW r \in Runners,
               \/ Claim(r) \/ Finish(r) \/ (\E o \in Outcomes : Post(r, o))
               \/ Crash(r) \/ Suspend(r) \/ Resume(r) \/ LeaseLost(r) \/ Outlive(r)
        PROVE  UNCHANGED rec
    BY <1>5 DEF Claim, Finish, Post, Crash, Suspend, Resume, LeaseLost, Outlive
  <1>6. CASE RequeueStaleJobs \/ \E j \in Jobs, f \in Events : Enqueue(j, f)
    BY <1>6 DEF RequeueStaleJobs, Enqueue
  <1>7. CASE UNCHANGED vars
    BY <1>7 DEF vars
  <1> QED
    BY <1>1, <1>2, <1>3, <1>4, <1>5, <1>6, <1>7 DEF Next, Dispatch

(* The cooldown of a channel holds between any two events of one key, also *)
(* for attempts that overlap and for one that is taken over from a worker  *)
(* that died, while no attempt outlives the window.                        *)
THEOREM CooldownHolds == Spec => CooldownKept
  <1>1. ASSUME Inv, [Next]_vars, Cooldown > 0, Timely,
               NEW e \in Events, NEW f \in Events, NEW c \in Channels,
               e # f, f \in Key(e),
               rec[<<e, c>>].status # "sent", rec'[<<e, c>>].status = "sent",
               rec[<<f, c>>].status = "sent"
        PROVE  rec[<<f, c>>].sentAge > Cooldown
    <2>1. Timely
      BY <1>1 DEF Timely
    <2>2. PICK r \in Runners : Busy(r) /\ EventOf(r) = e /\ run[r].channel = c
      BY <1>1, <2>1, OnlyRecordSends
    <2> QED
      BY <1>1, <2>1, <2>2 DEF Inv, Exclusive, Quiet
  <1>2. Inv /\ [Next]_vars =>
          ((Cooldown > 0 /\ Timely) =>
            \A e, f \in Events, c \in Channels :
              (/\ e # f /\ f \in Key(e)
               /\ rec[<<e, c>>].status # "sent" /\ rec'[<<e, c>>].status = "sent"
               /\ rec[<<f, c>>].status = "sent") =>
                  rec[<<f, c>>].sentAge > Cooldown)
    BY <1>1
  <1> QED
    BY <1>2, ExclusiveAlways, PTL DEF Spec, CooldownKept

-----------------------------------------------------------------------------
(* How often an endpoint gets a message, slow attempts and suspended       *)
(* processes and all.                                                      *)
(* What may still reach the endpoint is counted against the faults: each   *)
(* runner that is about to send or to record a retryable failure, each     *)
(* runner without a safe lease that has yet to come to the channel, and    *)
(* the record itself while anyone may take it up.                          *)

(* The lease of a runner that cannot be taken from it before a Tick.       *)
Firm(r) ==
    /\ Running(r)
    /\ Holds(r)
    /\ job[run[r].job].silent <= LeaseTimeout

(* The record is fresh for as long as runner r needs. *)
Owner(r, e, c) ==
    /\ At(r, e, c)
    /\ Firm(r)
    /\ ~run[r].slow
    /\ rec[<<e, c>>].age <= run[r].time

Waits(r, e, c) ==
    /\ run[r].phase # "idle"
    /\ EventOf(r) = e
    /\ \/ run[r].phase = "send" /\ run[r].channel = c
       \/ run[r].phase = "record" /\ run[r].channel = c /\ run[r].outcome = "retry"
       \/ c \in run[r].left /\ ~Firm(r)

Pending(e, c) == {r \in Runners : Waits(r, e, c)}

Open(e, c) ==
    \/ rec[<<e, c>>].status \in {"none", "retrying"}
    \/ /\ rec[<<e, c>>].status = "sending"
       /\ \A r \in Runners : ~Owner(r, e, c)

Bill(e, c) == IF Open(e, c) THEN 1 ELSE 0

Within(e, c) ==
    posted[<<e, c>>] + Cardinality(Pending(e, c)) + Bill(e, c) <= 1 + TotalFaults

Budget == \A e \in Events, c \in Channels : Within(e, c)

(* A lease has one runner, and one that is known to be lost stays lost.    *)
Leases ==
    /\ \A r \in Runners : run[r].phase # "idle" =>
         /\ run[r].lease <= job[run[r].job].attempts
         /\ ~run[r].slow => run[r].time < Window
         /\ run[r].cancelled => ~Holds(r)
         /\ Busy(r) => run[r].channel \notin run[r].left
    /\ \A r, q \in Runners :
         (/\ r # q /\ run[r].phase # "idle" /\ run[q].phase # "idle"
          /\ run[r].job = run[q].job) => run[r].lease # run[q].lease

(* Runner q does not move, and nobody takes its lease. *)
KeepsOn(q) ==
    /\ run'[q] = run[q]
    /\ run[q].phase # "idle" =>
         /\ EventOf(q)' = EventOf(q)
         /\ Holds(q)' => Holds(q)
         /\ Firm(q) => Firm(q)'
         /\ job[run[q].job].attempts <= job'[run[q].job].attempts

LEMMA SameJobs ==
    ASSUME TypeOK, Employed, job' = job, NEW q \in Runners, run'[q] = run[q]
    PROVE  KeepsOn(q)
  <1>1. run[q].phase # "idle" => job[run[q].job].attempts \in Nat
    BY DEF TypeOK, Employed, JobRecord
  <1> QED
    BY <1>1 DEF KeepsOn, EventOf, Holds, Firm, Running

LEMMA FaultCounts ==
    ASSUME TypeOK, NEW k \in Kinds, Fault(k)
    PROVE  TotalFaults \in Nat /\ TotalFaults' = TotalFaults + 1
  <1>1. faults' = [faults EXCEPT ![k] = @ + 1] /\ faults \in [Kinds -> Nat]
    BY FaultType DEF TypeOK
  <1> QED
    BY <1>1 DEF TotalFaults, Kinds

(* One runner moves: what that does to the number of those that wait.      *)
LEMMA Ledger ==
    ASSUME NEW e \in Events, NEW c \in Channels, NEW r \in Runners,
           \A q \in Runners \ {r} : KeepsOn(q)
    PROVE  /\ Cardinality(Pending(e, c)) \in Nat
           /\ Cardinality(Pending(e, c)') \in Nat
           /\ Cardinality(Pending(e, c)') <= Cardinality(Pending(e, c)) + 1
           /\ (Waits(r, e, c)' => Waits(r, e, c)) =>
                Cardinality(Pending(e, c)') <= Cardinality(Pending(e, c))
           /\ (Waits(r, e, c) /\ ~Waits(r, e, c)') =>
                Cardinality(Pending(e, c)') + 1 <= Cardinality(Pending(e, c))
  <1> DEFINE P == Pending(e, c)
             Q == Pending(e, c)'
  <1>1. /\ P \subseteq Runners /\ Q \subseteq Runners
        /\ r \in P <=> Waits(r, e, c)
        /\ r \in Q <=> Waits(r, e, c)'
    BY DEF Pending
  <1>2. \A q \in Runners \ {r} : Waits(q, e, c)' => Waits(q, e, c)
    BY DEF KeepsOn, Waits
  <1>3. Q \subseteq P \cup {r}
    BY <1>1, <1>2 DEF Pending
  <1> HIDE DEF P, Q
  <1>4. IsFiniteSet(P) /\ IsFiniteSet(Q)
    BY <1>1, BoundsAssumption, FS_Subset
  <1>5. IsFiniteSet(P \cup {r}) /\ IsFiniteSet(P \ {r})
    BY <1>4, FS_AddElement, FS_RemoveElement
  <1>6. /\ Cardinality(P) \in Nat /\ Cardinality(Q) \in Nat
        /\ Cardinality(P \cup {r}) \in Nat /\ Cardinality(P \ {r}) \in Nat
    BY <1>4, <1>5, FS_CardinalityType
  <1>7. Cardinality(P \cup {r}) = IF r \in P THEN Cardinality(P) ELSE Cardinality(P) + 1
    BY <1>4, FS_AddElement
  <1>8. Cardinality(Q) <= Cardinality(P \cup {r})
    BY <1>3, <1>5, FS_Subset
  <1>9. r \notin Q => Cardinality(Q) <= Cardinality(P \ {r})
    <2> SUFFICES ASSUME r \notin Q PROVE Cardinality(Q) <= Cardinality(P \ {r})
      OBVIOUS
    <2>1. Q \subseteq P \ {r}
      BY <1>3
    <2> QED
      BY <2>1, <1>5, FS_Subset
  <1>10. Cardinality(P \ {r}) = IF r \in P THEN Cardinality(P) - 1 ELSE Cardinality(P)
    BY <1>4, FS_RemoveElement
  <1>11. Cardinality(Q) <= Cardinality(P) + 1
    BY <1>6, <1>7, <1>8
  <1>12. ASSUME r \in Q => r \in P PROVE Cardinality(Q) <= Cardinality(P)
    BY <1>6, <1>7, <1>8, <1>9, <1>10, <1>12
  <1>13. ASSUME r \in P, r \notin Q PROVE Cardinality(Q) + 1 <= Cardinality(P)
    BY <1>6, <1>9, <1>10, <1>13
  <1> QED
    BY <1>1, <1>6, <1>11, <1>12, <1>13 DEF P, Q

(* A record that does not change stays with whoever owns it. *)
LEMMA StaysShut ==
    ASSUME NEW e \in Events, NEW c \in Channels, NEW r \in Runners,
           \A q \in Runners \ {r} : KeepsOn(q),
           rec'[<<e, c>>] = rec[<<e, c>>],
           Owner(r, e, c) => Owner(r, e, c)'
    PROVE  Open(e, c)' => Open(e, c)
  <1>1. \A q \in Runners \ {r} : Owner(q, e, c) => Owner(q, e, c)'
    BY DEF Owner, KeepsOn, At, Busy
  <1> QED
    BY <1>1 DEF Open

(* The sums: a step that takes nothing up, and one that a fault pays for.  *)
LEMMA StaysWithin ==
    ASSUME TypeOK, TypeOK', NEW e \in Events, NEW c \in Channels, NEW r \in Runners,
           \A q \in Runners \ {r} : KeepsOn(q),
           Within(e, c),
           posted'[<<e, c>>] = posted[<<e, c>>],
           Waits(r, e, c)' => Waits(r, e, c),
           Open(e, c)' => Open(e, c),
           TotalFaults' >= TotalFaults
    PROVE  Within(e, c)'
  <1>1. Cardinality(Pending(e, c)') <= Cardinality(Pending(e, c))
        /\ Cardinality(Pending(e, c)) \in Nat /\ Cardinality(Pending(e, c)') \in Nat
    BY Ledger
  <1>2. posted[<<e, c>>] \in Nat /\ TotalFaults \in Nat /\ TotalFaults' \in Nat
    BY DEF TypeOK, Pairs, TotalFaults, Kinds
  <1>3. Bill(e, c) \in Nat /\ Bill(e, c)' \in Nat /\ Bill(e, c)' <= Bill(e, c)
    BY DEF Bill
  <1> QED
    BY <1>1, <1>2, <1>3 DEF Within

LEMMA PaidFor ==
    ASSUME TypeOK, TypeOK', NEW e \in Events, NEW c \in Channels, NEW r \in Runners,
           \A q \in Runners \ {r} : KeepsOn(q),
           Within(e, c),
           posted'[<<e, c>>] = posted[<<e, c>>],
           \/ Open(e, c)' => Open(e, c)
           \/ Waits(r, e, c)' => Waits(r, e, c),
           TotalFaults' = TotalFaults + 1
    PROVE  Within(e, c)'
  <1>1. /\ Cardinality(Pending(e, c)) \in Nat /\ Cardinality(Pending(e, c)') \in Nat
        /\ Cardinality(Pending(e, c)') <= Cardinality(Pending(e, c)) + 1
        /\ (Waits(r, e, c)' => Waits(r, e, c)) =>
             Cardinality(Pending(e, c)') <= Cardinality(Pending(e, c))
    BY Ledger
  <1>2. posted[<<e, c>>] \in Nat /\ TotalFaults \in Nat
    BY DEF TypeOK, Pairs, TotalFaults, Kinds
  <1>3. /\ Bill(e, c) \in 0..1 /\ Bill(e, c)' \in 0..1
        /\ (Open(e, c)' => Open(e, c)) => Bill(e, c)' <= Bill(e, c)
    BY DEF Bill
  <1> QED
    BY <1>1, <1>2, <1>3 DEF Within

(* What each step does to the runner that takes it, in the fields that     *)
(* Budget and Leases depend on.                                            *)
LEMMA ClaimRunner ==
    ASSUME TypeOK, Employed, Leases, NEW r \in Runners, Claim(r)
    PROVE  /\ UNCHANGED <<rec, posted, faults>>
           /\ \A q \in Runners \ {r} : KeepsOn(q)
           /\ run[r].phase = "idle"
           /\ run'[r].phase = "begin" /\ run'[r].time = 0 /\ ~run'[r].slow
           /\ run'[r].cancelled = FALSE
           /\ Firm(r)'
           /\ run'[r].lease = job'[run'[r].job].attempts
           /\ \A q \in Runners \ {r} :
                (run[q].phase # "idle" /\ run[q].job = run'[r].job) =>
                    run[q].lease < run'[r].lease
  <1>1. PICK j \in Jobs :
          /\ job[j].status = "queued"
          /\ job' = [job EXCEPT ![j].status = "running", ![j].silent = 0,
                                ![j].attempts = @ + 1]
          /\ run' = [run EXCEPT ![r] = [Idle EXCEPT
                        !.phase = "begin", !.job = j,
                        !.lease = job[j].attempts + 1, !.left = Channels]]
    BY DEF Claim
  <1> DEFINE n == job[j].attempts + 1
             w == [Idle EXCEPT !.phase = "begin", !.job = j, !.lease = n, !.left = Channels]
             d == [job[j] EXCEPT !.status = "running", !.silent = 0, !.attempts = n]
  <1>2. n \in Nat /\ job[j] \in JobRecord /\ n = job[j].attempts + 1
    BY DEF TypeOK, JobRecord
  <1>3. run' = [run EXCEPT ![r] = w] /\ job' = [job EXCEPT ![j] = d]
    BY <1>1
  <1> HIDE DEF n
  <1>4. /\ w.phase = "begin" /\ w.job = j /\ w.lease = n
        /\ w.suspended = FALSE /\ w.cancelled = FALSE /\ w.time = 0 /\ ~w.slow
    BY DEF Idle
  <1>5. /\ d.status = "running" /\ d.attempts = n /\ d.silent = 0
        /\ d.event = job[j].event
    BY <1>2 DEF JobRecord
  <1> HIDE DEF w, d
  <1>6. /\ run'[r] = w /\ job'[j] = d
        /\ \A q \in Runners \ {r} : run'[q] = run[q]
        /\ \A k \in Jobs \ {j} : job'[k] = job[k]
    BY <1>3 DEF TypeOK
  <1>7. ASSUME NEW q \in Runners \ {r} PROVE KeepsOn(q)
    <2>1. run'[q] = run[q]
      BY <1>6
    <2>2. ASSUME run[q].phase # "idle"
          PROVE  /\ EventOf(q)' = EventOf(q)
                 /\ Holds(q)' => Holds(q)
                 /\ Firm(q) => Firm(q)'
                 /\ job[run[q].job].attempts <= job'[run[q].job].attempts
      <3>1. run[q].job \in Jobs /\ job[run[q].job].attempts \in Nat /\ run[q].lease \in Nat
        BY <2>2 DEF Employed, TypeOK, JobRecord, RunRecord
      <3>2. CASE run[q].job = j
        <4>1. run[q].lease <= job[j].attempts
          BY <2>2, <3>2 DEF Leases
        <4>2. ~Holds(q) /\ ~Holds(q)'
          <5>1. job[j].status = "queued"
            BY <1>1
          <5>2. ~Holds(q)
            BY <3>2, <5>1 DEF Holds
          <5>3. job'[j].attempts # run[q].lease
            BY <1>2, <1>5, <1>6, <3>1, <3>2, <4>1
          <5> QED
            BY <2>1, <3>2, <5>2, <5>3 DEF Holds
        <4> QED
          BY <1>2, <1>5, <1>6, <2>1, <3>1, <3>2, <4>2 DEF EventOf, Firm
      <3>3. CASE run[q].job # j
        BY <1>6, <2>1, <3>1, <3>3 DEF EventOf, Firm, Holds, Running
      <3> QED
        BY <3>2, <3>3
    <2> QED
      BY <2>1, <2>2 DEF KeepsOn
  <1>8. Firm(r)'
    BY <1>4, <1>5, <1>6, TimingAssumption DEF Firm, Running, Holds
  <1>9. ASSUME NEW q \in Runners \ {r}, run[q].phase # "idle", run[q].job = j
        PROVE  run[q].lease < n
    BY <1>2, <1>9 DEF Leases, TypeOK, JobRecord, RunRecord
  <1> QED
    BY <1>4, <1>5, <1>6, <1>7, <1>8, <1>9 DEF Claim

LEMMA FinishRunner ==
    ASSUME TypeOK, Employed, Leases, NEW r \in Runners, Finish(r)
    PROVE  /\ UNCHANGED <<rec, posted>>
           /\ \A q \in Runners \ {r} : KeepsOn(q)
           /\ run[r].phase = "begin"
           /\ run'[r].phase = "idle"
           /\ TotalFaults' >= TotalFaults
  <1>1. /\ \A q \in Runners \ {r} : run'[q] = run[q]
        /\ run'[r].phase = "idle"
        /\ run[r].phase = "begin" /\ UNCHANGED <<rec, posted>>
    BY DEF Finish, Idle, TypeOK
  <1>2. TotalFaults \in Nat
    BY DEF TypeOK, TotalFaults, Kinds
  <1>3. CASE Fault("error") /\ UNCHANGED job
    <2>1. TotalFaults' >= TotalFaults
      BY <1>2, <1>3, FaultCounts DEF Kinds
    <2> QED
      BY <1>1, <1>3, <2>1, SameJobs
  <1>4. CASE job' = job /\ UNCHANGED faults
    <2>1. TotalFaults' = TotalFaults
      BY <1>4 DEF TotalFaults
    <2> QED
      BY <1>1, <1>2, <1>4, <2>1, SameJobs
  <1>5. CASE /\ job' = [job EXCEPT ![run[r].job] = Ended(run[r].job, run[r].retry)]
             /\ UNCHANGED faults /\ Holds(r)
    <2> DEFINE j == run[r].job
               d == Ended(j, run[r].retry)
    <2>1. j \in Jobs /\ job[j] \in JobRecord
      BY <1>1 DEF Employed, TypeOK
    <2>2. d.attempts = job[j].attempts /\ d.event = job[j].event /\ job[j].attempts \in Nat
      BY <2>1 DEF Ended, JobRecord
    <2>3. job' = [job EXCEPT ![j] = d]
      BY <1>5
    <2> HIDE DEF d
    <2>4. job'[j] = d /\ \A k \in Jobs \ {j} : job'[k] = job[k]
      BY <2>1, <2>3 DEF TypeOK
    <2>5. d.status # "running"
      BY <2>1 DEF d, Ended, JobRecord
    <2>6. ASSUME NEW q \in Runners \ {r} PROVE KeepsOn(q)
      <3>1. run'[q] = run[q]
        BY <1>1
      <3>2. CASE run[q].phase = "idle"
        BY <3>1, <3>2 DEF KeepsOn
      <3>3. CASE run[q].phase # "idle" /\ run[q].job = j
        <4>1. run[q].lease # run[r].lease
          BY <1>1, <3>3 DEF Leases
        <4>2. ~Holds(q) /\ ~Holds(q)'
          BY <1>5, <2>4, <2>5, <3>1, <3>3, <4>1 DEF Holds
        <4> QED
          BY <2>2, <2>4, <3>1, <3>3, <4>2 DEF KeepsOn, EventOf, Firm
      <3>4. CASE run[q].phase # "idle" /\ run[q].job # j
        <4>1. run[q].job \in Jobs /\ job[run[q].job].attempts \in Nat
          BY <3>4 DEF Employed, TypeOK, JobRecord
        <4> QED
          BY <2>4, <3>1, <3>4, <4>1 DEF KeepsOn, EventOf, Firm, Holds, Running
      <3> QED
        BY <3>2, <3>3, <3>4
    <2>7. TotalFaults' = TotalFaults
      BY <1>5 DEF TotalFaults
    <2> QED
      BY <1>1, <1>2, <2>6, <2>7
  <1> QED
    BY <1>3, <1>4, <1>5 DEF Finish

(* A runner at work goes on to its next phase on the same lease.           *)
SameLease(r) ==
    /\ \A q \in Runners \ {r} : KeepsOn(q)
    /\ run'[r].job = run[r].job /\ run'[r].lease = run[r].lease
    /\ run'[r].suspended = run[r].suspended
    /\ run'[r].cancelled = run[r].cancelled

(* So what it holds does not change. *)
LEMMA SameHold ==
    ASSUME NEW r \in Runners, SameLease(r), job' = job,
           run[r].phase # "idle", run'[r].phase # "idle"
    PROVE  /\ EventOf(r)' = EventOf(r)
           /\ Holds(r)' <=> Holds(r)
           /\ Firm(r)' <=> Firm(r)
  BY DEF SameLease, EventOf, Holds, Firm, Running

LEMMA BeginRunner ==
    ASSUME TypeOK, Employed, NEW r \in Runners, NEW c \in Channels, Begin(r, c)
    PROVE  LET e == EventOf(r) IN
           /\ UNCHANGED <<job, posted>>
           /\ SameLease(r)
           /\ run[r].phase = "begin" /\ c \in run[r].left
           /\ run'[r].left = run[r].left \ {c}
           /\ \/ /\ rec' = [rec EXCEPT ![<<e, c>>] = Decided(e, c)]
                 /\ run'[r].phase = IF Decision(e, c) = "send" THEN "send" ELSE "begin"
                 /\ run'[r].channel = c
                 /\ run'[r].time = 0 /\ ~run'[r].slow
                 /\ UNCHANGED faults
              \/ /\ UNCHANGED rec
                 /\ run'[r].phase = "begin"
                 /\ run'[r].time = run[r].time /\ run'[r].slow = run[r].slow
                 /\ TotalFaults' >= TotalFaults
  <1> DEFINE e == EventOf(r)
             old == run[r]
  <1>1. /\ UNCHANGED <<job, posted>>
        /\ old.phase = "begin" /\ old \in RunRecord /\ c \in old.left
    BY DEF Begin, TypeOK
  <1>2. CASE StoreFails(r) /\ UNCHANGED rec
             /\ run' = [run EXCEPT ![r].left = @ \ {c}, ![r].retry = TRUE]
    <2> DEFINE w == [old EXCEPT !.left = @ \ {c}, !.retry = TRUE]
    <2>1. /\ w.phase = old.phase /\ w.job = old.job /\ w.lease = old.lease
          /\ w.suspended = old.suspended /\ w.cancelled = old.cancelled
          /\ w.left = old.left \ {c} /\ w.time = old.time /\ w.slow = old.slow
      BY <1>1 DEF RunRecord
    <2>2. run' = [run EXCEPT ![r] = w]
      BY <1>2
    <2> HIDE DEF w
    <2>3. run'[r] = w /\ \A q \in Runners \ {r} : run'[q] = run[q]
      BY <2>2 DEF TypeOK
    <2>4. SameLease(r)
      BY <1>1, <2>1, <2>3, SameJobs DEF SameLease
    <2>5. TotalFaults \in Nat
      BY DEF TypeOK, TotalFaults, Kinds
    <2>6. TotalFaults' >= TotalFaults
      <3>1. CASE UNCHANGED faults
        BY <2>5, <3>1 DEF TotalFaults
      <3>2. CASE Fault("error")
        BY <2>5, <3>2, FaultCounts DEF Kinds
      <3> QED
        BY <1>2, <3>1, <3>2 DEF StoreFails
    <2> QED
      BY <1>1, <1>2, <2>1, <2>3, <2>4, <2>6
  <1>3. CASE /\ rec' = [rec EXCEPT ![<<e, c>>] = Decided(e, c)]
             /\ run' = [run EXCEPT ![r] = Asked(r, c)]
             /\ UNCHANGED faults
    <2> DEFINE a == Decided(e, c).attempts
               p == IF Decision(e, c) = "send" THEN "send" ELSE "begin"
               w == [old EXCEPT !.left = @ \ {c}, !.channel = c, !.time = 0, !.slow = FALSE,
                                !.attempt = a, !.phase = p]
    <2>1. Asked(r, c) = w
      BY DEF Asked
    <2> HIDE DEF a, p
    <2>2. /\ w.phase = p /\ w.job = old.job /\ w.lease = old.lease
          /\ w.time = 0 /\ ~w.slow /\ w.channel = c
      BY <1>1 DEF RunRecord
    <2>3. /\ w.suspended = old.suspended /\ w.cancelled = old.cancelled
          /\ w.left = old.left \ {c}
      BY <1>1 DEF RunRecord
    <2> HIDE DEF w
    <2>4. run'[r] = w /\ \A q \in Runners \ {r} : run'[q] = run[q]
      BY <1>3, <2>1 DEF TypeOK
    <2>5. SameLease(r)
      BY <1>1, <2>2, <2>3, <2>4, SameJobs DEF SameLease
    <2> QED
      BY <1>1, <1>3, <2>2, <2>3, <2>4, <2>5 DEF p
  <1> QED
    BY <1>2, <1>3 DEF Begin

LEMMA PostRunner ==
    ASSUME TypeOK, Employed, NEW r \in Runners, NEW o \in Outcomes, Post(r, o)
    PROVE  LET x == <<EventOf(r), run[r].channel>> IN
           /\ UNCHANGED <<job, rec>>
           /\ SameLease(r)
           /\ x \in Pairs
           /\ run[r].phase = "send" /\ run'[r].phase = "record"
           /\ run'[r].channel = run[r].channel
           /\ run'[r].left = run[r].left
           /\ run'[r].time = run[r].time /\ run'[r].slow = run[r].slow
           /\ run'[r].outcome = o
           /\ \A y \in Pairs \ {x} : posted'[y] = posted[y]
           /\ \/ /\ TotalFaults' = TotalFaults
                 /\ posted'[x] = IF o = "ok" THEN posted[x] + 1 ELSE posted[x]
              \/ /\ TotalFaults' = TotalFaults + 1
                 /\ posted'[x] = posted[x] + 1
  <1> DEFINE x == <<EventOf(r), run[r].channel>>
             old == run[r]
             w == [old EXCEPT !.phase = "record", !.outcome = o]
  <1>1. /\ UNCHANGED <<job, rec>>
        /\ old.phase = "send" /\ old \in RunRecord
        /\ x \in Pairs
    BY AtType DEF Post, TypeOK, Busy
  <1>2. run' = [run EXCEPT ![r] = w]
    BY DEF Post
  <1>3. /\ w.phase = "record" /\ w.channel = old.channel /\ w.left = old.left
        /\ w.time = old.time /\ w.slow = old.slow /\ w.job = old.job /\ w.lease = old.lease
        /\ w.suspended = old.suspended /\ w.cancelled = old.cancelled
        /\ w.outcome = o
    BY <1>1 DEF RunRecord
  <1> HIDE DEF w
  <1>4. run'[r] = w /\ \A q \in Runners \ {r} : run'[q] = run[q]
    BY <1>2 DEF TypeOK
  <1>5. SameLease(r)
    BY <1>1, <1>3, <1>4, SameJobs DEF SameLease
  <1>6. CASE /\ posted' = IF o = "ok" THEN [posted EXCEPT ![x] = @ + 1] ELSE posted
             /\ UNCHANGED faults
    <2>1. TotalFaults' = TotalFaults
      BY <1>6 DEF TotalFaults
    <2>2. /\ \A y \in Pairs \ {x} : posted'[y] = posted[y]
          /\ posted'[x] = IF o = "ok" THEN posted[x] + 1 ELSE posted[x]
      BY <1>1, <1>6 DEF TypeOK
    <2> QED
      BY <1>1, <1>3, <1>4, <1>5, <2>1, <2>2
  <1>7. CASE Fault("lost") /\ posted' = [posted EXCEPT ![x] = @ + 1]
    <2>1. TotalFaults' = TotalFaults + 1
      BY <1>7, FaultCounts DEF Kinds
    <2>2. /\ \A y \in Pairs \ {x} : posted'[y] = posted[y]
          /\ posted'[x] = posted[x] + 1
      BY <1>1, <1>7 DEF TypeOK
    <2> QED
      BY <1>1, <1>3, <1>4, <1>5, <2>1, <2>2
  <1> QED
    BY <1>6, <1>7 DEF Post

LEMMA RecordRunner ==
    ASSUME TypeOK, Employed, NEW r \in Runners, Record(r)
    PROVE  LET x == <<EventOf(r), run[r].channel>> IN
           /\ UNCHANGED <<job, posted>>
           /\ SameLease(r)
           /\ x \in Pairs
           /\ run[r].phase = "record" /\ run'[r].phase = "begin"
           /\ run'[r].left = run[r].left
           /\ run'[r].time = 0 /\ ~run'[r].slow
           /\ \/ /\ \/ rec'[x].status \in Terminal
                    \/ rec'[x].status = "retrying" /\ run[r].outcome = "retry"
                 /\ \A y \in Pairs \ {x} : rec'[y] = rec[y]
                 /\ TotalFaults' = TotalFaults
              \/ /\ UNCHANGED rec
                 /\ run[r].cancelled
                 /\ TotalFaults' = TotalFaults
              \/ /\ UNCHANGED rec
                 /\ TotalFaults' = TotalFaults + 1
  <1> DEFINE x == <<EventOf(r), run[r].channel>>
             old == run[r]
  <1>1. /\ UNCHANGED <<job, posted>>
        /\ old.phase = "record" /\ old \in RunRecord
        /\ x \in Pairs
    BY AtType DEF Record, TypeOK, Busy
  <1>2. PICK t \in BOOLEAN :
          run' = [run EXCEPT ![r].phase = "begin", ![r].channel = NoChannel,
                             ![r].time = 0, ![r].slow = FALSE, ![r].retry = @ \/ t]
    BY DEF Record, Retry, GivenUp
  <1> DEFINE w == [old EXCEPT !.phase = "begin", !.channel = NoChannel,
                              !.time = 0, !.slow = FALSE, !.retry = @ \/ t]
  <1>3. run' = [run EXCEPT ![r] = w]
    BY <1>2
  <1>4. /\ w.phase = "begin" /\ w.job = old.job /\ w.lease = old.lease
        /\ w.suspended = old.suspended /\ w.cancelled = old.cancelled
        /\ w.left = old.left /\ w.time = 0 /\ ~w.slow
    BY <1>1 DEF RunRecord
  <1> HIDE DEF w
  <1>5. run'[r] = w /\ \A q \in Runners \ {r} : run'[q] = run[q]
    BY <1>3 DEF TypeOK
  <1>6. SameLease(r)
    BY <1>1, <1>4, <1>5, SameJobs DEF SameLease
  <1>7. CASE /\ rec' = [rec EXCEPT ![x] =
                  [status |-> StatusFor(r), attempts |-> run[r].attempt,
                   age |-> 0, sentAge |-> 0]]
             /\ UNCHANGED faults
    <2>1. StatusFor(r) \in Terminal \/ (StatusFor(r) = "retrying" /\ run[r].outcome = "retry")
      <3>1. run[r].outcome \in Outcomes
        BY <1>1 DEF RunRecord
      <3> QED
        BY <3>1 DEF StatusFor, Terminal, GivenUp, Outcomes
    <2>2. rec'[x].status = StatusFor(r) /\ \A y \in Pairs \ {x} : rec'[y] = rec[y]
      BY <1>1, <1>7 DEF TypeOK
    <2>3. TotalFaults' = TotalFaults
      BY <1>7 DEF TotalFaults
    <2> QED
      BY <1>1, <1>4, <1>5, <1>6, <2>1, <2>2, <2>3
  <1>8. CASE StoreFails(r) /\ UNCHANGED rec
    <2>1. CASE run[r].cancelled
      <3>1. TotalFaults' = TotalFaults
        BY <1>8, <2>1 DEF StoreFails, TotalFaults
      <3> QED
        BY <1>1, <1>4, <1>5, <1>6, <1>8, <2>1, <3>1
    <2>2. CASE ~run[r].cancelled
      <3>1. TotalFaults' = TotalFaults + 1
        BY <1>8, <2>2, FaultCounts DEF StoreFails, Kinds
      <3> QED
        BY <1>1, <1>4, <1>5, <1>6, <1>8, <3>1
    <2> QED
      BY <2>1, <2>2
  <1> QED
    BY <1>7, <1>8 DEF Record

(* A worker that is gone, stands still, goes on or is told to stop.        *)
LEMMA LeaseRunner ==
    ASSUME TypeOK, Employed, NEW r \in Runners,
           Crash(r) \/ Suspend(r) \/ Resume(r) \/ LeaseLost(r) \/ Outlive(r)
    PROVE  /\ UNCHANGED <<job, rec, posted>>
           /\ \A q \in Runners \ {r} : KeepsOn(q)
           /\ \/ run'[r].phase = "idle" /\ TotalFaults' = TotalFaults + 1
              \/ /\ run'[r].phase = run[r].phase /\ run'[r].job = run[r].job
                 /\ run'[r].lease = run[r].lease /\ run'[r].left = run[r].left
                 /\ run'[r].channel = run[r].channel /\ run'[r].time = run[r].time
                 /\ run'[r].outcome = run[r].outcome
                 /\ run'[r].slow = run[r].slow \/ (run'[r].slow /\ TotalFaults' = TotalFaults + 1)
                 /\ \/ /\ run'[r].cancelled = run[r].cancelled
                       /\ TotalFaults' = TotalFaults + 1
                    \/ /\ run'[r].cancelled = run[r].cancelled
                       /\ run'[r].suspended = FALSE
                       /\ TotalFaults' = TotalFaults
                    \/ /\ ~Holds(r)
                       /\ run'[r].suspended = run[r].suspended
                       /\ TotalFaults' = TotalFaults
  <1>1. run[r] \in RunRecord /\ run \in [Runners -> RunRecord]
    BY DEF TypeOK
  <1>2. CASE Crash(r)
    <2>1. run'[r].phase = "idle" /\ \A q \in Runners \ {r} : run'[q] = run[q]
      BY <1>1, <1>2 DEF Crash, Idle
    <2>2. TotalFaults' = TotalFaults + 1 /\ UNCHANGED <<job, rec, posted>>
      BY <1>2, FaultCounts DEF Crash, Kinds
    <2> QED
      BY <2>1, <2>2, SameJobs
  <1>3. CASE Suspend(r)
    <2> DEFINE d == [run[r] EXCEPT !.suspended = TRUE]
    <2>1. /\ d.phase = run[r].phase /\ d.job = run[r].job
          /\ d.lease = run[r].lease /\ d.left = run[r].left
          /\ d.channel = run[r].channel /\ d.time = run[r].time /\ d.slow = run[r].slow
          /\ d.outcome = run[r].outcome
          /\ d.cancelled = run[r].cancelled /\ d.suspended = TRUE
      BY <1>1 DEF RunRecord
    <2>2. run' = [run EXCEPT ![r] = d] /\ run[r].phase # "idle"
          /\ UNCHANGED <<job, rec, posted>>
      BY <1>3 DEF Suspend, Running
    <2> HIDE DEF d
    <2>3. run'[r] = d /\ \A q \in Runners \ {r} : run'[q] = run[q]
      BY <1>1, <2>2
    <2>4. TotalFaults' = TotalFaults + 1
      BY <1>3, FaultCounts DEF Suspend, Kinds
    <2> QED
      BY <2>1, <2>2, <2>3, <2>4, SameJobs
  <1>4. CASE Resume(r)
    <2> DEFINE d == [run[r] EXCEPT !.suspended = FALSE]
    <2>1. /\ d.phase = run[r].phase /\ d.job = run[r].job
          /\ d.lease = run[r].lease /\ d.left = run[r].left
          /\ d.channel = run[r].channel /\ d.time = run[r].time /\ d.slow = run[r].slow
          /\ d.outcome = run[r].outcome
          /\ d.cancelled = run[r].cancelled /\ d.suspended = FALSE
      BY <1>1 DEF RunRecord
    <2>2. run' = [run EXCEPT ![r] = d] /\ UNCHANGED <<job, rec, posted, faults>>
      BY <1>4 DEF Resume
    <2> HIDE DEF d
    <2>3. run'[r] = d /\ \A q \in Runners \ {r} : run'[q] = run[q]
      BY <1>1, <2>2
    <2>4. TotalFaults' = TotalFaults
      BY <2>2 DEF TotalFaults
    <2> QED
      BY <2>1, <2>2, <2>3, <2>4, SameJobs
  <1>5. CASE LeaseLost(r)
    <2> DEFINE d == [run[r] EXCEPT !.cancelled = TRUE]
    <2>1. /\ d.phase = run[r].phase /\ d.job = run[r].job
          /\ d.lease = run[r].lease /\ d.left = run[r].left
          /\ d.channel = run[r].channel /\ d.time = run[r].time /\ d.slow = run[r].slow
          /\ d.outcome = run[r].outcome
          /\ d.suspended = run[r].suspended
      BY <1>1 DEF RunRecord
    <2>2. /\ run' = [run EXCEPT ![r] = d] /\ run[r].phase # "idle"
          /\ UNCHANGED <<job, rec, posted, faults>> /\ ~Holds(r)
      BY <1>5 DEF LeaseLost, Running
    <2> HIDE DEF d
    <2>3. run'[r] = d /\ \A q \in Runners \ {r} : run'[q] = run[q]
      BY <1>1, <2>2
    <2>4. TotalFaults' = TotalFaults
      BY <2>2 DEF TotalFaults
    <2> QED
      BY <2>1, <2>2, <2>3, <2>4, SameJobs
  <1>6. CASE Outlive(r)
    <2> DEFINE d == [run[r] EXCEPT !.slow = TRUE]
    <2>1. /\ d.phase = run[r].phase /\ d.job = run[r].job
          /\ d.lease = run[r].lease /\ d.left = run[r].left
          /\ d.channel = run[r].channel /\ d.time = run[r].time /\ d.slow
          /\ d.outcome = run[r].outcome
          /\ d.cancelled = run[r].cancelled
      BY <1>1 DEF RunRecord
    <2>2. /\ run' = [run EXCEPT ![r] = d] /\ run[r].phase # "idle"
          /\ UNCHANGED <<job, rec, posted>>
      BY <1>6 DEF Outlive, Running
    <2> HIDE DEF d
    <2>3. run'[r] = d /\ \A q \in Runners \ {r} : run'[q] = run[q]
      BY <1>1, <2>2
    <2>4. TotalFaults' = TotalFaults + 1
      BY <1>6, FaultCounts DEF Outlive, Kinds
    <2> QED
      BY <2>1, <2>2, <2>3, <2>4, SameJobs
  <1> QED
    BY <1>2, <1>3, <1>4, <1>5, <1>6

LEMMA TickRunner ==
    ASSUME TypeOK, Employed, Tick, NEW r \in Runners
    PROVE  /\ Running(r) => Lasts(r)
           /\ run'[r].phase = run[r].phase /\ run'[r].job = run[r].job
           /\ run'[r].lease = run[r].lease /\ run'[r].left = run[r].left
           /\ run'[r].channel = run[r].channel /\ run'[r].outcome = run[r].outcome
           /\ run'[r].suspended = run[r].suspended /\ run'[r].slow = run[r].slow
           /\ run'[r].cancelled = run[r].cancelled
           /\ run'[r].time = IF Running(r) THEN run[r].time + 1 ELSE run[r].time
           /\ run[r].phase # "idle" =>
                /\ EventOf(r)' = EventOf(r)
                /\ Holds(r)' <=> Holds(r)
                /\ Firm(r) => Firm(r)'
                /\ job'[run[r].job].attempts = job[run[r].job].attempts
  <1> DEFINE n == run[r].time + 1
             w == [run[r] EXCEPT !.time = n]
  <1>1. n \in Nat /\ run[r] \in RunRecord
    BY DEF TypeOK, RunRecord
  <1>2. run'[r] = IF Running(r) THEN w ELSE run[r]
    BY DEF Tick
  <1>3. n = run[r].time + 1
    OBVIOUS
  <1> HIDE DEF n
  <1>4. /\ w.time = n
        /\ w.phase = run[r].phase /\ w.job = run[r].job
        /\ w.lease = run[r].lease /\ w.left = run[r].left
        /\ w.channel = run[r].channel /\ w.outcome = run[r].outcome
        /\ w.suspended = run[r].suspended /\ w.cancelled = run[r].cancelled
        /\ w.slow = run[r].slow
    BY <1>1 DEF RunRecord
  <1> HIDE DEF w
  <1>5. /\ run'[r].phase = run[r].phase /\ run'[r].job = run[r].job
        /\ run'[r].lease = run[r].lease /\ run'[r].left = run[r].left
        /\ run'[r].channel = run[r].channel /\ run'[r].outcome = run[r].outcome
        /\ run'[r].suspended = run[r].suspended /\ run'[r].slow = run[r].slow
        /\ run'[r].cancelled = run[r].cancelled
        /\ run'[r].time = IF Running(r) THEN run[r].time + 1 ELSE run[r].time
    BY <1>2, <1>3, <1>4
  <1>6. ASSUME run[r].phase # "idle"
        PROVE  /\ EventOf(r)' = EventOf(r)
               /\ Holds(r)' <=> Holds(r)
               /\ Firm(r) => Firm(r)'
               /\ job'[run[r].job].attempts = job[run[r].job].attempts
    <2> DEFINE j == run[r].job
               m == IF job[j].status # "running" \/ Renewed(j) THEN 0
                    ELSE Older(job[j].silent, LeaseTimeout)
               d == [job[j] EXCEPT !.silent = m]
    <2>1. j \in Jobs /\ job[j] \in JobRecord
      BY <1>6 DEF TypeOK, Employed
    <2>2. job'[j] = d
      BY <2>1 DEF Tick
    <2>3. Firm(r) => m = 0
      BY DEF Firm, Renewed
    <2> HIDE DEF m
    <2>4. /\ d.status = job[j].status /\ d.event = job[j].event
          /\ d.attempts = job[j].attempts /\ d.silent = m
      BY <2>1 DEF JobRecord
    <2> HIDE DEF d
    <2>5. /\ job'[j].status = job[j].status /\ job'[j].event = job[j].event
          /\ job'[j].attempts = job[j].attempts /\ job'[j].silent = m
      BY <2>2, <2>4
    <2>6. Holds(r)' <=> Holds(r)
      BY <1>5, <2>5 DEF Holds
    <2>7. Firm(r) => Firm(r)'
      BY <1>5, <2>3, <2>5, <2>6, TimingAssumption DEF Firm, Running
    <2> QED
      BY <1>5, <2>5, <2>6, <2>7 DEF EventOf
  <1> QED
    BY <1>5, <1>6 DEF Tick

LEMMA RequeueRunner ==
    ASSUME TypeOK, Employed, RequeueStaleJobs, NEW q \in Runners
    PROVE  KeepsOn(q)
  <1>1. run' = run
    BY DEF RequeueStaleJobs
  <1>2. CASE run[q].phase = "idle"
    BY <1>1, <1>2 DEF KeepsOn
  <1>3. CASE run[q].phase # "idle"
    <2> DEFINE j == run[q].job
               d == [job[j] EXCEPT !.status = "queued", !.silent = 0]
    <2>1. j \in Jobs /\ job[j] \in JobRecord
      BY <1>3 DEF TypeOK, Employed
    <2>2. d.event = job[j].event /\ d.status = "queued" /\ d.attempts = job[j].attempts
          /\ job[j].attempts \in Nat /\ job[j].silent \in Nat
      BY <2>1 DEF JobRecord
    <2>3. \/ /\ job'[j] = d /\ job[j].silent > LeaseTimeout
          \/ job'[j] = job[j]
      BY <2>1 DEF RequeueStaleJobs
    <2> HIDE DEF d
    <2>4. CASE job'[j] = d /\ job[j].silent > LeaseTimeout
      <3>1. ~Firm(q)
        BY <2>2, <2>4, TimingAssumption DEF Firm
      <3> QED
        BY <1>1, <2>2, <2>4, <3>1 DEF KeepsOn, EventOf, Holds
    <2>5. CASE job'[j] = job[j]
      BY <1>1, <2>2, <2>5 DEF KeepsOn, EventOf, Holds, Firm, Running
    <2> QED
      BY <2>3, <2>4, <2>5
  <1> QED
    BY <1>2, <1>3

LEMMA EnqueueRunner ==
    ASSUME TypeOK, Employed, NEW j \in Jobs, NEW e \in Events, Enqueue(j, e),
           NEW q \in Runners
    PROVE  KeepsOn(q)
  <1>1. /\ run' = run /\ job[j].status = "none"
        /\ \A k \in Jobs \ {j} : job'[k] = job[k]
    BY EnqueueStep
  <1>2. run[q].phase # "idle" => run[q].job \in Jobs \ {j} /\ job[run[q].job].attempts \in Nat
    BY <1>1 DEF Employed, TypeOK, JobRecord
  <1> QED
    BY <1>1, <1>2 DEF KeepsOn, EventOf, Holds, Firm, Running

-----------------------------------------------------------------------------
(* Leases are kept apart *)

LEMMA LeasesKept ==
    ASSUME TypeOK, TypeOK', Employed, Leases, NEW r \in Runners,
           \A q \in Runners \ {r} : KeepsOn(q),
           \/ run'[r].phase = "idle"
           \/ /\ run[r].phase # "idle" /\ run'[r].phase # "idle"
              /\ run'[r].job = run[r].job /\ run'[r].lease = run[r].lease
              /\ run'[r].lease <= job'[run[r].job].attempts
              /\ (~run'[r].slow => run'[r].time < Window)
              /\ run'[r].cancelled => ~Holds(r)'
              /\ Busy(r)' => run'[r].channel \notin run'[r].left
           \/ /\ run'[r].phase = "begin" /\ (~run'[r].slow => run'[r].time < Window)
              /\ run'[r].lease <= job'[run'[r].job].attempts
              /\ ~run'[r].cancelled
              /\ \A q \in Runners \ {r} :
                   (run[q].phase # "idle" /\ run[q].job = run'[r].job) =>
                       run[q].lease < run'[r].lease
    PROVE  Leases'
  <1>1. ASSUME NEW q \in Runners, run'[q].phase # "idle"
        PROVE  /\ run'[q].lease <= job'[run'[q].job].attempts
               /\ (~run'[q].slow => run'[q].time < Window)
               /\ run'[q].cancelled => ~Holds(q)'
               /\ Busy(q)' => run'[q].channel \notin run'[q].left
    <2>1. CASE q = r
      BY <1>1, <2>1 DEF Busy
    <2>2. CASE q # r
      <3>1. KeepsOn(q) /\ run[q].phase # "idle" /\ run'[q] = run[q]
        BY <1>1, <2>2 DEF KeepsOn
      <3>2. /\ run[q].lease <= job[run[q].job].attempts
            /\ job[run[q].job].attempts <= job'[run[q].job].attempts
            /\ (~run[q].slow => run[q].time < Window)
            /\ run[q].cancelled => ~Holds(q)
            /\ Busy(q) => run[q].channel \notin run[q].left
        BY <3>1 DEF KeepsOn, Leases
      <3>3. /\ run[q].lease \in Nat /\ job[run[q].job].attempts \in Nat
            /\ job'[run[q].job].attempts \in Nat
        BY <3>1 DEF Employed, TypeOK, RunRecord, JobRecord
      <3>4. run'[q].lease <= job'[run'[q].job].attempts
        BY <3>1, <3>2, <3>3
      <3>5. run'[q].cancelled => ~Holds(q)'
        BY <3>1, <3>2 DEF KeepsOn
      <3> QED
        BY <3>1, <3>2, <3>4, <3>5 DEF Busy
    <2> QED
      BY <2>1, <2>2
  <1>2. ASSUME NEW q \in Runners, NEW p \in Runners, p # q,
               run'[p].phase # "idle", run'[q].phase # "idle", run'[p].job = run'[q].job
        PROVE  run'[p].lease # run'[q].lease
    <2>1. \A s \in Runners \ {r} : run'[s] = run[s]
      BY DEF KeepsOn
    <2>2. CASE p # r /\ q # r
      BY <1>2, <2>1, <2>2 DEF Leases
    <2>3. \A s \in Runners : run'[s].lease \in Nat
      BY DEF TypeOK, RunRecord
    <2>4. CASE p = r
      BY <1>2, <2>1, <2>3, <2>4 DEF Leases
    <2>5. CASE q = r
      BY <1>2, <2>1, <2>3, <2>5 DEF Leases
    <2> QED
      BY <2>2, <2>4, <2>5
  <1> QED
    BY <1>1, <1>2 DEF Leases

LEMMA LeasesStep ==
    ASSUME TypeOK, TypeOK', Employed, Leases, [Next]_vars
    PROVE  Leases'
  <1>1. ASSUME NEW r \in Runners, Claim(r) PROVE Leases'
    <2>1. /\ \A q \in Runners \ {r} : KeepsOn(q)
          /\ run'[r].phase = "begin" /\ run'[r].time = 0 /\ ~run'[r].slow
          /\ run'[r].cancelled = FALSE
          /\ run'[r].lease = job'[run'[r].job].attempts
          /\ \A q \in Runners \ {r} :
               (run[q].phase # "idle" /\ run[q].job = run'[r].job) =>
                   run[q].lease < run'[r].lease
      BY <1>1, ClaimRunner
    <2>2. run'[r].lease \in Nat
      BY DEF TypeOK, RunRecord
    <2>3. run'[r].lease <= job'[run'[r].job].attempts /\ (~run'[r].slow => run'[r].time < Window)
      BY <2>1, <2>2, TimingAssumption
    <2> QED
      BY <2>1, <2>3, LeasesKept
  <1>2. ASSUME NEW r \in Runners, Finish(r) PROVE Leases'
    BY <1>2, FinishRunner, LeasesKept
  (* a runner that stays on its job *)
  <1>3. ASSUME NEW r \in Runners, SameLease(r), job' = job, run[r].phase # "idle",
               run'[r].phase # "idle", (~run'[r].slow => run'[r].time < Window),
               Busy(r)' => run'[r].channel \notin run'[r].left
        PROVE  Leases'
    <2>1. run'[r].cancelled => ~Holds(r)'
      BY <1>3, SameHold DEF Leases, SameLease
    <2>2. run'[r].lease <= job'[run[r].job].attempts
      BY <1>3 DEF Leases, SameLease
    <2> QED
      BY <1>3, <2>1, <2>2, LeasesKept DEF SameLease
  <1>4. ASSUME NEW r \in Runners, NEW c \in Channels, Begin(r, c) PROVE Leases'
    <2>1. (~run[r].slow => run[r].time < Window)
      BY <1>4 DEF Begin, Running, Leases
    <2>2. /\ SameLease(r) /\ job' = job /\ run[r].phase = "begin"
          /\ run'[r].left = run[r].left \ {c}
          /\ \/ /\ run'[r].phase = IF Decision(EventOf(r), c) = "send" THEN "send" ELSE "begin"
                /\ run'[r].channel = c /\ run'[r].time = 0 /\ ~run'[r].slow
             \/ run'[r].phase = "begin" /\ run'[r].time = run[r].time /\ run'[r].slow = run[r].slow
      BY <1>4, BeginRunner, Zenon
    <2>3. /\ run'[r].phase \in {"begin", "send"}
          /\ (~run'[r].slow => run'[r].time < Window)
          /\ run'[r].phase = "send" => run'[r].channel = c
          /\ c \notin run'[r].left
      BY <2>1, <2>2, TimingAssumption
    <2> QED
      BY <1>3, <2>2, <2>3 DEF Busy
  <1>5. ASSUME NEW r \in Runners, NEW o \in Outcomes, Post(r, o) PROVE Leases'
    <2>1. /\ SameLease(r) /\ job' = job /\ run[r].phase = "send"
          /\ run'[r].phase = "record" /\ run'[r].time = run[r].time /\ run'[r].slow = run[r].slow
          /\ run'[r].channel = run[r].channel /\ run'[r].left = run[r].left
      BY <1>5, PostRunner
    <2>2. (~run[r].slow => run[r].time < Window) /\ run[r].channel \notin run[r].left
      BY <2>1 DEF Leases, Busy
    <2> QED
      BY <1>3, <2>1, <2>2
  <1>6. ASSUME NEW r \in Runners, Record(r) PROVE Leases'
    <2>1. /\ SameLease(r) /\ job' = job /\ run[r].phase = "record"
          /\ run'[r].phase = "begin" /\ run'[r].time = 0 /\ ~run'[r].slow
      BY <1>6, RecordRunner
    <2> QED
      BY <1>3, <2>1, TimingAssumption DEF Busy
  <1>7. ASSUME NEW r \in Runners, Crash(r) \/ Suspend(r) \/ Resume(r) \/ LeaseLost(r) \/ Outlive(r)
        PROVE  Leases'
    <2>1. /\ UNCHANGED job
          /\ \A q \in Runners \ {r} : KeepsOn(q)
          /\ \/ run'[r].phase = "idle"
             \/ /\ run'[r].phase = run[r].phase /\ run'[r].job = run[r].job
                /\ run'[r].lease = run[r].lease /\ run'[r].left = run[r].left
                /\ run'[r].channel = run[r].channel /\ run'[r].time = run[r].time
                /\ run'[r].slow \/ run'[r].slow = run[r].slow
                /\ run'[r].cancelled = run[r].cancelled \/ ~Holds(r)
      BY <1>7, LeaseRunner
    <2>2. CASE run'[r].phase = "idle"
      BY <2>1, <2>2, LeasesKept
    <2>3. CASE /\ run'[r].phase # "idle"
               /\ run'[r].phase = run[r].phase /\ run'[r].job = run[r].job
               /\ run'[r].lease = run[r].lease /\ run'[r].left = run[r].left
               /\ run'[r].channel = run[r].channel /\ run'[r].time = run[r].time
               /\ run'[r].slow \/ run'[r].slow = run[r].slow
               /\ run'[r].cancelled = run[r].cancelled \/ ~Holds(r)
      <3>1. Holds(r)' <=> Holds(r)
        BY <2>1, <2>3 DEF Holds
      <3>2. run'[r].cancelled => ~Holds(r)'
        BY <2>3, <3>1 DEF Leases
      <3>3. /\ run'[r].lease <= job'[run[r].job].attempts
            /\ (~run'[r].slow => run'[r].time < Window)
            /\ Busy(r)' => run'[r].channel \notin run'[r].left
        BY <2>1, <2>3 DEF Leases, Busy
      <3> QED
        BY <2>1, <2>3, <3>2, <3>3, LeasesKept
    <2> QED
      BY <2>1, <2>2, <2>3
  (* steps of nobody *)
  <1>8. ASSUME \A q \in Runners : KeepsOn(q) PROVE Leases'
    <2>1. CASE Runners = {}
      BY <2>1 DEF Leases
    <2>2. ASSUME NEW r \in Runners PROVE Leases'
      <3>1. run'[r] = run[r] /\ KeepsOn(r)
        BY <1>8 DEF KeepsOn
      <3>2. CASE run'[r].phase = "idle"
        BY <1>8, <3>2, LeasesKept
      <3>3. CASE run'[r].phase # "idle"
        <4>1. /\ run[r].lease <= job[run[r].job].attempts
              /\ job[run[r].job].attempts <= job'[run[r].job].attempts
              /\ run[r].lease \in Nat /\ job[run[r].job].attempts \in Nat
              /\ job'[run[r].job].attempts \in Nat
          BY <3>1, <3>3 DEF Leases, KeepsOn, Employed, TypeOK, RunRecord, JobRecord
        <4>2. run'[r].lease <= job'[run[r].job].attempts
          BY <3>1, <4>1
        <4>3. /\ (~run'[r].slow => run'[r].time < Window)
              /\ run'[r].cancelled => ~Holds(r)'
              /\ Busy(r)' => run'[r].channel \notin run'[r].left
          BY <3>1, <3>3 DEF Leases, KeepsOn, Busy
        <4> QED
          BY <1>8, <3>1, <3>3, <4>2, <4>3, LeasesKept
      <3> QED
        BY <3>2, <3>3
    <2> QED
      BY <2>1, <2>2
  <1>9. CASE RequeueStaleJobs
    BY <1>8, <1>9, RequeueRunner
  <1>10. ASSUME NEW j \in Jobs, NEW e \in Events, Enqueue(j, e) PROVE Leases'
    BY <1>8, <1>10, EnqueueRunner
  <1>11. CASE UNCHANGED vars
    BY <1>8, <1>11, SameJobs DEF vars
  <1>12. CASE Tick
    <2>1. ASSUME NEW q \in Runners, run'[q].phase # "idle"
          PROVE  /\ run'[q].lease <= job'[run'[q].job].attempts
                 /\ (~run'[q].slow => run'[q].time < Window)
                 /\ run'[q].cancelled => ~Holds(q)'
                 /\ Busy(q)' => run'[q].channel \notin run'[q].left
      <3>1. run[q].phase # "idle"
        BY <1>12, <2>1, TickRunner
      <3>2. run[q].time \in Nat /\ (~run[q].slow => run[q].time < Window)
        BY <3>1 DEF Leases, TypeOK, RunRecord
      <3>3. (~run'[q].slow => run'[q].time < Window)
        BY <1>12, <3>2, TickRunner, TimingAssumption DEF Lasts
      <3>4. /\ run'[q].lease <= job'[run'[q].job].attempts
            /\ run'[q].cancelled => ~Holds(q)'
        BY <1>12, <3>1, TickRunner DEF Leases
      <3>5. Busy(q)' => run'[q].channel \notin run'[q].left
        BY <1>12, <3>1, TickRunner DEF Leases, Busy
      <3> QED
        BY <3>3, <3>4, <3>5
    <2>2. ASSUME NEW q \in Runners, NEW p \in Runners, p # q,
                 run'[p].phase # "idle", run'[q].phase # "idle", run'[p].job = run'[q].job
          PROVE  run'[p].lease # run'[q].lease
      <3>1. /\ run[p].phase # "idle" /\ run[q].phase # "idle"
            /\ run[p].job = run[q].job
            /\ run'[p].lease = run[p].lease /\ run'[q].lease = run[q].lease
        BY <1>12, <2>2, TickRunner
      <3> QED
        BY <2>2, <3>1 DEF Leases
    <2> QED
      BY <2>1, <2>2 DEF Leases
  <1> QED
    BY <1>1, <1>2, <1>4, <1>5, <1>6, <1>7, <1>9, <1>10, <1>11, <1>12 DEF Next, Dispatch

-----------------------------------------------------------------------------
(* ... and every message is paid for *)

LEMMA ClaimWithin ==
    ASSUME TypeOK, TypeOK', Employed, Leases, NEW r \in Runners, Claim(r),
           NEW e \in Events, NEW c \in Channels, Within(e, c)
    PROVE  Within(e, c)'
  <1>1. /\ UNCHANGED <<rec, posted, faults>>
        /\ \A q \in Runners \ {r} : KeepsOn(q)
        /\ run[r].phase = "idle" /\ run'[r].phase = "begin" /\ Firm(r)'
    BY ClaimRunner
  <1>2. ~Waits(r, e, c)' /\ ~Owner(r, e, c)
    BY <1>1 DEF Waits, Owner, At, Busy
  <1>3. Open(e, c)' => Open(e, c)
    BY <1>1, <1>2, StaysShut
  <1>4. TotalFaults' >= TotalFaults
    BY <1>1 DEF TotalFaults, TypeOK, Kinds
  <1> QED
    BY <1>1, <1>2, <1>3, <1>4, StaysWithin

LEMMA FinishWithin ==
    ASSUME TypeOK, TypeOK', Employed, Leases, NEW r \in Runners, Finish(r),
           NEW e \in Events, NEW c \in Channels, Within(e, c)
    PROVE  Within(e, c)'
  <1>1. /\ UNCHANGED <<rec, posted>>
        /\ \A q \in Runners \ {r} : KeepsOn(q)
        /\ run[r].phase = "begin" /\ run'[r].phase = "idle"
        /\ TotalFaults' >= TotalFaults
    BY FinishRunner
  <1>2. ~Waits(r, e, c)' /\ ~Owner(r, e, c)
    BY <1>1 DEF Waits, Owner, At, Busy
  <1>3. Open(e, c)' => Open(e, c)
    BY <1>1, <1>2, StaysShut
  <1> QED
    BY <1>1, <1>2, <1>3, StaysWithin

(* A record that may be sent is not owned: it is new, to be retried, or    *)
(* older than any request that is under way.                               *)
LEMMA SendIsOpen ==
    ASSUME TypeOK, Leases, NEW e \in Events, NEW c \in Channels,
           Decision(e, c) = "send"
    PROVE  Open(e, c)
  <1>1. rec[<<e, c>>] \in DeliveryRecord
    BY DEF TypeOK, Pairs
  <1>2. /\ rec[<<e, c>>].status \notin Terminal
        /\ rec[<<e, c>>].status = "sending" => ~Fresh(e, c)
    BY DEF Decision, Settled
  <1>3. ASSUME rec[<<e, c>>].status = "sending", NEW q \in Runners, Owner(q, e, c)
        PROVE  FALSE
    <2>1. run[q].time \in Nat /\ (~run[q].slow => run[q].time < Window) /\ rec[<<e, c>>].age \in Nat
      BY <1>1, <1>3 DEF Owner, At, Busy, Leases, TypeOK, RunRecord, DeliveryRecord
    <2>2. rec[<<e, c>>].age <= run[q].time /\ ~run[q].slow
      BY <1>3 DEF Owner
    <2> QED
      BY <1>2, <1>3, <2>1, <2>2, TimingAssumption DEF Fresh
  <1> QED
    BY <1>1, <1>2, <1>3 DEF Open, DeliveryRecord

LEMMA BeginWithin ==
    ASSUME TypeOK, TypeOK', Employed, Leases,
           NEW r \in Runners, NEW d \in Channels, Begin(r, d),
           NEW e \in Events, NEW c \in Channels, Within(e, c)
    PROVE  Within(e, c)'
  <1> DEFINE f == EventOf(r)
  <1>1. /\ UNCHANGED <<job, posted>>
        /\ SameLease(r)
        /\ run[r].phase = "begin" /\ d \in run[r].left
        /\ run'[r].left = run[r].left \ {d}
        /\ \/ /\ rec' = [rec EXCEPT ![<<f, d>>] = Decided(f, d)]
              /\ run'[r].phase = IF Decision(f, d) = "send" THEN "send" ELSE "begin"
              /\ run'[r].channel = d
              /\ run'[r].time = 0 /\ ~run'[r].slow
              /\ UNCHANGED faults
           \/ /\ UNCHANGED rec
              /\ run'[r].phase = "begin"
              /\ run'[r].time = run[r].time /\ run'[r].slow = run[r].slow
              /\ TotalFaults' >= TotalFaults
    BY BeginRunner, Zenon
  <1>2. run'[r].phase \in {"begin", "send"}
    BY <1>1
  <1>3. EventOf(r)' = f /\ (Firm(r)' <=> Firm(r))
    BY <1>1, <1>2, SameHold
  <1>4. ~Owner(r, e, c)
    BY <1>1 DEF Owner, At, Busy
  <1>5. \A q \in Runners \ {r} : KeepsOn(q)
    BY <1>1 DEF SameLease
  <1>6. f \in Events
    BY <1>1, WorkType
  <1>7. CASE UNCHANGED rec /\ run'[r].phase = "begin" /\ TotalFaults' >= TotalFaults
    <2>1. Waits(r, e, c)' => Waits(r, e, c)
      BY <1>1, <1>3, <1>7 DEF Waits
    <2>2. Open(e, c)' => Open(e, c)
      BY <1>4, <1>5, <1>7, StaysShut
    <2> QED
      BY <1>1, <1>5, <1>7, <2>1, <2>2, StaysWithin
  <1>8. CASE /\ rec' = [rec EXCEPT ![<<f, d>>] = Decided(f, d)]
             /\ run'[r].phase = IF Decision(f, d) = "send" THEN "send" ELSE "begin"
             /\ run'[r].channel = d /\ run'[r].time = 0 /\ ~run'[r].slow
             /\ UNCHANGED faults
    <2>1. TotalFaults' = TotalFaults /\ TotalFaults \in Nat
      BY <1>8 DEF TotalFaults, TypeOK, Kinds
    <2>2. CASE <<e, c>> # <<f, d>>
      <3>1. rec'[<<e, c>>] = rec[<<e, c>>]
        BY <1>8, <2>2 DEF TypeOK, Pairs
      <3>2. Open(e, c)' => Open(e, c)
        BY <1>4, <1>5, <3>1, StaysShut
      <3>3. Waits(r, e, c)' => Waits(r, e, c)
        BY <1>1, <1>2, <1>3, <1>8, <2>2 DEF Waits
      <3> QED
        BY <1>1, <1>5, <2>1, <3>2, <3>3, StaysWithin
    <2>3. CASE e = f /\ c = d
      <3>1. rec'[<<e, c>>] = Decided(e, c)
        BY <1>8, <2>3 DEF TypeOK, Pairs
      <3>2. CASE Decision(e, c) # "send"
        <4>1. ~Waits(r, e, c)'
          BY <1>1, <1>8, <2>3, <3>2 DEF Waits
        <4>2. \/ rec'[<<e, c>>] = rec[<<e, c>>]
              \/ rec'[<<e, c>>].status \in {"failed", "suppressed"}
          BY <3>1, <3>2, DecidedType
        <4>3. Open(e, c)' => Open(e, c)
          <5>1. CASE rec'[<<e, c>>] = rec[<<e, c>>]
            BY <1>4, <1>5, <5>1, StaysShut
          <5>2. CASE rec'[<<e, c>>].status \in {"failed", "suppressed"}
            BY <5>2 DEF Open
          <5> QED
            BY <4>2, <5>1, <5>2
        <4> QED
          BY <1>1, <1>5, <2>1, <4>1, <4>3, StaysWithin
      <3>3. CASE Decision(e, c) = "send"
        <4>1. Open(e, c)
          BY <3>3, SendIsOpen
        <4>2. CASE ~Firm(r)
          <5>1. Waits(r, e, c)
            BY <1>1, <2>3, <4>2 DEF Waits
          <5> QED
            BY <1>1, <1>5, <2>1, <4>1, <5>1, StaysWithin
        <4>3. CASE Firm(r)
          <5>1. rec'[<<e, c>>].status = "sending" /\ rec'[<<e, c>>].age = 0
            BY <3>1, <3>3, DecidedType
          <5>2. Owner(r, e, c)'
            BY <1>3, <1>8, <2>3, <3>3, <4>3, <5>1 DEF Owner, At, Busy
          <5>3. ~Open(e, c)'
            BY <5>1, <5>2 DEF Open
          <5>4. Bill(e, c) = 1 /\ Bill(e, c)' = 0
            BY <4>1, <5>3 DEF Bill
          <5>5. /\ Cardinality(Pending(e, c)) \in Nat /\ Cardinality(Pending(e, c)') \in Nat
                /\ Cardinality(Pending(e, c)') <= Cardinality(Pending(e, c)) + 1
            BY <1>5, Ledger
          <5>6. posted[<<e, c>>] \in Nat /\ posted'[<<e, c>>] = posted[<<e, c>>]
            BY <1>1 DEF TypeOK, Pairs
          <5> QED
            BY <2>1, <5>4, <5>5, <5>6 DEF Within
        <4> QED
          BY <4>2, <4>3
      <3> QED
        BY <3>2, <3>3
    <2> QED
      BY <2>2, <2>3
  <1> QED
    BY <1>1, <1>7, <1>8

LEMMA PostWithin ==
    ASSUME TypeOK, TypeOK', Employed, Leases,
           NEW r \in Runners, NEW o \in Outcomes, Post(r, o),
           NEW e \in Events, NEW c \in Channels, Within(e, c)
    PROVE  Within(e, c)'
  <1> DEFINE x == <<EventOf(r), run[r].channel>>
  <1>1. /\ UNCHANGED <<job, rec>>
        /\ SameLease(r)
        /\ run[r].phase = "send" /\ run'[r].phase = "record"
        /\ run'[r].channel = run[r].channel
        /\ run'[r].left = run[r].left
        /\ run'[r].time = run[r].time /\ run'[r].slow = run[r].slow
        /\ run'[r].outcome = o
        /\ \A y \in Pairs \ {x} : posted'[y] = posted[y]
        /\ \/ /\ TotalFaults' = TotalFaults
              /\ posted'[x] = IF o = "ok" THEN posted[x] + 1 ELSE posted[x]
           \/ /\ TotalFaults' = TotalFaults + 1
              /\ posted'[x] = posted[x] + 1
    BY PostRunner
  <1>2. EventOf(r)' = EventOf(r) /\ (Firm(r)' <=> Firm(r))
    BY <1>1, SameHold
  <1>3. \A q \in Runners \ {r} : KeepsOn(q)
    BY <1>1 DEF SameLease
  <1>4. Owner(r, e, c) => Owner(r, e, c)'
    BY <1>1, <1>2 DEF Owner, At, Busy
  <1>5. Open(e, c)' => Open(e, c)
    BY <1>1, <1>3, <1>4, StaysShut
  <1>6. Waits(r, e, c)' => Waits(r, e, c)
    BY <1>1, <1>2 DEF Waits
  <1>7. TotalFaults \in Nat /\ TotalFaults' \in Nat /\ <<e, c>> \in Pairs
    BY DEF TotalFaults, TypeOK, Kinds, Pairs
  <1>8. CASE posted'[<<e, c>>] = posted[<<e, c>>]
    <2>1. TotalFaults' >= TotalFaults
      BY <1>1, <1>7
    <2> QED
      BY <1>3, <1>5, <1>6, <1>8, <2>1, StaysWithin
  <1>9. CASE posted'[<<e, c>>] # posted[<<e, c>>]
    <2>1. <<e, c>> = x
      BY <1>1, <1>7, <1>9
    <2>2. /\ posted[<<e, c>>] \in Nat
          /\ posted'[<<e, c>>] = posted[<<e, c>>] + 1
      BY <1>1, <1>7, <1>9, <2>1 DEF TypeOK
    <2>3. /\ Cardinality(Pending(e, c)) \in Nat /\ Cardinality(Pending(e, c)') \in Nat
          /\ Cardinality(Pending(e, c)') <= Cardinality(Pending(e, c))
          /\ (Waits(r, e, c) /\ ~Waits(r, e, c)') =>
               Cardinality(Pending(e, c)') + 1 <= Cardinality(Pending(e, c))
      BY <1>3, <1>6, Ledger
    <2>4. Bill(e, c) \in Nat /\ Bill(e, c)' \in Nat /\ Bill(e, c)' <= Bill(e, c)
      BY <1>5 DEF Bill
    <2>5. CASE TotalFaults' = TotalFaults + 1
      BY <1>7, <2>2, <2>3, <2>4, <2>5 DEF Within
    <2>6. CASE TotalFaults' = TotalFaults /\ o = "ok"
      <3>1. Waits(r, e, c)
        BY <1>1, <2>1 DEF Waits
      <3>2. run[r].channel \notin run[r].left
        BY <1>1 DEF Leases, Busy
      <3>3. ~Waits(r, e, c)'
        BY <1>1, <1>2, <2>1, <2>6, <3>2 DEF Waits
      <3> QED
        BY <1>7, <2>2, <2>3, <2>4, <2>6, <3>1, <3>3 DEF Within
    <2> QED
      BY <1>1, <1>9, <2>1, <2>5, <2>6
  <1> QED
    BY <1>8, <1>9

LEMMA RecordWithin ==
    ASSUME TypeOK, TypeOK', Employed, Leases, NEW r \in Runners, Record(r),
           NEW e \in Events, NEW c \in Channels, Within(e, c)
    PROVE  Within(e, c)'
  <1> DEFINE x == <<EventOf(r), run[r].channel>>
  <1>1. /\ UNCHANGED <<job, posted>>
        /\ SameLease(r)
        /\ run[r].phase = "record" /\ run'[r].phase = "begin"
        /\ run'[r].left = run[r].left
        /\ \/ /\ \/ rec'[x].status \in Terminal
                 \/ rec'[x].status = "retrying" /\ run[r].outcome = "retry"
              /\ \A y \in Pairs \ {x} : rec'[y] = rec[y]
              /\ TotalFaults' = TotalFaults
           \/ UNCHANGED rec /\ run[r].cancelled /\ TotalFaults' = TotalFaults
           \/ UNCHANGED rec /\ TotalFaults' = TotalFaults + 1
    BY RecordRunner
  <1>2. EventOf(r)' = EventOf(r) /\ (Firm(r)' <=> Firm(r))
    BY <1>1, SameHold
  <1>3. \A q \in Runners \ {r} : KeepsOn(q)
    BY <1>1 DEF SameLease
  <1>4. Waits(r, e, c)' => Waits(r, e, c)
    BY <1>1, <1>2 DEF Waits
  <1>5. TotalFaults \in Nat /\ <<e, c>> \in Pairs /\ posted'[<<e, c>>] = posted[<<e, c>>]
    BY <1>1 DEF TotalFaults, TypeOK, Kinds, Pairs
  <1>6. CASE UNCHANGED rec /\ TotalFaults' = TotalFaults + 1
    BY <1>3, <1>4, <1>5, <1>6, PaidFor
  <1>7. CASE UNCHANGED rec /\ run[r].cancelled /\ TotalFaults' = TotalFaults
    <2>1. ~Owner(r, e, c)
      BY <1>1, <1>7 DEF Leases, Owner, Firm
    <2>2. Open(e, c)' => Open(e, c)
      BY <1>3, <1>7, <2>1, StaysShut
    <2> QED
      BY <1>3, <1>4, <1>5, <1>7, <2>2, StaysWithin
  <1>8. CASE /\ \/ rec'[x].status \in Terminal
                \/ rec'[x].status = "retrying" /\ run[r].outcome = "retry"
             /\ \A y \in Pairs \ {x} : rec'[y] = rec[y]
             /\ TotalFaults' = TotalFaults
    <2>1. CASE <<e, c>> # x
      <3>1. rec'[<<e, c>>] = rec[<<e, c>>]
        BY <1>5, <1>8, <2>1
      <3>2. ~Owner(r, e, c)
        BY <2>1 DEF Owner, At
      <3>3. Open(e, c)' => Open(e, c)
        BY <1>3, <3>1, <3>2, StaysShut
      <3> QED
        BY <1>3, <1>4, <1>5, <1>8, <3>3, StaysWithin
    <2>2. CASE <<e, c>> = x /\ rec'[x].status \in Terminal
      <3>1. ~Open(e, c)'
        BY <2>2 DEF Open, Terminal
      <3> QED
        BY <1>3, <1>4, <1>5, <1>8, <3>1, StaysWithin
    <2>3. CASE <<e, c>> = x /\ run[r].outcome = "retry"
      <3>1. Waits(r, e, c)
        BY <1>1, <2>3 DEF Waits
      <3>2. run[r].channel \notin run[r].left
        BY <1>1 DEF Leases, Busy
      <3>3. ~Waits(r, e, c)'
        BY <1>1, <2>3, <3>2 DEF Waits
      <3>4. /\ Cardinality(Pending(e, c)) \in Nat /\ Cardinality(Pending(e, c)') \in Nat
            /\ Cardinality(Pending(e, c)') + 1 <= Cardinality(Pending(e, c))
        BY <1>3, <3>1, <3>3, Ledger
      <3>5. Bill(e, c) \in 0..1 /\ Bill(e, c)' \in 0..1 /\ posted[<<e, c>>] \in Nat
        BY <1>5 DEF Bill, TypeOK
      <3> QED
        BY <1>5, <1>8, <3>4, <3>5 DEF Within
    <2> QED
      BY <1>8, <2>1, <2>2, <2>3
  <1> QED
    BY <1>1, <1>6, <1>7, <1>8

LEMMA LeaseWithin ==
    ASSUME TypeOK, TypeOK', Employed, Leases, NEW r \in Runners,
           Crash(r) \/ Suspend(r) \/ Resume(r) \/ LeaseLost(r) \/ Outlive(r),
           NEW e \in Events, NEW c \in Channels, Within(e, c)
    PROVE  Within(e, c)'
  <1>1. /\ UNCHANGED <<job, rec, posted>>
        /\ \A q \in Runners \ {r} : KeepsOn(q)
        /\ \/ run'[r].phase = "idle" /\ TotalFaults' = TotalFaults + 1
           \/ /\ run'[r].phase = run[r].phase /\ run'[r].job = run[r].job
              /\ run'[r].lease = run[r].lease /\ run'[r].left = run[r].left
              /\ run'[r].channel = run[r].channel /\ run'[r].time = run[r].time
              /\ run'[r].outcome = run[r].outcome
              /\ run'[r].slow = run[r].slow \/ TotalFaults' = TotalFaults + 1
              /\ \/ TotalFaults' = TotalFaults + 1
                 \/ run'[r].suspended = FALSE /\ TotalFaults' = TotalFaults
                 \/ /\ ~Holds(r)
                    /\ run'[r].suspended = run[r].suspended
                    /\ TotalFaults' = TotalFaults
    BY LeaseRunner
  <1>2. TotalFaults \in Nat /\ posted'[<<e, c>>] = posted[<<e, c>>]
    BY <1>1 DEF TotalFaults, TypeOK, Kinds
  <1>3. CASE run'[r].phase = "idle" /\ TotalFaults' = TotalFaults + 1
    <2>1. ~Waits(r, e, c)'
      BY <1>3 DEF Waits
    <2> QED
      BY <1>1, <1>2, <1>3, <2>1, PaidFor
  <1>4. ASSUME run'[r].phase = run[r].phase, run'[r].job = run[r].job,
               run'[r].lease = run[r].lease, run'[r].left = run[r].left,
               run'[r].channel = run[r].channel, run'[r].time = run[r].time,
               run'[r].outcome = run[r].outcome
        PROVE  /\ EventOf(r)' = EventOf(r)
               /\ Holds(r)' <=> Holds(r)
               /\ (Firm(r) => Firm(r)') =>
                    /\ Waits(r, e, c)' => Waits(r, e, c)
                    /\ run'[r].slow = run[r].slow => (Owner(r, e, c) => Owner(r, e, c)')
               /\ Waits(r, e, c)' => Waits(r, e, c) \/ c \in run[r].left
    <2>1. EventOf(r)' = EventOf(r) /\ (Holds(r)' <=> Holds(r))
      BY <1>1, <1>4 DEF EventOf, Holds
    <2>2. (Firm(r) => Firm(r)') => (Waits(r, e, c)' => Waits(r, e, c))
      BY <1>4, <2>1 DEF Waits
    <2>3. (Firm(r) => Firm(r)') /\ run'[r].slow = run[r].slow => (Owner(r, e, c) => Owner(r, e, c)')
      BY <1>1, <1>4, <2>1 DEF Owner, At, Busy
    <2>4. Waits(r, e, c)' => Waits(r, e, c) \/ c \in run[r].left
      BY <1>4, <2>1 DEF Waits
    <2> QED
      BY <2>1, <2>2, <2>3, <2>4
  <1>5. ASSUME run'[r].phase = run[r].phase, run'[r].job = run[r].job,
               run'[r].lease = run[r].lease, run'[r].left = run[r].left,
               run'[r].channel = run[r].channel, run'[r].time = run[r].time,
               run'[r].outcome = run[r].outcome,
               run'[r].slow = run[r].slow, Firm(r) => Firm(r)', TotalFaults' = TotalFaults
        PROVE  Within(e, c)'
    <2>1. /\ Waits(r, e, c)' => Waits(r, e, c)
          /\ Owner(r, e, c) => Owner(r, e, c)'
      BY <1>4, <1>5
    <2>2. Open(e, c)' => Open(e, c)
      BY <1>1, <2>1, StaysShut
    <2> QED
      BY <1>1, <1>2, <1>5, <2>1, <2>2, StaysWithin
  <1>6. ASSUME run'[r].phase = run[r].phase, run'[r].job = run[r].job,
               run'[r].lease = run[r].lease, run'[r].left = run[r].left,
               run'[r].channel = run[r].channel, run'[r].time = run[r].time,
               run'[r].outcome = run[r].outcome,
               TotalFaults' = TotalFaults + 1
        PROVE  Within(e, c)'
    <2>1. CASE Waits(r, e, c)' => Waits(r, e, c)
      BY <1>1, <1>2, <1>6, <2>1, PaidFor
    <2>2. CASE c \in run[r].left
      <3>1. ~Owner(r, e, c)
        BY <2>2 DEF Owner, At, Leases, Busy
      <3>2. Open(e, c)' => Open(e, c)
        BY <1>1, <3>1, StaysShut
      <3> QED
        BY <1>1, <1>2, <1>6, <3>2, PaidFor
    <2> QED
      BY <1>4, <1>6, <2>1, <2>2
  <1>7. ASSUME run'[r].phase = run[r].phase, run'[r].suspended = FALSE, Holds(r)' <=> Holds(r),
               run'[r].job = run[r].job
        PROVE  Firm(r) => Firm(r)'
    BY <1>1, <1>7 DEF Firm, Running
  <1> QED
    BY <1>1, <1>3, <1>4, <1>5, <1>6, <1>7 DEF Firm

(* Steps that bring no runner nearer to the channel. *)
LEMMA NobodyNearer ==
    ASSUME TypeOK, TypeOK', NEW e \in Events, NEW c \in Channels,
           \A q \in Runners : Waits(q, e, c)' => Waits(q, e, c),
           rec'[<<e, c>>].status = rec[<<e, c>>].status,
           rec[<<e, c>>].status = "sending" =>
               \A q \in Runners : Owner(q, e, c) => Owner(q, e, c)',
           posted' = posted, faults' = faults, Within(e, c)
    PROVE  Within(e, c)'
  <1> DEFINE P == Pending(e, c)
             Q == Pending(e, c)'
  <1>1. P \subseteq Runners /\ Q \subseteq P
    BY DEF Pending
  <1> HIDE DEF P, Q
  <1>2. IsFiniteSet(P)
    BY <1>1, BoundsAssumption, FS_Subset
  <1>3. IsFiniteSet(Q) /\ Cardinality(Q) <= Cardinality(P)
    BY <1>1, <1>2, FS_Subset
  <1>4. Cardinality(P) \in Nat /\ Cardinality(Q) \in Nat
    BY <1>2, <1>3, FS_CardinalityType
  <1>5. Open(e, c)' => Open(e, c)
    BY DEF Open
  <1>6. Bill(e, c) \in Nat /\ Bill(e, c)' \in Nat /\ Bill(e, c)' <= Bill(e, c)
    BY <1>5 DEF Bill
  <1>7. /\ posted[<<e, c>>] \in Nat /\ TotalFaults \in Nat /\ TotalFaults' = TotalFaults
    BY DEF TypeOK, Pairs, TotalFaults, Kinds
  <1> QED
    BY <1>3, <1>4, <1>6, <1>7 DEF Within, P, Q

LEMMA TickWithin ==
    ASSUME TypeOK, TypeOK', Employed, Leases, Tick,
           NEW e \in Events, NEW c \in Channels, Within(e, c)
    PROVE  Within(e, c)'
  <1>1. ASSUME NEW q \in Runners PROVE Waits(q, e, c)' => Waits(q, e, c)
    BY TickRunner DEF Waits
  <1>2. /\ posted' = posted /\ faults' = faults
        /\ rec'[<<e, c>>].status = rec[<<e, c>>].status
        /\ rec[<<e, c>>].status = "sending" =>
             rec'[<<e, c>>].age = IF rec[<<e, c>>].age <= Window - 1
                                  THEN rec[<<e, c>>].age + 1 ELSE rec[<<e, c>>].age
    BY TickStep DEF Pairs
  <1>3. ASSUME rec[<<e, c>>].status = "sending", NEW q \in Runners, Owner(q, e, c)
        PROVE  Owner(q, e, c)'
    <2>1. run[q].phase # "idle" /\ Running(q) /\ At(q, e, c)
          /\ rec[<<e, c>>].age <= run[q].time /\ ~run[q].slow
      BY <1>3 DEF Owner, At, Busy, Firm
    <2>2. run'[q].time = run[q].time + 1 /\ ~run'[q].slow
      BY <2>1, TickRunner
    <2>3. rec[<<e, c>>].age \in Nat /\ run[q].time \in Nat
      BY DEF TypeOK, Pairs, DeliveryRecord, RunRecord
    <2>4. rec'[<<e, c>>].age <= run'[q].time
      BY <1>2, <1>3, <2>1, <2>2, <2>3
    <2>5. At(q, e, c)'
      BY <2>1, TickRunner DEF At, Busy
    <2>6. Firm(q)'
      BY <1>3, <2>1, TickRunner DEF Owner
    <2> QED
      BY <2>2, <2>4, <2>5, <2>6 DEF Owner
  <1> QED
    BY <1>1, <1>2, <1>3, NobodyNearer

LEMMA QuietWithin ==
    ASSUME TypeOK, TypeOK', \A q \in Runners : KeepsOn(q),
           UNCHANGED <<rec, posted, faults>>,
           NEW e \in Events, NEW c \in Channels, Within(e, c)
    PROVE  Within(e, c)'
  <1>1. ASSUME NEW q \in Runners
        PROVE  /\ Waits(q, e, c)' => Waits(q, e, c)
               /\ Owner(q, e, c) => Owner(q, e, c)'
    BY DEF KeepsOn, Waits, Owner, At, Busy
  <1> QED
    BY <1>1, NobodyNearer

LEMMA BudgetStep ==
    ASSUME TypeOK, TypeOK', Employed, Leases, Budget, [Next]_vars
    PROVE  Budget'
  <1> SUFFICES ASSUME NEW e \in Events, NEW c \in Channels PROVE Within(e, c)'
    BY DEF Budget
  <1>1. Within(e, c)
    BY DEF Budget
  <1>2. ASSUME NEW r \in Runners, Claim(r) PROVE Within(e, c)'
    BY <1>1, <1>2, ClaimWithin
  <1>3. ASSUME NEW r \in Runners, NEW d \in Channels, Begin(r, d) PROVE Within(e, c)'
    BY <1>1, <1>3, BeginWithin
  <1>4. ASSUME NEW r \in Runners, NEW o \in Outcomes, Post(r, o) PROVE Within(e, c)'
    BY <1>1, <1>4, PostWithin
  <1>5. ASSUME NEW r \in Runners, Record(r) PROVE Within(e, c)'
    BY <1>1, <1>5, RecordWithin
  <1>6. ASSUME NEW r \in Runners, Finish(r) PROVE Within(e, c)'
    BY <1>1, <1>6, FinishWithin
  <1>7. ASSUME NEW r \in Runners, Crash(r) \/ Suspend(r) \/ Resume(r) \/ LeaseLost(r) \/ Outlive(r)
        PROVE  Within(e, c)'
    BY <1>1, <1>7, LeaseWithin
  <1>8. CASE RequeueStaleJobs
    <2>1. UNCHANGED <<rec, posted, faults>>
      BY <1>8, RequeueStep
    <2> QED
      BY <1>1, <1>8, <2>1, RequeueRunner, QuietWithin
  <1>9. ASSUME NEW j \in Jobs, NEW f \in Events, Enqueue(j, f) PROVE Within(e, c)'
    <2>1. UNCHANGED <<rec, posted, faults>>
      BY <1>9, EnqueueStep
    <2>2. \A q \in Runners : KeepsOn(q)
      BY <1>9, EnqueueRunner
    <2> QED
      BY <1>1, <2>1, <2>2, QuietWithin
  <1>10. CASE UNCHANGED vars
    <2>1. UNCHANGED <<job, rec, run, posted, faults>>
      BY <1>10 DEF vars
    <2>2. \A q \in Runners : KeepsOn(q)
      BY <2>1, SameJobs
    <2> QED
      BY <1>1, <2>1, <2>2, QuietWithin
  <1>11. CASE Tick
    BY <1>1, <1>11, TickWithin
  <1> QED
    BY <1>2, <1>3, <1>4, <1>5, <1>6, <1>7, <1>8, <1>9, <1>10, <1>11 DEF Next, Dispatch

LEMMA InitBudget == Init => Leases /\ Budget
  <1> SUFFICES ASSUME Init PROVE Leases /\ Budget
    OBVIOUS
  <1>1. \A r \in Runners : run[r].phase = "idle"
    BY DEF Init, Idle
  <1>2. Leases
    BY <1>1 DEF Leases
  <1>3. ASSUME NEW e \in Events, NEW c \in Channels PROVE Within(e, c)
    <2>1. Pending(e, c) = {}
      BY <1>1 DEF Pending, Waits
    <2>2. Cardinality(Pending(e, c)) = 0
      BY <2>1, FS_EmptySet
    <2>3. posted[<<e, c>>] = 0 /\ TotalFaults = 0
      BY DEF Init, TotalFaults, Kinds
    <2>4. Bill(e, c) \in 0..1
      BY DEF Bill
    <2> QED
      BY <2>2, <2>3, <2>4 DEF Within
  <1> QED
    BY <1>2, <1>3 DEF Budget

(* Whatever crashes, fails, hangs or gets lost: beyond the first, each     *)
(* message an endpoint gets of an event is paid for by a fault of its own, *)
(* and while no attempt outlives the window a channel is asked no more     *)
(* than max_attempts times.  BeginNotificationDeliveryForTenant counts     *)
(* each attempt before its request and passes over the record of another's *)
(* attempt; only a record that is to be retried, or one whose owner may be *)
(* gone, is taken up.                                                      *)
THEOREM PostsStayBounded == Spec => []PostsBounded
  <1>1. Init => TypeOK /\ Employed /\ Leases /\ Budget
    BY InitType, InitBudget
  <1>2. TypeOK /\ Employed /\ TypeOK' /\ Leases /\ Budget /\ [Next]_vars => Leases' /\ Budget'
    BY LeasesStep, BudgetStep
  <1>3. Inv /\ TypeOK /\ Budget => PostsBounded
    <2> SUFFICES ASSUME Inv, Budget, NEW x \in Pairs
                 PROVE  /\ posted[x] <= 1 + TotalFaults
                        /\ Timely => posted[x] <= ChannelAttempts
      BY DEF PostsBounded, Pairs
    <2>1. PICK e \in Events, c \in Channels : x = <<e, c>>
      BY DEF Pairs
    <2>2. Within(e, c)
      BY DEF Budget
    <2>3. posted[x] \in Nat /\ TotalFaults \in Nat
      BY DEF Inv, TypeOK, TotalFaults, Kinds
    <2>4. IsFiniteSet(Pending(e, c))
      BY BoundsAssumption, FS_Subset DEF Pending
    <2>5. Cardinality(Pending(e, c)) \in Nat
      BY <2>4, FS_CardinalityType
    <2>6. Bill(e, c) \in Nat
      BY DEF Bill
    <2>7. posted[x] <= 1 + TotalFaults
      BY <2>1, <2>2, <2>3, <2>5, <2>6 DEF Within
    <2>8. Timely => posted[x] <= ChannelAttempts
      BY DEF Inv, Exclusive, Counted, Timely
    <2> QED
      BY <2>7, <2>8
  <1> QED
    BY <1>1, <1>2, <1>3, TypeCorrect, ExclusiveAlways, PTL DEF Spec
-----------------------------------------------------------------------------
(* What is left when the jobs of an event are over.                        *)

Calm == faults["error"] = 0 /\ Timely
Enough == Cardinality(Channels) * (ChannelAttempts - 1) + 1 + faults["crash"] <= JobAttempts

Works(r, j) == run[r].phase # "idle" /\ run[r].job = j
Orphan(j) == job[j].status = "running" /\ \A r \in Runners : ~Works(r, j)

(* A runner keeps its lease, alone. *)
Kept ==
    \A r \in Runners : run[r].phase # "idle" =>
        /\ Holds(r)
        /\ job[run[r].job].silent = 0
        /\ ~run[r].cancelled
        /\ \A q \in Runners : Works(q, run[r].job) => q = r

(* The runner will see to the channel, or its job will come back. *)
Minds(r, c) ==
    \/ c \in run[r].left
    \/ Busy(r) /\ run[r].channel = c
    \/ run[r].retry

Cares(j, c) ==
    \/ job[j].status = "queued"
    \/ Orphan(j)
    \/ \E r \in Runners : Works(r, j) /\ Minds(r, c)

(* Somebody cares for whatever is not settled. *)
CaredFor(e, c) == \E k \in Jobs : job[k].event = e /\ Cares(k, c)
Cared ==
    \A j \in Jobs, e \in Events, c \in Channels :
        job[j].status # "none" /\ job[j].event = e =>
            rec[<<e, c>>].status \in Terminal \/ CaredFor(e, c)

(* A record that is passed over for its freshness is in somebody's hands,  *)
(* or in those of a job whose runner died too lately for it to be back.    *)
InHands(e, c) ==
    \/ \E q \in Runners : At(q, e, c)
    \/ \E k \in Jobs : Orphan(k) /\ job[k].event = e /\ job[k].silent <= rec[<<e, c>>].age
Awaited ==
    \A e \in Events, c \in Channels :
        rec[<<e, c>>].status = "sending" /\ Fresh(e, c) => InHands(e, c)

(* A run that is not the first of a job is paid for by a crash, or by an   *)
(* attempt on a channel that is not its last, of which no other run made   *)
(* use.                                                                    *)
Tries == 1..(ChannelAttempts - 1)
Used(e) ==
    {p \in Channels \X Tries :
        rec[<<e, p[1]>>].status \in Terminal \/ p[2] <= rec[<<e, p[1]>>].attempts}
Free(r) == ~run[r].retry /\ ~(Busy(r) /\ run[r].attempt < ChannelAttempts)
Allowance(j) == IF \E r \in Runners : Works(r, j) /\ Free(r) THEN 1 ELSE 0
Accounted ==
    /\ \A j \in Jobs : job[j].status = "none" => job[j].attempts = 0
    /\ \A j \in Jobs, e \in Events :
         job[j].status \in {"queued", "running"} /\ job[j].event = e =>
             job[j].attempts <= faults["crash"] + Cardinality(Used(e)) + Allowance(j)

JobsInv == Calm => Kept /\ (Enough => Cared) /\ Awaited /\ Accounted

LEMMA UsedFacts ==
    /\ \A e : IsFiniteSet(Used(e)) /\ Cardinality(Used(e)) \in Nat
    /\ \A e : Cardinality(Used(e)) <= Cardinality(Channels) * (ChannelAttempts - 1)
    /\ Cardinality(Channels) \in Nat
    /\ IsFiniteSet(Channels \X Tries)
  <1>1. IsFiniteSet(Tries) /\ Cardinality(Tries) = ChannelAttempts - 1
    BY FS_Interval, BoundsAssumption DEF Tries
  <1>2. IsFiniteSet(Channels) /\ Cardinality(Channels) \in Nat
    BY BoundsAssumption, FS_CardinalityType
  <1>3. IsFiniteSet(Channels \X Tries) /\ Cardinality(Channels \X Tries) = Cardinality(Channels) * Cardinality(Tries)
    BY <1>1, <1>2, FS_Product
  <1>4. \A e : Used(e) \subseteq Channels \X Tries
    BY DEF Used
  <1>5. \A e : IsFiniteSet(Used(e)) /\ Cardinality(Used(e)) <= Cardinality(Channels \X Tries)
    BY <1>3, <1>4, FS_Subset
  <1>6. QED
    BY <1>1, <1>2, <1>3, <1>5, FS_CardinalityType

LEMMA UsedMore ==
    ASSUME NEW e, Used(e) \subseteq Used(e)'
    PROVE  /\ Cardinality(Used(e)) <= Cardinality(Used(e)')
           /\ Cardinality(Used(e)') \in Nat /\ Cardinality(Used(e)) \in Nat
           /\ \A p \in Used(e)' \ Used(e) : Cardinality(Used(e)) + 1 <= Cardinality(Used(e)')
  <1>1. IsFiniteSet(Used(e)) /\ Cardinality(Used(e)) \in Nat
    BY UsedFacts
  <1>2. IsFiniteSet(Used(e)') /\ Cardinality(Used(e)') \in Nat
    <2>1. Used(e)' \subseteq Channels \X Tries
      BY DEF Used
    <2>2. QED
      BY <2>1, UsedFacts, FS_Subset, FS_CardinalityType
  <1>3. Cardinality(Used(e)) <= Cardinality(Used(e)')
    BY <1>1, <1>2, FS_Subset
  <1>4. ASSUME NEW p \in Used(e)' \ Used(e)
        PROVE  Cardinality(Used(e)) + 1 <= Cardinality(Used(e)')
    <2>1. IsFiniteSet(Used(e) \cup {p}) /\ Cardinality(Used(e) \cup {p}) = Cardinality(Used(e)) + 1
      BY <1>1, FS_AddElement
    <2>2. Used(e) \cup {p} \subseteq Used(e)'
      OBVIOUS
    <2>3. Cardinality(Used(e) \cup {p}) <= Cardinality(Used(e)')
      BY <1>2, <2>2, FS_Subset
    <2>4. QED
      BY <2>1, <2>3
  <1>5. QED
    BY <1>1, <1>2, <1>3, <1>4

-----------------------------------------------------------------------------
(* A step of a calm behaviour. *)
CalmInv == Inv /\ Calm /\ Kept /\ Awaited /\ Accounted
CalmStep == CalmInv /\ Calm' /\ TypeOK' /\ Employed'

LEMMA CalmFacts ==
    ASSUME CalmStep
    PROVE  /\ Timely /\ ~Fault("error") /\ ~Fault("suspend") /\ ~Fault("slow")
           /\ \A r \in Runners : ~run[r].suspended
           /\ \A r \in Runners : ~(StoreFails(r) /\ run[r].phase # "idle")
           /\ Owns /\ Single
  <1>1. faults \in [Kinds -> Nat] /\ faults' \in [Kinds -> Nat]
    BY DEF CalmStep, CalmInv, Inv, TypeOK
  <1>2. Timely
    BY DEF CalmStep, CalmInv, Calm, Timely
  <1>3. ~Fault("error") /\ ~Fault("suspend") /\ ~Fault("slow")
    BY <1>1 DEF CalmStep, CalmInv, Calm, Timely, Fault, Kinds
  <1>4. \A r \in Runners : ~(StoreFails(r) /\ run[r].phase # "idle")
    BY <1>3 DEF CalmStep, CalmInv, Kept, StoreFails
  <1>5. QED
    BY <1>2, <1>3, <1>4 DEF CalmStep, CalmInv, Inv, Exclusive

(* Only runner r moves, and it stays at its job. *)
SameWork(r) ==
    /\ job' = job /\ faults'["crash"] = faults["crash"]
    /\ run[r].phase # "idle" /\ run'[r].phase # "idle"
    /\ \A q \in Runners \ {r} : run'[q] = run[q]
    /\ run'[r].job = run[r].job /\ run'[r].lease = run[r].lease
    /\ run'[r].cancelled = run[r].cancelled

LEMMA BeginFacts ==
    ASSUME CalmStep, NEW r \in Runners, NEW c \in Channels, Begin(r, c)
    PROVE  LET e == EventOf(r) IN
           /\ SameWork(r) /\ e \in Events /\ run[r].phase = "begin" /\ c \in run[r].left
           /\ rec'[<<e, c>>] = Decided(e, c)
           /\ \A x \in Pairs \ {<<e, c>>} : rec'[x] = rec[x]
           /\ run'[r].left = run[r].left \ {c} /\ run'[r].channel = c
           /\ run'[r].attempt = Decided(e, c).attempts /\ run'[r].retry = run[r].retry
           /\ run'[r].phase = IF Decision(e, c) = "send" THEN "send" ELSE "begin"
  <1> DEFINE e == EventOf(r)
             a == Decided(e, c).attempts
             p == IF Decision(e, c) = "send" THEN "send" ELSE "begin"
             w == [run[r] EXCEPT !.left = @ \ {c}, !.channel = c, !.time = 0, !.slow = FALSE, !.attempt = a, !.phase = p]
  <1>1. /\ run[r].phase = "begin" /\ c \in run[r].left /\ run[r] \in RunRecord /\ run \in [Runners -> RunRecord]
        /\ rec \in [Pairs -> DeliveryRecord] /\ e \in Events /\ job' = job
    BY WorkType DEF Begin, CalmStep, CalmInv, Inv, TypeOK
  <1>2. rec' = [rec EXCEPT ![<<e, c>>] = Decided(e, c)] /\ run' = [run EXCEPT ![r] = Asked(r, c)] /\ faults' = faults
    BY <1>1, CalmFacts DEF Begin
  <1>3. Asked(r, c) = w
    BY DEF Asked
  <1>4. p \in {"begin", "send"} /\ (Decision(e, c) = "send" <=> p = "send")
    OBVIOUS
  <1> HIDE DEF a, p
  <1>5. /\ w.left = run[r].left \ {c} /\ w.channel = c /\ w.attempt = a /\ w.phase = p /\ w.retry = run[r].retry
        /\ w.job = run[r].job /\ w.lease = run[r].lease /\ w.cancelled = run[r].cancelled
    BY <1>1 DEF RunRecord
  <1> HIDE DEF w
  <1>6. run'[r] = w /\ \A q \in Runners \ {r} : run'[q] = run[q]
    BY <1>1, <1>2, <1>3
  <1>7. rec'[<<e, c>>] = Decided(e, c) /\ \A x \in Pairs \ {<<e, c>>} : rec'[x] = rec[x]
    BY <1>1, <1>2 DEF Pairs
  <1>8. QED
    BY <1>1, <1>2, <1>4, <1>5, <1>6, <1>7 DEF SameWork, a, p

LEMMA PostFacts ==
    ASSUME CalmStep, NEW r \in Runners, NEW o \in Outcomes, Post(r, o)
    PROVE  /\ SameWork(r) /\ run[r].phase = "send" /\ run'[r].phase = "record" /\ rec' = rec
           /\ run'[r].left = run[r].left /\ run'[r].channel = run[r].channel
           /\ run'[r].attempt = run[r].attempt /\ run'[r].retry = run[r].retry
  <1> DEFINE w == [run[r] EXCEPT !.phase = "record", !.outcome = o]
  <1>1. /\ run[r].phase = "send" /\ run[r] \in RunRecord /\ run \in [Runners -> RunRecord]
        /\ job' = job /\ rec' = rec /\ faults \in [Kinds -> Nat]
    BY DEF Post, CalmStep, CalmInv, Inv, TypeOK
  <1>2. run' = [run EXCEPT ![r] = w]
    BY <1>1 DEF Post
  <1>3. /\ w.left = run[r].left /\ w.channel = run[r].channel /\ w.attempt = run[r].attempt /\ w.phase = "record"
        /\ w.retry = run[r].retry /\ w.job = run[r].job /\ w.lease = run[r].lease /\ w.cancelled = run[r].cancelled
    BY <1>1 DEF RunRecord
  <1> HIDE DEF w
  <1>4. run'[r] = w /\ \A q \in Runners \ {r} : run'[q] = run[q]
    BY <1>1, <1>2
  <1>5. faults'["crash"] = faults["crash"]
    BY <1>1 DEF Post, Fault, Kinds
  <1>6. QED
    BY <1>1, <1>3, <1>4, <1>5 DEF SameWork

LEMMA RecordFacts ==
    ASSUME CalmStep, NEW r \in Runners, Record(r)
    PROVE  LET x == <<EventOf(r), run[r].channel>> IN
           /\ SameWork(r) /\ x \in Pairs /\ run[r].phase = "record" /\ run'[r].phase = "begin"
           /\ rec'[x].status = StatusFor(r) /\ rec'[x].attempts = run[r].attempt
           /\ \A y \in Pairs \ {x} : rec'[y] = rec[y]
           /\ run'[r].left = run[r].left /\ run'[r].attempt = run[r].attempt
           /\ run'[r].retry = (run[r].retry \/ Retry(r))
  <1> DEFINE x == <<EventOf(r), run[r].channel>>
             t == Retry(r)
             w == [run[r] EXCEPT !.phase = "begin", !.channel = NoChannel, !.time = 0, !.slow = FALSE, !.retry = @ \/ t]
             d == [status |-> StatusFor(r), attempts |-> run[r].attempt, age |-> 0, sentAge |-> 0]
  <1>1. /\ run[r].phase = "record" /\ run[r] \in RunRecord /\ run \in [Runners -> RunRecord]
        /\ rec \in [Pairs -> DeliveryRecord] /\ x \in Pairs /\ job' = job
    BY AtType DEF Record, CalmStep, CalmInv, Inv, TypeOK, Busy
  <1>2. rec' = [rec EXCEPT ![x] = d] /\ run' = [run EXCEPT ![r] = w] /\ faults' = faults
    BY <1>1, CalmFacts DEF Record
  <1>3. d.status = StatusFor(r) /\ d.attempts = run[r].attempt
    OBVIOUS
  <1> HIDE DEF t
  <1>4. /\ w.left = run[r].left /\ w.attempt = run[r].attempt /\ w.phase = "begin" /\ w.retry = (run[r].retry \/ t)
        /\ w.job = run[r].job /\ w.lease = run[r].lease /\ w.cancelled = run[r].cancelled
    BY <1>1 DEF RunRecord
  <1> HIDE DEF w, d
  <1>5. run'[r] = w /\ \A q \in Runners \ {r} : run'[q] = run[q]
    BY <1>1, <1>2
  <1>6. rec'[x] = d /\ \A y \in Pairs \ {x} : rec'[y] = rec[y]
    BY <1>1, <1>2
  <1>7. QED
    BY <1>1, <1>2, <1>3, <1>4, <1>5, <1>6 DEF SameWork, t

LEMMA SameWorkFacts ==
    ASSUME CalmStep, NEW r \in Runners, SameWork(r)
    PROVE  /\ Kept'
           /\ \A q \in Runners : EventOf(q)' = EventOf(q) /\ (run'[q].phase # "idle" <=> run[q].phase # "idle")
           /\ \A q \in Runners, j \in Jobs : Works(q, j)' <=> Works(q, j)
           /\ \A j \in Jobs : Orphan(j)' <=> Orphan(j)
           /\ \A q \in Runners \ {r}, e \in Events, c \in Channels : At(q, e, c)' <=> At(q, e, c)
           /\ EventOf(r) \in Events /\ run[r].job \in Jobs /\ Works(r, run[r].job)
           /\ Enough' <=> Enough
  <1>1. \A q \in Runners : run'[q].job = run[q].job /\ run'[q].lease = run[q].lease
                           /\ run'[q].cancelled = run[q].cancelled /\ (run'[q].phase # "idle" <=> run[q].phase # "idle")
    BY DEF SameWork
  <1>2. \A q \in Runners : EventOf(q)' = EventOf(q)
    BY <1>1 DEF SameWork, EventOf
  <1>3. \A q \in Runners, j \in Jobs : Works(q, j)' <=> Works(q, j)
    BY <1>1 DEF Works
  <1>4. \A j \in Jobs : Orphan(j)' <=> Orphan(j)
    BY <1>3 DEF SameWork, Orphan
  <1>5. \A q \in Runners : run[q].phase # "idle" => run[q].job \in Jobs /\ Works(q, run[q].job)
    BY DEF CalmStep, CalmInv, Inv, Employed, Works
  <1>6. Kept'
    <2> SUFFICES ASSUME NEW q \in Runners, run'[q].phase # "idle"
                 PROVE  /\ Holds(q)'
                        /\ job'[run'[q].job].silent = 0
                        /\ ~run'[q].cancelled
                        /\ \A p \in Runners : Works(p, run[q].job)' => p = q
      BY <1>1 DEF Kept
    <2>1. Holds(q) /\ job[run[q].job].silent = 0 /\ ~run[q].cancelled
      BY <1>1 DEF CalmStep, CalmInv, Kept
    <2>2. Holds(q)' /\ job'[run'[q].job].silent = 0 /\ ~run'[q].cancelled
      BY <2>1, <1>1 DEF Holds, SameWork
    <2>3. \A p \in Runners : Works(p, run[q].job)' => p = q
      BY <1>1, <1>3, <1>5 DEF CalmStep, CalmInv, Kept
    <2>4. QED
      BY <2>2, <2>3
  <1>7. \A q \in Runners \ {r}, e \in Events, c \in Channels : At(q, e, c)' <=> At(q, e, c)
    BY <1>2 DEF SameWork, At, Busy
  <1>8. EventOf(r) \in Events
    BY WorkType DEF SameWork, CalmStep, CalmInv, Inv
  <1>9. QED
    BY <1>1, <1>2, <1>3, <1>4, <1>5, <1>6, <1>7, <1>8 DEF SameWork, Enough

(* Who cares goes on caring, or the moving runner has seen to the channel. *)
LEMMA CaresOn ==
    ASSUME CalmStep, NEW r \in Runners, SameWork(r), NEW k \in Jobs, NEW c \in Channels, Cares(k, c),
           Works(r, k) /\ Minds(r, c) => Minds(r, c)'
    PROVE  Cares(k, c)'
  <1>1. CASE job[k].status = "queued"
    BY <1>1 DEF Cares, SameWork
  <1>2. CASE Orphan(k)
    BY <1>2, SameWorkFacts DEF Cares
  <1>3. ASSUME NEW q \in Runners, Works(q, k), Minds(q, c) PROVE Cares(k, c)'
    <2>1. Works(q, k)'
      BY <1>3, SameWorkFacts
    <2>2. Minds(q, c)'
      BY <1>3 DEF SameWork, Minds, Busy
    <2>3. QED
      BY <2>1, <2>2 DEF Cares
  <1>4. QED
    BY <1>1, <1>2, <1>3 DEF Cares

LEMMA CaredOn ==
    ASSUME CalmStep, Enough => Cared, NEW r \in Runners, SameWork(r),
           \A x \in Pairs : rec[x].status \in Terminal => rec'[x].status \in Terminal,
           \A e \in Events, c \in Channels :
               EventOf(r) = e /\ Minds(r, c) => \/ Minds(r, c)'
                                               \/ rec'[<<e, c>>].status \in Terminal
                                               \/ CaredFor(e, c)'
    PROVE  Enough' => Cared'
  <1> SUFFICES ASSUME Enough, Cared, NEW j \in Jobs, NEW e \in Events, NEW c \in Channels,
                      job[j].status # "none", job[j].event = e
               PROVE  rec'[<<e, c>>].status \in Terminal \/ CaredFor(e, c)'
    BY SameWorkFacts DEF Cared, SameWork
  <1>1. rec[<<e, c>>].status \in Terminal \/ CaredFor(e, c)
    BY DEF Cared
  <1>2. CASE rec[<<e, c>>].status \in Terminal
    BY <1>2 DEF Pairs
  <1>3. ASSUME NEW k \in Jobs, job[k].event = e, Cares(k, c)
        PROVE  rec'[<<e, c>>].status \in Terminal \/ CaredFor(e, c)'
    <2>1. CASE Works(r, k) /\ Minds(r, c) => Minds(r, c)'
      <3>1. Cares(k, c)' /\ job'[k].event = e
        BY <1>3, <2>1, CaresOn DEF SameWork
      <3>2. QED
        BY <3>1 DEF CaredFor
    <2>2. CASE Works(r, k) /\ Minds(r, c) /\ ~Minds(r, c)'
      <3>1. EventOf(r) = e
        BY <1>3, <2>2 DEF Works, EventOf
      <3>2. QED
        BY <2>2, <3>1
    <2>3. QED
      BY <2>1, <2>2
  <1>4. QED
    BY <1>1, <1>2, <1>3 DEF CaredFor

LEMMA AccountedOn ==
    ASSUME CalmStep, NEW r \in Runners, SameWork(r),
           \A e \in Events : Used(e) \subseteq Used(e)',
           \A e \in Events : EventOf(r) = e /\ Free(r) =>
               Free(r)' \/ \E p \in Used(e)' : p \notin Used(e)
    PROVE  Accounted'
  <1>1. job' = job /\ \A j \in Jobs : job[j] \in JobRecord
    BY DEF SameWork, CalmStep, CalmInv, Inv, TypeOK
  <1>2. faults'["crash"] = faults["crash"] /\ faults["crash"] \in Nat
    BY DEF SameWork, CalmStep, CalmInv, Inv, TypeOK, Kinds
  <1>3. ASSUME NEW j \in Jobs, NEW e \in Events, job[j].status \in {"queued", "running"}, job[j].event = e
        PROVE  job[j].attempts <= faults["crash"] + Cardinality(Used(e)') + Allowance(j)'
    <2>1. Used(e) \subseteq Used(e)'
      OBVIOUS
    <2>2. /\ Cardinality(Used(e)) <= Cardinality(Used(e)')
          /\ Cardinality(Used(e)') \in Nat /\ Cardinality(Used(e)) \in Nat
          /\ \A p \in Used(e)' \ Used(e) : Cardinality(Used(e)) + 1 <= Cardinality(Used(e)')
      BY <2>1, UsedMore
    <2>3. job[j].attempts <= faults["crash"] + Cardinality(Used(e)) + Allowance(j) /\ job[j].attempts \in Nat
      BY <1>1, <1>3 DEF CalmStep, CalmInv, Accounted, JobRecord
    <2>4. Allowance(j) \in 0..1 /\ Allowance(j)' \in 0..1
      BY DEF Allowance
    <2>5. CASE Allowance(j) <= Allowance(j)'
      BY <1>2, <2>2, <2>3, <2>4, <2>5
    <2>6. CASE Allowance(j) = 1 /\ Allowance(j)' = 0
      <3>1. PICK q \in Runners : Works(q, j) /\ Free(q)
        BY <2>6 DEF Allowance
      <3>2. Works(q, j)' /\ ~Free(q)'
        BY <2>6, <3>1, SameWorkFacts DEF Allowance
      <3>3. q = r
        BY <3>1, <3>2 DEF SameWork, Free, Busy
      <3>4. EventOf(r) = e
        BY <1>3, <3>1, <3>3 DEF Works, EventOf
      <3>5. Cardinality(Used(e)) + 1 <= Cardinality(Used(e)')
        BY <2>2, <3>1, <3>2, <3>3, <3>4
      <3>6. QED
        BY <1>2, <2>2, <2>3, <2>6, <3>5
    <2>7. QED
      BY <2>4, <2>5, <2>6
  <1>4. QED
    BY <1>1, <1>2, <1>3 DEF Accounted, CalmStep, CalmInv

-----------------------------------------------------------------------------
(* What each step leaves *)

LEMMA BeginLeaves ==
    ASSUME CalmStep, Enough => Cared, NEW r \in Runners, NEW d \in Channels, Begin(r, d)
    PROVE  Kept' /\ (Enough' => Cared') /\ Awaited' /\ Accounted'
  <1> DEFINE a == EventOf(r)
             x == <<a, d>>
  <1>1. /\ SameWork(r) /\ a \in Events /\ run[r].phase = "begin" /\ d \in run[r].left
        /\ rec'[x] = Decided(a, d) /\ \A y \in Pairs \ {x} : rec'[y] = rec[y]
        /\ run'[r].left = run[r].left \ {d} /\ run'[r].channel = d
        /\ run'[r].attempt = Decided(a, d).attempts /\ run'[r].retry = run[r].retry
        /\ run'[r].phase = IF Decision(a, d) = "send" THEN "send" ELSE "begin"
    BY BeginFacts
  <1>2. x \in Pairs /\ rec[x] \in DeliveryRecord /\ rec'[x] \in DeliveryRecord /\ run[r].retry \in BOOLEAN
    BY <1>1 DEF Pairs, CalmStep, CalmInv, Inv, TypeOK, RunRecord
  <1>3. /\ Decision(a, d) \in {"skip", "exhausted", "suppressed", "send"}
        /\ Decision(a, d) = "skip" => rec'[x] = rec[x]
        /\ Decision(a, d) = "exhausted" => rec'[x].status = "failed" /\ rec'[x].attempts = rec[x].attempts
        /\ Decision(a, d) = "suppressed" => rec'[x].status = "suppressed"
        /\ Decision(a, d) = "send" => rec'[x].status = "sending" /\ rec'[x].attempts = rec[x].attempts + 1
    BY <1>1, DecidedType DEF CalmStep, CalmInv, Inv
  <1>4. /\ rec[x].status \in Terminal => Decision(a, d) = "skip"
        /\ Decision(a, d) = "skip" => rec[x].status \in Terminal \/ (rec[x].status = "sending" /\ Fresh(a, d))
    BY DEF Decision, Settled
  <1>5. ~Busy(r) /\ \A e \in Events, c \in Channels : ~At(r, e, c)
    BY <1>1 DEF Busy, At
  <1>6. Kept'
    BY <1>1, SameWorkFacts
  <1> HIDE DEF x
  <1>7. \A y \in Pairs : /\ rec[y].status \in Terminal => rec'[y].status \in Terminal
                         /\ rec'[y].attempts >= rec[y].attempts \/ rec'[y].status \in Terminal
    <2> SUFFICES ASSUME NEW y \in Pairs
                 PROVE  /\ rec[y].status \in Terminal => rec'[y].status \in Terminal
                        /\ rec'[y].attempts >= rec[y].attempts \/ rec'[y].status \in Terminal
      OBVIOUS
    <2>1. rec[y].attempts \in Nat
      BY DEF CalmStep, CalmInv, Inv, TypeOK, DeliveryRecord
    <2>2. QED
      BY <1>1, <1>3, <1>4, <2>1 DEF Terminal
  <1>8. ASSUME NEW e \in Events, NEW c \in Channels, EventOf(r) = e, Minds(r, c)
        PROVE  Minds(r, c)' \/ rec'[<<e, c>>].status \in Terminal \/ CaredFor(e, c)'
    <2>1. CASE run[r].retry \/ c # d
      BY <1>1, <1>5, <1>8, <2>1 DEF Minds
    <2>2. CASE c = d /\ Decision(a, d) = "send"
      BY <1>1, <2>2 DEF Minds, Busy
    <2>3. CASE c = d /\ Decision(a, d) \in {"exhausted", "suppressed"}
      BY <1>3, <1>8, <2>3 DEF Terminal, x
    <2>4. CASE c = d /\ Decision(a, d) = "skip"
      <3>1. CASE rec[x].status \in Terminal
        BY <1>2, <1>7, <1>8, <2>4, <3>1 DEF x
      <3>2. CASE rec[<<e, c>>].status = "sending" /\ Fresh(e, c)
        <4>1. InHands(e, c)
          BY <3>2 DEF CalmStep, CalmInv, Awaited
        <4>2. ASSUME NEW q \in Runners, At(q, e, c) PROVE CaredFor(e, c)'
          <5>1. q # r
            BY <1>5, <4>2
          <5>2. At(q, e, c)' /\ run[q].job \in Jobs /\ Works(q, run[q].job)
            BY <1>1, <4>2, <5>1, SameWorkFacts DEF At, Busy, Works, CalmStep, CalmInv, Inv, Employed
          <5>3. PICK k \in Jobs : Works(q, k) /\ job[k].event = e
            BY <4>2, <5>2 DEF At, EventOf
          <5>4. Works(q, k)' /\ Minds(q, c)' /\ job'[k].event = e
            BY <1>1, <5>2, <5>3, SameWorkFacts DEF At, Minds, SameWork
          <5>5. QED
            BY <5>4 DEF CaredFor, Cares
        <4>3. ASSUME NEW k \in Jobs, Orphan(k), job[k].event = e PROVE CaredFor(e, c)'
          <5>1. Orphan(k)' /\ job'[k].event = e
            BY <1>1, <4>3, SameWorkFacts DEF SameWork
          <5>2. QED
            BY <5>1 DEF CaredFor, Cares
        <4>4. QED
          BY <4>1, <4>2, <4>3 DEF InHands
      <3>3. QED
        BY <1>4, <1>8, <2>4, <3>1, <3>2 DEF x
    <2>5. QED
      BY <1>3, <2>1, <2>2, <2>3, <2>4
  <1>9. Enough' => Cared'
    BY <1>1, <1>7, <1>8, CaredOn
  <1>10. Awaited'
    <2> SUFFICES ASSUME NEW e \in Events, NEW c \in Channels, rec'[<<e, c>>].status = "sending", Fresh(e, c)'
                 PROVE  InHands(e, c)'
      BY DEF Awaited
    <2>1. CASE rec'[<<e, c>>] = rec[<<e, c>>]
      <3>1. InHands(e, c)
        BY <2>1 DEF CalmStep, CalmInv, Awaited, Fresh
      <3>2. \A q \in Runners : At(q, e, c) => At(q, e, c)'
        BY <1>1, <1>5, SameWorkFacts
      <3>3. \A k \in Jobs : Orphan(k) => Orphan(k)' /\ job'[k] = job[k]
        BY <1>1, SameWorkFacts DEF SameWork
      <3>4. QED
        BY <2>1, <3>1, <3>2, <3>3 DEF InHands
    <2>2. CASE <<e, c>> = x /\ Decision(a, d) = "send"
      <3>1. e = a /\ c = d
        BY <2>2 DEF x
      <3>2. At(r, e, c)'
        BY <1>1, <2>2, <3>1, SameWorkFacts DEF At, Busy
      <3>3. QED
        BY <3>2 DEF InHands
    <2>3. CASE <<e, c>> = x /\ Decision(a, d) \in {"exhausted", "suppressed"}
      BY <1>3, <2>3
    <2>4. QED
      BY <1>1, <1>3, <2>1, <2>2, <2>3 DEF Pairs
  <1>11. Accounted'
    <2>1. \A e \in Events : Used(e) \subseteq Used(e)'
      <3> SUFFICES ASSUME NEW e \in Events, NEW c \in Channels, NEW n \in Tries,
                          rec[<<e, c>>].status \in Terminal \/ n <= rec[<<e, c>>].attempts
                   PROVE  rec'[<<e, c>>].status \in Terminal \/ n <= rec'[<<e, c>>].attempts
        BY DEF Used
      <3>1. <<e, c>> \in Pairs /\ n \in Nat
        BY BoundsAssumption DEF Pairs, Tries
      <3>2. rec[<<e, c>>].attempts \in Nat /\ rec'[<<e, c>>].attempts \in Nat
        BY <3>1 DEF CalmStep, CalmInv, Inv, TypeOK, DeliveryRecord
      <3>3. QED
        BY <1>7, <3>1, <3>2
    <2>2. ASSUME NEW e \in Events, EventOf(r) = e, Free(r)
          PROVE  Free(r)' \/ \E p \in Used(e)' : p \notin Used(e)
      <3>1. ~run[r].retry
        BY <2>2 DEF Free
      <3>2. CASE Decision(a, d) # "send" \/ ~(run'[r].attempt < ChannelAttempts)
        BY <1>1, <3>1, <3>2 DEF Free, Busy
      <3>3. CASE Decision(a, d) = "send" /\ run'[r].attempt < ChannelAttempts
        <4> DEFINE n == rec[x].attempts + 1
                   p == <<d, n>>
        <4>1. n = run'[r].attempt /\ rec[x].attempts \in Nat
          BY <1>1, <1>2, <1>3, <3>3 DEF DeliveryRecord
        <4>2. n \in Tries
          BY <3>3, <4>1, BoundsAssumption DEF Tries
        <4>3. p \in Used(e)'
          BY <1>3, <2>2, <3>3, <4>1, <4>2 DEF Used, x
        <4>4. p \notin Used(e)
          BY <1>4, <2>2, <3>3, <4>1 DEF Used, x
        <4>5. QED
          BY <4>3, <4>4
      <3>4. QED
        BY <3>2, <3>3
    <2>3. QED
      BY <1>1, <2>1, <2>2, AccountedOn
  <1>12. QED
    BY <1>6, <1>9, <1>10, <1>11

LEMMA PostLeaves ==
    ASSUME CalmStep, Enough => Cared, NEW r \in Runners, NEW o \in Outcomes, Post(r, o)
    PROVE  Kept' /\ (Enough' => Cared') /\ Awaited' /\ Accounted'
  <1>1. /\ SameWork(r) /\ run[r].phase = "send" /\ run'[r].phase = "record" /\ rec' = rec
        /\ run'[r].left = run[r].left /\ run'[r].channel = run[r].channel
        /\ run'[r].attempt = run[r].attempt /\ run'[r].retry = run[r].retry
    BY PostFacts
  <1>2. Kept'
    BY <1>1, SameWorkFacts
  <1>3. \A c \in Channels : Minds(r, c) => Minds(r, c)'
    BY <1>1 DEF Minds, Busy
  <1>4. Enough' => Cared'
    BY <1>1, <1>3, CaredOn
  <1>5. \A q \in Runners, e \in Events, c \in Channels : At(q, e, c) => At(q, e, c)'
    BY <1>1, SameWorkFacts DEF At, Busy
  <1>6. \A k \in Jobs : Orphan(k) => Orphan(k)'
    BY <1>1, SameWorkFacts
  <1>7. Awaited'
    BY <1>1, <1>5, <1>6 DEF CalmStep, CalmInv, Awaited, Fresh, InHands, SameWork
  <1>8. \A e \in Events : Used(e) \subseteq Used(e)'
    BY <1>1 DEF Used
  <1>9. Free(r) => Free(r)'
    BY <1>1 DEF Free, Busy
  <1>10. Accounted'
    BY <1>1, <1>8, <1>9, AccountedOn
  <1>11. QED
    BY <1>2, <1>4, <1>7, <1>10

LEMMA RecordLeaves ==
    ASSUME CalmStep, Enough => Cared, NEW r \in Runners, Record(r)
    PROVE  Kept' /\ (Enough' => Cared') /\ Awaited' /\ Accounted'
  <1> DEFINE x == <<EventOf(r), run[r].channel>>
  <1>1. /\ SameWork(r) /\ x \in Pairs /\ run[r].phase = "record" /\ run'[r].phase = "begin"
        /\ rec'[x].status = StatusFor(r) /\ rec'[x].attempts = run[r].attempt
        /\ \A y \in Pairs \ {x} : rec'[y] = rec[y]
        /\ run'[r].left = run[r].left /\ run'[r].attempt = run[r].attempt
        /\ run'[r].retry = (run[r].retry \/ Retry(r))
    BY RecordFacts
  <1>2. run[r].outcome \in Outcomes /\ run[r].retry \in BOOLEAN /\ Retry(r) \in BOOLEAN /\ run[r].attempt \in Nat
    BY DEF CalmStep, CalmInv, Inv, TypeOK, RunRecord, Retry
  <1>3. /\ StatusFor(r) \in Terminal \cup {"retrying"}
        /\ StatusFor(r) = "retrying" => Retry(r)
        /\ ~(run[r].attempt < ChannelAttempts) => ~Retry(r)
    BY <1>2, BoundsAssumption DEF StatusFor, Retry, GivenUp, Terminal, Outcomes
  <1>4. rec[x].status = "sending" /\ rec[x].attempts = run[r].attempt
    BY <1>1, CalmFacts DEF Owns, Busy
  <1>5. \A y \in Pairs : /\ rec[y].status \in Terminal => rec'[y].status \in Terminal
                         /\ rec'[y].attempts = rec[y].attempts
                         /\ rec'[y].status = "sending" => y # x /\ rec'[y] = rec[y]
    BY <1>1, <1>3, <1>4 DEF Terminal
  <1>6. Kept'
    BY <1>1, SameWorkFacts
  <1>7. ASSUME NEW e \in Events, NEW c \in Channels, EventOf(r) = e, Minds(r, c)
        PROVE  Minds(r, c)' \/ rec'[<<e, c>>].status \in Terminal \/ CaredFor(e, c)'
    <2>1. CASE run[r].retry \/ c \in run[r].left
      BY <1>1, <1>2, <2>1 DEF Minds
    <2>2. CASE run[r].channel = c
      <3>1. CASE StatusFor(r) \in Terminal
        BY <1>1, <1>7, <2>2, <3>1
      <3>2. CASE Retry(r)
        BY <1>1, <1>2, <3>2 DEF Minds
      <3>3. QED
        BY <1>3, <3>1, <3>2
    <2>3. QED
      BY <1>7, <2>1, <2>2 DEF Minds
  <1>8. Enough' => Cared'
    BY <1>1, <1>5, <1>7, CaredOn
  <1>9. Awaited'
    <2> SUFFICES ASSUME NEW e \in Events, NEW c \in Channels, rec'[<<e, c>>].status = "sending", Fresh(e, c)'
                 PROVE  InHands(e, c)'
      BY DEF Awaited
    <2>1. <<e, c>> # x /\ rec'[<<e, c>>] = rec[<<e, c>>]
      BY <1>5 DEF Pairs
    <2>2. InHands(e, c)
      BY <2>1 DEF CalmStep, CalmInv, Awaited, Fresh
    <2>3. \A q \in Runners : At(q, e, c) => q # r
      BY <2>1 DEF At
    <2>4. \A q \in Runners : At(q, e, c) => At(q, e, c)'
      BY <1>1, <2>3, SameWorkFacts
    <2>5. \A k \in Jobs : Orphan(k) => Orphan(k)' /\ job'[k] = job[k]
      BY <1>1, SameWorkFacts DEF SameWork
    <2>6. QED
      BY <2>1, <2>2, <2>4, <2>5 DEF InHands
  <1>10. \A e \in Events : Used(e) \subseteq Used(e)'
    BY <1>5 DEF Used, Pairs
  <1>11. Free(r) => Free(r)'
    BY <1>1, <1>2, <1>3 DEF Free, Busy
  <1>12. Accounted'
    BY <1>1, <1>10, <1>11, AccountedOn
  <1>13. QED
    BY <1>6, <1>8, <1>9, <1>12

(* The channels and their attempts are as before. *)
LEMMA UsedAlike ==
    ASSUME \A x \in Pairs : rec'[x].status = rec[x].status /\ rec'[x].attempts = rec[x].attempts,
           NEW e \in Events
    PROVE  Used(e)' = Used(e) /\ Cardinality(Used(e))' = Cardinality(Used(e)) /\ Cardinality(Used(e)) \in Nat
  <1>1. Used(e)' = Used(e)
    BY DEF Used, Pairs
  <1>2. QED
    BY <1>1, UsedFacts

LEMMA EnqueueLeaves ==
    ASSUME CalmStep, Enough => Cared, NEW i \in Jobs, NEW f \in Events, Enqueue(i, f)
    PROVE  Kept' /\ (Enough' => Cared') /\ Awaited' /\ Accounted'
  <1> DEFINE w == [job[i] EXCEPT !.status = "queued", !.event = f]
  <1>1. /\ job[i].status = "none" /\ job[i] \in JobRecord /\ job \in [Jobs -> JobRecord]
        /\ rec' = rec /\ run' = run /\ faults' = faults
    BY DEF Enqueue, CalmStep, CalmInv, Inv, TypeOK
  <1>2. job' = [job EXCEPT ![i] = w]
    BY DEF Enqueue
  <1>3. w.status = "queued" /\ w.event = f /\ w.attempts = job[i].attempts
    BY <1>1 DEF JobRecord
  <1> HIDE DEF w
  <1>4. /\ \A k \in Jobs \ {i} : job'[k] = job[k]
        /\ job'[i].status = "queued" /\ job'[i].event = f /\ job'[i].attempts = 0
    BY <1>1, <1>2, <1>3 DEF CalmStep, CalmInv, Accounted
  <1>5. \A q \in Runners : run[q].phase # "idle" => run[q].job \in Jobs /\ run[q].job # i
    BY <1>1 DEF CalmStep, CalmInv, Inv, Employed
  <1>6. \A q \in Runners, k \in Jobs : Works(q, k)' <=> Works(q, k)
    BY <1>1 DEF Works
  <1>7. \A k \in Jobs : Orphan(k) => Orphan(k)' /\ job'[k] = job[k]
    BY <1>1, <1>4, <1>6 DEF Orphan
  <1>8. Kept'
    BY <1>1, <1>4, <1>5, <1>6 DEF CalmStep, CalmInv, Kept, Holds
  <1>9. ASSUME NEW k \in Jobs, NEW c \in Channels, Cares(k, c)
        PROVE  Cares(k, c)' /\ job'[k] = job[k]
    <2>1. k # i
      BY <1>1, <1>5, <1>9 DEF Cares, Orphan, Works
    <2>2. QED
      BY <1>1, <1>4, <1>6, <1>7, <1>9, <2>1 DEF Cares, Minds, Busy
  <1>10. Enough' => Cared'
    <2> SUFFICES ASSUME Cared, NEW j \in Jobs, NEW e \in Events, NEW c \in Channels,
                        job'[j].status # "none", job'[j].event = e
                 PROVE  rec[<<e, c>>].status \in Terminal \/ CaredFor(e, c)'
      BY <1>1 DEF Enough, Cared
    <2>1. CASE j = i
      BY <1>4, <2>1 DEF CaredFor, Cares
    <2>2. CASE j # i
      BY <1>4, <1>9, <2>2 DEF CaredFor, Cared
    <2>3. QED
      BY <2>1, <2>2
  <1>11. \A q \in Runners, e \in Events, c \in Channels : At(q, e, c) => At(q, e, c)'
    BY <1>1, <1>4, <1>5 DEF At, Busy, EventOf
  <1>12. Awaited'
    BY <1>1, <1>7, <1>11 DEF CalmStep, CalmInv, Awaited, Fresh, InHands
  <1>13. Accounted'
    <2>1. \A j \in Jobs : Allowance(j)' = Allowance(j) /\ Allowance(j) \in 0..1
      BY <1>1, <1>6 DEF Allowance, Free, Busy
    <2>2. \A j \in Jobs : job'[j].status = "none" => job'[j].attempts = 0
      BY <1>4 DEF CalmStep, CalmInv, Accounted
    <2>3. ASSUME NEW j \in Jobs, NEW e \in Events, job'[j].status \in {"queued", "running"}, job'[j].event = e
          PROVE  job'[j].attempts <= faults'["crash"] + Cardinality(Used(e))' + Allowance(j)'
      <3>1. Cardinality(Used(e))' = Cardinality(Used(e)) /\ Cardinality(Used(e)) \in Nat
        BY <1>1, UsedAlike
      <3>2. faults'["crash"] = faults["crash"] /\ faults["crash"] \in Nat
        BY <1>1 DEF CalmStep, CalmInv, Inv, TypeOK, Kinds
      <3>3. CASE j = i
        BY <1>4, <2>1, <3>1, <3>2, <3>3
      <3>4. CASE j # i
        BY <1>4, <2>1, <2>3, <3>1, <3>2, <3>4 DEF CalmStep, CalmInv, Accounted
      <3>5. QED
        BY <3>3, <3>4
    <2>4. QED
      BY <2>2, <2>3 DEF Accounted
  <1>14. QED
    BY <1>8, <1>10, <1>12, <1>13

LEMMA ClaimLeaves ==
    ASSUME CalmStep, Enough => Cared, NEW r \in Runners, Claim(r)
    PROVE  Kept' /\ (Enough' => Cared') /\ Awaited' /\ Accounted'
  <1>1. PICK i \in Jobs :
          /\ job[i].status = "queued"
          /\ job' = [job EXCEPT ![i].status = "running", ![i].silent = 0,
                                ![i].attempts = @ + 1]
          /\ run' = [run EXCEPT ![r] = [Idle EXCEPT
                        !.phase = "begin", !.job = i,
                        !.lease = job[i].attempts + 1, !.left = Channels]]
    BY DEF Claim
  <1> DEFINE n == job[i].attempts + 1
             w == [Idle EXCEPT !.phase = "begin", !.job = i, !.lease = n, !.left = Channels]
             d == [job[i] EXCEPT !.status = "running", !.silent = 0, !.attempts = n]
  <1>2. /\ job[i] \in JobRecord /\ job \in [Jobs -> JobRecord] /\ run \in [Runners -> RunRecord]
        /\ rec' = rec /\ faults' = faults /\ run[r].phase = "idle" /\ job[i].attempts \in Nat
    BY DEF Claim, CalmStep, CalmInv, Inv, TypeOK, JobRecord
  <1>3. /\ job' = [job EXCEPT ![i] = d]
        /\ run' = [run EXCEPT ![r] = w]
        /\ n \in Nat /\ n = job[i].attempts + 1
    <2>1. job' = [job EXCEPT ![i] = d]
      BY <1>1
    <2>2. run' = [run EXCEPT ![r] = w]
      BY <1>1
    <2>3. QED
      BY <1>2, <2>1, <2>2
  <1> HIDE DEF n
  <1>4. /\ w.phase = "begin" /\ w.job = i /\ w.lease = n /\ w.left = Channels /\ ~w.retry /\ ~w.cancelled
        /\ d.status = "running" /\ d.silent = 0 /\ d.attempts = n /\ d.event = job[i].event
    BY <1>2 DEF Idle, JobRecord
  <1> HIDE DEF w, d
  <1>5. /\ \A k \in Jobs \ {i} : job'[k] = job[k]
        /\ \A q \in Runners \ {r} : run'[q] = run[q]
        /\ run'[r].phase = "begin" /\ run'[r].job = i /\ run'[r].lease = n /\ run'[r].left = Channels
        /\ ~run'[r].retry /\ ~run'[r].cancelled
        /\ job'[i].status = "running" /\ job'[i].silent = 0 /\ job'[i].attempts = n /\ job'[i].event = job[i].event
    BY <1>2, <1>3, <1>4
  <1>6. \A q \in Runners : run[q].phase # "idle" => q # r /\ run[q].job \in Jobs /\ run[q].job # i
    BY <1>1, <1>2 DEF CalmStep, CalmInv, Inv, Employed, Kept, Holds
  <1>7. /\ \A q \in Runners, k \in Jobs : Works(q, k)' <=> Works(q, k) \/ (q = r /\ k = i)
        /\ \A q \in Runners, k \in Jobs : Works(q, k) => q # r /\ k # i
    BY <1>2, <1>5, <1>6 DEF Works
  <1>8. \A k \in Jobs : Orphan(k) => Orphan(k)' /\ job'[k] = job[k]
    BY <1>1, <1>5, <1>7 DEF Orphan
  <1>9. Kept'
    <2> SUFFICES ASSUME NEW q \in Runners, run'[q].phase # "idle"
                 PROVE  /\ Holds(q)'
                        /\ job'[run'[q].job].silent = 0
                        /\ ~run'[q].cancelled
                        /\ \A p \in Runners : run'[p].phase # "idle" /\ run'[p].job = run'[q].job => p = q
      BY DEF Kept, Works
    <2>1. CASE q = r
      BY <1>5, <1>6, <2>1 DEF Holds, Works
    <2>2. CASE q # r
      BY <1>5, <1>6, <2>2 DEF CalmStep, CalmInv, Kept, Holds, Works
    <2>3. QED
      BY <2>1, <2>2
  <1>10. ASSUME NEW k \in Jobs, NEW c \in Channels, Cares(k, c)
         PROVE  Cares(k, c)'
    <2>1. CASE k = i
      <3>1. Works(r, i)' /\ Minds(r, c)'
        BY <1>5, <1>7 DEF Minds
      <3>2. QED
        BY <2>1, <3>1 DEF Cares
    <2>2. CASE k # i
      BY <1>5, <1>7, <1>8, <1>10, <2>2 DEF Cares, Minds, Busy
    <2>3. QED
      BY <2>1, <2>2
  <1>11. \A k \in Jobs : job'[k].event = job[k].event /\ (job'[k].status = "none" <=> job[k].status = "none")
    BY <1>1, <1>5
  <1>12. Enough' => Cared'
    BY <1>2, <1>10, <1>11 DEF Enough, Cared, CaredFor
  <1>13. \A q \in Runners, e \in Events, c \in Channels : At(q, e, c) => At(q, e, c)'
    BY <1>5, <1>6 DEF At, Busy, EventOf
  <1>14. Awaited'
    BY <1>2, <1>8, <1>13 DEF CalmStep, CalmInv, Awaited, Fresh, InHands
  <1>15. Accounted'
    <2>1. /\ \A j \in Jobs : Allowance(j) \in 0..1
          /\ \A j \in Jobs \ {i} : Allowance(j)' = Allowance(j)
          /\ Allowance(i) = 0
      BY <1>5, <1>7 DEF Allowance, Free, Busy
    <2>2. Allowance(i)' = 1
      BY <1>5, <1>7 DEF Allowance, Free, Busy
    <2>3. \A j \in Jobs : job'[j].status = "none" => job'[j].attempts = 0
      BY <1>5 DEF CalmStep, CalmInv, Accounted
    <2>4. ASSUME NEW j \in Jobs, NEW e \in Events, job'[j].status \in {"queued", "running"}, job'[j].event = e
          PROVE  job'[j].attempts <= faults'["crash"] + Cardinality(Used(e))' + Allowance(j)'
      <3>1. Cardinality(Used(e))' = Cardinality(Used(e)) /\ Cardinality(Used(e)) \in Nat
        BY <1>2, UsedAlike
      <3>2. faults'["crash"] = faults["crash"] /\ faults["crash"] \in Nat
        BY <1>2 DEF CalmStep, CalmInv, Inv, TypeOK, Kinds
      <3>3. CASE j = i
        <4>1. job[i].attempts <= faults["crash"] + Cardinality(Used(e)) + Allowance(i)
          BY <1>1, <1>5, <2>4, <3>3 DEF CalmStep, CalmInv, Accounted
        <4>2. QED
          BY <1>2, <1>3, <1>5, <2>1, <2>2, <3>1, <3>2, <3>3, <4>1
      <3>4. CASE j # i
        BY <1>5, <2>1, <2>4, <3>1, <3>2, <3>4 DEF CalmStep, CalmInv, Accounted
      <3>5. QED
        BY <3>3, <3>4
    <2>5. QED
      BY <2>3, <2>4 DEF Accounted
  <1>16. QED
    BY <1>9, <1>12, <1>14, <1>15

(* A job that is to be retried comes back: its attempts are paid for by    *)
(* crashes and attempts on channels, of which there are not that many.     *)
LEMMA FinishLeaves ==
    ASSUME CalmStep, Enough => Cared, NEW r \in Runners, Finish(r)
    PROVE  Kept' /\ (Enough' => Cared') /\ Awaited' /\ Accounted'
  <1> DEFINE i == run[r].job
             d == Ended(i, run[r].retry)
  <1>1. /\ run[r].phase = "begin" /\ run[r].left = {} /\ rec' = rec /\ run' = [run EXCEPT ![r] = Idle]
        /\ run \in [Runners -> RunRecord] /\ job \in [Jobs -> JobRecord] /\ i \in Jobs /\ run[r].retry \in BOOLEAN
    BY DEF Finish, CalmStep, CalmInv, Inv, TypeOK, Employed, RunRecord
  <1>2. Holds(r) /\ job[i].status = "running" /\ \A q \in Runners : Works(q, i) => q = r
    BY <1>1 DEF CalmStep, CalmInv, Kept, Holds
  <1>3. job' = [job EXCEPT ![i] = d] /\ faults' = faults
    BY <1>2, CalmFacts DEF Finish
  <1>4. /\ d.event = job[i].event /\ d.attempts = job[i].attempts
        /\ d.status = IF ~run[r].retry THEN "done" ELSE IF job[i].attempts >= JobAttempts THEN "failed" ELSE "queued"
    BY <1>1 DEF Ended, JobRecord
  <1> HIDE DEF i, d
  <1>5. /\ \A k \in Jobs \ {i} : job'[k] = job[k]
        /\ job'[i] = d
        /\ \A q \in Runners \ {r} : run'[q] = run[q]
        /\ run'[r].phase = "idle"
    BY <1>1, <1>3 DEF Idle
  <1>6. \A q \in Runners \ {r} : run[q].phase # "idle" => run[q].job \in Jobs /\ run[q].job # i
    BY <1>2 DEF CalmStep, CalmInv, Inv, Employed, Works
  <1>7. /\ Works(r, i) /\ \A q \in Runners, k \in Jobs : Works(q, k)' <=> Works(q, k) /\ q # r
        /\ \A k \in Jobs : Works(r, k) => k = i
    BY <1>1, <1>5 DEF Works, i
  <1>8. \A k \in Jobs : Orphan(k) => k # i /\ Orphan(k)' /\ job'[k] = job[k]
    BY <1>5, <1>7 DEF Orphan
  <1>9. Kept'
    BY <1>5, <1>6 DEF CalmStep, CalmInv, Kept, Holds, Works
  <1>10. \A j \in Jobs : Allowance(j) \in 0..1 /\ Allowance(j)' \in 0..1 /\ (j # i => Allowance(j)' = Allowance(j))
    <2>1. \A j \in Jobs : Allowance(j) \in 0..1 /\ Allowance(j)' \in 0..1
      BY DEF Allowance
    <2>2. ASSUME NEW j \in Jobs, j # i PROVE Allowance(j)' = Allowance(j)
      BY <1>5, <1>7, <2>2 DEF Allowance, Free, Busy
    <2>3. QED
      BY <2>1, <2>2
  <1>11. run[r].retry => Allowance(i) = 0
    BY <1>2 DEF Allowance, Free
  <1>12. faults["crash"] \in Nat /\ JobAttempts \in Nat /\ job[i].attempts \in Nat
    BY <1>1, BoundsAssumption DEF CalmStep, CalmInv, Inv, TypeOK, Kinds, JobRecord
  <1>13. ASSUME Enough, run[r].retry PROVE job'[i].status = "queued"
    <2>1. PICK e \in Events : job[i].event = e
      BY <1>1, <1>2 DEF CalmStep, CalmInv, Inv, Employed, i
    <2>2. job[i].attempts <= faults["crash"] + Cardinality(Used(e)) + 0
      BY <1>1, <1>2, <1>11, <1>13, <2>1 DEF CalmStep, CalmInv, Accounted, i
    <2> DEFINE m == Cardinality(Channels) * (ChannelAttempts - 1)
    <2>3. Cardinality(Used(e)) <= m /\ Cardinality(Used(e)) \in Nat /\ Cardinality(Channels) \in Nat
      BY UsedFacts
    <2>4. m + 1 + faults["crash"] <= JobAttempts
      BY <1>13 DEF Enough
    <2>5. m \in Int
      BY <2>3, BoundsAssumption
    <2> HIDE DEF m
    <2>6. ~(job[i].attempts >= JobAttempts)
      BY <1>12, <2>2, <2>3, <2>4, <2>5
    <2>7. QED
      BY <1>4, <1>5, <1>13, <2>6
  <1>14. ASSUME Enough, NEW k \in Jobs, NEW c \in Channels, Cares(k, c)
         PROVE  Cares(k, c)'
    <2>1. CASE k = i
      <3>1. run[r].retry
        BY <1>1, <1>2, <1>7, <1>14, <2>1 DEF Cares, Orphan, Minds, Busy
      <3>2. QED
        BY <1>13, <1>14, <2>1, <3>1 DEF Cares
    <2>2. CASE k # i
      BY <1>5, <1>7, <1>8, <1>14, <2>2 DEF Cares, Minds, Busy
    <2>3. QED
      BY <2>1, <2>2
  <1>15. \A k \in Jobs : job'[k].event = job[k].event /\ (job'[k].status = "none" <=> job[k].status = "none")
    BY <1>2, <1>4, <1>5
  <1>16. Enough' => Cared'
    BY <1>1, <1>3, <1>14, <1>15 DEF Enough, Cared, CaredFor
  <1>17. \A q \in Runners, e \in Events, c \in Channels : At(q, e, c) => At(q, e, c)'
    BY <1>1, <1>5, <1>6 DEF At, Busy, EventOf
  <1>18. Awaited'
    BY <1>1, <1>8, <1>17 DEF CalmStep, CalmInv, Awaited, Fresh, InHands
  <1>19. Accounted'
    <2>1. \A j \in Jobs : job'[j].status = "none" => job'[j].attempts = 0
      BY <1>4, <1>5, <1>15 DEF CalmStep, CalmInv, Accounted
    <2>2. ASSUME NEW j \in Jobs, NEW e \in Events, job'[j].status \in {"queued", "running"}, job'[j].event = e
          PROVE  job'[j].attempts <= faults'["crash"] + Cardinality(Used(e))' + Allowance(j)'
      <3>1. Cardinality(Used(e))' = Cardinality(Used(e)) /\ Cardinality(Used(e)) \in Nat
        BY <1>1, UsedAlike
      <3>2. CASE j = i
        <4>1. run[r].retry
          BY <1>4, <1>5, <2>2, <3>2
        <4>2. job[i].attempts <= faults["crash"] + Cardinality(Used(e)) + 0
          BY <1>1, <1>2, <1>11, <1>15, <2>2, <3>2, <4>1 DEF CalmStep, CalmInv, Accounted
        <4>3. QED
          BY <1>3, <1>4, <1>5, <1>10, <1>12, <3>1, <3>2, <4>2
      <3>3. CASE j # i
        BY <1>3, <1>5, <1>10, <2>2, <3>1, <3>3 DEF CalmStep, CalmInv, Accounted
      <3>4. QED
        BY <3>2, <3>3
    <2>3. QED
      BY <2>1, <2>2 DEF Accounted
  <1>20. QED
    BY <1>9, <1>16, <1>18, <1>19

(* The job of a runner that dies waits for the sweep. *)
LEMMA CrashLeaves ==
    ASSUME CalmStep, Enough => Cared, NEW r \in Runners, Crash(r)
    PROVE  Kept' /\ (Enough' => Cared') /\ Awaited' /\ Accounted'
  <1>0. PICK i \in Jobs : run[r].job = i
    BY DEF Crash, CalmStep, CalmInv, Inv, Employed
  <1>1. /\ run[r].phase # "idle" /\ rec' = rec /\ job' = job /\ run' = [run EXCEPT ![r] = Idle]
        /\ faults' = [faults EXCEPT !["crash"] = @ + 1] /\ faults \in [Kinds -> Nat]
        /\ run \in [Runners -> RunRecord] /\ rec \in [Pairs -> DeliveryRecord] /\ job \in [Jobs -> JobRecord]
    BY DEF Crash, Fault, CalmStep, CalmInv, Inv, TypeOK
  <1>2. job[i].status = "running" /\ job[i].silent = 0 /\ \A q \in Runners : Works(q, i) => q = r
    BY <1>0, <1>1 DEF CalmStep, CalmInv, Kept, Holds
  <1>3. faults["crash"] \in Nat /\ faults'["crash"] = faults["crash"] + 1
    BY <1>1 DEF Kinds
  <1>4. (\A q \in Runners \ {r} : run'[q] = run[q]) /\ run'[r].phase = "idle"
    BY <1>1 DEF Idle
  <1>5. /\ \A q \in Runners, k \in Jobs : Works(q, k)' <=> Works(q, k) /\ q # r
        /\ \A k \in Jobs : Works(r, k) => k = i
    BY <1>0, <1>1, <1>4 DEF Works
  <1>6. \A k \in Jobs : Orphan(k) => Orphan(k)'
    BY <1>1, <1>5 DEF Orphan
  <1>7. Orphan(i)'
    BY <1>1, <1>2, <1>5 DEF Orphan
  <1>8. Kept'
    BY <1>1, <1>4 DEF CalmStep, CalmInv, Kept, Holds, Works
  <1>9. ASSUME NEW k \in Jobs, NEW c \in Channels, Cares(k, c)
        PROVE  Cares(k, c)'
    <2>1. CASE k = i
      BY <1>7, <2>1 DEF Cares
    <2>2. CASE k # i
      BY <1>1, <1>4, <1>5, <1>6, <1>9, <2>2 DEF Cares, Minds, Busy
    <2>3. QED
      BY <2>1, <2>2
  <1>10. Enough' => Enough
    <2> DEFINE m == Cardinality(Channels) * (ChannelAttempts - 1)
    <2>1. m \in Int /\ JobAttempts \in Nat
      BY UsedFacts, BoundsAssumption
    <2> HIDE DEF m
    <2>2. m + 1 + faults'["crash"] <= JobAttempts => m + 1 + faults["crash"] <= JobAttempts
      BY <1>3, <2>1
    <2>3. QED
      BY <2>2 DEF Enough, m
  <1>11. Enough' => Cared'
    BY <1>1, <1>9, <1>10 DEF Cared, CaredFor
  <1>12. Awaited'
    <2> SUFFICES ASSUME NEW e \in Events, NEW c \in Channels, rec[<<e, c>>].status = "sending", Fresh(e, c)
                 PROVE  InHands(e, c)'
      BY <1>1 DEF Awaited, Fresh
    <2>1. InHands(e, c)
      BY DEF CalmStep, CalmInv, Awaited
    <2>2. ASSUME NEW q \in Runners, q # r, At(q, e, c) PROVE InHands(e, c)'
      BY <1>1, <1>4, <2>2 DEF InHands, At, Busy, EventOf
    <2>3. CASE At(r, e, c)
      <3>1. job'[i].event = e
        BY <1>0, <1>1, <2>3 DEF At, EventOf
      <3>2. rec[<<e, c>>].age \in Nat
        BY <1>1 DEF Pairs, DeliveryRecord
      <3>3. QED
        BY <1>1, <1>2, <1>7, <3>1, <3>2 DEF InHands
    <2>4. ASSUME NEW k \in Jobs, Orphan(k), job[k].event = e, job[k].silent <= rec[<<e, c>>].age
          PROVE  InHands(e, c)'
      BY <1>1, <1>6, <2>4 DEF InHands
    <2>5. QED
      BY <2>1, <2>2, <2>3, <2>4 DEF InHands
  <1>13. Accounted'
    <2>1. \A j \in Jobs : Allowance(j) \in 0..1 /\ Allowance(j)' \in 0..1 /\ (j # i => Allowance(j)' = Allowance(j))
      <3>1. \A j \in Jobs : Allowance(j) \in 0..1 /\ Allowance(j)' \in 0..1
        BY DEF Allowance
      <3>2. ASSUME NEW j \in Jobs, j # i PROVE Allowance(j)' = Allowance(j)
        BY <1>4, <1>5, <3>2 DEF Allowance, Free, Busy
      <3>3. QED
        BY <3>1, <3>2
    <2>2. ASSUME NEW j \in Jobs, NEW e \in Events, job[j].status \in {"queued", "running"}, job[j].event = e
          PROVE  job[j].attempts <= faults'["crash"] + Cardinality(Used(e))' + Allowance(j)'
      <3>1. Cardinality(Used(e))' = Cardinality(Used(e)) /\ Cardinality(Used(e)) \in Nat
        BY <1>1, UsedAlike
      <3>2. job[j].attempts <= faults["crash"] + Cardinality(Used(e)) + Allowance(j) /\ job[j].attempts \in Nat
        BY <1>1, <2>2 DEF CalmStep, CalmInv, Accounted, JobRecord
      <3>3. QED
        BY <1>3, <2>1, <3>1, <3>2
    <2>3. QED
      BY <1>1, <2>2 DEF Accounted, CalmStep, CalmInv
  <1>14. QED
    BY <1>8, <1>11, <1>12, <1>13

(* The sweep only takes jobs whose runners are dead. *)
LEMMA RequeueLeaves ==
    ASSUME CalmStep, Enough => Cared, RequeueStaleJobs
    PROVE  Kept' /\ (Enough' => Cared') /\ Awaited' /\ Accounted'
  <1>1. rec' = rec /\ run' = run /\ faults' = faults /\ rec \in [Pairs -> DeliveryRecord] /\ job \in [Jobs -> JobRecord]
    BY DEF RequeueStaleJobs, CalmStep, CalmInv, Inv, TypeOK
  <1>2. ASSUME NEW k \in Jobs
        PROVE  /\ job'[k].event = job[k].event /\ job'[k].attempts = job[k].attempts
               /\ \/ job'[k] = job[k]
                  \/ job'[k].status = "queued" /\ job[k].status = "running" /\ job[k].silent > LeaseTimeout
    <2> DEFINE d == [job[k] EXCEPT !.status = "queued", !.silent = 0]
    <2>1. d.event = job[k].event /\ d.attempts = job[k].attempts /\ d.status = "queued"
      BY <1>1 DEF JobRecord
    <2>2. job'[k] = IF job[k].status = "running" /\ job[k].silent > LeaseTimeout THEN d ELSE job[k]
      BY DEF RequeueStaleJobs
    <2> HIDE DEF d
    <2>3. QED
      BY <2>1, <2>2
  <1>3. \A q \in Runners : run[q].phase # "idle" =>
          run[q].job \in Jobs /\ job[run[q].job].silent = 0 /\ job'[run[q].job] = job[run[q].job]
    BY <1>2, TimingAssumption DEF CalmStep, CalmInv, Kept, Inv, Employed
  <1>4. \A q \in Runners, k \in Jobs : Works(q, k)' <=> Works(q, k)
    BY <1>1 DEF Works
  <1>5. Kept'
    BY <1>1, <1>3, <1>4 DEF CalmStep, CalmInv, Kept, Holds
  <1>6. ASSUME NEW k \in Jobs, NEW c \in Channels, Cares(k, c)
        PROVE  Cares(k, c)'
    <2>1. CASE job'[k] = job[k]
      BY <1>1, <1>4, <1>6, <2>1 DEF Cares, Orphan, Minds, Busy
    <2>2. CASE job'[k].status = "queued"
      BY <2>2 DEF Cares
    <2>3. QED
      BY <1>2, <2>1, <2>2
  <1>7. \A k \in Jobs : job'[k].status = "none" <=> job[k].status = "none"
    BY <1>2
  <1>8. Enough' => Cared'
    BY <1>1, <1>2, <1>6, <1>7 DEF Enough, Cared, CaredFor
  <1>9. \A q \in Runners, e \in Events, c \in Channels : At(q, e, c) => At(q, e, c)'
    BY <1>1, <1>3 DEF At, Busy, EventOf
  <1>10. Awaited'
    <2> SUFFICES ASSUME NEW e \in Events, NEW c \in Channels, rec[<<e, c>>].status = "sending", Fresh(e, c)
                 PROVE  InHands(e, c)'
      BY <1>1 DEF Awaited, Fresh
    <2>1. InHands(e, c)
      BY DEF CalmStep, CalmInv, Awaited
    <2>2. ASSUME NEW k \in Jobs, Orphan(k), job[k].event = e, job[k].silent <= rec[<<e, c>>].age
          PROVE  InHands(e, c)'
      <3>1. rec[<<e, c>>].age \in Nat /\ job[k].silent \in Nat
        BY <1>1 DEF Pairs, DeliveryRecord, JobRecord
      <3>2. ~(job[k].silent > LeaseTimeout)
        BY <2>2, <3>1, TimingAssumption DEF Fresh
      <3>3. job'[k] = job[k]
        BY <1>2, <3>2
      <3>4. Orphan(k)'
        BY <1>4, <2>2, <3>3 DEF Orphan
      <3>5. QED
        BY <1>1, <2>2, <3>3, <3>4 DEF InHands
    <2>3. QED
      BY <1>9, <2>1, <2>2 DEF InHands
  <1>11. Accounted'
    <2>1. \A j \in Jobs : Allowance(j)' = Allowance(j)
      BY <1>1, <1>4 DEF Allowance, Free, Busy
    <2>2. \A j \in Jobs : job'[j].status = "none" => job'[j].attempts = 0
      BY <1>2, <1>7 DEF CalmStep, CalmInv, Accounted
    <2>3. ASSUME NEW j \in Jobs, NEW e \in Events, job'[j].status \in {"queued", "running"}, job'[j].event = e
          PROVE  job'[j].attempts <= faults'["crash"] + Cardinality(Used(e))' + Allowance(j)'
      <3>1. Cardinality(Used(e))' = Cardinality(Used(e))
        BY <1>1, UsedAlike
      <3>2. job[j].status \in {"queued", "running"} /\ job[j].event = e /\ job'[j].attempts = job[j].attempts
        BY <1>2, <2>3
      <3>3. job[j].attempts <= faults["crash"] + Cardinality(Used(e)) + Allowance(j)
        BY <3>2 DEF CalmStep, CalmInv, Accounted
      <3>4. QED
        BY <1>1, <2>1, <3>1, <3>2, <3>3
    <2>4. QED
      BY <2>2, <2>3 DEF Accounted
  <1>12. QED
    BY <1>5, <1>8, <1>10, <1>11

(* A record that nobody works on and the silence of its job age together.  *)
LEMMA TickLeaves ==
    ASSUME CalmStep, Enough => Cared, Tick
    PROVE  Kept' /\ (Enough' => Cared') /\ Awaited' /\ Accounted'
  <1>1. /\ faults' = faults /\ job \in [Jobs -> JobRecord] /\ rec \in [Pairs -> DeliveryRecord]
        /\ \A x \in Pairs : rec'[x].status = rec[x].status /\ rec'[x].attempts = rec[x].attempts
    BY TickStep DEF CalmStep, CalmInv, Inv, TypeOK
  <1>2. ASSUME NEW q \in Runners
        PROVE  /\ run'[q].phase = run[q].phase /\ run'[q].job = run[q].job /\ run'[q].lease = run[q].lease
               /\ run'[q].left = run[q].left /\ run'[q].channel = run[q].channel
               /\ run'[q].attempt = run[q].attempt /\ run'[q].retry = run[q].retry
               /\ run'[q].cancelled = run[q].cancelled
    <2> DEFINE n == run[q].time + 1
               w == [run[q] EXCEPT !.time = n]
    <2>1. run[q] \in RunRecord
      BY DEF CalmStep, CalmInv, Inv, TypeOK
    <2>2. run'[q] = IF Running(q) THEN w ELSE run[q]
      BY DEF Tick
    <2> HIDE DEF n
    <2>3. /\ w.phase = run[q].phase /\ w.job = run[q].job /\ w.lease = run[q].lease
          /\ w.left = run[q].left /\ w.channel = run[q].channel
          /\ w.attempt = run[q].attempt /\ w.retry = run[q].retry /\ w.cancelled = run[q].cancelled
      BY <2>1 DEF RunRecord
    <2> HIDE DEF w
    <2>4. QED
      BY <2>2, <2>3
  <1>3. ASSUME NEW k \in Jobs
        PROVE  /\ job'[k].status = job[k].status /\ job'[k].event = job[k].event /\ job'[k].attempts = job[k].attempts
               /\ Renewed(k) => job'[k].silent = 0
               /\ job'[k].silent <= job[k].silent + 1
    <2> DEFINE m == Older(job[k].silent, LeaseTimeout)
               d == [job[k] EXCEPT !.silent = 0]
               f == [job[k] EXCEPT !.silent = m]
    <2>1. job[k] \in JobRecord /\ job[k].silent \in Nat
      BY <1>1 DEF JobRecord
    <2>2. job'[k] = IF job[k].status # "running" \/ Renewed(k) THEN d ELSE f
      BY DEF Tick
    <2>3. m <= job[k].silent + 1
      BY <2>1 DEF Older
    <2> HIDE DEF m
    <2>4. /\ d.status = job[k].status /\ d.event = job[k].event /\ d.attempts = job[k].attempts /\ d.silent = 0
          /\ f.status = job[k].status /\ f.event = job[k].event /\ f.attempts = job[k].attempts /\ f.silent = m
      BY <2>1 DEF JobRecord
    <2> HIDE DEF d, f
    <2>5. QED
      BY <2>1, <2>2, <2>3, <2>4
  <1>4. \A q \in Runners, k \in Jobs : Works(q, k)' <=> Works(q, k)
    BY <1>2 DEF Works
  <1>5. \A k \in Jobs : Orphan(k)' <=> Orphan(k)
    BY <1>3, <1>4 DEF Orphan
  <1>6. \A q \in Runners : run[q].phase # "idle" =>
          run[q].job \in Jobs /\ Renewed(run[q].job) /\ EventOf(q)' = EventOf(q)
    BY <1>2, <1>3, CalmFacts DEF CalmStep, CalmInv, Kept, Inv, Employed, Renewed, Running, EventOf
  <1>7. Kept'
    <2> SUFFICES ASSUME NEW q \in Runners, run[q].phase # "idle"
                 PROVE  /\ Holds(q)'
                        /\ job'[run'[q].job].silent = 0
                        /\ ~run'[q].cancelled
                        /\ \A p \in Runners : run'[p].phase # "idle" /\ run'[p].job = run'[q].job => p = q
      BY <1>2 DEF Kept, Works
    <2>1. /\ Holds(q) /\ ~run[q].cancelled
          /\ \A p \in Runners : run[p].phase # "idle" /\ run[p].job = run[q].job => p = q
      BY DEF CalmStep, CalmInv, Kept, Works
    <2>2. run[q].job \in Jobs /\ job'[run[q].job].silent = 0
      BY <1>3, <1>6
    <2>3. Holds(q)'
      BY <1>2, <1>3, <2>1, <2>2 DEF Holds
    <2>4. QED
      BY <1>2, <2>1, <2>2, <2>3
  <1>8. \A k \in Jobs, c \in Channels : Cares(k, c) => Cares(k, c)'
    BY <1>2, <1>3, <1>4, <1>5 DEF Cares, Minds, Busy
  <1>9. Enough' => Cared'
    BY <1>1, <1>3, <1>8 DEF Enough, Cared, CaredFor, Pairs
  <1>10. \A q \in Runners, e \in Events, c \in Channels : At(q, e, c) => At(q, e, c)'
    BY <1>2, <1>6 DEF At, Busy
  <1>11. Awaited'
    <2> SUFFICES ASSUME NEW e \in Events, NEW c \in Channels, rec'[<<e, c>>].status = "sending", Fresh(e, c)'
                 PROVE  InHands(e, c)'
      BY DEF Awaited
    <2>1. rec[<<e, c>>].status = "sending" /\ rec[<<e, c>>].age \in Nat /\ <<e, c>> \in Pairs
      BY <1>1 DEF Pairs, DeliveryRecord
    <2>2. rec'[<<e, c>>].age = IF rec[<<e, c>>].age <= Window - 1 THEN rec[<<e, c>>].age + 1 ELSE rec[<<e, c>>].age
      BY <2>1, TickStep DEF CalmStep, CalmInv, Inv
    <2>3. rec'[<<e, c>>].age < Window
      BY DEF Fresh
    <2>4. Fresh(e, c) /\ rec'[<<e, c>>].age = rec[<<e, c>>].age + 1
      BY <2>1, <2>2, <2>3, TimingAssumption DEF Fresh
    <2>5. InHands(e, c)
      BY <2>1, <2>4 DEF CalmStep, CalmInv, Awaited
    <2>6. ASSUME NEW k \in Jobs, Orphan(k), job[k].event = e, job[k].silent <= rec[<<e, c>>].age
          PROVE  InHands(e, c)'
      <3>1. job'[k].silent <= job[k].silent + 1 /\ job'[k].event = e /\ job[k].silent \in Nat /\ job'[k].silent \in Nat
        BY <1>1, <1>3, <2>6 DEF JobRecord, CalmStep, TypeOK
      <3>2. job'[k].silent <= rec'[<<e, c>>].age
        BY <2>1, <2>4, <2>6, <3>1
      <3>3. QED
        BY <1>5, <2>6, <3>1, <3>2 DEF InHands
    <2>7. QED
      BY <1>10, <2>5, <2>6 DEF InHands
  <1>12. Accounted'
    <2>1. \A j \in Jobs : Allowance(j)' = Allowance(j)
      BY <1>2, <1>4 DEF Allowance, Free, Busy
    <2>2. \A j \in Jobs : job'[j].status = "none" => job'[j].attempts = 0
      BY <1>3 DEF CalmStep, CalmInv, Accounted
    <2>3. ASSUME NEW j \in Jobs, NEW e \in Events, job'[j].status \in {"queued", "running"}, job'[j].event = e
          PROVE  job'[j].attempts <= faults'["crash"] + Cardinality(Used(e))' + Allowance(j)'
      <3>1. Cardinality(Used(e))' = Cardinality(Used(e))
        BY <1>1, UsedAlike
      <3>2. job[j].status \in {"queued", "running"} /\ job[j].event = e /\ job'[j].attempts = job[j].attempts
        BY <1>3, <2>3
      <3>3. job[j].attempts <= faults["crash"] + Cardinality(Used(e)) + Allowance(j)
        BY <3>2 DEF CalmStep, CalmInv, Accounted
      <3>4. QED
        BY <1>1, <2>1, <3>1, <3>2, <3>3
    <2>4. QED
      BY <2>2, <2>3 DEF Accounted
  <1>13. QED
    BY <1>7, <1>9, <1>11, <1>12

-----------------------------------------------------------------------------
(* No step takes a fault back. *)
LEMMA CalmForGood ==
    ASSUME TypeOK, [Next]_vars, Calm'
    PROVE  Calm
  <1>1. faults \in [Kinds -> Nat]
    BY DEF TypeOK
  <1>2. faults' = faults \/ \E k \in Kinds : Fault(k)
    <2>1. CASE UNCHANGED vars
      BY <2>1 DEF vars
    <2>2. ASSUME NEW j \in Jobs, NEW e \in Events, Enqueue(j, e) PROVE faults' = faults
      BY <2>2 DEF Enqueue
    <2>3. ASSUME NEW r \in Runners, Dispatch(r) PROVE faults' = faults \/ \E k \in Kinds : Fault(k)
      <3>1. CASE Claim(r)
        BY <3>1 DEF Claim
      <3>2. ASSUME NEW c \in Channels, Begin(r, c) PROVE faults' = faults \/ \E k \in Kinds : Fault(k)
        BY <3>2 DEF Begin, StoreFails, Kinds
      <3>3. ASSUME NEW o \in Outcomes, Post(r, o) PROVE faults' = faults \/ \E k \in Kinds : Fault(k)
        BY <3>3 DEF Post, Kinds
      <3>4. CASE Record(r)
        BY <3>4 DEF Record, StoreFails, Kinds
      <3>5. CASE Finish(r)
        BY <3>5 DEF Finish, Kinds
      <3>6. QED
        BY <2>3, <3>1, <3>2, <3>3, <3>4, <3>5 DEF Dispatch
    <2>4. ASSUME NEW r \in Runners, Crash(r) \/ Suspend(r) \/ Outlive(r) PROVE \E k \in Kinds : Fault(k)
      BY <2>4 DEF Crash, Suspend, Outlive, Kinds
    <2>5. ASSUME NEW r \in Runners, Resume(r) \/ LeaseLost(r) PROVE faults' = faults
      BY <2>5 DEF Resume, LeaseLost
    <2>6. CASE RequeueStaleJobs \/ Tick
      BY <2>6 DEF RequeueStaleJobs, Tick
    <2>7. QED
      BY <2>1, <2>2, <2>3, <2>4, <2>5, <2>6 DEF Next
  <1>3. ASSUME NEW k \in Kinds, Fault(k) PROVE Calm
    BY <1>1, <1>3 DEF Fault, Calm, Timely, Kinds
  <1>4. CASE faults' = faults
    BY <1>4 DEF Calm, Timely
  <1>5. QED
    BY <1>2, <1>3, <1>4

LEMMA JobsInvStep ==
    ASSUME Inv, TypeOK', Employed', JobsInv, [Next]_vars
    PROVE  JobsInv'
  <1> SUFFICES ASSUME Calm' PROVE Kept' /\ (Enough' => Cared') /\ Awaited' /\ Accounted'
    BY DEF JobsInv
  <1>1. Calm /\ Kept /\ (Enough => Cared) /\ Awaited /\ Accounted
    BY CalmForGood DEF JobsInv, Inv
  <1>2. CalmStep
    BY <1>1 DEF CalmStep, CalmInv
  <1>3. ASSUME NEW j \in Jobs, NEW e \in Events, Enqueue(j, e)
        PROVE  Kept' /\ (Enough' => Cared') /\ Awaited' /\ Accounted'
    BY <1>1, <1>2, <1>3, EnqueueLeaves
  <1>4. ASSUME NEW r \in Runners, Dispatch(r)
        PROVE  Kept' /\ (Enough' => Cared') /\ Awaited' /\ Accounted'
    BY <1>1, <1>2, <1>4, ClaimLeaves, BeginLeaves, PostLeaves, RecordLeaves, FinishLeaves DEF Dispatch
  <1>5. ASSUME NEW r \in Runners, Crash(r)
        PROVE  Kept' /\ (Enough' => Cared') /\ Awaited' /\ Accounted'
    BY <1>1, <1>2, <1>5, CrashLeaves
  <1>6. ASSUME NEW r \in Runners PROVE ~Suspend(r) /\ ~Outlive(r) /\ ~Resume(r) /\ ~LeaseLost(r)
    BY <1>1, <1>2, CalmFacts DEF Suspend, Outlive, Resume, LeaseLost, Kept, Running
  <1>7. CASE RequeueStaleJobs
    BY <1>1, <1>2, <1>7, RequeueLeaves
  <1>8. CASE Tick
    BY <1>1, <1>2, <1>8, TickLeaves
  <1>9. CASE UNCHANGED vars
    <2>1. UNCHANGED <<job, rec, run, faults>>
      BY <1>9 DEF vars
    <2>2. Kept'
      BY <1>1, <2>1 DEF Kept, Holds, Works
    <2>3. Enough' => Cared'
      BY <1>1, <2>1 DEF Enough, Cared, CaredFor, Cares, Orphan, Works, Minds, Busy
    <2>4. Awaited'
      BY <1>1, <2>1 DEF Awaited, Fresh, InHands, At, Busy, EventOf, Orphan, Works
    <2>5. Accounted'
      <3>1. \A j \in Jobs : Allowance(j)' = Allowance(j)
        BY <2>1 DEF Allowance, Works, Free, Busy
      <3>2. \A e \in Events : Cardinality(Used(e))' = Cardinality(Used(e))
        BY <2>1, UsedAlike
      <3>3. QED
        BY <1>1, <2>1, <3>1, <3>2 DEF Accounted
    <2>6. QED
      BY <2>2, <2>3, <2>4, <2>5
  <1>10. QED
    BY <1>3, <1>4, <1>5, <1>6, <1>7, <1>8, <1>9 DEF Next

LEMMA InitJobs == Init => JobsInv
  <1> SUFFICES ASSUME Init PROVE JobsInv
    OBVIOUS
  <1>1. /\ \A r \in Runners : run[r].phase = "idle"
        /\ \A j \in Jobs : job[j].status = "none" /\ job[j].attempts = 0
        /\ \A x \in Pairs : rec[x].status = "none"
    BY DEF Init, Idle, Pairs
  <1>2. QED
    BY <1>1 DEF JobsInv, Kept, Cared, Awaited, Accounted, Pairs

(* When all jobs of an event are over, every channel it went to has its    *)
(* final status: whoever dies at whatever moment, and whichever of several *)
(* jobs of the event passes over a channel because another one is busy     *)
(* with it, somebody is left who comes back to the channel.  That the job  *)
(* is put back often enough is no matter of luck: FailJob counts a job's   *)
(* attempts, and each beyond the first has a crash or an attempt on a      *)
(* channel to itself.                                                      *)
THEOREM JobsAlwaysLeaveNothing == Spec => []JobsLeaveNothing
  <1>1. Inv /\ TypeOK' /\ Employed' /\ JobsInv /\ [Next]_vars => JobsInv'
    BY JobsInvStep
  <1>2. Inv /\ JobsInv => JobsLeaveNothing
    <2> SUFFICES ASSUME Inv, JobsInv, Calm, Enough,
                        NEW e \in Events, NEW c \in Channels,
                        \E j \in Jobs : job[j].event = e,
                        \A j \in Jobs : job[j].event = e => job[j].status \in {"done", "failed"}
                 PROVE  rec[<<e, c>>].status \in Terminal
      BY DEF JobsLeaveNothing, Calm, Enough
    <2>1. Kept /\ Cared
      BY DEF JobsInv
    <2>2. rec[<<e, c>>].status \in Terminal \/ CaredFor(e, c)
      BY <2>1 DEF Cared
    <2>3. ~CaredFor(e, c)
      BY <2>1 DEF CaredFor, Cares, Orphan, Works, Kept, Holds
    <2>4. QED
      BY <2>2, <2>3
  <1>3. QED
    BY <1>1, <1>2, InitJobs, ExclusiveAlways, PTL DEF Spec, Inv
=============================================================================
