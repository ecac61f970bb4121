--------------------------- MODULE Notifications ---------------------------
(***************************************************************************)
(* Outbound notifications: one record per event and channel.               *)
(*                                                                         *)
(* internal/notifications/notifications.go runs inside a job of the queue: *)
(* for each channel it asks the store whether to send                      *)
(* (BeginNotificationDeliveryForTenant, one step under the store's mutex), *)
(* posts the message, and records the outcome (another step).  The job is  *)
(* retried until no channel reports a retryable error.                     *)
(*                                                                         *)
(* The queue is the one of module JobQueue, seen from its leases: a claim  *)
(* numbers the lease, and a job whose holder is gone or suspended for      *)
(* longer than LeaseTimeout is put back.  Clocks are ages.                 *)
(***************************************************************************)
EXTENDS Naturals, FiniteSets

CONSTANTS
    Jobs,            \* "notify.event" jobs of the queue
    NoJob,           \* the job of an idle runner
    Events,
    NoEvent,         \* the event of a job that is not enqueued yet
    Channels,        \* the enabled channels an event is routed to
    NoChannel,
    Runners,         \* worker goroutines
    SameKey,         \* the sets of events that share a DedupeKey
    ChannelAttempts, \* MaxAttempts of a channel
    JobAttempts,     \* the attempt FailJob does not retry after (8)
    Cooldown,        \* of a channel, in units of Tick; 0 turns it off
    Window,          \* two minutes: how long a "sending" record is believed
    SendTime,        \* how long an attempt may take: the request (an e-mail: twice
                     \* the Timeout), the wait after a 429, recording it
    LeaseTimeout,    \* jobLeaseTimeout
    FaultKinds,      \* the faults a run looks at
    MaxFaults        \* bound: faults of all kinds together

(* The window is within the lease.  An attempt may outlive both: a Timeout  *)
(* of two minutes is allowed.                                              *)
ASSUME TimingAssumption ==
    /\ Cooldown \in Nat
    /\ SendTime \in Nat /\ Window \in Nat \ {0} /\ LeaseTimeout \in Nat
    /\ Window <= LeaseTimeout

ASSUME BoundsAssumption ==
    /\ ChannelAttempts \in Nat \ {0}
    /\ JobAttempts \in Nat \ {0}
    /\ MaxFaults \in Nat
    /\ FaultKinds \subseteq {"crash", "error", "lost", "slow", "suspend"}
    /\ NoEvent \notin Events
    /\ NoChannel \notin Channels
    /\ NoJob \notin Jobs
    /\ IsFiniteSet(Runners) /\ IsFiniteSet(Channels)

(* An event has one DedupeKey. *)
ASSUME KeyAssumption ==
    /\ SameKey \subseteq SUBSET Events
    /\ \A e \in Events : \E K \in SameKey : e \in K
    /\ \A K, L \in SameKey : K # L => K \cap L = {}

VARIABLES
    job,      \* the jobs
    rec,      \* the notification record of each event and channel
    run,      \* what each runner is doing
    posted,   \* history: messages each endpoint took
    faults    \* faults so far, by kind

vars == <<job, rec, run, posted, faults>>

Kinds == {"crash", "error", "lost", "slow", "suspend"}
Terminal == {"sent", "suppressed", "failed"}
Outcomes == {"ok", "quiet", "retry", "permanent"}

Idle ==
    [phase |-> "idle",        \* then "begin", "send" and "record"
     job |-> NoJob, lease |-> 0,
     left |-> {},             \* channels Dispatch has not come to
     channel |-> NoChannel, attempt |-> 0, outcome |-> "ok", time |-> 0,
     slow |-> FALSE,          \* the attempt outlives the window
     retry |-> FALSE,         \* a channel reported a retryable error
     suspended |-> FALSE,     \* the process does not run
     cancelled |-> FALSE]     \* the heartbeat saw ErrJobLeaseLost

TotalFaults ==
    faults["crash"] + faults["error"] + faults["lost"] + faults["slow"] + faults["suspend"]

Fault(kind) ==
    /\ kind \in FaultKinds
    /\ TotalFaults < MaxFaults
    /\ faults' = [faults EXCEPT ![kind] = @ + 1]

Running(r) == run[r].phase # "idle" /\ ~run[r].suspended
EventOf(r) == job[run[r].job].event
Key(e) == CHOOSE K \in SameKey : e \in K

(* A lease ends or is renewed only by its newest claim. *)
Holds(r) ==
    /\ run[r].phase # "idle"
    /\ job[run[r].job].status = "running"
    /\ job[run[r].job].attempts = run[r].lease

-----------------------------------------------------------------------------
(* An event is put on the queue; the same event may be put there again     *)
(* (maybeCreateDraftRepair does it for a repair that exists already).      *)
Enqueue(j, e) ==
    /\ job[j].status = "none"
    /\ job' = [job EXCEPT ![j].status = "queued", ![j].event = e]
    /\ UNCHANGED <<rec, run, posted, faults>>

Claim(r) ==
    /\ run[r].phase = "idle"
    /\ \E j \in Jobs :
         /\ job[j].status = "queued"
         /\ job' = [job EXCEPT ![j].status = "running", ![j].silent = 0,
                               ![j].attempts = @ + 1]
         /\ run' = [run EXCEPT ![r] = [Idle EXCEPT
                       !.phase = "begin", !.job = j,
                       !.lease = job[j].attempts + 1, !.left = Channels]]
    /\ UNCHANGED <<rec, posted, faults>>

(* The job is told how the dispatch ended, if the lease is still held.     *)
Ended(j, retry) ==
    [job[j] EXCEPT !.silent = 0, !.status =
        IF ~retry THEN "done"
        ELSE IF job[j].attempts >= JobAttempts THEN "failed" ELSE "queued"]

Finish(r) ==
    /\ Running(r) /\ run[r].phase = "begin" /\ run[r].left = {}
    /\ \/ /\ job' = IF Holds(r)
                    THEN [job EXCEPT ![run[r].job] = Ended(run[r].job, run[r].retry)]
                    ELSE job
          /\ UNCHANGED faults
       \/ Fault("error") /\ UNCHANGED job
    /\ run' = [run EXCEPT ![r] = Idle]
    /\ UNCHANGED <<rec, posted>>

-----------------------------------------------------------------------------
(* BeginNotificationDeliveryForTenant *)

(* The record says that this event needs nothing more on this channel.     *)
Settled(e, c) == rec[<<e, c>>].status \in Terminal
(* Mutant: a record in "sending" is believed for ever. *)
Fresh_Always(e, c) == TRUE

Fresh(e, c) == rec[<<e, c>>].age < Window
Exhausted(e, c) == rec[<<e, c>>].status # "none" /\ rec[<<e, c>>].attempts >= ChannelAttempts

(* Mutant: a running attempt of another event is not seen. *)
Suppressing_SentOnly(e, f, c) ==
    /\ f # e
    /\ rec[<<f, c>>].status = "sent"
    /\ rec[<<f, c>>].sentAge <= Cooldown

(* Event f on the same channel makes e a duplicate.                        *)
Suppressing(e, f, c) ==
    /\ f # e
    /\ \/ rec[<<f, c>>].status = "sent" /\ rec[<<f, c>>].sentAge <= Cooldown
       \/ rec[<<f, c>>].status \in {"sending", "retrying"} /\ Fresh(f, c)

Duplicate(e, c) ==
    Cooldown > 0 /\ \E f \in Key(e) : Suppressing(e, f, c)

Decision(e, c) ==
    IF Settled(e, c) \/ (rec[<<e, c>>].status = "sending" /\ Fresh(e, c)) THEN "skip"
    ELSE IF Exhausted(e, c) THEN "exhausted"
    ELSE IF Duplicate(e, c) THEN "suppressed"
    ELSE "send"

(* Mutant: the attempt is not counted before the message goes out. *)
Decided_NoCount(e, c) ==
    CASE Decision(e, c) = "skip" -> rec[<<e, c>>]
      [] Decision(e, c) = "exhausted" ->
            [rec[<<e, c>>] EXCEPT !.status = "failed", !.age = 0]
      [] Decision(e, c) = "suppressed" ->
            [status |-> "suppressed", attempts |-> 0, age |-> 0, sentAge |-> 0]
      [] Decision(e, c) = "send" ->
            [rec[<<e, c>>] EXCEPT !.status = "sending", !.age = 0]

(* The record the decision writes. *)
Decided(e, c) ==
    CASE Decision(e, c) = "skip" -> rec[<<e, c>>]
      [] Decision(e, c) = "exhausted" ->
            [rec[<<e, c>>] EXCEPT !.status = "failed", !.age = 0]
      [] Decision(e, c) = "suppressed" ->
            [status |-> "suppressed", attempts |-> 0, age |-> 0, sentAge |-> 0]
      [] Decision(e, c) = "send" ->
            [rec[<<e, c>>] EXCEPT !.status = "sending", !.age = 0,
                                 !.attempts = @ + 1]

(* A store call of a cancelled job fails at once, any other may fail; a    *)
(* failed call changes nothing.                                            *)
StoreFails(r) ==
    IF run[r].cancelled THEN UNCHANGED faults ELSE Fault("error")

(* The runner when the store has answered for channel c. *)
Asked(r, c) ==
    LET e == EventOf(r) IN
    [run[r] EXCEPT !.left = @ \ {c}, !.channel = c, !.time = 0, !.slow = FALSE,
                   !.attempt = Decided(e, c).attempts,
                   !.phase = IF Decision(e, c) = "send" THEN "send" ELSE "begin"]

(* Dispatch comes to channel c. *)
Begin(r, c) ==
    LET e == EventOf(r) IN
    /\ Running(r) /\ run[r].phase = "begin" /\ c \in run[r].left
    /\ \/ /\ ~run[r].cancelled
          /\ rec' = [rec EXCEPT ![<<e, c>>] = Decided(e, c)]
          /\ run' = [run EXCEPT ![r] = Asked(r, c)]
          /\ UNCHANGED faults
       \/ /\ StoreFails(r)
          /\ run' = [run EXCEPT ![r].left = @ \ {c}, ![r].retry = TRUE]
          /\ UNCHANGED rec
    /\ UNCHANGED <<job, posted>>

-----------------------------------------------------------------------------
(* The request: quiet hours keep it in; the endpoint takes it or refuses   *)
(* it for now or for good; or it takes it and the answer does not arrive.  *)
Post(r, outcome) ==
    LET e == EventOf(r) c == run[r].channel IN
    /\ Running(r) /\ run[r].phase = "send"
    /\ run[r].cancelled => outcome # "ok"
    /\ run' = [run EXCEPT ![r].phase = "record", ![r].outcome = outcome]
    /\ \/ /\ posted' = IF outcome = "ok" THEN [posted EXCEPT ![<<e, c>>] = @ + 1] ELSE posted
          /\ UNCHANGED faults
       \/ /\ outcome = "retry"
          /\ Fault("lost")
          /\ posted' = [posted EXCEPT ![<<e, c>>] = @ + 1]
    /\ UNCHANGED <<job, rec>>

(* recordFailure: the last attempt of a channel is as good as a refusal.   *)
GivenUp(r) ==
    \/ run[r].outcome = "permanent"
    \/ run[r].outcome = "retry" /\ run[r].attempt >= ChannelAttempts

StatusFor(r) ==
    CASE run[r].outcome = "ok" -> "sent"
      [] run[r].outcome = "quiet" -> "suppressed"
      [] OTHER -> IF GivenUp(r) THEN "failed" ELSE "retrying"

(* The error Dispatch collects when the outcome could be recorded. *)
Retry(r) == run[r].outcome = "retry" /\ ~GivenUp(r)

(* RecordNotificationDelivery replaces the record, whatever it says now.   *)
(* When it fails, a permanent failure is still reported as permanent; a    *)
(* failed look-up of the record, before the attempts are counted, is not.  *)
Record(r) ==
    LET e == EventOf(r) c == run[r].channel
        next(retry) == run' = [run EXCEPT ![r].phase = "begin", ![r].channel = NoChannel,
                                  ![r].time = 0, ![r].slow = FALSE, ![r].retry = @ \/ retry]
    IN
    /\ Running(r) /\ run[r].phase = "record"
    /\ \/ /\ ~run[r].cancelled
          /\ rec' = [rec EXCEPT ![<<e, c>>] =
                [status |-> StatusFor(r), attempts |-> run[r].attempt,
                 age |-> 0, sentAge |-> 0]]
          /\ next(Retry(r))
          /\ UNCHANGED faults
       \/ /\ StoreFails(r)
          /\ \/ next(~GivenUp(r))
             \/ next(run[r].outcome # "permanent")
          /\ UNCHANGED rec
    /\ UNCHANGED <<job, posted>>

-----------------------------------------------------------------------------
(* Leases *)

(* The process of the runner dies or shuts down. *)
Crash(r) ==
    /\ run[r].phase # "idle"
    /\ Fault("crash")
    /\ run' = [run EXCEPT ![r] = Idle]
    /\ UNCHANGED <<job, rec, posted>>

Suspend(r) ==
    /\ Running(r)
    /\ Fault("suspend")
    /\ run' = [run EXCEPT ![r].suspended = TRUE]
    /\ UNCHANGED <<job, rec, posted>>

Resume(r) ==
    /\ run[r].suspended
    /\ run' = [run EXCEPT ![r].suspended = FALSE]
    /\ UNCHANGED <<job, rec, posted, faults>>

(* The heartbeat of a runner that lost its lease cancels the job's context *)
(* at its next tick, which may be before or after the next store call.     *)
LeaseLost(r) ==
    /\ Running(r) /\ ~Holds(r) /\ ~run[r].cancelled
    /\ run' = [run EXCEPT ![r].cancelled = TRUE]
    /\ UNCHANGED <<job, rec, posted, faults>>

RequeueStaleJobs ==
    /\ \E j \in Jobs : job[j].status = "running" /\ job[j].silent > LeaseTimeout
    /\ job' = [j \in Jobs |->
                 IF job[j].status = "running" /\ job[j].silent > LeaseTimeout
                 THEN [job[j] EXCEPT !.status = "queued", !.silent = 0]
                 ELSE job[j]]
    /\ UNCHANGED <<rec, run, posted, faults>>

(* An attempt that may last as long as the window does: the heartbeat      *)
(* renews the lease, but other jobs find a stale record.                   *)
Outlive(r) ==
    /\ Running(r) /\ run[r].phase \in {"send", "record"} /\ ~run[r].slow
    /\ run[r].time = Window - 1 /\ run[r].time < SendTime
    /\ Fault("slow")
    /\ run' = [run EXCEPT ![r].slow = TRUE]
    /\ UNCHANGED <<job, rec, posted>>

(* Time for one more unit of what a runner is at. *)
Lasts(r) ==
    /\ run[r].phase \in {"send", "record"}
    /\ run[r].time < SendTime
    /\ run[r].slow \/ run[r].time < Window - 1

Renewed(j) == \E r \in Runners : Running(r) /\ Holds(r) /\ run[r].job = j
Older(n, bound) == IF n <= bound THEN n + 1 ELSE n

(* One unit of time.  An attempt that is under way ends within SendTime.   *)
Tick ==
    /\ \A r \in Runners : Running(r) => Lasts(r)
    /\ run' = [r \in Runners |->
                 IF Running(r) THEN [run[r] EXCEPT !.time = @ + 1] ELSE run[r]]
    /\ job' = [j \in Jobs |->
                 IF job[j].status # "running" \/ Renewed(j)
                 THEN [job[j] EXCEPT !.silent = 0]
                 ELSE [job[j] EXCEPT !.silent = Older(@, LeaseTimeout)]]
    /\ rec' = [x \in Events \X Channels |->
                 [rec[x] EXCEPT
                    !.age = IF rec[x].status \in {"sending", "retrying"}
                            THEN Older(@, Window - 1) ELSE @,
                    !.sentAge = IF rec[x].status = "sent"
                                THEN Older(@, Cooldown) ELSE @]]
    /\ UNCHANGED <<posted, faults>>

-----------------------------------------------------------------------------
Init ==
    /\ job = [j \in Jobs |->
                [status |-> "none", event |-> NoEvent,
                 attempts |-> 0,    \* also the number of the newest lease
                 silent |-> 0]]     \* time since its holder last renewed it
    /\ rec = [x \in Events \X Channels |->
                [status |-> "none", attempts |-> 0,
                 age |-> 0,         \* since UpdatedAt
                 sentAge |-> 0]]    \* since SentAt
    /\ run = [r \in Runners |-> Idle]
    /\ posted = [x \in Events \X Channels |-> 0]
    /\ faults = [k \in Kinds |-> 0]

Dispatch(r) ==
    \/ Claim(r)
    \/ \E c \in Channels : Begin(r, c)
    \/ \E o \in Outcomes : Post(r, o)
    \/ Record(r)
    \/ Finish(r)

Next ==
    \/ \E j \in Jobs, e \in Events : Enqueue(j, e)
    \/ \E r \in Runners : Dispatch(r)
    \/ \E r \in Runners : Crash(r)
    \/ \E r \in Runners : Suspend(r)
    \/ \E r \in Runners : Resume(r)
    \/ \E r \in Runners : LeaseLost(r)
    \/ \E r \in Runners : Outlive(r)
    \/ RequeueStaleJobs
    \/ Tick

Spec == Init /\ [][Next]_vars

(* Runners go on, requests end, time passes and the sweep runs. *)
FairSpec ==
    /\ Spec
    /\ \A r \in Runners : WF_vars(Dispatch(r)) /\ WF_vars(Resume(r))
    /\ WF_vars(RequeueStaleJobs)
    /\ WF_vars(Tick)

-----------------------------------------------------------------------------

(* No attempt was still under way when its record went stale. *)
Timely == faults["suspend"] = 0 /\ faults["slow"] = 0

(* The endpoint gets an event once, and once more at most for every fault: *)
(* for a lost answer, a worker or a write that died between the request    *)
(* and its record, a process that stood still, an attempt that outlived    *)
(* the window.  The attempt is on disk before the request goes out, so no  *)
(* crash, failed write, repeated event or parallel runner makes a channel  *)
(* exceed its max_attempts.  Only a suspended process or an attempt of two *)
(* minutes can (its late record brings the old count back).                *)
PostsBounded ==
    \A x \in Events \X Channels :
        /\ posted[x] <= 1 + TotalFaults
        /\ Timely => posted[x] <= ChannelAttempts

(* Two events with one key: while one was sent less than a cooldown ago,   *)
(* the other is not recorded as sent, even when both were in flight or one *)
(* was taken over after a crash.  A suspended process is the exception,    *)
(* and so is an attempt that takes two minutes: the other event finds its  *)
(* record stale.                                                           *)
CooldownKept ==
    [][ (Cooldown > 0 /\ Timely) =>
        \A e, f \in Events, c \in Channels :
            (/\ e # f /\ f \in Key(e)
             /\ rec[<<e, c>>].status # "sent" /\ rec'[<<e, c>>].status = "sent"
             /\ rec[<<f, c>>].status = "sent") =>
                rec[<<f, c>>].sentAge > Cooldown ]_vars

(* A job that ends leaves nothing half done: when all jobs of an event are *)
(* over, every channel has its final status.  Needs that no store write    *)
(* failed (a retry within Window skips the record that was left "sending"),*)
(* that no attempt outlived the window, and that the job's own attempts    *)
(* suffice: each channel may make it come back ChannelAttempts - 1 times,  *)
(* and a channel that another job of the event is busy with is passed      *)
(* over, so these times add up.                                            *)
JobsLeaveNothing ==
    (/\ faults["error"] = 0 /\ Timely
     /\ Cardinality(Channels) * (ChannelAttempts - 1) + 1 + faults["crash"] <= JobAttempts) =>
        \A e \in Events, c \in Channels :
            (/\ \E j \in Jobs : job[j].event = e
             /\ \A j \in Jobs : job[j].event = e => job[j].status \in {"done", "failed"}) =>
                rec[<<e, c>>].status \in Terminal

(* A notification that was begun gets its final status, whoever dies.      *)
EveryNotificationEnds ==
    \A e \in Events, c \in Channels :
        rec[<<e, c>>].status \in {"sending", "retrying"} ~> rec[<<e, c>>].status \in Terminal
=============================================================================
