------------------------------ MODULE JobQueue ------------------------------
(***************************************************************************)
(* The durable job queue and the workers that drain it.                    *)
(*                                                                         *)
(* internal/db/db.go keeps jobs and webhook deliveries (postgres.go runs   *)
(* the same statements as guarded UPDATEs), internal/server/server.go puts *)
(* work in, internal/worker/worker.go takes it out: a worker claims a job  *)
(* under a lease, renews the lease every Heartbeat while it works, and     *)
(* ends the job under the same lease; a sweep puts back the jobs whose     *)
(* lease was not renewed for LeaseTimeout.                                 *)
(*                                                                         *)
(* Every store operation is one step: it runs under one mutex (or in one   *)
(* SQL transaction) and a failed write restores the memory it changed, so  *)
(* a failed call leaves no trace.  Clocks are ages: Tick makes every lease *)
(* one unit older and every delay one unit shorter.                        *)
(***************************************************************************)
EXTENDS Naturals, FiniteSets

CONSTANTS
    MaxJobs,        \* bound: jobs ever created
    Deliveries,     \* webhook delivery identifiers
    NoDelivery,     \* "delivery" of a job that no webhook asked for
    Tenants,
    Workers,
    LeaseTimeout,   \* jobLeaseTimeout, in units of Tick
    Heartbeat,      \* jobLeaseHeartbeat, in units of Tick
    MaxAttempts,    \* the attempt FailJob does not retry after (8)
    BackoffStep,    \* ten seconds, in units of Tick
    MaxFaults       \* bound: lost workers and failed store writes together

ASSUME BoundsAssumption ==
    /\ MaxJobs \in Nat
    /\ MaxFaults \in Nat

ASSUME TimingAssumption ==
    /\ LeaseTimeout \in Nat
    /\ Heartbeat \in Nat \ {0}
    /\ Heartbeat <= LeaseTimeout
    /\ MaxAttempts \in Nat \ {0}
    /\ BackoffStep \in Nat

ASSUME NamesAssumption ==
    /\ NoDelivery \notin Deliveries
    /\ Tenants # {}

JobIds == 1..MaxJobs
Origins == Deliveries \cup {NoDelivery}

VARIABLES
    job,        \* the jobs table: one jobRecord for each number
    nextJob,    \* NextJobID
    delivery,   \* status of each delivery record, "absent" when there is none
    enabled,    \* the enabled tenants
    worker,     \* what each worker is doing
    crashes,    \* workers lost so far
    errors,     \* store writes that failed so far
    succeeded,  \* history: for each job, the newest claim whose handler returned nil
    expired     \* history: deliveries whose record retention removed

storeVars == <<job, nextJob, delivery, enabled>>
faultVars == <<crashes, errors>>
histVars  == <<succeeded, expired>>
vars == <<storeVars, worker, faultVars, histVars>>

NoJob == 0        \* the task of an idle worker
NoLease == 0      \* LockedBy = ""

JobStatus == {"none", "queued", "running", "done", "failed", "removed"}
DeliveryStatus == {"absent", "ignored", "queued", "processed", "error"}

(* A lease token is workerID plus fresh random text, so no two claims share *)
(* one: the number of the claim stands for it.                              *)
JobRecord ==
    [status   : JobStatus,
     tenant   : Tenants,
     delivery : Origins,
     attempts : Nat,
     lockedBy : Nat,
     leaseAge : Nat,     \* time since LockedAt
     delay    : Nat]     \* time until AvailableAt

WorkerRecord ==
    [phase     : {"idle", "working", "settling", "reporting"},
     task      : JobIds \cup {NoJob},
     lease     : Nat,
     ok        : BOOLEAN,   \* processing returned nil
     cancelled : BOOLEAN,   \* the heartbeat saw ErrJobLeaseLost
     beat      : Nat,       \* time since the heartbeat ticker fired
     missed    : Nat]       \* renewals that failed since the last good one

Idle ==
    [phase |-> "idle", task |-> NoJob, lease |-> NoLease, ok |-> FALSE,
     cancelled |-> FALSE, beat |-> 0, missed |-> 0]

FaultLeft == crashes + errors < MaxFaults

(* processWithLease has stopped the heartbeat and returned. *)
Returned(j, lease, ok) ==
    [Idle EXCEPT !.phase = "reporting", !.task = j, !.lease = lease, !.ok = ok]

(* The record of a job whose lease ends with the given status: LockedAt     *)
(* and LockedBy are cleared.                                               *)
Released(r, status) ==
    [r EXCEPT !.status = status, !.lockedBy = NoLease, !.leaseAge = 0]

Claimed(r, lease) ==
    [r EXCEPT !.status = "running", !.lockedBy = lease, !.attempts = lease,
              !.leaseAge = 0]

(* One unit of time later; ages beyond the timeout look the same. *)
Aged(r) ==
    [r EXCEPT !.leaseAge = IF r.status = "running" /\ r.leaseAge <= LeaseTimeout
                           THEN r.leaseAge + 1 ELSE r.leaseAge,
              !.delay = IF r.delay > 0 THEN r.delay - 1 ELSE 0]

Finished(j) == job[j].status \in {"done", "failed"}
Busy(w) == worker[w].phase # "idle"
(* The heartbeat goroutine of processWithLease is alive. *)
Beating(w) ==
    worker[w].phase \in {"working", "settling"} /\ ~worker[w].cancelled

-----------------------------------------------------------------------------
(* Putting work in *)

NewJob(t, d) ==
    [status |-> "queued", tenant |-> t, delivery |-> d, attempts |-> 0,
     lockedBy |-> NoLease, leaseAge |-> 0, delay |-> 0]

(* Mutant: the test for an existing record is left out. *)
EnqueueDelivery_NoDedupe(d, t) ==
    /\ t \in enabled
    /\ nextJob <= MaxJobs
    /\ delivery' = [delivery EXCEPT ![d] = "queued"]
    /\ job' = [job EXCEPT ![nextJob] = NewJob(t, d)]
    /\ nextJob' = nextJob + 1

(* A delivery without a record becomes a record and a job in one write.    *)
(* One with a record is a duplicate and one of a disabled tenant an error: *)
(* neither changes anything.                                               *)
EnqueueDeliveryForTenant(d, t) ==
    /\ delivery[d] = "absent"
    /\ t \in enabled
    /\ nextJob <= MaxJobs
    /\ delivery' = [delivery EXCEPT ![d] = "queued"]
    /\ job' = [job EXCEPT ![nextJob] = NewJob(t, d)]
    /\ nextJob' = nextJob + 1

RecordTerminalDelivery(d) ==
    /\ delivery[d] = "absent"
    /\ delivery' = [delivery EXCEPT ![d] = "ignored"]
    /\ UNCHANGED <<job, nextJob>>

(* A webhook that carries finished work is enqueued for its tenant, any    *)
(* other is recorded as ignored or invalid.                                *)
Webhook(d, t) ==
    /\ EnqueueDeliveryForTenant(d, t) \/ RecordTerminalDelivery(d)
    /\ UNCHANGED <<enabled, worker, faultVars, histVars>>

EnqueueForTenant(t) ==
    /\ t \in enabled
    /\ nextJob <= MaxJobs
    /\ job' = [job EXCEPT ![nextJob] = NewJob(t, NoDelivery)]
    /\ nextJob' = nextJob + 1
    /\ UNCHANGED <<delivery, enabled, worker, faultVars, histVars>>

(* The last enabled tenant cannot be disabled. *)
SetTenantEnabled(t) ==
    /\ IF t \in enabled
       THEN enabled # {t} /\ enabled' = enabled \ {t}
       ELSE enabled' = enabled \cup {t}
    /\ UNCHANGED <<job, nextJob, delivery, worker, faultVars, histVars>>

(* Retention: records received before the cut go, and finished jobs last   *)
(* touched before it.  A job is younger than its delivery, so a delivery   *)
(* record is never kept when its finished job goes; but it goes by its own *)
(* age, whatever the job is doing.                                         *)
Cleanup(D, J) ==
    /\ \A d \in D : delivery[d] # "absent"
    /\ \A j \in J : /\ Finished(j)
                    /\ job[j].delivery \in D \cup expired \cup {NoDelivery}
    /\ delivery' = [d \in Deliveries |-> IF d \in D THEN "absent" ELSE delivery[d]]
    /\ job' = [j \in JobIds |-> IF j \in J THEN [job[j] EXCEPT !.status = "removed"]
                                ELSE job[j]]
    /\ expired' = expired \cup D
    /\ UNCHANGED <<nextJob, enabled, worker, faultVars, succeeded>>
-----------------------------------------------------------------------------
(* Taking work out *)

(* The token test of RenewJobLease, CompleteJob and FailJob. *)
Holds_AnyRunning(j, lease) == job[j].status = "running"
Holds(j, lease) ==
    job[j].status = "running" /\ lease # NoLease /\ job[j].lockedBy = lease

Claimable ==
    {j \in JobIds : /\ job[j].status = "queued"
                    /\ job[j].delay = 0
                    /\ job[j].tenant \in enabled}

(* Mutant: the claim does not count as an attempt. *)
ClaimJob_NoCount(w) ==
    /\ worker[w].phase = "idle"
    /\ \E j \in Claimable :
         /\ \A k \in Claimable : j <= k
         /\ job' = [job EXCEPT ![j] = Claimed(@, 1)]
         /\ worker' = [worker EXCEPT ![w] =
                [Idle EXCEPT !.phase = "working", !.task = j, !.lease = 1]]
    /\ UNCHANGED <<nextJob, delivery, enabled, faultVars, histVars>>

(* An idle worker takes the oldest job that is due and whose tenant is     *)
(* enabled.                                                                *)
ClaimJob(w) ==
    /\ worker[w].phase = "idle"
    /\ \E j \in Claimable :
         LET lease == job[j].attempts + 1 IN
         /\ \A k \in Claimable : j <= k
         /\ job' = [job EXCEPT ![j] = Claimed(@, lease)]
         /\ worker' = [worker EXCEPT ![w] =
                [Idle EXCEPT !.phase = "working", !.task = j, !.lease = lease]]
    /\ UNCHANGED <<nextJob, delivery, enabled, faultVars, histVars>>

(* The handler of the job's type returns, with nil or with an error.  The  *)
(* jobs of webhooks go on to settle their delivery record.                 *)
Process(w, ok) ==
    /\ worker[w].phase = "working"
    /\ LET j == worker[w].task IN
       /\ worker' = [worker EXCEPT ![w] =
             IF job[j].delivery = NoDelivery
             THEN Returned(worker[w].task, worker[w].lease, ok)
             ELSE [@ EXCEPT !.phase = "settling", !.ok = ok]]
       /\ succeeded' = IF ok /\ worker[w].lease > succeeded[j]
                       THEN [succeeded EXCEPT ![j] = worker[w].lease]
                       ELSE succeeded
    /\ UNCHANGED <<storeVars, faultVars, expired>>

(* A record that retention removed is not written again. *)
UpdateDelivery(d, ok) ==
    delivery' = IF delivery[d] = "absent" THEN delivery
                ELSE [delivery EXCEPT ![d] = IF ok THEN "processed" ELSE "error"]

(* process writes the outcome to the delivery record under the job's own   *)
(* context: a cancelled context writes nothing, a failed write is logged   *)
(* and the job goes on.                                                    *)
Settle(w) ==
    /\ worker[w].phase = "settling"
    /\ LET d == job[worker[w].task].delivery IN
       \/ /\ ~worker[w].cancelled
          /\ UpdateDelivery(d, worker[w].ok)
          /\ UNCHANGED errors
       \/ /\ worker[w].cancelled
          /\ UNCHANGED <<delivery, errors>>
       \/ /\ ~worker[w].cancelled /\ FaultLeft
          /\ errors' = errors + 1
          /\ UNCHANGED delivery
    /\ worker' = [worker EXCEPT ![w] =
            Returned(worker[w].task, worker[w].lease, worker[w].ok)]
    /\ UNCHANGED <<job, nextJob, enabled, crashes, histVars>>

CompleteJob(j, lease) ==
    job' = IF Holds(j, lease)
           THEN [job EXCEPT ![j] = Released(@, "done")]
           ELSE job

FailStatus(attempts) == IF attempts >= MaxAttempts THEN "failed" ELSE "queued"

(* Mutant: the lease is not tested. *)
FailJob_NoLease(j, lease, attempts) ==
    job' = [job EXCEPT ![j] = Released(@, FailStatus(attempts))]

(* Mutant: the job never stops being retried. *)
FailJob_Forever(j, lease, attempts) ==
    job' = IF Holds(j, lease)
           THEN [job EXCEPT ![j] = Released(@, "queued")]
           ELSE job

(* The job waits attempts^2 steps before it can be claimed again, or has   *)
(* failed for good.  attempts is the worker's copy.                        *)
FailJob(j, lease, attempts) ==
    job' = IF Holds(j, lease)
           THEN [job EXCEPT ![j] =
                   [Released(@, FailStatus(attempts)) EXCEPT
                      !.delay = attempts * attempts * BackoffStep]]
           ELSE job

(* loop ends the job and looks for another; a lost lease or a failed write *)
(* is logged, and the job is left to the sweep.                            *)
Report(w) ==
    /\ worker[w].phase = "reporting"
    /\ \/ /\ worker[w].ok
          /\ CompleteJob(worker[w].task, worker[w].lease)
          /\ UNCHANGED errors
       \/ /\ ~worker[w].ok
          /\ FailJob(worker[w].task, worker[w].lease, worker[w].lease)
          /\ UNCHANGED errors
       \/ /\ FaultLeft
          /\ errors' = errors + 1
          /\ UNCHANGED job
    /\ worker' = [worker EXCEPT ![w] = Idle]
    /\ UNCHANGED <<nextJob, delivery, enabled, crashes, histVars>>

(* Mutant: the worker is told it still has the lease, the job is not. *)
RenewJobLease_NoWrite(w) ==
    /\ UNCHANGED job
    /\ worker' = [worker EXCEPT ![w] = [@ EXCEPT !.beat = 0, !.missed = 0]]

RenewJobLease(w) ==
    LET j == worker[w].task IN
    IF Holds(j, worker[w].lease)
    THEN /\ job' = [job EXCEPT ![j].leaseAge = 0]
         /\ worker' = [worker EXCEPT ![w] = [@ EXCEPT !.beat = 0, !.missed = 0]]
    ELSE /\ worker' = [worker EXCEPT ![w] =
                [@ EXCEPT !.cancelled = TRUE, !.beat = 0, !.missed = 0]]
         /\ UNCHANGED job

(* The ticker of processWithLease.  Any error but ErrJobLeaseLost is       *)
(* logged and the worker goes on without the renewal; a process that was   *)
(* suspended over a tick has missed a renewal in the same way.             *)
HeartbeatTick(w) ==
    /\ Beating(w)
    /\ worker[w].beat >= Heartbeat
    /\ \/ /\ RenewJobLease(w)
          /\ UNCHANGED errors
       \/ /\ FaultLeft
          /\ errors' = errors + 1
          /\ worker' = [worker EXCEPT ![w] =
                [@ EXCEPT !.beat = 0, !.missed = worker[w].missed + 1]]
          /\ UNCHANGED job
    /\ UNCHANGED <<nextJob, delivery, enabled, crashes, histVars>>

(* Mutant: a job at its last attempt is not put back. *)
Stale_Capped(j) ==
    /\ job[j].status = "running"
    /\ job[j].leaseAge > LeaseTimeout
    /\ job[j].attempts < MaxAttempts

Stale(j) == job[j].status = "running" /\ job[j].leaseAge > LeaseTimeout

(* Run calls it first, requeueLoop every staleJobSweep. *)
RequeueStaleJobs ==
    /\ \E j \in JobIds : Stale(j)
    /\ job' = [j \in JobIds |->
                 IF Stale(j) THEN Released(job[j], "queued") ELSE job[j]]
    /\ UNCHANGED <<nextJob, delivery, enabled, worker, faultVars, histVars>>

(* The worker's process dies, or shuts down: its context is cancelled and  *)
(* every store call returns that error, so nothing is written either way.  *)
(* It is also the claim whose commit succeeded and whose answer was lost.  *)
Crash(w) ==
    /\ Busy(w)
    /\ FaultLeft
    /\ crashes' = crashes + 1
    /\ worker' = [worker EXCEPT ![w] = Idle]
    /\ UNCHANGED <<storeVars, errors, histVars>>

(* One unit of time.  A heartbeat that is due comes first, and a store     *)
(* call takes less than a unit.                                            *)
Tick ==
    /\ \A w \in Workers : Beating(w) => worker[w].beat < Heartbeat
    /\ \A w \in Workers : worker[w].phase # "reporting"
    /\ job' = [j \in JobIds |-> Aged(job[j])]
    /\ worker' = [w \in Workers |->
                    IF Beating(w) THEN [worker[w] EXCEPT !.beat = worker[w].beat + 1]
                                  ELSE worker[w]]
    /\ UNCHANGED <<nextJob, delivery, enabled, faultVars, histVars>>

-----------------------------------------------------------------------------
Init ==
    /\ job = [j \in JobIds |->
                [NewJob(CHOOSE t \in Tenants : TRUE, NoDelivery)
                     EXCEPT !.status = "none"]]
    /\ nextJob = 1
    /\ delivery = [d \in Deliveries |-> "absent"]
    /\ enabled = Tenants
    /\ worker = [w \in Workers |-> Idle]
    /\ crashes = 0
    /\ errors = 0
    /\ succeeded = [j \in JobIds |-> 0]
    /\ expired = {}

WorkerStep(w) ==
    \/ ClaimJob(w)
    \/ \E ok \in BOOLEAN : Process(w, ok)
    \/ Settle(w)
    \/ Report(w)
    \/ HeartbeatTick(w)

Next ==
    \/ \E d \in Deliveries, t \in Tenants : Webhook(d, t)
    \/ \E t \in Tenants : EnqueueForTenant(t)
    \/ \E t \in Tenants : SetTenantEnabled(t)
    \/ \E D \in SUBSET Deliveries, J \in SUBSET JobIds : Cleanup(D, J)
    \/ \E w \in Workers : WorkerStep(w)
    \/ \E w \in Workers : Crash(w)
    \/ RequeueStaleJobs
    \/ Tick

(* Every worker goroutine runs on, its heartbeat on its own; the external  *)
(* calls of a handler have timeouts, so it returns; the sweep has a ticker *)
(* and time passes.                                                        *)
Fairness ==
    /\ \A w \in Workers :
         /\ WF_vars(ClaimJob(w))
         /\ WF_vars(\E ok \in BOOLEAN : Process(w, ok))
         /\ WF_vars(Settle(w))
         /\ WF_vars(Report(w))
         /\ WF_vars(HeartbeatTick(w))
    /\ WF_vars(RequeueStaleJobs)
    /\ WF_vars(Tick)

Spec == Init /\ [][Next]_vars
FairSpec == Spec /\ Fairness

-----------------------------------------------------------------------------
(* Types of all variables. *)
TypeOK ==
    /\ job \in [JobIds -> JobRecord]
    /\ nextJob \in 1..(MaxJobs + 1)
    /\ delivery \in [Deliveries -> DeliveryStatus]
    /\ enabled \in SUBSET Tenants
    /\ worker \in [Workers -> WorkerRecord]
    /\ crashes \in 0..MaxFaults
    /\ errors \in 0..MaxFaults
    /\ succeeded \in [JobIds -> Nat]
    /\ expired \in SUBSET Deliveries

(* Two workers on the same job (one of them was given up by the sweep and  *)
(* does not know it yet) never hold the same lease, and the job answers to *)
(* the newest of them: an old holder can end or renew nothing.             *)
LeaseExclusive ==
    \A v, w \in Workers :
        (v # w /\ Busy(v) /\ Busy(w) /\ worker[v].task = worker[w].task) =>
            /\ worker[v].lease # worker[w].lease
            /\ ~(Holds(worker[v].task, worker[v].lease)
                 /\ Holds(worker[w].task, worker[w].lease))

(* jobLeaseHeartbeat against jobLeaseTimeout: as long as the renewals      *)
(* missed in a row, and the one under way, fit into the timeout, the sweep *)
(* takes no job away from a worker that is at it.                          *)
HealthyLeaseKept ==
    \A w \in Workers :
        (Beating(w) /\ (worker[w].missed + 1) * Heartbeat <= LeaseTimeout) =>
            Holds(worker[w].task, worker[w].lease)

(* What makes leases exclusive: the lease of a running job is its newest   *)
(* claim, a busy worker has one of the claims made so far, and no two busy *)
(* workers have the same.                                                  *)
LeaseInv ==
    /\ \A j \in JobIds :
          job[j].status = "running" => job[j].lockedBy = job[j].attempts
    /\ \A w \in Workers :
          Busy(w) => /\ worker[w].task \in JobIds
                     /\ worker[w].lease \in 1..job[worker[w].task].attempts
    /\ \A v, w \in Workers :
          (v # w /\ Busy(v) /\ Busy(w) /\ worker[v].task = worker[w].task) =>
              worker[v].lease # worker[w].lease

(* NextJobID is beyond every job that was ever created. *)
FreshInv ==
    \A j \in JobIds :
        IF j < nextJob
        THEN job[j].status # "none"
        ELSE job[j].status = "none" /\ job[j].attempts = 0
                                   /\ job[j].delivery = NoDelivery

(* A webhook delivered twice, also while a job made for it is retried or   *)
(* its worker dies, makes one job; and a delivery said to be "queued" has  *)
(* its job.  Retention is the exception: it drops the record by its own    *)
(* age, and a redelivery after that is new.                                *)
OneJobPerDelivery ==
    \A d \in Deliveries \ expired :
        /\ \A j, k \in JobIds :
              (job[j].delivery = d /\ job[k].delivery = d) => j = k
        /\ delivery[d] \in {"queued", "processed", "error"}
              <=> \E j \in JobIds : job[j].delivery = d

(* A verdict is about the last claim of the job: "done" means that this    *)
(* very run of the handler succeeded, "failed" that it did not and was the *)
(* last one allowed; and "processed" means that some run did succeed.      *)
VerdictsHonest ==
    /\ \A j \in JobIds :
          /\ job[j].status = "done" => succeeded[j] = job[j].attempts
          /\ job[j].status = "failed" =>
                succeeded[j] # job[j].attempts /\ job[j].attempts >= MaxAttempts
    /\ \A d \in Deliveries \ expired :
          delivery[d] = "processed" =>
              \E j \in JobIds : job[j].delivery = d /\ succeeded[j] # 0

(* FailJob stops at MaxAttempts, RequeueStaleJobs does not count: a job is *)
(* claimed once more for every worker that died on it and every write that *)
(* failed, and no more than that.                                          *)
AttemptsBoundedByFaults ==
    \A j \in JobIds : job[j].attempts <= MaxAttempts + crashes + errors

(* A queued or running job ends, or its tenant is disabled on the way: the *)
(* sweep finds the job of every lost worker and the backoff passes.        *)
EveryJobEnds ==
    \A j \in JobIds :
        job[j].status \in {"queued", "running"} ~>
            \/ job[j].status \in {"done", "failed", "removed"}
            \/ job[j].tenant \notin enabled

(* The queue keeps the promises of JobContract. *)
Verdict(j) ==
    IF job[j].status \in {"queued", "running"} THEN "pending" ELSE job[j].status

Contract == INSTANCE JobContract WITH
    taken <- {d \in Deliveries : delivery[d] # "absent"},
    origin <- [j \in JobIds |-> job[j].delivery],
    verdict <- [j \in JobIds |-> Verdict(j)]

ContractSpec == Contract!Spec
=============================================================================
