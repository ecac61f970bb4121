--------------------------- MODULE JobQueueProofs ---------------------------
(***************************************************************************)
(* What JobQueue guarantees for any number of jobs, deliveries, workers,   *)
(* tenants and faults, and for any timing that TimingAssumption allows.    *)
(***************************************************************************)
EXTENDS JobQueue, TLAPS

USE DEF JobIds, Origins, NoJob, NoLease, storeVars, faultVars, histVars

-----------------------------------------------------------------------------
(* Records are what they should be when they are created or reset. *)

LEMMA IdleType == Idle \in WorkerRecord
  BY DEF Idle, WorkerRecord

LEMMA NewJobType ==
  ASSUME NEW t \in Tenants, NEW d \in Origins
  PROVE  NewJob(t, d) \in JobRecord
  BY DEF NewJob, JobRecord, JobStatus

LEMMA ReturnedType ==
  ASSUME NEW j \in JobIds \cup {NoJob}, NEW l \in Nat, NEW ok \in BOOLEAN
  PROVE  Returned(j, l, ok) \in WorkerRecord
  BY DEF Returned, Idle, WorkerRecord

LEMMA ReleasedType ==
  ASSUME NEW r \in JobRecord, NEW s \in JobStatus
  PROVE  /\ Released(r, s) \in JobRecord
         /\ [r EXCEPT !.status = s] \in JobRecord
         /\ \A n \in Nat : [Released(r, s) EXCEPT !.delay = n] \in JobRecord
  BY DEF Released, JobRecord

LEMMA ClaimedType ==
  ASSUME NEW r \in JobRecord, NEW l \in Nat
  PROVE  /\ Claimed(r, l) \in JobRecord
         /\ [r EXCEPT !.leaseAge = 0] \in JobRecord
  BY DEF Claimed, JobRecord, JobStatus

LEMMA AgedType ==
  ASSUME NEW r \in JobRecord
  PROVE  Aged(r) \in JobRecord
  <1> DEFINE age == IF r.status = "running" /\ r.leaseAge <= LeaseTimeout
                    THEN r.leaseAge + 1 ELSE r.leaseAge
             rest == IF r.delay > 0 THEN r.delay - 1 ELSE 0
  <1>1. age \in Nat /\ rest \in Nat
    BY TimingAssumption DEF JobRecord
  <1> HIDE DEF age, rest
  <1>2. [r EXCEPT !.leaseAge = age, !.delay = rest] \in JobRecord
    BY <1>1 DEF JobRecord
  <1>3. QED
    BY <1>2 DEF Aged, age, rest

LEMMA WorkerUpdateType ==
  ASSUME NEW r \in WorkerRecord, NEW ok \in BOOLEAN, NEW n \in Nat
  PROVE  /\ [r EXCEPT !.phase = "settling", !.ok = ok] \in WorkerRecord
         /\ [r EXCEPT !.beat = n] \in WorkerRecord
         /\ [r EXCEPT !.beat = 0, !.missed = n] \in WorkerRecord
         /\ [r EXCEPT !.cancelled = TRUE, !.beat = 0, !.missed = 0] \in WorkerRecord
  BY DEF WorkerRecord

-----------------------------------------------------------------------------
(* Type correctness. *)

LEMMA InitType == Init => TypeOK
  <1> SUFFICES ASSUME Init PROVE TypeOK
    OBVIOUS
  <1> DEFINE t0 == CHOOSE t \in Tenants : TRUE
  <1>1. t0 \in Tenants
    BY NamesAssumption
  <1>2. job \in [JobIds -> JobRecord]
    BY <1>1 DEF Init, NewJob, JobRecord, JobStatus
  <1>3. worker \in [Workers -> WorkerRecord]
    BY IdleType DEF Init
  <1>4. QED
    BY <1>2, <1>3, BoundsAssumption DEF Init, TypeOK, DeliveryStatus

LEMMA WorkerStepType ==
  ASSUME TypeOK, NEW w \in Workers, WorkerStep(w)
  PROVE  TypeOK'
  <1> USE DEF TypeOK
  <1>1. CASE ClaimJob(w)
    <2>1. PICK j \in JobIds :
            /\ job' = [job EXCEPT ![j] = Claimed(@, job[j].attempts + 1)]
            /\ worker' = [worker EXCEPT ![w] =
                  [Idle EXCEPT !.phase = "working", !.task = j,
                               !.lease = job[j].attempts + 1]]
      BY <1>1 DEF ClaimJob, Claimable
    <2>. DEFINE lease == job[j].attempts + 1
    <2>2. lease \in Nat
      BY DEF JobRecord
    <2>3. job' \in [JobIds -> JobRecord]
      BY <2>1, <2>2, ClaimedType
    <2>4. [Idle EXCEPT !.phase = "working", !.task = j, !.lease = lease]
             \in WorkerRecord
      BY <2>2 DEF WorkerRecord, Idle
    <2>5. worker' \in [Workers -> WorkerRecord]
      BY <2>1, <2>4
    <2>6. QED
      BY <1>1, <2>3, <2>5 DEF ClaimJob
  <1>2. ASSUME NEW ok \in BOOLEAN, Process(w, ok)
        PROVE  TypeOK'
    <2>1. worker' \in [Workers -> WorkerRecord]
      <3>1. /\ worker[w].task \in JobIds \cup {NoJob}
            /\ worker[w].lease \in Nat
        BY DEF WorkerRecord
      <3>2. QED
        BY <1>2, <3>1, ReturnedType, WorkerUpdateType DEF Process
    <2>2. succeeded' \in [JobIds -> Nat]
      BY <1>2 DEF Process, WorkerRecord
    <2>3. QED
      BY <1>2, <2>1, <2>2 DEF Process
  <1>3. CASE Settle(w)
    <2>1. worker' \in [Workers -> WorkerRecord]
      BY <1>3, ReturnedType DEF Settle, WorkerRecord
    <2>2. delivery' \in [Deliveries -> DeliveryStatus]
      BY <1>3 DEF Settle, UpdateDelivery, DeliveryStatus
    <2>3. errors' \in 0..MaxFaults
      BY <1>3, BoundsAssumption DEF Settle, FaultLeft
    <2>4. QED
      BY <1>3, <2>1, <2>2, <2>3 DEF Settle
  <1>4. CASE Report(w)
    <2>1. worker' \in [Workers -> WorkerRecord]
      BY <1>4, IdleType DEF Report
    <2>2. job' \in [JobIds -> JobRecord]
      <3>1. worker[w].lease \in Nat
        BY DEF WorkerRecord
      <3>2. CASE job' = job
        BY <3>2
      <3>3. CASE CompleteJob(worker[w].task, worker[w].lease)
        BY <3>3, ReleasedType DEF CompleteJob, JobStatus
      <3>4. CASE FailJob(worker[w].task, worker[w].lease, worker[w].lease)
        <4>1. worker[w].lease * worker[w].lease * BackoffStep \in Nat
          BY <3>1, TimingAssumption
        <4>2. QED
          BY <3>4, <4>1, ReleasedType DEF FailJob, FailStatus, JobStatus
      <3>5. QED
        BY <1>4, <3>2, <3>3, <3>4 DEF Report
    <2>3. errors' \in 0..MaxFaults
      BY <1>4, BoundsAssumption DEF Report, FaultLeft
    <2>4. QED
      BY <1>4, <2>1, <2>2, <2>3 DEF Report
  <1>5. CASE HeartbeatTick(w)
    <2>1. worker' \in [Workers -> WorkerRecord]
      <3>1. 0 \in Nat /\ worker[w].missed + 1 \in Nat
        BY DEF WorkerRecord
      <3>2. /\ [worker[w] EXCEPT !.beat = 0, !.missed = 0] \in WorkerRecord
            /\ [worker[w] EXCEPT !.cancelled = TRUE, !.beat = 0, !.missed = 0]
                  \in WorkerRecord
            /\ [worker[w] EXCEPT !.beat = 0, !.missed = worker[w].missed + 1]
                  \in WorkerRecord
        BY <3>1, WorkerUpdateType
      <3>3. PICK r \in WorkerRecord : worker' = [worker EXCEPT ![w] = r]
        BY <1>5, <3>2, Zenon DEF HeartbeatTick, RenewJobLease
      <3>4. QED
        BY <3>3
    <2>2. job' \in [JobIds -> JobRecord]
      BY <1>5, ClaimedType DEF HeartbeatTick, RenewJobLease
    <2>3. errors' \in 0..MaxFaults
      BY <1>5, BoundsAssumption DEF HeartbeatTick, FaultLeft
    <2>4. QED
      BY <1>5, <2>1, <2>2, <2>3 DEF HeartbeatTick
  <1>6. QED
    BY <1>1, <1>2, <1>3, <1>4, <1>5 DEF WorkerStep

LEMMA NextType == TypeOK /\ [Next]_vars => TypeOK'
  <1> SUFFICES ASSUME TypeOK, [Next]_vars PROVE TypeOK'
    OBVIOUS
  <1> USE DEF TypeOK
  <1>1. ASSUME NEW d \in Deliveries, NEW t \in Tenants, Webhook(d, t)
        PROVE  TypeOK'
    <2>1. CASE EnqueueDeliveryForTenant(d, t)
      BY <1>1, <2>1, NewJobType, BoundsAssumption
         DEF Webhook, EnqueueDeliveryForTenant, DeliveryStatus
    <2>2. CASE RecordTerminalDelivery(d)
      BY <1>1, <2>2 DEF Webhook, RecordTerminalDelivery, DeliveryStatus
    <2>3. QED
      BY <1>1, <2>1, <2>2 DEF Webhook
  <1>2. ASSUME NEW t \in Tenants, EnqueueForTenant(t)
        PROVE  TypeOK'
    BY <1>2, NewJobType, BoundsAssumption DEF EnqueueForTenant
  <1>3. ASSUME NEW t \in Tenants, SetTenantEnabled(t)
        PROVE  TypeOK'
    BY <1>3 DEF SetTenantEnabled
  <1>4. ASSUME NEW D \in SUBSET Deliveries, NEW J \in SUBSET JobIds, Cleanup(D, J)
        PROVE  TypeOK'
    <2>1. job' \in [JobIds -> JobRecord]
      BY <1>4, ReleasedType DEF Cleanup, JobStatus
    <2>2. delivery' \in [Deliveries -> DeliveryStatus]
      BY <1>4 DEF Cleanup, DeliveryStatus
    <2>3. QED
      BY <1>4, <2>1, <2>2 DEF Cleanup
  <1>5. ASSUME NEW w \in Workers, WorkerStep(w)
        PROVE  TypeOK'
    BY <1>5, WorkerStepType
  <1>6. ASSUME NEW w \in Workers, Crash(w)
        PROVE  TypeOK'
    BY <1>6, IdleType, BoundsAssumption DEF Crash, FaultLeft
  <1>7. CASE RequeueStaleJobs
    BY <1>7, ReleasedType DEF RequeueStaleJobs, JobStatus
  <1>8. CASE Tick
    <2>1. job' \in [JobIds -> JobRecord]
      BY <1>8, AgedType DEF Tick
    <2>2. worker' \in [Workers -> WorkerRecord]
      <3>1. \A w \in Workers : worker[w].beat + 1 \in Nat
        BY DEF WorkerRecord
      <3>2. QED
        BY <1>8, <3>1, WorkerUpdateType DEF Tick
    <2>3. QED
      BY <1>8, <2>1, <2>2 DEF Tick
  <1>9. CASE UNCHANGED vars
    BY <1>9 DEF vars
  <1>10. QED
    BY <1>1, <1>2, <1>3, <1>4, <1>5, <1>6, <1>7, <1>8, <1>9 DEF Next

(* Every variable keeps its type, for every value of the constants. *)
THEOREM TypeCorrect == Spec => []TypeOK
  BY InitType, NextType, PTL DEF Spec

-----------------------------------------------------------------------------
(* Leases.  The steps that create a job, and those that touch the status,  *)
(* the token or the age of a job and the task of no worker, are two lemmas *)
(* of their own.                                                           *)

LEMMA NewJobLeases ==
  ASSUME TypeOK, LeaseInv, FreshInv,
         NEW t \in Tenants, NEW d \in Origins, nextJob <= MaxJobs,
         job' = [job EXCEPT ![nextJob] = NewJob(t, d)],
         nextJob' = nextJob + 1, UNCHANGED worker
  PROVE  LeaseInv' /\ FreshInv'
  <1>1. nextJob \in JobIds /\ MaxJobs \in Nat
    BY BoundsAssumption DEF TypeOK
  <1>2. \A j \in JobIds :
           /\ j # nextJob => job'[j] = job[j]
           /\ j = nextJob => job'[j].status = "queued"
    BY <1>1 DEF TypeOK, NewJob
  <1>3. \A w \in Workers : Busy(w) => worker[w].task # nextJob
    BY <1>1 DEF LeaseInv, FreshInv
  <1>4. LeaseInv'
    BY <1>2, <1>3 DEF LeaseInv, Busy
  <1>5. FreshInv'
    BY <1>1, <1>2 DEF FreshInv
  <1>6. QED
    BY <1>4, <1>5

LEMMA JobOnlyLeases ==
  ASSUME TypeOK, LeaseInv, FreshInv, UNCHANGED <<worker, nextJob>>,
         \A j \in JobIds :
            /\ job'[j].attempts = job[j].attempts
            /\ job'[j].delivery = job[j].delivery
            /\ job'[j].status = "none" <=> job[j].status = "none"
            /\ job'[j].status = "running" =>
                  job[j].status = "running" /\ job'[j].lockedBy = job[j].lockedBy
  PROVE  LeaseInv' /\ FreshInv'
  <1>1. LeaseInv'
    BY DEF LeaseInv, Busy
  <1>2. FreshInv'
    BY DEF FreshInv
  <1>3. QED
    BY <1>1, <1>2

(* What the worker that keeps its task leaves alone, or the one that ends. *)
LEMMA WorkerOnlyLeases ==
  ASSUME TypeOK, LeaseInv, FreshInv, NEW w \in Workers, UNCHANGED nextJob,
         \A j \in JobIds :
            /\ job'[j].attempts = job[j].attempts
            /\ job'[j].delivery = job[j].delivery
            /\ job'[j].status = "none" <=> job[j].status = "none"
            /\ job'[j].status = "running" =>
                  job[j].status = "running" /\ job'[j].lockedBy = job[j].lockedBy,
         \A v \in Workers : v # w => worker'[v] = worker[v],
         \/ worker'[w].phase = "idle"
         \/ /\ worker[w].phase # "idle"
            /\ worker'[w].task = worker[w].task
            /\ worker'[w].lease = worker[w].lease
  PROVE  LeaseInv' /\ FreshInv'
  <1>1. LeaseInv'
    <2>1. \A j \in JobIds :
             job'[j].status = "running" => job'[j].lockedBy = job'[j].attempts
      BY DEF LeaseInv
    <2>2. \A v \in Workers :
             Busy(v)' => /\ Busy(v)
                         /\ worker'[v].task = worker[v].task
                         /\ worker'[v].lease = worker[v].lease
      BY DEF Busy
    <2>3. QED
      BY <2>1, <2>2 DEF LeaseInv
  <1>2. FreshInv'
    BY DEF FreshInv
  <1>3. QED
    BY <1>1, <1>2

LEMMA ClaimLeases ==
  ASSUME TypeOK, LeaseInv, FreshInv, NEW w \in Workers, ClaimJob(w)
  PROVE  LeaseInv' /\ FreshInv'
  <1>1. PICK j \in JobIds :
          /\ job[j].status = "queued"
          /\ job' = [job EXCEPT ![j] = Claimed(@, job[j].attempts + 1)]
          /\ worker' = [worker EXCEPT ![w] =
                [Idle EXCEPT !.phase = "working", !.task = j,
                             !.lease = job[j].attempts + 1]]
    BY DEF ClaimJob, Claimable
  <1>2. /\ job[j].attempts \in Nat
        /\ job'[j].attempts = job[j].attempts + 1
        /\ job'[j].lockedBy = job[j].attempts + 1
        /\ job'[j].status = "running"
        /\ job'[j].delivery = job[j].delivery
    BY <1>1 DEF TypeOK, JobRecord, Claimed
  <1>3. \A k \in JobIds : k # j => job'[k] = job[k]
    BY <1>1 DEF TypeOK
  <1>4. /\ worker'[w].task = j
        /\ worker'[w].lease = job[j].attempts + 1
        /\ \A v \in Workers : v # w => worker'[v] = worker[v]
    BY <1>1 DEF TypeOK, Idle
  <1>5. \A k \in JobIds : job[k].attempts \in Nat
    BY DEF TypeOK, JobRecord
  <1>6. \A v \in Workers : Busy(v) /\ worker[v].task = j =>
           worker[v].lease \in 1..job[j].attempts
    BY DEF LeaseInv
  <1>7. ASSUME NEW v \in Workers, Busy(v)'
        PROVE  /\ worker'[v].task \in JobIds
               /\ worker'[v].lease \in 1..job'[worker'[v].task].attempts
    <2>1. CASE v = w
      BY <2>1, <1>2, <1>4
    <2>2. CASE v # w
      <3>1. Busy(v) /\ worker'[v] = worker[v]
        BY <1>4, <1>7, <2>2 DEF Busy
      <3>2. worker[v].task \in JobIds
            /\ worker[v].lease \in 1..job[worker[v].task].attempts
        BY <3>1 DEF LeaseInv
      <3>3. QED
        BY <3>1, <3>2, <1>2, <1>3, <1>5
    <2>3. QED
      BY <2>1, <2>2
  <1>8. ASSUME NEW u \in Workers, NEW v \in Workers, u # v, Busy(u)', Busy(v)',
               worker'[u].task = worker'[v].task
        PROVE  worker'[u].lease # worker'[v].lease
    <2>1. CASE u = w
      BY <2>1, <1>2, <1>4, <1>6, <1>8 DEF Busy
    <2>2. CASE v = w
      BY <2>2, <1>2, <1>4, <1>6, <1>8 DEF Busy
    <2>3. CASE u # w /\ v # w
      BY <2>3, <1>4, <1>8 DEF Busy, LeaseInv
    <2>4. QED
      BY <2>1, <2>2, <2>3
  <1>9. \A k \in JobIds :
           job'[k].status = "running" => job'[k].lockedBy = job'[k].attempts
    BY <1>2, <1>3 DEF LeaseInv
  <1>10. LeaseInv'
    BY <1>7, <1>8, <1>9 DEF LeaseInv
  <1>11. FreshInv'
    <2>1. nextJob' = nextJob /\ j < nextJob
      BY <1>1 DEF FreshInv, ClaimJob
    <2>2. QED
      BY <2>1, <1>2, <1>3 DEF FreshInv
  <1>12. QED
    BY <1>10, <1>11

LEMMA WorkerStepLeases ==
  ASSUME TypeOK, LeaseInv, FreshInv, NEW w \in Workers, WorkerStep(w)
  PROVE  LeaseInv' /\ FreshInv'
  <1>1. CASE ClaimJob(w)
    BY <1>1, ClaimLeases
  <1>2. ASSUME NEW ok \in BOOLEAN, Process(w, ok)
        PROVE  LeaseInv' /\ FreshInv'
    BY <1>2, WorkerOnlyLeases DEF Process, Returned, Idle, TypeOK, WorkerRecord
  <1>3. CASE Settle(w)
    BY <1>3, WorkerOnlyLeases DEF Settle, Returned, Idle, TypeOK, WorkerRecord
  <1>4. CASE Report(w)
    <2>1. \A j \in JobIds :
            /\ job'[j].attempts = job[j].attempts
            /\ job'[j].delivery = job[j].delivery
            /\ job'[j].status = "none" <=> job[j].status = "none"
            /\ job'[j].status = "running" =>
                  job[j].status = "running" /\ job'[j].lockedBy = job[j].lockedBy
      <3> DEFINE i == worker[w].task
                 done == Released(job[i], "done")
                 waiting == [Released(job[i], FailStatus(worker[w].lease)) EXCEPT
                               !.delay = worker[w].lease * worker[w].lease * BackoffStep]
      <3>1. CASE job' = job
        BY <3>1
      <3>2. CASE job[i].status = "running" /\ job' = [job EXCEPT ![i] = done]
        <4>1. \A r \in JobRecord : /\ Released(r, "done").attempts = r.attempts
                                   /\ Released(r, "done").delivery = r.delivery
                                   /\ Released(r, "done").status = "done"
          BY DEF Released, JobRecord
        <4>2. QED
          BY <3>2, <4>1 DEF TypeOK
      <3>3. CASE job[i].status = "running" /\ job' = [job EXCEPT ![i] = waiting]
        <4>1. \A r \in JobRecord, s \in {"failed", "queued"}, n \in Nat :
                 LET x == [Released(r, s) EXCEPT !.delay = n] IN
                 x.attempts = r.attempts /\ x.delivery = r.delivery /\ x.status = s
          BY DEF Released, JobRecord
        <4>2. /\ FailStatus(worker[w].lease) \in {"failed", "queued"}
              /\ worker[w].lease * worker[w].lease * BackoffStep \in Nat
          BY TimingAssumption DEF FailStatus, TypeOK, WorkerRecord
        <4>3. i \in JobIds => /\ waiting.attempts = job[i].attempts
                              /\ waiting.delivery = job[i].delivery
                              /\ waiting.status \in {"failed", "queued"}
          BY <4>1, <4>2 DEF TypeOK
        <4> HIDE DEF waiting
        <4>4. QED
          BY <3>3, <4>3 DEF TypeOK
      <3>4. QED
        BY <1>4, <3>1, <3>2, <3>3, Zenon DEF Report, CompleteJob, FailJob, Holds
    <2>2. QED
      BY <1>4, <2>1, WorkerOnlyLeases DEF Report, Idle, TypeOK
  <1>5. CASE HeartbeatTick(w)
    <2>1. \A j \in JobIds :
            /\ job'[j].attempts = job[j].attempts
            /\ job'[j].delivery = job[j].delivery
            /\ job'[j].status = job[j].status
            /\ job'[j].lockedBy = job[j].lockedBy
      <3> DEFINE i == worker[w].task
                 renewed == [job[i] EXCEPT !.leaseAge = 0]
      <3>1. job' = job \/ job' = [job EXCEPT ![i] = renewed]
        BY <1>5, Zenon DEF HeartbeatTick, RenewJobLease
      <3>2. i \in JobIds => /\ renewed.attempts = job[i].attempts
                            /\ renewed.delivery = job[i].delivery
                            /\ renewed.status = job[i].status
                            /\ renewed.lockedBy = job[i].lockedBy
        BY DEF TypeOK, JobRecord
      <3> HIDE DEF renewed
      <3>3. QED
        BY <3>1, <3>2 DEF TypeOK
    <2>2. /\ worker[w].phase # "idle"
          /\ worker'[w].task = worker[w].task
          /\ worker'[w].lease = worker[w].lease
          /\ \A v \in Workers : v # w => worker'[v] = worker[v]
      BY <1>5 DEF HeartbeatTick, RenewJobLease, TypeOK, WorkerRecord, Beating
    <2>3. QED
      BY <1>5, <2>1, <2>2, WorkerOnlyLeases DEF HeartbeatTick
  <1>6. QED
    BY <1>1, <1>2, <1>3, <1>4, <1>5 DEF WorkerStep

LEMMA NextLeases ==
  TypeOK /\ LeaseInv /\ FreshInv /\ [Next]_vars => LeaseInv' /\ FreshInv'
  <1> SUFFICES ASSUME TypeOK, LeaseInv, FreshInv, [Next]_vars
               PROVE  LeaseInv' /\ FreshInv'
    OBVIOUS
  <1>1. ASSUME NEW d \in Deliveries, NEW t \in Tenants, Webhook(d, t)
        PROVE  LeaseInv' /\ FreshInv'
    <2>1. CASE EnqueueDeliveryForTenant(d, t)
      BY <1>1, <2>1, NewJobLeases DEF Webhook, EnqueueDeliveryForTenant
    <2>2. CASE RecordTerminalDelivery(d)
      BY <1>1, <2>2 DEF Webhook, RecordTerminalDelivery, LeaseInv, FreshInv, Busy
    <2>3. QED
      BY <1>1, <2>1, <2>2 DEF Webhook
  <1>2. ASSUME NEW t \in Tenants, EnqueueForTenant(t)
        PROVE  LeaseInv' /\ FreshInv'
    BY <1>2, NewJobLeases DEF EnqueueForTenant
  <1>3. ASSUME NEW t \in Tenants, SetTenantEnabled(t)
        PROVE  LeaseInv' /\ FreshInv'
    BY <1>3 DEF SetTenantEnabled, LeaseInv, FreshInv, Busy
  <1>4. ASSUME NEW D \in SUBSET Deliveries, NEW J \in SUBSET JobIds, Cleanup(D, J)
        PROVE  LeaseInv' /\ FreshInv'
    BY <1>4, JobOnlyLeases DEF Cleanup, Finished, TypeOK, JobRecord
  <1>5. ASSUME NEW w \in Workers, WorkerStep(w)
        PROVE  LeaseInv' /\ FreshInv'
    BY <1>5, WorkerStepLeases
  <1>6. ASSUME NEW w \in Workers, Crash(w)
        PROVE  LeaseInv' /\ FreshInv'
    BY <1>6, WorkerOnlyLeases DEF Crash, Idle, TypeOK
  <1>7. CASE RequeueStaleJobs
    BY <1>7, JobOnlyLeases DEF RequeueStaleJobs, Stale, Released, TypeOK, JobRecord
  <1>8. CASE Tick
    <2>1. \A j \in JobIds :
            /\ job'[j].attempts = job[j].attempts
            /\ job'[j].delivery = job[j].delivery
            /\ job'[j].status = job[j].status
            /\ job'[j].lockedBy = job[j].lockedBy
      BY <1>8 DEF Tick, Aged, TypeOK, JobRecord
    <2>2. \A v \in Workers : /\ worker'[v].phase = worker[v].phase
                             /\ worker'[v].task = worker[v].task
                             /\ worker'[v].lease = worker[v].lease
      BY <1>8 DEF Tick, TypeOK, WorkerRecord
    <2>3. LeaseInv'
      BY <2>1, <2>2 DEF LeaseInv, Busy
    <2>4. FreshInv'
      BY <1>8, <2>1 DEF FreshInv, Tick
    <2>5. QED
      BY <2>3, <2>4
  <1>9. CASE UNCHANGED vars
    BY <1>9 DEF vars, LeaseInv, FreshInv, Busy
  <1>10. QED
    BY <1>1, <1>2, <1>3, <1>4, <1>5, <1>6, <1>7, <1>8, <1>9 DEF Next

LEMMA InitLeases == Init => LeaseInv /\ FreshInv
  <1> SUFFICES ASSUME Init PROVE LeaseInv /\ FreshInv
    OBVIOUS
  <1>1. \A j \in JobIds : /\ job[j].status = "none"
                          /\ job[j].attempts = 0
                          /\ job[j].delivery = NoDelivery
    BY DEF Init, NewJob
  <1>2. \A w \in Workers : worker[w].phase = "idle"
    BY DEF Init, Idle
  <1>3. LeaseInv
    BY <1>1, <1>2 DEF LeaseInv, Busy
  <1>4. FreshInv
    BY <1>1, BoundsAssumption DEF FreshInv, Init
  <1>5. QED
    BY <1>3, <1>4

LEMMA LeasesInvariant == Spec => [](TypeOK /\ LeaseInv /\ FreshInv)
  BY InitType, NextType, InitLeases, NextLeases, PTL DEF Spec

(* No two workers ever hold the same lease, however many of them were      *)
(* given up by the sweep and are still at it.                              *)
THEOREM LeasesExclusive == Spec => []LeaseExclusive
  <1>1. LeaseInv => LeaseExclusive
    BY DEF LeaseInv, LeaseExclusive, Holds
  <1>2. QED
    BY <1>1, LeasesInvariant, PTL
-----------------------------------------------------------------------------
(* Deliveries. *)

(* What a step may do to keep one job per delivery when it creates none:   *)
(* records come and go as "absent", or change between the other statuses.  *)
LEMMA SameJobsOneJob ==
  ASSUME TypeOK, OneJobPerDelivery,
         \A j \in JobIds : job'[j].delivery = job[j].delivery,
         expired \subseteq expired',
         \A d \in Deliveries \ expired' :
            delivery'[d] \in {"queued", "processed", "error"}
              <=> delivery[d] \in {"queued", "processed", "error"}
  PROVE  OneJobPerDelivery'
  BY DEF OneJobPerDelivery

LEMMA NewJobOneJob ==
  ASSUME TypeOK, FreshInv, OneJobPerDelivery, UNCHANGED expired,
         NEW t \in Tenants, NEW o \in Origins, nextJob <= MaxJobs,
         job' = [job EXCEPT ![nextJob] = NewJob(t, o)],
         \/ o = NoDelivery /\ delivery' = delivery
         \/ /\ o \in Deliveries
            /\ delivery[o] = "absent"
            /\ delivery' = [delivery EXCEPT ![o] = "queued"]
  PROVE  OneJobPerDelivery'
  <1>1. /\ nextJob \in JobIds
        /\ job[nextJob].delivery = NoDelivery
        /\ NoDelivery \notin Deliveries
    BY BoundsAssumption, NamesAssumption DEF TypeOK, FreshInv
  <1>2. /\ job'[nextJob].delivery = o
        /\ \A j \in JobIds : j # nextJob => job'[j].delivery = job[j].delivery
    BY <1>1 DEF TypeOK, NewJob
  <1>3. CASE o = NoDelivery /\ delivery' = delivery
    <2>1. \A j \in JobIds : job'[j].delivery = job[j].delivery
      BY <1>1, <1>2, <1>3
    <2>2. QED
      BY <1>3, <2>1, SameJobsOneJob
  <1>4. CASE /\ o \in Deliveries
             /\ delivery[o] = "absent"
             /\ delivery' = [delivery EXCEPT ![o] = "queued"]
    <2>1. delivery'[o] = "queued" /\ \A d \in Deliveries : d # o => delivery'[d] = delivery[d]
      BY <1>4 DEF TypeOK
    <2>2. o \notin expired => \A j \in JobIds : job[j].delivery # o
      BY <1>4 DEF OneJobPerDelivery
    <2>3. QED
      BY <1>1, <1>2, <1>4, <2>1, <2>2 DEF OneJobPerDelivery
  <1>5. QED
    BY <1>3, <1>4

(* A step of a worker touches no origin, and a delivery record only when   *)
(* it settles it.                                                          *)
LEMMA WorkerStepOrigins ==
  ASSUME TypeOK, NEW w \in Workers, WorkerStep(w)
  PROVE  \A j \in JobIds : job'[j].delivery = job[j].delivery
  <1>1. CASE ClaimJob(w)
    <2>1. PICK j \in JobIds : job' = [job EXCEPT ![j] = Claimed(@, job[j].attempts + 1)]
      BY <1>1 DEF ClaimJob, Claimable
    <2>2. \A r \in JobRecord, n \in Nat : Claimed(r, n).delivery = r.delivery
      BY DEF Claimed, JobRecord
    <2>3. job[j].attempts + 1 \in Nat
      BY DEF TypeOK, JobRecord
    <2>4. QED
      BY <2>1, <2>2, <2>3 DEF TypeOK
  <1>2. CASE Report(w)
    <2>1. CASE job' = job
      BY <2>1
    <2> DEFINE i == worker[w].task
               waiting == [Released(job[i], FailStatus(worker[w].lease)) EXCEPT
                             !.delay = worker[w].lease * worker[w].lease * BackoffStep]
    <2>2. CASE job' = [job EXCEPT ![i] = Released(@, "done")]
      BY <2>2 DEF Released, TypeOK, JobRecord
    <2>3. CASE job' = [job EXCEPT ![i] = waiting]
      <3>1. i \in JobIds => waiting.delivery = job[i].delivery
        BY DEF Released, TypeOK, JobRecord
      <3> HIDE DEF waiting
      <3>2. QED
        BY <2>3, <3>1 DEF TypeOK
    <2>4. QED
      BY <1>2, <2>1, <2>2, <2>3, Zenon DEF Report, CompleteJob, FailJob
  <1>3. CASE HeartbeatTick(w)
    <2> DEFINE i == worker[w].task
               renewed == [job[i] EXCEPT !.leaseAge = 0]
    <2>1. job' = job \/ job' = [job EXCEPT ![i] = renewed]
      BY <1>3, Zenon DEF HeartbeatTick, RenewJobLease
    <2>2. i \in JobIds => renewed.delivery = job[i].delivery
      BY DEF TypeOK, JobRecord
    <2> HIDE DEF renewed
    <2>3. QED
      BY <2>1, <2>2 DEF TypeOK
  <1>4. QED
    BY <1>1, <1>2, <1>3, Zenon DEF WorkerStep, Process, Settle

LEMMA SettleOneJob ==
  ASSUME TypeOK, LeaseInv, OneJobPerDelivery, NEW w \in Workers, Settle(w)
  PROVE  OneJobPerDelivery'
  <1> DEFINE d == job[worker[w].task].delivery
  <1>1. CASE delivery' = delivery
    BY <1>1, SameJobsOneJob DEF Settle
  <1>2. CASE UpdateDelivery(d, worker[w].ok)
    <2>1. worker[w].task \in JobIds
      BY DEF Settle, LeaseInv, Busy
    <2>2. CASE d \in Deliveries \ expired
      <3>1. delivery[d] \in {"queued", "processed", "error"}
        BY <2>1, <2>2 DEF OneJobPerDelivery
      <3>2. \A e \in Deliveries :
               \/ delivery'[e] = delivery[e]
               \/ e = d /\ delivery'[e] \in {"processed", "error"}
        BY <1>2 DEF UpdateDelivery, TypeOK
      <3>3. QED
        BY <3>1, <3>2, SameJobsOneJob DEF Settle
    <2>3. CASE d \notin Deliveries \ expired
      <3>1. \A e \in Deliveries \ expired : delivery'[e] = delivery[e]
        BY <1>2, <2>3 DEF UpdateDelivery, TypeOK
      <3>2. QED
        BY <3>1, SameJobsOneJob DEF Settle
    <2>4. QED
      BY <2>2, <2>3
  <1>3. QED
    BY <1>1, <1>2, Zenon DEF Settle

LEMMA NextOneJob ==
  TypeOK /\ LeaseInv /\ FreshInv /\ OneJobPerDelivery /\ [Next]_vars
     => OneJobPerDelivery'
  <1> SUFFICES ASSUME TypeOK, LeaseInv, FreshInv, OneJobPerDelivery, [Next]_vars
               PROVE  OneJobPerDelivery'
    OBVIOUS
  <1>1. ASSUME NEW d \in Deliveries, NEW t \in Tenants, Webhook(d, t)
        PROVE  OneJobPerDelivery'
    <2>1. CASE EnqueueDeliveryForTenant(d, t)
      BY <1>1, <2>1, NewJobOneJob DEF Webhook, EnqueueDeliveryForTenant
    <2>2. CASE RecordTerminalDelivery(d)
      <3>1. \A e \in Deliveries :
               \/ delivery'[e] = delivery[e]
               \/ delivery[e] = "absent" /\ delivery'[e] = "ignored"
        BY <2>2 DEF RecordTerminalDelivery, TypeOK
      <3>2. \A e \in Deliveries :
               delivery'[e] \in {"queued", "processed", "error"}
                 <=> delivery[e] \in {"queued", "processed", "error"}
        BY <3>1
      <3>3. job' = job /\ expired' = expired
        BY <1>1, <2>2 DEF Webhook, RecordTerminalDelivery
      <3>4. QED
        BY <3>2, <3>3, SameJobsOneJob
    <2>3. QED
      BY <1>1, <2>1, <2>2 DEF Webhook
  <1>2. ASSUME NEW t \in Tenants, EnqueueForTenant(t)
        PROVE  OneJobPerDelivery'
    BY <1>2, NewJobOneJob DEF EnqueueForTenant
  <1>3. ASSUME NEW t \in Tenants, SetTenantEnabled(t)
        PROVE  OneJobPerDelivery'
    BY <1>3 DEF SetTenantEnabled, OneJobPerDelivery
  <1>4. ASSUME NEW D \in SUBSET Deliveries, NEW J \in SUBSET JobIds, Cleanup(D, J)
        PROVE  OneJobPerDelivery'
    <2>1. \A j \in JobIds : job'[j].delivery = job[j].delivery
      BY <1>4 DEF Cleanup, TypeOK, JobRecord
    <2>2. \A d \in Deliveries \ expired' : delivery'[d] = delivery[d]
      BY <1>4 DEF Cleanup
    <2>3. QED
      BY <1>4, <2>1, <2>2, SameJobsOneJob DEF Cleanup
  <1>5. ASSUME NEW w \in Workers, WorkerStep(w)
        PROVE  OneJobPerDelivery'
    <2>1. CASE Settle(w)
      BY <2>1, SettleOneJob
    <2>2. CASE UNCHANGED <<delivery, expired>>
      BY <1>5, <2>2, WorkerStepOrigins, SameJobsOneJob
    <2>3. ASSUME NEW ok \in BOOLEAN, Process(w, ok)
          PROVE  UNCHANGED <<delivery, expired>>
      BY <2>3 DEF Process
    <2>4. ClaimJob(w) => UNCHANGED <<delivery, expired>>
      BY DEF ClaimJob
    <2>5. Report(w) => UNCHANGED <<delivery, expired>>
      BY DEF Report
    <2>6. HeartbeatTick(w) => UNCHANGED <<delivery, expired>>
      BY DEF HeartbeatTick
    <2>7. QED
      BY <1>5, <2>1, <2>2, <2>3, <2>4, <2>5, <2>6 DEF WorkerStep
  <1>6. ASSUME NEW w \in Workers, Crash(w)
        PROVE  OneJobPerDelivery'
    BY <1>6 DEF Crash, OneJobPerDelivery
  <1>7. CASE RequeueStaleJobs
    <2>1. \A j \in JobIds : job'[j].delivery = job[j].delivery
      BY <1>7 DEF RequeueStaleJobs, Released, TypeOK, JobRecord
    <2>2. QED
      BY <1>7, <2>1, SameJobsOneJob DEF RequeueStaleJobs
  <1>8. CASE Tick
    <2>1. \A j \in JobIds : job'[j].delivery = job[j].delivery
      BY <1>8 DEF Tick, Aged, TypeOK, JobRecord
    <2>2. QED
      BY <1>8, <2>1, SameJobsOneJob DEF Tick
  <1>9. CASE UNCHANGED vars
    BY <1>9 DEF vars, OneJobPerDelivery
  <1>10. QED
    BY <1>1, <1>2, <1>3, <1>4, <1>5, <1>6, <1>7, <1>8, <1>9 DEF Next

(* However often a webhook is delivered, and whatever fails while its job  *)
(* runs, one job is made for it as long as its record is kept.             *)
THEOREM DeliveriesTakenOnce == Spec => []OneJobPerDelivery
  <1>1. Init => OneJobPerDelivery
    <2> SUFFICES ASSUME Init PROVE OneJobPerDelivery
      OBVIOUS
    <2>1. \A j \in JobIds : job[j].delivery = NoDelivery
      BY DEF Init, NewJob
    <2>2. \A d \in Deliveries : delivery[d] = "absent"
      BY DEF Init
    <2>3. QED
      BY <2>1, <2>2, NamesAssumption DEF OneJobPerDelivery
  <1>2. QED
    BY <1>1, NextOneJob, TypeCorrect, LeasesInvariant, PTL DEF Spec
-----------------------------------------------------------------------------
(* The queue implements JobContract.  A step is a stutter of the contract, *)
(* it creates a job, gives one its verdict, dismisses a delivery or        *)
(* forgets; the lemmas say which facts about a step make it one of these.  *)

USE DEF Verdict

LEMMA StutterMaps ==
  ASSUME \A j \in JobIds : /\ job'[j].delivery = job[j].delivery
                           /\ Verdict(j)' = Verdict(j),
         \A d \in Deliveries : delivery'[d] = "absent" <=> delivery[d] = "absent"
  PROVE  UNCHANGED Contract!vars
  <1>1. {d \in Deliveries : delivery'[d] # "absent"}
          = {d \in Deliveries : delivery[d] # "absent"}
    OBVIOUS
  <1>2. [j \in JobIds |-> job'[j].delivery] = [j \in JobIds |-> job[j].delivery]
    OBVIOUS
  <1>3. [j \in JobIds |-> Verdict(j)'] = [j \in JobIds |-> Verdict(j)]
    OBVIOUS
  <1>4. QED
    BY <1>1, <1>2, <1>3 DEF Contract!vars

LEMMA ResolveMaps ==
  ASSUME NEW i \in JobIds, NEW v \in {"done", "failed"},
         Verdict(i) = "pending", Verdict(i)' = v, UNCHANGED delivery,
         \A j \in JobIds : /\ job'[j].delivery = job[j].delivery
                           /\ j # i => Verdict(j)' = Verdict(j)
  PROVE  Contract!Next
  <1>1. [j \in JobIds |-> job'[j].delivery] = [j \in JobIds |-> job[j].delivery]
    OBVIOUS
  <1>2. [j \in JobIds |-> Verdict(j)']
          = [[j \in JobIds |-> Verdict(j)] EXCEPT ![i] = v]
    <2> DEFINE before == [j \in JobIds |-> Verdict(j)]
               after == [j \in JobIds |-> Verdict(j)']
    <2>1. \A j \in JobIds : after[j] = [before EXCEPT ![i] = v][j]
      BY Zenon
    <2>2. QED
      BY <2>1
  <1>3. Contract!Resolve(i, v)
    BY <1>1, <1>2 DEF Contract!Resolve
  <1>4. QED
    BY <1>3 DEF Contract!Next

LEMMA NewJobMaps ==
  ASSUME TypeOK, FreshInv, NEW t \in Tenants, NEW o \in Origins, nextJob <= MaxJobs,
         job' = [job EXCEPT ![nextJob] = NewJob(t, o)],
         \/ o = NoDelivery /\ delivery' = delivery
         \/ /\ o \in Deliveries
            /\ delivery[o] = "absent"
            /\ delivery' = [delivery EXCEPT ![o] = "queued"]
  PROVE  Contract!Next
  <1> DEFINE before == [j \in JobIds |-> Verdict(j)]
             after == [j \in JobIds |-> Verdict(j)']
             origin0 == [j \in JobIds |-> job[j].delivery]
             origin1 == [j \in JobIds |-> job'[j].delivery]
  <1>1. PICK n \in JobIds :
        /\ n = nextJob
        /\ job[n].status = "none"
        /\ job[n].delivery = NoDelivery
    BY BoundsAssumption DEF TypeOK, FreshInv
  <1>2. /\ job'[n].delivery = o
        /\ job'[n].status = "queued"
        /\ \A j \in JobIds : j # n => job'[j] = job[j]
    BY <1>1 DEF TypeOK, NewJob
  <1>3. /\ before[n] = "none"
        /\ after = [before EXCEPT ![n] = "pending"]
    <2>1. /\ after[n] = "pending"
          /\ \A j \in JobIds : j # n => after[j] = before[j]
      BY <1>1, <1>2
    <2> HIDE DEF after
    <2>2. after = [j \in JobIds |-> after[j]]
      BY DEF after
    <2>3. after = [before EXCEPT ![n] = "pending"]
      BY <1>1, <2>1, <2>2
    <2>4. QED
      BY <1>1, <2>3
  <1>4. CASE o = NoDelivery /\ delivery' = delivery
    <2>1. origin1 = origin0
      BY <1>1, <1>2, <1>4
    <2>2. Contract!Submit(n)
      BY <1>1, <1>3, <1>4, <2>1 DEF Contract!Submit
    <2>3. QED
      BY <1>1, <2>2 DEF Contract!Next
  <1>5. CASE /\ o \in Deliveries
             /\ delivery[o] = "absent"
             /\ delivery' = [delivery EXCEPT ![o] = "queued"]
    <2>1. origin1 = [origin0 EXCEPT ![n] = o]
      <3>1. origin1[n] = o /\ \A j \in JobIds : j # n => origin1[j] = origin0[j]
        BY <1>1, <1>2
      <3> HIDE DEF origin1
      <3>2. origin1 = [j \in JobIds |-> origin1[j]]
        BY DEF origin1
      <3>3. QED
        BY <1>1, <3>1, <3>2
    <2>2. {d \in Deliveries : delivery'[d] # "absent"}
            = {d \in Deliveries : delivery[d] # "absent"} \cup {o}
      BY <1>5 DEF TypeOK
    <2>3. Contract!Accept(o, n)
      BY <1>1, <1>3, <1>5, <2>1, <2>2 DEF Contract!Accept
    <2>4. QED
      BY <1>1, <1>5, <2>3 DEF Contract!Next
  <1>6. QED
    BY <1>4, <1>5

LEMMA CleanupMaps ==
  ASSUME TypeOK, NEW D \in SUBSET Deliveries, NEW J \in SUBSET JobIds, Cleanup(D, J)
  PROVE  Contract!Next
  <1>1. {d \in Deliveries : delivery'[d] # "absent"}
          = {d \in Deliveries : delivery[d] # "absent"} \ D
    BY DEF Cleanup
  <1>2. D \subseteq {d \in Deliveries : delivery[d] # "absent"}
    BY DEF Cleanup
  <1>3. \A j \in JobIds : /\ job'[j].delivery = job[j].delivery
                          /\ j \in J => job'[j].status = "removed"
                          /\ j \notin J => job'[j].status = job[j].status
    BY DEF Cleanup, TypeOK, JobRecord
  <1>4. [j \in JobIds |-> job'[j].delivery] = [j \in JobIds |-> job[j].delivery]
    BY <1>3
  <1>5. \A j \in J : Verdict(j) \in {"done", "failed"}
    BY DEF Cleanup, Finished
  <1>6. [j \in JobIds |-> Verdict(j)']
          = [j \in JobIds |-> IF j \in J THEN "removed"
                              ELSE [k \in JobIds |-> Verdict(k)][j]]
    BY <1>3
  <1>7. Contract!Forget(D, J)
    BY <1>1, <1>2, <1>4, <1>5, <1>6 DEF Contract!Forget
  <1>8. QED
    BY <1>7 DEF Contract!Next

(* The verdict of a job is settled by the report of the holder of its      *)
(* lease, and by nothing else.                                             *)
LEMMA ReportMaps ==
  ASSUME TypeOK, NEW w \in Workers, Report(w)
  PROVE  Contract!Next \/ UNCHANGED Contract!vars
  <1> DEFINE i == worker[w].task
             done == Released(job[i], "done")
             status == FailStatus(worker[w].lease)
             waiting == [Released(job[i], status) EXCEPT
                           !.delay = worker[w].lease * worker[w].lease * BackoffStep]
  <1>1. delivery' = delivery
    BY DEF Report
  <1>2. CASE job' = job
    BY <1>1, <1>2, StutterMaps
  <1>3. ASSUME NEW v \in {"done", "failed", "queued"},
               i \in JobIds, job[i].status = "running",
               job'[i].status = v, job'[i].delivery = job[i].delivery,
               \A j \in JobIds : j # i => job'[j] = job[j]
        PROVE  Contract!Next \/ UNCHANGED Contract!vars
    <2>1. CASE v = "queued"
      BY <1>1, <1>3, <2>1, StutterMaps
    <2>2. CASE v # "queued"
      BY <1>1, <1>3, <2>2, ResolveMaps
    <2>3. QED
      BY <2>1, <2>2
  <1>4. CASE i \in JobIds /\ job[i].status = "running" /\ job' = [job EXCEPT ![i] = done]
    <2>1. done.status = "done" /\ done.delivery = job[i].delivery
      BY <1>4 DEF Released, TypeOK, JobRecord
    <2> HIDE DEF done
    <2>2. QED
      BY <1>3, <1>4, <2>1 DEF TypeOK
  <1>5. CASE i \in JobIds /\ job[i].status = "running" /\ job' = [job EXCEPT ![i] = waiting]
    <2>1. status \in {"failed", "queued"}
      BY DEF FailStatus
    <2> HIDE DEF status
    <2>2. waiting.status = status /\ waiting.delivery = job[i].delivery
      BY <1>5 DEF Released, TypeOK, JobRecord
    <2> HIDE DEF waiting
    <2>3. QED
      BY <1>3, <1>5, <2>1, <2>2 DEF TypeOK
  <1>6. CASE i \notin JobIds
    <2>1. \A r : [job EXCEPT ![i] = r] = job
      BY <1>6 DEF TypeOK
    <2>2. job' = job
      BY <2>1, Zenon DEF Report, CompleteJob, FailJob
    <2>3. QED
      BY <1>2, <2>2
  <1>7. QED
    BY <1>2, <1>4, <1>5, <1>6, Zenon DEF Report, CompleteJob, FailJob, Holds

LEMMA WorkerStepMaps ==
  ASSUME TypeOK, NEW w \in Workers, WorkerStep(w)
  PROVE  Contract!Next \/ UNCHANGED Contract!vars
  <1>1. CASE Report(w)
    BY <1>1, ReportMaps
  <1>2. CASE ClaimJob(w)
    <2>1. PICK j \in JobIds :
            /\ job[j].status = "queued"
            /\ job' = [job EXCEPT ![j] = Claimed(@, job[j].attempts + 1)]
      BY <1>2 DEF ClaimJob, Claimable
    <2>2. job'[j].status = "running" /\ \A k \in JobIds : k # j => job'[k] = job[k]
      BY <2>1 DEF Claimed, TypeOK, JobRecord
    <2>3. \A k \in JobIds : Verdict(k)' = Verdict(k)
      BY <2>1, <2>2
    <2>4. QED
      BY <1>2, <2>3, WorkerStepOrigins, StutterMaps DEF ClaimJob
  <1>3. ASSUME NEW ok \in BOOLEAN, Process(w, ok)
        PROVE  UNCHANGED Contract!vars
    BY <1>3, StutterMaps DEF Process
  <1>4. CASE Settle(w)
    <2>1. \A d \in Deliveries : delivery'[d] = "absent" <=> delivery[d] = "absent"
      <3>1. CASE delivery' = delivery
        BY <3>1
      <3>2. CASE UpdateDelivery(job[worker[w].task].delivery, worker[w].ok)
        BY <3>2 DEF UpdateDelivery, TypeOK
      <3>3. QED
        BY <1>4, <3>1, <3>2, Zenon DEF Settle
    <2>2. job' = job
      BY <1>4 DEF Settle
    <2>3. QED
      BY <2>1, <2>2, StutterMaps
  <1>5. CASE HeartbeatTick(w)
    <2> DEFINE i == worker[w].task
               renewed == [job[i] EXCEPT !.leaseAge = 0]
    <2>1. job' = job \/ job' = [job EXCEPT ![i] = renewed]
      BY <1>5, Zenon DEF HeartbeatTick, RenewJobLease
    <2>2. i \in JobIds => renewed.status = job[i].status
      BY DEF TypeOK, JobRecord
    <2> HIDE DEF renewed
    <2>3. \A j \in JobIds : job'[j].status = job[j].status
      BY <2>1, <2>2 DEF TypeOK
    <2>4. delivery' = delivery
      BY <1>5 DEF HeartbeatTick
    <2>5. QED
      BY <2>3, <2>4, WorkerStepOrigins, StutterMaps
  <1>6. QED
    BY <1>1, <1>2, <1>3, <1>4, <1>5 DEF WorkerStep

LEMMA NextMaps ==
  TypeOK /\ FreshInv /\ [Next]_vars => [Contract!Next]_(Contract!vars)
  <1> SUFFICES ASSUME TypeOK, FreshInv, [Next]_vars
               PROVE  Contract!Next \/ UNCHANGED Contract!vars
    OBVIOUS
  <1>1. ASSUME NEW d \in Deliveries, NEW t \in Tenants, Webhook(d, t)
        PROVE  Contract!Next
    <2>1. CASE EnqueueDeliveryForTenant(d, t)
      BY <2>1, NewJobMaps DEF EnqueueDeliveryForTenant
    <2>2. CASE RecordTerminalDelivery(d)
      <3>1. /\ {e \in Deliveries : delivery'[e] # "absent"}
                 = {e \in Deliveries : delivery[e] # "absent"} \cup {d}
            /\ d \notin {e \in Deliveries : delivery[e] # "absent"}
        BY <2>2 DEF RecordTerminalDelivery, TypeOK
      <3>2. /\ [j \in JobIds |-> job'[j].delivery] = [j \in JobIds |-> job[j].delivery]
            /\ [j \in JobIds |-> Verdict(j)'] = [j \in JobIds |-> Verdict(j)]
        BY <2>2 DEF RecordTerminalDelivery
      <3>3. Contract!Dismiss(d)
        BY <3>1, <3>2 DEF Contract!Dismiss
      <3>4. QED
        BY <3>3 DEF Contract!Next
    <2>3. QED
      BY <1>1, <2>1, <2>2 DEF Webhook
  <1>2. ASSUME NEW t \in Tenants, EnqueueForTenant(t)
        PROVE  Contract!Next
    BY <1>2, NewJobMaps DEF EnqueueForTenant
  <1>3. ASSUME NEW t \in Tenants, SetTenantEnabled(t)
        PROVE  UNCHANGED Contract!vars
    BY <1>3, StutterMaps DEF SetTenantEnabled
  <1>4. ASSUME NEW D \in SUBSET Deliveries, NEW J \in SUBSET JobIds, Cleanup(D, J)
        PROVE  Contract!Next
    BY <1>4, CleanupMaps
  <1>5. ASSUME NEW w \in Workers, WorkerStep(w)
        PROVE  Contract!Next \/ UNCHANGED Contract!vars
    BY <1>5, WorkerStepMaps
  <1>6. ASSUME NEW w \in Workers, Crash(w)
        PROVE  UNCHANGED Contract!vars
    BY <1>6, StutterMaps DEF Crash
  <1>7. CASE RequeueStaleJobs
    <2>1. \A j \in JobIds : /\ job'[j].delivery = job[j].delivery
                            /\ Verdict(j)' = Verdict(j)
      BY <1>7 DEF RequeueStaleJobs, Stale, Released, TypeOK, JobRecord
    <2>2. QED
      BY <1>7, <2>1, StutterMaps DEF RequeueStaleJobs
  <1>8. CASE Tick
    <2>1. \A j \in JobIds : /\ job'[j].delivery = job[j].delivery
                            /\ job'[j].status = job[j].status
      BY <1>8 DEF Tick, Aged, TypeOK, JobRecord
    <2>2. QED
      BY <1>8, <2>1, StutterMaps DEF Tick
  <1>9. CASE UNCHANGED vars
    BY <1>9, StutterMaps DEF vars
  <1>10. QED
    BY <1>1, <1>2, <1>3, <1>4, <1>5, <1>6, <1>7, <1>8, <1>9 DEF Next

(* The queue, with its leases, attempts, crashes and clocks, implements    *)
(* the contract that has none of them: a delivery is taken once, a job     *)
(* gets one verdict and keeps it.                                          *)
THEOREM QueueKeepsContract == Spec => ContractSpec
  <1>1. Init => Contract!Init
    <2> SUFFICES ASSUME Init PROVE Contract!Init
      OBVIOUS
    <2>1. \A j \in JobIds : job[j].status = "none" /\ job[j].delivery = NoDelivery
      BY DEF Init, NewJob
    <2>2. {d \in Deliveries : delivery[d] # "absent"} = {}
      BY DEF Init
    <2>3. QED
      BY <2>1, <2>2 DEF Contract!Init
  <1>2. QED
    BY <1>1, NextMaps, LeasesInvariant, PTL DEF Spec, ContractSpec, Contract!Spec
-----------------------------------------------------------------------------
(* Workers, field by field: what a step changes of the jobs and of the     *)
(* workers.                                                                *)

Holding(w) == Holds(worker[w].task, worker[w].lease)

LEMMA ClaimFacts ==
  ASSUME TypeOK, NEW w \in Workers, ClaimJob(w)
  PROVE  /\ worker[w].phase = "idle"
         /\ worker'[w].phase = "working" /\ worker'[w].task \in JobIds
         /\ ~worker'[w].ok /\ ~worker'[w].cancelled
         /\ worker'[w].beat = 0 /\ worker'[w].missed = 0
         /\ worker'[w].lease = job[worker'[w].task].attempts + 1
         /\ LET r == job'[worker'[w].task] IN
            /\ job[worker'[w].task].status = "queued"
            /\ r.status = "running" /\ r.leaseAge = 0
            /\ r.attempts = worker'[w].lease /\ r.lockedBy = worker'[w].lease
            /\ r.delivery = job[worker'[w].task].delivery
         /\ \A k \in JobIds : k # worker'[w].task => job'[k] = job[k]
         /\ \A v \in Workers : v # w => worker'[v] = worker[v]
         /\ UNCHANGED <<crashes, errors, succeeded, delivery, expired>>
  <1>1. PICK j \in JobIds :
          /\ job[j].status = "queued"
          /\ job' = [job EXCEPT ![j] = Claimed(@, job[j].attempts + 1)]
          /\ worker' = [worker EXCEPT ![w] =
                [Idle EXCEPT !.phase = "working", !.task = j,
                             !.lease = job[j].attempts + 1]]
    BY DEF ClaimJob, Claimable
  <1>2. /\ worker'[w] = [Idle EXCEPT !.phase = "working", !.task = j,
                                    !.lease = job[j].attempts + 1]
        /\ job'[j] = Claimed(job[j], job[j].attempts + 1)
    BY <1>1 DEF TypeOK
  <1>3. /\ worker'[w].phase = "working" /\ worker'[w].task = j
        /\ ~worker'[w].ok /\ ~worker'[w].cancelled
        /\ worker'[w].beat = 0 /\ worker'[w].missed = 0
        /\ worker'[w].lease = job[j].attempts + 1
    BY <1>2 DEF Idle
  <1>4. /\ job'[j].status = "running" /\ job'[j].leaseAge = 0
        /\ job'[j].attempts = job[j].attempts + 1
        /\ job'[j].lockedBy = job[j].attempts + 1
        /\ job'[j].delivery = job[j].delivery
    BY <1>2 DEF Claimed, TypeOK, JobRecord
  <1>5. /\ \A k \in JobIds : k # j => job'[k] = job[k]
        /\ \A v \in Workers : v # w => worker'[v] = worker[v]
    BY <1>1 DEF TypeOK
  <1>6. QED
    BY <1>1, <1>3, <1>4, <1>5 DEF ClaimJob

LEMMA ProcessFacts ==
  ASSUME TypeOK, NEW w \in Workers, NEW ok \in BOOLEAN, Process(w, ok)
  PROVE  /\ worker[w].phase = "working"
         /\ worker'[w].phase \in {"settling", "reporting"}
         /\ worker'[w].task = worker[w].task /\ worker'[w].lease = worker[w].lease
         /\ worker'[w].ok = ok
         /\ worker'[w].phase = "settling" =>
               /\ worker'[w].cancelled = worker[w].cancelled
               /\ worker'[w].beat = worker[w].beat
               /\ worker'[w].missed = worker[w].missed
         /\ worker'[w].phase = "reporting" =>
               ~worker'[w].cancelled /\ worker'[w].missed = 0
         /\ \A v \in Workers : v # w => worker'[v] = worker[v]
         /\ UNCHANGED <<job, crashes, errors, delivery, expired>>
         /\ IF ok /\ worker[w].lease > succeeded[worker[w].task]
            THEN succeeded' = [succeeded EXCEPT ![worker[w].task] = worker[w].lease]
            ELSE succeeded' = succeeded
  BY DEF Process, Returned, Idle, TypeOK, WorkerRecord

LEMMA SettleFacts ==
  ASSUME TypeOK, NEW w \in Workers, Settle(w)
  PROVE  /\ worker[w].phase = "settling" /\ worker'[w].phase = "reporting"
         /\ worker'[w].task = worker[w].task /\ worker'[w].lease = worker[w].lease
         /\ worker'[w].ok = worker[w].ok
         /\ ~worker'[w].cancelled /\ worker'[w].missed = 0
         /\ \A v \in Workers : v # w => worker'[v] = worker[v]
         /\ UNCHANGED <<job, crashes, succeeded, expired>>
         /\ errors' \in {errors, errors + 1}
         /\ \/ UNCHANGED delivery
            \/ UpdateDelivery(job[worker[w].task].delivery, worker[w].ok)
  BY Zenon DEF Settle, Returned, Idle, TypeOK, WorkerRecord

LEMMA ReportFacts ==
  ASSUME TypeOK, LeaseInv, NEW w \in Workers, Report(w)
  PROVE  /\ worker[w].phase = "reporting" /\ worker'[w].phase = "idle"
         /\ \A v \in Workers : v # w => worker'[v] = worker[v]
         /\ UNCHANGED <<crashes, succeeded, delivery, expired>>
         /\ \/ job' = job /\ errors' = errors + 1
            \/ job' = job /\ errors' = errors /\ ~Holding(w)
            \/ /\ Holding(w) /\ errors' = errors
               /\ \A j \in JobIds : j # worker[w].task => job'[j] = job[j]
               /\ LET j == worker[w].task IN
                  /\ job'[j].attempts = job[j].attempts
                  /\ job'[j].delivery = job[j].delivery
                  /\ job'[j].status = IF worker[w].ok THEN "done"
                                      ELSE FailStatus(worker[w].lease)
  <1> DEFINE j == worker[w].task
             lease == worker[w].lease
             done == Released(job[j], "done")
             waiting == [Released(job[j], FailStatus(lease)) EXCEPT
                           !.delay = lease * lease * BackoffStep]
  <1>1. j \in JobIds /\ lease \in Nat
    BY DEF Report, LeaseInv, Busy, TypeOK, WorkerRecord
  <1>2. /\ done.status = "done" /\ done.attempts = job[j].attempts
        /\ done.delivery = job[j].delivery
    BY <1>1 DEF Released, TypeOK, JobRecord
  <1>3. /\ waiting.status = FailStatus(lease) /\ waiting.attempts = job[j].attempts
        /\ waiting.delivery = job[j].delivery
    BY <1>1 DEF Released, TypeOK, JobRecord
  <1>4. \/ /\ worker[w].ok /\ errors' = errors
           /\ job' = IF Holds(j, lease) THEN [job EXCEPT ![j] = done] ELSE job
        \/ /\ ~worker[w].ok /\ errors' = errors
           /\ job' = IF Holds(j, lease) THEN [job EXCEPT ![j] = waiting] ELSE job
        \/ errors' = errors + 1 /\ job' = job
    BY Zenon DEF Report, CompleteJob, FailJob
  <1> HIDE DEF done, waiting
  <1>5. \/ job' = job /\ errors' = errors + 1
        \/ job' = job /\ errors' = errors /\ ~Holding(w)
        \/ /\ Holding(w) /\ errors' = errors
           /\ \A k \in JobIds : k # j => job'[k] = job[k]
           /\ job'[j].attempts = job[j].attempts
           /\ job'[j].delivery = job[j].delivery
           /\ job'[j].status = IF worker[w].ok THEN "done" ELSE FailStatus(lease)
    BY <1>1, <1>2, <1>3, <1>4 DEF Holding, TypeOK
  <1>6. /\ worker[w].phase = "reporting" /\ worker'[w].phase = "idle"
        /\ \A v \in Workers : v # w => worker'[v] = worker[v]
        /\ UNCHANGED <<crashes, succeeded, delivery, expired>>
    BY DEF Report, Idle, TypeOK
  <1>7. QED
    BY <1>5, <1>6

LEMMA HeartbeatFacts ==
  ASSUME TypeOK, LeaseInv, NEW w \in Workers, HeartbeatTick(w)
  PROVE  /\ Beating(w) /\ worker[w].beat >= Heartbeat
         /\ worker'[w].phase = worker[w].phase /\ worker'[w].ok = worker[w].ok
         /\ worker'[w].task = worker[w].task /\ worker'[w].lease = worker[w].lease
         /\ worker'[w].beat = 0
         /\ \A v \in Workers : v # w => worker'[v] = worker[v]
         /\ UNCHANGED <<crashes, succeeded, delivery, expired>>
         /\ \A j \in JobIds : /\ job'[j].status = job[j].status
                              /\ job'[j].attempts = job[j].attempts
                              /\ job'[j].lockedBy = job[j].lockedBy
                              /\ job'[j].delivery = job[j].delivery
                              /\ j # worker[w].task => job'[j] = job[j]
         /\ \/ /\ Holding(w) /\ errors' = errors /\ ~worker'[w].cancelled
               /\ worker'[w].missed = 0 /\ job'[worker[w].task].leaseAge = 0
            \/ /\ ~Holding(w) /\ errors' = errors /\ worker'[w].cancelled
               /\ job' = job
            \/ /\ job' = job /\ errors' = errors + 1 /\ ~worker'[w].cancelled
               /\ worker'[w].missed = worker[w].missed + 1
  <1> DEFINE j == worker[w].task
             renewed == [job[j] EXCEPT !.leaseAge = 0]
             good == [worker[w] EXCEPT !.beat = 0, !.missed = 0]
             lost == [worker[w] EXCEPT !.cancelled = TRUE, !.beat = 0, !.missed = 0]
             late == [worker[w] EXCEPT !.beat = 0, !.missed = worker[w].missed + 1]
  <1>1. /\ Beating(w) /\ worker[w].beat >= Heartbeat
        /\ UNCHANGED <<crashes, succeeded, delivery, expired>>
    BY DEF HeartbeatTick
  <1>2. j \in JobIds
    BY <1>1 DEF LeaseInv, Busy, Beating
  <1>3. /\ renewed.status = job[j].status /\ renewed.attempts = job[j].attempts
        /\ renewed.lockedBy = job[j].lockedBy /\ renewed.delivery = job[j].delivery
        /\ renewed.leaseAge = 0
    BY <1>2 DEF TypeOK, JobRecord
  <1>4. \A r \in {good, lost, late} :
           /\ r.phase = worker[w].phase /\ r.ok = worker[w].ok
           /\ r.task = worker[w].task /\ r.lease = worker[w].lease /\ r.beat = 0
    BY DEF TypeOK, WorkerRecord
  <1>5. /\ ~good.cancelled /\ good.missed = 0
        /\ lost.cancelled
        /\ ~late.cancelled /\ late.missed = worker[w].missed + 1
    BY <1>1 DEF TypeOK, WorkerRecord, Beating
  <1>6. \/ /\ Holding(w) /\ errors' = errors
           /\ job' = [job EXCEPT ![j] = renewed] /\ worker' = [worker EXCEPT ![w] = good]
        \/ /\ ~Holding(w) /\ errors' = errors
           /\ job' = job /\ worker' = [worker EXCEPT ![w] = lost]
        \/ /\ errors' = errors + 1
           /\ job' = job /\ worker' = [worker EXCEPT ![w] = late]
    BY Zenon DEF HeartbeatTick, RenewJobLease, Holding
  <1> HIDE DEF renewed, good, lost, late
  <1>7. CASE /\ Holding(w) /\ errors' = errors
             /\ job' = [job EXCEPT ![j] = renewed] /\ worker' = [worker EXCEPT ![w] = good]
    BY <1>1, <1>2, <1>3, <1>4, <1>5, <1>7 DEF TypeOK
  <1>8. CASE /\ ~Holding(w) /\ errors' = errors
             /\ job' = job /\ worker' = [worker EXCEPT ![w] = lost]
    BY <1>1, <1>4, <1>5, <1>8 DEF TypeOK
  <1>9. CASE /\ errors' = errors + 1
             /\ job' = job /\ worker' = [worker EXCEPT ![w] = late]
    BY <1>1, <1>4, <1>5, <1>9 DEF TypeOK
  <1>10. QED
    BY <1>6, <1>7, <1>8, <1>9

LEMMA RequeueFacts ==
  ASSUME TypeOK, RequeueStaleJobs
  PROVE  /\ UNCHANGED <<worker, crashes, errors, succeeded, delivery, expired>>
         /\ \A j \in JobIds :
               /\ job'[j].attempts = job[j].attempts
               /\ job'[j].delivery = job[j].delivery
               /\ IF Stale(j) THEN job'[j].status = "queued" ELSE job'[j] = job[j]
  BY DEF RequeueStaleJobs, Released, TypeOK, JobRecord

LEMMA TickFacts ==
  ASSUME TypeOK, Tick
  PROVE  /\ \A w \in Workers :
               /\ Beating(w) => worker[w].beat < Heartbeat
               /\ worker[w].phase # "reporting"
               /\ worker'[w].phase = worker[w].phase /\ worker'[w].ok = worker[w].ok
               /\ worker'[w].task = worker[w].task /\ worker'[w].lease = worker[w].lease
               /\ worker'[w].cancelled = worker[w].cancelled
               /\ worker'[w].missed = worker[w].missed
               /\ Beating(w) => worker'[w].beat = worker[w].beat + 1
         /\ \A j \in JobIds :
               /\ job'[j].status = job[j].status
               /\ job'[j].attempts = job[j].attempts
               /\ job'[j].lockedBy = job[j].lockedBy
               /\ job'[j].delivery = job[j].delivery
               /\ job'[j].leaseAge <= job[j].leaseAge + 1
               /\ job[j].status # "running" => job'[j].leaseAge = job[j].leaseAge
         /\ UNCHANGED <<crashes, errors, succeeded, delivery, expired>>
  <1>1. ASSUME NEW w \in Workers
        PROVE  /\ Beating(w) => worker[w].beat < Heartbeat
               /\ worker[w].phase # "reporting"
               /\ worker'[w].phase = worker[w].phase /\ worker'[w].ok = worker[w].ok
               /\ worker'[w].task = worker[w].task /\ worker'[w].lease = worker[w].lease
               /\ worker'[w].cancelled = worker[w].cancelled
               /\ worker'[w].missed = worker[w].missed
               /\ Beating(w) => worker'[w].beat = worker[w].beat + 1
    BY <1>1 DEF Tick, TypeOK, WorkerRecord
  <1>2. ASSUME NEW j \in JobIds
        PROVE  /\ job'[j].status = job[j].status
               /\ job'[j].attempts = job[j].attempts
               /\ job'[j].lockedBy = job[j].lockedBy
               /\ job'[j].delivery = job[j].delivery
               /\ job'[j].leaseAge <= job[j].leaseAge + 1
               /\ job[j].status # "running" => job'[j].leaseAge = job[j].leaseAge
    <2>1. job'[j] = Aged(job[j]) /\ job[j] \in JobRecord
      BY <1>2 DEF Tick, TypeOK
    <2>2. QED
      BY <2>1, TimingAssumption DEF Aged, JobRecord
  <1>3. UNCHANGED <<crashes, errors, succeeded, delivery, expired>>
    BY DEF Tick
  <1>4. QED
    BY <1>1, <1>2, <1>3

LEMMA CleanupFacts ==
  ASSUME TypeOK, NEW D \in SUBSET Deliveries, NEW J \in SUBSET JobIds, Cleanup(D, J)
  PROVE  /\ UNCHANGED <<worker, crashes, errors, succeeded>>
         /\ \A j \in JobIds :
               /\ job'[j].attempts = job[j].attempts
               /\ job'[j].lockedBy = job[j].lockedBy
               /\ job'[j].delivery = job[j].delivery
               /\ job'[j].leaseAge = job[j].leaseAge
               /\ IF j \in J THEN Finished(j) /\ job'[j].status = "removed"
                             ELSE job'[j].status = job[j].status
         /\ expired' = expired \cup D
         /\ \A d \in Deliveries : d \notin D => delivery'[d] = delivery[d]
  BY DEF Cleanup, TypeOK, JobRecord

LEMMA NewJobFacts ==
  ASSUME TypeOK, FreshInv, NEW t \in Tenants, NEW d \in Origins, nextJob <= MaxJobs,
         job' = [job EXCEPT ![nextJob] = NewJob(t, d)]
  PROVE  /\ nextJob \in JobIds
         /\ \A j \in JobIds : j # nextJob => job'[j] = job[j]
         /\ job'[nextJob].status = "queued" /\ job[nextJob].status = "none"
         /\ job'[nextJob].attempts = 0 /\ job[nextJob].attempts = 0
         /\ job'[nextJob].delivery = d
  BY BoundsAssumption DEF TypeOK, FreshInv, NewJob

(* Work comes in: through a webhook that makes a job, one that makes none, *)
(* or a caller of the store.                                               *)
LEMMA ArrivalFacts ==
  ASSUME TypeOK, FreshInv,
         \/ \E d \in Deliveries, t \in Tenants : Webhook(d, t)
         \/ \E t \in Tenants : EnqueueForTenant(t)
  PROVE  /\ UNCHANGED <<worker, crashes, errors, succeeded, expired>>
         /\ \/ UNCHANGED job
            \/ /\ nextJob \in JobIds
               /\ \A j \in JobIds : j # nextJob => job'[j] = job[j]
               /\ job'[nextJob].status = "queued" /\ job[nextJob].status = "none"
               /\ job'[nextJob].attempts = 0 /\ job[nextJob].attempts = 0
         /\ \A d \in Deliveries : delivery'[d] = "processed" => delivery[d] = "processed"
  <1>1. ASSUME NEW d \in Deliveries, NEW t \in Tenants, Webhook(d, t),
               EnqueueDeliveryForTenant(d, t)
        PROVE  /\ \E o \in Origins : job' = [job EXCEPT ![nextJob] = NewJob(t, o)]
               /\ nextJob <= MaxJobs
               /\ delivery' = [delivery EXCEPT ![d] = "queued"]
    BY <1>1 DEF EnqueueDeliveryForTenant
  <1>2. ASSUME NEW d \in Deliveries, NEW t \in Tenants, Webhook(d, t)
        PROVE  UNCHANGED <<worker, crashes, errors, succeeded, expired>>
    BY <1>2 DEF Webhook
  <1>3. ASSUME NEW t \in Tenants, EnqueueForTenant(t)
        PROVE  /\ job' = [job EXCEPT ![nextJob] = NewJob(t, NoDelivery)]
               /\ nextJob <= MaxJobs
               /\ UNCHANGED <<worker, crashes, errors, succeeded, expired, delivery>>
    BY <1>3 DEF EnqueueForTenant
  <1>4. ASSUME NEW d \in Deliveries, NEW t \in Tenants, Webhook(d, t),
               RecordTerminalDelivery(d)
        PROVE  UNCHANGED job /\ delivery' = [delivery EXCEPT ![d] = "ignored"]
    BY <1>4 DEF RecordTerminalDelivery
  <1>5. CASE \E t \in Tenants : EnqueueForTenant(t)
    BY <1>3, <1>5, NewJobFacts
  <1>6. ASSUME NEW d \in Deliveries, NEW t \in Tenants, Webhook(d, t)
        PROVE  /\ UNCHANGED <<worker, crashes, errors, succeeded, expired>>
               /\ \/ UNCHANGED job
                  \/ /\ nextJob \in JobIds
                     /\ \A j \in JobIds : j # nextJob => job'[j] = job[j]
                     /\ job'[nextJob].status = "queued" /\ job[nextJob].status = "none"
                     /\ job'[nextJob].attempts = 0 /\ job[nextJob].attempts = 0
               /\ \A e \in Deliveries :
                     delivery'[e] = "processed" => delivery[e] = "processed"
    <2>1. CASE EnqueueDeliveryForTenant(d, t)
      BY <1>1, <1>2, <1>6, <2>1, NewJobFacts DEF TypeOK
    <2>2. CASE RecordTerminalDelivery(d)
      BY <1>2, <1>4, <1>6, <2>2 DEF TypeOK
    <2>3. QED
      BY <1>6, <2>1, <2>2 DEF Webhook
  <1>7. QED
    BY <1>5, <1>6

-----------------------------------------------------------------------------
(* The lease of a worker that beats.  Its age is bounded by the renewals   *)
(* missed; a lease that is gone was gone for that reason, or the worker    *)
(* knows.                                                                  *)

HoldsWell(w) ==
    /\ Busy(w) /\ Holding(w) => ~worker[w].cancelled
    /\ Beating(w) =>
         /\ worker[w].beat <= Heartbeat
         /\ Holding(w) => job[worker[w].task].leaseAge
                             <= worker[w].missed * Heartbeat + worker[w].beat
         /\ ~Holding(w) => (worker[w].missed + 1) * Heartbeat > LeaseTimeout

HoldInv == \A w \in Workers : HoldsWell(w)

LEMMA OneMoreBeat ==
  ASSUME NEW m \in Nat
  PROVE  /\ m * Heartbeat \in Nat
         /\ (m + 1) * Heartbeat = m * Heartbeat + Heartbeat
         /\ m > 0 => Heartbeat <= m * Heartbeat
  BY TimingAssumption

(* Nothing happens to a worker whose record stays and whose job keeps its  *)
(* status and token and grows no older, or was not held and is not held.   *)
LEMMA SameHold ==
  ASSUME TypeOK, TypeOK', LeaseInv, HoldInv, NEW w \in Workers, worker'[w] = worker[w],
         LET j == worker[w].task IN
         Busy(w) =>
            \/ /\ job'[j].status = job[j].status
               /\ job'[j].lockedBy = job[j].lockedBy
               /\ job'[j].leaseAge <= job[j].leaseAge
            \/ ~Holding(w) /\ ~Holding(w)'
  PROVE  HoldsWell(w)'
  <1>1. HoldsWell(w)
    BY DEF HoldInv
  <1>2. Busy(w) => /\ worker[w].task \in JobIds
                   /\ worker[w].beat \in Nat /\ worker[w].missed \in Nat
                   /\ job[worker[w].task].leaseAge \in Nat
                   /\ job'[worker[w].task].leaseAge \in Nat
    BY DEF LeaseInv, TypeOK, WorkerRecord, JobRecord
  <1>3. Busy(w) => worker[w].missed * Heartbeat \in Nat
    BY <1>2, OneMoreBeat
  <1>4. /\ (Busy(w)' <=> Busy(w)) /\ (Beating(w)' <=> Beating(w))
        /\ Beating(w) => Busy(w)
    BY DEF Busy, Beating
  <1>5. CASE ~Busy(w)
    BY <1>4, <1>5 DEF HoldsWell
  <1>6. CASE Busy(w) /\ ~Holding(w) /\ ~Holding(w)'
    BY <1>1, <1>4, <1>6 DEF HoldsWell
  <1>7. CASE /\ Busy(w)
             /\ job'[worker[w].task].status = job[worker[w].task].status
             /\ job'[worker[w].task].lockedBy = job[worker[w].task].lockedBy
             /\ job'[worker[w].task].leaseAge <= job[worker[w].task].leaseAge
    <2>1. Holding(w)' <=> Holding(w)
      BY <1>7 DEF Holding, Holds
    <2>2. QED
      BY <1>1, <1>2, <1>3, <1>4, <1>7, <2>1 DEF HoldsWell
  <1>8. QED
    BY <1>5, <1>6, <1>7

LEMMA WorkerStepHold ==
  ASSUME TypeOK, TypeOK', LeaseInv, LeaseInv', HoldInv,
         NEW w \in Workers, WorkerStep(w)
  PROVE  HoldInv'
  <1> SUFFICES ASSUME NEW v \in Workers PROVE HoldsWell(v)'
    BY DEF HoldInv
  <1>0. HoldsWell(v)
    BY DEF HoldInv
  <1> USE TimingAssumption
  <1>1. CASE ClaimJob(w)
    <2>1. CASE v = w
      <3>1. Holding(w)'
        BY <1>1, ClaimFacts DEF Holding, Holds, TypeOK, JobRecord
      <3>2. QED
        BY <1>1, <2>1, <3>1, ClaimFacts DEF HoldsWell
    <2>2. CASE v # w
      <3>1. worker'[v] = worker[v]
        BY <1>1, <2>2, ClaimFacts
      <3>2. CASE Busy(v) /\ worker[v].task = worker'[w].task
        <4>1. worker[v].lease \in 1..job[worker[v].task].attempts
          BY <3>2 DEF LeaseInv
        <4>2. /\ job[worker[v].task].attempts \in Nat
              /\ job'[worker[v].task].lockedBy = job[worker[v].task].attempts + 1
              /\ job[worker[v].task].status = "queued"
          BY <1>1, <3>2, ClaimFacts DEF TypeOK, JobRecord
        <4>3. ~Holding(v) /\ ~Holding(v)'
          BY <3>1, <4>1, <4>2 DEF Holding, Holds
        <4>4. QED
          BY <3>1, <4>3, SameHold
      <3>3. CASE Busy(v) /\ worker[v].task # worker'[w].task
        <4>1. job'[worker[v].task] = job[worker[v].task]
          BY <1>1, <3>3, ClaimFacts DEF LeaseInv
        <4>2. job[worker[v].task].leaseAge \in Nat
          BY <3>3 DEF LeaseInv, TypeOK, JobRecord
        <4>3. QED
          BY <3>1, <4>1, <4>2, SameHold
      <3>4. QED
        BY <3>1, <3>2, <3>3, SameHold
    <2>3. QED
      BY <2>1, <2>2
  <1>2. ASSUME NEW ok \in BOOLEAN, Process(w, ok)
        PROVE  HoldsWell(v)'
    <2>1. UNCHANGED job
      BY <1>2, ProcessFacts
    <2>2. CASE v = w
      <3>1. Holding(w)' <=> Holding(w)
        BY <1>2, <2>1, ProcessFacts DEF Holding, Holds
      <3>2. Busy(w) /\ (Beating(w)' => Beating(w))
        BY <1>2, ProcessFacts DEF Busy, Beating
      <3>3. QED
        BY <1>0, <1>2, <2>1, <2>2, <3>1, <3>2, ProcessFacts DEF HoldsWell, Beating
    <2>3. CASE v # w
      <3>1. worker'[v] = worker[v]
        BY <1>2, <2>3, ProcessFacts
      <3>2. QED
        BY <1>0, <2>1, <3>1 DEF HoldsWell, Holding, Holds, Busy, Beating
    <2>4. QED
      BY <2>2, <2>3
  <1>3. CASE Settle(w)
    <2>1. UNCHANGED job
      BY <1>3, SettleFacts
    <2>2. CASE v = w
      BY <1>3, <2>2, SettleFacts DEF HoldsWell, Beating
    <2>3. CASE v # w
      <3>1. worker'[v] = worker[v]
        BY <1>3, <2>3, SettleFacts
      <3>2. QED
        BY <1>0, <2>1, <3>1 DEF HoldsWell, Holding, Holds, Busy, Beating
    <2>4. QED
      BY <2>2, <2>3
  <1>4. CASE Report(w)
    <2>1. CASE v = w
      BY <1>4, <2>1, ReportFacts DEF HoldsWell, Busy, Beating
    <2>2. CASE v # w
      <3>1. worker'[v] = worker[v]
        BY <1>4, <2>2, ReportFacts
      <3>2. CASE job' = job
        BY <1>0, <3>1, <3>2 DEF HoldsWell, Holding, Holds, Busy, Beating
      <3>3. CASE ~Busy(v)
        BY <3>1, <3>3, SameHold
      <3>4. CASE Busy(v) /\ Holding(w) /\ worker[v].task # worker[w].task
                 /\ \A j \in JobIds : j # worker[w].task => job'[j] = job[j]
        <4>1. job'[worker[v].task] = job[worker[v].task]
          BY <3>4 DEF LeaseInv
        <4>2. job[worker[v].task].leaseAge \in Nat
          BY <3>4 DEF LeaseInv, TypeOK, JobRecord
        <4>3. QED
          BY <3>1, <4>1, <4>2, SameHold
      <3>5. CASE Busy(v) /\ Holding(w) /\ worker[v].task = worker[w].task
                 /\ job'[worker[w].task].status
                      = IF worker[w].ok THEN "done" ELSE FailStatus(worker[w].lease)
        <4>1. worker[v].lease # worker[w].lease
          BY <1>4, <2>2, <3>5, ReportFacts DEF LeaseInv, Busy
        <4>2. ~Holding(v)
          BY <3>5, <4>1 DEF Holding, Holds
        <4>3. ~Holding(v)'
          BY <3>1, <3>5 DEF Holding, Holds, FailStatus
        <4>4. QED
          BY <3>1, <4>2, <4>3, SameHold
      <3>6. QED
        BY <1>4, <3>2, <3>3, <3>4, <3>5, ReportFacts
    <2>3. QED
      BY <2>1, <2>2
  <1>5. CASE HeartbeatTick(w)
    <2>1. \A j \in JobIds : /\ job'[j].status = job[j].status
                            /\ job'[j].lockedBy = job[j].lockedBy
                            /\ j # worker[w].task => job'[j] = job[j]
      BY <1>5, HeartbeatFacts
    <2>2. /\ worker[w].task \in JobIds /\ Busy(w) /\ Beating(w)
          /\ worker[w].beat \in Nat /\ worker[w].missed \in Nat
          /\ job[worker[w].task].leaseAge \in Nat
      BY <1>5, HeartbeatFacts DEF LeaseInv, Busy, Beating, TypeOK, WorkerRecord, JobRecord
    <2>3. CASE v = w
      <3>1. /\ worker'[w].beat = 0 /\ worker[w].beat = Heartbeat
            /\ Holding(w)' <=> Holding(w)
        BY <1>0, <1>5, <2>1, <2>2, <2>3, HeartbeatFacts DEF HoldsWell, Holding, Holds
      <3>2. CASE /\ Holding(w) /\ ~worker'[w].cancelled
                 /\ worker'[w].missed = 0 /\ job'[worker[w].task].leaseAge = 0
        <4>1. worker'[w].task = worker[w].task
          BY <1>5, HeartbeatFacts
        <4>2. QED
          BY <2>3, <3>1, <3>2, <4>1 DEF HoldsWell
      <3>3. CASE ~Holding(w) /\ worker'[w].cancelled
        BY <2>3, <3>1, <3>3 DEF HoldsWell, Beating
      <3>4. CASE /\ job' = job /\ ~worker'[w].cancelled
                 /\ worker'[w].missed = worker[w].missed + 1
        <4>1. worker'[w].task = worker[w].task
          BY <1>5, HeartbeatFacts
        <4> DEFINE m == worker[w].missed
                   h == m * Heartbeat
        <4>2. /\ h \in Nat /\ (m + 1) * Heartbeat = h + Heartbeat
              /\ (m + 2) * Heartbeat = h + Heartbeat + Heartbeat
          BY <2>2, OneMoreBeat
        <4>3. /\ Holding(w) => job[worker[w].task].leaseAge <= h + Heartbeat
              /\ ~Holding(w) => (m + 1) * Heartbeat > LeaseTimeout
          BY <1>0, <2>2, <2>3, <3>1 DEF HoldsWell
        <4>4. (worker'[w].missed + 1) * Heartbeat = (m + 2) * Heartbeat
          BY <3>4, <2>2
        <4>5. worker'[w].missed * Heartbeat + worker'[w].beat = h + Heartbeat
          BY <2>2, <3>1, <3>4, <4>2
        <4> HIDE DEF h
        <4>6. QED
          BY <2>3, <3>1, <3>4, <4>1, <4>2, <4>3, <4>4, <4>5 DEF HoldsWell
      <3>5. QED
        BY <1>5, <3>2, <3>3, <3>4, HeartbeatFacts
    <2>4. CASE v # w
      <3>1. worker'[v] = worker[v]
        BY <1>5, <2>4, HeartbeatFacts
      <3>2. job' = job \/ job'[worker[w].task].leaseAge = 0
        BY <1>5, HeartbeatFacts
      <3>3. \A j \in JobIds : job[j].leaseAge \in Nat
        BY DEF TypeOK, JobRecord
      <3>4. \A j \in JobIds : job'[j].leaseAge <= job[j].leaseAge
        BY <2>1, <3>2, <3>3
      <3>5. QED
        BY <2>1, <3>1, <3>4, SameHold DEF LeaseInv
    <2>5. QED
      BY <2>3, <2>4
  <1>6. QED
    BY <1>1, <1>2, <1>3, <1>4, <1>5 DEF WorkerStep

LEMMA NextHold ==
  TypeOK /\ TypeOK' /\ LeaseInv /\ LeaseInv' /\ FreshInv /\ HoldInv /\ [Next]_vars
     => HoldInv'
  <1> SUFFICES ASSUME TypeOK, TypeOK', LeaseInv, LeaseInv', FreshInv, HoldInv, [Next]_vars
               PROVE  HoldInv'
    OBVIOUS
  <1>0. \A w \in Workers : Busy(w) => /\ worker[w].task \in JobIds
                                      /\ worker[w].lease \in Nat \ {0}
                                      /\ job[worker[w].task].attempts # 0
                                      /\ job[worker[w].task].leaseAge \in Nat
    <2> SUFFICES ASSUME NEW w \in Workers, Busy(w)
                 PROVE  /\ worker[w].task \in JobIds
                        /\ worker[w].lease \in Nat \ {0}
                        /\ job[worker[w].task].attempts # 0
                        /\ job[worker[w].task].leaseAge \in Nat
      OBVIOUS
    <2>1. worker[w].task \in JobIds /\ worker[w].lease \in 1..job[worker[w].task].attempts
      BY DEF LeaseInv
    <2>2. job[worker[w].task].attempts \in Nat /\ job[worker[w].task].leaseAge \in Nat
      BY <2>1 DEF TypeOK, JobRecord
    <2>3. QED
      BY <2>1, <2>2
  <1>1. CASE \/ \E d \in Deliveries, t \in Tenants : Webhook(d, t)
             \/ \E t \in Tenants : EnqueueForTenant(t)
    <2>1. UNCHANGED worker
      BY <1>1, ArrivalFacts
    <2>2. \A w \in Workers : Busy(w) => job'[worker[w].task] = job[worker[w].task]
      BY <1>0, <1>1, ArrivalFacts
    <2>3. ASSUME NEW w \in Workers PROVE HoldsWell(w)'
      BY <1>0, <2>1, <2>2, SameHold
    <2>4. QED
      BY <2>3 DEF HoldInv
  <1>2. CASE \E t \in Tenants : SetTenantEnabled(t)
    BY <1>2 DEF SetTenantEnabled, HoldInv, HoldsWell, Holding, Holds, Busy, Beating
  <1>3. ASSUME NEW D \in SUBSET Deliveries, NEW J \in SUBSET JobIds, Cleanup(D, J)
        PROVE  HoldInv'
    <2>1. ASSUME NEW w \in Workers PROVE HoldsWell(w)'
      <3>1. worker'[w] = worker[w]
        BY <1>3, CleanupFacts
      <3>2. CASE Busy(w) /\ worker[w].task \in J
        <4>1. ~Holding(w) /\ ~Holding(w)'
          BY <1>0, <1>3, <3>1, <3>2, CleanupFacts DEF Holding, Holds, Finished
        <4>2. QED
          BY <3>1, <4>1, SameHold
      <3>3. CASE Busy(w) => worker[w].task \notin J
        BY <1>0, <1>3, <3>1, <3>3, CleanupFacts, SameHold
      <3>4. QED
        BY <3>2, <3>3
    <2>2. QED
      BY <2>1 DEF HoldInv
  <1>4. ASSUME NEW w \in Workers, WorkerStep(w)
        PROVE  HoldInv'
    BY <1>4, WorkerStepHold
  <1>5. ASSUME NEW w \in Workers, Crash(w)
        PROVE  HoldInv'
    <2>1. /\ worker'[w].phase = "idle" /\ UNCHANGED job
          /\ \A v \in Workers : v # w => worker'[v] = worker[v]
      BY <1>5 DEF Crash, Idle, TypeOK
    <2>2. ASSUME NEW v \in Workers PROVE HoldsWell(v)'
      <3>1. CASE v = w
        BY <2>1, <3>1 DEF HoldsWell, Busy, Beating
      <3>2. CASE v # w
        BY <1>0, <2>1, <3>2, SameHold
      <3>3. QED
        BY <3>1, <3>2
    <2>3. QED
      BY <2>2 DEF HoldInv
  <1>6. CASE RequeueStaleJobs
    <2>1. ASSUME NEW w \in Workers PROVE HoldsWell(w)'
      <3>1. worker'[w] = worker[w] /\ HoldsWell(w)
        BY <1>6, RequeueFacts DEF HoldInv
      <3>2. CASE Busy(w) /\ Stale(worker[w].task)
        <4> DEFINE m == worker[w].missed
                   h == m * Heartbeat
        <4>1. job'[worker[w].task].status = "queued"
          BY <1>0, <1>6, <3>2, RequeueFacts
        <4>2. ~Holding(w)'
          BY <3>1, <4>1 DEF Holding, Holds
        <4>3. m \in Nat /\ worker[w].beat \in Nat /\ h \in Nat
              /\ (m + 1) * Heartbeat = h + Heartbeat
          BY OneMoreBeat DEF TypeOK, WorkerRecord
        <4> HIDE DEF h
        <4>4. Beating(w) => (m + 1) * Heartbeat > LeaseTimeout
          BY <1>0, <3>1, <3>2, <4>3, TimingAssumption DEF HoldsWell, Stale, h
        <4>5. QED
          BY <3>1, <4>2, <4>4 DEF HoldsWell, Beating
      <3>3. CASE Busy(w) => ~Stale(worker[w].task)
        BY <1>0, <1>6, <3>1, <3>3, RequeueFacts, SameHold
      <3>4. QED
        BY <3>2, <3>3
    <2>2. QED
      BY <2>1 DEF HoldInv
  <1>7. CASE Tick
    <2>1. ASSUME NEW w \in Workers PROVE HoldsWell(w)'
      <3>1. /\ HoldsWell(w)
            /\ worker[w].beat \in Nat /\ worker[w].missed \in Nat
        BY DEF HoldInv, TypeOK, WorkerRecord
      <3>2. (Busy(w)' <=> Busy(w)) /\ (Beating(w)' <=> Beating(w))
            /\ (Beating(w) => Busy(w))
        BY <1>7, TickFacts DEF Busy, Beating
      <3>3. Busy(w) => (Holding(w)' <=> Holding(w))
        BY <1>0, <1>7, TickFacts DEF Holding, Holds
      <3>4. Busy(w) => /\ job'[worker[w].task].leaseAge \in Nat
                       /\ job'[worker[w].task].leaseAge <= job[worker[w].task].leaseAge + 1
        BY <1>0, <1>7, TickFacts DEF TypeOK, JobRecord
      <3>5. worker[w].missed * Heartbeat \in Nat
        BY <3>1, OneMoreBeat
      <3>6. QED
        BY <1>0, <1>7, <3>1, <3>2, <3>3, <3>4, <3>5, TickFacts, TimingAssumption
           DEF HoldsWell
    <2>2. QED
      BY <2>1 DEF HoldInv
  <1>8. CASE UNCHANGED vars
    BY <1>8 DEF vars, HoldInv, HoldsWell, Holding, Holds, Busy, Beating
  <1>9. QED
    BY <1>1, <1>2, <1>3, <1>4, <1>5, <1>6, <1>7, <1>8 DEF Next

LEMMA HoldInvariant == Spec => [](TypeOK /\ LeaseInv /\ FreshInv /\ HoldInv)
  <1>1. Init => HoldInv
    BY DEF Init, Idle, HoldInv, HoldsWell, Busy, Beating
  <1>2. QED
    BY <1>1, LeasesInvariant, NextHold, PTL DEF Spec

(* A worker that renews its lease in time keeps its job: the sweep takes   *)
(* none away whose missed renewals fit into the timeout.                   *)
THEOREM HealthyLeasesKept == Spec => []HealthyLeaseKept
  <1>1. TypeOK /\ HoldInv => HealthyLeaseKept
    <2> SUFFICES ASSUME TypeOK, HoldInv, NEW w \in Workers, Beating(w),
                        (worker[w].missed + 1) * Heartbeat <= LeaseTimeout
                 PROVE  Holding(w)
      BY DEF HealthyLeaseKept, Holding
    <2>1. (worker[w].missed + 1) * Heartbeat \in Nat /\ LeaseTimeout \in Nat
      BY TimingAssumption, OneMoreBeat DEF TypeOK, WorkerRecord
    <2>2. QED
      BY <2>1 DEF HoldInv, HoldsWell
  <1>2. QED
    BY <1>1, HoldInvariant, PTL
-----------------------------------------------------------------------------
(* The attempts of a job against what went wrong.  A running job is either *)
(* covered by an attempt that is still allowed, or somebody is at it whose *)
(* renewals all arrived: its lease cannot expire, so a claim beyond the    *)
(* account needs a fault first.                                            *)

Account == MaxAttempts + crashes + errors

(* w holds the newest claim of job j and has missed no renewal. *)
AtIt(w, j) ==
    /\ Busy(w) /\ worker[w].task = j
    /\ worker[w].lease = job[j].attempts /\ worker[w].missed = 0

Accounted(j) ==
    /\ job[j].attempts <= Account
    /\ job[j].status = "queued" => job[j].attempts < Account
    /\ job[j].status = "running" =>
          \/ job[j].attempts < Account
          \/ job[j].leaseAge <= LeaseTimeout /\ \E w \in Workers : AtIt(w, j)

FaultInv == \A j \in JobIds : Accounted(j)

LEMMA AccountType ==
  ASSUME TypeOK
  PROVE  /\ Account \in Nat /\ Account >= MaxAttempts
         /\ \A j \in JobIds : job[j].attempts \in Nat /\ job[j].leaseAge \in Nat
  BY TimingAssumption, BoundsAssumption DEF Account, TypeOK, JobRecord

LEMMA OneMoreError ==
  ASSUME TypeOK, UNCHANGED crashes, errors' = errors + 1
  PROVE  Account' = Account + 1
  <1>1. crashes \in Nat /\ errors \in Nat /\ MaxAttempts \in Nat
    BY BoundsAssumption, TimingAssumption DEF TypeOK
  <1>2. QED
    BY <1>1 DEF Account

(* A fault pays for one more attempt of every job. *)
LEMMA FaultPays ==
  ASSUME TypeOK, TypeOK', FaultInv, Account' = Account + 1, NEW j \in JobIds,
         job'[j].attempts = job[j].attempts
  PROVE  Accounted(j)'
  BY AccountType DEF FaultInv, Accounted

(* A step that leaves the claims of a job alone, does not put it back into *)
(* the queue and disturbs nobody who is at it.                             *)
LEMMA StillAccounted ==
  ASSUME TypeOK, TypeOK', FaultInv, Account' = Account, NEW j \in JobIds,
         job'[j].attempts = job[j].attempts,
         \/ job'[j].status = job[j].status
         \/ job'[j].status \notin {"queued", "running"},
         job'[j].status = "running" => job'[j].leaseAge <= job[j].leaseAge,
         job'[j].status = "running" =>
             \A w \in Workers : AtIt(w, j) => AtIt(w, j)'
  PROVE  Accounted(j)'
  <1>1. /\ Accounted(j) /\ LeaseTimeout \in Nat
        /\ job[j].leaseAge \in Nat /\ job'[j].leaseAge \in Nat
    BY AccountType, TimingAssumption DEF FaultInv, TypeOK, JobRecord
  <1>2. CASE job'[j].status \notin {"queued", "running"}
    BY <1>1, <1>2 DEF Accounted
  <1>3. CASE job'[j].status = job[j].status
    <2>1. CASE job'[j].status = "running" /\ ~(job[j].attempts < Account)
      <3>1. job[j].leaseAge <= LeaseTimeout /\ \E w \in Workers : AtIt(w, j)
        BY <1>1, <1>3, <2>1 DEF Accounted
      <3>2. job'[j].leaseAge <= LeaseTimeout
        BY <1>1, <2>1, <3>1
      <3>3. \E w \in Workers : AtIt(w, j)'
        BY <2>1, <3>1
      <3>4. QED
        BY <1>1, <1>3, <2>1, <3>2, <3>3 DEF Accounted
    <2>2. CASE job'[j].status # "running" \/ job[j].attempts < Account
      BY <1>1, <1>3, <2>2 DEF Accounted
    <2>3. QED
      BY <2>1, <2>2
  <1>4. QED
    BY <1>2, <1>3

LEMMA WorkerStepAccounted ==
  ASSUME TypeOK, TypeOK', LeaseInv, FaultInv, NEW w \in Workers, WorkerStep(w)
  PROVE  FaultInv'
  <1> SUFFICES ASSUME NEW j \in JobIds PROVE Accounted(j)'
    BY DEF FaultInv
  <1>0. Accounted(j)
    BY DEF FaultInv
  <1>1. CASE ClaimJob(w)
    <2>1. Account' = Account
      BY <1>1, ClaimFacts DEF Account
    <2>2. CASE j = worker'[w].task
      <3>1. AtIt(w, j)'
        BY <1>1, <2>2, ClaimFacts DEF AtIt, Busy
      <3>2. job'[j].attempts <= Account
        BY <1>0, <1>1, <2>2, AccountType, ClaimFacts DEF Accounted
      <3>3. job'[j].status = "running" /\ job'[j].leaseAge = 0
        BY <1>1, <2>2, ClaimFacts
      <3>4. QED
        BY <2>1, <3>1, <3>2, <3>3, TimingAssumption DEF Accounted
    <2>3. CASE j # worker'[w].task
      <3>1. job'[j] = job[j] /\ job[j].leaseAge <= job[j].leaseAge
        BY <1>1, <2>3, AccountType, ClaimFacts
      <3>2. \A v \in Workers : AtIt(v, j) => AtIt(v, j)'
        BY <1>1, <3>1, ClaimFacts DEF AtIt, Busy
      <3>3. QED
        BY <2>1, <3>1, <3>2, StillAccounted
    <2>4. QED
      BY <2>2, <2>3
  <1>2. ASSUME NEW ok \in BOOLEAN, Process(w, ok)
        PROVE  Accounted(j)'
    <2>1. Account' = Account /\ job' = job /\ job[j].leaseAge <= job[j].leaseAge
      BY <1>2, AccountType, ProcessFacts DEF Account
    <2>2. \A v \in Workers : AtIt(v, j) => AtIt(v, j)'
      BY <1>2, <2>1, ProcessFacts DEF AtIt, Busy
    <2>3. QED
      BY <2>1, <2>2, StillAccounted
  <1>3. CASE Settle(w)
    <2>1. job' = job /\ job[j].leaseAge <= job[j].leaseAge
      BY <1>3, AccountType, SettleFacts
    <2>2. \A v \in Workers : AtIt(v, j) => AtIt(v, j)'
      BY <1>3, <2>1, SettleFacts DEF AtIt, Busy
    <2>3. CASE errors' = errors
      <3>1. Account' = Account
        BY <1>3, <2>3, SettleFacts DEF Account
      <3>2. QED
        BY <2>1, <2>2, <3>1, StillAccounted
    <2>4. CASE errors' = errors + 1
      <3>1. Account' = Account + 1
        BY <1>3, <2>4, SettleFacts, OneMoreError
      <3>2. QED
        BY <2>1, <3>1, FaultPays
    <2>5. QED
      BY <1>3, <2>3, <2>4, SettleFacts
  <1>4. CASE Report(w)
    <2>1. CASE job' = job /\ errors' = errors + 1
      <3>1. Account' = Account + 1
        BY <1>4, <2>1, ReportFacts, OneMoreError
      <3>2. QED
        BY <2>1, <3>1, FaultPays
    <2>2. CASE job' = job /\ errors' = errors /\ ~Holding(w)
      <3>1. Account' = Account /\ job[j].leaseAge <= job[j].leaseAge
        BY <1>4, <2>2, AccountType, ReportFacts DEF Account
      <3>2. job[j].status = "running" => ~AtIt(w, j)
        BY <2>2 DEF AtIt, Holding, Holds, LeaseInv, NoLease
      <3>3. job[j].status = "running" =>
               \A v \in Workers : AtIt(v, j) => AtIt(v, j)'
        BY <1>4, <2>2, <3>2, ReportFacts DEF AtIt, Busy
      <3>4. QED
        BY <2>2, <3>1, <3>3, StillAccounted
    <2>3. CASE /\ Holding(w) /\ errors' = errors
               /\ \A k \in JobIds : k # worker[w].task => job'[k] = job[k]
               /\ job'[worker[w].task].attempts = job[worker[w].task].attempts
               /\ job'[worker[w].task].status
                     = IF worker[w].ok THEN "done" ELSE FailStatus(worker[w].lease)
      <3>1. Account' = Account /\ job[j].leaseAge <= job[j].leaseAge
        BY <1>4, <2>3, AccountType, ReportFacts DEF Account
      <3>2. CASE j = worker[w].task
        <4>1. worker[w].lease = job[j].attempts
          BY <2>3, <3>2 DEF Holding, Holds, LeaseInv
        <4>2. /\ job'[j].status \in {"done", "failed", "queued"}
              /\ job'[j].status = "queued" => ~(job[j].attempts >= MaxAttempts)
          BY <2>3, <3>2, <4>1 DEF FailStatus
        <4>3. QED
          BY <1>0, <2>3, <3>1, <3>2, <4>2, AccountType, TimingAssumption DEF Accounted
      <3>3. CASE j # worker[w].task
        <4>1. \A v \in Workers : AtIt(v, j) => AtIt(v, j)'
          BY <1>4, <2>3, <3>3, ReportFacts DEF AtIt, Busy
        <4>2. QED
          BY <2>3, <3>1, <3>3, <4>1, StillAccounted
      <3>4. QED
        BY <3>2, <3>3
    <2>4. QED
      BY <1>4, <2>1, <2>2, <2>3, ReportFacts
  <1>5. CASE HeartbeatTick(w)
    <2>1. /\ job'[j].attempts = job[j].attempts /\ job'[j].status = job[j].status
          /\ job'[j].lockedBy = job[j].lockedBy
          /\ UNCHANGED crashes
      BY <1>5, HeartbeatFacts
    <2>2. CASE errors' = errors + 1
      <3>1. Account' = Account + 1
        BY <2>1, <2>2, OneMoreError
      <3>2. QED
        BY <2>1, <3>1, FaultPays
    <2>3. CASE /\ Holding(w) /\ errors' = errors
               /\ worker'[w].missed = 0 /\ job'[worker[w].task].leaseAge = 0
      <3>1. Account' = Account
        BY <2>1, <2>3 DEF Account
      <3>2. job'[j].leaseAge <= job[j].leaseAge
        BY <1>5, <2>3, AccountType, HeartbeatFacts
      <3>3. \A v \in Workers : AtIt(v, j) => AtIt(v, j)'
        BY <1>5, <2>1, <2>3, HeartbeatFacts DEF AtIt, Busy
      <3>4. QED
        BY <2>1, <3>1, <3>2, <3>3, StillAccounted
    <2>4. CASE ~Holding(w) /\ errors' = errors /\ job' = job
      <3>1. Account' = Account /\ job'[j].leaseAge <= job[j].leaseAge
        BY <2>1, <2>4, AccountType DEF Account
      <3>2. job[j].status = "running" => ~AtIt(w, j)
        BY <2>4 DEF AtIt, Holding, Holds, LeaseInv, NoLease
      <3>3. job[j].status = "running" =>
               \A v \in Workers : AtIt(v, j) => AtIt(v, j)'
        BY <1>5, <2>4, <3>2, HeartbeatFacts DEF AtIt, Busy
      <3>4. QED
        BY <2>1, <3>1, <3>3, StillAccounted
    <2>5. QED
      BY <1>5, <2>2, <2>3, <2>4, HeartbeatFacts
  <1>6. QED
    BY <1>1, <1>2, <1>3, <1>4, <1>5 DEF WorkerStep

LEMMA NextAccounted ==
  TypeOK /\ TypeOK' /\ LeaseInv /\ FreshInv /\ HoldInv /\ FaultInv /\ [Next]_vars
     => FaultInv'
  <1> SUFFICES ASSUME TypeOK, TypeOK', LeaseInv, FreshInv, HoldInv, FaultInv, [Next]_vars
               PROVE  FaultInv'
    OBVIOUS
  <1>0. ASSUME UNCHANGED <<worker, crashes, errors>>, NEW j \in JobIds,
               job'[j].attempts = job[j].attempts,
               \/ job'[j].status = job[j].status
               \/ job'[j].status \notin {"queued", "running"},
               job'[j].leaseAge = job[j].leaseAge
        PROVE  Accounted(j)'
    <2>1. Account' = Account /\ job'[j].leaseAge <= job[j].leaseAge
      BY <1>0, AccountType DEF Account
    <2>2. \A w \in Workers : AtIt(w, j) => AtIt(w, j)'
      BY <1>0 DEF AtIt, Busy
    <2>3. QED
      BY <1>0, <2>1, <2>2, StillAccounted
  <1>1. CASE \/ \E d \in Deliveries, t \in Tenants : Webhook(d, t)
             \/ \E t \in Tenants : EnqueueForTenant(t)
    <2>1. ASSUME NEW j \in JobIds PROVE Accounted(j)'
      <3>1. CASE job'[j] = job[j]
        BY <1>0, <1>1, <3>1, ArrivalFacts
      <3>2. CASE job'[j].status = "queued" /\ job'[j].attempts = 0
        BY <1>1, <3>2, ArrivalFacts, AccountType, TimingAssumption DEF Accounted, Account
      <3>3. QED
        BY <1>1, <3>1, <3>2, ArrivalFacts
    <2>2. QED
      BY <2>1 DEF FaultInv
  <1>2. CASE \E t \in Tenants : SetTenantEnabled(t)
    BY <1>0, <1>2 DEF SetTenantEnabled, FaultInv
  <1>3. ASSUME NEW D \in SUBSET Deliveries, NEW J \in SUBSET JobIds, Cleanup(D, J)
        PROVE  FaultInv'
    <2>1. ASSUME NEW j \in JobIds PROVE Accounted(j)'
      BY <1>0, <1>3, CleanupFacts
    <2>2. QED
      BY <2>1 DEF FaultInv
  <1>4. ASSUME NEW w \in Workers, WorkerStep(w)
        PROVE  FaultInv'
    BY <1>4, WorkerStepAccounted
  <1>5. ASSUME NEW w \in Workers, Crash(w)
        PROVE  FaultInv'
    <2>1. UNCHANGED <<job, errors>> /\ crashes' = crashes + 1
      BY <1>5 DEF Crash, storeVars
    <2>2. crashes \in Nat /\ errors \in Nat /\ MaxAttempts \in Nat
      BY BoundsAssumption, TimingAssumption DEF TypeOK
    <2>3. Account' = Account + 1
      BY <2>1, <2>2 DEF Account
    <2>4. QED
      BY <2>1, <2>3, FaultPays DEF FaultInv
  <1>6. CASE RequeueStaleJobs
    <2>1. ASSUME NEW j \in JobIds PROVE Accounted(j)'
      <3>1. CASE ~Stale(j)
        BY <1>0, <1>6, <3>1, RequeueFacts
      <3>2. CASE Stale(j)
        <4>1. job[j].attempts < Account
          BY <3>2, AccountType, TimingAssumption DEF Stale, FaultInv, Accounted
        <4>2. /\ job'[j].attempts = job[j].attempts /\ job'[j].status = "queued"
              /\ Account' = Account
          BY <1>6, <3>2, RequeueFacts DEF Account
        <4>3. QED
          BY <4>1, <4>2, AccountType DEF Accounted
      <3>3. QED
        BY <3>1, <3>2
    <2>2. QED
      BY <2>1 DEF FaultInv
  <1>7. CASE Tick
    <2>1. ASSUME NEW j \in JobIds PROVE Accounted(j)'
      <3>1. /\ Accounted(j) /\ Account' = Account
            /\ job'[j].attempts = job[j].attempts /\ job'[j].status = job[j].status
            /\ job'[j].lockedBy = job[j].lockedBy
            /\ job'[j].leaseAge <= job[j].leaseAge + 1
        BY <1>7, TickFacts DEF FaultInv, Account
      <3>2. ASSUME NEW w \in Workers, AtIt(w, j), job[j].status = "running"
            PROVE  AtIt(w, j)' /\ job'[j].leaseAge <= LeaseTimeout
        <4>1. Holding(w) /\ Busy(w)
          BY <3>2 DEF AtIt, Holding, Holds, LeaseInv
        <4>2. Beating(w)
          BY <1>7, <4>1, TickFacts DEF HoldInv, HoldsWell, Beating, Busy, TypeOK, WorkerRecord
        <4>3. worker[w].missed = 0 /\ worker[w].task = j
          BY <3>2 DEF AtIt
        <4>4. worker[w].missed * Heartbeat = 0 /\ worker[w].beat \in Nat
          BY <4>3, TimingAssumption DEF TypeOK, WorkerRecord
        <4>5. job[j].leaseAge <= worker[w].beat /\ worker[w].beat < Heartbeat
          BY <1>7, <4>1, <4>2, <4>3, <4>4, TickFacts DEF HoldInv, HoldsWell
        <4>6. job[j].leaseAge \in Nat /\ job'[j].leaseAge \in Nat
          BY AccountType DEF TypeOK, JobRecord
        <4>7. job'[j].leaseAge <= LeaseTimeout
          BY <3>1, <4>4, <4>5, <4>6, TimingAssumption
        <4>8. AtIt(w, j)'
          BY <1>7, <3>1, <3>2, TickFacts DEF AtIt, Busy
        <4>9. QED
          BY <4>7, <4>8
      <3>3. QED
        BY <3>1, <3>2 DEF Accounted
    <2>2. QED
      BY <2>1 DEF FaultInv
  <1>8. CASE UNCHANGED vars
    BY <1>0, <1>8 DEF vars, storeVars, faultVars, FaultInv
  <1>9. QED
    BY <1>1, <1>2, <1>3, <1>4, <1>5, <1>6, <1>7, <1>8 DEF Next

(* Retries are limited, whatever the workers, the sweep and the failures   *)
(* do to a job: more than MaxAttempts claims need as many faults.          *)
THEOREM RetriesBounded == Spec => []AttemptsBoundedByFaults
  <1>1. Init => FaultInv
    <2> SUFFICES ASSUME Init, NEW j \in JobIds PROVE Accounted(j)
      BY DEF FaultInv
    <2>1. job[j].attempts = 0 /\ job[j].status = "none" /\ crashes = 0 /\ errors = 0
      BY DEF Init, NewJob
    <2>2. QED
      BY <2>1, TimingAssumption DEF Accounted, Account
  <1>2. FaultInv => AttemptsBoundedByFaults
    BY DEF FaultInv, Accounted, Account, AttemptsBoundedByFaults
  <1>3. QED
    BY <1>1, <1>2, HoldInvariant, NextAccounted, PTL DEF Spec
-----------------------------------------------------------------------------
(* Verdicts against what the runs of a handler returned.  A worker knows   *)
(* how its own run ended; an old run that returns late cannot make a       *)
(* settled job look different, because its lease is not the job's.         *)

RunWell(w) ==
    Busy(w) =>
      LET j == worker[w].task IN
      /\ worker[w].phase = "working" => ~worker[w].ok
      /\ IF worker[w].ok THEN worker[w].lease <= succeeded[j]
                         ELSE worker[w].lease # succeeded[j]
      /\ job[j].status = "failed" => worker[w].lease # job[j].attempts

JobHonest(j) ==
    /\ succeeded[j] <= job[j].attempts
    /\ job[j].status = "done" => succeeded[j] = job[j].attempts
    /\ job[j].status = "failed" =>
          succeeded[j] # job[j].attempts /\ job[j].attempts >= MaxAttempts

DeliveryHonest(d) ==
    delivery[d] = "processed" =>
        \E j \in JobIds : job[j].delivery = d /\ succeeded[j] # 0

VerdictInv ==
    /\ \A w \in Workers : RunWell(w)
    /\ \A j \in JobIds : JobHonest(j)
    /\ \A d \in Deliveries \ expired : DeliveryHonest(d)

LEMMA RunTypes ==
  ASSUME TypeOK, LeaseInv, NEW w \in Workers, Busy(w)
  PROVE  /\ worker[w].task \in JobIds /\ worker[w].lease \in Nat \ {0}
         /\ worker[w].lease <= job[worker[w].task].attempts
         /\ succeeded[worker[w].task] \in Nat
         /\ job[worker[w].task].attempts \in Nat
  <1>1. worker[w].task \in JobIds /\ worker[w].lease \in 1..job[worker[w].task].attempts
    BY DEF LeaseInv
  <1>2. job[worker[w].task].attempts \in Nat /\ succeeded[worker[w].task] \in Nat
    BY <1>1 DEF TypeOK, JobRecord
  <1>3. QED
    BY <1>1, <1>2

LEMMA JobTypes ==
  ASSUME TypeOK, NEW j \in JobIds
  PROVE  job[j].attempts \in Nat /\ succeeded[j] \in Nat
  BY DEF TypeOK, JobRecord

(* A step that runs no handler, and under which a job keeps its attempts   *)
(* and gets no new verdict.                                                *)
LEMMA SameVerdicts ==
  ASSUME TypeOK, LeaseInv, VerdictInv, UNCHANGED succeeded,
         \A w \in Workers : Busy(w)' =>
            /\ Busy(w)
            /\ worker'[w].task = worker[w].task /\ worker'[w].lease = worker[w].lease
            /\ worker'[w].ok = worker[w].ok
            /\ worker'[w].phase = "working" => worker[w].phase = "working",
         \A j \in JobIds :
            /\ job'[j].attempts = job[j].attempts
            /\ job'[j].delivery = job[j].delivery
            /\ \/ job'[j].status = job[j].status
               \/ job'[j].status \notin {"done", "failed"},
         expired \subseteq expired',
         \A d \in Deliveries \ expired' :
            delivery'[d] = "processed" =>
               \/ delivery[d] = "processed"
               \/ \E j \in JobIds : job[j].delivery = d /\ succeeded[j] # 0
  PROVE  VerdictInv'
  <1>1. ASSUME NEW w \in Workers PROVE RunWell(w)'
    BY RunTypes DEF VerdictInv, RunWell
  <1>2. ASSUME NEW j \in JobIds PROVE JobHonest(j)'
    BY DEF VerdictInv, JobHonest
  <1>3. ASSUME NEW d \in Deliveries \ expired' PROVE DeliveryHonest(d)'
    BY DEF VerdictInv, DeliveryHonest
  <1>4. QED
    BY <1>1, <1>2, <1>3 DEF VerdictInv

LEMMA ClaimVerdicts ==
  ASSUME TypeOK, LeaseInv, VerdictInv, NEW w \in Workers, ClaimJob(w)
  PROVE  VerdictInv'
  <1>1. ASSUME NEW v \in Workers PROVE RunWell(v)'
    <2>1. CASE v = w
      <3> DEFINE j == worker'[w].task
      <3>1. /\ j \in JobIds /\ worker'[w].lease = job[j].attempts + 1
            /\ ~worker'[w].ok /\ job'[j].status = "running"
            /\ succeeded' = succeeded
        BY ClaimFacts
      <3>2. succeeded[j] <= job[j].attempts /\ succeeded[j] \in Nat /\ job[j].attempts \in Nat
        BY <3>1, JobTypes DEF VerdictInv, JobHonest
      <3>3. QED
        BY <2>1, <3>1, <3>2 DEF RunWell
    <2>2. CASE v # w
      <3>1. worker'[v] = worker[v] /\ succeeded' = succeeded /\ RunWell(v)
        BY <2>2, ClaimFacts DEF VerdictInv
      <3>2. Busy(v) => \/ job'[worker[v].task] = job[worker[v].task]
                       \/ job'[worker[v].task].status = "running"
        BY ClaimFacts, RunTypes
      <3>3. QED
        BY <3>1, <3>2 DEF RunWell, Busy
    <2>3. QED
      BY <2>1, <2>2
  <1>2. ASSUME NEW j \in JobIds PROVE JobHonest(j)'
    <2>1. JobHonest(j) /\ succeeded' = succeeded
      BY ClaimFacts DEF VerdictInv
    <2>2. \/ job'[j] = job[j]
          \/ job'[j].status = "running" /\ job'[j].attempts = job[j].attempts + 1
      BY ClaimFacts
    <2>3. QED
      BY <2>1, <2>2, JobTypes DEF JobHonest
  <1>3. ASSUME NEW d \in Deliveries \ expired PROVE DeliveryHonest(d)'
    <2>1. \A j \in JobIds : job'[j].delivery = job[j].delivery
      BY ClaimFacts
    <2>2. QED
      BY <2>1, ClaimFacts DEF VerdictInv, DeliveryHonest
  <1>4. QED
    BY <1>1, <1>2, <1>3, ClaimFacts DEF VerdictInv

LEMMA ProcessVerdicts ==
  ASSUME TypeOK, LeaseInv, VerdictInv,
         NEW w \in Workers, NEW ok \in BOOLEAN, Process(w, ok)
  PROVE  VerdictInv'
  <1> DEFINE j == worker[w].task
             lease == worker[w].lease
  <1>1. /\ Busy(w) /\ j \in JobIds /\ lease \in Nat \ {0} /\ lease <= job[j].attempts
        /\ succeeded[j] \in Nat /\ job[j].attempts \in Nat
        /\ RunWell(w) /\ JobHonest(j) /\ job' = job
    BY ProcessFacts, RunTypes DEF Busy, VerdictInv
  <1>2. \/ succeeded' = succeeded /\ (ok => lease <= succeeded[j])
        \/ /\ ok /\ lease > succeeded[j] /\ succeeded'[j] = lease
           /\ \A k \in JobIds : k # j => succeeded'[k] = succeeded[k]
    <2>1. IF ok /\ lease > succeeded[j]
          THEN succeeded' = [succeeded EXCEPT ![j] = lease] ELSE succeeded' = succeeded
      BY ProcessFacts
    <2>2. succeeded \in [JobIds -> Nat]
      BY DEF TypeOK
    <2>3. CASE ok /\ lease > succeeded[j]
      <3>1. succeeded' = [succeeded EXCEPT ![j] = lease]
        BY <2>1, <2>3
      <3>2. QED
        BY <1>1, <2>2, <2>3, <3>1
    <2>4. CASE ~(ok /\ lease > succeeded[j])
      BY <1>1, <2>1, <2>4
    <2>5. QED
      BY <2>3, <2>4
  <1>3. ASSUME NEW v \in Workers PROVE RunWell(v)'
    <2>1. CASE v = w
      <3>1. ~worker[w].ok /\ worker[w].phase = "working"
        BY <1>1, ProcessFacts DEF RunWell
      <3>2. /\ worker'[w].task = j /\ worker'[w].lease = lease
            /\ worker'[w].ok = ok /\ worker'[w].phase # "working"
        BY ProcessFacts
      <3>3. IF ok THEN lease <= succeeded'[j] ELSE lease # succeeded'[j]
        BY <1>1, <1>2, <3>1 DEF RunWell
      <3>4. QED
        BY <1>1, <2>1, <3>2, <3>3 DEF RunWell
    <2>2. CASE v # w
      <3>1. worker'[v] = worker[v] /\ RunWell(v)
        BY <2>2, ProcessFacts DEF VerdictInv
      <3>2. CASE Busy(v) /\ worker[v].task = j
        <4>1. worker[v].lease # lease
          BY <1>1, <2>2, <3>2 DEF LeaseInv
        <4>2. worker[v].lease \in Nat
          BY <3>2, RunTypes
        <4>3. QED
          BY <1>1, <1>2, <3>1, <3>2, <4>1, <4>2 DEF RunWell
      <3>3. CASE Busy(v) /\ worker[v].task # j
        BY <1>1, <1>2, <3>1, <3>3, RunTypes DEF RunWell
      <3>4. CASE ~Busy(v)
        BY <3>1, <3>4 DEF RunWell, Busy
      <3>5. QED
        BY <3>2, <3>3, <3>4
    <2>3. QED
      BY <2>1, <2>2
  <1>4. ASSUME NEW k \in JobIds PROVE JobHonest(k)'
    <2>1. JobHonest(k)
      BY DEF VerdictInv
    <2>2. CASE k = j
      BY <1>1, <1>2, <2>2 DEF JobHonest, RunWell
    <2>3. CASE k # j
      BY <1>1, <1>2, <2>1, <2>3 DEF JobHonest
    <2>4. QED
      BY <2>2, <2>3
  <1>5. ASSUME NEW d \in Deliveries \ expired PROVE DeliveryHonest(d)'
    <2>1. \A k \in JobIds : succeeded[k] # 0 => succeeded'[k] # 0
      BY <1>1, <1>2
    <2>2. QED
      BY <1>1, <2>1, ProcessFacts DEF VerdictInv, DeliveryHonest
  <1>6. QED
    BY <1>3, <1>4, <1>5, ProcessFacts DEF VerdictInv

LEMMA SettleVerdicts ==
  ASSUME TypeOK, LeaseInv, VerdictInv, NEW w \in Workers, Settle(w)
  PROVE  VerdictInv'
  <1> DEFINE j == worker[w].task
             d == job[j].delivery
  <1>1. Busy(w) /\ worker[w].phase = "settling" /\ UNCHANGED <<job, succeeded, expired>>
    BY SettleFacts DEF Busy
  <1>2. \A v \in Workers : Busy(v)' =>
           /\ Busy(v)
           /\ worker'[v].task = worker[v].task /\ worker'[v].lease = worker[v].lease
           /\ worker'[v].ok = worker[v].ok
           /\ worker'[v].phase = "working" => worker[v].phase = "working"
    BY <1>1, SettleFacts DEF Busy
  <1>3. worker[w].ok => succeeded[j] # 0 /\ j \in JobIds
    BY <1>1, RunTypes DEF VerdictInv, RunWell
  <1>4. \A e \in Deliveries :
           delivery'[e] = "processed" => delivery[e] = "processed" \/ (worker[w].ok /\ e = d)
    BY SettleFacts DEF UpdateDelivery, TypeOK
  <1>5. QED
    BY <1>1, <1>2, <1>3, <1>4, SameVerdicts

LEMMA ReportVerdicts ==
  ASSUME TypeOK, LeaseInv, VerdictInv, NEW w \in Workers, Report(w)
  PROVE  VerdictInv'
  <1> DEFINE j == worker[w].task
             lease == worker[w].lease
  <1>1. /\ Busy(w) /\ UNCHANGED <<succeeded, delivery, expired>>
        /\ \A v \in Workers : Busy(v)' => v # w /\ worker'[v] = worker[v] /\ Busy(v)
    BY ReportFacts DEF Busy
  <1>2. CASE job' = job
    BY <1>1, <1>2, SameVerdicts
  <1>3. CASE /\ Holding(w)
             /\ \A k \in JobIds : k # j => job'[k] = job[k]
             /\ job'[j].attempts = job[j].attempts
             /\ job'[j].delivery = job[j].delivery
             /\ job'[j].status = IF worker[w].ok THEN "done" ELSE FailStatus(lease)
    <2>1. /\ j \in JobIds /\ lease = job[j].attempts /\ job[j].attempts \in Nat
          /\ succeeded[j] \in Nat /\ succeeded[j] <= job[j].attempts
          /\ IF worker[w].ok THEN lease <= succeeded[j] ELSE lease # succeeded[j]
      BY <1>1, <1>3, RunTypes
         DEF Holding, Holds, LeaseInv, VerdictInv, JobHonest, RunWell
    <2>2. ASSUME NEW v \in Workers PROVE RunWell(v)'
      <3>1. CASE Busy(v)' /\ worker[v].task = j
        <4>1. worker[v].lease # lease
          BY <1>1, <3>1 DEF LeaseInv
        <4>2. QED
          BY <1>1, <1>3, <2>1, <3>1, <4>1 DEF VerdictInv, RunWell
      <3>2. CASE Busy(v)' /\ worker[v].task # j
        <4>1. job'[worker[v].task] = job[worker[v].task]
          BY <1>1, <1>3, <3>2, RunTypes
        <4>2. QED
          BY <1>1, <3>2, <4>1 DEF VerdictInv, RunWell
      <3>3. CASE ~Busy(v)'
        BY <3>3 DEF RunWell
      <3>4. QED
        BY <3>1, <3>2, <3>3
    <2>3. ASSUME NEW k \in JobIds PROVE JobHonest(k)'
      <3>1. CASE k = j
        BY <1>1, <1>3, <2>1, <3>1, TimingAssumption DEF JobHonest, FailStatus
      <3>2. CASE k # j
        BY <1>1, <1>3, <3>2 DEF VerdictInv, JobHonest
      <3>3. QED
        BY <3>1, <3>2
    <2>4. ASSUME NEW d \in Deliveries \ expired PROVE DeliveryHonest(d)'
      <3>1. \A k \in JobIds : job'[k].delivery = job[k].delivery
        BY <1>3
      <3>2. QED
        BY <1>1, <3>1 DEF VerdictInv, DeliveryHonest
    <2>5. QED
      BY <1>1, <2>2, <2>3, <2>4 DEF VerdictInv
  <1>4. QED
    BY <1>2, <1>3, ReportFacts

LEMMA NextVerdicts ==
  TypeOK /\ LeaseInv /\ FreshInv /\ VerdictInv /\ [Next]_vars => VerdictInv'
  <1> SUFFICES ASSUME TypeOK, LeaseInv, FreshInv, VerdictInv, [Next]_vars
               PROVE  VerdictInv'
    OBVIOUS
  <1>1. CASE \/ \E d \in Deliveries, t \in Tenants : Webhook(d, t)
             \/ \E t \in Tenants : EnqueueForTenant(t)
    <2>1. CASE UNCHANGED job
      BY <1>1, <2>1, ArrivalFacts, SameVerdicts DEF Busy
    <2>2. CASE /\ nextJob \in JobIds
               /\ \A j \in JobIds : j # nextJob => job'[j] = job[j]
               /\ job'[nextJob].status = "queued" /\ job[nextJob].status = "none"
               /\ job'[nextJob].attempts = 0 /\ job[nextJob].attempts = 0
      <3>1. UNCHANGED <<worker, succeeded, expired>>
        BY <1>1, ArrivalFacts
      <3>2. ASSUME NEW w \in Workers PROVE RunWell(w)'
        <4>1. Busy(w) => worker[w].task \in JobIds /\ worker[w].task # nextJob
          BY <2>2, RunTypes
        <4>2. QED
          BY <2>2, <3>1, <4>1 DEF VerdictInv, RunWell, Busy
      <3>3. succeeded[nextJob] = 0
        BY <2>2, JobTypes DEF VerdictInv, JobHonest
      <3>4. ASSUME NEW j \in JobIds PROVE JobHonest(j)'
        BY <2>2, <3>1, <3>3 DEF VerdictInv, JobHonest
      <3>5. ASSUME NEW d \in Deliveries \ expired PROVE DeliveryHonest(d)'
        BY <1>1, <2>2, <3>1, <3>3, ArrivalFacts DEF VerdictInv, DeliveryHonest
      <3>6. QED
        BY <3>1, <3>2, <3>4, <3>5 DEF VerdictInv
    <2>3. QED
      BY <1>1, <2>1, <2>2, ArrivalFacts
  <1>2. CASE \E t \in Tenants : SetTenantEnabled(t)
    BY <1>2, SameVerdicts DEF SetTenantEnabled, Busy, histVars
  <1>3. ASSUME NEW D \in SUBSET Deliveries, NEW J \in SUBSET JobIds, Cleanup(D, J)
        PROVE  VerdictInv'
    <2>1. /\ UNCHANGED <<worker, succeeded>> /\ expired' = expired \cup D
          /\ \A d \in Deliveries \ expired' : delivery'[d] = delivery[d]
      BY <1>3, CleanupFacts
    <2>2. \A j \in JobIds :
             /\ job'[j].attempts = job[j].attempts
             /\ job'[j].delivery = job[j].delivery
             /\ \/ job'[j].status = job[j].status
                \/ job'[j].status \notin {"done", "failed"}
      BY <1>3, CleanupFacts
    <2>3. QED
      BY <2>1, <2>2, SameVerdicts DEF Busy
  <1>4. ASSUME NEW w \in Workers, WorkerStep(w)
        PROVE  VerdictInv'
    <2>1. CASE HeartbeatTick(w)
      <3>1. UNCHANGED <<succeeded, expired, delivery>>
        BY <2>1, HeartbeatFacts
      <3>2. \A v \in Workers : Busy(v)' =>
               /\ Busy(v)
               /\ worker'[v].task = worker[v].task /\ worker'[v].lease = worker[v].lease
               /\ worker'[v].ok = worker[v].ok
               /\ worker'[v].phase = "working" => worker[v].phase = "working"
        BY <2>1, HeartbeatFacts DEF Busy
      <3>3. \A j \in JobIds : /\ job'[j].attempts = job[j].attempts
                              /\ job'[j].delivery = job[j].delivery
                              /\ job'[j].status = job[j].status
        BY <2>1, HeartbeatFacts
      <3>4. QED
        BY <3>1, <3>2, <3>3, SameVerdicts
    <2>2. QED
      BY <1>4, <2>1, ClaimVerdicts, ProcessVerdicts, SettleVerdicts, ReportVerdicts
         DEF WorkerStep
  <1>5. ASSUME NEW w \in Workers, Crash(w)
        PROVE  VerdictInv'
    <2>1. /\ worker'[w].phase = "idle" /\ UNCHANGED <<job, delivery, succeeded, expired>>
          /\ \A v \in Workers : v # w => worker'[v] = worker[v]
      BY <1>5 DEF Crash, Idle, TypeOK, storeVars, histVars
    <2>2. QED
      BY <2>1, SameVerdicts DEF Busy
  <1>6. CASE RequeueStaleJobs
    <2>1. /\ UNCHANGED <<worker, succeeded, delivery, expired>>
          /\ \A j \in JobIds : /\ job'[j].attempts = job[j].attempts
                               /\ job'[j].delivery = job[j].delivery
                               /\ \/ job'[j].status = job[j].status
                                  \/ job'[j].status \notin {"done", "failed"}
      BY <1>6, RequeueFacts
    <2>2. QED
      BY <2>1, SameVerdicts DEF Busy
  <1>7. CASE Tick
    <2>1. /\ UNCHANGED <<succeeded, delivery, expired>>
          /\ \A j \in JobIds : /\ job'[j].attempts = job[j].attempts
                               /\ job'[j].delivery = job[j].delivery
                               /\ job'[j].status = job[j].status
      BY <1>7, TickFacts
    <2>2. \A v \in Workers :
               /\ worker'[v].task = worker[v].task /\ worker'[v].lease = worker[v].lease
               /\ worker'[v].ok = worker[v].ok /\ worker'[v].phase = worker[v].phase
      BY <1>7, TickFacts
    <2>3. QED
      BY <2>1, <2>2, SameVerdicts DEF Busy
  <1>8. CASE UNCHANGED vars
    BY <1>8, SameVerdicts DEF vars, storeVars, histVars, Busy
  <1>9. QED
    BY <1>1, <1>2, <1>3, <1>4, <1>5, <1>6, <1>7, <1>8 DEF Next

(* A job that is done was found so by the run of its last claim, and one   *)
(* that failed used up its attempts without such a success, whoever else   *)
(* ran it before or lost it on the way.  A delivery record promises less:  *)
(* processed means that some run of its job succeeded, since a worker that *)
(* lost its lease may still write it over the outcome of a later run.      *)
THEOREM VerdictsAreHonest == Spec => []VerdictsHonest
  <1>1. Init => VerdictInv
    <2> SUFFICES ASSUME Init PROVE VerdictInv
      OBVIOUS
    <2>1. /\ \A w \in Workers : ~Busy(w)
          /\ \A j \in JobIds : /\ job[j].status = "none" /\ job[j].attempts = 0
                               /\ succeeded[j] = 0
          /\ \A d \in Deliveries : delivery[d] = "absent"
      BY DEF Init, NewJob, Idle, Busy
    <2>2. QED
      BY <2>1 DEF VerdictInv, RunWell, JobHonest, DeliveryHonest
  <1>2. VerdictInv => VerdictsHonest
    BY DEF VerdictInv, JobHonest, DeliveryHonest, VerdictsHonest
  <1>3. QED
    BY <1>1, <1>2, LeasesInvariant, NextVerdicts, PTL DEF Spec
=============================================================================
