---------------------------- MODULE JobContract ----------------------------
(***************************************************************************)
(* What the job queue promises to the webhook senders and to the operators *)
(* who read it, with no worker, lease, clock or attempt in sight:          *)
(*                                                                         *)
(*   - a webhook delivery is taken once: it is either dismissed or turned  *)
(*     into exactly one job, and both happen in the same step;             *)
(*   - a job gets one verdict, "done" or "failed", and keeps it;           *)
(*   - only the retention sweep forgets a delivery or a finished job.      *)
(*                                                                         *)
(* JobQueue implements this module.                                        *)
(***************************************************************************)
EXTENDS Naturals

CONSTANTS
    JobIds,       \* the numbers a job can get
    Deliveries,   \* webhook delivery identifiers
    NoDelivery    \* the origin of a job that no webhook asked for

VARIABLES
    taken,        \* deliveries that are on record
    origin,       \* for each job, the delivery it was created for
    verdict       \* for each job: none, pending, done, failed or removed

vars == <<taken, origin, verdict>>

Init ==
    /\ taken = {}
    /\ origin = [j \in JobIds |-> NoDelivery]
    /\ verdict = [j \in JobIds |-> "none"]

(* A delivery that asks for no work is put on record. *)
Dismiss(d) ==
    /\ d \notin taken
    /\ taken' = taken \cup {d}
    /\ UNCHANGED <<origin, verdict>>

(* A delivery is put on record and becomes job j. *)
Accept(d, j) ==
    /\ d \notin taken
    /\ verdict[j] = "none"
    /\ taken' = taken \cup {d}
    /\ origin' = [origin EXCEPT ![j] = d]
    /\ verdict' = [verdict EXCEPT ![j] = "pending"]

(* The program itself asks for job j. *)
Submit(j) ==
    /\ verdict[j] = "none"
    /\ verdict' = [verdict EXCEPT ![j] = "pending"]
    /\ UNCHANGED <<taken, origin>>

Resolve(j, v) ==
    /\ verdict[j] = "pending"
    /\ verdict' = [verdict EXCEPT ![j] = v]
    /\ UNCHANGED <<taken, origin>>

(* Retention: the deliveries D and the finished jobs J are forgotten. *)
Forget(D, J) ==
    /\ D \subseteq taken
    /\ \A j \in J : verdict[j] \in {"done", "failed"}
    /\ taken' = taken \ D
    /\ verdict' = [j \in JobIds |-> IF j \in J THEN "removed" ELSE verdict[j]]
    /\ UNCHANGED origin

Next ==
    \/ \E d \in Deliveries : Dismiss(d)
    \/ \E d \in Deliveries, j \in JobIds : Accept(d, j)
    \/ \E j \in JobIds : Submit(j)
    \/ \E j \in JobIds, v \in {"done", "failed"} : Resolve(j, v)
    \/ \E D \in SUBSET Deliveries, J \in SUBSET JobIds : Forget(D, J)

Spec == Init /\ [][Next]_vars
=============================================================================
