------------------------------- MODULE PgPool -------------------------------
(***************************************************************************)
(* The pool of PostgreSQL connections, internal/db/postgres_pool.go.       *)
(*                                                                         *)
(* Two buffered channels of the same size: idle holds connections nobody   *)
(* uses, slots one token per connection that is open or being opened.  A   *)
(* user takes an idle connection, or a slot to dial a new one, or waits    *)
(* for either; a used connection goes back to idle, or is closed and its   *)
(* slot given back.  close() marks the pool closed, wakes the waiters and  *)
(* closes what is idle, while users are anywhere in their calls.           *)
(*                                                                         *)
(* A select takes any of its ready cases, and its default only when none   *)
(* is ready.                                                               *)
(***************************************************************************)
EXTENDS Naturals, FiniteSets

CONSTANTS
    Users,   \* goroutines of the PostgresBackend
    Size     \* capacity of the pool

ASSUME PoolAssumption == IsFiniteSet(Users) /\ Size \in Nat \ {0}

VARIABLES
    pc,      \* where each user is
    idle,    \* length of p.idle
    slots,   \* length of p.slots
    closed,  \* p.closed; p.closeCh is closed with it, under the same lock
    closer,  \* where close() is
    raced    \* history: releases past their check when the pool was closed

poolVars == <<pc, idle, slots, closed, closer, raced>>

(* "out": in no call; "first", "second": at that select of acquire;        *)
(* "took": has an idle connection, "slot": has a slot, "dialed": has a     *)
(* new connection, each before isClosed; "using": acquire has returned a   *)
(* connection; "resetting": in release, past isClosed.                     *)
Places == {"out", "first", "second", "took", "slot", "dialed", "using", "resetting"}
Acquiring == {"first", "second", "took", "slot", "dialed"}
Holding == {"took", "slot", "dialed", "using", "resetting"}

Holders == {u \in Users : pc[u] \in Holding}
Resetting == {u \in Users : pc[u] = "resetting"}

At(u, place) == pc[u] = place
Goto(u, place) == pc' = [pc EXCEPT ![u] = place]

(* Mutant: the connection is closed and keeps its slot. *)
Drop_KeepSlot(u) == Goto(u, "out") /\ UNCHANGED <<idle, slots>>

(* The user's connection, if any, is closed and its slot given back.       *)
Drop(u) == Goto(u, "out") /\ slots' = slots - 1 /\ UNCHANGED idle

TakeIdle(u) ==
    /\ idle > 0
    /\ idle' = idle - 1
    /\ Goto(u, "took")
    /\ UNCHANGED slots

Leave(u) == Goto(u, "out") /\ UNCHANGED <<idle, slots>>

-----------------------------------------------------------------------------
(* acquire *)

(* The context is alive and the pool open. *)
Enter(u) ==
    /\ At(u, "out") /\ ~closed
    /\ Goto(u, "first")
    /\ UNCHANGED <<idle, slots>>

FirstSelect(u) ==
    /\ At(u, "first")
    /\ \/ closed /\ Leave(u)
       \/ TakeIdle(u)
       \/ /\ ~closed /\ idle = 0
          /\ Goto(u, "second") /\ UNCHANGED <<idle, slots>>

TakeIdleOrSlot(u) ==
    /\ At(u, "second")
    /\ \/ TakeIdle(u)
       \/ slots < Size /\ slots' = slots + 1 /\ Goto(u, "slot") /\ UNCHANGED idle

(* The pool is closed or the context done: an error. *)
StopWaiting(u) ==
    /\ At(u, "second")
    /\ Leave(u)

Wake(u) == closed /\ StopWaiting(u)

CheckTaken(u) ==
    /\ At(u, "took")
    /\ IF closed THEN Drop(u) ELSE Goto(u, "using") /\ UNCHANGED <<idle, slots>>

(* Mutant: a failed dial keeps its slot. *)
Dial_KeepSlot(u) ==
    /\ At(u, "slot")
    /\ \/ ~closed /\ Goto(u, "dialed") /\ UNCHANGED <<idle, slots>>
       \/ Leave(u)

(* pgwire.Connect, which may fail. *)
Dial(u) ==
    /\ At(u, "slot")
    /\ \/ ~closed /\ Goto(u, "dialed") /\ UNCHANGED <<idle, slots>>
       \/ Drop(u)

CheckDialed(u) ==
    /\ At(u, "dialed")
    /\ IF closed THEN Drop(u) ELSE Goto(u, "using") /\ UNCHANGED <<idle, slots>>

-----------------------------------------------------------------------------
(* release *)

(* Mutant: release relies on its select to see that the pool is closed. *)
Release_NoCheck(u) ==
    /\ At(u, "using")
    /\ Goto(u, "resetting") /\ UNCHANGED <<idle, slots>>

Release(u) ==
    /\ At(u, "using")
    /\ IF closed THEN Drop(u) ELSE Goto(u, "resetting") /\ UNCHANGED <<idle, slots>>

(* postgresConnectionHealthy resets the session, over the network; then    *)
(* the select: broken, closed and full all close the connection, and a     *)
(* closed pool that has room may still take it back.                       *)
GiveBack(u) ==
    /\ At(u, "resetting")
    /\ \/ idle < Size /\ idle' = idle + 1 /\ Goto(u, "out") /\ UNCHANGED slots
       \/ Drop(u)

UserStep(u) ==
    \/ FirstSelect(u) \/ CheckTaken(u) \/ Dial(u) \/ CheckDialed(u)
    \/ Release(u) \/ GiveBack(u)

User(u) ==
    /\ Enter(u) \/ TakeIdleOrSlot(u) \/ StopWaiting(u) \/ UserStep(u)
    /\ UNCHANGED <<closed, closer, raced>>

-----------------------------------------------------------------------------
(* close: only the first call gets past the lock. *)
Close ==
    /\ ~closed
    /\ closed' = TRUE
    /\ closer' = "draining"
    /\ raced' = Cardinality(Resetting)
    /\ UNCHANGED <<pc, idle, slots>>

Drain ==
    /\ closer = "draining"
    /\ \/ idle > 0 /\ idle' = idle - 1 /\ slots' = slots - 1 /\ UNCHANGED closer
       \/ idle = 0 /\ closer' = "done" /\ UNCHANGED <<idle, slots>>
    /\ UNCHANGED <<pc, closed, raced>>

(* newPostgresPool *)
PoolInit ==
    /\ pc = [u \in Users |-> "out"]
    /\ idle = 0 /\ slots = 0
    /\ closed = FALSE /\ closer = "no" /\ raced = 0

PoolNext == (\E u \in Users : User(u)) \/ Close \/ Drain

PoolSpec == PoolInit /\ [][PoolNext]_poolVars

(* A call that can go on does, and whoever has a connection releases it    *)
(* (every caller defers the release).  A waiter is in the queues of both   *)
(* channels, which serve their waiters in order, so it gets a connection   *)
(* or a slot when these are free again and again.  Nothing forces an       *)
(* acquire to begin, a context to end or the pool to be closed.            *)
PoolFairness ==
    /\ \A u \in Users :
        /\ WF_poolVars(UserStep(u) /\ UNCHANGED <<closed, closer, raced>>)
        /\ WF_poolVars(Wake(u) /\ UNCHANGED <<closed, closer, raced>>)
        /\ SF_poolVars(TakeIdleOrSlot(u) /\ UNCHANGED <<closed, closer, raced>>)
    /\ WF_poolVars(Drain)

PoolFairSpec == PoolSpec /\ PoolFairness

-----------------------------------------------------------------------------
(* Types of all variables; neither channel is ever over its capacity. *)
TypeOK ==
    /\ pc \in [Users -> Places]
    /\ idle \in 0..Size
    /\ slots \in 0..Size
    /\ closed \in BOOLEAN
    /\ closer \in {"no", "draining", "done"}
    /\ raced \in Nat

(* There is one slot for each connection, idle or in some user's hands,    *)
(* and none besides: no path of acquire, release and close loses a slot or *)
(* gives one back twice, so that reading slots never blocks and there are  *)
(* at most Size connections.                                               *)
SlotsMatchConnections ==
    slots = idle + Cardinality(Holders)

(* What is left open in a closed pool was put there by a release that had  *)
(* seen the pool open: no connection is given back after the close.        *)
LeftOpenOnlyByRace ==
    closer = "done" => idle <= raced

(* Every call of acquire returns, with a connection or an error: no        *)
(* connection that is lost, broken or could not be dialed keeps others     *)
(* waiting forever, and closing wakes every waiter.                        *)
EveryAcquireReturns ==
    \A u \in Users : (pc[u] \in Acquiring) ~> (pc[u] \notin Acquiring)
=============================================================================
