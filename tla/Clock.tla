------------------------------- MODULE Clock -------------------------------
(***************************************************************************)
(* The clock that the modules of the HTTP side share.  Lifetimes are       *)
(* counted in ticks; what the program may do within one tick is not        *)
(* ordered by the clock.                                                   *)
(***************************************************************************)
EXTENDS Naturals

CONSTANT MaxNow   \* bound: the last tick
ASSUME ClockAssumption == MaxNow \in Nat

VARIABLE now

Never == MaxNow + 1   \* later than every tick
None == "none"

Advance == now < MaxNow /\ now' = now + 1
=============================================================================
