------------------------------- MODULE Faults -------------------------------
(***************************************************************************)
(* What goes wrong around a handler: a crash of the program, a failed call *)
(* of the store, the disk or another service, an answer that is lost.      *)
(* MaxFaults bounds how often in one behaviour.                            *)
(***************************************************************************)
EXTENDS Naturals

CONSTANT MaxFaults

ASSUME MaxFaultsAssumption == MaxFaults \in Nat

VARIABLE faults   \* how often something went wrong so far

Fine == UNCHANGED faults
Fault == faults < MaxFaults /\ faults' = faults + 1
=============================================================================
