------------------------------ MODULE Evidence ------------------------------
(***************************************************************************)
(* What the program learns from what reaches it: notices of builds and of  *)
(* plans, reports of tests, coverage, and the words of tenants about its   *)
(* verdicts.  The parts share nothing but what goes wrong around them;     *)
(* which of them a behaviour is about is chosen at its start.              *)
(***************************************************************************)
EXTENDS Intake, Marketplace, TestStats, Selection, Verdicts

VARIABLE scene   \* "intake", "market", "tests", "selection" or "verdicts"

vars == <<scene, faults, intakeVars, marketVars, statsVars, selectionVars, verdictVars>>

FirstOf(S) == CHOOSE x \in S : TRUE

Init ==
    /\ faults = 0
    /\ scene \in {"intake", "market", "tests", "selection", "verdicts"}
    /\ IntakeInit /\ (scene = "intake" \/ provider = FirstOf(Providers))
    /\ \E told \in (IF scene = "market" THEN Stories ELSE {FirstOf(Stories)}) : MarketInit(told)
    /\ scene = "market" \/ policy = "free"
    /\ StatsInit /\ SelectionInit /\ VerdictInit

Next ==
    /\ UNCHANGED scene
    /\ \/ scene = "intake" /\ IntakeStep /\ UNCHANGED <<marketVars, statsVars, selectionVars, verdictVars>>
       \/ scene = "market" /\ MarketStep /\ UNCHANGED <<intakeVars, statsVars, selectionVars, verdictVars>>
       \/ scene = "tests" /\ StatsStep /\ UNCHANGED <<intakeVars, marketVars, selectionVars, verdictVars>>
       \/ scene = "selection" /\ SelectionStep /\ UNCHANGED <<intakeVars, marketVars, statsVars, verdictVars>>
       \/ scene = "verdicts" /\ VerdictStep /\ UNCHANGED <<intakeVars, marketVars, statsVars, selectionVars>>

Spec == Init /\ [][Next]_vars

=============================================================================
