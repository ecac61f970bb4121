---------------------------- MODULE Remediation -----------------------------
(***************************************************************************)
(* What the program does about a failure: it fetches the log, comments,    *)
(* reruns, opens issues, takes actions from chat, drafts pull requests and *)
(* applies repairs to a working directory.  The parts share nothing but    *)
(* what goes wrong around them; which of them a behaviour is about is      *)
(* chosen at its start.                                                    *)
(***************************************************************************)
EXTENDS LogFetch, SideEffects, DraftRepair, ApplyRepair

CONSTANTS
    Teams,         \* what the handlers do, a bound
    JobKinds       \* what the jobs of a draft are, a bound

(* A pipeline either has the identifiers its rerun needs or has not. *)
ASSUME RemediationAssumption ==
    /\ JobKinds \subseteq [Workers -> {"auto", "explicit"}]
    /\ IsFiniteSet(Handlers)
    /\ Teams \subseteq [Handlers -> TaskNames]
    /\ \A tasks \in Teams : ~ \E g, h \in Handlers : tasks[g] = "gitlab" /\ tasks[h] = "bare"

VARIABLE scene     \* "log", "effects", "draft" or "apply"

vars == <<scene, faults, fetch, effectVars, draftVars, applyVars>>

NoLog == [kind |-> "none", limit |-> DefaultLimit, pieces |-> 0, got |-> 0, asked |-> {}, outcome |-> "error"]
NoTask == [h \in Handlers |-> "idle"]
NoJob == [w \in Workers |-> "none"]

Init ==
    /\ faults = 0
    /\ scene \in {"log", "effects", "draft", "apply"}
    /\ IF scene = "log" THEN LogInit ELSE fetch = NoLog
    /\ \E tasks \in (IF scene = "effects" THEN Teams ELSE {NoTask}) : EffectsInit(tasks)
    /\ \E kinds \in (IF scene = "draft" THEN JobKinds ELSE {NoJob}) : DraftInit(kinds)
    /\ ApplyInit /\ (scene = "apply" \/ added = {})

Next ==
    /\ UNCHANGED scene
    /\ \/ scene = "log" /\ LogStep /\ UNCHANGED <<effectVars, draftVars, applyVars>>
       \/ scene = "effects" /\ EffectsStep /\ UNCHANGED <<fetch, draftVars, applyVars>>
       \/ scene = "draft" /\ DraftStep /\ UNCHANGED <<fetch, effectVars, applyVars>>
       \/ scene = "apply" /\ ApplyStep /\ UNCHANGED <<fetch, effectVars, draftVars>>

Spec == Init /\ [][Next]_vars

=============================================================================
