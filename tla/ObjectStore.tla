---------------------------- MODULE ObjectStore ----------------------------
(***************************************************************************)
(* What a call of the store promises, whichever backend runs it: the       *)
(* methods of the embedded Store (internal/db), each atomic because it     *)
(* runs under one mutex.                                                   *)
(*                                                                         *)
(*   - a call takes effect in one step, on all its objects, or not at all; *)
(*   - it is refused because of what the store held during the call;       *)
(*   - a call that answers with an error may have taken effect, or may     *)
(*     take effect later, once: the caller cannot know.                    *)
(*                                                                         *)
(* An object holds the set of calls whose effect it carries: an update     *)
(* that another call overwrites is missing from it.                        *)
(***************************************************************************)
EXTENDS Naturals, FiniteSets

CONSTANTS
    Txs,       \* the calls that are made
    NoTx,      \* the author of what was there before them
    Objects,   \* records [kind, tenant, id]
    Present,   \* objects there at first; none was touched for a retention period
    Open,      \* incidents that are open at first
    Menus,     \* sets of calls that may meet
    Limit      \* of PutObjectIfKindBelowLimit

VARIABLES
    rows,      \* the objects that exist, with their values
    call,      \* what each of Txs asks for
    doomed,    \* calls that would have been in vain at some moment
    took,      \* calls that have taken effect
    answer     \* what each caller has been told

vars == <<rows, call, doomed, took, answer>>

(* The analyses and incidents that retention forgets. *)
Expired(o, v) == /\ o.kind \in {"analysis", "incident"}
                 /\ ~v.fresh /\ ~v.open

(* Why a call that finds the objects in seen does nothing.                 *)
Refused(c, seen) ==
    \/ ~(c.needs \subseteq DOMAIN seen)
    \/ c.lacks \cap DOMAIN seen # {}
    \/ /\ c.op = "limited"
       /\ \E o \in c.writes : /\ o \notin DOMAIN seen
                              /\ Cardinality({p \in DOMAIN seen : p.kind = o.kind}) >= Limit

(* Whether a call that acts now leaves everything as it is. *)
Vain(c, seen) ==
    Refused(c, seen) \/ (c.op = "delete" /\ c.removes \cap DOMAIN seen = {})

(* A test observation is counted in the statistics of its test. *)
StatsOf(o) == [o EXCEPT !.kind = "test_case_stats"]

(* ResolveStaleIncidents writes the open incidents nobody has seen lately, *)
(* RecordTestObservations what is not recorded yet.                        *)
Written(c, seen) ==
    CASE c.op = "sweep" -> {o \in c.writes \cap DOMAIN seen : seen[o].open /\ ~seen[o].fresh}
      [] c.op = "observe" -> LET new == c.writes \ DOMAIN seen
                             IN  new \cup {StatsOf(o) : o \in new}
      [] OTHER -> c.writes

(* PutObject and PutObjectIfKindBelowLimit replace the value and keep the  *)
(* time of creation; the others change the object they find.               *)
NewValue(t, c, seen, o) ==
    [created |-> IF o \in DOMAIN seen THEN seen[o].created ELSE t,
     by |-> IF o \in DOMAIN seen /\ c.op \notin {"put", "limited"}
            THEN seen[o].by \cup {t} ELSE {t},
     open |-> o.kind = "incident" /\ c.op # "sweep",
     fresh |-> c.op # "sweep"]

(* What the store holds once t, having seen seen, has removed gone. *)
Outcome(t, c, seen, gone) ==
    [o \in (DOMAIN rows \ gone) \cup Written(c, seen) |->
        IF o \in Written(c, seen) THEN NewValue(t, c, seen, o) ELSE rows[o]]

-----------------------------------------------------------------------------
FirstRows ==
    [o \in Present |-> [created |-> NoTx, by |-> {}, open |-> o \in Open, fresh |-> FALSE]]

Init ==
    /\ rows = FirstRows
    /\ \E menu \in Menus : call \in [Txs -> menu]
    /\ doomed = [t \in Txs |-> FALSE]
    /\ took = [t \in Txs |-> FALSE]
    /\ answer = [t \in Txs |-> "none"]

Reply(t, a) == answer' = [answer EXCEPT ![t] = a]

(* Retention may miss what expires while it runs. *)
Removals(c) ==
    IF c.op = "cleanup" THEN SUBSET {o \in c.removes \cap DOMAIN rows : Expired(o, rows[o])}
    ELSE {c.removes}

Do(t) ==
    /\ ~took[t] /\ answer[t] \in {"none", "error"}
    /\ ~Refused(call[t], rows)
    /\ \E gone \in Removals(call[t]) : rows' = Outcome(t, call[t], rows, gone)
    /\ took' = [took EXCEPT ![t] = TRUE]
    /\ IF answer[t] = "none" THEN Reply(t, "done") ELSE UNCHANGED answer

(* A delete that at some moment has had nothing to delete. *)
Miss(t) ==
    /\ ~took[t] /\ answer[t] \in {"none", "error"}
    /\ call[t].op = "delete" /\ doomed[t]
    /\ took' = [took EXCEPT ![t] = TRUE]
    /\ IF answer[t] = "none" THEN Reply(t, "done") ELSE UNCHANGED answer
    /\ UNCHANGED rows

Refuse(t) ==
    /\ ~took[t] /\ answer[t] = "none"
    /\ call[t].op # "delete"
    /\ doomed[t] \/ Refused(call[t], rows)
    /\ Reply(t, "refused")
    /\ UNCHANGED <<rows, took>>

Fail(t) ==
    /\ answer[t] = "none"
    /\ Reply(t, "error")
    /\ UNCHANGED <<rows, took>>

(* A call is doomed from a moment on at which its objects say so. *)
Doom ==
    \A t \in Txs : doomed'[t] => \/ doomed[t]
                                 \/ Vain(call[t], rows) \/ Vain(call[t], rows')

Next ==
    /\ \/ \E t \in Txs : Do(t) \/ Miss(t) \/ Refuse(t) \/ Fail(t)
       \/ UNCHANGED <<rows, took, answer>>
    /\ doomed' \in [Txs -> BOOLEAN] /\ Doom
    /\ UNCHANGED call

Spec == Init /\ [][Next]_vars
=============================================================================
