---------------------------- MODULE SideEffects -----------------------------
(***************************************************************************)
(* The handlers that act outside the program and keep a record of it: the  *)
(* worker's handlers of CI events and of GitHub workflow runs (analysis,   *)
(* incident, check, comment, rerun), the issue an analysis is linked to,   *)
(* and the actions taken from chat.  Each looks at a record or at the      *)
(* other service, acts, and records, in separate calls that may fail       *)
(* before or after their effect; the program may crash in between and the  *)
(* handler starts again from the beginning, as the job queue or the sender *)
(* repeats it.                                                             *)
(***************************************************************************)
EXTENDS Faults, FiniteSets, Sequences

CONSTANTS
    Handlers,      \* the handlers at work, all on one run, analysis or button
    MaxRuns        \* how often a handler is started, a bound

VARIABLES
    task,          \* what each handler does
    at,            \* the call each handler makes next
    runs,          \* how often each was started
    saw,           \* what it saw when it looked
    store,         \* the program's records
    outside,       \* how often each effect took place outside
    issue,         \* the GitHub issue as GitHub has it
    overlapped,    \* a handler looked while another was about to act
    search         \* whether comments are looked for, and how many were missed

effectVars == <<task, at, runs, saw, store, outside, issue, overlapped, search>>

Effects == {"check", "comment", "note", "retry", "rerun", "issue", "remark", "action"}
Facts == {"usage", "analysis", "source", "enhance", "notice", "incident", "announce"}
TaskNames == {"idle", "gitlab", "bare", "workflow", "create", "edit", "refresh", "remark", "slack"}
Unlinked == [number |-> 0, state |-> "none", locked |-> FALSE]

EffectsInit(tasks) ==
    /\ task = tasks
    /\ at = [h \in Handlers |-> "idle"]
    /\ runs = [h \in Handlers |-> 0]
    /\ saw = [h \in Handlers |-> Unlinked]
    /\ store = [facts |-> {}, attempt |-> "none", link |-> Unlinked, claimed |-> FALSE, audits |-> {}]
    /\ outside = [e \in Effects |-> 0]
    /\ issue = Unlinked
    /\ overlapped = FALSE
    /\ search \in [on : BOOLEAN, missed : {0}]
    /\ search.on \/ \E h \in Handlers : tasks[h] \in {"gitlab", "workflow"}   \* the others never ask

-----------------------------------------------------------------------------
(* Calls *)

Goes(h, step) == at' = [at EXCEPT ![h] = step]

(* A request to another service: answered; refused; or carried out with the
   answer lost, which the code cannot tell from a refusal. *)
Request(h, effect, good, bad) ==
    LET done == [outside EXCEPT ![effect] = @ + 1] IN
    \/ outside' = done /\ Fine /\ Goes(h, good)
    \/ outside' \in {done, outside} /\ Fault /\ Goes(h, bad)

(* A write to the store, which may fail before or after it took effect. *)
Write(h, record, good, bad) ==
    \/ store' = record /\ Fine /\ Goes(h, good)
    \/ store' \in {record, store} /\ Fault /\ Goes(h, bad)

(* A handler that has looked, found nothing and not yet left a trace. *)
Between(h) ==
    \/ at[h] \in {"claim", "create", "get", "patch", "lock", "link"}
    \/ at[h] = "comment" /\ saw[h] = Unlinked

(* A look at a record, whose failure ends the handler. *)
Look(h, good, bad) ==
    /\ overlapped' = (overlapped \/ \E g \in Handlers \ {h} : Between(g))
    /\ \/ Fine /\ Goes(h, good)
       \/ Fault /\ Goes(h, bad)
    /\ UNCHANGED <<task, runs, store, outside, issue>>

-----------------------------------------------------------------------------
(* What the worker concludes from an event before it acts on it *)

CIEventCalls ==
    <<"usage", "log", "correlate", "analysis", "source", "enhance", "notice", "incident", "announce">>
WorkflowRunCalls ==
    <<"jobs", "usage", "log", "correlate", "analysis", "source", "enhance", "notice", "incident", "announce">>

Workflow(h) == task[h] = "workflow"
Diagnosis(h) == IF Workflow(h) THEN WorkflowRunCalls ELSE CIEventCalls

(* Errors that end the job, so that it is tried again; the others are logged. *)
Fatal(h) ==
    {"jobs", "log", "correlate", "analysis"} \cup (IF Workflow(h) THEN {} ELSE {"incident"})

(* Only GitHub has checks, only GitHub and GitLab comments. *)
AfterDiagnosis(h) == [workflow |-> "check", gitlab |-> "comments", bare |-> "attempt"][task[h]]

(* The handler runs its calls in order up to an error that ends it. *)
Diagnose(h) ==
    /\ at[h] = "diagnose"
    /\ LET calls == Diagnosis(h) IN
       \E upTo \in 0..Len(calls) :
       \E wrong \in SUBSET ({calls[i] : i \in 1..upTo} \ Fatal(h)) :
          LET ended == upTo < Len(calls)
              went  == Cardinality(wrong) + (IF ended THEN 1 ELSE 0) IN
          /\ ended => calls[upTo + 1] \in Fatal(h)
          /\ faults + went <= MaxFaults
          /\ faults' = faults + went
          /\ store' = [store EXCEPT !.facts = @ \cup (({calls[i] : i \in 1..upTo} \cap Facts) \ wrong)]
          /\ Goes(h, IF ended THEN "failed" ELSE AfterDiagnosis(h))
    /\ UNCHANGED <<task, runs, saw, outside, issue, overlapped, search>>

(* The check of a GitHub run: an error is logged. *)
PublishCheck(h) ==
    /\ at[h] = "check"
    /\ Request(h, "check", "comments", "comments")
    /\ UNCHANGED <<task, runs, saw, store, issue, overlapped, search>>

-----------------------------------------------------------------------------
(* One comment per pull or merge request *)

Note(h) == IF task[h] = "gitlab" THEN "note" ELSE "comment"
AfterComment(h) == IF task[h] = "gitlab" THEN "attempt" ELSE "rerun"

(* The list has so many pages: the last hundred notes of GitLab, the first
   two thousand comments of GitHub.  What others wrote may keep the comment
   out of it; and where update_existing is off no one looks.  GitHub: no list,
   no comment.  GitLab: no list, a new one. *)
ListComments(h) ==
    /\ at[h] = "comments"
    /\ Look(h, "comment", IF task[h] = "gitlab" THEN "comment" ELSE AfterComment(h))
    /\ \E found \in {0, outside[Note(h)]} :
          LET missed == found = 0 /\ faults' = faults /\ outside[Note(h)] > 0 IN
          /\ ~search.on => found = 0 /\ Fine
          /\ faults' # faults => found = 0
          /\ saw' = [saw EXCEPT ![h].number = found]
          /\ search' = [search EXCEPT !.missed = @ + (IF missed THEN 1 ELSE 0)]

(* The comment found is rewritten, or one is made; errors are logged. *)
WriteComment(h) ==
    /\ at[h] = "comment"
    /\ IF saw[h].number > 0
         THEN (Fine \/ Fault) /\ Goes(h, AfterComment(h)) /\ UNCHANGED outside
         ELSE Request(h, Note(h), AfterComment(h), AfterComment(h))
    /\ UNCHANGED <<task, runs, saw, store, issue, overlapped, search>>

-----------------------------------------------------------------------------
(* The automatic rerun *)

(* GitHub counts the attempts itself: only the first is rerun. *)
RerunFailedJobs(h) ==
    /\ at[h] = "rerun"
    /\ Request(h, "rerun", "audit", "done")
    /\ UNCHANGED <<task, runs, saw, store, issue, overlapped, search>>

(* Mutant: only a rerun known to have been accepted counts as an attempt. *)
FindAttempt_Accepted(h) ==
    /\ at[h] = "attempt"
    /\ Look(h, IF store.attempt # "requested" THEN "claim" ELSE "done", "done")
    /\ UNCHANGED <<saw, search>>

(* The other providers: by the program's own record of the run. *)
FindAttempt(h) ==
    /\ at[h] = "attempt"
    /\ Look(h, IF store.attempt = "none" THEN "claim" ELSE "done", "done")
    /\ UNCHANGED <<saw, search>>

ClaimAttempt(h) ==
    /\ at[h] = "claim"
    /\ Write(h, [store EXCEPT !.attempt = "requesting"], "ask", "done")
    /\ UNCHANGED <<task, runs, saw, outside, issue, overlapped, search>>

(* The event has the identifiers that its provider's rerun needs. *)
Addressed(h) == task[h] # "bare"

(* A rerun that cannot be addressed is refused before anything is sent. *)
Retry(h) ==
    /\ at[h] = "ask"
    /\ IF ~Addressed(h) THEN Fine /\ Goes(h, "refused") /\ UNCHANGED outside
       ELSE Request(h, "retry", "requested", "refused")
    /\ UNCHANGED <<task, runs, saw, store, issue, overlapped, search>>

(* An error of recording a refusal is logged, one of recording success
   ends the handler before the audit. *)
SettleAttempt(h) ==
    /\ \/ at[h] = "requested" /\ Write(h, [store EXCEPT !.attempt = "requested"], "audit", "done")
       \/ at[h] = "refused" /\ Write(h, [store EXCEPT !.attempt = "failed"], "audit", "audit")
    /\ UNCHANGED <<task, runs, saw, outside, issue, overlapped, search>>

(* The last call of every handler; its failure is logged. *)
Audit(h) ==
    /\ at[h] = "audit"
    /\ Write(h, [store EXCEPT !.audits = @ \cup {task[h]}], "done", "done")
    /\ UNCHANGED <<task, runs, saw, outside, issue, overlapped, search>>

-----------------------------------------------------------------------------
(* The issue of an analysis *)

(* The first call of the four handlers: who finds what it needs goes on. *)
LoadLink(h) ==
    /\ at[h] = "find"
    /\ LET linked == store.link.number > 0
           next == [create |-> "create", refresh |-> "get", edit |-> "patch", remark |-> "remark"][task[h]] IN
       Look(h, IF linked = (task[h] # "create") THEN next ELSE "done", "failed")
    /\ saw' = [saw EXCEPT ![h] = store.link] /\ UNCHANGED search

(* A new issue is open and unlocked. *)
CreateIssue(h) ==
    /\ at[h] = "create"
    /\ Request(h, "issue", "link", "failed")
    /\ LET made == [number |-> outside'["issue"], state |-> "open", locked |-> FALSE] IN
       /\ issue' = IF outside' = outside THEN issue ELSE made
       /\ saw' = [saw EXCEPT ![h] = made]
    /\ UNCHANGED <<task, runs, store, overlapped, search>>

GetIssue(h) ==
    /\ at[h] = "get"
    /\ \/ Fine /\ Goes(h, "link") /\ saw' = [saw EXCEPT ![h] = issue]
       \/ Fault /\ Goes(h, "failed") /\ UNCHANGED saw
    /\ UNCHANGED <<task, runs, store, outside, issue, overlapped, search>>

(* An edit closes the issue and then, in a call of its own, locks it. *)
UpdateIssue(h) ==
    /\ at[h] = "patch"
    /\ \/ issue' = [issue EXCEPT !.state = "closed"] /\ Fine /\ Goes(h, "lock")
       \/ issue' \in {issue, [issue EXCEPT !.state = "closed"]} /\ Fault /\ Goes(h, "failed")
    /\ saw' = [saw EXCEPT ![h] = issue']
    /\ UNCHANGED <<task, runs, store, outside, overlapped, search>>

LockIssue(h) ==
    /\ at[h] = "lock"
    /\ \/ issue' = [issue EXCEPT !.locked = TRUE] /\ Fine /\ Goes(h, "link")
       \/ issue' \in {issue, [issue EXCEPT !.locked = TRUE]} /\ Fault /\ Goes(h, "failed")
    /\ saw' = [saw EXCEPT ![h].locked = TRUE]
    /\ UNCHANGED <<task, runs, store, outside, overlapped, search>>

CommentIssue(h) ==
    /\ at[h] = "remark"
    /\ Request(h, "remark", "audit", "failed")
    /\ UNCHANGED <<task, runs, saw, store, issue, overlapped, search>>

(* Looking at an issue leaves no audit. *)
SaveLink(h) ==
    /\ at[h] = "link"
    /\ Write(h, [store EXCEPT !.link = saw[h]], IF task[h] = "refresh" THEN "done" ELSE "audit", "failed")
    /\ UNCHANGED <<task, runs, saw, outside, issue, overlapped, search>>

-----------------------------------------------------------------------------
(* A button pressed in a chat *)

(* The delivery is recorded in one step with the look whether it is new,
   before anything is done. *)
RecordDelivery(h) ==
    /\ at[h] = "take"
    /\ Write(h, [store EXCEPT !.claimed = TRUE], IF store.claimed THEN "done" ELSE "act", "failed")
    /\ UNCHANGED <<task, runs, saw, outside, issue, overlapped, search>>

PerformChatAction(h) ==
    /\ at[h] = "act"
    /\ Request(h, "action", "audit", "done")
    /\ UNCHANGED <<task, runs, saw, store, issue, overlapped, search>>

-----------------------------------------------------------------------------
First(t) ==
    CASE t \in {"gitlab", "bare", "workflow"} -> "diagnose"
      [] t = "slack" -> "take"
      [] OTHER -> "find"

(* A job that failed or was cut short is run again, and whoever pressed a
   button or posted a request may do so again whatever the answer was. *)
Start(h) ==
    /\ task[h] # "idle" /\ runs[h] < MaxRuns
    /\ \/ at[h] \in {"idle", "failed"}
       \/ at[h] = "done" /\ task[h] \notin {"gitlab", "bare", "workflow"}
    /\ runs' = [runs EXCEPT ![h] = @ + 1]
    /\ Goes(h, First(task[h]))
    /\ UNCHANGED <<task, saw, store, outside, issue, overlapped, search, faults>>

Crash(h) ==
    /\ at[h] \notin {"idle", "done", "failed"}
    /\ Fault /\ Goes(h, "failed")
    /\ UNCHANGED <<task, runs, saw, store, outside, issue, overlapped, search>>

EffectsStep ==
    \E h \in Handlers :
        \/ Start(h) \/ Crash(h) \/ Diagnose(h) \/ PublishCheck(h) \/ ListComments(h) \/ WriteComment(h)
        \/ RerunFailedJobs(h) \/ FindAttempt(h) \/ ClaimAttempt(h) \/ Retry(h) \/ SettleAttempt(h)
        \/ Audit(h) \/ LoadLink(h) \/ CreateIssue(h) \/ GetIssue(h) \/ UpdateIssue(h) \/ LockIssue(h)
        \/ CommentIssue(h) \/ SaveLink(h) \/ RecordDelivery(h) \/ PerformChatAction(h)

-----------------------------------------------------------------------------

(* Whose handlers cause an effect. *)
Author(e) == IF e = "note" THEN "gitlab" ELSE "workflow"

(* Acting outside is not repeated.  A chat action is carried out at most once
   whatever is sent again, crashes or is lost, because its delivery is claimed
   first.  When no handler looks while another is about to act, a run is rerun
   at most once; a pull request gets one comment, and one more only where the
   earlier one is out of the reach of the list or not looked for; where the
   code cannot tell (a GitLab list that failed, an issue or a GitHub rerun
   whose job or answer is lost), every extra one has a fault of its own.  And
   even of handlers that overlap, or that never look, each comments and asks
   for a rerun once, and once more for each fault. *)
NothingTwice ==
    /\ outside["action"] <= 1
    /\ ~overlapped =>
         /\ outside["retry"] <= 1
         /\ outside["comment"] <= 1 + search.missed
         /\ outside["note"] <= 1 + faults + search.missed
         /\ outside["issue"] <= 1 + faults
    /\ \A e \in {"rerun", "comment", "note"} :
          outside[e] <= Cardinality({h \in Handlers : task[h] = Author(e)}) + faults

(* The records are true: nothing is rerun, linked or acted on outside without
   its record, however the handlers overlap; and with no fault and no overlap
   the records of handlers that are done say exactly what happened outside. *)
RecordsTrue ==
    /\ outside["retry"] > 0 => store.attempt # "none"
    /\ store.link.number <= outside["issue"]
    /\ outside["action"] > 0 => store.claimed
    /\ (outside["retry"] + outside["rerun"] + outside["note"] + outside["comment"] > 0) => "analysis" \in store.facts
    /\ (faults = 0 /\ ~overlapped /\ \A h \in Handlers : task[h] # "idle" => at[h] = "done") =>
         /\ (store.attempt = "requested") = (outside["retry"] = 1)
         /\ store.link = issue
         /\ \A h \in Handlers :
               CASE task[h] = "gitlab" -> outside["note"] \in 1..1 + search.missed /\ outside["retry"] = 1 /\ store.facts = Facts
                 [] task[h] = "bare" -> outside["retry"] = 0 /\ store.attempt = "failed"
                 [] task[h] = "workflow" -> outside["comment"] \in 1..1 + search.missed /\ store.facts = Facts
                 [] task[h] = "create" -> issue.number = 1
                 [] task[h] = "slack" -> outside["action"] = 1
                 [] OTHER -> TRUE

(* What happened outside is neither more than, nor different from, what the
   records of the store account for. *)
OutsideMatchesRecords == NothingTwice /\ RecordsTrue
=============================================================================
