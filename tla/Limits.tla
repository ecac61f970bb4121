-------------------------------- MODULE Limits --------------------------------
(***************************************************************************)
(* How often one address may ask: internal/server (ratelimit.go,           *)
(* admission.go) and internal/db (postgres_rate_limit.go).                 *)
(*                                                                         *)
(* Every process counts requests and failed sign-ins in memory, and then   *)
(* in the store it shares with the others; a request that the store cannot *)
(* count is refused.  Entries in memory are lost when a process starts     *)
(* again and when too many other addresses come in.  (The embedded store   *)
(* counts nothing; it has one process only.)  One address and one          *)
(* scope are followed ("http", "webhook", "oauth_register" and             *)
(* "oauth_token" are counted apart); webhooks and reports pass a gate.     *)
(***************************************************************************)
EXTENDS Clock, Faults, FiniteSets

CONSTANTS
    Procs,      \* processes behind one address of the service
    MaxHits,    \* bound: requests of the address, in the order they come in
    Limit, Window,                                   \* of requests, in ticks
    Threshold, FailWindow, BaseDelay, MaxDelay,      \* of failed sign-ins
    Slots       \* room of the gate

ASSUME LimitsAssumption ==
    /\ Limit \in Nat \ {0} /\ Window \in Nat \ {0} /\ Slots \in Nat \ {0}
    /\ MaxHits \in Nat /\ Threshold \in Nat \ {0} /\ FailWindow \in Nat \ {0}
    /\ BaseDelay \in Nat \ {0} /\ MaxDelay \in Nat /\ MaxDelay >= BaseDelay

Hits == 1..MaxHits

VARIABLES
    counted,   \* rateLimiter.entries[key] of each process
    shared,    \* the row of ciradar_rate_limits
    failed,    \* authFailureLimiter.entries[key] of each process
    blocked,   \* the row of ciradar_auth_failures
    slots,     \* tokens in each admissionGate
    hit,       \* where each request is
    admitted   \* history: when each request passed both limiters

limitVars == <<counted, shared, failed, blocked, slots, hit, admitted, faults>>

NoCount == [window |-> Never, count |-> 0]
NoFailure == [window |-> Never, failures |-> 0, until |-> 0]

Where(h, place) == hit[h].at = place
NewHit(kind) == [at |-> "new", proc |-> None, kind |-> kind, time |-> 0]
AnsweredHit == [NewHit(None) EXCEPT !.at = "away"]
Go(h, place) == hit' = [hit EXCEPT ![h] = IF place = "away" THEN AnsweredHit ELSE [@ EXCEPT !.at = place, !.time = 0]]
Proc(h) == hit[h].proc

(* The time of a statement is when it began, after its request got so far; *)
(* it may have waited for the row since, for a tick at most.               *)
StatementTimes(h) == {t \in hit[h].time..now : now <= t + 1}

Past(entry, span, t) == entry.window = Never \/ t >= entry.window + span

Counted(entry, t) ==
    IF Past(entry, Window, t) THEN [window |-> t, count |-> 1]
    ELSE [entry EXCEPT !.count = @ + 1]

Delay(failures) ==
    LET doubled == BaseDelay * 2 ^ (failures - Threshold) IN
    IF failures < Threshold THEN 0
    ELSE IF doubled \in BaseDelay..MaxDelay THEN doubled ELSE MaxDelay

Recorded(entry, t) ==
    LET kept == IF Past(entry, FailWindow, t) THEN [NoFailure EXCEPT !.window = t] ELSE entry
        delay == Delay(kept.failures + 1)
    IN [kept EXCEPT !.failures = @ + 1, !.until = IF delay > 0 THEN t + delay ELSE @]

-----------------------------------------------------------------------------
ComeIn(h) ==
    /\ Where(h, "new")
    /\ hit[h].kind # None /\ \A g \in 1..(h - 1) : ~Where(g, "new")
    /\ \E p \in Procs : hit' = [hit EXCEPT ![h] = [@ EXCEPT !.at = "counting", !.proc = p, !.time = now]]
    /\ Fine
    /\ UNCHANGED <<counted, shared, failed, blocked, slots, admitted>>

(* rateLimiter.take, by the time the request came in. *)
TakeLocal(h) ==
    /\ Where(h, "counting")
    /\ LET entry == Counted(counted[Proc(h)], hit[h].time)
       IN /\ counted' = [counted EXCEPT ![Proc(h)] = entry]
          /\ IF entry.count <= Limit THEN hit' = [hit EXCEPT ![h].at = "sharing"] ELSE Go(h, "away")
    /\ Fine
    /\ UNCHANGED <<shared, failed, blocked, slots, admitted>>

CountShared(h) ==
    \E t \in StatementTimes(h) :
        LET entry == Counted(shared, t)
        IN /\ shared' = entry
           /\ IF entry.count <= Limit
              THEN Go(h, "entering") /\ admitted' = [admitted EXCEPT ![h] = t]
              ELSE Go(h, "away") /\ UNCHANGED admitted

(* Mutant: while the store cannot be asked, the count of the process does. *)
TakeRateLimit_FailOpen(h) ==
    /\ Where(h, "sharing")
    /\ \/ Fine /\ CountShared(h)
       \/ /\ Fault /\ UNCHANGED shared
          /\ Go(h, "entering") /\ admitted' = [admitted EXCEPT ![h] = now]
    /\ UNCHANGED <<counted, failed, blocked, slots>>

TakeRateLimit(h) ==
    /\ Where(h, "sharing")
    /\ \/ Fine /\ CountShared(h)
       \/ /\ Fault /\ shared' \in {shared} \cup {Counted(shared, t) : t \in StatementTimes(h)}
          /\ Go(h, "away") /\ UNCHANGED admitted
    /\ UNCHANGED <<counted, failed, blocked, slots>>

(* authFailureLimiter.retryAfter *)
RetryAfter(h) ==
    /\ Where(h, "entering") /\ hit[h].kind = "login"
    /\ LET entry == failed[Proc(h)]
       IN /\ failed' = [failed EXCEPT ![Proc(h)] =
                            IF Past(entry, FailWindow, now) /\ now >= entry.until THEN NoFailure ELSE entry]
          /\ Go(h, IF now < entry.until THEN "away" ELSE "asking")
    /\ Fine
    /\ UNCHANGED <<counted, shared, blocked, slots, admitted>>

AuthFailureRetryAfter(h) ==
    /\ Where(h, "asking")
    /\ \/ Fine /\ Go(h, IF now < blocked.until THEN "away" ELSE "signing")
       \/ Fault /\ Go(h, "away")
    /\ UNCHANGED <<counted, shared, failed, blocked, slots, admitted>>

(* The handler: only 401 counts as a failure. *)
SignInAttempt(h) ==
    /\ Where(h, "signing")
    /\ \E place \in {"away", "refused"} : Go(h, place)
    /\ Fine
    /\ UNCHANGED <<counted, shared, failed, blocked, slots, admitted>>

RecordFailure(h) ==
    /\ Where(h, "refused")
    /\ failed' = [failed EXCEPT ![Proc(h)] = Recorded(@, now)]
    /\ hit' = [hit EXCEPT ![h].at = "telling", ![h].time = now]
    /\ Fine
    /\ UNCHANGED <<counted, shared, blocked, slots, admitted>>

(* A transaction; its error is logged. *)
RecordAuthFailure(h) ==
    /\ Where(h, "telling")
    /\ \/ Fine /\ \E t \in StatementTimes(h) : blocked' = Recorded(blocked, t)
       \/ Fault /\ blocked' \in {blocked} \cup {Recorded(blocked, t) : t \in StatementTimes(h)}
    /\ Go(h, "away")
    /\ UNCHANGED <<counted, shared, failed, slots, admitted>>

-----------------------------------------------------------------------------
(* admissionGate.wrap *)

Admit(h) ==
    /\ Where(h, "entering") /\ hit[h].kind = "webhook"
    /\ IF slots[Proc(h)] < Slots
       THEN slots' = [slots EXCEPT ![Proc(h)] = @ + 1] /\ Go(h, "working")
       ELSE Go(h, "away") /\ UNCHANGED slots
    /\ Fine
    /\ UNCHANGED <<counted, shared, failed, blocked, admitted>>

(* The deferred read, whether the handler returns or panics. *)
Leave(h) ==
    /\ Where(h, "working")
    /\ slots' = [slots EXCEPT ![Proc(h)] = @ - 1]
    /\ Go(h, "away")
    /\ Fine
    /\ UNCHANGED <<counted, shared, failed, blocked, admitted>>

-----------------------------------------------------------------------------
(* The entries of the address are the oldest when there are too many. *)
Evict(p) ==
    /\ Fault
    /\ \/ counted' = [counted EXCEPT ![p] = NoCount] /\ UNCHANGED failed
       \/ failed' = [failed EXCEPT ![p] = NoFailure] /\ UNCHANGED counted
    /\ UNCHANGED <<shared, blocked, slots, hit, admitted>>

Restart(p) ==
    /\ Fault
    /\ counted' = [counted EXCEPT ![p] = NoCount]
    /\ failed' = [failed EXCEPT ![p] = NoFailure]
    /\ slots' = [slots EXCEPT ![p] = 0]
    /\ hit' = [h \in Hits |-> IF Proc(h) = p THEN AnsweredHit ELSE hit[h]]
    /\ UNCHANGED <<shared, blocked, admitted>>

(* Asking: what the requests may be, "login", "webhook" or None. *)
LimitsInit(asking) ==
    /\ counted = [p \in Procs |-> NoCount] /\ shared = NoCount
    /\ failed = [p \in Procs |-> NoFailure] /\ blocked = NoFailure
    /\ slots = [p \in Procs |-> 0]
    /\ \E kinds \in asking : hit = [h \in Hits |-> NewHit(kinds[h])]
    /\ admitted = [h \in Hits |-> Never]
    /\ faults = 0

LimitsStep ==
    \/ \E h \in Hits :
        \/ ComeIn(h) \/ TakeLocal(h) \/ TakeRateLimit(h)
        \/ RetryAfter(h) \/ AuthFailureRetryAfter(h) \/ SignInAttempt(h)
        \/ RecordFailure(h) \/ RecordAuthFailure(h)
        \/ Admit(h) \/ Leave(h)
    \/ \E p \in Procs : Evict(p) \/ Restart(p)

-----------------------------------------------------------------------------
Passed(first, last) == {h \in Hits : admitted[h] # Never /\ admitted[h] \in first..last}
Working(p) == {h \in Hits : Where(h, "working") /\ Proc(h) = p}

(* Whatever fails, is evicted or starts again, and however late statements *)
(* come to the row: all processes together let fewer requests of an        *)
(* address pass than two windows allow, in any stretch of time as long as  *)
(* a window; a process never works on more webhooks than its gate has room *)
(* for, and the gate is not one the smaller for those that have left; and  *)
(* an address that stops failing is let in again after the longest delay   *)
(* (ratelimit.go, admission.go, postgres_rate_limit.go).                   *)
LimitsKept ==
    /\ \A t \in 0..MaxNow : Cardinality(Passed(t, t + Window - 1)) < 2 * Limit
    /\ \A p \in Procs : slots[p] = Cardinality(Working(p)) /\ slots[p] <= Slots
    /\ blocked.until <= now + MaxDelay /\ \A p \in Procs : failed[p].until <= now + MaxDelay
=============================================================================
