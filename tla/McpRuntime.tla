----------------------------- MODULE McpRuntime -----------------------------
(***************************************************************************)
(* What MCP requests share in the memory of the server, internal/mcp:      *)
(* sessions with their event channels and confirmation tokens, both of     *)
(* Runtime, and the handlers around them (mcp, mcpGet and mcpDelete in     *)
(* internal/server).                                                       *)
(*                                                                         *)
(* A request that authenticate has accepted runs in steps, one for each    *)
(* time it holds the lock of the Runtime: it looks up its session, then    *)
(* prepares an action, or consumes a confirmation and carries the action   *)
(* out in the store, or closes the session.  A stream waits on the channel *)
(* of its session, which others close and delete under the lock.  All      *)
(* requests are of one operator; there are two targets to act upon.        *)
(***************************************************************************)
EXTENDS Credentials

CONSTANTS
    QueueSize,     \* capacity of session.Events (32)
    McpLife,       \* ticks a session lives without a request (8 hours)
    ConfirmLife    \* ticks a confirmation is good for (5 minutes)

ASSUME McpAssumption == QueueSize \in Nat \ {0} /\ McpLife \in Nat /\ ConfirmLife \in Nat

Targets == {1, 2}

VARIABLES
    session,   \* the one session: its expiry, 0 before and Over after
    events,    \* messages in its channel
    channel,   \* "open" or "closed"
    confirm,   \* confirmations, each named after the request that prepared it
    call,      \* where each MCP request is, and what it holds
    carried,   \* history: confirmed actions carried out
    misused    \* history: a send to, or a second close of, a closed channel

mcpVars == <<session, events, channel, confirm, call, carried, misused>>

NoConfirm == [target |-> 0, until |-> 0]
Over == Never + McpLife + 1

McpInit ==
    /\ session = 0 /\ events = 0 /\ channel = "open"
    /\ confirm = [r \in Requests |-> NoConfirm]
    /\ call = [r \in Requests |-> [at |-> "idle", target |-> 0, using |-> None]]
    /\ carried = {} /\ misused = FALSE

(* In r.sessions: created, not deleted. *)
Present == session \notin {0, Over}

(* cleanupLocked, which every operation of the Runtime begins with. *)
Expired == Present /\ now > session
Live(r) == confirm[r].target # 0 /\ now <= confirm[r].until

CleanedConfirm == [r \in Requests |-> IF Live(r) THEN confirm[r] ELSE NoConfirm]

Close == channel' = "closed" /\ misused' = (misused \/ channel = "closed")

(* The expired session is closed and deleted. *)
CleanupLocked ==
    IF Expired THEN Close /\ session' = Over ELSE UNCHANGED <<session, channel, misused>>

Goes(r, place) == call' = [call EXCEPT ![r].at = place]

Ready(r) == At(r, "accepted") /\ Kind(r) = "mcp" /\ call[r].at = "idle"
Op(r) == casting.op[r]

-----------------------------------------------------------------------------
(* initialize: CreateSession.  One is enough: the tenant's others only get *)
(* the same messages.                                                      *)
CreateSession(r) ==
    /\ Ready(r) /\ Op(r) = "initialize" /\ session = 0
    /\ session' = now + McpLife
    /\ confirm' = CleanedConfirm
    /\ Goes(r, "done")
    /\ UNCHANGED <<events, channel, carried, misused>>

(* Session: the request names a session of its tenant and role; its life   *)
(* begins again.                                                           *)
FindSession(r) ==
    /\ Ready(r) /\ Op(r) # "initialize" /\ session # 0
    /\ confirm' = CleanedConfirm
    /\ IF Present /\ ~Expired
       THEN session' = now + McpLife /\ Goes(r, "found") /\ UNCHANGED <<channel, misused>>
       ELSE CleanupLocked /\ Goes(r, "refused")
    /\ UNCHANGED <<events, carried>>

(* Prepare: a confirmation for one action on one target. *)
Prepare(r) ==
    /\ call[r].at = "found" /\ Op(r) = "prepare"
    /\ \E t \in Targets :
         confirm' = [CleanedConfirm EXCEPT ![r] = [target |-> t, until |-> now + ConfirmLife]]
    /\ CleanupLocked
    /\ Goes(r, "notify")
    /\ UNCHANGED <<events, carried>>

Spent(confirmations, c) == [confirmations EXCEPT ![c] = NoConfirm]

(* Consume: the confirmation is for this target; it is spent before the    *)
(* action is carried out.                                                  *)
Consume(r) ==
    /\ call[r].at = "found" /\ Op(r) = "act"
    /\ \E c \in Requests, t \in Targets :
        /\ Op(c) = "prepare"
        /\ \/ /\ Live(c) /\ confirm[c].target = t
              /\ confirm' = Spent(CleanedConfirm, c)
              /\ call' = [call EXCEPT ![r] = [at |-> "carry", target |-> t, using |-> c]]
           \/ /\ ~(Live(c) /\ confirm[c].target = t)
              /\ confirm' = CleanedConfirm
              /\ Goes(r, "refused")
    /\ CleanupLocked
    /\ UNCHANGED <<events, carried>>

(* The operation of the store, which may fail. *)
Carry(r) ==
    /\ call[r].at = "carry"
    /\ \/ carried' = carried \cup {r} /\ Goes(r, "notify")
       \/ UNCHANGED carried /\ Goes(r, "refused")
    /\ UNCHANGED <<session, events, channel, confirm, misused>>

(* A full channel drops the message. *)
Queued(n) == IF n < QueueSize THEN n + 1 ELSE n

(* NotifyTenant after a tool that succeeded. *)
NotifyTenant(r) ==
    /\ call[r].at = "notify"
    /\ confirm' = CleanedConfirm
    /\ IF Present /\ ~Expired
       THEN /\ events' = Queued(events)
            /\ misused' = (misused \/ channel = "closed")
            /\ UNCHANGED <<session, channel>>
       ELSE CleanupLocked /\ UNCHANGED events
    /\ Goes(r, "done")
    /\ UNCHANGED carried

(* Mutant: the session it found before is closed without another look. *)
CloseSession_NoLook(r) ==
    /\ call[r].at = "found" /\ Op(r) = "delete"
    /\ Close /\ session' = Over
    /\ Goes(r, "done")
    /\ UNCHANGED <<events, confirm, carried>>

(* mcpDelete: CloseSession takes the lock again after Session. *)
CloseSession(r) ==
    /\ call[r].at = "found" /\ Op(r) = "delete"
    /\ IF Present THEN Close /\ session' = Over ELSE UNCHANGED <<session, channel, misused>>
    /\ Goes(r, "done")
    /\ UNCHANGED <<events, confirm, carried>>

(* mcpGet: takes messages until the channel is closed and empty, or the    *)
(* client goes.                                                            *)
Stream(r) ==
    /\ call[r].at = "found" /\ Op(r) = "stream"
    /\ \/ events > 0 /\ events' = events - 1 /\ UNCHANGED call
       \/ events = 0 /\ channel = "closed" /\ Goes(r, "done") /\ UNCHANGED events
       \/ Goes(r, "done") /\ UNCHANGED events
    /\ UNCHANGED <<session, channel, confirm, carried, misused>>

McpStep == \E r \in Requests :
    \/ CreateSession(r) \/ FindSession(r) \/ Prepare(r) \/ Consume(r) \/ Carry(r)
    \/ NotifyTenant(r) \/ CloseSession(r) \/ Stream(r)

-----------------------------------------------------------------------------

(* One confirmation lets one action be carried out, on the target it was   *)
(* asked for, although clients send the same confirmation twice and an     *)
(* action may fail after its confirmation was spent.                       *)
ConfirmedOnce == \A r, q \in carried : call[r].using = call[q].using => r = q

(* No message goes to a closed channel and no channel is closed twice,     *)
(* which would end the program, although a session expires while requests  *)
(* that have found it are under way and two may delete it.                 *)
ChannelsUsedWell == ~misused
=============================================================================
