---------------------------- MODULE Marketplace -----------------------------
(***************************************************************************)
(* Notices of the GitHub Marketplace about one account: a delivery is      *)
(* claimed, the subscription read, the tenant found or created and its     *)
(* installation bound, and the changed subscription written in two places. *)
(* Handlers overlap, fail, die and are sent their deliveries again, in any *)
(* order.                                                                  *)
(***************************************************************************)
EXTENDS Faults, FiniteSets

CONSTANTS
    Clerks,        \* the handlers at work
    Stories,       \* what the deliveries of a behaviour say: delivery -> notice
    Deliveries,    \* the ids of the deliveries
    MaxClaims      \* how often a delivery is handled, a bound

(* A notice names the date from which it counts. *)
ASSUME MarketAssumption == Stories # {} /\ \A told \in Stories, d \in Deliveries : told[d].effective \in Nat

VARIABLES
    story,         \* what each delivery says
    policy,        \* what a cancellation does: "disable" or "free"
    claims,        \* delivery -> status of its record, and how often it was claimed
    clerk,         \* what each handler does, with which delivery, and the subscription it read
    account,       \* the subscription in the index of accounts
    copy,          \* the subscription among the records of the tenant
    tenant,        \* "none", "on" or "off"
    bound,         \* the installation belongs to the tenant
    raced          \* a handler read the subscription while another was about to write it

marketVars == <<story, policy, claims, clerk, account, copy, tenant, bound, raced>>

FreePlan == "free"
NoPlan == "none"
NoSubscription == [plan |-> NoPlan, status |-> "none", at |-> 0, pending |-> NoPlan]
NoClerk == [at |-> "idle", delivery |-> "none", read |-> NoSubscription]

MarketInit(chosen) ==
    /\ story = chosen
    /\ policy \in {"disable", "free"}
    /\ claims = [d \in Deliveries |-> [status |-> "none", times |-> 0]]
    /\ clerk = [c \in Clerks |-> NoClerk]
    /\ account = NoSubscription
    /\ copy = NoSubscription
    /\ tenant = "none"
    /\ bound = FALSE
    /\ raced = FALSE

-----------------------------------------------------------------------------
(* What a notice makes of the subscription *)

Purchase(n) == [plan |-> n.plan, status |-> "active", at |-> n.effective, pending |-> NoPlan]

BaseOf(old, n) == IF old = NoSubscription \/ n.action \in {"purchased", "changed"} THEN Purchase(n) ELSE old

Changed(old, n) ==
    LET sub == BaseOf(old, n) IN
    CASE n.action = "cancelled" ->
           IF policy = "disable"
             THEN [sub EXCEPT !.status = "cancelled", !.at = n.effective, !.pending = NoPlan]
             ELSE [plan |-> FreePlan, status |-> "free", at |-> n.effective, pending |-> NoPlan]
      [] n.action = "pending_change" -> [sub EXCEPT !.status = "active", !.pending = n.plan]
      [] n.action = "pending_change_cancelled" -> [sub EXCEPT !.status = "active", !.pending = NoPlan]
      [] OTHER -> sub

(* Mutant: a notice that comes late is applied like any other. *)
Older_Never(n, old) == FALSE

Older(n, old) == old # NoSubscription /\ n.effective < old.at

-----------------------------------------------------------------------------
At(c, step) == clerk[c].at = step
Notice(c) == story[clerk[c].delivery]
Turn(c, step) == clerk' = [clerk EXCEPT ![c].at = step]
Settled == {"processed", "invalid", "ignored", "queued", "unbound"}

(* Only a delivery that failed, or whose handler has been gone for minutes, is
   handled again; a request ends long before that. *)
ClaimDelivery(d) ==
    \/ claims[d].status \in {"none", "error"}
    \/ claims[d].status = "processing" /\ \A c \in Clerks : clerk[c].delivery # d

(* A delivery arrives: for the first time, or again. *)
Receive(c, d) ==
    /\ At(c, "idle")
    /\ claims[d].times < MaxClaims
    /\ \/ /\ ClaimDelivery(d) /\ Fine
          /\ claims' = [claims EXCEPT ![d] = [status |-> "processing", times |-> @.times + 1]]
          /\ clerk' = [clerk EXCEPT ![c] = [at |-> "load", delivery |-> d, read |-> NoSubscription]]
       \/ /\ Fault /\ UNCHANGED clerk
          /\ claims' \in {claims, IF ClaimDelivery(d) THEN [claims EXCEPT ![d].status = "processing"] ELSE claims}
    /\ UNCHANGED <<story, policy, account, copy, tenant, bound, raced>>

(* A notice that cannot be read is an error like any other. *)
Handle(c) ==
    /\ At(c, "load")
    /\ \/ Notice(c).action = "unknown" /\ Fine /\ Turn(c, "error")
       \/ Fault /\ Turn(c, "error")
       \/ /\ Notice(c).action # "unknown" /\ Fine
          /\ clerk' = [clerk EXCEPT ![c].at = "tenant", ![c].read = account]
    /\ raced' = (raced \/ \E b \in Clerks \ {c} : clerk[b].at \in {"tenant", "bind", "disable", "copy", "account"})
    /\ UNCHANGED <<story, policy, claims, account, copy, tenant, bound>>

(* The tenant of the subscription, of the installation, or a new one. *)
FindTenant(c) ==
    /\ At(c, "tenant")
    /\ \/ Fine /\ Turn(c, "bind") /\ tenant' = IF tenant = "none" THEN "on" ELSE tenant
       \/ Fault /\ Turn(c, "error") /\ tenant' \in {tenant, IF tenant = "none" THEN "on" ELSE tenant}
    /\ UNCHANGED <<story, policy, claims, account, copy, bound, raced>>

Write(c) ==
    IF Older(Notice(c), clerk[c].read) THEN "processed"
    ELSE IF Notice(c).action = "cancelled" /\ policy = "disable" THEN "disable" ELSE "copy"

(* An installation is not bound to a disabled tenant; an older notice binds it
   and changes nothing else. *)
BindInstallation(c) ==
    /\ At(c, "bind")
    /\ IF Notice(c).installation
         THEN \/ tenant = "on" /\ bound' = TRUE /\ Fine /\ Turn(c, Write(c))
              \/ tenant # "on" /\ UNCHANGED bound /\ Fine /\ Turn(c, "error")
              \/ Fault /\ UNCHANGED bound /\ Turn(c, "error")
         ELSE UNCHANGED bound /\ Fine /\ Turn(c, Write(c))
    /\ UNCHANGED <<story, policy, claims, account, copy, tenant, raced>>

SetTenantEnabled(c) ==
    /\ At(c, "disable")
    /\ \/ Fine /\ Turn(c, "copy") /\ tenant' = "off"
       \/ Fault /\ Turn(c, "error") /\ tenant' \in {tenant, "off"}
    /\ UNCHANGED <<story, policy, claims, account, copy, bound, raced>>

PutCopy(c) ==
    /\ At(c, "copy")
    /\ LET sub == Changed(clerk[c].read, Notice(c)) IN
       \/ Fine /\ Turn(c, "account") /\ copy' = sub
       \/ Fault /\ Turn(c, "error") /\ copy' \in {copy, sub}
    /\ UNCHANGED <<story, policy, claims, account, tenant, bound, raced>>

(* An audit that fails leaves the delivery processed all the same. *)
PutAccount(c) ==
    /\ At(c, "account")
    /\ LET sub == Changed(clerk[c].read, Notice(c)) IN
       \/ Fine /\ Turn(c, "processed") /\ account' = sub
       \/ Fault /\ Turn(c, "error") /\ account' \in {account, sub}
    /\ UNCHANGED <<story, policy, claims, copy, tenant, bound, raced>>

(* The outcome is filed; that it could not be is only logged. *)
UpdateDelivery(c) ==
    /\ At(c, "processed") \/ At(c, "error")
    /\ \/ Fine /\ claims' = [claims EXCEPT ![clerk[c].delivery].status = clerk[c].at]
       \/ Fault /\ UNCHANGED claims
    /\ clerk' = [clerk EXCEPT ![c] = NoClerk]
    /\ UNCHANGED <<story, policy, account, copy, tenant, bound, raced>>

Die(c) ==
    /\ ~At(c, "idle") /\ Fault
    /\ clerk' = [clerk EXCEPT ![c] = NoClerk]
    /\ UNCHANGED <<story, policy, claims, account, copy, tenant, bound, raced>>

MarketStep ==
    \E c \in Clerks :
        \/ (\E d \in Deliveries : Receive(c, d)) \/ Handle(c) \/ FindTenant(c) \/ BindInstallation(c)
        \/ SetTenantEnabled(c) \/ PutCopy(c) \/ PutAccount(c) \/ UpdateDelivery(c) \/ Die(c)

-----------------------------------------------------------------------------

Processed == {d \in Deliveries : claims[d].status = "processed"}
Deciding == {d \in Processed : story[d].action \in {"purchased", "changed", "cancelled"}}
AllQuiet == \A d \in Deliveries : claims[d].status \in {"none", "processed"}

(* A tenant whose plan is recorded as cancelled is switched off, whatever
   failed and however the handlers overlapped: the tenant is switched off
   before either record says so. *)
CancelledIsOff == account.status = "cancelled" \/ copy.status = "cancelled" => tenant = "off"

(* Notices may come in any order, be repeated and fail halfway: as long as no
   two handlers overlap, no processed notice that decides the plan is newer
   than the one the account has, and the plan is what one of that date says;
   only a pending change of a later date makes a cancelled plan active. *)
NewestKept ==
    (~raced /\ AllQuiet /\ Deciding # {}) =>
        /\ \A d \in Deciding : story[d].effective <= account.at
        /\ \E d \in Processed :
             /\ story[d].effective = account.at
             /\ story[d].action # "cancelled" => account.plan = story[d].plan
             /\ story[d].action = "cancelled" =>
                   account.status \in {"cancelled", "free"} \/ \E p \in Processed \ Deciding : story[p].effective >= account.at

(* The two records of the subscription agree once everything is processed. *)
CopiesAgree == (~raced /\ AllQuiet) => account = copy

PlanKept == CancelledIsOff /\ NewestKept /\ CopiesAgree
=============================================================================
