---------------------------- MODULE AccessProofs ----------------------------
(***************************************************************************)
(* Proofs about module Access: what is good for one use is used once, the  *)
(* channels of MCP sessions are used well, the key cache neither refuses   *)
(* nor trusts wrongly, what was taken back stays out, and the limits hold; *)
(* for any number of tabs, callbacks, requests and processes, and any      *)
(* lives and limits of what they use.                                      *)
(*                                                                         *)
(* The parts of Access share the clock and nothing else, so that each has  *)
(* an invariant of its own.                                                *)
(***************************************************************************)
EXTENDS Access, FiniteSetTheorems, TLAPS

NowOK == now \in 0..MaxNow

-----------------------------------------------------------------------------
(* McpRuntime *)

CallRecord ==
    [at: {"idle", "found", "carry", "notify", "done", "refused"},
     target: {0} \cup Targets, using: Requests \cup {None}]

McpTypeOK ==
    /\ session \in Nat
    /\ channel \in {"open", "closed"}
    /\ confirm \in [Requests -> [target: {0} \cup Targets, until: Nat]]
    /\ call \in [Requests -> CallRecord]
    /\ carried \subseteq Requests

(* A closed channel belongs to a session that is gone for good. *)
ClosedIsOver ==
    /\ channel = "closed" => session = Over
    /\ ~misused

(* Only a request that has prepared an action has a confirmation out. *)
Prepared(c) == Op(c) = "prepare" /\ call[c].at \notin {"idle", "found"}
ConfirmPrepared == \A c \in Requests : confirm[c].target # 0 => Prepared(c)

(* A request that spent a confirmation, and what it spent. *)
Spender(r) == call[r].at = "carry" \/ r \in carried

SpentOnce ==
    /\ \A r \in carried : call[r].at \in {"notify", "done"}
    /\ \A r \in Requests : Spender(r) =>
         /\ call[r].using \in Requests
         /\ Prepared(call[r].using)
         /\ confirm[call[r].using].target = 0
    /\ \A r, q \in Requests :
         Spender(r) /\ Spender(q) /\ call[r].using = call[q].using => r = q

McpInv == McpTypeOK /\ ClosedIsOver /\ ConfirmPrepared /\ SpentOnce

-----------------------------------------------------------------------------
(* SignIn *)

PostRecord ==
    [at: {"idle", "read", "fetching", "inspected", "verified", "answer", "done"},
     keys: SUBSET {1, 2}, began: Nat, forced: BOOLEAN,
     verdict: {None, "in", "refused", "nokey"}]

SignInTypeOK ==
    /\ mode \in {"oidc", "saml"}
    /\ flow \in [Tabs -> Nat]
    /\ grant \in [Tabs -> [key: {0, 1, 2}, expires: Nat, redeemed: BOOLEAN]]
    /\ phase \in 0..3 /\ withdrawn \in Nat
    /\ cache \in [keys: SUBSET {1, 2}, at: Nat]
    /\ claims \in [Tabs -> Nat]
    /\ post \in [Posts -> PostRecord]

(* A grant keeps its flow and its key, a callback comes after its grant.   *)
Granted ==
    /\ \A t \in Tabs : /\ grant[t].key = 0 => grant[t] = NoGrant
                       /\ grant[t].key # 0 => flow[t] # Never
                       /\ grant[t].key = 2 => phase >= 2
    /\ \A p \in Posts : /\ post[p].at # "idle" => grant[TabOf(p)].key # 0
                        /\ post[p].verdict # None => post[p].at \in {"answer", "done"}
                        /\ post[p].at = "fetching" => mode = "oidc"
                        /\ post[p].at \in {"inspected", "verified"} => mode = "saml"
                        /\ post[p].at \in {"idle", "read"} => ~post[p].forced

(* The callback that has redeemed the code or claimed the response. *)
Taker(p) == post[p].at = "fetching" \/ post[p].verdict = "in"

TakenOnce ==
    /\ \A p \in Posts : Taker(p) =>
         IF mode = "oidc" THEN grant[TabOf(p)].redeemed
         ELSE claims[TabOf(p)] = ClaimUntil(TabOf(p))
    /\ \A p, q \in Posts : TabOf(p) = TabOf(q) /\ Taker(p) /\ Taker(q) => p = q

(* What was fetched was published, and is not older than a fetch may be.   *)
FetchedInTime ==
    /\ phase = 3 => withdrawn <= now
    /\ cache.at <= now
    /\ phase = 3 /\ 1 \in cache.keys => cache.at <= withdrawn + FetchLife
    /\ \A p \in Posts : post[p].at = "fetching" =>
         LET key == grant[TabOf(p)].key IN
         /\ post[p].began <= now /\ now <= post[p].began + FetchLife
         /\ key = 1 /\ 1 \notin post[p].keys => phase = 3
         /\ key = 2 => 2 \in post[p].keys
         /\ phase = 3 /\ 1 \in post[p].keys => post[p].began <= withdrawn

SignInInv == SignInTypeOK /\ Granted /\ TakenOnce /\ FetchedInTime

-----------------------------------------------------------------------------
(* Credentials *)

OfferSeqs == {<<>>, <<"key">>, <<"cookie">>, <<"key", "cookie">>, <<"oauth", "sso">>, <<"sso">>}

LookupSeqs ==
    {<<>>, <<"active key">>, <<"tenant", "key">>, <<"key">>,
     <<"revocation", "client", "tenant">>, <<"client", "tenant">>, <<"tenant">>}

RequestRecord ==
    [at: {"idle", "open", "look", "accepted", "denied", "redeem", "refused", "done"},
     offers: OfferSeqs, lookups: LookupSeqs, token: Requests \cup {None}, began: Nat,
     barred: SUBSET {"key", "cookie", "oauth", "sso"}, tenantBarred: BOOLEAN]

CredentialsTypeOK ==
    /\ casting \in Castings
    /\ tenantOn \in BOOLEAN /\ keyOn \in BOOLEAN /\ clientOn \in BOOLEAN
    /\ cookie \in Nat /\ code \in Nat /\ redeemed \in Nat
    /\ token \in [Requests -> Nat]
    /\ revoked \subseteq Requests /\ gone \subseteq Requests
    /\ request \in [Requests -> RequestRecord]

(* Before the client is registered there is no code and no token; the code *)
(* is made once.                                                           *)
InOrder ==
    /\ \A r \in Requests : Kind(r) = "register" /\ ~At(r, "done") =>
         /\ ~clientOn /\ code = 0
         /\ \A q \in Requests : Kind(q) = "authorize" => At(q, "idle")
    /\ \A r \in Requests : Kind(r) = "authorize" /\ ~At(r, "done") => code = 0
    /\ code = 0 => \A r \in Requests : token[r] = 0 /\ ~At(r, "redeem")
    /\ code <= now + CodeLife
    /\ \A r \in Requests : At(r, "redeem") =>
         /\ Kind(r) = "exchange" /\ token[r] = 0
         /\ request[r].began <= code /\ now <= request[r].began + 1
    /\ \A r \in Requests : token[r] > 0 => Kind(r) = "exchange" /\ At(r, "done")

(* A code that gave a token is remembered for as long as it could give     *)
(* another.                                                                *)
Remembered ==
    /\ \A r, q \in Requests : token[r] > 0 /\ token[q] > 0 => r = q
    /\ (\E r \in Requests : token[r] > 0) =>
         \/ redeemed # Never /\ code <= redeemed + CodeLife
         \/ now > code + 1

(* What was taken back before a request stays so, or its token is over.    *)
Late(t) == now >= token[t]

Barred(q) ==
    /\ q.tenantBarred => ~tenantOn
    /\ "key" \in q.barred \/ "cookie" \in q.barred => ~keyOn
    /\ "sso" \notin q.barred
    /\ q.offers = <<"oauth", "sso">> \/ "oauth" \in q.barred => q.token \in Requests /\ token[q.token] > 0
    /\ "oauth" \in q.barred => q.token \in gone \/ ~clientOn

(* What a lookup that comes later may rest on. *)
Looking(q) == q.at = "look" =>
    \/ q.offers \in {<<"key">>, <<"key", "cookie">>} /\ q.lookups = <<"active key">>
    \/ q.offers = <<"cookie">> /\ q.lookups = <<"tenant", "key">>
    \/ q.offers = <<"cookie">> /\ q.lookups = <<"key">> /\ ~q.tenantBarred
    \/ q.offers = <<"oauth", "sso">> /\ q.lookups = <<"revocation", "client", "tenant">>
    \/ /\ q.offers = <<"oauth", "sso">> /\ q.lookups = <<"client", "tenant">>
       /\ "oauth" \in q.barred => Late(q.token) \/ ~clientOn
    \/ /\ q.offers = <<"oauth", "sso">> /\ q.lookups = <<"tenant">>
       /\ "oauth" \in q.barred => Late(q.token)
    \/ q.offers = <<"sso">> /\ q.lookups = <<"tenant">>

TakenBack ==
    /\ \A t \in gone : token[t] > 0 /\ (t \in revoked \/ Late(t))
    /\ \A r \in Requests : Barred(request[r]) /\ Looking(request[r])

CredentialsInv == CredentialsTypeOK /\ InOrder /\ Remembered /\ TakenBack

-----------------------------------------------------------------------------
(* The clock and the casting *)

LEMMA CastingStays ==
    ASSUME CredentialsStep
    PROVE  casting' = casting
  BY DEF CredentialsStep, Outside, RevokeAPIKey, SetTenantEnabled, DeleteOAuthClient, Cleanup,
     Arrive, Open, Look, CreateSessionCookie, RegisterClient, Authorize, BeginExchange, Redeem, Revoke

LEMMA NowStep ==
    ASSUME NowOK, [Next]_vars
    PROVE  /\ NowOK' /\ now' >= now
           /\ casting' = casting
  <1>1. CASE Tick
    BY <1>1, ClockAssumption DEF Tick, Advance, NowOK, credentialVars
  <1>2. CASE UNCHANGED now
    <2>1. casting' = casting
      BY CastingStays DEF Next, Tick, vars, credentialVars
    <2> QED
      BY <1>2, <2>1 DEF NowOK
  <1> QED
    BY <1>1, <1>2 DEF Next, vars

LEMMA InitNow == Init => NowOK
  BY ClockAssumption DEF Init, NowOK

-----------------------------------------------------------------------------
(* McpRuntime *)

LEMMA McpInitial == Init => McpInv
  <1> SUFFICES ASSUME Init PROVE McpInv
    OBVIOUS
  <1>1. McpTypeOK
    BY DEF Init, McpInit, McpTypeOK, NoConfirm, CallRecord, Targets
  <1>2. ClosedIsOver
    BY DEF Init, McpInit, ClosedIsOver
  <1>3. ConfirmPrepared
    BY DEF Init, McpInit, ConfirmPrepared, NoConfirm
  <1>4. SpentOnce
    BY DEF Init, McpInit, SpentOnce, Spender
  <1> QED
    BY <1>1, <1>2, <1>3, <1>4 DEF McpInv

(* A session never looks like one that is over. *)
LEMMA OverFacts ==
    ASSUME NowOK
    PROVE  /\ now + McpLife \in Nat /\ Over \in Nat
           /\ now + McpLife # Over /\ Over # 0
  BY ClockAssumption, McpAssumption DEF NowOK, Over, Never

LEMMA CleanedFacts ==
    ASSUME McpTypeOK
    PROVE  /\ CleanedConfirm \in [Requests -> [target: {0} \cup Targets, until: Nat]]
           /\ \A c \in Requests : CleanedConfirm[c].target # 0 =>
                CleanedConfirm[c] = confirm[c]
           /\ \A c \in Requests : confirm[c].target = 0 => CleanedConfirm[c].target = 0
  BY DEF McpTypeOK, CleanedConfirm, NoConfirm, Live

LEMMA GoesFacts ==
    ASSUME McpTypeOK, NEW r \in Requests,
           NEW place \in {"found", "carry", "notify", "done", "refused"}, Goes(r, place)
    PROVE  /\ call' \in [Requests -> CallRecord]
           /\ call'[r].at = place /\ call'[r].using = call[r].using
           /\ \A q \in Requests \ {r} : call'[q] = call[q]
  <1> DEFINE d == [call[r] EXCEPT !.at = place]
  <1>1. call[r] \in CallRecord
    BY DEF McpTypeOK
  <1>2. d \in CallRecord /\ d.at = place /\ d.using = call[r].using
    BY <1>1 DEF CallRecord
  <1>3. call' = [call EXCEPT ![r] = d]
    BY DEF Goes
  <1> HIDE DEF d
  <1> QED
    BY <1>2, <1>3 DEF McpTypeOK

(* The expired session is closed with its channel, which was open. *)
LEMMA CleanupFacts ==
    ASSUME NowOK, McpTypeOK, ClosedIsOver, CleanupLocked
    PROVE  ClosedIsOver' /\ session' \in Nat /\ channel' \in {"open", "closed"}
  <1>1. CASE Expired
    BY <1>1, OverFacts DEF CleanupLocked, Close, Expired, Present, ClosedIsOver
  <1>2. CASE ~Expired
    BY <1>2 DEF CleanupLocked, ClosedIsOver, McpTypeOK, Over, Never
  <1> QED
    BY <1>1, <1>2

(* Sessions and their channels *)
LEMMA McpSession ==
    ASSUME NowOK, McpInv, McpStep
    PROVE  ClosedIsOver' /\ session' \in Nat /\ channel' \in {"open", "closed"}
  <1> USE DEF McpInv
  <1>0. PICK r \in Requests :
          \/ CreateSession(r) \/ FindSession(r) \/ Prepare(r) \/ Consume(r) \/ Carry(r)
          \/ NotifyTenant(r) \/ CloseSession(r) \/ Stream(r)
    BY DEF McpStep
  <1>1. CASE CreateSession(r)
    BY <1>1, OverFacts DEF CreateSession, ClosedIsOver, McpTypeOK, Over, Never
  <1>2. CASE FindSession(r)
    <2>1. CASE Present /\ ~Expired
      BY <1>2, <2>1, OverFacts DEF FindSession, Present, ClosedIsOver, McpTypeOK, Over, Never
    <2>2. CASE CleanupLocked
      BY <2>2, CleanupFacts
    <2> QED
      BY <1>2, <2>1, <2>2 DEF FindSession
  <1>3. CASE Prepare(r) \/ Consume(r)
    BY <1>3, CleanupFacts DEF Prepare, Consume
  <1>4. CASE Carry(r) \/ Stream(r)
    BY <1>4 DEF Carry, Stream, ClosedIsOver, McpTypeOK, Over, Never
  <1>5. CASE NotifyTenant(r)
    <2>1. CASE Present /\ ~Expired
      BY <1>5, <2>1 DEF NotifyTenant, Present, ClosedIsOver, McpTypeOK, Over, Never
    <2>2. CASE CleanupLocked
      BY <2>2, CleanupFacts
    <2> QED
      BY <1>5, <2>1, <2>2 DEF NotifyTenant
  <1>6. CASE CloseSession(r)
    BY <1>6, OverFacts DEF CloseSession, Close, Present, ClosedIsOver, McpTypeOK, Over, Never
  <1> QED
    BY <1>0, <1>1, <1>2, <1>3, <1>4, <1>5, <1>6

(* Confirmations and what is carried out: a step that spends nothing.      *)
LEMMA SpendsNothing ==
    ASSUME McpInv, casting' = casting, carried' = carried,
           NEW r \in Requests,
           \A q \in Requests \ {r} : call'[q] = call[q],
           call'[r].using = call[r].using, call'[r].at # "carry",
           call[r].at \notin {"idle", "found"} => call'[r].at \notin {"idle", "found"},
           r \in carried => call'[r].at \in {"notify", "done"},
           \A c \in Requests : confirm'[c].target # 0 =>
               \/ confirm[c].target # 0
               \/ c = r /\ Op(r) = "prepare" /\ call[r].at = "found" /\ call'[r].at = "notify"
    PROVE  ConfirmPrepared' /\ SpentOnce'
  <1> USE DEF McpInv
  <1>1. \A c \in Requests : Prepared(c) => Prepared(c)'
    BY DEF Prepared, Op
  <1>2. ConfirmPrepared'
    BY <1>1 DEF ConfirmPrepared, Prepared, Op
  <1>3. \A q \in Requests : Spender(q)' => Spender(q) /\ call'[q].using = call[q].using
    BY DEF Spender
  <1>4. ASSUME NEW q \in Requests, Spender(q)'
        PROVE  (/\ call[q].using \in Requests
                /\ Prepared(call[q].using)
                /\ confirm[call[q].using].target = 0)'
    <2> DEFINE c == call[q].using
    <2>1. c \in Requests /\ Prepared(c) /\ confirm[c].target = 0 /\ c' = c
      BY <1>3, <1>4 DEF SpentOnce
    <2>2. confirm'[c].target = 0
      BY <2>1 DEF Prepared
    <2>3. Prepared(c)'
      BY <1>1, <2>1 DEF Prepared
    <2> QED
      BY <2>1, <2>2, <2>3
  <1>5. \A q \in carried' : call'[q].at \in {"notify", "done"}
    BY DEF SpentOnce, McpTypeOK
  <1>6. \A p, q \in Requests :
          Spender(p)' /\ Spender(q)' /\ call'[p].using = call'[q].using => p = q
    BY <1>3 DEF SpentOnce
  <1> QED
    BY <1>2, <1>4, <1>5, <1>6 DEF SpentOnce

(* The steps that go from one place to the next and spend nothing.         *)
Going(r) ==
    \/ CreateSession(r) \/ FindSession(r) \/ Prepare(r) \/ NotifyTenant(r)
    \/ CloseSession(r) \/ (Stream(r) /\ ~UNCHANGED call)

LEMMA GoingFacts ==
    ASSUME McpTypeOK, NEW r \in Requests, Going(r)
    PROVE  /\ carried' = carried
           /\ \/ call[r].at = "idle" /\ (Goes(r, "found") \/ Goes(r, "done") \/ Goes(r, "refused"))
              \/ call[r].at = "found" /\ (Goes(r, "notify") \/ Goes(r, "done"))
              \/ call[r].at = "notify" /\ Goes(r, "done")
           /\ confirm' \in {confirm, CleanedConfirm} \/ Prepare(r)
  BY DEF Going, CreateSession, FindSession, Prepare, NotifyTenant, CloseSession, Stream, Ready

LEMMA PrepareFacts ==
    ASSUME NowOK, McpTypeOK, NEW r \in Requests, Prepare(r)
    PROVE  /\ confirm' \in [Requests -> [target: {0} \cup Targets, until: Nat]]
           /\ \A c \in Requests \ {r} : confirm'[c] = CleanedConfirm[c]
           /\ Op(r) = "prepare" /\ call[r].at = "found" /\ Goes(r, "notify")
  <1>1. now + ConfirmLife \in Nat
    BY ClockAssumption, McpAssumption DEF NowOK
  <1> QED
    BY <1>1, CleanedFacts DEF Prepare

LEMMA GoingKeeps ==
    ASSUME NowOK, McpInv, casting' = casting, NEW r \in Requests, Going(r)
    PROVE  /\ call' \in [Requests -> CallRecord]
           /\ confirm' \in [Requests -> [target: {0} \cup Targets, until: Nat]]
           /\ carried' = carried
           /\ ConfirmPrepared' /\ SpentOnce'
  <1> USE DEF McpInv
  <1>1. /\ call' \in [Requests -> CallRecord]
        /\ call'[r].using = call[r].using
        /\ \A q \in Requests \ {r} : call'[q] = call[q]
        /\ call'[r].at # "carry"
        /\ call[r].at \notin {"idle", "found"} => call'[r].at = "done"
        /\ call[r].at \in {"idle", "found", "notify"}
    BY GoingFacts, GoesFacts
  <1>2. confirm' \in [Requests -> [target: {0} \cup Targets, until: Nat]]
    BY GoingFacts, PrepareFacts, CleanedFacts DEF McpTypeOK
  <1>3. carried' = carried
    BY GoingFacts
  <1>4. \A c \in Requests : confirm'[c].target # 0 =>
          \/ confirm[c].target # 0
          \/ c = r /\ Op(r) = "prepare" /\ call[r].at = "found" /\ call'[r].at = "notify"
    <2>1. CASE Prepare(r)
      <3>1. call'[r].at = "notify"
        BY <2>1, PrepareFacts, GoesFacts
      <3> QED
        BY <2>1, <3>1, PrepareFacts, CleanedFacts
    <2>2. CASE confirm' \in {confirm, CleanedConfirm}
      BY <2>2, CleanedFacts
    <2> QED
      BY <2>1, <2>2, GoingFacts
  <1>5. r \in carried => call'[r].at \in {"notify", "done"}
    BY <1>1 DEF SpentOnce
  <1> QED
    BY <1>1, <1>2, <1>3, <1>4, <1>5, SpendsNothing

(* The spending of a confirmation, and the carrying out of its action.     *)
LEMMA ConsumeKeeps ==
    ASSUME NowOK, McpInv, casting' = casting, NEW r \in Requests, Consume(r)
    PROVE  /\ call' \in [Requests -> CallRecord]
           /\ confirm' \in [Requests -> [target: {0} \cup Targets, until: Nat]]
           /\ carried' = carried
           /\ ConfirmPrepared' /\ SpentOnce'
  <1> USE DEF McpInv
  <1>0. call[r].at = "found" /\ Op(r) = "act" /\ carried' = carried /\ r \notin carried
    BY DEF Consume, SpentOnce
  <1>1. CASE Goes(r, "refused") /\ confirm' = CleanedConfirm
    BY <1>0, <1>1, GoesFacts, CleanedFacts, SpendsNothing
  <1>2. CASE \E c \in Requests, t \in Targets :
               /\ Op(c) = "prepare" /\ Live(c) /\ confirm[c].target = t
               /\ confirm' = Spent(CleanedConfirm, c)
               /\ call' = [call EXCEPT ![r] = [at |-> "carry", target |-> t, using |-> c]]
    <2>1. PICK c \in Requests, t \in Targets :
               /\ Op(c) = "prepare" /\ Live(c) /\ confirm[c].target = t
               /\ confirm' = Spent(CleanedConfirm, c)
               /\ call' = [call EXCEPT ![r] = [at |-> "carry", target |-> t, using |-> c]]
      BY <1>2
    <2>2. /\ call' \in [Requests -> CallRecord]
          /\ call'[r].at = "carry" /\ call'[r].using = c
          /\ \A q \in Requests \ {r} : call'[q] = call[q]
      BY <2>1 DEF McpTypeOK, CallRecord
    <2>3. /\ confirm' \in [Requests -> [target: {0} \cup Targets, until: Nat]]
          /\ confirm'[c].target = 0
          /\ \A b \in Requests : confirm'[b].target # 0 => confirm[b].target # 0
      BY <2>1, CleanedFacts DEF Spent, NoConfirm
    <2>4. confirm[c].target # 0 /\ Prepared(c)
      BY <2>1 DEF Live, ConfirmPrepared
    <2>5. \A b \in Requests : Prepared(b) => Prepared(b)'
      BY <1>0, <2>2 DEF Prepared, Op
    <2>6. ConfirmPrepared'
      BY <2>3, <2>5 DEF ConfirmPrepared
    <2>7. \A q \in Requests : Spender(q)' =>
             \/ q = r
             \/ q # r /\ Spender(q) /\ call'[q].using = call[q].using /\ call[q].using # c
      BY <1>0, <2>2, <2>4 DEF Spender, SpentOnce
    <2>8. ASSUME NEW q \in Requests, Spender(q)'
          PROVE  /\ call'[q].using \in Requests /\ Prepared(call'[q].using)
                 /\ confirm'[call'[q].using].target = 0
      <3>1. CASE q = r
        BY <2>2, <2>3, <2>4, <3>1
      <3>2. CASE Spender(q) /\ call'[q].using = call[q].using
        <4>1. call[q].using \in Requests /\ Prepared(call[q].using) /\ confirm[call[q].using].target = 0
          BY <3>2 DEF SpentOnce
        <4> QED
          BY <2>3, <3>2, <4>1
      <3> QED
        BY <2>7, <2>8, <3>1, <3>2
    <2>9. \A p, q \in Requests : Spender(p)' /\ Spender(q)' /\ call'[p].using = call'[q].using => p = q
      BY <2>2, <2>7 DEF SpentOnce
    <2>10. \A q \in carried' : call'[q].at \in {"notify", "done"}
      BY <1>0, <2>2 DEF SpentOnce, McpTypeOK
    <2>11. ASSUME NEW q \in Requests, Spender(q)'
           PROVE  Prepared(call[q].using)'
      <3> DEFINE b == call'[q].using
      <3>1. b \in Requests /\ Prepared(b)
        BY <2>8, <2>11
      <3>2. Op(b) = "prepare" /\ call'[b].at \notin {"idle", "found"}
        BY <1>0, <2>2, <3>1 DEF Prepared
      <3> QED
        BY <3>2 DEF Prepared, Op
    <2> QED
      BY <1>0, <2>2, <2>3, <2>6, <2>8, <2>9, <2>10, <2>11 DEF SpentOnce
  <1> QED
    BY <1>1, <1>2 DEF Consume

LEMMA CarryKeeps ==
    ASSUME NowOK, McpInv, casting' = casting, NEW r \in Requests, Carry(r)
    PROVE  /\ call' \in [Requests -> CallRecord]
           /\ confirm' = confirm
           /\ carried' \subseteq Requests
           /\ ConfirmPrepared' /\ SpentOnce'
  <1> USE DEF McpInv
  <1>0. call[r].at = "carry" /\ confirm' = confirm /\ r \notin carried
    BY DEF Carry, SpentOnce
  <1>1. CASE Goes(r, "refused") /\ carried' = carried
    <2>1. /\ call' \in [Requests -> CallRecord]
          /\ call'[r].at = "refused" /\ call'[r].using = call[r].using
          /\ \A q \in Requests \ {r} : call'[q] = call[q]
      BY <1>1, GoesFacts
    <2>2. ConfirmPrepared' /\ SpentOnce'
      BY <1>0, <1>1, <2>1, SpendsNothing
    <2> QED
      BY <1>0, <1>1, <2>1, <2>2 DEF McpTypeOK
  <1>2. CASE Goes(r, "notify") /\ carried' = carried \cup {r}
    <2>1. /\ call' \in [Requests -> CallRecord]
          /\ call'[r].at = "notify" /\ call'[r].using = call[r].using
          /\ \A q \in Requests \ {r} : call'[q] = call[q]
      BY <1>2, GoesFacts
    <2>2. \A b \in Requests : Prepared(b) => Prepared(b)'
      BY <1>0, <2>1 DEF Prepared, Op
    <2>3. ConfirmPrepared'
      BY <1>0, <2>2 DEF ConfirmPrepared
    <2>4. \A q \in Requests : Spender(q)' => Spender(q) /\ call'[q].using = call[q].using
      BY <1>0, <1>2, <2>1 DEF Spender
    <2>5. ASSUME NEW q \in Requests, Spender(q)'
          PROVE  (/\ call[q].using \in Requests
                  /\ Prepared(call[q].using)
                  /\ confirm[call[q].using].target = 0)'
      <3> DEFINE c == call[q].using
      <3>1. c \in Requests /\ Prepared(c) /\ confirm[c].target = 0 /\ c' = c
        BY <2>4, <2>5 DEF SpentOnce
      <3>2. Prepared(c)'
        BY <2>2, <3>1 DEF Prepared
      <3> QED
        BY <1>0, <3>1, <3>2
    <2>6. \A q \in carried' : call'[q].at \in {"notify", "done"}
      BY <1>2, <2>1 DEF SpentOnce, McpTypeOK
    <2>7. \A p, q \in Requests : Spender(p)' /\ Spender(q)' /\ call'[p].using = call'[q].using => p = q
      BY <2>4 DEF SpentOnce
    <2> QED
      BY <1>0, <1>2, <2>1, <2>3, <2>5, <2>6, <2>7 DEF SpentOnce, McpTypeOK
  <1> QED
    BY <1>1, <1>2 DEF Carry

LEMMA McpKeeps ==
    ASSUME NowOK, McpInv, McpStep, casting' = casting
    PROVE  McpInv'
  <1>0. PICK r \in Requests :
          \/ CreateSession(r) \/ FindSession(r) \/ Prepare(r) \/ Consume(r) \/ Carry(r)
          \/ NotifyTenant(r) \/ CloseSession(r) \/ Stream(r)
    BY DEF McpStep
  <1>1. ClosedIsOver' /\ session' \in Nat /\ channel' \in {"open", "closed"}
    BY McpSession
  <1>2. /\ call' \in [Requests -> CallRecord]
        /\ confirm' \in [Requests -> [target: {0} \cup Targets, until: Nat]]
        /\ carried' \subseteq Requests
        /\ ConfirmPrepared' /\ SpentOnce'
    <2>1. CASE Going(r)
      BY <2>1, GoingKeeps DEF McpInv, McpTypeOK
    <2>2. CASE Consume(r)
      BY <2>2, ConsumeKeeps DEF McpInv, McpTypeOK
    <2>3. CASE Carry(r)
      BY <2>3, CarryKeeps DEF McpInv, McpTypeOK
    <2>4. CASE Stream(r) /\ UNCHANGED call
      BY <2>4 DEF Stream, McpInv, McpTypeOK, ConfirmPrepared, Prepared, SpentOnce, Spender, Op
    <2> QED
      BY <1>0, <2>1, <2>2, <2>3, <2>4 DEF Going
  <1> QED
    BY <1>1, <1>2 DEF McpInv, McpTypeOK

LEMMA McpUnchanged ==
    ASSUME McpInv, UNCHANGED mcpVars, casting' = casting
    PROVE  McpInv'
  BY DEF McpInv, mcpVars, McpTypeOK, ClosedIsOver, ConfirmPrepared, Prepared, SpentOnce, Spender, Op

LEMMA McpInvariant == Spec => [](NowOK /\ McpInv)
  <1>1. Init => NowOK /\ McpInv
    BY InitNow, McpInitial
  <1>2. NowOK /\ McpInv /\ [Next]_vars => (NowOK /\ McpInv)'
    <2> SUFFICES ASSUME NowOK, McpInv, [Next]_vars
                 PROVE  NowOK' /\ McpInv'
      OBVIOUS
    <2>1. NowOK' /\ casting' = casting
      BY NowStep
    <2>2. UNCHANGED mcpVars \/ McpStep
      BY DEF Next, vars, Tick
    <2> QED
      BY <2>1, <2>2, McpKeeps, McpUnchanged
  <1> QED
    BY <1>1, <1>2, PTL DEF Spec

(* However requests, expiry and deletion meet, no message goes to a closed *)
(* channel of a session and no channel is closed twice (Runtime of         *)
(* internal/mcp).                                                          *)
THEOREM ChannelsAlwaysUsedWell == Spec => []ChannelsUsedWell
  <1>1. McpInv => ChannelsUsedWell
    BY DEF McpInv, ClosedIsOver, ChannelsUsedWell
  <1> QED
    BY <1>1, McpInvariant, PTL

(* One confirmation lets one action of MCP be carried out.                 *)
LEMMA ConfirmedOnceAlways == Spec => []ConfirmedOnce
  <1>1. McpInv => ConfirmedOnce
    BY DEF McpInv, McpTypeOK, SpentOnce, Spender, ConfirmedOnce
  <1> QED
    BY <1>1, McpInvariant, PTL

-----------------------------------------------------------------------------
(* SignIn *)

LEMMA SignInInitial == Init => SignInInv
  <1> SUFFICES ASSUME Init PROVE SignInInv
    OBVIOUS
  <1>1. now = 0 /\ Never \in Nat
    BY ClockAssumption DEF Init, Never
  <1>2. SignInTypeOK
    BY <1>1 DEF Init, SignInInit, SignInTypeOK, NoGrant, NewPost, PostRecord, None
  <1>3. Granted
    BY DEF Init, SignInInit, Granted, NoGrant, NewPost
  <1>4. TakenOnce
    BY DEF Init, SignInInit, TakenOnce, Taker, NewPost, None
  <1>5. FetchedInTime
    BY <1>1 DEF Init, SignInInit, FetchedInTime, NewPost
  <1> QED
    BY <1>2, <1>3, <1>4, <1>5 DEF SignInInv

LEMMA TabOfTab == \A p \in Posts : TabOf(p) \in Tabs
  BY SignInAssumption DEF TabOf

LEMMA EndsFacts ==
    ASSUME SignInTypeOK, NEW p \in Posts, NEW v \in {"in", "refused", "nokey"}, Ends(p, v)
    PROVE  /\ post' \in [Posts -> PostRecord]
           /\ post'[p].at = "answer" /\ post'[p].verdict = v
           /\ \A q \in Posts \ {p} : post'[q] = post[q]
  <1> DEFINE d == [NewPost EXCEPT !.at = "answer", !.verdict = v]
  <1>1. d \in PostRecord /\ d.at = "answer" /\ d.verdict = v
    BY DEF NewPost, PostRecord
  <1>2. post' = [post EXCEPT ![p] = d]
    BY DEF Ends
  <1> HIDE DEF d
  <1> QED
    BY <1>1, <1>2 DEF SignInTypeOK

LEMMA MovesFacts ==
    ASSUME SignInTypeOK, NEW p \in Posts,
           NEW place \in {"read", "inspected", "verified", "done"}, Moves(p, place)
    PROVE  /\ post' \in [Posts -> PostRecord]
           /\ post'[p].at = place /\ post'[p].verdict = post[p].verdict
           /\ post'[p].forced = post[p].forced
           /\ \A q \in Posts \ {p} : post'[q] = post[q]
  <1> DEFINE d == [post[p] EXCEPT !.at = place]
  <1>1. post[p] \in PostRecord
    BY DEF SignInTypeOK
  <1>2. d \in PostRecord /\ d.at = place /\ d.verdict = post[p].verdict /\ d.forced = post[p].forced
    BY <1>1 DEF PostRecord
  <1>3. post' = [post EXCEPT ![p] = d]
    BY DEF Moves
  <1> HIDE DEF d
  <1> QED
    BY <1>2, <1>3 DEF SignInTypeOK

LEMMA StartFetchFacts ==
    ASSUME NowOK, SignInTypeOK, NEW p \in Posts, NEW forced \in BOOLEAN, StartFetch(p, forced)
    PROVE  /\ post' \in [Posts -> PostRecord]
           /\ post'[p].at = "fetching" /\ post'[p].verdict = post[p].verdict
           /\ post'[p].keys = Published /\ post'[p].began = now
           /\ \A q \in Posts \ {p} : post'[q] = post[q]
  <1> DEFINE d == [post[p] EXCEPT !.at = "fetching", !.keys = Published, !.began = now, !.forced = forced]
  <1>0. Published \in SUBSET {1, 2} /\ now \in Nat
    BY ClockAssumption DEF Published, NowOK
  <1>1. post[p] \in PostRecord
    BY DEF SignInTypeOK
  <1>2. /\ d \in PostRecord /\ d.at = "fetching" /\ d.verdict = post[p].verdict
        /\ d.keys = Published /\ d.began = now
    BY <1>0, <1>1 DEF PostRecord
  <1>3. post' = [post EXCEPT ![p] = d]
    BY DEF StartFetch
  <1> HIDE DEF d
  <1> QED
    BY <1>2, <1>3 DEF SignInTypeOK

(* What the verification of a token comes to.                              *)
Verified(p, keys) ==
    LET key == grant[TabOf(p)].key IN
    \/ Ends(p, "refused")
    \/ key \in keys /\ Ends(p, "in")
    \/ key \notin keys /\ post[p].forced /\ Ends(p, "nokey")
    \/ StartFetch(p, TRUE)

LEMMA VerifyFacts ==
    ASSUME NEW p \in Posts, NEW keys, VerifyIDToken(p, keys)
    PROVE  Verified(p, keys)
  BY DEF VerifyIDToken, Verified, Identified

(* A callback that is and becomes no taker, or already is one. *)
LEMMA TakesNothing ==
    ASSUME SignInInv, mode' = mode, flow' = flow, claims' = claims, NEW p \in Posts,
           \A t \in Tabs : grant[t].redeemed => grant'[t].redeemed,
           \A q \in Posts \ {p} : post'[q] = post[q],
           Taker(p)' => Taker(p)
    PROVE  TakenOnce'
  <1> USE DEF SignInInv
  <1>1. \A q \in Posts : Taker(q)' => Taker(q)
    BY DEF Taker
  <1>2. ASSUME NEW q \in Posts, Taker(q)'
        PROVE  (IF mode = "oidc" THEN grant[TabOf(q)].redeemed
                ELSE claims[TabOf(q)] = ClaimUntil(TabOf(q)))'
    BY <1>1, <1>2, TabOfTab DEF TakenOnce, ClaimUntil, TabOf
  <1>3. \A q, r \in Posts : TabOf(q) = TabOf(r) /\ Taker(q)' /\ Taker(r)' => q = r
    BY <1>1 DEF TakenOnce
  <1> QED
    BY <1>2, <1>3 DEF TakenOnce, TabOf

(* What every step of a callback leaves as it was. *)
Around(p) ==
    /\ now' = now /\ mode' = mode /\ flow' = flow /\ phase' = phase /\ withdrawn' = withdrawn
    /\ grant[TabOf(p)].key # 0
    /\ \A t \in Tabs : /\ grant'[t].key = grant[t].key
                       /\ grant[t].key = 0 => grant'[t] = grant[t]
    /\ post' \in [Posts -> PostRecord]
    /\ \A q \in Posts \ {p} : post'[q] = post[q]

LEMMA GrantedKept ==
    ASSUME SignInInv, NEW p \in Posts, Around(p),
           post'[p].verdict # None => post'[p].at \in {"answer", "done"},
           post'[p].at = "fetching" => mode = "oidc",
           post'[p].at \in {"inspected", "verified"} => mode = "saml",
           post'[p].at \in {"idle", "read"} => ~post'[p].forced
    PROVE  Granted'
  <1> USE DEF SignInInv
  <1>1. \A q \in Posts : TabOf(q) \in Tabs /\ grant'[TabOf(q)].key = grant[TabOf(q)].key
    BY TabOfTab DEF Around
  <1>2. ASSUME NEW t \in Tabs
        PROVE  /\ grant'[t].key = 0 => grant'[t] = NoGrant
               /\ grant'[t].key # 0 => flow'[t] # Never
               /\ grant'[t].key = 2 => phase' >= 2
    BY DEF Granted, Around
  <1>3. ASSUME NEW q \in Posts
        PROVE  /\ post'[q].at # "idle" => grant[TabOf(q)].key # 0
               /\ post'[q].verdict # None => post'[q].at \in {"answer", "done"}
               /\ post'[q].at = "fetching" => mode = "oidc"
               /\ post'[q].at \in {"inspected", "verified"} => mode = "saml"
               /\ post'[q].at \in {"idle", "read"} => ~post'[q].forced
    BY DEF Granted, Around
  <1> QED
    BY <1>1, <1>2, <1>3 DEF Granted, Around, TabOf

LEMMA FetchKept ==
    ASSUME NowOK, SignInInv, NEW p \in Posts, Around(p),
           post'[p].at = "fetching" => post'[p].keys = Published /\ post'[p].began = now,
           \/ cache' = cache
           \/ post[p].at = "fetching" /\ cache' = [keys |-> post[p].keys, at |-> now]
    PROVE  FetchedInTime'
  <1> USE DEF SignInInv
  <1>0. now \in Nat /\ FetchLife \in Nat /\ withdrawn \in Nat /\ phase \in 0..3
    BY ClockAssumption, SignInAssumption DEF NowOK, SignInTypeOK
  <1>1. (phase = 3 => withdrawn <= now)'
    BY DEF FetchedInTime, Around
  <1>2. (cache.at <= now /\ (phase = 3 /\ 1 \in cache.keys => cache.at <= withdrawn + FetchLife))'
    <2>1. CASE cache' = cache
      BY <2>1 DEF FetchedInTime, Around
    <2>2. CASE post[p].at = "fetching" /\ cache' = [keys |-> post[p].keys, at |-> now]
      <3>1. /\ post[p].began \in Nat /\ now <= post[p].began + FetchLife
            /\ phase = 3 /\ 1 \in post[p].keys => post[p].began <= withdrawn
        BY <2>2 DEF FetchedInTime, SignInTypeOK, PostRecord
      <3> QED
        BY <1>0, <2>2, <3>1 DEF Around
    <2> QED
      BY <2>1, <2>2
  <1>3. ASSUME NEW q \in Posts, post'[q].at = "fetching"
        PROVE  LET key == grant[TabOf(q)].key IN
               /\ post'[q].began <= now /\ now <= post'[q].began + FetchLife
               /\ key = 1 /\ 1 \notin post'[q].keys => phase = 3
               /\ key = 2 => 2 \in post'[q].keys
               /\ phase = 3 /\ 1 \in post'[q].keys => post'[q].began <= withdrawn
    <2>1. CASE q = p
      <3>1. /\ phase # 3 => 1 \in Published
            /\ phase >= 2 => 2 \in Published
            /\ phase = 3 => 1 \notin Published
        BY <1>0 DEF Published
      <3>2. grant[TabOf(p)].key = 2 => phase >= 2
        BY TabOfTab DEF Granted
      <3> QED
        BY <1>0, <1>3, <2>1, <3>1, <3>2
    <2>2. CASE q # p
      BY <1>3, <2>2 DEF Around, FetchedInTime
    <2> QED
      BY <2>1, <2>2
  <1>4. \A q \in Posts : grant'[TabOf(q)].key = grant[TabOf(q)].key
    BY TabOfTab DEF Around
  <1> QED
    BY <1>1, <1>2, <1>3, <1>4 DEF FetchedInTime, Around, TabOf

LEMMA VerifiedFacts ==
    ASSUME NowOK, SignInTypeOK, NEW p \in Posts, NEW keys, Verified(p, keys)
    PROVE  /\ post' \in [Posts -> PostRecord]
           /\ \A q \in Posts \ {p} : post'[q] = post[q]
           /\ post'[p].at \in {"answer", "fetching"}
           /\ post'[p].at = "fetching" =>
                post'[p].keys = Published /\ post'[p].began = now /\ post'[p].verdict = post[p].verdict
  BY EndsFacts, StartFetchFacts DEF Verified

Redeems(t) == grant' = [grant EXCEPT ![t].redeemed = TRUE]

LEMMA RedeemFacts ==
    ASSUME SignInTypeOK, NEW t \in Tabs, grant[t].key # 0, Redeems(t)
    PROVE  /\ grant' \in [Tabs -> [key: {0, 1, 2}, expires: Nat, redeemed: BOOLEAN]]
           /\ grant'[t].redeemed = TRUE
           /\ \A u \in Tabs : /\ grant'[u].key = grant[u].key
                              /\ grant[u].key = 0 => grant'[u] = grant[u]
                              /\ grant[u].redeemed => grant'[u].redeemed
  <1> DEFINE d == [grant[t] EXCEPT !.redeemed = TRUE]
  <1>0. grant[t] \in [key: {0, 1, 2}, expires: Nat, redeemed: BOOLEAN]
    BY DEF SignInTypeOK
  <1>1. /\ d \in [key: {0, 1, 2}, expires: Nat, redeemed: BOOLEAN]
        /\ d.key = grant[t].key /\ d.redeemed = TRUE
    BY <1>0
  <1>2. grant' = [grant EXCEPT ![t] = d]
    BY DEF Redeems
  <1> HIDE DEF d
  <1>3. /\ grant' \in [Tabs -> [key: {0, 1, 2}, expires: Nat, redeemed: BOOLEAN]]
        /\ grant'[t] = d /\ \A u \in Tabs \ {t} : grant'[u] = grant[u]
    BY <1>1, <1>2 DEF SignInTypeOK
  <1> QED
    BY <1>1, <1>3

LEMMA ExchangeKeeps ==
    ASSUME NowOK, SignInInv, now' = now, NEW p \in Posts, Exchange(p)
    PROVE  SignInInv'
  <1> DEFINE t == TabOf(p)
  <1> USE DEF SignInInv
  <1>0. /\ t \in Tabs /\ grant[t].key # 0 /\ post[p].verdict = None
        /\ mode = "oidc" /\ post[p].at = "read"
    BY TabOfTab DEF Exchange, Granted
  <1>1. /\ mode' = mode /\ flow' = flow /\ phase' = phase /\ withdrawn' = withdrawn
        /\ cache' = cache /\ claims' = claims
    BY DEF Exchange
  <1>2. /\ grant' \in [Tabs -> [key: {0, 1, 2}, expires: Nat, redeemed: BOOLEAN]]
        /\ grant'[t].redeemed = TRUE
        /\ \A u \in Tabs : /\ grant'[u].key = grant[u].key
                           /\ grant[u].key = 0 => grant'[u] = grant[u]
                           /\ grant[u].redeemed => grant'[u].redeemed
    BY <1>0, RedeemFacts DEF Exchange, Redeems
  <1>3. \/ grant[t].redeemed /\ Ends(p, "refused")
        \/ ~grant[t].redeemed /\ (Verified(p, cache.keys) \/ StartFetch(p, FALSE))
    BY VerifyFacts DEF Exchange, GetJWKS
  <1>4. /\ post' \in [Posts -> PostRecord]
        /\ \A q \in Posts \ {p} : post'[q] = post[q]
        /\ post'[p].at \in {"answer", "fetching"}
        /\ post'[p].at = "fetching" =>
             post'[p].keys = Published /\ post'[p].began = now /\ post'[p].verdict = None
        /\ grant[t].redeemed => post'[p].at = "answer" /\ post'[p].verdict = "refused"
    <2>1. CASE Ends(p, "refused")
      BY <2>1, EndsFacts
    <2>2. CASE ~grant[t].redeemed /\ Verified(p, cache.keys)
      BY <1>0, <2>2, VerifiedFacts
    <2>3. CASE ~grant[t].redeemed /\ StartFetch(p, FALSE)
      BY <1>0, <2>3, StartFetchFacts
    <2> QED
      BY <1>3, <2>1, <2>2, <2>3
  <1>5. Around(p)
    BY <1>0, <1>1, <1>2, <1>4 DEF Around
  <1>6. Granted'
    BY <1>0, <1>4, <1>5, GrantedKept
  <1>7. FetchedInTime'
    BY <1>1, <1>4, <1>5, FetchKept
  <1>8. TakenOnce'
    <2>1. CASE grant[t].redeemed
      <3>1. ~Taker(p)'
        BY <1>4, <2>1 DEF Taker
      <3> QED
        BY <1>1, <1>2, <1>4, <3>1, TakesNothing
    <2>2. CASE ~grant[t].redeemed
      <3>1. \A q \in Posts : Taker(q)' => q = p \/ Taker(q)
        BY <1>4 DEF Taker
      <3>2. \A q \in Posts : Taker(q) => TabOf(q) # t /\ grant[TabOf(q)].redeemed
        BY <1>0, <2>2 DEF TakenOnce
      <3>3. \A q \in Posts : Taker(q)' => grant'[TabOf(q)].redeemed
        BY <1>2, <3>1, <3>2, TabOfTab
      <3>4. \A q, r \in Posts : TabOf(q) = TabOf(r) /\ Taker(q)' /\ Taker(r)' => q = r
        BY <3>1, <3>2 DEF TakenOnce
      <3> QED
        BY <1>0, <1>1, <3>3, <3>4 DEF TakenOnce, TabOf
    <2> QED
      BY <2>1, <2>2
  <1>9. SignInTypeOK'
    BY <1>1, <1>2, <1>4 DEF SignInTypeOK
  <1> QED
    BY <1>6, <1>7, <1>8, <1>9

LEMMA StoreFetchKeeps ==
    ASSUME NowOK, SignInInv, now' = now, NEW p \in Posts, StoreFetch(p)
    PROVE  SignInInv'
  <1> USE DEF SignInInv
  <1>0. grant[TabOf(p)].key # 0 /\ post[p].verdict = None /\ mode = "oidc" /\ post[p].at = "fetching"
    BY DEF StoreFetch, Granted
  <1>1. /\ mode' = mode /\ flow' = flow /\ phase' = phase /\ withdrawn' = withdrawn
        /\ grant' = grant /\ claims' = claims
        /\ cache' = [keys |-> post[p].keys, at |-> now]
    BY DEF StoreFetch
  <1>2. /\ post' \in [Posts -> PostRecord]
        /\ \A q \in Posts \ {p} : post'[q] = post[q]
        /\ post'[p].at \in {"answer", "fetching"}
        /\ post'[p].at = "fetching" =>
             post'[p].keys = Published /\ post'[p].began = now /\ post'[p].verdict = None
    BY <1>0, VerifyFacts, VerifiedFacts DEF StoreFetch
  <1>3. Around(p)
    BY <1>0, <1>1, <1>2 DEF Around
  <1>4. Granted'
    BY <1>0, <1>2, <1>3, GrantedKept
  <1>5. FetchedInTime'
    BY <1>0, <1>1, <1>2, <1>3, FetchKept
  <1>6. TakenOnce'
    BY <1>0, <1>1, <1>2, TakesNothing DEF Taker
  <1>7. SignInTypeOK'
    BY <1>1, <1>2, ClockAssumption DEF SignInTypeOK, PostRecord, NowOK
  <1> QED
    BY <1>4, <1>5, <1>6, <1>7

(* The steps that only move a callback on, or end it as refused.           *)
OnlyMoves(p) ==
    Callback(p) \/ Fail(p) \/ InspectShape(p) \/ VerifyXML(p) \/ Answer(p)

LEMMA OnlyMovesKeeps ==
    ASSUME NowOK, SignInInv, now' = now, NEW p \in Posts, OnlyMoves(p)
    PROVE  SignInInv'
  <1> USE DEF SignInInv
  <1>0. grant[TabOf(p)].key # 0
    BY TabOfTab DEF OnlyMoves, Callback, Arrives, Fail, InspectShape, VerifyXML, Answer, Granted
  <1>1. /\ mode' = mode /\ flow' = flow /\ phase' = phase /\ withdrawn' = withdrawn
        /\ grant' = grant /\ claims' = claims /\ cache' = cache
    BY DEF OnlyMoves, Callback, Fail, InspectShape, VerifyXML, Answer
  <1>2. \/ Ends(p, "refused")
        \/ post[p].at = "idle" /\ Moves(p, "read")
        \/ post[p].at = "read" /\ mode = "saml" /\ Moves(p, "inspected")
        \/ post[p].at = "inspected" /\ Moves(p, "verified")
        \/ post[p].at = "answer" /\ Moves(p, "done")
    BY DEF OnlyMoves, Callback, Arrives, Fail, InspectShape, VerifyXML, Answer
  <1>3. /\ post' \in [Posts -> PostRecord]
        /\ \A q \in Posts \ {p} : post'[q] = post[q]
        /\ post'[p].at # "fetching"
        /\ post'[p].verdict = "in" => post[p].verdict = "in"
        /\ post'[p].verdict # None => post'[p].at \in {"answer", "done"}
        /\ post'[p].at \in {"inspected", "verified"} => mode = "saml"
        /\ post'[p].at \in {"idle", "read"} => ~post'[p].forced
    <2>1. CASE Ends(p, "refused")
      BY <2>1, EndsFacts
    <2>2. CASE post[p].at = "idle" /\ Moves(p, "read")
      BY <2>2, MovesFacts DEF Granted
    <2>3. CASE post[p].at = "read" /\ mode = "saml" /\ Moves(p, "inspected")
      BY <2>3, MovesFacts DEF Granted
    <2>4. CASE post[p].at = "inspected" /\ Moves(p, "verified")
      BY <2>4, MovesFacts DEF Granted
    <2>5. CASE post[p].at = "answer" /\ Moves(p, "done")
      BY <2>5, MovesFacts
    <2> QED
      BY <1>2, <2>1, <2>2, <2>3, <2>4, <2>5
  <1>4. Around(p)
    BY <1>0, <1>1, <1>3 DEF Around
  <1>5. Granted'
    BY <1>3, <1>4, GrantedKept
  <1>6. FetchedInTime'
    BY <1>1, <1>3, <1>4, FetchKept
  <1>7. TakenOnce'
    BY <1>1, <1>3, TakesNothing DEF Taker
  <1>8. SignInTypeOK'
    BY <1>1, <1>3 DEF SignInTypeOK
  <1> QED
    BY <1>5, <1>6, <1>7, <1>8

(* A response that is not claimed has no taker. *)
LEMMA ClaimKeeps ==
    ASSUME NowOK, SignInInv, now' = now, NEW p \in Posts, Claim(p)
    PROVE  SignInInv'
  <1> DEFINE t == TabOf(p)
  <1> USE DEF SignInInv
  <1>0. /\ t \in Tabs /\ grant[t].key # 0 /\ post[p].verdict = None
        /\ mode = "saml" /\ post[p].at = "verified"
    BY TabOfTab DEF Claim, Granted
  <1>1. /\ mode' = mode /\ flow' = flow /\ phase' = phase /\ withdrawn' = withdrawn
        /\ grant' = grant /\ cache' = cache
    BY DEF Claim
  <1>2. \/ Ends(p, "refused") /\ claims' = claims
        \/ ClaimSSOReplay(t) /\ (Ends(p, "in") \/ Ends(p, "refused"))
    BY DEF Claim
  <1>3. /\ post' \in [Posts -> PostRecord]
        /\ \A q \in Posts \ {p} : post'[q] = post[q]
        /\ post'[p].at = "answer"
        /\ Ends(p, "refused") => post'[p].verdict = "refused"
    BY <1>2, EndsFacts
  <1>4. Around(p)
    BY <1>0, <1>1, <1>3 DEF Around
  <1>5. Granted'
    BY <1>3, <1>4, GrantedKept
  <1>6. FetchedInTime'
    BY <1>1, <1>3, <1>4, FetchKept
  <1>7. TakenOnce' /\ claims' \in [Tabs -> Nat]
    <2>1. CASE Ends(p, "refused") /\ claims' = claims
      BY <1>1, <1>3, <2>1, TakesNothing DEF Taker, SignInTypeOK
    <2>2. CASE ClaimSSOReplay(t)
      <3>1. /\ claims[t] # ClaimUntil(t)
            /\ claims' = [claims EXCEPT ![t] = ClaimUntil(t)]
            /\ ClaimUntil(t) \in Nat
        BY <1>0, <2>2, SignInAssumption, ClockAssumption
           DEF ClaimSSOReplay, ClaimUntil, SignInTypeOK, NowOK
      <3>2. /\ claims' \in [Tabs -> Nat] /\ claims'[t] = ClaimUntil(t)
            /\ \A u \in Tabs \ {t} : claims'[u] = claims[u]
        BY <1>0, <3>1 DEF SignInTypeOK
      <3>3. \A q \in Posts : Taker(q)' => q = p \/ Taker(q)
        BY <1>3 DEF Taker
      <3>4. \A q \in Posts : Taker(q) => TabOf(q) # t /\ claims[TabOf(q)] = ClaimUntil(TabOf(q))
        BY <1>0, <3>1 DEF TakenOnce
      <3>5. \A q \in Posts : Taker(q)' => claims'[TabOf(q)] = ClaimUntil(TabOf(q))
        BY <3>2, <3>3, <3>4, TabOfTab
      <3>6. \A q, r \in Posts : TabOf(q) = TabOf(r) /\ Taker(q)' /\ Taker(r)' => q = r
        BY <3>3, <3>4 DEF TakenOnce
      <3>7. \A q \in Posts : ClaimUntil(TabOf(q))' = ClaimUntil(TabOf(q))
        BY <1>1 DEF ClaimUntil, TabOf
      <3> QED
        BY <1>0, <1>1, <3>2, <3>5, <3>6, <3>7 DEF TakenOnce, TabOf
    <2> QED
      BY <1>2, <2>1, <2>2
  <1>8. SignInTypeOK'
    BY <1>1, <1>3, <1>7 DEF SignInTypeOK
  <1> QED
    BY <1>5, <1>6, <1>7, <1>8

LEMMA LoginKeeps ==
    ASSUME NowOK, SignInInv, now' = now, NEW t \in Tabs, Login(t)
    PROVE  SignInInv'
  <1> USE DEF SignInInv
  <1>1. /\ mode' = mode /\ phase' = phase /\ withdrawn' = withdrawn /\ grant' = grant
        /\ claims' = claims /\ cache' = cache /\ post' = post
        /\ flow[t] = Never /\ flow' = [flow EXCEPT ![t] = now + FlowLife]
    BY DEF Login
  <1>2. now + FlowLife \in Nat
    BY SignInAssumption, ClockAssumption DEF NowOK
  <1>3. SignInTypeOK'
    BY <1>1, <1>2 DEF SignInTypeOK
  <1>4. \A u \in Tabs : grant[u].key # 0 => u # t /\ flow'[u] = flow[u]
    BY <1>1 DEF Granted, SignInTypeOK
  <1>5. Granted'
    BY <1>1, <1>4 DEF Granted, TabOf
  <1>6. \A p \in Posts : Taker(p) => flow'[TabOf(p)] = flow[TabOf(p)]
    BY <1>4, TabOfTab DEF Granted, Taker, None
  <1>7. TakenOnce'
    BY <1>1, <1>6 DEF TakenOnce, Taker, ClaimUntil, TabOf
  <1>8. FetchedInTime'
    BY <1>1 DEF FetchedInTime, TabOf
  <1> QED
    BY <1>3, <1>5, <1>7, <1>8

LEMMA SignOnKeeps ==
    ASSUME NowOK, SignInInv, now' = now, NEW t \in Tabs, SignOn(t)
    PROVE  SignInInv'
  <1> DEFINE g == [key |-> Signing, expires |-> now + TokenLife, redeemed |-> FALSE]
  <1> USE DEF SignInInv
  <1>1. /\ mode' = mode /\ phase' = phase /\ withdrawn' = withdrawn /\ flow' = flow
        /\ claims' = claims /\ cache' = cache /\ post' = post
        /\ flow[t] # Never /\ grant[t] = NoGrant /\ grant' = [grant EXCEPT ![t] = g]
    BY DEF SignOn
  <1>2. /\ g \in [key: {0, 1, 2}, expires: Nat, redeemed: BOOLEAN]
        /\ g.key # 0
        /\ g.key = 2 => phase >= 2
    BY SignInAssumption, ClockAssumption DEF NowOK, Signing, SignInTypeOK
  <1> HIDE DEF g
  <1>3. /\ grant' \in [Tabs -> [key: {0, 1, 2}, expires: Nat, redeemed: BOOLEAN]]
        /\ grant'[t] = g /\ \A u \in Tabs \ {t} : grant'[u] = grant[u]
    BY <1>1, <1>2 DEF SignInTypeOK
  <1>4. SignInTypeOK'
    BY <1>1, <1>3 DEF SignInTypeOK
  <1>5. \A p \in Posts : post[p].at # "idle" => TabOf(p) # t
    BY <1>1 DEF Granted, NoGrant
  <1>6. Granted'
    <2>1. \A p \in Posts : post[p].at # "idle" => grant'[TabOf(p)].key # 0
      BY <1>3, <1>5, TabOfTab DEF Granted
    <2>2. \A u \in Tabs : /\ grant'[u].key = 0 => grant'[u] = NoGrant
                          /\ grant'[u].key # 0 => flow[u] # Never
                          /\ grant'[u].key = 2 => phase >= 2
      BY <1>1, <1>2, <1>3 DEF Granted
    <2>3. ASSUME NEW p \in Posts
          PROVE  (/\ post[p].at # "idle" => grant[TabOf(p)].key # 0
                  /\ post[p].verdict # None => post[p].at \in {"answer", "done"}
                  /\ post[p].at = "fetching" => mode = "oidc"
                  /\ post[p].at \in {"inspected", "verified"} => mode = "saml"
                  /\ post[p].at \in {"idle", "read"} => ~post[p].forced)'
      BY <1>1, <2>1 DEF Granted, TabOf
    <2>4. flow' = flow /\ phase' = phase
      BY <1>1
    <2> QED
      BY <2>2, <2>3, <2>4 DEF Granted
  <1>7. \A p \in Posts : post[p].at # "idle" => grant'[TabOf(p)] = grant[TabOf(p)]
    BY <1>3, <1>5, TabOfTab
  <1>8. TakenOnce'
    <2>1. \A p \in Posts : Taker(p) => post[p].at # "idle"
      BY DEF Taker, Granted, None
    <2> QED
      BY <1>1, <1>7, <2>1 DEF TakenOnce, Taker, ClaimUntil, TabOf
  <1>9. FetchedInTime'
    BY <1>1, <1>7 DEF FetchedInTime, TabOf
  <1> QED
    BY <1>4, <1>6, <1>8, <1>9

(* A withdrawal finds every fetch begun and every key stored before it. *)
LEMMA RotateKeeps ==
    ASSUME NowOK, SignInInv, now' = now, Rotate
    PROVE  SignInInv'
  <1> USE DEF SignInInv
  <1>1. /\ mode' = mode /\ flow' = flow /\ grant' = grant
        /\ claims' = claims /\ cache' = cache /\ post' = post
        /\ phase \in 0..2 /\ phase' \in 0..3 /\ phase' > phase
        /\ withdrawn' = IF phase' = 3 THEN now ELSE withdrawn
    BY DEF Rotate, SignInTypeOK
  <1>2. now \in Nat /\ FetchLife \in Nat
    BY SignInAssumption, ClockAssumption DEF NowOK
  <1>3. SignInTypeOK'
    BY <1>1, <1>2 DEF SignInTypeOK
  <1>4. Granted'
    <2>1. \A u \in Tabs : grant[u].key = 2 => phase' >= 2
      BY <1>1 DEF Granted
    <2> QED
      BY <1>1, <2>1 DEF Granted, TabOf
  <1>5. TakenOnce'
    BY <1>1 DEF TakenOnce, Taker, ClaimUntil, TabOf
  <1>6. cache.at <= withdrawn' + FetchLife \/ phase' # 3
    BY <1>1, <1>2 DEF FetchedInTime, SignInTypeOK
  <1>7. ASSUME NEW q \in Posts, post[q].at = "fetching"
        PROVE  /\ post[q].began <= now /\ now <= post[q].began + FetchLife
               /\ ~(grant[TabOf(q)].key = 1 /\ 1 \notin post[q].keys)
               /\ grant[TabOf(q)].key = 2 => 2 \in post[q].keys
               /\ phase' = 3 => post[q].began <= withdrawn'
    BY <1>1, <1>7 DEF FetchedInTime
  <1>8. FetchedInTime'
    BY <1>1, <1>2, <1>6, <1>7 DEF FetchedInTime, TabOf
  <1> QED
    BY <1>3, <1>4, <1>5, <1>8

LEMMA SignInUnchanged ==
    ASSUME SignInInv, UNCHANGED signInVars, now' = now
    PROVE  SignInInv'
  BY DEF SignInInv, signInVars, SignInTypeOK, Granted, TakenOnce, Taker, ClaimUntil, FetchedInTime, TabOf

(* A fetch is given up before the clock passes its end. *)
LEMMA SignInTick ==
    ASSUME NowOK, SignInInv, UNCHANGED signInVars, now' = now + 1, FetchesInTime
    PROVE  SignInInv'
  <1> USE DEF SignInInv
  <1>0. now \in Nat /\ FetchLife \in Nat
    BY SignInAssumption, ClockAssumption DEF NowOK
  <1>1. SignInTypeOK' /\ Granted' /\ TakenOnce'
    BY DEF signInVars, SignInTypeOK, Granted, TakenOnce, Taker, ClaimUntil, TabOf
  <1>2. ASSUME NEW q \in Posts, post[q].at = "fetching"
        PROVE  post[q].began <= now + 1 /\ now + 1 <= post[q].began + FetchLife
    <2>1. post[q].began \in Nat /\ post[q].began <= now /\ now < post[q].began + FetchLife
      BY <1>2 DEF SignInTypeOK, PostRecord, FetchedInTime, FetchesInTime
    <2> QED
      BY <1>0, <2>1
  <1>3. (phase = 3 => withdrawn <= now + 1) /\ cache.at <= now + 1
    BY <1>0 DEF FetchedInTime, SignInTypeOK
  <1>4. FetchedInTime'
    BY <1>2, <1>3 DEF FetchedInTime, signInVars, TabOf
  <1> QED
    BY <1>1, <1>4

LEMMA SignInKeeps ==
    ASSUME NowOK, SignInInv, SignInStep, now' = now
    PROVE  SignInInv'
  <1>1. CASE Rotate
    BY <1>1, RotateKeeps
  <1>2. ASSUME NEW t \in Tabs, Login(t) \/ SignOn(t)
        PROVE  SignInInv'
    BY <1>2, LoginKeeps, SignOnKeeps
  <1>3. ASSUME NEW p \in Posts,
               \/ Callback(p) \/ Exchange(p) \/ StoreFetch(p) \/ Fail(p)
               \/ InspectShape(p) \/ VerifyXML(p) \/ Claim(p) \/ Answer(p)
        PROVE  SignInInv'
    BY <1>3, OnlyMovesKeeps, ExchangeKeeps, StoreFetchKeeps, ClaimKeeps DEF OnlyMoves
  <1> QED
    BY <1>1, <1>2, <1>3 DEF SignInStep

LEMMA SignInInvariant == Spec => [](NowOK /\ SignInInv)
  <1>1. Init => NowOK /\ SignInInv
    BY InitNow, SignInInitial
  <1>2. NowOK /\ SignInInv /\ [Next]_vars => (NowOK /\ SignInInv)'
    <2> SUFFICES ASSUME NowOK, SignInInv, [Next]_vars
                 PROVE  NowOK' /\ SignInInv'
      OBVIOUS
    <2>1. NowOK'
      BY NowStep
    <2>2. \/ UNCHANGED signInVars /\ now' = now + 1 /\ FetchesInTime
          \/ UNCHANGED signInVars /\ now' = now
          \/ SignInStep /\ now' = now
      BY DEF Next, vars, Tick, Advance
    <2> QED
      BY <2>1, <2>2, SignInTick, SignInUnchanged, SignInKeeps
  <1> QED
    BY <1>1, <1>2, PTL DEF Spec

(* A sign-in opens one session, however its callbacks meet.                *)
LEMMA SignedInOnceAlways == Spec => []SignedInOnce
  <1>1. SignInInv => SignedInOnce
    BY DEF SignInInv, TakenOnce, Taker, SignedInOnce
  <1> QED
    BY <1>1, SignInInvariant, PTL

(* What a verification may say of a token of the provider.                 *)
Trusted(p) ==
    LET key == grant[TabOf(p)].key IN
    /\ post'[p].verdict = "nokey" => key \notin Published
    /\ post'[p].verdict = "in" /\ mode = "oidc" /\ key \notin Published =>
         now < withdrawn + CacheLife + FetchLife

LEMMA VerdictOfKeys ==
    ASSUME NowOK, SignInInv, NEW p \in Posts, NEW keys, Verified(p, keys),
           grant[TabOf(p)].key # 0, post[p].verdict = None,
           grant[TabOf(p)].key \notin keys /\ post[p].forced => grant[TabOf(p)].key \notin Published,
           phase = 3 /\ 1 \in keys => now < withdrawn + CacheLife + FetchLife
    PROVE  Trusted(p)
  <1> DEFINE key == grant[TabOf(p)].key
  <1>1. key \in {1, 2} /\ phase \in 0..3 /\ (key = 2 => phase >= 2)
    BY TabOfTab DEF SignInInv, SignInTypeOK, Granted
  <1>2. key \notin Published => key = 1 /\ phase = 3
    BY <1>1 DEF Published
  <1>3. CASE Ends(p, "refused")
    BY <1>3, EndsFacts DEF SignInInv, Trusted
  <1>4. CASE key \in keys /\ Ends(p, "in")
    BY <1>2, <1>4, EndsFacts DEF SignInInv, Trusted
  <1>5. CASE key \notin keys /\ post[p].forced /\ Ends(p, "nokey")
    BY <1>5, EndsFacts DEF SignInInv, Trusted
  <1>6. CASE StartFetch(p, TRUE)
    BY <1>6, StartFetchFacts DEF SignInInv, Trusted, None
  <1> QED
    BY <1>3, <1>4, <1>5, <1>6 DEF Verified

LEMMA SignInTrusts ==
    ASSUME NowOK, SignInInv, SignInStep, NEW p \in Posts,
           post'[p].verdict # post[p].verdict
    PROVE  Trusted(p)
  <1> USE DEF SignInInv
  <1>0. /\ now \in Nat /\ FetchLife \in Nat /\ CacheLife \in Nat \ {0} /\ withdrawn \in Nat
    BY ClockAssumption, SignInAssumption DEF NowOK, SignInTypeOK
  <1>1. CASE Rotate \/ \E t \in Tabs : Login(t) \/ SignOn(t)
    BY <1>1 DEF Rotate, Login, SignOn
  <1>2. ASSUME NEW q \in Posts,
               \/ Callback(q) \/ Exchange(q) \/ StoreFetch(q) \/ Fail(q)
               \/ InspectShape(q) \/ VerifyXML(q) \/ Claim(q) \/ Answer(q)
        PROVE  Trusted(p)
    <2>1. CASE OnlyMoves(q)
      <3>1. \/ Ends(q, "refused")
            \/ \E place \in {"read", "inspected", "verified", "done"} : Moves(q, place)
        BY <2>1 DEF OnlyMoves, Callback, Fail, InspectShape, VerifyXML, Answer
      <3>2. post'[p].verdict = "refused"
        BY <3>1, EndsFacts, MovesFacts
      <3> QED
        BY <3>2 DEF Trusted
    <2>2. CASE Claim(q)
      <3>1. mode = "saml" /\ (Ends(q, "in") \/ Ends(q, "refused"))
        BY <2>2 DEF Claim, Granted
      <3>2. post'[p].verdict \in {"in", "refused"}
        BY <3>1, EndsFacts
      <3> QED
        BY <3>1, <3>2 DEF Trusted
    <2>3. CASE Exchange(q)
      <3>1. grant[TabOf(q)].key # 0 /\ post[q].verdict = None /\ ~post[q].forced
        BY <2>3 DEF Exchange, Granted
      <3>2. \/ Ends(q, "refused") \/ StartFetch(q, FALSE)
            \/ Cached /\ Verified(q, cache.keys)
        BY <2>3, VerifyFacts DEF Exchange, GetJWKS
      <3>3. CASE Ends(q, "refused") \/ StartFetch(q, FALSE)
        BY <3>3, EndsFacts, StartFetchFacts DEF Trusted
      <3>4. CASE Cached /\ Verified(q, cache.keys)
        <4>1. phase = 3 /\ 1 \in cache.keys => now < withdrawn + CacheLife + FetchLife
          <5>1. /\ cache.at \in Nat /\ cache.at <= now /\ now - cache.at < CacheLife
                /\ phase = 3 /\ 1 \in cache.keys => cache.at <= withdrawn + FetchLife
            BY <3>4 DEF Cached, FetchedInTime, SignInTypeOK
          <5> QED
            BY <1>0, <5>1
        <4>2. Trusted(q)
          BY <3>1, <3>4, <4>1, VerdictOfKeys
        <4>3. p = q
          BY <3>4, VerifiedFacts
        <4> QED
          BY <4>2, <4>3
      <3> QED
        BY <3>2, <3>3, <3>4
    <2>4. CASE StoreFetch(q)
      <3>1. /\ grant[TabOf(q)].key \in {1, 2} /\ post[q].verdict = None
            /\ post[q].at = "fetching" /\ Verified(q, post[q].keys)
            /\ post[q].began \in Nat
        BY <2>4, TabOfTab, VerifyFacts DEF StoreFetch, Granted, SignInTypeOK, PostRecord
      <3>2. /\ now <= post[q].began + FetchLife
            /\ grant[TabOf(q)].key \notin post[q].keys => phase = 3 /\ grant[TabOf(q)].key = 1
            /\ phase = 3 /\ 1 \in post[q].keys => post[q].began <= withdrawn
        BY <3>1 DEF FetchedInTime
      <3>3. phase = 3 /\ 1 \in post[q].keys => now < withdrawn + CacheLife + FetchLife
        BY <1>0, <3>1, <3>2
      <3>4. Trusted(q)
        BY <3>1, <3>2, <3>3, VerdictOfKeys DEF Published
      <3>5. p = q
        BY <3>1, VerifiedFacts
      <3> QED
        BY <3>4, <3>5
    <2> QED
      BY <1>2, <2>1, <2>2, <2>3, <2>4 DEF OnlyMoves
  <1> QED
    BY <1>1, <1>2 DEF SignInStep

(* A token is refused for an unknown key only if the provider has          *)
(* withdrawn that key, and a withdrawn key is trusted for less than the    *)
(* cache's life and one fetch (getJWKS and verifyIDToken).                 *)
THEOREM KeysAreTrustedInTime == Spec => KeysTrustedInTime
  <1>1. NowOK /\ SignInInv /\ [Next]_vars =>
          [\A p \in Posts : post'[p].verdict # post[p].verdict => Trusted(p)]_signInVars
    <2>1. [Next]_vars => SignInStep \/ UNCHANGED signInVars
      BY DEF Next, vars, Tick
    <2> QED
      BY <2>1, SignInTrusts
  <1>2. Spec => [][\A p \in Posts : post'[p].verdict # post[p].verdict => Trusted(p)]_signInVars
    BY <1>1, SignInInvariant, PTL DEF Spec
  <1> QED
    BY <1>2 DEF KeysTrustedInTime, Trusted

-----------------------------------------------------------------------------
(* Credentials *)

LEMMA OfferFacts ==
    /\ <<"key">> \in OfferSeqs /\ Head(<<"key">>) = "key" /\ Tail(<<"key">>) = <<>>
    /\ Head(<<"cookie">>) = "cookie" /\ Tail(<<"cookie">>) = <<>>
    /\ Head(<<"sso">>) = "sso" /\ Tail(<<"sso">>) = <<>>
    /\ Head(<<"key", "cookie">>) = "key" /\ Tail(<<"key", "cookie">>) = <<"cookie">>
    /\ Head(<<"oauth", "sso">>) = "oauth" /\ Tail(<<"oauth", "sso">>) = <<"sso">>
  BY DEF OfferSeqs

LEMMA OffersDistinct ==
    /\ <<"key">> # <<"cookie">> /\ <<"key">> # <<"sso">> /\ <<"cookie">> # <<"sso">>
    /\ <<"key">> # <<"oauth", "sso">> /\ <<"cookie">> # <<"oauth", "sso">> /\ <<"sso">> # <<"oauth", "sso">>
    /\ <<"key">> # <<"key", "cookie">> /\ <<"cookie">> # <<"key", "cookie">> /\ <<"sso">> # <<"key", "cookie">>
    /\ <<"key", "cookie">> # <<"oauth", "sso">>
    /\ <<"key">> # <<>> /\ <<"oauth", "sso">> # <<>>
    /\ <<"sso">> # <<>> /\ <<"cookie">> # <<>> /\ <<"key", "cookie">> # <<>>
  <1>1. Len(<<"oauth", "sso">>) = 2 /\ Len(<<"key", "cookie">>) = 2
    OBVIOUS
  <1>2. Len(<<"key">>) = 1 /\ Len(<<"cookie">>) = 1 /\ Len(<<"sso">>) = 1 /\ Len(<<>>) = 0
    OBVIOUS
  <1>3. Head(<<"key", "cookie">>) # Head(<<"oauth", "sso">>)
    OBVIOUS
  <1>4. /\ Head(<<"key">>) # Head(<<"cookie">>)
        /\ Head(<<"key">>) # Head(<<"sso">>) /\ Head(<<"cookie">>) # Head(<<"sso">>)
    OBVIOUS
  <1> QED
    BY <1>1, <1>2, <1>3, <1>4, Zenon

LEMMA TailOffers ==
    ASSUME NEW o \in OfferSeqs \ {<<>>}
    PROVE  Tail(o) \in OfferSeqs /\ Tail(o) # <<"oauth", "sso">>
  BY OfferFacts, OffersDistinct DEF OfferSeqs

LEMMA LookupFacts ==
    /\ Head(<<"active key">>) = "active key" /\ Tail(<<"active key">>) = <<>>
    /\ Head(<<"tenant", "key">>) = "tenant" /\ Tail(<<"tenant", "key">>) = <<"key">>
    /\ Head(<<"key">>) = "key" /\ Tail(<<"key">>) = <<>>
    /\ Head(<<"revocation", "client", "tenant">>) = "revocation"
    /\ Tail(<<"revocation", "client", "tenant">>) = <<"client", "tenant">>
    /\ Head(<<"client", "tenant">>) = "client" /\ Tail(<<"client", "tenant">>) = <<"tenant">>
    /\ Head(<<"tenant">>) = "tenant" /\ Tail(<<"tenant">>) = <<>>
  OBVIOUS

LEMMA RangeFacts ==
    /\ Range(<<"key">>) = {"key"} /\ Range(<<"cookie">>) = {"cookie"}
    /\ Range(<<"key", "cookie">>) = {"key", "cookie"} /\ Range(<<"oauth", "sso">>) = {"oauth", "sso"}
  BY DEF Range

LEMMA LookupsLonger ==
    <<"key">> # <<>> /\ <<"client", "tenant">> # <<>> /\ <<"tenant">> # <<>>
  <1>1. Len(<<"key">>) = 1 /\ Len(<<"tenant">>) = 1 /\ Len(<<"client", "tenant">>) = 2 /\ Len(<<>>) = 0
    OBVIOUS
  <1> QED
    BY <1>1, Zenon

LEMMA CastingFacts ==
    ASSUME CredentialsTypeOK
    PROVE  /\ \A r \in Requests : Kind(r) \in Kinds
           /\ \A q, r \in Requests : Kind(q) = "authorize" /\ Kind(r) = "authorize" => q = r
           /\ \A q, r \in Requests : Kind(q) = "register" /\ Kind(r) = "register" => q = r
  BY CastingsAssumption DEF CredentialsTypeOK, Alone, Kind

LEMMA CredentialsInitial == Init => CredentialsInv
  <1> SUFFICES ASSUME Init PROVE CredentialsInv
    OBVIOUS
  <1>0. now = 0 /\ Never \in Nat /\ CodeLife \in Nat
    BY ClockAssumption, CredentialsAssumption DEF Init, Never
  <1>1. /\ casting \in Castings /\ tenantOn = TRUE /\ keyOn = TRUE
        /\ clientOn = (\A r \in Requests : Kind(r) # "register")
        /\ cookie = casting.cookie /\ code = 0 /\ redeemed = Never
        /\ token = [r \in Requests |-> 0] /\ revoked = {} /\ gone = {}
        /\ request = [r \in Requests |->
              IF Kind(r) = "mcp" THEN [NewRequest EXCEPT !.at = "accepted"] ELSE NewRequest]
    BY DEF Init, CredentialsInit, Kind
  <1>2. /\ NewRequest \in RequestRecord /\ NewRequest.at = "idle"
        /\ NewRequest.offers = <<>> /\ NewRequest.barred = {} /\ NewRequest.tenantBarred = FALSE
    BY DEF NewRequest, RequestRecord, OfferSeqs, LookupSeqs
  <1>3. \A r \in Requests :
          /\ request[r] \in RequestRecord
          /\ request[r].at = IF Kind(r) = "mcp" THEN "accepted" ELSE "idle"
          /\ request[r].offers = <<>> /\ request[r].barred = {} /\ request[r].tenantBarred = FALSE
    <2> SUFFICES ASSUME NEW r \in Requests
                 PROVE  /\ request[r] \in RequestRecord
                        /\ request[r].at = IF Kind(r) = "mcp" THEN "accepted" ELSE "idle"
                        /\ request[r].offers = <<>> /\ request[r].barred = {}
                        /\ request[r].tenantBarred = FALSE
      OBVIOUS
    <2>1. CASE Kind(r) = "mcp"
      <3>1. request[r] = [NewRequest EXCEPT !.at = "accepted"]
        BY <1>1, <2>1
      <3> QED
        BY <1>2, <2>1, <3>1 DEF RequestRecord
    <2>2. CASE Kind(r) # "mcp"
      BY <1>1, <1>2, <2>2
    <2> QED
      BY <2>1, <2>2
  <1>4. CredentialsTypeOK
    <2>1. cookie \in Nat /\ clientOn \in BOOLEAN
      BY <1>1, CastingsAssumption
    <2>2. request \in [Requests -> RequestRecord]
      BY <1>1, <1>3
    <2>3. token \in [Requests -> Nat] /\ redeemed \in Nat /\ code \in Nat
      BY <1>0, <1>1
    <2> QED
      BY <1>1, <2>1, <2>2, <2>3 DEF CredentialsTypeOK
  <1>5. InOrder
    <2>1. \A r \in Requests : Kind(r) = "authorize" => At(r, "idle")
      BY <1>3 DEF At
    <2>2. \A r \in Requests : ~At(r, "redeem") /\ token[r] = 0
      BY <1>1, <1>3 DEF At
    <2>3. code = 0 /\ code <= now + CodeLife
      BY <1>0, <1>1
    <2> QED
      BY <1>1, <2>1, <2>2, <2>3 DEF InOrder
  <1>6. Remembered
    BY <1>1 DEF Remembered
  <1>7. TakenBack
    <2>1. \A r \in Requests : Barred(request[r]) /\ Looking(request[r])
      BY <1>3, OffersDistinct DEF Barred, Looking
    <2> QED
      BY <1>1, <2>1 DEF TakenBack
  <1> QED
    BY <1>4, <1>5, <1>6, <1>7 DEF CredentialsInv

(* A request goes on and the store stays.                                  *)
Quiet(r) ==
    /\ now' = now /\ casting' = casting /\ UNCHANGED storeVars
    /\ request' \in [Requests -> RequestRecord]
    /\ \A q \in Requests \ {r} : request'[q] = request[q]

LEMMA QuietKeeps ==
    ASSUME NowOK, CredentialsInv, NEW r \in Requests, Quiet(r),
           ~At(r, "done"), ~At(r, "done")',
           At(r, "idle") /\ ~At(r, "idle")' /\ Kind(r) = "authorize" => clientOn,
           At(r, "redeem")' =>
               /\ Kind(r) = "exchange" /\ At(r, "idle")
               /\ code > 0 /\ now <= code /\ request'[r].began = now,
           Barred(request'[r]), Looking(request'[r])
    PROVE  CredentialsInv'
  <1> USE DEF CredentialsInv
  <1>0. /\ now' = now /\ casting' = casting /\ request' \in [Requests -> RequestRecord]
        /\ tenantOn' = tenantOn /\ keyOn' = keyOn /\ clientOn' = clientOn /\ cookie' = cookie
        /\ code' = code /\ redeemed' = redeemed /\ token' = token /\ revoked' = revoked /\ gone' = gone
        /\ \A q \in Requests \ {r} : request'[q] = request[q]
    BY DEF Quiet, storeVars
  <1>1. CredentialsTypeOK'
    BY <1>0 DEF CredentialsTypeOK
  <1>2. \A q \in Requests : At(q, "done")' <=> At(q, "done")
    BY <1>0 DEF At
  <1>3. \A q \in Requests : Kind(q)' = Kind(q)
    BY <1>0 DEF Kind
  <1>4. InOrder'
    <2>1. ASSUME NEW s \in Requests, Kind(s) = "register", ~At(s, "done")
          PROVE  ~clientOn /\ code = 0 /\ \A q \in Requests : Kind(q) = "authorize" => At(q, "idle")'
      BY <1>0, <2>1 DEF InOrder, At
    <2>2. ASSUME NEW q \in Requests, At(q, "redeem")'
          PROVE  /\ Kind(q) = "exchange" /\ token[q] = 0 /\ code # 0
                 /\ request'[q].began <= code /\ now <= request'[q].began + 1
      <3>1. CASE q = r
        <4>1. Kind(r) = "exchange" /\ code > 0 /\ token[r] = 0
          BY <2>2, <3>1 DEF InOrder, CredentialsTypeOK, At
        <4>2. now \in Nat
          BY ClockAssumption DEF NowOK
        <4> QED
          BY <2>2, <3>1, <4>1, <4>2 DEF CredentialsTypeOK
      <3>2. CASE q # r
        BY <1>0, <2>2, <3>2 DEF InOrder, At
      <3> QED
        BY <3>1, <3>2
    <2> QED
      BY <1>0, <1>2, <1>3, <2>1, <2>2 DEF InOrder, At
  <1>5. Remembered'
    BY <1>0 DEF Remembered
  <1>6. TakenBack'
    <2>1. ASSUME NEW q \in Requests
          PROVE  Barred(request'[q]) /\ Looking(request'[q])
      BY <1>0 DEF TakenBack
    <2>2. \A q \in Requests : Barred(request[q])' /\ Looking(request[q])'
      BY <1>0, <2>1 DEF Barred, Looking, Late
    <2> QED
      BY <1>0, <2>2 DEF TakenBack, Late
  <1> QED
    BY <1>1, <1>4, <1>5, <1>6

LEMMA RequestFacts ==
    ASSUME CredentialsTypeOK, NEW r \in Requests, NEW w \in RequestRecord,
           request' = [request EXCEPT ![r] = w], now' = now, casting' = casting, UNCHANGED storeVars
    PROVE  request'[r] = w /\ Quiet(r)
  BY DEF Quiet, CredentialsTypeOK

LEMMA OffersOf ==
    ASSUME NEW kind
    PROVE  /\ Offers(kind) \in OfferSeqs
           /\ Range(Offers(kind)) \subseteq {"key", "cookie", "oauth", "sso"}
           /\ Offers(kind) = <<"oauth", "sso">> => kind = "oauth"
           /\ "oauth" \in Range(Offers(kind)) => kind = "oauth"
  <1>1. Range(<<>>) = {}
    BY DEF Range
  <1> QED
    BY <1>1, RangeFacts, OffersDistinct DEF Offers, OfferSeqs

LEMMA ArriveKeeps ==
    ASSUME NowOK, CredentialsInv, now' = now, NEW r \in Requests, Arrive(r)
    PROVE  CredentialsInv'
  <1> USE DEF CredentialsInv
  <1>1. PICK t \in IF Kind(r) = "oauth" THEN {q \in Requests : token[q] > 0} ELSE {None} :
          request' = [request EXCEPT ![r] = Entering(r, t)]
    BY DEF Arrive
  <1> DEFINE w == Entering(r, t)
  <1>0. request[r] \in RequestRecord /\ now \in Nat
    BY ClockAssumption DEF CredentialsTypeOK, NowOK
  <1>2. {c \in Range(Offers(Kind(r))) : Ended(c, t)} \subseteq {"key", "cookie", "oauth", "sso"}
    BY OffersOf
  <1>3. /\ w.at = "open" /\ w.offers = Offers(Kind(r)) /\ w.token = t
        /\ w.barred = {c \in Range(Offers(Kind(r))) : Ended(c, t)}
        /\ w.tenantBarred = ~tenantOn
    BY <1>0 DEF Entering, RequestRecord
  <1>4. t \in Requests \cup {None} /\ (Kind(r) = "oauth" => t \in Requests /\ token[t] > 0)
    BY <1>1
  <1>5. w \in RequestRecord
    BY <1>0, <1>2, <1>4, OffersOf DEF Entering, RequestRecord, CredentialsTypeOK
  <1> HIDE DEF w
  <1>6. request'[r] = w /\ Quiet(r)
    BY <1>1, <1>5, RequestFacts DEF w, Arrive
  <1>7. Barred(w)
    <2>1. "sso" \notin w.barred
      BY <1>3 DEF Ended
    <2>2. "key" \in w.barred \/ "cookie" \in w.barred => ~keyOn
      BY <1>3 DEF Ended
    <2>3. "oauth" \in w.barred => Kind(r) = "oauth" /\ (t \in gone \/ ~clientOn)
      BY <1>3, OffersOf DEF Ended
    <2>4. w.offers = <<"oauth", "sso">> => Kind(r) = "oauth"
      BY <1>3, OffersOf
    <2> QED
      BY <1>3, <1>4, <2>1, <2>2, <2>3, <2>4 DEF Barred
  <1>8. Looking(w)
    BY <1>3 DEF Looking
  <1>9. At(r, "idle") /\ (Kind(r) = "authorize" => clientOn)
    BY DEF Arrive
  <1> QED
    BY <1>3, <1>6, <1>7, <1>8, <1>9, QuietKeeps DEF At

LEMMA OpenKeeps ==
    ASSUME NowOK, CredentialsInv, now' = now, NEW r \in Requests, Open(r)
    PROVE  CredentialsInv'
  <1> DEFINE o == request[r].offers
             place == IF o = <<>> THEN "denied" ELSE IF Alive(r, Head(o)) THEN "look" ELSE "open"
             first == IF place = "look" THEN Lookups(Head(o)) ELSE request[r].lookups
             rest == IF place = "open" THEN Tail(o) ELSE o
             w == [request[r] EXCEPT !.at = place, !.offers = rest, !.lookups = first]
  <1> USE DEF CredentialsInv
  <1>0. request[r] \in RequestRecord /\ request[r].at = "open" /\ o \in OfferSeqs
    BY DEF Open, At, CredentialsTypeOK, RequestRecord
  <1>1. request' = [request EXCEPT ![r] = w]
    <2>1. CASE o = <<>>
      <3>1. [request[r] EXCEPT !.at = "denied"] = w
        BY <1>0, <2>1 DEF RequestRecord
      <3> QED
        BY <2>1, <3>1 DEF Open, Becomes
    <2>2. CASE o # <<>> /\ Alive(r, Head(o))
      <3>1. [request[r] EXCEPT !.at = "look", !.lookups = Lookups(Head(o))] = w
        BY <1>0, <2>2 DEF RequestRecord
      <3> QED
        BY <2>2, <3>1 DEF Open
    <2>3. CASE o # <<>> /\ ~Alive(r, Head(o))
      <3>1. [request[r] EXCEPT !.offers = Tail(o)] = w
        BY <1>0, <2>3 DEF RequestRecord
      <3> QED
        BY <2>3, <3>1 DEF Open
    <2> QED
      BY <2>1, <2>2, <2>3
  <1>2. /\ w.at = place /\ w.offers = rest /\ w.lookups = first /\ w.token = request[r].token
        /\ w.barred = request[r].barred /\ w.tenantBarred = request[r].tenantBarred
    BY <1>0 DEF RequestRecord
  <1>3. rest \in OfferSeqs /\ (rest = <<"oauth", "sso">> => o = <<"oauth", "sso">>)
    BY <1>0, TailOffers
  <1>4. place = "look" =>
          \/ o \in {<<"key">>, <<"key", "cookie">>} /\ first = <<"active key">>
          \/ o = <<"cookie">> /\ first = <<"tenant", "key">>
          \/ o = <<"oauth", "sso">> /\ first = <<"revocation", "client", "tenant">>
          \/ o = <<"sso">> /\ first = <<"tenant">>
    BY <1>0, OfferFacts DEF OfferSeqs, Lookups
  <1>5. first \in LookupSeqs
    BY <1>0, <1>4 DEF LookupSeqs, RequestRecord
  <1>6. w \in RequestRecord
    BY <1>0, <1>3, <1>5 DEF RequestRecord
  <1>7. place \in {"denied", "look", "open"} /\ (place # "open" => rest = o)
    OBVIOUS
  <1> HIDE DEF w, place, first, rest
  <1>8. request'[r] = w /\ Quiet(r)
    BY <1>1, <1>6, RequestFacts DEF Open
  <1>9. Barred(request[r])
    BY DEF TakenBack
  <1>10. Barred(w)
    BY <1>2, <1>3, <1>9 DEF Barred
  <1>11. Looking(w)
    BY <1>2, <1>4, <1>7 DEF Looking
  <1> QED
    BY <1>0, <1>2, <1>7, <1>8, <1>10, <1>11, QuietKeeps DEF At

(* A lookup that passes, by the credential and how far it is looked up.    *)
LEMMA PassedFacts ==
    ASSUME CredentialsInv, NEW r \in Requests, At(r, "look"), Passes(r, Head(request[r].lookups))
    PROVE  LET q == request[r] IN
           \/ /\ Tail(q.lookups) = <<>> /\ Head(q.offers) \in {"key", "cookie"}
              /\ keyOn /\ ~q.tenantBarred
           \/ /\ Tail(q.lookups) = <<>> /\ Head(q.offers) = "oauth" /\ q.offers = <<"oauth", "sso">>
              /\ ~q.tenantBarred /\ ("oauth" \in q.barred => Late(q.token))
           \/ /\ Tail(q.lookups) = <<>> /\ Head(q.offers) = "sso" /\ ~q.tenantBarred
           \/ q.offers = <<"cookie">> /\ Tail(q.lookups) = <<"key">> /\ ~q.tenantBarred
           \/ /\ q.offers = <<"oauth", "sso">> /\ Tail(q.lookups) = <<"client", "tenant">>
              /\ "oauth" \in q.barred => Late(q.token) \/ ~clientOn
           \/ /\ q.offers = <<"oauth", "sso">> /\ Tail(q.lookups) = <<"tenant">>
              /\ "oauth" \in q.barred => Late(q.token)
  <1> DEFINE q == request[r]
  <1> USE DEF CredentialsInv
  <1>0. Looking(q) /\ Barred(q) /\ q.at = "look"
    BY DEF TakenBack, At
  <1>1. CASE q.offers \in {<<"key">>, <<"key", "cookie">>} /\ q.lookups = <<"active key">>
    BY <1>0, <1>1, OfferFacts, LookupFacts DEF Passes, Barred
  <1>2. CASE q.offers = <<"cookie">> /\ q.lookups = <<"tenant", "key">>
    BY <1>0, <1>2, OfferFacts, LookupFacts DEF Passes, Barred
  <1>3. CASE q.offers = <<"cookie">> /\ q.lookups = <<"key">> /\ ~q.tenantBarred
    BY <1>3, OfferFacts, LookupFacts DEF Passes
  <1>4. CASE q.offers = <<"oauth", "sso">> /\ q.lookups = <<"revocation", "client", "tenant">>
    <2>1. q.token \notin revoked
      BY <1>4, LookupFacts DEF Passes
    <2>2. "oauth" \in q.barred => Late(q.token) \/ ~clientOn
      BY <1>0, <2>1 DEF Barred, TakenBack
    <2> QED
      BY <1>4, <2>2, LookupFacts
  <1>5. CASE /\ q.offers = <<"oauth", "sso">> /\ q.lookups = <<"client", "tenant">>
             /\ "oauth" \in q.barred => Late(q.token) \/ ~clientOn
    BY <1>5, LookupFacts DEF Passes
  <1>6. CASE /\ q.offers = <<"oauth", "sso">> /\ q.lookups = <<"tenant">>
             /\ "oauth" \in q.barred => Late(q.token)
    BY <1>0, <1>6, OfferFacts, LookupFacts DEF Passes, Barred
  <1>7. CASE q.offers = <<"sso">> /\ q.lookups = <<"tenant">>
    BY <1>0, <1>7, OfferFacts, LookupFacts DEF Passes, Barred
  <1> QED
    BY <1>0, <1>1, <1>2, <1>3, <1>4, <1>5, <1>6, <1>7 DEF Looking

LEMMA LookKeeps ==
    ASSUME NowOK, CredentialsInv, now' = now, NEW r \in Requests, Look(r)
    PROVE  CredentialsInv'
  <1> DEFINE q == request[r]
             rest == Tail(q.lookups)
             passed == [q EXCEPT !.at = IF rest = <<>> THEN "accepted" ELSE "look", !.lookups = rest]
             failing == [q EXCEPT !.at = "open", !.offers = Tail(q.offers), !.lookups = <<>>]
  <1> USE DEF CredentialsInv
  <1>0. q \in RequestRecord /\ q.at = "look" /\ Barred(q) /\ Looking(q)
    BY DEF Look, At, CredentialsTypeOK, TakenBack
  <1>1. casting' = casting /\ UNCHANGED storeVars
    BY DEF Look
  <1>2. CASE Passes(r, Head(q.lookups)) /\ request' = [request EXCEPT ![r] = passed]
    <2>1. /\ passed.at = IF rest = <<>> THEN "accepted" ELSE "look"
          /\ passed.offers = q.offers /\ passed.lookups = rest /\ passed.token = q.token
          /\ passed.barred = q.barred /\ passed.tenantBarred = q.tenantBarred
      BY <1>0 DEF RequestRecord
    <2>2. \/ rest = <<>>
          \/ q.offers = <<"cookie">> /\ rest = <<"key">> /\ ~q.tenantBarred
          \/ /\ q.offers = <<"oauth", "sso">> /\ rest = <<"client", "tenant">>
             /\ "oauth" \in q.barred => Late(q.token) \/ ~clientOn
          \/ /\ q.offers = <<"oauth", "sso">> /\ rest = <<"tenant">>
             /\ "oauth" \in q.barred => Late(q.token)
      BY <1>0, <1>2, PassedFacts DEF At
    <2>3. passed \in RequestRecord
      BY <1>0, <2>2 DEF RequestRecord, LookupSeqs
    <2> HIDE DEF passed, rest
    <2>4. request'[r] = passed /\ Quiet(r)
      BY <1>1, <1>2, <2>3, RequestFacts DEF Look
    <2>5. Barred(passed)
      BY <1>0, <2>1 DEF Barred
    <2>6. Looking(passed)
      BY <2>1, <2>2, LookupsLonger DEF Looking
    <2> QED
      BY <1>0, <2>1, <2>4, <2>5, <2>6, QuietKeeps DEF At
  <1>3. CASE request' = [request EXCEPT ![r] = failing]
    <2>1. q.offers \in OfferSeqs \ {<<>>}
      BY <1>0, OffersDistinct DEF Looking, RequestRecord
    <2>2. Tail(q.offers) \in OfferSeqs /\ Tail(q.offers) # <<"oauth", "sso">>
      BY <2>1, TailOffers
    <2>3. /\ failing.at = "open" /\ failing.offers = Tail(q.offers) /\ failing.token = q.token
          /\ failing.barred = q.barred /\ failing.tenantBarred = q.tenantBarred
      BY <1>0 DEF RequestRecord
    <2>4. failing \in RequestRecord
      BY <1>0, <2>2 DEF RequestRecord, LookupSeqs
    <2> HIDE DEF failing
    <2>5. request'[r] = failing /\ Quiet(r)
      BY <1>1, <1>3, <2>4, RequestFacts DEF Look
    <2>6. Barred(failing)
      BY <1>0, <2>2, <2>3 DEF Barred
    <2>7. Looking(failing)
      BY <2>3 DEF Looking
    <2> QED
      BY <1>0, <2>3, <2>5, <2>6, <2>7, QuietKeeps DEF At
  <1> QED
    BY <1>2, <1>3 DEF Look

LEMMA BeginExchangeKeeps ==
    ASSUME NowOK, CredentialsInv, now' = now, NEW r \in Requests, BeginExchange(r)
    PROVE  CredentialsInv'
  <1> DEFINE good == now <= code /\ clientOn
             w == [request[r] EXCEPT !.at = IF good THEN "redeem" ELSE "refused",
                                     !.began = IF good THEN now ELSE request[r].began]
  <1> USE DEF CredentialsInv
  <1>0. request[r] \in RequestRecord /\ now \in Nat /\ Barred(request[r])
    BY ClockAssumption DEF CredentialsTypeOK, NowOK, TakenBack
  <1>1. request' = [request EXCEPT ![r] = w]
    <2>1. CASE good
      BY <2>1 DEF BeginExchange
    <2>2. CASE ~good
      <3>1. [request[r] EXCEPT !.at = "refused"] = w
        BY <1>0, <2>2 DEF RequestRecord
      <3> QED
        BY <2>2, <3>1 DEF BeginExchange, Becomes
    <2> QED
      BY <2>1, <2>2
  <1>2. /\ w.at = IF good THEN "redeem" ELSE "refused"
        /\ good => w.began = now
        /\ w.offers = request[r].offers /\ w.token = request[r].token
        /\ w.barred = request[r].barred /\ w.tenantBarred = request[r].tenantBarred
    BY <1>0 DEF RequestRecord
  <1>3. w \in RequestRecord
    BY <1>0 DEF RequestRecord
  <1> HIDE DEF w
  <1>4. request'[r] = w /\ Quiet(r)
    BY <1>1, <1>3, RequestFacts DEF BeginExchange
  <1>5. Barred(w)
    BY <1>0, <1>2 DEF Barred
  <1>6. Looking(w)
    BY <1>2 DEF Looking
  <1>7. At(r, "idle") /\ Kind(r) = "exchange" /\ code > 0
    BY DEF BeginExchange
  <1> QED
    BY <1>2, <1>4, <1>5, <1>6, <1>7, QuietKeeps DEF At

LEMMA BecomesFacts ==
    ASSUME CredentialsTypeOK, NEW r \in Requests, NEW place \in {"done", "refused"}, Becomes(r, place)
    PROVE  /\ request' \in [Requests -> RequestRecord]
           /\ request'[r].at = place /\ request'[r].offers = request[r].offers
           /\ request'[r].barred = request[r].barred /\ request'[r].token = request[r].token
           /\ request'[r].tenantBarred = request[r].tenantBarred
           /\ \A q \in Requests \ {r} : request'[q] = request[q]
  <1> DEFINE w == [request[r] EXCEPT !.at = place]
  <1>0. request[r] \in RequestRecord
    BY DEF CredentialsTypeOK
  <1>1. /\ w \in RequestRecord /\ w.at = place /\ w.offers = request[r].offers
        /\ w.barred = request[r].barred /\ w.token = request[r].token
        /\ w.tenantBarred = request[r].tenantBarred
    BY <1>0 DEF RequestRecord
  <1>2. request' = [request EXCEPT ![r] = w]
    BY DEF Becomes
  <1> HIDE DEF w
  <1>3. request'[r] = w /\ \A q \in Requests \ {r} : request'[q] = request[q]
    BY <1>2 DEF CredentialsTypeOK
  <1>4. request' \in [Requests -> RequestRecord]
    BY <1>1, <1>2 DEF CredentialsTypeOK
  <1> QED
    BY <1>1, <1>3, <1>4

(* A request that ends bars what it barred, and looks no more. *)
LEMMA BarredEnds ==
    ASSUME CredentialsInv, NEW r \in Requests, NEW place \in {"done", "refused"}, Becomes(r, place),
           tenantOn' = tenantOn, keyOn' = keyOn, gone \subseteq gone',
           \A t \in Requests : token[t] > 0 => token'[t] = token[t],
           clientOn' = clientOn \/ \A t \in Requests : token[t] = 0,
           now' = now
    PROVE  \A q \in Requests : Barred(request[q])' /\ Looking(request[q])'
  <1> SUFFICES ASSUME NEW q \in Requests
               PROVE  Barred(request[q])' /\ Looking(request[q])'
    OBVIOUS
  <1> USE DEF CredentialsInv
  <1>1. /\ request'[q].offers = request[q].offers /\ request'[q].token = request[q].token
        /\ request'[q].barred = request[q].barred /\ request'[q].tenantBarred = request[q].tenantBarred
        /\ request'[q].at = "look" => request'[q] = request[q]
    BY BecomesFacts
  <1>2. Barred(request[q]) /\ Looking(request[q])
    BY DEF TakenBack
  <1>3. request[q].offers = <<"oauth", "sso">> \/ "oauth" \in request[q].barred =>
          /\ request[q].token \in Requests /\ token[request[q].token] > 0
          /\ token'[request[q].token] = token[request[q].token]
          /\ clientOn' = clientOn
    <2>1. token \in [Requests -> Nat]
      BY DEF CredentialsTypeOK
    <2> QED
      BY <1>2, <2>1 DEF Barred
  <1>4. Barred(request[q])'
    BY <1>1, <1>2, <1>3 DEF Barred
  <1>5. Looking(request[q])'
    BY <1>1, <1>2, <1>3 DEF Looking, Late
  <1> QED
    BY <1>4, <1>5

(* Where the other requests are when one ends. *)
LEMMA PlacesFacts ==
    ASSUME CredentialsTypeOK, NEW r \in Requests, NEW place \in {"done", "refused"}, Becomes(r, place),
           ~At(r, "done"), casting' = casting
    PROVE  /\ \A q \in Requests : Kind(q)' = Kind(q)
           /\ \A q \in Requests : At(q, "done")' <=> At(q, "done") \/ (q = r /\ place = "done")
           /\ \A q \in Requests : At(q, "idle")' <=> At(q, "idle") /\ q # r
           /\ \A q \in Requests : At(q, "redeem")' <=> At(q, "redeem") /\ q # r
           /\ \A q \in Requests \ {r} : request'[q] = request[q]
  <1>1. request'[r].at = place /\ \A q \in Requests \ {r} : request'[q] = request[q]
    BY BecomesFacts
  <1> QED
    BY <1>1 DEF At, Kind

LEMMA OrderEnds ==
    ASSUME NowOK, CredentialsInv, now' = now, casting' = casting,
           NEW r \in Requests, NEW place \in {"done", "refused"}, Becomes(r, place), ~At(r, "done"),
           Kind(r) \notin {"authorize", "register"},
           code' = code, token' = token, clientOn' = clientOn
    PROVE  InOrder'
  <1> USE DEF CredentialsInv
  <1>1. /\ \A q \in Requests : Kind(q)' = Kind(q)
        /\ \A q \in Requests : At(q, "done") => At(q, "done")'
        /\ \A q \in Requests : At(q, "done")' => At(q, "done") \/ q = r
        /\ \A q \in Requests : At(q, "idle")' <=> At(q, "idle") /\ q # r
        /\ \A q \in Requests : At(q, "redeem")' => At(q, "redeem") /\ request'[q] = request[q]
    BY PlacesFacts
  <1>2. ASSUME NEW q \in Requests, Kind(q) = "register", ~At(q, "done")'
        PROVE  /\ ~clientOn /\ code = 0
               /\ \A s \in Requests : Kind(s) = "authorize" => At(s, "idle")'
    BY <1>1, <1>2 DEF InOrder
  <1>3. ASSUME NEW q \in Requests, Kind(q) = "authorize", ~At(q, "done")'
        PROVE  code = 0
    BY <1>1, <1>3 DEF InOrder
  <1>4. ASSUME NEW q \in Requests, At(q, "redeem")'
        PROVE  /\ Kind(q) = "exchange" /\ token[q] = 0 /\ code # 0
               /\ request'[q].began <= code /\ now <= request'[q].began + 1
    BY <1>1, <1>4 DEF InOrder
  <1>5. \A q \in Requests : token[q] > 0 => Kind(q) = "exchange" /\ At(q, "done")'
    BY <1>1 DEF InOrder
  <1>6. code <= now + CodeLife /\ (code = 0 => \A q \in Requests : token[q] = 0)
    BY DEF InOrder
  <1> QED
    BY <1>1, <1>2, <1>3, <1>4, <1>5, <1>6 DEF InOrder

LEMMA SessionCookieKeeps ==
    ASSUME NowOK, CredentialsInv, now' = now, NEW r \in Requests, CreateSessionCookie(r)
    PROVE  CredentialsInv'
  <1> USE DEF CredentialsInv
  <1>1. /\ casting' = casting /\ tenantOn' = tenantOn /\ keyOn' = keyOn /\ clientOn' = clientOn
        /\ code' = code /\ redeemed' = redeemed /\ token' = token /\ revoked' = revoked /\ gone' = gone
        /\ cookie' = now + SessionLife /\ Becomes(r, "done") /\ ~At(r, "done") /\ Kind(r) = "login"
    BY DEF CreateSessionCookie, At
  <1>2. cookie' \in Nat
    BY <1>1, ClockAssumption, CredentialsAssumption DEF NowOK
  <1>3. CredentialsTypeOK'
    BY <1>1, <1>2, BecomesFacts DEF CredentialsTypeOK
  <1>4. InOrder'
    BY <1>1, OrderEnds
  <1>5. Remembered'
    BY <1>1 DEF Remembered
  <1>6. TakenBack'
    BY <1>1, BarredEnds DEF TakenBack, Late
  <1> QED
    BY <1>3, <1>4, <1>5, <1>6

LEMMA RevokeKeeps ==
    ASSUME NowOK, CredentialsInv, now' = now, NEW r \in Requests, Revoke(r)
    PROVE  CredentialsInv'
  <1> USE DEF CredentialsInv
  <1>0. PICK t \in Requests : token[t] > 0 /\ revoked' = revoked \cup {t} /\ gone' = gone \cup {t}
    BY DEF Revoke
  <1>1. /\ casting' = casting /\ tenantOn' = tenantOn /\ keyOn' = keyOn /\ clientOn' = clientOn
        /\ code' = code /\ redeemed' = redeemed /\ token' = token /\ cookie' = cookie
        /\ Becomes(r, "done") /\ ~At(r, "done") /\ Kind(r) = "revoke"
    BY DEF Revoke, At
  <1>2. CredentialsTypeOK'
    BY <1>0, <1>1, BecomesFacts DEF CredentialsTypeOK
  <1>3. InOrder'
    BY <1>1, OrderEnds
  <1>4. Remembered'
    BY <1>1 DEF Remembered
  <1>5. TakenBack'
    BY <1>0, <1>1, BarredEnds DEF TakenBack, Late
  <1> QED
    BY <1>2, <1>3, <1>4, <1>5

(* The client comes before its codes. *)
LEMMA RegisterKeeps ==
    ASSUME NowOK, CredentialsInv, now' = now, NEW r \in Requests, RegisterClient(r)
    PROVE  CredentialsInv'
  <1> USE DEF CredentialsInv
  <1>1. /\ casting' = casting /\ tenantOn' = tenantOn /\ keyOn' = keyOn /\ gone' = gone
        /\ code' = code /\ redeemed' = redeemed /\ token' = token /\ cookie' = cookie
        /\ revoked' = revoked /\ clientOn' \in {clientOn, TRUE}
        /\ Becomes(r, "done") /\ ~At(r, "done") /\ Kind(r) = "register"
    BY DEF RegisterClient, At
  <1>2. CredentialsTypeOK'
    BY <1>1, BecomesFacts DEF CredentialsTypeOK
  <1>3. code = 0 /\ \A q \in Requests : token[q] = 0 /\ ~At(q, "redeem")
    BY <1>1 DEF InOrder
  <1>4. InOrder'
    <2>1. /\ \A q \in Requests : Kind(q)' = Kind(q)
          /\ \A q \in Requests : At(q, "done")' <=> At(q, "done") \/ q = r
          /\ \A q \in Requests : At(q, "redeem")' => At(q, "redeem")
      BY <1>1, PlacesFacts
    <2>2. \A q \in Requests : Kind(q) = "register" => q = r
      BY <1>1, CastingFacts
    <2>3. 0 <= now + CodeLife
      BY ClockAssumption, CredentialsAssumption DEF NowOK
    <2> QED
      BY <1>1, <1>3, <2>1, <2>2, <2>3 DEF InOrder
  <1>5. Remembered'
    BY <1>1 DEF Remembered
  <1>6. TakenBack'
    BY <1>1, <1>3, BarredEnds DEF TakenBack, Late
  <1> QED
    BY <1>2, <1>4, <1>5, <1>6

(* There is no token of a code that is only made. *)
LEMMA AuthorizeKeeps ==
    ASSUME NowOK, CredentialsInv, now' = now, NEW r \in Requests, Authorize(r)
    PROVE  CredentialsInv'
  <1> USE DEF CredentialsInv
  <1>1. /\ casting' = casting /\ tenantOn' = tenantOn /\ keyOn' = keyOn /\ gone' = gone
        /\ clientOn' = clientOn /\ redeemed' = redeemed /\ token' = token /\ cookie' = cookie
        /\ revoked' = revoked /\ code' = now + CodeLife
        /\ Becomes(r, "done") /\ ~At(r, "done") /\ ~At(r, "idle") /\ Kind(r) = "authorize"
    BY DEF Authorize, At
  <1>2. code' \in Nat /\ code' <= now' + CodeLife
    BY <1>1, ClockAssumption, CredentialsAssumption DEF NowOK
  <1>3. CredentialsTypeOK'
    BY <1>1, <1>2, BecomesFacts DEF CredentialsTypeOK
  <1>4. code = 0 /\ \A q \in Requests : token[q] = 0 /\ ~At(q, "redeem")
    BY <1>1 DEF InOrder
  <1>5. InOrder'
    <2>1. /\ \A q \in Requests : Kind(q)' = Kind(q)
          /\ \A q \in Requests : At(q, "done")' <=> At(q, "done") \/ q = r
          /\ \A q \in Requests : At(q, "redeem")' => At(q, "redeem")
      BY <1>1, PlacesFacts
    <2>2. \A q \in Requests : Kind(q) = "authorize" => q = r
      BY <1>1, CastingFacts
    <2>3. \A q \in Requests : Kind(q) = "register" => At(q, "done")
      BY <1>1 DEF InOrder
    <2> QED
      BY <1>1, <1>2, <1>4, <2>1, <2>2, <2>3 DEF InOrder
  <1>6. Remembered'
    BY <1>1, <1>4 DEF Remembered
  <1>7. TakenBack'
    BY <1>1, BarredEnds DEF TakenBack, Late
  <1> QED
    BY <1>3, <1>5, <1>6, <1>7

(* A code that may still be redeemed has given no token, or is recorded.   *)
LEMMA RedeemKeeps ==
    ASSUME NowOK, CredentialsInv, now' = now, NEW r \in Requests, Redeem(r)
    PROVE  CredentialsInv'
  <1> USE DEF CredentialsInv
  <1>0. now \in Nat /\ now # Never /\ CodeLife \in Nat /\ AccessLife \in Nat
    BY ClockAssumption, CredentialsAssumption DEF NowOK, Never
  <1>1. /\ casting' = casting /\ tenantOn' = tenantOn /\ keyOn' = keyOn /\ gone' = gone
        /\ clientOn' = clientOn /\ code' = code /\ cookie' = cookie /\ revoked' = revoked
        /\ At(r, "redeem") /\ ~At(r, "done")
    BY DEF Redeem, At
  <1>2. /\ Kind(r) = "exchange" /\ token[r] = 0 /\ code # 0
        /\ request[r].began <= code /\ now <= request[r].began + 1
        /\ code \in Nat /\ request[r].began \in Nat
    BY <1>1 DEF InOrder, CredentialsTypeOK, RequestRecord
  <1>3. CASE Becomes(r, "refused") /\ redeemed' = redeemed /\ token' = token
    <2>1. CredentialsTypeOK'
      BY <1>1, <1>3, BecomesFacts DEF CredentialsTypeOK
    <2>2. InOrder'
      BY <1>1, <1>2, <1>3, OrderEnds
    <2>3. Remembered'
      BY <1>1, <1>3 DEF Remembered
    <2>4. TakenBack'
      BY <1>1, <1>3, BarredEnds DEF TakenBack, Late
    <2> QED
      BY <2>1, <2>2, <2>3, <2>4
  <1>4. CASE /\ redeemed = Never /\ redeemed' = now
             /\ token' = [token EXCEPT ![r] = request[r].began + AccessLife]
             /\ Becomes(r, "done")
    <2>1. \A q \in Requests : ~(token[q] > 0)
      <3>1. ~(now > code + 1)
        BY <1>0, <1>2
      <3> QED
        BY <1>4, <3>1 DEF Remembered
    <2>2. /\ token' \in [Requests -> Nat] /\ \A q \in Requests \ {r} : token'[q] = token[q]
      BY <1>0, <1>2, <1>4 DEF CredentialsTypeOK
    <2>3. CredentialsTypeOK'
      BY <1>0, <1>1, <1>4, <2>2, BecomesFacts DEF CredentialsTypeOK
    <2>4. /\ \A q \in Requests : Kind(q)' = Kind(q)
          /\ \A q \in Requests : At(q, "done") => At(q, "done")'
          /\ \A q \in Requests : At(q, "done")' => At(q, "done") \/ q = r
          /\ At(r, "done")'
          /\ \A q \in Requests : At(q, "idle")' <=> At(q, "idle") /\ q # r
          /\ \A q \in Requests : At(q, "redeem")' => At(q, "redeem") /\ request'[q] = request[q] /\ q # r
      BY <1>1, <1>4, PlacesFacts
    <2>5. InOrder'
      <3>1. ASSUME NEW q \in Requests, Kind(q) = "register", ~At(q, "done")'
            PROVE  FALSE
        BY <1>2, <2>4, <3>1 DEF InOrder
      <3>2. ASSUME NEW q \in Requests, Kind(q) = "authorize", ~At(q, "done")'
            PROVE  FALSE
        BY <1>2, <2>4, <3>2 DEF InOrder
      <3>3. ASSUME NEW q \in Requests, At(q, "redeem")'
            PROVE  /\ Kind(q) = "exchange" /\ token'[q] = 0
                   /\ request'[q].began <= code /\ now <= request'[q].began + 1
        BY <2>2, <2>4, <3>3 DEF InOrder
      <3>4. \A q \in Requests : token'[q] > 0 => Kind(q) = "exchange" /\ At(q, "done")'
        BY <1>2, <2>1, <2>2, <2>4
      <3>5. code <= now + CodeLife /\ code # 0
        BY <1>2 DEF InOrder
      <3> QED
        BY <1>1, <2>4, <3>1, <3>2, <3>3, <3>4, <3>5 DEF InOrder
    <2>6. Remembered'
      <3>1. \A q \in Requests : token'[q] > 0 => q = r
        BY <2>1, <2>2
      <3>2. redeemed' # Never /\ code' <= redeemed' + CodeLife
        BY <1>0, <1>1, <1>4 DEF InOrder
      <3>3. Never' = Never
        BY DEF Never
      <3> QED
        BY <3>1, <3>2, <3>3 DEF Remembered
    <2>7. TakenBack'
      <3>1. \A t \in Requests : token[t] > 0 => token'[t] = token[t]
        BY <2>1
      <3>2. \A q \in Requests : Barred(request[q])' /\ Looking(request[q])'
        BY <1>1, <1>4, <3>1, BarredEnds
      <3>3. \A t \in gone : FALSE
        BY <2>1 DEF TakenBack, CredentialsTypeOK
      <3> QED
        BY <1>1, <3>2, <3>3 DEF TakenBack
    <2> QED
      BY <2>3, <2>5, <2>6, <2>7
  <1> QED
    BY <1>3, <1>4 DEF Redeem

-----------------------------------------------------------------------------
(* The administrator and retention *)

(* A step that leaves the requests, and the codes and tokens, alone. *)
LEMMA OrderStays ==
    ASSUME CredentialsInv, now' = now, casting' = casting, request' = request,
           code' = code, token' = token, clientOn' => clientOn
    PROVE  InOrder'
  <1>1. /\ \A q \in Requests : Kind(q)' = Kind(q)
        /\ \A q \in Requests : At(q, "done")' = At(q, "done")
        /\ \A q \in Requests : At(q, "idle")' = At(q, "idle")
        /\ \A q \in Requests : At(q, "redeem")' = At(q, "redeem")
    BY DEF Kind, At
  <1> QED
    BY <1>1 DEF CredentialsInv, InOrder

LEMMA RevokeKeyKeeps ==
    ASSUME NowOK, CredentialsInv, now' = now, RevokeAPIKey \/ DeleteOAuthClient
    PROVE  CredentialsInv'
  <1> USE DEF CredentialsInv
  <1>1. /\ casting' = casting /\ tenantOn' = tenantOn /\ cookie' = cookie /\ code' = code
        /\ redeemed' = redeemed /\ token' = token /\ revoked' = revoked /\ request' = request
        /\ gone' = gone /\ keyOn' \in {keyOn, FALSE} /\ clientOn' \in {clientOn, FALSE}
    BY DEF RevokeAPIKey, DeleteOAuthClient
  <1>2. CredentialsTypeOK'
    BY <1>1 DEF CredentialsTypeOK
  <1>3. InOrder'
    <2>1. clientOn' = clientOn \/ clientOn' = FALSE
      BY <1>1
    <2>2. clientOn' => clientOn
      BY <2>1, Zenon
    <2> QED
      BY <1>1, <2>2, OrderStays
  <1>4. Remembered'
    BY <1>1 DEF Remembered
  <1>5. \A q \in Requests : Barred(request[q])'
    BY <1>1 DEF TakenBack, Barred, CredentialsTypeOK
  <1>6. \A q \in Requests : Looking(request[q])'
    BY <1>1 DEF TakenBack, Looking, Late, CredentialsTypeOK
  <1>7. TakenBack'
    BY <1>1, <1>5, <1>6 DEF TakenBack, Late
  <1> QED
    BY <1>2, <1>3, <1>4, <1>7

(* A tenant that is enabled again lets in again. *)
LEMMA TenantKeeps ==
    ASSUME NowOK, CredentialsInv, now' = now, SetTenantEnabled
    PROVE  CredentialsInv'
  <1> USE DEF CredentialsInv
  <1>1. /\ casting' = casting /\ keyOn' = keyOn /\ clientOn' = clientOn /\ cookie' = cookie
        /\ code' = code /\ redeemed' = redeemed /\ token' = token /\ revoked' = revoked
        /\ gone' = gone /\ tenantOn' = ~tenantOn
    BY DEF SetTenantEnabled
  <1>2. /\ request' \in [Requests -> RequestRecord]
        /\ \A q \in Requests :
             /\ request'[q].at = request[q].at /\ request'[q].offers = request[q].offers
             /\ request'[q].lookups = request[q].lookups /\ request'[q].token = request[q].token
             /\ request'[q].began = request[q].began /\ request'[q].barred = request[q].barred
             /\ request'[q].tenantBarred => request[q].tenantBarred /\ ~tenantOn'
    <2>1. CASE tenantOn
      BY <2>1 DEF SetTenantEnabled, TakenBack, Barred, CredentialsTypeOK
    <2>2. CASE ~tenantOn
      <3>1. request' = [r \in Requests |-> [request[r] EXCEPT !.tenantBarred = FALSE]]
        BY <2>2 DEF SetTenantEnabled
      <3>2. ASSUME NEW q \in Requests
            PROVE  /\ request'[q] \in RequestRecord
                   /\ request'[q].at = request[q].at /\ request'[q].offers = request[q].offers
                   /\ request'[q].lookups = request[q].lookups /\ request'[q].token = request[q].token
                   /\ request'[q].began = request[q].began /\ request'[q].barred = request[q].barred
                   /\ request'[q].tenantBarred = FALSE
        <4>1. request[q] \in RequestRecord /\ request'[q] = [request[q] EXCEPT !.tenantBarred = FALSE]
          BY <3>1 DEF CredentialsTypeOK
        <4> QED
          BY <4>1 DEF RequestRecord
      <3>3. request' \in [Requests -> RequestRecord]
        BY <3>1, <3>2
      <3> QED
        BY <3>2, <3>3
    <2> QED
      BY <2>1, <2>2 DEF CredentialsTypeOK
  <1>3. CredentialsTypeOK'
    BY <1>1, <1>2 DEF CredentialsTypeOK
  <1>4. /\ \A q \in Requests : Kind(q)' = Kind(q)
        /\ \A q \in Requests : At(q, "done")' <=> At(q, "done")
        /\ \A q \in Requests : At(q, "idle")' <=> At(q, "idle")
        /\ \A q \in Requests : At(q, "redeem")' <=> At(q, "redeem")
        /\ \A q \in Requests : request'[q].began = request[q].began
    BY <1>1, <1>2 DEF Kind, At
  <1>5. InOrder'
    BY <1>1, <1>4 DEF InOrder
  <1>6. Remembered'
    BY <1>1 DEF Remembered
  <1>7. \A q \in Requests : Barred(request[q])'
    BY <1>1, <1>2 DEF TakenBack, Barred
  <1>8. \A q \in Requests : Looking(request[q])'
    BY <1>1, <1>2 DEF TakenBack, Looking, Late
  <1>9. TakenBack'
    BY <1>1, <1>7, <1>8 DEF TakenBack, Late
  <1> QED
    BY <1>3, <1>5, <1>6, <1>9

(* Retention forgets a revocation whose token is over, and a code that is. *)
LEMMA CleanupKeeps ==
    ASSUME NowOK, CredentialsInv, now' = now, Cleanup
    PROVE  CredentialsInv'
  <1> USE DEF CredentialsInv
  <1>0. now \in Nat /\ CodeLife \in Nat /\ Retention \in Nat /\ Retention > CodeLife + 1
        /\ code \in Nat /\ redeemed \in Nat /\ Never \in Nat
    BY ClockAssumption, CredentialsAssumption DEF NowOK, Never, CredentialsTypeOK
  <1>1. /\ casting' = casting /\ tenantOn' = tenantOn /\ keyOn' = keyOn /\ clientOn' = clientOn
        /\ cookie' = cookie /\ code' = code /\ token' = token /\ request' = request /\ gone' = gone
        /\ revoked' = {t \in revoked : ~Forgettable(t)}
        /\ redeemed' = IF redeemed # Never /\ redeemed + Retention < now THEN Never ELSE redeemed
    BY DEF Cleanup
  <1>2. CredentialsTypeOK'
    BY <1>0, <1>1 DEF CredentialsTypeOK
  <1>3. InOrder'
    BY <1>1, OrderStays
  <1>4. Remembered'
    <2>1. \/ redeemed' = redeemed
          \/ redeemed # Never /\ redeemed + Retention < now
      BY <1>1
    <2>2. redeemed + Retention < now /\ code <= redeemed + CodeLife => now > code + 1
      BY <1>0
    <2>3. (\E r \in Requests : token[r] > 0) =>
             \/ redeemed' # Never /\ code <= redeemed' + CodeLife
             \/ now > code + 1
      BY <2>1, <2>2 DEF Remembered
    <2> QED
      BY <1>1, <2>3 DEF Remembered, Never
  <1>5. \A q \in Requests : Barred(request[q])' /\ Looking(request[q])'
    BY <1>1 DEF TakenBack, Barred, Looking, Late
  <1>6. \A t \in gone : token[t] > 0 /\ (t \in revoked' \/ Late(t))
    BY <1>1 DEF TakenBack, Forgettable, Late, CredentialsTypeOK
  <1>7. TakenBack'
    BY <1>1, <1>5, <1>6 DEF TakenBack, Late
  <1> QED
    BY <1>2, <1>3, <1>4, <1>7

LEMMA CredentialsUnchanged ==
    ASSUME CredentialsInv, UNCHANGED credentialVars, now' = now
    PROVE  CredentialsInv'
  <1> USE DEF CredentialsInv
  <1>1. /\ casting' = casting /\ tenantOn' = tenantOn /\ keyOn' = keyOn /\ clientOn' = clientOn
        /\ cookie' = cookie /\ code' = code /\ redeemed' = redeemed /\ token' = token
        /\ revoked' = revoked /\ request' = request /\ gone' = gone
    BY DEF credentialVars
  <1>2. CredentialsTypeOK' /\ Remembered'
    BY <1>1 DEF CredentialsTypeOK, Remembered
  <1>3. InOrder'
    BY <1>1, OrderStays
  <1>4. TakenBack'
    BY <1>1 DEF TakenBack, Barred, Looking, Late
  <1> QED
    BY <1>2, <1>3, <1>4

(* A request ends before the clock goes on twice. *)
LEMMA CredentialsTick ==
    ASSUME NowOK, CredentialsInv, UNCHANGED credentialVars, now' = now + 1, RequestsInTime
    PROVE  CredentialsInv'
  <1> USE DEF CredentialsInv
  <1>0. now \in Nat /\ CodeLife \in Nat /\ code \in Nat /\ token \in [Requests -> Nat]
    BY ClockAssumption, CredentialsAssumption DEF NowOK, CredentialsTypeOK
  <1>1. /\ casting' = casting /\ tenantOn' = tenantOn /\ keyOn' = keyOn /\ clientOn' = clientOn
        /\ cookie' = cookie /\ code' = code /\ redeemed' = redeemed /\ token' = token
        /\ revoked' = revoked /\ request' = request /\ gone' = gone
    BY DEF credentialVars
  <1>2. CredentialsTypeOK'
    BY <1>1 DEF CredentialsTypeOK
  <1>3. Remembered'
    BY <1>0, <1>1 DEF Remembered, Never
  <1>4. InOrder'
    <2>1. /\ \A q \in Requests : Kind(q)' = Kind(q)
          /\ \A q \in Requests : At(q, "done")' <=> At(q, "done")
          /\ \A q \in Requests : At(q, "idle")' <=> At(q, "idle")
          /\ \A q \in Requests : At(q, "redeem")' <=> At(q, "redeem")
      BY <1>1 DEF Kind, At
    <2>2. \A q \in Requests : At(q, "redeem") => now + 1 <= request[q].began + 1
      BY <1>0 DEF RequestsInTime, At, CredentialsTypeOK, RequestRecord
    <2>3. code <= now + 1 + CodeLife
      BY <1>0 DEF InOrder
    <2> QED
      BY <1>1, <2>1, <2>2, <2>3 DEF InOrder
  <1>5. \A t \in Requests : Late(t) => Late(t)'
    BY <1>0, <1>1 DEF Late
  <1>6. \A q \in Requests : Barred(request[q])'
    BY <1>1 DEF TakenBack, Barred
  <1>7. \A q \in Requests : Looking(request[q])'
    <2>1. ASSUME NEW q \in Requests PROVE Looking(request[q])'
      <3>1. Looking(request[q]) /\ Barred(request[q])
        BY DEF TakenBack
      <3>2. request[q].offers = <<"oauth", "sso">> => (Late(request[q].token) => Late(request[q].token)')
        BY <1>1, <1>5, <3>1 DEF Barred
      <3> QED
        BY <1>1, <3>1, <3>2 DEF Looking
    <2> QED
      BY <2>1
  <1>8. TakenBack'
    <2>1. gone \subseteq Requests
      BY DEF CredentialsTypeOK
    <2> QED
      BY <1>1, <1>5, <1>6, <1>7, <2>1 DEF TakenBack
  <1> QED
    BY <1>2, <1>3, <1>4, <1>8

LEMMA CredentialsKeep ==
    ASSUME NowOK, CredentialsInv, CredentialsStep, now' = now
    PROVE  CredentialsInv'
  <1>1. CASE Outside
    BY <1>1, RevokeKeyKeeps, TenantKeeps, CleanupKeeps DEF Outside
  <1>2. ASSUME NEW r \in Requests,
               \/ Arrive(r) \/ Open(r) \/ Look(r) \/ CreateSessionCookie(r) \/ RegisterClient(r)
               \/ Authorize(r) \/ BeginExchange(r) \/ Redeem(r) \/ Revoke(r)
        PROVE  CredentialsInv'
    BY <1>2, ArriveKeeps, OpenKeeps, LookKeeps, SessionCookieKeeps, RegisterKeeps,
       AuthorizeKeeps, BeginExchangeKeeps, RedeemKeeps, RevokeKeeps
  <1> QED
    BY <1>1, <1>2 DEF CredentialsStep

LEMMA CredentialsInvariant == Spec => [](NowOK /\ CredentialsInv)
  <1>1. Init => NowOK /\ CredentialsInv
    BY InitNow, CredentialsInitial
  <1>2. NowOK /\ CredentialsInv /\ [Next]_vars => (NowOK /\ CredentialsInv)'
    <2> SUFFICES ASSUME NowOK, CredentialsInv, [Next]_vars
                 PROVE  NowOK' /\ CredentialsInv'
      OBVIOUS
    <2>1. NowOK'
      BY NowStep
    <2>2. \/ UNCHANGED credentialVars /\ now' = now + 1 /\ RequestsInTime
          \/ UNCHANGED credentialVars /\ now' = now
          \/ CredentialsStep /\ now' = now
      BY DEF Next, vars, Tick, Advance
    <2> QED
      BY <2>1, <2>2, CredentialsTick, CredentialsUnchanged, CredentialsKeep
  <1> QED
    BY <1>1, <1>2, PTL DEF Spec

LEMMA CodeRedeemedOnceAlways == Spec => []CodeRedeemedOnce
  <1>1. CredentialsInv => CodeRedeemedOnce
    <2> SUFFICES ASSUME CredentialsInv PROVE CodeRedeemedOnce
      OBVIOUS
    <2> DEFINE given == {r \in Requests : token[r] > 0}
    <2>1. CASE given = {}
      BY <2>1, FS_EmptySet DEF CodeRedeemedOnce
    <2>2. CASE given # {}
      <3>1. PICK r \in given : TRUE
        BY <2>2
      <3>2. given = {r}
        BY <3>1 DEF CredentialsInv, Remembered
      <3>3. Cardinality({r}) = 1
        BY FS_Singleton
      <3>4. Cardinality(given) = 1
        BY <3>2, <3>3, Zenon
      <3> QED
        BY <3>4 DEF CodeRedeemedOnce
    <2> QED
      BY <2>1, <2>2
  <1> QED
    BY <1>1, CredentialsInvariant, PTL

(* Nothing that is good for one use is used twice, whatever tabs, requests *)
(* and crashes meet: an answer of the identity provider, an authorization  *)
(* code, the confirmation of an MCP action.                                *)
THEOREM UsedOnceAlways == Spec => []UsedOnce
  BY SignedInOnceAlways, CodeRedeemedOnceAlways, ConfirmedOnceAlways, PTL DEF UsedOnce

(* Only a last lookup lets a request in. *)
LEMMA EntersByLooking ==
    ASSUME CredentialsInv, CredentialsStep, NEW r \in Requests,
           request'[r].at = "accepted", ~At(r, "accepted")
    PROVE  /\ At(r, "look") /\ Tail(request[r].lookups) = <<>>
           /\ Passes(r, Head(request[r].lookups))
  <1> USE DEF CredentialsInv
  <1>0. request \in [Requests -> RequestRecord]
    BY DEF CredentialsTypeOK
  <1>1. CASE Outside
    <2>1. request' = request \/ request' = [q \in Requests |-> [request[q] EXCEPT !.tenantBarred = FALSE]]
      BY <1>1 DEF Outside, RevokeAPIKey, SetTenantEnabled, DeleteOAuthClient, Cleanup
    <2> QED
      BY <1>0, <2>1 DEF At, RequestRecord
  <1>2. ASSUME NEW q \in Requests,
               \/ CreateSessionCookie(q) \/ RegisterClient(q) \/ Authorize(q) \/ Redeem(q) \/ Revoke(q)
        PROVE  FALSE
    <2>1. Becomes(q, "done") \/ Becomes(q, "refused")
      BY <1>2 DEF CreateSessionCookie, RegisterClient, Authorize, Redeem, Revoke
    <2> QED
      BY <2>1, BecomesFacts DEF At
  <1>3. ASSUME NEW q \in Requests, Arrive(q) \/ Open(q) \/ BeginExchange(q)
        PROVE  FALSE
    <2>1. PICK w : w.at # "accepted" /\ request' = [request EXCEPT ![q] = w]
      <3>0. request[q] \in RequestRecord
        BY <1>0
      <3>1. CASE Arrive(q)
        BY <3>0, <3>1 DEF Arrive, Entering, RequestRecord
      <3>2. CASE BeginExchange(q)
        BY <3>0, <3>2 DEF BeginExchange, Becomes, RequestRecord
      <3>3. CASE Open(q)
        BY <3>0, <3>3 DEF Open, Becomes, RequestRecord, At
      <3> QED
        BY <1>3, <3>1, <3>2, <3>3
    <2> QED
      BY <1>0, <2>1 DEF At
  <1>4. ASSUME NEW q \in Requests, Look(q)
        PROVE  /\ At(r, "look") /\ Tail(request[r].lookups) = <<>>
               /\ Passes(r, Head(request[r].lookups))
    <2> DEFINE rest == Tail(request[q].lookups)
               passed == [request[q] EXCEPT !.at = IF rest = <<>> THEN "accepted" ELSE "look", !.lookups = rest]
               failing == [request[q] EXCEPT !.at = "open", !.offers = Tail(request[q].offers), !.lookups = <<>>]
    <2>1. /\ At(q, "look")
          /\ \/ Passes(q, Head(request[q].lookups)) /\ request' = [request EXCEPT ![q] = passed]
             \/ request' = [request EXCEPT ![q] = failing]
      BY <1>4 DEF Look
    <2>2. passed.at = (IF rest = <<>> THEN "accepted" ELSE "look") /\ failing.at = "open"
      BY <1>0 DEF RequestRecord
    <2> HIDE DEF passed, failing, rest
    <2>3. r = q /\ Passes(q, Head(request[q].lookups)) /\ rest = <<>>
      BY <1>0, <2>1, <2>2 DEF At
    <2> QED
      BY <2>1, <2>3 DEF rest
  <1> QED
    BY <1>1, <1>2, <1>3, <1>4 DEF CredentialsStep

(* What was taken back before a request began does not let it in.          *)
StaysOut(r) ==
    LET credential == Head(request[r].offers) IN
    /\ ~request[r].tenantBarred
    /\ credential \in request[r].barred => credential = "oauth" /\ now >= token[request[r].token]

LEMMA EntersWithout ==
    ASSUME CredentialsInv, CredentialsStep, NEW r \in Requests,
           request'[r].at = "accepted", ~At(r, "accepted")
    PROVE  StaysOut(r)
  <1>1. At(r, "look") /\ Tail(request[r].lookups) = <<>> /\ Passes(r, Head(request[r].lookups))
    BY EntersByLooking
  <1>2. Barred(request[r])
    BY DEF CredentialsInv, TakenBack
  <1> QED
    BY <1>1, <1>2, PassedFacts, LookupsLonger DEF StaysOut, Barred, Late

(* A credential that was taken back before a request began does not let    *)
(* the request in, although its lookups are separate calls of the store,   *)
(* another credential may do so, and retention forgets revocations.        *)
THEOREM RevokedAlwaysStaysOut == Spec => RevokedStaysOut
  <1> DEFINE A == \A r \in Requests : request'[r].at = "accepted" /\ ~At(r, "accepted") => StaysOut(r)
  <1>1. NowOK /\ CredentialsInv /\ [Next]_vars => [A]_credentialVars
    <2>1. [Next]_vars => CredentialsStep \/ UNCHANGED credentialVars
      BY DEF Next, vars, Tick
    <2> QED
      BY <2>1, EntersWithout
  <1>2. Spec => [][A]_credentialVars
    BY <1>1, CredentialsInvariant, PTL DEF Spec
  <1> QED
    BY <1>2 DEF RevokedStaysOut, StaysOut
-----------------------------------------------------------------------------
(* Limits *)

AnyKind == {None} \cup {kinds[h] : kinds \in Asking, h \in Hits}
Places == {"new", "counting", "sharing", "entering", "asking", "signing", "refused", "telling", "working", "away"}
HitRecord == [at: Places, proc: Procs \cup {None}, kind: AnyKind, time: Nat]
CountRecord == [window: 0..Never, count: Nat]
FailureRecord == [window: Nat, failures: Nat, until: Nat]

Uncounted(h) == hit[h].at \in {"new", "counting", "sharing"}
Inside(h) == hit[h].at \notin {"new", "away"}

LimitsTypeOK ==
    /\ hit \in [Hits -> HitRecord]
    /\ shared \in CountRecord
    /\ failed \in [Procs -> FailureRecord] /\ blocked \in FailureRecord
    /\ slots \in [Procs -> Nat]
    /\ admitted \in [Hits -> 0..Never]
    /\ \A h \in Hits : Inside(h) => Proc(h) \in Procs
    /\ \A h \in Hits : Uncounted(h) => admitted[h] = Never

(* What a window has let pass, and how many it may have let pass of a      *)
(* stretch that begins at first: the first request of a window comes when  *)
(* the window begins, so that of two windows only one is in a stretch with *)
(* all of its requests.                                                    *)
Share(count) == IF count < Limit THEN count ELSE Limit
Most(window, count, first) ==
    IF first > window THEN Share(count) - 1
    ELSE IF first = window THEN Share(count)
    ELSE IF first + Window >= window THEN Limit + Share(count) - 1
    ELSE 2 * Limit - 1

Stretch(first) == Passed(first, first + Window - 1)

SharesKept ==
    IF shared.window = Never THEN \A h \in Hits : admitted[h] = Never
    ELSE /\ shared.window <= now /\ shared.count > 0
         /\ \A h \in Hits : admitted[h] # Never => admitted[h] < shared.window + Window
         /\ \A first \in Nat : Cardinality(Stretch(first)) <= Most(shared.window, shared.count, first)

SlotsKept == \A p \in Procs : slots[p] = Cardinality(Working(p)) /\ slots[p] <= Slots

BlocksEnd ==
    /\ blocked.until <= now + MaxDelay
    /\ \A p \in Procs : failed[p].until <= now + MaxDelay

LimitsInv == LimitsTypeOK /\ SharesKept /\ SlotsKept /\ BlocksEnd

LEMMA HitsFinite ==
    /\ \A first, last : IsFiniteSet(Passed(first, last)) /\ Cardinality(Passed(first, last)) \in Nat
    /\ \A p : IsFiniteSet(Working(p)) /\ Cardinality(Working(p)) \in Nat
  <1>1. IsFiniteSet(Hits)
    BY FS_Interval, LimitsAssumption DEF Hits
  <1>2. \A first, last : Passed(first, last) \subseteq Hits
    BY DEF Passed
  <1>3. \A p : Working(p) \subseteq Hits
    BY DEF Working
  <1>4. QED
    BY <1>1, <1>2, <1>3, FS_Subset, FS_CardinalityType

LEMMA CountedFacts ==
    ASSUME NEW entry \in CountRecord, NEW t \in 0..MaxNow
    PROVE  /\ Counted(entry, t) \in CountRecord
           /\ \/ /\ entry.window = Never \/ t >= entry.window + Window
                 /\ Counted(entry, t) = [window |-> t, count |-> 1]
              \/ /\ entry.window # Never /\ t < entry.window + Window
                 /\ Counted(entry, t).window = entry.window
                 /\ Counted(entry, t).count = entry.count + 1
  BY LimitsAssumption, ClockAssumption DEF Counted, Past, CountRecord, Never

LEMMA DelayFacts ==
    ASSUME NEW failures
    PROVE  Delay(failures) \in Nat /\ Delay(failures) <= MaxDelay
  <1> DEFINE doubled == BaseDelay * 2 ^ (failures - Threshold)
  <1>1. Delay(failures) = IF failures < Threshold THEN 0
                          ELSE IF doubled \in BaseDelay..MaxDelay THEN doubled ELSE MaxDelay
    BY DEF Delay
  <1> HIDE DEF doubled
  <1>2. QED
    BY <1>1, LimitsAssumption

LEMMA RecordedFacts ==
    ASSUME NEW entry \in FailureRecord, NEW t \in 0..MaxNow, NEW bound \in Nat,
           t <= bound, entry.until <= bound + MaxDelay
    PROVE  /\ Recorded(entry, t) \in FailureRecord
           /\ Recorded(entry, t).until <= bound + MaxDelay
  <1> DEFINE kept == IF Past(entry, FailWindow, t) THEN [NoFailure EXCEPT !.window = t] ELSE entry
             delay == Delay(kept.failures + 1)
  <1>1. kept \in FailureRecord /\ kept.until <= bound + MaxDelay
    BY LimitsAssumption DEF FailureRecord, NoFailure
  <1>2. delay \in Nat /\ delay <= MaxDelay
    BY DelayFacts
  <1>3. Recorded(entry, t) = [kept EXCEPT !.failures = @ + 1, !.until = IF delay > 0 THEN t + delay ELSE @]
    BY DEF Recorded
  <1> HIDE DEF kept, delay
  <1>4. /\ Recorded(entry, t) = [window |-> kept.window, failures |-> kept.failures + 1,
                                 until |-> IF delay > 0 THEN t + delay ELSE kept.until]
    BY <1>1, <1>3 DEF FailureRecord
  <1>5. /\ kept.window \in Nat /\ kept.failures + 1 \in Nat /\ kept.until \in Nat /\ t \in Nat
        /\ MaxDelay \in Nat /\ t + delay \in Nat /\ t + delay <= bound + MaxDelay
    BY <1>1, <1>2, LimitsAssumption DEF FailureRecord
  <1>6. QED
    BY <1>1, <1>4, <1>5 DEF FailureRecord

(* A request that passes is in the stretches that hold its time. *)
LEMMA PassedMore ==
    ASSUME LimitsTypeOK, NEW h \in Hits, NEW t \in 0..MaxNow, admitted[h] = Never,
           admitted' = [admitted EXCEPT ![h] = t], NEW first \in Nat
    PROVE  /\ t \in first..(first + Window - 1) =>
                 Cardinality(Stretch(first)') = Cardinality(Stretch(first)) + 1
           /\ t \notin first..(first + Window - 1) => Stretch(first)' = Stretch(first)
  <1>1. h \notin Stretch(first) /\ t # Never
    BY ClockAssumption DEF Stretch, Passed, Never
  <1>2. \A g \in Hits : admitted'[g] = IF g = h THEN t ELSE admitted[g]
    BY DEF LimitsTypeOK
  <1>3. CASE t \in first..(first + Window - 1)
    <2>1. Stretch(first)' = Stretch(first) \cup {h}
      BY <1>1, <1>2, <1>3 DEF Stretch, Passed, Never
    <2>2. QED
      BY <1>1, <1>3, <2>1, HitsFinite, FS_AddElement DEF Stretch
  <1>4. CASE t \notin first..(first + Window - 1)
    BY <1>1, <1>2, <1>4 DEF Stretch, Passed, Never
  <1>5. QED
    BY <1>3, <1>4

(* The row counts a request, and perhaps lets it pass. *)
LEMMA SharesCounted ==
    ASSUME LimitsTypeOK, SharesKept, NowOK, now' = now,
           NEW h \in Hits, NEW t \in 0..now, now <= t + 1, admitted[h] = Never,
           shared' = Counted(shared, t),
           \/ admitted' = admitted
           \/ admitted' = [admitted EXCEPT ![h] = t] /\ shared'.count <= Limit
    PROVE  shared' \in CountRecord /\ SharesKept'
  <1> DEFINE passes == admitted' # admitted
             more(first) == passes /\ t \in first..(first + Window - 1)
             size(first) == Cardinality(Stretch(first))
             grown(first) == Cardinality(Stretch(first)')
  <1>0. /\ Limit \in Nat \ {0} /\ Window \in Nat \ {0} /\ now \in Nat /\ MaxNow \in Nat
        /\ t \in 0..MaxNow /\ t # Never /\ Never \in Nat
        /\ shared \in CountRecord /\ admitted \in [Hits -> 0..Never]
    BY LimitsAssumption, ClockAssumption DEF NowOK, LimitsTypeOK, Never
  <1>1. ASSUME NEW first \in Nat
        PROVE  /\ size(first) \in Nat /\ grown(first) \in Nat
               /\ grown(first) = size(first) + (IF more(first) THEN 1 ELSE 0)
    <2>1. CASE ~passes
      <3>1. Stretch(first)' = Stretch(first)
        BY <2>1 DEF Stretch, Passed
      <3>2. size(first) \in Nat
        BY HitsFinite DEF Stretch
      <3>3. QED
        BY <2>1, <3>1, <3>2
    <2>2. CASE passes
      <3>1. admitted' = [admitted EXCEPT ![h] = t]
        BY <2>2
      <3>2. size(first) \in Nat
        BY HitsFinite DEF Stretch
      <3>3. /\ t \in first..(first + Window - 1) => grown(first) = size(first) + 1
            /\ t \notin first..(first + Window - 1) => Stretch(first)' = Stretch(first)
        BY <1>0, <3>1, PassedMore
      <3>4. t \notin first..(first + Window - 1) => grown(first) = size(first)
        BY <3>3
      <3> HIDE DEF size, grown
      <3>5. QED
        BY <2>2, <3>2, <3>3, <3>4
    <2>3. QED
      BY <2>1, <2>2
  <1>2. \A g \in Hits : admitted'[g] # Never => admitted'[g] = t \/ admitted'[g] = admitted[g]
    BY <1>0
  <1>3. shared' \in CountRecord
    BY <1>0, CountedFacts
  <1>4. passes => shared'.count <= Limit
    OBVIOUS
  <1> HIDE DEF passes, size, grown
  <1>5. CASE shared.window = Never \/ t >= shared.window + Window
    <2>1. shared' = [window |-> t, count |-> 1]
      BY <1>0, <1>5, CountedFacts DEF CountRecord
    <2>2. \A g \in Hits : admitted[g] # Never => admitted[g] < t
      BY <1>0, <1>5 DEF SharesKept, CountRecord
    <2>3. \A first \in Nat : first >= t => size(first) = 0
      <3>1. \A first \in Nat : first >= t => Stretch(first) = {}
        BY <1>0, <2>2 DEF Stretch, Passed
      <3>2. QED
        BY <3>1, FS_EmptySet DEF size
    <2>4. \A first \in Nat : size(first) <= 2 * Limit - 1 /\ (first > shared.window => size(first) <= Limit - 1)
                             /\ (first = shared.window => size(first) <= Limit)
      <3>1. CASE shared.window = Never
        <4>1. \A first \in Nat : Stretch(first) = {}
          BY <3>1 DEF SharesKept, Stretch, Passed
        <4>2. \A first \in Nat : size(first) = 0
          BY <4>1, FS_EmptySet DEF size
        <4>3. QED
          BY <1>0, <4>2
      <3>2. CASE shared.window # Never
        BY <1>0, <1>1, <3>2 DEF SharesKept, Most, Share, CountRecord, size
      <3>3. QED
        BY <3>1, <3>2
    <2>5. ASSUME NEW first \in Nat
          PROVE  grown(first) <= Most(t, 1, first)
      <3>1. first >= t => size(first) = 0
        BY <2>3
      <3>2. first < t /\ first + Window >= t => size(first) <= Limit /\ (first + Window > t => size(first) <= Limit - 1)
        <4>1. CASE shared.window = Never
          <5>1. Stretch(first) = {}
            BY <4>1 DEF SharesKept, Stretch, Passed
          <5>2. QED
            BY <1>0, <5>1, FS_EmptySet DEF size
        <4>2. CASE shared.window # Never
          <5>1. shared.window \in Nat /\ t \in Nat /\ t >= shared.window + Window
            BY <1>0, <1>5, <4>2 DEF CountRecord
          <5>2. (first > shared.window => size(first) <= Limit - 1) /\ (first = shared.window => size(first) <= Limit)
            BY <2>4
          <5>3. size(first) \in Nat
            BY <1>1
          <5>4. QED
            BY <1>0, <5>1, <5>2, <5>3
        <4>3. QED
          BY <4>1, <4>2
      <3>3. size(first) <= 2 * Limit - 1
        BY <2>4
      <3>4. QED
        BY <1>0, <1>1, <3>1, <3>2, <3>3 DEF Most, Share
    <2>6. QED
      BY <1>0, <1>2, <1>3, <2>1, <2>2, <2>5 DEF SharesKept, grown
  <1>6. CASE shared.window # Never /\ t < shared.window + Window
    <2>1. shared'.window = shared.window /\ shared'.count = shared.count + 1
      BY <1>0, <1>6, CountedFacts DEF CountRecord
    <2>2. shared.window <= now /\ shared.count \in Nat /\ shared.count > 0 /\ shared.window \in Nat
      BY <1>0, <1>6 DEF SharesKept, CountRecord
    <2>3. \A g \in Hits : admitted'[g] # Never => admitted'[g] < shared.window + Window
      BY <1>2, <1>6 DEF SharesKept
    <2>4. ASSUME NEW first \in Nat
          PROVE  grown(first) <= Most(shared.window, shared.count + 1, first)
      <3>1. size(first) <= Most(shared.window, shared.count, first)
        BY <1>6 DEF SharesKept, size
      <3>2. passes => shared.count + 1 <= Limit
        BY <1>4, <2>1
      <3>3. QED
        BY <1>0, <1>1, <1>6, <2>2, <3>1, <3>2 DEF Most, Share
    <2>5. /\ shared'.window # Never /\ shared'.window <= now' /\ shared'.count > 0
          /\ \A g \in Hits : admitted'[g] # Never => admitted'[g] < shared'.window + Window
          /\ \A first \in Nat : grown(first) <= Most(shared'.window, shared'.count, first)
      BY <1>6, <2>1, <2>2, <2>3, <2>4
    <2>6. QED
      BY <1>3, <2>5 DEF SharesKept, grown
  <1>7. QED
    BY <1>0, <1>3, <1>5, <1>6 DEF CountRecord

LEMMA AnsweredFields == AnsweredHit \in HitRecord /\ AnsweredHit.at = "away"
  BY DEF AnsweredHit, NewHit, HitRecord, AnyKind, Places

(* One request moves, and at most its own time of passing is noted.        *)
LEMMA HitMoves ==
    ASSUME LimitsTypeOK, NEW h \in Hits, NEW w \in HitRecord, hit' = [hit EXCEPT ![h] = w],
           w.at \notin {"new", "away"} => w.proc \in Procs,
           w.at \in {"new", "counting", "sharing"} => Uncounted(h),
           \/ admitted' = admitted
           \/ w.at \notin {"new", "counting", "sharing"} /\ \E t \in 0..Never : admitted' = [admitted EXCEPT ![h] = t]
    PROVE  /\ hit' \in [Hits -> HitRecord] /\ admitted' \in [Hits -> 0..Never]
           /\ \A g \in Hits : Inside(g)' => Proc(g)' \in Procs
           /\ \A g \in Hits : Uncounted(g)' => admitted'[g] = Never
           /\ w.at # "working" /\ ~Where(h, "working") => \A p : Working(p)' = Working(p)
  <1>1. hit \in [Hits -> HitRecord] /\ admitted \in [Hits -> 0..Never]
    BY DEF LimitsTypeOK
  <1>2. \A g \in Hits : hit'[g] = IF g = h THEN w ELSE hit[g]
    BY <1>1
  <1>3. hit' \in [Hits -> HitRecord] /\ admitted' \in [Hits -> 0..Never]
    BY <1>1
  <1>4. ASSUME NEW g \in Hits, Inside(g)'
        PROVE  Proc(g)' \in Procs
    BY <1>2, <1>4 DEF LimitsTypeOK, Inside, Proc
  <1>5. ASSUME NEW g \in Hits, Uncounted(g)'
        PROVE  admitted'[g] = Never
    BY <1>1, <1>2, <1>5 DEF LimitsTypeOK, Uncounted
  <1>6. w.at # "working" /\ ~Where(h, "working") => \A p : Working(p)' = Working(p)
    BY <1>2 DEF Working, Where, Proc
  <1>7. QED
    BY <1>3, <1>4, <1>5, <1>6

LEMMA GoMoves ==
    ASSUME LimitsTypeOK, NEW h \in Hits, NEW place \in Places \ {"new", "counting", "sharing"},
           Inside(h), Go(h, place)
    PROVE  \E w \in HitRecord :
              /\ hit' = [hit EXCEPT ![h] = w] /\ w.at = place
              /\ w.at # "away" => w.proc = Proc(h) /\ w.proc \in Procs
  <1> DEFINE w == IF place = "away" THEN AnsweredHit ELSE [hit[h] EXCEPT !.at = place, !.time = 0]
  <1>1. hit' = [hit EXCEPT ![h] = w]
    BY DEF Go, LimitsTypeOK
  <1>2. hit[h] \in HitRecord /\ Proc(h) \in Procs
    BY DEF LimitsTypeOK
  <1>3. w \in HitRecord /\ w.at = place /\ (place # "away" => w.proc = Proc(h))
    <2>1. CASE place = "away"
      BY <2>1, AnsweredFields
    <2>2. CASE place # "away"
      <3> DEFINE moved == [hit[h] EXCEPT !.at = place, !.time = 0]
      <3>1. None \in Procs \cup {None} /\ 0 \in Nat /\ place \in Places
        OBVIOUS
      <3>2. moved \in HitRecord /\ moved.at = place /\ moved.proc = hit[h].proc
        BY <1>2, <3>1 DEF HitRecord, Proc
      <3>3. w = moved
        BY <2>2
      <3> HIDE DEF w, moved
      <3>4. QED
        BY <3>2, <3>3 DEF Proc
    <2>3. QED
      BY <2>1, <2>2
  <1>4. QED
    BY <1>1, <1>2, <1>3

(* What is left alone when nobody is counted, nor enters or leaves a gate. *)
LEMMA SharesStay ==
    ASSUME LimitsTypeOK, SharesKept, NowOK, UNCHANGED <<shared, admitted>>, now' = now \/ now' = now + 1
    PROVE  SharesKept'
  <1>1. \A first : Stretch(first)' = Stretch(first)
    BY DEF Stretch, Passed
  <1>2. shared.window # Never /\ shared.window <= now => shared.window <= now'
    BY ClockAssumption DEF NowOK, LimitsTypeOK, CountRecord, Never
  <1>3. QED
    BY <1>1, <1>2 DEF SharesKept

LEMMA SlotsStay ==
    ASSUME SlotsKept, slots' = slots, \A p : Working(p)' = Working(p)
    PROVE  SlotsKept'
  BY DEF SlotsKept

(* A request moves without being counted, and enters or leaves no gate.    *)
LEMMA MoveKeeps ==
    ASSUME LimitsInv, NowOK, now' = now, NEW h \in Hits, NEW w \in HitRecord, hit' = [hit EXCEPT ![h] = w],
           w.at \notin {"new", "away"} => w.proc \in Procs,
           w.at \in {"new", "counting", "sharing"} => Uncounted(h),
           w.at # "working", ~Where(h, "working"), UNCHANGED <<shared, admitted, slots>>,
           failed' \in [Procs -> FailureRecord], blocked' \in FailureRecord, BlocksEnd'
    PROVE  LimitsInv'
  <1>1. LimitsTypeOK'
    BY HitMoves DEF LimitsInv, LimitsTypeOK
  <1>2. SharesKept'
    BY SharesStay DEF LimitsInv
  <1>3. SlotsKept'
    BY HitMoves, SlotsStay DEF LimitsInv
  <1>4. QED
    BY <1>1, <1>2, <1>3 DEF LimitsInv

LEMMA CalmMoveKeeps ==
    ASSUME LimitsInv, NowOK, now' = now, NEW h \in Hits,
           ComeIn(h) \/ TakeLocal(h) \/ AuthFailureRetryAfter(h) \/ SignInAttempt(h)
    PROVE  LimitsInv'
  <1>1. /\ UNCHANGED <<shared, admitted, slots, failed, blocked>>
        /\ failed \in [Procs -> FailureRecord] /\ blocked \in FailureRecord /\ BlocksEnd'
    BY DEF ComeIn, TakeLocal, AuthFailureRetryAfter, SignInAttempt, LimitsInv, LimitsTypeOK, BlocksEnd
  <1>2. \E w \in HitRecord :
           /\ hit' = [hit EXCEPT ![h] = w] /\ w.at # "working"
           /\ w.at \notin {"new", "away"} => w.proc \in Procs
           /\ w.at \in {"new", "counting", "sharing"} => Uncounted(h)
    <2>0. hit \in [Hits -> HitRecord] /\ hit[h] \in HitRecord
      BY DEF LimitsInv, LimitsTypeOK
    <2>1. CASE ComeIn(h)
      <3>1. PICK p \in Procs : hit' = [hit EXCEPT ![h] = [@ EXCEPT !.at = "counting", !.proc = p, !.time = now]]
        BY <2>1 DEF ComeIn
      <3> DEFINE w == [hit[h] EXCEPT !.at = "counting", !.proc = p, !.time = now]
      <3>2. w \in HitRecord /\ w.at = "counting" /\ w.proc = p
        <4>1. now \in Nat /\ "counting" \in Places /\ p \in Procs \cup {None}
          BY ClockAssumption DEF NowOK, Places
        <4>2. QED
          BY <2>0, <4>1 DEF HitRecord
      <3>3. hit' = [hit EXCEPT ![h] = w]
        BY <2>0, <3>1
      <3> HIDE DEF w
      <3>4. QED
        BY <2>1, <3>2, <3>3 DEF ComeIn, Where, Uncounted
    <2>2. CASE TakeLocal(h)
      <3>1. Inside(h) /\ Uncounted(h) /\ Proc(h) \in Procs
        BY <2>2 DEF TakeLocal, Where, Inside, Uncounted, LimitsInv, LimitsTypeOK
      <3>2. hit' = [hit EXCEPT ![h].at = "sharing"] \/ Go(h, "away")
        BY <2>2 DEF TakeLocal
      <3> DEFINE w == [hit[h] EXCEPT !.at = "sharing"]
      <3>3. w \in HitRecord /\ w.at = "sharing" /\ w.proc = Proc(h)
        <4>1. "sharing" \in Places
          BY DEF Places
        <4>2. QED
          BY <2>0, <4>1 DEF HitRecord, Proc
      <3>4. hit' = [hit EXCEPT ![h] = w] \/ Go(h, "away")
        BY <2>0, <3>2
      <3> HIDE DEF w
      <3>5. CASE hit' = [hit EXCEPT ![h] = w]
        BY <3>1, <3>3, <3>5
      <3>6. CASE Go(h, "away")
        <4>1. "away" \in Places \ {"new", "counting", "sharing"} /\ LimitsTypeOK
          BY DEF Places, LimitsInv
        <4>2. PICK left \in HitRecord : hit' = [hit EXCEPT ![h] = left] /\ left.at = "away"
          BY <3>1, <3>6, <4>1, GoMoves
        <4>3. QED
          BY <4>2
      <3>7. QED
        BY <3>4, <3>5, <3>6
    <2>3. CASE AuthFailureRetryAfter(h) \/ SignInAttempt(h)
      <3>1. Inside(h) /\ \E place \in {"away", "signing", "refused"} : Go(h, place)
        BY <2>3 DEF AuthFailureRetryAfter, SignInAttempt, Where, Inside
      <3>2. PICK place \in {"away", "signing", "refused"} : Go(h, place)
        BY <3>1
      <3>3. \E w \in HitRecord :
               /\ hit' = [hit EXCEPT ![h] = w] /\ w.at = place
               /\ w.at # "away" => w.proc = Proc(h) /\ w.proc \in Procs
        BY <3>1, <3>2, GoMoves DEF Places, LimitsInv
      <3>4. QED
        BY <3>3
    <2>4. QED
      BY <2>1, <2>2, <2>3
  <1>3. ~Where(h, "working")
    BY DEF ComeIn, TakeLocal, AuthFailureRetryAfter, SignInAttempt, Where
  <1>4. QED
    BY <1>1, <1>2, <1>3, MoveKeeps

LEMMA TakeRateLimitKeeps ==
    ASSUME LimitsInv, NowOK, now' = now, NEW h \in Hits, TakeRateLimit(h)
    PROVE  LimitsInv'
  <1>0. /\ hit \in [Hits -> HitRecord] /\ hit[h] \in HitRecord /\ admitted[h] = Never /\ now \in 0..MaxNow
        /\ Inside(h) /\ ~Where(h, "working") /\ UNCHANGED <<failed, blocked, slots>> /\ MaxNow \in Nat
    BY ClockAssumption DEF LimitsInv, LimitsTypeOK, TakeRateLimit, Where, Inside, Uncounted, NowOK
  <1>1. \A t \in StatementTimes(h) : t \in 0..now /\ now <= t + 1 /\ t \in 0..Never
    <2>1. hit[h].time \in Nat
      BY <1>0 DEF HitRecord
    <2>2. QED
      BY <1>0, <2>1 DEF StatementTimes, Never
  <1>2. PICK place \in {"entering", "away"} : Go(h, place)
    BY DEF TakeRateLimit, CountShared
  <1>3. \/ UNCHANGED <<shared, admitted>>
        \/ \E t \in StatementTimes(h) :
              /\ shared' = Counted(shared, t)
              /\ \/ admitted' = admitted
                 \/ place = "entering" /\ admitted' = [admitted EXCEPT ![h] = t] /\ shared'.count <= Limit
    <2>2. CASE \E t \in StatementTimes(h) : shared' = Counted(shared, t) /\ admitted' = admitted
      BY <2>2
    <2>3. CASE UNCHANGED <<shared, admitted>>
      BY <2>3
    <2>4. CASE \E t \in StatementTimes(h) : /\ shared' = Counted(shared, t) /\ shared'.count <= Limit
                                            /\ Go(h, "entering") /\ admitted' = [admitted EXCEPT ![h] = t]
      <3>1. place = "entering"
        <4>1. "entering" \in Places \ {"new", "counting", "sharing"} /\ place \in Places \ {"new", "counting", "sharing"}
              /\ LimitsTypeOK /\ Go(h, "entering")
          BY <2>4 DEF Places, LimitsInv
        <4>2. hit'[h].at = "entering"
          BY <1>0, <4>1, GoMoves
        <4>3. hit'[h].at = place
          BY <1>0, <1>2, <4>1, GoMoves
        <4>4. QED
          BY <4>2, <4>3
      <3>2. QED
        BY <2>4, <3>1
    <2>5. QED
      BY <2>2, <2>3, <2>4 DEF TakeRateLimit, CountShared
  <1>4. PICK w \in HitRecord :
           /\ hit' = [hit EXCEPT ![h] = w] /\ w.at = place
           /\ w.at # "away" => w.proc = Proc(h) /\ w.proc \in Procs
    BY <1>0, <1>2, GoMoves DEF Places, LimitsInv
  <1>5. \/ admitted' = admitted
        \/ w.at \notin {"new", "counting", "sharing"} /\ \E t \in 0..Never : admitted' = [admitted EXCEPT ![h] = t]
    BY <1>1, <1>3, <1>4
  <1>6. shared' \in CountRecord /\ SharesKept'
    <2>1. CASE UNCHANGED <<shared, admitted>>
      BY <2>1, SharesStay DEF LimitsInv, LimitsTypeOK
    <2>2. CASE ~UNCHANGED <<shared, admitted>>
      BY <1>0, <1>1, <1>3, <2>2, SharesCounted DEF LimitsInv
    <2>3. QED
      BY <2>1, <2>2
  <1>7. LimitsTypeOK' /\ \A p : Working(p)' = Working(p)
    BY <1>0, <1>4, <1>5, <1>6, HitMoves DEF LimitsInv, LimitsTypeOK
  <1>8. SlotsKept' /\ BlocksEnd'
    BY <1>0, <1>7, SlotsStay DEF LimitsInv, BlocksEnd
  <1>9. QED
    BY <1>6, <1>7, <1>8 DEF LimitsInv

(* What is known of a failure, in the process and in the store, ends.      *)
LEMMA FailureKeeps ==
    ASSUME LimitsInv, NowOK, now' = now, NEW h \in Hits,
           RetryAfter(h) \/ RecordFailure(h) \/ RecordAuthFailure(h)
    PROVE  LimitsInv'
  <1>0. /\ hit \in [Hits -> HitRecord] /\ hit[h] \in HitRecord /\ now \in 0..MaxNow /\ now \in Nat /\ MaxNow \in Nat
        /\ failed \in [Procs -> FailureRecord] /\ blocked \in FailureRecord /\ MaxDelay \in Nat
        /\ Inside(h) /\ Proc(h) \in Procs /\ ~Where(h, "working") /\ UNCHANGED <<shared, admitted, slots>>
        /\ blocked.until <= now + MaxDelay /\ (\A p \in Procs : failed[p].until <= now + MaxDelay)
    BY ClockAssumption, LimitsAssumption
    DEF LimitsInv, LimitsTypeOK, BlocksEnd, NowOK, RetryAfter, RecordFailure, RecordAuthFailure, Where, Inside
  <1>1. CASE RetryAfter(h)
    <2>1. PICK place \in {"away", "asking"} : Go(h, place)
      BY <1>1 DEF RetryAfter
    <2>2. place \in Places \ {"new", "counting", "sharing"} /\ place # "working" /\ LimitsTypeOK
      BY DEF Places, LimitsInv
    <2>3. PICK w \in HitRecord :
             /\ hit' = [hit EXCEPT ![h] = w] /\ w.at = place
             /\ w.at # "away" => w.proc = Proc(h) /\ w.proc \in Procs
      BY <1>0, <2>1, <2>2, GoMoves
    <2>4. PICK entry \in {failed[Proc(h)], NoFailure} : failed' = [failed EXCEPT ![Proc(h)] = entry]
      BY <1>1 DEF RetryAfter
    <2>5. NoFailure \in FailureRecord /\ NoFailure.until = 0
      BY ClockAssumption DEF NoFailure, FailureRecord, Never
    <2>6. failed' \in [Procs -> FailureRecord] /\ blocked' = blocked /\ BlocksEnd'
      BY <1>0, <1>1, <2>4, <2>5 DEF BlocksEnd, RetryAfter
    <2>7. QED
      BY <1>0, <2>2, <2>3, <2>6, MoveKeeps
  <1>2. CASE RecordFailure(h)
    <2> DEFINE entry == Recorded(failed[Proc(h)], now)
               w == [hit[h] EXCEPT !.at = "telling", !.time = now]
    <2>1. entry \in FailureRecord /\ entry.until <= now + MaxDelay
      BY <1>0, RecordedFacts
    <2>2. failed' = [failed EXCEPT ![Proc(h)] = entry]
      BY <1>2 DEF RecordFailure
    <2>3. "telling" \in Places
      BY DEF Places
    <2>4. w \in HitRecord /\ w.at = "telling" /\ w.proc = Proc(h)
      BY <1>0, <2>3 DEF HitRecord, Proc
    <2>5. hit' = [hit EXCEPT ![h] = w]
      BY <1>0, <1>2 DEF RecordFailure
    <2> HIDE DEF entry, w
    <2>6. failed' \in [Procs -> FailureRecord] /\ blocked' = blocked /\ BlocksEnd'
      BY <1>0, <1>2, <2>1, <2>2 DEF BlocksEnd, RecordFailure
    <2>7. QED
      BY <1>0, <2>4, <2>5, <2>6, MoveKeeps
  <1>3. CASE RecordAuthFailure(h)
    <2>1. Go(h, "away") /\ "away" \in Places \ {"new", "counting", "sharing"} /\ LimitsTypeOK
      BY <1>3 DEF RecordAuthFailure, Places, LimitsInv
    <2>2. PICK w \in HitRecord : hit' = [hit EXCEPT ![h] = w] /\ w.at = "away"
      BY <1>0, <2>1, GoMoves
    <2>3. \A t \in StatementTimes(h) : t \in 0..MaxNow /\ t <= now
      <3>1. hit[h].time \in Nat
        BY <1>0 DEF HitRecord
      <3>2. QED
        BY <1>0, <3>1 DEF StatementTimes
    <2>4. \A t \in StatementTimes(h) : Recorded(blocked, t) \in FailureRecord /\ Recorded(blocked, t).until <= now + MaxDelay
      BY <1>0, <2>3, RecordedFacts
    <2>5. blocked' = blocked \/ \E t \in StatementTimes(h) : blocked' = Recorded(blocked, t)
      BY <1>3 DEF RecordAuthFailure
    <2>6. blocked' \in FailureRecord /\ blocked'.until <= now + MaxDelay
      BY <1>0, <2>4, <2>5
    <2>7. failed' \in [Procs -> FailureRecord] /\ BlocksEnd'
      BY <1>0, <1>3, <2>6 DEF BlocksEnd, RecordAuthFailure
    <2>8. QED
      BY <1>0, <2>2, <2>6, <2>7, MoveKeeps
  <1>4. QED
    BY <1>1, <1>2, <1>3

(* Entering the gate and leaving it.                                       *)
LEMMA GateKeeps ==
    ASSUME LimitsInv, NowOK, now' = now, NEW h \in Hits, Admit(h) \/ Leave(h)
    PROVE  LimitsInv'
  <1>0. /\ hit \in [Hits -> HitRecord] /\ Inside(h) /\ Proc(h) \in Procs
        /\ slots \in [Procs -> Nat] /\ UNCHANGED <<shared, admitted, failed, blocked>>
        /\ LimitsTypeOK /\ Slots \in Nat
    BY LimitsAssumption DEF LimitsInv, LimitsTypeOK, Admit, Leave, Where, Inside
  <1>1. PICK p \in Procs : p = Proc(h)
    BY <1>0
  <1>2. PICK place \in {"working", "away"} :
           /\ Go(h, place)
           /\ \/ place = "away" /\ ~Where(h, "working") /\ slots' = slots
              \/ place = "working" /\ ~Where(h, "working") /\ slots[p] < Slots /\ slots' = [slots EXCEPT ![p] = @ + 1]
              \/ place = "away" /\ Where(h, "working") /\ slots' = [slots EXCEPT ![p] = @ - 1]
    BY <1>1 DEF Admit, Leave, Where
  <1>3. PICK w \in HitRecord :
           /\ hit' = [hit EXCEPT ![h] = w] /\ w.at = place
           /\ w.at # "away" => w.proc = Proc(h) /\ w.proc \in Procs
    <2>1. place \in Places \ {"new", "counting", "sharing"}
      BY DEF Places
    <2>2. QED
      BY <1>0, <1>2, <2>1, GoMoves
  <1>4. \A g \in Hits : hit'[g] = IF g = h THEN w ELSE hit[g]
    BY <1>0, <1>3
  <1>5. \A q \in Procs : /\ IsFiniteSet(Working(q)) /\ slots[q] = Cardinality(Working(q))
                         /\ slots[q] \in Nat /\ slots[q] <= Slots
    BY <1>0, HitsFinite DEF LimitsInv, SlotsKept
  <1>6. \A q \in Procs : q # p => Working(q)' = Working(q)
    BY <1>1, <1>3, <1>4 DEF Working, Where, Proc
  <1>7. slots' \in [Procs -> Nat] /\ SlotsKept'
    <2>1. CASE place = "away" /\ ~Where(h, "working") /\ slots' = slots
      <3>1. \A q : Working(q)' = Working(q)
        BY <1>3, <1>4, <2>1 DEF Working, Where, Proc
      <3>2. QED
        BY <1>0, <2>1, <3>1, SlotsStay DEF LimitsInv
    <2>2. CASE place = "working" /\ ~Where(h, "working") /\ slots[p] < Slots /\ slots' = [slots EXCEPT ![p] = @ + 1]
      <3>1. Working(p)' = Working(p) \cup {h} /\ h \notin Working(p)
        BY <1>1, <1>3, <1>4, <2>2 DEF Working, Where, Proc
      <3>2. Cardinality(Working(p)') = Cardinality(Working(p)) + 1
        BY <1>5, <3>1, FS_AddElement
      <3>3. QED
        BY <1>0, <1>5, <1>6, <2>2, <3>2 DEF SlotsKept
    <2>3. CASE place = "away" /\ Where(h, "working") /\ slots' = [slots EXCEPT ![p] = @ - 1]
      <3>1. Working(p)' = Working(p) \ {h} /\ h \in Working(p)
        BY <1>1, <1>3, <1>4, <2>3 DEF Working, Where, Proc
      <3>2. /\ Cardinality(Working(p)') = Cardinality(Working(p)) - 1
            /\ Cardinality(Working(p)') \in Nat
        BY <1>5, <3>1, FS_RemoveElement, FS_CardinalityType
      <3>3. QED
        BY <1>0, <1>5, <1>6, <2>3, <3>2 DEF SlotsKept
    <2>4. QED
      BY <1>2, <2>1, <2>2, <2>3
  <1>8. LimitsTypeOK'
    BY <1>0, <1>3, <1>7, HitMoves DEF LimitsTypeOK
  <1>9. SharesKept' /\ BlocksEnd'
    BY <1>0, SharesStay DEF LimitsInv, BlocksEnd
  <1>10. QED
    BY <1>7, <1>8, <1>9 DEF LimitsInv

(* What a process forgets, and what is gone with it.                       *)
LEMMA ForgettingKeeps ==
    ASSUME LimitsInv, NowOK, now' = now, NEW p \in Procs, Evict(p) \/ Restart(p)
    PROVE  LimitsInv'
  <1>0. /\ hit \in [Hits -> HitRecord] /\ slots \in [Procs -> Nat] /\ failed \in [Procs -> FailureRecord]
        /\ UNCHANGED <<shared, admitted, blocked>> /\ LimitsTypeOK /\ now \in Nat /\ MaxDelay \in Nat /\ Slots \in Nat
    BY LimitsAssumption, ClockAssumption DEF LimitsInv, LimitsTypeOK, Evict, Restart, NowOK
  <1>1. NoFailure \in FailureRecord /\ NoFailure.until = 0
    BY ClockAssumption DEF NoFailure, FailureRecord, Never
  <1>2. failed' = failed \/ failed' = [failed EXCEPT ![p] = NoFailure]
    BY DEF Evict, Restart
  <1>3. failed' \in [Procs -> FailureRecord] /\ BlocksEnd'
    BY <1>0, <1>1, <1>2 DEF LimitsInv, BlocksEnd
  <1>4. SharesKept'
    BY <1>0, SharesStay DEF LimitsInv
  <1>5. CASE Evict(p)
    <2>1. hit' = hit /\ slots' = slots
      BY <1>5 DEF Evict
    <2>2. LimitsTypeOK' /\ \A q : Working(q)' = Working(q)
      BY <1>0, <1>3, <2>1 DEF LimitsTypeOK, Inside, Uncounted, Proc, Working, Where
    <2>3. QED
      BY <1>3, <1>4, <2>1, <2>2, SlotsStay DEF LimitsInv
  <1>6. CASE Restart(p)
    <2>1. hit' = [h \in Hits |-> IF Proc(h) = p THEN AnsweredHit ELSE hit[h]] /\ slots' = [slots EXCEPT ![p] = 0]
      BY <1>6 DEF Restart
    <2>2. \A h \in Hits : hit'[h] = IF hit[h].proc = p THEN AnsweredHit ELSE hit[h]
      BY <2>1 DEF Proc
    <2>3. hit' \in [Hits -> HitRecord]
      BY <1>0, <2>1, AnsweredFields
    <2>4. LimitsTypeOK'
      BY <1>0, <1>3, <2>1, <2>2, <2>3, AnsweredFields DEF LimitsTypeOK, Inside, Uncounted, Proc
    <2>5. \A q \in Procs : Working(q)' = IF q = p THEN {} ELSE Working(q)
      BY <2>2, AnsweredFields DEF Working, Where, Proc
    <2>6. SlotsKept'
      <3>1. \A q \in Procs : slots'[q] = IF q = p THEN 0 ELSE slots[q]
        BY <1>0, <2>1
      <3>2. \A q \in Procs : Cardinality(Working(q)') = IF q = p THEN 0 ELSE Cardinality(Working(q))
        BY <2>5, FS_EmptySet
      <3>3. QED
        BY <1>0, <3>1, <3>2 DEF LimitsInv, SlotsKept
    <2>7. QED
      BY <1>3, <1>4, <2>4, <2>6 DEF LimitsInv
  <1>7. QED
    BY <1>5, <1>6

LEMMA LimitsKeep ==
    ASSUME LimitsInv, NowOK, now' = now, LimitsStep
    PROVE  LimitsInv'
  BY CalmMoveKeeps, TakeRateLimitKeeps, FailureKeeps, GateKeeps, ForgettingKeeps DEF LimitsStep

LEMMA LimitsUnchanged ==
    ASSUME LimitsInv, NowOK, UNCHANGED limitVars, now' = now \/ now' = now + 1
    PROVE  LimitsInv'
  <1>1. LimitsTypeOK' /\ \A p : Working(p)' = Working(p)
    BY DEF LimitsInv, limitVars, LimitsTypeOK, Inside, Uncounted, Proc, Working, Where
  <1>2. SharesKept' /\ SlotsKept'
    BY <1>1, SharesStay, SlotsStay DEF LimitsInv, limitVars
  <1>3. BlocksEnd'
    <2>1. now \in Nat /\ MaxDelay \in Nat /\ blocked.until \in Nat /\ \A p \in Procs : failed[p].until \in Nat
      BY LimitsAssumption, ClockAssumption DEF NowOK, LimitsInv, LimitsTypeOK, FailureRecord
    <2>2. now' \in Nat /\ now <= now' /\ blocked' = blocked /\ failed' = failed
      BY <2>1 DEF limitVars
    <2>3. QED
      BY <2>1, <2>2 DEF LimitsInv, BlocksEnd
  <1>4. QED
    BY <1>1, <1>2, <1>3 DEF LimitsInv

LEMMA LimitsInitial == Init => LimitsInv
  <1> SUFFICES ASSUME Init PROVE LimitsInv
    OBVIOUS
  <1>1. \A kinds \in Asking \cup {[h \in Hits |-> None]} : \A h \in Hits : kinds[h] \in AnyKind
    BY DEF AnyKind
  <1>2. PICK kinds \in Asking \cup {[h \in Hits |-> None]} : hit = [h \in Hits |-> NewHit(kinds[h])]
    BY DEF Init, LimitsInit
  <1>3. \A h \in Hits : NewHit(kinds[h]) \in HitRecord /\ NewHit(kinds[h]).at = "new"
    BY <1>1 DEF NewHit, HitRecord, Places
  <1>4. /\ shared = NoCount /\ failed = [p \in Procs |-> NoFailure] /\ blocked = NoFailure
        /\ slots = [p \in Procs |-> 0] /\ admitted = [h \in Hits |-> Never] /\ now = 0
    BY DEF Init, LimitsInit
  <1>5. /\ NoFailure \in FailureRecord /\ NoFailure.until = 0 /\ NoCount \in CountRecord /\ NoCount.window = Never
        /\ Never \in Nat /\ MaxDelay \in Nat /\ Slots \in Nat
    BY ClockAssumption, LimitsAssumption DEF NoFailure, FailureRecord, NoCount, CountRecord, Never
  <1>6. hit \in [Hits -> HitRecord] /\ \A h \in Hits : hit[h].at = "new"
    BY <1>2, <1>3
  <1>7. LimitsTypeOK
    BY <1>4, <1>5, <1>6 DEF LimitsTypeOK, Inside, Uncounted
  <1>8. \A p : Working(p) = {}
    BY <1>6 DEF Working, Where
  <1>9. SharesKept /\ SlotsKept /\ BlocksEnd
    BY <1>4, <1>5, <1>8, FS_EmptySet DEF SharesKept, SlotsKept, BlocksEnd
  <1>10. QED
    BY <1>7, <1>9 DEF LimitsInv

LEMMA LimitsInvariant == Spec => [](NowOK /\ LimitsInv)
  <1>1. Init => NowOK /\ LimitsInv
    BY LimitsInitial, ClockAssumption DEF Init, NowOK
  <1>2. NowOK /\ LimitsInv /\ [Next]_vars => (NowOK /\ LimitsInv)'
    <2> SUFFICES ASSUME NowOK, LimitsInv, [Next]_vars PROVE (NowOK /\ LimitsInv)'
      OBVIOUS
    <2>1. NowOK'
      BY ClockAssumption DEF Next, vars, Tick, Advance, NowOK
    <2>2. \/ LimitsStep /\ now' = now
          \/ UNCHANGED limitVars /\ (now' = now \/ now' = now + 1)
      BY DEF Next, vars, Tick, Advance
    <2>3. QED
      BY <2>1, <2>2, LimitsKeep, LimitsUnchanged
  <1>3. QED
    BY <1>1, <1>2, PTL DEF Spec

(* Whatever fails, is evicted or starts again, and however late statements *)
(* come to the row: any stretch of time as long as a window lets less pass *)
(* than two windows allow, each gate has the room it says, and every block *)
(* ends after the longest delay; for any numbers of processes and requests *)
(* and for any limits.                                                     *)
THEOREM LimitsAlwaysKept == Spec => []LimitsKept
  <1>1. NowOK /\ LimitsInv => LimitsKept
    <2> SUFFICES ASSUME NowOK, LimitsInv PROVE LimitsKept
      OBVIOUS
    <2>1. ASSUME NEW t \in 0..MaxNow
          PROVE  Cardinality(Passed(t, t + Window - 1)) < 2 * Limit
      <3>1. Limit \in Nat \ {0} /\ t \in Nat /\ Cardinality(Stretch(t)) \in Nat
        BY LimitsAssumption, ClockAssumption, HitsFinite DEF Stretch
      <3>2. CASE shared.window = Never
        <4>1. Stretch(t) = {}
          BY <3>2 DEF Stretch, Passed, LimitsInv, SharesKept
        <4>2. Cardinality(Stretch(t)) = 0
          BY <4>1, FS_EmptySet
        <4>3. QED
          BY <3>1, <4>2 DEF Stretch
      <3>3. CASE shared.window # Never
        <4>1. Cardinality(Stretch(t)) <= Most(shared.window, shared.count, t) /\ shared.count \in Nat
          BY <3>1, <3>3 DEF LimitsInv, SharesKept, LimitsTypeOK, CountRecord
        <4>2. Most(shared.window, shared.count, t) \in Int /\ Most(shared.window, shared.count, t) < 2 * Limit
          BY <3>1, <4>1 DEF Most, Share
        <4>3. QED
          BY <3>1, <4>1, <4>2 DEF Stretch
      <3>4. QED
        BY <3>2, <3>3
    <2>2. QED
      BY <2>1 DEF LimitsInv, SlotsKept, BlocksEnd, LimitsKept
  <1>2. QED
    BY <1>1, LimitsInvariant, PTL
=============================================================================
