------------------------------- MODULE SignIn -------------------------------
(***************************************************************************)
(* Signing in through an identity provider, internal/sso/sso.go and        *)
(* saml.go: the flow cookie, the callback, the cache of the provider's     *)
(* signing keys, and the record of SAML responses already used             *)
(* (internal/db/sso_replay.go).                                            *)
(*                                                                         *)
(* Several tabs of one browser sign in; they share one cookie jar, and the *)
(* browser may post a callback twice.  The provider, external, signs with  *)
(* its current key, publishes a new key, and withdraws the old one when it *)
(* likes.  A callback of mode "oidc" reads the cookie, redeems its code,   *)
(* looks for the signing key in the cache or at the provider, and accepts; *)
(* one of mode "saml" reads the cookie, verifies the response and claims   *)
(* it.  Tokens and responses are well-formed and meant for this server:    *)
(* whatever else makes a callback fail may make it end as refused.         *)
(***************************************************************************)
EXTENDS Clock

CONSTANTS
    Tabs,        \* sign-ins, each in a tab of the browser
    Posts,       \* callback requests, <<tab, number>>: a tab may post again
    FlowLife,    \* ticks a flow cookie is good for (10 minutes)
    TokenLife,   \* ticks an ID token is good for, the provider's choice
    CacheLife,   \* ticks the cached keys are used (1 hour)
    FetchLife,   \* ticks a request to the provider may take (20 seconds)
    Skew         \* the configured SAML clock skew

ASSUME SignInAssumption ==
    /\ Posts \subseteq Tabs \X Nat
    /\ FlowLife \in Nat /\ TokenLife \in Nat /\ CacheLife \in Nat \ {0}
    /\ FetchLife \in Nat /\ Skew \in Nat

TabOf(p) == p[1]

VARIABLES
    mode,       \* SSOConfig.Mode
    jar,        \* whose flow the cookie of the browser carries
    flow,       \* flowState.Expires of each sign-in, Never before it begins
    grant,      \* what the provider gave the tab: key, expiry, code redeemed
    phase,      \* how far the provider's key rotation is
    withdrawn,  \* when the provider withdrew its first key
    cache,      \* Manager.jwks and jwksAt
    claims,     \* until when each tab's response counts as used
    post        \* the callback requests

signInVars == <<mode, jar, flow, grant, phase, withdrawn, cache, claims, post>>

(* The rotation: key 1 alone; both published, 1 signs; both, 2 signs; 2.   *)
Published == CASE phase = 0 -> {1} [] phase \in {1, 2} -> {1, 2} [] OTHER -> {2}
Signing == IF phase < 2 THEN 1 ELSE 2

NoGrant == [key |-> 0, expires |-> 0, redeemed |-> FALSE]
NewPost == [at |-> "idle", keys |-> {}, began |-> 0, forced |-> FALSE, verdict |-> None]

SignInInit ==
    /\ mode \in {"oidc", "saml"}
    /\ jar = None
    /\ flow = [t \in Tabs |-> Never]
    /\ grant = [t \in Tabs |-> NoGrant]
    /\ phase = 0 /\ withdrawn = Never
    /\ cache = [keys |-> {}, at |-> 0]
    /\ claims = [t \in Tabs |-> 0]
    /\ post = [p \in Posts |-> NewPost]

Ends(p, v) == post' = [post EXCEPT ![p] = [NewPost EXCEPT !.at = "answer", !.verdict = v]]
Moves(p, place) == post' = [post EXCEPT ![p].at = place]

-----------------------------------------------------------------------------
(* The provider, external. *)

Rotate ==
    /\ mode = "oidc" /\ phase < 3
    /\ \E next \in {phase + 1, 2} : next > phase /\ phase' = next
    /\ withdrawn' = IF phase' = 3 THEN now ELSE withdrawn
    /\ UNCHANGED <<mode, jar, flow, grant, cache, claims, post>>

SignOn(t) ==
    /\ flow[t] # Never /\ grant[t] = NoGrant
    /\ grant' = [grant EXCEPT ![t] = [key |-> Signing, expires |-> now + TokenLife, redeemed |-> FALSE]]
    /\ UNCHANGED <<mode, jar, flow, phase, withdrawn, cache, claims, post>>

-----------------------------------------------------------------------------
(* Login and samlLogin: the flow goes into the cookie, over another's. *)
Login(t) ==
    /\ flow[t] = Never
    /\ flow' = [flow EXCEPT ![t] = now + FlowLife]
    /\ jar' = t
    /\ UNCHANGED <<mode, grant, phase, withdrawn, cache, claims, post>>

(* readFlow and the checks of the callback on what it read. *)
GoodFlow(t) == jar = t /\ now <= flow[t]

(* The requests of a tab are numbered as they arrive. *)
Arrives(p) ==
    /\ post[p].at = "idle" /\ grant[TabOf(p)] # NoGrant
    /\ \A q \in Posts : TabOf(q) = TabOf(p) /\ q[2] < p[2] => post[q].at # "idle"

Callback(p) ==
    /\ Arrives(p)
    /\ IF GoodFlow(TabOf(p))
       THEN Moves(p, "read")
       ELSE Ends(p, "refused")
    /\ UNCHANGED <<mode, jar, flow, grant, phase, withdrawn, cache, claims>>

(* The request goes out; the provider answers with what it publishes then, *)
(* and the answer takes until StoreFetch to arrive.                        *)
StartFetch(p, forced) ==
    post' = [post EXCEPT ![p] = [post[p] EXCEPT !.at = "fetching", !.keys = Published,
                                                !.began = now, !.forced = forced]]

(* Mutant: a token whose key is not cached is refused at once. *)
VerifyIDToken_NoForce(p, keys) ==
    LET token == grant[TabOf(p)] IN
    IF token.key \in keys
    THEN Ends(p, IF now < token.expires THEN "in" ELSE "refused")
    ELSE Ends(p, "nokey")

(* identityFromClaims, and the session that is made of the identity. *)
Identified == {"in", "refused"}

(* verifyIDToken with the keys getJWKS returned: an unknown key asks the   *)
(* provider once more.                                                     *)
VerifyIDToken(p, keys) ==
    LET token == grant[TabOf(p)] IN
    \/ /\ token.key \in keys
       /\ \E v \in Identified : Ends(p, IF now < token.expires THEN v ELSE "refused")
    \/ /\ token.key \notin keys /\ ~post[p].forced
       /\ StartFetch(p, TRUE)
    \/ /\ token.key \notin keys /\ post[p].forced
       /\ Ends(p, "nokey")

Cached == cache.keys # {} /\ now - cache.at < CacheLife

(* getJWKS, not forced. *)
GetJWKS(p) == IF Cached THEN VerifyIDToken(p, cache.keys) ELSE StartFetch(p, FALSE)

(* The provider redeems a code once; with the token the keys are looked up. *)
Exchange(p) ==
    LET t == TabOf(p) IN
    /\ mode = "oidc" /\ post[p].at = "read"
    /\ IF grant[t].redeemed THEN Ends(p, "refused") ELSE GetJWKS(p)
    /\ grant' = [grant EXCEPT ![t].redeemed = TRUE]
    /\ UNCHANGED <<mode, jar, flow, phase, withdrawn, cache, claims>>

(* The answer goes into the cache, over a newer one that came back first. *)
StoreFetch(p) ==
    /\ post[p].at = "fetching"
    /\ cache' = [keys |-> post[p].keys, at |-> now]
    /\ VerifyIDToken(p, post[p].keys)
    /\ UNCHANGED <<mode, jar, flow, grant, phase, withdrawn, claims>>

(* Mutant: the claim lasts as long as the request that made it. *)
ClaimUntil_Short(t) == now + 1

ClaimUntil(t) == flow[t] + Skew

(* inspectSAMLShape and validateSAMLSecurityProfile read the response;     *)
InspectShape(p) ==
    /\ mode = "saml" /\ post[p].at = "read"
    /\ Moves(p, "inspected") \/ Ends(p, "refused")
    /\ UNCHANGED <<mode, jar, flow, grant, phase, withdrawn, cache, claims>>

(* an external program verifies its signature, which takes a while;        *)
VerifyXML(p) ==
    /\ post[p].at = "inspected"
    /\ Moves(p, "verified") \/ Ends(p, "refused")
    /\ UNCHANGED <<mode, jar, flow, grant, phase, withdrawn, cache, claims>>

(* parseSAMLIdentity: the response is good until it expires.               *)
Identity(t) == now < grant[t].expires + Skew

(* The response is claimed (ClaimSSOReplay, whose cutoff is the claim's    *)
(* end); then the session may fail to be sealed.                           *)
ClaimSSOReplay(t) ==
    /\ ClaimUntil(t) > now /\ claims[t] <= now
    /\ claims' = [claims EXCEPT ![t] = ClaimUntil(t)]

Claim(p) ==
    /\ post[p].at = "verified"
    /\ \/ Identity(TabOf(p)) /\ ClaimSSOReplay(TabOf(p))
          /\ \E v \in {"in", "refused"} : Ends(p, v)
       \/ Ends(p, "refused") /\ UNCHANGED claims
    /\ UNCHANGED <<mode, jar, flow, grant, phase, withdrawn, cache>>

(* getDiscovery or the exchange, or getJWKS: the provider does not answer. *)
Fail(p) ==
    /\ mode = "oidc" /\ post[p].at \in {"read", "fetching"}
    /\ Ends(p, "refused")
    /\ UNCHANGED <<mode, jar, flow, grant, phase, withdrawn, cache, claims>>

(* The answer carries the cleared cookie, whatever flow is in the jar. *)
Answer(p) ==
    /\ post[p].at = "answer"
    /\ Moves(p, "done")
    /\ jar' = None
    /\ UNCHANGED <<mode, flow, grant, phase, withdrawn, cache, claims>>

SignInStep ==
    \/ Rotate
    \/ \E t \in Tabs : Login(t) \/ SignOn(t)
    \/ \E p \in Posts :
        \/ Callback(p) \/ Exchange(p) \/ StoreFetch(p) \/ Fail(p)
        \/ InspectShape(p) \/ VerifyXML(p) \/ Claim(p) \/ Answer(p)

(* A fetch is given up after FetchLife. *)
FetchesInTime == \A p \in Posts :
    post[p].at = "fetching" => now < post[p].began + FetchLife

-----------------------------------------------------------------------------

(* A sign-in opens at most one session, although its callback is posted    *)
(* twice, concurrently or later, and although the record of the used       *)
(* response is dropped when it expires.                                    *)
SignedInOnce == \A p, q \in Posts :
    TabOf(p) = TabOf(q) /\ post[p].verdict = "in" /\ post[q].verdict = "in" => p = q

(* The key cache neither refuses nor trusts wrongly: a token is refused    *)
(* for an unknown key only if the provider has withdrawn that key, and a   *)
(* withdrawn key is trusted for less than the cache's life and one fetch,  *)
(* although concurrent fetches overwrite each other's answers.             *)
KeysTrustedInTime == [][\A p \in Posts : post'[p].verdict # post[p].verdict =>
    LET key == grant[TabOf(p)].key IN
    /\ post'[p].verdict = "nokey" => key \notin Published
    /\ post'[p].verdict = "in" /\ mode = "oidc" /\ key \notin Published =>
         now < withdrawn + CacheLife + FetchLife]_signInVars
=============================================================================
