----------------------------- MODULE Credentials -----------------------------
(***************************************************************************)
(* Who may enter: internal/server (authenticate, dashboard_session.go,     *)
(* oauth.go) over the tenants, API keys and objects of the store.          *)
(*                                                                         *)
(* A request offers credentials in the order the server tries them; each   *)
(* is opened, which checks its expiry, and then looked up piece by piece,  *)
(* one call of the store after the other, while an administrator revokes   *)
(* the key, disables the tenant or deletes the OAuth client and retention  *)
(* forgets old records.  There is one tenant, one API key of it, one       *)
(* dashboard session and one SSO session, one OAuth client and one         *)
(* authorization code; a redeemed code gives a token named after the       *)
(* request that redeemed it.  Sealed values are what they were sealed as.  *)
(* MCP requests are followed from where they have been accepted.           *)
(***************************************************************************)
EXTENDS Clock, Sequences, FiniteSets, Functions

CONSTANTS
    Requests,    \* HTTP requests
    SessionLife, \* ticks a dashboard or SSO session is good for (8 hours)
    CodeLife,    \* ticks an authorization code is good for (5 minutes)
    AccessLife,  \* ticks an access token is good for (1 hour)
    Retention    \* ticks a delivery record is kept

(* The code is forgotten only after it has expired. *)
ASSUME CredentialsAssumption ==
    /\ SessionLife \in Nat /\ CodeLife \in Nat /\ AccessLife \in Nat
    /\ Retention \in Nat /\ Retention > CodeLife + 1

VARIABLES
    casting,    \* what each request is, see Kinds, and what else happens
    tenantOn,   \* Tenant.Enabled
    keyOn,      \* APIKey.RevokedAt is zero
    clientOn,   \* the object of kind "oauth_client" exists
    cookie,     \* until when the dashboard session is good, 0 without one
    code,       \* until when the authorization code is good, 0 without one
    redeemed,   \* the delivery record "oauth-code-...": when it was made
    token,      \* until when each access token is good, 0 without one
    revoked,    \* objects of kind "oauth_revocation"
    request,    \* where each request is
    gone        \* history: revoked tokens, whether or not still recorded

credentialVars == <<casting, tenantOn, keyOn, clientOn, cookie, code, redeemed, token, revoked, request, gone>>
storeVars == <<tenantOn, keyOn, clientOn, cookie, code, redeemed, token, revoked, gone>>

(* What a request offers, by its kind. *)
Offers(kind) ==
    CASE kind \in {"login", "key"} -> <<"key">>
      [] kind \in {"cookie", "authorize"} -> <<"cookie">>
      [] kind = "both" -> <<"key", "cookie">>
      [] kind = "oauth" -> <<"oauth", "sso">>
      [] OTHER -> <<>>

(* Mutant: a session of an API key does not look for the key. *)
Lookups_NoKey(credential) ==
    CASE credential = "key" -> <<"active key">>
      [] credential = "cookie" -> <<"tenant">>
      [] credential = "oauth" -> <<"revocation", "client", "tenant">>
      [] credential = "sso" -> <<"tenant">>

(* authenticateToken, authenticateDashboardSession, authenticateOAuthToken *)
(* and the SSO branch of authenticate: the calls of the store, in order.   *)
Lookups(credential) ==
    CASE credential = "key" -> <<"active key">>
      [] credential = "cookie" -> <<"tenant", "key">>
      [] credential = "oauth" -> <<"revocation", "client", "tenant">>
      [] credential = "sso" -> <<"tenant">>

NewRequest == [at |-> "idle", offers |-> <<>>, lookups |-> <<>>, token |-> None,
               began |-> 0, barred |-> {}, tenantBarred |-> FALSE]

CredentialsInit(castings) ==
    /\ casting \in castings
    /\ tenantOn = TRUE /\ keyOn = TRUE
    /\ clientOn = (\A r \in Requests : casting.kind[r] # "register")
    /\ cookie = casting.cookie
    /\ code = 0 /\ redeemed = Never
    /\ token = [r \in Requests |-> 0]
    /\ revoked = {} /\ gone = {}
    /\ request = [r \in Requests |->
        IF casting.kind[r] = "mcp" THEN [NewRequest EXCEPT !.at = "accepted"] ELSE NewRequest]

Kind(r) == casting.kind[r]
At(r, place) == request[r].at = place
Becomes(r, place) == request' = [request EXCEPT ![r].at = place]

-----------------------------------------------------------------------------
(* authenticate *)

(* What no later change makes good again. *)
Ended(credential, t) ==
    CASE credential \in {"key", "cookie"} -> ~keyOn
      [] credential = "oauth" -> t \in gone \/ ~clientOn
      [] OTHER -> FALSE

Entering(r, t) ==
    [request[r] EXCEPT
        !.at = "open", !.offers = Offers(Kind(r)), !.token = t, !.began = now,
        !.barred = {c \in Range(Offers(Kind(r))) : Ended(c, t)},
        !.tenantBarred = ~tenantOn]

Arrive(r) ==
    /\ At(r, "idle") /\ Offers(Kind(r)) # <<>>
    /\ \E t \in IF Kind(r) = "oauth" THEN {q \in Requests : token[q] > 0} ELSE {None} :
         request' = [request EXCEPT ![r] = Entering(r, t)]
    /\ Kind(r) = "authorize" => clientOn   \* looked up before the session is
    /\ UNCHANGED <<casting, storeVars>>

(* openDashboardSession: a dashboard session is good until its expiry. *)
DashboardSession == cookie > now

(* openOAuthValue and the check after it: a token is good at its expiry too. *)
AccessToken(r) == now <= token[request[r].token]

(* readSession: the SSO session was made when the clock began. *)
SSOSession == now < SessionLife

Alive(r, credential) ==
    CASE credential = "cookie" -> DashboardSession
      [] credential = "oauth" -> AccessToken(r)
      [] credential = "sso" -> SSOSession
      [] OTHER -> TRUE

Open(r) ==
    /\ At(r, "open")
    /\ IF request[r].offers = <<>> THEN Becomes(r, "denied")
       ELSE IF Alive(r, Head(request[r].offers))
       THEN request' = [request EXCEPT ![r] = [request[r] EXCEPT !.at = "look", !.lookups = Lookups(Head(request[r].offers))]]
       ELSE request' = [request EXCEPT ![r].offers = Tail(request[r].offers)]
    /\ UNCHANGED <<casting, storeVars>>

Passes(r, lookup) ==
    CASE lookup = "active key" -> keyOn /\ tenantOn
      [] lookup = "tenant" -> tenantOn
      [] lookup = "key" -> keyOn
      [] lookup = "revocation" -> request[r].token \notin revoked
      [] lookup = "client" -> clientOn

(* A lookup whose answer is no, or that fails, leaves the credential. *)
Look(r) ==
    /\ At(r, "look")
    /\ LET rest == Tail(request[r].lookups) IN
       \/ /\ Passes(r, Head(request[r].lookups))
          /\ request' = [request EXCEPT ![r] = [request[r] EXCEPT
                !.at = IF rest = <<>> THEN "accepted" ELSE "look", !.lookups = rest]]
       \/ request' = [request EXCEPT ![r] = [request[r] EXCEPT
                !.at = "open", !.offers = Tail(request[r].offers), !.lookups = <<>>]]
    /\ UNCHANGED <<casting, storeVars>>

-----------------------------------------------------------------------------
(* Handlers *)

(* authToken: the key opens a dashboard session. *)
CreateSessionCookie(r) ==
    /\ At(r, "accepted") /\ Kind(r) = "login"
    /\ cookie' = now + SessionLife
    /\ Becomes(r, "done")
    /\ UNCHANGED <<casting, tenantOn, keyOn, clientOn, code, redeemed, token, revoked, gone>>

(* oauthRegister: the client is stored, below a limit.                     *)
RegisterClient(r) ==
    /\ At(r, "idle") /\ Kind(r) = "register"
    /\ clientOn' \in {clientOn, TRUE}
    /\ Becomes(r, "done")
    /\ UNCHANGED <<casting, tenantOn, keyOn, cookie, code, redeemed, token, revoked, gone>>

(* oauthAuthorize, approved: a code is sealed.                             *)
Authorize(r) ==
    /\ At(r, "accepted") /\ Kind(r) = "authorize"
    /\ code' = now + CodeLife
    /\ Becomes(r, "done")
    /\ UNCHANGED <<casting, tenantOn, keyOn, clientOn, cookie, redeemed, token, revoked, gone>>

(* oauthToken up to the record: the code is good and its client exists.    *)
BeginExchange(r) ==
    /\ At(r, "idle") /\ Kind(r) = "exchange" /\ code > 0
    /\ IF now <= code /\ clientOn
       THEN request' = [request EXCEPT ![r] = [request[r] EXCEPT !.at = "redeem", !.began = now]]
       ELSE Becomes(r, "refused")
    /\ UNCHANGED <<casting, storeVars>>

(* RecordDelivery says whether the code is fresh, or fails; then the token *)
(* goes out, good from before the record was made.                         *)
Redeem(r) ==
    /\ At(r, "redeem")
    /\ \/ /\ redeemed = Never /\ redeemed' = now
          /\ token' = [token EXCEPT ![r] = request[r].began + AccessLife]
          /\ Becomes(r, "done")
       \/ Becomes(r, "refused") /\ UNCHANGED <<redeemed, token>>
    /\ UNCHANGED <<casting, tenantOn, keyOn, clientOn, cookie, code, revoked, gone>>

(* oauthRevoke: whoever has the token; the record is written again.        *)
Revoke(r) ==
    /\ At(r, "idle") /\ Kind(r) = "revoke"
    /\ \E t \in Requests : token[t] > 0 /\ revoked' = revoked \cup {t} /\ gone' = gone \cup {t}
    /\ Becomes(r, "done")
    /\ UNCHANGED <<casting, tenantOn, keyOn, clientOn, cookie, code, redeemed, token>>

-----------------------------------------------------------------------------
(* The administrator and retention *)

RevokeAPIKey ==
    /\ keyOn /\ keyOn' = FALSE
    /\ UNCHANGED <<casting, tenantOn, clientOn, cookie, code, redeemed, token, revoked, request, gone>>

SetTenantEnabled ==
    /\ tenantOn' = ~tenantOn
    /\ request' = IF tenantOn THEN request
                  ELSE [r \in Requests |-> [request[r] EXCEPT !.tenantBarred = FALSE]]
    /\ UNCHANGED <<casting, keyOn, clientOn, cookie, code, redeemed, token, revoked, gone>>

DeleteOAuthClient ==
    /\ clientOn /\ clientOn' = FALSE
    /\ UNCHANGED <<casting, tenantOn, keyOn, cookie, code, redeemed, token, revoked, request, gone>>

(* A revocation goes when its token has expired, or, recorded without the  *)
(* expiry and in PostgreSQL, after two lives of a token.                   *)
Forgettable(t) == token[t] <= now

Cleanup ==
    /\ revoked' = {t \in revoked : ~Forgettable(t)}
    /\ redeemed' = IF redeemed # Never /\ redeemed + Retention < now THEN Never ELSE redeemed
    /\ <<revoked', redeemed'>> # <<revoked, redeemed>>
    /\ UNCHANGED <<casting, tenantOn, keyOn, clientOn, cookie, code, token, request, gone>>

Outside ==
    \/ "key" \in casting.outside /\ RevokeAPIKey
    \/ "tenant" \in casting.outside /\ SetTenantEnabled
    \/ "client" \in casting.outside /\ DeleteOAuthClient
    \/ "cleanup" \in casting.outside /\ Cleanup

CredentialsStep ==
    \/ Outside
    \/ \E r \in Requests :
        \/ Arrive(r) \/ Open(r) \/ Look(r)
        \/ CreateSessionCookie(r) \/ RegisterClient(r) \/ Authorize(r) \/ BeginExchange(r) \/ Redeem(r) \/ Revoke(r)

(* A request ends within a tick of its beginning (WriteTimeout). *)
RequestsInTime == \A r \in Requests :
    request[r].at \in {"open", "look", "redeem"} => now <= request[r].began

-----------------------------------------------------------------------------

(* A credential that was taken back before a request began does not let    *)
(* the request in, although its lookups are separate calls of the store,   *)
(* another credential may do so, and retention forgets revocations: a      *)
(* token may be let in only when it is at its expiry anyway.               *)
RevokedStaysOut == [][\A r \in Requests : request'[r].at = "accepted" /\ ~At(r, "accepted") =>
    LET credential == Head(request[r].offers) IN
    /\ ~request[r].tenantBarred
    /\ credential \in request[r].barred => credential = "oauth" /\ now >= token[request[r].token]]_credentialVars

(* An authorization code gives one access token, although the client asks  *)
(* again, concurrently or later, and retention forgets its record.         *)
CodeRedeemedOnce == Cardinality({r \in Requests : token[r] > 0}) <= 1
=============================================================================
