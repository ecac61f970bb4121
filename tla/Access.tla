------------------------------- MODULE Access -------------------------------
(***************************************************************************)
(* Everything about entering the server: signing in, authenticating        *)
(* requests, how often an address may ask, and what accepted MCP requests  *)
(* share.  The parts run by one clock; all but Limits within one process.  *)
(***************************************************************************)
EXTENDS SignIn, McpRuntime, Limits

CONSTANTS
    Castings,  \* what the requests of a behaviour are, a bound
    Asking     \* the same for the requests of an address, see Limits

(* A casting follows one OAuth client and one authorization code. *)
Kinds == {"no", "login", "key", "cookie", "both", "authorize", "exchange", "oauth", "revoke", "register", "mcp"}
Alone(kind, c) == \A q, r \in Requests : c.kind[q] = kind /\ c.kind[r] = kind => q = r

ASSUME CastingsAssumption == \A c \in Castings :
    /\ c.kind \in [Requests -> Kinds] /\ c.cookie \in Nat
    /\ Alone("authorize", c) /\ Alone("register", c)

vars == <<now, signInVars, credentialVars, mcpVars, limitVars>>

Init ==
    /\ now = 0
    /\ CredentialsInit(Castings)
    /\ SignInInit /\ (mode = "saml") = ("saml" \in casting.outside)
    /\ McpInit
    /\ LimitsInit(IF "limits" \in casting.outside THEN Asking ELSE {[h \in Hits |-> None]})

(* Requests and fetches do not outlast their deadlines; casting.last is a  *)
(* bound.                                                                  *)
Tick ==
    /\ now < casting.last /\ Advance /\ FetchesInTime /\ RequestsInTime
    /\ UNCHANGED <<signInVars, credentialVars, mcpVars, limitVars>>

Next ==
    \/ Tick
    \/ mode \in casting.outside /\ SignInStep /\ UNCHANGED <<now, credentialVars, mcpVars, limitVars>>
    \/ CredentialsStep /\ UNCHANGED <<now, signInVars, mcpVars, limitVars>>
    \/ McpStep /\ UNCHANGED <<now, signInVars, credentialVars, limitVars>>
    \/ "limits" \in casting.outside /\ LimitsStep /\ UNCHANGED <<now, signInVars, credentialVars, mcpVars>>

Spec == Init /\ [][Next]_vars

(* Nothing that is good for one use is used twice, whatever tabs, requests *)
(* and crashes meet: an answer of the identity provider, an authorization  *)
(* code, the confirmation of an MCP action.                                *)
UsedOnce == SignedInOnce /\ CodeRedeemedOnce /\ ConfirmedOnce
=============================================================================
