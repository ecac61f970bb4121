------------------------------ MODULE MCAccess ------------------------------
(***************************************************************************)
(* Instances of Access for TLC: what runs side by side is chosen at the    *)
(* start, so that the castings add up instead of multiplying.              *)
(***************************************************************************)
EXTENDS Access, TLC

CONSTANTS r1, r2, r3, r4, r5, t1, t2

Of(k1, k2, k3, k4, k5) == r1 :> k1 @@ r2 :> k2 @@ r3 :> k3 @@ r4 :> k4 @@ r5 :> k5
Quiet == Of("no", "no", "no", "no", "no")
Asks(kinds, until, outside) == [kind |-> kinds, op |-> Quiet, cookie |-> until, outside |-> outside, last |-> MaxNow]
Mcp(ops) == [kind |-> [r \in Requests |-> IF ops[r] = "no" THEN "no" ELSE "mcp"],
             op |-> ops, cookie |-> 0, outside |-> {}, last |-> MaxNow]

MCAsking == {<<"webhook", "webhook", "webhook">>, <<"login", "login", None>>}

MCPosts == {<<t1, 1>>, <<t1, 2>>, <<t2, 1>>}

MCCastings == {
    [Asks(Quiet, 0, {"oidc"}) EXCEPT !.last = 2],
    Asks(Quiet, 0, {"saml"}),
    Asks(Quiet, 0, {"limits"}),
    Asks(Of("login", "cookie", "both", "no", "no"), 0, {"key", "tenant"}),
    Asks(Of("authorize", "exchange", "exchange", "oauth", "revoke"), SessionLife, {"client", "cleanup"}),
    Asks(Of("authorize", "exchange", "oauth", "revoke", "register"), SessionLife, {"tenant", "cleanup"}),
    Mcp(Of("initialize", "prepare", "act", "act", "delete")),
    Mcp(Of("initialize", "stream", "prepare", "delete", "delete"))}
=============================================================================
