------------------------------ MODULE PgClient ------------------------------
(***************************************************************************)
(* One PostgreSQL connection, internal/pgwire/client.go: how it is opened, *)
(* how statements and their answers stay in step, and when it may be given *)
(* back to the pool.                                                       *)
(*                                                                         *)
(* Messages travel in order in both directions and may stay on the way for *)
(* any time.  A caller's context may end and a deadline may pass at any    *)
(* point of a call; the server may end the session whenever it likes, and  *)
(* send notices nobody asked for.  One caller has the connection at a time *)
(* (PgPool); how long a text or a number is does not matter here.          *)
(***************************************************************************)
EXTENDS Naturals, Sequences

CONSTANTS
    Settings,  \* connection strings and what the server is: [dsn, server],
               \* see ParseDSN; a server is [tls, auth, right]
    MaxCalls,  \* bound: statements
    MaxDials   \* bound: connections

ASSUME PgClientAssumption ==
    /\ MaxCalls \in Nat /\ MaxDials \in Nat
    /\ \A setting \in Settings : setting.server.auth \in {"trust", "md5", "scram"}

VARIABLES
    cfg,       \* Config, or None when ParseDSN has refused the string
    kind,      \* which server it is
    server,    \* the session on the server's side
    toServer,  \* messages on their way
    toClient,
    client,    \* the Client, and where its caller is
    query,     \* the call in progress, or the last one
    calls,     \* number of calls so far
    dials      \* number of connections so far

clientVars == <<cfg, kind, server, toServer, toClient, client, query, calls, dials>>

NoConfig == [sslmode |-> "none"]
TLSModes == {"disable", "allow", "prefer", "require", "verify-ca", "verify-full", "insecure-require"}

(* A part of a connection string is a value, "" when it is left out, or    *)
(* "bad": not a number or beyond its bounds, or a quote that never ends.   *)
(* Both forms, URL and key=value, mean the same.                           *)
ParseDSN(dsn) ==
    LET mode == IF dsn.sslmode = "" THEN "verify-full" ELSE dsn.sslmode
    IN IF dsn.number = "bad" \/ dsn.user = "" \/ mode \notin TLSModes THEN NoConfig
       ELSE [sslmode |-> mode]

NewServer == [phase |-> "new", tx |-> "I", skip |-> FALSE]
NewClient(place) == [at |-> place, broken |-> FALSE, tx |-> "?", scr |-> "nil",
                     authenticated |-> FALSE, deadline |-> "none"]
NoQuery == [id |-> 0, sql |-> "none", ext |-> FALSE, left |-> <<>>, sound |-> TRUE, reset |-> FALSE,
            hook |-> "none", out |-> {}, err |-> FALSE]

In(place) == client.at = place
To(c, place) == [c EXCEPT !.at = place]

(* A message from the server: what it is, and of a statement whose answer  *)
(* it is and which transaction status it tells.                            *)
Msg(type) == [type |-> type, id |-> 0, tx |-> "?"]

-----------------------------------------------------------------------------
(* The server (external) *)

Reply(messages) == toClient' = toClient \o messages

Authenticated(messages) ==
    /\ server' = [server EXCEPT !.phase = "ready"]
    /\ Reply(messages \o <<Msg("R0"), Msg("S"), Msg("K"), [Msg("Z") EXCEPT !.tx = "I"]>>)

Greet(m) ==
    \/ m.type = "ssl" /\ Reply(<<Msg(IF kind.tls THEN "S" ELSE "N")>>) /\ UNCHANGED server
    \/ m.type = "startup" /\
       CASE kind.auth = "trust" -> Authenticated(<<>>)
         [] kind.auth = "md5" -> Reply(<<Msg("R5")>>) /\ UNCHANGED server
         [] kind.auth = "scram" -> Reply(<<Msg("R10")>>) /\ UNCHANGED server
    \/ m.type = "first" /\ Reply(<<Msg("R11")>>) /\ UNCHANGED server
    \/ m.type = "final" /\
       IF kind.right THEN Authenticated(<<Msg("R12")>>)
       ELSE Reply(<<Msg("E")>>) /\ server' = [server EXCEPT !.phase = "gone"]

Failed(tx) == IF tx = "I" THEN "I" ELSE "E"

(* How a statement may end in a transaction of that status. *)
Outcomes(m, tx) ==
    LET Of(type) == [Msg(type) EXCEPT !.id = m.id]
        Ok(to, types) == [ok |-> TRUE, tx |-> to, messages |-> [i \in DOMAIN types |-> Of(types[i])]]
        Error == [ok |-> FALSE, tx |-> Failed(tx), messages |-> <<Of("E")>>]
    IN IF m.sql \in {"COMMIT", "ROLLBACK"} THEN {Ok("I", <<"C">>)}
       ELSE IF tx = "E" THEN {Error}
       ELSE IF m.sql = "BEGIN" THEN {Ok("T", <<"C">>)}
       ELSE {Ok(tx, <<"T", "D", "C">>), Error}

Ready(m, tx) == [Msg("Z") EXCEPT !.id = m.id, !.tx = tx]

Serve(m) ==
    \/ /\ m.type = "Q"
       /\ \E end \in Outcomes(m, server.tx) :
            /\ server' = [server EXCEPT !.tx = end.tx]
            /\ Reply(end.messages \o <<Ready(m, end.tx)>>)
    \/ m.type \in {"P", "B", "D", "X"} /\ server.skip /\ UNCHANGED <<server, toClient>>
    \/ /\ m.type \in {"P", "B", "D"} /\ ~server.skip
       /\ \/ /\ Reply(<<Msg(CASE m.type = "P" -> "1" [] m.type = "B" -> "2" [] m.type = "D" -> "n")>>)
             /\ UNCHANGED server
          \/ /\ server' = [server EXCEPT !.skip = TRUE, !.tx = Failed(server.tx)]
             /\ Reply(<<[Msg("E") EXCEPT !.id = m.id]>>)
    \/ /\ m.type = "X" /\ ~server.skip
       /\ \E end \in Outcomes(m, server.tx) :
            /\ server' = [server EXCEPT !.tx = end.tx, !.skip = ~end.ok]
            /\ Reply(end.messages)
    \/ /\ m.type = "Y"
       /\ server' = [server EXCEPT !.skip = FALSE]
       /\ Reply(<<Ready(m, server.tx)>>)

ServerStep ==
    /\ server.phase # "gone" /\ toServer # <<>>
    /\ toServer' = Tail(toServer)
    /\ Greet(Head(toServer)) \/ Serve(Head(toServer))
    /\ UNCHANGED <<cfg, kind, client, query, calls, dials>>

(* The session ends: what is on its way may or may not arrive, a reason may *)
(* come first.                                                             *)
End ==
    /\ server.phase = "ready"
    /\ server' = [server EXCEPT !.phase = "gone"]
    /\ \E n \in 0..Len(toClient) :
        toClient' \in {SubSeq(toClient, 1, n), SubSeq(toClient, 1, n) \o <<Msg("E")>>}
    /\ UNCHANGED <<cfg, kind, toServer, client, query, calls, dials>>

(* A notice, or something no client expects. *)
Speak ==
    /\ server.phase = "ready" /\ toClient = <<>>
    /\ toClient' \in {<<Msg("N")>>, <<Msg("G")>>}
    /\ UNCHANGED <<cfg, kind, server, toServer, client, query, calls, dials>>

-----------------------------------------------------------------------------
(* Connect *)

Disconnect ==
    /\ client' = NewClient("none")
    /\ server' = NewServer /\ toServer' = <<>> /\ toClient' = <<>>

Post(type) == toServer' = Append(toServer, [type |-> type, id |-> 0, sql |-> "none"])

(* Connect as far as the first message; there is a deadline for all of it. *)
Connect ==
    /\ In("none") /\ cfg # NoConfig /\ dials < MaxDials
    /\ dials' = dials + 1
    /\ LET c == [NewClient("tls") EXCEPT !.deadline = "ahead"]
       IN IF cfg.sslmode = "disable" THEN Post("startup") /\ client' = To(c, "startup")
          ELSE Post("ssl") /\ client' = c
    /\ UNCHANGED <<cfg, kind, server, toClient, query, calls>>

(* readMessage finds nothing: the deadline has passed or the session is    *)
(* over.  What the reader holds already can be read past the deadline.     *)
Unreadable ==
    client.deadline = "past" \/ (server.phase = "gone" /\ toClient = <<>>)

NegotiateTLS ==
    /\ In("tls")
    /\ \/ /\ toClient # <<>> /\ toClient' = Tail(toClient)
          /\ \/ Head(toClient).type = "S"
             \/ Head(toClient).type = "N" /\ cfg.sslmode \in {"allow", "prefer"}
          /\ Post("startup") /\ client' = To(client, "startup")
          /\ UNCHANGED server
       \/ /\ \/ Unreadable
             \/ toClient # <<>> /\ Head(toClient).type = "N" /\ cfg.sslmode \notin {"allow", "prefer"}
          /\ Disconnect
    /\ UNCHANGED <<cfg, kind, query, calls, dials>>

(* What an authentication message makes of the client; its scr is "nil",   *)
(* "sent", "continued" or "verified".                                      *)
Advanced(m) ==
    CASE m.type = "R0" /\ client.scr \in {"nil", "verified"} -> {[client EXCEPT !.authenticated = TRUE]}
      [] m.type = "R10" /\ client.scr = "nil" -> {[client EXCEPT !.scr = "sent"]}
      [] m.type = "R11" /\ client.scr = "sent" -> {[client EXCEPT !.scr = "continued"]}
      [] m.type = "R12" /\ client.scr = "continued" -> {[client EXCEPT !.scr = "verified"]}
      [] m.type \in {"S", "K", "N"} -> {client}
      [] m.type = "Z" /\ client.authenticated ->
            {[To(client, "held") EXCEPT !.tx = m.tx, !.deadline = "none"]}
      [] OTHER -> {}

(* sendInitial and continueAuth *)
Respond(m) ==
    CASE m.type = "R10" -> Post("first")
      [] m.type = "R11" -> Post("final")
      [] OTHER -> UNCHANGED toServer

Startup ==
    /\ In("startup")
    /\ \/ /\ toClient # <<>> /\ client' \in Advanced(Head(toClient))
          /\ toClient' = Tail(toClient) /\ Respond(Head(toClient))
          /\ query' = NoQuery
          /\ UNCHANGED server
       \/ /\ Unreadable \/ (toClient # <<>> /\ Advanced(Head(toClient)) = {})
          /\ Disconnect
          /\ UNCHANGED query
    /\ UNCHANGED <<cfg, kind, calls, dials>>

-----------------------------------------------------------------------------
(* Query and QueryParams *)

(* Both as far as the first write: neither asks whether the connection is  *)
(* broken.                                                                 *)
StartQuery(sql, ext, reset) ==
    /\ calls < MaxCalls
    /\ calls' = calls + 1
    /\ query' = [id |-> calls + 1, sql |-> sql, ext |-> ext, sound |-> ~client.broken, reset |-> reset,
                 left |-> IF ext THEN <<"P", "B", "D", "X", "Y">> ELSE <<"Q">>,
                 hook |-> "armed", out |-> {}, err |-> FALSE]
    /\ client' = [To(client, "writing") EXCEPT !.deadline = "ahead"]
    /\ UNCHANGED <<server, toServer, toClient>>

(* The context is over already, or the statement or an argument cannot be  *)
(* sent: an error, and the connection is as it was.                        *)
Refuse ==
    /\ query' = [query EXCEPT !.err = TRUE]
    /\ UNCHANGED <<server, toServer, toClient, client, calls>>

(* What callers do: statements of a transaction or on their own, and       *)
(* rollbackPostgres after an error.                                        *)
Statement ==
    /\ In("held")
    /\ \/ ~query.err /\ \E sql \in {"BEGIN", "COMMIT"} : StartQuery(sql, FALSE, FALSE)
       \/ ~query.err /\ \E ext \in BOOLEAN : StartQuery("SELECT", ext, FALSE)
       \/ query.err /\ StartQuery("ROLLBACK", FALSE, FALSE)
       \/ ~query.err /\ Refuse
    /\ UNCHANGED <<cfg, kind, dials>>

Stop(broken) ==
    /\ client' = [To(client, "leaving") EXCEPT !.broken = @ \/ broken]
    /\ query' = [query EXCEPT !.err = TRUE]

Write ==
    /\ In("writing")
    /\ \/ /\ client.deadline # "past"
          /\ toServer' = Append(toServer, [type |-> Head(query.left), id |-> query.id, sql |-> query.sql])
          /\ query' = [query EXCEPT !.left = Tail(@)]
          /\ client' = To(client, IF Len(query.left) = 1 THEN "reading" ELSE "writing")
       \/ (client.deadline = "past" \/ server.phase = "gone") /\ Stop(TRUE) /\ UNCHANGED toServer
    /\ UNCHANGED <<cfg, kind, server, toClient, calls, dials>>

(* The types that change nothing *)
Ignored(ext) == {"I", "N", "S", "A"} \cup IF ext THEN {"1", "2", "n"} ELSE {}

(* Mutant: a read that fails leaves the connection as it is. *)
ReadFails_Sound == In("reading") /\ Unreadable /\ Stop(FALSE) /\ UNCHANGED toClient

ReadFails == In("reading") /\ Unreadable /\ Stop(TRUE) /\ UNCHANGED toClient

Read ==
    /\ In("reading") /\ toClient # <<>> /\ toClient' = Tail(toClient)
    /\ LET m == Head(toClient)
       IN \/ /\ m.type \in {"T", "D", "C"}
             /\ query' = [query EXCEPT !.out = @ \cup {m.id}] /\ UNCHANGED client
          \/ m.type = "E" /\ query' = [query EXCEPT !.err = TRUE] /\ UNCHANGED client
          \/ m.type = "Z" /\ client' = [To(client, "leaving") EXCEPT !.tx = m.tx] /\ UNCHANGED query
          \/ m.type \in Ignored(query.ext) /\ UNCHANGED <<client, query>>
          \/ m.type \notin {"T", "D", "C", "E", "Z"} \cup Ignored(query.ext) /\ Stop(TRUE)

Receive ==
    /\ Read \/ ReadFails
    /\ UNCHANGED <<cfg, kind, server, toServer, calls, dials>>

(* The context of the call ends, and its AfterFunc begins to run. *)
Cancel ==
    /\ query.hook = "armed"
    /\ query' = [query EXCEPT !.hook = "running"]
    /\ UNCHANGED <<cfg, kind, server, toServer, toClient, client, calls, dials>>

AfterFunc ==
    /\ query.hook = "running"
    /\ query' = [query EXCEPT !.hook = "ran"]
    /\ client' = [client EXCEPT !.deadline = "past"]
    /\ UNCHANGED <<cfg, kind, server, toServer, toClient, calls, dials>>

Expire ==
    /\ client.deadline = "ahead"
    /\ client' = [client EXCEPT !.deadline = "past"]
    /\ UNCHANGED <<cfg, kind, server, toServer, toClient, query, calls, dials>>

(* The deferred function: the AfterFunc is stopped or awaited. *)
Unhooked == query.hook # "running"

(* The call returns to its caller, or to Reset, which gives the connection *)
(* back only when it is idle.                                              *)
Return ==
    /\ In("leaving") /\ Unhooked
    /\ query' = [query EXCEPT !.hook = "none"]
    /\ IF ~query.reset
       THEN client' = [To(client, "held") EXCEPT !.deadline = "none"] /\ UNCHANGED <<server, toServer, toClient>>
       ELSE IF query.err \/ client.tx # "I" THEN Disconnect
       ELSE client' = [To(client, "idle") EXCEPT !.deadline = "none"] /\ UNCHANGED <<server, toServer, toClient>>
    /\ UNCHANGED <<cfg, kind, calls, dials>>

-----------------------------------------------------------------------------
(* The pool: release, with Reset and Close, and acquire *)

Reset ==
    \/ client.broken /\ Disconnect /\ UNCHANGED <<query, calls>>
    \/ client.tx \in {"T", "E"} /\ Disconnect /\ UNCHANGED <<query, calls>>   \* ROLLBACK is refused
    \/ ~client.broken /\ client.tx = "I" /\ client' = To(client, "idle")
       /\ UNCHANGED <<server, toServer, toClient, query, calls>>
    \/ ~client.broken /\ client.tx \in {"T", "E"} /\ StartQuery("ROLLBACK", FALSE, TRUE)

Give ==
    /\ In("held") /\ Reset
    /\ UNCHANGED <<cfg, kind, dials>>

Acquire ==
    /\ In("idle")
    /\ client' = To(client, "held") /\ query' = NoQuery
    /\ UNCHANGED <<cfg, kind, server, toServer, toClient, calls, dials>>

ClientInit ==
    /\ \E setting \in Settings : cfg = ParseDSN(setting.dsn) /\ kind = setting.server
    /\ server = NewServer /\ toServer = <<>> /\ toClient = <<>>
    /\ client = NewClient("none") /\ query = NoQuery
    /\ calls = 0 /\ dials = 0

ClientStep ==
    \/ ServerStep \/ End \/ Speak
    \/ Connect \/ NegotiateTLS \/ Startup
    \/ Statement \/ Write \/ Receive \/ Cancel \/ AfterFunc \/ Expire \/ Return
    \/ Give \/ Acquire

-----------------------------------------------------------------------------
Unasked == {"N", "G", "E"}
Quiet == toServer = <<>> /\ \A i \in DOMAIN toClient : toClient[i].type \in Unasked /\ toClient[i].id = 0

(* A connection and its server stay in step.  Whoever holds a connection   *)
(* that is not broken, or finds it in the pool, has nothing to read that   *)
(* belongs to another statement, knows the transaction status the server   *)
(* has, and meets no deadline or late cancellation of an earlier call; in  *)
(* the pool no transaction is open.  And a call on such a connection that  *)
(* returns without an error returns the answer to its own statement, all   *)
(* of it and nothing else (client.go, Query, QueryParams and Reset).       *)
InStep ==
    /\ In("idle") => ~client.broken /\ client.tx = "I"
    /\ client.at \in {"held", "idle"} =>
        /\ client.deadline = "none" /\ query.hook # "running"
        /\ ~client.broken => Quiet /\ (server.phase = "gone" \/ client.tx = server.tx)
    /\ In("leaving") /\ query.sound /\ ~query.err => query.out = {query.id}
=============================================================================
