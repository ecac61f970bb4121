---------------------------- MODULE MCPgObjects ----------------------------
(* The calls of one tenant, in groups that share objects. *)
EXTENDS PgObjects

MCKindOrder == <<"analysis", "extension:deployment", "extension:oauth_client", "incident",
                 "tenant", "test_case_stats", "test_quarantine">>

Obj(kind, tenant, id) == [kind |-> kind, tenant |-> tenant, id |-> id]
System == 1
A == 2
B == 3

TenantA == Obj("tenant", System, A)
TenantB == Obj("tenant", System, B)
Incident(i) == Obj("incident", A, i)
Analysis(tenant, i) == Obj("analysis", tenant, i)
Observation(i) == Obj("test_observation", A, i)
Stats(i) == Obj("test_case_stats", A, i)
Quarantine(i) == Obj("test_quarantine", A, i)
Client(i) == Obj("extension:oauth_client", A, i)
Deployment == Obj("extension:deployment", A, 1)

MCObjects ==
    {TenantA, TenantB, Analysis(A, 1), Analysis(A, 2), Analysis(B, 1), Quarantine(1), Deployment}
    \cup UNION {{Incident(i), Observation(i), Stats(i), Client(i)} : i \in 1..2}
MCPresent == {TenantA, Analysis(A, 1), Incident(1), Incident(2), Stats(1), Quarantine(1),
              Deployment}
MCOpen == {Incident(1)}

Call(op, specs, writes) ==
    [op |-> op, specs |-> specs, writes |-> writes, needs |-> {}, lacks |-> {}, removes |-> {}]

UpsertIncident(i) == Call("set", <<Obj("incident", A, 0)>>, {Incident(i)})
ResolveStale == Call("sweep", <<Obj("incident", Every, 0)>>, {Incident(1), Incident(2)})
Cleanup == [Call("cleanup", <<>>, {}) EXCEPT
              !.removes = {Analysis(A, 1), Incident(1), Incident(2)}]
RecordAnalysis(t, a) ==
    [Call("set", <<Obj("tenant", System, t.id), Obj("analysis", t.id, 0)>>, {a}) EXCEPT !.needs = {t}]
SetTenantEnabled == [Call("set", <<Obj("tenant", System, 0)>>, {TenantA}) EXCEPT !.needs = {TenantA}]
CreateTenant == [Call("set", <<Obj("tenant", System, 0)>>, {TenantB}) EXCEPT !.lacks = {TenantB}]
TestSpecs(i) == <<Obj("test_case_stats", A, i), Obj("test_quarantine", A, i)>>
Observe(i, j) == Call("observe", TestSpecs(i) \o TestSpecs(j), {Observation(i), Observation(j)})
ObserveOne(i) == Call("observe", TestSpecs(i), {Observation(i)})
SetQuarantine(i) ==
    [Call("set", TestSpecs(i), {Stats(i), Quarantine(i)}) EXCEPT !.needs = {Stats(i)}]
RemoveQuarantine == [Call("set", TestSpecs(1), {Stats(1)}) EXCEPT !.removes = {Quarantine(1)}]
Put(o) == Call("put", <<o>>, {o})
PutBelowLimit(i) == Call("limited", <<Obj("extension:oauth_client", A, 0)>>, {Client(i)})
Delete(o) == [Call("delete", <<>>, {}) EXCEPT !.removes = {o}]

Incidents == <<UpsertIncident(1), UpsertIncident(2), ResolveStale, Cleanup>>
Tenants == <<RecordAnalysis(TenantA, Analysis(A, 2)), RecordAnalysis(TenantB, Analysis(B, 1)),
             SetTenantEnabled, CreateTenant, Cleanup>>
Tests == <<Observe(1, 2), Observe(2, 1), ObserveOne(2), SetQuarantine(1), RemoveQuarantine>>
Extensions == <<Put(Deployment), Delete(Deployment), PutBelowLimit(1), PutBelowLimit(2),
                Delete(Client(1))>>

MCMenus == {Range(Incidents), Range(Tenants), Range(Tests), Range(Extensions)}

(* Transactions are numbers, and make their calls in the order of the      *)
(* menus: which of them makes which call is no difference.                 *)
Place(c) == CHOOSE i \in 1..20 : (Incidents \o Tenants \o Tests \o Extensions)[i] = c

MCInit == Init /\ \A t, u \in Txs : t < u => Place(call[t]) <= Place(call[u])

MCSpec == MCInit /\ [][Next]_vars /\ Fairness
=============================================================================
