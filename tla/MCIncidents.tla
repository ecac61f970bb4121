----------------------------- MODULE MCIncidents ----------------------------
(* Two jobs of two repositories of two organizations. *)
EXTENDS Incidents, TLC

CONSTANTS o1, o2

MCRepoOf == o1 :> "r1" @@ o2 :> "r2"
MCOrgOf == o1 :> "a" @@ o2 :> "b"
MCProviderStates == o1 :> {TRUE, FALSE} @@ o2 :> {FALSE}
MCCriticality == o1 :> 0 @@ o2 :> 2
=============================================================================
