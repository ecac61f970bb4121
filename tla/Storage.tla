------------------------------- MODULE Storage -------------------------------
(***************************************************************************)
(* What the two backends of the store stand on: a file that one process    *)
(* writes (StateFile), or a connection to PostgreSQL (PgClient).  A        *)
(* program has one of them.                                                *)
(***************************************************************************)
EXTENDS StateFile, PgClient

VARIABLE backend   \* cfg.StorageBackend

storageVars == <<vars, clientVars, backend>>

StorageInit ==
    /\ backend \in {"embedded", "postgres"}
    /\ Init /\ ClientInit
    /\ backend = "embedded" => cfg = NoConfig
    /\ backend = "postgres" => ~windows   \* it uses no file

StorageNext ==
    \/ backend = "embedded" /\ Next /\ UNCHANGED <<clientVars, backend>>
    \/ backend = "postgres" /\ ClientStep /\ UNCHANGED <<vars, backend>>

StorageSpec == StorageInit /\ [][StorageNext]_storageVars
=============================================================================
