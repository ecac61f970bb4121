------------------------------ MODULE MCStorage ------------------------------
(* Instances of Storage for TLC. *)
EXTENDS Storage, TLC

OpSymmetry == Permutations(Ops)

Setting(sslmode, user, number, tls, auth, right) ==
    [dsn |-> [sslmode |-> sslmode, user |-> user, number |-> number],
     server |-> [tls |-> tls, auth |-> auth, right |-> right]]

(* Strings and servers that work, and each way in which they do not. *)
MCSettings == {
    Setting("", "ciradar", "", TRUE, "scram", TRUE),
    Setting("prefer", "ciradar", "", FALSE, "trust", TRUE),
    Setting("", "ciradar", "", FALSE, "scram", TRUE),
    Setting("disable", "ciradar", "", TRUE, "scram", FALSE),
    Setting("disable", "ciradar", "", TRUE, "md5", TRUE),
    Setting("off", "ciradar", "", TRUE, "scram", TRUE),
    Setting("", "", "", TRUE, "scram", TRUE),
    Setting("", "ciradar", "bad", TRUE, "scram", TRUE)}
=============================================================================
