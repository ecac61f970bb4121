--------------------------- MODULE MCRemediation ----------------------------
(* Instances of Remediation for TLC. *)
EXTENDS Remediation, TLC

CONSTANTS h1, h2, h3, w1, w2

Team(t1, t2, t3) == h1 :> t1 @@ h2 :> t2 @@ h3 :> t3

MCTeams == {
    Team("gitlab", "gitlab", "idle"),       \* two events of one pipeline
    Team("bare", "bare", "idle"),           \* two events without the IDs of a rerun
    Team("workflow", "workflow", "idle"),   \* two workflows of one pull request
    Team("create", "edit", "refresh"),
    Team("create", "create", "remark"),
    Team("slack", "slack", "slack")}        \* one button, sent three times

MCJobKinds == {w1 :> "auto" @@ w2 :> "explicit"}
=============================================================================
