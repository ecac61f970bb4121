-------------------------- MODULE MCNotifications --------------------------
(* Instances of Notifications for TLC: all events share one key. *)
EXTENDS Notifications, TLC

OneKey == {Events}
Symmetry ==
    Permutations(Runners) \cup Permutations(Events) \cup Permutations(Jobs)
=============================================================================
