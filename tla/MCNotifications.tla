--------------------------- MODULE MCNotifications ---------------------------
(* Instances of Notifications for TLC. *)
EXTENDS Notifications

CONSTANTS k1, k2

(* The defaults; everything ignored; every end worth a turn. *)
SomeConfigs ==
    {DEFAULT_ATTENTION}
    \cup {[onSuccess |-> a, onFailure |-> a, onKilled |-> a] : a \in {"ignore", "turn"}}
===============================================================================
