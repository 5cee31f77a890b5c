----------------------------- MODULE MCLifecycle -----------------------------
(* Instances of ProcessLifecycle for TLC. *)
EXTENDS ProcessLifecycle

CONSTANTS k1, k2
==============================================================================
