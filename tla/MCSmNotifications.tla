------------------------- MODULE MCSmNotifications --------------------------
(* Instances of SmNotifications for TLC. *)
EXTENDS SmNotifications
=============================================================================
