----------------------------- MODULE MCEventHub -----------------------------
(* A small instance of EventHub for TLC: see EventHub.cfg. *)
EXTENDS EventHub

=============================================================================
