---------------------------- MODULE MCEventRelay ----------------------------
(* One run: runs have a Journal and rows of their own each. *)
EXTENDS EventRelay
=============================================================================
