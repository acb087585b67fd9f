--------------------------- MODULE MCDiscordOutbox ---------------------------
(* One card whose row goes through every state.  Cards share nothing but the
   dispatchers, and rows that clean up are keyed by message. *)
EXTENDS DiscordOutbox, TLC

CONSTANTS p1, d1, d2

Symmetry == Permutations(Dispatchers)
=============================================================================
