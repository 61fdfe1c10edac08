--------------------------- MODULE MCSubscriptions ---------------------------
(* Small instances of Subscriptions for TLC. *)
EXTENDS Subscriptions

CONSTANTS c1, c2 \* connections
=============================================================================
