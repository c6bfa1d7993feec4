----------------------------- MODULE MCMessaging -----------------------------
(* Two events, the second of which the consumer may reject. *)
EXTENDS Messaging

CONSTANTS r1, r2
===============================================================================
