------------------------------ MODULE MCPresence ------------------------------
(* Two gateways, of which the first has all the sockets. *)
EXTENDS Presence

CONSTANTS s1, s2, g1, g2

\* The second gateway only sweeps.
MCHome == [s \in Sessions |-> g1]
===============================================================================
