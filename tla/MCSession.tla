------------------------------ MODULE MCSession -------------------------------
(* Two tabs, two accounts that want the same nicknames, three tokens; or one   *)
(* page with its access tokens.  The two share no state: a behaviour exercises *)
(* one of them, which TLC chooses at the start.                                *)
EXTENDS SessionProperties, TLC

CONSTANTS t1, t2, ana, bo, x, y

VARIABLE part

Symmetry ==
  {p @@ q @@ r : p \in Permutations({t1, t2}), q \in Permutations({ana, bo}),
                 r \in Permutations({x, y})}

MCInit ==
  /\ Init /\ AccessInit
  /\ part \in {"families", "access"}
  /\ part # "access" => jar

MCNext ==
  /\ UNCHANGED part
  /\ \/ part = "families" /\ Next       /\ UNCHANGED accessVars
     \/ part = "access"   /\ AccessNext /\ UNCHANGED vars

MCSpec == MCInit /\ [][MCNext]_<<part, vars, accessVars>>
===============================================================================
