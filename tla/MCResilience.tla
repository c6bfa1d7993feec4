------------------------------ MODULE MCResilience -----------------------------
(* The parts share no state: a behaviour exercises one of them, which TLC      *)
(* chooses at the start, and the others rest.                                  *)
EXTENDS ResilienceProperties, RequestProperties, TLC

CONSTANTS g1, g2, c1, c2, c3, me, o1, v, w

VARIABLE part

MCLead     == (g1 :> 0) @@ (g2 :> 1)
MCCapacity == [sender |-> 2, route |-> 1]
MCRefill   == [sender |-> 2, route |-> 3]

Symmetry == Permutations({c1, c2, c3})

MCInit ==
  /\ LimitInit /\ SwitchInit /\ BreakerInit /\ LifecycleInit
  /\ RequestsInit /\ CreationInit
  /\ part \in {"limit", "switch", "breaker", "lifecycle", "requests", "creation"}
  /\ part # "requests" => user = Nobody
  /\ part # "creation" => maker = NoOne

gatewayVars == <<limitVars, switchVars, breakerVars, lifecycleVars>>
dialogVars  == <<requestVars, creationVars>>

MCNext ==
  /\ UNCHANGED part
  /\ \/ /\ part = "limit"     /\ LimitNext
        /\ UNCHANGED <<switchVars, breakerVars, lifecycleVars, dialogVars>>
     \/ /\ part = "switch"    /\ SwitchNext
        /\ UNCHANGED <<limitVars, breakerVars, lifecycleVars, dialogVars>>
     \/ /\ part = "breaker"   /\ BreakerNext
        /\ UNCHANGED <<limitVars, switchVars, lifecycleVars, dialogVars>>
     \/ /\ part = "lifecycle" /\ LifecycleNext
        /\ UNCHANGED <<limitVars, switchVars, breakerVars, dialogVars>>
     \/ /\ part = "requests"  /\ RequestsNext
        /\ UNCHANGED <<gatewayVars, creationVars>>
     \/ /\ part = "creation"  /\ CreationNext
        /\ UNCHANGED <<gatewayVars, requestVars>>

MCSpec == MCInit /\ [][MCNext]_<<part, gatewayVars, dialogVars>>
===============================================================================
