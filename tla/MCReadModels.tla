------------------------------ MODULE MCReadModels ----------------------------
(* The read models share no state: a behaviour exercises one of them, which    *)
(* TLC chooses at the start, and the others rest.                              *)
EXTENDS ReadModelProperties

CONSTANTS s1, s2, g1, w1, w2

VARIABLE part

MCHome   == [s \in Sessions |-> g1]
MCPadded == ("lofi" :> "lofi ") @@ ("jazz" :> " jazz")
MCHabit  == [u \in 1 .. 4 |-> u]
Symmetry == Permutations({s1, s2}) \cup Permutations({w1, w2})

Parts == {"viewers", "video", "grid", "search", "watch", "boards"}

MCInit ==
  /\ RoomCardsInit /\ GridInit /\ SearchInit /\ WatchInit /\ LeaderboardsInit
  /\ part \in Parts
  /\ part # "watch" => onAir
  /\ part # "search" => atHome /\ q = ""

MCNext ==
  /\ UNCHANGED part
  /\ \/ /\ part = "viewers" /\ CountNext
        /\ UNCHANGED <<videoVars, gridVars, searchVars, watchVars, boardVars>>
     \/ /\ part = "video" /\ ShowNext
        /\ UNCHANGED <<presenceVars, countVars, gridVars, searchVars, watchVars, boardVars>>
     \/ /\ part = "grid" /\ GridNext
        /\ UNCHANGED <<roomCardVars, searchVars, watchVars, boardVars>>
     \/ /\ part = "search" /\ SearchNext
        /\ UNCHANGED <<roomCardVars, gridVars, watchVars, boardVars>>
     \/ /\ part = "watch" /\ WatchNext
        /\ UNCHANGED <<roomCardVars, gridVars, searchVars, boardVars>>
     \/ /\ part = "boards" /\ LeaderboardsNext
        /\ UNCHANGED <<roomCardVars, gridVars, searchVars, watchVars>>

MCSpec == MCInit /\ [][MCNext]_<<part, roomCardVars, gridVars, searchVars, watchVars, boardVars>>
===============================================================================
