-------------------------------- MODULE MCClient ------------------------------
(* The parts of a page share its socket and its user, and nothing else: a      *)
(* behaviour follows one of them, which TLC chooses at the start, and the      *)
(* others rest.                                                                *)
EXTENDS ClientProperties

CONSTANTS i1, i2, me, o1, t1, t2, t3, u1, u2, g1, g2

VARIABLE part

MCUserOf     == (t1 :> u1) @@ (t2 :> u1) @@ (t3 :> u2)
MCInstanceOf == (t1 :> g1) @@ (t2 :> g2) @@ (t3 :> g2)
Symmetry     == Permutations({i1, i2})

roomOwn == <<timelineVars, tuple, events, published, sent, page, reply, reads, behind, overtaken>>
voteOwn == <<votes, coolingDown, news, told, aired, overlay, hasVoted, coolingUntil,
             banner, starting, casting, misled, lostCast>>
chatOwn == <<send, submitted, messages, persisted, repeats, live, ackTimers, pages,
             orphaned, unheard, slipped>>

hookOwn  == <<roomOwn, voteOwn, chatOwn, playerVars, audienceVars>>

MCInit ==
  /\ RoomPageInit /\ VotePageInit /\ ChatInit /\ PlayerInit /\ AudienceInit
  /\ part \in {"room", "votes", "chat", "player", "audience"}
  /\ part # "room" => socket = "in"
  /\ part # "player" => elapsed = 0 /\ skew = 0

MCNext ==
  /\ UNCHANGED part
  /\ \/ /\ part = "room" /\ RoomPageNext
        /\ UNCHANGED <<voteOwn, chatOwn, playerVars, audienceVars>>
     \/ /\ part = "votes" /\ VotePageNext
        /\ UNCHANGED <<roomOwn, chatOwn, playerVars, audienceVars>>
     \/ /\ part = "chat" /\ ChatNext
        /\ UNCHANGED <<roomOwn, voteOwn, playerVars, audienceVars>>
     \/ /\ part = "player" /\ PlayerNext
        /\ UNCHANGED <<socketVars, roomOwn, voteOwn, chatOwn, audienceVars>>
     \/ /\ part = "audience" /\ AudienceNext
        /\ UNCHANGED <<socketVars, roomOwn, voteOwn, chatOwn, playerVars>>

MCSpec == MCInit /\ [][MCNext]_<<part, socketVars, hookOwn>>
===============================================================================
