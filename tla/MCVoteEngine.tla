----------------------------- MODULE MCVoteEngine -----------------------------
(* One item, two votes. *)
EXTENDS VoteEngine, TLC

CONSTANTS i1, i2, i3, p1, p2, v1, v2, v3, u1, u2

MCVideoOf == [i \in Items |-> i]

RoomSymmetry == Permutations(Users) \cup Permutations(Votes) \cup Permutations(Procs)

\* The snapshots of the queue steer nothing, nor do the events about an item but
\* that it started, nor which verdicts a vote had.
NoSnapshots ==
  <<status, position, {i \in Items : HasEvent("started", i)}, tuple, queue, pc,
    [p \in Procs |-> <<reg[p].item, reg[p].before, reg[p].job>>], budget,
    vote, [v \in Votes |-> Len(verdicts[v])], ballots, cooling, closed, resolution, recovered,
    vpc, vreg, voteFaults, heard, voteRaces>>
===============================================================================
