------------------------------ MODULE MCPlayback ------------------------------
(* Small rooms: up to four queue items, two of which show the same video. *)
EXTENDS PlaybackProperties, TLC

CONSTANTS i1, i2, i3, i4, p1, p2, p3

MCVideoOf == [i \in Items |-> IF i \in {i1, i2} THEN "v1" ELSE IF i = i3 THEN "v2" ELSE "v3"]

TwinSymmetry == Permutations({i1, i2}) \cup Permutations({p1, p2})

\* The queue.updated snapshots steer nothing: a run that checks no property of
\* them need not tell states apart by them.
NoSnapshots ==
  <<status, position, outbox, tuple, jobs, stalled, pc,
    [p \in Procs |-> <<reg[p].item, reg[p].before, reg[p].job>>], budget>>
===============================================================================
