-------------------------- MODULE DropOldestQueue --------------------------
(***************************************************************************)
(* What a receive queue promises: a first-in first-out queue of at most    *)
(* Size items that drops its oldest items, and only when it is full.       *)
(***************************************************************************)
EXTENDS Naturals, Sequences

CONSTANT Size

VARIABLE q

Init == q = <<>>

\* Items arrive at the end; k old ones make room, none if there is room.
Arrive ==
    \E k \in 0..Len(q) :
        /\ Len(q) - k <= Len(q')
        /\ Len(q') <= Size
        /\ SubSeq(q', 1, Len(q) - k) = SubSeq(q, k + 1, Len(q))
        /\ k > 0 => Len(q') = Size

Take == q # <<>> /\ q' = Tail(q)

\* The owner closes the queue.
Clear == q' = <<>>

Spec == Init /\ [][Arrive \/ Take \/ Clear]_q

=============================================================================
