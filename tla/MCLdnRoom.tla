----------------------------- MODULE MCLdnRoom -----------------------------
(* A room that is already open: one network, two joiners competing for its *)
(* slots and for the scanner table, with every frame visible to everyone.  *)
(* The user of the host stops and starts the relay.                        *)
EXTENDS LdnControl, TLC

CONSTANTS h, j, k

MCFirstSeq == [c \in Console |-> 0]
MCMaxSent  == [c \in Console |-> IF c = h THEN 1 ELSE 2]

\* The consoles stay in the session states.
InSession ==
    \A c \in Console : state[c] \in {"AccessPointCreated", "Station", "StationConnected"}

Joiner2 == Permutations({j, k})

=============================================================================
