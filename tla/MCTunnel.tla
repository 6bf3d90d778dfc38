------------------------------ MODULE MCTunnel ------------------------------
(* Datagrams of two and three parts, one identification counter that wraps, *)
(* and a table of two entries.                                              *)
EXTENDS SlpTunnel

CONSTANTS p, q

\* The history of arrivals decides nothing.
NoHistory == <<ipId, loopId, sent, net, frag, now, up>>

\* One packet handed up, of two datagrams' worth of fragments, is enough to see
\* whether it is whole.
OnePacket == Cardinality(up) <= 1 /\ Cardinality(net) <= 4

=============================================================================
