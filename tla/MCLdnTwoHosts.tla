--------------------------- MODULE MCLdnTwoHosts ---------------------------
(* Two open networks and one joiner: a session the joiner no longer targets *)
(* still syncs it.  Host a has been up for longer than host b.              *)
EXTENDS LdnControl

CONSTANTS a, b, j,
          Budget  \* frames host a may send: one more lets a sync be overtaken

MCFirstSeq == [c \in Console |-> IF c = a THEN 600 ELSE 0]
MCMaxSent  == [c \in Console |-> IF c = b THEN 2 ELSE IF c = a THEN Budget ELSE 3]

\* The hosts keep their networks, the joiner stays a station.
InSession ==
    /\ \A c \in Hosts : state[c] = "AccessPointCreated"
    /\ \A c \in Joiners : state[c] \in {"Station", "StationConnected"}

\* The game does not call Connect again in a network that Connect has joined.
NoRejoin ==
    \A c \in Joiners :
       call[c] = Idle /\ call'[c].op = "connect"
       => ~(joining[c] /\ state[c] = "StationConnected")

\* Everything happens between two beacons.
OneInterval == NoRejoin /\ due' = due

=============================================================================
