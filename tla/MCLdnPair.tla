----------------------------- MODULE MCLdnPair -----------------------------
(* One host and one joiner that make every call, on a relay that routes by *)
(* address but loses, repeats and reorders.                                *)
EXTENDS LdnControl

CONSTANTS h, j

\* The host's first frame is a ScanResp; its numbers wrap between its first and
\* its second sync.  With the third, a stale sync can be inside the window of
\* three or outside of it.
MCFirstSeq == [c \in Console |-> IF c = h THEN SeqMod - 3 ELSE 0]
MCMaxSent  == [c \in Console |-> IF c = h THEN 4 ELSE 3]

\* Nothing reads m_disconnect_reason but the game.
NoReason == <<state, info, hostVars, joinVars, call, netVars, envVars>>

\* Once there are frames on the relay, one of the two is in a session: two
\* consoles that are both out of it drop everything the other sends.
OneInSession ==
    \/ frames = {}
    \/ state[h] = "AccessPointCreated"
    \/ state[j] \in {"Station", "StationConnected"}

\* A second Scan would be the same frame, which the relay may repeat anyway.
ScanOnce == call'[j].op = "scan" => \A f \in frames : f.type # "Scan"

=============================================================================
