----------------------------- MODULE SlpTunnel -----------------------------
(***************************************************************************)
(* Large game datagrams through the relay: tun::Send stamps an IP          *)
(* identification and slpClientSendIpv4 cuts the packet into Ipv4Frag      *)
(* frames (tunnel/slp_tunnel.cpp, slp/slp_client.c); OnFrag reassembles    *)
(* them in g_frags, one console's table of MaxFragEntries entries.         *)
(*                                                                         *)
(* A datagram is the record of its sender, identification, number of parts *)
(* and time; a part's bytes are the datagram they were cut from.           *)
(***************************************************************************)
EXTENDS Integers, FiniteSets, FiniteSetsExt

CONSTANTS
    Peer,            \* the other consoles, which send
    Sizes,           \* part counts of the datagrams they send
    MaxFragEntries,  \* entries of g_frags (4)
    MaxTotalParts,   \* parts of an entry (4)
    IdMod,           \* identifications are u16: 65536
    FragTimeout,     \* FragTimeoutTicks, in clock steps
    MaxDelay,        \* the relay delivers a frame within this time or never
    Racing,          \* TRUE: the sender's run loop sends as well (LDN frames)
    MaxTime,         \* bound: clock steps of a behaviour
    MaxDatagrams     \* bound: datagrams sent in a behaviour

ASSUME TunnelAssumption ==
    /\ MaxFragEntries \in Nat \ {0} /\ MaxTotalParts \in Nat \ {0}
    /\ Sizes \subseteq Nat \ {0} /\ IdMod \in Nat \ {0}
    /\ FragTimeout \in Nat /\ MaxDelay \in Nat
    /\ Racing \in BOOLEAN /\ MaxTime \in Nat /\ MaxDatagrams \in Nat

VARIABLES
    ipId,    \* g_ip_id of each peer
    loopId,  \* what the peer's run loop read of g_ip_id and has not written back
    sent,    \* the datagrams sent
    net,     \* the Ipv4Frag frames the relay took, as <<datagram, part>>
    frag,    \* g_frags: what each entry holds
    now,     \* the receiver's tick
    up,      \* packets handed to ProcessIpv4, each a function part -> datagram
    heard    \* history: when each fragment first came since the last OnStop

vars == <<ipId, loopId, sent, net, frag, now, up, heard>>

-----------------------------------------------------------------------------
Entry    == 1..MaxFragEntries
Time     == 0..MaxTime
Datagram == [src : Peer, id : 0..(IdMod - 1), total : Sizes, at : Time,
             serial : 0..(MaxDatagrams - 1)]
Parts(d) == 0..(d.total - 1)
Key(d)   == <<d.src, d.id>>

\* An entry: its key, its geometry, and its data, the bytes of the parts seen.
NoData   == [p \in {} |-> 0]
Data     == UNION {[D -> Datagram] : D \in SUBSET (0..(MaxTotalParts - 1))}
Free     == [active |-> FALSE]
Held     == [active : {TRUE}, key : Peer \X (0..(IdMod - 1)), total : Nat, data : Data,
             last : Time]
Fresh(d) == [active |-> TRUE, key |-> Key(d), total |-> 0, data |-> NoData, last |-> now]

-----------------------------------------------------------------------------
(* Sending: tun::Send on the peer's MITM thread.                           *)

\* Mutant: g_ip_id grows past the width of the field.
NextId_Wide(id) == id + 1

NextId(id) == (id + 1) % IdMod

\* What may still be on its way or in the receiver's table.
Recent(d) == now <= d.at + MaxDelay + FragTimeout

\* Mutant: the identification read from bytes 0-1, the same in every packet.
FragId_Constant(s) == 0

\* The IPv4 identification, which Send took from g_ip_id.
FragId(s) == ipId[s]

\* Send, then slpClientSendIpv4; the first sendto that fails ends the datagram
\* after n parts.  A console does not send IdMod datagrams in a few seconds.
Send(s, total, n) ==
    LET d == [src |-> s, id |-> FragId(s), total |-> total, at |-> now,
              serial |-> Cardinality(sent)]
    IN  /\ Cardinality(sent) < MaxDatagrams
        /\ Cardinality({e \in sent : e.src = s /\ Recent(e)}) < IdMod
        /\ n \in 0..total
        /\ ipId' = [ipId EXCEPT ![s] = NextId(@)]
        /\ sent' = sent \cup {d}
        /\ net' = net \cup {<<d, p>> : p \in 0..(n - 1)}
        /\ UNCHANGED <<loopId, frag, now, up, heard>>

\* g_ip_id++ of the peer's run loop: a read, and later a write, with no lock.
LoopRead(s) ==
    /\ Racing
    /\ loopId[s] = IdMod
    /\ loopId' = [loopId EXCEPT ![s] = ipId[s]]
    /\ UNCHANGED <<ipId, sent, net, frag, now, up, heard>>

LoopWrite(s) ==
    /\ loopId[s] # IdMod
    /\ ipId' = [ipId EXCEPT ![s] = NextId(loopId[s])]
    /\ loopId' = [loopId EXCEPT ![s] = IdMod]
    /\ UNCHANGED <<sent, net, frag, now, up, heard>>

\* The peer boots again, which takes a while: g_ip_id starts over.
Reboot(s) ==
    /\ ipId[s] # 0
    /\ ~ \E d \in sent : d.src = s /\ Recent(d)
    /\ ipId' = [ipId EXCEPT ![s] = 0]
    /\ loopId' = [loopId EXCEPT ![s] = IdMod]
    /\ UNCHANGED <<sent, net, frag, now, up, heard>>

-----------------------------------------------------------------------------
(* Receiving: OnFrag on the run loop.                                      *)

\* Mutants: nothing retires a half-complete entry; it is retired a tick early.
Expired_Never(e) == FALSE
Expired_Early(e) == e.active /\ now - e.last >= FragTimeout

Expired(e) == e.active /\ now - e.last > FragTimeout

\* FindFragEntry expires first, whatever it looks for.
Swept == [i \in Entry |-> IF Expired(frag[i]) THEN Free ELSE frag[i]]

Hits(d) == {i \in Entry : Swept[i].active /\ Swept[i].key = Key(d)}

\* The entry to reuse: the first free one, else the least recently updated.
Reuse ==
    LET free == {i \in Entry : ~Swept[i].active}
    IN  IF free # {} THEN Min(free)
        ELSE Min({i \in Entry : \A j \in Entry : Swept[i].last <= Swept[j].last})

\* The index of the entry FindFragEntry returns, and what it holds.
EntryFor(d)      == IF Hits(d) # {} THEN Min(Hits(d)) ELSE Reuse
FindFragEntry(d) == IF Hits(d) # {} THEN Swept[EntryFor(d)] ELSE Fresh(d)

\* Mutant: the geometry of later parts is not compared.
Agrees_Any(e, d) == TRUE

\* The first part of a datagram fixes the geometry.
Agrees(e, d) == DOMAIN e.data = {} \/ e.total = d.total

\* OnFrag.  Parts of our own frames always have clen <= pmtu = SLP_MTU.
OnFrag(d, p) ==
    LET i    == EntryFor(d)
        e    == FindFragEntry(d)
        data == [q \in DOMAIN e.data \cup {p} |-> IF q = p THEN d ELSE e.data[q]]
    IN  /\ <<d, p>> \in net
        /\ now <= d.at + MaxDelay
        /\ d.total <= MaxTotalParts
        /\ \/ /\ ~Agrees(e, d) \/ p \in DOMAIN e.data
              /\ frag' = Swept
              /\ UNCHANGED up
           \/ /\ Agrees(e, d) /\ p \notin DOMAIN e.data
              /\ DOMAIN data # Parts(d)
              /\ frag' = [Swept EXCEPT ![i] = [active |-> TRUE, key |-> e.key,
                             total |-> d.total, data |-> data, last |-> now]]
              /\ UNCHANGED up
           \/ /\ Agrees(e, d) /\ p \notin DOMAIN e.data
              /\ DOMAIN data = Parts(d)
              /\ frag' = [Swept EXCEPT ![i] = Free]
              /\ up' = up \cup {data}
        /\ heard' = IF \E h \in heard : h.of = d /\ h.part = p THEN heard
                    ELSE heard \cup {[of |-> d, part |-> p, at |-> now]}
        /\ UNCHANGED <<ipId, loopId, sent, net, now>>

\* The user stops the relay: OnStop, after the run loop has been joined.
OnStop ==
    /\ frag' = [i \in Entry |-> Free]
    /\ heard' = {}
    /\ UNCHANGED <<ipId, loopId, sent, net, now, up>>

Clock ==
    /\ now < MaxTime
    /\ now' = now + 1
    /\ UNCHANGED <<ipId, loopId, sent, net, frag, up, heard>>

-----------------------------------------------------------------------------
Init ==
    /\ ipId = [s \in Peer |-> 0]
    /\ loopId = [s \in Peer |-> IdMod]
    /\ sent = {}
    /\ net = {}
    /\ frag = [i \in Entry |-> Free]
    /\ now = 0
    /\ up = {}
    /\ heard = {}

Next ==
    \/ \E s \in Peer :
         \/ \E total \in Sizes : \E n \in 0..total : Send(s, total, n)
         \/ LoopRead(s) \/ LoopWrite(s) \/ Reboot(s)
    \/ \E f \in net : OnFrag(f[1], f[2])
    \/ OnStop
    \/ Clock

Spec == Init /\ [][Next]_vars

-----------------------------------------------------------------------------
(* Properties.                                                             *)

\* Type invariant of g_ip_id, g_frags and the frames.
TypeOK ==
    /\ ipId \in [Peer -> 0..(IdMod - 1)]
    /\ loopId \in [Peer -> 0..IdMod]
    /\ sent \subseteq Datagram /\ IsFiniteSet(sent)
    /\ \A f \in net : f[1] \in sent /\ f[2] \in Parts(f[1])
    /\ now \in Time
    /\ frag \in [Entry -> {Free} \cup Held]
    /\ up \subseteq Data

\* No packet "stitched out of two different datagrams" is handed to
\* ProcessIpv4 (slp_tunnel.cpp:180): each is one datagram that was sent, whole.
WholePackets ==
    \A pkt \in up : \E d \in sent : pkt = [p \in Parts(d) |-> d]

\* Even when keys collide, a packet has all its parts, and they agree on
\* sender, identification and geometry.
OneKeyPackets ==
    \A pkt \in up : \A p \in DOMAIN pkt :
       DOMAIN pkt = Parts(pkt[p]) /\ \A q \in DOMAIN pkt : Key(pkt[q]) = Key(pkt[p])

\* Nothing is lost on the way up: while no more datagrams are about than the
\* table has entries, one whose parts all arrive within the timeout of each
\* other is handed up, whatever duplicates and other parts come between.
NoneLost ==
    \A d \in sent :
       /\ Cardinality({Key(e) : e \in sent}) <= MaxFragEntries
       /\ {h.part : h \in {g \in heard : g.of = d}} = Parts(d)
       /\ \A g, h \in heard : g.of = d /\ h.of = d => h.at <= g.at + FragTimeout
       => [p \in Parts(d) |-> d] \in up

\* "the relay's (src_ip, id) reassembly key never collides across datagrams from
\* the same peer" (slp_client.c:465), while both can still be in reassembly.
KeysUnique ==
    \A d, e \in sent :
       d # e /\ Key(d) = Key(e) => \/ d.at > e.at + MaxDelay + FragTimeout
                                   \/ e.at > d.at + MaxDelay + FragTimeout

=============================================================================
