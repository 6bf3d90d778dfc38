----------------------------- MODULE ProxyQueue -----------------------------
(***************************************************************************)
(* The way of a datagram from the tunnel to the game.  The run loop routes *)
(* it (RouteIncomingData) to the socket bound to its port, or keeps it in  *)
(* the manager's ring of pending packets until a socket binds that port.   *)
(* The MITM thread binds, receives and closes.  A bind is two steps: once  *)
(* ProxySocket::Bind has stored the address the run loop finds the socket, *)
(* and only then DeliverPendingPackets hands over what came before.        *)
(*                                                                         *)
(* One socket is modelled; datagrams for "other" ports have none.  Those   *)
(* the session guard refuses never get here.                               *)
(***************************************************************************)
EXTENDS Naturals, Sequences, SequencesExt

CONSTANTS
    RxSize,             \* PROXY_SOCKET_MAX_QUEUE_SIZE
    PendingSize,        \* MaxPendingPackets
    MaxPackets          \* bound: datagrams that arrive

ASSUME QueueAssumption ==
    /\ RxSize \in Nat \ {0}
    /\ PendingSize \in Nat \ {0}
    /\ MaxPackets \in Nat

VARIABLES
    bound,      \* the socket has the port, as the run loop sees it
    rx,         \* its ring: m_rx_ring, m_rx_head, m_rx_tail, m_rx_count
    event,      \* m_receive_event
    pending,    \* the manager's ring, the same four
    call,       \* what the MITM thread is doing
    arrived,    \* datagrams routed so far; their numbers
    last        \* the number of the last one the game took, by its way

vars == <<bound, rx, event, pending, call, arrived, last>>

Way == {"direct", "pending"}

\* A datagram is its number; "way" says whether it had to wait for a bind.  The
\* lengths that the two rings cut it to are left out.
Packet == [id : 0..MaxPackets, port : {"ours", "other"}, way : Way]

Unwritten == [id |-> 0, port |-> "other", way |-> "direct"]

Ring(size) ==
    [buf : [0..size - 1 -> Packet], head : 0..size - 1, tail : 0..size - 1,
     count : 0..size]

Empty(size) ==
    [buf |-> [i \in 0..size - 1 |-> Unwritten], head |-> 0, tail |-> 0,
     count |-> 0]

\* The packets of a ring, oldest first.
Contents(r, size) ==
    [i \in 1..r.count |-> r.buf[(r.head + i - 1) % size]]

Init ==
    /\ bound = FALSE
    /\ rx = Empty(RxSize)
    /\ event = FALSE
    /\ pending = Empty(PendingSize)
    /\ call = "idle"
    /\ arrived = 0
    /\ last = [w \in Way |-> 0]

-----------------------------------------------------------------------------
(* The rings.                                                              *)

\* Mutant: a full ring makes no room.  The new packet overwrites the oldest,
\* the head stays, and the count passes the size.
Dropped_None(r, size) == r

\* A full ring makes room by its oldest packet.
Dropped(r, size) ==
    IF r.count >= size
    THEN [r EXCEPT !.head = (@ + 1) % size, !.count = @ - 1]
    ELSE r

Push(r, size, p) ==
    LET room == Dropped(r, size)
    IN  [room EXCEPT !.buf[room.tail] = p,
                     !.tail = (@ + 1) % size,
                     !.count = @ + 1]

\* IncomingData stores the packet; it signals in the same critical section.
IncomingData(r, p) == Push(r, RxSize, p)

-----------------------------------------------------------------------------
(* The run loop.                                                           *)

\* The socket a datagram for the port goes to, if there is one.
FindAllSocketsByDestination(port) == port = "ours" /\ bound

RouteToSocket ==
    /\ FindAllSocketsByDestination("ours")
    /\ arrived < MaxPackets
    /\ arrived' = arrived + 1
    /\ rx' = IncomingData(rx,
           [id |-> arrived', port |-> "ours", way |-> "direct"])
    /\ event' = TRUE
    /\ UNCHANGED <<bound, pending, call, last>>

RouteToPending(port) ==
    /\ ~FindAllSocketsByDestination(port)
    /\ arrived < MaxPackets
    /\ arrived' = arrived + 1
    /\ pending' = Push(pending, PendingSize,
           [id |-> arrived', port |-> port, way |-> "pending"])
    /\ UNCHANGED <<bound, rx, event, call, last>>

-----------------------------------------------------------------------------
(* The MITM thread.                                                        *)

\* Bind, up to and including ProxySocket::Bind.
Bind ==
    /\ call = "idle"
    /\ ~bound
    /\ bound' = TRUE
    /\ call' = "bind"
    /\ UNCHANGED <<rx, event, pending, arrived, last>>

\* Mutant: a packet that stays does not move up.
Walk_NoCompact(w, i) ==
    LET p == w.buf[w.read]
        next == (w.read + 1) % PendingSize
    IN  IF p.port = "ours"
        THEN [w EXCEPT !.rx = IncomingData(@, p), !.read = next]
        ELSE [w EXCEPT !.write = (@ + 1) % PendingSize, !.kept = @ + 1,
                       !.read = next]

\* One round of the loop of DeliverPendingPackets: the packet at "read" goes
\* to the socket, or moves to "write".
Walk(w, i) ==
    LET p == w.buf[w.read]
        next == (w.read + 1) % PendingSize
    IN  IF p.port = "ours"
        THEN [w EXCEPT !.rx = IncomingData(@, p), !.read = next]
        ELSE [w EXCEPT !.buf[w.write] = p,
                       !.write = (@ + 1) % PendingSize,
                       !.kept = @ + 1,
                       !.read = next]

Walked ==
    FoldLeft(Walk,
        [buf |-> pending.buf, read |-> pending.head, write |-> pending.head,
         kept |-> 0, rx |-> rx],
        [i \in 1..pending.count |-> i])

\* Mutant: what is delivered stays in the ring.
DeliverPendingPackets_Keeps ==
    /\ call = "bind"
    /\ rx' = Walked.rx
    /\ event' = (event \/ Walked.kept < pending.count)
    /\ call' = "idle"
    /\ UNCHANGED <<bound, pending, arrived, last>>

DeliverPendingPackets ==
    /\ call = "bind"
    /\ pending' = [pending EXCEPT !.buf = Walked.buf, !.tail = Walked.write,
                                  !.count = Walked.kept]
    /\ rx' = Walked.rx
    /\ event' = (event \/ Walked.kept < pending.count)
    /\ call' = "idle"
    /\ UNCHANGED <<bound, arrived, last>>

\* The bind that Connect and SendTo do hands nothing over.
AutoBind ==
    /\ call = "idle"
    /\ ~bound
    /\ bound' = TRUE
    /\ UNCHANGED <<rx, event, pending, call, arrived, last>>

\* The packet at the head leaves the ring.
TakeHead ==
    LET p == rx.buf[rx.head]
    IN  /\ rx' = [rx EXCEPT !.head = (@ + 1) % RxSize, !.count = @ - 1]
        /\ last' = [last EXCEPT ![p.way] = p.id]

\* Mutant: the event stays signalled.
ConsumeFront_NoClear(peek) ==
    /\ IF peek THEN UNCHANGED <<rx, last>> ELSE TakeHead
    /\ UNCHANGED event

\* Mutant: the head does not move.
ConsumeFront_Stays(peek) ==
    LET p == rx.buf[rx.head]
    IN  /\ IF peek
           THEN UNCHANGED <<rx, last>>
           ELSE /\ rx' = [rx EXCEPT !.count = @ - 1]
                /\ last' = [last EXCEPT ![p.way] = p.id]
        /\ event' = (event /\ rx'.count # 0)

\* The caller gets the packet at the head.  With MSG_PEEK it stays there, and
\* the call does not count as taking it.
ConsumeFront(peek) ==
    /\ IF peek THEN UNCHANGED <<rx, last>> ELSE TakeHead
    /\ event' = (event /\ rx'.count # 0)

\* RecvFrom that finds a packet.  Without one, a call that may not wait
\* changes nothing.
RecvFrom ==
    /\ call = "idle"
    /\ bound
    /\ rx.count > 0
    /\ \E peek \in BOOLEAN : ConsumeFront(peek)
    /\ UNCHANGED <<bound, pending, call, arrived>>

\* One that may wait does so without the lock.
RecvBlocks ==
    /\ call = "idle"
    /\ bound
    /\ rx.count = 0
    /\ call' = "wait"
    /\ UNCHANGED <<bound, rx, event, pending, arrived, last>>

\* Mutant: the call goes back to wait with the packet in hand.
RecvWakes_Again ==
    /\ call = "wait"
    /\ event
    /\ IF rx.count > 0
       THEN \E peek \in BOOLEAN : ConsumeFront(peek)
       ELSE UNCHANGED <<rx, event, last>>
    /\ UNCHANGED <<bound, pending, call, arrived>>

RecvWakes ==
    /\ call = "wait"
    /\ event
    /\ call' = "idle"
    /\ IF rx.count > 0
       THEN \E peek \in BOOLEAN : ConsumeFront(peek)
       ELSE UNCHANGED <<rx, event, last>>
    /\ UNCHANGED <<bound, pending, arrived>>

\* After RecvBlockTimeout.
RecvTimesOut ==
    /\ call = "wait"
    /\ ~event
    /\ call' = "idle"
    /\ UNCHANGED <<bound, rx, event, pending, arrived, last>>

\* CloseProxySocket: what the game did not read goes with the socket.  The
\* next socket on the port is a new one.
Close ==
    /\ call = "idle"
    /\ bound
    /\ bound' = FALSE
    /\ rx' = Empty(RxSize)
    /\ event' = FALSE
    /\ UNCHANGED <<pending, call, arrived, last>>

Next ==
    \/ RouteToSocket
    \/ \E port \in {"ours", "other"} : RouteToPending(port)
    \/ Bind \/ DeliverPendingPackets \/ AutoBind
    \/ RecvFrom \/ RecvBlocks \/ RecvWakes \/ RecvTimesOut
    \/ Close

Spec == Init /\ [][Next]_vars

\* A thread that waits for an event is run once it is signalled, and the MITM
\* thread does not stop between the two steps of a bind.  The game need not
\* call, and a time-out is not assumed.
FairSpec == Spec /\ WF_vars(RecvWakes) /\ WF_vars(DeliverPendingPackets)

-----------------------------------------------------------------------------
(* Properties.                                                             *)

\* Type invariant of the rings: their indices and counts stay in range.
TypeOK ==
    /\ bound \in BOOLEAN
    /\ rx \in Ring(RxSize)
    /\ event \in BOOLEAN
    /\ pending \in Ring(PendingSize)
    /\ call \in {"idle", "bind", "wait"}
    /\ arrived \in 0..MaxPackets
    /\ last \in [Way -> 0..MaxPackets]

\* The abstract queue, as the packets of the ring from head to tail.
RxQueue == INSTANCE DropOldestQueue WITH q <- Contents(rx, RxSize),
                                         Size <- RxSize

\* The ring of a socket, with its head, tail and count, implements a queue
\* that drops its oldest packets, across wrap-around, overflow and close.
RxIsQueue == RxQueue!Spec

\* The ring of pending packets: a packet is added at the end, at the price of
\* the oldest of a full ring, or all those of a port leave at once and the
\* others stay, in their order.  In-place compaction loses and repeats none.
PendingIsQueue ==
    [][LET old == Contents(pending, PendingSize)
           new == Contents(pending', PendingSize)
       IN  \/ new = SelectSeq(old, LAMBDA p : p.port = "other")
           \/ /\ Len(old) < PendingSize
              /\ Front(new) = old
           \/ /\ Len(old) = PendingSize
              /\ Front(new) = Tail(old)]_pending

\* Receives without MSG_PEEK give the game no datagram twice, and those that
\* took the same way in the order they arrived in.  Nothing is said of two
\* datagrams that took different ways: one that is routed to the socket between
\* the two steps of a bind overtakes those that wait.
InOrder == [][\A w \in Way : last'[w] # last[w] => last'[w] > last[w]]_last

\* The event is signalled exactly while there is a packet to read: a receive
\* never sleeps on data and is never woken for nothing.
EventTracksData == event <=> rx.count > 0

\* A receive that waits returns once there is data, without the time-out.
ReceiveReturns == (call = "wait" /\ rx.count > 0) ~> (call = "idle")

=============================================================================
