-------------------------- MODULE BsdSocketsProofs --------------------------
(***************************************************************************)
(* Proofs about BsdSockets, for any number of descriptors, sessions and    *)
(* ports.  Types hold for both kinds of socket.  Ports are kept apart for  *)
(* a game whose sockets are all of one kind.                               *)
(***************************************************************************)
EXTENDS BsdSockets, TLAPS

\* What the port operators return: ports the pool knows or was asked for, and
\* the bitsets stay within the pool.
LEMMA PortTypes ==
    ASSUME TypeOK, NEW k \in Kind, NEW port \in Port \cup {NoPort}
    PROVE  /\ Obtainable(k, port) \subseteq Port
           /\ \A p \in Obtainable(k, port) :
                /\ p \notin ports[k]
                /\ Marked(k, p) \in [Kind -> SUBSET Ephemeral]
  <1>1. Obtainable(k, port) \subseteq Port
    BY SocketsAssumption DEF Obtainable, TypeOK, Port
  <1>2. ASSUME NEW p \in Obtainable(k, port) PROVE p \notin ports[k]
    BY <1>2 DEF Obtainable
  <1>3. ASSUME NEW p \in Obtainable(k, port)
        PROVE  Marked(k, p) \in [Kind -> SUBSET Ephemeral]
    BY DEF Marked, TypeOK
  <1> QED BY <1>1, <1>2, <1>3

\* A descriptor the map has is of a kind the game uses.
LEMMA TrackedKind ==
    ASSUME TypeOK, NEW f \in Fd, info[f].tracked
    PROVE  info[f] \in Info /\ info[f].kind \in Kind
  <1>1. info[f] \in Info \/ info[f] = NoInfo
    BY DEF TypeOK
  <1>2. info[f] # NoInfo
    BY DEF NoInfo
  <1> QED BY <1>1, <1>2 DEF Info

\* Likewise a socket the registry has.
LEMMA RegisteredKind ==
    ASSUME TypeOK, NEW f \in Fd, proxy[f].up
    PROVE  proxy[f] \in Proxy
  <1>1. proxy[f] \in Proxy \/ proxy[f] = NoProxy
    BY DEF TypeOK
  <1>2. proxy[f] # NoProxy
    BY DEF NoProxy
  <1> QED BY <1>1, <1>2

\* CreateProxySocket returns a socket of the registry's type.
LEMMA CreatedType ==
    ASSUME TypeOK, NEW f \in Fd, info[f].tracked
    PROVE  Created(f) \in Proxy
  <1>1. CASE proxy[f].up
    BY <1>1, RegisteredKind DEF Created
  <1>2. CASE ~proxy[f].up
    BY <1>2, TrackedKind DEF Created, Proxy
  <1> QED BY <1>1, <1>2

\* A call that marks a descriptor as promoted keeps the map's type.
LEMMA PromotedType ==
    ASSUME TypeOK, NEW f \in Fd, info[f].tracked, Promoted(f)
    PROVE  info' \in [Fd -> Info \cup {NoInfo}]
  <1>1. [info[f] EXCEPT !.isProxy = TRUE] \in Info
    BY TrackedKind DEF Info
  <1>2. info' = [info EXCEPT ![f] = [info[f] EXCEPT !.isProxy = TRUE]]
    BY DEF Promoted
  <1> QED BY <1>1, <1>2 DEF TypeOK

\* Closing sockets keeps the types of the registry and the pool.
LEMMA ClosedType ==
    ASSUME TypeOK, NEW fds \in SUBSET Fd, Closed(fds)
    PROVE  /\ proxy' \in [Fd -> Proxy \cup {NoProxy}]
           /\ ports' \in [Kind -> SUBSET Ephemeral]
  BY DEF Closed, TypeOK

\* Registering one socket keeps the registry's type.
LEMMA RegisterType ==
    ASSUME TypeOK, NEW f \in Fd, NEW r \in Proxy,
           proxy' = [proxy EXCEPT ![f] = r]
    PROVE  proxy' \in [Fd -> Proxy \cup {NoProxy}]
  BY DEF TypeOK

\* A socket that a port is stored in is a socket of the registry's type.
LEMMA WithPortType ==
    ASSUME NEW r \in Proxy, NEW p \in Port,
           NEW st \in {"Created", "Bound", "Connected"}
    PROVE  [r EXCEPT !.state = st, !.port = p] \in Proxy
  BY DEF Proxy

\* The three outcomes of a bind keep the types.
LEMMA BindTypes ==
    ASSUME TypeOK, NEW f \in Fd, NEW addr \in Address,
           NEW port \in Port \cup {NoPort},
           \/ BindInUse(f, addr, port)
           \/ BindInvalid(f, addr, port)
           \/ BindDone(f, addr, port)
    PROVE  TypeOK'
  <1>0. info[f].tracked
    BY DEF BindInUse, BindInvalid, BindDone, BindPromotes
  <1>1. info[f].kind \in Kind /\ Created(f) \in Proxy
    BY <1>0, TrackedKind, CreatedType
  <1>2. CASE BindInUse(f, addr, port)
    BY <1>1, <1>2 DEF BindInUse, TypeOK
  <1>3. CASE BindInvalid(f, addr, port)
    BY <1>1, <1>3, PortTypes DEF BindInvalid, TypeOK
  <1>4. CASE BindDone(f, addr, port)
    <2>1. PICK p \in Obtainable(info[f].kind, port) :
            /\ ports' = Marked(info[f].kind, p)
            /\ proxy' = [proxy EXCEPT ![f] =
                   [Created(f) EXCEPT !.state = "Bound", !.port = p]]
      BY <1>4 DEF BindDone
    <2>2. p \in Port /\ ports' \in [Kind -> SUBSET Ephemeral]
      BY <1>1, <2>1, PortTypes
    <2>3. [Created(f) EXCEPT !.state = "Bound", !.port = p] \in Proxy
      BY <1>1, <2>2, WithPortType
    <2>4. info' \in [Fd -> Info \cup {NoInfo}]
      BY <1>0, <1>4, PromotedType DEF BindDone
    <2> QED BY <1>4, <2>1, <2>2, <2>3, <2>4 DEF TypeOK, BindDone, Promoted
  <1> QED BY <1>2, <1>3, <1>4

\* The outcomes of a connect keep the types.
LEMMA ConnectTypes ==
    ASSUME TypeOK, NEW f \in Fd,
           ConnectNew(f) \/ ConnectNoPort(f) \/ ConnectAgain(f)
    PROVE  TypeOK'
  <1>0. info[f].tracked
    BY DEF ConnectNew, ConnectNoPort, ConnectAgain
  <1>1. info[f].kind \in Kind /\ Created(f) \in Proxy
    BY <1>0, TrackedKind, CreatedType
  <1>2. CASE ConnectNew(f)
    <2> DEFINE st == IF info[f].kind = "dgram" THEN "Connected" ELSE "Bound"
    <2>1. PICK p \in Obtainable(info[f].kind, NoPort) :
            /\ ports' = Marked(info[f].kind, p)
            /\ proxy' = [proxy EXCEPT ![f] =
                   [Created(f) EXCEPT !.state = st, !.port = p]]
      BY <1>2 DEF ConnectNew
    <2>2. p \in Port /\ ports' \in [Kind -> SUBSET Ephemeral]
      BY <1>1, <2>1, PortTypes
    <2>3. st \in {"Created", "Bound", "Connected"}
      OBVIOUS
    <2>4. [Created(f) EXCEPT !.state = st, !.port = p] \in Proxy
      <3> HIDE DEF st
      <3> QED BY <1>1, <2>2, <2>3, WithPortType
    <2>5. info' \in [Fd -> Info \cup {NoInfo}]
      BY <1>0, <1>2, PromotedType DEF ConnectNew, TypeOK
    <2> QED BY <1>2, <2>1, <2>2, <2>4, <2>5 DEF TypeOK, ConnectNew, Promoted
  <1>3. CASE ConnectNoPort(f)
    BY <1>1, <1>3 DEF ConnectNoPort, TypeOK
  <1>4. CASE ConnectAgain(f)
    <2>1. proxy[f] \in Proxy
      BY <1>4, RegisteredKind DEF ConnectAgain
    <2>2. ASSUME NEW st \in {"Bound", "Connected"},
                 proxy' = [proxy EXCEPT ![f].state = st]
          PROVE  proxy' \in [Fd -> Proxy \cup {NoProxy}]
      <3>1. [proxy[f] EXCEPT !.state = st] \in Proxy
        BY <2>1 DEF Proxy
      <3> QED BY <2>2, <3>1 DEF TypeOK
    <2>3. proxy' \in [Fd -> Proxy \cup {NoProxy}]
      BY <1>4, <2>2 DEF ConnectAgain
    <2>4. info' \in [Fd -> Info \cup {NoInfo}]
      BY <1>0, <1>4, PromotedType DEF ConnectAgain, TypeOK
    <2> QED BY <1>4, <2>3, <2>4 DEF ConnectAgain, TypeOK, Promoted
  <1> QED BY <1>2, <1>3, <1>4

\* The first datagram to the virtual subnet keeps the types.
LEMMA SendToTypes ==
    ASSUME TypeOK, NEW f \in Fd, SendToPromotes(f)
    PROVE  TypeOK'
  <1>0. info[f].tracked /\ Promoted(f)
    BY DEF SendToPromotes
  <1>1. info[f].kind \in Kind /\ Created(f) \in Proxy
    BY <1>0, TrackedKind, CreatedType
  <1>2. info' \in [Fd -> Info \cup {NoInfo}]
    BY <1>0, PromotedType
  <1>3. CASE \E p \in Obtainable(info[f].kind, NoPort) :
               /\ ports' = Marked(info[f].kind, p)
               /\ proxy' = [proxy EXCEPT ![f] =
                      [Created(f) EXCEPT !.state = "Bound", !.port = p]]
    <2>1. PICK p \in Obtainable(info[f].kind, NoPort) :
            /\ ports' = Marked(info[f].kind, p)
            /\ proxy' = [proxy EXCEPT ![f] =
                   [Created(f) EXCEPT !.state = "Bound", !.port = p]]
      BY <1>3
    <2>2. p \in Port /\ ports' \in [Kind -> SUBSET Ephemeral]
      BY <1>1, <2>1, PortTypes
    <2>3. [Created(f) EXCEPT !.state = "Bound", !.port = p] \in Proxy
      BY <1>1, <2>2, WithPortType
    <2> QED BY <1>0, <1>2, <2>1, <2>2, <2>3 DEF TypeOK, Promoted
  <1>4. CASE proxy' = [proxy EXCEPT ![f] = Created(f)] /\ UNCHANGED ports
    BY <1>0, <1>1, <1>2, <1>4 DEF TypeOK, Promoted
  <1>5. CASE UNCHANGED <<proxy, ports>>
    BY <1>0, <1>2, <1>5 DEF TypeOK, Promoted
  <1> QED BY <1>3, <1>4, <1>5 DEF SendToPromotes

\* Every call keeps the types.
LEMMA TypeStep ==
    ASSUME TypeOK, [Next]_vars
    PROVE  TypeOK'
  <1>1. ASSUME NEW s \in Session, NEW f \in Fd, NEW k \in Kind, Socket(s, f, k)
        PROVE  TypeOK'
    BY <1>1 DEF Socket, TypeOK, Info
  <1>2. ASSUME NEW f \in Fd, NEW value \in BOOLEAN, SetBroadcast(f, value)
        PROVE  TypeOK'
    <2>1. [info[f] EXCEPT !.broadcast = value] \in Info
      BY <1>2, TrackedKind DEF SetBroadcast, Info
    <2>2. info' = [info EXCEPT ![f] = [info[f] EXCEPT !.broadcast = value]]
      BY <1>2 DEF SetBroadcast
    <2> QED BY <1>2, <2>1, <2>2 DEF SetBroadcast, TypeOK
  <1>3. ASSUME NEW f \in Fd, Close(f)
        PROVE  TypeOK'
    <2>1. info' \in [Fd -> Info \cup {NoInfo}]
      BY <1>3 DEF Close, TypeOK
    <2>2. CASE info[f].isProxy
      BY <1>3, <2>1, <2>2, ClosedType DEF Close, TypeOK
    <2>3. CASE ~info[f].isProxy
      BY <1>3, <2>1, <2>3 DEF Close, TypeOK
    <2> QED BY <2>2, <2>3
  <1>4. ASSUME NEW f \in Fd, NEW new \in Fd, TrackCopy(f, new)
        PROVE  TypeOK'
    BY <1>4 DEF TrackCopy, TypeOK
  <1>5. ASSUME NEW s \in Session, SessionEnd(s)
        PROVE  TypeOK'
    <2>1. info' \in [Fd -> Info \cup {NoInfo}]
      BY <1>5 DEF SessionEnd, TypeOK
    <2>2. PICK fds \in SUBSET Fd : Closed(fds)
      BY <1>5 DEF SessionEnd
    <2> QED BY <1>5, <2>1, <2>2, ClosedType DEF TypeOK, SessionEnd
  <1>6. CASE UNCHANGED vars
    BY <1>6 DEF vars, TypeOK
  <1> QED
    BY <1>1, <1>2, <1>3, <1>4, <1>5, <1>6, BindTypes, ConnectTypes, SendToTypes
       DEF Next, SocketExempt, DuplicateSocket, FcntlDupFd, Accept

\* Types: whatever the game calls, in whatever order, every descriptor's entry
\* and every proxy socket is whole, and the pool holds ports of its range only.
THEOREM SocketTypes == Spec => []TypeOK
  <1>1. Init => TypeOK
    BY DEF Init, TypeOK
  <1>2. TypeOK /\ [Next]_vars => TypeOK'
    BY TypeStep
  <1> QED BY <1>1, <1>2, PTL DEF Spec

-----------------------------------------------------------------------------
(* Ports.  Distinct ports alone are not inductive: that a bind gets a port *)
(* no socket has needs every bound port to be marked, and that a close     *)
(* unmarks no other socket's port needs the ports to be distinct.          *)

\* The consequents of PortsDistinct and PortsHeld.
Apart ==
    \A f, g \in Registered :
        f # g /\ proxy[f].port \in Ephemeral => proxy[f].port # proxy[g].port

Held ==
    \A f \in Registered :
        proxy[f].port \in Ephemeral => proxy[f].port \in ports[proxy[f].kind]

\* Descriptors and registered sockets are of the kinds the game uses.
KindsUsed ==
    \A f \in Fd :
        /\ info[f].tracked => info[f].kind \in kinds
        /\ proxy[f].up => proxy[f].kind \in kinds

Inv == TypeOK /\ KindsUsed /\ Apart /\ Held

\* With one kind, a registered socket uses the pool of its descriptor's kind.
LEMMA SameKind ==
    ASSUME KindsUsed, OneKind, NEW f \in Fd, proxy[f].up, NEW k \in kinds
    PROVE  proxy[f].kind = k
  BY DEF OneKind, KindsUsed

\* Nothing is lost by marking more ports.
LEMMA MoreMarked ==
    ASSUME Inv, UNCHANGED proxy, \A k \in Kind : ports[k] \subseteq ports'[k]
    PROVE  Apart' /\ Held'
  <1>1. Apart'
    BY DEF Inv, Apart, Registered
  <1>2. ASSUME NEW f \in Fd, proxy[f].up, proxy[f].port \in Ephemeral
        PROVE  proxy[f].port \in ports'[proxy[f].kind]
    <2>1. proxy[f].kind \in Kind
      BY <1>2, RegisteredKind DEF Inv, Proxy
    <2>2. proxy[f].port \in ports[proxy[f].kind]
      BY <1>2 DEF Inv, Held, Registered
    <2> QED BY <2>1, <2>2
  <1> QED BY <1>1, <1>2 DEF Held, Registered

\* A socket that has no port yet, or keeps the one it has, changes nothing
\* either.
LEMMA NoPortYet ==
    ASSUME Inv, NEW f \in Fd, NEW r, r.port = NoPort,
           proxy' = [proxy EXCEPT ![f] = r], UNCHANGED ports
    PROVE  Apart' /\ Held'
  <1>1. \A g \in Fd : proxy'[g] = IF g = f THEN r ELSE proxy[g]
    BY DEF Inv, TypeOK
  <1>2. NoPort \notin Ephemeral
    BY SocketsAssumption
  <1>3. Apart'
    BY <1>1, <1>2 DEF Inv, Apart, Registered
  <1>4. Held'
    BY <1>1, <1>2 DEF Inv, Held, Registered
  <1> QED BY <1>3, <1>4

\* The second half of the above.
LEMMA SamePort ==
    ASSUME Inv, NEW f \in Fd, NEW r, proxy[f].up,
           r.port = proxy[f].port, r.kind = proxy[f].kind,
           proxy' = [proxy EXCEPT ![f] = r], UNCHANGED ports
    PROVE  Apart' /\ Held'
  <1>1. \A g \in Fd : proxy'[g] = IF g = f THEN r ELSE proxy[g]
    BY DEF Inv, TypeOK
  <1>3. Apart'
    BY <1>1 DEF Inv, Apart, Registered
  <1>4. Held'
    BY <1>1 DEF Inv, Held, Registered
  <1> QED BY <1>3, <1>4

\* A socket that gets a port gets one that no socket has.
LEMMA NewPort ==
    ASSUME Inv, OneKind, NEW f \in Fd, NEW k \in kinds,
           NEW r \in Proxy, r.kind \in kinds,
           NEW p, p \notin ports[k], r.port = p,
           proxy' = [proxy EXCEPT ![f] = r],
           ports' = Marked(k, p)
    PROVE  Apart' /\ Held'
  <1>1. \A g \in Fd : proxy'[g] = IF g = f THEN r ELSE proxy[g]
    BY DEF Inv, TypeOK
  <1>2. r.kind = k /\ \A g \in Fd : proxy[g].up => proxy[g].kind = k
    <2>1. r.kind = k
      BY DEF OneKind
    <2> QED BY <2>1, SameKind DEF Inv
  <1>3. ports'[k] = ports[k] \cup ({p} \cap Ephemeral)
    <2>1. k \in Kind
      BY DEF Inv, TypeOK
    <2> QED BY <2>1 DEF Marked, Inv, TypeOK
  <1>4. \A g \in Fd : proxy[g].up /\ proxy[g].port \in Ephemeral
                        => proxy[g].port \in ports[k]
    BY <1>2 DEF Inv, Held, Registered
  <1>5. Apart'
    BY <1>1, <1>4 DEF Inv, Apart, Registered
  <1>6. Held'
    BY <1>1, <1>2, <1>3, <1>4 DEF Held, Registered
  <1> QED BY <1>5, <1>6

\* Closing sockets unmarks their ports and no other's.
LEMMA ClosedPorts ==
    ASSUME Inv, NEW fds \in SUBSET Fd, Closed(fds)
    PROVE  Apart' /\ Held'
  <1> DEFINE gone == {f \in fds : proxy[f].up}
  <1>1. \A g \in Fd : proxy'[g] = IF g \in gone THEN NoProxy ELSE proxy[g]
    BY DEF Closed
  <1>2. \A g \in Fd : proxy'[g].up
                        => g \notin gone /\ proxy[g].up /\ proxy'[g] = proxy[g]
    BY <1>1 DEF NoProxy
  <1>3. Apart'
    BY <1>2 DEF Inv, Apart, Registered
  <1>4. ASSUME NEW g \in Fd, proxy'[g].up, proxy'[g].port \in Ephemeral
        PROVE  proxy'[g].port \in ports'[proxy'[g].kind]
    <2>1. g \notin gone /\ proxy[g].up /\ proxy'[g] = proxy[g]
      BY <1>2, <1>4
    <2>2. proxy[g].port \in ports[proxy[g].kind]
      BY <1>4, <2>1 DEF Inv, Held, Registered
    <2>3. proxy[g].port \notin PortsOf(gone, proxy[g].kind)
      <3>1. ASSUME NEW h \in gone, proxy[h].kind = proxy[g].kind
            PROVE  proxy[h].port # proxy[g].port
        BY <1>4, <2>1, <3>1 DEF Inv, Apart, Registered
      <3> QED BY <3>1 DEF PortsOf
    <2>4. proxy[g].kind \in Kind
      BY <2>1, RegisteredKind DEF Inv, Proxy
    <2>5. ports'[proxy[g].kind]
            = ports[proxy[g].kind] \ PortsOf(gone, proxy[g].kind)
      BY <2>4 DEF Closed
    <2> QED BY <2>1, <2>2, <2>3, <2>5
  <1> QED BY <1>3, <1>4 DEF Held, Registered

\* A socket that was just registered has no port, one that was there keeps it.
LEMMA CreatedPort ==
    ASSUME TypeOK, NEW f \in Fd, info[f].tracked
    PROVE  \/ Created(f).port = NoPort
           \/ /\ proxy[f].up
              /\ Created(f).port = proxy[f].port
              /\ Created(f).kind = proxy[f].kind
  BY DEF Created

\* Every call of a game with one kind of socket keeps the ports apart.
LEMMA PortStep ==
    ASSUME Inv, OneKind, Next
    PROVE  Apart' /\ Held'
  <1>0. TypeOK
    BY DEF Inv
  <1>1. ASSUME UNCHANGED <<proxy, ports>>
        PROVE  Apart' /\ Held'
    BY <1>1, MoreMarked
  <1>2. ASSUME NEW f \in Fd, info[f].tracked,
               proxy' = [proxy EXCEPT ![f] = Created(f)], UNCHANGED ports
        PROVE  Apart' /\ Held'
    <2>1. CASE Created(f).port = NoPort
      BY <1>2, <2>1, NoPortYet
    <2>2. CASE /\ proxy[f].up
               /\ Created(f).port = proxy[f].port
               /\ Created(f).kind = proxy[f].kind
      BY <1>2, <2>2, SamePort
    <2> QED BY <1>0, <1>2, <2>1, <2>2, CreatedPort
  <1>3. ASSUME NEW f \in Fd, info[f].tracked,
               NEW port \in Port \cup {NoPort},
               NEW st \in {"Created", "Bound", "Connected"},
               \E p \in Obtainable(info[f].kind, port) :
                 /\ ports' = Marked(info[f].kind, p)
                 /\ proxy' = [proxy EXCEPT ![f] =
                        [Created(f) EXCEPT !.state = st, !.port = p]]
        PROVE  Apart' /\ Held'
    <2>1. PICK p \in Obtainable(info[f].kind, port) :
            /\ ports' = Marked(info[f].kind, p)
            /\ proxy' = [proxy EXCEPT ![f] =
                   [Created(f) EXCEPT !.state = st, !.port = p]]
      BY <1>3
    <2>2. info[f].kind \in Kind /\ Created(f) \in Proxy
      BY <1>0, <1>3, TrackedKind, CreatedType
    <2>3. p \in Port /\ p \notin ports[info[f].kind]
      BY <1>0, <2>2, PortTypes
    <2>7. info[f].kind \in kinds /\ Created(f).kind \in kinds
      BY <1>3 DEF Inv, KindsUsed, Created
    <2> DEFINE r == [Created(f) EXCEPT !.state = st, !.port = p]
    <2>4. r \in Proxy
      BY <2>2, <2>3, WithPortType
    <2>5. r.port = p /\ r.kind \in kinds
      BY <2>2, <2>7 DEF Proxy
    <2>6. proxy' = [proxy EXCEPT ![f] = r]
      BY <2>1
    <2> HIDE DEF r
    <2> QED BY <2>1, <2>2, <2>3, <2>7, <2>4, <2>5, <2>6, NewPort
  <1>4. ASSUME NEW f \in Fd, NEW addr \in Address,
               NEW port \in Port \cup {NoPort}, BindInvalid(f, addr, port)
        PROVE  Apart' /\ Held'
    <2>1. UNCHANGED proxy /\ info[f].tracked
      BY <1>4 DEF BindInvalid, BindPromotes
    <2>2. PICK p \in Obtainable(info[f].kind, port) :
            ports' = Marked(info[f].kind, p)
      BY <1>4 DEF BindInvalid
    <2>3. \A k \in Kind : ports[k] \subseteq ports'[k]
      BY <1>0, <2>2 DEF Marked, TypeOK
    <2> QED BY <2>1, <2>3, MoreMarked
  <1>5. ASSUME NEW f \in Fd, ConnectAgain(f)
        PROVE  Apart' /\ Held'
    <2>1. proxy[f] \in Proxy /\ proxy[f].up /\ UNCHANGED ports
      BY <1>0, <1>5, RegisteredKind DEF ConnectAgain
    <2>2. PICK st \in {"Bound", "Connected"} :
            proxy' = [proxy EXCEPT ![f] = [proxy[f] EXCEPT !.state = st]]
      BY <1>5 DEF ConnectAgain
    <2> DEFINE r == [proxy[f] EXCEPT !.state = st]
    <2>3. r \in Proxy /\ r.port = proxy[f].port /\ r.kind = proxy[f].kind
      BY <2>1 DEF Proxy
    <2>4. proxy' = [proxy EXCEPT ![f] = r]
      BY <2>2
    <2> HIDE DEF r
    <2> QED BY <2>1, <2>3, <2>4, SamePort
  <1>6. ASSUME NEW fds \in SUBSET Fd, Closed(fds)
        PROVE  Apart' /\ Held'
    BY <1>6, ClosedPorts
  <1>7. ASSUME NEW f \in Fd, NEW addr \in Address,
               NEW port \in Port \cup {NoPort},
               BindInUse(f, addr, port) \/ BindDone(f, addr, port)
        PROVE  Apart' /\ Held'
    BY <1>2, <1>3, <1>7 DEF BindInUse, BindDone, BindPromotes
  <1>8. ASSUME NEW f \in Fd, ConnectNew(f) \/ ConnectNoPort(f)
        PROVE  Apart' /\ Held'
    <2>1. CASE ConnectNoPort(f)
      BY <1>2, <2>1 DEF ConnectNoPort
    <2>2. CASE ConnectNew(f)
      <3> DEFINE st == IF info[f].kind = "dgram" THEN "Connected" ELSE "Bound"
      <3>1. info[f].tracked /\ \E p \in Obtainable(info[f].kind, NoPort) :
              /\ ports' = Marked(info[f].kind, p)
              /\ proxy' = [proxy EXCEPT ![f] =
                     [Created(f) EXCEPT !.state = st, !.port = p]]
        BY <2>2 DEF ConnectNew
      <3>2. st \in {"Created", "Bound", "Connected"}
        OBVIOUS
      <3> HIDE DEF st
      <3> QED BY <1>3, <3>1, <3>2
    <2> QED BY <1>8, <2>1, <2>2
  <1>9. ASSUME NEW f \in Fd, SendToPromotes(f)
        PROVE  Apart' /\ Held'
    BY <1>1, <1>2, <1>3, <1>9 DEF SendToPromotes
  <1>10. ASSUME NEW f \in Fd, Close(f)
         PROVE  Apart' /\ Held'
    BY <1>1, <1>6, <1>10 DEF Close
  <1>11. ASSUME NEW s \in Session, SessionEnd(s)
         PROVE  Apart' /\ Held'
    <2>1. PICK fds \in SUBSET Fd : Closed(fds)
      BY <1>11 DEF SessionEnd
    <2> QED BY <1>6, <2>1
  <1>12. ASSUME \/ \E s \in Session, f \in Fd, k \in Kind : Socket(s, f, k)
                \/ \E f \in Fd, value \in BOOLEAN : SetBroadcast(f, value)
                \/ \E f, new \in Fd : TrackCopy(f, new)
         PROVE  Apart' /\ Held'
    BY <1>1, <1>12 DEF Socket, SetBroadcast, TrackCopy
  <1> QED
    BY <1>4, <1>5, <1>7, <1>8, <1>9, <1>10, <1>11, <1>12
       DEF Next, SocketExempt, DuplicateSocket, FcntlDupFd, Accept

\* The kinds of a game's sockets are those it asked for.
LEMMA KindStep ==
    ASSUME TypeOK, KindsUsed, [Next]_vars
    PROVE  KindsUsed' /\ kinds' = kinds
  <1>1. kinds' = kinds
    BY DEF Next, vars, Socket, SetBroadcast, BindInUse, BindInvalid, BindDone,
           ConnectNew, ConnectNoPort, ConnectAgain, SendToPromotes, Close,
           SocketExempt, DuplicateSocket, FcntlDupFd, Accept, TrackCopy,
           SessionEnd, Promoted
  <1>2. ASSUME NEW f \in Fd PROVE info'[f].tracked => info'[f].kind \in kinds
    <2>1. ASSUME NEW g \in Fd, Promoted(g)
          PROVE  info'[f].tracked => info'[f].kind \in kinds
      <3>1. CASE f = g /\ info[g] \in Info
        BY <2>1, <3>1 DEF Promoted, TypeOK, KindsUsed, Info
      <3>2. CASE f = g /\ info[g] = NoInfo
        BY <2>1, <3>2 DEF Promoted, TypeOK, NoInfo
      <3>3. CASE f # g
        BY <2>1, <3>3 DEF Promoted, TypeOK, KindsUsed
      <3> QED BY <3>1, <3>2, <3>3 DEF TypeOK
    <2>2. ASSUME UNCHANGED info
          PROVE  info'[f].tracked => info'[f].kind \in kinds
      BY <2>2 DEF KindsUsed
    <2>3. ASSUME NEW s \in Session, NEW g \in Fd, NEW k \in Kind,
                 Socket(s, g, k)
          PROVE  info'[f].tracked => info'[f].kind \in kinds
      BY <2>3 DEF Socket, TypeOK, KindsUsed
    <2>4. ASSUME NEW g \in Fd, NEW value \in BOOLEAN, SetBroadcast(g, value)
          PROVE  info'[f].tracked => info'[f].kind \in kinds
      <3>1. info[g] \in Info
        BY <2>4, TrackedKind DEF SetBroadcast
      <3> QED BY <2>4, <3>1 DEF SetBroadcast, TypeOK, KindsUsed, Info
    <2>5. ASSUME NEW g \in Fd, NEW new \in Fd, TrackCopy(g, new)
          PROVE  info'[f].tracked => info'[f].kind \in kinds
      BY <2>5 DEF TrackCopy, TypeOK, KindsUsed
    <2>6. ASSUME NEW g \in Fd, Close(g)
          PROVE  info'[f].tracked => info'[f].kind \in kinds
      BY <2>6 DEF Close, TypeOK, KindsUsed, NoInfo
    <2>7. ASSUME NEW s \in Session, SessionEnd(s)
          PROVE  info'[f].tracked => info'[f].kind \in kinds
      BY <2>7 DEF SessionEnd, KindsUsed, NoInfo
    <2> QED
      BY <2>1, <2>2, <2>3, <2>4, <2>5, <2>6, <2>7
         DEF Next, vars, BindInUse, BindInvalid, BindDone, ConnectNew,
             ConnectNoPort, ConnectAgain, SendToPromotes, SocketExempt,
             DuplicateSocket, FcntlDupFd, Accept
  <1>3. ASSUME NEW f \in Fd PROVE proxy'[f].up => proxy'[f].kind \in kinds
    <2>1. ASSUME UNCHANGED proxy
          PROVE  proxy'[f].up => proxy'[f].kind \in kinds
      BY <2>1 DEF KindsUsed
    <2>2. ASSUME NEW fds \in SUBSET Fd, Closed(fds)
          PROVE  proxy'[f].up => proxy'[f].kind \in kinds
      BY <2>2 DEF Closed, KindsUsed, NoProxy
    <2>3. ASSUME NEW g \in Fd, NEW r, r.kind \in kinds,
                 proxy' = [proxy EXCEPT ![g] = r]
          PROVE  proxy'[f].up => proxy'[f].kind \in kinds
      BY <2>3 DEF TypeOK, KindsUsed
    <2>4. ASSUME NEW g \in Fd, info[g].tracked, NEW st, NEW q,
                 \/ proxy' = [proxy EXCEPT ![g] = Created(g)]
                 \/ proxy' = [proxy EXCEPT ![g] =
                        [Created(g) EXCEPT !.state = st, !.port = q]]
          PROVE  proxy'[f].up => proxy'[f].kind \in kinds
      <3>1. Created(g) \in Proxy
        BY <2>4, CreatedType
      <3>2. Created(g).kind \in kinds
        BY <2>4 DEF KindsUsed, Created
      <3>3. [Created(g) EXCEPT !.state = st, !.port = q].kind
              = Created(g).kind
        BY <3>1 DEF Proxy
      <3> QED BY <2>3, <2>4, <3>2, <3>3
    <2>5. ASSUME NEW g \in Fd, ConnectAgain(g)
          PROVE  proxy'[f].up => proxy'[f].kind \in kinds
      <3>1. proxy[g] \in Proxy /\ proxy[g].kind \in kinds
        BY <2>5, RegisteredKind DEF ConnectAgain, KindsUsed
      <3>2. PICK st \in {"Bound", "Connected"} :
              proxy' = [proxy EXCEPT ![g] = [proxy[g] EXCEPT !.state = st]]
        BY <2>5 DEF ConnectAgain
      <3>3. [proxy[g] EXCEPT !.state = st].kind = proxy[g].kind
        BY <3>1 DEF Proxy
      <3> QED BY <2>3, <3>1, <3>2, <3>3
    <2>6. ASSUME NEW g \in Fd, ConnectNew(g)
          PROVE  proxy'[f].up => proxy'[f].kind \in kinds
      <3> DEFINE st == IF info[g].kind = "dgram" THEN "Connected" ELSE "Bound"
      <3>1. info[g].tracked
              /\ \E q : proxy' = [proxy EXCEPT ![g] =
                    [Created(g) EXCEPT !.state = st, !.port = q]]
        BY <2>6 DEF ConnectNew
      <3> HIDE DEF st
      <3> QED BY <2>4, <3>1
    <2>7. ASSUME NEW g \in Fd, ConnectNoPort(g) \/ SendToPromotes(g)
          PROVE  proxy'[f].up => proxy'[f].kind \in kinds
      BY <2>1, <2>4, <2>7 DEF ConnectNoPort, SendToPromotes
    <2>8. ASSUME NEW g \in Fd, NEW addr \in Address,
                 NEW port \in Port \cup {NoPort},
                 \/ BindInUse(g, addr, port)
                 \/ BindInvalid(g, addr, port)
                 \/ BindDone(g, addr, port)
          PROVE  proxy'[f].up => proxy'[f].kind \in kinds
      BY <2>1, <2>4, <2>8 DEF BindInUse, BindInvalid, BindDone, BindPromotes
    <2>9. ASSUME NEW g \in Fd, Close(g)
          PROVE  proxy'[f].up => proxy'[f].kind \in kinds
      BY <2>1, <2>2, <2>9 DEF Close
    <2>10. ASSUME NEW s \in Session, SessionEnd(s)
           PROVE  proxy'[f].up => proxy'[f].kind \in kinds
      <3>1. PICK fds \in SUBSET Fd : Closed(fds)
        BY <2>10 DEF SessionEnd
      <3> QED BY <2>2, <3>1
    <2>11. ASSUME \/ \E s \in Session, g \in Fd, k \in Kind : Socket(s, g, k)
                  \/ \E g \in Fd, value \in BOOLEAN : SetBroadcast(g, value)
                  \/ \E g, new \in Fd : TrackCopy(g, new)
                  \/ UNCHANGED vars
           PROVE  proxy'[f].up => proxy'[f].kind \in kinds
      BY <2>1, <2>11 DEF Socket, SetBroadcast, TrackCopy, vars
    <2> QED
      BY <2>5, <2>6, <2>7, <2>8, <2>9, <2>10, <2>11
         DEF Next, SocketExempt, DuplicateSocket, FcntlDupFd, Accept
  <1> QED BY <1>1, <1>2, <1>3 DEF KindsUsed

\* Ports: in a game whose sockets are all of one kind, no two proxy sockets
\* share a port of the pool, and a bound port stays marked until its own
\* socket is closed, through any sequence of calls that fail half-way and any
\* reuse of descriptor numbers.
THEOREM PortsCorrect == Spec => [](PortsDistinct /\ PortsHeld)
  <1> DEFINE IInv == TypeOK /\ KindsUsed /\ (OneKind => Apart /\ Held)
  <1>1. Init => IInv
    BY DEF Init, TypeOK, KindsUsed, Apart, Held, Registered, NoProxy, NoInfo
  <1>2. IInv /\ [Next]_vars => IInv'
    <2> SUFFICES ASSUME IInv, [Next]_vars PROVE IInv'
      OBVIOUS
    <2>1. TypeOK' /\ KindsUsed' /\ kinds' = kinds
      BY TypeStep, KindStep
    <2>2. ASSUME OneKind' PROVE Apart' /\ Held'
      <3>1. OneKind /\ Inv
        BY <2>1, <2>2 DEF OneKind, Inv
      <3>2. CASE Next
        BY <3>1, <3>2, PortStep
      <3>3. CASE UNCHANGED vars
        BY <3>1, <3>3, MoreMarked DEF vars
      <3> QED BY <3>2, <3>3
    <2> QED BY <2>1, <2>2
  <1>3. IInv => PortsDistinct /\ PortsHeld
    BY DEF PortsDistinct, PortsHeld, Apart, Held
  <1> QED BY <1>1, <1>2, <1>3, PTL DEF Spec

-----------------------------------------------------------------------------
(* What failed calls leave behind.                                         *)

\* The consequent of LeftoverHasNoPort.
Bare ==
    \A f \in Fd : proxy[f].up /\ ~info[f].isProxy => proxy[f].port = NoPort

\* A descriptor the map does not have is not marked.
LEMMA UntrackedPlain ==
    ASSUME TypeOK, NEW f \in Fd, ~info[f].tracked
    PROVE  ~info[f].isProxy
  <1>1. info[f] \in Info \/ info[f] = NoInfo
    BY DEF TypeOK
  <1>2. info[f] \notin Info
    BY DEF Info
  <1>3. NoInfo.isProxy = FALSE
    BY DEF NoInfo
  <1> QED BY <1>1, <1>2, <1>3

\* A descriptor that gets marked may have any socket; nothing else changes.
LEMMA PromotedBare ==
    ASSUME TypeOK, Bare, NEW f \in Fd, info[f].tracked, Promoted(f),
           \A g \in Fd \ {f} : proxy'[g] = proxy[g]
    PROVE  Bare'
  <1>1. info[f] \in Info
    BY TrackedKind
  <1>2. info'[f].isProxy
    BY <1>1 DEF Promoted, TypeOK, Info
  <1>3. \A g \in Fd \ {f} : info'[g] = info[g]
    BY DEF Promoted, TypeOK
  <1> QED BY <1>2, <1>3 DEF Bare

\* A socket that was just registered has no port, and the map stays.
LEMMA CreatedBare ==
    ASSUME TypeOK, Bare, NEW f \in Fd, UNCHANGED info,
           proxy' = [proxy EXCEPT ![f] = Created(f)]
    PROVE  Bare'
  <1>1. \A g \in Fd : proxy'[g] = IF g = f THEN Created(f) ELSE proxy[g]
    BY DEF TypeOK
  <1>2. proxy[f].up \/ Created(f).port = NoPort
    BY DEF Created
  <1>3. proxy[f].up => Created(f) = proxy[f]
    BY DEF Created
  <1> QED BY <1>1, <1>2, <1>3 DEF Bare

\* A socket is closed with its descriptor if that is marked.
LEMMA ForgetBare ==
    ASSUME TypeOK, Bare, NEW fds \in SUBSET Fd,
           Closed({f \in fds : info[f].isProxy}),
           \A f \in Fd \ fds : info'[f] = info[f]
    PROVE  Bare'
  <1> SUFFICES ASSUME NEW f \in Fd, proxy'[f].up, ~info'[f].isProxy
               PROVE  proxy'[f].port = NoPort
    BY DEF Bare
  <1>1. /\ ~(f \in fds /\ info[f].isProxy)
        /\ proxy'[f] = proxy[f] /\ proxy[f].up
    BY DEF Closed, NoProxy
  <1>2. CASE f \in fds
    BY <1>1, <1>2 DEF Bare
  <1>3. CASE f \notin fds
    BY <1>1, <1>3 DEF Bare
  <1> QED BY <1>2, <1>3

\* Every call of a game with datagram sockets keeps it.
LEMMA BareStep ==
    ASSUME TypeOK, KindsUsed, Bare, kinds = {"dgram"}, Next
    PROVE  Bare'
  <1>1. ASSUME NEW s \in Session, NEW f \in Fd, NEW k \in Kind, Socket(s, f, k)
        PROVE  Bare'
    <2>1. ~info[f].isProxy
      BY <1>1, UntrackedPlain DEF Socket
    <2>2. \A g \in Fd \ {f} : info'[g] = info[g]
      BY <1>1 DEF Socket, TypeOK
    <2> QED BY <1>1, <2>1, <2>2 DEF Socket, Bare
  <1>2. ASSUME NEW f \in Fd, NEW value \in BOOLEAN, SetBroadcast(f, value)
        PROVE  Bare'
    <2>1. \A g \in Fd \ {f} : info'[g] = info[g]
      BY <1>2 DEF SetBroadcast, TypeOK
    <2> QED BY <1>2, <2>1 DEF SetBroadcast, Bare
  <1>3. ASSUME NEW f \in Fd, NEW addr \in Address,
               NEW port \in Port \cup {NoPort},
               \/ BindInUse(f, addr, port)
               \/ BindInvalid(f, addr, port)
               \/ BindDone(f, addr, port)
        PROVE  Bare'
    <2>1. CASE BindInUse(f, addr, port)
      BY <2>1, CreatedBare DEF BindInUse
    <2>2. CASE BindInvalid(f, addr, port)
      BY <2>2 DEF BindInvalid, Bare
    <2>3. CASE BindDone(f, addr, port)
      <3>1. info[f].tracked /\ Promoted(f)
        BY <2>3 DEF BindDone, BindPromotes
      <3>2. \A g \in Fd \ {f} : proxy'[g] = proxy[g]
        BY <2>3 DEF BindDone, TypeOK
      <3> QED BY <3>1, <3>2, PromotedBare
    <2> QED BY <1>3, <2>1, <2>2, <2>3
  <1>4. ASSUME NEW f \in Fd, ConnectNew(f)
        PROVE  Bare'
    <2>1. info[f].tracked /\ info[f].kind = "dgram"
      BY <1>4 DEF ConnectNew, KindsUsed
    <2>2. \A g \in Fd \ {f} : proxy'[g] = proxy[g]
      BY <1>4 DEF ConnectNew, TypeOK
    <2> QED BY <1>4, <2>1, <2>2, PromotedBare DEF ConnectNew
  <1>5. ASSUME NEW f \in Fd, ConnectNoPort(f)
        PROVE  Bare'
    BY <1>5, CreatedBare DEF ConnectNoPort
  <1>6. ASSUME NEW f \in Fd, ConnectAgain(f)
        PROVE  Bare'
    <2>1. info[f].tracked /\ proxy[f].kind = "dgram"
      BY <1>6 DEF ConnectAgain, KindsUsed
    <2>2. \A g \in Fd \ {f} : proxy'[g] = proxy[g]
      BY <1>6 DEF ConnectAgain, TypeOK
    <2> QED BY <1>6, <2>1, <2>2, PromotedBare DEF ConnectAgain
  <1>7. ASSUME NEW f \in Fd, SendToPromotes(f)
        PROVE  Bare'
    <2>1. info[f].tracked /\ Promoted(f)
      BY <1>7 DEF SendToPromotes
    <2>2. \A g \in Fd \ {f} : proxy'[g] = proxy[g]
      BY <1>7 DEF SendToPromotes, TypeOK
    <2> QED BY <2>1, <2>2, PromotedBare
  <1>8. ASSUME NEW f \in Fd, Close(f)
        PROVE  Bare'
    <2>1. \A g \in Fd \ {f} : info'[g] = info[g]
      BY <1>8 DEF Close, TypeOK
    <2>2. CASE info[f].isProxy
      <3>1. {g \in {f} : info[g].isProxy} = {f}
        BY <2>2
      <3>2. Closed({g \in {f} : info[g].isProxy})
        BY <1>8, <2>2, <3>1 DEF Close
      <3> QED BY <2>1, <3>2, ForgetBare
    <2>3. CASE ~info[f].isProxy
      BY <1>8, <2>1, <2>3 DEF Close, Bare
    <2> QED BY <2>2, <2>3
  <1>9. ASSUME NEW f \in Fd, NEW new \in Fd, TrackCopy(f, new)
        PROVE  Bare'
    <2>1. ~info[new].isProxy
      BY <1>9, UntrackedPlain DEF TrackCopy
    <2>2. \A g \in Fd \ {new} : info'[g] = info[g]
      BY <1>9 DEF TrackCopy, TypeOK
    <2> QED BY <1>9, <2>1, <2>2 DEF TrackCopy, Bare
  <1>10. ASSUME NEW s \in Session, SessionEnd(s)
         PROVE  Bare'
    <2> DEFINE mine == {f \in Fd : info[f].tracked /\ info[f].session = s}
    <2>1. Closed({f \in mine : info[f].isProxy})
      BY <1>10 DEF SessionEnd
    <2>2. \A f \in Fd \ mine : info'[f] = info[f]
      BY <1>10 DEF SessionEnd
    <2>3. mine \in SUBSET Fd
      OBVIOUS
    <2> HIDE DEF mine
    <2> QED BY <2>1, <2>2, <2>3, ForgetBare
  <1> QED
    BY <1>1, <1>2, <1>3, <1>4, <1>5, <1>6, <1>7, <1>8, <1>9, <1>10
       DEF Next, SocketExempt, DuplicateSocket, FcntlDupFd, Accept

\* Leftovers: in a game with datagram sockets, a proxy socket that Close and
\* the end of a session would pass by, because the call that registered it
\* failed before it marked the descriptor, never holds a port.
THEOREM LeftoverCorrect == Spec => []LeftoverHasNoPort
  <1> DEFINE IInv == TypeOK /\ KindsUsed /\ (kinds = {"dgram"} => Bare)
  <1>1. Init => IInv
    BY DEF Init, TypeOK, KindsUsed, Bare, NoProxy, NoInfo
  <1>2. IInv /\ [Next]_vars => IInv'
    <2> SUFFICES ASSUME IInv, [Next]_vars PROVE IInv'
      OBVIOUS
    <2>1. TypeOK' /\ KindsUsed' /\ kinds' = kinds
      BY TypeStep, KindStep
    <2>2. CASE Next
      BY <2>1, <2>2, BareStep
    <2>3. CASE UNCHANGED vars
      BY <2>1, <2>3 DEF vars, Bare
    <2> QED BY <2>2, <2>3
  <1>3. IInv => LeftoverHasNoPort
    BY DEF LeftoverHasNoPort, Bare, Registered
  <1> QED BY <1>1, <1>2, <1>3, PTL DEF Spec

\* A proxy socket leaves the registry only in the call that makes the map
\* forget its descriptor: no other descriptor's close, and no other session's
\* end, takes a game's socket away.
THEOREM ClosedByOwnerCorrect == Spec => ClosedByOwner
  <1> DEFINE A == \A f \in Fd : proxy[f].up /\ ~proxy'[f].up
                    => info[f].tracked /\ ~info'[f].tracked
  <1>1. TypeOK /\ [Next]_vars => [A]_vars
    <2> SUFFICES ASSUME TypeOK, Next PROVE A
      OBVIOUS
    <2>1. ASSUME UNCHANGED proxy PROVE A
      BY <2>1
    <2>2. ASSUME NEW f \in Fd, NEW r, r.up, proxy' = [proxy EXCEPT ![f] = r]
          PROVE  A
      BY <2>2 DEF TypeOK
    <2>3. ASSUME NEW fds \in SUBSET Fd, Closed(fds),
                 \A f \in fds : info[f].tracked /\ ~info'[f].tracked
          PROVE  A
      BY <2>3 DEF Closed
    <2>4. ASSUME NEW f \in Fd, Close(f) PROVE A
      <3>1. CASE info[f].isProxy
        <4>1. info[f].tracked /\ ~info'[f].tracked
          BY <2>4 DEF Close, TypeOK, NoInfo
        <4> QED BY <2>3, <2>4, <3>1, <4>1 DEF Close
      <3>2. CASE ~info[f].isProxy
        BY <2>1, <2>4, <3>2 DEF Close
      <3> QED BY <3>1, <3>2
    <2>5. ASSUME NEW s \in Session, SessionEnd(s) PROVE A
      <3> DEFINE mine == {f \in Fd : info[f].tracked /\ info[f].session = s}
                 fds == {f \in mine : info[f].isProxy}
      <3>1. Closed(fds)
        BY <2>5 DEF SessionEnd
      <3>2. \A f \in fds : info[f].tracked /\ ~info'[f].tracked
        BY <2>5 DEF SessionEnd, NoInfo
      <3>3. fds \in SUBSET Fd
        OBVIOUS
      <3> HIDE DEF fds, A
      <3> QED BY <2>3, <3>1, <3>2, <3>3
    <2>6. ASSUME NEW f \in Fd, info[f].tracked,
                 NEW r, r = Created(f), NEW st, NEW p,
                 \/ proxy' = [proxy EXCEPT ![f] = r]
                 \/ proxy' = [proxy EXCEPT ![f] =
                        [r EXCEPT !.state = st, !.port = p]]
          PROVE  A
      <3>1. r \in Proxy
        BY <2>6, CreatedType
      <3>2. r.up /\ [r EXCEPT !.state = st, !.port = p].up
        BY <3>1 DEF Proxy
      <3> HIDE DEF A
      <3> QED BY <2>2, <2>6, <3>2
    <2>7. ASSUME NEW f \in Fd, ConnectAgain(f) PROVE A
      <3>1. proxy[f] \in Proxy
        BY <2>7, RegisteredKind DEF ConnectAgain
      <3>2. PICK st \in {"Bound", "Connected"} :
              proxy' = [proxy EXCEPT ![f] = [proxy[f] EXCEPT !.state = st]]
        BY <2>7 DEF ConnectAgain
      <3>3. [proxy[f] EXCEPT !.state = st].up
        BY <3>1 DEF Proxy
      <3> HIDE DEF A
      <3> QED BY <2>2, <3>2, <3>3
    <2> HIDE DEF A
    <2>8. ASSUME NEW f \in Fd, NEW addr \in Address,
                 NEW port \in Port \cup {NoPort},
                 \/ BindInUse(f, addr, port)
                 \/ BindInvalid(f, addr, port)
                 \/ BindDone(f, addr, port)
          PROVE  A
      BY <2>1, <2>6, <2>8 DEF BindInUse, BindInvalid, BindDone, BindPromotes
    <2>9. ASSUME NEW f \in Fd,
                 ConnectNew(f) \/ ConnectNoPort(f) \/ SendToPromotes(f)
          PROVE  A
      <3>1. CASE ConnectNew(f)
        <4> DEFINE st == IF info[f].kind = "dgram" THEN "Connected"
                                                   ELSE "Bound"
        <4>1. info[f].tracked
                /\ \E p : proxy' = [proxy EXCEPT ![f] =
                      [Created(f) EXCEPT !.state = st, !.port = p]]
          BY <3>1 DEF ConnectNew
        <4> HIDE DEF st
        <4> QED BY <2>6, <4>1
      <3>2. CASE ConnectNoPort(f)
        BY <2>6, <3>2 DEF ConnectNoPort
      <3>3. CASE SendToPromotes(f)
        BY <2>1, <2>6, <3>3 DEF SendToPromotes
      <3> QED BY <2>9, <3>1, <3>2, <3>3
    <2>10. ASSUME \/ \E s \in Session, f \in Fd, k \in Kind : Socket(s, f, k)
                  \/ \E f \in Fd, value \in BOOLEAN : SetBroadcast(f, value)
                  \/ \E f, new \in Fd : TrackCopy(f, new)
           PROVE  A
      BY <2>1, <2>10 DEF Socket, SetBroadcast, TrackCopy
    <2> QED
      BY <2>4, <2>5, <2>7, <2>8, <2>9, <2>10
         DEF Next, SocketExempt, DuplicateSocket, FcntlDupFd, Accept
  <1> QED BY <1>1, SocketTypes, PTL DEF Spec, ClosedByOwner

=============================================================================
