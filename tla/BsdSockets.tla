----------------------------- MODULE BsdSockets -----------------------------
(***************************************************************************)
(* The sockets of a game as the bsd:u MITM keeps them: g_socket_info, what *)
(* BsdMitmService remembers of every descriptor; the registry of           *)
(* ProxySocketManager, the descriptors promoted to the virtual network;    *)
(* and the EphemeralPortPool.  The three are updated by different calls,   *)
(* and a descriptor number comes back as soon as the game has closed it.   *)
(*                                                                         *)
(* All calls run on the one MITM thread, so a call is a step.  What a call *)
(* answers is left out; where it returns early is not.  Which free port    *)
(* AllocatePort returns is left open.  Data is in the module ProxyQueue.   *)
(***************************************************************************)
EXTENDS FiniteSets, Naturals

CONSTANTS
    Fd,                 \* descriptors of the real service
    Session,            \* bsd:u sessions of the game
    Kind,               \* of {"dgram", "stream"}: sockets a game may use
    Ephemeral,          \* the ports the pool manages
    WellKnown,          \* ports it does not
    LanPort,            \* the ports that mark LAN play: 30000, 49152, ...
    NoPort,             \* port 0
    MaxProxySockets     \* MAX_PROXY_SOCKETS

ASSUME SocketsAssumption ==
    /\ Kind \subseteq {"dgram", "stream"}
    /\ Ephemeral \cap WellKnown = {}
    /\ LanPort \subseteq Ephemeral \cup WellKnown
    /\ NoPort \notin Ephemeral \cup WellKnown
    /\ MaxProxySockets \in Nat

VARIABLES
    info,   \* g_socket_info
    proxy,  \* m_sockets: the registry, with the state of each ProxySocket
    ports,  \* the two bitsets of the pool
    kinds   \* the kinds of socket this game uses

vars == <<info, proxy, ports, kinds>>

Port == Ephemeral \cup WellKnown

\* The argument of a bind: an address of the virtual subnet, or 0.0.0.0.
\* Others go to the real service.
Address == {"ldn", "any"}

\* A SocketInfo; "tracked" says the map has the key.
Info ==
    [tracked : {TRUE}, kind : Kind, isProxy : BOOLEAN, broadcast : BOOLEAN,
     session : Session]

NoInfo ==
    [tracked |-> FALSE, kind |-> "none", isProxy |-> FALSE,
     broadcast |-> FALSE, session |-> "none"]

\* A ProxySocket; "up" says the registry has the key.
Proxy ==
    [up : {TRUE}, kind : Kind, state : {"Created", "Bound", "Connected"},
     port : Port \cup {NoPort}]

NoProxy ==
    [up |-> FALSE, kind |-> "none", state |-> "Closed", port |-> NoPort]

Init ==
    /\ info = [f \in Fd |-> NoInfo]
    /\ proxy = [f \in Fd |-> NoProxy]
    /\ ports = [k \in Kind |-> {}]
    /\ kinds \in SUBSET Kind \ {{}}

Registered == {f \in Fd : proxy[f].up}

-----------------------------------------------------------------------------
(* ProxySocketManager and EphemeralPortPool.                               *)

\* A descriptor that is registered keeps the socket it has, whatever type is
\* asked for; a new one is refused at the limit.
CanCreate(f) == proxy[f].up \/ Cardinality(Registered) < MaxProxySockets

Created(f) ==
    IF proxy[f].up THEN proxy[f]
    ELSE [up |-> TRUE, kind |-> info[f].kind, state |-> "Created",
          port |-> NoPort]

\* Mutant: a reservation does not look at the bitset.
Obtainable_NoTest(k, port) ==
    IF port = NoPort THEN Ephemeral \ ports[k] ELSE {port}

\* AllocatePort for port 0, ReservePort for another; a port outside the pool
\* is granted to everyone.
Obtainable(k, port) ==
    IF port = NoPort THEN Ephemeral \ ports[k] ELSE {port} \ ports[k]

\* Mutants: a port is handed out and not marked; one outside the pool is.
Marked_Never(k, port) == ports
Marked_Any(k, port) == [ports EXCEPT ![k] = @ \cup {port}]

Marked(k, port) == [ports EXCEPT ![k] = @ \cup ({port} \cap Ephemeral)]

\* CloseProxySocket for the descriptors of a set.
PortsOf(fds, k) == {proxy[f].port : f \in {g \in fds : proxy[g].kind = k}}

Closed(fds) ==
    LET gone == {f \in fds : proxy[f].up}
    IN  /\ ports' = [k \in Kind |-> ports[k] \ PortsOf(gone, k)]
        /\ proxy' = [f \in Fd |-> IF f \in gone THEN NoProxy ELSE proxy[f]]

-----------------------------------------------------------------------------
(* BsdMitmService.                                                         *)

Promoted(f) ==
    /\ info' = [info EXCEPT ![f].isProxy = TRUE]
    /\ UNCHANGED kinds

\* Assumption: one game.  The code writes the entry of the descriptor whether
\* the map has one or not; the real service gives a game no descriptor that it
\* has open, but two games may have the same one, and all games share the map.
Socket(s, f, k) ==
    /\ k \in kinds
    /\ ~info[f].tracked
    /\ info' = [info EXCEPT ![f] =
           [tracked |-> TRUE, kind |-> k, isProxy |-> FALSE,
            broadcast |-> FALSE, session |-> s]]
    /\ UNCHANGED <<proxy, ports, kinds>>

\* The exempt call records its descriptor the way Socket does.
SocketExempt(s, f, k) == Socket(s, f, k)

\* SO_BROADCAST is remembered for a socket that is not registered yet.
SetBroadcast(f, value) ==
    /\ info[f].tracked
    /\ ~proxy[f].up
    /\ info' = [info EXCEPT ![f].broadcast = value]
    /\ UNCHANGED <<proxy, ports, kinds>>

\* A bind the MITM takes over, unless the registry is full.
BindPromotes(f, addr, port) ==
    /\ info[f].tracked
    /\ addr = "ldn" \/ info[f].broadcast \/ port \in LanPort
    /\ CanCreate(f)

\* No port is left, or the one asked for is taken: the socket that was just
\* registered stays.
BindInUse(f, addr, port) ==
    /\ BindPromotes(f, addr, port)
    /\ Obtainable(info[f].kind, port) = {}
    /\ proxy' = [proxy EXCEPT ![f] = Created(f)]
    /\ UNCHANGED <<info, ports, kinds>>

\* ProxySocket::Bind refuses a socket that is bound: the new port stays
\* marked.
BindInvalid(f, addr, port) ==
    /\ BindPromotes(f, addr, port)
    /\ Created(f).state # "Created"
    /\ \E p \in Obtainable(info[f].kind, port) :
        ports' = Marked(info[f].kind, p)
    /\ UNCHANGED <<info, proxy, kinds>>

\* Mutant: ProxySocket::Bind takes a second address.
BindDone_Again(f, addr, port) ==
    /\ BindPromotes(f, addr, port)
    /\ \E p \in Obtainable(info[f].kind, port) :
        /\ ports' = Marked(info[f].kind, p)
        /\ proxy' = [proxy EXCEPT ![f] =
               [Created(f) EXCEPT !.state = "Bound", !.port = p]]
    /\ Promoted(f)

\* Mutant: the descriptor is not marked is_proxy.
BindDone_NotMarked(f, addr, port) ==
    /\ BindPromotes(f, addr, port)
    /\ Created(f).state = "Created"
    /\ \E p \in Obtainable(info[f].kind, port) :
        /\ ports' = Marked(info[f].kind, p)
        /\ proxy' = [proxy EXCEPT ![f] =
               [Created(f) EXCEPT !.state = "Bound", !.port = p]]
    /\ UNCHANGED <<info, kinds>>

BindDone(f, addr, port) ==
    /\ BindPromotes(f, addr, port)
    /\ Created(f).state = "Created"
    /\ \E p \in Obtainable(info[f].kind, port) :
        /\ ports' = Marked(info[f].kind, p)
        /\ proxy' = [proxy EXCEPT ![f] =
               [Created(f) EXCEPT !.state = "Bound", !.port = p]]
    /\ Promoted(f)

\* A connect to the virtual subnet registers and binds the descriptor first.
\* The handshake of a stream socket fails at once, its callback sends nothing.
ConnectNew(f) ==
    /\ info[f].tracked
    /\ ~proxy[f].up
    /\ CanCreate(f)
    /\ \E p \in Obtainable(info[f].kind, NoPort) :
        /\ ports' = Marked(info[f].kind, p)
        /\ proxy' = [proxy EXCEPT ![f] =
               [Created(f) EXCEPT
                    !.state = IF info[f].kind = "dgram" THEN "Connected"
                                                        ELSE "Bound",
                    !.port = p]]
    /\ IF info[f].kind = "dgram" THEN Promoted(f)
                              ELSE UNCHANGED <<info, kinds>>

ConnectNoPort(f) ==
    /\ info[f].tracked
    /\ ~proxy[f].up
    /\ CanCreate(f)
    /\ Obtainable(info[f].kind, NoPort) = {}
    /\ proxy' = [proxy EXCEPT ![f] = Created(f)]
    /\ UNCHANGED <<info, ports, kinds>>

\* One that is registered is taken to be bound.
ConnectAgain(f) ==
    /\ info[f].tracked
    /\ proxy[f].up
    /\ IF proxy[f].kind = "dgram"
       THEN /\ proxy' = [proxy EXCEPT ![f].state = "Connected"]
            /\ Promoted(f)
       ELSE /\ proxy' = [proxy EXCEPT ![f].state = "Bound"]
            /\ UNCHANGED <<info, kinds>>
    /\ UNCHANGED ports

\* The first datagram to the virtual subnet promotes the descriptor, with or
\* without a socket and a port for it.
SendToPromotes(f) ==
    /\ info[f].tracked
    /\ ~info[f].isProxy
    /\ \/ /\ ~proxy[f].up
          /\ CanCreate(f)
          /\ \E p \in Obtainable(info[f].kind, NoPort) :
              /\ ports' = Marked(info[f].kind, p)
              /\ proxy' = [proxy EXCEPT ![f] =
                     [Created(f) EXCEPT !.state = "Bound", !.port = p]]
       \/ /\ ~proxy[f].up
          /\ CanCreate(f)
          /\ Obtainable(info[f].kind, NoPort) = {}
          /\ proxy' = [proxy EXCEPT ![f] = Created(f)]
          /\ UNCHANGED ports
       \/ /\ proxy[f].up \/ ~CanCreate(f)
          /\ UNCHANGED <<proxy, ports>>
    /\ Promoted(f)

Close(f) ==
    /\ info[f].tracked
    /\ IF info[f].isProxy THEN Closed({f}) ELSE UNCHANGED <<proxy, ports>>
    /\ info' = [info EXCEPT ![f] = NoInfo]
    /\ UNCHANGED kinds

\* DuplicateSocket, Fcntl with F_DUPFD, and Accept on a stream socket give the
\* new descriptor the old one's entry, is_proxy with it.
TrackCopy(f, new) ==
    /\ info[f].tracked
    /\ ~info[new].tracked
    /\ info' = [info EXCEPT ![new] = info[f]]
    /\ UNCHANGED <<proxy, ports, kinds>>

DuplicateSocket(f, new) == TrackCopy(f, new)
FcntlDupFd(f, new) == TrackCopy(f, new)
Accept(f, new) == info[f].kind = "stream" /\ TrackCopy(f, new)

\* Mutant: the end of one session closes the sockets of all.
SessionEnd_All(s) ==
    /\ \E f \in Fd : info[f].tracked /\ info[f].session = s
    /\ Closed({f \in Fd : info[f].isProxy})
    /\ info' = [f \in Fd |->
           IF info[f].tracked /\ info[f].session = s THEN NoInfo ELSE info[f]]
    /\ UNCHANGED kinds

\* ~BsdMitmService: what the game did not close, of this session.
SessionEnd(s) ==
    LET mine == {f \in Fd : info[f].tracked /\ info[f].session = s}
    IN  /\ mine # {}
        /\ Closed({f \in mine : info[f].isProxy})
        /\ info' = [f \in Fd |-> IF f \in mine THEN NoInfo ELSE info[f]]
        /\ UNCHANGED kinds

Next ==
    \/ \E s \in Session, f \in Fd, k \in Kind :
        Socket(s, f, k) \/ SocketExempt(s, f, k)
    \/ \E f \in Fd, value \in BOOLEAN : SetBroadcast(f, value)
    \/ \E f \in Fd, addr \in Address, port \in Port \cup {NoPort} :
        \/ BindInUse(f, addr, port)
        \/ BindInvalid(f, addr, port)
        \/ BindDone(f, addr, port)
    \/ \E f \in Fd :
        ConnectNew(f) \/ ConnectNoPort(f) \/ ConnectAgain(f)
            \/ SendToPromotes(f) \/ Close(f)
    \/ \E f, new \in Fd :
        DuplicateSocket(f, new) \/ FcntlDupFd(f, new) \/ Accept(f, new)
    \/ \E s \in Session : SessionEnd(s)

Spec == Init /\ [][Next]_vars

-----------------------------------------------------------------------------
(* Properties.                                                             *)

\* Type invariant of the descriptor table, the registry and the pool: the
\* bitsets hold no port from outside the pool.
TypeOK ==
    /\ info \in [Fd -> Info \cup {NoInfo}]
    /\ proxy \in [Fd -> Proxy \cup {NoProxy}]
    /\ ports \in [Kind -> SUBSET Ephemeral]
    /\ kinds \in SUBSET Kind

\* The game's sockets are all datagram or all stream sockets.  With both, the
\* two properties below fail: CreateProxySocket hands a socket that a failed
\* bind left behind to a descriptor of the other kind, and its port is then
\* marked in the other bitset.
OneKind == \E k \in Kind : kinds = {k}

\* No two sockets of one protocol have the same port of the pool, through any
\* sequence of failed binds, closes and reused descriptors.  ("If the port is
\* already allocated for this protocol, returns false",
\* ephemeral_port_pool.hpp:133.)
PortsDistinct ==
    OneKind =>
        \A f, g \in Registered :
            /\ f # g
            /\ proxy[f].port \in Ephemeral
            => proxy[f].port # proxy[g].port

\* A port that a socket is bound to is marked in the pool until that socket
\* is closed: no other socket's end gives it away.
PortsHeld ==
    OneKind =>
        \A f \in Registered : proxy[f].port \in Ephemeral
            => proxy[f].port \in ports[proxy[f].kind]

\* What a failed bind, connect or send leaves in the registry holds no port
\* (Close and the end of a session pass by a socket whose descriptor is not
\* marked is_proxy, so its port would never come back).  Stream sockets are
\* not covered: a connect that fails leaves one bound and not marked.
LeftoverHasNoPort ==
    kinds = {"dgram"} =>
        \A f \in Registered : ~info[f].isProxy => proxy[f].port = NoPort

\* A socket is bound once: peers that answer to a port reach the same socket
\* until it is closed.
BoundOnce ==
    [][\A f \in Fd : proxy[f].up /\ proxy'[f].up /\ proxy[f].port # NoPort
            => proxy'[f].port = proxy[f].port]_vars

\* A proxy socket leaves the registry only with the descriptor it stands for:
\* no call for another descriptor, and no other session's end, takes it away.
ClosedByOwner ==
    [][\A f \in Fd : proxy[f].up /\ ~proxy'[f].up
            => info[f].tracked /\ ~info'[f].tracked]_vars

=============================================================================
