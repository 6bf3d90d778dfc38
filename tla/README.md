# TLA+ models of sys-slp-client

sys-slp-client is a Nintendo Switch sysmodule that lets games play local
wireless (LDN) and LAN modes over an slp relay. It answers the games' `ldn:u`
calls itself, promotes some of their `bsd:u` sockets to a virtual 10.13.x.x
network, and carries both over one UDP socket to the relay. An overlay starts
and stops it through the `slp:cfg` service.

This directory holds models of its stateful parts, TLC configurations that
check them on small instances, and TLAPS proofs for all instances.

## The system

Three threads matter:

| thread | runs |
|---|---|
| MITM thread | every `ldn:u` and every `bsd:u` call of the games, one after the other |
| cfg thread | `slp:cfg`: Start, Stop, SelectServer, ReloadServers |
| run loop | created by Start: keepalives, `LdnControl::Tick`, every frame the relay delivers |

`LdnControl::m_mutex`, `Runtime::m_mutex`, the manager's and the sockets'
mutexes are taken in one order; Stop joins the run loop with none held. What is
left to go wrong lies between critical sections, in unlocked fields, on the
relay (which loses, repeats and reorders), and in calls that fail half-way.

| part | state | operations | model |
|---|---|---|---|
| LDN control plane (`ldn/ldn_control.cpp`) | communication state, NetworkInfo, station and scanner tables, join target, sequence numbers | the `ldn:u` calls, frame handlers, Tick | `LdnControl` |
| tunnel (`tunnel/slp_tunnel.cpp`, `slp_client.c`) | `g_ip_id`, reassembly table | Send, OnFrag, OnStop | `SlpTunnel` |
| runtime (`slpcfg/slp_runtime.cpp`, `slp_client.c`) | selection, state, thread, socket, login | Start, Stop, SelectServer, ReloadServers, run loop, a sending game | `SlpRuntime` |
| virtual address (`GetVirtualIp`, `RefreshLocalIp`) | a file and three copies of the address | boot, Start, Stop, Initialize, Finalize, reboot | `VirtualIp` |
| sockets (`bsd/bsd_mitm_service.cpp`, registry, port pool) | `g_socket_info`, `m_sockets`, two bitsets | the calls that track, promote, copy and close descriptors | `BsdSockets` |
| received data (`bsd/proxy_socket*.cpp`) | a socket's ring and event, the pending ring | RouteIncomingData, Bind, RecvFrom, Close | `ProxyQueue`, which implements `DropOldestQueue` |

The behaviours that are hard to test and that these models are for are listed,
each at its line, under `hazards` in `PROJECT.json`.

## The modules

**LdnControl** has several consoles on one relay. A console is its virtual IP,
and, because FakeMac derives the bssid from it, its network's bssid. A handler
runs under `m_mutex` and is one action. Scan and Connect drop the lock while
they poll, so they are chains of actions over `call`; between two of them the run
loop may act. `frames` is every frame handed to the relay: `OnControlFrame` may
take any of them at any time, any number of times, or never, which is loss,
repetition, delay and reordering. Ages (`seen`, `hostSeen`, scanner ages) count
clock steps and stop at their timeout. SendFrame outside the lock
(`SendUnlocked`) may undo the run loop's increment of `m_tx_seq`. `applied` is
history for one property. The scan result list, node change events, local
network mode and the compression of frames are not in it.

**SlpTunnel** has any number of sending peers and one receiver. A datagram is
a record of its sender, identification, part count and time; the bytes of a part
are the datagram it was cut from, so a packet stitched from two is visible as
such. `LoopRead`/`LoopWrite` are the run loop's half of the racing `g_ip_id++`.

**SlpRuntime** cuts Start, Stop, the run loop and a game's send at every mutex
operation and at every unlocked access to `m_client`. The descriptor table of
the process is a variable, so descriptors can be lost and can be reused.

**VirtualIp** takes the file operations of PersistVirtualOctets one at a time;
each may fail, and a reboot, which only the file survives, may come after any.
`fault` is history: what went wrong since the console was switched on. The
properties are stated for behaviours without the faults the code has no answer
to. A write that is torn by a power loss is taken to leave no address behind.

**BsdSockets** relates three structures that different calls update. All
calls run on one thread, so each call is one action, with an action for
each early return that leaves something behind. Stream handshakes fail at once,
because the callbacks `main.cpp` installs send nothing. Which free port
AllocatePort picks is left open. Left out of Bind and the destructor: local
network mode and the forwarding session. `kinds` is the game's choice of
protocols, fixed for a behaviour; port properties are stated for games with one.
One game is assumed: all games share `g_socket_info`, keyed by descriptor, and
Socket of one would overwrite an entry of another.

**ProxyQueue** keeps the rings with their head, tail and count as the code does.
A bind is two steps, because the run loop can find the socket before
DeliverPendingPackets runs. One socket is followed; other ports stand for all
sockets that do not exist yet. A receive with MSG_PEEK returns the packet at the
head and leaves it there. `RxIsQueue` says the ring implements
**DropOldestQueue**, with the packets from head to tail as refinement mapping.

A definition named `X_Something` next to a definition `X` is a mutant: `X` with
a plausible bug. No specification uses it; it is there to show that a property
would notice.

## The runs

`PROJECT.json` says of each run what it shows. Bounds and why they suffice:

| run | instance | checks |
|---|---|---|
| `ldn_pair` | one host, one joiner, every call in any order; two slots, one scanner entry, three frames of the joiner, four of the host (a ScanResp and three syncs, whose numbers wrap after the first), a window of three | `TypeOK`, `OneSlotPerPeer`, `HostTableAdvertised`, `ConnectedListsSelf`, `SyncsAdvance` |
| `ldn_room` | an open network, two joiners, one scanner entry, every frame seen by everyone, the host's runtime stopped and started | `OnlyScannersJoin`, `HostTableAdvertised` |
| `ldn_two_hosts` | two open networks, one joiner that moves between them; no beacon interval passes | `SessionGate` |
| `tunnel` | one peer, three datagrams of two parts, identifications modulo 2, two table entries, four clock steps | `TypeOK`, `WholePackets`, `NoneLost`, `KeysUnique` |
| `tunnel_loop` | two and three parts, one table entry, the racing counter | `OneKeyPackets` |
| `runtime` | two descriptors, two servers | `TypeOK`, `RunSocketOpen`, `StoppedIsClean`, `NoSocketLost`, `StopReturns` |
| `identity` | two addresses, failing file operations, a network that comes and goes, reboots; overlapping calls are in the instance, but only `TypeOK` is about them | `TypeOK`, `OneIdentity`, `KeptForever` |
| `sockets` | three descriptors, both kinds, two sessions, one pool port and one other, registry of two | `TypeOK`, `PortsDistinct`, `PortsHeld`, `LeftoverHasNoPort`, `BoundOnce`, `ClosedByOwner` |
| `queue` | rings of two and three, six datagrams | `TypeOK`, `EventTracksData`, `RxIsQueue`, `PendingIsQueue`, `InOrder`, `ReceiveReturns` |

Two slots with one joiner leave a slot for a duplicate; one scanner entry makes
every second scan an eviction. With three syncs around the wrap and a window of
three instead of 256, an old sync can be within the window, on either side of the
wrap, or beyond it; the code takes the last on purpose, for a host that restarted
its counter, and the premise of `SyncsAdvance` leaves it out. `SeqMod` is the
code's. A stopped runtime only keeps frames and ticks away, which `ldn_pair` has
without it, so it is stopped in the smaller `ldn_room`. `ldn_pair` does not tell
states apart by `m_disconnect_reason`, which no operation reads, leaves out those
in which, after the first frame, neither console is in a session, and lets the
joiner send one Scan, which the relay may repeat.
Identifications modulo 2 make the third datagram reuse
the first one's key, so expiry decides. A registry of two for three descriptors,
one pool port and a descriptor that comes back make every limit reachable in a
few calls. Six datagrams take the pending ring of three around twice and the
receive ring of two three times. Two descriptors are
the most the runtime needs at once (a reopen holds old and new). `MaxSent`,
`MaxTime`, `MaxDatagrams` and `MaxPackets` bound behaviours and nothing else.
`ldn_room` and `ldn_two_hosts` start from `InitOpened` and keep to the session
states, since `ldn_pair` covers the rest of the life cycle.

### Where the code and its documentation disagree

Three runs check what a comment says and find it violated. Each has an entry
under `findings` with the line quoted.

| run | what the code does |
|---|---|
| `ldn_foreign_sync` | a foreign sync replaces the sequence number before it is dropped; an old sync then passes |
| `tunnel_race` | the unlocked `g_ip_id++` gives two datagrams one key |
| `runtime_login` | slpClientOpen wipes the login Start has just stored |

The models also contain behaviours the code has no answer to. They bound what
the properties can say, and a premise names them where one is needed:

- a sync that arrives after Connect has reported its timeout still connects the
  console, and Connect succeeds at once on a StationConnected another network
  has left (`LdnControl`);
- a game's send can use a descriptor that a concurrent Stop has closed
  (`SlpRuntime`);
- Start and a game's first Initialize, at the same time, each draw an address and
  the later deletes the earlier; a file that cannot be read is replaced; when the
  network comes up between the two calls one keeps the fallback (`fault` in
  `VirtualIp`);
- a socket left in the registry by a failed bind is taken over by a descriptor of
  the other kind (`OneKind` in `BsdSockets`), outlives its session, and is
  connected without a port by a later connect.

### Fairness

`SlpRuntime!FairSpec`: each thread that can take a step takes one (weak
fairness: the kernel schedules all three, recv has a timeout). Tick and
OnControlFrame need the LDN mutex, which a game's sends take again and again; for
those strong fairness is assumed, since the mutex queues its waiters. Nothing is
assumed of the overlay or the game: they need not call.
`ProxyQueue!FairSpec`: a thread waiting for a signalled event runs, and the MITM
thread finishes a bind it has begun. The five-second time-out of RecvFrom is
deliberately not assumed, so `ReceiveReturns` shows that the event alone wakes
the call. The other specifications are for safety and have no fairness.

## The proofs

Each theorem is about `Spec` and every value of the constants that satisfies the
named ASSUME of its module.

- **LdnControlProofs**. `TypeCorrect`. `HostTableCorrect` and `OneSlotCorrect`
  are inductive together with `TypeOK`; their steps rest on a list of all the
  ways a step can change the host's side (`HostSideCases`, `StationCases`).
  `SessionGateCorrect` follows from `TypeOK` and the list of the ways `info`
  changes. `ConnectedCorrect` needs `SyncsListReceiver`: a sync is only ever
  addressed to a console it lists, because UpdateNodes rebuilds the network
  before it sends. `OnlyScannersCorrect` needs `ScannersScanned`: an address in a
  scanner table has a Scan on the relay.
- **SlpTunnelProofs**. `OneKeyCorrect`, by `OneEntryPerKey` (an active entry is
  the only one of its key) and `EntriesOneKey` (it holds parts of that key and
  geometry). `WholeCorrect` assumes `[]KeysUnique`, the condition `tunnel` checks
  and `tunnel_race` refutes for the racing counter, and adds `EntriesUnmixed`:
  an entry holds parts of one datagram, because one with the same key comes
  only after the entry has expired.
- **SlpRuntimeProofs**. `RunSocketCorrect` and `SocketsBalanced`, by `Phases`
  (where Start or Stop is decides whether there is a run loop), `ClientSocket`
  (what the client's descriptor is in each phase) and `FreshSocket` (what Start
  has in hand).
- **BsdSocketsProofs**. `SocketTypes`. `PortsCorrect`: `PortsDistinct` and
  `PortsHeld` are inductive only together, because a new port is distinct if every
  port in use is marked, and closing one socket unmarks no other's if ports are
  distinct; `KindsUsed` carries the premise from the descriptors to the registry.
  `LeftoverCorrect`, with `KindsUsed` again. `ClosedByOwnerCorrect` for both
  protocols.
- **VirtualIpProofs**. `KeptCorrect`, by `Alone` and `LookedFirst`: no two threads
  are in GetVirtualIp, and one past the read has found no address in the file.
  Both hold while no fault says otherwise, and a reboot starts them afresh.

Only model-checked: `StopReturns` and `ReceiveReturns` (liveness), `SyncsAdvance`,
`NoneLost`, `KeysUnique` without the race, `BoundOnce`, `OneIdentity`, and all of
ProxyQueue with its refinement of DropOldestQueue.

## Not modelled

- Local network mode (a nifm request both LDN and a LAN bind hold).
- Which `bsd:u` sessions are intercepted (dummy session, live counts), abandoned
  forward services; Poll and Select; commands passed through unchanged.
- The scan result list and node change events of LDN; RLE compression.
- `LdnControl::Reject` and `SetStationAcceptPolicy`: no command of the `ldn:u`
  service calls them.
- The parser of the server list, DNS, SHA-1, frame codecs: pure functions.
- TCP data: every handshake is refused by the installed callbacks.
- Address translation and the nifm MITM: switched off in the code.
- The overlay and the trace log: user interface and output.

## Plan

1. `LocalNetwork`: the nifm request shared by LdnControl and bsd sessions.
2. `BsdSessions`: ShouldMitm, destructor, live counts, abandoned services.
3. `LdnKeepalive`: one host and one station with unbounded heartbeats, and that
   either end notices a silent or departed peer.
4. `LdnScan` and node events: the result list and the merged change masks.
5. Broadcast routing to several sockets; Poll and Select over the rings.
6. Compress and Decompress as operators, checked as inverses over short inputs.
7. Proofs: `BoundOnce`, `SyncsAdvance` without foreign syncs, `OneIdentity`,
   and the ring's refinement of DropOldestQueue.
