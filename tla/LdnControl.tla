----------------------------- MODULE LdnControl -----------------------------
(***************************************************************************)
(* The LDN control plane (sysmodule/source/ldn/ldn_control.cpp) of several *)
(* consoles that share one slp relay.  A console is named by its virtual   *)
(* IPv4 address; FakeMac makes a network's bssid a function of its host's  *)
(* address, so a bssid is the host's name too.                             *)
(*                                                                         *)
(* Each console has two threads that matter here: the single MITM thread,  *)
(* which runs the game's ldn:u calls one after the other, and the relay    *)
(* run loop, which runs Tick and the frame handlers.  Both take m_mutex,   *)
(* so a handler is one step; Scan and Connect drop the lock while they     *)
(* poll and are several steps, between which only the run loop can act.    *)
(***************************************************************************)
EXTENDS Integers, FiniteSets, FiniteSetsExt

CONSTANTS
    Console,         \* the consoles on the relay, by virtual IP
    None,            \* "no console": a cleared address or bssid
    Everyone,        \* the subnet broadcast address
    Hosts,           \* consoles whose game makes the host-side calls
    Joiners,         \* consoles whose game makes the station-side calls
    Unstamped,       \* consoles of another build, which send sequence 0
    FirstSeq,        \* m_tx_seq of each console when the behaviour starts
    StationCountMax, \* station slots of a host (7 in the code)
    MaxScanners,     \* entries of the recent-scanner table (16)
    PeerTimeout,     \* RelayPeerTimeoutTicks, in clock steps
    ScannerTimeout,  \* ScannerTimeoutTicks, in clock steps
    SeqMod,          \* sequence numbers are u16: 65536
    SeqWindow,       \* width of the "stale" window: 256
    Flooding,        \* TRUE: the relay may hand any frame to any console
    Restarting,      \* consoles whose user stops and starts the relay runtime
    MaxSent          \* bound: frames a console sends before all its others are lost

ASSUME LdnAssumption ==
    /\ None \notin Console /\ Everyone \notin Console
    /\ Hosts \subseteq Console /\ Joiners \subseteq Console
    /\ Unstamped \subseteq Console
    /\ SeqMod \in Nat /\ SeqMod > 1 /\ SeqWindow \in 1..(SeqMod - 1)
    /\ FirstSeq \in [Console -> 0..(SeqMod - 1)]
    /\ StationCountMax \in Nat \ {0} /\ MaxScanners \in Nat \ {0}
    /\ PeerTimeout \in Nat \ {0} /\ ScannerTimeout \in Nat \ {0}
    /\ Flooding \in BOOLEAN /\ Restarting \subseteq Console
    /\ MaxSent \in [Console -> Nat]

VARIABLES
    state,    \* m_state
    reason,   \* m_disconnect_reason
    info,     \* m_network_info: its bssid, node 0, and the other nodes
    station,  \* m_stations: the address in each slot, None when inactive
    seen,     \* clock steps since each station's last_seen
    scanner,  \* m_recent_scanners: address and age of each entry
    joining,  \* m_join_active
    target,   \* m_join_target_bssid
    hostSeen, \* clock steps since m_host_last_seen
    syncSeq,  \* m_relay_sync_seq, 0 while m_relay_sync_seq_valid is false
    call,     \* what the MITM thread is doing between two critical sections
    sent,     \* frames stamped so far: m_tx_seq counted from FirstSeq
    due,      \* a beacon interval has passed since m_last_beacon
    running,  \* the relay runtime is RUNNING
    frames,   \* every frame ever handed to the relay
    applied   \* history: sender and sequence of the sync that info holds

hostVars == <<station, seen, scanner>>
joinVars == <<joining, target, hostSeen, syncSeq>>
netVars  == <<sent, frames>>
envVars  == <<due, running, applied>>
vars     == <<state, reason, info, hostVars, joinVars, call, netVars, envVars>>

-----------------------------------------------------------------------------
(* Data.                                                                   *)

CommState == {"None", "Initialized", "AccessPoint", "AccessPointCreated",
              "Station", "StationConnected"}
Slot      == 1..StationCountMax

\* Nodes are isConnected exactly up to nodeCount, so NetworkInfo is its bssid,
\* nodes[0] and the set of the other nodes; all zero until a network is known.
NetworkInfo == [bssid : Console \cup {None}, host : Console \cup {None},
                peers : SUBSET Console]
NoNetwork   == [bssid |-> None, host |-> None, peers |-> {}]
Nodes(n)    == n.peers \cup ({n.host} \ {None})

Scanner == [ip : Console \cup {None}, age : 0..(ScannerTimeout + 1)]
Unused  == [ip |-> None, age |-> 0]

\* The NodeInfo in a Connect is replaced by what the host knows of its sender,
\* and only SyncNetwork's sequence number is ever read.
Frame ==
    [type : {"Scan", "Connect"}, src : Console, dst : Console \cup {Everyone}]
      \cup [type : {"ScanResp"}, src : Console, dst : Console, info : NetworkInfo]
      \cup [type : {"SyncNetwork"}, src : Console, dst : Console,
            info : NetworkInfo, seq : 0..(SeqMod - 1)]
      \cup [type : {"RelayHeartbeat", "RelayBye"}, src : Console,
            dst : Console \cup {Everyone}, bssid : Console \cup {None}]

Idle == [op |-> "idle"]
Call == {Idle}
          \cup [op : {"scan"}, tx : Nat]
          \cup [op : {"connect", "resend"}, host : Console, tx : Nat]
          \cup [op : {"poll", "expired"}, host : Console]

\* The k-th sequence number of console c: a u16 counter that skips 0.
TxSeq(c, k) ==
    IF c \in Unstamped THEN 0 ELSE ((FirstSeq[c] + k - 1) % (SeqMod - 1)) + 1

\* Mutant: the numbers are compared as integers, not as u16.
Stale_Plain(have, seq) ==
    have # 0 /\ seq # 0 /\ seq <= have

\* HandleSyncNetwork's test on u16 values; have = 0 is "no sequence yet".
Stale(have, seq) ==
    have # 0 /\ seq # 0 /\ (have - seq) % SeqMod < SeqWindow

-----------------------------------------------------------------------------
(* Transport.                                                              *)

\* SendFrame, n times, from a critical section; nothing while not RUNNING.
SendFrame(c, F, n) ==
    IF running[c] /\ sent[c] + n <= MaxSent[c]
    THEN /\ frames' = frames \cup F
         /\ sent' = [sent EXCEPT ![c] = @ + n]
    ELSE UNCHANGED netVars

\* SendFrame from the MITM thread without m_mutex: ++m_tx_seq is a plain
\* read-modify-write, so what the run loop stamped since tx was read is undone.
SendUnlocked(c, tx, f) ==
    IF running[c] /\ tx < MaxSent[c]
    THEN /\ frames' = frames \cup {f}
         /\ sent' = [sent EXCEPT ![c] = tx + 1]
    ELSE UNCHANGED netVars

\* The relay routes by destination address, or to every peer when it does not
\* know the address; it loses, delays, repeats and reorders.
Reaches(f, c) == f \in frames /\ running[c] /\ (Flooding \/ f.dst \in {c, Everyone})

-----------------------------------------------------------------------------
(* The host's station table.                                               *)

Active(tab)           == {i \in Slot : tab[i] # None}
SlotsOf(tab, ip)      == {i \in Slot : tab[i] = ip}
NoStations            == [i \in Slot |-> None]

\* Mutant: a retried Connect takes a new slot while there is one.
NodeIdFor_NoDedup(tab, ip) ==
    IF SlotsOf(tab, None) # {} THEN Min(SlotsOf(tab, None)) ELSE Min(SlotsOf(tab, ip))

\* FindStationByIp, or FindFreeNodeId for an address that has no slot.
NodeIdFor(tab, ip) ==
    IF SlotsOf(tab, ip) # {} THEN Min(SlotsOf(tab, ip)) ELSE Min(SlotsOf(tab, None))

\* Mutant: the table survives the end of the network.
ResetStations_Forgotten(c) == UNCHANGED <<station, seen>>

ResetStations(c) ==
    /\ station' = [station EXCEPT ![c] = NoStations]
    /\ seen' = [seen EXCEPT ![c] = [i \in Slot |-> 0]]

\* Mutant: every slot is listed, active or not.
BuildNetwork_AllSlots(c, tab, bssid) ==
    [bssid |-> bssid, host |-> c, peers |-> {tab[i] : i \in Slot}]

\* Node 0 is this console, whatever its state; the bssid stays.
BuildNetwork(c, tab, bssid) ==
    [bssid |-> bssid, host |-> c, peers |-> {tab[i] : i \in Active(tab)}]

\* Mutant: the stations of before this step are synced, a dropped one included.
Syncs_OldTable(c, tab, net) ==
    { [type |-> "SyncNetwork", src |-> c, dst |-> station[c][i], info |-> net,
       seq |-> TxSeq(c, sent[c] + Cardinality({j \in Active(station[c]) : j <= i}))] :
      i \in Active(station[c]) }

\* One SyncNetwork per active slot, in slot order.
Syncs(c, tab, net) ==
    { [type |-> "SyncNetwork", src |-> c, dst |-> tab[i], info |-> net,
       seq |-> TxSeq(c, sent[c] + Cardinality({j \in Active(tab) : j <= i}))] :
      i \in Active(tab) }

\* Mutant: the syncs go out with the NetworkInfo of before.
UpdateNodes_NotBuilt(c, tab, bssid) ==
    /\ UNCHANGED info
    /\ SendFrame(c, Syncs(c, tab, info[c]), Cardinality(Active(tab)))

UpdateNodes(c, tab, bssid) ==
    LET net == BuildNetwork(c, tab, bssid)
    IN  /\ info' = [info EXCEPT ![c] = net]
        /\ SendFrame(c, Syncs(c, tab, net), Cardinality(Active(tab)))

\* RecordScanner: refresh the entry of ip, else take the first entry that is
\* unused or expired, else evict the first one.
RecordScanner(tab, ip) ==
    LET Hit  == {i \in DOMAIN tab : tab[i].ip = ip}
        Free == {i \in DOMAIN tab : tab[i].ip = None \/ tab[i].age > ScannerTimeout}
        slot == IF Hit # {} THEN Min(Hit) ELSE IF Free # {} THEN Min(Free) ELSE 1
    IN  [tab EXCEPT ![slot] = [ip |-> ip, age |-> 0]]

\* Mutant: no foreign-session guard on Connect.
WasRecentScanner_Any(tab, ip) == TRUE

WasRecentScanner(tab, ip) ==
    \E i \in DOMAIN tab : tab[i].ip = ip /\ tab[i].age <= ScannerTimeout

-----------------------------------------------------------------------------
(* The game's calls: the MITM thread, one at a time.                       *)

Initialize(c) ==
    /\ call[c] = Idle
    /\ state' = [state EXCEPT ![c] = "Initialized"]
    /\ reason' = [reason EXCEPT ![c] = 0]
    /\ ResetStations(c)
    /\ UNCHANGED <<info, scanner, joinVars, call, netVars, envVars>>

\* Also the destructor of the game's session, when the game exits or crashes.
Finalize(c) ==
    /\ call[c] = Idle
    /\ state' = [state EXCEPT ![c] = "None"]
    /\ joining' = [joining EXCEPT ![c] = FALSE]
    /\ syncSeq' = [syncSeq EXCEPT ![c] = 0]
    /\ ResetStations(c)
    /\ UNCHANGED <<reason, info, scanner, target, hostSeen, call, netVars, envVars>>

\* The body of OpenAccessPoint and OpenStation: even a refused call clears
\* m_disconnect_reason.
Open(c, new) ==
    /\ call[c] = Idle
    /\ reason' = [reason EXCEPT ![c] = 0]
    /\ \/ /\ state[c] # "None"
          /\ state' = [state EXCEPT ![c] = new]
          /\ ResetStations(c)
       \/ /\ state[c] = "None"
          /\ UNCHANGED <<state, station, seen>>
    /\ UNCHANGED <<info, scanner, joinVars, call, netVars, envVars>>

\* The body of CloseAccessPoint and CloseStation: no goodbye, and the join
\* stays active.
Close(c) ==
    /\ call[c] = Idle
    /\ state[c] # "None"
    /\ state' = [state EXCEPT ![c] = "Initialized"]
    /\ ResetStations(c)
    /\ UNCHANGED <<reason, info, scanner, joinVars, call, netVars, envVars>>

OpenAccessPoint(c)  == c \in Hosts /\ Open(c, "AccessPoint")
CloseAccessPoint(c) == c \in Hosts /\ Close(c)
OpenStation(c)      == c \in Joiners /\ Open(c, "Station")
CloseStation(c)     == c \in Joiners /\ Close(c)

CreateNetwork(c) ==
    /\ c \in Hosts
    /\ call[c] = Idle
    /\ state[c] = "AccessPoint"
    /\ state' = [state EXCEPT ![c] = "AccessPointCreated"]
    /\ ResetStations(c)
    /\ UpdateNodes(c, NoStations, c)
    /\ UNCHANGED <<reason, scanner, joinVars, call, envVars>>

DestroyNetwork(c) ==
    /\ c \in Hosts
    /\ call[c] = Idle
    /\ IF Active(station[c]) # {}
       THEN SendFrame(c, {[type |-> "RelayBye", src |-> c, dst |-> Everyone,
                           bssid |-> info[c].bssid]}, 1)
       ELSE UNCHANGED netVars
    /\ state' = [state EXCEPT ![c] = "AccessPoint"]
    /\ ResetStations(c)
    /\ UNCHANGED <<reason, info, scanner, joinVars, call, envVars>>

SetAdvertiseData(c) ==
    /\ c \in Hosts
    /\ call[c] = Idle
    /\ UpdateNodes(c, station[c], info[c].bssid)
    /\ UNCHANGED <<state, reason, hostVars, joinVars, call, envVars>>

Scan(c) ==
    /\ c \in Joiners
    /\ call[c] = Idle
    /\ state[c] # "None"
    /\ call' = [call EXCEPT ![c] = [op |-> "scan", tx |-> sent[c]]]
    /\ UNCHANGED <<state, reason, info, hostVars, joinVars, netVars, envVars>>

ScanSend(c) ==
    /\ call[c].op = "scan"
    /\ SendUnlocked(c, call[c].tx, [type |-> "Scan", src |-> c, dst |-> Everyone])
    /\ call' = [call EXCEPT ![c] = Idle]
    /\ UNCHANGED <<state, reason, info, hostVars, joinVars, envVars>>

\* The networks a scan can have shown the game: never its own (the self-echo
\* guard of HandleScanResp).  The filter on the game's id, the replacement of an
\* entry with the same bssid and the cap on the list only take networks away.
Scanned(c) == {f.info : f \in {g \in frames : g.type = "ScanResp" /\ g.src # c}}

Connect(c) ==
    /\ c \in Joiners
    /\ call[c] = Idle
    /\ state[c] # "None"
    /\ \E n \in Scanned(c) :
         /\ n.host # None
         /\ target' = [target EXCEPT ![c] = n.bssid]
         /\ call' = [call EXCEPT ![c] = [op |-> "connect", host |-> n.host, tx |-> sent[c]]]
    /\ joining' = [joining EXCEPT ![c] = TRUE]
    /\ UNCHANGED <<state, reason, info, hostVars, hostSeen, syncSeq, netVars, envVars>>

\* The last of the 300 polls retransmits too, and polls no more.
ConnectSend(c) ==
    /\ call[c].op \in {"connect", "resend"}
    /\ SendUnlocked(c, call[c].tx,
                    [type |-> "Connect", src |-> c, dst |-> call[c].host])
    /\ \E next \in IF call[c].op = "connect" THEN {"poll"} ELSE {"poll", "expired"} :
         call' = [call EXCEPT ![c] = [op |-> next, host |-> call[c].host]]
    /\ UNCHANGED <<state, reason, info, hostVars, joinVars, envVars>>

\* Every 50th poll that does not find StationConnected retransmits.
ConnectResend(c) ==
    /\ call[c].op = "poll"
    /\ state[c] # "StationConnected"
    /\ call' = [call EXCEPT ![c] = [op |-> "resend", host |-> call[c].host, tx |-> sent[c]]]
    /\ UNCHANGED <<state, reason, info, hostVars, joinVars, netVars, envVars>>

ConnectSucceed(c) ==
    /\ call[c].op = "poll"
    /\ state[c] = "StationConnected"
    /\ call' = [call EXCEPT ![c] = Idle]
    /\ UNCHANGED <<state, reason, info, hostVars, joinVars, netVars, envVars>>

\* Whatever the state is by now.
ConnectTimeout(c) ==
    /\ call[c].op = "expired"
    /\ joining' = [joining EXCEPT ![c] = FALSE]
    /\ syncSeq' = [syncSeq EXCEPT ![c] = 0]
    /\ call' = [call EXCEPT ![c] = Idle]
    /\ UNCHANGED <<state, reason, info, hostVars, target, hostSeen, netVars, envVars>>

Disconnect(c) ==
    /\ c \in Joiners
    /\ call[c] = Idle
    /\ IF joining[c] /\ info[c].host # None
       THEN SendFrame(c, {[type |-> "RelayBye", src |-> c, dst |-> info[c].host,
                           bssid |-> target[c]]}, 1)
       ELSE UNCHANGED netVars
    /\ joining' = [joining EXCEPT ![c] = FALSE]
    /\ syncSeq' = [syncSeq EXCEPT ![c] = 0]
    /\ state' = [state EXCEPT ![c] = "Station"]
    /\ ResetStations(c)
    /\ UNCHANGED <<reason, info, scanner, target, hostSeen, call, envVars>>

-----------------------------------------------------------------------------
(* Frames: OnControlFrame on the run loop.  A frame that its handler drops *)
(* changes nothing.                                                        *)

HandleScan(c, f) ==
    /\ f.type = "Scan"
    /\ state[c] = "AccessPointCreated"
    /\ scanner' = [scanner EXCEPT ![c] = RecordScanner(@, f.src)]
    /\ SendFrame(c, {[type |-> "ScanResp", src |-> c, dst |-> f.src,
                      info |-> BuildNetwork(c, station[c], info[c].bssid)]}, 1)
    /\ UNCHANGED <<state, reason, info, station, seen, joinVars, call, envVars>>

HandleConnect(c, f) ==
    LET known == SlotsOf(station[c], f.src) # {}
        nid   == NodeIdFor(station[c], f.src)
        tab   == [station[c] EXCEPT ![nid] = f.src]
    IN  /\ f.type = "Connect"
        /\ state[c] = "AccessPointCreated"
        /\ known \/ WasRecentScanner(scanner[c], f.src)
        /\ known \/ Cardinality(Active(station[c])) < StationCountMax
        /\ station' = [station EXCEPT ![c] = tab]
        /\ seen' = [seen EXCEPT ![c][nid] = 0]
        /\ UpdateNodes(c, tab, info[c].bssid)
        /\ UNCHANGED <<state, reason, scanner, joinVars, call, envVars>>

\* Mutant: the gate looks at the bssid only once the console is connected.
Foreign_Connected(c, net) ==
    state[c] = "StationConnected" /\ joining[c] /\ net.bssid # target[c]

\* The session-scoping gate: another network than the one Connect targets.
Foreign(c, net) == joining[c] /\ net.bssid # target[c]

\* The sequence number is taken before the network is looked at.
HandleSyncNetwork(c, f) ==
    /\ f.type = "SyncNetwork"
    /\ state[c] \in {"Station", "StationConnected"}
    /\ ~Stale(syncSeq[c], f.seq)
    /\ syncSeq' = [syncSeq EXCEPT ![c] = IF f.seq = 0 THEN @ ELSE f.seq]
    /\ \/ /\ Foreign(c, f.info)
          /\ UNCHANGED <<info, hostSeen, state, applied>>
       \/ /\ ~Foreign(c, f.info)
          /\ info' = [info EXCEPT ![c] = f.info]
          /\ hostSeen' = [hostSeen EXCEPT ![c] = 0]
          /\ state' = [state EXCEPT ![c] =
                         IF c \in Nodes(f.info) THEN "StationConnected" ELSE @]
          /\ applied' = [applied EXCEPT ![c] = [src |-> f.src, seq |-> f.seq]]
    /\ UNCHANGED <<reason, hostVars, joining, target, call, netVars, due, running>>

HandleRelayHeartbeat(c, f) ==
    /\ f.type = "RelayHeartbeat"
    /\ state[c] = "AccessPointCreated"
    /\ f.bssid = info[c].bssid
    /\ SlotsOf(station[c], f.src) # {}
    /\ seen' = [seen EXCEPT ![c][Min(SlotsOf(station[c], f.src))] = 0]
    /\ UNCHANGED <<state, reason, info, station, scanner, joinVars, call, netVars, envVars>>

\* The host said goodbye to a station of its network.
HostBye(c, f) ==
    /\ f.type = "RelayBye"
    /\ state[c] = "StationConnected"
    /\ joining[c] /\ f.bssid = target[c] /\ f.src = info[c].host
    /\ state' = [state EXCEPT ![c] = "Station"]
    /\ reason' = [reason EXCEPT ![c] = 3]
    /\ joining' = [joining EXCEPT ![c] = FALSE]
    /\ syncSeq' = [syncSeq EXCEPT ![c] = 0]
    /\ UNCHANGED <<info, hostVars, target, hostSeen, call, netVars, envVars>>

\* A station said goodbye to its host.
StationBye(c, f) ==
    /\ f.type = "RelayBye"
    /\ state[c] = "AccessPointCreated"
    /\ f.bssid = info[c].bssid
    /\ SlotsOf(station[c], f.src) # {}
    /\ LET nid == Min(SlotsOf(station[c], f.src))
           tab == [station[c] EXCEPT ![nid] = None]
       IN  /\ station' = [station EXCEPT ![c] = tab]
           /\ seen' = [seen EXCEPT ![c][nid] = 0]
           /\ UpdateNodes(c, tab, info[c].bssid)
    /\ UNCHANGED <<state, reason, scanner, joinVars, call, envVars>>

HandleRelayBye(c, f) == HostBye(c, f) \/ StationBye(c, f)

OnControlFrame(c, f) ==
    /\ Reaches(f, c)
    /\ \/ HandleScan(c, f)
       \/ HandleConnect(c, f)
       \/ HandleSyncNetwork(c, f)
       \/ HandleRelayHeartbeat(c, f)
       \/ HandleRelayBye(c, f)

-----------------------------------------------------------------------------
(* Tick, on the run loop, once per beacon interval.                        *)

\* Reap silent stations, then re-sync the others in any case.
HostTick(c) ==
    LET silent == {i \in Active(station[c]) : seen[c][i] >= PeerTimeout}
        tab    == [i \in Slot |-> IF i \in silent THEN None ELSE station[c][i]]
    IN  /\ state[c] = "AccessPointCreated"
        /\ station' = [station EXCEPT ![c] = tab]
        /\ seen' = [seen EXCEPT ![c] = [i \in Slot |-> IF i \in silent THEN 0 ELSE @[i]]]
        /\ UpdateNodes(c, tab, info[c].bssid)
        /\ UNCHANGED <<state, reason, scanner, joinVars>>

\* Heartbeat to the host we joined, then give up on a silent one.
StationTick(c) ==
    /\ state[c] \in {"Station", "StationConnected"}
    /\ IF joining[c] /\ state[c] = "StationConnected" /\ info[c].host # None
       THEN SendFrame(c, {[type |-> "RelayHeartbeat", src |-> c, dst |-> info[c].host,
                           bssid |-> target[c]]}, 1)
       ELSE UNCHANGED netVars
    /\ IF state[c] = "StationConnected" /\ hostSeen[c] >= PeerTimeout
       THEN /\ state' = [state EXCEPT ![c] = "Station"]
            /\ reason' = [reason EXCEPT ![c] = 6]
            /\ joining' = [joining EXCEPT ![c] = FALSE]
            /\ syncSeq' = [syncSeq EXCEPT ![c] = 0]
       ELSE UNCHANGED <<state, reason, joining, syncSeq>>
    /\ UNCHANGED <<info, hostVars, target, hostSeen>>

IdleTick(c) ==
    /\ state[c] \in {"None", "Initialized", "AccessPoint"}
    /\ UNCHANGED <<state, reason, info, hostVars, joinVars, netVars>>

Tick(c) ==
    /\ running[c] /\ due[c]
    /\ due' = [due EXCEPT ![c] = FALSE]
    /\ HostTick(c) \/ StationTick(c) \/ IdleTick(c)
    /\ UNCHANGED <<call, running, applied>>

-----------------------------------------------------------------------------
(* The environment: time, and the user starting and stopping the relay.    *)

Older(age, most) == IF age < most THEN age + 1 ELSE age

\* One clock step, the beacon interval.  Only ages that are read are counted:
\* m_host_last_seen is written by the sync that makes a console connected.
Elapse ==
    /\ seen' = [c \in Console |-> [i \in Slot |->
                  IF station[c][i] = None THEN 0 ELSE Older(seen[c][i], PeerTimeout)]]
    /\ scanner' = [c \in Console |-> [i \in 1..MaxScanners |->
                     IF scanner[c][i].ip = None THEN Unused
                     ELSE [scanner[c][i] EXCEPT !.age = Older(@, ScannerTimeout + 1)]]]
    /\ hostSeen' = [c \in Console |->
                      IF state[c] = "StationConnected"
                      THEN Older(hostSeen[c], PeerTimeout) ELSE 0]
    /\ due' = [c \in Console |-> TRUE]
    /\ UNCHANGED <<state, reason, info, station, joining, target, syncSeq, call,
                   netVars, running, applied>>

\* The state SendFrame and the run loop look at; Start and Stop themselves are
\* SlpRuntime's.
StartStop(c) ==
    /\ c \in Restarting
    /\ running' = [running EXCEPT ![c] = ~@]
    /\ UNCHANGED <<state, reason, info, hostVars, joinVars, call, netVars, due, applied>>

-----------------------------------------------------------------------------
\* After boot (main() calls Initialize) and the user's Start.
InitBut(st, net) ==
    /\ state = st
    /\ info = net
    /\ reason = [c \in Console |-> 0]
    /\ station = [c \in Console |-> NoStations]
    /\ seen = [c \in Console |-> [i \in Slot |-> 0]]
    /\ scanner = [c \in Console |-> [i \in 1..MaxScanners |-> Unused]]
    /\ joining = [c \in Console |-> FALSE]
    /\ target = [c \in Console |-> None]
    /\ hostSeen = [c \in Console |-> 0]
    /\ syncSeq = [c \in Console |-> 0]
    /\ call = [c \in Console |-> Idle]
    /\ sent = [c \in Console |-> 0]
    /\ due = [c \in Console |-> TRUE]
    /\ running = [c \in Console |-> TRUE]
    /\ frames = {}
    /\ applied = [c \in Console |-> [src |-> None, seq |-> 0]]

Init == InitBut([c \in Console |-> "Initialized"], [c \in Console |-> NoNetwork])

\* A later state of Spec: the hosts have called OpenAccessPoint and
\* CreateNetwork, the other consoles OpenStation.
InitOpened ==
    InitBut([c \in Console |-> IF c \in Hosts THEN "AccessPointCreated" ELSE "Station"],
            [c \in Console |-> IF c \in Hosts THEN BuildNetwork(c, NoStations, c)
                               ELSE NoNetwork])

HostCall(c) ==
    \/ OpenAccessPoint(c) \/ CloseAccessPoint(c) \/ CreateNetwork(c)
    \/ DestroyNetwork(c) \/ SetAdvertiseData(c)

StationCall(c) ==
    \/ OpenStation(c) \/ CloseStation(c) \/ Scan(c) \/ ScanSend(c)
    \/ Connect(c) \/ ConnectSend(c) \/ ConnectResend(c) \/ ConnectSucceed(c)
    \/ ConnectTimeout(c) \/ Disconnect(c)

Next ==
    \/ \E c \in Console :
         \/ Initialize(c) \/ Finalize(c) \/ HostCall(c) \/ StationCall(c)
         \/ \E f \in frames : OnControlFrame(c, f)
         \/ Tick(c) \/ StartStop(c)
    \/ Elapse

Spec       == Init /\ [][Next]_vars
SpecOpened == InitOpened /\ [][Next]_vars

-----------------------------------------------------------------------------
(* Properties.                                                             *)

\* Type invariant of LdnControl's fields and of the frames on the relay.
TypeOK ==
    /\ state \in [Console -> CommState]
    /\ reason \in [Console -> {0, 3, 6}]
    /\ info \in [Console -> NetworkInfo]
    /\ station \in [Console -> [Slot -> Console \cup {None}]]
    /\ seen \in [Console -> [Slot -> 0..PeerTimeout]]
    /\ scanner \in [Console -> [1..MaxScanners -> Scanner]]
    /\ joining \in [Console -> BOOLEAN]
    /\ target \in [Console -> Console \cup {None}]
    /\ hostSeen \in [Console -> 0..PeerTimeout]
    /\ syncSeq \in [Console -> 0..(SeqMod - 1)]
    /\ call \in [Console -> Call]
    /\ sent \in [Console -> Nat]
    /\ due \in [Console -> BOOLEAN]
    /\ running \in [Console -> BOOLEAN]
    /\ frames \subseteq Frame
    /\ applied \in [Console -> [src : Console \cup {None}, seq : 0..(SeqMod - 1)]]

\* A peer never holds two station slots, however often its Connect is
\* retransmitted or repeated by the relay ("one real peer filled all 7 station
\* slots with itself", ldn_control.cpp:1040).
OneSlotPerPeer ==
    \A c \in Console : \A i, j \in Slot :
       station[c][i] # None /\ station[c][i] = station[c][j] => i = j

\* Stations are registered only while a network exists, and what the host
\* advertises (ScanResp, SyncNetwork, GetNetworkInfo) is exactly its station
\* table, under its own bssid, whichever calls and frames came before.
HostTableAdvertised ==
    \A c \in Console :
       /\ Active(station[c]) # {} => state[c] = "AccessPointCreated"
       /\ state[c] = "AccessPointCreated" => info[c] = BuildNetwork(c, station[c], c)

\* Only a console that has scanned gets a station slot: "A legitimate joiner
\* always Scans us first" (ldn_control.hpp:283), whatever Connect frames of other
\* sessions the relay spreads.
OnlyScannersJoin ==
    \A c \in Console : \A i \in Active(station[c]) :
       \E f \in frames : f.type = "Scan" /\ f.src = station[c][i]

\* On a relay that routes by address, a console in StationConnected is a node
\* of the network it reports (HandleSyncNetwork checks it only on the way in).
ConnectedListsSelf ==
    \A c \in Console :
       ~Flooding /\ state[c] = "StationConnected" => c \in Nodes(info[c])

\* While a join is active no other network's NetworkInfo reaches
\* m_network_info (the session-scoping gate, ldn_control.cpp:738).
SessionGate ==
    [][\A c \in Console :
         joining[c] /\ info'[c] # info[c] => info'[c].host = c \/ info'[c].bssid = target[c]]_vars

\* The place of a sequence number in the order console c sends in: the k of
\* TxSeq(c, k).
SendOrder(c, seq) == ((seq - 1 - FirstSeq[c]) % (SeqMod - 1)) + 1

\* "a delayed frame can't regress the node list backward" (ldn_control.cpp:719):
\* until a console forgets its sequence number (m_relay_sync_seq_valid), a sync
\* it applies was sent after the one it applied before from that host, also when
\* the u16 counter has wrapped between the two.  The premise is the window: a
\* number SeqWindow or more behind counts as a restarted counter and is taken on
\* purpose (ldn_control.cpp:721); the skipped 0 costs the window one frame where
\* the counter wraps.
SyncsAdvance ==
    [][\A c \in Console :
         LET old == SendOrder(applied[c].src, applied[c].seq)
             new == SendOrder(applied[c].src, applied'[c].seq)
         IN  /\ syncSeq[c] # 0 /\ applied'[c] # applied[c]
             /\ applied'[c].src = applied[c].src
             /\ old - new < SeqWindow - 1
             => new > old]_vars

=============================================================================
