-------------------------- MODULE LdnControlProofs --------------------------
EXTENDS LdnControl, FiniteSetTheorems, TLAPS

\* SendFrame's u16 counter, 0 skipped, yields a sequence number.
LEMMA SeqType ==
    ASSUME NEW c \in Console, NEW k \in Int
    PROVE  TxSeq(c, k) \in 0..(SeqMod - 1)
  <1>1. \A a \in Int : \A b \in Nat \ {0} : a % b \in 0..(b - 1)
    OBVIOUS
  <1>2. FirstSeq[c] + k - 1 \in Int /\ SeqMod - 1 \in Nat \ {0}
    BY LdnAssumption
  <1>3. (FirstSeq[c] + k - 1) % (SeqMod - 1) \in 0..((SeqMod - 1) - 1)
    BY <1>1, <1>2, Zenon
  <1> QED
    BY <1>3, LdnAssumption DEF TxSeq

\* The active stations of a table can be counted, as UpdateNodes does.
LEMMA ActiveFinite ==
    ASSUME NEW tab
    PROVE  /\ IsFiniteSet(Active(tab))
           /\ Cardinality(Active(tab)) \in Nat
           /\ \A i \in Slot : Cardinality({j \in Active(tab) : j <= i}) \in Nat
  <1>1. IsFiniteSet(Slot)
    BY LdnAssumption, FS_Interval DEF Slot
  <1>2. Active(tab) \subseteq Slot
    BY DEF Active
  <1>3. IsFiniteSet(Active(tab))
    BY <1>1, <1>2, FS_Subset
  <1>4. \A i \in Slot : IsFiniteSet({j \in Active(tab) : j <= i})
    BY <1>3, FS_Subset
  <1> QED
    BY <1>3, <1>4, FS_CardinalityType

\* The fields of what the MITM thread is doing, by operation.
LEMMA CallFields ==
    ASSUME NEW x \in Call
    PROVE  /\ x.op = "scan" => x.tx \in Nat
           /\ x.op \in {"connect", "resend"} => x.host \in Console /\ x.tx \in Nat
           /\ x.op \in {"poll", "expired"} => x.host \in Console
  <1>1. CASE x = Idle
    BY <1>1 DEF Idle
  <1>2. CASE x \in [op : {"scan"}, tx : Nat]
    BY <1>2
  <1>3. CASE x \in [op : {"connect", "resend"}, host : Console, tx : Nat]
    BY <1>3
  <1>4. CASE x \in [op : {"poll", "expired"}, host : Console]
    BY <1>4
  <1> QED
    BY <1>1, <1>2, <1>3, <1>4 DEF Call

\* The fields of a control frame, by type, as OnControlFrame reads them.
LEMMA FrameFields ==
    ASSUME NEW f \in Frame
    PROVE  /\ f.src \in Console
           /\ f.type = "ScanResp" => f.dst \in Console /\ f.info \in NetworkInfo
           /\ f.type = "SyncNetwork" => /\ f.dst \in Console /\ f.info \in NetworkInfo
                                        /\ f.seq \in 0..(SeqMod - 1)
           /\ f.type \in {"RelayHeartbeat", "RelayBye"} => f.bssid \in Console \cup {None}
  <1>1. CASE f \in [type : {"Scan", "Connect"}, src : Console, dst : Console \cup {Everyone}]
    BY <1>1
  <1>2. CASE f \in [type : {"ScanResp"}, src : Console, dst : Console, info : NetworkInfo]
    BY <1>2
  <1>3. CASE f \in [type : {"SyncNetwork"}, src : Console, dst : Console,
                    info : NetworkInfo, seq : 0..(SeqMod - 1)]
    BY <1>3
  <1>4. CASE f \in [type : {"RelayHeartbeat", "RelayBye"}, src : Console,
                    dst : Console \cup {Everyone}, bssid : Console \cup {None}]
    BY <1>4
  <1> QED
    BY <1>1, <1>2, <1>3, <1>4 DEF Frame

\* The state after boot and Start is well typed.
LEMMA InitType == Init => TypeOK
  BY LdnAssumption DEF Init, InitBut, TypeOK, CommState, NetworkInfo, NoNetwork, NoStations,
     Scanner, Unused, Call, Idle

-----------------------------------------------------------------------------
\* SendFrame under m_mutex keeps the frames and the counter well typed.
LEMMA SendFrameType ==
    ASSUME TypeOK, NEW c \in Console, NEW F \in SUBSET Frame, NEW n \in Nat,
           SendFrame(c, F, n)
    PROVE  frames' \subseteq Frame /\ sent' \in [Console -> Nat]
  <1>1. frames \subseteq Frame /\ sent \in [Console -> Nat]
    BY DEF TypeOK
  <1>2. CASE running[c] /\ sent[c] + n <= MaxSent[c]
    <2>1. frames' = frames \cup F /\ sent' = [sent EXCEPT ![c] = @ + n]
      BY <1>2 DEF SendFrame
    <2> QED
      BY <1>1, <2>1
  <1>3. CASE ~(running[c] /\ sent[c] + n <= MaxSent[c])
    BY <1>1, <1>3 DEF SendFrame, netVars
  <1> QED
    BY <1>2, <1>3

\* So does the unlocked SendFrame of Scan and Connect, which may lose stamps.
LEMMA SendUnlockedType ==
    ASSUME TypeOK, NEW c \in Console, NEW f \in Frame, NEW tx \in Nat,
           SendUnlocked(c, tx, f)
    PROVE  frames' \subseteq Frame /\ sent' \in [Console -> Nat]
  <1>1. frames \subseteq Frame /\ sent \in [Console -> Nat]
    BY DEF TypeOK
  <1>2. CASE running[c] /\ tx < MaxSent[c]
    <2>1. frames' = frames \cup {f} /\ sent' = [sent EXCEPT ![c] = tx + 1]
      BY <1>2 DEF SendUnlocked
    <2> QED
      BY <1>1, <2>1
  <1>3. CASE ~(running[c] /\ tx < MaxSent[c])
    BY <1>1, <1>3 DEF SendUnlocked, netVars
  <1> QED
    BY <1>2, <1>3

\* BuildNetwork makes a NetworkInfo of any station table.
LEMMA BuildNetworkType ==
    ASSUME NEW c \in Console, NEW tab \in [Slot -> Console \cup {None}],
           NEW b \in Console \cup {None}
    PROVE  BuildNetwork(c, tab, b) \in NetworkInfo
  BY DEF BuildNetwork, NetworkInfo, Active

\* What UpdateNodes sends are frames.
LEMMA SyncsType ==
    ASSUME TypeOK, NEW c \in Console, NEW tab \in [Slot -> Console \cup {None}],
           NEW net \in NetworkInfo
    PROVE  Syncs(c, tab, net) \subseteq Frame
  <1>1. ASSUME NEW i \in Active(tab)
        PROVE  TxSeq(c, sent[c] + Cardinality({j \in Active(tab) : j <= i}))
                 \in 0..(SeqMod - 1)
    <2>1. Cardinality({j \in Active(tab) : j <= i}) \in Nat
      <3>1. i \in Slot
        BY DEF Active
      <3> QED
        BY <3>1, ActiveFinite, Zenon
    <2>2. sent[c] \in Nat
      BY DEF TypeOK
    <2>3. sent[c] + Cardinality({j \in Active(tab) : j <= i}) \in Int
      BY <2>1, <2>2
    <2> QED
      BY <2>3, SeqType, Zenon
  <1>2. \A i \in Active(tab) : tab[i] \in Console
    BY DEF Active
  <1>3. ASSUME NEW i \in Active(tab), NEW q \in 0..(SeqMod - 1)
        PROVE  [type |-> "SyncNetwork", src |-> c, dst |-> tab[i], info |-> net,
                seq |-> q] \in Frame
    BY <1>2 DEF Frame
  <1> QED
    BY <1>1, <1>3, Zenon DEF Syncs

\* UpdateNodes keeps m_network_info, the frames and the counter well typed.
LEMMA UpdateNodesType ==
    ASSUME TypeOK, NEW c \in Console, NEW tab \in [Slot -> Console \cup {None}],
           NEW b \in Console \cup {None}, UpdateNodes(c, tab, b)
    PROVE  /\ info' \in [Console -> NetworkInfo]
           /\ frames' \subseteq Frame /\ sent' \in [Console -> Nat]
  <1>1. BuildNetwork(c, tab, b) \in NetworkInfo
    BY BuildNetworkType
  <1>2. info' \in [Console -> NetworkInfo]
    BY <1>1 DEF UpdateNodes, TypeOK
  <1>3. Syncs(c, tab, BuildNetwork(c, tab, b)) \in SUBSET Frame
    BY <1>1, SyncsType
  <1>4. SendFrame(c, Syncs(c, tab, BuildNetwork(c, tab, b)), Cardinality(Active(tab)))
    BY DEF UpdateNodes
  <1>5. Cardinality(Active(tab)) \in Nat
    BY ActiveFinite
  <1> QED
    BY <1>2, <1>3, <1>4, <1>5, SendFrameType

\* ResetStations keeps the station table well typed.
LEMMA ResetStationsType ==
    ASSUME TypeOK, NEW c \in Console, ResetStations(c)
    PROVE  /\ station' \in [Console -> [Slot -> Console \cup {None}]]
           /\ seen' \in [Console -> [Slot -> 0..PeerTimeout]]
  BY LdnAssumption DEF ResetStations, TypeOK, NoStations

\* The calls that open and close the console's roles.
LEMMA RoleCallType ==
    ASSUME TypeOK, NEW c \in Console,
           \/ Initialize(c) \/ Finalize(c) \/ OpenAccessPoint(c) \/ CloseAccessPoint(c)
           \/ OpenStation(c) \/ CloseStation(c)
    PROVE  TypeOK'
  <1> USE DEF hostVars, joinVars, netVars, envVars
  <1>1. CASE Initialize(c)
    <2>1. state' \in [Console -> CommState] /\ reason' \in [Console -> {0, 3, 6}]
      BY <1>1 DEF TypeOK, Initialize, CommState
    <2> QED
      BY <1>1, <2>1, ResetStationsType DEF TypeOK, Initialize
  <1>2. CASE Finalize(c)
    <2>1. state' \in [Console -> CommState] /\ joining' \in [Console -> BOOLEAN]
      BY <1>2 DEF TypeOK, Finalize, CommState
    <2>2. syncSeq' \in [Console -> 0..(SeqMod - 1)]
      BY <1>2, LdnAssumption DEF TypeOK, Finalize
    <2> QED
      BY <1>2, <2>1, <2>2, ResetStationsType DEF TypeOK, Finalize
  <1>3. CASE OpenAccessPoint(c) \/ OpenStation(c)
    <2>1. PICK new \in CommState : Open(c, new)
      BY <1>3 DEF OpenAccessPoint, OpenStation, CommState
    <2>2. state' \in [Console -> CommState] /\ reason' \in [Console -> {0, 3, 6}]
      BY <2>1 DEF TypeOK, Open
    <2>3. /\ station' \in [Console -> [Slot -> Console \cup {None}]]
          /\ seen' \in [Console -> [Slot -> 0..PeerTimeout]]
      BY <2>1, ResetStationsType DEF TypeOK, Open
    <2> QED
      BY <2>1, <2>2, <2>3 DEF TypeOK, Open
  <1>4. CASE CloseAccessPoint(c) \/ CloseStation(c)
    <2>1. Close(c)
      BY <1>4 DEF CloseAccessPoint, CloseStation
    <2>2. state' \in [Console -> CommState]
      BY <2>1 DEF TypeOK, Close, CommState
    <2> QED
      BY <2>1, <2>2, ResetStationsType DEF TypeOK, Close
  <1> QED
    BY <1>1, <1>2, <1>3, <1>4

\* The steps of Scan and Connect on the MITM thread.
LEMMA PollType ==
    ASSUME TypeOK, NEW c \in Console,
           \/ Scan(c) \/ ScanSend(c) \/ Connect(c) \/ ConnectSend(c) \/ ConnectResend(c)
           \/ ConnectSucceed(c) \/ ConnectTimeout(c)
    PROVE  TypeOK'
  <1> USE DEF hostVars, joinVars, netVars, envVars
  <1>1. CASE Scan(c)
    <2>1. call' \in [Console -> Call]
      BY <1>1 DEF TypeOK, Scan, Call
    <2> QED
      BY <1>1, <2>1 DEF TypeOK, Scan
  <1>2. CASE ScanSend(c)
    <2>1. call' \in [Console -> Call]
      BY <1>2 DEF TypeOK, ScanSend, Call
    <2>2. call[c].tx \in Nat /\ [type |-> "Scan", src |-> c, dst |-> Everyone] \in Frame
      BY <1>2, CallFields DEF TypeOK, ScanSend, Frame
    <2> QED
      BY <1>2, <2>1, <2>2, SendUnlockedType DEF TypeOK, ScanSend
  <1>3. CASE Connect(c)
    <2>1. PICK n \in Scanned(c) :
            /\ n.host # None
            /\ target' = [target EXCEPT ![c] = n.bssid]
            /\ call' = [call EXCEPT ![c] = [op |-> "connect", host |-> n.host, tx |-> sent[c]]]
      BY <1>3 DEF Connect
    <2>2. n.bssid \in Console \cup {None} /\ n.host \in Console
      <3>1. n \in NetworkInfo
        BY DEF Scanned, TypeOK, Frame
      <3> QED
        BY <2>1, <3>1 DEF NetworkInfo
    <2>3. target' \in [Console -> Console \cup {None}]
      BY <2>1, <2>2 DEF TypeOK
    <2>4. call' \in [Console -> Call]
      BY <2>1, <2>2 DEF TypeOK, Call
    <2>5. joining' \in [Console -> BOOLEAN]
      BY <1>3 DEF TypeOK, Connect
    <2> QED
      BY <1>3, <2>3, <2>4, <2>5 DEF TypeOK, Connect
  <1>4. CASE ConnectSend(c)
    <2>1. call[c].host \in Console /\ call[c].tx \in Nat
      BY <1>4, CallFields DEF TypeOK, ConnectSend
    <2>2. call' \in [Console -> Call]
      BY <1>4, <2>1 DEF TypeOK, ConnectSend, Call
    <2>3. [type |-> "Connect", src |-> c, dst |-> call[c].host] \in Frame
      BY <2>1 DEF Frame
    <2> QED
      BY <1>4, <2>1, <2>2, <2>3, SendUnlockedType DEF TypeOK, ConnectSend
  <1>5. CASE ConnectResend(c)
    <2>1. call[c].host \in Console
      BY <1>5, CallFields DEF TypeOK, ConnectResend
    <2>2. [op |-> "resend", host |-> call[c].host, tx |-> sent[c]] \in Call
      BY <2>1 DEF TypeOK, Call
    <2>3. call' \in [Console -> Call]
      BY <1>5, <2>2 DEF TypeOK, ConnectResend
    <2> QED
      BY <1>5, <2>3 DEF TypeOK, ConnectResend
  <1>6. CASE ConnectSucceed(c)
    <2>1. call' \in [Console -> Call]
      BY <1>6 DEF TypeOK, ConnectSucceed, Call
    <2> QED
      BY <1>6, <2>1 DEF TypeOK, ConnectSucceed
  <1>7. CASE ConnectTimeout(c)
    <2>1. call' \in [Console -> Call] /\ joining' \in [Console -> BOOLEAN]
      BY <1>7 DEF TypeOK, ConnectTimeout, Call
    <2>2. syncSeq' \in [Console -> 0..(SeqMod - 1)]
      BY <1>7, LdnAssumption DEF TypeOK, ConnectTimeout
    <2> QED
      BY <1>7, <2>1, <2>2 DEF TypeOK, ConnectTimeout
  <1> QED
    BY <1>1, <1>2, <1>3, <1>4, <1>5, <1>6, <1>7

\* The calls that may send a goodbye or new NetworkInfo.
LEMMA SendingCallType ==
    ASSUME TypeOK, NEW c \in Console,
           CreateNetwork(c) \/ DestroyNetwork(c) \/ SetAdvertiseData(c) \/ Disconnect(c)
    PROVE  TypeOK'
  <1> USE DEF hostVars, joinVars, netVars, envVars
  <1>1. CASE CreateNetwork(c)
    <2>1. state' \in [Console -> CommState]
      BY <1>1 DEF TypeOK, CreateNetwork, CommState
    <2>2. NoStations \in [Slot -> Console \cup {None}] /\ UpdateNodes(c, NoStations, c)
      BY <1>1 DEF CreateNetwork, NoStations
    <2>3. /\ info' \in [Console -> NetworkInfo]
          /\ frames' \subseteq Frame /\ sent' \in [Console -> Nat]
      BY <2>2, UpdateNodesType
    <2> QED
      BY <1>1, <2>1, <2>3, ResetStationsType DEF TypeOK, CreateNetwork
  <1>2. CASE DestroyNetwork(c)
    <2>1. state' \in [Console -> CommState]
      BY <1>2 DEF TypeOK, DestroyNetwork, CommState
    <2>2. [type |-> "RelayBye", src |-> c, dst |-> Everyone, bssid |-> info[c].bssid] \in Frame
      BY DEF TypeOK, NetworkInfo, Frame
    <2>3. frames' \subseteq Frame /\ sent' \in [Console -> Nat]
      BY <1>2, <2>2, SendFrameType DEF DestroyNetwork, TypeOK
    <2> QED
      BY <1>2, <2>1, <2>3, ResetStationsType DEF TypeOK, DestroyNetwork
  <1>3. CASE SetAdvertiseData(c)
    <2>1. /\ station[c] \in [Slot -> Console \cup {None}]
          /\ info[c].bssid \in Console \cup {None}
      BY DEF TypeOK, NetworkInfo
    <2>2. /\ info' \in [Console -> NetworkInfo]
          /\ frames' \subseteq Frame /\ sent' \in [Console -> Nat]
      BY <1>3, <2>1, UpdateNodesType DEF SetAdvertiseData
    <2> QED
      BY <1>3, <2>2 DEF TypeOK, SetAdvertiseData
  <1>4. CASE Disconnect(c)
    <2>1. state' \in [Console -> CommState] /\ joining' \in [Console -> BOOLEAN]
      BY <1>4 DEF TypeOK, Disconnect, CommState
    <2>2. syncSeq' \in [Console -> 0..(SeqMod - 1)]
      BY <1>4, LdnAssumption DEF TypeOK, Disconnect
    <2>3. info[c].host # None => [type |-> "RelayBye", src |-> c, dst |-> info[c].host,
                                  bssid |-> target[c]] \in Frame
      BY DEF TypeOK, NetworkInfo, Frame
    <2>4. frames' \subseteq Frame /\ sent' \in [Console -> Nat]
      BY <1>4, <2>3, SendFrameType DEF Disconnect, TypeOK
    <2> QED
      BY <1>4, <2>1, <2>2, <2>4, ResetStationsType DEF TypeOK, Disconnect
  <1> QED
    BY <1>1, <1>2, <1>3, <1>4

\* RecordScanner writes a well-typed entry of the recent-scanner table.
LEMMA RecordScannerType ==
    ASSUME NEW tab \in [1..MaxScanners -> Scanner], NEW ip \in Console
    PROVE  RecordScanner(tab, ip) \in [1..MaxScanners -> Scanner]
  <1>1. [ip |-> ip, age |-> 0] \in Scanner
    BY LdnAssumption DEF Scanner
  <1> QED
    BY <1>1 DEF RecordScanner

\* Touching last_seen of one station keeps the ages well typed.
LEMMA SeenReset ==
    ASSUME TypeOK, NEW c \in Console, NEW i, seen' = [seen EXCEPT ![c][i] = 0]
    PROVE  seen' \in [Console -> [Slot -> 0..PeerTimeout]]
  <1>1. seen \in [Console -> [Slot -> 0..PeerTimeout]] /\ 0 \in 0..PeerTimeout
    BY LdnAssumption DEF TypeOK
  <1>2. [seen[c] EXCEPT ![i] = 0] \in [Slot -> 0..PeerTimeout]
    BY <1>1
  <1>3. seen' = [seen EXCEPT ![c] = [seen[c] EXCEPT ![i] = 0]]
    OBVIOUS
  <1> QED
    BY <1>1, <1>2, <1>3

\* Every frame handler of the run loop keeps the types.
LEMMA FrameType ==
    ASSUME TypeOK, NEW c \in Console, NEW f \in frames, OnControlFrame(c, f)
    PROVE  TypeOK'
  <1> USE DEF hostVars, joinVars, netVars, envVars
  <1>0. /\ f \in Frame /\ f.src \in Console
        /\ station[c] \in [Slot -> Console \cup {None}]
        /\ info[c].bssid \in Console \cup {None}
    BY FrameFields DEF TypeOK, NetworkInfo
  <1>1. CASE HandleScan(c, f)
    <2>1. scanner' \in [Console -> [1..MaxScanners -> Scanner]]
      <3>1. RecordScanner(scanner[c], f.src) \in [1..MaxScanners -> Scanner]
        BY <1>0, RecordScannerType DEF TypeOK
      <3> QED
        BY <1>1, <3>1 DEF HandleScan, TypeOK
    <2>2. BuildNetwork(c, station[c], info[c].bssid) \in NetworkInfo
      BY <1>0, BuildNetworkType
    <2>3. [type |-> "ScanResp", src |-> c, dst |-> f.src,
           info |-> BuildNetwork(c, station[c], info[c].bssid)] \in Frame
      BY <1>0, <2>2 DEF Frame
    <2>4. frames' \subseteq Frame /\ sent' \in [Console -> Nat]
      BY <1>1, <2>3, SendFrameType DEF HandleScan
    <2> QED
      BY <1>1, <2>1, <2>4 DEF TypeOK, HandleScan
  <1>2. CASE HandleConnect(c, f)
    <2> DEFINE nid == NodeIdFor(station[c], f.src)
               tab == [station[c] EXCEPT ![nid] = f.src]
    <2>1. tab \in [Slot -> Console \cup {None}]
      BY <1>0
    <2>2. /\ station' = [station EXCEPT ![c] = tab]
          /\ seen' = [seen EXCEPT ![c][nid] = 0]
          /\ UpdateNodes(c, tab, info[c].bssid)
          /\ UNCHANGED <<state, reason, scanner, joinVars, call, envVars>>
      BY <1>2 DEF HandleConnect
    <2> HIDE DEF nid, tab
    <2>3. /\ info' \in [Console -> NetworkInfo]
          /\ frames' \subseteq Frame /\ sent' \in [Console -> Nat]
      BY <1>0, <2>1, <2>2, UpdateNodesType
    <2>4. station' \in [Console -> [Slot -> Console \cup {None}]]
      BY <2>1, <2>2 DEF TypeOK
    <2>5. seen' \in [Console -> [Slot -> 0..PeerTimeout]]
      BY <2>2, SeenReset
    <2> QED
      BY <2>2, <2>3, <2>4, <2>5 DEF TypeOK
  <1>3. CASE HandleSyncNetwork(c, f)
    <2>1. f.info \in NetworkInfo /\ f.seq \in 0..(SeqMod - 1)
      BY <1>0, <1>3, FrameFields DEF HandleSyncNetwork
    <2>2. state' \in [Console -> CommState]
      BY <1>3 DEF HandleSyncNetwork, TypeOK, CommState
    <2>3. info' \in [Console -> NetworkInfo] /\ syncSeq' \in [Console -> 0..(SeqMod - 1)]
      BY <1>3, <2>1 DEF HandleSyncNetwork, TypeOK
    <2>4. hostSeen' \in [Console -> 0..PeerTimeout]
      <3>1. 0 \in 0..PeerTimeout /\ hostSeen \in [Console -> 0..PeerTimeout]
        BY LdnAssumption DEF TypeOK
      <3>2. hostSeen' = hostSeen \/ hostSeen' = [hostSeen EXCEPT ![c] = 0]
        BY <1>3 DEF HandleSyncNetwork
      <3> QED
        BY <3>1, <3>2
    <2>5. applied' \in [Console -> [src : Console \cup {None}, seq : 0..(SeqMod - 1)]]
      <3>1. [src |-> f.src, seq |-> f.seq] \in [src : Console \cup {None}, seq : 0..(SeqMod - 1)]
        BY <1>0, <2>1
      <3>2. \/ applied' = applied
            \/ applied' = [applied EXCEPT ![c] = [src |-> f.src, seq |-> f.seq]]
        BY <1>3 DEF HandleSyncNetwork
      <3>3. applied \in [Console -> [src : Console \cup {None}, seq : 0..(SeqMod - 1)]]
        BY DEF TypeOK
      <3> QED
        BY <3>1, <3>2, <3>3
    <2> QED
      BY <1>3, <2>2, <2>3, <2>4, <2>5 DEF HandleSyncNetwork, TypeOK
  <1>4. CASE HandleRelayHeartbeat(c, f)
    <2>1. seen' \in [Console -> [Slot -> 0..PeerTimeout]]
      BY <1>4, SeenReset DEF HandleRelayHeartbeat
    <2> QED
      BY <1>4, <2>1 DEF HandleRelayHeartbeat, TypeOK
  <1>5. CASE HostBye(c, f)
    <2>1. /\ state' \in [Console -> CommState] /\ joining' \in [Console -> BOOLEAN]
          /\ reason' \in [Console -> {0, 3, 6}]
      BY <1>5 DEF TypeOK, HostBye, CommState
    <2>2. syncSeq' \in [Console -> 0..(SeqMod - 1)]
      BY <1>5, LdnAssumption DEF TypeOK, HostBye
    <2> QED
      BY <1>5, <2>1, <2>2 DEF TypeOK, HostBye
  <1>6. CASE StationBye(c, f)
    <2> DEFINE nid == Min(SlotsOf(station[c], f.src))
               tab == [station[c] EXCEPT ![nid] = None]
    <2>1. tab \in [Slot -> Console \cup {None}]
      BY <1>0
    <2>2. /\ station' = [station EXCEPT ![c] = tab]
          /\ seen' = [seen EXCEPT ![c][nid] = 0]
          /\ UpdateNodes(c, tab, info[c].bssid)
          /\ UNCHANGED <<state, reason, scanner, joinVars, call, envVars>>
      BY <1>6 DEF StationBye
    <2> HIDE DEF nid, tab
    <2>3. /\ info' \in [Console -> NetworkInfo]
          /\ frames' \subseteq Frame /\ sent' \in [Console -> Nat]
      BY <1>0, <2>1, <2>2, UpdateNodesType
    <2>4. station' \in [Console -> [Slot -> Console \cup {None}]]
      BY <2>1, <2>2 DEF TypeOK
    <2>5. seen' \in [Console -> [Slot -> 0..PeerTimeout]]
      BY <2>2, SeenReset
    <2> QED
      BY <2>2, <2>3, <2>4, <2>5 DEF TypeOK
  <1> QED
    BY <1>1, <1>2, <1>3, <1>4, <1>5, <1>6 DEF OnControlFrame, HandleRelayBye

\* Tick keeps the types: reaping, re-syncing, heartbeat and giving up.
LEMMA TickType ==
    ASSUME TypeOK, NEW c \in Console, Tick(c)
    PROVE  TypeOK'
  <1> USE DEF hostVars, joinVars, netVars, envVars
  <1>0. due' \in [Console -> BOOLEAN] /\ UNCHANGED <<call, running, applied>>
    BY DEF Tick, TypeOK
  <1>1. CASE HostTick(c)
    <2> DEFINE silent == {i \in Active(station[c]) : seen[c][i] >= PeerTimeout}
               tab == [i \in Slot |-> IF i \in silent THEN None ELSE station[c][i]]
               ages == [i \in Slot |-> IF i \in silent THEN 0 ELSE seen[c][i]]
    <2>1. tab \in [Slot -> Console \cup {None}] /\ info[c].bssid \in Console \cup {None}
      BY DEF TypeOK, NetworkInfo
    <2>2. ages \in [Slot -> 0..PeerTimeout]
      BY LdnAssumption DEF TypeOK
    <2>3. /\ station' = [station EXCEPT ![c] = tab]
          /\ seen' = [seen EXCEPT ![c] = ages]
          /\ UpdateNodes(c, tab, info[c].bssid)
          /\ UNCHANGED <<state, reason, scanner, joinVars>>
      BY <1>1 DEF HostTick
    <2> HIDE DEF tab, ages
    <2>4. /\ info' \in [Console -> NetworkInfo]
          /\ frames' \subseteq Frame /\ sent' \in [Console -> Nat]
      BY <2>1, <2>3, UpdateNodesType
    <2>5. /\ station' \in [Console -> [Slot -> Console \cup {None}]]
          /\ seen' \in [Console -> [Slot -> 0..PeerTimeout]]
      BY <2>1, <2>2, <2>3 DEF TypeOK
    <2> QED
      BY <1>0, <2>3, <2>4, <2>5 DEF TypeOK
  <1>2. CASE StationTick(c)
    <2>1. info[c].host # None => [type |-> "RelayHeartbeat", src |-> c, dst |-> info[c].host,
                                  bssid |-> target[c]] \in Frame
      BY DEF TypeOK, NetworkInfo, Frame
    <2>2. frames' \subseteq Frame /\ sent' \in [Console -> Nat]
      BY <1>2, <2>1, SendFrameType DEF StationTick, TypeOK
    <2>3. /\ state' \in [Console -> CommState] /\ joining' \in [Console -> BOOLEAN]
          /\ reason' \in [Console -> {0, 3, 6}]
      BY <1>2 DEF TypeOK, StationTick, CommState
    <2>4. syncSeq' \in [Console -> 0..(SeqMod - 1)]
      <3>1. syncSeq' = syncSeq \/ syncSeq' = [syncSeq EXCEPT ![c] = 0]
        BY <1>2 DEF StationTick
      <3>2. syncSeq \in [Console -> 0..(SeqMod - 1)] /\ 0 \in 0..(SeqMod - 1)
        BY LdnAssumption DEF TypeOK
      <3> QED
        BY <3>1, <3>2
    <2> QED
      BY <1>0, <1>2, <2>2, <2>3, <2>4 DEF TypeOK, StationTick
  <1>3. CASE IdleTick(c)
    BY <1>0, <1>3 DEF TypeOK, IdleTick
  <1> QED
    BY <1>1, <1>2, <1>3 DEF Tick

\* The passage of one beacon interval keeps the types.
LEMMA ElapseType ==
    ASSUME TypeOK, Elapse
    PROVE  TypeOK'
  <1> USE DEF netVars
  <1>1. \A most \in Nat : \A age \in 0..most : Older(age, most) \in 0..most
    BY DEF Older
  <1>2. seen' \in [Console -> [Slot -> 0..PeerTimeout]]
    BY <1>1, LdnAssumption DEF Elapse, TypeOK
  <1>3. scanner' \in [Console -> [1..MaxScanners -> Scanner]]
    <2>1. Unused \in Scanner
      BY LdnAssumption DEF Unused, Scanner
    <2>2. ScannerTimeout + 1 \in Nat
      BY LdnAssumption
    <2>3. ASSUME NEW c \in Console, NEW i \in 1..MaxScanners
          PROVE  [scanner[c][i] EXCEPT !.age = Older(@, ScannerTimeout + 1)] \in Scanner
      <3>1. scanner[c][i] \in Scanner
        <4>1. scanner \in [Console -> [1..MaxScanners -> Scanner]]
          BY DEF TypeOK
        <4> QED
          BY <4>1, Zenon
      <3>2. Older(scanner[c][i].age, ScannerTimeout + 1) \in 0..(ScannerTimeout + 1)
        BY <1>1, <2>2, <3>1 DEF Scanner
      <3> QED
        BY <3>1, <3>2 DEF Scanner
    <2> QED
      BY <2>1, <2>3 DEF Elapse
  <1>4. hostSeen' \in [Console -> 0..PeerTimeout] /\ due' \in [Console -> BOOLEAN]
    BY <1>1, LdnAssumption DEF Elapse, TypeOK
  <1> QED
    BY <1>2, <1>3, <1>4 DEF Elapse, TypeOK

\* Every step keeps the types.
LEMMA NextType == TypeOK /\ [Next]_vars => TypeOK'
  <1> SUFFICES ASSUME TypeOK, [Next]_vars PROVE TypeOK'
    OBVIOUS
  <1>1. CASE UNCHANGED vars
    BY <1>1 DEF vars, hostVars, joinVars, netVars, envVars, TypeOK
  <1>2. CASE Elapse
    BY <1>2, ElapseType
  <1>3. ASSUME NEW c \in Console, StartStop(c)
        PROVE  TypeOK'
    <2>1. running' \in [Console -> BOOLEAN]
      BY <1>3 DEF StartStop, TypeOK
    <2> QED
      BY <1>3, <2>1 DEF StartStop, TypeOK, hostVars, joinVars, netVars
  <1> QED
    BY <1>1, <1>2, <1>3, RoleCallType, PollType, SendingCallType, FrameType, TickType
       DEF Next, HostCall, StationCall

\* Every field of LdnControl and every frame on the relay keeps its type, for
\* any number of consoles, slots, scanner entries and frames.
THEOREM TypeCorrect == Spec => []TypeOK
  BY InitType, NextType, PTL DEF Spec

-----------------------------------------------------------------------------
\* What a step can do to the host side of one console c: nothing; leave or
\* enter a state without a network and with an empty table; publish a table
\* while the network exists; republish it in any state; or move between two
\* station states.
LEMMA HostSideCases ==
    ASSUME TypeOK, HostTableAdvertised, [Next]_vars, NEW c \in Console
    PROVE  \/ UNCHANGED <<state[c], info[c], station[c]>>
           \/ state'[c] # "AccessPointCreated" /\ station'[c] = NoStations
           \/ /\ state'[c] = "AccessPointCreated"
              /\ info'[c] = BuildNetwork(c, station'[c], c)
           \/ /\ UNCHANGED <<state[c], station[c]>> /\ state[c] # "AccessPointCreated"
           \/ /\ station'[c] = station[c]
              /\ state[c] # "AccessPointCreated" /\ state'[c] # "AccessPointCreated"
  <1> USE DEF hostVars, joinVars, netVars, envVars
  <1>0. /\ state \in [Console -> CommState] /\ info \in [Console -> NetworkInfo]
        /\ station \in [Console -> [Slot -> Console \cup {None}]]
    BY DEF TypeOK
  <1>b. state[c] = "AccessPointCreated" => info[c].bssid = c
    <2>1. \A tab : BuildNetwork(c, tab, c).bssid = c
      BY DEF BuildNetwork
    <2> QED
      BY <2>1 DEF HostTableAdvertised
  <1>1. CASE UNCHANGED vars
    BY <1>1 DEF vars
  <1>2. CASE Elapse
    BY <1>2 DEF Elapse
  <1>3. ASSUME NEW d \in Console, Initialize(d) \/ Finalize(d) \/ Disconnect(d) \/ DestroyNetwork(d)
        PROVE  \/ UNCHANGED <<state[c], info[c], station[c]>>
               \/ state'[c] # "AccessPointCreated" /\ station'[c] = NoStations
    BY <1>0, <1>3 DEF Initialize, Finalize, Disconnect, DestroyNetwork, ResetStations
  <1>4. ASSUME NEW d \in Console, NEW new \in {"AccessPoint", "Station"}, Open(d, new) \/ Close(d)
        PROVE  \/ UNCHANGED <<state[c], info[c], station[c]>>
               \/ state'[c] # "AccessPointCreated" /\ station'[c] = NoStations
    BY <1>0, <1>4 DEF Open, Close, ResetStations
  <1>5. ASSUME NEW d \in Console, CreateNetwork(d)
        PROVE  \/ UNCHANGED <<state[c], info[c], station[c]>>
               \/ /\ state'[c] = "AccessPointCreated"
                  /\ info'[c] = BuildNetwork(c, station'[c], c)
    BY <1>0, <1>5 DEF CreateNetwork, UpdateNodes, ResetStations
  <1>6. ASSUME NEW d \in Console, SetAdvertiseData(d)
        PROVE  \/ UNCHANGED <<state[c], info[c], station[c]>>
               \/ /\ state'[c] = "AccessPointCreated"
                  /\ info'[c] = BuildNetwork(c, station'[c], c)
               \/ /\ UNCHANGED <<state[c], station[c]>> /\ state[c] # "AccessPointCreated"
    <2>1. CASE c # d
      BY <1>0, <1>6, <2>1 DEF SetAdvertiseData, UpdateNodes
    <2>2. CASE c = d
      <3>1. info'[c] = BuildNetwork(c, station[c], info[c].bssid)
        BY <1>0, <1>6, <2>2 DEF SetAdvertiseData, UpdateNodes
      <3>2. state[c] = "AccessPointCreated" => info[c].bssid = c
        BY <1>b
      <3> QED
        BY <1>6, <3>1, <3>2 DEF SetAdvertiseData
    <2> QED
      BY <2>1, <2>2
  <1>7. ASSUME NEW d \in Console, NEW tab, station' = [station EXCEPT ![d] = tab],
               state[d] = "AccessPointCreated", UNCHANGED state,
               UpdateNodes(d, tab, info[d].bssid)
        PROVE  \/ UNCHANGED <<state[c], info[c], station[c]>>
               \/ /\ state'[c] = "AccessPointCreated"
                  /\ info'[c] = BuildNetwork(c, station'[c], c)
    <2>1. CASE c # d
      BY <1>0, <1>7, <2>1 DEF UpdateNodes
    <2>2. CASE c = d
      <3>1. info'[c] = BuildNetwork(c, tab, info[c].bssid) /\ station'[c] = tab
        BY <1>0, <1>7, <2>2 DEF UpdateNodes
      <3>2. info[c].bssid = c
        BY <1>b, <1>7, <2>2
      <3> QED
        BY <1>7, <2>2, <3>1, <3>2
    <2> QED
      BY <2>1, <2>2
  <1>8. ASSUME NEW d \in Console, NEW f \in frames, OnControlFrame(d, f)
        PROVE  \/ UNCHANGED <<state[c], info[c], station[c]>>
               \/ /\ state'[c] = "AccessPointCreated"
                  /\ info'[c] = BuildNetwork(c, station'[c], c)
               \/ /\ station'[c] = station[c]
                  /\ state[c] # "AccessPointCreated" /\ state'[c] # "AccessPointCreated"
    <2>1. CASE HandleScan(d, f) \/ HandleRelayHeartbeat(d, f)
      BY <2>1 DEF HandleScan, HandleRelayHeartbeat
    <2>2. CASE HandleConnect(d, f)
      BY <1>7, <2>2 DEF HandleConnect
    <2>3. CASE HandleSyncNetwork(d, f)
      BY <1>0, <2>3 DEF HandleSyncNetwork
    <2>4. CASE HostBye(d, f)
      BY <1>0, <2>4 DEF HostBye
    <2>5. CASE StationBye(d, f)
      BY <1>7, <2>5 DEF StationBye
    <2> QED
      BY <1>8, <2>1, <2>2, <2>3, <2>4, <2>5 DEF OnControlFrame, HandleRelayBye
  <1>9. ASSUME NEW d \in Console, Tick(d)
        PROVE  \/ UNCHANGED <<state[c], info[c], station[c]>>
               \/ /\ state'[c] = "AccessPointCreated"
                  /\ info'[c] = BuildNetwork(c, station'[c], c)
               \/ /\ station'[c] = station[c]
                  /\ state[c] # "AccessPointCreated" /\ state'[c] # "AccessPointCreated"
    <2>1. CASE HostTick(d)
      BY <1>7, <2>1 DEF HostTick
    <2>2. CASE StationTick(d)
      BY <1>0, <2>2 DEF StationTick
    <2>3. CASE IdleTick(d)
      BY <2>3 DEF IdleTick
    <2> QED
      BY <1>9, <2>1, <2>2, <2>3 DEF Tick
  <1>10. ASSUME NEW d \in Console,
                \/ Scan(d) \/ ScanSend(d) \/ Connect(d) \/ ConnectSend(d) \/ ConnectResend(d)
                \/ ConnectSucceed(d) \/ ConnectTimeout(d) \/ StartStop(d)
         PROVE  UNCHANGED <<state, info, station>>
    BY <1>10 DEF Scan, ScanSend, Connect, ConnectSend, ConnectResend, ConnectSucceed,
                 ConnectTimeout, StartStop
  <1>11. CASE Next
    BY <1>2, <1>3, <1>4, <1>5, <1>6, <1>8, <1>9, <1>10, <1>11
       DEF Next, HostCall, StationCall, OpenAccessPoint, CloseAccessPoint, OpenStation,
           CloseStation
  <1> QED
    BY <1>1, <1>11

\* Every step keeps HostTableAdvertised: the five cases above each do.
LEMMA HostTableStep ==
    TypeOK /\ HostTableAdvertised /\ [Next]_vars => HostTableAdvertised'
  <1> SUFFICES ASSUME TypeOK, HostTableAdvertised, [Next]_vars, NEW c \in Console
               PROVE  /\ Active(station'[c]) # {} => state'[c] = "AccessPointCreated"
                      /\ state'[c] = "AccessPointCreated"
                         => info'[c] = BuildNetwork(c, station'[c], c)
    BY DEF HostTableAdvertised, Active, BuildNetwork
  <1>1. /\ Active(station[c]) # {} => state[c] = "AccessPointCreated"
        /\ state[c] = "AccessPointCreated" => info[c] = BuildNetwork(c, station[c], c)
    BY DEF HostTableAdvertised
  <1>2. Active(NoStations) = {}
    BY DEF Active, NoStations
  <1> QED
    BY <1>1, <1>2, HostSideCases

\* Stations exist only in a created network, and a host's NetworkInfo is its
\* station table under its own bssid, whatever the game calls, the relay
\* delivers or Tick reaps.
THEOREM HostTableCorrect == Spec => []HostTableAdvertised
  <1>1. Init => HostTableAdvertised
    BY DEF Init, InitBut, HostTableAdvertised, Active, NoStations
  <1> QED
    BY <1>1, HostTableStep, TypeCorrect, PTL DEF Spec

-----------------------------------------------------------------------------
\* A step registers a station only by HandleConnect; any other step keeps or
\* clears each slot.
LEMMA StationCases ==
    ASSUME TypeOK, [Next]_vars, NEW c \in Console
    PROVE  \/ \A i \in Slot : station'[c][i] \in {None, station[c][i]}
           \/ \E f \in frames : HandleConnect(c, f)
  <1> USE DEF hostVars, joinVars, netVars, envVars
  <1>0. station \in [Console -> [Slot -> Console \cup {None}]]
    BY DEF TypeOK
  <1>1. ASSUME NEW d \in Console, ResetStations(d)
        PROVE  \A i \in Slot : station'[c][i] \in {None, station[c][i]}
    BY <1>0, <1>1 DEF ResetStations, NoStations
  <1>2. ASSUME NEW d \in Console, NEW f \in frames, OnControlFrame(d, f)
        PROVE  \/ \A i \in Slot : station'[c][i] \in {None, station[c][i]}
               \/ HandleConnect(c, f)
    <2>1. CASE HandleConnect(d, f)
      <3>1. CASE c = d
        BY <2>1, <3>1
      <3>2. CASE c # d
        BY <1>0, <2>1, <3>2 DEF HandleConnect
      <3> QED
        BY <3>1, <3>2
    <2>2. CASE StationBye(d, f)
      BY <1>0, <2>2 DEF StationBye
    <2>3. CASE \/ HandleScan(d, f) \/ HandleRelayHeartbeat(d, f) \/ HandleSyncNetwork(d, f)
               \/ HostBye(d, f)
      BY <2>3 DEF HandleScan, HandleRelayHeartbeat, HandleSyncNetwork, HostBye
    <2> QED
      BY <1>2, <2>1, <2>2, <2>3 DEF OnControlFrame, HandleRelayBye
  <1>3. ASSUME NEW d \in Console, Tick(d)
        PROVE  \A i \in Slot : station'[c][i] \in {None, station[c][i]}
    <2>1. CASE HostTick(d)
      BY <1>0, <2>1 DEF HostTick
    <2>2. CASE StationTick(d) \/ IdleTick(d)
      BY <2>2 DEF StationTick, IdleTick
    <2> QED
      BY <1>3, <2>1, <2>2 DEF Tick
  <1>4. ASSUME NEW d \in Console,
               \/ Initialize(d) \/ Finalize(d) \/ OpenAccessPoint(d) \/ CloseAccessPoint(d)
               \/ OpenStation(d) \/ CloseStation(d) \/ CreateNetwork(d) \/ DestroyNetwork(d)
               \/ Disconnect(d)
        PROVE  ResetStations(d) \/ station' = station
    BY <1>4 DEF Initialize, Finalize, OpenAccessPoint, CloseAccessPoint, OpenStation,
                CloseStation, Open, Close, CreateNetwork, DestroyNetwork, Disconnect
  <1>5. ASSUME NEW d \in Console,
               \/ SetAdvertiseData(d) \/ Scan(d) \/ ScanSend(d) \/ Connect(d) \/ ConnectSend(d)
               \/ ConnectResend(d) \/ ConnectSucceed(d)
               \/ ConnectTimeout(d) \/ StartStop(d)
        PROVE  station' = station
    BY <1>5 DEF SetAdvertiseData, Scan, ScanSend, Connect, ConnectSend, ConnectResend,
                ConnectSucceed, ConnectTimeout, StartStop
  <1>6. CASE UNCHANGED vars \/ Elapse
    BY <1>6 DEF vars, Elapse
  <1> QED
    BY <1>1, <1>2, <1>3, <1>4, <1>5, <1>6 DEF Next, HostCall, StationCall

\* HandleConnect writes the sender's only slot, or a slot of nobody when the
\* sender has none.
LEMMA NodeIdForSlot ==
    ASSUME NEW tab \in [Slot -> Console \cup {None}], NEW ip \in Console,
           \A i, j \in Slot : tab[i] # None /\ tab[i] = tab[j] => i = j,
           NEW i \in Slot, tab[i] = ip
    PROVE  NodeIdFor(tab, ip) = i
  <1>1. SlotsOf(tab, ip) = {i}
    BY LdnAssumption DEF SlotsOf
  <1>2. Min({i}) = i
    <2>1. i \in Int
      BY DEF Slot
    <2>2. \A y \in {i} : i <= y
      BY <2>1
    <2>3. \A x \in {i} : x = i
      OBVIOUS
    <2> QED
      BY <2>2, <2>3, Zenon DEF Min
  <1> QED
    BY <1>1, <1>2 DEF NodeIdFor

\* Every step keeps OneSlotPerPeer: a Connect writes the sender's own slot, or a
\* slot when the sender has none.
LEMMA OneSlotStep ==
    TypeOK /\ OneSlotPerPeer /\ [Next]_vars => OneSlotPerPeer'
  <1> SUFFICES ASSUME TypeOK, OneSlotPerPeer, [Next]_vars, NEW c \in Console,
                      NEW i \in Slot, NEW j \in Slot,
                      station'[c][i] # None, station'[c][i] = station'[c][j]
               PROVE  i = j
    BY DEF OneSlotPerPeer
  <1>1. \A m, n \in Slot : station[c][m] # None /\ station[c][m] = station[c][n] => m = n
    BY DEF OneSlotPerPeer
  <1>2. CASE \A m \in Slot : station'[c][m] \in {None, station[c][m]}
    BY <1>1, <1>2
  <1>3. ASSUME NEW f \in frames, HandleConnect(c, f)
        PROVE  i = j
    <2> DEFINE nid == NodeIdFor(station[c], f.src)
    <2>1. station'[c] = [station[c] EXCEPT ![nid] = f.src]
      BY <1>3 DEF HandleConnect, TypeOK
    <2>2. station[c] \in [Slot -> Console \cup {None}] /\ f.src \in Console
      BY FrameFields DEF TypeOK
    <2>3. \A m \in Slot : station[c][m] = f.src => nid = m
      BY <1>1, <2>2, NodeIdForSlot
    <2> HIDE DEF nid
    <2> QED
      BY <1>1, <2>1, <2>2, <2>3
  <1> QED
    BY <1>2, <1>3, StationCases

\* No peer ever holds two of a host's station slots, for any number of
\* retransmitted, repeated and reordered Connect frames.
THEOREM OneSlotCorrect == Spec => []OneSlotPerPeer
  <1>1. Init => OneSlotPerPeer
    BY DEF Init, InitBut, OneSlotPerPeer, NoStations
  <1> QED
    BY <1>1, OneSlotStep, TypeCorrect, PTL DEF Spec

-----------------------------------------------------------------------------
\* UpdateNodes sends a SyncNetwork only to a node of the network it carries.
SyncsListReceiver ==
    \A f \in frames : f.type = "SyncNetwork" => f.dst \in Nodes(f.info)

\* UpdateNodes keeps SyncsListReceiver: each frame goes to an active slot, and
\* BuildNetwork lists every active slot.
LEMMA UpdateNodesReceiver ==
    ASSUME SyncsListReceiver, NEW c \in Console, NEW tab, NEW b, UpdateNodes(c, tab, b)
    PROVE  SyncsListReceiver'
  <1> DEFINE net == BuildNetwork(c, tab, b)
  <1>1. \A i \in Active(tab) : tab[i] \in Nodes(net)
    BY DEF Nodes, BuildNetwork
  <1>2. frames' = frames \/ frames' = frames \cup Syncs(c, tab, net)
    BY DEF UpdateNodes, SendFrame, netVars
  <1>3. ASSUME NEW f \in Syncs(c, tab, net)
        PROVE  f.dst \in Nodes(f.info)
    <2>1. PICK i \in Active(tab) :
            f = [type |-> "SyncNetwork", src |-> c, dst |-> tab[i], info |-> net,
                 seq |-> TxSeq(c, sent[c] + Cardinality({j \in Active(tab) : j <= i}))]
      BY <1>3, Zenon DEF Syncs
    <2>2. f.dst = tab[i] /\ f.info = net
      BY <2>1
    <2> HIDE DEF net
    <2> QED
      BY <1>1, <2>2
  <1> HIDE DEF net
  <1> QED
    BY <1>2, <1>3 DEF SyncsListReceiver

\* Any other frame a step sends is not a SyncNetwork.
LEMMA OtherFrames ==
    ASSUME SyncsListReceiver, NEW f, f.type # "SyncNetwork",
           frames' = frames \/ frames' = frames \cup {f}
    PROVE  SyncsListReceiver'
  BY DEF SyncsListReceiver

\* Every step keeps SyncsListReceiver.
LEMMA ReceiverStep ==
    SyncsListReceiver /\ [Next]_vars => SyncsListReceiver'
  <1> SUFFICES ASSUME SyncsListReceiver, [Next]_vars PROVE SyncsListReceiver'
    OBVIOUS
  <1> USE DEF hostVars, joinVars, netVars, envVars
  <1>1. ASSUME frames' = frames
        PROVE  SyncsListReceiver'
    BY <1>1 DEF SyncsListReceiver
  <1>2. ASSUME NEW c \in Console, DestroyNetwork(c) \/ Disconnect(c)
        PROVE  SyncsListReceiver'
    <2>1. CASE DestroyNetwork(c)
      <3> DEFINE f == [type |-> "RelayBye", src |-> c, dst |-> Everyone, bssid |-> info[c].bssid]
      <3>1. frames' = frames \/ frames' = frames \cup {f}
        BY <2>1 DEF DestroyNetwork, SendFrame
      <3>2. f.type # "SyncNetwork"
        OBVIOUS
      <3> QED
        BY <3>1, <3>2, OtherFrames
    <2>2. CASE Disconnect(c)
      <3> DEFINE f == [type |-> "RelayBye", src |-> c, dst |-> info[c].host, bssid |-> target[c]]
      <3>1. frames' = frames \/ frames' = frames \cup {f}
        BY <2>2 DEF Disconnect, SendFrame
      <3>2. f.type # "SyncNetwork"
        OBVIOUS
      <3> QED
        BY <3>1, <3>2, OtherFrames
    <2> QED
      BY <1>2, <2>1, <2>2
  <1>3. ASSUME NEW c \in Console, ScanSend(c) \/ ConnectSend(c)
        PROVE  SyncsListReceiver'
    <2> DEFINE s == [type |-> "Scan", src |-> c, dst |-> Everyone]
               k == [type |-> "Connect", src |-> c, dst |-> call[c].host]
    <2>1. frames' = frames \/ frames' = frames \cup {s} \/ frames' = frames \cup {k}
      BY <1>3 DEF ScanSend, ConnectSend, SendUnlocked
    <2>2. s.type # "SyncNetwork" /\ k.type # "SyncNetwork"
      OBVIOUS
    <2> HIDE DEF s, k
    <2> QED
      BY <2>1, <2>2, OtherFrames
  <1>4. ASSUME NEW c \in Console, NEW f \in frames, OnControlFrame(c, f)
        PROVE  SyncsListReceiver'
    <2>1. CASE HandleScan(c, f)
      <3> DEFINE r == [type |-> "ScanResp", src |-> c, dst |-> f.src,
                       info |-> BuildNetwork(c, station[c], info[c].bssid)]
      <3>1. frames' = frames \/ frames' = frames \cup {r}
        BY <2>1 DEF HandleScan, SendFrame
      <3>2. r.type # "SyncNetwork"
        OBVIOUS
      <3> QED
        BY <3>1, <3>2, OtherFrames
    <2>2. CASE HandleConnect(c, f)
      BY <2>2, UpdateNodesReceiver DEF HandleConnect
    <2>3. CASE StationBye(c, f)
      BY <2>3, UpdateNodesReceiver DEF StationBye
    <2>4. CASE HandleSyncNetwork(c, f) \/ HandleRelayHeartbeat(c, f) \/ HostBye(c, f)
      BY <1>1, <2>4 DEF HandleSyncNetwork, HandleRelayHeartbeat, HostBye
    <2> QED
      BY <1>4, <2>1, <2>2, <2>3, <2>4 DEF OnControlFrame, HandleRelayBye
  <1>5. ASSUME NEW c \in Console, Tick(c)
        PROVE  SyncsListReceiver'
    <2>1. CASE HostTick(c)
      BY <2>1, UpdateNodesReceiver DEF HostTick
    <2>2. CASE StationTick(c)
      <3> DEFINE f == [type |-> "RelayHeartbeat", src |-> c, dst |-> info[c].host,
                       bssid |-> target[c]]
      <3>1. frames' = frames \/ frames' = frames \cup {f}
        BY <2>2 DEF StationTick, SendFrame
      <3>2. f.type # "SyncNetwork"
        OBVIOUS
      <3> QED
        BY <3>1, <3>2, OtherFrames
    <2>3. CASE IdleTick(c)
      BY <1>1, <2>3 DEF IdleTick
    <2> QED
      BY <1>5, <2>1, <2>2, <2>3 DEF Tick
  <1>6. ASSUME NEW c \in Console, CreateNetwork(c) \/ SetAdvertiseData(c)
        PROVE  SyncsListReceiver'
    BY <1>6, UpdateNodesReceiver DEF CreateNetwork, SetAdvertiseData
  <1>7. ASSUME NEW c \in Console,
               \/ Initialize(c) \/ Finalize(c) \/ OpenAccessPoint(c) \/ CloseAccessPoint(c)
               \/ OpenStation(c) \/ CloseStation(c) \/ Scan(c) \/ Connect(c) \/ ConnectResend(c)
               \/ ConnectSucceed(c) \/ ConnectTimeout(c) \/ StartStop(c)
        PROVE  frames' = frames
    BY <1>7 DEF Initialize, Finalize, OpenAccessPoint, CloseAccessPoint, OpenStation,
                CloseStation, Open, Close, Scan, Connect, ConnectResend, ConnectSucceed,
                ConnectTimeout, StartStop
  <1>8. CASE UNCHANGED vars \/ Elapse
    BY <1>1, <1>8 DEF vars, Elapse
  <1> QED
    BY <1>1, <1>2, <1>3, <1>4, <1>5, <1>6, <1>7, <1>8 DEF Next, HostCall, StationCall

\* Where a console's NetworkInfo comes from: it is kept, and then no step
\* enters StationConnected; it is rebuilt by this console; or it is that of a
\* SyncNetwork that passed the session-scoping gate.
LEMMA InfoCases ==
    ASSUME TypeOK, [Next]_vars, NEW c \in Console
    PROVE  \/ /\ info'[c] = info[c]
              /\ state'[c] = "StationConnected" => state[c] = "StationConnected"
           \/ info'[c].host = c
           \/ \E f \in frames : /\ f.type = "SyncNetwork" /\ Reaches(f, c)
                                /\ ~Foreign(c, f.info) /\ info'[c] = f.info
  <1> USE DEF hostVars, joinVars, netVars, envVars
  <1>0. state \in [Console -> CommState] /\ info \in [Console -> NetworkInfo]
    BY DEF TypeOK
  <1> DEFINE Kept == /\ info'[c] = info[c]
                     /\ state'[c] = "StationConnected" => state[c] = "StationConnected"
  <1>1. ASSUME NEW d \in Console, NEW tab, NEW b, UpdateNodes(d, tab, b),
               state' = state \/ state' = [state EXCEPT ![d] = "AccessPointCreated"]
        PROVE  Kept \/ info'[c].host = c
    <2>1. CASE c = d
      <3>1. info'[c] = BuildNetwork(c, tab, b)
        BY <1>0, <1>1, <2>1 DEF UpdateNodes
      <3> QED
        BY <3>1 DEF BuildNetwork
    <2>2. CASE c # d
      BY <1>0, <1>1, <2>2 DEF UpdateNodes
    <2> QED
      BY <2>1, <2>2
  <1>2. ASSUME NEW d \in Console, CreateNetwork(d) \/ SetAdvertiseData(d)
        PROVE  Kept \/ info'[c].host = c
    BY <1>1, <1>2 DEF CreateNetwork, SetAdvertiseData
  <1>3. ASSUME NEW d \in Console, NEW f \in frames, OnControlFrame(d, f)
        PROVE  \/ Kept \/ info'[c].host = c
               \/ /\ f.type = "SyncNetwork" /\ Reaches(f, c)
                  /\ ~Foreign(c, f.info) /\ info'[c] = f.info
    <2>1. CASE HandleConnect(d, f)
      BY <1>1, <2>1 DEF HandleConnect
    <2>2. CASE StationBye(d, f)
      BY <1>1, <2>2 DEF StationBye
    <2>3. CASE HandleScan(d, f) \/ HandleRelayHeartbeat(d, f)
      BY <2>3 DEF HandleScan, HandleRelayHeartbeat
    <2>4. CASE HostBye(d, f)
      BY <1>0, <2>4 DEF HostBye
    <2>5. CASE HandleSyncNetwork(d, f)
      <3>1. Reaches(f, d)
        BY <1>3 DEF OnControlFrame
      <3>2. CASE c = d
        BY <1>0, <2>5, <3>1, <3>2 DEF HandleSyncNetwork
      <3>3. CASE c # d
        BY <1>0, <2>5, <3>3 DEF HandleSyncNetwork
      <3> QED
        BY <3>2, <3>3
    <2> QED
      BY <1>3, <2>1, <2>2, <2>3, <2>4, <2>5 DEF OnControlFrame, HandleRelayBye
  <1>4. ASSUME NEW d \in Console, Tick(d)
        PROVE  Kept \/ info'[c].host = c
    <2>1. CASE HostTick(d)
      BY <1>1, <2>1 DEF HostTick
    <2>2. CASE StationTick(d)
      BY <1>0, <2>2 DEF StationTick
    <2>3. CASE IdleTick(d)
      BY <2>3 DEF IdleTick
    <2> QED
      BY <1>4, <2>1, <2>2, <2>3 DEF Tick
  <1>5. ASSUME NEW d \in Console,
               Initialize(d) \/ Finalize(d) \/ DestroyNetwork(d) \/ Disconnect(d)
        PROVE  Kept
    BY <1>0, <1>5 DEF Initialize, Finalize, DestroyNetwork, Disconnect
  <1>6. ASSUME NEW d \in Console, NEW new \in {"AccessPoint", "Station"}, Open(d, new) \/ Close(d)
        PROVE  Kept
    BY <1>0, <1>6 DEF Open, Close
  <1>7. ASSUME NEW d \in Console,
               \/ Scan(d) \/ ScanSend(d) \/ Connect(d) \/ ConnectSend(d) \/ ConnectResend(d)
               \/ ConnectSucceed(d) \/ ConnectTimeout(d) \/ StartStop(d)
        PROVE  Kept
    BY <1>7 DEF Scan, ScanSend, Connect, ConnectSend, ConnectResend, ConnectSucceed,
                ConnectTimeout, StartStop
  <1>8. CASE UNCHANGED vars \/ Elapse
    BY <1>8 DEF vars, Elapse
  <1> QED
    BY <1>2, <1>3, <1>4, <1>5, <1>6, <1>7, <1>8
       DEF Next, HostCall, StationCall, OpenAccessPoint, CloseAccessPoint, OpenStation,
           CloseStation

\* While a join is active, only NetworkInfo of the join's target, or this
\* console's own, reaches m_network_info, whatever the relay floods.
THEOREM SessionGateCorrect == Spec => SessionGate
  <1>1. TypeOK /\ [Next]_vars =>
          [\A c \in Console :
             joining[c] /\ info'[c] # info[c]
             => info'[c].host = c \/ info'[c].bssid = target[c]]_vars
    BY InfoCases DEF Foreign
  <1> QED
    BY <1>1, TypeCorrect, PTL DEF Spec, SessionGate

\* With a relay that routes by address, a connected console stays a node of the
\* network it reports.
LEMMA ConnectedStep ==
    TypeOK /\ SyncsListReceiver /\ ConnectedListsSelf /\ [Next]_vars => ConnectedListsSelf'
  <1> SUFFICES ASSUME TypeOK, SyncsListReceiver, ConnectedListsSelf, [Next]_vars,
                      NEW c \in Console, ~Flooding, state'[c] = "StationConnected"
               PROVE  c \in Nodes(info'[c])
    BY DEF ConnectedListsSelf, Nodes
  <1>1. CASE info'[c] = info[c] /\ state[c] = "StationConnected"
    BY <1>1 DEF ConnectedListsSelf
  <1>2. CASE info'[c].host = c
    BY <1>2, LdnAssumption DEF Nodes
  <1>3. ASSUME NEW f \in frames, f.type = "SyncNetwork", Reaches(f, c), info'[c] = f.info
        PROVE  c \in Nodes(info'[c])
    <2>1. f.dst \in Console
      BY <1>3, FrameFields DEF TypeOK
    <2>2. f.dst = c
      BY <1>3, <2>1, LdnAssumption DEF Reaches
    <2> QED
      BY <1>3, <2>2 DEF SyncsListReceiver
  <1> QED
    BY <1>1, <1>2, <1>3, InfoCases

\* Membership: on a relay that routes by address, StationConnected implies that
\* the console is a node of the network it reports.
THEOREM ConnectedCorrect == Spec => []ConnectedListsSelf
  <1>1. Init => SyncsListReceiver /\ ConnectedListsSelf
    BY DEF Init, InitBut, SyncsListReceiver, ConnectedListsSelf
  <1> QED
    BY <1>1, ReceiverStep, ConnectedStep, TypeCorrect, PTL DEF Spec

-----------------------------------------------------------------------------
\* The relay forgets no frame that a console can still receive.
LEMMA FramesGrow == [Next]_vars => frames \subseteq frames'
  <1> SUFFICES ASSUME [Next]_vars PROVE frames \subseteq frames'
    OBVIOUS
  <1> USE DEF hostVars, joinVars, netVars, envVars, SendFrame, SendUnlocked, UpdateNodes
  <1>1. ASSUME NEW c \in Console, NEW f \in frames, OnControlFrame(c, f)
        PROVE  frames \subseteq frames'
    BY <1>1 DEF OnControlFrame, HandleScan, HandleConnect, HandleSyncNetwork,
                HandleRelayHeartbeat, HandleRelayBye, HostBye, StationBye
  <1>2. ASSUME NEW c \in Console, Tick(c)
        PROVE  frames \subseteq frames'
    BY <1>2 DEF Tick, HostTick, StationTick, IdleTick
  <1>3. ASSUME NEW c \in Console, HostCall(c) \/ Initialize(c) \/ Finalize(c) \/ StartStop(c)
        PROVE  frames \subseteq frames'
    BY <1>3 DEF HostCall, OpenAccessPoint, CloseAccessPoint, Open, Close, CreateNetwork,
                DestroyNetwork, SetAdvertiseData, Initialize, Finalize, StartStop
  <1>4. ASSUME NEW c \in Console, StationCall(c)
        PROVE  frames \subseteq frames'
    BY <1>4 DEF StationCall, OpenStation, CloseStation, Open, Close, Scan, ScanSend, Connect,
                ConnectSend, ConnectResend, ConnectSucceed, ConnectTimeout,
                Disconnect
  <1>5. CASE UNCHANGED vars \/ Elapse
    BY <1>5 DEF vars, Elapse
  <1> QED
    BY <1>1, <1>2, <1>3, <1>4, <1>5 DEF Next

\* The consoles that have sent a Scan.
ScanSenders == {f.src : f \in {g \in frames : g.type = "Scan"}}

\* Whoever is in a recent-scanner table has scanned.
ScannersScanned ==
    \A c \in Console : \A i \in 1..MaxScanners :
       scanner[c][i].ip # None => scanner[c][i].ip \in ScanSenders

\* A step writes an address into the recent-scanner table only by HandleScan.
LEMMA ScannerCases ==
    ASSUME TypeOK, [Next]_vars, NEW c \in Console
    PROVE  \/ \A i \in 1..MaxScanners : scanner'[c][i].ip \in {None, scanner[c][i].ip}
           \/ \E f \in frames : HandleScan(c, f)
  <1> USE DEF hostVars, joinVars, netVars, envVars
  <1>0. scanner \in [Console -> [1..MaxScanners -> Scanner]]
    BY DEF TypeOK
  <1>1. ASSUME NEW d \in Console, NEW f \in frames, OnControlFrame(d, f)
        PROVE  scanner'[c] = scanner[c] \/ HandleScan(c, f)
    <2>1. CASE HandleScan(d, f)
      <3>1. CASE c = d
        BY <2>1, <3>1
      <3>2. CASE c # d
        BY <1>0, <2>1, <3>2 DEF HandleScan
      <3> QED
        BY <3>1, <3>2
    <2>2. CASE \/ HandleConnect(d, f) \/ HandleSyncNetwork(d, f) \/ HandleRelayHeartbeat(d, f)
               \/ HandleRelayBye(d, f)
      BY <2>2 DEF HandleConnect, HandleSyncNetwork, HandleRelayHeartbeat, HandleRelayBye,
                  HostBye, StationBye
    <2> QED
      BY <1>1, <2>1, <2>2 DEF OnControlFrame
  <1>2. ASSUME NEW d \in Console, Tick(d)
        PROVE  scanner' = scanner
    BY <1>2 DEF Tick, HostTick, StationTick, IdleTick
  <1>3. ASSUME NEW d \in Console, HostCall(d) \/ Initialize(d) \/ Finalize(d) \/ StartStop(d)
        PROVE  scanner' = scanner
    BY <1>3 DEF HostCall, OpenAccessPoint, CloseAccessPoint, Open, Close, CreateNetwork,
                DestroyNetwork, SetAdvertiseData, Initialize, Finalize, StartStop
  <1>4. ASSUME NEW d \in Console, StationCall(d)
        PROVE  scanner' = scanner
    BY <1>4 DEF StationCall, OpenStation, CloseStation, Open, Close, Scan, ScanSend, Connect,
                ConnectSend, ConnectResend, ConnectSucceed, ConnectTimeout,
                Disconnect
  <1>5. CASE UNCHANGED vars
    BY <1>5 DEF vars
  <1>6. CASE Elapse
    <2>1. ASSUME NEW i \in 1..MaxScanners
          PROVE  scanner'[c][i].ip \in {None, scanner[c][i].ip}
      <3>1. scanner[c][i] \in Scanner
        BY <1>0, Zenon
      <3>2. scanner'[c][i] = IF scanner[c][i].ip = None THEN Unused
                ELSE [scanner[c][i] EXCEPT !.age = Older(@, ScannerTimeout + 1)]
        BY <1>6 DEF Elapse
      <3> QED
        BY <3>1, <3>2 DEF Unused, Scanner
    <2> QED
      BY <2>1
  <1> QED
    BY <1>1, <1>2, <1>3, <1>4, <1>5, <1>6 DEF Next

\* Every step keeps the two facts that a registered station rests on.
LEMMA ScannedStep ==
    TypeOK /\ ScannersScanned /\ OnlyScannersJoin /\ [Next]_vars
      => ScannersScanned' /\ OnlyScannersJoin'
  <1> SUFFICES ASSUME TypeOK, ScannersScanned, OnlyScannersJoin, [Next]_vars
               PROVE  ScannersScanned' /\ OnlyScannersJoin'
    OBVIOUS
  <1>1. ScanSenders \subseteq ScanSenders'
    BY FramesGrow DEF ScanSenders
  <1>2. ASSUME NEW c \in Console, NEW i \in 1..MaxScanners, scanner'[c][i].ip # None
        PROVE  scanner'[c][i].ip \in ScanSenders'
    <2>1. CASE \A m \in 1..MaxScanners : scanner'[c][m].ip \in {None, scanner[c][m].ip}
      BY <1>1, <1>2, <2>1 DEF ScannersScanned
    <2>2. ASSUME NEW f \in frames, HandleScan(c, f)
          PROVE  scanner'[c][i].ip \in ScanSenders'
      <3>1. f.src \in ScanSenders
        BY <2>2 DEF HandleScan, ScanSenders
      <3>2. scanner'[c] = RecordScanner(scanner[c], f.src)
        BY <2>2 DEF HandleScan, TypeOK
      <3>3. scanner'[c][i] = scanner[c][i] \/ scanner'[c][i] = [ip |-> f.src, age |-> 0]
        BY <3>2 DEF RecordScanner, TypeOK
      <3> QED
        BY <1>1, <1>2, <3>1, <3>3 DEF ScannersScanned
    <2> QED
      BY <2>1, <2>2, ScannerCases
  <1>3. ASSUME NEW c \in Console, NEW i \in Slot, station'[c][i] # None
        PROVE  station'[c][i] \in ScanSenders'
    <2>0. \A m \in Slot : station[c][m] # None => station[c][m] \in ScanSenders
      BY DEF OnlyScannersJoin, Active, ScanSenders
    <2>1. CASE \A m \in Slot : station'[c][m] \in {None, station[c][m]}
      BY <1>1, <1>3, <2>0, <2>1
    <2>2. ASSUME NEW f \in frames, HandleConnect(c, f)
          PROVE  station'[c][i] \in ScanSenders'
      <3>1. f.src \in Console
        BY FrameFields DEF TypeOK
      <3>2. station'[c][i] = station[c][i] \/ station'[c][i] = f.src
        BY <2>2 DEF HandleConnect, TypeOK
      <3>3. f.src \in ScanSenders
        <4>1. CASE SlotsOf(station[c], f.src) # {}
          BY <2>0, <3>1, <4>1, LdnAssumption DEF SlotsOf
        <4>2. CASE WasRecentScanner(scanner[c], f.src)
          <5>1. PICK m \in DOMAIN scanner[c] : scanner[c][m].ip = f.src
            BY <4>2 DEF WasRecentScanner
          <5>2. m \in 1..MaxScanners
            BY <5>1 DEF TypeOK
          <5> QED
            BY <3>1, <5>1, <5>2, LdnAssumption DEF ScannersScanned
        <4> QED
          BY <2>2, <4>1, <4>2 DEF HandleConnect
      <3> QED
        BY <1>1, <1>3, <2>0, <3>2, <3>3
    <2> QED
      BY <2>1, <2>2, StationCases
  <1>4. ScannersScanned'
    BY <1>2 DEF ScannersScanned
  <1>5. OnlyScannersJoin'
    BY <1>3 DEF OnlyScannersJoin, Active, ScanSenders
  <1> QED
    BY <1>4, <1>5

\* The foreign-session guard of HandleConnect: whoever holds a station slot has
\* scanned, for any mix of sessions on a relay that may flood any frame.
THEOREM OnlyScannersCorrect == Spec => []OnlyScannersJoin
  <1>1. Init => ScannersScanned /\ OnlyScannersJoin
    BY DEF Init, InitBut, ScannersScanned, OnlyScannersJoin, Unused, NoStations, Active
  <1> QED
    BY <1>1, ScannedStep, TypeCorrect, PTL DEF Spec

=============================================================================
