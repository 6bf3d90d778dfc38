-------------------------- MODULE SlpTunnelProofs --------------------------
(* Reassembly for any number of peers, entries, parts and datagrams.       *)
EXTENDS SlpTunnel, FiniteSetTheorems, TLAPS

\* An active entry is the only one of its key.
OneEntryPerKey ==
    \A i, j \in Entry :
       frag[i].active /\ frag[j].active /\ frag[i].key = frag[j].key => i = j

\* What an entry holds are parts of datagrams of its key and geometry.
EntriesOneKey ==
    \A i \in Entry : frag[i].active =>
       \A p \in DOMAIN frag[i].data :
          /\ frag[i].data[p] \in sent
          /\ Key(frag[i].data[p]) = frag[i].key
          /\ frag[i].data[p].total = frag[i].total

\* What an entry holds are parts of one datagram, the last of which came while
\* the relay could still deliver it.
EntriesUnmixed ==
    \A i \in Entry : frag[i].active =>
       \A p \in DOMAIN frag[i].data :
          /\ frag[i].last <= frag[i].data[p].at + MaxDelay
          /\ \A q \in DOMAIN frag[i].data : frag[i].data[p] = frag[i].data[q]

-----------------------------------------------------------------------------
\* g_ip_id stays within its 16 bits.
LEMMA NextIdType ==
    ASSUME NEW x \in 0..(IdMod - 1)
    PROVE  NextId(x) \in 0..(IdMod - 1)
  <1>1. \A a \in Int : \A b \in Nat \ {0} : a % b \in 0..(b - 1)
    OBVIOUS
  <1>2. x + 1 \in Int /\ IdMod \in Nat \ {0}
    BY TunnelAssumption
  <1> QED
    BY <1>1, <1>2, Zenon DEF NextId

\* The least element of a set of one index is that index.
LEMMA MinSingle ==
    ASSUME NEW i \in Int
    PROVE  Min({i}) = i
  <1>1. \A y \in {i} : i <= y
    OBVIOUS
  <1>2. \A x \in {i} : x = i
    OBVIOUS
  <1> QED
    BY <1>1, <1>2, Zenon DEF Min

\* Expiry only clears entries.
LEMMA SweptEntries ==
    ASSUME TypeOK
    PROVE  /\ Swept \in [Entry -> {Free} \cup Held]
           /\ \A i \in Entry : Swept[i].active =>
                Swept[i] = frag[i] /\ frag[i].active /\ ~Expired(frag[i])
           /\ \A i \in Entry : Swept[i] # Free => Swept[i] = frag[i] /\ ~Expired(frag[i])
  BY DEF Swept, TypeOK, Free

\* FindFragEntry returns a cleared entry for a key that has none, or else the
\* one entry of the key, which has not expired.
LEMMA FoundEntry ==
    ASSUME TypeOK, OneEntryPerKey, NEW d
    PROVE  \/ /\ FindFragEntry(d) = Fresh(d)
              /\ \A i \in Entry : Swept[i].active => Swept[i].key # Key(d)
           \/ \E i \in Entry :
                /\ EntryFor(d) = i /\ FindFragEntry(d) = frag[i]
                /\ frag[i].active /\ ~Expired(frag[i]) /\ frag[i].key = Key(d)
                /\ Swept[i] = frag[i]
  <1>1. CASE Hits(d) = {}
    BY <1>1 DEF FindFragEntry, Hits
  <1>2. CASE Hits(d) # {}
    <2>1. PICK i \in Entry : Swept[i].active /\ Swept[i].key = Key(d)
      BY <1>2 DEF Hits
    <2>2. Swept[i] = frag[i] /\ frag[i].active /\ ~Expired(frag[i])
      BY <2>1, SweptEntries
    <2>3. Hits(d) = {i}
      <3>1. \A j \in Hits(d) : j = i
        <4>1. ASSUME NEW j \in Hits(d)
              PROVE  j = i
          <5>1. j \in Entry /\ Swept[j].active /\ Swept[j].key = Key(d)
            BY DEF Hits
          <5>2. Swept[j] = frag[j] /\ frag[j].active
            BY <5>1, SweptEntries
          <5> QED
            BY <2>1, <2>2, <5>1, <5>2 DEF OneEntryPerKey
        <4> QED
          BY <4>1
      <3>2. i \in Hits(d)
        BY <2>1 DEF Hits
      <3> QED
        BY <3>1, <3>2
    <2>4. EntryFor(d) = i
      <3>1. i \in Int
        BY DEF Entry
      <3> QED
        BY <1>2, <2>3, <3>1, MinSingle DEF EntryFor
    <2> QED
      BY <1>2, <2>1, <2>2, <2>4 DEF FindFragEntry
  <1> QED
    BY <1>1, <1>2

-----------------------------------------------------------------------------
\* One more part keeps an entry's data well formed.
LEMMA DataGrows ==
    ASSUME NEW x \in Data, NEW d \in Datagram, NEW p \in 0..(MaxTotalParts - 1)
    PROVE  [q \in DOMAIN x \cup {p} |-> IF q = p THEN d ELSE x[q]] \in Data
  <1>1. PICK D \in SUBSET (0..(MaxTotalParts - 1)) : x \in [D -> Datagram]
    BY DEF Data
  <1>2. D \cup {p} \in SUBSET (0..(MaxTotalParts - 1))
    BY <1>1
  <1>3. [q \in DOMAIN x \cup {p} |-> IF q = p THEN d ELSE x[q]] \in [D \cup {p} -> Datagram]
    BY <1>1
  <1> QED
    BY <1>2, <1>3 DEF Data

\* The fields of the entry FindFragEntry returns.
LEMMA FoundType ==
    ASSUME TypeOK, OneEntryPerKey, NEW d \in Datagram
    PROVE  /\ FindFragEntry(d) \in Held
           /\ FindFragEntry(d).key = Key(d)
           /\ FindFragEntry(d).data \in Data
  <1>1. Fresh(d) \in Held /\ Fresh(d).key = Key(d)
    <2>1. Key(d) \in Peer \X (0..(IdMod - 1))
      BY DEF Key, Datagram
    <2>2. NoData \in Data
      <3>1. NoData \in [{} -> Datagram]
        BY DEF NoData
      <3> QED
        BY <3>1 DEF Data
    <2> QED
      BY <2>1, <2>2 DEF Fresh, Held, TypeOK
  <1>2. \A i \in Entry : frag[i].active => frag[i] \in Held
    BY DEF TypeOK, Free
  <1>3. FindFragEntry(d) \in Held /\ FindFragEntry(d).key = Key(d)
    BY <1>1, <1>2, FoundEntry
  <1> QED
    BY <1>3 DEF Held

\* A frame the relay holds is a part of a datagram that was sent.
LEMMA PartType ==
    ASSUME TypeOK, NEW f \in net
    PROVE  f[1] \in sent /\ f[1] \in Datagram /\ f[2] \in Parts(f[1])
  BY DEF TypeOK

\* Every step keeps the types.
LEMMA TypeStep == TypeOK /\ OneEntryPerKey /\ [Next]_vars => TypeOK'
  <1> SUFFICES ASSUME TypeOK, OneEntryPerKey, [Next]_vars PROVE TypeOK'
    OBVIOUS
  <1>1. ASSUME NEW s \in Peer, NEW total \in Sizes, NEW n \in 0..total, Send(s, total, n)
        PROVE  TypeOK'
    <2> DEFINE d == [src |-> s, id |-> FragId(s), total |-> total, at |-> now,
                     serial |-> Cardinality(sent)]
    <2>1. Cardinality(sent) \in 0..(MaxDatagrams - 1)
      <3>1. Cardinality(sent) \in Nat
        BY FS_CardinalityType DEF TypeOK
      <3> QED
        BY <1>1, <3>1, TunnelAssumption DEF Send
    <2>2. d \in Datagram
      BY <2>1 DEF Datagram, FragId, TypeOK
    <2>3. /\ ipId' = [ipId EXCEPT ![s] = NextId(@)]
          /\ sent' = sent \cup {d}
          /\ net' = net \cup {<<d, p>> : p \in 0..(n - 1)}
          /\ UNCHANGED <<loopId, frag, now, up>>
      BY <1>1 DEF Send
    <2>4. ipId' \in [Peer -> 0..(IdMod - 1)]
      BY <2>3, NextIdType DEF TypeOK
    <2>5. 0..(n - 1) \subseteq Parts(d)
      BY TunnelAssumption DEF Parts
    <2> HIDE DEF d
    <2>6. sent' \subseteq Datagram /\ IsFiniteSet(sent')
      BY <2>2, <2>3, FS_AddElement DEF TypeOK
    <2>7. \A f \in net' : f[1] \in sent' /\ f[2] \in Parts(f[1])
      BY <2>3, <2>5 DEF TypeOK
    <2> QED
      BY <2>3, <2>4, <2>6, <2>7 DEF TypeOK
  <1>2. ASSUME NEW s \in Peer, LoopRead(s) \/ LoopWrite(s) \/ Reboot(s)
        PROVE  TypeOK'
    <2>1. CASE LoopRead(s)
      <3>1. loopId' \in [Peer -> 0..IdMod]
        BY <2>1, TunnelAssumption DEF TypeOK, LoopRead
      <3> QED
        BY <2>1, <3>1 DEF TypeOK, LoopRead
    <2>2. CASE LoopWrite(s) \/ Reboot(s)
      <3>1. loopId' \in [Peer -> 0..IdMod]
        BY <2>2, TunnelAssumption DEF TypeOK, LoopWrite, Reboot
      <3>2. ipId' \in [Peer -> 0..(IdMod - 1)]
        <4>1. CASE LoopWrite(s)
          <5>1. loopId[s] \in 0..(IdMod - 1)
            BY <4>1, TunnelAssumption DEF LoopWrite, TypeOK
          <5> QED
            BY <4>1, <5>1, NextIdType DEF LoopWrite, TypeOK
        <4>2. CASE Reboot(s)
          BY <4>2, TunnelAssumption DEF Reboot, TypeOK
        <4> QED
          BY <2>2, <4>1, <4>2
      <3> QED
        BY <2>2, <3>1, <3>2 DEF TypeOK, LoopWrite, Reboot
    <2> QED
      BY <1>2, <2>1, <2>2
  <1>3. ASSUME NEW f \in net, OnFrag(f[1], f[2])
        PROVE  TypeOK'
    <2> DEFINE d == f[1]
               p == f[2]
               e == FindFragEntry(d)
               data == [q \in DOMAIN e.data \cup {p} |-> IF q = p THEN d ELSE e.data[q]]
               new == [active |-> TRUE, key |-> e.key, total |-> d.total, data |-> data,
                       last |-> now]
    <2>1. d \in Datagram /\ p \in Parts(d) /\ d.total <= MaxTotalParts
      BY <1>3, PartType DEF OnFrag
    <2>2. p \in 0..(MaxTotalParts - 1) /\ d.total \in Nat
      <3>1. d.total \in Nat
        BY <2>1, TunnelAssumption DEF Datagram
      <3>2. p \in 0..(d.total - 1)
        BY <2>1 DEF Parts
      <3> HIDE DEF d, p
      <3> QED
        BY <2>1, <3>1, <3>2, TunnelAssumption
    <2>3. e \in Held /\ e.data \in Data
      BY <2>1, FoundType
    <2>4. data \in Data
      BY <2>1, <2>2, <2>3, DataGrows
    <2>5. new \in Held
      BY <2>2, <2>3, <2>4 DEF Held, TypeOK
    <2>6. /\ \/ frag' = Swept
             \/ frag' = [Swept EXCEPT ![EntryFor(d)] = new]
             \/ frag' = [Swept EXCEPT ![EntryFor(d)] = Free]
          /\ up' = up \/ up' = up \cup {data}
          /\ UNCHANGED <<ipId, loopId, sent, net, now>>
      BY <1>3 DEF OnFrag
    <2> HIDE DEF d, p, e, data, new
    <2>7. frag' \in [Entry -> {Free} \cup Held]
      BY <2>5, <2>6, SweptEntries
    <2>8. up' \subseteq Data
      BY <2>4, <2>6 DEF TypeOK
    <2> QED
      BY <2>6, <2>7, <2>8 DEF TypeOK
  <1>4. CASE OnStop
    BY <1>4 DEF OnStop, TypeOK
  <1>5. CASE Clock
    BY <1>5, TunnelAssumption DEF Clock, TypeOK, Time
  <1>6. CASE UNCHANGED vars
    BY <1>6 DEF vars, TypeOK
  <1> QED
    BY <1>1, <1>2, <1>3, <1>4, <1>5, <1>6 DEF Next

-----------------------------------------------------------------------------
\* The data of an entry after one more part p of datagram d.
Grown(d, p) ==
    LET x == FindFragEntry(d).data
    IN  [q \in DOMAIN x \cup {p} |-> IF q = p THEN d ELSE x[q]]

\* The entry that holds it.
Kept(d, p) ==
    [active |-> TRUE, key |-> FindFragEntry(d).key, total |-> d.total,
     data |-> Grown(d, p), last |-> now]

\* What OnFrag does to the table and to the game: nothing but expiry, or it
\* accepts the part, and hands the packet up when it is complete.
LEMMA OnFragCases ==
    ASSUME NEW d, NEW p, OnFrag(d, p)
    PROVE  /\ UNCHANGED <<sent, net, now>> /\ <<d, p>> \in net /\ now <= d.at + MaxDelay
           /\ \/ frag' = Swept /\ up' = up
              \/ /\ Agrees(FindFragEntry(d), d)
                 /\ frag' = [Swept EXCEPT ![EntryFor(d)] = Kept(d, p)] /\ up' = up
              \/ /\ Agrees(FindFragEntry(d), d) /\ DOMAIN Grown(d, p) = Parts(d)
                 /\ frag' = [Swept EXCEPT ![EntryFor(d)] = Free]
                 /\ up' = up \cup {Grown(d, p)}
  BY DEF OnFrag, Grown, Kept

\* All that an accepted part is put together with has its key and geometry.
LEMMA GrownOneKey ==
    ASSUME TypeOK, OneEntryPerKey, EntriesOneKey, NEW d \in sent, NEW p,
           Agrees(FindFragEntry(d), d)
    PROVE  \A q \in DOMAIN Grown(d, p) : /\ Grown(d, p)[q] \in sent
                                         /\ Key(Grown(d, p)[q]) = Key(d)
                                         /\ Grown(d, p)[q].total = d.total
  <1> DEFINE e == FindFragEntry(d)
  <1>1. \A q \in DOMAIN e.data : /\ e.data[q] \in sent /\ Key(e.data[q]) = Key(d)
                                 /\ e.data[q].total = d.total
    <2>1. CASE e = Fresh(d)
      BY <2>1 DEF Fresh, NoData
    <2>2. ASSUME NEW i \in Entry, e = frag[i], frag[i].active, frag[i].key = Key(d)
          PROVE  \A q \in DOMAIN e.data : /\ e.data[q] \in sent /\ Key(e.data[q]) = Key(d)
                                          /\ e.data[q].total = d.total
      BY <2>2 DEF EntriesOneKey, Agrees
    <2> QED
      BY <2>1, <2>2, FoundEntry
  <1> HIDE DEF e
  <1>2. Grown(d, p) = [q \in DOMAIN e.data \cup {p} |-> IF q = p THEN d ELSE e.data[q]]
    BY DEF Grown, e
  <1> QED
    BY <1>1, <1>2

\* Expiry keeps what entries hold.
LEMMA SweptInv ==
    ASSUME TypeOK, OneEntryPerKey, EntriesOneKey
    PROVE  /\ \A i, j \in Entry :
                Swept[i].active /\ Swept[j].active /\ Swept[i].key = Swept[j].key => i = j
           /\ \A i \in Entry : Swept[i].active =>
                \A q \in DOMAIN Swept[i].data :
                   /\ Swept[i].data[q] \in sent
                   /\ Key(Swept[i].data[q]) = Swept[i].key
                   /\ Swept[i].data[q].total = Swept[i].total
  <1>1. \A i \in Entry : Swept[i].active => Swept[i] = frag[i]
    BY SweptEntries
  <1> QED
    BY <1>1 DEF OneEntryPerKey, EntriesOneKey

\* OnFrag keeps the table's invariant, whatever the keys are.
LEMMA OnFragOneKey ==
    ASSUME TypeOK, OneEntryPerKey, EntriesOneKey, OneKeyPackets, NEW f \in net,
           OnFrag(f[1], f[2])
    PROVE  OneEntryPerKey' /\ EntriesOneKey' /\ OneKeyPackets'
  <1> DEFINE d == f[1]
             p == f[2]
  <1>1. d \in sent /\ d \in Datagram /\ sent' = sent
    BY PartType, OnFragCases
  <1>2. CASE frag' = Swept /\ up' = up
    BY <1>1, <1>2, SweptInv DEF OneEntryPerKey, EntriesOneKey, OneKeyPackets
  <1>3. CASE /\ Agrees(FindFragEntry(d), d)
             /\ frag' = [Swept EXCEPT ![EntryFor(d)] = Kept(d, p)] /\ up' = up
    <2>1. \A q \in DOMAIN Grown(d, p) : /\ Grown(d, p)[q] \in sent
                                        /\ Key(Grown(d, p)[q]) = Key(d)
                                        /\ Grown(d, p)[q].total = d.total
      BY <1>1, <1>3, GrownOneKey
    <2>2. /\ Kept(d, p).active /\ Kept(d, p).key = Key(d) /\ Kept(d, p).total = d.total
          /\ Kept(d, p).data = Grown(d, p)
      BY <1>1, FoundType DEF Kept
    <2>3. \A i \in Entry : Swept[i].active /\ Swept[i].key = Key(d) => i = EntryFor(d)
      BY FoundEntry, SweptInv
    <2>4. \A i \in Entry : \/ i = EntryFor(d) /\ frag'[i] = Kept(d, p)
                           \/ i # EntryFor(d) /\ frag'[i] = Swept[i]
      BY <1>3, SweptEntries
    <2> HIDE DEF d, p
    <2>5. OneEntryPerKey'
      BY <2>2, <2>3, <2>4, SweptInv DEF OneEntryPerKey
    <2>6. EntriesOneKey'
      BY <1>1, <2>1, <2>2, <2>4, SweptInv DEF EntriesOneKey
    <2> QED
      BY <1>3, <2>5, <2>6 DEF OneKeyPackets
  <1>4. CASE /\ Agrees(FindFragEntry(d), d) /\ DOMAIN Grown(d, p) = Parts(d)
             /\ frag' = [Swept EXCEPT ![EntryFor(d)] = Free]
             /\ up' = up \cup {Grown(d, p)}
    <2>1. \A i \in Entry : frag'[i] = Free \/ frag'[i] = Swept[i]
      BY <1>4, SweptEntries
    <2>2. OneEntryPerKey' /\ EntriesOneKey'
      BY <1>1, <2>1, SweptInv DEF OneEntryPerKey, EntriesOneKey, Free
    <2>3. \A q \in DOMAIN Grown(d, p) : /\ Key(Grown(d, p)[q]) = Key(d)
                                        /\ Grown(d, p)[q].total = d.total
      BY <1>1, <1>4, GrownOneKey
    <2>4. OneKeyPackets'
      BY <1>4, <2>3 DEF OneKeyPackets, Parts
    <2> QED
      BY <2>2, <2>4
  <1> QED
    BY <1>2, <1>3, <1>4, OnFragCases

\* Every other step keeps or clears the entries and hands nothing up.
LEMMA OtherSteps ==
    ASSUME TypeOK, [Next]_vars
    PROVE  \/ /\ up' = up /\ sent \subseteq sent'
              /\ frag' = frag \/ frag' = [i \in Entry |-> Free]
           \/ \E f \in net : OnFrag(f[1], f[2])
  BY DEF Next, vars, Send, LoopRead, LoopWrite, Reboot, OnStop, Clock

\* Every step keeps the invariant that does not rest on distinct keys.
LEMMA OneKeyStep ==
    TypeOK /\ OneEntryPerKey /\ EntriesOneKey /\ OneKeyPackets /\ [Next]_vars
      => TypeOK' /\ OneEntryPerKey' /\ EntriesOneKey' /\ OneKeyPackets'
  <1> SUFFICES ASSUME TypeOK, OneEntryPerKey, EntriesOneKey, OneKeyPackets, [Next]_vars
               PROVE  OneEntryPerKey' /\ EntriesOneKey' /\ OneKeyPackets'
    BY TypeStep
  <1>1. CASE /\ up' = up /\ sent \subseteq sent'
             /\ frag' = frag \/ frag' = [i \in Entry |-> Free]
    BY <1>1 DEF OneEntryPerKey, EntriesOneKey, OneKeyPackets, Free
  <1> QED
    BY <1>1, OtherSteps, OnFragOneKey

\* Reassembly never mixes senders, identifications or geometries, even when two
\* datagrams share a key.
THEOREM OneKeyCorrect == Spec => [](TypeOK /\ OneKeyPackets)
  <1>1. Init => TypeOK /\ OneEntryPerKey /\ EntriesOneKey /\ OneKeyPackets
    <2>1. Init => TypeOK
      BY TunnelAssumption, FS_EmptySet DEF Init, TypeOK, Time
    <2> QED
      BY <2>1 DEF Init, OneEntryPerKey, EntriesOneKey, OneKeyPackets, Free
  <1> QED
    BY <1>1, OneKeyStep, PTL DEF Spec

-----------------------------------------------------------------------------
\* Nothing was sent in the future.
SentPast == \A d \in sent : d.at <= now

\* Under distinct keys, an accepted part joins parts of its own datagram: an
\* entry of another datagram with the same key would have expired.
LEMMA GrownUnmixed ==
    ASSUME TypeOK, OneEntryPerKey, EntriesOneKey, EntriesUnmixed, SentPast, KeysUnique,
           NEW d \in sent, NEW p, now <= d.at + MaxDelay, Agrees(FindFragEntry(d), d)
    PROVE  \A q \in DOMAIN Grown(d, p) : Grown(d, p)[q] = d
  <1> DEFINE e == FindFragEntry(d)
  <1>1. \A q \in DOMAIN e.data : e.data[q] = d
    <2>1. CASE e = Fresh(d)
      BY <2>1 DEF Fresh, NoData
    <2>2. ASSUME NEW i \in Entry, e = frag[i], frag[i].active, ~Expired(frag[i]),
                 frag[i].key = Key(d), NEW q \in DOMAIN frag[i].data
          PROVE  frag[i].data[q] = d
      <3> DEFINE x == frag[i].data[q]
                 last == frag[i].last
      <3>1. x \in sent /\ Key(x) = Key(d)
        BY <2>2 DEF EntriesOneKey
      <3>2. last <= x.at + MaxDelay /\ x.at <= now /\ d.at <= now
        BY <2>2, <3>1 DEF EntriesUnmixed, SentPast
      <3>3. /\ last \in Int /\ x.at \in Int /\ d.at \in Int /\ now \in Int
            /\ FragTimeout \in Nat /\ MaxDelay \in Nat
        <4>1. frag[i] \in Held
          BY <2>2 DEF TypeOK, Free
        <4>2. last \in Time /\ now \in Time
          BY <4>1 DEF Held, TypeOK
        <4>3. x.at \in Time /\ d.at \in Time
          BY <3>1 DEF TypeOK, Datagram
        <4> QED
          BY <4>2, <4>3, TunnelAssumption DEF Time
      <3>4. ~(now - last > FragTimeout)
        BY <2>2 DEF Expired
      <3>5. x # d => \/ x.at > d.at + MaxDelay + FragTimeout
                     \/ d.at > x.at + MaxDelay + FragTimeout
        BY <3>1 DEF KeysUnique
      <3> HIDE DEF x, last
      <3>6. x = d
        BY <3>2, <3>3, <3>4, <3>5
      <3> QED
        BY <3>6 DEF x
    <2> QED
      BY <2>1, <2>2, FoundEntry
  <1> HIDE DEF e
  <1>2. Grown(d, p) = [q \in DOMAIN e.data \cup {p} |-> IF q = p THEN d ELSE e.data[q]]
    BY DEF Grown, e
  <1> QED
    BY <1>1, <1>2

\* OnFrag keeps entries unmixed and packets whole.
LEMMA OnFragWhole ==
    ASSUME TypeOK, OneEntryPerKey, EntriesOneKey, EntriesUnmixed, SentPast, KeysUnique,
           WholePackets, NEW f \in net, OnFrag(f[1], f[2])
    PROVE  EntriesUnmixed' /\ WholePackets' /\ SentPast'
  <1> DEFINE d == f[1]
             p == f[2]
  <1>1. d \in sent /\ sent' = sent /\ now' = now /\ now <= d.at + MaxDelay
    BY PartType, OnFragCases
  <1>2. SentPast'
    BY <1>1 DEF SentPast
  <1>3. \A i \in Entry : Swept[i].active => Swept[i] = frag[i] /\ frag[i].active
    BY SweptEntries
  <1>4. CASE frag' = Swept /\ up' = up
    BY <1>1, <1>2, <1>3, <1>4 DEF EntriesUnmixed, WholePackets
  <1>5. CASE /\ Agrees(FindFragEntry(d), d)
             /\ frag' = [Swept EXCEPT ![EntryFor(d)] = Kept(d, p)] /\ up' = up
    <2>1. \A q \in DOMAIN Grown(d, p) : Grown(d, p)[q] = d
      BY <1>1, <1>5, GrownUnmixed
    <2>2. Kept(d, p).data = Grown(d, p) /\ Kept(d, p).last = now
      BY DEF Kept
    <2>3. \A i \in Entry : frag'[i] = Kept(d, p) \/ frag'[i] = Swept[i]
      BY <1>5, SweptEntries
    <2> HIDE DEF d, p
    <2>4. EntriesUnmixed'
      BY <1>1, <1>3, <2>1, <2>2, <2>3 DEF EntriesUnmixed
    <2> QED
      BY <1>1, <1>2, <1>5, <2>4 DEF WholePackets
  <1>6. CASE /\ Agrees(FindFragEntry(d), d) /\ DOMAIN Grown(d, p) = Parts(d)
             /\ frag' = [Swept EXCEPT ![EntryFor(d)] = Free]
             /\ up' = up \cup {Grown(d, p)}
    <2>1. \A q \in DOMAIN Grown(d, p) : Grown(d, p)[q] = d
      BY <1>1, <1>6, GrownUnmixed
    <2>2. Grown(d, p) = [q \in Parts(d) |-> d]
      BY <1>6, <2>1 DEF Grown
    <2>3. \A i \in Entry : frag'[i] = Free \/ frag'[i] = Swept[i]
      BY <1>6, SweptEntries
    <2>4. EntriesUnmixed'
      BY <1>3, <2>3 DEF EntriesUnmixed, Free
    <2>5. WholePackets'
      BY <1>1, <1>6, <2>2 DEF WholePackets
    <2> QED
      BY <1>2, <2>4, <2>5
  <1> QED
    BY <1>4, <1>5, <1>6, OnFragCases

\* Every step keeps the invariant of reassembly under distinct keys.
LEMMA WholeStep ==
    (/\ TypeOK /\ OneEntryPerKey /\ EntriesOneKey /\ EntriesUnmixed /\ SentPast
     /\ KeysUnique /\ WholePackets /\ [Next]_vars)
      => EntriesUnmixed' /\ SentPast' /\ WholePackets'
  <1> SUFFICES ASSUME TypeOK, OneEntryPerKey, EntriesOneKey, EntriesUnmixed, SentPast,
                      KeysUnique, WholePackets, [Next]_vars
               PROVE  EntriesUnmixed' /\ SentPast' /\ WholePackets'
    OBVIOUS
  <1>1. CASE \E f \in net : OnFrag(f[1], f[2])
    BY <1>1, OnFragWhole
  <1>2. CASE /\ up' = up /\ sent \subseteq sent'
             /\ frag' = frag \/ frag' = [i \in Entry |-> Free]
    <2>1. EntriesUnmixed' /\ WholePackets'
      BY <1>2 DEF EntriesUnmixed, WholePackets, Free
    <2>2. SentPast' \/ \E f \in net : OnFrag(f[1], f[2])
      <3>1. now \in Int /\ \A d \in sent : d.at \in Int
        BY DEF TypeOK, Time, Datagram
      <3>2. CASE Clock
        BY <3>1, <3>2 DEF Clock, SentPast
      <3>3. ASSUME NEW s \in Peer, NEW total \in Sizes, NEW n, Send(s, total, n)
            PROVE  SentPast'
        BY <3>1, <3>3 DEF Send, SentPast
      <3> QED
        BY <3>2, <3>3 DEF Next, vars, LoopRead, LoopWrite, Reboot, OnStop, SentPast
    <2> QED
      BY <1>1, <2>1, <2>2
  <1> QED
    BY <1>1, <1>2, OtherSteps

\* As long as datagrams that share a key are far enough apart, every packet
\* handed to the game is one datagram, whole: the expiry in FindFragEntry is
\* exactly what is needed for ids that restart.
THEOREM WholeCorrect == Spec /\ []KeysUnique => []WholePackets
  <1>1. Init => TypeOK /\ OneEntryPerKey /\ EntriesOneKey /\ OneKeyPackets
    <2>1. Init => TypeOK
      BY TunnelAssumption, FS_EmptySet DEF Init, TypeOK, Time
    <2> QED
      BY <2>1 DEF Init, OneEntryPerKey, EntriesOneKey, OneKeyPackets, Free
  <1>2. Init => EntriesUnmixed /\ SentPast /\ WholePackets
    BY DEF Init, EntriesUnmixed, SentPast, WholePackets, Free
  <1> QED
    BY <1>1, <1>2, OneKeyStep, WholeStep, PTL DEF Spec

=============================================================================
