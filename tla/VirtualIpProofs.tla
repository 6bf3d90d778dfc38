--------------------------- MODULE VirtualIpProofs ---------------------------
(***************************************************************************)
(* That the virtual address is kept forever, for any set of addresses,     *)
(* failures to store it and a power loss at any point, as long as the file *)
(* can be read and calls of GetVirtualIp do not overlap.                   *)
(***************************************************************************)
EXTENDS VirtualIp, TLAPS

\* Calls do not overlap.
Alone ==
    \A t, u \in Thread : t # u /\ pc[t] # "idle" => pc[u] = "idle"

\* A call that got past the file found no address in it.
LookedFirst ==
    \A t \in Thread :
        pc[t] \in {"nifm", "delete", "create", "write"} => file \notin Ip

Inv ==
    /\ pc \in [Thread ->
                {"idle", "read", "nifm", "delete", "create", "write"}]
    /\ Alone
    /\ LookedFirst

\* The thread that moves is in a call, so the others are not; it keeps Alone
\* wherever it goes next.
LEMMA MoveAlone ==
    ASSUME Inv, NEW t \in Thread, pc[t] # "idle",
           NEW l \in {"idle", "read", "nifm", "delete", "create", "write"},
           pc' = [pc EXCEPT ![t] = l]
    PROVE  /\ pc' \in [Thread ->
                {"idle", "read", "nifm", "delete", "create", "write"}]
           /\ Alone'
           /\ pc'[t] = l
           /\ \A u \in Thread \ {t} : pc'[u] = "idle"
  BY DEF Inv, Alone

\* A return goes to the next call, which reads the file again, or ends.
LEMMA ReturnStep ==
    ASSUME Inv, NEW t \in Thread, pc[t] # "idle", NEW ip, Return(t, ip)
    PROVE  Inv'
  <1> DEFINE l == IF Tail(todo[t]) = <<>> THEN "idle" ELSE "read"
  <1>1. l \in {"idle", "read"} /\ pc' = [pc EXCEPT ![t] = l]
    BY DEF Return
  <1> HIDE DEF l
  <1>2. /\ pc' \in [Thread ->
              {"idle", "read", "nifm", "delete", "create", "write"}]
        /\ Alone'
        /\ pc'[t] = l
        /\ \A u \in Thread \ {t} : pc'[u] = "idle"
    BY <1>1, MoveAlone
  <1>3. LookedFirst'
    BY <1>1, <1>2 DEF LookedFirst
  <1> QED BY <1>2, <1>3 DEF Inv

\* A step inside a call, with no address in the file after it.
LEMMA GotoStep ==
    ASSUME Inv, NEW t \in Thread, pc[t] # "idle",
           NEW l \in {"nifm", "delete", "create", "write"},
           Goto(t, l), file' \notin Ip
    PROVE  Inv'
  <1>1. pc' = [pc EXCEPT ![t] = l]
    BY DEF Goto
  <1>2. /\ pc' \in [Thread ->
              {"idle", "read", "nifm", "delete", "create", "write"}]
        /\ Alone'
    BY <1>1, MoveAlone
  <1>3. LookedFirst'
    BY DEF LookedFirst
  <1> QED BY <1>2, <1>3 DEF Inv

\* The console starts with main in its first call.
LEMMA RebootStep ==
    ASSUME pc' = BootPc
    PROVE  Inv'
  <1>1. \A u \in Thread : pc'[u] = IF u = "main" THEN "read" ELSE "idle"
    BY DEF BootPc
  <1>2. pc' \in [Thread ->
            {"idle", "read", "nifm", "delete", "create", "write"}]
    BY DEF BootPc
  <1>3. Alone' /\ LookedFirst'
    BY <1>1 DEF Alone, LookedFirst
  <1> QED BY <1>2, <1>3 DEF Inv

\* GetVirtualIp keeps the invariant, and an address that is in the file.
LEMMA CallStep ==
    ASSUME Inv, NEW t \in Thread, GetVirtualIp(t)
    PROVE  /\ Trusted' => Inv'
           /\ file \in Ip => file' = file
  <1>1. CASE ReadPersistedVirtualOctets(t)
    <2>1. pc[t] # "idle" /\ file' = file
      BY <1>1 DEF ReadPersistedVirtualOctets
    <2>2. CASE Return(t, file)
      BY <2>1, <2>2, ReturnStep
    <2>3. CASE file \notin Ip /\ Goto(t, "nifm")
      BY <2>1, <2>3, GotoStep
    <2>4. CASE fault' = fault \cup {"read"}
      BY <2>1, <2>4 DEF Trusted
    <2> QED BY <1>1, <2>1, <2>2, <2>3, <2>4 DEF ReadPersistedVirtualOctets
  <1>2. CASE GenerateVirtualOctets(t)
    <2>1. pc[t] # "idle" /\ file' = file /\ file \notin Ip
      BY <1>2 DEF GenerateVirtualOctets, Inv, LookedFirst
    <2>2. CASE nifm
      BY <1>2, <2>1, <2>2, GotoStep DEF GenerateVirtualOctets
    <2>3. CASE ~nifm
      BY <1>2, <2>1, <2>3, ReturnStep DEF GenerateVirtualOctets
    <2> QED BY <2>1, <2>2, <2>3
  <1>3. CASE DeleteFile(t)
    <2>1. pc[t] # "idle" /\ file \notin Ip /\ file' \in {NoFile, file}
      BY <1>3 DEF DeleteFile, FsFails, Inv, LookedFirst
    <2>2. file' \notin Ip
      BY <2>1, IpAssumption
    <2> QED BY <1>3, <2>1, <2>2, GotoStep DEF DeleteFile
  <1>4. CASE CreateFile(t)
    <2>1. pc[t] # "idle" /\ file \notin Ip
      BY <1>4 DEF CreateFile, Inv, LookedFirst
    <2>2. CASE file' = Blank /\ Goto(t, "write")
      BY <2>1, <2>2, IpAssumption, GotoStep
    <2>3. CASE Return(t, drawn[t])
      BY <2>1, <2>3, ReturnStep
    <2> QED BY <1>4, <2>1, <2>2, <2>3 DEF CreateFile
  <1>5. CASE WriteFile(t)
    <2>1. pc[t] # "idle" /\ file \notin Ip /\ Return(t, drawn[t])
      BY <1>5 DEF WriteFile, Inv, LookedFirst
    <2> QED BY <2>1, ReturnStep
  <1> QED BY <1>1, <1>2, <1>3, <1>4, <1>5 DEF GetVirtualIp

\* Every step keeps the invariant, and an address that is in the file.
LEMMA Step ==
    ASSUME Inv, Next
    PROVE  /\ Trusted' => Inv'
           /\ file \in Ip => file' = file
  <1>1. ASSUME NEW t \in Thread, NEW holders, Call(t, holders)
        PROVE  (Trusted' => Inv') /\ file' = file
    <2>1. pc' = [pc EXCEPT ![t] = "read"] /\ file' = file
      BY <1>1 DEF Call
    <2>2. CASE \E u \in Thread : pc[u] # "idle"
      BY <1>1, <2>1, <2>2 DEF Call, Trusted
    <2>3. CASE \A u \in Thread : pc[u] = "idle"
      <3>1. \A u \in Thread : pc'[u] = IF u = t THEN "read" ELSE "idle"
        BY <2>1, <2>3 DEF Inv
      <3>2. pc' \in [Thread ->
                {"idle", "read", "nifm", "delete", "create", "write"}]
        BY <2>1 DEF Inv
      <3>3. Alone' /\ LookedFirst'
        BY <3>1 DEF Alone, LookedFirst
      <3> QED BY <2>1, <3>2, <3>3 DEF Inv
    <2> QED BY <2>2, <2>3
  <1>2. CASE Start \/ Initialize
    BY <1>1, <1>2 DEF Start, Initialize, Thread
  <1>3. ASSUME UNCHANGED <<file, pc>>
        PROVE  Inv' /\ file' = file
    BY <1>3 DEF Inv, Alone, LookedFirst
  <1>4. CASE Stop \/ Finalize \/ Network
    BY <1>3, <1>4 DEF Stop, Finalize, Network
  <1>5. CASE Reboot
    BY <1>5, RebootStep DEF Reboot
  <1> QED BY <1>2, <1>4, <1>5, CallStep DEF Next

\* Faults are only forgotten with everything else, when the console starts.
LEMMA FaultsStay ==
    ASSUME Next, ~Trusted
    PROVE  ~Trusted' \/ Reboot
  <1>1. ASSUME NEW x, fault' = fault \cup x PROVE ~Trusted'
    BY <1>1 DEF Trusted
  <1>2. ASSUME NEW t \in Thread, GetVirtualIp(t)
        PROVE  fault' = fault \/ \E x : fault' = fault \cup x
    BY <1>2 DEF GetVirtualIp, ReadPersistedVirtualOctets,
                GenerateVirtualOctets, DeleteFile, CreateFile, WriteFile,
                FsFails
  <1>3. ASSUME Start \/ Initialize
        PROVE  \E x : fault' = fault \cup x
    BY <1>3 DEF Start, Initialize, Call
  <1>4. ASSUME Stop \/ Finalize \/ Network
        PROVE  fault' = fault
    BY <1>4 DEF Stop, Finalize, Network
  <1> QED BY <1>1, <1>2, <1>3, <1>4 DEF Next, Trusted

\* The address: once it is in the file it stays there unchanged, through writes
\* that fail, a network that comes and goes and a power loss at any point, if
\* it can be read and no game opens ldn:u while Start asks for it.
THEOREM KeptCorrect == Spec => KeptForever
  <1>1. Init => (Trusted => Inv)
    BY DEF Init, Inv, BootPc, Alone, LookedFirst
  <1>2. (Trusted => Inv) /\ [Next]_vars => (Trusted => Inv)'
    <2> SUFFICES ASSUME Trusted => Inv, [Next]_vars
                 PROVE  Trusted' => Inv'
      OBVIOUS
    <2>1. CASE UNCHANGED vars
      BY <2>1 DEF vars, Inv, Alone, LookedFirst, Trusted
    <2>2. CASE Next /\ Trusted
      BY <2>2, Step
    <2>3. CASE Next /\ ~Trusted
      BY <2>3, FaultsStay, RebootStep DEF Reboot
    <2> QED BY <2>1, <2>2, <2>3
  <1>3. (Trusted => Inv) /\ [Next]_vars
          => [(Trusted /\ file \in Ip) => (file' = file)]_vars
    BY Step
  <1> QED BY <1>1, <1>2, <1>3, PTL DEF Spec, KeptForever

=============================================================================
