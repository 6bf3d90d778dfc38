-------------------------- MODULE SlpRuntimeProofs --------------------------
(***************************************************************************)
(* The socket of the relay session is open exactly as long as a thread     *)
(* needs it, for any number of descriptors and servers.                    *)
(***************************************************************************)
EXTENDS SlpRuntime, TLAPS

\* The steps of Start that hold m_mutex and have no thread yet.
Starting == {"credentials", "resolve", "wiped", "thread"}

\* Which of Start and Stop the slp:cfg thread is in decides whether there is
\* a run loop and what the state says.
Phases ==
    /\ state = "RUNNING" => cfg = "idle"
    /\ cfg = "idle" => (run = "none") = (state = "STOPPED")
    /\ cfg \in Starting => run = "none"
    /\ cfg \in {"started", "joining"} => run # "none"
    /\ cfg = "closing" => run = "none"

\* What the client's descriptor is in each of those phases.
ClientSocket ==
    /\ cfg = "idle" /\ state = "STOPPED" => client.fd = NoFd
    /\ cfg \in {"credentials", "resolve"} => client.fd = NoFd
    /\ cfg = "wiped" => client.fd = WipedFd
    /\ cfg \in {"thread", "started", "joining", "closing"}
            \/ state = "RUNNING"
        => client.fd \in Fds /\ sockets[client.fd] = "relay"

\* What Start has in hand: the lookup's socket, then the relay's.
FreshSocket ==
    /\ cfg \notin {"resolve", "wiped"} => fresh = NoFd
    /\ cfg = "wiped" => fresh \in Fds /\ sockets[fresh] = "relay"

Inv == TypeOK /\ Phases /\ ClientSocket /\ FreshSocket /\ NoSocketLost

\* The runtime as constructed satisfies the invariant.
LEMMA InitInv == Init => Inv
<1>. SUFFICES ASSUME Init PROVE Inv
  OBVIOUS
<1>1. TypeOK
  <2>1. client \in [fd : Fds \cup {NoFd, WipedFd}, creds : BOOLEAN]
    BY DEF Init
  <2>2. ipc \in [pc : IpcPc, fd : Fds \cup {NoFd, WipedFd}]
    BY DEF Init, IpcPc
  <2>3. count \in 0 .. MaxServers /\ sel \in -1 .. (MaxServers - 1)
    BY RuntimeAssumption DEF Init
  <2>4. /\ threadRunning \in BOOLEAN /\ stopEvent \in BOOLEAN
        /\ session \in BOOLEAN
    BY Zenon DEF Init
  <2>5. /\ sockets \in [Fds -> {"closed", "dns", "relay"}]
        /\ fails \in 0 .. (MaxFails - 1)
    BY DEF Init, MaxFails
  <2>. QED
    BY <2>1, <2>2, <2>3, <2>4, <2>5 DEF Init, TypeOK, CfgPc, RunPc
<1>2. Phases /\ ClientSocket /\ FreshSocket
  BY DEF Init, Phases, Starting, ClientSocket, FreshSocket
<1>3. NoSocketLost
  BY DEF Init, NoSocketLost, Open
<1>. QED
  BY <1>1, <1>2, <1>3 DEF Inv

\* A descriptor that is open after a close was open before it, and is another.
LEMMA OpenAfterClosing ==
  ASSUME NEW f, NEW g \in Fds
  PROVE  Closing(f)[g] = IF g = f THEN "closed" ELSE sockets[g]
  BY DEF Closing

\* Closing keeps the table a table.
LEMMA ClosingType ==
  ASSUME TypeOK, NEW f
  PROVE  Closing(f) \in [Fds -> {"closed", "dns", "relay"}]
  BY DEF TypeOK, Closing

\* The slp:cfg calls that only touch the configuration.
LEMMA ConfigStep ==
  ASSUME Inv,
         \/ \E n \in 0 .. MaxServers : ReloadServers(n)
         \/ \E index \in -1 .. (MaxServers - 1) : SelectServer(index)
  PROVE  Inv'
<1>1. /\ login' \in [ServerIndex -> BOOLEAN]
      /\ count' \in 0 .. MaxServers
      /\ sel' \in -1 .. (MaxServers - 1)
      /\ UNCHANGED <<flags, locks, client, sockets, cfgVars, runVars, ipc>>
  BY RuntimeAssumption DEF Inv, TypeOK, ReloadServers, SelectServer
<1>2. TypeOK'
  BY <1>1 DEF Inv, TypeOK, flags, locks, cfgVars, runVars, CfgPc, RunPc, IpcPc
<1>. QED
  BY <1>1, <1>2 DEF Inv, Phases, Starting, ClientSocket, FreshSocket,
     NoSocketLost, Open, flags, locks, cfgVars, runVars

\* A step of the MITM thread leaves the session alone.
LEMMA IpcPreserves ==
  ASSUME Inv, IpcEnter \/ IpcStep
  PROVE  Inv'
<1>1. /\ ipc' \in [pc : IpcPc, fd : Fds \cup {NoFd, WipedFd}]
      /\ ldnMutex' \in {"free", "run", "ipc"}
      /\ UNCHANGED <<config, flags, mutex, client, sockets, cfgVars, runVars>>
  BY DEF Inv, TypeOK, IpcEnter, IpcStep, IpcReturn, SendCheckState,
     SendCheckFd, SendLoadFd, SendTo, IpcPc, NoFd, locks
<1>2. TypeOK'
  BY <1>1 DEF Inv, TypeOK, config, flags, cfgVars, runVars, CfgPc, RunPc, IpcPc
<1>. QED
  BY <1>1, <1>2 DEF Inv, Phases, Starting, ClientSocket, FreshSocket,
     NoSocketLost, Open, config, flags, cfgVars, runVars

\* A step of the run loop that does not reopen the socket stays between its
\* first and its last place.
LEMMA RunQuiet ==
  ASSUME Inv,
         \/ RunExit \/ RunContinue \/ KeepaliveSent \/ KeepaliveFailed
         \/ Tick \/ RunSendFrame \/ RecvPlain \/ RecvPing \/ HandleAuthMe
         \/ RecvControl \/ OnControlFrame \/ CheckStop
  PROVE  Inv'
<1>1. /\ run # "none"
      /\ run' \in RunPc \ {"none"}
      /\ fails' \in 0 .. (MaxFails - 1)
      /\ auth' \in {"none", "answered", "refused"}
      /\ ldnMutex' \in {"free", "run", "ipc"}
      /\ UNCHANGED <<config, flags, mutex, client, sockets, cfgVars, ipc>>
  BY DEF Inv, TypeOK, RunExit, RunContinue, KeepaliveSent, KeepaliveFailed,
     Tick, RunSendFrame, RecvPlain, RecvPing, HandleAuthMe, RecvControl,
     OnControlFrame, CheckStop, RunPc, MaxFails, locks
<1>2. TypeOK'
  BY <1>1 DEF Inv, TypeOK, config, flags, cfgVars, CfgPc, RunPc, IpcPc
<1>. QED
  BY <1>1, <1>2 DEF Inv, Phases, Starting, ClientSocket, FreshSocket,
     NoSocketLost, Open, config, flags, cfgVars

\* A live run loop means a session between the end of Start and Stop's join,
\* whose client holds an open socket.
LEMMA RunHasSocket ==
  ASSUME Inv, run # "none"
  PROVE  /\ cfg \in {"idle", "started", "joining"}
         /\ cfg = "idle" => state = "RUNNING"
         /\ client.fd \in Fds /\ sockets[client.fd] = "relay"
         /\ fresh = NoFd
  BY DEF Inv, TypeOK, Phases, Starting, ClientSocket, FreshSocket, CfgPc

\* slpClientReopen swaps one open socket for another.
LEMMA ReopenInv ==
  ASSUME Inv, Reopen
  PROVE  Inv'
<1>1. PICK f \in Free :
        /\ sockets' = [Closing(client.fd) EXCEPT ![f] = "relay"]
        /\ client' = [client EXCEPT !.fd = f]
  BY DEF Reopen
<1>2. f \in Fds /\ f # client.fd
  BY RunHasSocket DEF Reopen, Free, Open
<1>3. /\ client' \in [fd : Fds \cup {NoFd, WipedFd}, creds : BOOLEAN]
      /\ client'.fd = f
  BY <1>1, <1>2 DEF Inv, TypeOK
<1>4. /\ sockets' \in [Fds -> {"closed", "dns", "relay"}]
      /\ sockets'[f] = "relay"
  BY <1>1, <1>2, ClosingType DEF Inv
<1>5. /\ run = "top" /\ run' = "tick" /\ fails' = 0
      /\ UNCHANGED <<config, flags, locks, cfgVars, auth, ipc>>
  BY DEF Reopen
<1>6. TypeOK'
  BY <1>3, <1>4, <1>5 DEF Inv, TypeOK, config, flags, locks, cfgVars, RunPc,
     MaxFails, CfgPc, IpcPc
<1>7. \A g \in Fds : sockets'[g] # "closed" => g = f
  <2>. SUFFICES ASSUME NEW g \in Fds, g # f, sockets'[g] # "closed"
                PROVE  FALSE
    OBVIOUS
  <2>1. sockets'[g] = Closing(client.fd)[g]
    BY <1>1, <1>2, ClosingType DEF Inv
  <2>2. g # client.fd /\ sockets[g] # "closed"
    BY <2>1, OpenAfterClosing
  <2>. QED
    BY <2>2, <1>5, RunHasSocket, RuntimeAssumption
       DEF Inv, NoSocketLost, Open, NoFd
<1>8. NoSocketLost'
  BY <1>3, <1>7 DEF NoSocketLost, Open
<1>9. Phases' /\ FreshSocket'
  BY <1>5, RunHasSocket DEF Inv, Phases, FreshSocket, Starting, flags, cfgVars
<1>10. ClientSocket'
  BY <1>2, <1>3, <1>4, <1>5, RunHasSocket
     DEF Inv, ClientSocket, flags, cfgVars
<1>. QED
  BY <1>6, <1>8, <1>9, <1>10 DEF Inv

\* The steps of Start up to the socket.
LEMMA StartOpens ==
  ASSUME Inv,
         StartEnter \/ SetCredentials \/ Resolve \/ OpenFails \/ OpenStore
  PROVE  Inv'
<1>1. CASE StartEnter
  <2>1. TypeOK'
    BY <1>1, RuntimeAssumption
       DEF Inv, TypeOK, StartEnter, config, flags, runVars, CfgPc, RunPc,
       IpcPc, ServerIndex
  <2>. QED
    BY <1>1, <2>1 DEF Inv, TypeOK, StartEnter, Phases, Starting,
       ClientSocket, FreshSocket, NoSocketLost, Open, config, flags, runVars
<1>2. CASE SetCredentials
  <2>1. /\ client' \in [fd : Fds \cup {NoFd, WipedFd}, creds : BOOLEAN]
        /\ client'.fd = client.fd
    BY <1>2 DEF SetCredentials, Inv, TypeOK
  <2>2. TypeOK'
    BY <1>2, <2>1 DEF Inv, TypeOK, SetCredentials, config, flags, locks,
       runVars, CfgPc, RunPc, IpcPc
  <2>. QED
    BY <1>2, <2>1, <2>2 DEF Inv, SetCredentials, Phases, Starting,
       ClientSocket, FreshSocket, NoSocketLost, Open, flags, runVars
<1>3. CASE Resolve
  <2>1. PICK f \in Free : sockets' = [sockets EXCEPT ![f] = "dns"] /\ fresh' = f
    BY <1>3 DEF Resolve
  <2>2. f \in Fds
    BY <2>1 DEF Free
  <2>3. TypeOK'
    BY <1>3, <2>1, <2>2 DEF Inv, TypeOK, Resolve, config, flags, locks,
       runVars, CfgPc, RunPc, IpcPc
  <2>4. Phases' /\ ClientSocket' /\ FreshSocket'
    BY <1>3, RuntimeAssumption DEF Inv, Resolve, Phases, Starting, ClientSocket,
       FreshSocket, flags, runVars
  <2>5. \A g \in Fds : sockets[g] = "closed"
    BY <1>3, RuntimeAssumption DEF Inv, Resolve, ClientSocket, NoSocketLost,
       Open, NoFd
  <2>6. \A g \in Fds : sockets'[g] # "closed" => g = f
    BY <2>1, <2>2, <2>5 DEF Inv, TypeOK
  <2>7. NoSocketLost'
    BY <2>1, <2>6 DEF NoSocketLost, Open
  <2>. QED
    BY <2>3, <2>4, <2>7 DEF Inv
<1>4. CASE OpenFails
  <2>1. sockets' \in [Fds -> {"closed", "dns", "relay"}]
    BY <1>4, ClosingType DEF OpenFails, Inv
  <2>2. TypeOK'
    BY <1>4, <2>1 DEF Inv, TypeOK, OpenFails, config, flags, runVars, CfgPc,
       RunPc, IpcPc
  <2>3. Phases' /\ ClientSocket' /\ FreshSocket'
    BY <1>4 DEF Inv, TypeOK, OpenFails, Phases, Starting, ClientSocket,
       FreshSocket, flags, runVars
  <2>4. \A g \in Fds : sockets[g] # "closed" => g = fresh
    BY <1>4, RuntimeAssumption
       DEF Inv, OpenFails, NoSocketLost, Open, ClientSocket, NoFd
  <2>5. \A g \in Fds : sockets'[g] = "closed"
    BY <1>4, <2>4, OpenAfterClosing DEF OpenFails
  <2>6. NoSocketLost'
    BY <2>5 DEF NoSocketLost, Open
  <2>. QED
    BY <2>2, <2>3, <2>6 DEF Inv
<1>5. CASE OpenStore
  <2>1. /\ client' \in [fd : Fds \cup {NoFd, WipedFd}, creds : BOOLEAN]
        /\ client'.fd = fresh
    BY <1>5 DEF OpenStore, Inv, TypeOK
  <2>2. TypeOK'
    BY <1>5, <2>1 DEF Inv, TypeOK, OpenStore, config, flags, locks, runVars,
       CfgPc, RunPc, IpcPc
  <2>3. Phases' /\ FreshSocket' /\ ClientSocket'
    BY <1>5, <2>1 DEF Inv, OpenStore, Phases, Starting, FreshSocket,
       ClientSocket, flags, runVars
  <2>4. NoSocketLost'
    BY <1>5, <2>1, RuntimeAssumption
       DEF Inv, OpenStore, NoSocketLost, Open, ClientSocket, WipedFd
  <2>. QED
    BY <2>2, <2>3, <2>4 DEF Inv
<1>. QED
  BY <1>1, <1>2, <1>3, <1>4, <1>5

\* slpClientOpen's success: the lookup's socket is gone, the relay's is there.
LEMMA OpenWipeInv ==
  ASSUME Inv, OpenWipe
  PROVE  Inv'
<1>1. PICK f \in Fds :
        /\ sockets' = [Closing(fresh) EXCEPT ![f] = "relay"]
        /\ fresh' = f
  BY DEF OpenWipe
<1>2. sockets' \in [Fds -> {"closed", "dns", "relay"}] /\ sockets'[f] = "relay"
  BY <1>1, ClosingType DEF Inv
<1>3. TypeOK'
  BY <1>1, <1>2 DEF Inv, TypeOK, OpenWipe, config, flags, locks, runVars,
     CfgPc, RunPc, IpcPc
<1>4. Phases' /\ ClientSocket' /\ FreshSocket'
  BY <1>1, <1>2 DEF Inv, OpenWipe, Phases, Starting, ClientSocket,
     FreshSocket, flags, runVars
<1>5. \A g \in Fds : sockets'[g] # "closed" => g = f
  <2>. SUFFICES ASSUME NEW g \in Fds, g # f, sockets'[g] # "closed"
                PROVE  FALSE
    OBVIOUS
  <2>1. sockets'[g] = Closing(fresh)[g]
    BY <1>1, ClosingType DEF Inv
  <2>2. g # fresh /\ sockets[g] # "closed"
    BY <2>1, OpenAfterClosing
  <2>. QED
    BY <2>2, RuntimeAssumption
       DEF Inv, OpenWipe, ClientSocket, NoSocketLost, Open, NoFd
<1>6. NoSocketLost'
  BY <1>1, <1>5 DEF NoSocketLost, Open
<1>. QED
  BY <1>3, <1>4, <1>6 DEF Inv

\* Start's last steps and Stop's first two.
LEMMA ThreadSteps ==
  ASSUME Inv, StartThread \/ StartReturn \/ StopClaim \/ StopJoin
  PROVE  Inv'
<1>1. /\ TypeOK'
      /\ UNCHANGED <<client, sockets, fresh>>
  <2>1. CASE StartThread
    <3>1. threadRunning' \in BOOLEAN /\ stopEvent' \in BOOLEAN
      BY <2>1, Zenon DEF StartThread
    <3>. QED
      BY <2>1, <3>1 DEF Inv, TypeOK, StartThread, config, locks, CfgPc, RunPc,
         IpcPc, MaxFails
  <2>2. CASE StartReturn
    BY <2>2 DEF Inv, TypeOK, StartReturn, config, runVars, CfgPc, RunPc, IpcPc
  <2>3. CASE StopClaim
    <3>1. threadRunning' \in BOOLEAN /\ stopEvent' \in BOOLEAN
      BY <2>3, Zenon DEF StopClaim
    <3>. QED
      BY <2>3, <3>1 DEF Inv, TypeOK, StopClaim, config, locks, runVars, CfgPc,
         RunPc, IpcPc
  <2>4. CASE StopJoin
    BY <2>4 DEF Inv, TypeOK, StopJoin, config, flags, locks, CfgPc, RunPc, IpcPc
  <2>. QED
    BY <2>1, <2>2, <2>3, <2>4
<1>2. Phases'
  BY DEF Inv, TypeOK, Phases, Starting, StartThread, StartReturn, StopClaim,
     StopJoin, flags, runVars
<1>3. ClientSocket' /\ FreshSocket'
  BY <1>1 DEF Inv, TypeOK, ClientSocket, FreshSocket, Phases, StartThread,
     StartReturn, StopClaim, StopJoin, flags
<1>. QED
  BY <1>1, <1>2, <1>3 DEF Inv, NoSocketLost, Open

\* The two places that close the client's socket.
LEMMA CloseSteps ==
  ASSUME Inv, ThreadFails \/ StopClose
  PROVE  Inv'
<1>1. /\ sockets' = Closing(client.fd)
      /\ client' = [client EXCEPT !.fd = NoFd]
      /\ cfg \in {"thread", "closing"} /\ cfg' = "idle"
      /\ UNCHANGED <<config, state, ldnMutex, session, fresh, runVars, ipc>>
      /\ mutex' \in {"free", "cfg"}
      /\ threadRunning' \in BOOLEAN
      /\ stopEvent' \in BOOLEAN
  BY DEF Inv, TypeOK, ThreadFails, StopClose, flags, locks
<1>2. /\ client' \in [fd : Fds \cup {NoFd, WipedFd}, creds : BOOLEAN]
      /\ client'.fd = NoFd
  BY <1>1 DEF Inv, TypeOK
<1>3. sockets' \in [Fds -> {"closed", "dns", "relay"}]
  BY <1>1, ClosingType DEF Inv
<1>4. TypeOK'
  BY <1>1, <1>2, <1>3 DEF Inv, TypeOK, config, runVars, CfgPc, RunPc, IpcPc
<1>5. state = "STOPPED" /\ run = "none" /\ fresh = NoFd
  BY <1>1 DEF Inv, TypeOK, Phases, Starting, FreshSocket
<1>6. Phases' /\ ClientSocket' /\ FreshSocket'
  BY <1>1, <1>2, <1>5 DEF Phases, Starting, ClientSocket, FreshSocket, runVars
<1>7. NoSocketLost'
  BY <1>1, <1>5, OpenAfterClosing, RuntimeAssumption
     DEF Inv, NoSocketLost, Open, NoFd
<1>. QED
  BY <1>4, <1>6, <1>7 DEF Inv

\* Every step preserves the invariant.
LEMMA NextInv == Inv /\ [Next]_vars => Inv'
<1>. SUFFICES ASSUME Inv, [Next]_vars
              PROVE  Inv'
  OBVIOUS
<1>1. CASE UNCHANGED vars
  BY <1>1 DEF Inv, TypeOK, Phases, Starting, ClientSocket, FreshSocket,
     NoSocketLost, Open, vars, config, flags, locks, cfgVars, runVars, CfgPc,
     RunPc, IpcPc
<1>2. CASE \/ \E n \in 0 .. MaxServers : ReloadServers(n)
           \/ \E index \in -1 .. (MaxServers - 1) : SelectServer(index)
  BY <1>2, ConfigStep
<1>3. CASE StartEnter \/ StopClaim \/ CfgStep
  BY <1>3, StartOpens, OpenWipeInv, ThreadSteps, CloseSteps DEF CfgStep
<1>4. CASE RunStep
  BY <1>4, RunQuiet, ReopenInv DEF RunStep
<1>5. CASE IpcEnter \/ IpcStep
  BY <1>5, IpcPreserves
<1>. QED
  BY <1>1, <1>2, <1>3, <1>4, <1>5 DEF Next

\* The run loop's unlocked use of m_client is sound: while it is alive, the
\* client's descriptor is an open relay socket.
THEOREM RunSocketCorrect == Spec => [](TypeOK /\ RunSocketOpen)
<1>1. Inv => TypeOK /\ RunSocketOpen
  BY RunHasSocket DEF Inv, RunSocketOpen
<1>. QED
  BY <1>1, InitInv, NextInv, PTL DEF Spec

\* Start and Stop balance, whichever step fails and however often the socket
\* is reopened: nothing is open that the session does not hold, and nothing at
\* all once it is over.
THEOREM SocketsBalanced == Spec => [](NoSocketLost /\ StoppedIsClean)
<1>1. Inv => NoSocketLost /\ StoppedIsClean
  <2>. SUFFICES ASSUME Inv, cfg = "idle", state = "STOPPED"
                PROVE  run = "none" /\ Open = {} /\ client.fd = NoFd
    BY DEF Inv, StoppedIsClean
  <2>1. run = "none" /\ client.fd = NoFd /\ fresh = NoFd
    BY DEF Inv, Phases, ClientSocket, FreshSocket
  <2>2. Open = {}
    BY <2>1, RuntimeAssumption DEF Inv, NoSocketLost, Open, NoFd
  <2>. QED
    BY <2>1, <2>2
<1>. QED
  BY <1>1, InitInv, NextInv, PTL DEF Spec

=============================================================================
