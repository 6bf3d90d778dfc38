----------------------------- MODULE SlpRuntime -----------------------------
(***************************************************************************)
(* The relay session of one console: Runtime::Start, Stop, SelectServer    *)
(* and ReloadServers on the slp:cfg thread, Runtime::RunLoop on the thread *)
(* Start creates, and a game call on the MITM thread that sends through    *)
(* the tunnel.  The three share one SlpClient (the socket and the login),  *)
(* the runtime mutex, and, through LdnControl, the LDN mutex.              *)
(*                                                                         *)
(* A step is what a thread does between two points where another thread    *)
(* can matter: taking or releasing a mutex, and each unlocked access to    *)
(* m_client.  GetState takes and releases m_mutex at once, so it is a      *)
(* guard "mutex is free" on the step that calls it.                        *)
(***************************************************************************)
EXTENDS Integers

CONSTANTS
    Fds,            \* descriptor numbers socket() can return
    MaxServers      \* SLPCFG_MAX_SERVERS

ASSUME RuntimeAssumption == MaxServers \in Nat \ {0} /\ Fds \subseteq Nat \ {0}

VARIABLES
    login,          \* g_servers: does the entry have a username?
    count,          \* g_count
    sel,            \* m_sel_index
    state,          \* m_state
    mutex,          \* holder of Runtime::m_mutex between two steps
    ldnMutex,       \* holder of LdnControl::m_mutex
    threadRunning,  \* m_thread_running
    stopEvent,      \* m_stop_event
    client,         \* m_client: descriptor, has_credentials
    sockets,        \* what each descriptor of the process is open on
    session,        \* the entry being connected has a username
    cfg,            \* where the slp:cfg thread is
    fresh,          \* descriptor a Start has opened and not yet stored
    run,            \* where the run loop is
    fails,          \* keepalive_fails
    auth,           \* what became of the relay's last AUTH_ME challenge
    ipc             \* where the MITM thread is, and the descriptor it read

config == <<login, count, sel>>
cfgVars == <<cfg, session, fresh>>
runVars == <<run, fails, auth>>
flags == <<state, threadRunning, stopEvent>>
locks == <<mutex, ldnMutex>>
vars == <<config, flags, locks, client, sockets, cfgVars, runVars, ipc>>

NoFd == -1

\* The value the client's memset leaves in fd before the socket is stored.
WipedFd == 0

MaxFails == 3

CfgPc == {"idle", "credentials", "resolve", "wiped", "thread", "started",
          "joining", "closing"}
RunPc == {"none", "top", "tick", "beacon", "recv", "control", "reply",
          "check", "exited"}
IpcPc == {"idle", "check", "fd", "load", "send"}

\* Open descriptors, and the ones socket() may hand out next.
Open == {f \in Fds : sockets[f] # "closed"}
Free == Fds \ Open

\* close(): nothing happens for a descriptor that is not open.
Closing(f) == [g \in Fds |-> IF g = f THEN "closed" ELSE sockets[g]]

ServerIndex == 0 .. (MaxServers - 1)

Init ==
    /\ login \in [ServerIndex -> BOOLEAN]
    /\ count = 0
    /\ sel = -1
    /\ state = "STOPPED"
    /\ mutex = "free"
    /\ ldnMutex = "free"
    /\ threadRunning = FALSE
    /\ stopEvent = FALSE
    /\ client = [fd |-> NoFd, creds |-> FALSE]
    /\ sockets = [f \in Fds |-> "closed"]
    /\ session = FALSE
    /\ cfg = "idle"
    /\ fresh = NoFd
    /\ run = "none"
    /\ fails = 0
    /\ auth = "none"
    /\ ipc = [pc |-> "idle", fd |-> NoFd]

-----------------------------------------------------------------------------
(* The slp:cfg thread.                                                     *)

\* A file that cannot be read leaves the list and the selection alone.
ReloadServers(n) ==
    /\ cfg = "idle"
    /\ mutex = "free"
    /\ login' \in [ServerIndex -> BOOLEAN]
    /\ count' = n
    /\ sel' = IF sel \in 0 .. (n - 1) THEN sel ELSE IF n > 0 THEN 0 ELSE -1
    /\ UNCHANGED <<flags, locks, client, sockets, cfgVars, runVars, ipc>>

\* The u32 argument is cast to int before the comparison: a large one is
\* negative, passes, and is stored; Start then refuses it.
SelectServer(index) ==
    /\ cfg = "idle"
    /\ mutex = "free"
    /\ index < count
    /\ sel' = index
    /\ UNCHANGED <<login, count, flags, locks, client, sockets, cfgVars,
                   runVars, ipc>>

\* Start returns at once when it is running or when nothing valid is
\* selected; otherwise it keeps m_mutex to its end.
StartEnter ==
    /\ cfg = "idle"
    /\ mutex = "free"
    /\ state # "RUNNING"
    /\ sel \in 0 .. (count - 1)
    /\ mutex' = "cfg"
    /\ cfg' = "credentials"
    /\ session' = login[sel]
    /\ UNCHANGED <<config, flags, ldnMutex, client, sockets, fresh, runVars,
                   ipc>>

SetCredentials ==
    /\ cfg = "credentials"
    /\ client' = [client EXCEPT !.creds = session]
    /\ cfg' = "resolve"
    /\ UNCHANGED <<config, flags, locks, sockets, session, fresh, runVars,
                   ipc>>

\* A host name is resolved over a socket of its own, closed by slpResolveHost
\* before it returns; a literal address skips it.
Resolve ==
    /\ cfg = "resolve"
    /\ fresh = NoFd
    /\ \E f \in Free :
        /\ sockets' = [sockets EXCEPT ![f] = "dns"]
        /\ fresh' = f
    /\ UNCHANGED <<config, flags, locks, client, session, cfg, runVars, ipc>>

\* No address, no socket, or no port: Start gives up, before the memset.
OpenFails ==
    /\ cfg = "resolve"
    /\ sockets' = Closing(fresh)
    /\ fresh' = NoFd
    /\ cfg' = "idle"
    /\ mutex' = "free"
    /\ UNCHANGED <<config, flags, ldnMutex, client, session, runVars, ipc>>

\* The socket is bound first; then the whole client is wiped ...
OpenWipe ==
    /\ cfg = "resolve"
    /\ \E f \in Fds :
        /\ Closing(fresh)[f] = "closed"
        /\ sockets' = [Closing(fresh) EXCEPT ![f] = "relay"]
        /\ fresh' = f
    /\ client' = [fd |-> WipedFd, creds |-> FALSE]
    /\ cfg' = "wiped"
    /\ UNCHANGED <<config, flags, locks, session, runVars, ipc>>

\* ... and the descriptor stored in it.  Start then sends its ping.
OpenStore ==
    /\ cfg = "wiped"
    /\ client' = [client EXCEPT !.fd = fresh]
    /\ fresh' = NoFd
    /\ cfg' = "thread"
    /\ UNCHANGED <<config, flags, locks, sockets, session, runVars, ipc>>

\* Mutant: the socket of a Start whose thread cannot be created stays open.
ThreadFails_NoClose ==
    /\ cfg = "thread"
    /\ threadRunning' = FALSE
    /\ stopEvent' = FALSE
    /\ cfg' = "idle"
    /\ mutex' = "free"
    /\ UNCHANGED <<config, state, ldnMutex, client, sockets, session, fresh,
                   runVars, ipc>>

ThreadFails ==
    /\ cfg = "thread"
    /\ sockets' = Closing(client.fd)
    /\ client' = [client EXCEPT !.fd = NoFd]
    /\ threadRunning' = FALSE
    /\ stopEvent' = FALSE
    /\ cfg' = "idle"
    /\ mutex' = "free"
    /\ UNCHANGED <<config, state, ldnMutex, session, fresh, runVars, ipc>>

StartThread ==
    /\ cfg = "thread"
    /\ stopEvent' = FALSE
    /\ threadRunning' = TRUE
    /\ run' = "top"
    /\ fails' = 0
    /\ auth' = "none"
    /\ cfg' = "started"
    /\ UNCHANGED <<config, state, locks, client, sockets, session, fresh, ipc>>

StartReturn ==
    /\ cfg = "started"
    /\ state' = "RUNNING"
    /\ mutex' = "free"
    /\ cfg' = "idle"
    /\ UNCHANGED <<config, threadRunning, stopEvent, ldnMutex, client, sockets,
                   session, fresh, runVars, ipc>>

\* Mutant: the stop is published and the thread is not told.
StopClaim_NoSignal ==
    /\ cfg = "idle"
    /\ mutex = "free"
    /\ state = "RUNNING"
    /\ state' = "STOPPED"
    /\ cfg' = "joining"
    /\ UNCHANGED <<config, threadRunning, stopEvent, locks, client, sockets,
                   session, fresh, runVars, ipc>>

\* Stop holds m_mutex only for this step.
StopClaim ==
    /\ cfg = "idle"
    /\ mutex = "free"
    /\ state = "RUNNING"
    /\ state' = "STOPPED"
    /\ threadRunning' = FALSE
    /\ stopEvent' = TRUE
    /\ cfg' = "joining"
    /\ UNCHANGED <<config, locks, client, sockets, session, fresh, runVars, ipc>>

\* Mutant: the teardown goes on without waiting for the thread.
StopJoin_NoWait ==
    /\ cfg = "joining"
    /\ run' = IF run = "exited" THEN "none" ELSE run
    /\ cfg' = "closing"
    /\ UNCHANGED <<config, flags, locks, client, sockets, session, fresh,
                   fails, auth, ipc>>

\* WaitThread and DestroyThread.
StopJoin ==
    /\ cfg = "joining"
    /\ run = "exited"
    /\ run' = "none"
    /\ cfg' = "closing"
    /\ UNCHANGED <<config, flags, locks, client, sockets, session, fresh,
                   fails, auth, ipc>>

\* slpClientClose, outside the lock.
StopClose ==
    /\ cfg = "closing"
    /\ sockets' = Closing(client.fd)
    /\ client' = [client EXCEPT !.fd = NoFd]
    /\ cfg' = "idle"
    /\ UNCHANGED <<config, flags, locks, session, fresh, runVars, ipc>>

-----------------------------------------------------------------------------
(* The run loop.                                                           *)

RunExit ==
    /\ run = "top"
    /\ ~threadRunning
    /\ run' = "exited"
    /\ UNCHANGED <<config, flags, locks, client, sockets, cfgVars, fails, auth,
                   ipc>>

\* No keepalive is due.
RunContinue ==
    /\ run = "top"
    /\ threadRunning
    /\ run' = "tick"
    /\ UNCHANGED <<config, flags, locks, client, sockets, cfgVars, fails, auth,
                   ipc>>

KeepaliveSent ==
    /\ run = "top"
    /\ threadRunning
    /\ client.fd \in Open
    /\ fails' = 0
    /\ run' = "tick"
    /\ UNCHANGED <<config, flags, locks, client, sockets, cfgVars, auth, ipc>>

\* Mutant: the count of failures is not started again after the third.
KeepaliveFailed_NoReset ==
    /\ run = "top"
    /\ threadRunning
    /\ fails' = fails + 1
    /\ run' = "tick"
    /\ UNCHANGED <<config, flags, locks, client, sockets, cfgVars, auth, ipc>>

\* A failure, short of the third or with no socket to be had for a reopen.
KeepaliveFailed ==
    /\ run = "top"
    /\ threadRunning
    /\ fails' = (fails + 1) % MaxFails
    /\ run' = "tick"
    /\ UNCHANGED <<config, flags, locks, client, sockets, cfgVars, auth, ipc>>

\* Mutant: the old socket is forgotten.
Reopen_NoClose ==
    /\ run = "top"
    /\ threadRunning
    /\ fails + 1 = MaxFails
    /\ \E f \in Free :
        /\ sockets' = [sockets EXCEPT ![f] = "relay"]
        /\ client' = [client EXCEPT !.fd = f]
    /\ fails' = 0
    /\ run' = "tick"
    /\ UNCHANGED <<config, flags, locks, cfgVars, auth, ipc>>

\* The third failure: a new bound socket takes the place of the old one.
Reopen ==
    /\ run = "top"
    /\ threadRunning
    /\ fails + 1 = MaxFails
    /\ \E f \in Free :
        /\ sockets' = [Closing(client.fd) EXCEPT ![f] = "relay"]
        /\ client' = [client EXCEPT !.fd = f]
    /\ fails' = 0
    /\ run' = "tick"
    /\ UNCHANGED <<config, flags, locks, cfgVars, auth, ipc>>

\* LdnControl::Tick, which takes the LDN mutex; a beacon may be due.
Tick ==
    /\ run = "tick"
    /\ ldnMutex = "free"
    /\ \/ run' = "recv" /\ UNCHANGED ldnMutex
       \/ run' = "beacon" /\ ldnMutex' = "run"
    /\ UNCHANGED <<config, flags, mutex, client, sockets, cfgVars, fails, auth,
                   ipc>>

\* SendFrame on the run loop, from Tick or from a control frame's handler:
\* GetState under the LDN mutex, then tun::Send.
RunSendFrame ==
    /\ run \in {"beacon", "reply"}
    /\ mutex = "free"
    /\ ldnMutex' = "free"
    /\ run' = IF run = "beacon" THEN "recv" ELSE "check"
    /\ UNCHANGED <<config, flags, mutex, client, sockets, cfgVars, fails, auth,
                   ipc>>

\* Nothing within the receive timeout, or a frame that takes no lock.
RecvPlain ==
    /\ run = "recv"
    /\ run' = "check"
    /\ UNCHANGED <<config, flags, locks, client, sockets, cfgVars, fails, auth,
                   ipc>>

\* The echo of Start's ping goes round the loop past the stop event.
RecvPing ==
    /\ run = "recv"
    /\ client.fd \in Open
    /\ run' = "top"
    /\ UNCHANGED <<config, flags, locks, client, sockets, cfgVars, fails, auth,
                   ipc>>

\* A challenge is answered when the client holds a login.
HandleAuthMe ==
    /\ run = "recv"
    /\ client.fd \in Open
    /\ auth' = IF client.creds THEN "answered" ELSE "refused"
    /\ run' = "top"
    /\ UNCHANGED <<config, flags, locks, client, sockets, cfgVars, fails, ipc>>

\* A control frame, which OnControlFrame handles under the LDN mutex; the
\* handler may answer.
RecvControl ==
    /\ run = "recv"
    /\ client.fd \in Open
    /\ run' = "control"
    /\ UNCHANGED <<config, flags, locks, client, sockets, cfgVars, fails, auth,
                   ipc>>

OnControlFrame ==
    /\ run = "control"
    /\ ldnMutex = "free"
    /\ \/ run' = "check" /\ UNCHANGED ldnMutex
       \/ run' = "reply" /\ ldnMutex' = "run"
    /\ UNCHANGED <<config, flags, mutex, client, sockets, cfgVars, fails, auth,
                   ipc>>

CheckStop ==
    /\ run = "check"
    /\ run' = IF stopEvent THEN "exited" ELSE "top"
    /\ UNCHANGED <<config, flags, locks, client, sockets, cfgVars, fails, auth,
                   ipc>>

-----------------------------------------------------------------------------
(* The MITM thread, in a game call that sends a datagram.                  *)

\* An ldn:u call holds the LDN mutex while it sends; a bsd:u call has
\* released the socket manager's by then.
IpcEnter ==
    /\ ipc.pc = "idle"
    /\ \/ ldnMutex = "free" /\ ldnMutex' = "ipc"
       \/ UNCHANGED ldnMutex
    /\ ipc' = [ipc EXCEPT !.pc = "check"]
    /\ UNCHANGED <<config, flags, mutex, client, sockets, cfgVars, runVars>>

IpcReturn ==
    /\ ipc' = [pc |-> "idle", fd |-> NoFd]
    /\ ldnMutex' = IF ldnMutex = "ipc" THEN "free" ELSE ldnMutex

\* tun::Send: the state, under m_mutex ...
SendCheckState ==
    /\ ipc.pc = "check"
    /\ mutex = "free"
    /\ IF state = "RUNNING"
       THEN ipc' = [ipc EXCEPT !.pc = "fd"] /\ UNCHANGED ldnMutex
       ELSE IpcReturn
    /\ UNCHANGED <<config, flags, mutex, client, sockets, cfgVars, runVars>>

\* ... the descriptor, without it ...
SendCheckFd ==
    /\ ipc.pc = "fd"
    /\ IF client.fd >= 0
       THEN ipc' = [ipc EXCEPT !.pc = "load"] /\ UNCHANGED ldnMutex
       ELSE IpcReturn
    /\ UNCHANGED <<config, flags, mutex, client, sockets, cfgVars, runVars>>

\* ... and in slpClientSendRaw the descriptor again, handed to sendto.
SendLoadFd ==
    /\ ipc.pc = "load"
    /\ ipc' = [pc |-> "send", fd |-> client.fd]
    /\ UNCHANGED <<config, flags, locks, client, sockets, cfgVars, runVars>>

SendTo ==
    /\ ipc.pc = "send"
    /\ IpcReturn
    /\ UNCHANGED <<config, flags, mutex, client, sockets, cfgVars, runVars>>

-----------------------------------------------------------------------------
CfgStep ==
    \/ SetCredentials \/ Resolve \/ OpenFails \/ OpenWipe \/ OpenStore
    \/ ThreadFails \/ StartThread \/ StartReturn
    \/ StopJoin \/ StopClose

RunStep ==
    \/ RunExit \/ RunContinue \/ KeepaliveSent \/ KeepaliveFailed \/ Reopen
    \/ Tick \/ RunSendFrame
    \/ RecvPlain \/ RecvPing \/ HandleAuthMe \/ RecvControl
    \/ OnControlFrame
    \/ CheckStop

IpcStep == SendCheckState \/ SendCheckFd \/ SendLoadFd \/ SendTo

Next ==
    \/ \E n \in 0 .. MaxServers : ReloadServers(n)
    \/ \E index \in -1 .. (MaxServers - 1) : SelectServer(index)
    \/ StartEnter
    \/ StopClaim
    \/ CfgStep
    \/ RunStep
    \/ IpcEnter
    \/ IpcStep

Spec == Init /\ [][Next]_vars

\* A thread that can go on does: the scheduler is fair, recv has a timeout,
\* and a mutex is handed to its waiter when it is released, which is why the
\* run loop is not passed over for ever while game calls take the LDN mutex.
FairSpec ==
    /\ Spec
    /\ WF_vars(CfgStep)
    /\ WF_vars(IpcStep)
    /\ WF_vars(RunStep)
    /\ SF_vars(Tick)
    /\ SF_vars(OnControlFrame)

-----------------------------------------------------------------------------
(* Properties.                                                             *)

\* Type invariant of Runtime's fields, the client, the descriptor table and
\* where the three threads are.
TypeOK ==
    /\ login \in [ServerIndex -> BOOLEAN]
    /\ count \in 0 .. MaxServers
    /\ sel \in -1 .. (MaxServers - 1)
    /\ state \in {"STOPPED", "RUNNING"}
    /\ mutex \in {"free", "cfg"}
    /\ ldnMutex \in {"free", "run", "ipc"}
    /\ threadRunning \in BOOLEAN
    /\ stopEvent \in BOOLEAN
    /\ client \in [fd : Fds \cup {NoFd, WipedFd}, creds : BOOLEAN]
    /\ sockets \in [Fds -> {"closed", "dns", "relay"}]
    /\ session \in BOOLEAN
    /\ cfg \in CfgPc
    /\ fresh \in Fds \cup {NoFd}
    /\ run \in RunPc
    /\ fails \in 0 .. (MaxFails - 1)
    /\ auth \in {"none", "answered", "refused"}
    /\ ipc \in [pc : IpcPc, fd : Fds \cup {NoFd, WipedFd}]

\* While the run loop is alive, the descriptor it polls, answers on and sends
\* keepalives on without holding m_mutex is an open socket to the relay:
\* Stop joins before it closes, and slpClientReopen closes the old socket
\* only once it has the new one.
RunSocketOpen ==
    run \notin {"none", "exited"} =>
        client.fd \in Fds /\ sockets[client.fd] = "relay"

\* A session gives back what it took: when Start or Stop has returned with
\* the runtime stopped, whichever of Start's steps failed, no thread is left
\* and no descriptor is open.
StoppedIsClean ==
    cfg = "idle" /\ state = "STOPPED" =>
        run = "none" /\ Open = {} /\ client.fd = NoFd

\* No descriptor is lost while a session is up: the process has open what the
\* client holds and what a Start is working with, through any number of
\* reconnects.
NoSocketLost == Open \subseteq {client.fd, fresh}

\* Stop returns to the overlay, which is blocked in the call, whatever the
\* game and the relay are doing.
StopReturns == cfg = "joining" ~> cfg = "idle"

\* "Apply this server's login BEFORE opening": a challenge from a relay whose
\* entry has a login is answered.
LoginAnswered == auth = "refused" => ~session

=============================================================================
