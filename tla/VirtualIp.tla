------------------------------ MODULE VirtualIp ------------------------------
(***************************************************************************)
(* The console's address in the virtual subnet.  Runtime::GetVirtualIp     *)
(* reads it from a file, or draws it at random and writes the file; before *)
(* the network is up it falls back to a fixed address.  It is called in    *)
(* three places that keep what they got: the tunnel and LDN at boot, the   *)
(* runtime and the tunnel again in Start, LDN again when a game opens      *)
(* ldn:u.  No lock covers it, and each of its file operations may fail or  *)
(* be the last before a power loss.                                        *)
(*                                                                         *)
(* Nothing in the code depends on the history variable fault: it records   *)
(* what the properties take as their premise.                              *)
(***************************************************************************)
EXTENDS Sequences

CONSTANTS
    Ip,             \* addresses that may be drawn
    Default,        \* DefaultVirtualIp
    NoFile, Blank   \* no file; a file without an address

ASSUME IpAssumption ==
    /\ Ip \cap {Default, NoFile, Blank} = {}
    /\ NoFile # Blank

VARIABLES
    file,       \* SLPCFG_VIRTUAL_ID_PATH
    nifm,       \* nifm answers
    pc, drawn,  \* of each thread, in GetVirtualIp
    todo,       \* the holders it still has to call it for
    addr,       \* m_ip, g_local_ip and m_ipv4_address
    running,    \* the relay is started
    opened,     \* a game has opened ldn:u
    fault       \* history: what went wrong since the console was switched on

vars == <<file, nifm, pc, drawn, todo, addr, running, opened, fault>>

\* The address was in the file and could not be read; it could not be stored;
\* Start or a game came before the network and found no file; Start and a game
\* were in GetVirtualIp together.
Fault == {"read", "write", "net", "race"}

Thread == {"main", "cfg", "mitm"}
Holder == {"runtime", "tunnel", "ldn"}

\* main(): tun::Init, then LdnControl::Initialize.
BootPc == [t \in Thread |-> IF t = "main" THEN "read" ELSE "idle"]
BootTodo == [t \in Thread |-> IF t = "main" THEN <<"tunnel", "ldn">> ELSE <<>>]

Init ==
    /\ file = NoFile
    /\ pc = BootPc
    /\ todo = BootTodo
    /\ drawn = [t \in Thread |-> Default]
    /\ addr = [h \in Holder |-> Default]
    /\ nifm = FALSE
    /\ running = FALSE
    /\ opened = FALSE
    /\ fault = {}

-----------------------------------------------------------------------------
(* GetVirtualIp.                                                           *)

\* The caller puts the address into its copy (RefreshLocalIp, and the others
\* alike), and goes on to its next call.
Return(t, ip) ==
    /\ addr' = [addr EXCEPT ![Head(todo[t])] = ip]
    /\ todo' = [todo EXCEPT ![t] = Tail(@)]
    /\ pc' = [pc EXCEPT ![t] = IF Tail(todo[t]) = <<>> THEN "idle" ELSE "read"]

Goto(t, label) == pc' = [pc EXCEPT ![t] = label] /\ UNCHANGED <<todo, addr>>

\* Mutant: the file is not read.
ReadPersistedVirtualOctets_Never(t) ==
    /\ pc[t] = "read"
    /\ Goto(t, "nifm")
    /\ UNCHANGED <<file, nifm, drawn, running, opened, fault>>

ReadPersistedVirtualOctets(t) ==
    /\ pc[t] = "read"
    /\ \/ file \in Ip /\ Return(t, file) /\ UNCHANGED fault
       \/ file \notin Ip /\ Goto(t, "nifm") /\ UNCHANGED fault
       \/ /\ file \in Ip
          /\ Goto(t, "nifm")
          /\ fault' = fault \cup {"read"}
    /\ UNCHANGED <<file, nifm, drawn, running, opened>>

\* Mutant: the fallback is written to the file, too.
GenerateVirtualOctets_Fallback(t) ==
    /\ pc[t] = "nifm"
    /\ \E ip \in IF nifm THEN Ip ELSE {Default} :
        drawn' = [drawn EXCEPT ![t] = ip]
    /\ Goto(t, "delete")
    /\ UNCHANGED <<file, nifm, running, opened, fault>>

GenerateVirtualOctets(t) ==
    /\ pc[t] = "nifm"
    /\ IF nifm
       THEN /\ \E ip \in Ip : drawn' = [drawn EXCEPT ![t] = ip]
            /\ Goto(t, "delete")
            /\ UNCHANGED fault
       ELSE /\ Return(t, Default)
            /\ fault' = fault \cup (IF t = "main" THEN {} ELSE {"net"})
            /\ UNCHANGED drawn
    /\ UNCHANGED <<file, nifm, running, opened>>

\* PersistVirtualOctets, one file operation at a time.  A failed one leaves the
\* file as it is, and the address that was drawn is returned all the same.
FsFails == fault' = fault \cup {"write"} /\ UNCHANGED file

DeleteFile(t) ==
    /\ pc[t] = "delete"
    /\ \/ file' = NoFile /\ UNCHANGED fault
       \/ FsFails
    /\ Goto(t, "create")
    /\ UNCHANGED <<nifm, drawn, running, opened>>

CreateFile(t) ==
    /\ pc[t] = "create"
    /\ \/ /\ file = NoFile
          /\ file' = Blank
          /\ Goto(t, "write")
          /\ UNCHANGED fault
       \/ FsFails /\ Return(t, drawn[t])
    /\ UNCHANGED <<nifm, drawn, running, opened>>

WriteFile(t) ==
    /\ pc[t] = "write"
    /\ \/ file # NoFile /\ file' = drawn[t] /\ UNCHANGED fault
       \/ FsFails
    /\ Return(t, drawn[t])
    /\ UNCHANGED <<nifm, drawn, running, opened>>

GetVirtualIp(t) ==
    \/ ReadPersistedVirtualOctets(t)
    \/ GenerateVirtualOctets(t)
    \/ DeleteFile(t) \/ CreateFile(t) \/ WriteFile(t)

-----------------------------------------------------------------------------
(* Its callers.                                                            *)

\* The services are registered when main is done with its calls.
MayCall(t) ==
    /\ pc["main"] = "idle"
    /\ pc[t] = "idle"

\* A thread begins its calls of GetVirtualIp, one for each holder in turn.
Call(t, holders) ==
    /\ todo' = [todo EXCEPT ![t] = holders]
    /\ pc' = [pc EXCEPT ![t] = "read"]
    /\ fault' = fault \cup
           (IF \E u \in Thread : pc[u] # "idle" THEN {"race"} ELSE {})
    /\ UNCHANGED <<file, nifm, drawn, addr>>

\* Mutant: the tunnel is not refreshed.
Start_NoRefresh ==
    /\ MayCall("cfg")
    /\ ~running
    /\ running' = TRUE
    /\ Call("cfg", <<"runtime">>)
    /\ UNCHANGED opened

\* Start asks for itself, then RefreshLocalIp asks for the tunnel.
Start ==
    /\ MayCall("cfg")
    /\ ~running
    /\ running' = TRUE
    /\ Call("cfg", <<"runtime", "tunnel">>)
    /\ UNCHANGED opened

Stop ==
    /\ pc["cfg"] = "idle"
    /\ running
    /\ running' = FALSE
    /\ UNCHANGED <<file, nifm, pc, drawn, todo, addr, opened, fault>>

Initialize ==
    /\ MayCall("mitm")
    /\ opened' = TRUE
    /\ Call("mitm", <<"ldn">>)
    /\ UNCHANGED running

Finalize ==
    /\ pc["mitm"] = "idle"
    /\ opened
    /\ opened' = FALSE
    /\ UNCHANGED <<file, nifm, pc, drawn, todo, addr, running, fault>>

Network ==
    /\ nifm' = ~nifm
    /\ UNCHANGED <<file, pc, drawn, todo, addr, running, opened, fault>>

\* A power loss or a restart: only the file survives.
Reboot ==
    /\ pc' = BootPc
    /\ todo' = BootTodo
    /\ drawn' = [t \in Thread |-> Default]
    /\ addr' = [h \in Holder |-> Default]
    /\ nifm' = FALSE
    /\ running' = FALSE
    /\ opened' = FALSE
    /\ fault' = {}
    /\ UNCHANGED file

Next ==
    \/ \E t \in Thread : GetVirtualIp(t)
    \/ Start \/ Stop \/ Initialize \/ Finalize
    \/ Network \/ Reboot

Spec == Init /\ [][Next]_vars

-----------------------------------------------------------------------------
(* Properties.                                                             *)

\* Type invariant; the fallback address is never in the file.
TypeOK ==
    /\ file \in Ip \cup {NoFile, Blank}
    /\ nifm \in BOOLEAN
    /\ pc \in [Thread ->
                {"idle", "read", "nifm", "delete", "create", "write"}]
    /\ drawn \in [Thread -> Ip \cup {Default}]
    /\ todo \in [Thread -> Seq(Holder)]
    /\ addr \in [Holder -> Ip \cup {Default}]
    /\ running \in BOOLEAN
    /\ opened \in BOOLEAN
    /\ fault \subseteq Fault

\* Every call so far read what is in the file, and was alone.
Trusted == fault \cap {"read", "race"} = {}

\* "Drawn once at random and kept forever so it survives reboots": an address
\* in the file is never replaced, removed or spoilt, through operations on the
\* file that fail and power losses at any point, unless it could not be read
\* or two calls of GetVirtualIp overlapped.
KeptForever ==
    [][(Trusted /\ file \in Ip) => (file' = file)]_vars

\* While the relay runs and a game has ldn:u open, peers see one console: LDN
\* advertises the address the tunnel sends from, which is the one the overlay
\* shows ("The console therefore had TWO identities").  The premise fault = {}
\* leaves out what the code has no answer to since the console was switched on:
\* an address that could not be read or stored, a Start or a game that came
\* before the network and found no file, and two calls that overlapped.  What
\* is left is the fallback that the boot calls return before the network.
OneIdentity ==
    /\ fault = {}
    /\ running /\ opened
    /\ \A t \in Thread : pc[t] = "idle"
    => addr["ldn"] = addr["tunnel"] /\ addr["tunnel"] = addr["runtime"]

=============================================================================
