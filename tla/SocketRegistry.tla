--------------------------- MODULE SocketRegistry ---------------------------
(* The sockets of the program: CreateSocket (Global.cpp), which players and   *)
(* clients share, NetService::RegesterNewSocket with its map and GetHanle,   *)
(* by which IOCPHelper::RegHandle asks for the handle to attach to the port, *)
(* and TestClient::InitClient. One thread makes these calls. Each call into  *)
(* Winsock may fail (external), and is an action with what follows it.       *)
EXTENDS Integers, FiniteSets

CONSTANTS
  Uids,        \* the players that get registered, in any order, once each
  Clients,     \* the TestClient objects that get initialised, once each
  NoOwner,     \* no call is under way
  MaxSockets   \* bound: how many sockets a behaviour creates

Sockets == 1 .. MaxSockets
Owners == Uids \cup Clients

ASSUME RegistryAssumption ==
  /\ Uids \subseteq Int
  /\ NoOwner \notin Owners
  /\ Uids \cap Clients = {}
  /\ MaxSockets \in Nat

VARIABLES
  created,      \* number of sockets created; a socket is named by its rank
  open,         \* the sockets not closed
  data,         \* sockets with a CreateSocketData that was not deleted
  m_IoDataMap,  \* the socket of each player, 0 before it is registered
  m_socket,     \* the socket of each client, 0 before InitClient
  RegState,     \* the sockets with RegState set
  offered,      \* the handles GetHanle gave to RegHandle, with their number
  attached,     \* those the port took
  pc, owner, sock,  \* the call under way: its stage, for whom, its socket
  tried         \* players and clients that were tried

heap == <<open, data>>
tables == <<m_IoDataMap, m_socket>>
port == <<RegState, offered, attached>>
call == <<pc, owner, sock>>
vars == <<created, heap, tables, port, call, tried>>

TypeOK ==
  /\ created \in 0 .. MaxSockets
  /\ open \subseteq 1 .. created
  /\ data \subseteq 1 .. created
  /\ m_IoDataMap \in [Uids -> 0 .. created]
  /\ m_socket \in [Clients -> 0 .. created]
  /\ RegState \subseteq 1 .. created
  /\ offered \in [Sockets -> Nat]
  /\ attached \subseteq 1 .. created
  /\ pc \in {"idle", "create", "bind", "address", "connect", "keep", "attach"}
  /\ owner \in Owners \cup {NoOwner}
  /\ sock \in 0 .. created
  /\ pc = "idle" <=> owner = NoOwner
  /\ pc \in {"idle", "create"} <=> sock = 0
  /\ tried \subseteq Owners

Init ==
  /\ created = 0
  /\ open = {} /\ data = {}
  /\ m_IoDataMap = [u \in Uids |-> 0]
  /\ m_socket = [c \in Clients |-> 0]
  /\ RegState = {} /\ attached = {}
  /\ offered = [s \in Sockets |-> 0]
  /\ pc = "idle" /\ owner = NoOwner /\ sock = 0
  /\ tried = {}

(* Definitions marked "Mutant" are wrong on purpose: the run must fail when   *)
(* one takes the place of the definition it is named after.                  *)
Return ==
  /\ pc' = "idle"
  /\ owner' = NoOwner
  /\ sock' = 0

-----------------------------------------------------------------------------
(* RegesterNewSocket or InitClient is called. *)
Begin ==
  /\ pc = "idle"
  /\ \E o \in Owners \ tried :
       /\ owner' = o
       /\ tried' = tried \cup {o}
  /\ pc' = "create"
  /\ UNCHANGED <<created, heap, tables, port, sock>>

(* CreateSocket: the socket is made with its CreateSocketData, or nothing is *)
(* opened; then it is bound. A CreateSocketData is never deleted on failure. *)
Create ==
  /\ pc = "create"
  /\ created < MaxSockets
  /\ \/ /\ created' = created + 1
        /\ open' = open \cup {created + 1}
        /\ data' = data \cup {created + 1}
        /\ sock' = created + 1
        /\ pc' = "bind"
        /\ UNCHANGED owner
     \/ /\ Return
        /\ UNCHANGED <<created, heap>>
  /\ UNCHANGED <<tables, port, tried>>

(* Mutant of Fail: the socket is not closed. *)
FailOpen ==
  /\ Return
  /\ UNCHANGED <<created, heap, tables, port, tried>>

(* A failure after that: the socket is closed, its CreateSocketData is not   *)
(* deleted, and the call returns.                                            *)
Fail ==
  /\ Return
  /\ open' = open \ {sock}
  /\ UNCHANGED <<created, data, tables, port, tried>>

(* A call that succeeds: bind, with the rest of CreateSocket; InetPton;      *)
(* connect.                                                                  *)
Proceed(from, to) ==
  /\ pc = from
  /\ \/ /\ pc' = to
        /\ UNCHANGED <<created, heap, tables, port, owner, sock, tried>>
     \/ Fail

Bind == Proceed("bind", "address")
InetPton == Proceed("address", "connect")
Connect == Proceed("connect", "keep")

(* The end of InitClient: m_socket, and the CreateSocketData is deleted.     *)
KeepClient ==
  /\ pc = "keep" /\ owner \in Clients
  /\ m_socket' = [m_socket EXCEPT ![owner] = sock]
  /\ data' = data \ {sock}
  /\ Return
  /\ UNCHANGED <<created, open, m_IoDataMap, port, tried>>

(* Mutant of KeepPlayer: the CreateSocketData is deleted, as InitClient does. *)
KeepPlayerDeletes ==
  /\ pc = "keep" /\ owner \in Uids
  /\ m_IoDataMap' = [m_IoDataMap EXCEPT ![owner] = sock]
  /\ data' = data \ {sock}
  /\ pc' = "attach"
  /\ UNCHANGED <<created, open, m_socket, port, owner, sock, tried>>

(* m_IoDataMap[uid] = pIodata, under the lock. *)
KeepPlayer ==
  /\ pc = "keep" /\ owner \in Uids
  /\ m_IoDataMap' = [m_IoDataMap EXCEPT ![owner] = sock]
  /\ pc' = "attach"
  /\ UNCHANGED <<created, heap, m_socket, port, owner, sock, tried>>

Registered == {u \in Uids : m_IoDataMap[u] # 0}
Unmarked == {u \in Registered : m_IoDataMap[u] \notin RegState}

(* Mutant of GetHanle: RegState is not set. *)
GetHanleUnmarked(u) ==
  /\ u \in Unmarked
  /\ \A v \in Unmarked : v <= u
  /\ offered' = [offered EXCEPT ![m_IoDataMap[u]] = @ + 1]
  /\ UNCHANGED RegState

(* GetHanle searches the players from the greatest uid down, and gives out   *)
(* the first handle that is not marked yet.                                  *)
GetHanle(u) ==
  /\ u \in Unmarked
  /\ \A v \in Unmarked : v <= u
  /\ offered' = [offered EXCEPT ![m_IoDataMap[u]] = @ + 1]
  /\ RegState' = RegState \cup {m_IoDataMap[u]}

(* RegIOHandle: RegHandle attaches that handle to the port; when the port    *)
(* refuses it, RegIOHandle and RegesterNewSocket do not notice.              *)
RegIOHandle ==
  /\ pc = "attach"
  /\ \E u \in Uids :
       /\ GetHanle(u)
       /\ attached' \in {attached, attached \cup {m_IoDataMap[u]}}
  /\ Return
  /\ UNCHANGED <<created, heap, tables, tried>>

Next ==
  \/ Begin \/ Create \/ Bind \/ InetPton \/ Connect
  \/ KeepClient \/ KeepPlayer \/ RegIOHandle

Spec == Init /\ [][Next]_vars

-----------------------------------------------------------------------------
KeptBy(o) == IF o \in Uids THEN m_IoDataMap[o] ELSE m_socket[o]

(* Whatever fails, a socket that is open is a player's, a client's, or of    *)
(* the call under way, and theirs are open (Global.cpp:35-47,                *)
(* NetService.cpp:168-206, TestClient.cpp:21-47).                            *)
SocketsAccounted ==
  open = ({KeptBy(o) : o \in Owners} \cup {sock}) \ {0}

(* The CreateSocketData a player points to is not deleted, and no socket has *)
(* two owners (NetService.cpp:195 and 204, TestClient.cpp:48).               *)
DataOwned ==
  \A u \in Registered :
    /\ m_IoDataMap[u] \in data
    /\ \A o \in Owners \ {u} : KeptBy(o) # m_IoDataMap[u]

(* Each registered player's own socket is offered to the port, once: GetHanle *)
(* is not told which one RegHandle is called for (NetService.cpp:22-33 and   *)
(* 206, IOCPHelper.cpp:73).                                                  *)
OfferedOnce ==
  \A u \in Uids :
    u \in Registered
      => offered[m_IoDataMap[u]] = (IF pc = "attach" /\ owner = u THEN 0 ELSE 1)

(* A player whose handle the port refused stays in the map, its socket open, *)
(* and is never offered again: nothing it sends or receives will be serviced *)
(* (NetService.cpp:28, 149 and 206).                                         *)
RefusedForEver ==
  [][\A s \in RegState \ attached : s \notin attached' /\ s \in open']_vars
=============================================================================
