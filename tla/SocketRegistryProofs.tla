------------------------ MODULE SocketRegistryProofs ------------------------
(* Proofs about SocketRegistry, for any players, clients and number of        *)
(* sockets.                                                                   *)
EXTENDS SocketRegistry, TLAPS

(* The stages of a call that has a socket nobody keeps yet.                   *)
Loose == {"bind", "address", "connect", "keep"}

(* The call under way is for an owner who keeps nothing yet, with a socket    *)
(* nobody keeps, until it is kept.                                            *)
CallOK ==
  /\ pc \in Loose \cup {"create"} => KeptBy(owner) = 0
  /\ pc \in Loose => sock \in data /\ \A o \in Owners : KeptBy(o) # sock
  /\ pc = "attach" => owner \in Uids /\ m_IoDataMap[owner] = sock
  /\ owner \in tried \cup {NoOwner}
  /\ \A o \in Owners : KeptBy(o) # 0 => o \in tried

(* No socket has two owners, and each player's has its data.                  *)
KeptOK ==
  /\ \A o, q \in Owners : o # q /\ KeptBy(o) # 0 => KeptBy(o) # KeptBy(q)
  /\ \A u \in Registered : m_IoDataMap[u] \in data

(* The sockets marked are those of the players whose call is over, and each   *)
(* of them was offered once, no other ever.                                   *)
Marked == {m_IoDataMap[u] : u \in {v \in Registered : pc = "attach" => v # owner}}
OfferOK ==
  /\ RegState = Marked
  /\ offered = [s \in Sockets |-> IF s \in RegState THEN 1 ELSE 0]

IInv == TypeOK /\ SocketsAccounted /\ CallOK /\ KeptOK /\ OfferOK

LEMMA InitEstablishes == Init => IInv
  BY RegistryAssumption
  DEF Init, IInv, TypeOK, SocketsAccounted, CallOK, KeptOK, OfferOK, Loose, Marked, Registered,
      KeptBy, Owners

(* Facts about the state before a step that every action's proof uses.        *)
LEMMA KeptTypes ==
  ASSUME IInv
  PROVE  /\ \A o \in Owners : KeptBy(o) \in 0 .. created
         /\ \A u \in Uids : u \in Owners /\ KeptBy(u) = m_IoDataMap[u]
         /\ \A o \in Owners : KeptBy(o) # 0 => KeptBy(o) \in open
         /\ NoOwner \notin Owners
  BY RegistryAssumption DEF IInv, TypeOK, SocketsAccounted, KeptBy, Owners

(* A step that neither registers anybody nor ends the call of a player.       *)
Quiet == UNCHANGED <<tables, port>>

LEMMA QuietKept ==
  ASSUME Quiet
  PROVE  /\ \A o : KeptBy(o)' = KeptBy(o)
         /\ Registered' = Registered
  BY DEF Quiet, tables, KeptBy, Registered

LEMMA BeginKeeps == ASSUME IInv, Begin PROVE IInv'
<1>1. PICK o \in Owners \ tried : owner' = o /\ tried' = tried \cup {o}
  BY DEF Begin
<1>2. /\ pc = "idle" /\ pc' = "create"
      /\ UNCHANGED <<created, open, data, sock, m_IoDataMap, m_socket, RegState, offered, attached>>
  BY DEF Begin, heap, tables, port
<1>3. Quiet
  BY <1>2 DEF Quiet, tables, port
<1> USE QuietKept, KeptTypes
<1>4. TypeOK'
  BY <1>1, <1>2 DEF IInv, TypeOK
<1>5. SocketsAccounted'
  BY <1>2, <1>3 DEF IInv, SocketsAccounted
<1>6. CallOK'
  BY <1>1, <1>2, <1>3 DEF IInv, CallOK, Loose
<1>7. KeptOK'
  BY <1>2, <1>3 DEF IInv, KeptOK
<1>8. OfferOK'
  BY <1>2, <1>3 DEF IInv, OfferOK, Marked
<1>9. QED
  BY <1>4, <1>5, <1>6, <1>7, <1>8 DEF IInv

LEMMA CreateKeeps == ASSUME IInv, Create PROVE IInv'
<1>0. /\ pc = "create" /\ Quiet /\ UNCHANGED tried
      /\ created \in Nat /\ created < MaxSockets
  BY RegistryAssumption DEF Create, Quiet, IInv, TypeOK
<1>1. CASE /\ created' = created + 1 /\ open' = open \cup {created + 1}
           /\ data' = data \cup {created + 1} /\ sock' = created + 1
           /\ pc' = "bind" /\ UNCHANGED owner
  <2> USE QuietKept, KeptTypes, <1>0, <1>1
  <2>1. TypeOK'
    BY RegistryAssumption DEF IInv, TypeOK, Quiet, tables, port, Sockets
  <2>2. SocketsAccounted'
    <3>1. sock = 0
      BY DEF IInv, TypeOK
    <3>2. open = {KeptBy(o) : o \in Owners} \ {0}
      BY <3>1 DEF IInv, SocketsAccounted
    <3>3. QED
      BY <3>2 DEF SocketsAccounted
  <2>3. CallOK'
    BY DEF IInv, CallOK, Loose, TypeOK
  <2>4. KeptOK' /\ OfferOK'
    BY DEF IInv, KeptOK, OfferOK, Marked, Quiet, tables, port
  <2>5. QED
    BY <2>1, <2>2, <2>3, <2>4 DEF IInv
<1>2. CASE Return /\ UNCHANGED <<created, heap>>
  <2> USE QuietKept, KeptTypes, <1>0, <1>2
  <2>1. TypeOK'
    BY DEF IInv, TypeOK, Return, heap, Quiet, tables, port
  <2>2. SocketsAccounted'
    BY DEF IInv, SocketsAccounted, TypeOK, Return, heap
  <2>3. CallOK'
    BY DEF IInv, CallOK, Loose, Return
  <2>4. KeptOK' /\ OfferOK'
    BY DEF IInv, KeptOK, OfferOK, Marked, Return, heap, Quiet, tables, port
  <2>5. QED
    BY <2>1, <2>2, <2>3, <2>4 DEF IInv
<1>3. QED
  BY <1>1, <1>2 DEF Create

(* The socket that is closed is nobody's.                                     *)
LEMMA ProceedKeeps ==
  ASSUME IInv, NEW from \in Loose, NEW to \in Loose, Proceed(from, to)
  PROVE  IInv'
<1>0. pc = from /\ Quiet /\ UNCHANGED <<created, data, tried>>
  BY DEF Proceed, Fail, Quiet, heap
<1>1. CASE pc' = to /\ UNCHANGED <<open, owner, sock>>
  <2> USE QuietKept, KeptTypes, <1>0, <1>1
  <2>1. TypeOK'
    BY DEF IInv, TypeOK, Loose, Quiet, tables, port
  <2>2. SocketsAccounted'
    BY DEF IInv, SocketsAccounted
  <2>3. CallOK'
    BY DEF IInv, CallOK, Loose
  <2>4. KeptOK' /\ OfferOK'
    BY DEF IInv, KeptOK, OfferOK, Marked, Loose, Quiet, tables, port
  <2>5. QED
    BY <2>1, <2>2, <2>3, <2>4 DEF IInv
<1>2. CASE Fail
  <2> USE QuietKept, KeptTypes, <1>0, <1>2
  <2>1. TypeOK'
    BY DEF IInv, TypeOK, Fail, Return, Quiet, tables, port
  <2>2. SocketsAccounted'
    BY DEF IInv, SocketsAccounted, CallOK, Fail, Return
  <2>3. CallOK'
    BY DEF IInv, CallOK, Loose, Fail, Return
  <2>4. KeptOK' /\ OfferOK'
    BY DEF IInv, KeptOK, OfferOK, Marked, Loose, Fail, Return, Quiet, tables, port
  <2>5. QED
    BY <2>1, <2>2, <2>3, <2>4 DEF IInv
<1>3. QED
  BY <1>1, <1>2 DEF Proceed, heap

(* The socket of the call becomes its owner's; the others keep theirs.        *)
LEMMA KeepClientKeeps == ASSUME IInv, KeepClient PROVE IInv'
<1>1. /\ pc = "keep" /\ owner \in Clients
      /\ m_socket' = [m_socket EXCEPT ![owner] = sock] /\ data' = data \ {sock}
      /\ pc' = "idle" /\ owner' = NoOwner /\ sock' = 0
      /\ UNCHANGED <<created, open, m_IoDataMap, RegState, offered, attached, tried>>
  BY DEF KeepClient, Return, port
<1>2. /\ owner \in Owners /\ owner \notin Uids
      /\ sock \in data /\ sock \in 1 .. created
      /\ \A o \in Owners : KeptBy(o) # sock
  BY <1>1, RegistryAssumption DEF IInv, CallOK, Loose, TypeOK, Owners
<1>3. \A o \in Owners : KeptBy(o)' = IF o = owner THEN sock ELSE KeptBy(o)
  BY <1>1, <1>2 DEF KeptBy, Owners, IInv, TypeOK
<1>4. Registered' = Registered
  BY <1>1 DEF Registered
<1> USE KeptTypes
<1>5. TypeOK'
  BY <1>1, <1>2 DEF IInv, TypeOK
<1>6. SocketsAccounted'
  <2>1. KeptBy(owner) = 0
    BY <1>1 DEF IInv, CallOK, Loose
  <2>2. \A s : s \in {KeptBy(o)' : o \in Owners} \ {0}
               <=> s \in ({KeptBy(o) : o \in Owners} \cup {sock}) \ {0}
    BY <1>2, <1>3, <2>1
  <2>3. QED
    BY <1>1, <2>2 DEF IInv, SocketsAccounted
<1>7. CallOK'
  BY <1>1, <1>2, <1>3 DEF IInv, CallOK, Loose
<1>8. KeptOK'
  <2>1. \A o, q \in Owners : o # q /\ KeptBy(o)' # 0 => KeptBy(o)' # KeptBy(q)'
    BY <1>1, <1>2, <1>3 DEF IInv, KeptOK
  <2>2. \A u \in Registered : m_IoDataMap[u] \in data \ {sock}
    BY <1>2 DEF IInv, KeptOK, Registered
  <2>3. QED
    BY <1>1, <1>4, <2>1, <2>2 DEF KeptOK
<1>9. OfferOK'
  <2>1. Marked' = Marked
    BY <1>1, <1>4 DEF Marked
  <2>2. QED
    BY <1>1, <2>1 DEF IInv, OfferOK
<1>10. QED
  BY <1>5, <1>6, <1>7, <1>8, <1>9 DEF IInv

LEMMA KeepPlayerKeeps == ASSUME IInv, KeepPlayer PROVE IInv'
<1>1. /\ pc = "keep" /\ owner \in Uids
      /\ m_IoDataMap' = [m_IoDataMap EXCEPT ![owner] = sock]
      /\ pc' = "attach"
      /\ UNCHANGED <<created, open, data, m_socket, RegState, offered, attached, owner, sock, tried>>
  BY DEF KeepPlayer, heap, port
<1>2. /\ owner \in Owners /\ KeptBy(owner) = 0 /\ m_IoDataMap[owner] = 0
      /\ sock \in data /\ sock \in 1 .. created
      /\ \A o \in Owners : KeptBy(o) # sock
  BY <1>1 DEF IInv, CallOK, Loose, TypeOK, Owners, KeptBy
<1>3. \A o \in Owners : KeptBy(o)' = IF o = owner THEN sock ELSE KeptBy(o)
  BY <1>1, <1>2 DEF KeptBy, Owners, IInv, TypeOK
<1>4. Registered' = Registered \cup {owner}
  BY <1>1, <1>2 DEF Registered, IInv, TypeOK
<1> USE KeptTypes
<1>5. TypeOK'
  BY <1>1, <1>2 DEF IInv, TypeOK
<1>6. SocketsAccounted'
  <2>1. \A s : s \in ({KeptBy(o)' : o \in Owners} \cup {sock}) \ {0}
               <=> s \in ({KeptBy(o) : o \in Owners} \cup {sock}) \ {0}
    BY <1>2, <1>3
  <2>2. QED
    BY <1>1, <2>1 DEF IInv, SocketsAccounted
<1>7. CallOK'
  BY <1>1, <1>2, <1>3 DEF IInv, CallOK, Loose, TypeOK
<1>8. KeptOK'
  <2>1. \A o, q \in Owners : o # q /\ KeptBy(o)' # 0 => KeptBy(o)' # KeptBy(q)'
    BY <1>1, <1>2, <1>3 DEF IInv, KeptOK
  <2>2. \A u \in Registered' : m_IoDataMap'[u] \in data
    BY <1>1, <1>2, <1>4 DEF IInv, KeptOK, Registered, TypeOK
  <2>3. QED
    BY <1>1, <2>1, <2>2 DEF KeptOK
<1>9. OfferOK'
  <2>1. owner \notin Registered
    BY <1>2 DEF Registered
  <2>2. \A u \in Registered : m_IoDataMap'[u] = m_IoDataMap[u]
    BY <1>1, <2>1 DEF Registered, IInv, TypeOK
  <2>3. Marked' = {m_IoDataMap'[u] : u \in Registered}
    BY <1>1, <1>4, <2>1 DEF Marked
  <2>4. Marked = {m_IoDataMap[u] : u \in Registered}
    BY <1>1 DEF Marked
  <2>5. Marked' = Marked
    BY <2>2, <2>3, <2>4
  <2>6. QED
    BY <1>1, <2>5 DEF IInv, OfferOK
<1>10. QED
  BY <1>5, <1>6, <1>7, <1>8, <1>9 DEF IInv

(* The one player who is not marked is the one whose call it is.              *)
LEMMA UnmarkedIsOwner ==
  ASSUME IInv, pc = "attach"
  PROVE  Unmarked \subseteq {owner}
<1> SUFFICES ASSUME NEW u \in Unmarked, u # owner PROVE FALSE
  OBVIOUS
<1>1. u \in {v \in Registered : pc = "attach" => v # owner}
  BY DEF Unmarked
<1>2. m_IoDataMap[u] \in Marked
  BY <1>1 DEF Marked
<1>3. QED
  BY <1>2 DEF Unmarked, IInv, OfferOK

(* Counting one more at a place. *)
LEMMA CountUp ==
  ASSUME NEW S, NEW f \in [S -> Nat], NEW g, NEW x \in S, g = [f EXCEPT ![x] = @ + 1]
  PROVE  /\ g \in [S -> Nat]
         /\ \A t \in S : g[t] = IF t = x THEN f[t] + 1 ELSE f[t]
  OBVIOUS

LEMMA RegIOHandleKeeps == ASSUME IInv, RegIOHandle PROVE IInv'
<1>1. PICK u \in Uids : GetHanle(u) /\ attached' \in {attached, attached \cup {m_IoDataMap[u]}}
  BY DEF RegIOHandle
<1>2. /\ pc = "attach" /\ pc' = "idle" /\ owner' = NoOwner /\ sock' = 0
      /\ UNCHANGED <<created, open, data, m_IoDataMap, m_socket, tried>>
  BY DEF RegIOHandle, Return, heap, tables
<1>3. u = owner
  BY <1>1, <1>2, UnmarkedIsOwner DEF GetHanle
<1> DEFINE s == m_IoDataMap[owner]
<1>4. /\ owner \in Registered /\ s = sock /\ s \notin RegState /\ s \in 1 .. created
      /\ RegState' = RegState \cup {s}
      /\ offered' = [offered EXCEPT ![s] = @ + 1]
  BY <1>1, <1>2, <1>3 DEF GetHanle, Unmarked, IInv, CallOK, TypeOK, Registered
<1>5. /\ \A o \in Owners : KeptBy(o)' = KeptBy(o)
      /\ Registered' = Registered
  BY <1>2 DEF KeptBy, Registered
<1>12. /\ offered' \in [Sockets -> Nat]
       /\ \A t \in Sockets : offered'[t] = IF t = s THEN offered[t] + 1 ELSE offered[t]
  <2>1. offered \in [Sockets -> Nat] /\ created \in 0 .. MaxSockets
    BY DEF IInv, TypeOK
  <2>2. s \in Sockets
    BY <1>4, <2>1, RegistryAssumption DEF Sockets
  <2>3. offered' = [offered EXCEPT ![s] = @ + 1]
    BY <1>4
  <2> HIDE DEF s
  <2>4. QED
    BY <2>1, <2>2, <2>3, CountUp
<1> USE KeptTypes
<1>6. TypeOK'
  BY <1>1, <1>2, <1>3, <1>4, <1>12 DEF IInv, TypeOK
<1>7. SocketsAccounted'
  <2>1. sock \in {KeptBy(o) : o \in Owners}
    BY <1>4 DEF Registered
  <2>2. QED
    BY <1>2, <1>5, <2>1 DEF IInv, SocketsAccounted
<1>8. CallOK'
  BY <1>2, <1>5 DEF IInv, CallOK, Loose
<1>9. KeptOK'
  BY <1>2, <1>5 DEF IInv, KeptOK
<1>10. OfferOK'
  <2>1. Marked' = Marked \cup {s}
    <3>1. Marked' = {m_IoDataMap[v] : v \in Registered}
      BY <1>2, <1>5 DEF Marked
    <3>2. Marked = {m_IoDataMap[v] : v \in Registered \ {owner}}
      BY <1>2 DEF Marked
    <3>3. QED
      BY <1>4, <3>1, <3>2
  <2>2. offered' = [t \in Sockets |-> IF t \in RegState \cup {s} THEN 1 ELSE 0]
    <3>1. offered = [t \in Sockets |-> IF t \in RegState THEN 1 ELSE 0]
      BY DEF IInv, OfferOK
    <3>2. s \notin RegState
      BY <1>4
    <3> HIDE DEF s
    <3>3. \A t \in Sockets : offered'[t] = IF t \in RegState \cup {s} THEN 1 ELSE 0
      BY <1>12, <3>1, <3>2
    <3>4. QED
      BY <1>12, <3>3
  <2>3. RegState = Marked
    BY DEF IInv, OfferOK
  <2> HIDE DEF s
  <2>4. RegState' = Marked' /\ offered' = [t \in Sockets |-> IF t \in RegState' THEN 1 ELSE 0]
    BY <1>4, <2>1, <2>2, <2>3
  <2>5. QED
    BY <2>4 DEF OfferOK
<1>11. QED
  BY <1>6, <1>7, <1>8, <1>9, <1>10 DEF IInv

(* IInv is inductive. *)
LEMMA StepKeeps == ASSUME IInv, [Next]_vars PROVE IInv'
<1>1. CASE Bind \/ InetPton \/ Connect
  <2>1. {"bind", "address", "connect", "keep"} \subseteq Loose
    BY DEF Loose
  <2>2. QED
    BY <1>1, <2>1, ProceedKeeps DEF Bind, InetPton, Connect
<1>2. CASE UNCHANGED vars
  BY <1>2 DEF vars, heap, tables, port, call, IInv, TypeOK, SocketsAccounted, CallOK, KeptOK,
     OfferOK, Marked, Loose, Registered, KeptBy
<1>3. QED
  BY <1>1, <1>2, BeginKeeps, CreateKeeps, KeepClientKeeps, KeepPlayerKeeps, RegIOHandleKeeps
  DEF Next

THEOREM Invariance == Spec => []IInv
  BY InitEstablishes, StepKeeps, PTL DEF Spec

(* The variables keep their types, for any players, clients and number of     *)
(* sockets.                                                                   *)
THEOREM TypeCorrect == Spec => []TypeOK
  BY Invariance, PTL DEF IInv

(* No socket leaks: whatever fails, an open socket is a player's, a client's  *)
(* or that of the call under way (NetService.cpp:168-206, Global.cpp:35-47,   *)
(* TestClient.cpp:21-47).                                                     *)
THEOREM NoSocketLeaks == Spec => []SocketsAccounted
  BY Invariance, PTL DEF IInv

(* A player's CreateSocketData is not deleted, and no two owners share a      *)
(* socket (NetService.cpp:195 and 204, TestClient.cpp:48).                    *)
THEOREM PlayersKeepData == Spec => []DataOwned
<1>1. ASSUME IInv PROVE DataOwned
  <2>1. \A u \in Registered : KeptBy(u) = m_IoDataMap[u] /\ m_IoDataMap[u] # 0 /\ u \in Owners
    BY DEF Registered, KeptBy, Owners
  <2>2. QED
    BY <1>1, <2>1 DEF DataOwned, IInv, KeptOK
<1>2. QED
  BY <1>1, Invariance, PTL

(* RegHandle is offered each player's own handle, exactly once, though        *)
(* GetHanle is not told whose it is to give (NetService.cpp:22-33 and 206).   *)
THEOREM OfferedExactlyOnce == Spec => []OfferedOnce
<1>1. ASSUME IInv PROVE OfferedOnce
  <2> SUFFICES ASSUME NEW u \in Uids, u \in Registered
               PROVE  offered[m_IoDataMap[u]] = (IF pc = "attach" /\ owner = u THEN 0 ELSE 1)
    BY DEF OfferedOnce
  <2>1. m_IoDataMap[u] \in Sockets /\ offered[m_IoDataMap[u]] = IF m_IoDataMap[u] \in RegState THEN 1 ELSE 0
    BY <1>1, RegistryAssumption DEF IInv, TypeOK, OfferOK, Registered, Sockets
  <2>2. CASE pc = "attach" /\ owner = u
    <3>1. \A v \in Registered : v # u => m_IoDataMap[v] # m_IoDataMap[u]
      BY <1>1 DEF IInv, KeptOK, Registered, KeptBy, Owners
    <3>2. m_IoDataMap[u] \notin Marked
      BY <2>2, <3>1 DEF Marked
    <3>3. QED
      BY <1>1, <2>1, <2>2, <3>2 DEF IInv, OfferOK
  <2>3. CASE ~ (pc = "attach" /\ owner = u)
    <3>1. m_IoDataMap[u] \in Marked
      BY <2>3 DEF Marked
    <3>2. QED
      BY <1>1, <2>1, <2>3, <3>1 DEF IInv, OfferOK
  <2>4. QED
    BY <2>2, <2>3
<1>2. QED
  BY <1>1, Invariance, PTL

(* A player whose handle the port refused keeps its open socket and is never  *)
(* offered to the port again (NetService.cpp:28 and 149).                     *)
THEOREM RefusedStaysRefused == Spec => RefusedForEver
<1>1. ASSUME IInv, [Next]_vars
      PROVE  [\A s \in RegState \ attached : s \notin attached' /\ s \in open']_vars
  <2> SUFFICES ASSUME Next, NEW s \in RegState \ attached
               PROVE  s \notin attached' /\ s \in open'
    BY <1>1
  <2>1. PICK v \in Registered : s = m_IoDataMap[v]
    BY <1>1 DEF IInv, OfferOK, Marked
  <2>2. s \in open /\ v \in Owners /\ KeptBy(v) = s
    BY <1>1, <2>1 DEF IInv, SocketsAccounted, Registered, Owners, KeptBy
  <2>3. ASSUME NEW from \in Loose, NEW to \in Loose, Proceed(from, to)
        PROVE  s \notin attached' /\ s \in open'
    <3>1. sock # s
      BY <1>1, <2>2, <2>3 DEF Proceed, IInv, CallOK
    <3>2. QED
      BY <2>2, <2>3, <3>1 DEF Proceed, Fail, heap, port
  <2>4. CASE RegIOHandle
    BY <2>2, <2>4 DEF RegIOHandle, GetHanle, Unmarked, heap
  <2>5. CASE Begin \/ Create \/ KeepClient \/ KeepPlayer
    BY <2>2, <2>5 DEF Begin, Create, KeepClient, KeepPlayer, heap, port
  <2>6. QED
    BY <2>3, <2>4, <2>5 DEF Next, Bind, InetPton, Connect, Loose
<1>2. QED
  BY <1>1, Invariance, PTL DEF Spec, RefusedForEver
=============================================================================
