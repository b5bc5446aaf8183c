--------------------------- MODULE TestClientProofs ---------------------------
(* Proofs about TestClient, for any number of threads, elements and messages. *)
EXTENDS TestClient, TLAPS

(* A message that is about to be recorded is new: it is nobody else's, and it *)
(* was not deleted; before operator[] no entry is named after it either.      *)
NewMessages ==
  /\ record # 0 => entry # 0
  /\ \A w \in Workers : pc[w] \in Writing =>
       /\ pBuff[w] \notin {0, record} \cup freed
       /\ \A v \in Workers : v # w /\ pc[v] \in Writing => pBuff[v] # pBuff[w]
  /\ \A w \in Workers : pc[w] = "lookup" =>
       /\ pBuff[w] # entry
       /\ \A v \in Workers : it[v] # pBuff[w]

(* Until two threads have met at the entry, each that has got it from the map *)
(* has the one that is there, and the message in it was deleted only by a     *)
(* thread that is about to erase it.                                          *)
OneDeletes ==
  /\ broken => met
  /\ Meeting => met
  /\ ~ met =>
       /\ \A w \in Workers : pc[w] \in {"assign"} \cup Deleting => it[w] = entry
       /\ record \in freed => \E w \in Workers : pc[w] = "erase"

(* Where the entry a thread is about to erase holds a message that was not    *)
(* deleted, it is that of another thread, which is still in the exchange.     *)
OtherInExchange ==
  ~ broken =>
    \A w \in Workers : pc[w] = "erase" /\ it[w] = entry /\ record \notin freed \cup {0}
      => \E v \in Workers \ {w} : pc[v] \in Reading \cup Deleting

IInv == TypeOK /\ NewMessages /\ OneDeletes /\ RecordHasOwner /\ OtherInExchange

-----------------------------------------------------------------------------
Places == {"idle", "send"} \cup Writing \cup Reading \cup Deleting

LEMMA PlacesAre ==
  /\ \A x \in {"idle", "send", "lookup", "assign", "queue", "recv", "find", "free", "erase"} :
       x \in Places
  /\ \A x \in {"idle", "send", "lookup", "assign", "queue", "recv", "find"} : x \notin Deleting
  /\ \A x \in {"idle", "send", "lookup", "assign", "free", "erase"} : x \notin Reading
  /\ \A x \in {"idle", "send", "queue", "recv", "find", "free", "erase"} : x \notin Writing
  /\ \A x \in {"idle", "send", "queue", "recv"} : x \notin Using
  /\ \A x \in {"lookup", "assign", "find", "free", "erase"} : x \in Using
  /\ "free" \in Deleting /\ "erase" \in Deleting
  /\ "lookup" \in Writing /\ "assign" \in Writing
  /\ "queue" \in Reading /\ "recv" \in Reading /\ "find" \in Reading
  BY DEF Places, Using, Writing, Reading, Deleting

(* Threads meet only where both use the entry.                                *)
LEMMA MeetingIs ==
  /\ Meeting <=> \E v, w \in Workers :
        /\ v # w /\ pc[v] \in Using
        /\ pc[w] \in Deleting \/ (pc[w] = "lookup" /\ entry = 0)
  /\ Meeting' <=> \E v, w \in Workers :
        /\ v # w /\ pc'[v] \in Using
        /\ pc'[w] \in Deleting \/ (pc'[w] = "lookup" /\ entry' = 0)
  BY DEF Meeting, Inserting

LEMMA InitEstablishes == ASSUME Init PROVE IInv
<1>1. TypeOK
  <2>1. 1 \in 1 .. MaxTasks /\ left \in [Tasks -> 0 .. Forever]
    BY ClientAssumption DEF Init
  <2>2. \A w \in Workers : pc[w] = "idle" /\ it[w] = 0 /\ running[w] = 0
    BY DEF Init
  <2>3. allocated \in 0 .. MaxBuffs /\ accepted = 1 /\ live = {1}
        /\ opt \in [Tasks -> {"REQ_CHECKUID", "REQ_RECV_CHEKCUID"}]
        /\ running \in [Workers -> 0 .. accepted]
    BY ClientAssumption DEF Init
  <2>4. /\ pBuff \in [Workers -> 0 .. allocated] /\ it \in [Workers -> 0 .. allocated]
        /\ freed \subseteq 1 .. allocated /\ entry \in 0 .. allocated /\ record \in 0 .. allocated
    BY DEF Init
  <2>5. pc \in [Workers -> Places]
    BY PlacesAre DEF Init
  <2>6. broken \in BOOLEAN /\ met \in BOOLEAN
    BY DEF Init
  <2>7. QED
    BY <2>1, <2>2, <2>3, <2>4, <2>5, <2>6, PlacesAre DEF TypeOK, Places
<1>2. \A w \in Workers : pc[w] = "idle"
  BY DEF Init
<1>3. NewMessages /\ RecordHasOwner /\ OtherInExchange
  BY <1>2, PlacesAre DEF Init, NewMessages, RecordHasOwner, OtherInExchange
<1>4. OneDeletes
  BY <1>2, PlacesAre, MeetingIs DEF Init, OneDeletes
<1>5. QED
  BY <1>1, <1>3, <1>4 DEF IInv

(* One thread takes a step. *)
LEMMA Moves ==
  ASSUME TypeOK, NEW w \in Workers, NEW to \in Places, pc' = [pc EXCEPT ![w] = to]
  PROVE  /\ pc' \in [Workers -> Places]
         /\ pc'[w] = to
         /\ \A v \in Workers \ {w} : pc'[v] = pc[v]
  BY DEF TypeOK, Places

(* A thread leaves TestFunc.                                                  *)
LEMMA Leaves ==
  ASSUME TypeOK, NEW w \in Workers, Leave(w), pc[w] # "idle"
  PROVE  /\ pc' \in [Workers -> Places] /\ pc'[w] = "idle"
         /\ \A v \in Workers \ {w} : pc'[v] = pc[v]
         /\ UNCHANGED <<accepted, live, left>>
         /\ running' \in [Workers -> 0 .. accepted']
         /\ \A v \in Workers : running'[v] = 0 <=> pc'[v] = "idle"
<1>1. /\ pc' = [pc EXCEPT ![w] = "idle"] /\ running' = [running EXCEPT ![w] = 0]
      /\ UNCHANGED <<accepted, live, left>>
  BY DEF Leave, Pool!Release
<1>2. /\ pc' \in [Workers -> Places] /\ pc'[w] = "idle"
      /\ \A v \in Workers \ {w} : pc'[v] = pc[v]
  BY <1>1, Moves, PlacesAre
<1>3. running' \in [Workers -> 0 .. accepted']
  BY <1>1 DEF TypeOK
<1>4. \A v \in Workers : running'[v] = 0 <=> pc'[v] = "idle"
  BY <1>1, <1>2 DEF TypeOK
<1>5. QED
  BY <1>1, <1>2, <1>3, <1>4

(* An element is accepted, or refused.                                        *)
LEMMA QueueTypes ==
  ASSUME TypeOK, NEW o \in {"REQ_CHECKUID", "REQ_RECV_CHEKCUID"}, Queue(o)
  PROVE  /\ accepted' \in 1 .. MaxTasks
         /\ live' \subseteq 1 .. accepted'
         /\ UNCHANGED running /\ running' \in [Workers -> 0 .. accepted']
         /\ left' \in [Tasks -> 0 .. Forever]
         /\ opt' \in [Tasks -> {"REQ_CHECKUID", "REQ_RECV_CHEKCUID"}]
<1>1. CASE UNCHANGED <<pool, opt>>
  BY <1>1 DEF TypeOK, pool
<1>2. CASE Pool!Accept /\ opt' = [opt EXCEPT ![accepted'] = o]
  <2>1. /\ accepted < MaxTasks /\ accepted' = accepted + 1
        /\ live' = live \cup {accepted + 1} /\ UNCHANGED running
    BY <1>2 DEF Pool!Accept
  <2>2. PICK n \in 1 .. Forever : left' = [left EXCEPT ![accepted + 1] = n]
    BY <1>2 DEF Pool!Accept
  <2>3. accepted' \in 1 .. MaxTasks /\ live' \subseteq 1 .. accepted'
    BY <2>1, ClientAssumption DEF TypeOK
  <2>7. running' \in [Workers -> 0 .. accepted']
    BY <2>1, ClientAssumption DEF TypeOK
  <2>4. n \in 0 .. Forever
    BY ClientAssumption
  <2>5. left' \in [Tasks -> 0 .. Forever]
    BY <2>2, <2>4 DEF TypeOK
  <2>6. QED
    BY <1>2, <2>1, <2>3, <2>5, <2>7 DEF TypeOK
<1>3. QED
  BY <1>1, <1>2 DEF Queue

(* The rest of the state does not depend on the pool.                         *)
LEMMA RestKept ==
  ASSUME IInv, UNCHANGED <<pc, pBuff, it, heap, map, faults>>
  PROVE  NewMessages' /\ OneDeletes' /\ RecordHasOwner' /\ OtherInExchange'
<1>1. Meeting' <=> Meeting
  BY MeetingIs DEF map
<1>2. QED
  BY <1>1 DEF heap, map, faults, IInv, NewMessages, OneDeletes, RecordHasOwner, OtherInExchange

LEMMA ReqOpt_CheckUidKeeps == ASSUME IInv, ReqOpt_CheckUid PROVE IInv'
<1>1. Queue("REQ_CHECKUID") /\ UNCHANGED <<pc, pBuff, it, heap, map, faults>> /\ TypeOK
  BY DEF ReqOpt_CheckUid, IInv
<1>2. TypeOK'
  BY <1>1, QueueTypes DEF TypeOK, heap, map, faults
<1>3. QED
  BY <1>1, <1>2, RestKept DEF IInv

LEMMA ReclaimKeeps == ASSUME IInv, Reclaim PROVE IInv'
<1>1. /\ live' \subseteq live
      /\ UNCHANGED <<accepted, left, running, opt, pc, pBuff, it, heap, map, faults>>
  BY DEF Reclaim, Pool!Pass, Pool!Discard
<1>2. TypeOK'
  BY <1>1 DEF IInv, TypeOK, heap, map, faults
<1>3. QED
  BY <1>1, <1>2, RestKept DEF IInv

LEMMA BreakKeeps == ASSUME IInv, NEW w \in Workers, Break(w) PROVE IInv'
<1>1. broken' = TRUE /\ UNCHANGED <<pool, opt, pc, pBuff, it, heap, map, met>>
  BY DEF Break
<1>2. TypeOK'
  BY <1>1 DEF IInv, TypeOK, pool, heap, map
<1>3. Meeting' <=> Meeting
  BY <1>1, MeetingIs DEF map
<1>4. met
  <2>1. CASE \E v \in Workers \ {w} : InMap(v) /\ InMap(w) /\ (Changing(v) \/ Changing(w))
    <3>1. Meeting
      BY <2>1, PlacesAre, MeetingIs DEF InMap, Changing, Inserting
    <3>2. QED
      BY <3>1 DEF IInv, OneDeletes
  <2>2. CASE pc[w] \in {"assign"} \cup Deleting /\ it[w] # entry
    BY <2>2 DEF IInv, OneDeletes
  <2>3. CASE pc[w] = "free" /\ record \in freed
    <3> SUFFICES ASSUME ~ met PROVE FALSE
      OBVIOUS
    <3>1. PICK v \in Workers : pc[v] = "erase"
      BY <2>3 DEF IInv, OneDeletes
    <3>2. Meeting
      BY <2>3, <3>1, PlacesAre, MeetingIs
    <3>3. QED
      BY <3>2 DEF IInv, OneDeletes
  <2>4. QED
    BY <2>1, <2>2, <2>3 DEF Break
<1>5. OneDeletes'
  BY <1>1, <1>3, <1>4 DEF OneDeletes
<1>6. NewMessages' /\ RecordHasOwner' /\ OtherInExchange'
  BY <1>1 DEF IInv, NewMessages, RecordHasOwner, OtherInExchange, heap, map
<1>7. QED
  BY <1>2, <1>5, <1>6 DEF IInv

LEMMA TestFuncKeeps == ASSUME IInv, NEW w \in Workers, TestFunc(w) PROVE IInv'
<1>1. PICK e \in live \ Pool!Retirable :
        /\ running' = [running EXCEPT ![w] = e]
        /\ left' = [left EXCEPT ![e] = IF @ = Forever THEN @ ELSE @ - 1]
  BY DEF TestFunc, Pool!Hand
<1>2. /\ pc[w] = "idle"
      /\ UNCHANGED <<accepted, opt, pBuff, it, allocated, freed, entry, record, broken, met>>
  BY DEF TestFunc, Pool!Hand, heap, map, faults, IInv, TypeOK
<1>3. PICK to \in {"send", "recv"} : pc' = [pc EXCEPT ![w] = to]
  BY DEF TestFunc
<1>4. /\ pc' \in [Workers -> Places] /\ pc'[w] = to
      /\ \A v \in Workers \ {w} : pc'[v] = pc[v]
  BY <1>3, Moves, PlacesAre DEF IInv
<1>e. e \in 1 .. accepted /\ e \in Tasks /\ e # 0
  BY ClientAssumption DEF IInv, TypeOK, Tasks
<1>5. left' \in [Tasks -> 0 .. Forever]
  <2>1. left[e] \in 0 .. Forever /\ left[e] # 0
    BY <1>e DEF Pool!Retirable, IInv, TypeOK
  <2>2. (IF left[e] = Forever THEN left[e] ELSE left[e] - 1) \in 0 .. Forever
    BY <2>1, ClientAssumption
  <2>3. QED
    BY <1>1, <2>2 DEF IInv, TypeOK
<1>6. live' \subseteq live
  BY DEF TestFunc, Pool!Hand, Pool!Discard
<1>7. \A v \in Workers : /\ pc'[v] \in Deleting <=> pc[v] \in Deleting
                         /\ pc'[v] \in {"assign"} \cup Deleting <=> pc[v] \in {"assign"} \cup Deleting
                         /\ pc'[v] \in Writing <=> pc[v] \in Writing
                         /\ pc'[v] \in Using <=> pc[v] \in Using
                         /\ pc'[v] = "lookup" <=> pc[v] = "lookup"
                         /\ pc'[v] = "erase" <=> pc[v] = "erase"
  BY <1>2, <1>4, PlacesAre
<1>8. TypeOK'
  <2>1. /\ running' \in [Workers -> 0 .. accepted']
        /\ \A v \in Workers : running'[v] = 0 <=> pc'[v] = "idle"
    BY <1>1, <1>2, <1>3, <1>4, <1>e DEF IInv, TypeOK
  <2>2. \A v \in Workers : pc'[v] \in {"assign"} \cup Deleting <=> it'[v] # 0
    BY <1>2, <1>7 DEF IInv, TypeOK
  <2>3. QED
    BY <1>2, <1>4, <1>5, <1>6, <2>1, <2>2 DEF IInv, TypeOK, Places
<1>9. NewMessages'
  BY <1>2, <1>7 DEF IInv, NewMessages
<1>10. OneDeletes'
  <2>1. Meeting' <=> Meeting
    BY <1>2, <1>7, MeetingIs
  <2>2. QED
    BY <1>2, <1>7, <2>1 DEF IInv, OneDeletes
<1>11. RecordHasOwner' /\ OtherInExchange'
  <2>1. \A v \in Workers : pc[v] \in Reading \cup Deleting => v # w /\ pc'[v] = pc[v]
    BY <1>2, <1>4, PlacesAre
  <2>2. QED
    BY <1>2, <1>7, <2>1 DEF IInv, RecordHasOwner, OtherInExchange
<1>12. QED
  BY <1>8, <1>9, <1>10, <1>11 DEF IInv

(* What every step of the exchange does to the faults.                        *)
Noted == broken' = FALSE /\ met' = (met \/ Meeting')

LEMMA NotedTypes == ASSUME TypeOK, Noted PROVE broken' \in BOOLEAN /\ met' \in BOOLEAN
  BY DEF Noted, TypeOK, Meeting

LEMMA SendKeeps ==
  ASSUME IInv, ~ broken, NEW w \in Workers, Send(w), Noted
  PROVE  IInv'
<1>1. /\ pc[w] = "send" /\ pc' = [pc EXCEPT ![w] = "lookup"]
      /\ allocated < MaxBuffs /\ allocated' = allocated + 1
      /\ pBuff' = [pBuff EXCEPT ![w] = allocated + 1]
      /\ UNCHANGED <<accepted, live, left, running, opt, it, freed, entry, record>>
  BY DEF Send, pool, map
<1>2. /\ pc' \in [Workers -> Places] /\ pc'[w] = "lookup"
      /\ \A v \in Workers \ {w} : pc'[v] = pc[v]
  BY <1>1, Moves, PlacesAre DEF IInv
<1>3. pBuff'[w] = allocated + 1 /\ \A v \in Workers \ {w} : pBuff'[v] = pBuff[v]
  BY <1>1 DEF IInv, TypeOK
<1>4. \A v \in Workers : pc'[v] \in {"assign"} \cup Deleting <=> pc[v] \in {"assign"} \cup Deleting
  BY <1>1, <1>2, PlacesAre
<1>5. TypeOK'
  <2>1. allocated' \in 0 .. MaxBuffs
    BY <1>1, ClientAssumption DEF IInv, TypeOK
  <2>2. pBuff' \in [Workers -> 0 .. allocated'] /\ it' \in [Workers -> 0 .. allocated']
        /\ freed' \subseteq 1 .. allocated' /\ entry' \in 0 .. allocated'
        /\ record' \in 0 .. allocated'
    BY <1>1, ClientAssumption DEF IInv, TypeOK
  <2>3. \A v \in Workers : running'[v] = 0 <=> pc'[v] = "idle"
    BY <1>1, <1>2 DEF IInv, TypeOK
  <2>4. broken' \in BOOLEAN /\ met' \in BOOLEAN
    BY NotedTypes DEF IInv
  <2>5. QED
    BY <1>1, <1>2, <1>4, <2>1, <2>2, <2>3, <2>4 DEF IInv, TypeOK, Places
<1>6. NewMessages'
  <2>1. \A x \in 0 .. allocated : x # allocated + 1
    BY DEF IInv, TypeOK
  <2>2. /\ allocated + 1 \notin {0, record, entry} \cup freed
        /\ \A v \in Workers : it[v] # allocated + 1 /\ pBuff[v] # allocated + 1
    BY <2>1 DEF IInv, TypeOK
  <2>3. \A v \in Workers \ {w} : /\ pc'[v] \in Writing => pc[v] \in Writing
                                /\ pc'[v] = "lookup" => pc[v] = "lookup"
    BY <1>2
  <2>4. QED
    BY <1>1, <1>3, <2>2, <2>3 DEF IInv, NewMessages
<1>7. OneDeletes'
  <2>1. \A v \in Workers : pc[v] = "erase" => pc'[v] = "erase"
    BY <1>1, <1>2
  <2>2. QED
    BY <1>1, <1>4, <2>1 DEF IInv, OneDeletes, Noted
<1>8. RecordHasOwner' /\ OtherInExchange'
  <2>1. \A v \in Workers : pc[v] \in Reading \cup Deleting => v # w /\ pc'[v] = pc[v]
    BY <1>1, <1>2, PlacesAre
  <2>2. \A v \in Workers : pc'[v] = "erase" => pc[v] = "erase"
    BY <1>2
  <2>3. QED
    BY <1>1, <2>1, <2>2 DEF IInv, RecordHasOwner, OtherInExchange
<1>9. QED
  BY <1>5, <1>6, <1>7, <1>8 DEF IInv

LEMMA LookupKeeps ==
  ASSUME IInv, ~ broken, NEW w \in Workers, Lookup(w), Noted
  PROVE  IInv'
<1>1. /\ pc[w] = "lookup" /\ pc' = [pc EXCEPT ![w] = "assign"]
      /\ entry' = (IF entry = 0 THEN pBuff[w] ELSE entry)
      /\ it' = [it EXCEPT ![w] = entry']
      /\ UNCHANGED <<accepted, live, left, running, opt, pBuff, allocated, freed, record>>
  BY DEF Lookup, pool, heap
<1>2. /\ pc' \in [Workers -> Places] /\ pc'[w] = "assign"
      /\ \A v \in Workers \ {w} : pc'[v] = pc[v]
  BY <1>1, Moves, PlacesAre DEF IInv
<1>3. it'[w] = entry' /\ \A v \in Workers \ {w} : it'[v] = it[v]
  BY <1>1 DEF IInv, TypeOK
<1>4. /\ pBuff[w] \notin {0, record, entry} \cup freed
      /\ \A v \in Workers : it[v] # pBuff[w]
      /\ \A v \in Workers : v # w /\ pc[v] \in Writing => pBuff[v] # pBuff[w]
  BY <1>1, PlacesAre DEF IInv, NewMessages
<1>5. entry' # 0 /\ entry' \in {entry, pBuff[w]}
  BY <1>1, <1>4
<1>6. TypeOK'
  <2>1. entry' \in 0 .. allocated /\ it' \in [Workers -> 0 .. allocated]
    BY <1>1 DEF IInv, TypeOK
  <2>2. \A v \in Workers : pc'[v] \in {"assign"} \cup Deleting <=> it'[v] # 0
    BY <1>2, <1>3, <1>5 DEF IInv, TypeOK
  <2>3. \A v \in Workers : running'[v] = 0 <=> pc'[v] = "idle"
    BY <1>1, <1>2 DEF IInv, TypeOK
  <2>4. broken' \in BOOLEAN /\ met' \in BOOLEAN
    BY NotedTypes DEF IInv
  <2>5. QED
    BY <1>1, <1>2, <2>1, <2>2, <2>3, <2>4 DEF IInv, TypeOK, Places
<1>7. NewMessages'
  <2>1. \A v \in Workers : pc'[v] \in Writing => pc[v] \in Writing
    BY <1>1, <1>2, PlacesAre
  <2>2. \A v \in Workers : pc'[v] = "lookup" => v # w /\ pc[v] = "lookup"
    BY <1>2
  <2>3. \A v \in Workers : pc'[v] = "lookup" =>
          pBuff[v] # entry' /\ \A u \in Workers : it'[u] # pBuff[v]
    BY <1>3, <1>4, <1>5, <2>2, PlacesAre DEF IInv, NewMessages
  <2>4. QED
    BY <1>1, <1>5, <2>1, <2>3 DEF IInv, NewMessages
<1>8. OneDeletes'
  <2>1. ASSUME ~ met, NEW v \in Workers \ {w}, pc[v] \in {"assign"} \cup Deleting
        PROVE  it[v] = entry /\ entry # 0
    <3>1. it[v] = entry
      BY <2>1 DEF IInv, OneDeletes
    <3>2. it[v] # 0
      BY <2>1 DEF IInv, TypeOK
    <3>3. QED
      BY <3>1, <3>2
  <2>2. ~ met => \A v \in Workers : pc'[v] \in {"assign"} \cup Deleting => it'[v] = entry'
    BY <1>1, <1>2, <1>3, <2>1
  <2>3. \A v \in Workers : pc[v] = "erase" => pc'[v] = "erase"
    BY <1>1, <1>2
  <2>4. QED
    BY <1>1, <2>2, <2>3 DEF IInv, OneDeletes, Noted
<1>9. RecordHasOwner'
  <2>1. \A v \in Workers : pc[v] \in Reading \cup Deleting => pc'[v] = pc[v]
    BY <1>1, <1>2, PlacesAre
  <2>2. QED
    BY <1>1, <2>1 DEF IInv, RecordHasOwner
<1>10. OtherInExchange'
  <2> SUFFICES ASSUME NEW v \in Workers, pc'[v] = "erase", it'[v] = entry',
                      record \notin freed \cup {0}
               PROVE  \E u \in Workers \ {v} : pc'[u] \in Reading \cup Deleting
    BY <1>1 DEF OtherInExchange
  <2>1. v # w /\ pc[v] = "erase" /\ it[v] = entry'
    BY <1>2, <1>3
  <2>2. entry' = entry
    BY <1>4, <1>5, <2>1
  <2>3. PICK u \in Workers \ {v} : pc[u] \in Reading \cup Deleting
    BY <2>1, <2>2 DEF IInv, OtherInExchange
  <2>4. QED
    BY <1>1, <1>2, <2>3, PlacesAre
<1>11. QED
  BY <1>6, <1>7, <1>8, <1>9, <1>10 DEF IInv

LEMMA AssignKeeps ==
  ASSUME IInv, ~ broken, NEW w \in Workers, Assign(w), Noted
  PROVE  IInv'
<1>1. /\ pc[w] = "assign" /\ it[w] = entry /\ pc' = [pc EXCEPT ![w] = "queue"]
      /\ record' = pBuff[w] /\ it' = [it EXCEPT ![w] = 0]
      /\ UNCHANGED <<accepted, live, left, running, opt, pBuff, allocated, freed, entry>>
  BY DEF Assign, pool, heap
<1>2. /\ pc' \in [Workers -> Places] /\ pc'[w] = "queue"
      /\ \A v \in Workers \ {w} : pc'[v] = pc[v]
  BY <1>1, Moves, PlacesAre DEF IInv
<1>3. it'[w] = 0 /\ \A v \in Workers \ {w} : it'[v] = it[v]
  BY <1>1 DEF IInv, TypeOK
<1>4. /\ pBuff[w] \notin {0, record} \cup freed
      /\ \A v \in Workers : v # w /\ pc[v] \in Writing => pBuff[v] # pBuff[w]
  BY <1>1, PlacesAre DEF IInv, NewMessages
<1>5. entry # 0
  BY <1>1 DEF IInv, TypeOK
<1>6. \A v \in Workers : /\ pc'[v] \in {"assign"} \cup Deleting
                              <=> v # w /\ pc[v] \in {"assign"} \cup Deleting
                         /\ pc'[v] \in Writing <=> v # w /\ pc[v] \in Writing
                         /\ pc'[v] = "lookup" => v # w /\ pc[v] = "lookup"
                         /\ pc'[v] = "erase" => v # w
  BY <1>1, <1>2, PlacesAre
<1>7. TypeOK'
  <2>1. record' \in 0 .. allocated /\ it' \in [Workers -> 0 .. allocated]
    BY <1>1 DEF IInv, TypeOK
  <2>2. \A v \in Workers : pc'[v] \in {"assign"} \cup Deleting <=> it'[v] # 0
    BY <1>3, <1>6 DEF IInv, TypeOK
  <2>3. \A v \in Workers : running'[v] = 0 <=> pc'[v] = "idle"
    BY <1>1, <1>2 DEF IInv, TypeOK
  <2>4. broken' \in BOOLEAN /\ met' \in BOOLEAN
    BY NotedTypes DEF IInv
  <2>5. QED
    BY <1>1, <1>2, <2>1, <2>2, <2>3, <2>4 DEF IInv, TypeOK, Places
<1>8. NewMessages'
  <2>1. \A v \in Workers : pc'[v] = "lookup" => \A u \in Workers : it'[u] # pBuff[v]
    BY <1>3, <1>6, PlacesAre DEF IInv, NewMessages
  <2>2. \A v \in Workers : pc'[v] \in Writing => pBuff[v] # record'
    BY <1>1, <1>4, <1>6
  <2>3. QED
    BY <1>1, <1>5, <1>6, <2>1, <2>2 DEF IInv, NewMessages
<1>9. OneDeletes'
  BY <1>1, <1>3, <1>4, <1>6 DEF IInv, OneDeletes, Noted
<1>10. RecordHasOwner'
  BY <1>2, PlacesAre DEF RecordHasOwner
<1>11. OtherInExchange'
  BY <1>2, <1>6, PlacesAre DEF OtherInExchange
<1>12. QED
  BY <1>7, <1>8, <1>9, <1>10, <1>11 DEF IInv

LEMMA ReqOpt_RecvCheckUidKeeps ==
  ASSUME IInv, ~ broken, NEW w \in Workers, ReqOpt_RecvCheckUid(w), Noted
  PROVE  IInv'
<1>1. /\ pc[w] = "queue" /\ pc' = [pc EXCEPT ![w] = "recv"]
      /\ Queue("REQ_RECV_CHEKCUID")
      /\ pBuff' = [pBuff EXCEPT ![w] = 0]
      /\ UNCHANGED <<it, allocated, freed, entry, record>>
  BY DEF ReqOpt_RecvCheckUid, heap, map
<1>2. /\ pc' \in [Workers -> Places] /\ pc'[w] = "recv"
      /\ \A v \in Workers \ {w} : pc'[v] = pc[v]
  BY <1>1, Moves, PlacesAre DEF IInv
<1>3. \A v \in Workers \ {w} : pBuff'[v] = pBuff[v]
  BY <1>1 DEF IInv, TypeOK
<1>4. \A v \in Workers : /\ pc'[v] \in {"assign"} \cup Deleting
                              <=> pc[v] \in {"assign"} \cup Deleting
                         /\ pc'[v] \in Reading \cup Deleting <=> pc[v] \in Reading \cup Deleting
                         /\ pc'[v] \in Writing => v # w /\ pc[v] \in Writing
                         /\ pc'[v] = "lookup" => pc[v] = "lookup"
                         /\ pc'[v] = "erase" <=> pc[v] = "erase"
  BY <1>1, <1>2, PlacesAre
<1>5. TypeOK'
  <2>1. /\ accepted' \in 1 .. MaxTasks
        /\ live' \subseteq 1 .. accepted'
        /\ UNCHANGED running /\ running' \in [Workers -> 0 .. accepted']
        /\ left' \in [Tasks -> 0 .. Forever]
        /\ opt' \in [Tasks -> {"REQ_CHECKUID", "REQ_RECV_CHEKCUID"}]
    BY <1>1, QueueTypes DEF IInv
  <2>2. pBuff' \in [Workers -> 0 .. allocated]
    BY <1>1 DEF IInv, TypeOK
  <2>3. \A v \in Workers : running'[v] = 0 <=> pc'[v] = "idle"
    BY <1>1, <1>2, <2>1 DEF IInv, TypeOK
  <2>4. broken' \in BOOLEAN /\ met' \in BOOLEAN
    BY NotedTypes DEF IInv
  <2>5. QED
    BY <1>1, <1>2, <1>4, <2>1, <2>2, <2>3, <2>4 DEF IInv, TypeOK, Places
<1>6. NewMessages'
  <2>1. \A v \in Workers : pc'[v] \in Writing => pBuff'[v] = pBuff[v]
    BY <1>3, <1>4
  <2>2. QED
    BY <1>1, <1>4, <2>1, PlacesAre DEF IInv, NewMessages
<1>7. OneDeletes'
  BY <1>1, <1>4 DEF IInv, OneDeletes, Noted
<1>8. RecordHasOwner' /\ OtherInExchange'
  BY <1>1, <1>4 DEF IInv, RecordHasOwner, OtherInExchange
<1>9. QED
  BY <1>5, <1>6, <1>7, <1>8 DEF IInv

LEMMA CheckUidRstKeeps ==
  ASSUME IInv, ~ broken, NEW w \in Workers, CheckUidRst(w), Noted
  PROVE  IInv'
<1>1. /\ pc[w] = "recv" /\ pc' = [pc EXCEPT ![w] = "find"]
      /\ UNCHANGED <<accepted, live, left, running, opt, pBuff, it, allocated, freed, entry, record>>
  BY DEF CheckUidRst, pool, heap, map
<1>2. /\ pc' \in [Workers -> Places] /\ pc'[w] = "find"
      /\ \A v \in Workers \ {w} : pc'[v] = pc[v]
  BY <1>1, Moves, PlacesAre DEF IInv
<1>3. \A v \in Workers : /\ pc'[v] \in {"assign"} \cup Deleting
                              <=> pc[v] \in {"assign"} \cup Deleting
                         /\ pc'[v] \in Reading \cup Deleting <=> pc[v] \in Reading \cup Deleting
                         /\ pc'[v] \in Writing => pc[v] \in Writing
                         /\ pc'[v] = "lookup" => pc[v] = "lookup"
                         /\ pc'[v] = "erase" <=> pc[v] = "erase"
  BY <1>1, <1>2, PlacesAre
<1>4. TypeOK'
  <2>1. \A v \in Workers : running'[v] = 0 <=> pc'[v] = "idle"
    BY <1>1, <1>2 DEF IInv, TypeOK
  <2>2. broken' \in BOOLEAN /\ met' \in BOOLEAN
    BY NotedTypes DEF IInv
  <2>3. QED
    BY <1>1, <1>2, <1>3, <2>1, <2>2 DEF IInv, TypeOK, Places
<1>5. NewMessages'
  BY <1>1, <1>3 DEF IInv, NewMessages
<1>6. OneDeletes'
  BY <1>1, <1>3 DEF IInv, OneDeletes, Noted
<1>7. RecordHasOwner' /\ OtherInExchange'
  BY <1>1, <1>3 DEF IInv, RecordHasOwner, OtherInExchange
<1>8. QED
  BY <1>4, <1>5, <1>6, <1>7 DEF IInv

LEMMA FindKeeps ==
  ASSUME IInv, ~ broken, NEW w \in Workers, Find(w), Noted
  PROVE  IInv'
<1>1. /\ pc[w] = "find" /\ it' = [it EXCEPT ![w] = entry]
      /\ UNCHANGED <<opt, pBuff, allocated, freed, entry, record>>
  BY DEF Find, heap, map
<1>2. PICK to \in {"idle", "free"} :
        /\ to = "idle" <=> entry = 0
        /\ pc' \in [Workers -> Places] /\ pc'[w] = to
        /\ \A v \in Workers \ {w} : pc'[v] = pc[v]
        /\ UNCHANGED <<accepted, live, left>>
        /\ running' \in [Workers -> 0 .. accepted']
        /\ \A v \in Workers : running'[v] = 0 <=> pc'[v] = "idle"
  <2>1. CASE entry = 0 /\ Leave(w)
    BY <1>1, <2>1, Leaves DEF IInv
  <2>2. CASE entry # 0 /\ pc' = [pc EXCEPT ![w] = "free"] /\ UNCHANGED pool
    <3>1. /\ pc' \in [Workers -> Places] /\ pc'[w] = "free"
          /\ \A v \in Workers \ {w} : pc'[v] = pc[v]
      BY <2>2, Moves, PlacesAre DEF IInv
    <3>2. QED
      BY <1>1, <2>2, <3>1 DEF IInv, TypeOK, pool
  <2>3. QED
    BY <2>1, <2>2 DEF Find
<1>3. it'[w] = entry /\ \A v \in Workers \ {w} : it'[v] = it[v]
  BY <1>1 DEF IInv, TypeOK
<1>4. /\ pc'[w] \in {"assign"} \cup Deleting <=> entry # 0
      /\ pc'[w] \in Reading \cup Deleting <=> entry # 0
      /\ \A v \in Workers : pc'[v] \in Writing => v # w /\ pc[v] \in Writing
      /\ \A v \in Workers : pc'[v] = "lookup" => v # w /\ pc[v] = "lookup"
      /\ \A v \in Workers : pc'[v] = "erase" <=> v # w /\ pc[v] = "erase"
  BY <1>1, <1>2, PlacesAre
<1>5. TypeOK'
  <2>1. it' \in [Workers -> 0 .. allocated]
    BY <1>1 DEF IInv, TypeOK
  <2>2. \A v \in Workers : pc'[v] \in {"assign"} \cup Deleting <=> it'[v] # 0
    BY <1>2, <1>3, <1>4 DEF IInv, TypeOK
  <2>3. broken' \in BOOLEAN /\ met' \in BOOLEAN
    BY NotedTypes DEF IInv
  <2>4. QED
    BY <1>1, <1>2, <2>1, <2>2, <2>3 DEF IInv, TypeOK, Places
<1>6. NewMessages'
  <2>1. \A v \in Workers : pc'[v] = "lookup" => \A u \in Workers : it'[u] # pBuff[v]
    BY <1>3, <1>4 DEF IInv, NewMessages
  <2>2. QED
    BY <1>1, <1>4, <2>1 DEF IInv, NewMessages
<1>7. OneDeletes'
  <2>1. ~ met => \A v \in Workers : pc'[v] \in {"assign"} \cup Deleting => it'[v] = entry'
    BY <1>1, <1>2, <1>3 DEF IInv, OneDeletes
  <2>2. \A v \in Workers : pc[v] = "erase" => pc'[v] = "erase"
    BY <1>1, <1>4
  <2>3. QED
    BY <1>1, <2>1, <2>2 DEF IInv, OneDeletes, Noted
<1>8. RecordHasOwner'
  <2>1. record # 0 => entry # 0
    BY DEF IInv, NewMessages
  <2>2. QED
    BY <1>1, <1>4, <2>1 DEF RecordHasOwner
<1>9. OtherInExchange'
  <2> SUFFICES ASSUME NEW v \in Workers, pc'[v] = "erase", it'[v] = entry,
                      record \notin freed \cup {0}
               PROVE  \E u \in Workers \ {v} : pc'[u] \in Reading \cup Deleting
    BY <1>1 DEF OtherInExchange
  <2>1. v # w /\ pc[v] = "erase" /\ it[v] = entry
    BY <1>3, <1>4
  <2>2. entry # 0
    BY DEF IInv, NewMessages
  <2>3. QED
    BY <1>4, <2>1, <2>2
<1>10. QED
  BY <1>5, <1>6, <1>7, <1>8, <1>9 DEF IInv

LEMMA FreeKeeps ==
  ASSUME IInv, ~ broken, NEW w \in Workers, Free(w), Noted
  PROVE  IInv'
<1>1. /\ pc[w] = "free" /\ it[w] = entry /\ record \notin freed
      /\ pc' = [pc EXCEPT ![w] = "erase"]
      /\ freed' = freed \cup ({record} \ {0})
      /\ UNCHANGED <<accepted, live, left, running, opt, pBuff, it, allocated, entry, record>>
  BY DEF Free, pool, map
<1>2. /\ pc' \in [Workers -> Places] /\ pc'[w] = "erase"
      /\ \A v \in Workers \ {w} : pc'[v] = pc[v]
  BY <1>1, Moves, PlacesAre DEF IInv
<1>3. \A v \in Workers : /\ pc'[v] \in {"assign"} \cup Deleting
                              <=> pc[v] \in {"assign"} \cup Deleting
                         /\ pc'[v] \in Writing => pc[v] \in Writing
                         /\ pc'[v] = "lookup" => pc[v] = "lookup"
  BY <1>1, <1>2, PlacesAre
<1>4. freed' \subseteq 1 .. allocated
  <2>1. record \in 0 .. allocated /\ allocated \in Nat
    BY ClientAssumption DEF IInv, TypeOK
  <2>2. {record} \ {0} \subseteq 1 .. allocated
    BY <2>1
  <2>3. QED
    BY <1>1, <2>2 DEF IInv, TypeOK
<1>5. TypeOK'
  <2>1. \A v \in Workers : running'[v] = 0 <=> pc'[v] = "idle"
    BY <1>1, <1>2 DEF IInv, TypeOK
  <2>2. broken' \in BOOLEAN /\ met' \in BOOLEAN
    BY NotedTypes DEF IInv
  <2>3. QED
    BY <1>1, <1>2, <1>3, <1>4, <2>1, <2>2 DEF IInv, TypeOK, Places
<1>6. NewMessages'
  BY <1>1, <1>3 DEF IInv, NewMessages
<1>7. OneDeletes'
  BY <1>1, <1>2, <1>3 DEF IInv, OneDeletes, Noted
<1>8. RecordHasOwner'
  BY <1>2, PlacesAre DEF RecordHasOwner
<1>9. OtherInExchange'
  BY <1>1 DEF OtherInExchange
<1>10. QED
  BY <1>5, <1>6, <1>7, <1>8, <1>9 DEF IInv

LEMMA EraseKeeps ==
  ASSUME IInv, ~ broken, NEW w \in Workers, Erase(w), Noted
  PROVE  IInv'
<1>1. /\ pc[w] = "erase" /\ it[w] = entry /\ Leave(w)
      /\ entry' = 0 /\ record' = 0 /\ it' = [it EXCEPT ![w] = 0]
      /\ UNCHANGED <<opt, pBuff, allocated, freed>>
  BY DEF Erase, heap
<1>2. /\ pc' \in [Workers -> Places] /\ pc'[w] = "idle"
      /\ \A v \in Workers \ {w} : pc'[v] = pc[v]
      /\ UNCHANGED <<accepted, live, left>>
      /\ running' \in [Workers -> 0 .. accepted']
      /\ \A v \in Workers : running'[v] = 0 <=> pc'[v] = "idle"
  BY <1>1, Leaves DEF IInv
<1>3. it'[w] = 0 /\ \A v \in Workers \ {w} : it'[v] = it[v]
  BY <1>1 DEF IInv, TypeOK
<1>4. \A v \in Workers : /\ pc'[v] \in {"assign"} \cup Deleting
                              <=> v # w /\ pc[v] \in {"assign"} \cup Deleting
                         /\ pc'[v] \in Writing => pc[v] \in Writing
                         /\ pc'[v] = "lookup" => pc[v] = "lookup"
  BY <1>2, PlacesAre
<1>5. TypeOK'
  <2>1. it' \in [Workers -> 0 .. allocated] /\ entry' \in 0 .. allocated
        /\ record' \in 0 .. allocated
    BY <1>1, ClientAssumption DEF IInv, TypeOK
  <2>2. \A v \in Workers : pc'[v] \in {"assign"} \cup Deleting <=> it'[v] # 0
    BY <1>3, <1>4 DEF IInv, TypeOK
  <2>3. broken' \in BOOLEAN /\ met' \in BOOLEAN
    BY NotedTypes DEF IInv
  <2>4. QED
    BY <1>1, <1>2, <2>1, <2>2, <2>3 DEF IInv, TypeOK, Places
<1>6. NewMessages'
  <2>1. \A v \in Workers : it'[v] \in {0, it[v]}
    BY <1>3
  <2>2. QED
    BY <1>1, <1>4, <2>1, PlacesAre DEF IInv, NewMessages
<1>7. OneDeletes'
  <2>1. ~ met => \A v \in Workers : pc'[v] \notin {"assign"} \cup Deleting
    <3> SUFFICES ASSUME NEW v \in Workers \ {w}, pc[v] \in {"assign"} \cup Deleting PROVE met
      BY <1>4
    <3>1. pc[v] \in Using /\ pc[w] \in Deleting
      BY <1>1, PlacesAre DEF Using
    <3>2. Meeting
      BY <3>1, MeetingIs
    <3>3. QED
      BY <3>2 DEF IInv, OneDeletes
  <2>2. record' \notin freed'
    BY <1>1 DEF IInv, TypeOK
  <2>3. QED
    BY <2>1, <2>2 DEF OneDeletes, Noted
<1>8. RecordHasOwner' /\ OtherInExchange'
  BY <1>1 DEF RecordHasOwner, OtherInExchange
<1>9. QED
  BY <1>5, <1>6, <1>7, <1>8 DEF IInv

(* IInv is inductive. *)
LEMMA StepKeeps == ASSUME IInv, [Next]_vars PROVE IInv'
<1>1. CASE UNCHANGED vars
  <2>1. TypeOK'
    BY <1>1 DEF vars, pool, heap, map, faults, IInv, TypeOK
  <2>2. QED
    BY <1>1, <2>1, RestKept DEF vars, IInv
<1>2. ASSUME ~ broken, NEW w \in Workers, Exchange(w) PROVE IInv'
  <2>1. Noted
    BY <1>2 DEF Exchange, Noted
  <2>2. QED
    BY <1>2, <2>1, SendKeeps, LookupKeeps, AssignKeeps, ReqOpt_RecvCheckUidKeeps,
       CheckUidRstKeeps, FindKeeps, FreeKeeps, EraseKeeps DEF Exchange
<1>3. QED
  BY <1>1, <1>2, ReqOpt_CheckUidKeeps, ReclaimKeeps, TestFuncKeeps, BreakKeeps DEF Next

THEOREM Invariance == Spec => []IInv
  BY InitEstablishes, StepKeeps, PTL DEF Spec

(* The variables keep their types, for any threads, elements and messages.    *)
THEOREM TypeCorrect == Spec => []TypeOK
  BY Invariance, PTL DEF IInv

(* Whatever the pool refuses and whether or not an answer comes, a recorded   *)
(* message has a thread on its way to delete it (TestClient.cpp:74-75, 96).   *)
THEOREM RecordIsOwned == Spec => []RecordHasOwner
  BY Invariance, PTL DEF IInv

(* Nothing is deleted twice, no erased entry is used and the tree is not      *)
(* changed under another thread before two threads were at the entry at once, *)
(* inside a call of the map or holding what it returned, one of them deleting *)
(* or inserting it (TestClient.cpp:74 and 117-121).                           *)
THEOREM BrokenByTwo == Spec => []BrokenOnlyByTwo
<1>1. ASSUME IInv PROVE BrokenOnlyByTwo
  BY <1>1 DEF IInv, OneDeletes, BrokenOnlyByTwo
<1>2. QED
  BY <1>1, Invariance, PTL

-----------------------------------------------------------------------------
Unrecorded == {pBuff[w] : w \in {v \in Workers : pc[v] \in Writing}}

LEMMA LostIs ==
  /\ Lost = (1 .. allocated) \ (freed \cup {record} \cup Unrecorded)
  /\ Lost' = (1 .. allocated') \ (freed' \cup {record'} \cup Unrecorded')
  BY DEF Lost, Unrecorded

(* Steps that leave the messages where they are.                              *)
LEMMA NoneLost ==
  ASSUME UNCHANGED <<allocated, freed, record>>,
         \A v \in Workers : pc'[v] \in Writing <=> pc[v] \in Writing,
         \A v \in Workers : pc[v] \in Writing => pBuff'[v] = pBuff[v]
  PROVE  Lost' = Lost
<1>1. \A x : x \in Unrecorded' <=> x \in Unrecorded
  BY DEF Unrecorded
<1>2. Unrecorded' = Unrecorded
  BY <1>1
<1>3. QED
  BY <1>2, LostIs

LEMMA QuietLoses ==
  ASSUME IInv, NEW w \in Workers,
         TestFunc(w) \/ Lookup(w) \/ ReqOpt_RecvCheckUid(w) \/ CheckUidRst(w) \/ Find(w)
  PROVE  Lost' = Lost
<1>1. PICK to \in {"send", "recv", "assign", "find", "idle", "free"} :
        pc' = [pc EXCEPT ![w] = to] /\ (to = "assign" <=> pc[w] = "lookup")
  BY DEF TestFunc, Lookup, ReqOpt_RecvCheckUid, CheckUidRst, Find, Leave, Pool!Hand, IInv, TypeOK
<1>2. /\ pc[w] \in {"idle", "lookup", "queue", "recv", "find"}
      /\ pc[w] = "lookup" => pBuff' = pBuff
      /\ pBuff' \in {pBuff, [pBuff EXCEPT ![w] = 0]}
      /\ UNCHANGED <<allocated, freed, record>>
  BY DEF TestFunc, Pool!Hand, Lookup, ReqOpt_RecvCheckUid, CheckUidRst, Find, heap, map, IInv, TypeOK
<1>3. pc'[w] = to /\ \A v \in Workers \ {w} : pc'[v] = pc[v] /\ pBuff'[v] = pBuff[v]
  BY <1>1, <1>2 DEF IInv, TypeOK
<1>4. pc'[w] \in Writing <=> pc[w] \in Writing
  BY <1>1, <1>2, <1>3, PlacesAre
<1>5. pc[w] \in Writing => pBuff' = pBuff
  BY <1>2, PlacesAre
<1>6. QED
  BY <1>2, <1>3, <1>4, <1>5, NoneLost

LEMMA SendLoses == ASSUME IInv, NEW w \in Workers, Send(w) PROVE Lost' = Lost
<1>1. /\ pc[w] = "send" /\ pc'[w] = "lookup" /\ pBuff'[w] = allocated + 1
      /\ allocated' = allocated + 1
      /\ \A v \in Workers \ {w} : pc'[v] = pc[v] /\ pBuff'[v] = pBuff[v]
      /\ UNCHANGED <<freed, record>>
  BY DEF Send, map, IInv, TypeOK
<1>2. \A x : x \in Unrecorded' <=> x \in Unrecorded \cup {allocated + 1}
  BY <1>1, PlacesAre DEF Unrecorded
<1>3. Unrecorded' = Unrecorded \cup {allocated + 1}
  BY <1>2
<1>4. (1 .. allocated + 1) = (1 .. allocated) \cup {allocated + 1}
      /\ allocated + 1 \notin 1 .. allocated
  BY ClientAssumption DEF IInv, TypeOK
<1>5. QED
  BY <1>1, <1>3, <1>4, LostIs

(* A message overwrites another in the record only with two in the exchange.  *)
LEMMA AssignLoses ==
  ASSUME IInv, ~ broken, NEW w \in Workers, Assign(w),
         \A u, v \in Workers : InExchange(u) /\ InExchange(v) => u = v
  PROVE  Lost' = Lost
<1>1. /\ pc[w] = "assign" /\ pc'[w] = "queue" /\ record' = pBuff[w]
      /\ \A v \in Workers \ {w} : pc'[v] = pc[v]
      /\ UNCHANGED <<pBuff, allocated, freed>>
  BY DEF Assign, heap, IInv, TypeOK
<1>2. record = 0
  <2> SUFFICES ASSUME record # 0 PROVE FALSE
    OBVIOUS
  <2>1. PICK v \in Workers : pc[v] \in Reading \cup Deleting
    BY DEF IInv, RecordHasOwner
  <2>2. v # w /\ InExchange(v) /\ InExchange(w)
    BY <1>1, <2>1, PlacesAre DEF InExchange
  <2>3. QED
    BY <2>2
<1>3. \A x : x \in Unrecorded' \cup {pBuff[w]} <=> x \in Unrecorded
  BY <1>1, PlacesAre DEF Unrecorded
<1>4. 0 \notin 1 .. allocated
  OBVIOUS
<1>5. QED
  BY <1>1, <1>2, <1>3, <1>4, LostIs

LEMMA FreeLoses == ASSUME IInv, NEW w \in Workers, Free(w) PROVE Lost' = Lost
<1>1. /\ pc[w] = "free" /\ pc'[w] = "erase"
      /\ freed' = freed \cup ({record} \ {0})
      /\ \A v \in Workers \ {w} : pc'[v] = pc[v]
      /\ UNCHANGED <<pBuff, allocated, record>>
  BY DEF Free, map, IInv, TypeOK
<1>2. \A x : x \in Unrecorded' <=> x \in Unrecorded
  BY <1>1, PlacesAre DEF Unrecorded
<1>3. freed' \cup {record} = freed \cup {record}
  BY <1>1
<1>4. QED
  BY <1>1, <1>2, <1>3, LostIs

(* An entry is erased with a message in it only with two in the exchange.     *)
LEMMA EraseLoses ==
  ASSUME IInv, ~ broken, NEW w \in Workers, Erase(w),
         \A u, v \in Workers : InExchange(u) /\ InExchange(v) => u = v
  PROVE  Lost' = Lost
<1>1. /\ pc[w] = "erase" /\ it[w] = entry /\ pc'[w] = "idle" /\ record' = 0
      /\ \A v \in Workers \ {w} : pc'[v] = pc[v]
      /\ UNCHANGED <<pBuff, allocated, freed>>
  BY DEF Erase, Leave, heap, IInv, TypeOK
<1>2. \A x : x \in Unrecorded' <=> x \in Unrecorded
  BY <1>1, PlacesAre DEF Unrecorded
<1>3. record \in freed \cup {0}
  <2> SUFFICES ASSUME record \notin freed \cup {0} PROVE FALSE
    OBVIOUS
  <2>1. PICK v \in Workers \ {w} : pc[v] \in Reading \cup Deleting
    BY <1>1 DEF IInv, OtherInExchange
  <2>2. InExchange(v) /\ InExchange(w)
    BY <1>1, <2>1, PlacesAre DEF InExchange
  <2>3. QED
    BY <2>1, <2>2
<1>4. 0 \notin 1 .. allocated
  OBVIOUS
<1>5. QED
  BY <1>1, <1>2, <1>3, <1>4, LostIs

(* A message gets lost only with two threads in the exchange                  *)
(* (TestClient.cpp:74 and 120-121).                                           *)
THEOREM LostByTwo == Spec => LostOnlyByTwo
<1>1. ASSUME IInv, [Next]_vars
      PROVE  [Lost' # Lost => \E v, w \in Workers : v # w /\ InExchange(v) /\ InExchange(w)]_vars
  <2> SUFFICES ASSUME Next, \A u, v \in Workers : InExchange(u) /\ InExchange(v) => u = v
               PROVE  Lost' = Lost
    BY <1>1
  <2>1. CASE ReqOpt_CheckUid \/ Reclaim \/ \E w \in Workers : Break(w)
    BY <2>1, NoneLost DEF ReqOpt_CheckUid, Reclaim, Break, heap, map
  <2>2. QED
    BY <1>1, <2>1, QuietLoses, SendLoses, AssignLoses, FreeLoses, EraseLoses DEF Next, Exchange
<1>2. QED
  BY <1>1, Invariance, PTL DEF Spec, LostOnlyByTwo
===============================================================================
