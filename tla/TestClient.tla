----------------------------- MODULE TestClient -----------------------------
(* TestClient.cpp, on top of the pool: one client, whose elements run the     *)
(* check-uid exchange on the pool's threads. Of the pool only what           *)
(* TaskLedger promises is used, which ThreadPool implements; that AddElem    *)
(* refuses an element when the list is full may happen to any call, as the   *)
(* list is shared. A thread reads its TestParam before the element can be    *)
(* deleted under it (FreedOnlyAfterOverrun of ThreadPool says when it could  *)
(* not).                                                                     *)
(*                                                                           *)
(* Grain: m_optRecord is a std::map without a lock. A thread is inside        *)
(* operator[], find or erase from the action before the call to the action   *)
(* that ends it; when two threads are inside and one of them changes the     *)
(* map, the tree may break. What the map hands out, a reference or an        *)
(* iterator, is used in an action of its own, and breaks memory when the     *)
(* entry was erased in between.                                              *)
EXTENDS Integers, FiniteSets

CONSTANTS
  Workers,    \* the threads of the pool
  Forever,    \* MAX_THREAD_RUNCOUNT
  Runs,       \* runs of the element that main() adds
  MaxTasks,   \* bound: how many elements of this client the pool accepts
  MaxBuffs    \* bound: how many messages CheckUid sends

Tasks == 1 .. MaxTasks
Buffs == 1 .. MaxBuffs

ASSUME ClientAssumption ==
  /\ Forever \in Nat \ {0}
  /\ Runs \in 1 .. Forever
  /\ MaxTasks \in Nat \ {0}
  /\ MaxBuffs \in Nat

VARIABLES
  accepted, live, left, running,  \* the pool, as in TaskLedger
  opt,        \* TestParam::opt of each element
  pc,         \* where each thread is in TestFunc
  pBuff,      \* the message a thread in CheckUid has allocated
  it,         \* the entry that operator[] or find has given to a thread
  allocated,  \* number of messages allocated; a message is named by its rank
  freed,      \* the messages deleted
  entry,      \* the entry of key 0 in m_optRecord, named by the message it was
              \* made for; 0 if there is none
  record,     \* the pointer in that entry, 0 for NULL
  broken,     \* memory was deleted twice, an erased entry used, or the tree
              \* changed under another thread
  met         \* two threads have used the entry at once, and one of them was
              \* deleting or inserting it

pool == <<accepted, live, left, running>>
heap == <<allocated, freed>>
map == <<entry, record>>
faults == <<broken, met>>
vars == <<pool, opt, pc, pBuff, it, heap, map, faults>>

Pool == INSTANCE TaskLedger WITH Threads <- Workers

(* From operator[] to the assignment; past it, to the end of the find; and    *)
(* past the find.                                                            *)
Writing == {"lookup", "assign"}
Reading == {"queue", "recv", "find"}
Deleting == {"free", "erase"}
Using == Writing \cup {"find"} \cup Deleting

TypeOK ==
  /\ accepted \in 1 .. MaxTasks
  /\ live \subseteq 1 .. accepted
  /\ left \in [Tasks -> 0 .. Forever]
  /\ opt \in [Tasks -> {"REQ_CHECKUID", "REQ_RECV_CHEKCUID"}]
  /\ pc \in [Workers -> {"idle", "send"} \cup Writing \cup Reading \cup Deleting]
  /\ running \in [Workers -> 0 .. accepted]
  /\ \A w \in Workers : running[w] = 0 <=> pc[w] = "idle"
  /\ allocated \in 0 .. MaxBuffs
  /\ pBuff \in [Workers -> 0 .. allocated]
  /\ it \in [Workers -> 0 .. allocated]
  /\ \A w \in Workers : pc[w] \in {"assign"} \cup Deleting <=> it[w] # 0
  /\ freed \subseteq 1 .. allocated
  /\ entry \in 0 .. allocated
  /\ record \in 0 .. allocated
  /\ broken \in BOOLEAN
  /\ met \in BOOLEAN

(* main() has added its element. *)
Init ==
  /\ accepted = 1
  /\ live = {1}
  /\ left = [e \in Tasks |-> IF e = 1 THEN Runs ELSE 0]
  /\ running = [w \in Workers |-> 0]
  /\ opt = [e \in Tasks |-> "REQ_CHECKUID"]
  /\ pc = [w \in Workers |-> "idle"]
  /\ pBuff = [w \in Workers |-> 0]
  /\ it = [w \in Workers |-> 0]
  /\ allocated = 0
  /\ freed = {}
  /\ entry = 0
  /\ record = 0
  /\ broken = FALSE
  /\ met = FALSE

-----------------------------------------------------------------------------
(* new _ThreadElem with one run, and AddElem; the caller ignores a refusal.  *)
Queue(o) ==
  \/ /\ Pool!Accept
     /\ left'[accepted'] = 1
     /\ opt' = [opt EXCEPT ![accepted'] = o]
  \/ UNCHANGED <<pool, opt>>

ReqOpt_CheckUid ==
  /\ Queue("REQ_CHECKUID")
  /\ UNCHANGED <<pc, pBuff, it, heap, map, faults>>

(* A thread of the pool gets a run and enters TestFunc. *)
TestFunc(w) ==
  /\ Pool!Hand(w)
  /\ pc' = [pc EXCEPT ![w] =
               IF opt[running'[w]] = "REQ_CHECKUID" THEN "send" ELSE "recv"]
  /\ UNCHANGED <<opt, pBuff, it, heap, map, faults>>

(* A thread of the pool finds nothing to run, and deletes what is exhausted. *)
Reclaim ==
  /\ Pool!Pass /\ live' # live
  /\ UNCHANGED <<opt, pc, pBuff, it, heap, map, faults>>

(* TestFunc returns. *)
Leave(w) == Pool!Release(w) /\ pc' = [pc EXCEPT ![w] = "idle"]

-----------------------------------------------------------------------------
(* Definitions marked "Mutant" are wrong on purpose: the run must fail when   *)
(* one takes the place of the definition it is named after.                  *)

(* Inside a call of the map, and about to change the tree by it. *)
InMap(w) == pc[w] \in {"lookup", "find", "erase"}
Inserting(w) == pc[w] = "lookup" /\ entry = 0
Changing(w) == Inserting(w) \/ pc[w] = "erase"

(* Two threads at the entry, of which one deletes or inserts it. *)
Meeting ==
  \E v, w \in Workers :
    v # w /\ pc[v] \in Using /\ (pc[w] \in Deleting \/ Inserting(w))

(* CheckUid: the message is allocated and sent; whether send failed makes no *)
(* difference. The bound is on the messages.                                 *)
Send(w) ==
  /\ pc[w] = "send"
  /\ allocated < MaxBuffs
  /\ allocated' = allocated + 1
  /\ pBuff' = [pBuff EXCEPT ![w] = allocated + 1]
  /\ pc' = [pc EXCEPT ![w] = "lookup"]
  /\ UNCHANGED <<pool, opt, it, freed, map>>

(* m_optRecord[0]: the entry is found, or inserted with NULL. *)
Lookup(w) ==
  /\ pc[w] = "lookup"
  /\ entry' = IF entry = 0 THEN pBuff[w] ELSE entry
  /\ it' = [it EXCEPT ![w] = entry']
  /\ pc' = [pc EXCEPT ![w] = "assign"]
  /\ UNCHANGED <<pool, opt, pBuff, heap, record>>

(* The assignment of pBuff to what operator[] has returned. *)
Assign(w) ==
  /\ pc[w] = "assign" /\ it[w] = entry
  /\ record' = pBuff[w]
  /\ it' = [it EXCEPT ![w] = 0]
  /\ pc' = [pc EXCEPT ![w] = "queue"]
  /\ UNCHANGED <<pool, opt, pBuff, heap, entry>>

(* ReqOpt_RecvCheckUid; then TestFunc falls through to CheckUidRst. *)
ReqOpt_RecvCheckUid(w) ==
  /\ pc[w] = "queue"
  /\ Queue("REQ_RECV_CHEKCUID")
  /\ pc' = [pc EXCEPT ![w] = "recv"]
  /\ pBuff' = [pBuff EXCEPT ![w] = 0]
  /\ UNCHANGED <<it, heap, map>>

(* Mutant of CheckUidRst: the record is kept when nothing was received. *)
CheckUidRstReturns(w) ==
  /\ pc[w] = "recv"
  /\ \/ pc' = [pc EXCEPT ![w] = "find"] /\ UNCHANGED pool
     \/ Leave(w)
  /\ UNCHANGED <<opt, pBuff, it, heap, map>>

(* CheckUidRst: recv, which is taken to return (with an error on a socket     *)
(* that was never made); whether it found an answer makes no difference.     *)
CheckUidRst(w) ==
  /\ pc[w] = "recv"
  /\ pc' = [pc EXCEPT ![w] = "find"]
  /\ UNCHANGED <<pool, opt, pBuff, it, heap, map>>

(* Mutant of Find: the key of another request is looked for. *)
FindOther(w) ==
  /\ pc[w] = "find"
  /\ Leave(w)
  /\ UNCHANGED <<opt, pBuff, it, heap, map>>

(* DeleteRecordData(0): m_optRecord.find. *)
Find(w) ==
  /\ pc[w] = "find"
  /\ it' = [it EXCEPT ![w] = entry]
  /\ \/ entry = 0 /\ Leave(w)
     \/ entry # 0 /\ pc' = [pc EXCEPT ![w] = "free"] /\ UNCHANGED pool
  /\ UNCHANGED <<opt, pBuff, heap, map>>

(* Mutant of Free: the message is not deleted. *)
FreeNothing(w) ==
  /\ pc[w] = "free" /\ it[w] = entry
  /\ pc' = [pc EXCEPT ![w] = "erase"]
  /\ UNCHANGED <<pool, opt, pBuff, it, heap, map>>

(* SAFE_DELETE(it->second): delete, when it is not NULL. *)
Free(w) ==
  /\ pc[w] = "free" /\ it[w] = entry /\ record \notin freed
  /\ freed' = freed \cup ({record} \ {0})
  /\ pc' = [pc EXCEPT ![w] = "erase"]
  /\ UNCHANGED <<pool, opt, pBuff, it, allocated, map>>

(* Mutant of Erase: the entry stays in the map with its pointer. *)
EraseForgotten(w) ==
  /\ pc[w] = "erase"
  /\ Leave(w)
  /\ it' = [it EXCEPT ![w] = 0]
  /\ UNCHANGED <<opt, pBuff, heap, map>>

(* it->second = NULL, and m_optRecord.erase(it). *)
Erase(w) ==
  /\ pc[w] = "erase" /\ it[w] = entry
  /\ Leave(w)
  /\ it' = [it EXCEPT ![w] = 0]
  /\ entry' = 0
  /\ record' = 0
  /\ UNCHANGED <<opt, pBuff, heap>>

Exchange(w) ==
  /\ \/ Send(w) \/ Lookup(w) \/ Assign(w) \/ ReqOpt_RecvCheckUid(w)
     \/ CheckUidRst(w) \/ Find(w) \/ Free(w) \/ Erase(w)
  /\ broken' = FALSE
  /\ met' = (met \/ Meeting')

(* What may happen instead: the tree is changed while another thread is in   *)
(* it, an entry is used that is no longer there, a message is deleted twice. *)
Break(w) ==
  /\ \/ \E v \in Workers \ {w} : InMap(v) /\ InMap(w) /\ (Changing(v) \/ Changing(w))
     \/ pc[w] \in {"assign"} \cup Deleting /\ it[w] # entry
     \/ pc[w] = "free" /\ record \in freed
  /\ broken' = TRUE
  /\ UNCHANGED <<pool, opt, pc, pBuff, it, heap, map, met>>

(* Once memory is broken anything may happen, and the model stops. *)
Next ==
  /\ ~ broken
  /\ \/ ReqOpt_CheckUid \/ Reclaim
     \/ \E w \in Workers : TestFunc(w) \/ Exchange(w) \/ Break(w)

Spec == Init /\ [][Next]_vars

(* Threads run, and the pool hands out the elements it has accepted. *)
Fairness ==
  /\ WF_vars(~ broken /\ \E w \in Workers : TestFunc(w))
  /\ \A w \in Workers : WF_vars(~ broken /\ (Exchange(w) \/ Break(w)))

FairSpec == Spec /\ Fairness

-----------------------------------------------------------------------------
InExchange(w) == pc[w] \in Writing \cup Reading \cup Deleting

(* A message in the record always has a thread on its way to delete it, also *)
(* when the pool refuses the element that would read the answer, or nothing  *)
(* was received (TestClient.cpp:74-75 and 96).                               *)
RecordHasOwner ==
  ~ broken /\ record # 0 => \E w \in Workers : pc[w] \in Reading \cup Deleting

(* Memory is deleted twice, an erased entry used or the tree broken only      *)
(* after two threads were at the entry at once, between operator[] and the   *)
(* assignment or between find and the end of erase, and one of them was      *)
(* deleting or inserting it (TestClient.cpp:74 and 117-121): one thread of   *)
(* the exchange alone, or behind another, does no harm.                      *)
BrokenOnlyByTwo == broken => met

(* Messages that are neither deleted nor in reach of a later delete. *)
Lost == (1 .. allocated) \ (freed \cup {record}
                                  \cup {pBuff[w] : w \in {v \in Workers : pc[v] \in Writing}})

(* A message gets lost only while two threads are in the exchange            *)
(* (TestClient.cpp:74 and 120-121): one check overwrites the record of the   *)
(* other, or erases the entry just filled.                                   *)
LostOnlyByTwo ==
  [][Lost' # Lost => \E v, w \in Workers : v # w /\ InExchange(v) /\ InExchange(w)]_vars

(* Every message is deleted in the end, whatever the pool refuses and        *)
(* whether or not an answer comes, unless it was lost (TestClient.cpp:96).   *)
MessageDeleted ==
  \A b \in Buffs : b <= allocated ~> b \in freed \/ b \in Lost \/ broken
=============================================================================
