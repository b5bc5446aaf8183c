----------------------------- MODULE ThreadPool -----------------------------
(* ThreadPool.cpp / ThreadPool.h: the pool's worker threads, the list of     *)
(* _ThreadElem they scan under m_csLocker, and AddElem as main() and the     *)
(* callbacks call it. Behaviours start when ThreadPool::Init has returned.   *)
(*                                                                           *)
(* Grain: a block under AUTO_LOCKER is one action. Reading the element that  *)
(* GetElem returned, the callback, and the two locked blocks of AddElem are  *)
(* separate actions, as the lock is released between them.                   *)
EXTENDS Integers, FiniteSets

CONSTANTS
  Threads,    \* the threads started by ThreadPool::Init
  Main,       \* the thread of main(), which adds elements too
  MaxElems,   \* MAX_THREAD_ELEMS
  Forever,    \* MAX_THREAD_RUNCOUNT
  TickMod,    \* timeGetTime() and every DWORD time counts modulo this (2^32)
  Params,     \* the _ThreadElem arguments callers pass
  MaxPushed   \* bound: how many elements a behaviour pushes

Actors == Threads \cup {Main}
Ids == 1 .. MaxPushed
Ticks == 0 .. TickMod - 1
ElemParam == [runCount : 0 .. Forever, startTime : Ticks, interval : Ticks]

ASSUME PoolAssumption ==
  /\ IsFiniteSet(Threads)
  /\ Main \notin Threads
  /\ MaxElems \in Nat
  /\ Forever \in Nat \ {0}
  /\ TickMod \in Nat \ {0}
  /\ Params \subseteq ElemParam
  /\ MaxPushed \in Nat

VARIABLES
  tick,       \* timeGetTime()
  m_elems,    \* the list; an element is named by its rank in the push_backs,
              \* so that the list order is the order of the names
  pushed,     \* number of push_backs so far
  runCount, startTime, interval,  \* the fields of each element
  pc,         \* where each thread is
  cur,        \* oneElem of each thread, 0 for NULL
  arg,        \* the argument of the AddElem call each thread is in
  held        \* milliseconds since GetElem gave cur to the thread (saturating)

vars == <<tick, m_elems, pushed, runCount, startTime, interval, pc, cur, arg, held>>

NoParam == [runCount |-> 0, startTime |-> 0, interval |-> 0]
Adding == {"space", "push"}
Busy == {"call", "run"} \cup Adding

ElemsOK ==
  /\ tick \in Ticks
  /\ pushed \in 0 .. MaxPushed
  /\ m_elems \subseteq 1 .. pushed
  /\ runCount \in [Ids -> 0 .. Forever]
  /\ startTime \in [Ids -> Ticks]
  /\ interval \in [Ids -> Ticks]

ThreadsOK ==
  /\ pc \in [Actors -> {"scan", "idle"} \cup Busy]
  /\ pc[Main] \in {"idle"} \cup Adding
  /\ cur \in [Threads -> 0 .. pushed]
  /\ \A t \in Threads : pc[t] \in Busy <=> cur[t] # 0
  /\ arg \in [Actors -> Params \cup {NoParam}]
  /\ \A a \in Actors : pc[a] \in Adding => arg[a] \in Params /\ arg[a].runCount # 0
  /\ held \in [Threads -> 0 .. TickMod]

(* A worker in a callback has a pushed element, one that scans has none. *)
TypeOK == ElemsOK /\ ThreadsOK

Init ==
  /\ tick \in Ticks
  /\ m_elems = {}
  /\ pushed = 0
  /\ runCount = [e \in Ids |-> 0]
  /\ startTime = [e \in Ids |-> 0]
  /\ interval = [e \in Ids |-> 0]
  /\ pc = [a \in Actors |-> IF a = Main THEN "idle" ELSE "scan"]
  /\ cur = [t \in Threads |-> 0]
  /\ arg = [a \in Actors |-> NoParam]
  /\ held = [t \in Threads |-> 0]

-----------------------------------------------------------------------------
(* Definitions marked "Mutant" are wrong on purpose: the runs must fail when  *)
(* one takes the place of the definition it is named after.                  *)

(* Mutant of Elapsed: signed arithmetic. *)
ElapsedSigned(e) == tick - startTime[e]

(* The DWORD subtraction of GetElem's test. *)
Elapsed(e) == (tick - startTime[e]) % TickMod

(* Mutants of Due: the deadline startTime + interval is computed, as a DWORD; *)
(* an element is due one millisecond early.                                  *)
DueByDeadline(e) == tick > (startTime[e] + interval[e]) % TickMod
DueEarly(e) == Elapsed(e) >= interval[e]

Due(e) == Elapsed(e) > interval[e]

Ready == {e \in m_elems : Due(e) /\ runCount[e] # 0}
Spent == {e \in m_elems : Due(e) /\ runCount[e] = 0}

(* Mutant of GetElemHit: an element that runs for ever is counted down. *)
GetElemHitCountsAll(t) ==
  /\ pc[t] = "scan"
  /\ \E e \in Ready :
       /\ \A f \in Ready : e <= f
       /\ m_elems' = m_elems \ {f \in Spent : f < e}
       /\ startTime' = [startTime EXCEPT ![e] = tick]
       /\ runCount' = [runCount EXCEPT ![e] = @ - 1]
       /\ cur' = [cur EXCEPT ![t] = e]
  /\ held' = [held EXCEPT ![t] = 0]
  /\ pc' = [pc EXCEPT ![t] = "call"]
  /\ UNCHANGED <<tick, pushed, interval, arg>>

(* GetElem returns the first due element that has a run left; the spent      *)
(* elements the scan passes on its way are deleted and erased.               *)
GetElemHit(t) ==
  /\ pc[t] = "scan"
  /\ \E e \in Ready :
       /\ \A f \in Ready : e <= f
       /\ m_elems' = m_elems \ {f \in Spent : f < e}
       /\ startTime' = [startTime EXCEPT ![e] = tick]
       /\ runCount' = [runCount EXCEPT ![e] = IF @ = Forever THEN @ ELSE @ - 1]
       /\ cur' = [cur EXCEPT ![t] = e]
  /\ held' = [held EXCEPT ![t] = 0]
  /\ pc' = [pc EXCEPT ![t] = "call"]
  /\ UNCHANGED <<tick, pushed, interval, arg>>

(* GetElem scans the whole list, deletes the spent elements and returns NULL. *)
GetElemMiss(t) ==
  /\ pc[t] = "scan"
  /\ Ready = {}
  /\ m_elems' = m_elems \ Spent
  /\ UNCHANGED <<tick, pushed, runCount, startTime, interval, pc, cur, arg, held>>

(* oneElem->callback(oneElem->pParam): the element is read without the lock. *)
Call(t) ==
  /\ pc[t] = "call"
  /\ pc' = [pc EXCEPT ![t] = "run"]
  /\ UNCHANGED <<tick, m_elems, pushed, runCount, startTime, interval, cur, arg, held>>

(* The callback returns; Sleep(1) ends at some later time, before the scan.  *)
Return(t) ==
  /\ pc[t] = "run"
  /\ pc' = [pc EXCEPT ![t] = "scan"]
  /\ cur' = [cur EXCEPT ![t] = 0]
  /\ held' = [held EXCEPT ![t] = 0]
  /\ UNCHANGED <<tick, m_elems, pushed, runCount, startTime, interval, arg>>

-----------------------------------------------------------------------------
(* Main adds when it is idle, a worker from inside a callback. *)
Home(a) == IF a = Main THEN "idle" ELSE "run"
Pushing == {a \in Actors : pc[a] = "push"}
Offering == {a \in Actors : pc[a] \in Adding}

(* AddElem's first test: an element without a run is refused. The first      *)
(* conjunct is the bound, not code.                                          *)
AddElem(a) ==
  /\ pushed + Cardinality(Offering) < MaxPushed
  /\ pc[a] = Home(a)
  /\ \E p \in Params :
       /\ p.runCount # 0 \/ p.runCount = Forever
       /\ arg' = [arg EXCEPT ![a] = p]
  /\ pc' = [pc EXCEPT ![a] = "space"]
  /\ UNCHANGED <<tick, m_elems, pushed, runCount, startTime, interval, cur, held>>

(* Mutant of HasSpace: <= for <. *)
HasSpaceOneMore(a) ==
  /\ pc[a] = "space"
  /\ Cardinality(m_elems) <= MaxElems
  /\ pc' = [pc EXCEPT ![a] = "push"]
  /\ UNCHANGED <<tick, m_elems, pushed, runCount, startTime, interval, cur, arg, held>>

(* HasSpace() takes and releases the lock; AddElem returns false without it. *)
HasSpace(a) ==
  /\ pc[a] = "space"
  /\ \/ /\ Cardinality(m_elems) < MaxElems
        /\ pc' = [pc EXCEPT ![a] = "push"]
        /\ UNCHANGED arg
     \/ /\ Cardinality(m_elems) >= MaxElems
        /\ pc' = [pc EXCEPT ![a] = Home(a)]
        /\ arg' = [arg EXCEPT ![a] = NoParam]
  /\ UNCHANGED <<tick, m_elems, pushed, runCount, startTime, interval, cur, held>>

(* m_elems.push_back(param), under the lock taken a second time. *)
Push(a) ==
  /\ pc[a] = "push"
  /\ pushed < MaxPushed
  /\ pushed' = pushed + 1
  /\ m_elems' = m_elems \cup {pushed + 1}
  /\ runCount' = [runCount EXCEPT ![pushed + 1] = arg[a].runCount]
  /\ startTime' = [startTime EXCEPT ![pushed + 1] = arg[a].startTime]
  /\ interval' = [interval EXCEPT ![pushed + 1] = arg[a].interval]
  /\ pc' = [pc EXCEPT ![a] = Home(a)]
  /\ arg' = [arg EXCEPT ![a] = NoParam]
  /\ UNCHANGED <<tick, cur, held>>

(* A millisecond passes. *)
Tick ==
  /\ tick' = (tick + 1) % TickMod
  /\ held' = [t \in Threads |->
                IF pc[t] \in Busy /\ held[t] < TickMod THEN held[t] + 1 ELSE held[t]]
  /\ UNCHANGED <<m_elems, pushed, runCount, startTime, interval, pc, cur, arg>>

Worker(t) == GetElemHit(t) \/ GetElemMiss(t) \/ Call(t) \/ Return(t)
Adder(a) == AddElem(a) \/ HasSpace(a) \/ Push(a)

Next ==
  \/ \E t \in Threads : Worker(t)
  \/ \E a \in Actors : Adder(a)
  \/ Tick

Spec == Init /\ [][Next]_vars

(* Some worker scans the list while e is due in it: it gets e or an element   *)
(* before e, or it deletes e.                                                *)
ScannedWhenDue(e) ==
  e \in m_elems /\ Due(e) /\ \E t \in Threads : GetElemHit(t) \/ GetElemMiss(t)

(* The scans keep up with the clock: an element that is due again and again  *)
(* is so when some worker scans. A worker scans every millisecond when it    *)
(* has nothing to run, and an element stays due for the rest of a turn of    *)
(* the clock (49 days less its interval), so that only callbacks that are    *)
(* late by a whole turn each time would miss it for ever. On the small       *)
(* clocks of the runs no fairness of the workers' steps alone says this.     *)
KeepsUp ==
  \A e \in Ids : []<>(e \in m_elems /\ Due(e)) => []<><<ScannedWhenDue(e)>>_vars

(* Time passes, callbacks return, and calls of AddElem end. The lock is not  *)
(* fair to a worker, but some worker gets it.                                *)
Fairness ==
  /\ WF_vars(Tick)
  /\ \A t \in Threads : WF_vars(Call(t)) /\ WF_vars(Return(t))
  /\ \A a \in Actors : WF_vars(HasSpace(a)) /\ WF_vars(Push(a))
  /\ KeepsUp

FairSpec == Spec /\ Fairness

-----------------------------------------------------------------------------
(* An element and its pParam are deleted while a worker still has to read    *)
(* them or runs the callback on them only when that worker has had them for  *)
(* more than the element's interval: GetElem of another worker deletes under *)
(* the lock, and nothing else keeps an element that is in use alive          *)
(* (ThreadPool.cpp:17-20 and 36-45).                                         *)
FreedOnlyAfterOverrun ==
  \A t \in Threads : LET e == cur[t] IN
    pc[t] \in Busy /\ e \notin m_elems => held[t] > interval[e]

(* Two workers are in the callback of one element at the same time only when *)
(* one of them has been in it for more than the interval: startTime is set   *)
(* in the locked block that hands the element out (ThreadPool.cpp:36-50).    *)
SharedOnlyAfterOverrun ==
  \A t, u \in Threads :
    t # u /\ pc[t] \in Busy /\ cur[t] = cur[u]
      => held[t] > interval[cur[t]] \/ held[u] > interval[cur[t]]

(* AddElem tests the length in one locked block and pushes in another        *)
(* (ThreadPool.cpp:103-109): the list outgrows MAX_THREAD_ELEMS, but by less *)
(* than the number of threads that add.                                      *)
CapacityOvershoot ==
  Cardinality(m_elems) + Cardinality(Pushing) < MaxElems + Cardinality(Actors)

(* An element whose interval is the largest DWORD is never due. *)
NeverDue(e) == interval[e] = TickMod - 1

(* GetElem will delete e at last: e has a finite number of runs, and no      *)
(* element that runs for ever and is ever due stands before it.              *)
Reclaimable(e) ==
  /\ runCount[e] # Forever /\ ~ NeverDue(e)
  /\ \A f \in m_elems : f < e => runCount[f] # Forever \/ NeverDue(f)

(* An element with a finite number of runs is run them all and deleted at    *)
(* last, behind others that are finite or never due and before any others.   *)
(* Behind one that runs for ever it may wait for ever: a scan starts at the  *)
(* front and returns at the first element that is due (ThreadPool.cpp:33-53).*)
Reclaimed == \A e \in Ids : e \in m_elems /\ Reclaimable(e) ~> e \notin m_elems

(* The pool keeps the ledger of TaskLedger. *)
Ledger == INSTANCE TaskLedger WITH
  MaxTasks <- MaxPushed, accepted <- pushed, live <- m_elems, left <- runCount,
  running <- cur
LedgerSpec == Ledger!Spec
=============================================================================
