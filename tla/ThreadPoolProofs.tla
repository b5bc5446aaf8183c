-------------------------- MODULE ThreadPoolProofs --------------------------
(* Theorems about ThreadPool, for any number of threads and elements, any    *)
(* capacity, any clock width and any arguments of AddElem; and about          *)
(* PoolStart, for any threads.                                                *)
EXTENDS ThreadPool, PoolStart, FiniteSetTheorems, TLAPS

-----------------------------------------------------------------------------
(* Facts about the DWORD subtraction of GetElem's test.                      *)

(* A difference of two clock values is a clock value. *)
LEMMA ElapsedRange ==
  ASSUME NEW M \in Nat \ {0}, NEW a \in 0 .. M - 1, NEW b \in 0 .. M - 1
  PROVE  /\ (a - b) % M \in 0 .. M - 1
         /\ a = b => (a - b) % M = 0
  OBVIOUS

(* The next clock value is a clock value. *)
LEMMA NextTick ==
  ASSUME NEW M \in Nat \ {0}, NEW a \in 0 .. M - 1
  PROVE  /\ (a + 1) % M \in 0 .. M - 1
         /\ (a + 1) % M = IF a = M - 1 THEN 0 ELSE a + 1
  OBVIOUS

(* A millisecond adds at most one to a difference, at the wrap as elsewhere. *)
LEMMA ElapsedStep ==
  ASSUME NEW M \in Nat \ {0}, NEW a \in 0 .. M - 1, NEW b \in 0 .. M - 1
  PROVE  (((a + 1) % M) - b) % M <= ((a - b) % M) + 1
<1>1. CASE a = M - 1
  <2>1. (a + 1) % M = 0
    BY <1>1, NextTick
  <2>2. (0 - b) % M = IF b = 0 THEN 0 ELSE M - b
    OBVIOUS
  <2>3. (a - b) % M = a - b
    BY <1>1
  <2>4. QED
    BY <1>1, <2>1, <2>2, <2>3
<1>2. CASE a # M - 1
  <2>1. (a + 1) % M = a + 1
    BY <1>2, NextTick
  <2>2. ((a + 1) - b) % M = IF a + 1 >= b THEN a + 1 - b ELSE a + 1 - b + M
    BY <1>2
  <2>3. (a - b) % M = IF a >= b THEN a - b ELSE a - b + M
    OBVIOUS
  <2>4. QED
    BY <1>2, <2>1, <2>2, <2>3
<1>3. QED
  BY <1>1, <1>2

-----------------------------------------------------------------------------
(* GetElem hands out an element of the list that has a run to give. *)
LEMMA ReadyElement ==
  ASSUME TypeOK, NEW e \in Ready
  PROVE  /\ e \in m_elems /\ e \in 1 .. pushed /\ e \in Ids
         /\ runCount[e] \in 0 .. Forever /\ runCount[e] - 1 \in 0 .. Forever
<1>1. e \in m_elems /\ e \in 1 .. pushed /\ pushed \in 0 .. MaxPushed /\ runCount[e] # 0
  BY DEF TypeOK, ElemsOK, Ready
<1>2. e \in Ids
  BY <1>1, PoolAssumption DEF PoolAssumption, Ids
<1>3. runCount[e] \in 0 .. Forever
  BY <1>2 DEF TypeOK, ElemsOK
<1>4. runCount[e] - 1 \in 0 .. Forever
  BY <1>1, <1>3, PoolAssumption DEF PoolAssumption
<1>5. QED
  BY <1>1, <1>2, <1>3, <1>4

(* The state of the pool keeps its type: the list holds pushed elements, a   *)
(* worker in a callback has an element, a worker that scans has none.        *)
THEOREM TypeCorrect == Spec => []TypeOK
<1> USE PoolAssumption DEF PoolAssumption
<1>1. Init => TypeOK
  BY DEF Init, TypeOK, ElemsOK, ThreadsOK, Ids, Ticks, Actors, Busy, Adding
<1>2. TypeOK /\ [Next]_vars => TypeOK'
  <2> SUFFICES ASSUME TypeOK, [Next]_vars PROVE TypeOK'
    OBVIOUS
  <2> DEFINE Callers == \A a \in Actors : pc[a] \in Adding =>
                          arg[a] \in Params /\ arg[a].runCount # 0
  <2>1. ASSUME NEW t \in Threads, GetElemHit(t) PROVE TypeOK'
    <3>1. PICK e \in Ready :
            /\ m_elems' = m_elems \ {f \in Spent : f < e}
            /\ startTime' = [startTime EXCEPT ![e] = tick]
            /\ runCount' = [runCount EXCEPT ![e] = IF @ = Forever THEN @ ELSE @ - 1]
            /\ cur' = [cur EXCEPT ![t] = e]
      BY <2>1 DEF GetElemHit
    <3>2. /\ e \in 1 .. pushed /\ e \in 0 .. pushed /\ e # 0 /\ e \in Ids
          /\ runCount[e] \in 0 .. Forever /\ runCount[e] - 1 \in 0 .. Forever
      BY ReadyElement
    <3>3. runCount' \in [Ids -> 0 .. Forever]
      BY <3>1, <3>2 DEF TypeOK, ElemsOK
    <3>4. ElemsOK'
      BY <2>1, <3>1, <3>3 DEF GetElemHit, TypeOK, ElemsOK
    <3>5. /\ pc' = [pc EXCEPT ![t] = "call"] /\ t # Main
          /\ held' = [held EXCEPT ![t] = 0]
          /\ pushed' = pushed /\ arg' = arg
      BY <2>1 DEF GetElemHit
    <3>6. pc' \in [Actors -> {"scan", "idle"} \cup Busy] /\ pc'[Main] = pc[Main]
      BY <3>5 DEF TypeOK, ThreadsOK, Busy, Actors
    <3>7. cur' \in [Threads -> 0 .. pushed'] /\ held' \in [Threads -> 0 .. TickMod]
      BY <3>1, <3>2, <3>5 DEF TypeOK, ThreadsOK
    <3>8. \A u \in Threads : pc'[u] \in Busy <=> cur'[u] # 0
      BY <3>1, <3>2, <3>5 DEF TypeOK, ThreadsOK, Busy, Actors
    <3>9. Callers'
      BY <3>5 DEF TypeOK, ThreadsOK, Adding
    <3>10. QED
      BY <3>4, <3>5, <3>6, <3>7, <3>8, <3>9 DEF TypeOK, ThreadsOK
  <2>2. ASSUME NEW t \in Threads, GetElemMiss(t) PROVE TypeOK'
    BY <2>2 DEF GetElemMiss, TypeOK, ElemsOK, ThreadsOK
  <2>3. ASSUME NEW t \in Threads, Call(t) PROVE TypeOK'
    BY <2>3 DEF Call, TypeOK, ElemsOK, ThreadsOK, Actors, Busy, Adding
  <2>4. ASSUME NEW t \in Threads, Return(t) PROVE TypeOK'
    <3>1. /\ pc' = [pc EXCEPT ![t] = "scan"] /\ t # Main
          /\ cur' = [cur EXCEPT ![t] = 0]
          /\ held' = [held EXCEPT ![t] = 0]
          /\ pushed' = pushed /\ arg' = arg
      BY <2>4 DEF Return
    <3>2. pc' \in [Actors -> {"scan", "idle"} \cup Busy] /\ pc'[Main] = pc[Main]
      BY <3>1 DEF TypeOK, ThreadsOK, Actors
    <3>3. cur' \in [Threads -> 0 .. pushed'] /\ held' \in [Threads -> 0 .. TickMod]
      BY <3>1 DEF TypeOK, ThreadsOK, ElemsOK
    <3>4. \A u \in Threads : pc'[u] \in Busy <=> cur'[u] # 0
      BY <3>1 DEF TypeOK, ThreadsOK, Busy, Adding, Actors
    <3>5. Callers'
      BY <3>1 DEF TypeOK, ThreadsOK, Adding
    <3>6. QED
      BY <2>4, <3>1, <3>2, <3>3, <3>4, <3>5 DEF Return, TypeOK, ThreadsOK, ElemsOK
  <2>5. ASSUME NEW a \in Actors, AddElem(a) PROVE TypeOK'
    <3>1. PICK p \in Params : p.runCount # 0 /\ arg' = [arg EXCEPT ![a] = p]
      BY <2>5 DEF AddElem
    <3>2. ElemsOK'
      BY <2>5 DEF AddElem, TypeOK, ElemsOK
    <3>3. QED
      BY <2>5, <3>1, <3>2 DEF AddElem, TypeOK, ThreadsOK, Home, Busy, Adding, Actors
  <2>6. ASSUME NEW a \in Actors, HasSpace(a) PROVE TypeOK'
    <3>1. ElemsOK'
      BY <2>6 DEF HasSpace, TypeOK, ElemsOK
    <3>2. QED
      BY <2>6, <3>1 DEF HasSpace, TypeOK, ThreadsOK, Home, Busy, Adding, Actors
  <2>7. ASSUME NEW a \in Actors, Push(a) PROVE TypeOK'
    <3>1. arg[a].runCount \in 0 .. Forever /\ arg[a].startTime \in Ticks
             /\ arg[a].interval \in Ticks
      BY <2>7 DEF Push, TypeOK, ThreadsOK, Adding, ElemParam
    <3>2. /\ pushed + 1 \in Ids /\ pushed' = pushed + 1
          /\ pushed' \in 0 .. MaxPushed
          /\ m_elems' \subseteq 1 .. pushed'
      BY <2>7 DEF Push, TypeOK, ElemsOK, Ids
    <3>3. ElemsOK'
      BY <2>7, <3>1, <3>2 DEF Push, TypeOK, ElemsOK
    <3>4. cur' \in [Threads -> 0 .. pushed'] /\ held' = held /\ cur' = cur
      BY <2>7, <3>2 DEF Push, TypeOK, ThreadsOK, ElemsOK
    <3>5. ThreadsOK'
      BY <2>7, <3>4 DEF Push, TypeOK, ThreadsOK, Home, Busy, Adding, Actors
    <3>6. QED
      BY <3>3, <3>5 DEF TypeOK
  <2>8. CASE Tick
    <3>1. tick' \in Ticks
      BY <2>8, NextTick DEF Tick, TypeOK, ElemsOK, Ticks
    <3>2. held' \in [Threads -> 0 .. TickMod]
      BY <2>8 DEF Tick, TypeOK, ThreadsOK
    <3>3. QED
      BY <2>8, <3>1, <3>2 DEF Tick, TypeOK, ElemsOK, ThreadsOK
  <2>9. CASE UNCHANGED vars
    BY <2>9 DEF vars, TypeOK, ElemsOK, ThreadsOK
  <2>10. QED
    BY <2>1, <2>2, <2>3, <2>4, <2>5, <2>6, <2>7, <2>8, <2>9
       DEF Next, Worker, Adder
<1>3. QED
  BY <1>1, <1>2, PTL DEF Spec

-----------------------------------------------------------------------------
(* The inductive invariant behind the two overrun properties: the time since *)
(* an element was last handed out is at most the time any worker has had it, *)
(* as startTime is set in the locked block that hands it out.                *)
Aged ==
  \A t \in Threads :
    pc[t] \in Busy /\ cur[t] \in m_elems => Elapsed(cur[t]) <= held[t]

OverrunInv == TypeOK /\ Aged /\ FreedOnlyAfterOverrun /\ SharedOnlyAfterOverrun

(* A busy worker has a pushed element. *)
LEMMA HeldElement ==
  ASSUME TypeOK, NEW t \in Threads, pc[t] \in Busy
  PROVE  cur[t] \in 1 .. pushed /\ cur[t] \in Ids /\ held[t] \in 0 .. TickMod
<1>1. cur[t] \in 0 .. pushed /\ cur[t] # 0 /\ pushed \in 0 .. MaxPushed
  BY DEF TypeOK, ElemsOK, ThreadsOK
<1>2. held[t] \in 0 .. TickMod
  BY DEF TypeOK, ElemsOK, ThreadsOK
<1>3. QED
  BY <1>1, <1>2, PoolAssumption DEF PoolAssumption, Ids

(* What a step of another thread leaves alone. *)
LEMMA FrameOverrun ==
  ASSUME OverrunInv, TypeOK',
         m_elems' = m_elems,
         \A t \in Threads : pc'[t] \in Busy =>
           pc[t] \in Busy /\ cur'[t] = cur[t] /\ held'[t] = held[t],
         \A e \in 1 .. pushed :
           startTime'[e] = startTime[e] /\ interval'[e] = interval[e],
         tick' = tick
  PROVE  OverrunInv'
<1> USE DEF OverrunInv, TypeOK, ElemsOK, ThreadsOK, Elapsed
<1>1. ASSUME NEW t \in Threads, pc'[t] \in Busy
      PROVE  /\ pc[t] \in Busy /\ cur'[t] = cur[t] /\ held'[t] = held[t]
             /\ cur[t] \in 1 .. pushed
  BY <1>1
<1>2. Aged'
  BY <1>1 DEF Aged
<1>3. FreedOnlyAfterOverrun'
  BY <1>1 DEF FreedOnlyAfterOverrun
<1>4. SharedOnlyAfterOverrun'
  <2> SUFFICES ASSUME NEW t \in Threads, NEW u \in Threads,
                      t # u, pc'[t] \in Busy, cur'[t] = cur'[u]
               PROVE  held'[t] > interval'[cur'[t]] \/ held'[u] > interval'[cur'[t]]
    BY DEF SharedOnlyAfterOverrun
  <2>1. cur'[u] # 0 /\ pc'[u] \in Busy
    BY <1>1
  <2>2. QED
    BY <1>1, <2>1 DEF SharedOnlyAfterOverrun
<1>5. QED
  BY <1>2, <1>3, <1>4

(* GetElem hands out e: whoever holds e or an element deleted by this scan   *)
(* has had it for longer than its interval, since the element was due.       *)
LEMMA HitOverrun ==
  ASSUME OverrunInv, TypeOK', NEW t0 \in Threads, GetElemHit(t0)
  PROVE  OverrunInv'
<1> USE PoolAssumption DEF OverrunInv, TypeOK, ElemsOK, ThreadsOK, Ids, Ticks
<1>1. PICK e \in Ready :
        /\ m_elems' = m_elems \ {f \in Spent : f < e}
        /\ startTime' = [startTime EXCEPT ![e] = tick]
        /\ cur' = [cur EXCEPT ![t0] = e]
  BY DEF GetElemHit
<1>2. /\ e \in m_elems /\ e \in m_elems' /\ e \in Ids
      /\ Elapsed(e) > interval[e]
      /\ interval' = interval /\ tick' = tick
      /\ held' = [held EXCEPT ![t0] = 0]
      /\ pc' = [pc EXCEPT ![t0] = "call"]
  BY <1>1 DEF GetElemHit, Ready, Spent, Due
<1>3. \A f \in m_elems : f \notin m_elems' => Elapsed(f) > interval[f]
  BY <1>1 DEF Spent, Due
<1>4. /\ Elapsed(e)' = 0
      /\ \A f \in Ids : f # e => Elapsed(f)' = Elapsed(f)
  <2>1. startTime'[e] = tick
    BY <1>1, <1>2
  <2>2. (tick - tick) % TickMod = 0
    BY ElapsedRange
  <2>3. QED
    BY <1>1, <1>2, <2>1, <2>2 DEF Elapsed
<1>5. ASSUME NEW t \in Threads, t # t0, pc'[t] \in Busy
      PROVE  /\ pc[t] \in Busy /\ cur'[t] = cur[t] /\ held'[t] = held[t]
             /\ cur[t] \in 1 .. pushed /\ cur[t] \in Ids
             /\ cur[t] \in m_elems => Elapsed(cur[t]) <= held[t]
             /\ held[t] \in 0 .. TickMod
  <2>1. pc[t] \in Busy /\ cur'[t] = cur[t] /\ held'[t] = held[t]
    BY <1>1, <1>2, <1>5
  <2>2. cur[t] \in 1 .. pushed /\ cur[t] \in Ids /\ held[t] \in 0 .. TickMod
    BY <2>1, HeldElement
  <2>3. cur[t] \in m_elems => Elapsed(cur[t]) <= held[t]
    BY <2>1 DEF Aged
  <2>4. QED
    BY <2>1, <2>2, <2>3
<1>6. cur'[t0] = e /\ held'[t0] = 0 /\ \A t \in Threads : held'[t] \in 0 .. TickMod
  BY <1>1, <1>2
<1>7. Aged'
  <2> SUFFICES ASSUME NEW t \in Threads, pc'[t] \in Busy, cur'[t] \in m_elems'
               PROVE  Elapsed(cur[t])' <= held'[t]
    BY DEF Aged
  <2>1. CASE cur'[t] = e
    BY <2>1, <1>4, <1>6
  <2>2. CASE cur'[t] # e
    <3>1. t # t0
      BY <2>2, <1>6
    <3>2. /\ cur'[t] = cur[t] /\ held'[t] = held[t] /\ cur[t] \in Ids
          /\ cur[t] \in m_elems => Elapsed(cur[t]) <= held[t]
      BY <3>1, <1>5
    <3>3. cur[t] \in m_elems
      BY <3>2, <1>1
    <3>4. QED
      BY <2>2, <3>2, <3>3, <1>4
  <2>3. QED
    BY <2>1, <2>2
<1>8. FreedOnlyAfterOverrun'
  <2> SUFFICES ASSUME NEW t \in Threads, pc'[t] \in Busy, cur'[t] \notin m_elems'
               PROVE  held'[t] > interval'[cur'[t]]
    BY DEF FreedOnlyAfterOverrun
  <2>1. t # t0
    BY <1>2, <1>6
  <2>2. CASE cur[t] \in m_elems
    <3>1. Elapsed(cur[t]) > interval[cur[t]] /\ Elapsed(cur[t]) <= held[t]
      BY <2>1, <2>2, <1>3, <1>5
    <3>2. interval[cur[t]] \in Ticks /\ Elapsed(cur[t]) \in Ticks
      BY <2>1, <1>5, ElapsedRange DEF Elapsed
    <3>3. held'[t] = held[t] /\ cur'[t] = cur[t] /\ held[t] \in 0 .. TickMod
      BY <2>1, <1>5
    <3>4. held[t] > interval[cur[t]]
      BY <3>1, <3>2, <3>3
    <3>5. QED
      BY <3>3, <3>4, <1>2
  <2>3. CASE cur[t] \notin m_elems
    BY <2>1, <2>3, <1>2, <1>5 DEF FreedOnlyAfterOverrun
  <2>4. QED
    BY <2>2, <2>3
<1>9. SharedOnlyAfterOverrun'
  <2>1. ASSUME NEW t \in Threads, t # t0, pc'[t] \in Busy, cur'[t] = e
        PROVE  held'[t] > interval'[e]
    <3>1. Elapsed(e) <= held[t] /\ held'[t] = held[t]
      BY <2>1, <1>2, <1>5
    <3>2. interval[e] \in Ticks /\ Elapsed(e) \in Ticks /\ held[t] \in 0 .. TickMod
      BY <2>1, <1>2, <1>5, ElapsedRange DEF Elapsed
    <3>3. QED
      BY <3>1, <3>2, <1>2
  <2> SUFFICES ASSUME NEW t \in Threads, NEW u \in Threads,
                      t # u, pc'[t] \in Busy, cur'[t] = cur'[u]
               PROVE  held'[t] > interval'[cur'[t]] \/ held'[u] > interval'[cur'[t]]
    BY DEF SharedOnlyAfterOverrun
  <2>2. pc'[u] \in Busy
    BY DEF TypeOK, ElemsOK, ThreadsOK
  <2>3. CASE cur'[t] = e
    BY <2>1, <2>2, <2>3
  <2>4. CASE cur'[t] # e
    <3>1. t # t0 /\ u # t0
      BY <2>4, <1>6
    <3>2. QED
      BY <2>2, <3>1, <1>2, <1>5 DEF SharedOnlyAfterOverrun
  <2>5. QED
    BY <2>3, <2>4
<1>10. QED
  BY <1>7, <1>8, <1>9

(* A scan that returns NULL deletes spent elements, all of them due. *)
LEMMA MissOverrun ==
  ASSUME OverrunInv, NEW t0 \in Threads, GetElemMiss(t0)
  PROVE  Aged' /\ FreedOnlyAfterOverrun' /\ SharedOnlyAfterOverrun'
<1> USE PoolAssumption DEF OverrunInv, Ids, Ticks
<1>1. /\ m_elems' = m_elems \ Spent
      /\ UNCHANGED <<tick, pushed, runCount, startTime, interval, pc, cur, arg, held>>
  BY DEF GetElemMiss
<1>2. \A f : Elapsed(f)' = Elapsed(f)
  BY <1>1 DEF Elapsed
<1>3. Aged'
  BY <1>1, <1>2 DEF Aged
<1>4. FreedOnlyAfterOverrun'
  <2> SUFFICES ASSUME NEW t \in Threads, pc[t] \in Busy, cur[t] \notin m_elems'
               PROVE  held[t] > interval[cur[t]]
    BY <1>1 DEF FreedOnlyAfterOverrun
  <2>1. CASE cur[t] \in m_elems
    <3>1. Elapsed(cur[t]) > interval[cur[t]] /\ Elapsed(cur[t]) <= held[t]
      BY <2>1, <1>1 DEF Aged, Spent, Due
    <3>2. cur[t] \in Ids /\ held[t] \in 0 .. TickMod
      BY HeldElement
    <3>3. interval[cur[t]] \in Ticks /\ Elapsed(cur[t]) \in Ticks
      BY <3>2, ElapsedRange DEF Elapsed, TypeOK, ElemsOK, ThreadsOK
    <3>4. QED
      BY <3>1, <3>2, <3>3
  <2>2. CASE cur[t] \notin m_elems
    BY <2>2 DEF FreedOnlyAfterOverrun
  <2>3. QED
    BY <2>1, <2>2
<1>5. SharedOnlyAfterOverrun'
  BY <1>1 DEF SharedOnlyAfterOverrun
<1>6. QED
  BY <1>3, <1>4, <1>5

(* A pushed element is new: no worker has it yet. *)
LEMMA PushOverrun ==
  ASSUME OverrunInv, NEW a \in Actors, Push(a)
  PROVE  Aged' /\ FreedOnlyAfterOverrun' /\ SharedOnlyAfterOverrun'
<1> USE PoolAssumption DEF OverrunInv
<1>1. /\ m_elems' = m_elems \cup {pushed + 1}
      /\ UNCHANGED <<tick, cur, held>>
      /\ pushed + 1 \in Ids
      /\ \A f \in Ids : f # pushed + 1 =>
            startTime'[f] = startTime[f] /\ interval'[f] = interval[f]
  BY DEF Push, TypeOK, ElemsOK, ThreadsOK, Ids
<1>2. ASSUME NEW t \in Threads, pc'[t] \in Busy
      PROVE  pc[t] \in Busy
  BY <1>2 DEF Push, TypeOK, ElemsOK, ThreadsOK, Busy, Adding, Home
<1>3. ASSUME NEW t \in Threads, pc'[t] \in Busy
      PROVE  /\ cur[t] \in Ids /\ cur[t] # pushed + 1
             /\ Elapsed(cur[t])' = Elapsed(cur[t])
             /\ interval'[cur[t]] = interval[cur[t]]
  <2>1. cur[t] \in 1 .. pushed /\ cur[t] \in Ids
    BY <1>2, <1>3, HeldElement
  <2>2. cur[t] # pushed + 1
    BY <2>1 DEF TypeOK, ElemsOK, ThreadsOK
  <2>3. QED
    BY <2>1, <2>2, <1>1 DEF Elapsed
<1>4. Aged'
  BY <1>1, <1>2, <1>3 DEF Aged
<1>5. FreedOnlyAfterOverrun'
  BY <1>1, <1>2, <1>3 DEF FreedOnlyAfterOverrun
<1>6. SharedOnlyAfterOverrun'
  BY <1>1, <1>2, <1>3 DEF SharedOnlyAfterOverrun
<1>7. QED
  BY <1>4, <1>5, <1>6

(* A millisecond adds one to what every busy worker has had, and at most one *)
(* to the time since an element was handed out.                              *)
LEMMA TickOverrun ==
  ASSUME OverrunInv, Tick
  PROVE  Aged' /\ FreedOnlyAfterOverrun' /\ SharedOnlyAfterOverrun'
<1> USE PoolAssumption DEF OverrunInv
<1>1. UNCHANGED <<m_elems, pushed, runCount, startTime, interval, pc, cur, arg>>
  BY DEF Tick
<1>2. ASSUME NEW t \in Threads, pc[t] \in Busy
      PROVE  /\ cur[t] \in Ids /\ held[t] \in 0 .. TickMod
             /\ held'[t] = IF held[t] < TickMod THEN held[t] + 1 ELSE held[t]
             /\ interval[cur[t]] \in Ticks
  BY <1>2, HeldElement DEF Tick, TypeOK, ElemsOK, ThreadsOK
<1>3. ASSUME NEW e \in Ids
      PROVE  Elapsed(e)' <= Elapsed(e) + 1 /\ Elapsed(e)' \in Ticks /\ Elapsed(e) \in Ticks
  <2>1. startTime[e] \in Ticks /\ tick \in Ticks /\ tick' \in Ticks
    BY NextTick DEF TypeOK, ElemsOK, ThreadsOK, Tick, Ticks
  <2>2. tick' = (tick + 1) % TickMod
    BY DEF Tick
  <2>3. QED
    BY <2>1, <2>2, <1>1, ElapsedStep, ElapsedRange DEF Elapsed, Ticks
<1>4. Aged'
  <2> SUFFICES ASSUME NEW t \in Threads, pc[t] \in Busy, cur[t] \in m_elems
               PROVE  Elapsed(cur[t])' <= held'[t]
    BY <1>1 DEF Aged
  <2>1. Elapsed(cur[t]) <= held[t]
    BY DEF Aged
  <2>2. QED
    BY <2>1, <1>1, <1>2, <1>3 DEF Ticks
<1>5. ASSUME NEW t \in Threads, pc[t] \in Busy, held[t] > interval[cur[t]]
      PROVE  held'[t] > interval[cur[t]]
  BY <1>2, <1>5 DEF Ticks
<1>6. FreedOnlyAfterOverrun'
  BY <1>1, <1>5 DEF FreedOnlyAfterOverrun
<1>7. SharedOnlyAfterOverrun'
  <2> SUFFICES ASSUME NEW t \in Threads, NEW u \in Threads,
                      t # u, pc[t] \in Busy, cur[t] = cur[u]
               PROVE  held'[t] > interval[cur[t]] \/ held'[u] > interval[cur[t]]
    BY <1>1 DEF SharedOnlyAfterOverrun
  <2>1. pc[u] \in Busy
    BY DEF TypeOK, ElemsOK, ThreadsOK
  <2>2. held[t] > interval[cur[t]] \/ held[u] > interval[cur[t]]
    BY DEF SharedOnlyAfterOverrun
  <2>3. QED
    BY <2>1, <2>2, <1>5
<1>8. QED
  BY <1>4, <1>6, <1>7

THEOREM OverrunInvariant == Spec => []OverrunInv
<1>1. Init => Aged /\ FreedOnlyAfterOverrun /\ SharedOnlyAfterOverrun
  BY PoolAssumption DEF Init, Aged, FreedOnlyAfterOverrun, SharedOnlyAfterOverrun,
       Actors, Busy, Adding, PoolAssumption
<1>2. OverrunInv /\ TypeOK' /\ [Next]_vars => OverrunInv'
  <2> SUFFICES ASSUME OverrunInv, TypeOK', [Next]_vars PROVE OverrunInv'
    OBVIOUS
  <2>1. ASSUME NEW t \in Threads, GetElemHit(t) PROVE OverrunInv'
    BY <2>1, HitOverrun
  <2>2. ASSUME NEW t \in Threads, GetElemMiss(t) PROVE OverrunInv'
    BY <2>2, MissOverrun DEF OverrunInv
  <2>3. ASSUME NEW t \in Threads, Call(t) PROVE OverrunInv'
    BY <2>3, FrameOverrun DEF Call, OverrunInv, TypeOK, ElemsOK, ThreadsOK, Busy
  <2>4. ASSUME NEW t \in Threads, Return(t) PROVE OverrunInv'
    BY <2>4, FrameOverrun DEF Return, OverrunInv, TypeOK, ElemsOK, ThreadsOK, Busy, Adding
  <2>5. ASSUME NEW a \in Actors, AddElem(a) PROVE OverrunInv'
    BY <2>5, FrameOverrun, PoolAssumption
       DEF AddElem, OverrunInv, TypeOK, ElemsOK, ThreadsOK, Busy, Adding, Home, PoolAssumption
  <2>6. ASSUME NEW a \in Actors, HasSpace(a) PROVE OverrunInv'
    BY <2>6, FrameOverrun, PoolAssumption
       DEF HasSpace, OverrunInv, TypeOK, ElemsOK, ThreadsOK, Busy, Adding, Home, PoolAssumption
  <2>7. ASSUME NEW a \in Actors, Push(a) PROVE OverrunInv'
    BY <2>7, PushOverrun DEF OverrunInv
  <2>8. CASE Tick
    BY <2>8, TickOverrun DEF OverrunInv
  <2>9. CASE UNCHANGED vars
    BY <2>9, FrameOverrun DEF vars
  <2>10. QED
    BY <2>1, <2>2, <2>3, <2>4, <2>5, <2>6, <2>7, <2>8, <2>9
       DEF Next, Worker, Adder
<1>3. QED
  BY <1>1, <1>2, TypeCorrect, PTL DEF Spec, OverrunInv

(* An element is freed under a worker only after an overrun (ThreadPool.cpp:36-45). *)
THEOREM FreedAfterOverrun == Spec => []FreedOnlyAfterOverrun
  BY OverrunInvariant, PTL DEF OverrunInv

(* Two workers share an element only after an overrun (ThreadPool.cpp:36-50). *)
THEOREM SharedAfterOverrun == Spec => []SharedOnlyAfterOverrun
  BY OverrunInvariant, PTL DEF OverrunInv

-----------------------------------------------------------------------------
(* The list and the set of adding threads are finite. *)
LEMMA FiniteList ==
  ASSUME TypeOK
  PROVE  /\ IsFiniteSet(m_elems) /\ Cardinality(m_elems) \in Nat
         /\ IsFiniteSet(Pushing) /\ Cardinality(Pushing) \in Nat
         /\ IsFiniteSet(Actors) /\ Cardinality(Actors) \in Nat
         /\ Cardinality(Pushing) <= Cardinality(Actors)
         /\ Cardinality(Actors) > 0
<1>1. m_elems \subseteq 1 .. pushed /\ IsFiniteSet(1 .. pushed)
  BY FS_Interval, PoolAssumption DEF TypeOK, ElemsOK, PoolAssumption
<1>2. IsFiniteSet(m_elems)
  BY <1>1, FS_Subset
<1>3. IsFiniteSet(Actors)
  BY FS_Singleton, FS_Union, PoolAssumption DEF Actors, PoolAssumption
<1>4. Pushing \subseteq Actors
  BY DEF Pushing
<1>5. IsFiniteSet(Pushing) /\ Cardinality(Pushing) <= Cardinality(Actors)
  BY <1>3, <1>4, FS_Subset
<1>6. Actors # {}
  BY DEF Actors
<1>7. QED
  BY <1>2, <1>3, <1>5, <1>6, FS_CardinalityType, FS_EmptySet

(* A step that only takes elements off the list, or threads out of the gap   *)
(* between the test and the push, keeps the bound.                           *)
LEMMA ShrinkKeepsBound ==
  ASSUME TypeOK, TypeOK', CapacityOvershoot,
         m_elems' \subseteq m_elems, Pushing' \subseteq Pushing
  PROVE  CapacityOvershoot'
<1>1. Cardinality(m_elems') <= Cardinality(m_elems) /\ Cardinality(m_elems') \in Nat
  BY FiniteList, FS_Subset, FS_CardinalityType
<1>2. Cardinality(Pushing') <= Cardinality(Pushing) /\ Cardinality(Pushing') \in Nat
  BY FiniteList, FS_Subset, FS_CardinalityType
<1>3. Cardinality(m_elems) + Cardinality(Pushing) < MaxElems + Cardinality(Actors)
  BY DEF CapacityOvershoot
<1>4. Cardinality(m_elems') + Cardinality(Pushing') < MaxElems + Cardinality(Actors)
  BY <1>1, <1>2, <1>3, FiniteList, PoolAssumption DEF PoolAssumption
<1>5. QED
  BY <1>4 DEF CapacityOvershoot, Actors

(* The test of the length and the push are two locked blocks, so the list    *)
(* outgrows MAX_THREAD_ELEMS, by less than the number of threads that add    *)
(* (ThreadPool.cpp:103-109).                                                 *)
THEOREM CapacityBound == Spec => []CapacityOvershoot
<1> USE PoolAssumption DEF PoolAssumption
<1>1. Init /\ TypeOK => CapacityOvershoot
  <2> SUFFICES ASSUME Init, TypeOK PROVE CapacityOvershoot
    OBVIOUS
  <2>1. m_elems = {} /\ Pushing = {}
    BY DEF Init, Pushing, Actors
  <2>2. QED
    BY <2>1, FiniteList, FS_EmptySet DEF CapacityOvershoot
<1>2. TypeOK /\ TypeOK' /\ CapacityOvershoot /\ [Next]_vars => CapacityOvershoot'
  <2> SUFFICES ASSUME TypeOK, TypeOK', CapacityOvershoot, [Next]_vars
               PROVE  CapacityOvershoot'
    OBVIOUS
  <2>1. ASSUME NEW t \in Threads, Worker(t) PROVE CapacityOvershoot'
    <3>1. m_elems' \subseteq m_elems
      BY <2>1 DEF Worker, GetElemHit, GetElemMiss, Call, Return
    <3>2. Pushing' \subseteq Pushing
      BY <2>1 DEF Worker, GetElemHit, GetElemMiss, Call, Return, Pushing,
                  TypeOK, ThreadsOK
    <3>3. QED
      BY <3>1, <3>2, ShrinkKeepsBound
  <2>2. ASSUME NEW a \in Actors, AddElem(a) PROVE CapacityOvershoot'
    BY <2>2, ShrinkKeepsBound DEF AddElem, Pushing, TypeOK, ThreadsOK
  <2>3. ASSUME NEW a \in Actors, HasSpace(a) PROVE CapacityOvershoot'
    <3>1. CASE Cardinality(m_elems) < MaxElems
      <4>1. m_elems' = m_elems
        BY <2>3 DEF HasSpace
      <4>2. Cardinality(Pushing') <= Cardinality(Actors) /\ Cardinality(Pushing') \in Nat
        <5>1. Pushing' \subseteq Actors
          BY DEF Pushing
        <5>2. QED
          BY <5>1, FiniteList, FS_Subset, FS_CardinalityType
      <4>3. Cardinality(m_elems') + Cardinality(Pushing') < MaxElems + Cardinality(Actors)
        BY <3>1, <4>1, <4>2, FiniteList
      <4>4. QED
        BY <4>3 DEF CapacityOvershoot
    <3>2. CASE ~(Cardinality(m_elems) < MaxElems)
      BY <2>3, <3>2, ShrinkKeepsBound DEF HasSpace, Pushing, Home, TypeOK, ThreadsOK
    <3>3. QED
      BY <3>1, <3>2
  <2>4. ASSUME NEW a \in Actors, Push(a) PROVE CapacityOvershoot'
    <3>1. a \in Pushing /\ Pushing' = Pushing \ {a}
      BY <2>4 DEF Push, Pushing, Home, TypeOK, ThreadsOK
    <3>2. m_elems' = m_elems \cup {pushed + 1}
      BY <2>4 DEF Push
    <3>3. Cardinality(Pushing') = Cardinality(Pushing) - 1
      BY <3>1, FiniteList, FS_RemoveElement
    <3>4. Cardinality(m_elems') <= Cardinality(m_elems) + 1 /\ Cardinality(m_elems') \in Nat
      <4>1. Cardinality(m_elems \cup {pushed + 1}) =
              IF pushed + 1 \in m_elems THEN Cardinality(m_elems) ELSE Cardinality(m_elems) + 1
        BY FiniteList, FS_AddElement
      <4>2. QED
        BY <3>2, <4>1, FiniteList
    <3>5. Cardinality(m_elems) + Cardinality(Pushing) < MaxElems + Cardinality(Actors)
      BY DEF CapacityOvershoot
    <3>6. Cardinality(m_elems') + Cardinality(Pushing') < MaxElems + Cardinality(Actors)
      BY <3>3, <3>4, <3>5, FiniteList
    <3>7. QED
      BY <3>6 DEF CapacityOvershoot
  <2>5. CASE Tick
    BY <2>5, ShrinkKeepsBound DEF Tick, Pushing
  <2>6. CASE UNCHANGED vars
    BY <2>6, ShrinkKeepsBound DEF vars, Pushing
  <2>7. QED
    BY <2>1, <2>2, <2>3, <2>4, <2>5, <2>6 DEF Next, Adder
<1>3. QED
  BY <1>1, <1>2, TypeCorrect, PTL DEF Spec

-----------------------------------------------------------------------------
(* The pool implements the ledger: each time GetElem gives an element to a    *)
(* thread it counts one of the element's runs, and no run otherwise; it gives *)
(* out no element without a run left and deletes only such, also while        *)
(* another thread is in the last run; what was deleted does not come back     *)
(* (ThreadPool.cpp:26-55 and 96-111).                                         *)
THEOREM LedgerRefinement == Spec => LedgerSpec
<1> USE PoolAssumption DEF PoolAssumption
<1>1. Init => Ledger!Init
  BY DEF Init, Ledger!Init, Ledger!Tasks, Ids
<1>2. TypeOK /\ [Next]_vars => [Ledger!Next]_Ledger!vars
  <2> SUFFICES ASSUME TypeOK, [Next]_vars PROVE [Ledger!Next]_Ledger!vars
    OBVIOUS
  <2>1. ASSUME NEW t \in Threads, GetElemHit(t) PROVE Ledger!Hand(t)
    <3>1. PICK e \in Ready :
            /\ m_elems' = m_elems \ {f \in Spent : f < e}
            /\ runCount' = [runCount EXCEPT ![e] = IF @ = Forever THEN @ ELSE @ - 1]
            /\ cur' = [cur EXCEPT ![t] = e]
      BY <2>1 DEF GetElemHit
    <3>2. {f \in Spent : f < e} \in SUBSET Ledger!Retirable
      BY DEF Spent, Ledger!Retirable
    <3>3. e \in m_elems \ Ledger!Retirable
      BY <3>1 DEF Ready, Ledger!Retirable
    <3>4. UNCHANGED pushed /\ cur[t] = 0
      BY <2>1 DEF GetElemHit, TypeOK, ThreadsOK, Busy, Adding
    <3>5. QED
      BY <3>1, <3>2, <3>3, <3>4 DEF Ledger!Hand, Ledger!Discard
  <2>2. ASSUME NEW t \in Threads, GetElemMiss(t) PROVE Ledger!Pass
    <3>1. Spent \in SUBSET Ledger!Retirable
      BY DEF Spent, Ledger!Retirable
    <3>2. QED
      BY <2>2, <3>1 DEF GetElemMiss, Ledger!Pass, Ledger!Discard
  <2>3. ASSUME NEW a \in Actors, Push(a) PROVE Ledger!Accept
    <3>1. arg[a].runCount \in 1 .. Forever
      BY <2>3 DEF Push, TypeOK, ThreadsOK, Adding, ElemParam
    <3>2. QED
      BY <2>3, <3>1 DEF Push, Ledger!Accept
  <2>4. ASSUME NEW t \in Threads, Return(t) PROVE Ledger!Release(t)
    <3>1. cur[t] # 0
      BY <2>4 DEF Return, TypeOK, ThreadsOK, Busy
    <3>2. QED
      BY <2>4, <3>1 DEF Return, Ledger!Release
  <2>5. ASSUME \/ \E t \in Threads : Call(t)
               \/ \E a \in Actors : AddElem(a) \/ HasSpace(a)
               \/ Tick \/ UNCHANGED vars
        PROVE  UNCHANGED Ledger!vars
    BY <2>5 DEF Call, AddElem, HasSpace, Tick, vars, Ledger!vars
  <2>6. QED
    BY <2>1, <2>2, <2>3, <2>4, <2>5 DEF Next, Worker, Adder, Ledger!Next
<1>3. QED
  BY <1>1, <1>2, TypeCorrect, PTL DEF Spec, LedgerSpec, Ledger!Spec
-----------------------------------------------------------------------------
(* PoolStart: how the threads are started, for any threads.                   *)

(* Init initialises the section, and main() enters it only afterwards; the section   *)
(* is spoiled, or does not know of a thread inside, only when one of the      *)
(* workers was overtaken. While it is held it knows of at most one thread     *)
(* inside, and when nobody was overtaken there is no other.                   *)
SectionOK ==
  /\ at[Starter] \in {"spawn", "init"} <=> m_cs = "raw"
  /\ m_cs = "raw" => ~ overtaken /\ unowned = Inside
  /\ m_cs = "held" => \A t, u \in Inside \ unowned : t = u
  /\ m_cs # "raw" /\ ~ overtaken =>
       /\ m_cs \in {"free", "held"} /\ unowned = {}
       /\ m_cs = "free" => Inside = {}
       /\ \A t, u \in Inside : t = u

StartInv == StartTypeOK /\ SectionOK

LEMMA StartEstablishes == ASSUME StartInit PROVE StartInv
<1>1. Inside = {} /\ at[Starter] = "spawn" /\ at \in [Entrants -> Places]
  BY DEF StartInit, Inside, Entrants, Places
<1>2. StartTypeOK
  BY <1>1 DEF StartInit, StartTypeOK
<1>3. SectionOK
  BY <1>1 DEF StartInit, SectionOK
<1>4. QED
  BY <1>2, <1>3 DEF StartInv

LEMMA PlacesAre ==
  \A x \in {"unborn", "failed", "spawn", "init", "out", "enter", "inside", "hung", "done",
            "crashed"} : x \in Places
  BY DEF Places

(* What one thread's step does to the set of threads inside.                  *)
LEMMA InsideAfter ==
  ASSUME StartTypeOK, NEW t \in Entrants, NEW to \in Places, at' = [at EXCEPT ![t] = to]
  PROVE  /\ at' \in [Entrants -> Places]
         /\ at'[t] = to
         /\ \A u \in Entrants \ {t} : at'[u] = at[u]
         /\ Inside' = IF to = "inside" THEN Inside \cup {t} ELSE Inside \ {t}
         /\ t \notin Inside /\ to # "inside" => Inside' = Inside
<1>1. /\ at' \in [Entrants -> Places]
      /\ at'[t] = to /\ \A u \in Entrants \ {t} : at'[u] = at[u]
  BY DEF StartTypeOK
<1>2. QED
  BY <1>1 DEF Inside

(* Init starts the threads.                                                    *)
LEMMA SpawnKeeps == ASSUME StartInv, NEW w \in Workers, Spawn(w) PROVE StartInv'
<1>0. StartTypeOK
  BY DEF StartInv
<1>1. PICK to \in {"enter", "failed"} : at' = [at EXCEPT ![w] = to]
  BY DEF Spawn
<1>2. w \in Entrants /\ Starter \in Entrants /\ w # Starter /\ w \notin Inside
  BY StartAssumption DEF Spawn, Entrants, Inside
<1>3. at' \in [Entrants -> Places] /\ Inside' = Inside /\ at'[Starter] = at[Starter]
  BY <1>0, <1>1, <1>2, InsideAfter, PlacesAre
<1>4. StartTypeOK'
  BY <1>3 DEF Spawn, StartInv, StartTypeOK
<1>5. SectionOK'
  BY <1>3 DEF Spawn, StartInv, SectionOK
<1>6. QED
  BY <1>4, <1>5 DEF StartInv

LEMMA SpawnedKeeps == ASSUME StartInv, Spawned PROVE StartInv'
<1>0. StartTypeOK
  BY DEF StartInv
<1>1. Starter \in Entrants /\ Starter \notin Inside
  BY DEF Spawned, Entrants, Inside
<1>2. at' \in [Entrants -> Places] /\ Inside' = Inside /\ at'[Starter] = "init"
  BY <1>0, <1>1, InsideAfter, PlacesAre DEF Spawned
<1>3. StartTypeOK'
  BY <1>2 DEF Spawned, StartInv, StartTypeOK
<1>4. SectionOK'
  BY <1>2 DEF Spawned, StartInv, SectionOK
<1>5. QED
  BY <1>3, <1>4 DEF StartInv

LEMMA InitLockerKeeps == ASSUME StartInv, InitLocker PROVE StartInv'
<1>0. StartTypeOK
  BY DEF StartInv
<1>1. Starter \in Entrants /\ Starter \notin Inside
  BY DEF InitLocker, Entrants, Inside
<1>2. at' \in [Entrants -> Places] /\ Inside' = Inside /\ at'[Starter] = "enter"
  BY <1>0, <1>1, InsideAfter, PlacesAre DEF InitLocker
<1>3. m_cs = "raw" /\ unowned = Inside
  BY DEF InitLocker, StartInv, SectionOK
<1>4. StartTypeOK'
  BY <1>2, <1>3 DEF InitLocker, StartInv, StartTypeOK
<1>5. SectionOK'
  BY <1>2, <1>3 DEF InitLocker, StartInv, SectionOK
<1>6. QED
  BY <1>4, <1>5 DEF StartInv

(* Entering.                                                                  *)
LEMMA LockKeeps == ASSUME StartInv, NEW t \in Entrants, Lock(t) PROVE StartInv'
<1>0. StartTypeOK
  BY DEF StartInv
<1>1. at[t] = "enter" /\ at' = [at EXCEPT ![t] = "inside"]
  BY DEF Lock
<1>2. /\ at' \in [Entrants -> Places]
      /\ Inside' = Inside \cup {t} /\ at'[t] = "inside"
      /\ \A u \in Entrants \ {t} : at'[u] = at[u]
  BY <1>0, <1>1, InsideAfter, PlacesAre
<1>3. at'[Starter] \in {"spawn", "init"} <=> at[Starter] \in {"spawn", "init"}
  BY <1>1, <1>2 DEF Entrants
<1>4. StartTypeOK'
  BY <1>2 DEF Lock, StartInv, StartTypeOK
<1>5. SectionOK'
  <2>1. Inside \subseteq unowned /\ m_cs = "free" /\ m_cs' = "held"
        /\ UNCHANGED <<unowned, overtaken>>
    BY <1>0 DEF Lock, StartTypeOK
  <2>2. \A u, v \in Inside' \ unowned' : u = v
    BY <1>2, <2>1
  <2>3. ~ overtaken => unowned = {} /\ Inside = {}
    BY <2>1 DEF StartInv, SectionOK
  <2>4. ~ overtaken => \A u, v \in Inside' : u = v
    BY <1>2, <2>3
  <2>5. QED
    BY <1>3, <2>1, <2>2, <2>3, <2>4 DEF StartInv, SectionOK
<1>6. QED
  BY <1>4, <1>5 DEF StartInv

LEMMA LockUndefinedKeeps ==
  ASSUME StartInv, NEW t \in Entrants, LockUndefined(t) PROVE StartInv'
<1>0. StartTypeOK
  BY DEF StartInv
<1>1. PICK to \in {"inside", "hung", "crashed"} :
        /\ at' = [at EXCEPT ![t] = to]
        /\ unowned' = IF to = "inside" THEN unowned \cup {t} ELSE unowned
  BY DEF LockUndefined
<1>2. /\ at[t] = "enter" /\ m_cs \in {"raw", "spoiled"} /\ t \notin Inside
      /\ UNCHANGED <<m_cs, checked, added, seen, overtaken>>
  BY DEF LockUndefined, Inside
<1>3. /\ at' \in [Entrants -> Places]
      /\ Inside' = IF to = "inside" THEN Inside \cup {t} ELSE Inside
      /\ \A u \in Entrants \ {t} : at'[u] = at[u]
      /\ at'[t] = to
  BY <1>0, <1>1, <1>2, InsideAfter, PlacesAre
<1>4. at'[Starter] \in {"spawn", "init"} <=> at[Starter] \in {"spawn", "init"}
  BY <1>1, <1>2, <1>3 DEF Entrants
<1>5. StartTypeOK'
  BY <1>1, <1>2, <1>3 DEF StartInv, StartTypeOK
<1>6. QED
  BY <1>1, <1>2, <1>3, <1>4, <1>5 DEF StartInv, SectionOK

(* Leaving.                                                                   *)
LEMMA UnlockKeeps ==
  ASSUME StartInv, NEW t \in Inside, Unlock(t),
         checked' \in BOOLEAN, added' \in BOOLEAN, seen' \in BOOLEAN
  PROVE  StartInv'
<1>0. StartTypeOK
  BY DEF StartInv
<1> DEFINE to == Behind(t)
<1>1. t \in Entrants /\ at[t] = "inside" /\ at' = [at EXCEPT ![t] = to]
      /\ to \in {"out", "done", "enter"}
  BY DEF Unlock, Inside, Behind
<1>2. /\ at' \in [Entrants -> Places]
      /\ Inside' = Inside \ {t} /\ at'[t] = to
      /\ \A u \in Entrants \ {t} : at'[u] = at[u]
  BY <1>0, <1>1, InsideAfter, PlacesAre
<1>3. at'[Starter] \in {"spawn", "init"} <=> at[Starter] \in {"spawn", "init"}
  BY <1>1, <1>2 DEF Entrants
<1> HIDE DEF to
<1>5. SectionOK'
  BY <1>2, <1>3 DEF Unlock, StartInv, StartTypeOK, SectionOK
<1>6. StartTypeOK'
  <2>1. m_cs' = "free" => Inside' \subseteq unowned'
    BY <1>2, <1>5 DEF Unlock, StartInv, StartTypeOK, SectionOK
  <2>2. QED
    BY <1>2, <2>1 DEF Unlock, StartInv, StartTypeOK
<1>7. QED
  BY <1>5, <1>6 DEF StartInv

LEMMA WakeKeeps == ASSUME StartInv, NEW w \in Workers, Wake(w) PROVE StartInv'
<1>0. StartTypeOK
  BY DEF StartInv
<1>1. w \in Entrants /\ w # Starter /\ w \notin Inside /\ at' = [at EXCEPT ![w] = "enter"]
  BY StartAssumption DEF Wake, Entrants, Inside
<1>2. at' \in [Entrants -> Places] /\ Inside' = Inside /\ at'[Starter] = at[Starter]
  BY <1>0, <1>1, InsideAfter, PlacesAre DEF Entrants
<1>3. StartTypeOK'
  BY <1>2 DEF Wake, StartInv, StartTypeOK
<1>4. SectionOK'
  BY <1>2 DEF Wake, StartInv, SectionOK
<1>5. QED
  BY <1>3, <1>4 DEF StartInv

(* IInv is inductive. *)
LEMMA StartKeeps == ASSUME StartInv, [StartNext]_startVars PROVE StartInv'
<1>1. CASE Check \/ Add
  <2>1. /\ Starter \in Inside /\ Unlock(Starter)
        /\ checked' \in BOOLEAN /\ added' \in BOOLEAN /\ seen' \in BOOLEAN
    BY <1>1 DEF Check, SpaceForFirst, Add, AddFirst, Inside, Entrants, StartInv, StartTypeOK
  <2>2. QED
    BY <2>1, UnlockKeeps
<1>2. ASSUME NEW w \in Workers, Scan(w) PROVE StartInv'
  <2>1. /\ w \in Inside /\ Unlock(w)
        /\ checked' \in BOOLEAN /\ added' \in BOOLEAN /\ seen' \in BOOLEAN
    BY <1>2 DEF Scan, GetElem, Inside, Entrants, StartInv, StartTypeOK
  <2>2. QED
    BY <2>1, UnlockKeeps
<1>3. CASE UNCHANGED startVars
  BY <1>3 DEF startVars, StartInv, StartTypeOK, SectionOK, Inside
<1>4. QED
  BY <1>1, <1>2, <1>3, SpawnKeeps, SpawnedKeeps, InitLockerKeeps, LockKeeps, LockUndefinedKeeps,
     WakeKeeps DEF StartNext

THEOREM StartInvariance == StartSpec => []StartInv
  BY StartEstablishes, StartKeeps, PTL DEF StartSpec

(* The variables keep their types, and the section is never free with a       *)
(* thread inside that it knows of, for any workers.                           *)
THEOREM StartTypeCorrect == StartSpec => []StartTypeOK
  BY StartInvariance, PTL DEF StartInv

(* Two threads are in the guarded blocks of an initialised section only if a  *)
(* worker was inside when it was initialised (ThreadPool.cpp:87 and 92).      *)
THEOREM Exclusive == StartSpec => []ExclusiveUnlessOvertaken
<1>1. StartInv => ExclusiveUnlessOvertaken
  BY DEF StartInv, SectionOK, ExclusiveUnlessOvertaken
<1>2. QED
  BY <1>1, StartInvariance, PTL

(* main() pushes its element with no worker in GetElem, unless a worker was   *)
(* overtaken (ThreadPool.cpp:28-29 and 108-109).                              *)
THEOREM AddsAlone == StartSpec => ListAlone
<1>1. ASSUME StartInv, [StartNext]_startVars
      PROVE  [added' # added => Inside = {Starter} \/ overtaken]_startVars
  <2> SUFFICES ASSUME StartNext, added' # added, ~ overtaken PROVE Inside = {Starter}
    BY <1>1
  <2>1. Add
    BY DEF StartNext, Spawned, InitLocker, Lock, LockUndefined, Spawn, Scan, GetElem, Wake,
       Check, SpaceForFirst
  <2>2. Starter \in Inside /\ m_cs # "raw"
    BY <1>1, <2>1 DEF Add, AddFirst, Inside, Entrants, StartInv, SectionOK
  <2>3. QED
    BY <1>1, <2>2 DEF StartInv, SectionOK
<1>2. QED
  BY <1>1, StartInvariance, PTL DEF StartSpec, ListAlone
=============================================================================
