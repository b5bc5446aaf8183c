-------------------------- MODULE IOCPHelperProofs --------------------------
(* Theorems about IOCPHelper, for any number of workers, handlers and        *)
(* operations.                                                               *)
EXTENDS IOCPHelper, FiniteSetTheorems, TLAPS

(* Who has ended is counted: the threads and their number are finite. *)
LEMMA EndedFinite ==
  /\ IsFiniteSet(Workers) /\ Cardinality(Workers) \in Nat
  /\ IsFiniteSet(Ended) /\ Cardinality(Ended) \in Nat
  /\ Cardinality(Ended) <= Cardinality(Workers)
  /\ Cardinality(Ended) = Cardinality(Workers) => Ended = Workers
<1>1. IsFiniteSet(Workers)
  BY PortAssumption DEF PortAssumption
<1>2. Ended \in SUBSET Workers
  BY DEF Ended
<1>3. QED
  BY <1>1, <1>2, FS_Subset, FS_CardinalityType

(* A worker that leaves raises the count by one. *)
LEMMA OneMoreEnded ==
  ASSUME NEW w \in Workers, w \notin Ended, Ended' = Ended \cup {w}
  PROVE  Cardinality(Ended') = Cardinality(Ended) + 1
BY EndedFinite, FS_AddElement

-----------------------------------------------------------------------------
(* The state of the port, its workers and its operations keeps its type.     *)
(* The count of ended threads is part of the invariant, since m_existCount   *)
(* would have no bound without it.                                           *)
Counted == m_existCount = Cardinality(Ended)

THEOREM TypeCorrect == Spec => [](TypeOK /\ Counted)
<1> USE PortAssumption DEF PortAssumption, ownerVars, ioVars
<1>1. Init => TypeOK /\ Counted
  <2> SUFFICES ASSUME Init PROVE TypeOK /\ Counted
    OBVIOUS
  <2>1. Ended = {}
    BY DEF Init, Ended
  <2>2. Counted
    BY <2>1, FS_EmptySet DEF Init, Counted
  <2>3. TypeOK
    BY EndedFinite DEF Init, TypeOK, Ops, Done
  <2>4. QED
    BY <2>2, <2>3
<1>2. TypeOK /\ Counted /\ [Next]_vars => TypeOK' /\ Counted'
  <2> SUFFICES ASSUME TypeOK, Counted, [Next]_vars PROVE TypeOK' /\ Counted'
    OBVIOUS
  <2>1. ASSUME CreatePort \/ InitReturns \/ ShutDown \/ ClosePort
        PROVE  TypeOK' /\ Counted'
    <3>1. Counted'
      BY <2>1 DEF CreatePort, InitReturns, ShutDown, ClosePort, Counted, Ended
    <3>2. TypeOK'
      BY <2>1 DEF CreatePort, InitReturns, ShutDown, ClosePort, TypeOK
    <3>3. QED
      BY <3>1, <3>2
  <2>2. ASSUME NEW h \in Handlers, RegHandle(h) PROVE TypeOK' /\ Counted'
    BY <2>2 DEF RegHandle, TypeOK, Counted, Ended
  <2>3. ASSUME NEW h \in Handlers, Issue(h) PROVE TypeOK' /\ Counted'
    <3>1. issued' = issued + 1 /\ issued' \in 0 .. MaxOps /\ issued' \in Ops
      BY <2>3 DEF Issue, TypeOK, Ops
    <3>2. on' \in [Ops -> Handlers \cup {"none"}]
      BY <2>3, <3>1 DEF Issue, TypeOK
    <3>3. io' \in [Ops -> {"idle", "pending", "lost", "handled"} \cup Done]
      BY <2>3, <3>1 DEF Issue, TypeOK
    <3>4. Counted'
      BY <2>3 DEF Issue, Counted, Ended
    <3>5. QED
      BY <2>3, <3>1, <3>2, <3>3, <3>4 DEF Issue, TypeOK
  <2>4. ASSUME NEW o \in Ops, Complete(o) PROVE TypeOK' /\ Counted'
    <3>1. Counted'
      BY <2>4 DEF Complete, Counted, Ended
    <3>2. io' \in [Ops -> {"idle", "pending", "lost", "handled"} \cup Done]
      BY <2>4 DEF Complete, TypeOK, Done
    <3>3. queue' \in Seq(Ops)
      <4>1. queue \in Seq(Ops)
        BY DEF TypeOK
      <4>2. queue' = Append(queue, o) \/ queue' = queue
        BY <2>4 DEF Complete
      <4>3. QED
        BY <4>1, <4>2
    <3>4. QED
      BY <2>4, <3>1, <3>2, <3>3 DEF Complete, TypeOK
  <2>5. ASSUME NEW w \in Workers, Spawn(w) \/ TestRun(w) \/ InvalidHandle(w)
        PROVE  TypeOK' /\ Counted'
    <3>1. Ended' = Ended
      BY <2>5 DEF Spawn, TestRun, InvalidHandle, Ended, TypeOK
    <3>2. pc' \in [Workers -> {"unborn", "failed", "test", "wait", "callback", "exit", "ended"}]
      BY <2>5 DEF Spawn, TestRun, InvalidHandle, TypeOK
    <3>3. QED
      BY <2>5, <3>1, <3>2 DEF Spawn, TestRun, InvalidHandle, TypeOK, Counted
  <2>6. ASSUME NEW w \in Workers, GetStatus(w) PROVE TypeOK' /\ Counted'
    <3>1. Ended' = Ended
      BY <2>6 DEF GetStatus, Ended, TypeOK
    <3>2. Head(queue) \in Ops /\ Tail(queue) \in Seq(Ops)
      BY <2>6 DEF GetStatus, TypeOK
    <3>3. cur' \in [Workers -> 0 .. MaxOps] /\ queue' \in Seq(Ops)
      BY <2>6, <3>2 DEF GetStatus, TypeOK, Ops
    <3>4. QED
      BY <2>6, <3>1, <3>3 DEF GetStatus, TypeOK, Counted
  <2>7. ASSUME NEW w \in Workers, CallbackReturns(w) PROVE TypeOK' /\ Counted'
    <3>1. Ended' = Ended
      BY <2>7 DEF CallbackReturns, Ended, TypeOK
    <3>2. cur' \in [Workers -> 0 .. MaxOps] /\ issued' = issued
      BY <2>7 DEF CallbackReturns, TypeOK
    <3>3. io' \in [Ops -> {"idle", "pending", "lost", "handled"} \cup Done]
      BY <2>7 DEF CallbackReturns, TypeOK
    <3>4. QED
      BY <2>7, <3>1, <3>2, <3>3 DEF CallbackReturns, TypeOK, Counted
  <2>8. ASSUME NEW w \in Workers, Exit(w) PROVE TypeOK' /\ Counted'
    <3>1. w \notin Ended /\ Ended' = Ended \cup {w}
      BY <2>8 DEF Exit, Ended, TypeOK
    <3>2. m_existCount' = Cardinality(Ended')
      BY <2>8, <3>1, OneMoreEnded DEF Exit, Counted
    <3>3. Ended' \in SUBSET Workers
      BY DEF Ended
    <3>4. m_existCount' \in 0 .. Cardinality(Workers)
      BY <3>2, <3>3, EndedFinite, FS_Subset, FS_CardinalityType
    <3>5. QED
      BY <2>8, <3>2, <3>4 DEF Exit, TypeOK, Counted
  <2>9. CASE UNCHANGED vars
    BY <2>9 DEF vars, TypeOK, Counted, Ended
  <2>10. QED
    BY <2>1, <2>2, <2>3, <2>4, <2>5, <2>6, <2>7, <2>8, <2>9 DEF Next, WorkThread
<1>3. QED
  BY <1>1, <1>2, PTL DEF Spec

-----------------------------------------------------------------------------
(* Between Init and ShutDown's end m_threadCount is the number of workers.   *)
CountSet == owner # "start" => m_threadCount = Cardinality(Workers)

PortInv == CountSet /\ (m_iocp = "closed" => owner = "shut") /\ PortOutlivesWorkers

(* ShutDown closes the port when every worker has left the loop, and not     *)
(* before (IOCPHelper.cpp:59-69): the loop compares a count of ended threads *)
(* with the number of all of them.                                           *)
THEOREM PortOutlives == Spec => []PortOutlivesWorkers
<1> USE DEF ownerVars, ioVars
<1>1. Init => PortInv
  BY DEF Init, PortInv, CountSet, PortOutlivesWorkers
<1>2. TypeOK /\ Counted /\ PortInv /\ [Next]_vars => PortInv'
  <2> SUFFICES ASSUME TypeOK, Counted, PortInv, [Next]_vars PROVE PortInv'
    OBVIOUS
  <2>1. CASE CreatePort
    BY <2>1 DEF CreatePort, PortInv, CountSet, PortOutlivesWorkers
  <2>2. CASE ClosePort
    <3>1. Cardinality(Ended) = Cardinality(Workers)
      BY <2>2 DEF ClosePort, PortInv, CountSet, Counted
    <3>2. \A w \in Workers : pc[w] = "ended"
      BY <3>1, EndedFinite DEF Ended
    <3>3. QED
      BY <2>2, <3>2 DEF ClosePort, PortInv, CountSet, PortOutlivesWorkers
  <2>3. ASSUME \/ InitReturns \/ ShutDown
               \/ \E h \in Handlers : RegHandle(h) \/ Issue(h)
               \/ \E o \in Ops : Complete(o)
               \/ UNCHANGED vars
        PROVE  PortInv'
    BY <2>3 DEF InitReturns, ShutDown, RegHandle, Issue, Complete, vars,
                PortInv, CountSet, PortOutlivesWorkers
  <2>4. ASSUME NEW w \in Workers, Spawn(w) \/ WorkThread(w) PROVE PortInv'
    <3>1. pc[w] # "ended" /\ UNCHANGED <<m_iocp, m_threadCount, owner>>
      BY <2>4 DEF Spawn, WorkThread, TestRun, InvalidHandle, GetStatus, CallbackReturns, Exit
    <3>2. m_iocp # "closed"
      BY <3>1 DEF PortInv, PortOutlivesWorkers
    <3>3. QED
      BY <3>1, <3>2 DEF PortInv, CountSet, PortOutlivesWorkers
  <2>5. QED
    BY <2>1, <2>2, <2>3, <2>4 DEF Next
<1>3. PortInv => PortOutlivesWorkers
  BY DEF PortInv
<1>4. QED
  BY <1>1, <1>2, <1>3, TypeCorrect, PTL DEF Spec
=============================================================================
