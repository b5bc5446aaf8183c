-------------------------- MODULE NetServiceProofs --------------------------
(* Theorems about NetService, for any number of workers, any script of       *)
(* requests, any datagrams and any number of calls that fail.                *)
EXTENDS NetService, FiniteSetTheorems, TLAPS

(* What a thread writes into the buffer is a buffer, and so is a datagram. *)
LEMMA BufferValues ==
  /\ Clear \in Buffers
  /\ \A n \in Nat : Own(n) \in Buffers
  /\ \A d \in Datagrams : d \in Buffers
BY NetAssumption DEF NetAssumption, Clear, Own, Buffers

(* A callback always knows what to start next. *)
LEMMA AfterKind == \A k : After(k) \in Kinds
BY DEF After, Kinds, Sends, Recvs, Requests

(* The state keeps its type; a thread of main() in a request knows which. *)
MainKnows == pc[Main] \in Active => opt[Main] \in Kinds

LEMMA JobKind ==
  ASSUME MainKnows, NEW a \in Actors, pc[a] \in Active
  PROVE  Job(a) \in Kinds
BY AfterKind DEF MainKnows, Job

(* The state of the struct, of the threads and of the kernel keeps its type  *)
(* (NetService.h:6-14).                                                      *)
THEOREM TypeCorrect == Spec => [](TypeOK /\ MainKnows)
<1> USE NetAssumption DEF NetAssumption
<1>1. Init => TypeOK /\ MainKnows
  <2> SUFFICES ASSUME Init PROVE TypeOK /\ MainKnows
    OBVIOUS
  <2>1. StructOK
    BY BufferValues DEF Init, StructOK
  <2>2. KernelOK
    BY DEF Init, KernelOK
  <2>3. ThreadsOK /\ MainKnows
    BY DEF Init, ThreadsOK, MainKnows, Actors, Active, Waiting, Holding
  <2>4. QED
    BY <2>1, <2>2, <2>3 DEF TypeOK
<1>2. TypeOK /\ MainKnows /\ [Next]_vars => TypeOK' /\ MainKnows'
  <2> SUFFICES ASSUME TypeOK, MainKnows, [Next]_vars PROVE TypeOK' /\ MainKnows'
    OBVIOUS
  <2> USE DEF Active, Waiting, Holding, Actors, data, kernel, local
  <2>1. CASE CheckUid
    <3>1. ThreadsOK'
      BY <2>1 DEF CheckUid, TypeOK, ThreadsOK, Kinds, Sends
    <3>2. QED
      BY <2>1, <3>1, BufferValues
         DEF CheckUid, TypeOK, StructOK, KernelOK, ThreadsOK, MainKnows, Kinds, Sends
  <2>2. CASE Request
    <3>1. Script[next + 1] \in Kinds /\ next + 1 \in 0 .. Len(Script)
      BY <2>2 DEF Request, TypeOK, ThreadsOK, Kinds, Sends
    <3>2. ThreadsOK' /\ MainKnows'
      BY <2>2, <3>1 DEF Request, TypeOK, ThreadsOK, MainKnows
    <3>3. QED
      BY <2>2, <3>2 DEF Request, TypeOK, StructOK, KernelOK
  <2>3. ASSUME NEW w \in Workers, Callback(w) PROVE TypeOK' /\ MainKnows'
    <3>1. Head(queue) \in Kinds /\ Tail(queue) \in Seq(Kinds)
      BY <2>3 DEF Callback, TypeOK, KernelOK
    <3>2. ThreadsOK' /\ MainKnows'
      BY <2>3, <3>1 DEF Callback, TypeOK, StructOK, ThreadsOK, MainKnows
    <3>3. QED
      BY <2>3, <3>1, <3>2 DEF Callback, TypeOK, StructOK, KernelOK
  <2>4. ASSUME NEW w \in Workers, Inspect(w) PROVE TypeOK' /\ MainKnows'
    <3>1. /\ \E p \in {"arrive", "free"} : pc' = [pc EXCEPT ![w] = p]
          /\ opt' = opt \/ opt' = [opt EXCEPT ![w] = "none"]
          /\ ended' = ended \/ ended' = [ended EXCEPT ![w] = "none"]
      BY <2>4 DEF Inspect
    <3>2. pc' \in [Actors -> {"start", "idle", "free", "report"} \cup Active]
      BY <3>1 DEF TypeOK, ThreadsOK
    <3>3. /\ opt' \in [Actors -> Kinds \cup {"none"}]
          /\ ended' \in [Workers -> Kinds \cup {"none"}]
      BY <3>1 DEF TypeOK, ThreadsOK
    <3>4. MainKnows'
      BY <3>1 DEF TypeOK, ThreadsOK, MainKnows
    <3>5. QED
      BY <2>4, <3>2, <3>3, <3>4 DEF Inspect, TypeOK, StructOK, KernelOK, ThreadsOK
  <2>5. ASSUME NEW w \in Workers, Parse(w) PROVE TypeOK' /\ MainKnows'
    <3>1. pos' \in [Workers -> Nat] /\ recvID' \in Nat
      <4>1. pos \in [Workers -> Nat] /\ recvID \in Nat
        BY DEF TypeOK, StructOK, ThreadsOK
      <4>2. recvID' \in {recvID, recvID + 1}
        BY <2>5 DEF Parse
      <4>3. pos' = [pos EXCEPT ![w] = @ + 1] \/ pos' = [pos EXCEPT ![w] = 0]
        BY <2>5 DEF Parse
      <4>4. QED
        BY <4>1, <4>2, <4>3
    <3>2. pc' = pc \/ pc' = [pc EXCEPT ![w] = "prepare"]
      BY <2>5 DEF Parse
    <3>3. ThreadsOK' /\ MainKnows'
      BY <2>5, <3>1, <3>2 DEF Parse, TypeOK, ThreadsOK, MainKnows
    <3>4. QED
      BY <2>5, <3>1, <3>3 DEF Parse, TypeOK, StructOK, KernelOK
  <2>6. ASSUME NEW a \in Actors, Wait(a) \/ Reset(a) PROVE TypeOK' /\ MainKnows'
    <3>1. \E p \in Active : pc[a] \in Active /\ pc' = [pc EXCEPT ![a] = p]
      BY <2>6 DEF Wait, Reset
    <3>2. UNCHANGED <<data, kernel, local, next, refused, answered>> /\ event' \in BOOLEAN
      BY <2>6 DEF Wait, Reset, TypeOK, StructOK
    <3>3. ThreadsOK' /\ MainKnows'
      BY <3>1, <3>2 DEF TypeOK, ThreadsOK, MainKnows
    <3>4. QED
      BY <3>2, <3>3 DEF TypeOK, StructOK, KernelOK
  <2>7. ASSUME NEW a \in Actors, Prepare(a) PROVE TypeOK' /\ MainKnows'
    <3>1. OPT' \in Kinds
      BY <2>7, JobKind DEF Prepare
    <3>2. recvID' \in Nat
      BY <2>7 DEF Prepare, TypeOK, StructOK
    <3>3. buffer' \in Buffers
      BY <2>7, <3>2, BufferValues DEF Prepare
    <3>4. ThreadsOK' /\ MainKnows'
      BY <2>7 DEF Prepare, TypeOK, ThreadsOK, MainKnows
    <3>5. QED
      BY <2>7, <3>1, <3>2, <3>3, <3>4 DEF Prepare, TypeOK, StructOK, KernelOK
  <2>8. ASSUME NEW a \in Actors, Issue(a) \/ IssueFails(a) PROVE TypeOK' /\ MainKnows'
    <3>1. Leave(a) /\ UNCHANGED <<data, queue, got, pos, next>> /\ event' \in BOOLEAN
      BY <2>8 DEF Issue, IssueFails
    <3>2. ThreadsOK' /\ MainKnows'
      BY <3>1 DEF Leave, AfterStart, Home, TypeOK, ThreadsOK, MainKnows
    <3>3. buffer.ans \in Nat
      BY DEF TypeOK, StructOK, Buffers
    <3>4. inflight' \in [Kinds -> Nat] /\ answered' \in Nat /\ refused' \in 0 .. MaxRefused
      BY <2>8, <3>3 DEF Issue, IssueFails, TypeOK, KernelOK
    <3>5. QED
      BY <3>1, <3>2, <3>4 DEF TypeOK, StructOK, KernelOK
  <2>9. ASSUME NEW k \in Kinds, Complete(k),
               \/ UNCHANGED <<buffer, got>>
               \/ \E d \in Datagrams : buffer' = d /\ got' = got \cup IdsOf(d)
        PROVE  TypeOK' /\ MainKnows'
    <3>1. queue' \in Seq(Kinds) /\ inflight' \in [Kinds -> Nat]
      BY <2>9 DEF Complete, TypeOK, KernelOK
    <3>2. buffer' \in Buffers /\ got' \subseteq Ids
      BY <2>9, BufferValues DEF TypeOK, StructOK, KernelOK, Ids
    <3>3. ThreadsOK' /\ MainKnows'
      BY <2>9 DEF Complete, TypeOK, ThreadsOK, MainKnows
    <3>4. QED
      BY <2>9, <3>1, <3>2, <3>3 DEF Complete, TypeOK, StructOK, KernelOK
  <2>10. CASE UNCHANGED vars
    BY <2>10 DEF vars, TypeOK, StructOK, KernelOK, ThreadsOK, MainKnows
  <2>11. ASSUME NEW w \in Workers, Report(w) PROVE TypeOK' /\ MainKnows'
    <3>1. ThreadsOK' /\ MainKnows'
      BY <2>11 DEF Report, TypeOK, ThreadsOK, MainKnows
    <3>2. QED
      BY <2>11, <3>1 DEF Report, TypeOK, StructOK, KernelOK
  <2>12. QED
    BY <2>1, <2>2, <2>3, <2>4, <2>5, <2>6, <2>7, <2>8, <2>9, <2>10, <2>11
       DEF Next, Step, WorkerStep, CompleteEmpty, Deliver
<1>3. QED
  BY <1>1, <1>2, PTL DEF Spec

-----------------------------------------------------------------------------
(* While the event is off, someone will signal it: the property is inductive *)
(* with TypeCorrect. A thread that resets the event is past its wait, and    *)
(* leaves that region only by giving the kernel an operation, whose end      *)
(* signals the event.                                                        *)
THEOREM WakeupKept == Spec => []NoLostWakeup
<1>1. Init => NoLostWakeup
  BY DEF Init, NoLostWakeup, Actors
<1>2. TypeOK /\ MainKnows /\ NoLostWakeup /\ [Next]_vars => NoLostWakeup'
  <2> SUFFICES ASSUME TypeOK, MainKnows, NoLostWakeup, [Next]_vars,
                      refused' = 0, ~ event'
               PROVE  \/ \E k \in Kinds : inflight'[k] > 0
                      \/ \E a \in Actors : pc'[a] \in Holding \cup {"start"}
    BY DEF NoLostWakeup
  <2> USE DEF Holding, data, kernel, local
  <2>1. ASSUME NEW a \in Actors, Issue(a)
        PROVE  \E k \in Kinds : inflight'[k] > 0
    <3>1. Job(a) \in Kinds
      BY <2>1, JobKind DEF Issue, Active
    <3>2. inflight'[Job(a)] > 0
      BY <2>1, <3>1 DEF Issue, TypeOK, KernelOK
    <3>3. QED
      BY <3>1, <3>2
  <2>2. ASSUME NEW a \in Actors, Reset(a)
        PROVE  \E b \in Actors : pc'[b] \in Holding \cup {"start"}
    BY <2>2 DEF Reset, TypeOK, ThreadsOK
  <2>3. ASSUME NEW a \in Actors, IssueFails(a) PROVE FALSE
    BY <2>3 DEF IssueFails, TypeOK, KernelOK
  <2>4. ASSUME NEW k \in Kinds, Complete(k) PROVE FALSE
    BY <2>4 DEF Complete
  <2>5. CASE CheckUid
    BY <2>5 DEF CheckUid, TypeOK, ThreadsOK, Actors
  <2>6. ASSUME refused' = refused, event' = event, inflight' = inflight,
               \A a \in Actors : pc[a] \in Holding \cup {"start"}
                                   => pc'[a] \in Holding \cup {"start"}
        PROVE  \/ \E k \in Kinds : inflight'[k] > 0
               \/ \E a \in Actors : pc'[a] \in Holding \cup {"start"}
    BY <2>6 DEF NoLostWakeup
  <2>7. CASE Request
    BY <2>6, <2>7 DEF Request, TypeOK, ThreadsOK
  <2>8. ASSUME NEW w \in Workers, WorkerStep(w)
        PROVE  \/ \E k \in Kinds : inflight'[k] > 0
               \/ \E a \in Actors : pc'[a] \in Holding \cup {"start"}
    BY <2>6, <2>8 DEF WorkerStep, Callback, Inspect, Parse, Report, TypeOK, ThreadsOK
  <2>9. ASSUME NEW a \in Actors, Wait(a) \/ Prepare(a)
        PROVE  \/ \E k \in Kinds : inflight'[k] > 0
               \/ \E b \in Actors : pc'[b] \in Holding \cup {"start"}
    BY <2>6, <2>9 DEF Wait, Prepare, TypeOK, ThreadsOK
  <2>10. CASE UNCHANGED vars
    BY <2>6, <2>10 DEF vars
  <2>11. QED
    BY <2>1, <2>2, <2>3, <2>4, <2>5, <2>7, <2>8, <2>9, <2>10
       DEF Next, Step, CompleteEmpty, Deliver
<1>3. QED
  BY <1>1, <1>2, TypeCorrect, PTL DEF Spec

-----------------------------------------------------------------------------
(* The chain of operations before main() makes a request: at any time the    *)
(* struct is with nobody, with one thread, with one operation of the kernel, *)
(* or with one packet of the port.                                           *)
NoThread == \A a \in Actors : pc[a] \notin Active
NoOperation == \A k \in Kinds : inflight[k] = 0
NoPacket == queue = <<>>

AtRest == NoThread /\ NoOperation /\ NoPacket
InThread(a) == /\ pc[a] \in Active
               /\ \A b \in Actors : pc[b] \in Active => b = a
               /\ NoOperation /\ NoPacket
InKernel(k) == /\ NoThread /\ NoPacket
               /\ inflight[k] = 1
               /\ \A l \in Kinds : l # k => inflight[l] = 0
InPort == NoThread /\ NoOperation /\ Len(queue) = 1 /\ event

MainBegins == /\ pc[Main] \in {"start", "idle", "issue"}
              /\ pc[Main] = "start" => AtRest

Phases == \/ AtRest \/ InPort
          \/ \E a \in Actors : InThread(a)
          \/ \E k \in Kinds : InKernel(k)

ChainInv == next = 0 => MainBegins /\ Phases /\ WaitNeverBlocks

(* Nothing but main()'s start, a thread's own steps, the operation and the   *)
(* packet moves the struct on; each has it alone when it does.               *)
LEMMA ThreadHasIt ==
  ASSUME Phases, NEW a \in Actors, pc[a] \in Active PROVE InThread(a)
BY DEF Phases, AtRest, InPort, InThread, InKernel, NoThread

LEMMA KernelHasIt ==
  ASSUME Phases, NEW k \in Kinds, inflight[k] > 0 PROVE InKernel(k)
BY DEF Phases, AtRest, InPort, InThread, InKernel, NoOperation

LEMMA PortHasIt ==
  ASSUME Phases, queue # <<>> PROVE InPort
BY DEF Phases, AtRest, InPort, InThread, InKernel, NoPacket

(* The chain invariant is inductive. *)
LEMMA ChainStep ==
  ASSUME TypeOK, MainKnows, ChainInv, [Next]_vars, next' = 0, next = 0
  PROVE  MainBegins' /\ Phases' /\ WaitNeverBlocks'
<1> USE DEF Active, Waiting, Holding, data, kernel, local
<1>0. /\ MainBegins /\ Phases /\ WaitNeverBlocks
      /\ pc \in [Actors -> {"start", "idle", "free", "report"} \cup Active]
      /\ Main \in Actors /\ Main \notin Workers /\ Workers \subseteq Actors
  BY NetAssumption DEF ChainInv, TypeOK, ThreadsOK, Actors, NetAssumption
<1>1. CASE CheckUid
  <2>1. AtRest /\ pc' = [pc EXCEPT ![Main] = "issue"]
    BY <1>0, <1>1 DEF CheckUid, MainBegins
  <2>2. InThread(Main)'
    BY <1>0, <1>1, <2>1 DEF CheckUid, AtRest, InThread, NoThread, NoOperation, NoPacket
  <2>3. QED
    BY <1>0, <1>1, <2>1, <2>2 DEF CheckUid, MainBegins, Phases, WaitNeverBlocks
<1>2. CASE Request
  BY <1>2 DEF Request, TypeOK, ThreadsOK
<1>3. ASSUME NEW w \in Workers, Callback(w)
      PROVE  MainBegins' /\ Phases' /\ WaitNeverBlocks'
  <2>1. InPort
    BY <1>0, <1>3, PortHasIt DEF Callback
  <2>2. queue' = <<>>
    BY <1>3, <2>1 DEF Callback, InPort, TypeOK, KernelOK
  <2>3. InThread(w)' /\ event'
    BY <1>0, <1>3, <2>1, <2>2 DEF Callback, InPort, InThread, NoThread, NoOperation, NoPacket
  <2>4. QED
    BY <1>0, <1>3, <2>1, <2>3 DEF Callback, MainBegins, AtRest, NoPacket, InPort, Phases,
                                  WaitNeverBlocks
<1>4. ASSUME NEW w \in Workers, Inspect(w) \/ Parse(w)
      PROVE  MainBegins' /\ Phases' /\ WaitNeverBlocks'
  <2>1. InThread(w)
    BY <1>0, <1>4, ThreadHasIt DEF Inspect, Parse
  <2>2. InThread(w)' \/ AtRest'
    <3>1. /\ UNCHANGED <<inflight, queue>>
          /\ \/ pc' = [pc EXCEPT ![w] = "free"]
             \/ \E p \in Active : pc' = [pc EXCEPT ![w] = p]
             \/ pc' = pc
      BY <1>4 DEF Inspect, Parse
    <3>2. NoOperation' /\ NoPacket'
      BY <2>1, <3>1 DEF InThread, NoOperation, NoPacket
    <3>3. \A b \in Actors : b # w => pc'[b] \notin Active
      BY <1>0, <2>1, <3>1 DEF InThread
    <3>4. QED
      BY <3>2, <3>3 DEF InThread, AtRest, NoThread
  <2>3. pc[Main] = "idle"
    BY <1>0, <2>1 DEF MainBegins, InThread, AtRest, NoThread
  <2>4. pc'[Main] = "idle"
    BY <1>0, <1>4, <2>3 DEF Inspect, Parse
  <2>5. WaitNeverBlocks'
    <3>1. CASE Inspect(w)
      BY <1>0, <3>1 DEF Inspect, WaitNeverBlocks
    <3>2. CASE Parse(w)
      <4>1. event' = event /\ (pc' = pc \/ pc' = [pc EXCEPT ![w] = "prepare"])
        BY <3>2 DEF Parse
      <4>2. QED
        BY <1>0, <4>1 DEF WaitNeverBlocks
    <3>3. QED
      BY <1>4, <3>1, <3>2
  <2>6. QED
    BY <1>0, <2>2, <2>4, <2>5 DEF MainBegins, Phases
<1>5. ASSUME NEW a \in Actors, Wait(a) \/ Reset(a) \/ Prepare(a)
      PROVE  MainBegins' /\ Phases' /\ WaitNeverBlocks'
  <2>1. InThread(a)
    BY <1>0, <1>5, ThreadHasIt DEF Wait, Reset, Prepare
  <2>2. a \in Workers
    BY <1>0, <1>5 DEF MainBegins, Wait, Reset, Prepare, Actors
  <2>3. InThread(a)'
    BY <1>0, <1>5, <2>1 DEF Wait, Reset, Prepare, InThread, NoOperation, NoPacket
  <2>4. pc[Main] = "idle" /\ pc'[Main] = "idle"
    BY <1>0, <1>5, <2>1, <2>2 DEF MainBegins, InThread, AtRest, NoThread, Wait, Reset, Prepare
  <2>5. WaitNeverBlocks'
    BY <1>0, <1>5, <2>1, <2>2 DEF Wait, Reset, Prepare, WaitNeverBlocks, InThread
  <2>6. QED
    BY <2>3, <2>4, <2>5 DEF MainBegins, Phases
<1>6. ASSUME NEW a \in Actors, Issue(a) \/ IssueFails(a)
      PROVE  MainBegins' /\ Phases' /\ WaitNeverBlocks'
  <2>1. InThread(a)
    BY <1>0, <1>6, ThreadHasIt DEF Issue, IssueFails
  <2>2. pc' = [pc EXCEPT ![a] = AfterStart(a)] /\ UNCHANGED queue
    BY <1>6 DEF Issue, IssueFails, Leave
  <2>3. NoThread' /\ NoPacket'
    BY <1>0, <2>1, <2>2 DEF InThread, NoThread, NoPacket, AfterStart, Home
  <2>4. pc'[Main] = "idle"
    BY <1>0, <2>1, <2>2 DEF MainBegins, InThread, AtRest, NoThread, AfterStart, Home
  <2>5. WaitNeverBlocks'
    BY <1>0, <2>3 DEF WaitNeverBlocks, NoThread
  <2>6. CASE Issue(a)
    <3>1. Job(a) \in Kinds
      BY <2>1, JobKind DEF InThread
    <3>2. inflight' = [inflight EXCEPT ![Job(a)] = @ + 1]
      BY <2>6 DEF Issue
    <3>3. \E k \in Kinds : inflight'[k] = 1 /\ \A l \in Kinds : l # k => inflight'[l] = 0
      BY <2>1, <3>1, <3>2 DEF InThread, NoOperation, TypeOK, KernelOK
    <3>4. \E k \in Kinds : InKernel(k)'
      BY <2>3, <3>3 DEF InKernel
    <3>5. QED
      BY <3>4, <2>4, <2>5 DEF MainBegins, Phases
  <2>7. CASE IssueFails(a)
    BY <2>1, <2>3, <2>4, <2>5, <2>7
       DEF IssueFails, InThread, NoOperation, MainBegins, Phases, AtRest
  <2>8. QED
    BY <1>6, <2>6, <2>7
<1>7. ASSUME NEW k \in Kinds, Complete(k)
      PROVE  MainBegins' /\ Phases' /\ WaitNeverBlocks'
  <2>1. InKernel(k)
    BY <1>0, <1>7, KernelHasIt DEF Complete
  <2>2. pc' = pc
    BY <1>0, <1>7, <2>1 DEF Complete, InKernel, NoThread
  <2>3. Len(queue') = 1 /\ event'
    BY <1>7, <2>1 DEF Complete, InKernel, NoPacket
  <2>4. NoOperation'
    BY <1>7, <2>1 DEF Complete, InKernel, NoOperation, TypeOK, KernelOK
  <2>5. InPort'
    BY <2>1, <2>2, <2>3, <2>4 DEF InKernel, InPort, NoThread
  <2>6. pc[Main] # "start"
    BY <1>0, <1>7 DEF MainBegins, AtRest, NoOperation, Complete
  <2>7. QED
    BY <1>0, <2>2, <2>3, <2>5, <2>6 DEF MainBegins, Phases, WaitNeverBlocks
<1>8. CASE UNCHANGED vars
  BY <1>0, <1>8 DEF vars, MainBegins, Phases, WaitNeverBlocks, AtRest, InPort, InThread,
                    InKernel, NoThread, NoOperation, NoPacket
<1>9. ASSUME NEW w \in Workers, Report(w)
      PROVE  MainBegins' /\ Phases' /\ WaitNeverBlocks'
  <2>1. pc' = [pc EXCEPT ![w] = "free"] /\ UNCHANGED <<event, inflight, queue>>
    BY <1>9 DEF Report
  <2>2. \A a \in Actors : pc'[a] \in Active <=> pc[a] \in Active
    BY <1>0, <1>9, <2>1 DEF Report
  <2>3. Phases'
    BY <1>0, <2>1, <2>2 DEF Phases, AtRest, InPort, InThread, InKernel, NoThread, NoOperation,
                            NoPacket
  <2>4. MainBegins'
    BY <1>0, <2>1, <2>2 DEF MainBegins, AtRest, NoThread, NoOperation, NoPacket
  <2>5. WaitNeverBlocks'
    BY <1>0, <2>1 DEF WaitNeverBlocks
  <2>6. QED
    BY <2>3, <2>4, <2>5
<1>10. QED
  BY <1>1, <1>2, <1>3, <1>4, <1>5, <1>6, <1>7, <1>8, <1>9
     DEF Next, Step, WorkerStep, CompleteEmpty, Deliver

LEMMA ChainInvariant == Spec => []ChainInv
<1>1. Init => ChainInv
  BY NetAssumption DEF Init, ChainInv, MainBegins, Phases, WaitNeverBlocks, AtRest, NoThread,
       NoOperation, NoPacket, Active, Waiting, Holding, Actors, NetAssumption
<1>2. TypeOK /\ MainKnows /\ ChainInv /\ [Next]_vars => ChainInv'
  <2> SUFFICES ASSUME TypeOK, MainKnows, ChainInv, [Next]_vars, next' = 0
               PROVE  MainBegins' /\ Phases' /\ WaitNeverBlocks'
    BY DEF ChainInv
  <2>1. next = 0
    BY DEF Next, CheckUid, Request, Step, WorkerStep, Callback, Inspect, Parse, Report, Wait, Reset,
           Prepare, Issue, IssueFails, CompleteEmpty, Deliver, Complete, vars, TypeOK, ThreadsOK
  <2>2. QED
    BY <2>1, ChainStep
<1>3. QED
  BY <1>1, <1>2, TypeCorrect, PTL DEF Spec

(* Until main() makes a request, one thread, operation or packet at a time   *)
(* may change the struct; a worker whose send is started may still read it   *)
(* for its log line (NetService.cpp:36-145 and 226-276).                     *)
THEOREM ExclusiveBeforeRequests == Spec => []ExclusiveWrite
<1>1. TypeOK /\ ChainInv => ExclusiveWrite
  <2> SUFFICES ASSUME TypeOK, ChainInv, next = 0, NEW x \in Holders, NEW y \in Holders
               PROVE  x = y
    BY DEF ExclusiveWrite
  <2>1. Phases
    BY DEF ChainInv
  <2>2. NoThread => ThreadHolders = {}
    BY DEF NoThread, ThreadHolders
  <2>3. NoOperation => KernelHolders = {}
    BY DEF NoOperation, KernelHolders
  <2>4. NoPacket => PortHolders = {}
    BY DEF NoPacket, PortHolders
  <2>5. CASE AtRest
    BY <2>2, <2>3, <2>4, <2>5 DEF AtRest, Holders
  <2>6. CASE InPort
    <3>1. PortHolders = {<<"packet", 1>>}
      BY <2>6 DEF InPort, PortHolders
    <3>2. QED
      BY <2>2, <2>3, <2>6, <3>1 DEF InPort, Holders
  <2>7. ASSUME NEW a \in Actors, InThread(a) PROVE x = y
    <3>1. ThreadHolders = {<<"thread", a>>}
      BY <2>7 DEF InThread, ThreadHolders
    <3>2. QED
      BY <2>3, <2>4, <2>7, <3>1 DEF InThread, Holders
  <2>8. ASSUME NEW k \in Kinds, InKernel(k) PROVE x = y
    <3>1. ASSUME NEW z \in KernelHolders PROVE z = <<"operation", k, 1>>
      <4>1. PICK l \in Kinds : z \in {<<"operation", l, i>> : i \in 1 .. inflight[l]}
        BY DEF KernelHolders
      <4>2. inflight[l] # 0
        BY <4>1
      <4>3. l = k /\ inflight[l] = 1
        BY <4>2, <2>8 DEF InKernel
      <4>4. QED
        BY <4>1, <4>3
    <3>2. Holders = KernelHolders
      BY <2>2, <2>4, <2>8 DEF InKernel, Holders
    <3>3. x = <<"operation", k, 1>> /\ y = <<"operation", k, 1>>
      BY <3>1, <3>2
    <3>4. QED
      BY <3>3
  <2>9. QED
    BY <2>1, <2>5, <2>6, <2>7, <2>8 DEF Phases
<1>2. QED
  BY <1>1, TypeCorrect, ChainInvariant, PTL

(* Until then no worker is ever blocked in a callback's wait                 *)
(* (NetService.cpp:46, 78, 125 and 228).                                     *)
THEOREM NoBlockBeforeRequests == Spec => []WaitNeverBlocks
<1>1. ChainInv => WaitNeverBlocks
  BY DEF ChainInv, WaitNeverBlocks
<1>2. QED
  BY <1>1, ChainInvariant, PTL

-----------------------------------------------------------------------------
(* What the answers rest on when main() makes no request: everything up to   *)
(* recvID has arrived, the buffer holds only what arrived, and a reply that  *)
(* is about to be sent answers recvID.                                       *)
AnswerInv ==
  /\ 2 .. recvID \subseteq got
  /\ answered <= recvID
  /\ IdsOf(buffer) \subseteq got
  /\ pc[Main] = "issue" => buffer.ans = 0
  /\ \A w \in Workers : pc[w] = "issue" /\ Job(w) \in Sends => buffer.ans = recvID

(* A step of a worker, with the struct to itself, keeps AnswerInv, and is a  *)
(* step of Acknowledger.                                                     *)
LEMMA AnswerStep ==
  ASSUME TypeOK, MainKnows, ChainInv, AnswerInv, next = 0, next' = 0, [Next]_vars
  PROVE  AnswerInv' /\ [Receiver!Next]_<<got, answered>>
<1> USE DEF data, kernel, local, Active, Waiting, Holding
<1>0. /\ MainBegins /\ Phases
      /\ pc \in [Actors -> {"start", "idle", "free", "report"} \cup Active]
      /\ Main \in Actors /\ Main \notin Workers /\ Workers \subseteq Actors
      /\ opt \in [Actors -> Kinds \cup {"none"}]
      /\ recvID \in Nat /\ answered \in Nat
  BY NetAssumption DEF ChainInv, TypeOK, StructOK, KernelOK, ThreadsOK, Actors, NetAssumption
<1>1. CASE CheckUid
  <2>1. IdsOf(Own(0)) = {} /\ Own(0).ans = 0
    BY DEF IdsOf, Own
  <2>2. \A w \in Workers : pc'[w] # "issue"
    BY <1>0, <1>1 DEF CheckUid, MainBegins, AtRest, NoThread
  <2>3. QED
    BY <1>0, <1>1, <2>1, <2>2 DEF CheckUid, AnswerInv
<1>2. CASE Request
  BY <1>2 DEF Request, TypeOK, ThreadsOK
<1>3. ASSUME NEW w \in Workers, Callback(w) \/ Inspect(w)
      PROVE  AnswerInv' /\ UNCHANGED <<got, answered>>
  <2>1. \A a \in Actors : pc'[a] = "issue" => pc[a] = "issue"
    BY <1>0, <1>3 DEF Callback, Inspect
  <2>2. \A a \in Actors : pc[a] = "issue" => opt'[a] = opt[a]
    BY <1>0, <1>3 DEF Callback, Inspect
  <2>3. UNCHANGED <<data, got, answered>>
    BY <1>3 DEF Callback, Inspect
  <2>4. IdsOf(buffer)' \subseteq got'
    BY <2>3 DEF AnswerInv, IdsOf
  <2>5. ASSUME NEW v \in Workers, pc'[v] = "issue", Job(v)' \in Sends
        PROVE  buffer'.ans = recvID'
    <3>1. Job(v)' = Job(v)
      BY <1>0, <2>1, <2>2, <2>5 DEF Job
    <3>2. QED
      BY <1>0, <2>1, <2>3, <2>5, <3>1 DEF AnswerInv
  <2>6. pc'[Main] = "issue" => buffer'.ans = 0
    BY <1>0, <2>1, <2>3 DEF AnswerInv
  <2>7. QED
    BY <2>3, <2>4, <2>5, <2>6 DEF AnswerInv
<1>4. ASSUME NEW w \in Workers, Parse(w)
      PROVE  AnswerInv' /\ UNCHANGED <<got, answered>>
  <2>1. InThread(w)
    BY <1>0, <1>4, ThreadHasIt DEF Parse
  <2>2. \A a \in Actors : pc'[a] # "issue"
    BY <1>0, <1>4, <2>1 DEF Parse, InThread
  <2>3. UNCHANGED <<buffer, got, answered>>
    BY <1>4 DEF Parse
  <2>4. recvID' = recvID \/ (recvID' = recvID + 1 /\ recvID + 1 \in got)
    <3>1. CASE pos[w] < Len(buffer.ids)
      <4>1. pos[w] \in Nat /\ buffer.ids \in Seq(Nat)
        BY DEF TypeOK, StructOK, ThreadsOK, Buffers
      <4>2. buffer.ids[pos[w] + 1] \in IdsOf(buffer)
        <5> DEFINE p == pos[w] + 1
        <5>1. Len(buffer.ids) \in Nat
          BY <4>1
        <5>2. p \in 1 .. Len(buffer.ids)
          BY <3>1, <4>1, <5>1
        <5> HIDE DEF p
        <5>3. buffer.ids[p] \in IdsOf(buffer)
          BY <5>2 DEF IdsOf
        <5>4. QED
          BY <5>3 DEF p
      <4>3. buffer.ids[pos[w] + 1] \in got
        BY <4>2 DEF AnswerInv
      <4>4. QED
        BY <1>4, <3>1, <4>3 DEF Parse
    <3>2. CASE ~ (pos[w] < Len(buffer.ids))
      BY <1>4, <3>2 DEF Parse
    <3>3. QED
      BY <3>1, <3>2
  <2>5. 2 .. recvID' \subseteq got /\ answered <= recvID'
    BY <1>0, <2>4 DEF AnswerInv
  <2>6. QED
    BY <1>0, <2>2, <2>3, <2>5 DEF AnswerInv
<1>5. ASSUME NEW a \in Actors, Wait(a) \/ Reset(a)
      PROVE  AnswerInv' /\ UNCHANGED <<got, answered>>
  <2>1. \A b \in Actors : pc'[b] = "issue" => pc[b] = "issue"
    BY <1>0, <1>5 DEF Wait, Reset
  <2>2. UNCHANGED <<data, opt, got, answered>>
    BY <1>5 DEF Wait, Reset
  <2>3. QED
    BY <1>0, <2>1, <2>2 DEF AnswerInv, Job
<1>6. ASSUME NEW a \in Actors, Prepare(a)
      PROVE  AnswerInv' /\ UNCHANGED <<got, answered>>
  <2>1. a \in Workers /\ InThread(a)
    BY <1>0, <1>6, ThreadHasIt DEF MainBegins, Prepare, Actors
  <2>2. a # Main /\ Job(a) \notin {"join", "scene"}
    BY <1>0, <2>1 DEF Job, After
  <2>3. UNCHANGED <<recvID, opt, got, answered>>
    BY <1>6, <2>2 DEF Prepare
  <2>4. buffer' = IF Job(a) \in Sends THEN Own(recvID) ELSE Clear
    BY <1>6, <2>3 DEF Prepare
  <2>5. IdsOf(Own(recvID)) = {} /\ IdsOf(Clear) = {} /\ Own(recvID).ans = recvID
    BY DEF IdsOf, Own, Clear
  <2>6. \A b \in Actors : pc'[b] = "issue" => b = a
    BY <1>0, <1>6, <2>1 DEF Prepare, InThread
  <2>7. Job(a)' = Job(a)
    BY <2>3 DEF Job
  <2>8. \A w \in Workers : pc'[w] = "issue" /\ Job(w)' \in Sends => buffer'.ans = recvID'
    BY <1>0, <2>3, <2>4, <2>5, <2>6, <2>7
  <2>9. pc'[Main] # "issue"
    BY <1>0, <2>2, <2>6
  <2>10. IdsOf(buffer)' = {}
    BY <2>4, <2>5 DEF IdsOf
  <2>11. QED
    BY <2>3, <2>8, <2>9, <2>10 DEF AnswerInv
<1>7. ASSUME NEW a \in Actors, Issue(a) \/ IssueFails(a)
      PROVE  AnswerInv' /\ [Receiver!Next]_<<got, answered>>
  <2>1. InThread(a)
    BY <1>0, <1>7, ThreadHasIt DEF Issue, IssueFails
  <2>2. \A b \in Actors : pc'[b] # "issue"
    BY <1>0, <1>7, <2>1 DEF Issue, IssueFails, Leave, AfterStart, Home, InThread
  <2>3. UNCHANGED <<data, got>>
    BY <1>7 DEF Issue, IssueFails
  <2>4. answered' = answered \/ answered' = recvID
    BY <1>7 DEF Issue, IssueFails, AnswerInv, Actors
  <2>5. AnswerInv'
    BY <1>0, <2>2, <2>3, <2>4 DEF AnswerInv
  <2>6. answered' = answered \/ Receiver!Answer
    BY <1>0, <2>3, <2>4 DEF AnswerInv, Receiver!Answer
  <2>7. QED
    BY <2>3, <2>5, <2>6 DEF Receiver!Next
<1>8. ASSUME NEW k \in Kinds, CompleteEmpty(k) \/ \E d \in Datagrams : Deliver(k, d)
      PROVE  AnswerInv' /\ Receiver!Receive
  <2>1. InKernel(k)
    BY <1>0, <1>8, KernelHasIt DEF CompleteEmpty, Deliver, Complete
  <2>2. \A a \in Actors : pc'[a] # "issue"
    BY <1>0, <1>8, <2>1 DEF CompleteEmpty, Deliver, Complete, InKernel, NoThread
  <2>3. UNCHANGED <<recvID, answered>>
    BY <1>8 DEF CompleteEmpty, Deliver, Complete
  <2>4. got \subseteq got' /\ IdsOf(buffer)' \subseteq got'
    <3>1. CASE CompleteEmpty(k)
      BY <3>1 DEF CompleteEmpty, AnswerInv, IdsOf
    <3>2. ASSUME NEW d \in Datagrams, Deliver(k, d) PROVE got \subseteq got' /\ IdsOf(buffer)' \subseteq got'
      BY <3>2 DEF Deliver, IdsOf
    <3>3. QED
      BY <1>8, <3>1, <3>2
  <2>5. QED
    BY <1>0, <2>2, <2>3, <2>4 DEF AnswerInv, Receiver!Receive
<1>9. CASE UNCHANGED vars
  BY <1>9 DEF vars, AnswerInv, Job, IdsOf
<1>10. ASSUME NEW w \in Workers, Report(w)
       PROVE  AnswerInv' /\ UNCHANGED <<got, answered>>
  <2>1. \A b \in Actors : pc'[b] = "issue" => pc[b] = "issue"
    BY <1>0, <1>10 DEF Report
  <2>2. UNCHANGED <<data, opt, got, answered>>
    BY <1>10 DEF Report
  <2>3. QED
    BY <1>0, <2>1, <2>2 DEF AnswerInv, Job
<1>11. QED
  BY <1>1, <1>2, <1>3, <1>4, <1>5, <1>6, <1>7, <1>8, <1>9, <1>10
     DEF Next, Step, WorkerStep, Receiver!Next

(* With no request of main(), the client answers as Acknowledger says,       *)
(* whatever the network does and whichever calls fail (NetService.cpp:226-276). *)
THEOREM AnswersRefine == Script = <<>> => (Spec => AnswersOnlyReceived)
<1> SUFFICES ASSUME Script = <<>> PROVE Spec => AnswersOnlyReceived
  OBVIOUS
<1>1. Init => AnswerInv /\ Receiver!Init
  BY NetAssumption DEF Init, AnswerInv, Receiver!Init, Clear, IdsOf, Actors, NetAssumption
<1>2. TypeOK => next = 0
  BY DEF TypeOK, ThreadsOK
<1>3. /\ TypeOK /\ TypeOK' /\ MainKnows /\ ChainInv /\ AnswerInv /\ [Next]_vars
      => AnswerInv' /\ [Receiver!Next]_<<got, answered>>
  <2>1. TypeOK' => next' = 0
    BY DEF TypeOK, ThreadsOK
  <2>2. QED
    BY <1>2, <2>1, AnswerStep
<1>4. QED
  BY <1>1, <1>3, TypeCorrect, ChainInvariant, PTL
     DEF Spec, AnswersOnlyReceived, Receiver!Spec

-----------------------------------------------------------------------------
(* Every step passes the struct on, from one holder to another, or lets it go; *)
(* only CheckUid and the requests of main() add a holder.                     *)
LEMMA HolderIs ==
  \A x : x \in Holders <=>
    \/ \E a \in Actors : pc[a] \in Active /\ x = <<"thread", a>>
    \/ \E k \in Kinds : \E i \in 1 .. inflight[k] : x = <<"operation", k, i>>
    \/ \E i \in 1 .. Len(queue) : x = <<"packet", i>>
BY DEF Holders, ThreadHolders, KernelHolders, PortHolders

LEMMA Fewer ==
  ASSUME NEW S, IsFiniteSet(S), NEW T, T \subseteq S
  PROVE  IsFiniteSet(T) /\ Cardinality(T) <= Cardinality(S)
BY FS_Subset

LEMMA OneMore ==
  ASSUME NEW S, IsFiniteSet(S), NEW y, NEW T, T \subseteq S \cup {y}
  PROVE  IsFiniteSet(T) /\ Cardinality(T) <= Cardinality(S) + 1
<1>1. /\ IsFiniteSet(S \cup {y}) /\ Cardinality(S \cup {y}) \in Nat /\ Cardinality(S) \in Nat
      /\ Cardinality(S \cup {y}) <= Cardinality(S) + 1
  <2>1. /\ IsFiniteSet(S \cup {y})
        /\ Cardinality(S \cup {y}) = IF y \in S THEN Cardinality(S) ELSE Cardinality(S) + 1
    BY FS_AddElement
  <2>2. Cardinality(S \cup {y}) \in Nat
    BY <2>1, FS_CardinalityType
  <2>3. Cardinality(S) \in Nat
    BY FS_CardinalityType
  <2>4. QED
    BY <2>1, <2>2, <2>3
<1> DEFINE U == S \cup {y}
<1> HIDE DEF U
<1>2. /\ IsFiniteSet(U) /\ T \subseteq U /\ Cardinality(U) \in Nat
      /\ Cardinality(S) \in Nat /\ Cardinality(U) <= Cardinality(S) + 1
  BY <1>1 DEF U
<1>3. IsFiniteSet(T) /\ Cardinality(T) <= Cardinality(U)
  BY <1>2, Fewer
<1>4. Cardinality(T) \in Nat
  BY <1>3, FS_CardinalityType
<1>5. QED
  BY <1>2, <1>3, <1>4

LEMMA PassedOn ==
  ASSUME NEW S, IsFiniteSet(S), NEW x \in S, NEW y, NEW T, T \subseteq (S \ {x}) \cup {y}
  PROVE  IsFiniteSet(T) /\ Cardinality(T) <= Cardinality(S)
<1>1. /\ IsFiniteSet(S \ {x}) /\ Cardinality(S \ {x}) = Cardinality(S) - 1
      /\ Cardinality(S) \in Nat
  BY FS_RemoveElement, FS_CardinalityType
<1>2. IsFiniteSet(T) /\ Cardinality(T) <= Cardinality(S \ {x}) + 1
  BY <1>1, OneMore
<1>3. QED
  BY <1>1, <1>2, FS_CardinalityType

(* Before CheckUid, nobody has it. *)
Entered == IF pc[Main] = "start" THEN 0 ELSE 1
BoundInv == IsFiniteSet(Holders) /\ Cardinality(Holders) <= Entered + next

(* What a step from pc to pc' does to the threads that hold the struct.       *)
LEMMA SameHolders ==
  ASSUME UNCHANGED <<inflight, queue>>,
         \A a \in Actors : pc'[a] \in Active => pc[a] \in Active
  PROVE  Holders' \subseteq Holders
<1> SUFFICES ASSUME NEW x \in Holders' PROVE x \in Holders
  OBVIOUS
<1>1. \/ \E a \in Actors : pc'[a] \in Active /\ x = <<"thread", a>>
      \/ \E k \in Kinds : \E i \in 1 .. inflight'[k] : x = <<"operation", k, i>>
      \/ \E i \in 1 .. Len(queue') : x = <<"packet", i>>
  BY DEF Holders, ThreadHolders, KernelHolders, PortHolders
<1>2. QED
  BY <1>1, HolderIs

LEMMA BoundStep ==
  ASSUME TypeOK, MainKnows, BoundInv, [Next]_vars
  PROVE  BoundInv'
<1> USE NetAssumption DEF NetAssumption
<1>0. /\ Cardinality(Holders) \in Nat /\ next \in Nat /\ IsFiniteSet(Holders)
      /\ Cardinality(Holders) <= Entered + next /\ Entered \in {0, 1}
      /\ Main \in Actors
  BY FS_CardinalityType DEF BoundInv, TypeOK, ThreadsOK, Entered, Actors
<1>1. \A x : x \in Holders' <=>
        \/ \E a \in Actors : pc'[a] \in Active /\ x = <<"thread", a>>
        \/ \E k \in Kinds : \E i \in 1 .. inflight'[k] : x = <<"operation", k, i>>
        \/ \E i \in 1 .. Len(queue') : x = <<"packet", i>>
  BY DEF Holders, ThreadHolders, KernelHolders, PortHolders
<1>2. ASSUME next' = next, (pc[Main] = "start" <=> pc'[Main] = "start"),
             IsFiniteSet(Holders'), Cardinality(Holders') <= Cardinality(Holders)
      PROVE  BoundInv'
  <2>1. Cardinality(Holders') \in Nat /\ Entered' = Entered
    BY <1>2, FS_CardinalityType DEF Entered
  <2>2. QED
    BY <1>0, <1>2, <2>1 DEF BoundInv
<1>3. ASSUME NEW a \in Actors, NEW to, pc' = [pc EXCEPT ![a] = to],
             to \in Active => pc[a] \in Active, pc[a] # "start", to # "start",
             UNCHANGED <<inflight, queue, next>>
      PROVE  BoundInv'
  <2>1. Holders' \subseteq Holders
    BY <1>3, SameHolders DEF TypeOK, ThreadsOK
  <2>2. pc[Main] = "start" <=> pc'[Main] = "start"
    BY <1>3 DEF TypeOK, ThreadsOK
  <2>3. IsFiniteSet(Holders') /\ Cardinality(Holders') <= Cardinality(Holders)
    BY <1>0, <2>1, Fewer
  <2>4. QED
    BY <1>2, <1>3, <2>2, <2>3
<1>4. CASE CheckUid \/ Request
  <2>1. /\ \A a \in Actors \ {Main} : pc'[a] = pc[a]
        /\ pc'[Main] # "start"
        /\ UNCHANGED <<inflight, queue>>
    <3>1. PICK to \in {"issue", "arrive"} : pc' = [pc EXCEPT ![Main] = to]
      BY <1>4 DEF CheckUid, Request
    <3>2. UNCHANGED <<inflight, queue>>
      BY <1>4 DEF CheckUid, Request, kernel
    <3>3. QED
      BY <1>0, <3>1, <3>2 DEF TypeOK, ThreadsOK
  <2>2. Entered' + next' = Entered + next + 1
    <3>1. CASE CheckUid
      BY <1>0, <2>1, <3>1 DEF CheckUid, Entered
    <3>2. CASE Request
      BY <1>0, <2>1, <3>2 DEF Request, Entered
    <3>3. QED
      BY <1>4, <3>1, <3>2
  <2>3. Holders' \subseteq Holders \cup {<<"thread", Main>>}
    <3> SUFFICES ASSUME NEW x \in Holders', x # <<"thread", Main>> PROVE x \in Holders
      OBVIOUS
    <3>1. CASE \E a \in Actors : pc'[a] \in Active /\ x = <<"thread", a>>
      BY <2>1, <3>1, HolderIs
    <3>2. CASE \E k \in Kinds : \E i \in 1 .. inflight'[k] : x = <<"operation", k, i>>
      BY <2>1, <3>2, HolderIs
    <3>3. CASE \E i \in 1 .. Len(queue') : x = <<"packet", i>>
      BY <2>1, <3>3, HolderIs
    <3>4. QED
      BY <1>1, <3>1, <3>2, <3>3
  <2>4. IsFiniteSet(Holders') /\ Cardinality(Holders') <= Cardinality(Holders) + 1
    BY <1>0, <2>3, OneMore
  <2>5. QED
    BY <1>0, <2>2, <2>4, FS_CardinalityType DEF BoundInv
<1>5. ASSUME NEW w \in Workers, Callback(w) PROVE BoundInv'
  <2> DEFINE n == Len(queue)
  <2>1. /\ n \in Nat \ {0} /\ Len(queue') = n - 1
        /\ \A a \in Actors \ {w} : pc'[a] = pc[a]
        /\ w # Main /\ UNCHANGED <<inflight, next>>
    BY <1>5 DEF Callback, TypeOK, ThreadsOK, KernelOK, Actors
  <2> HIDE DEF n
  <2>2. <<"packet", n>> \in Holders
    <3>1. n \in 1 .. Len(queue)
      BY <2>1 DEF n
    <3>2. QED
      BY <3>1, HolderIs
  <2>3. Holders' \subseteq (Holders \ {<<"packet", n>>}) \cup {<<"thread", w>>}
    <3> SUFFICES ASSUME NEW x \in Holders', x # <<"thread", w>>
                 PROVE  x \in Holders /\ x # <<"packet", n>>
      OBVIOUS
    <3>1. CASE \E a \in Actors : pc'[a] \in Active /\ x = <<"thread", a>>
      BY <2>1, <3>1, HolderIs
    <3>2. CASE \E k \in Kinds : \E i \in 1 .. inflight'[k] : x = <<"operation", k, i>>
      BY <2>1, <3>2, HolderIs
    <3>3. CASE \E i \in 1 .. Len(queue') : x = <<"packet", i>>
      <4>1. PICK i \in 1 .. n - 1 : x = <<"packet", i>>
        BY <2>1, <3>3
      <4>2. i \in 1 .. Len(queue) /\ i # n
        BY <2>1 DEF n
      <4>3. QED
        BY <4>1, <4>2, HolderIs
    <3>4. QED
      BY <1>1, <3>1, <3>2, <3>3
  <2>4. IsFiniteSet(Holders') /\ Cardinality(Holders') <= Cardinality(Holders)
    BY <1>0, <2>2, <2>3, PassedOn
  <2>5. QED
    BY <1>0, <1>2, <2>1, <2>4
<1>6. ASSUME NEW a \in Actors, Issue(a) PROVE BoundInv'
  <2> DEFINE k == Job(a)
             n == inflight[k] + 1
  <2>1. pc[a] \in Active /\ k \in Kinds /\ inflight[k] \in Nat
    BY <1>6, JobKind DEF Issue, Active, Holding, TypeOK, KernelOK
  <2>2. /\ inflight'[k] = n /\ \A j \in Kinds \ {k} : inflight'[j] = inflight[j]
        /\ \A b \in Actors \ {a} : pc'[b] = pc[b]
        /\ pc'[a] \in {"idle", "free", "report"}
        /\ UNCHANGED <<queue, next>>
    BY <1>6, <2>1 DEF Issue, Leave, AfterStart, Home, TypeOK, ThreadsOK, KernelOK
  <2>3. pc'[a] \notin Active
    BY <2>2 DEF Active, Waiting, Holding
  <2> HIDE DEF k
  <2>4. Holders' \subseteq (Holders \ {<<"thread", a>>}) \cup {<<"operation", k, n>>}
    <3> SUFFICES ASSUME NEW x \in Holders', x # <<"operation", k, n>>
                 PROVE  x \in Holders /\ x # <<"thread", a>>
      OBVIOUS
    <3>1. CASE \E b \in Actors : pc'[b] \in Active /\ x = <<"thread", b>>
      BY <2>2, <2>3, <3>1, HolderIs
    <3>2. CASE \E j \in Kinds : \E i \in 1 .. inflight'[j] : x = <<"operation", j, i>>
      <4> PICK j \in Kinds : \E i \in 1 .. inflight'[j] : x = <<"operation", j, i>>
        BY <3>2
      <4>1. PICK i \in 1 .. inflight'[j] : x = <<"operation", j, i>>
        OBVIOUS
      <4>2. i \in 1 .. inflight[j]
        BY <2>1, <2>2, <4>1 DEF n
      <4>3. QED
        BY <4>1, <4>2, HolderIs
    <3>3. CASE \E i \in 1 .. Len(queue') : x = <<"packet", i>>
      BY <2>2, <3>3, HolderIs
    <3>4. QED
      BY <1>1, <3>1, <3>2, <3>3
  <2>5. <<"thread", a>> \in Holders
    BY <2>1, HolderIs
  <2>6. IsFiniteSet(Holders') /\ Cardinality(Holders') <= Cardinality(Holders)
    BY <1>0, <2>4, <2>5, PassedOn
  <2>7. pc[Main] = "start" <=> pc'[Main] = "start"
    BY <1>0, <2>1, <2>2 DEF Active, Waiting, Holding
  <2>8. QED
    BY <1>2, <2>2, <2>6, <2>7
<1>7. ASSUME NEW a \in Actors, IssueFails(a) PROVE BoundInv'
  BY <1>3, <1>7 DEF IssueFails, Leave, AfterStart, Home, kernel, Active, Holding
<1>8. ASSUME NEW k \in Kinds, Complete(k) PROVE BoundInv'
  <2> DEFINE n == inflight[k]
             m == Len(queue) + 1
  <2>1. /\ n \in Nat \ {0} /\ inflight'[k] = n - 1
        /\ \A j \in Kinds \ {k} : inflight'[j] = inflight[j]
        /\ Len(queue) \in Nat /\ Len(queue') = m /\ next' = next
    BY <1>8 DEF Complete, TypeOK, KernelOK
  <2>2. \A a \in Actors : /\ pc'[a] \in Active => pc[a] \in Active
                          /\ pc'[a] = "start" <=> pc[a] = "start"
    BY <1>8 DEF Complete, Active, Waiting
  <2>3. <<"operation", k, n>> \in Holders
    <3>1. n \in 1 .. inflight[k]
      BY <2>1
    <3>2. QED
      BY <3>1, HolderIs
  <2> HIDE DEF n, m
  <2>4. Holders' \subseteq (Holders \ {<<"operation", k, n>>}) \cup {<<"packet", m>>}
    <3> SUFFICES ASSUME NEW x \in Holders', x # <<"packet", m>>
                 PROVE  x \in Holders /\ x # <<"operation", k, n>>
      OBVIOUS
    <3>1. CASE \E b \in Actors : pc'[b] \in Active /\ x = <<"thread", b>>
      BY <2>2, <3>1, HolderIs
    <3>2. CASE \E j \in Kinds : \E i \in 1 .. inflight'[j] : x = <<"operation", j, i>>
      <4> PICK j \in Kinds : \E i \in 1 .. inflight'[j] : x = <<"operation", j, i>>
        BY <3>2
      <4>1. PICK i \in 1 .. inflight'[j] : x = <<"operation", j, i>>
        OBVIOUS
      <4>2. i \in 1 .. inflight[j] /\ (j = k => i # n)
        BY <2>1, <4>1 DEF n
      <4>3. QED
        BY <4>1, <4>2, HolderIs
    <3>3. CASE \E i \in 1 .. Len(queue') : x = <<"packet", i>>
      <4>1. PICK i \in 1 .. Len(queue) : x = <<"packet", i>>
        BY <2>1, <3>3 DEF m
      <4>2. QED
        BY <4>1, HolderIs
    <3>4. QED
      BY <1>1, <3>1, <3>2, <3>3
  <2>5. IsFiniteSet(Holders') /\ Cardinality(Holders') <= Cardinality(Holders)
    BY <1>0, <2>3, <2>4, PassedOn
  <2>6. QED
    BY <1>0, <1>2, <2>1, <2>2, <2>5
<1>9. ASSUME NEW a \in Actors, Wait(a) \/ Reset(a) \/ Prepare(a) PROVE BoundInv'
  <2>1. PICK to \in {"reset", "blocked", "parse", "prepare", "issue"} :
          pc' = [pc EXCEPT ![a] = to]
    BY <1>9 DEF Wait, Reset, Prepare
  <2>2. pc[a] \in Active /\ pc[a] # "start" /\ UNCHANGED <<inflight, queue, next>>
    BY <1>9 DEF Wait, Reset, Prepare, Active, Waiting, Holding, kernel
  <2>3. QED
    BY <1>3, <2>1, <2>2
<1>10. ASSUME NEW w \in Workers, Inspect(w) \/ Parse(w) PROVE BoundInv'
  <2>1. PICK to \in {"arrive", "free", "parse", "prepare"} : pc' = [pc EXCEPT ![w] = to]
    BY <1>10 DEF Inspect, Parse, TypeOK, ThreadsOK, Actors
  <2>2. /\ pc[w] \in Active /\ pc[w] # "start" /\ w \in Actors
        /\ UNCHANGED <<inflight, queue, next>>
    BY <1>10 DEF Inspect, Parse, Active, Waiting, Holding, kernel, Actors
  <2>3. QED
    BY <1>3, <2>1, <2>2
<1>11. CASE UNCHANGED vars
  BY <1>11 DEF vars, kernel, BoundInv, Entered, Holders, ThreadHolders, KernelHolders, PortHolders
<1>12. ASSUME NEW w \in Workers, Report(w) PROVE BoundInv'
  <2>1. /\ pc[w] = "report" /\ pc' = [pc EXCEPT ![w] = "free"]
        /\ w \in Actors /\ UNCHANGED <<inflight, queue, next>>
    BY <1>12 DEF Report, kernel, Actors
  <2> USE DEF Active, Waiting, Holding
  <2>2. QED
    BY <1>3, <2>1
<1>13. QED
  BY <1>4, <1>5, <1>6, <1>7, <1>8, <1>9, <1>10, <1>11, <1>12
     DEF Next, Step, WorkerStep, CompleteEmpty, Deliver

(* Each request of main() adds one holder of the struct, and nothing else     *)
(* does, for any script, datagrams, number of workers and failing calls       *)
(* (NetService.cpp:36-145, 301-393).                                          *)
THEOREM HoldersAreBounded == Spec => []HoldersBound
<1>1. Init => BoundInv
  <2> SUFFICES ASSUME Init PROVE BoundInv
    OBVIOUS
  <2>1. /\ \A a \in Actors : pc[a] \notin Active
        /\ \A k \in Kinds : inflight[k] = 0
        /\ queue = <<>>
    BY DEF Init, Active, Waiting, Holding
  <2>2. \A x : x \notin Holders
    BY <2>1, HolderIs
  <2>3. Holders = {}
    BY <2>2
  <2>4. pc[Main] = "start" /\ next = 0
    BY DEF Init, Actors
  <2>5. QED
    BY <2>3, <2>4, FS_EmptySet DEF BoundInv, Entered
<1>2. ASSUME TypeOK, BoundInv PROVE HoldersBound
  BY <1>2, FS_CardinalityType DEF BoundInv, Entered, HoldersBound, TypeOK, ThreadsOK
<1>3. TypeOK /\ MainKnows /\ BoundInv /\ [Next]_vars => BoundInv'
  BY BoundStep
<1>4. QED
  BY <1>1, <1>2, <1>3, TypeCorrect, PTL DEF Spec
=============================================================================
