----------------------------- MODULE IOCPHelper -----------------------------
(* IOCPHelper.cpp: the completion port, the worker threads that take packets *)
(* from it and call the handler's Callback, and Init, RegHandle and ShutDown *)
(* as one thread of the program calls them. The port itself, the start of a  *)
(* thread and the devices that complete operations are Windows' (external).  *)
EXTENDS Integers, Sequences, FiniteSets

CONSTANTS
  Workers,    \* the dwNumberOfProcessors + 2 threads that Init starts
  Handlers,   \* the IOCPHanlder objects: the log and the net service
  MaxOps      \* bound: how many operations a behaviour starts

Ops == 1 .. MaxOps

ASSUME PortAssumption ==
  /\ IsFiniteSet(Workers)
  /\ MaxOps \in Nat

VARIABLES
  m_iocp,        \* "unset", "port", "NULL" or "closed"
  m_run,
  m_threadCount, m_existCount,
  owner,         \* where the thread is that calls Init, RegHandle and ShutDown
  attached,      \* per handler: what RegHandle made of its handle
  pc,            \* where each worker is
  cur,           \* the operation whose packet a worker has, 0 for none
  issued,        \* number of operations started
  on,            \* the handler each operation belongs to
  io,            \* the state of each operation
  queue          \* the packets in the port, an operation each

ownerVars == <<m_iocp, m_run, m_threadCount, owner, attached>>
ioVars == <<issued, on, io>>
vars == <<ownerVars, ioVars, m_existCount, pc, cur, queue>>

Done == {"ok", "failed"}
Ended == {w \in Workers : pc[w] = "ended"}

TypeOK ==
  /\ m_iocp \in {"unset", "port", "NULL", "closed"}
  /\ m_run \in BOOLEAN
  /\ m_threadCount \in {0, Cardinality(Workers)}
  /\ m_existCount \in 0 .. Cardinality(Workers)
  /\ owner \in {"start", "spawn", "ready", "drain", "shut"}
  /\ attached \in [Handlers -> {"untried", "refused", "port", "orphan"}]
  /\ pc \in [Workers -> {"unborn", "failed", "test", "wait", "callback", "exit", "ended"}]
  /\ cur \in [Workers -> 0 .. MaxOps]
  /\ issued \in 0 .. MaxOps
  /\ on \in [Ops -> Handlers \cup {"none"}]
  /\ io \in [Ops -> {"idle", "pending", "lost", "handled"} \cup Done]
  /\ queue \in Seq(Ops)

Init ==
  /\ m_iocp = "unset"
  /\ m_run = TRUE
  /\ m_threadCount = 0
  /\ m_existCount = 0
  /\ owner = "start"
  /\ attached = [h \in Handlers |-> "untried"]
  /\ pc = [w \in Workers |-> "unborn"]
  /\ cur = [w \in Workers |-> 0]
  /\ issued = 0
  /\ on = [o \in Ops |-> "none"]
  /\ io = [o \in Ops |-> "idle"]
  /\ queue = <<>>

-----------------------------------------------------------------------------
(* IOCPHelper::Init. CreateIoCompletionPort returns NULL when it fails; the  *)
(* code compares with INVALID_HANDLE_VALUE, so it goes on in both cases.     *)
CreatePort ==
  /\ owner = "start"
  /\ m_iocp' \in {"port", "NULL"}
  /\ m_threadCount' = Cardinality(Workers)
  /\ owner' = "spawn"
  /\ UNCHANGED <<m_run, m_existCount, attached, pc, cur, queue, ioVars>>

(* _beginthreadex; what it returns is not looked at. *)
Spawn(w) ==
  /\ owner = "spawn"
  /\ pc[w] = "unborn"
  /\ \E next \in {"test", "failed"} : pc' = [pc EXCEPT ![w] = next]
  /\ UNCHANGED <<ownerVars, m_existCount, cur, queue, ioVars>>

InitReturns ==
  /\ owner = "spawn"
  /\ \A w \in Workers : pc[w] # "unborn"
  /\ owner' = "ready"
  /\ UNCHANGED <<m_iocp, m_run, m_threadCount, m_existCount, attached, pc, cur, queue, ioVars>>

(* RegHandle. With a NULL port the same call makes a new port for the handle *)
(* and succeeds.                                                             *)
RegHandle(h) ==
  /\ owner = "ready"
  /\ attached[h] = "untried"
  /\ \E result \in {"refused", IF m_iocp = "port" THEN "port" ELSE "orphan"} :
       attached' = [attached EXCEPT ![h] = result]
  /\ UNCHANGED <<m_iocp, m_run, m_threadCount, m_existCount, owner, pc, cur, queue, ioVars>>

(* An overlapped operation is started on a handle: by the thread that        *)
(* registered it or inside a callback, as a callback of NetService also      *)
(* writes to the log. NetService does so even when RegHandle refused the     *)
(* handle. The first conjunct is the bound.                                  *)
Issue(h) ==
  /\ issued < MaxOps
  /\ owner = "ready" \/ \E w \in Workers : pc[w] = "callback"
  /\ attached[h] # "untried"
  /\ issued' = issued + 1
  /\ on' = [on EXCEPT ![issued + 1] = h]
  /\ io' = [io EXCEPT ![issued + 1] = "pending"]
  /\ UNCHANGED <<ownerVars, m_existCount, pc, cur, queue>>

(* The device ends an operation, well or badly; the packet goes to the port  *)
(* of the handle, if that is the one the workers wait on.                    *)
Complete(o) ==
  /\ io[o] = "pending"
  /\ IF m_iocp = "port" /\ attached[on[o]] = "port"
     THEN /\ \E outcome \in Done : io' = [io EXCEPT ![o] = outcome]
          /\ queue' = Append(queue, o)
     ELSE /\ io' = [io EXCEPT ![o] = "lost"]
          /\ UNCHANGED queue
  /\ UNCHANGED <<ownerVars, m_existCount, issued, on, pc, cur>>

-----------------------------------------------------------------------------
(* Definitions marked "Mutant" are wrong on purpose: the runs must fail when  *)
(* one takes the place of the definition it is named after.                  *)

(* Mutant of TestRun: m_run is not read again. *)
TestRunOnce(w) ==
  /\ pc[w] = "test"
  /\ pc' = [pc EXCEPT ![w] = "wait"]
  /\ UNCHANGED <<ownerVars, m_existCount, cur, queue, ioVars>>

(* _WorkThread: while (m_run). *)
TestRun(w) ==
  /\ pc[w] = "test"
  /\ pc' = [pc EXCEPT ![w] = IF m_run THEN "wait" ELSE "exit"]
  /\ UNCHANGED <<ownerVars, m_existCount, cur, queue, ioVars>>

(* GetQueuedCompletionStatus on no port fails with ERROR_INVALID_HANDLE, and *)
(* the thread leaves the loop.                                               *)
InvalidHandle(w) ==
  /\ pc[w] = "wait"
  /\ m_iocp = "NULL"
  /\ pc' = [pc EXCEPT ![w] = "exit"]
  /\ UNCHANGED <<ownerVars, m_existCount, cur, queue, ioVars>>

(* Mutant of GetStatus: the thread leaves the loop on any error. *)
GetStatusStrict(w) ==
  /\ pc[w] = "wait"
  /\ m_iocp = "port"
  /\ queue # <<>>
  /\ queue' = Tail(queue)
  /\ \/ /\ io[Head(queue)] = "ok"
        /\ cur' = [cur EXCEPT ![w] = Head(queue)]
        /\ pc' = [pc EXCEPT ![w] = "callback"]
     \/ /\ io[Head(queue)] = "failed"
        /\ pc' = [pc EXCEPT ![w] = "exit"]
        /\ UNCHANGED cur
  /\ UNCHANGED <<ownerVars, m_existCount, ioVars>>

(* It returns a packet. A failed operation makes it return FALSE with some   *)
(* other error; the code goes on to the callback all the same. No worker     *)
(* waits on a closed port (PortOutlivesWorkers), so that case is left out.   *)
GetStatus(w) ==
  /\ pc[w] = "wait"
  /\ m_iocp = "port"
  /\ queue # <<>>
  /\ cur' = [cur EXCEPT ![w] = Head(queue)]
  /\ queue' = Tail(queue)
  /\ pc' = [pc EXCEPT ![w] = "callback"]
  /\ UNCHANGED <<ownerVars, m_existCount, ioVars>>

(* pHandle->Callback returns. *)
CallbackReturns(w) ==
  /\ pc[w] = "callback"
  /\ io' = [io EXCEPT ![cur[w]] = "handled"]
  /\ cur' = [cur EXCEPT ![w] = 0]
  /\ pc' = [pc EXCEPT ![w] = "test"]
  /\ UNCHANGED <<ownerVars, m_existCount, issued, on, queue>>

(* InterlockedIncrement(&m_existCount), and the thread ends. *)
Exit(w) ==
  /\ pc[w] = "exit"
  /\ m_existCount' = m_existCount + 1
  /\ pc' = [pc EXCEPT ![w] = "ended"]
  /\ UNCHANGED <<ownerVars, cur, queue, ioVars>>

-----------------------------------------------------------------------------
(* ShutDown: m_run = false, a loop of Sleep(100) until every thread counted  *)
(* has counted itself out, and CloseHandle.                                  *)
ShutDown ==
  /\ owner = "ready"
  /\ owner' = "drain"
  /\ m_run' = FALSE
  /\ UNCHANGED <<m_iocp, m_threadCount, m_existCount, attached, pc, cur, queue, ioVars>>

(* Mutant of ClosePort: the loop waits for one thread only. *)
ClosePortEarly ==
  /\ owner = "drain"
  /\ m_existCount > 0
  /\ owner' = "shut"
  /\ m_iocp' = "closed"
  /\ UNCHANGED <<m_run, m_threadCount, m_existCount, attached, pc, cur, queue, ioVars>>

ClosePort ==
  /\ owner = "drain"
  /\ m_threadCount = m_existCount
  /\ owner' = "shut"
  /\ m_iocp' = "closed"
  /\ UNCHANGED <<m_run, m_threadCount, m_existCount, attached, pc, cur, queue, ioVars>>

WorkThread(w) ==
  TestRun(w) \/ InvalidHandle(w) \/ GetStatus(w) \/ CallbackReturns(w) \/ Exit(w)

Next ==
  \/ CreatePort \/ InitReturns \/ ShutDown \/ ClosePort
  \/ \E h \in Handlers : RegHandle(h) \/ Issue(h)
  \/ \E w \in Workers : Spawn(w) \/ WorkThread(w)
  \/ \E o \in Ops : Complete(o)

Spec == Init /\ [][Next]_vars

(* Threads run, callbacks return, and the devices end what was started; no   *)
(* one is obliged to start an operation, to register or to shut down.        *)
Fairness ==
  /\ WF_vars(CreatePort) /\ WF_vars(InitReturns) /\ WF_vars(ClosePort)
  /\ \A w \in Workers : WF_vars(Spawn(w)) /\ WF_vars(WorkThread(w))
  /\ \A o \in Ops : WF_vars(Complete(o))

FairSpec == Spec /\ Fairness

-----------------------------------------------------------------------------
(* The port is closed only when no worker waits on it any more or will: with *)
(* the port gone under it, a worker would get no packet and call the handler *)
(* of its last packet with a null one (IOCPHelper.cpp:59-69 and 89-107).     *)
PortOutlivesWorkers ==
  m_iocp = "closed" => \A w \in Workers : pc[w] = "ended"

(* A packet in the port is handed to a callback while the port runs, if one  *)
(* thread could be started, whatever operations failed before                *)
(* (IOCPHelper.cpp:87-108).                                                  *)
Serviced ==
  \A o \in Ops :
    io[o] \in Done /\ ~ (\A w \in Workers : pc[w] = "failed")
      ~> io[o] = "handled" \/ ~ m_run

(* Operations whose packet is in the port or will be. *)
Coming == {o \in Ops : \/ io[o] = "pending" /\ attached[on[o]] = "port"
                       \/ \E i \in 1 .. Len(queue) : queue[i] = o}
Blocked == {w \in Workers : pc[w] = "wait"}

(* Nothing wakes a worker for ShutDown but the completion of an operation,   *)
(* so it returns when there are as many to come as workers that wait, and    *)
(* each thread was started (IOCPHelper.cpp:61-66 and 89).                    *)
EnoughToWake ==
  /\ m_iocp = "port" => Cardinality(Coming) >= Cardinality(Blocked)
  /\ \A w \in Workers : pc[w] # "failed"
ShutDownIfWoken == owner = "drain" /\ EnoughToWake ~> owner = "shut"
=============================================================================
