----------------------------- MODULE TaskLedger -----------------------------
(* What the thread pool promises to a caller of ThreadPool::AddElem, with    *)
(* the clock, the lock and the order of the list left out: whenever a thread *)
(* gets a task, exactly one of the task's runs is counted (none when its     *)
(* runCount is MAX_THREAD_RUNCOUNT); a task without runs left is not handed  *)
(* out, and it is reclaimed then, never before, and never comes back. That a *)
(* task is handed out at all is not promised here: see Reclaimed of          *)
(* ThreadPool.                                                               *)
EXTENDS Integers

CONSTANTS
  Threads,    \* the threads of the pool
  Forever,    \* MAX_THREAD_RUNCOUNT, a DWORD with all bits set
  MaxTasks    \* bound: how many tasks a behaviour accepts

VARIABLES
  accepted,   \* number of tasks accepted; a task is named by its rank
  live,       \* the tasks accepted and not reclaimed
  left,       \* runs still to be handed out, per task
  running     \* the task that each thread has, 0 for none

vars == <<accepted, live, left, running>>
Tasks == 1 .. MaxTasks

Init ==
  /\ accepted = 0
  /\ live = {}
  /\ left = [e \in Tasks |-> 0]
  /\ running = [t \in Threads |-> 0]

Retirable == {e \in live : left[e] = 0}

(* A caller hands in a task with at least one run. *)
Accept ==
  /\ accepted < MaxTasks
  /\ accepted' = accepted + 1
  /\ live' = live \cup {accepted + 1}
  /\ \E n \in 1 .. Forever : left' = [left EXCEPT ![accepted + 1] = n]
  /\ UNCHANGED running

(* Some exhausted tasks are reclaimed. *)
Discard == \E gone \in SUBSET Retirable : live' = live \ gone

(* A thread without a task is handed one run of a task; some exhausted tasks *)
(* are reclaimed on the way.                                                 *)
Hand(t) ==
  /\ running[t] = 0
  /\ \E e \in live \ Retirable :
       /\ running' = [running EXCEPT ![t] = e]
       /\ left' = [left EXCEPT ![e] = IF @ = Forever THEN @ ELSE @ - 1]
  /\ Discard
  /\ UNCHANGED accepted

(* A thread asks for work in vain. *)
Pass == Discard /\ UNCHANGED <<accepted, left, running>>

(* A thread has done the run it was handed. *)
Release(t) ==
  /\ running[t] # 0
  /\ running' = [running EXCEPT ![t] = 0]
  /\ UNCHANGED <<accepted, live, left>>

Next == Accept \/ Pass \/ \E t \in Threads : Hand(t) \/ Release(t)

Spec == Init /\ [][Next]_vars
=============================================================================
