------------------------------ MODULE PoolStart ------------------------------
(* The start of the pool: ThreadPool::Init starts the threads and then        *)
(* initialises the critical section that they enter, which until then is     *)
(* memory that nobody has written (CS_LockGuide's constructor does nothing). *)
(* main() calls AddElem when Init has returned. What Windows does with a     *)
(* section (external) is undefined when it was not initialised, or when it   *)
(* was initialised with a thread inside: EnterCriticalSection may then let   *)
(* the thread in, keep it for ever, or end the process.                      *)
(* ThreadPoolProofs is about this module and ThreadPool, so no name is in     *)
(* both: `at' is the threads' pc, AddFirst is AddElem as main() calls it.      *)
(* Definitions marked "Mutant" are wrong on purpose: the run must fail when   *)
(* one takes the place of the definition it is named after.                  *)
EXTENDS Integers

CONSTANTS
  Workers,    \* the threads that Init starts
  Starter     \* the thread of main()

Entrants == Workers \cup {Starter}

ASSUME StartAssumption == Starter \notin Workers

VARIABLES
  m_cs,       \* "raw", "free", "held" or "spoiled"
  at,         \* where each thread is
  unowned,    \* threads inside that the section does not know of
  checked,    \* whether HasSpace has told main() that the list is not full
  added,      \* whether main()'s element is in the list
  seen,       \* whether a worker found it there
  overtaken   \* a worker was inside when the section was initialised

startVars == <<m_cs, at, unowned, checked, added, seen, overtaken>>

Places == {"unborn", "failed", "spawn", "init", "out", "enter", "inside", "hung", "done", "crashed"}
Inside == {t \in Entrants : at[t] = "inside"}

StartTypeOK ==
  /\ m_cs \in {"raw", "free", "held", "spoiled"}
  /\ at \in [Entrants -> Places]
  /\ unowned \subseteq Inside
  /\ m_cs = "free" => Inside \subseteq unowned
  /\ checked \in BOOLEAN
  /\ added \in BOOLEAN
  /\ seen \in BOOLEAN
  /\ overtaken \in BOOLEAN

(* main() is in ThreadPool::Init, in the loop of _beginthreadex. *)
StartInit ==
  /\ m_cs = "raw"
  /\ at = [t \in Entrants |-> IF t = Starter THEN "spawn" ELSE "unborn"]
  /\ unowned = {}
  /\ checked = FALSE
  /\ added = FALSE
  /\ seen = FALSE
  /\ overtaken = FALSE

-----------------------------------------------------------------------------
(* _beginthreadex; what it returns is not looked at. *)
Spawn(w) ==
  /\ at[Starter] = "spawn"
  /\ at[w] = "unborn"
  /\ \E to \in {"enter", "failed"} : at' = [at EXCEPT ![w] = to]
  /\ UNCHANGED <<m_cs, unowned, checked, added, seen, overtaken>>

Spawned ==
  /\ at[Starter] = "spawn"
  /\ \A w \in Workers : at[w] # "unborn"
  /\ at' = [at EXCEPT ![Starter] = "init"]
  /\ UNCHANGED <<m_cs, unowned, checked, added, seen, overtaken>>

(* m_csLocker.init(), and Init returns. *)
InitLocker ==
  /\ at[Starter] = "init"
  /\ m_cs' = "free"
  /\ overtaken' = (Inside # {})
  /\ at' = [at EXCEPT ![Starter] = "enter"]
  /\ UNCHANGED <<unowned, checked, added, seen>>

(* Mutant of Lock: the section is entered and not taken. *)
LockShared(t) ==
  /\ at[t] = "enter"
  /\ m_cs = "free"
  /\ at' = [at EXCEPT ![t] = "inside"]
  /\ UNCHANGED <<m_cs, unowned, checked, added, seen, overtaken>>

(* m_csLocker.lock(): EnterCriticalSection on a section that works. *)
Lock(t) ==
  /\ at[t] = "enter"
  /\ m_cs = "free"
  /\ m_cs' = "held"
  /\ at' = [at EXCEPT ![t] = "inside"]
  /\ UNCHANGED <<unowned, checked, added, seen, overtaken>>

(* EnterCriticalSection on one that does not. *)
LockUndefined(t) ==
  /\ at[t] = "enter"
  /\ m_cs \in {"raw", "spoiled"}
  /\ \E to \in {"inside", "hung", "crashed"} :
       /\ at' = [at EXCEPT ![t] = to]
       /\ unowned' = IF to = "inside" THEN unowned \cup {t} ELSE unowned
  /\ UNCHANGED <<m_cs, checked, added, seen, overtaken>>

(* The blocks under the lock: GetElem looks at the list; AddElem enters the   *)
(* section twice, for HasSpace (of an empty list here) and for the push.     *)
GetElem(w) ==
  /\ at[w] = "inside"
  /\ seen' = (seen \/ added)
  /\ UNCHANGED <<checked, added>>

SpaceForFirst ==
  /\ at[Starter] = "inside" /\ ~ checked
  /\ checked' = TRUE
  /\ UNCHANGED <<added, seen>>

AddFirst ==
  /\ at[Starter] = "inside" /\ checked
  /\ added' = TRUE
  /\ UNCHANGED <<checked, seen>>

(* Where a thread goes on behind a block. *)
Behind(t) == IF t # Starter THEN "out" ELSE IF checked THEN "done" ELSE "enter"

(* Mutant of Unlock: a return that forgets to leave the section. *)
UnlockForgotten(t) ==
  /\ at' = [at EXCEPT ![t] = Behind(t)]
  /\ unowned' = unowned \ {t}
  /\ UNCHANGED <<m_cs, overtaken>>

(* m_csLocker.unlock(): LeaveCriticalSection. A thread that the section does *)
(* not know of spoils it, once it is initialised.                            *)
Unlock(t) ==
  /\ at' = [at EXCEPT ![t] = Behind(t)]
  /\ unowned' = unowned \ {t}
  /\ m_cs' = IF m_cs = "raw" THEN "raw"
             ELSE IF t \in unowned \/ m_cs = "spoiled" THEN "spoiled" ELSE "free"
  /\ UNCHANGED overtaken

Scan(w) == GetElem(w) /\ Unlock(w)

(* Mutant of Add: the element is pushed without the lock. *)
AddUnlocked ==
  /\ at[Starter] = "enter" /\ checked
  /\ added' = TRUE
  /\ at' = [at EXCEPT ![Starter] = "done"]
  /\ UNCHANGED <<m_cs, unowned, checked, seen, overtaken>>

Check == SpaceForFirst /\ Unlock(Starter)

Add == AddFirst /\ Unlock(Starter)

(* Sleep(1) ends. *)
Wake(w) ==
  /\ at[w] = "out"
  /\ at' = [at EXCEPT ![w] = "enter"]
  /\ UNCHANGED <<m_cs, unowned, checked, added, seen, overtaken>>

Crashed == \E t \in Entrants : at[t] = "crashed"

StartNext ==
  /\ ~ Crashed
  /\ \/ Spawned \/ InitLocker \/ Check \/ Add
     \/ \E t \in Entrants : Lock(t) \/ LockUndefined(t)
     \/ \E w \in Workers : Spawn(w) \/ Scan(w) \/ Wake(w)

StartSpec == StartInit /\ [][StartNext]_startVars

(* Threads run. The section is not fair, but the workers sleep between two   *)
(* scans, so that a thread that waits for it gets it at last.                *)
StartFairness ==
  /\ WF_startVars(~ Crashed /\ (Spawned \/ InitLocker \/ Check \/ Add))
  /\ \A w \in Workers : WF_startVars(~ Crashed /\ (Spawn(w) \/ Scan(w) \/ Wake(w)))
  /\ \A t \in Entrants : SF_startVars(~ Crashed /\ (Lock(t) \/ LockUndefined(t)))

StartFairSpec == StartSpec /\ StartFairness

-----------------------------------------------------------------------------
(* Once the section is initialised, two threads are in the blocks that it    *)
(* guards only if a worker was inside before, and was overtaken by the       *)
(* initialisation (ThreadPool.cpp:87 and 92): a thread that left in time     *)
(* does no harm.                                                             *)
ExclusiveUnlessOvertaken ==
  m_cs # "raw" /\ (\E t, u \in Inside : t # u) => overtaken

(* The list is never changed while another thread is in GetElem, unless so   *)
(* (ThreadPool.cpp:28-29 and 108-109).                                       *)
ListAlone ==
  [][added' # added => Inside = {Starter} \/ overtaken]_startVars

(* The element main() adds is found by a worker, when one was started that   *)
(* the raw section neither kept nor killed, and none was overtaken           *)
(* (ThreadPool.cpp:15-29 and 85-109).                                        *)
Served ==
  at[Starter] = "enter"
    ~> \/ seen \/ overtaken \/ Crashed
       \/ \A w \in Workers : at[w] \in {"failed", "hung"}
=============================================================================
