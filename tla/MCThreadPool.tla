---------------------------- MODULE MCThreadPool ----------------------------
(* Values of the constants of ThreadPool for TLC. *)
EXTENDS ThreadPool, TLC

(* A check-uid element as TestClient queues it (one run, interval 0), a      *)
(* repeated one as main() queues it, an element that is refused, one that    *)
(* runs for ever (a small Forever stands for the DWORD -1), and one that is  *)
(* never due.                                                                *)
Once == [runCount |-> 1, startTime |-> 0, interval |-> 0]
Repeated == [runCount |-> 2, startTime |-> 0, interval |-> TickMod - 2]
NoRuns == [runCount |-> 0, startTime |-> 0, interval |-> 0]
Endless == [runCount |-> Forever, startTime |-> 0, interval |-> 1]
AlwaysDue == [Endless EXCEPT !.interval = 0]
Never == [Once EXCEPT !.interval = TickMod - 1]

AllParams == {Once, Repeated, NoRuns, Endless}
WaitingParams == {Once, Repeated, AlwaysDue, Never}

Symmetry == Permutations(Threads)
=============================================================================
