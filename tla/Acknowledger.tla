---------------------------- MODULE Acknowledger ----------------------------
(* What a client's receiving side promises to the game server over UDP, with *)
(* the overlapped operations, the buffer and the threads left out: the       *)
(* message id it answers never goes back, and every message up to it has     *)
(* arrived. Ids start at 2, as a fresh NetIoData has recvID = 1.             *)
EXTENDS Integers

VARIABLES
  got,        \* the ids of the messages that arrived
  answered    \* the id last answered, 0 before the first answer

Init ==
  /\ got = {}
  /\ answered = 0

(* Messages arrive. *)
Receive ==
  /\ got \subseteq got'
  /\ UNCHANGED answered

(* An id is answered: no smaller one than before, and nothing is missing.    *)
Answer ==
  /\ answered' \in Nat /\ answered' >= answered
  /\ 2 .. answered' \subseteq got
  /\ UNCHANGED got

Next == Receive \/ Answer

Spec == Init /\ [][Next]_<<got, answered>>
=============================================================================
