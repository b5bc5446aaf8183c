----------------------------- MODULE NetService -----------------------------
(* NetService.cpp: one player's NetIoData and all that uses it. The struct   *)
(* has a single OVERLAPPED, event, buffer and OPT, and a chain of operations *)
(* on it: each callback, run by a worker of IOCPHelper, starts the next one. *)
(* The thread of main() starts the chain with CheckUid and then calls the    *)
(* Req functions on the same struct, without a lock.                         *)
(*                                                                           *)
(* Grain: a call that may block (WaitForSingleObject), WSAResetEvent, each   *)
(* round of the parse loop, the block that fills the struct, and WSASend or  *)
(* WSARecv are one action each, and so is the log line behind the WSASend of *)
(* RecvCmdData. The network, the game server and the kernel's side of an     *)
(* operation are external. Players share nothing but the map of sockets, so  *)
(* one of them is modelled.                                                  *)
(*                                                                           *)
(* External too: the byte order of the server. RecvCmdData reads the ids of  *)
(* commands as they lie in memory and sends its answer through htonl; the ids*)
(* of a datagram below are those the raw reads give, which is what the server*)
(* meant only if it sends them in the order of the client's machine.         *)
EXTENDS Integers, Sequences, FiniteSets

CONSTANTS
  Workers,     \* the IOCP worker threads
  Main,        \* the thread of main()
  Script,      \* the requests main() makes after CheckUid, in order
  Datagrams,   \* what can arrive: a UDP datagram may be lost, late or doubled,
               \* so any of them may arrive at any time
  MaxRefused   \* bound: how many WSASend and WSARecv calls fail at once

Actors == Workers \cup {Main}
Requests == {"join", "scene", "bullet"}
Sends == {"checkuid", "ack"} \cup Requests
Recvs == {"recvcheck", "recv"}
Kinds == Sends \cup Recvs     \* the values of OPT

(* What the buffer holds: zeros, a message of our own with the id it         *)
(* answers, the server's answer to checkuid, or commands with their ids.     *)
Buffers == [what : {"clear", "own", "enter", "cmds"}, ids : Seq(Nat), ans : Nat]
Clear == [what |-> "clear", ids |-> <<>>, ans |-> 0]
(* Definitions marked "Mutant" are wrong on purpose: the runs must fail when  *)
(* one takes the place of the definition it is named after.                  *)
Own(n) == [what |-> "own", ids |-> <<>>, ans |-> n]
IdsOf(d) == {d.ids[i] : i \in 1 .. Len(d.ids)}
Ids == UNION {IdsOf(d) : d \in Datagrams}

ASSUME NetAssumption ==
  /\ Main \notin Workers
  /\ Script \in Seq(Requests)
  /\ Datagrams \subseteq {d \in Buffers : d.what \in {"enter", "cmds"}}
  /\ MaxRefused \in Nat

VARIABLES
  OPT, recvID,  \* fields of the NetIoData
  event,        \* overlapped.hEvent is signalled (a manual-reset event)
  buffer,
  inflight,     \* how many operations of each kind the kernel has
  queue,        \* the packets in the port: the kind of each ended operation
  pc,           \* where each thread is
  opt,          \* the OPT a callback read on entry; the request main() is in
  ended,        \* the kind of the operation a callback is called for
  pos,          \* pBuff of a callback, as a number of commands
  next,         \* how many requests main() has begun
  refused,      \* how many calls failed at once
  got,          \* the ids of the commands that arrived
  answered      \* the id in the answer sent last

data == <<OPT, recvID, buffer>>
kernel == <<inflight, queue, got>>
local == <<opt, ended, pos>>
vars == <<data, event, kernel, pc, local, next, refused, answered>>

Waiting == {"arrive", "blocked"}
Holding == {"parse", "prepare", "issue"}
Active == {"inspect", "reset"} \cup Waiting \cup Holding

StructOK ==
  /\ OPT \in Kinds \cup {"none"}
  /\ recvID \in Nat
  /\ event \in BOOLEAN
  /\ buffer \in Buffers

KernelOK ==
  /\ inflight \in [Kinds -> Nat]
  /\ queue \in Seq(Kinds)
  /\ got \subseteq Ids
  /\ answered \in Nat
  /\ refused \in 0 .. MaxRefused

ThreadsOK ==
  /\ pc \in [Actors -> {"start", "idle", "free", "report"} \cup Active]
  /\ opt \in [Actors -> Kinds \cup {"none"}]
  /\ ended \in [Workers -> Kinds \cup {"none"}]
  /\ pos \in [Workers -> Nat]
  /\ next \in 0 .. Len(Script)

TypeOK == StructOK /\ KernelOK /\ ThreadsOK

(* RegesterNewSocket has returned: the struct is zeroed, recvID = 1, and     *)
(* WSACreateEvent made an event that is not signalled.                       *)
Init ==
  /\ OPT = "none" /\ recvID = 1 /\ buffer = Clear
  /\ event = FALSE
  /\ inflight = [k \in Kinds |-> 0]
  /\ queue = <<>>
  /\ pc = [a \in Actors |-> IF a = Main THEN "start" ELSE "free"]
  /\ opt = [a \in Actors |-> "none"]
  /\ ended = [w \in Workers |-> "none"]
  /\ pos = [w \in Workers |-> 0]
  /\ next = 0
  /\ refused = 0
  /\ got = {}
  /\ answered = 0

-----------------------------------------------------------------------------
(* The operation a callback that read OPT = k starts. *)
After(k) ==
  CASE k = "checkuid" -> "recvcheck"
    [] k = "recv"     -> "ack"
    [] OTHER          -> "recv"

(* The operation a thread is about to start: CheckUid is main's first.       *)
Job(a) == IF a = Main THEN opt[a] ELSE After(opt[a])
Home(a) == IF a = Main THEN "idle" ELSE "free"

(* CheckUid does not wait for the event. *)
CheckUid ==
  /\ pc[Main] = "start"
  /\ OPT' = "checkuid"
  /\ buffer' = Own(0)
  /\ opt' = [opt EXCEPT ![Main] = "checkuid"]
  /\ pc' = [pc EXCEPT ![Main] = "issue"]
  /\ UNCHANGED <<recvID, event, kernel, ended, pos, next, refused, answered>>

(* ReqJoinTable, ReqStartSyncFish and ReqBullet begin. *)
Request ==
  /\ pc[Main] = "idle"
  /\ next < Len(Script)
  /\ next' = next + 1
  /\ opt' = [opt EXCEPT ![Main] = Script[next + 1]]
  /\ pc' = [pc EXCEPT ![Main] = "arrive"]
  /\ UNCHANGED <<data, event, kernel, ended, pos, refused, answered>>

(* GetQueuedCompletionStatus gives a worker a packet; Callback reads OPT.    *)
Callback(w) ==
  /\ pc[w] = "free"
  /\ queue # <<>>
  /\ queue' = Tail(queue)
  /\ ended' = [ended EXCEPT ![w] = Head(queue)]
  /\ opt' = [opt EXCEPT ![w] = OPT]
  /\ pc' = [pc EXCEPT ![w] = IF OPT = "recvcheck" THEN "inspect" ELSE "arrive"]
  /\ UNCHANGED <<data, event, inflight, got, pos, next, refused, answered>>

(* Mutant of Inspect: the event is reset before the test. *)
InspectAfterReset(w) ==
  /\ pc[w] = "inspect"
  /\ event' = FALSE
  /\ pc' = [pc EXCEPT ![w] = IF buffer.what = "enter" THEN "prepare" ELSE "free"]
  /\ UNCHANGED <<data, kernel, local, next, refused, answered>>

(* The checkuid answer is looked at; without ResEnterFishServer in it the    *)
(* callback ends and starts nothing.                                         *)
Inspect(w) ==
  /\ pc[w] = "inspect"
  /\ IF buffer.what = "enter"
     THEN /\ pc' = [pc EXCEPT ![w] = "arrive"]
          /\ UNCHANGED <<opt, ended>>
     ELSE /\ pc' = [pc EXCEPT ![w] = "free"]
          /\ opt' = [opt EXCEPT ![w] = "none"]
          /\ ended' = [ended EXCEPT ![w] = "none"]
  /\ UNCHANGED <<data, event, kernel, pos, next, refused, answered>>

(* Mutant of Wait: WSAResetEvent comes first. *)
WaitAfterReset(a) ==
  /\ pc[a] = "arrive"
  /\ event' = FALSE
  /\ pc' = [pc EXCEPT ![a] = "blocked"]
  /\ UNCHANGED <<data, kernel, local, next, refused, answered>>

(* WaitForSingleObject(hEvent, INFINITE). *)
Wait(a) ==
  /\ pc[a] = "arrive"
  /\ pc' = [pc EXCEPT ![a] = IF event THEN "reset" ELSE "blocked"]
  /\ UNCHANGED <<data, event, kernel, local, next, refused, answered>>

(* WSAResetEvent(hEvent). *)
Reset(a) ==
  /\ pc[a] = "reset"
  /\ event' = FALSE
  /\ pc' = [pc EXCEPT ![a] = IF a # Main /\ opt[a] = "recv" THEN "parse" ELSE "prepare"]
  /\ UNCHANGED <<data, kernel, local, next, refused, answered>>

(* Mutants of Parse: recvID follows any id that is greater; the last command  *)
(* is not looked at; without a command the callback ends and starts nothing. *)
ParseAnyGreater(w) ==
  /\ pc[w] = "parse"
  /\ IF pos[w] < Len(buffer.ids)
     THEN /\ pos' = [pos EXCEPT ![w] = @ + 1]
          /\ recvID' = IF buffer.ids[pos[w] + 1] > recvID THEN buffer.ids[pos[w] + 1] ELSE recvID
          /\ UNCHANGED pc
     ELSE /\ pos' = [pos EXCEPT ![w] = 0]
          /\ pc' = [pc EXCEPT ![w] = "prepare"]
          /\ UNCHANGED recvID
  /\ UNCHANGED <<OPT, buffer, event, kernel, opt, ended, next, refused, answered>>

ParseSkipsLast(w) ==
  /\ pc[w] = "parse"
  /\ IF pos[w] + 1 < Len(buffer.ids)
     THEN /\ pos' = [pos EXCEPT ![w] = @ + 1]
          /\ recvID' = IF buffer.ids[pos[w] + 1] = recvID + 1 THEN recvID + 1 ELSE recvID
          /\ UNCHANGED pc
     ELSE /\ pos' = [pos EXCEPT ![w] = 0]
          /\ pc' = [pc EXCEPT ![w] = "prepare"]
          /\ UNCHANGED recvID
  /\ UNCHANGED <<OPT, buffer, event, kernel, opt, ended, next, refused, answered>>

ParseQuiet(w) ==
  /\ pc[w] = "parse"
  /\ IF pos[w] < Len(buffer.ids)
     THEN /\ pos' = [pos EXCEPT ![w] = @ + 1]
          /\ recvID' = IF buffer.ids[pos[w] + 1] = recvID + 1 THEN recvID + 1 ELSE recvID
          /\ UNCHANGED pc
     ELSE /\ pos' = [pos EXCEPT ![w] = 0]
          /\ pc' = [pc EXCEPT ![w] = IF pos[w] = 0 THEN "free" ELSE "prepare"]
          /\ UNCHANGED recvID
  /\ UNCHANGED <<OPT, buffer, event, kernel, opt, ended, next, refused, answered>>

(* A round of the loop of RecvCmdData: recvID follows the id of a command    *)
(* that is the next one.                                                     *)
Parse(w) ==
  /\ pc[w] = "parse"
  /\ IF pos[w] < Len(buffer.ids)
     THEN /\ pos' = [pos EXCEPT ![w] = @ + 1]
          /\ recvID' = IF buffer.ids[pos[w] + 1] = recvID + 1 THEN recvID + 1 ELSE recvID
          /\ UNCHANGED pc
     ELSE /\ pos' = [pos EXCEPT ![w] = 0]
          /\ pc' = [pc EXCEPT ![w] = "prepare"]
          /\ UNCHANGED recvID
  /\ UNCHANGED <<OPT, buffer, event, kernel, opt, ended, next, refused, answered>>

(* The struct is filled for the operation: OPT, and the buffer with zeros    *)
(* for a receive or a message that answers recvID. ReqJoinTable and          *)
(* ReqStartSyncFish set recvID themselves.                                   *)
Prepare(a) ==
  /\ pc[a] = "prepare"
  /\ OPT' = Job(a)
  /\ recvID' = CASE Job(a) = "join" -> 2 [] Job(a) = "scene" -> 3 [] OTHER -> recvID
  /\ buffer' = IF Job(a) \in Sends THEN Own(recvID') ELSE Clear
  /\ pc' = [pc EXCEPT ![a] = "issue"]
  /\ UNCHANGED <<event, kernel, local, next, refused, answered>>

(* Mutant of Leave: the callback falls through to the branch of the operation *)
(* it has just started.                                                      *)
LeaveFallsThrough(a) ==
  /\ pc' = [pc EXCEPT ![a] = IF a = Main THEN "idle" ELSE "arrive"]
  /\ opt' = [opt EXCEPT ![a] = IF a = Main THEN "none" ELSE Job(a)]
  /\ UNCHANGED ended

(* A thread that has started its operation leaves the struct to it; only     *)
(* RecvCmdData has something to do yet.                                      *)
AfterStart(a) == IF a # Main /\ Job(a) = "ack" THEN "report" ELSE Home(a)

Leave(a) ==
  /\ pc' = [pc EXCEPT ![a] = AfterStart(a)]
  /\ opt' = [opt EXCEPT ![a] = "none"]
  /\ ended' = [w \in Workers |-> IF w = a THEN "none" ELSE ended[w]]

(* Mutant of Issue: WSA_IO_PENDING is taken for a failure, and the call is    *)
(* made again.                                                               *)
IssueAgain(a) ==
  /\ pc[a] = "issue"
  /\ event' = FALSE
  /\ inflight' = [inflight EXCEPT ![Job(a)] = @ + 2]
  /\ answered' = IF Job(a) \in Sends /\ buffer.ans # 0 THEN buffer.ans ELSE answered
  /\ Leave(a)
  /\ UNCHANGED <<data, queue, got, pos, next, refused>>

(* WSASend or WSARecv: the kernel clears the event and takes the operation;  *)
(* the bytes of a send are copied.                                           *)
Issue(a) ==
  /\ pc[a] = "issue"
  /\ event' = FALSE
  /\ inflight' = [inflight EXCEPT ![Job(a)] = @ + 1]
  /\ answered' = IF Job(a) \in Sends /\ buffer.ans # 0 THEN buffer.ans ELSE answered
  /\ Leave(a)
  /\ UNCHANGED <<data, queue, got, pos, next, refused>>

(* The call fails at once, with an error other than WSA_IO_PENDING: there is *)
(* no operation and no packet; the code logs or ignores it.                  *)
IssueFails(a) ==
  /\ pc[a] = "issue"
  /\ refused < MaxRefused
  /\ refused' = refused + 1
  /\ event' = FALSE
  /\ Leave(a)
  /\ UNCHANGED <<data, kernel, pos, next, answered>>

(* The log line of RecvCmdData behind its WSASend, which has failed or not:  *)
(* it reads uid and recvID, while the send may have ended long since and     *)
(* another worker may be in the callback for it.                             *)
Report(w) ==
  /\ pc[w] = "report"
  /\ pc' = [pc EXCEPT ![w] = "free"]
  /\ UNCHANGED <<data, event, kernel, local, next, refused, answered>>

-----------------------------------------------------------------------------
(* The kernel ends an operation: it signals the event, which lets every      *)
(* blocked thread go, and posts the packet.                                  *)
Complete(k) ==
  /\ inflight[k] > 0
  /\ inflight' = [inflight EXCEPT ![k] = @ - 1]
  /\ event' = TRUE
  /\ pc' = [a \in Actors |-> IF pc[a] = "blocked" THEN "reset" ELSE pc[a]]
  /\ queue' = Append(queue, k)
  /\ UNCHANGED <<OPT, recvID, local, next, refused, answered>>

(* A send ends; or a receive ends with an error and leaves the buffer alone, *)
(* which the worker does not tell from success.                              *)
CompleteEmpty(k) ==
  /\ Complete(k)
  /\ UNCHANGED <<buffer, got>>

(* A datagram arrives in the buffer. *)
Deliver(k, d) ==
  /\ k \in Recvs
  /\ Complete(k)
  /\ buffer' = d
  /\ got' = got \cup IdsOf(d)

Step(a) == Wait(a) \/ Reset(a) \/ Prepare(a) \/ Issue(a)
WorkerStep(w) == Callback(w) \/ Inspect(w) \/ Parse(w) \/ Report(w)

Next ==
  \/ CheckUid \/ Request
  \/ \E w \in Workers : WorkerStep(w)
  \/ \E a \in Actors : Step(a) \/ IssueFails(a)
  \/ \E k \in Kinds : CompleteEmpty(k) \/ \E d \in Datagrams : Deliver(k, d)

Spec == Init /\ [][Next]_vars

(* Threads run, sends end, and the server keeps sending: a receive ends at   *)
(* last, and commands from id n on that are sent again and again get through.*)
Carries(d, n) == d.ids # <<>> /\ d.ids[1] = n
Fairness ==
  /\ WF_vars(CheckUid) /\ WF_vars(Request)
  /\ \A w \in Workers : WF_vars(WorkerStep(w))
  /\ \A a \in Actors : WF_vars(Step(a))
  /\ \A k \in Sends : WF_vars(CompleteEmpty(k))
  /\ \A k \in Recvs : WF_vars(\E d \in Datagrams : Deliver(k, d))
  /\ \A n \in Ids : SF_vars(\E d \in Datagrams : Carries(d, n) /\ Deliver("recv", d))

FairSpec == Spec /\ Fairness

-----------------------------------------------------------------------------
(* Everything that holds the NetIoData, and may change it: threads in a      *)
(* callback or a request, operations in the kernel, and packets in the port. *)
(* A thread at its log line only reads uid and recvID and holds nothing.     *)
ThreadHolders == {<<"thread", a>> : a \in {b \in Actors : pc[b] \in Active}}
KernelHolders == UNION {{<<"operation", k, i>> : i \in 1 .. inflight[k]} : k \in Kinds}
PortHolders == {<<"packet", i>> : i \in 1 .. Len(queue)}
Holders == ThreadHolders \cup KernelHolders \cup PortHolders

(* Until main() makes its first request, one at a time may change the struct:*)
(* no two threads, operations or packets hold it at once, so that the buffer,*)
(* OPT and the OVERLAPPED need no lock. The struct is not its alone: workers *)
(* that have given it away still read recvID for their log lines, and may    *)
(* log what a later callback wrote (NetService.cpp:36-145 and 226-276).      *)
ExclusiveWrite == next = 0 => \A x, y \in Holders : x = y

(* Until then a callback's wait for the event never blocks a worker: the     *)
(* event was signalled with the packet, and nothing else resets it           *)
(* (NetService.cpp:46, 78, 125 and 228).                                     *)
WaitNeverBlocks ==
  next = 0 => \A w \in Workers :
    pc[w] # "blocked" /\ (pc[w] \in {"inspect", "arrive", "reset"} => event)

(* Requests and callbacks steal each other's signal, but none is lost: while *)
(* the event is off, an operation that will signal it is in the kernel or a  *)
(* thread that is past its wait is about to start one. It needs every        *)
(* WSASend and WSARecv to be accepted (NetService.cpp:305-306 and 228-229).  *)
NoLostWakeup ==
  refused = 0 /\ ~ event
    => \/ \E k \in Kinds : inflight[k] > 0
       \/ \E a \in Actors : pc[a] \in Holding \cup {"start"}

(* Each request main() begins adds one to the number of operations, packets  *)
(* and callbacks that may change the struct, for ever, and nothing else does:*)
(* each callback starts at most one operation (NetService.cpp:36-145,        *)
(* 301-393).                                                                 *)
HoldersBound == Cardinality(Holders) <= 1 + next

(* A request of main() gets through its INFINITE wait and is sent, as long   *)
(* as the server keeps sending and no WSASend or WSARecv fails               *)
(* (NetService.cpp:305, 336 and 366).                                        *)
RequestSent == pc[Main] = "arrive" ~> pc[Main] = "idle" \/ refused > 0

(* With no request of main(), the answers are those of Acknowledger: they    *)
(* never go back, and everything up to the answered id has arrived, whatever *)
(* is lost, doubled or out of order (NetService.cpp:240-269).                *)
Receiver == INSTANCE Acknowledger
AnswersOnlyReceived == Receiver!Spec

(* With no request, once the player is let in, every id the server keeps     *)
(* sending is answered at last, unless a call fails (NetService.cpp:226-276). *)
Last == CHOOSE n \in Ids : \A m \in Ids : m <= n
AllAnswered == OPT = "recv" ~> answered = Last \/ refused > 0

-----------------------------------------------------------------------------
(* A callback for data received from the server handles it as such: the      *)
(* branch it takes is the one so commented (NetService.cpp:133).             *)
ReceivedIsHandled ==
  \A w \in Workers : pc[w] \in Active /\ ended[w] = "recv" => opt[w] = "recv"
=============================================================================
