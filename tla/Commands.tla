------------------------------ MODULE Commands ------------------------------
(* NetService.cpp 226-276: how RecvCmdData walks the bytes of its buffer, and *)
(* what the game server can conclude from its answers. A datagram is the id   *)
(* answered (4 bytes) and commands: id (4), msgID (2), length (2) and a body  *)
(* of that length. The server sends the commands after the last id answered,  *)
(* as many as it likes, again and again; UDP loses, doubles and reorders both *)
(* the datagrams and the answers, and never cuts one.                         *)
(*                                                                            *)
(* RecvCmdData is told the size of the buffer, never that of the datagram     *)
(* (IOCPHelper.cpp:106): it always takes the loop, over a buffer that is zero *)
(* behind the datagram. Where the loop reads behind the buffer it is on       *)
(* foreign memory, may fault, and the model stops ("overrun").                *)
(*                                                                            *)
(* Assumed of the server, which is not in this repository: a datagram fits    *)
(* the buffer; its fields are in the client's byte order, for the loop reads  *)
(* them raw (247-253), though the answers go out through htonl (265).         *)
(*                                                                            *)
(* Grain: a round of the loop is one action. The operations, the event and    *)
(* the threads are NetService's; here each answer succeeds.                   *)
(* Definitions marked "Mutant" are wrong on purpose: the run must fail when   *)
(* one takes the place of the definition it is named after.                   *)
EXTENDS Integers

CONSTANTS
  Last,      \* the server's commands have the ids 2 .. Last (bound)
  Lengths,   \* the lengths a message has: 0 when it has no field set
  BufferSize \* IOCP_BUFFER_SIZE, the length RecvCmdData is always called with

Ids == 2 .. Last
ASSUME CommandsAssumption ==
  /\ Last \in Nat \ {0}
  /\ BufferSize \in Nat
  /\ Lengths # {}
  /\ \A n \in Lengths : n \in Nat /\ n < 65536 /\ 4 + 8 + n <= BufferSize

VARIABLES
  length,    \* the server's commands: the length of each message
  sent,      \* the datagrams the network may deliver: <<first, last>> id
  answers,   \* the answers the network may deliver
  acked,     \* the greatest id the server saw answered
  data,      \* the datagram in the buffer
  pBuff, pc, recvID,
  got,       \* the ids that arrived
  answered   \* the id answered last, 0 before the first answer

client == <<data, pBuff, pc, recvID, got, answered>>
vars == <<length, sent, answers, acked, client>>

(* The last id before a datagram without commands is one less than the first. *)
Datagrams == {d \in (2 .. Last + 1) \X (1 .. Last) : d[1] <= d[2] + 1}

TypeOK ==
  /\ length \in [Ids -> Lengths]
  /\ sent \subseteq Datagrams /\ data \in Datagrams
  /\ acked \in 1 .. Last /\ recvID \in 1 .. Last
  /\ answers \subseteq 1 .. Last /\ answered \in 0 .. Last
  /\ got \subseteq Ids
  /\ pBuff \in Nat
  /\ pc \in {"receive", "parse", "answer", "overrun"}

(* The struct is new: recvID is 1 (NetService.cpp:196).                       *)
Init ==
  /\ length \in [Ids -> Lengths]
  /\ sent = {} /\ answers = {} /\ acked = 1
  /\ data = <<2, 1>> /\ pBuff = 0 /\ pc = "receive"
  /\ recvID = 1 /\ got = {} /\ answered = 0

-----------------------------------------------------------------------------
(* Where each command is in the row of all the server's commands, and the     *)
(* size of a datagram; where the datagram in the buffer has its command i, and*)
(* ends, for the command after its last one.                                  *)
place[i \in 2 .. Last + 1] == IF i = 2 THEN 0 ELSE place[i - 1] + 8 + length[i - 1]
Size(d) == 4 + place[d[2] + 1] - place[d[1]]
Start(i) == 4 + place[i] - place[data[1]]

(* The server: what it has not seen answered goes out again, as much of it as *)
(* it likes and the buffer takes. A datagram without commands gives only an   *)
(* answer.                                                                    *)
Fits(d) == Size(d) <= BufferSize

SendCommands(last) ==
  /\ last \in acked .. Last
  /\ Fits(<<acked + 1, last>>)
  /\ sent' = sent \cup {<<acked + 1, last>>}
  /\ UNCHANGED <<length, answers, acked, client>>

SeeAnswer(id) ==
  /\ id \in answers /\ id > acked
  /\ acked' = id
  /\ UNCHANGED <<length, sent, answers, client>>

-----------------------------------------------------------------------------
(* The end the loop knows: pBuff + length, the end of the buffer.             *)
pend == BufferSize

(* What a field reads as, `at' bytes behind pBuff: the value of the command   *)
(* that starts at pBuff, zero between the datagram and the end of the buffer, *)
(* else anything.                                                             *)
Anything == 0 .. Last
Field(at, width, value) ==
  LET here == {i \in data[1] .. data[2] : Start(i) = pBuff}
  IN  IF here # {} THEN {value[i] : i \in here}
      ELSE IF pBuff + at >= Size(data) /\ pBuff + at + width <= BufferSize THEN {0}
      ELSE Anything

serSendID == Field(0, 4, [i \in Ids |-> i])
msgID == Field(4, 2, [i \in Ids |-> 1])
msgLength == Field(6, 2, length)

(* RecvCmdData is called for what the cleared buffer got; pBuff passes the id *)
(* answered, which nobody uses.                                               *)
Called(d) ==
  /\ pc = "receive"
  /\ data' = d
  /\ pBuff' = 4
  /\ pc' = "parse"
  /\ UNCHANGED <<length, sent, answers, acked, recvID, answered>>

Receive(d) == d \in sent /\ Called(d) /\ got' = got \cup d[1] .. d[2]

(* A receive that ends with an error leaves the buffer zero, as a datagram    *)
(* without commands does.                                                     *)
ReceiveNothing == Called(<<2, 1>>) /\ UNCHANGED got

(* Mutant of Advance: the two bytes of the length are forgotten.              *)
AdvanceBody(n) == pBuff' = pBuff + 4 + 2 + n
Advance(n) == pBuff' = pBuff + 4 + 2 + (n + 2)

(* Mutants of Follow: recvID is the id seen last; a count of the commands.    *)
FollowSeen(id) == recvID' = id
FollowCounts(id) == recvID' = recvID + 1
Follow(id) == recvID' = IF id = recvID + 1 THEN id ELSE recvID

(* A round of the loop: the next command is passed over.                      *)
Round ==
  /\ pc = "parse"
  /\ pBuff # pend
  /\ pBuff + 8 <= BufferSize
  /\ \E id \in serSendID \ {0}, n \in msgLength \ {0} :
       /\ msgID # {0}
       /\ Follow(id)
       /\ Advance(n)
  /\ UNCHANGED <<length, sent, answers, acked, data, pc, got, answered>>

(* The loop ends: at the end of the buffer, or at a field that is zero.       *)
Break ==
  /\ pc = "parse"
  /\ pBuff = pend \/ 0 \in serSendID \/ 0 \in msgID \/ 0 \in msgLength
  /\ pc' = "answer"
  /\ UNCHANGED <<length, sent, answers, acked, data, pBuff, recvID, got, answered>>

(* The loop reads a field behind the buffer, and not as zero.                 *)
Overrun ==
  /\ pc = "parse"
  /\ pBuff # pend
  /\ pBuff + 8 > BufferSize
  /\ serSendID # {0} /\ msgID # {0}
  /\ pc' = "overrun"
  /\ UNCHANGED <<length, sent, answers, acked, data, pBuff, recvID, got, answered>>

(* Mutant of Answer: the id answered before is not answered again, and        *)
(* nothing is sent whose end would start the next receive.                    *)
AnswerWhenNew ==
  /\ pc = "answer" /\ recvID # answered
  /\ answered' = recvID
  /\ answers' = answers \cup {recvID}
  /\ pc' = "receive"
  /\ UNCHANGED <<length, sent, acked, data, pBuff, recvID, got>>

(* recvID is answered, whatever was received, and the next receive is started.*)
Answer ==
  /\ pc = "answer"
  /\ answered' = recvID
  /\ answers' = answers \cup {recvID}
  /\ pc' = "receive"
  /\ UNCHANGED <<length, sent, acked, data, pBuff, recvID, got>>

Client == ReceiveNothing \/ Round \/ Break \/ Overrun \/ Answer

Next ==
  \/ \E id \in 1 .. Last : SendCommands(id) \/ SeeAnswer(id)
  \/ \E d \in Datagrams : Receive(d)
  \/ Client

Spec == Init /\ [][Next]_vars

(* The callbacks run; the server sends all that is not answered, as far as it *)
(* fits, again and again, and what is sent again and again gets through at    *)
(* last.                                                                      *)
Most(last) == \A more \in last + 1 .. Last : ~Fits(<<acked + 1, more>>)

Fairness ==
  /\ WF_vars(Round \/ Break \/ Overrun \/ Answer)
  /\ WF_vars(\E last \in 1 .. Last : Most(last) /\ SendCommands(last))
  /\ SF_vars(\E last \in 1 .. Last : Most(last) /\ Receive(<<acked + 1, last>>))
  /\ SF_vars(\E id \in 1 .. Last : SeeAnswer(id))

FairSpec == Spec /\ Fairness

-----------------------------------------------------------------------------
(* The loop is told the buffer's end and not the datagram's. Still it looks   *)
(* only at the start of a command or at the end of the datagram, and leaves   *)
(* the buffer only after a datagram that leaves one to three bytes of it: too *)
(* few for the zero id that ends the loop (NetService.cpp:241-256).           *)
Aligned ==
  /\ pc = "parse" => \E i \in data[1] .. data[2] + 1 : pBuff = Start(i)
  /\ pc = "overrun" => BufferSize - Size(data) \in 1 .. 3

(* The server forgets a command once it is answered: no command it forgot is  *)
(* missing at the client, though datagrams and answers come late, twice or    *)
(* out of order (NetService.cpp:256 and 263-269).                             *)
ForgottenArrived == 2 .. acked \subseteq got

(* The answers are those of Acknowledger: they never go back, and everything  *)
(* up to an answered id has arrived (NetService.cpp:256 and 263-269).         *)
Receiver == INSTANCE Acknowledger
AnswersOnlyReceived == Receiver!Spec

(* What the parse does with a message of length zero: the loop leaves it and  *)
(* all behind it (NetService.cpp:254). So the server gets exactly the ids     *)
(* before the first of them answered, for good, and sends the rest for ever;  *)
(* unless the loop ran out of the buffer.                                     *)
Readable == {n \in 1 .. Last : \A i \in 2 .. n : length[i] # 0}
AnsweredUpToEmpty ==
  <>[](acked \in Readable /\ acked + 1 \notin Readable) \/ <>(pc = "overrun")
=============================================================================
