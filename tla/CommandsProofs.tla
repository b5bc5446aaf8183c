--------------------------- MODULE CommandsProofs ---------------------------
(* Proofs about Commands, for any number of commands and any lengths.         *)
EXTENDS Commands, FiniteSetTheorems, TLAPS

(* Induction over the naturals, for a set in place of a predicate: the        *)
(* intervals 0 .. n are well-founded as finite sets are.                      *)
LEMMA Induction ==
  ASSUME NEW S, 0 \in S, \A n \in Nat : n \in S => n + 1 \in S
  PROVE  Nat \subseteq S
<1> DEFINE T == {0 .. n : n \in Nat \ S}
           R == StrictSubsetOrdering(Nat)
<1> SUFFICES ASSUME T # {} PROVE FALSE
  OBVIOUS
<1>1. T \subseteq FiniteSubsetsOf(Nat)
  <2>1. ASSUME NEW n \in Nat PROVE 0 .. n \subseteq Nat /\ IsFiniteSet(0 .. n)
    BY FS_Interval
  <2>2. QED
    BY <2>1 DEF FiniteSubsetsOf
<1>2. PICK A \in T : \A B \in T : <<B, A>> \notin R
  <2>1. IsWellFoundedOn(R, FiniteSubsetsOf(Nat))
    BY FS_StrictSubsetOrderingWellFounded
  <2> HIDE DEF T, R
  <2>2. QED
    BY <1>1, <2>1, WFMin
<1>3. PICK n \in Nat \ S : A = 0 .. n
  BY <1>2
<1>4. n # 0 /\ n - 1 \in Nat /\ (n - 1) + 1 = n
  BY <1>3
<1>5. n - 1 \in S
  <2>1. SUFFICES ASSUME n - 1 \notin S PROVE FALSE
    OBVIOUS
  <2>2. 0 .. n - 1 \in T
    BY <1>4, <2>1
  <2>3. 0 .. n - 1 \subseteq 0 .. n /\ n \in 0 .. n /\ n \notin 0 .. n - 1
    BY <1>3
  <2>4. <<0 .. n - 1, A>> \in R
    BY <1>3, <2>3 DEF StrictSubsetOrdering
  <2>5. QED
    BY <1>2, <2>2, <2>4
<1>6. QED
  BY <1>3, <1>4, <1>5

-----------------------------------------------------------------------------
(* The row of commands: the recursive definition of place has a solution, so  *)
(* place is one.                                                              *)
IsRow(f, n) == f = [i \in 2 .. n |-> IF i = 2 THEN 0 ELSE f[i - 1] + 8 + length[i - 1]]

LEMMA RowExists == \E f : IsRow(f, Last + 1)
<1> DEFINE S == {n \in Nat : \E f : IsRow(f, n + 1)}
<1>1. 0 \in S
  <2>1. IsRow([i \in 2 .. 0 + 1 |-> 0], 0 + 1)
    BY DEF IsRow
  <2>2. QED
    BY <2>1
<1>2. ASSUME NEW n \in Nat, n \in S PROVE n + 1 \in S
  <2>1. PICK f : IsRow(f, n + 1)
    BY <1>2
  <2> DEFINE new == IF n = 0 THEN 0 ELSE f[n + 1] + 8 + length[n + 1]
             g == [i \in 2 .. n + 2 |-> IF i = n + 2 THEN new ELSE f[i]]
  <2>2. ASSUME NEW i \in 2 .. n + 2
        PROVE  g[i] = IF i = 2 THEN 0 ELSE g[i - 1] + 8 + length[i - 1]
    <3>1. CASE i = n + 2
      BY <3>1
    <3>2. CASE i # n + 2
      <4>1. i \in 2 .. n + 1 /\ g[i] = f[i] /\ (i # 2 => g[i - 1] = f[i - 1])
        BY <3>2
      <4>2. f[i] = IF i = 2 THEN 0 ELSE f[i - 1] + 8 + length[i - 1]
        BY <2>1, <4>1 DEF IsRow
      <4>3. QED
        BY <4>1, <4>2
    <3>3. QED
      BY <3>1, <3>2
  <2>3. IsRow(g, n + 2)
    BY <2>2 DEF IsRow
  <2>4. QED
    BY <2>3
<1>3. Last \in S
  <2> HIDE DEF S
  <2>1. QED
    BY <1>1, <1>2, Induction, CommandsAssumption
<1>4. QED
  BY <1>3

LEMMA PlaceIs ==
  ASSUME length \in [Ids -> Lengths]
  PROVE  /\ place[2] = 0
         /\ \A i \in Ids : place[i + 1] = place[i] + 8 + length[i]
         /\ \A i \in 2 .. Last + 1 : place[i] \in Nat
<1>1. IsRow(place, Last + 1)
  <2>1. place = CHOOSE f : IsRow(f, Last + 1)
    BY DEF place, IsRow
  <2>2. QED
    BY <2>1, RowExists
<1>2. \A i \in 2 .. Last + 1 : place[i] = IF i = 2 THEN 0 ELSE place[i - 1] + 8 + length[i - 1]
  BY <1>1 DEF IsRow
<1> DEFINE S == {n \in Nat : n + 2 <= Last + 1 => place[n + 2] \in Nat}
<1>3. place[2] = 0 /\ 0 \in S
  BY <1>2, CommandsAssumption
<1>4. \A i \in Ids : /\ place[i + 1] = place[i] + 8 + length[i]
                     /\ length[i] \in Nat
  BY <1>2, CommandsAssumption DEF Ids
<1>5. ASSUME NEW n \in Nat, n \in S PROVE n + 1 \in S
  <2>1. SUFFICES ASSUME n + 3 <= Last + 1 PROVE place[n + 3] \in Nat
    BY CommandsAssumption
  <2>2. n + 2 \in Ids /\ place[n + 2] \in Nat
    BY <1>5, <2>1, CommandsAssumption DEF Ids
  <2>3. place[n + 3] = place[n + 2] + 8 + length[n + 2]
    BY <1>4, <2>2
  <2>4. QED
    BY <1>4, <2>2, <2>3
<1>6. ASSUME NEW i \in 2 .. Last + 1 PROVE place[i] \in Nat
  <2> HIDE DEF S
  <2>1. i - 2 \in S /\ i - 2 \in Nat
    BY <1>3, <1>5, Induction
  <2>2. QED
    BY <2>1, CommandsAssumption DEF S
<1>7. QED
  BY <1>3, <1>4, <1>6

(* Commands do not overlap: each takes eight bytes at least.                  *)
LEMMA PlaceGrows ==
  ASSUME length \in [Ids -> Lengths], NEW i \in 2 .. Last + 1, NEW j \in 2 .. Last + 1, i < j
  PROVE  place[i] + 8 <= place[j]
<1> DEFINE S == {n \in Nat : i + n + 1 <= Last + 1 => place[i] + 8 <= place[i + n + 1]}
<1>1. \A k \in Ids : /\ place[k + 1] = place[k] + 8 + length[k]
                     /\ length[k] \in Nat /\ place[k] \in Nat
  BY PlaceIs, CommandsAssumption DEF Ids
<1>2. 0 \in S
  <2>1. SUFFICES ASSUME i + 1 <= Last + 1 PROVE place[i] + 8 <= place[i + 1]
    OBVIOUS
  <2>2. i \in Ids
    BY <2>1, CommandsAssumption DEF Ids
  <2>3. QED
    BY <1>1, <2>2
<1>3. ASSUME NEW n \in Nat, n \in S PROVE n + 1 \in S
  <2>1. SUFFICES ASSUME i + n + 2 <= Last + 1 PROVE place[i] + 8 <= place[i + n + 2]
    OBVIOUS
  <2>2. i + n + 1 \in Ids /\ i \in Ids /\ place[i] + 8 <= place[i + n + 1]
    BY <1>3, <2>1, CommandsAssumption DEF Ids
  <2>3. place[i + n + 2] = place[i + n + 1] + 8 + length[i + n + 1]
    BY <1>1, <2>2
  <2>4. QED
    BY <1>1, <2>2, <2>3
<1>4. j - i - 1 \in Nat /\ i + (j - i - 1) + 1 = j
  OBVIOUS
<1>5. j - i - 1 \in S
  <2> HIDE DEF S
  <2>1. QED
    BY <1>2, <1>3, <1>4, Induction
<1>6. QED
  BY <1>4, <1>5, CommandsAssumption

-----------------------------------------------------------------------------
(* Between rounds pBuff is at the start of a command or at the end of the     *)
(* datagram, which fits the buffer; recvID is behind the ids that arrived     *)
(* without a gap and before the first command without a body; nothing         *)
(* answered is beyond it.                                                     *)
Parsing == pc = "parse" => data[1] .. data[2] \subseteq got

Fitting == Fits(data) /\ \A d \in sent : Fits(d)

Received ==
  /\ 2 .. recvID \subseteq got
  /\ recvID \in Readable
  /\ answered <= recvID /\ acked <= recvID
  /\ \A id \in answers : id <= recvID

IInv == TypeOK /\ Aligned /\ Parsing /\ Fitting /\ Received

LEMMA InitEstablishes == ASSUME Init PROVE IInv
<1>1. TypeOK
  BY CommandsAssumption DEF Init, TypeOK, Datagrams
<1>2. 1 \in Readable
  BY CommandsAssumption DEF Readable
<1>3. Fitting
  <2>1. BufferSize \in Nat /\ 4 <= BufferSize
    BY CommandsAssumption
  <2>2. place[2] = 0 /\ data = <<2, 1>> /\ sent = {}
    BY PlaceIs DEF Init
  <2>3. QED
    BY <2>1, <2>2 DEF Fitting, Fits, Size
<1>4. QED
  BY <1>1, <1>2, <1>3 DEF Init, IInv, Aligned, Parsing, Received

(* A datagram: its commands are commands of the server.                       *)
LEMMA InDatagram ==
  ASSUME TypeOK
  PROVE  /\ data[1] \in 2 .. Last + 1 /\ data[2] \in 1 .. Last /\ data[1] <= data[2] + 1
         /\ \A i \in data[1] .. data[2] : i \in Ids
         /\ \A i \in data[1] .. data[2] + 1 : i \in 2 .. Last + 1
<1>1. data \in (2 .. Last + 1) \X (1 .. Last) /\ data[1] <= data[2] + 1
  BY DEF TypeOK, Datagrams
<1>2. QED
  BY <1>1, CommandsAssumption DEF Ids

LEMMA StartIs ==
  ASSUME TypeOK
  PROVE  /\ \A i \in data[1] .. data[2] + 1 : Start(i) \in Nat
         /\ \A i, j \in data[1] .. data[2] + 1 : i < j => Start(i) < Start(j)
         /\ \A i \in data[1] .. data[2] : Start(i + 1) = Start(i) + 8 + length[i]
         /\ \A i \in data[1] .. data[2] : Start(i) + 8 <= Size(data)
         /\ Start(data[1]) = 4 /\ Start(data[2] + 1) = Size(data)
<1>1. /\ length \in [Ids -> Lengths]
      /\ data[1] \in 2 .. Last + 1
      /\ \A i \in data[1] .. data[2] : i \in Ids
      /\ \A i \in data[1] .. data[2] + 1 : i \in 2 .. Last + 1
  BY InDatagram DEF TypeOK
<1>2. /\ \A i \in Ids : place[i + 1] = place[i] + 8 + length[i] /\ length[i] \in Nat
      /\ \A i \in 2 .. Last + 1 : place[i] \in Nat
      /\ \A i, j \in 2 .. Last + 1 : i < j => place[i] + 8 <= place[j]
  BY <1>1, PlaceIs, PlaceGrows, CommandsAssumption
<1>3. Start(data[1]) = 4
  BY <1>1, <1>2 DEF Start
<1>4. ASSUME NEW i \in data[1] .. data[2] PROVE Start(i + 1) = Start(i) + 8 + length[i]
  <2>1. i \in Ids /\ i \in 2 .. Last + 1
    BY <1>1, CommandsAssumption DEF Ids
  <2>2. place[i] \in Nat /\ place[data[1]] \in Nat
    BY <1>1, <1>2, <2>1
  <2>3. QED
    BY <1>2, <2>1, <2>2 DEF Start
<1>5. ASSUME NEW i \in data[1] .. data[2] + 1, NEW j \in data[1] .. data[2] + 1, i < j
      PROVE  Start(i) < Start(j)
  <2>1. place[i] \in Nat /\ place[j] \in Nat /\ place[data[1]] \in Nat /\ place[i] + 8 <= place[j]
    BY <1>1, <1>2, <1>5
  <2>2. QED
    BY <2>1 DEF Start
<1>6. ASSUME NEW i \in data[1] .. data[2] + 1 PROVE Start(i) \in Nat
  <2>1. place[i] \in Nat /\ place[data[1]] \in Nat
    BY <1>1, <1>2
  <2>2. CASE i = data[1]
    BY <1>3, <2>2
  <2>3. CASE i # data[1]
    <3>1. data[1] < i
      BY <1>1, <2>3
    <3>2. place[data[1]] + 8 <= place[i]
      BY <1>1, <1>2, <3>1
    <3>3. QED
      BY <2>1, <3>2 DEF Start
  <2>4. QED
    BY <2>2, <2>3
<1>7. Start(data[2] + 1) = Size(data)
  <2>1. data[2] + 1 \in 2 .. Last + 1
    BY InDatagram
  <2>2. place[data[2] + 1] \in Nat /\ place[data[1]] \in Nat
    BY <1>1, <1>2, <2>1
  <2>3. QED
    BY <2>2 DEF Start, Size
<1>8. ASSUME NEW i \in data[1] .. data[2] PROVE Start(i) + 8 <= Size(data)
  <2>1. data[2] + 1 \in 2 .. Last + 1 /\ i \in 2 .. Last + 1 /\ i < data[2] + 1
    BY InDatagram
  <2>2. /\ place[i] \in Nat /\ place[data[2] + 1] \in Nat /\ place[data[1]] \in Nat
        /\ place[i] + 8 <= place[data[2] + 1]
    BY <1>1, <1>2, <2>1
  <2>3. QED
    BY <2>2 DEF Start, Size
<1>9. QED
  BY <1>3, <1>4, <1>5, <1>6, <1>7, <1>8

(* At the start of a command the three fields read are its own.               *)
LEMMA ReadsCommand ==
  ASSUME TypeOK, NEW i \in data[1] .. data[2], pBuff = Start(i)
  PROVE  serSendID = {i} /\ msgID = {1} /\ msgLength = {length[i]}
<1>1. i \in Ids
  BY InDatagram
<1>2. {j \in data[1] .. data[2] : Start(j) = pBuff} = {i}
  <2>1. ASSUME NEW j \in data[1] .. data[2], Start(j) = pBuff PROVE j = i
    <3>1. /\ i \in data[1] .. data[2] + 1 /\ j \in data[1] .. data[2] + 1 /\ i \in Int /\ j \in Int
      BY InDatagram
    <3>2. Start(i) \in Nat /\ Start(j) \in Nat /\ (i < j => Start(i) < Start(j))
          /\ (j < i => Start(j) < Start(i))
      BY <3>1, StartIs
    <3>3. QED
      BY <2>1, <3>1, <3>2
  <2>2. QED
    BY <2>1
<1>3. ASSUME NEW at, NEW width, NEW value PROVE Field(at, width, value) = {value[i]}
  BY <1>2 DEF Field
<1>4. serSendID = {[j \in Ids |-> j][i]}
  BY <1>3 DEF serSendID
<1>5. msgID = {[j \in Ids |-> 1][i]}
  BY <1>3 DEF msgID
<1>6. msgLength = {length[i]}
  BY <1>3 DEF msgLength
<1>7. QED
  BY <1>1, <1>4, <1>5, <1>6

(* At the end of the datagram the next id reads as zero, if the buffer still  *)
(* has its four bytes.                                                        *)
LEMMA ReadsEnd ==
  ASSUME TypeOK, pBuff = Size(data), pBuff + 4 <= BufferSize
  PROVE  serSendID = {0}
<1>1. pBuff \in Nat
  BY DEF TypeOK
<1>2. {j \in data[1] .. data[2] : Start(j) = pBuff} = {}
  <2>1. ASSUME NEW j \in data[1] .. data[2], Start(j) = pBuff PROVE FALSE
    <3>1. j \in data[1] .. data[2] + 1
      BY InDatagram
    <3>2. Start(j) \in Nat /\ Start(j) + 8 <= Size(data)
      BY <3>1, StartIs
    <3>3. QED
      BY <1>1, <2>1, <3>2
  <2>2. QED
    BY <2>1
<1>3. pBuff + 0 >= Size(data) /\ pBuff + 0 + 4 <= BufferSize
  BY <1>1, CommandsAssumption
<1>4. QED
  BY <1>2, <1>3 DEF serSendID, Field

(* The commands themselves never change.                                      *)
LEMMA RowKept ==
  ASSUME UNCHANGED length
  PROVE  /\ place' = place
         /\ Readable' = Readable
<1>1. place' = place
  BY DEF place
<1>2. QED
  BY <1>1 DEF Readable

LEMMA FitsKept == ASSUME UNCHANGED length, NEW d, Fits(d) PROVE Fits(d)'
  BY RowKept DEF Fits, Size

LEMMA FittingKept == ASSUME UNCHANGED <<length, sent, data>>, Fitting PROVE Fitting'
  BY FitsKept DEF Fitting, Fits, Size

LEMMA StartKept ==
  ASSUME UNCHANGED <<length, data>>
  PROVE  /\ \A i : Start(i)' = Start(i)
         /\ Size(data)' = Size(data)
  BY RowKept DEF Start, Size

LEMMA AlignedKept ==
  ASSUME Aligned, UNCHANGED <<length, data, pBuff>>,
         pc' = pc \/ pc' \in {"receive", "answer"}
  PROVE  Aligned'
<1>1. /\ \A i : Start(i)' = Start(i)
      /\ Size(data)' = Size(data)
  BY StartKept
<1>2. pc' = "parse" => \E i \in data'[1] .. data'[2] + 1 : pBuff' = Start(i)'
  <2>1. SUFFICES ASSUME pc' = "parse"
                 PROVE  \E i \in data'[1] .. data'[2] + 1 : pBuff' = Start(i)'
    OBVIOUS
  <2>2. PICK i \in data[1] .. data[2] + 1 : pBuff = Start(i)
    BY <2>1 DEF Aligned
  <2>3. pBuff' = Start(i)' /\ i \in data'[1] .. data'[2] + 1
    BY <1>1, <2>2
  <2>4. QED
    BY <2>3
<1>3. pc' = "overrun" => BufferSize - Size(data)' \in 1 .. 3
  BY <1>1 DEF Aligned
<1>4. QED
  BY <1>2, <1>3 DEF Aligned

LEMMA ReceivedKept ==
  ASSUME Received, UNCHANGED <<length, recvID, answered, acked, answers>>, got \subseteq got'
  PROVE  Received'
  BY RowKept DEF Received

LEMMA SendKeeps == ASSUME IInv, NEW last \in 1 .. Last, SendCommands(last) PROVE IInv'
<1>1. last \in acked .. Last /\ Fits(<<acked + 1, last>>) /\ sent' = sent \cup {<<acked + 1, last>>}
      /\ UNCHANGED <<length, answers, acked, data, pBuff, pc, recvID, got, answered>>
  BY DEF SendCommands, client
<1>2. <<acked + 1, last>> \in Datagrams
  BY <1>1, CommandsAssumption DEF IInv, TypeOK, Datagrams
<1>3. TypeOK'
  BY <1>1, <1>2 DEF IInv, TypeOK
<1>4. Fitting'
  <2>1. Fits(data)'
    BY <1>1, RowKept DEF IInv, Fitting, Fits, Size
  <2>2. ASSUME NEW d \in sent' PROVE Fits(d)'
    <3>1. Fits(d)
      BY <1>1 DEF IInv, Fitting
    <3>2. QED
      BY <1>1, <3>1, FitsKept
  <2>3. QED
    BY <2>1, <2>2 DEF Fitting
<1>5. Aligned' /\ Received'
  BY <1>1, AlignedKept, ReceivedKept DEF IInv
<1>6. QED
  BY <1>1, <1>3, <1>4, <1>5 DEF IInv, Parsing

LEMMA SeeAnswerKeeps == ASSUME IInv, NEW id \in 1 .. Last, SeeAnswer(id) PROVE IInv'
<1>1. id \in answers /\ acked' = id
      /\ UNCHANGED <<length, sent, answers, data, pBuff, pc, recvID, got, answered>>
  BY DEF SeeAnswer, client
<1>2. Fitting' /\ Aligned'
  BY <1>1, FittingKept, AlignedKept DEF IInv
<1>3. QED
  BY <1>1, <1>2, RowKept DEF IInv, TypeOK, Parsing, Received

(* The first command of a datagram is behind the answered id.                 *)
LEMMA CalledKeeps ==
  ASSUME IInv, NEW d \in Datagrams, Fits(d), Called(d),
         got' = got \cup d[1] .. d[2]
  PROVE  IInv'
<1>1. /\ data' = d /\ pBuff' = 4 /\ pc' = "parse"
      /\ UNCHANGED <<length, sent, answers, acked, recvID, answered>>
  BY DEF Called
<1>2. d[1] \in 2 .. Last + 1 /\ d[2] \in 1 .. Last /\ d[1] .. d[2] \subseteq Ids
  BY CommandsAssumption DEF Datagrams, Ids
<1>3. TypeOK'
  BY <1>1, <1>2 DEF IInv, TypeOK
<1>4. Parsing'
  BY <1>1 DEF Parsing
<1>5. Aligned'
  <2>1. Start(data[1])' = 4
    <3>1. place[d[1]] \in Nat
      BY <1>2, PlaceIs DEF IInv, TypeOK
    <3>2. place' = place
      BY <1>1, RowKept
    <3>3. QED
      BY <1>1, <3>1, <3>2 DEF Start
  <2>2. data'[1] \in data'[1] .. data'[2] + 1
    BY <1>1, <1>2 DEF Datagrams
  <2>3. QED
    BY <1>1, <2>1, <2>2 DEF Aligned
<1>6. Fitting'
  BY <1>1, FitsKept DEF IInv, Fitting, Fits, Size
<1>7. Received'
  BY <1>1, ReceivedKept DEF IInv
<1>8. QED
  BY <1>3, <1>4, <1>5, <1>6, <1>7 DEF IInv

LEMMA ReceiveKeeps == ASSUME IInv, NEW d \in Datagrams, Receive(d) PROVE IInv'
<1>1. Fits(d)
  BY DEF Receive, IInv, Fitting
<1>2. QED
  BY <1>1, CalledKeeps DEF Receive

LEMMA ReceiveNothingKeeps == ASSUME IInv, ReceiveNothing PROVE IInv'
<1>1. <<2, 1>> \in Datagrams
  BY CommandsAssumption DEF Datagrams
<1>2. Fits(<<2, 1>>)
  <2>1. BufferSize \in Nat /\ 4 <= BufferSize
    BY CommandsAssumption
  <2>2. place[2] = 0
    BY PlaceIs DEF IInv, TypeOK
  <2>3. QED
    BY <2>1, <2>2 DEF Fits, Size
<1>3. got' = got \cup 2 .. 1
  BY DEF ReceiveNothing
<1>4. QED
  BY <1>1, <1>2, <1>3, CalledKeeps DEF ReceiveNothing

(* A round passes over the command pBuff is at, whole; if its id is the next  *)
(* one it is followed.                                                        *)
LEMMA RoundKeeps == ASSUME IInv, Round PROVE IInv'
<1>1. /\ pc = "parse" /\ pBuff + 8 <= BufferSize /\ serSendID # {0}
      /\ UNCHANGED <<length, sent, answers, acked, data, pc, got, answered>>
  BY DEF Round
<1>2. PICK i \in data[1] .. data[2] + 1 : pBuff = Start(i)
  BY <1>1 DEF IInv, Aligned
<1>3. i \in data[1] .. data[2] /\ i \in Ids /\ i + 1 \in data[1] .. data[2] + 1
  <2>1. ASSUME i = data[2] + 1 PROVE FALSE
    <3>1. pBuff = Size(data)
      BY <1>2, <2>1, StartIs DEF IInv
    <3>2. pBuff + 4 <= BufferSize
      BY <1>1, CommandsAssumption DEF IInv, TypeOK
    <3>3. QED
      BY <1>1, <3>1, <3>2, ReadsEnd DEF IInv
  <2>2. QED
    BY <2>1, InDatagram DEF IInv
<1>4. serSendID = {i} /\ msgLength = {length[i]}
  BY <1>2, <1>3, ReadsCommand DEF IInv
<1>5. length[i] # 0 /\ Follow(i) /\ Advance(length[i])
  BY <1>4 DEF Round
<1>6. length[i] \in Nat /\ i \in Nat /\ i <= Last /\ i >= 2 /\ Start(i) \in Nat
  BY <1>2, <1>3, StartIs, CommandsAssumption DEF IInv, TypeOK, Ids
<1>7. pBuff' = Start(i + 1)
  <2>1. Start(i + 1) = Start(i) + 8 + length[i]
    BY <1>3, StartIs DEF IInv
  <2>2. QED
    BY <1>2, <1>5, <1>6, <2>1 DEF Advance
<1>8. Aligned'
  <2>1. pBuff' = Start(i + 1)'
    BY <1>1, <1>7, StartKept
  <2>2. i + 1 \in data'[1] .. data'[2] + 1 /\ pc' = "parse"
    BY <1>1, <1>3
  <2>3. QED
    BY <2>1, <2>2 DEF Aligned
<1>9. recvID' = (IF i = recvID + 1 THEN i ELSE recvID) /\ recvID \in 1 .. Last
  BY <1>5 DEF Follow, IInv, TypeOK
<1>10. TypeOK'
  <2>1. recvID' \in 1 .. Last
    BY <1>6, <1>9
  <2>2. pBuff' \in Nat
    BY <1>3, <1>7, StartIs DEF IInv
  <2>3. QED
    BY <1>1, <2>1, <2>2 DEF IInv, TypeOK
<1>11. Received'
  <2>1. CASE i = recvID + 1
    <3>1. recvID' = recvID + 1 /\ i \in got
      BY <1>1, <1>3, <1>9, <2>1 DEF IInv, Parsing
    <3>2. 2 .. recvID' \subseteq got
      BY <1>6, <1>9, <2>1, <3>1 DEF IInv, Received
    <3>3. recvID' \in Readable
      <4>1. \A j \in 2 .. recvID : length[j] # 0
        BY DEF IInv, Received, Readable
      <4>2. \A j \in 2 .. recvID' : length[j] # 0
        BY <1>5, <1>9, <2>1, <3>1, <4>1
      <4>3. QED
        BY <1>6, <2>1, <3>1, <4>2 DEF Readable
    <3>4. /\ answered <= recvID' /\ acked <= recvID'
          /\ \A id \in answers : id <= recvID'
      BY <1>9, <3>1 DEF IInv, Received, TypeOK
    <3>5. QED
      BY <1>1, <3>2, <3>3, <3>4, RowKept DEF Received
  <2>2. CASE i # recvID + 1
    BY <1>1, <1>9, <2>2, ReceivedKept DEF IInv
  <2>3. QED
    BY <2>1, <2>2
<1>12. Fitting'
  BY <1>1, FittingKept DEF IInv
<1>13. QED
  BY <1>1, <1>8, <1>10, <1>11, <1>12 DEF IInv, Parsing

LEMMA BreakKeeps == ASSUME IInv, Break PROVE IInv'
<1>1. pc' = "answer"
      /\ UNCHANGED <<length, sent, answers, acked, data, pBuff, recvID, got, answered>>
  BY DEF Break
<1>2. Fitting' /\ Aligned'
  BY <1>1, FittingKept, AlignedKept DEF IInv
<1>3. QED
  BY <1>1, <1>2, RowKept DEF IInv, TypeOK, Parsing, Received

(* A command is in the buffer whole, and behind the last one a zero id is     *)
(* read: the loop leaves the buffer only where one does not fit.              *)
LEMMA OverrunKeeps == ASSUME IInv, Overrun PROVE IInv'
<1>1. /\ pc = "parse" /\ pBuff # BufferSize /\ pBuff + 8 > BufferSize /\ serSendID # {0}
      /\ pc' = "overrun"
      /\ UNCHANGED <<length, sent, answers, acked, data, pBuff, recvID, got, answered>>
  BY DEF Overrun, pend
<1>2. PICK i \in data[1] .. data[2] + 1 : pBuff = Start(i)
  BY <1>1 DEF IInv, Aligned
<1>3. pBuff \in Nat /\ BufferSize \in Nat /\ Size(data) <= BufferSize
  BY CommandsAssumption DEF IInv, TypeOK, Fitting, Fits
<1>4. pBuff = Size(data)
  <2>1. CASE i = data[2] + 1
    BY <1>2, <2>1, StartIs DEF IInv
  <2>2. CASE i # data[2] + 1
    <3>1. i \in data[1] .. data[2]
      BY <2>2, InDatagram DEF IInv
    <3>2. Start(i) + 8 <= Size(data)
      BY <3>1, StartIs DEF IInv
    <3>3. Size(data) \in Nat
      <4>1. data[2] + 1 \in data[1] .. data[2] + 1
        BY InDatagram DEF IInv
      <4>2. QED
        BY <4>1, StartIs DEF IInv
    <3>4. QED
      BY <1>1, <1>2, <1>3, <3>2, <3>3
  <2>3. QED
    BY <2>1, <2>2
<1>5. pBuff + 4 > BufferSize
  BY <1>1, <1>3, <1>4, ReadsEnd DEF IInv
<1>6. BufferSize - Size(data) \in 1 .. 3
  BY <1>1, <1>3, <1>4, <1>5
<1>7. Aligned'
  BY <1>1, <1>6, StartKept DEF Aligned
<1>8. Fitting' /\ Received'
  BY <1>1, FittingKept, ReceivedKept DEF IInv
<1>9. QED
  BY <1>1, <1>7, <1>8 DEF IInv, TypeOK, Parsing

LEMMA AnswerKeeps == ASSUME IInv, Answer PROVE IInv'
<1>1. answered' = recvID /\ answers' = answers \cup {recvID} /\ pc' = "receive"
      /\ UNCHANGED <<length, sent, acked, data, pBuff, recvID, got>>
  BY DEF Answer
<1>2. Fitting' /\ Aligned'
  BY <1>1, FittingKept, AlignedKept DEF IInv
<1>3. QED
  BY <1>1, <1>2, RowKept DEF IInv, TypeOK, Parsing, Received

(* IInv is inductive. *)
LEMMA StepKeeps == ASSUME IInv, [Next]_vars PROVE IInv'
<1>1. CASE UNCHANGED vars
  <2>1. UNCHANGED <<length, sent, answers, acked, data, pBuff, pc, recvID, got, answered>>
    BY <1>1 DEF vars, client
  <2>2. Fitting' /\ Aligned' /\ Received'
    BY <2>1, FittingKept, AlignedKept, ReceivedKept DEF IInv
  <2>3. QED
    BY <2>1, <2>2 DEF IInv, TypeOK, Parsing
<1>2. QED
  BY <1>1, SendKeeps, SeeAnswerKeeps, ReceiveKeeps, ReceiveNothingKeeps, RoundKeeps,
     BreakKeeps, OverrunKeeps, AnswerKeeps DEF Next, Client

LEMMA Invariance == Spec => []IInv
  BY InitEstablishes, StepKeeps, PTL DEF Spec

(* The types; above all, recvID is the id of a command of the server          *)
(* (NetService.cpp:247-256).                                                  *)
THEOREM TypesHold == Spec => []TypeOK
  BY Invariance, PTL DEF IInv

(* Though pend is the end of the buffer, the parse is always at the start of  *)
(* a command or at the end of the datagram, whatever lengths the messages     *)
(* have, and runs out of the buffer only behind a datagram that leaves one to *)
(* three bytes of it (NetService.cpp:241-256, IOCPHelper.cpp:106).            *)
THEOREM ParseIsAligned == Spec => []Aligned
  BY Invariance, PTL DEF IInv

(* What the server forgets has arrived, whatever the network does             *)
(* (NetService.cpp:256 and 263-269).                                          *)
THEOREM ForgottenHasArrived == Spec => []ForgottenArrived
<1>1. ASSUME IInv PROVE ForgottenArrived
  BY <1>1 DEF IInv, TypeOK, Received, ForgottenArrived
<1>2. QED
  BY <1>1, Invariance, PTL

(* A message without a field set has length zero: neither it nor anything     *)
(* behind it is ever answered (NetService.cpp:254).                           *)
THEOREM NothingBehindEmpty == Spec => [](acked \in Readable /\ recvID \in Readable)
<1>1. ASSUME IInv PROVE acked \in Readable /\ recvID \in Readable
  BY <1>1 DEF IInv, TypeOK, Received, Readable
<1>2. QED
  BY <1>1, Invariance, PTL

(* Each step of the client, whatever the server and the network do, is a step *)
(* of Acknowledger or none: the answers never go back, and all up to an       *)
(* answered id has arrived (NetService.cpp:256 and 263-269).                  *)
THEOREM ImplementsAcknowledger == Spec => AnswersOnlyReceived
<1>1. Init => Receiver!Init
  BY DEF Init, Receiver!Init
<1>2. IInv /\ [Next]_vars => [Receiver!Next]_<<got, answered>>
  <2> SUFFICES ASSUME IInv, [Next]_vars PROVE [Receiver!Next]_<<got, answered>>
    OBVIOUS
  <2>1. CASE Answer
    <3>1. answered' = recvID /\ UNCHANGED got
      BY <2>1 DEF Answer
    <3>2. Receiver!Answer
      BY <3>1 DEF IInv, TypeOK, Received, Receiver!Answer
    <3>3. QED
      BY <3>2 DEF Receiver!Next
  <2>2. ASSUME NEW d \in Datagrams, Receive(d) PROVE Receiver!Receive
    BY <2>2 DEF Receive, Called, Receiver!Receive
  <2>3. CASE \/ \E id \in 1 .. Last : SendCommands(id) \/ SeeAnswer(id)
             \/ ReceiveNothing \/ Round \/ Break \/ Overrun \/ UNCHANGED vars
    BY <2>3 DEF SendCommands, SeeAnswer, ReceiveNothing, Called, Round, Break, Overrun, vars, client
  <2>4. QED
    BY <2>1, <2>2, <2>3 DEF Next, Client, Receiver!Next
<1>3. QED
  BY <1>1, <1>2, Invariance, PTL DEF Spec, AnswersOnlyReceived, Receiver!Spec
===============================================================================
