-------------------------------- MODULE CLog --------------------------------
(* CLog.cpp: the threads that call TranceLog, the one PerIocpData they all    *)
(* fill and write from, and its OVERLAPPED, whose Offset says where the next *)
(* piece goes. There is no lock. The file and the kernel's side of WriteFile *)
(* are external: a write may be done at once, fail at once, or stay pending, *)
(* and then the kernel reads the buffer when it does the write.              *)
(*                                                                           *)
(* Grain: the fill of the buffer, WriteFile, and the load and the store of   *)
(* Offset += lastWriteLen are one action each.                               *)
EXTENDS Integers, FiniteSets

CONSTANTS
  Writers,     \* the threads that log
  BufferSize,  \* IOCP_BUFFER_SIZE
  OffsetMod,   \* 2^32: Offset is a DWORD, and OffsetHigh stays 0
  Start,       \* the length of log.txt before
  MaxText,     \* bound: the length of a message
  MaxCalls     \* bound: how many messages a behaviour logs

Calls == 1 .. MaxCalls
Offsets == 0 .. OffsetMod - 1
Positions == 0 .. Start + OffsetMod + BufferSize

ASSUME LogAssumption ==
  /\ BufferSize \in Nat \ {0}
  /\ OffsetMod \in Nat \ {0}
  /\ Start \in Nat
  /\ MaxText \in Nat
  /\ MaxCalls \in Nat

VARIABLES
  m_bOpened,
  Offset,      \* pData->overlapped.Offset
  buffer,      \* pData->buffer: the piece of a message it holds
  file,        \* the bytes of log.txt
  pending,     \* the writes the kernel has still to do
  issued,      \* the calls of WriteFile: where, and the piece meant
  failed,      \* those that failed
  pc, call,    \* where each thread is, and the message it logs
  nCount, writenLen,
  loaded,      \* the Offset a thread has read in order to add to it
  begun,       \* number of messages
  astray,      \* Offset is not the file's length and what was added to it
  raced,       \* two threads have been between WriteFile and the new Offset at once
  reused       \* the buffer was filled for one write before another had used it

local == <<pc, call, nCount, writenLen, loaded>>
shared == <<Offset, buffer, file>>
writes == <<pending, issued, failed>>
vars == <<m_bOpened, shared, writes, local, begun, astray, raced, reused>>

(* A piece is the bytes from + 1 .. from + len of a message. *)
Piece == [call : 0 .. MaxCalls, from : 0 .. MaxText, len : 0 .. BufferSize]
NoPiece == [call |-> 0, from |-> 0, len |-> 0]
Byte == {"old", "none", "zero"} \cup (Calls \X (1 .. MaxText))
Write == [at : Offsets, piece : Piece]

Filled == {w \in Writers : pc[w] = "write"}
Adding == {w \in Writers : pc[w] \in {"load", "store"}}

(* No race makes the log longer than the messages begun so far: an update of *)
(* Offset may be lost, but none is made up, as long as Offset can count that *)
(* far.                                                                      *)
TypeOK ==
  /\ m_bOpened \in {"no", "failed", "yes"}
  /\ Offset \in Offsets
  /\ ~ astray => Offset <= Start + begun * MaxText
  /\ buffer \in Piece
  /\ file \in [Positions -> Byte]
  /\ issued \subseteq Write
  /\ pending \subseteq issued
  /\ failed \subseteq issued \ pending
  /\ pc \in [Writers -> {"idle", "fill", "write", "load", "store"}]
  /\ call \in [Writers -> 0 .. MaxCalls]
  /\ nCount \in [Writers -> 0 .. MaxText]
  /\ writenLen \in [Writers -> 0 .. MaxText]
  /\ loaded \in [Writers -> Offsets]
  /\ \A w \in Writers : pc[w] # "idle" => m_bOpened = "yes" /\ writenLen[w] < nCount[w]
  /\ begun \in 0 .. MaxCalls
  /\ {astray, raced, reused} \subseteq BOOLEAN

Init ==
  /\ m_bOpened = "no"
  /\ Offset = 0
  /\ buffer = NoPiece
  /\ file = [p \in Positions |-> IF p < Start THEN "old" ELSE "none"]
  /\ pending = {} /\ issued = {} /\ failed = {}
  /\ pc = [w \in Writers |-> "idle"]
  /\ call = [w \in Writers |-> 0]
  /\ nCount = [w \in Writers |-> 0]
  /\ writenLen = [w \in Writers |-> 0]
  /\ loaded = [w \in Writers |-> 0]
  /\ begun = 0
  /\ astray = FALSE /\ raced = FALSE /\ reused = FALSE

-----------------------------------------------------------------------------
(* Definitions marked "Mutant" are wrong on purpose: the run must fail when   *)
(* one takes the place of the definition it is named after.                  *)

(* Mutant of InitLog: the offset of the end of the file is not taken over. *)
InitLogAtZero ==
  /\ m_bOpened = "no"
  /\ m_bOpened' = "yes"
  /\ UNCHANGED <<shared, writes, local, begun, astray, raced, reused>>

(* What SetFilePointer returns: the low half of the position of the end, or  *)
(* INVALID_SET_FILE_POINTER, all ones, when it fails. Nobody looks which.    *)
EndOfFile == {Start % OffsetMod, OffsetMod - 1}

(* CLog::Init. When the file cannot be opened or the handle is refused by    *)
(* the port, m_bOpened stays false.                                          *)
InitLog ==
  /\ m_bOpened = "no"
  /\ \/ /\ m_bOpened' = "yes"
        /\ Offset' \in EndOfFile
     \/ /\ m_bOpened' = "failed"
        /\ Offset' \in {0} \cup EndOfFile
  /\ astray' = (astray \/ Offset' # Start)
  /\ UNCHANGED <<buffer, file, writes, local, begun, raced, reused>>

(* TranceLog with a text of n bytes. It returns at once when the log is not  *)
(* open; the first conjunct is the bound.                                    *)
TranceLog(w) ==
  /\ begun < MaxCalls
  /\ pc[w] = "idle"
  /\ m_bOpened = "yes"
  /\ begun' = begun + 1
  /\ call' = [call EXCEPT ![w] = begun + 1]
  /\ \E n \in 1 .. MaxText : nCount' = [nCount EXCEPT ![w] = n]
  /\ writenLen' = [writenLen EXCEPT ![w] = 0]
  /\ pc' = [pc EXCEPT ![w] = "fill"]
  /\ UNCHANGED <<m_bOpened, shared, writes, loaded, astray, raced, reused>>

lastWriteLen(w) ==
  IF nCount[w] - writenLen[w] >= BufferSize THEN BufferSize ELSE nCount[w] - writenLen[w]

(* Mutant of Fill: the message is copied from its beginning each time. *)
FillFromStart(w) ==
  /\ pc[w] = "fill"
  /\ buffer' = [call |-> call[w], from |-> 0, len |-> lastWriteLen(w)]
  /\ reused' = (reused \/ pending # {} \/ Filled # {})
  /\ pc' = [pc EXCEPT ![w] = "write"]
  /\ UNCHANGED <<m_bOpened, Offset, file, writes, call, nCount, writenLen, loaded, begun,
                 astray, raced>>

(* memset and memcpy_s of the next piece. *)
Fill(w) ==
  /\ pc[w] = "fill"
  /\ buffer' = [call |-> call[w], from |-> writenLen[w], len |-> lastWriteLen(w)]
  /\ reused' = (reused \/ pending # {} \/ Filled # {})
  /\ pc' = [pc EXCEPT ![w] = "write"]
  /\ UNCHANGED <<m_bOpened, Offset, file, writes, call, nCount, writenLen, loaded, begun,
                 astray, raced>>

(* The bytes of the file after len bytes of the buffer are put at a place.   *)
Put(at, len) ==
  [p \in Positions |->
     IF p \notin at .. at + len - 1 THEN file[p]
     ELSE IF p - at < buffer.len THEN <<buffer.call, buffer.from + p - at + 1>>
     ELSE "zero"]

(* WriteFile at Offset. The kernel takes Offset when it is called; an error  *)
(* other than ERROR_IO_PENDING is logged to the console and forgotten.       *)
WriteFile(w) ==
  /\ pc[w] = "write"
  /\ LET piece == [call |-> call[w], from |-> writenLen[w], len |-> lastWriteLen(w)]
         write == [at |-> Offset, piece |-> piece]
     IN  /\ issued' = issued \cup {write}
         /\ \/ /\ file' = Put(Offset, piece.len)
               /\ UNCHANGED <<pending, failed>>
            \/ /\ pending' = pending \cup {write}
               /\ UNCHANGED <<file, failed>>
            \/ /\ failed' = failed \cup {write}
               /\ UNCHANGED <<file, pending>>
  /\ raced' = (raced \/ Adding # {})
  /\ pc' = [pc EXCEPT ![w] = "load"]
  /\ UNCHANGED <<m_bOpened, Offset, buffer, call, nCount, writenLen, loaded, begun, astray, reused>>

(* The kernel does a pending write. *)
Perform(a) ==
  /\ a \in pending
  /\ file' = Put(a.at, a.piece.len)
  /\ pending' = pending \ {a}
  /\ UNCHANGED <<m_bOpened, Offset, buffer, issued, failed, local, begun, astray, raced, reused>>

(* overlapped.Offset += lastWriteLen: the load. *)
LoadOffset(w) ==
  /\ pc[w] = "load"
  /\ loaded' = [loaded EXCEPT ![w] = Offset]
  /\ pc' = [pc EXCEPT ![w] = "store"]
  /\ UNCHANGED <<m_bOpened, shared, writes, call, nCount, writenLen, begun, astray, raced, reused>>

(* Mutant of StoreOffset: a whole buffer is added. *)
StoreOffsetWhole(w) ==
  /\ pc[w] = "store"
  /\ Offset' = (loaded[w] + BufferSize) % OffsetMod
  /\ astray' = (astray \/ Offset' # loaded[w] + BufferSize)
  /\ writenLen' = [writenLen EXCEPT ![w] = @ + lastWriteLen(w)]
  /\ pc' = [pc EXCEPT ![w] = IF writenLen'[w] < nCount[w] THEN "fill" ELSE "idle"]
  /\ UNCHANGED <<m_bOpened, buffer, file, writes, call, nCount, loaded, begun, raced, reused>>

(* The store of a DWORD, and the test of the loop. *)
StoreOffset(w) ==
  /\ pc[w] = "store"
  /\ Offset' = (loaded[w] + lastWriteLen(w)) % OffsetMod
  /\ astray' = (astray \/ Offset' # loaded[w] + lastWriteLen(w))
  /\ writenLen' = [writenLen EXCEPT ![w] = @ + lastWriteLen(w)]
  /\ pc' = [pc EXCEPT ![w] = IF writenLen'[w] < nCount[w] THEN "fill" ELSE "idle"]
  /\ UNCHANGED <<m_bOpened, buffer, file, writes, call, nCount, loaded, begun, raced, reused>>

Thread(w) == TranceLog(w) \/ Fill(w) \/ WriteFile(w) \/ LoadOffset(w) \/ StoreOffset(w)

Next ==
  \/ InitLog
  \/ \E w \in Writers : Thread(w)
  \/ \E a \in pending : Perform(a)

Spec == Init /\ [][Next]_vars

-----------------------------------------------------------------------------
Extent(a) == a.at .. a.at + a.piece.len - 1

(* What the file held before the program started is not overwritten, however *)
(* the threads race on Offset, until the file's position did not fit in the  *)
(* DWORD: a SetFilePointer that fails, or an end of the log at 4 GB, puts the*)
(* next text anywhere (CLog.cpp:54-58 and 101).                              *)
OldTextKept == ~ astray => \A p \in 0 .. Start - 1 : file[p] = "old"

(* The writes tile the file from its old end to Offset, without a gap and    *)
(* without an overlap, until two threads are between WriteFile and the new   *)
(* Offset at once, or Offset does not fit (CLog.cpp:100-101).                *)
Tiled ==
  ~ astray /\ ~ raced /\ m_bOpened = "yes"
    => /\ \A p \in Start .. Offset - 1 : \E a \in issued : p \in Extent(a)
       /\ \A a, b \in issued : a # b => Extent(a) \cap Extent(b) = {}

(* Until then, and until the buffer is filled again before a write from it   *)
(* has been done, each write that did not fail has left in the file just the *)
(* piece that its call was to log (CLog.cpp:95-111). One thread alone can    *)
(* refill the buffer too early, with the next piece of the same message.     *)
AsLogged ==
  ~ astray /\ ~ raced /\ ~ reused
    => \A a \in issued \ (pending \cup failed) : \A p \in Extent(a) :
         file[p] = <<a.piece.call, a.piece.from + (p - a.at) + 1>>
=============================================================================
