----------------------------- MODULE CLogProofs -----------------------------
(* Proofs about CLog, for any number of threads, any buffer and file size,    *)
(* and messages of any number and length.                                     *)
EXTENDS CLog, FiniteSetTheorems, TLAPS

(* What these proofs need of the types. How far Offset can get comes later.   *)
Types ==
  /\ m_bOpened \in {"no", "failed", "yes"}
  /\ Offset \in Offsets
  /\ issued \subseteq [at : Offsets, piece : [call : Nat, from : Nat, len : Nat]]
  /\ pending \subseteq issued
  /\ pc \in [Writers -> {"idle", "fill", "write", "load", "store"}]
  /\ call \in [Writers -> Nat]
  /\ nCount \in [Writers -> Nat]
  /\ writenLen \in [Writers -> Nat]
  /\ loaded \in [Writers -> Offsets]
  /\ \A w \in Writers : pc[w] # "idle" => m_bOpened = "yes" /\ writenLen[w] < nCount[w]
  /\ begun \in Nat
  /\ astray \in BOOLEAN

(* No thread ever works with an offset before the old end of the file.        *)
BehindStart ==
  /\ m_bOpened = "yes" => Offset >= Start
  /\ m_bOpened # "yes" => issued = {}
  /\ \A a \in issued : a.at >= Start
  /\ \A w \in Writers : pc[w] = "store" => loaded[w] >= Start

(* Writes tile the file from its old end to n.                                *)
Tile(I, n) ==
  /\ \A a \in I : a.at + a.piece.len <= n
  /\ \A p \in Start .. n - 1 : \E a \in I : p \in Extent(a)
  /\ \A a, b \in I : a # b => Extent(a) \cap Extent(b) = {}

Tiles(n) == Tile(issued, n)

(* Without a race one thread at most has a write that Offset does not count   *)
(* yet, and it is the one write that goes beyond Offset.                      *)
TilesOK ==
  ~ raced /\ m_bOpened = "yes" =>
    /\ \A v, w \in Adding : v = w
    /\ \A w \in Writers : pc[w] = "store" => loaded[w] = Offset
    /\ Adding = {} => Tiles(Offset)
    /\ \A w \in Adding : Tiles(Offset + lastWriteLen(w))

OldText == \A p \in 0 .. Start - 1 : file[p] = "old"
FileOK == file = [p \in Positions |-> file[p]] /\ OldText

(* The invariant of a log whose Offset has fitted in its DWORD so far.        *)
IInv == Types /\ BehindStart /\ TilesOK /\ FileOK

-----------------------------------------------------------------------------
(* The old text, and whatever is written at an Offset, lies within the file   *)
(* that is modelled.                                                          *)
LEMMA OffsetValues ==
  /\ Start \in Nat /\ OffsetMod \in Nat \ {0} /\ Offsets \subseteq Nat
  /\ \A n \in Nat : n % OffsetMod \in Offsets
  /\ EndOfFile \subseteq Offsets /\ 0 \in Offsets
BY LogAssumption DEF Offsets, EndOfFile

LEMMA StartWithin == 0 .. Start - 1 \subseteq Positions
BY LogAssumption DEF Positions

LEMMA PieceLength ==
  ASSUME Types, NEW w \in Writers, pc[w] # "idle"
  PROVE  lastWriteLen(w) \in Nat \ {0} /\ lastWriteLen(w) <= nCount[w] - writenLen[w]
<1>1. nCount[w] \in Nat /\ writenLen[w] \in Nat /\ writenLen[w] < nCount[w]
  BY DEF Types
<1>2. QED
  BY <1>1, LogAssumption DEF lastWriteLen

(* What is put behind the old end of the file leaves the old text alone.      *)
LEMMA PutKeeps ==
  ASSUME FileOK, NEW at \in Nat, at >= Start, NEW len, file' = Put(at, len)
  PROVE  FileOK'
<1>1. \A p \in 0 .. Start - 1 : p \in Positions /\ p \notin at .. at + len - 1
  BY StartWithin, LogAssumption
<1>2. file' = [p \in Positions |-> file'[p]]
  BY DEF Put
<1>3. \A p \in 0 .. Start - 1 : file'[p] = file[p]
  BY <1>1 DEF Put
<1>4. QED
  BY <1>2, <1>3 DEF FileOK, OldText

LEMMA InitEstablishes == ASSUME Init PROVE IInv
<1>1. FileOK
  <2>1. \A p \in 0 .. Start - 1 : p \in Positions /\ p < Start
    BY StartWithin, LogAssumption
  <2>2. QED
    BY <2>1 DEF Init, FileOK, OldText
<1>2. Types /\ BehindStart /\ TilesOK
  BY OffsetValues DEF Init, Types, BehindStart, TilesOK
<1>3. QED
  BY <1>1, <1>2 DEF IInv

(* The log is opened.                                                         *)
LEMMA InitLogTypes == ASSUME Types, InitLog PROVE Types'
<1>1. /\ m_bOpened = "no" /\ m_bOpened' \in {"yes", "failed"}
      /\ Offset' \in {0} \cup EndOfFile /\ astray' = (astray \/ Offset' # Start)
      /\ UNCHANGED <<issued, pending, pc, call, nCount, writenLen, loaded, begun>>
  BY DEF InitLog, writes, local
<1>2. \A w \in Writers : pc[w] = "idle"
  BY <1>1 DEF Types
<1>3. Offset' \in Offsets
  BY <1>1, OffsetValues
<1>4. QED
  BY <1>1, <1>2, <1>3 DEF Types

LEMMA InitLogKeeps == ASSUME IInv, InitLog, ~ astray' PROVE IInv'
<1>1. /\ m_bOpened = "no" /\ issued = {} /\ Adding = {}
      /\ Offset' = Start
      /\ m_bOpened' \in {"yes", "failed"}
      /\ UNCHANGED <<buffer, file, pending, issued, failed, pc, call, nCount, writenLen, loaded,
                     begun, raced, reused>>
  BY DEF InitLog, IInv, BehindStart, Types, Adding, writes, local
<1>2. \A w \in Writers : pc[w] = "idle"
  BY <1>1 DEF IInv, Types
<1>3. Types'
  BY InitLogTypes DEF IInv
<1>4. BehindStart'
  BY <1>1, <1>2, LogAssumption DEF IInv, BehindStart
<1>5. TilesOK'
  <2>1. Tiles(Start)'
    BY <1>1, LogAssumption DEF Tiles, Tile
  <2>2. Adding' = {}
    BY <1>1 DEF Adding
  <2>3. QED
    BY <1>1, <1>2, <2>1, <2>2 DEF TilesOK
<1>6. QED
  BY <1>1, <1>3, <1>4, <1>5 DEF IInv, FileOK, OldText

(* What one thread's step does to Adding.                                     *)
LEMMA Moves ==
  ASSUME Types, NEW w \in Writers, NEW to, pc' = [pc EXCEPT ![w] = to]
  PROVE  /\ pc'[w] = to
         /\ \A v \in Writers \ {w} : pc'[v] = pc[v]
         /\ to \notin {"load", "store"} /\ w \notin Adding => Adding' = Adding
         /\ to \in {"load", "store"} => Adding' = Adding \cup {w}
         /\ to \notin {"load", "store"} => Adding' = Adding \ {w}
<1>1. pc'[w] = to /\ \A v \in Writers \ {w} : pc'[v] = pc[v]
  BY DEF Types
<1>2. QED
  BY <1>1 DEF Adding

LEMMA LengthKept ==
  ASSUME NEW w, nCount'[w] = nCount[w], writenLen'[w] = writenLen[w]
  PROVE  lastWriteLen(w)' = lastWriteLen(w)
  BY DEF lastWriteLen

(* A step of a thread that is not adding leaves the tiles as they are.        *)
LEMMA OutsideKeeps ==
  ASSUME IInv, NEW w \in Writers, w \notin Adding, Adding' = Adding,
         \A v \in Writers \ {w} :
           /\ pc'[v] = pc[v] /\ nCount'[v] = nCount[v]
           /\ writenLen'[v] = writenLen[v] /\ loaded'[v] = loaded[v],
         pc'[w] # "store", UNCHANGED <<m_bOpened, Offset, issued, raced>>
  PROVE  BehindStart' /\ TilesOK'
<1>1. BehindStart'
  BY DEF IInv, BehindStart
<1>2. ASSUME ~ raced, m_bOpened = "yes"
      PROVE  /\ \A u, v \in Adding' : u = v
             /\ \A v \in Writers : pc'[v] = "store" => loaded'[v] = Offset'
             /\ Adding' = {} => Tiles(Offset)'
             /\ \A v \in Adding' : Tiles(Offset + lastWriteLen(v))'
  <2>1. \A u, v \in Adding' : u = v
    BY <1>2 DEF IInv, TilesOK
  <2>2. \A v \in Writers : pc'[v] = "store" => loaded'[v] = Offset'
    BY <1>2 DEF IInv, TilesOK
  <2>3. Adding' = {} => Tiles(Offset)'
    BY <1>2 DEF IInv, TilesOK, Tiles, Tile
  <2>4. ASSUME NEW v \in Adding' PROVE Tiles(Offset + lastWriteLen(v))'
    <3>1. v \in Writers \ {w} /\ v \in Adding
      BY <2>4 DEF Adding
    <3>2. lastWriteLen(v)' = lastWriteLen(v) /\ Tiles(Offset + lastWriteLen(v))
      BY <1>2, <3>1, LengthKept DEF IInv, TilesOK
    <3>3. QED
      BY <3>2 DEF Tiles
  <2>5. QED
    BY <2>1, <2>2, <2>3, <2>4
<1>3. TilesOK'
  BY <1>2 DEF TilesOK
<1>4. QED
  BY <1>1, <1>3

LEMMA TranceLogTypes == ASSUME Types, NEW w \in Writers, TranceLog(w) PROVE Types'
<1>1. /\ m_bOpened = "yes" /\ pc[w] = "idle" /\ pc' = [pc EXCEPT ![w] = "fill"]
      /\ call' = [call EXCEPT ![w] = begun + 1] /\ begun' = begun + 1
      /\ writenLen' = [writenLen EXCEPT ![w] = 0]
      /\ UNCHANGED <<m_bOpened, Offset, issued, pending, loaded, astray>>
  BY DEF TranceLog, shared, writes
<1>2. PICK n \in 1 .. MaxText : nCount' = [nCount EXCEPT ![w] = n]
  BY DEF TranceLog
<1>3. QED
  BY <1>1, <1>2, LogAssumption DEF Types

LEMMA TranceLogKeeps == ASSUME IInv, NEW w \in Writers, TranceLog(w) PROVE IInv'
<1>1. /\ m_bOpened = "yes" /\ pc[w] = "idle" /\ pc' = [pc EXCEPT ![w] = "fill"]
      /\ call' = [call EXCEPT ![w] = begun + 1] /\ begun' = begun + 1
      /\ writenLen' = [writenLen EXCEPT ![w] = 0]
      /\ UNCHANGED <<m_bOpened, Offset, file, issued, pending, loaded, raced>>
  BY DEF TranceLog, shared, writes
<1>2. PICK n \in 1 .. MaxText : nCount' = [nCount EXCEPT ![w] = n]
  BY DEF TranceLog
<1>3. Types'
  BY TranceLogTypes DEF IInv
<1>4. w \notin Adding /\ pc'[w] = "fill" /\ Adding' = Adding
      /\ \A v \in Writers \ {w} : pc'[v] = pc[v]
  BY <1>1, Moves DEF IInv, Adding
<1>5. \A v \in Writers \ {w} : nCount'[v] = nCount[v] /\ writenLen'[v] = writenLen[v]
  BY <1>1, <1>2 DEF IInv, Types
<1>6. BehindStart' /\ TilesOK'
  BY <1>1, <1>4, <1>5, OutsideKeeps
<1>7. QED
  BY <1>1, <1>3, <1>6 DEF IInv, FileOK, OldText

LEMMA FillTypes == ASSUME Types, NEW w \in Writers, Fill(w) PROVE Types'
  BY DEF Fill, writes, Types

LEMMA FillKeeps == ASSUME IInv, NEW w \in Writers, Fill(w) PROVE IInv'
<1>1. /\ pc[w] = "fill" /\ pc' = [pc EXCEPT ![w] = "write"]
      /\ UNCHANGED <<m_bOpened, Offset, file, issued, pending, call, nCount, writenLen, loaded,
                     begun, raced>>
  BY DEF Fill, writes
<1>2. Types'
  BY FillTypes DEF IInv
<1>3. w \notin Adding /\ pc'[w] = "write" /\ Adding' = Adding
      /\ \A v \in Writers \ {w} : pc'[v] = pc[v]
  BY <1>1, Moves DEF IInv, Adding
<1>4. BehindStart' /\ TilesOK'
  BY <1>1, <1>3, OutsideKeeps
<1>5. QED
  BY <1>1, <1>2, <1>4 DEF IInv, FileOK, OldText

(* A write of len bytes at the end of the tiles is one more tile.             *)
LEMMA OneMoreTile ==
  ASSUME NEW n \in Nat, n >= Start,
         NEW I, \A b \in I : b.at \in Nat /\ b.piece.len \in Nat,
         Tile(I, n), NEW a, a.at = n, a.piece.len \in Nat \ {0}
  PROVE  Tile(I \cup {a}, n + a.piece.len)
<1> DEFINE len == a.piece.len
<1>1. \A b \in I : b.at \in Nat /\ b.piece.len \in Nat /\ b.at + b.piece.len <= n
  BY DEF Tile
<1>2. \A b \in I \cup {a} : b.at + b.piece.len <= n + len
  BY <1>1
<1>3. Extent(a) = n .. n + len - 1
  BY DEF Extent
<1>4. \A p \in Start .. n + len - 1 : \E b \in I \cup {a} : p \in Extent(b)
  <2> SUFFICES ASSUME NEW p \in Start .. n + len - 1 PROVE \E b \in I \cup {a} : p \in Extent(b)
    OBVIOUS
  <2>1. CASE p \in Start .. n - 1
    BY <2>1 DEF Tile
  <2>2. CASE p \in n .. n + len - 1
    BY <2>2, <1>3
  <2>3. QED
    BY <2>1, <2>2, LogAssumption
<1>5. \A b \in I : Extent(b) \cap Extent(a) = {}
  BY <1>1, <1>3 DEF Extent
<1>6. \A b, c \in I \cup {a} : b # c => Extent(b) \cap Extent(c) = {}
  BY <1>5 DEF Tile
<1>7. QED
  BY <1>2, <1>4, <1>6 DEF Tile

LEMMA WriteFileTypes == ASSUME Types, NEW w \in Writers, WriteFile(w) PROVE Types'
<1> DEFINE piece == [call |-> call[w], from |-> writenLen[w], len |-> lastWriteLen(w)]
           write == [at |-> Offset, piece |-> piece]
<1>1. /\ pc[w] = "write" /\ pc' = [pc EXCEPT ![w] = "load"]
      /\ issued' = issued \cup {write}
      /\ pending' \in {pending, pending \cup {write}}
      /\ UNCHANGED <<m_bOpened, Offset, call, nCount, writenLen, loaded, begun, astray>>
  BY DEF WriteFile
<1>2. write \in [at : Offsets, piece : [call : Nat, from : Nat, len : Nat]]
  BY <1>1, PieceLength DEF Types
<1> HIDE DEF write
<1>3. QED
  BY <1>1, <1>2 DEF Types

LEMMA WriteFileKeeps == ASSUME IInv, NEW w \in Writers, WriteFile(w) PROVE IInv'
<1> DEFINE piece == [call |-> call[w], from |-> writenLen[w], len |-> lastWriteLen(w)]
           write == [at |-> Offset, piece |-> piece]
<1>1. /\ pc[w] = "write" /\ pc' = [pc EXCEPT ![w] = "load"]
      /\ issued' = issued \cup {write}
      /\ pending' \in {pending, pending \cup {write}}
      /\ file' \in {file, Put(Offset, lastWriteLen(w))}
      /\ raced' = (raced \/ Adding # {})
      /\ UNCHANGED <<m_bOpened, Offset, call, nCount, writenLen, loaded, begun>>
  BY DEF WriteFile
<1>2. /\ m_bOpened = "yes" /\ Offset \in Nat /\ Offset >= Start
      /\ lastWriteLen(w) \in Nat \ {0}
      /\ call[w] \in Nat /\ writenLen[w] \in Nat
  BY <1>1, PieceLength, OffsetValues DEF IInv, Types, BehindStart
<1>3. write.at = Offset /\ write.piece.len = lastWriteLen(w)
  BY <1>2
<1> HIDE DEF write
<1>4. Types'
  BY WriteFileTypes DEF IInv
<1>5. BehindStart'
  BY <1>1, <1>2, <1>3 DEF IInv, BehindStart, Types
<1>6. TilesOK'
  <2> SUFFICES ASSUME ~ raced'
               PROVE  /\ \A u, v \in Adding' : u = v
                      /\ \A v \in Writers : pc'[v] = "store" => loaded'[v] = Offset'
                      /\ Adding' = {} => Tiles(Offset)'
                      /\ \A v \in Adding' : Tiles(Offset + lastWriteLen(v))'
    BY DEF TilesOK
  <2>1. ~ raced /\ Adding = {}
    BY <1>1
  <2>2. Adding' = {w} /\ pc'[w] = "load" /\ \A v \in Writers \ {w} : pc'[v] = pc[v]
    BY <1>1, <2>1, Moves DEF IInv
  <2>3. Tiles(Offset)
    BY <1>2, <2>1 DEF IInv, TilesOK
  <2>4. Tile(issued \cup {write}, Offset + lastWriteLen(w))
    <3>1. \A b \in issued : b.at \in Nat /\ b.piece.len \in Nat
      BY OffsetValues DEF IInv, Types
    <3>2. QED
      BY <1>2, <1>3, <2>3, <3>1, OneMoreTile DEF Tiles
  <2>5. Tiles(Offset + lastWriteLen(w))'
    <3>1. lastWriteLen(w)' = lastWriteLen(w)
      BY <1>1, LengthKept
    <3>2. QED
      BY <1>1, <2>4, <3>1 DEF Tiles
  <2>6. QED
    BY <1>1, <1>2, <2>1, <2>2, <2>5 DEF IInv, TilesOK
<1>7. FileOK'
  <2>1. CASE file' = file
    BY <2>1 DEF IInv, FileOK, OldText
  <2>2. CASE file' = Put(Offset, lastWriteLen(w))
    BY <2>2, <1>2, PutKeeps DEF IInv
  <2>3. QED
    BY <1>1, <2>1, <2>2
<1>8. QED
  BY <1>4, <1>5, <1>6, <1>7 DEF IInv

LEMMA PerformTypes == ASSUME Types, NEW a \in pending, Perform(a) PROVE Types'
  BY DEF Perform, local, Types

LEMMA PerformKeeps == ASSUME IInv, NEW a \in pending, Perform(a) PROVE IInv'
<1>1. /\ file' = Put(a.at, a.piece.len) /\ pending' = pending \ {a}
      /\ UNCHANGED <<m_bOpened, Offset, issued, pc, call, nCount, writenLen, loaded, begun, raced>>
  BY DEF Perform, local
<1>2. a.at \in Nat /\ a.at >= Start
  BY OffsetValues DEF IInv, Types, BehindStart
<1>3. FileOK'
  BY <1>1, <1>2, PutKeeps DEF IInv
<1>4. Types' /\ BehindStart'
  BY <1>1, PerformTypes DEF IInv, BehindStart
<1>5. TilesOK'
  BY <1>1 DEF IInv, TilesOK, Tiles, Adding, lastWriteLen
<1>6. QED
  BY <1>3, <1>4, <1>5 DEF IInv

LEMMA LoadOffsetTypes == ASSUME Types, NEW w \in Writers, LoadOffset(w) PROVE Types'
  BY DEF LoadOffset, shared, writes, Types

LEMMA LoadOffsetKeeps == ASSUME IInv, NEW w \in Writers, LoadOffset(w) PROVE IInv'
<1>1. /\ pc[w] = "load" /\ pc' = [pc EXCEPT ![w] = "store"]
      /\ loaded' = [loaded EXCEPT ![w] = Offset]
      /\ UNCHANGED <<m_bOpened, Offset, file, issued, pending, call, nCount, writenLen, begun, raced>>
  BY DEF LoadOffset, shared, writes
<1>2. Types'
  BY LoadOffsetTypes DEF IInv
<1>3. w \in Adding /\ pc'[w] = "store" /\ \A v \in Writers \ {w} : pc'[v] = pc[v]
  BY <1>1 DEF IInv, Types, Adding
<1>4. Adding' = Adding
  BY <1>3 DEF Adding
<1>5. loaded'[w] = Offset /\ \A v \in Writers \ {w} : loaded'[v] = loaded[v]
  BY <1>1 DEF IInv, Types
<1>6. BehindStart'
  BY <1>1, <1>3, <1>5 DEF IInv, BehindStart, Types
<1>7. TilesOK'
  <2>1. (\A v, u \in Adding : v = u) => (\A v, u \in Adding' : v = u)
    BY <1>4
  <2>2. \A v \in Writers : lastWriteLen(v)' = lastWriteLen(v)
    BY <1>1, LengthKept
  <2>3. (\A v \in Adding : Tiles(Offset + lastWriteLen(v)))
          => \A v \in Adding' : Tiles(Offset + lastWriteLen(v))'
    BY <1>1, <1>4, <2>2 DEF Tiles, Adding
  <2>4. Tiles(Offset) => Tiles(Offset)'
    BY <1>1 DEF Tiles
  <2>5. QED
    BY <1>1, <1>3, <1>4, <1>5, <2>1, <2>3, <2>4 DEF IInv, TilesOK
<1>8. QED
  BY <1>1, <1>2, <1>6, <1>7 DEF IInv, FileOK, OldText

LEMMA StoreOffsetTypes == ASSUME Types, NEW w \in Writers, StoreOffset(w) PROVE Types'
<1> DEFINE len == lastWriteLen(w)
<1>1. /\ pc[w] = "store" /\ Offset' = (loaded[w] + len) % OffsetMod
      /\ astray' = (astray \/ Offset' # loaded[w] + len)
      /\ writenLen' = [writenLen EXCEPT ![w] = writenLen[w] + len]
      /\ pc' = [pc EXCEPT ![w] = IF writenLen'[w] < nCount[w] THEN "fill" ELSE "idle"]
      /\ UNCHANGED <<m_bOpened, issued, pending, call, nCount, loaded, begun>>
  BY DEF StoreOffset, writes
<1>2. len \in Nat \ {0} /\ loaded[w] \in Nat /\ writenLen[w] \in Nat
  BY <1>1, PieceLength, OffsetValues DEF Types
<1> HIDE DEF len
<1>3. writenLen' \in [Writers -> Nat] /\ Offset' \in Offsets /\ astray' \in BOOLEAN
  <2>1. loaded[w] + len \in Nat
    BY <1>2
  <2>2. Offset' \in Offsets
    BY <1>1, <2>1, OffsetValues
  <2>3. writenLen[w] + len \in Nat
    BY <1>2
  <2>4. writenLen' \in [Writers -> Nat]
    BY <1>1, <2>3 DEF Types
  <2>5. astray' \in BOOLEAN
    BY <1>1 DEF Types
  <2>6. QED
    BY <2>2, <2>4, <2>5
<1>4. pc' \in [Writers -> {"idle", "fill", "write", "load", "store"}]
  BY <1>1 DEF Types
<1>5. \A v \in Writers : pc'[v] # "idle" => m_bOpened' = "yes" /\ writenLen'[v] < nCount'[v]
  BY <1>1 DEF Types
<1>6. QED
  BY <1>1, <1>3, <1>4, <1>5 DEF Types

LEMMA StoreOffsetKeeps ==
  ASSUME IInv, NEW w \in Writers, StoreOffset(w), ~ astray' PROVE IInv'
<1> DEFINE len == lastWriteLen(w)
           to == IF writenLen[w] + len < nCount[w] THEN "fill" ELSE "idle"
<1>1. /\ pc[w] = "store" /\ Offset' = loaded[w] + len
      /\ writenLen' = [writenLen EXCEPT ![w] = writenLen[w] + len]
      /\ pc' = [pc EXCEPT ![w] = IF writenLen'[w] < nCount[w] THEN "fill" ELSE "idle"]
      /\ UNCHANGED <<m_bOpened, file, issued, pending, call, nCount, loaded, begun, raced>>
  BY DEF StoreOffset, writes
<1>2. len \in Nat \ {0} /\ loaded[w] \in Nat /\ loaded[w] >= Start /\ m_bOpened = "yes"
      /\ writenLen[w] \in Nat /\ nCount[w] \in Nat
  BY <1>1, PieceLength, OffsetValues DEF IInv, Types, BehindStart
<1>3. writenLen'[w] = writenLen[w] + len /\ \A v \in Writers \ {w} : writenLen'[v] = writenLen[v]
  BY <1>1 DEF IInv, Types
<1>4. pc' = [pc EXCEPT ![w] = to]
  BY <1>1, <1>3
<1>5. pc'[w] = to /\ Adding' = Adding \ {w} /\ \A v \in Writers \ {w} : pc'[v] = pc[v]
  <2>1. to \in {"fill", "idle"} /\ Types
    BY DEF IInv
  <2> HIDE DEF to
  <2>2. QED
    BY <1>4, <2>1, Moves
<1> HIDE DEF len
<1>6. Types'
  BY StoreOffsetTypes DEF IInv
<1>7. BehindStart'
  <2>1. Offset' >= Start
    BY <1>1, <1>2, LogAssumption
  <2>2. \A v \in Writers : pc'[v] = "store" => v # w /\ pc[v] = "store"
    BY <1>5
  <2>3. QED
    BY <1>1, <1>2, <2>1, <2>2 DEF IInv, BehindStart
<1>8. TilesOK'
  <2> SUFFICES ASSUME ~ raced
               PROVE  /\ \A u, v \in Adding' : u = v
                      /\ \A v \in Writers : pc'[v] = "store" => loaded'[v] = Offset'
                      /\ Adding' = {} => Tiles(Offset)'
                      /\ \A v \in Adding' : Tiles(Offset + lastWriteLen(v))'
    BY <1>1 DEF TilesOK
  <2>1. w \in Adding
    BY <1>1 DEF Adding
  <2>2. \A u, v \in Adding : u = v
    BY <1>2 DEF IInv, TilesOK
  <2>3. Adding' = {}
    BY <1>5, <2>1, <2>2
  <2>4. loaded[w] = Offset
    BY <1>1, <1>2 DEF IInv, TilesOK
  <2>5. Tiles(Offset + len)
    BY <1>2, <2>1 DEF IInv, TilesOK, len
  <2>6. Tiles(Offset)'
    BY <1>1, <2>4, <2>5 DEF Tiles
  <2>7. \A v \in Writers : pc'[v] # "store"
    BY <2>3 DEF Adding
  <2>8. QED
    BY <2>3, <2>6, <2>7
<1>9. QED
  BY <1>1, <1>6, <1>7, <1>8 DEF IInv, FileOK, OldText

(* Types is inductive, and IInv until Offset does not fit in its DWORD.       *)
LEMMA TypesStep == ASSUME Types, [Next]_vars PROVE Types'
<1>1. CASE UNCHANGED vars
  BY <1>1 DEF vars, shared, writes, local, Types
<1>2. QED
  BY <1>1, InitLogTypes, TranceLogTypes, FillTypes, WriteFileTypes, PerformTypes,
     LoadOffsetTypes, StoreOffsetTypes DEF Next, Thread

LEMMA StepKeeps == ASSUME IInv, [Next]_vars, ~ astray' PROVE IInv'
<1>1. CASE UNCHANGED vars
  BY <1>1 DEF vars, shared, writes, local, IInv, Types, BehindStart, TilesOK, Tiles, Tile, FileOK,
     OldText, Adding, lastWriteLen
<1>2. QED
  BY <1>1, InitLogKeeps, TranceLogKeeps, FillKeeps, WriteFileKeeps, PerformKeeps, LoadOffsetKeeps,
     StoreOffsetKeeps DEF Next, Thread

(* Once Offset has not fitted, that stays so.                                 *)
LEMMA StaysAstray == ASSUME [Next]_vars, ~ astray' PROVE ~ astray
BY DEF Next, Thread, InitLog, TranceLog, Fill, WriteFile, LoadOffset, StoreOffset, Perform, vars

Fitting == Types /\ (~ astray => IInv)

THEOREM Invariance == Spec => []Fitting
<1>1. Init => Fitting
  BY InitEstablishes DEF Fitting, IInv
<1>2. Fitting /\ [Next]_vars => Fitting'
  BY TypesStep, StepKeeps, StaysAstray DEF Fitting
<1>3. QED
  BY <1>1, <1>2, PTL DEF Spec

(* However the threads race on Offset, what log.txt held before is not        *)
(* overwritten until a position of the file does not fit in the DWORD         *)
(* (CLog.cpp:54-58 and 101).                                                  *)
THEOREM OldTextIsKept == Spec => []OldTextKept
<1>1. Fitting => OldTextKept
  BY DEF Fitting, IInv, FileOK, OldText, OldTextKept
<1>2. QED
  BY <1>1, Invariance, PTL

(* Without a race, whatever Offset counts is tiled.                           *)
LEMMA TilesBelow ==
  ASSUME IInv, ~ raced, m_bOpened = "yes"
  PROVE  /\ \A p \in Start .. Offset - 1 : \E a \in issued : p \in Extent(a)
         /\ \A a, b \in issued : a # b => Extent(a) \cap Extent(b) = {}
<1>1. CASE Adding = {}
  BY <1>1 DEF IInv, TilesOK, Tiles, Tile
<1>2. CASE Adding # {}
  <2>1. PICK w \in Writers : w \in Adding /\ pc[w] # "idle"
    BY <1>2 DEF Adding
  <2>2. Tiles(Offset + lastWriteLen(w)) /\ lastWriteLen(w) \in Nat /\ Offset \in Nat
    BY <2>1, PieceLength, OffsetValues DEF IInv, TilesOK, Types
  <2>3. \A p \in Start .. Offset - 1 : p \in Start .. Offset + lastWriteLen(w) - 1
    BY <2>2, LogAssumption
  <2>4. QED
    BY <2>2, <2>3 DEF Tiles, Tile
<1>3. QED
  BY <1>1, <1>2

(* Without a race, and as long as Offset fits, the writes tile the file from  *)
(* its old end to Offset (CLog.cpp:100-101).                                  *)
THEOREM WritesTile == Spec => []Tiled
<1>1. ASSUME Fitting PROVE Tiled
  BY <1>1, TilesBelow DEF Fitting, Tiled
<1>2. QED
  BY <1>1, Invariance, PTL

-----------------------------------------------------------------------------
(* How far Offset can get. A cell is a byte of a message; it is counted once  *)
(* the thread that logs the message has added it to writenLen, or is done.    *)
(* As long as Offset fits, it never gets further than the counted cells, as   *)
(* each addition counts as many cells as it adds, even when another update of *)
(* Offset is lost.                                                            *)
Mine(w) == [call |-> call[w], from |-> writenLen[w], len |-> lastWriteLen(w)]
Active == {w \in Writers : pc[w] # "idle"}
Cells == Calls \X (1 .. MaxText)
Counted ==
  {c \in Cells : c[1] <= begun /\ \A w \in Active : call[w] = c[1] => c[2] <= writenLen[w]}

CallsOK ==
  /\ begun <= MaxCalls
  /\ \A w \in Writers : call[w] <= begun /\ writenLen[w] <= nCount[w] /\ nCount[w] <= MaxText
  /\ \A w \in Active : call[w] \in Calls
  /\ \A v, w \in Active : call[v] = call[w] => v = w

(* A piece is issued once: its thread goes on from it or is about to.         *)
PiecesOK ==
  /\ \A a \in issued :
       /\ a.piece \in Piece /\ a.piece.len > 0 /\ a.piece.call <= begun
       /\ \A w \in Active : call[w] = a.piece.call =>
            \/ a.piece.from < writenLen[w]
            \/ a.piece.from = writenLen[w] /\ w \in Adding
  /\ failed \subseteq issued \ pending

OffsetOK ==
  /\ Offset <= Start + Cardinality(Counted)
  /\ \A w \in Writers : pc[w] = "store" => loaded[w] <= Start + Cardinality(Counted)

BytesOK ==
  /\ buffer \in Piece /\ buffer.from + buffer.len <= MaxText
  /\ buffer.len > 0 => buffer.call > 0
  /\ file \in [Positions -> Byte]
  /\ raced \in BOOLEAN /\ reused \in BOOLEAN

BoundInv == CallsOK /\ PiecesOK /\ BytesOK

(* The cells of the first n messages.                                         *)
LEMMA CellsOf ==
  ASSUME NEW n \in Nat
  PROVE  /\ IsFiniteSet((1 .. n) \X (1 .. MaxText))
         /\ Cardinality((1 .. n) \X (1 .. MaxText)) = n * MaxText
<1> DEFINE S == 1 .. n
           T == 1 .. MaxText
<1>1. /\ IsFiniteSet(S) /\ Cardinality(S) = n
      /\ IsFiniteSet(T) /\ Cardinality(T) = MaxText
  BY LogAssumption, FS_Interval
<1> HIDE DEF S, T
<1>2. IsFiniteSet(S \X T) /\ Cardinality(S \X T) = Cardinality(S) * Cardinality(T)
  BY <1>1, FS_Product
<1>3. IsFiniteSet(S \X T) /\ Cardinality(S \X T) = n * MaxText
  BY <1>1, <1>2
<1>4. QED
  BY <1>3 DEF S, T

LEMMA CellsFinite ==
  ASSUME NEW C, C \subseteq Cells
  PROVE  IsFiniteSet(C) /\ Cardinality(C) \in Nat
<1>1. IsFiniteSet(Cells)
  BY CellsOf, LogAssumption DEF Cells, Calls
<1>2. IsFiniteSet(C)
  BY <1>1, FS_Subset
<1>3. QED
  BY <1>2, FS_CardinalityType

(* Only messages that have begun are counted.                                 *)
LEMMA CountedBound ==
  ASSUME begun \in Nat
  PROVE  /\ Cardinality(Counted) \in Nat /\ begun * MaxText \in Nat
         /\ Cardinality(Counted) <= begun * MaxText
<1>1. Counted \subseteq (1 .. begun) \X (1 .. MaxText)
  <2>1. ASSUME NEW c \in Counted PROVE c \in (1 .. begun) \X (1 .. MaxText)
    BY LogAssumption DEF Counted, Cells, Calls
  <2>2. QED
    BY <2>1
<1>2. Cardinality(Counted) <= Cardinality((1 .. begun) \X (1 .. MaxText))
  BY <1>1, CellsOf, FS_Subset
<1>3. Cardinality(Counted) \in Nat
  BY CellsFinite DEF Counted
<1>4. Cardinality((1 .. begun) \X (1 .. MaxText)) \in Nat
  BY CellsOf, FS_CardinalityType
<1>5. QED
  BY <1>2, <1>3, <1>4, CellsOf

(* n more cells of one message, all of them new.                              *)
LEMMA MoreCells ==
  ASSUME NEW C, C \subseteq Cells, NEW D, D \subseteq Cells,
         NEW c, NEW k \in Nat, NEW n \in Nat,
         C \cap ({c} \X (k + 1 .. k + n)) = {},
         C \cup ({c} \X (k + 1 .. k + n)) \subseteq D
  PROVE  Cardinality(C) + n <= Cardinality(D)
<1> DEFINE N == {c} \X (k + 1 .. k + n)
<1>1. IsFiniteSet(N) /\ Cardinality(N) = n
  <2>1. IsFiniteSet({c}) /\ Cardinality({c}) = 1
    BY FS_Singleton
  <2>2. IsFiniteSet(k + 1 .. k + n) /\ Cardinality(k + 1 .. k + n) = n
    BY FS_Interval
  <2>3. QED
    BY <2>1, <2>2, FS_Product
<1> HIDE DEF N
<1>2. IsFiniteSet(C) /\ Cardinality(C) \in Nat /\ IsFiniteSet(D)
  BY CellsFinite
<1>3. Cardinality(C \cup N) = Cardinality(C) + Cardinality(N) - Cardinality(C \cap N)
  BY <1>1, <1>2, FS_Union
<1>4. C \cap N = {} /\ C \cup N \subseteq D
  BY DEF N
<1>5. Cardinality(C \cup N) <= Cardinality(D)
  BY <1>2, <1>4, FS_Subset
<1>6. Cardinality(C \cap N) = 0
  BY <1>4, FS_EmptySet
<1>7. QED
  BY <1>1, <1>2, <1>3, <1>5, <1>6

(* What a thread has still to add is not counted yet.                         *)
LEMMA RoomLeft ==
  ASSUME Types, BoundInv, NEW w \in Active
  PROVE  /\ Counted \cap ({call[w]} \X (writenLen[w] + 1 .. writenLen[w] + lastWriteLen(w))) = {}
         /\ {call[w]} \X (writenLen[w] + 1 .. writenLen[w] + lastWriteLen(w)) \subseteq Cells
<1> DEFINE len == lastWriteLen(w)
           N == {call[w]} \X (writenLen[w] + 1 .. writenLen[w] + len)
<1>1. /\ w \in Writers /\ call[w] \in Calls /\ writenLen[w] \in Nat /\ len \in Nat
      /\ nCount[w] \in Nat /\ writenLen[w] + len <= MaxText
  BY PieceLength, LogAssumption DEF Types, BoundInv, CallsOK, Active
<1> HIDE DEF len
<1>2. N \subseteq Cells
  BY <1>1, LogAssumption DEF Cells
<1>3. Counted \cap N = {}
  <2>1. ASSUME NEW c \in Counted, c \in N PROVE FALSE
    <3>1. c[1] = call[w] /\ c[2] \in writenLen[w] + 1 .. writenLen[w] + len
      BY <2>1
    <3>2. c[2] <= writenLen[w]
      BY <2>1, <3>1 DEF Counted
    <3>3. QED
      BY <1>1, <3>1, <3>2
  <2>2. QED
    BY <2>1
<1>4. QED
  BY <1>2, <1>3 DEF len

LEMMA BoundInit == ASSUME Init PROVE BoundInv /\ OffsetOK
<1>1. Offset = 0 /\ Cardinality(Counted) \in Nat
  BY CellsFinite DEF Init, Counted
<1>2. CallsOK
  BY LogAssumption DEF Init, CallsOK, Active
<1>3. PiecesOK
  BY DEF Init, PiecesOK
<1>4. OffsetOK
  BY <1>1, LogAssumption DEF Init, OffsetOK
<1>5. BytesOK
  <2>1. file \in [Positions -> Byte]
    BY DEF Init, Byte
  <2>2. NoPiece \in Piece /\ NoPiece.from + NoPiece.len <= MaxText /\ NoPiece.len = 0
    BY LogAssumption DEF Piece, NoPiece
  <2>3. buffer \in Piece /\ buffer.from + buffer.len <= MaxText
        /\ (buffer.len > 0 => buffer.call > 0)
    BY <2>2 DEF Init
  <2>4. raced \in BOOLEAN /\ reused \in BOOLEAN
    BY DEF Init
  <2>5. QED
    BY <2>1, <2>3, <2>4 DEF BytesOK
<1>6. QED
  BY <1>2, <1>3, <1>4, <1>5 DEF BoundInv

(* What a thread's step does to Active.                                       *)
LEMMA ActiveAfter ==
  ASSUME Types, NEW w \in Writers, NEW to, pc' = [pc EXCEPT ![w] = to]
  PROVE  Active' = IF to = "idle" THEN Active \ {w} ELSE Active \cup {w}
  BY DEF Types, Active

LEMMA CountedKept ==
  ASSUME Active' = Active, UNCHANGED <<call, writenLen, begun>>
  PROVE  Counted' = Counted
  BY DEF Counted

(* The kernel puts bytes of messages, or zero, where it writes.               *)
LEMMA PutBytes ==
  ASSUME BytesOK, NEW at \in Nat, NEW len, file' = Put(at, len)
  PROVE  file' \in [Positions -> Byte]
<1> SUFFICES ASSUME NEW p \in Positions PROVE file'[p] \in Byte
  BY DEF Put
<1>1. CASE p \notin at .. at + len - 1
  BY <1>1 DEF Put, BytesOK
<1>2. CASE p \in at .. at + len - 1 /\ p - at < buffer.len
  <2>1. p \in Int /\ p - at >= 0
    BY <1>2 DEF Positions
  <2>2. buffer.call \in 1 .. MaxCalls /\ buffer.from + p - at + 1 \in 1 .. MaxText
    BY <1>2, <2>1, LogAssumption DEF BytesOK, Piece
  <2>3. file'[p] = <<buffer.call, buffer.from + p - at + 1>>
    BY <1>2 DEF Put
  <2>4. QED
    BY <2>2, <2>3 DEF Byte, Calls
<1>3. CASE p \in at .. at + len - 1 /\ ~ p - at < buffer.len
  BY <1>3 DEF Put, Byte
<1>4. QED
  BY <1>1, <1>2, <1>3

(* The piece a thread is about to log.                                        *)
LEMMA MineIsPiece ==
  ASSUME Types, BoundInv, NEW w \in Active
  PROVE  /\ Mine(w) \in Piece /\ Mine(w).call \in 1 .. begun /\ Mine(w).len > 0
         /\ Mine(w).from + Mine(w).len <= MaxText
<1>1. /\ w \in Writers /\ call[w] \in 1 .. begun /\ begun <= MaxCalls /\ begun \in Nat
      /\ writenLen[w] \in Nat /\ nCount[w] \in Nat /\ nCount[w] <= MaxText
      /\ lastWriteLen(w) \in Nat \ {0} /\ lastWriteLen(w) <= nCount[w] - writenLen[w]
  BY PieceLength, LogAssumption DEF Types, BoundInv, CallsOK, Active, Calls
<1>2. lastWriteLen(w) <= BufferSize
  BY <1>1, LogAssumption DEF lastWriteLen
<1>3. QED
  BY <1>1, <1>2, LogAssumption DEF Mine, Piece

LEMMA InitLogBounds ==
  ASSUME Types, BoundInv, InitLog PROVE BoundInv' /\ (~ astray' => OffsetOK')
<1>1. /\ m_bOpened = "no" /\ astray' = (astray \/ Offset' # Start)
      /\ UNCHANGED <<buffer, file, pending, issued, failed, pc, call, nCount, writenLen, loaded,
                     begun, raced, reused>>
  BY DEF InitLog, writes, local
<1>2. Active' = Active /\ Adding' = Adding /\ Counted' = Counted /\ Cardinality(Counted) \in Nat
  BY <1>1, CountedKept, CellsFinite DEF Active, Adding, Counted
<1>3. \A w \in Writers : pc[w] = "idle"
  BY <1>1 DEF Types
<1>4. ASSUME ~ astray' PROVE OffsetOK'
  <2>1. Offset' = Start
    BY <1>1, <1>4
  <2>2. Offset' <= Start + Cardinality(Counted)
    BY <1>2, <2>1, LogAssumption
  <2>3. \A w \in Writers : pc'[w] # "store"
    BY <1>1, <1>3
  <2>4. QED
    BY <1>2, <2>2, <2>3 DEF OffsetOK
<1>5. QED
  BY <1>1, <1>2, <1>4 DEF BoundInv, CallsOK, PiecesOK, BytesOK

(* A message begins: it is the newest, and none of its cells is counted.      *)
LEMMA TranceLogBounds ==
  ASSUME Types, BoundInv, NEW w \in Writers, TranceLog(w)
  PROVE  BoundInv' /\ (OffsetOK /\ ~ astray' => OffsetOK')
<1>1. /\ begun < MaxCalls /\ pc[w] = "idle" /\ pc' = [pc EXCEPT ![w] = "fill"]
      /\ call' = [call EXCEPT ![w] = begun + 1] /\ begun' = begun + 1
      /\ writenLen' = [writenLen EXCEPT ![w] = 0]
      /\ UNCHANGED <<Offset, buffer, file, issued, pending, failed, loaded, raced, reused>>
  BY DEF TranceLog, shared, writes
<1>2. PICK n \in 1 .. MaxText : nCount' = [nCount EXCEPT ![w] = n]
  BY DEF TranceLog
<1>3. /\ begun \in Nat /\ w \notin Active
      /\ call'[w] = begun + 1 /\ writenLen'[w] = 0 /\ nCount'[w] = n
      /\ \A v \in Writers \ {w} : /\ call'[v] = call[v] /\ writenLen'[v] = writenLen[v]
                                  /\ nCount'[v] = nCount[v]
      /\ \A v \in Writers : call[v] \in Nat /\ call[v] <= begun
  BY <1>1, <1>2 DEF Types, BoundInv, CallsOK, Active
<1>4. Active' = Active \cup {w} /\ Adding' = Adding
  <2>1. Types /\ "fill" # "idle" /\ "fill" \notin {"load", "store"} /\ w \notin Adding
    BY <1>1 DEF Adding
  <2>2. QED
    BY <1>1, <2>1, ActiveAfter, Moves
<1>5. Counted' = Counted
  <2>1. ASSUME NEW c \in Cells
        PROVE  (c \in Counted)' <=> c \in Counted
    <3>1. c[1] \in Nat /\ c[2] \in Nat /\ c[2] >= 1
      BY LogAssumption DEF Cells, Calls
    <3>2. CASE c[1] <= begun
      <4>1. c[1] # begun + 1
        BY <1>3, <3>1, <3>2
      <4>2. (\A v \in Active' : call'[v] = c[1] => c[2] <= writenLen'[v])
              <=> (\A v \in Active : call[v] = c[1] => c[2] <= writenLen[v])
        BY <1>3, <1>4, <4>1 DEF Active
      <4>3. c[1] <= begun'
        BY <1>1, <1>3, <3>1, <3>2
      <4>4. QED
        BY <3>2, <4>2, <4>3 DEF Counted
    <3>3. CASE ~ c[1] <= begun
      <4>1. c \notin Counted
        BY <3>3 DEF Counted
      <4>2. ASSUME (c \in Counted)' PROVE FALSE
        <5>1. c[1] = begun + 1
          BY <1>1, <1>3, <3>1, <3>3, <4>2 DEF Counted
        <5>2. c[2] <= 0
          BY <1>3, <1>4, <4>2, <5>1 DEF Counted
        <5>3. QED
          BY <3>1, <5>2
      <4>3. QED
        BY <4>1, <4>2
    <3>4. QED
      BY <3>2, <3>3
  <2>2. QED
    BY <2>1 DEF Counted, Cells
<1>6. CallsOK'
  <2>1. begun' <= MaxCalls /\ begun' \in Nat
    BY <1>1, <1>3, LogAssumption
  <2>2. \A v \in Writers :
          call'[v] <= begun' /\ writenLen'[v] <= nCount'[v] /\ nCount'[v] <= MaxText
    BY <1>1, <1>2, <1>3, LogAssumption DEF BoundInv, CallsOK
  <2>3. \A v \in Active' : call'[v] \in Calls
    BY <1>1, <1>3, <1>4, <2>1, LogAssumption DEF BoundInv, CallsOK, Calls
  <2>4. ASSUME NEW u \in Active', NEW v \in Active', call'[u] = call'[v] PROVE u = v
    BY <1>3, <1>4, <2>4 DEF BoundInv, CallsOK, Active
  <2>5. QED
    BY <2>1, <2>2, <2>3, <2>4 DEF CallsOK
<1>7. PiecesOK'
  <2>1. \A a \in issued : a.piece.call \in Nat /\ a.piece.call <= begun
    BY LogAssumption DEF BoundInv, PiecesOK, Piece
  <2>2. \A a \in issued : a.piece.call <= begun' /\ call'[w] # a.piece.call
    BY <1>1, <1>3, <2>1
  <2>3. QED
    BY <1>1, <1>3, <1>4, <2>2 DEF BoundInv, PiecesOK, Active
<1>8. OffsetOK => OffsetOK'
  BY <1>1, <1>5, Moves DEF OffsetOK
<1>9. QED
  BY <1>1, <1>6, <1>7, <1>8 DEF BoundInv, BytesOK

LEMMA FillBounds ==
  ASSUME Types, BoundInv, NEW w \in Writers, Fill(w)
  PROVE  BoundInv' /\ (OffsetOK /\ ~ astray' => OffsetOK')
<1>1. /\ pc[w] = "fill" /\ pc' = [pc EXCEPT ![w] = "write"] /\ buffer' = Mine(w)
      /\ reused' = (reused \/ pending # {} \/ Filled # {})
      /\ UNCHANGED <<Offset, file, issued, pending, failed, call, nCount, writenLen, loaded,
                     begun, raced>>
  BY DEF Fill, writes, Mine
<1>2. w \in Active /\ Active' = Active /\ Adding' = Adding
  BY <1>1, ActiveAfter, Moves DEF Active, Adding
<1>3. Counted' = Counted
  BY <1>1, <1>2, CountedKept
<1>4. CallsOK' /\ PiecesOK'
  BY <1>1, <1>2 DEF BoundInv, CallsOK, PiecesOK
<1>5. OffsetOK => OffsetOK'
  BY <1>1, <1>3, Moves DEF OffsetOK
<1>6. BytesOK'
  <2>1. buffer' \in Piece /\ buffer'.from + buffer'.len <= MaxText /\ buffer'.call > 0
    BY <1>1, <1>2, MineIsPiece DEF Types
  <2>2. reused' \in BOOLEAN
    BY <1>1 DEF BoundInv, BytesOK
  <2>3. QED
    BY <1>1, <2>1, <2>2 DEF BoundInv, BytesOK
<1>7. QED
  BY <1>4, <1>5, <1>6 DEF BoundInv

(* The piece that is written was never issued before, and fits in the file.   *)
LEMMA WriteFileBounds ==
  ASSUME Types, BoundInv, NEW w \in Writers, WriteFile(w)
  PROVE  BoundInv' /\ (OffsetOK /\ ~ astray' => OffsetOK')
<1> DEFINE write == [at |-> Offset, piece |-> Mine(w)]
<1>1. /\ pc[w] = "write" /\ pc' = [pc EXCEPT ![w] = "load"]
      /\ issued' = issued \cup {write}
      /\ \/ file' = Put(Offset, lastWriteLen(w)) /\ UNCHANGED <<pending, failed>>
         \/ pending' = pending \cup {write} /\ UNCHANGED <<file, failed>>
         \/ failed' = failed \cup {write} /\ UNCHANGED <<file, pending>>
      /\ raced' = (raced \/ Adding # {})
      /\ UNCHANGED <<Offset, buffer, call, nCount, writenLen, loaded, begun, reused>>
  BY DEF WriteFile, Mine
<1>2. write.at = Offset /\ write.piece = Mine(w)
  OBVIOUS
<1> HIDE DEF write
<1>3. w \in Active /\ w \notin Adding /\ Active' = Active /\ Adding' = Adding \cup {w}
      /\ Counted' = Counted
  <2>1. Types /\ "load" # "idle" /\ "load" \in {"load", "store"}
    OBVIOUS
  <2>2. w \in Active /\ w \notin Adding
    BY <1>1 DEF Active, Adding
  <2>3. Active' = Active \cup {w} /\ Adding' = Adding \cup {w}
    BY <1>1, <2>1, ActiveAfter, Moves
  <2>4. Active' = Active
    BY <2>2, <2>3
  <2>5. QED
    BY <1>1, <2>2, <2>3, <2>4, CountedKept
<1>4. /\ Mine(w) \in Piece /\ Mine(w).call \in 1 .. begun /\ Mine(w).len > 0
      /\ Mine(w).call = call[w] /\ Mine(w).from = writenLen[w] /\ Mine(w).len = lastWriteLen(w)
      /\ lastWriteLen(w) \in Nat
  BY <1>1, <1>3, MineIsPiece, PieceLength DEF Mine
<1>5. Offset \in Nat
  BY OffsetValues DEF Types
<1>6. write \notin issued
  BY <1>2, <1>3, <1>4 DEF BoundInv, PiecesOK, Types
<1>7. CallsOK'
  BY <1>1, <1>3 DEF BoundInv, CallsOK
<1>8. PiecesOK'
  <2>1. ASSUME NEW a \in issued
        PROVE  /\ a.piece \in Piece /\ a.piece.len > 0 /\ a.piece.call <= begun
               /\ \A v \in Active : call[v] = a.piece.call =>
                    \/ a.piece.from < writenLen[v]
                    \/ a.piece.from = writenLen[v] /\ v \in Adding'
    BY <1>3 DEF BoundInv, PiecesOK
  <2>2. write.piece \in Piece /\ write.piece.len > 0 /\ write.piece.call <= begun
    BY <1>2, <1>4
  <2>3. \A v \in Active : call[v] = write.piece.call => v = w
    BY <1>2, <1>3, <1>4 DEF BoundInv, CallsOK
  <2>4. \A v \in Active : call[v] = write.piece.call =>
          write.piece.from = writenLen[v] /\ v \in Adding'
    BY <1>2, <1>3, <1>4, <2>3
  <2>5. failed' \subseteq issued' \ pending'
    <3>1. failed \subseteq issued \ pending /\ pending \subseteq issued
      BY DEF BoundInv, PiecesOK, Types
    <3>2. QED
      BY <1>1, <1>6, <3>1
  <2>6. QED
    BY <1>1, <1>3, <2>1, <2>2, <2>4, <2>5 DEF PiecesOK
<1>9. OffsetOK => OffsetOK'
  <2>1. \A v \in Writers : pc'[v] = "store" => pc[v] = "store"
    BY <1>1, Moves
  <2>2. QED
    BY <1>1, <1>3, <2>1 DEF OffsetOK
<1>10. BytesOK'
  <2>1. file' \in [Positions -> Byte]
    BY <1>1, <1>5, PutBytes DEF BoundInv, BytesOK
  <2>2. raced' \in BOOLEAN
    BY <1>1 DEF BoundInv, BytesOK
  <2>3. QED
    BY <1>1, <2>1, <2>2 DEF BoundInv, BytesOK
<1>11. QED
  BY <1>7, <1>8, <1>9, <1>10 DEF BoundInv

LEMMA PerformBounds ==
  ASSUME Types, BoundInv, NEW a \in pending, Perform(a)
  PROVE  BoundInv' /\ (OffsetOK /\ ~ astray' => OffsetOK')
<1>1. /\ file' = Put(a.at, a.piece.len) /\ pending' = pending \ {a}
      /\ UNCHANGED <<Offset, buffer, issued, failed, pc, call, nCount, writenLen, loaded, begun,
                     raced, reused>>
  BY DEF Perform, local
<1>2. Active' = Active /\ Adding' = Adding /\ Counted' = Counted
  BY <1>1, CountedKept DEF Active, Adding
<1>3. a.at \in Nat
  BY OffsetValues DEF Types
<1>4. CallsOK' /\ PiecesOK' /\ (OffsetOK => OffsetOK')
  BY <1>1, <1>2 DEF BoundInv, CallsOK, PiecesOK, OffsetOK
<1>5. BytesOK'
  BY <1>1, <1>3, PutBytes DEF BoundInv, BytesOK
<1>6. QED
  BY <1>4, <1>5 DEF BoundInv

LEMMA LoadOffsetBounds ==
  ASSUME Types, BoundInv, NEW w \in Writers, LoadOffset(w)
  PROVE  BoundInv' /\ (OffsetOK /\ ~ astray' => OffsetOK')
<1>1. /\ pc[w] = "load" /\ pc' = [pc EXCEPT ![w] = "store"]
      /\ loaded' = [loaded EXCEPT ![w] = Offset]
      /\ UNCHANGED <<Offset, buffer, file, issued, pending, failed, call, nCount, writenLen, begun,
                     raced, reused>>
  BY DEF LoadOffset, shared, writes
<1>2. Active' = Active /\ Adding' = Adding /\ Counted' = Counted
  <2>1. Types /\ "store" # "idle" /\ "store" \in {"load", "store"}
    OBVIOUS
  <2>2. w \in Active /\ w \in Adding
    BY <1>1 DEF Active, Adding
  <2>3. Active' = Active \cup {w} /\ Adding' = Adding \cup {w}
    BY <1>1, <2>1, ActiveAfter, Moves
  <2>4. Active' = Active /\ Adding' = Adding
    BY <2>2, <2>3
  <2>5. QED
    BY <1>1, <2>4, CountedKept
<1>3. OffsetOK => OffsetOK'
  <2>1. loaded'[w] = Offset /\ \A v \in Writers \ {w} : loaded'[v] = loaded[v] /\ pc'[v] = pc[v]
    BY <1>1 DEF Types
  <2>2. QED
    BY <1>1, <1>2, <2>1 DEF OffsetOK
<1>4. QED
  BY <1>1, <1>2, <1>3 DEF BoundInv, CallsOK, PiecesOK, BytesOK

(* What is added to Offset is counted in the same step.                       *)
LEMMA StoreOffsetBounds ==
  ASSUME Types, BoundInv, NEW w \in Writers, StoreOffset(w)
  PROVE  BoundInv' /\ (OffsetOK /\ ~ astray' => OffsetOK')
<1> DEFINE len == lastWriteLen(w)
<1>1. /\ pc[w] = "store" /\ (~ astray' => Offset' = loaded[w] + len)
      /\ writenLen' = [writenLen EXCEPT ![w] = writenLen[w] + len]
      /\ \E to \in {"fill", "idle"} : pc' = [pc EXCEPT ![w] = to]
      /\ UNCHANGED <<buffer, file, issued, pending, failed, call, nCount, loaded, begun, raced, reused>>
  BY DEF StoreOffset, writes
<1>2. w \in Active /\ w \in Adding
  BY <1>1 DEF Active, Adding
<1>3. /\ len \in Nat \ {0} /\ writenLen[w] \in Nat /\ nCount[w] \in Nat /\ nCount[w] <= MaxText
      /\ len <= nCount[w] - writenLen[w]
      /\ loaded[w] \in Nat /\ begun \in Nat /\ call[w] <= begun /\ call[w] \in Calls
  BY <1>1, <1>2, PieceLength, OffsetValues DEF Types, BoundInv, CallsOK
<1>4. writenLen'[w] = writenLen[w] + len /\ \A v \in Writers \ {w} : writenLen'[v] = writenLen[v]
  BY <1>1 DEF Types
<1>5. /\ Active' \subseteq Active /\ Adding' = Adding \ {w}
      /\ \A v \in Writers : pc'[v] = "store" => pc[v] = "store" /\ v # w
  <2>1. PICK to \in {"fill", "idle"} : pc' = [pc EXCEPT ![w] = to]
    BY <1>1
  <2>2. Types /\ to \notin {"load", "store"} /\ to # "store"
    BY <2>1
  <2>3. QED
    BY <1>2, <2>1, <2>2, ActiveAfter, Moves
<1> DEFINE N == {call[w]} \X (writenLen[w] + 1 .. writenLen[w] + len)
<1>6. Counted \cap N = {} /\ N \subseteq Cells
  BY <1>2, RoomLeft
<1> HIDE DEF len
<1>7. Counted \cup N \subseteq Counted'
  <2>1. ASSUME NEW c \in Counted PROVE c \in Counted'
    <3>1. c \in Cells /\ c[1] <= begun' /\ c[2] \in Nat
      BY <1>1, LogAssumption DEF Counted, Cells
    <3>2. ASSUME NEW v \in Active', call'[v] = c[1] PROVE c[2] <= writenLen'[v]
      <4>1. c[2] <= writenLen[v] /\ v \in Writers
        BY <1>1, <1>5, <3>2 DEF Counted, Active
      <4>2. CASE v = w
        BY <1>3, <1>4, <3>1, <4>1, <4>2
      <4>3. CASE v # w
        BY <1>4, <4>1, <4>3
      <4>4. QED
        BY <4>2, <4>3
    <3>3. QED
      BY <3>1, <3>2 DEF Counted, Cells
  <2>2. ASSUME NEW c \in N PROVE c \in Counted'
    <3>1. c \in Cells /\ c[1] = call[w] /\ c[2] <= writenLen[w] + len
      BY <1>3, <1>6
    <3>2. c[1] <= begun'
      BY <1>1, <1>3, <3>1
    <3>3. ASSUME NEW v \in Active', call'[v] = c[1] PROVE c[2] <= writenLen'[v]
      <4>1. v = w
        BY <1>1, <1>2, <1>5, <3>1, <3>3 DEF BoundInv, CallsOK
      <4>2. QED
        BY <1>4, <3>1, <4>1
    <3>4. QED
      BY <3>1, <3>2, <3>3 DEF Counted, Cells
  <2>3. QED
    BY <2>1, <2>2
<1>8. /\ Cardinality(Counted) + len <= Cardinality(Counted')
      /\ Cardinality(Counted) \in Nat /\ Cardinality(Counted') \in Nat
  <2>1. Counted \subseteq Cells /\ Counted' \subseteq Cells
    BY DEF Counted, Cells
  <2>2. QED
    BY <1>3, <1>6, <1>7, <2>1, MoreCells, CellsFinite
<1>9. CallsOK'
  <2>1. \A v \in Writers : writenLen'[v] <= nCount'[v]
    BY <1>1, <1>3, <1>4 DEF BoundInv, CallsOK
  <2>2. QED
    BY <1>1, <1>5, <2>1 DEF BoundInv, CallsOK
<1>10. PiecesOK'
  <2>1. ASSUME NEW a \in issued, NEW v \in Active', call[v] = a.piece.call
        PROVE  \/ a.piece.from < writenLen'[v]
               \/ a.piece.from = writenLen'[v] /\ v \in Adding'
    <3>1. \/ a.piece.from < writenLen[v]
          \/ a.piece.from = writenLen[v] /\ v \in Adding
      BY <1>5, <2>1 DEF BoundInv, PiecesOK
    <3>2. a.piece.from \in Nat
      BY DEF Types
    <3>3. CASE v = w
      BY <1>3, <1>4, <3>1, <3>2, <3>3
    <3>4. CASE v # w
      BY <1>4, <1>5, <3>1, <3>4 DEF Active
    <3>5. QED
      BY <3>3, <3>4
  <2>2. QED
    BY <1>1, <2>1 DEF BoundInv, PiecesOK
<1>11. ASSUME OffsetOK, ~ astray' PROVE OffsetOK'
  <2>1. loaded[w] <= Start + Cardinality(Counted)
    BY <1>1, <1>11 DEF OffsetOK
  <2>2. Offset' <= Start + Cardinality(Counted')
    BY <1>1, <1>3, <1>8, <1>11, <2>1, LogAssumption
  <2>3. ASSUME NEW v \in Writers, pc'[v] = "store"
        PROVE  loaded'[v] <= Start + Cardinality(Counted')
    <3>1. loaded[v] <= Start + Cardinality(Counted) /\ loaded[v] \in Nat /\ loaded'[v] = loaded[v]
      BY <1>1, <1>5, <1>11, <2>3, OffsetValues DEF OffsetOK, Types
    <3>2. QED
      BY <1>3, <1>8, <3>1, LogAssumption
  <2>4. QED
    BY <1>1, <2>2, <2>3 DEF OffsetOK
<1>12. QED
  BY <1>1, <1>9, <1>10, <1>11 DEF BoundInv, BytesOK

LEMMA BoundStep ==
  ASSUME Types, BoundInv, [Next]_vars
  PROVE  BoundInv' /\ (OffsetOK /\ ~ astray' => OffsetOK')
<1>1. CASE UNCHANGED vars
  BY <1>1 DEF vars, shared, writes, local, BoundInv, CallsOK, PiecesOK, OffsetOK, BytesOK, Counted,
     Active, Adding
<1>2. QED
  BY <1>1, InitLogBounds, TranceLogBounds, FillBounds, WriteFileBounds, PerformBounds,
     LoadOffsetBounds, StoreOffsetBounds DEF Next, Thread

LEMMA Bounds == Spec => [](Fitting /\ BoundInv /\ (~ astray => OffsetOK))
<1>1. Init => BoundInv /\ (~ astray => OffsetOK)
  BY BoundInit
<1>2. /\ Fitting /\ BoundInv /\ (~ astray => OffsetOK) /\ [Next]_vars
      => BoundInv' /\ (~ astray => OffsetOK)'
  BY BoundStep, StaysAstray DEF Fitting
<1>3. QED
  BY <1>1, <1>2, Invariance, PTL DEF Spec

LEMMA TypesFollow == ASSUME Types, BoundInv, ~ astray => OffsetOK PROVE TypeOK
<1>1. \A w \in Writers : /\ call[w] \in 0 .. MaxCalls /\ nCount[w] \in 0 .. MaxText
                         /\ writenLen[w] \in 0 .. MaxText
  BY LogAssumption DEF Types, BoundInv, CallsOK
<1>2. ~ astray => Offset <= Start + begun * MaxText
  <2>1. /\ Cardinality(Counted) \in Nat /\ begun * MaxText \in Nat
        /\ Cardinality(Counted) <= begun * MaxText
    BY CountedBound DEF Types
  <2>2. Offset \in Nat
    BY OffsetValues DEF Types
  <2>3. QED
    BY <2>1, <2>2, LogAssumption DEF OffsetOK
<1>3. issued \subseteq Write
  <2>1. ASSUME NEW a \in issued PROVE a \in Write
    <3>1. a = [at |-> a.at, piece |-> a.piece] /\ a.at \in Offsets /\ a.piece \in Piece
      BY DEF Types, BoundInv, PiecesOK
    <3>2. QED
      BY <3>1 DEF Write
  <2>2. QED
    BY <2>1
<1>4. /\ call \in [Writers -> 0 .. MaxCalls] /\ nCount \in [Writers -> 0 .. MaxText]
      /\ writenLen \in [Writers -> 0 .. MaxText]
  BY <1>1 DEF Types
<1>5. begun \in 0 .. MaxCalls
  BY LogAssumption DEF Types, BoundInv, CallsOK
<1>6. {astray, raced, reused} \subseteq BOOLEAN
  BY DEF Types, BoundInv, BytesOK
<1>7. QED
  BY <1>2, <1>3, <1>4, <1>5, <1>6 DEF TypeOK, Types, BoundInv, BytesOK, PiecesOK

(* The types; above all, no race on Offset makes the log longer than the      *)
(* messages begun so far: an update may be lost, but none is made up, as long *)
(* as Offset fits in its DWORD (CLog.cpp:95-109).                             *)
THEOREM TypesHold == Spec => []TypeOK
<1>1. Fitting /\ BoundInv /\ (~ astray => OffsetOK) => TypeOK
  BY TypesFollow DEF Fitting
<1>2. QED
  BY <1>1, Bounds, PTL

-----------------------------------------------------------------------------
(* Until the buffer is refilled too early, it holds the piece of the one      *)
(* thread that is about to write, and nothing is pending then; afterwards it  *)
(* holds the piece of the one write that is.                                  *)

BufferOK ==
  ~ reused =>
    /\ \A v, w \in Filled : v = w
    /\ Filled # {} => pending = {}
    /\ \A w \in Filled : buffer = Mine(w)
    /\ \A a \in pending : buffer = a.piece

Done == issued \ (pending \cup failed)
InFile(a) ==
  \A p \in Extent(a) \cap Positions :
    file[p] = <<a.piece.call, a.piece.from + (p - a.at) + 1>>

Logged == ~ astray /\ ~ raced /\ ~ reused => \A a \in Done : InFile(a)

LogInv == BufferOK /\ Logged

LEMMA LogInit == ASSUME Init PROVE LogInv
  BY DEF Init, LogInv, BufferOK, Logged, Done, Filled

(* A step that neither fills nor writes leaves the buffer and the file alone. *)
LEMMA QuietLogs ==
  ASSUME LogInv, Filled' = Filled,
         \A v \in Filled : /\ call'[v] = call[v] /\ nCount'[v] = nCount[v]
                           /\ writenLen'[v] = writenLen[v],
         ~ astray' => ~ astray, UNCHANGED <<buffer, file, writes, raced, reused>>
  PROVE  LogInv'
<1>1. \A v \in Filled : Mine(v)' = Mine(v)
  BY LengthKept DEF Mine
<1>2. UNCHANGED <<issued, pending, failed, file>>
  BY DEF writes
<1>3. BufferOK'
  BY <1>1, <1>2 DEF LogInv, BufferOK
<1>4. Logged'
  BY <1>2 DEF LogInv, Logged, Done, InFile, Extent
<1>5. QED
  BY <1>3, <1>4 DEF LogInv

(* What a thread's step does to Filled.                                       *)
LEMMA FilledAfter ==
  ASSUME Types, NEW w \in Writers, NEW to, pc' = [pc EXCEPT ![w] = to]
  PROVE  Filled' = IF to = "write" THEN Filled \cup {w} ELSE Filled \ {w}
  BY DEF Types, Filled

(* What Put leaves in the file: the piece in the buffer where it was put, the *)
(* rest as it was.                                                            *)
LEMMA PutPiece ==
  ASSUME NEW a, a.at \in Nat, a.piece.len \in Nat, buffer = a.piece,
         file' = Put(a.at, a.piece.len)
  PROVE  /\ \A p \in Extent(a) \cap Positions :
              file'[p] = <<a.piece.call, a.piece.from + (p - a.at) + 1>>
         /\ \A p \in Positions : p \notin Extent(a) => file'[p] = file[p]
<1>1. \A p \in Positions : p \notin Extent(a) => file'[p] = file[p]
  BY DEF Put, Extent
<1>2. ASSUME NEW p \in Extent(a) \cap Positions
      PROVE  file'[p] = <<a.piece.call, a.piece.from + (p - a.at) + 1>>
  <2>1. p \in a.at .. a.at + a.piece.len - 1 /\ p - a.at < buffer.len
    BY DEF Extent
  <2>2. file'[p] = <<buffer.call, buffer.from + p - a.at + 1>>
    BY <2>1 DEF Put
  <2>3. QED
    BY <2>2
<1>3. QED
  BY <1>1, <1>2

LEMMA FillLogs == ASSUME Fitting, LogInv, NEW w \in Writers, Fill(w) PROVE LogInv'
<1>1. /\ pc' = [pc EXCEPT ![w] = "write"]
      /\ buffer' = Mine(w)
      /\ reused' = (reused \/ pending # {} \/ Filled # {})
      /\ UNCHANGED <<file, issued, pending, failed, call, nCount, writenLen, astray, raced>>
  BY DEF Fill, writes, Mine
<1>2. Filled' = Filled \cup {w}
  BY <1>1, FilledAfter DEF Fitting
<1>3. Mine(w)' = Mine(w)
  BY <1>1, LengthKept DEF Mine
<1>4. BufferOK'
  BY <1>1, <1>2, <1>3 DEF BufferOK
<1>5. Logged'
  BY <1>1 DEF LogInv, Logged, Done, InFile, Extent
<1>6. QED
  BY <1>4, <1>5 DEF LogInv

LEMMA WriteFileLogs == ASSUME Fitting, LogInv, NEW w \in Writers, WriteFile(w) PROVE LogInv'
<1> DEFINE write == [at |-> Offset, piece |-> Mine(w)]
<1>1. /\ pc[w] = "write" /\ pc' = [pc EXCEPT ![w] = "load"]
      /\ issued' = issued \cup {write}
      /\ \/ file' = Put(Offset, lastWriteLen(w)) /\ UNCHANGED <<pending, failed>>
         \/ pending' = pending \cup {write} /\ UNCHANGED <<file, failed>>
         \/ failed' = failed \cup {write} /\ UNCHANGED <<file, pending>>
      /\ raced' = (raced \/ Adding # {})
      /\ UNCHANGED <<buffer, call, nCount, writenLen, astray, reused>>
  BY DEF WriteFile, Mine
<1>2. Filled' = Filled \ {w} /\ w \in Filled
  <2>1. Types /\ "load" # "write"
    BY DEF Fitting
  <2>2. Filled' = Filled \ {w}
    BY <1>1, <2>1, FilledAfter
  <2>3. QED
    BY <1>1, <2>2 DEF Filled
<1>3. write.at = Offset /\ write.piece = Mine(w) /\ write.piece.len = lastWriteLen(w)
  BY DEF Mine
<1>4. Offset \in Nat /\ lastWriteLen(w) \in Nat \ {0} /\ m_bOpened = "yes"
  BY <1>1, PieceLength, OffsetValues DEF Fitting, Types
<1> HIDE DEF write
<1>5. ASSUME ~ reused
      PROVE  /\ Filled' = {} /\ pending = {}
             /\ buffer = write.piece
  BY <1>2, <1>3, <1>5 DEF LogInv, BufferOK
<1>6. BufferOK'
  BY <1>1, <1>5 DEF BufferOK
<1>7. Logged'
  <2> SUFFICES ASSUME ~ astray', ~ raced', ~ reused', NEW a \in Done' PROVE InFile(a)'
    BY DEF Logged, Done, InFile
  <2>1. ~ astray /\ ~ raced /\ ~ reused /\ Adding = {} /\ IInv
    BY <1>1 DEF Fitting
  <2>2. \A b \in issued : b.at \in Nat /\ b.piece.len \in Nat /\ b.at + b.piece.len <= Offset
    BY <1>4, <2>1, OffsetValues DEF IInv, TilesOK, Tiles, Tile, Types
  <2>3. write \notin issued
    BY <1>3, <1>4, <2>2
  <2>4. \A b \in Done : InFile(b)
    BY <2>1 DEF LogInv, Logged
  <2>5. CASE file' = Put(Offset, lastWriteLen(w)) /\ UNCHANGED <<pending, failed>>
    <3>1. file' = Put(write.at, write.piece.len)
      BY <1>3, <2>5
    <3>2. /\ \A p \in Extent(write) \cap Positions :
               file'[p] = <<write.piece.call, write.piece.from + (p - write.at) + 1>>
          /\ \A p \in Positions : p \notin Extent(write) => file'[p] = file[p]
      BY <1>3, <1>4, <1>5, <2>1, <3>1, PutPiece
    <3>3. CASE a = write
      BY <3>2, <3>3 DEF InFile, Extent
    <3>4. CASE a # write
      <4>1. a \in Done
        BY <1>1, <2>5, <3>4 DEF Done
      <4>2. \A p \in Extent(a) : p \notin Extent(write)
        BY <1>3, <1>4, <2>2, <4>1 DEF Done, Extent
      <4>3. InFile(a)
        BY <2>4, <4>1
      <4>4. QED
        BY <3>2, <4>2, <4>3 DEF InFile, Extent
    <3>5. QED
      BY <3>3, <3>4
  <2>6. CASE \/ pending' = pending \cup {write} /\ UNCHANGED <<file, failed>>
             \/ failed' = failed \cup {write} /\ UNCHANGED <<file, pending>>
    <3>1. a \in Done /\ file' = file
      BY <1>1, <2>6 DEF Done
    <3>2. QED
      BY <2>4, <3>1 DEF InFile, Extent
  <2>7. QED
    BY <1>1, <2>5, <2>6
<1>8. QED
  BY <1>6, <1>7 DEF LogInv

LEMMA PerformLogs == ASSUME Fitting, LogInv, NEW a \in pending, Perform(a) PROVE LogInv'
<1>1. /\ file' = Put(a.at, a.piece.len) /\ pending' = pending \ {a}
      /\ UNCHANGED <<m_bOpened, buffer, issued, failed, pc, call, nCount, writenLen, astray,
                     raced, reused>>
  BY DEF Perform, local
<1>2. a \in issued /\ a.at \in Nat /\ a.piece.len \in Nat
  BY OffsetValues DEF Fitting, Types
<1>3. BufferOK'
  BY <1>1 DEF LogInv, BufferOK, Filled, Mine, lastWriteLen
<1>4. Logged'
  <2> SUFFICES ASSUME ~ astray', ~ raced', ~ reused', NEW b \in Done' PROVE InFile(b)'
    BY DEF Logged, Done, InFile
  <2>1. ~ astray /\ ~ raced /\ ~ reused /\ buffer = a.piece /\ IInv /\ m_bOpened = "yes"
    BY <1>1, <1>2 DEF LogInv, BufferOK, Fitting, IInv, BehindStart
  <2>2. /\ \A p \in Extent(a) \cap Positions :
             file'[p] = <<a.piece.call, a.piece.from + (p - a.at) + 1>>
        /\ \A p \in Positions : p \notin Extent(a) => file'[p] = file[p]
    BY <1>1, <1>2, <2>1, PutPiece
  <2>3. CASE b = a
    BY <2>2, <2>3 DEF InFile, Extent
  <2>4. CASE b # a
    <3>1. b \in Done /\ b \in issued
      BY <1>1, <2>4 DEF Done
    <3>2. Extent(a) \cap Extent(b) = {}
      BY <1>2, <2>1, <2>4, <3>1, TilesBelow
    <3>3. InFile(b)
      BY <2>1, <3>1 DEF LogInv, Logged
    <3>4. QED
      BY <2>2, <3>2, <3>3 DEF InFile, Extent
  <2>5. QED
    BY <2>3, <2>4
<1>5. QED
  BY <1>3, <1>4 DEF LogInv

LEMMA OtherLogs ==
  ASSUME Fitting, LogInv, NEW w \in Writers, TranceLog(w) \/ LoadOffset(w) \/ StoreOffset(w)
  PROVE  LogInv'
<1>1. pc[w] # "write" /\ w \notin Filled
  BY DEF TranceLog, LoadOffset, StoreOffset, Filled
<1>2. UNCHANGED <<buffer, file, writes, raced, reused>> /\ (~ astray' => ~ astray)
  <2>1. UNCHANGED <<buffer, file, writes, raced, reused>>
    BY DEF TranceLog, LoadOffset, StoreOffset, shared
  <2>2. ~ astray' => ~ astray
    BY StaysAstray DEF Next, Thread
  <2>3. QED
    BY <2>1, <2>2
<1>3. \E to \in {"fill", "store", "idle"} : pc' = [pc EXCEPT ![w] = to]
  BY DEF TranceLog, LoadOffset, StoreOffset
<1>4. Filled' = Filled
  <2>1. PICK to \in {"fill", "store", "idle"} : pc' = [pc EXCEPT ![w] = to]
    BY <1>3
  <2>2. Types /\ to # "write"
    BY <2>1 DEF Fitting
  <2>3. Filled' = Filled \ {w}
    BY <2>1, <2>2, FilledAfter
  <2>4. QED
    BY <1>1, <2>3
<1>5. \A v \in Writers \ {w} : /\ call'[v] = call[v] /\ nCount'[v] = nCount[v]
                               /\ writenLen'[v] = writenLen[v]
  BY DEF TranceLog, LoadOffset, StoreOffset, Fitting, Types
<1>6. QED
  BY <1>1, <1>2, <1>4, <1>5, QuietLogs DEF Filled

LEMMA LogStep == ASSUME Fitting, LogInv, [Next]_vars PROVE LogInv'
<1>1. CASE InitLog
  BY <1>1, QuietLogs DEF InitLog, local, Filled
<1>2. CASE UNCHANGED vars
  BY <1>2, QuietLogs DEF vars, shared, local, Filled
<1>3. QED
  BY <1>1, <1>2, FillLogs, WriteFileLogs, PerformLogs, OtherLogs DEF Next, Thread

(* Until two threads race on Offset, the buffer is refilled too early, or     *)
(* Offset does not fit, each write that was done has left just its piece in   *)
(* the file (CLog.cpp:95-111).                                                *)
THEOREM LoggedAsMeant == Spec => []AsLogged
<1>1. Spec => []LogInv
  BY LogInit, LogStep, Invariance, PTL DEF Spec
<1>2. ASSUME Fitting, BoundInv, LogInv PROVE AsLogged
  <2>1. ASSUME NEW a \in issued PROVE Extent(a) \subseteq Positions
    <3>1. /\ a.at \in Nat /\ a.at < OffsetMod
          /\ a.piece.len \in Nat /\ a.piece.len <= BufferSize
      BY <1>2, LogAssumption DEF Fitting, Types, BoundInv, PiecesOK, Piece, Offsets
    <3>2. QED
      BY <3>1, LogAssumption DEF Extent, Positions
  <2>2. QED
    BY <1>2, <2>1 DEF LogInv, Logged, Done, InFile, AsLogged
<1>3. QED
  BY <1>1, <1>2, Bounds, PTL
===============================================================================
