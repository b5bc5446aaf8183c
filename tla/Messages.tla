------------------------------ MODULE Messages ------------------------------
(* The messages of the game as the generated classes handle them: a message  *)
(* object is filled, cleared, exchanged and written, and what was written is *)
(* read into a fresh object, token by token. The tables of FishingClass,     *)
(* FishingAccess, FishingNew, FishingClear, FishingMerge, FishingParse,      *)
(* FishingWrite and FishingSize are each taken from its own function of each *)
(* class; FishingProto is the .proto file that all of them must agree with.  *)
(*                                                                           *)
(* A value is an integer; a string is its length. A token is a field on the  *)
(* wire: its number, wire type, value and bytes, where the value of a nested *)
(* message is its own tokens. Operators named ...Leaf are those for the      *)
(* messages that are nested in others and hold none themselves.              *)
EXTENDS Integers, Sequences, FiniteSets, SequencesExt

CONSTANTS
  Kinds,      \* the messages looked at
  MaxCalls,   \* bound: calls on the object before its bytes are read
  MaxList     \* bound: elements of a list

Proto == INSTANCE FishingProto
Class == INSTANCE FishingClass
Access == INSTANCE FishingAccess
New == INSTANCE FishingNew
Clears == INSTANCE FishingClear
Merges == INSTANCE FishingMerge
Parse == INSTANCE FishingParse
Write == INSTANCE FishingWrite
Size == INSTANCE FishingSize

VARIABLES
  kind,       \* the message's class
  obj, other, \* two objects of that class
  wire,       \* the tokens that were written
  cut,        \* whether the end of the last one is missing
  merged,     \* what was written, put together by MergeFrom
  frames,     \* the calls of MergePartialFromCodedStream, the innermost last
  into,       \* the object that was read
  outcome,    \* "idle", "reading", "ok" or "failed"
  calls       \* how many calls there were

vars == <<kind, obj, other, wire, cut, merged, frames, into, outcome, calls>>

-----------------------------------------------------------------------------
(* The rows of the tables. *)
Listed(rows, n) == \E i \in DOMAIN rows : rows[i][1] = n
Row(rows, n) == rows[CHOOSE i \in DOMAIN rows : rows[i][1] = n]
Numbers(k) == {Class!Table[k][i][1] : i \in DOMAIN Class!Table[k]}
Type(k, n) == Row(Class!Table[k], n)[2]
Bit(k, n) == Row(Access!Table[k], n)[2]
IsList(k, n) == Bit(k, n) = -1
Has(k, o, n) == Bit(k, n) \in o.has
Nested == {"FishCatchedInfo", "PlayerData", "SyncBulletData"}

(* if (_has_bits_[g / 32] & (0xffu << (g % 32))) *)
AnyBit(o, g) == g = -1 \/ o.has \cap (g..g + 7) # {}

Primitives == {"enum", "int32", "int64", "uint32", "bool", "double", "string"}
Scalar(k, n) == ~ IsList(k, n) /\ Type(k, n) \notin Nested

RequiredFields(k) ==
  {Proto!Table[k][i][1] : i \in {j \in DOMAIN Proto!Table[k] : Proto!Table[k][j][2] = "req"}}

Protos_Game60Fishing ==
  {6001, 6002, 6003, 6004, 6006, 6008, 6009, 6010, 6012, 6014} \cup (6016..6020)
    \cup {6022, 6024, 6025, 6026, 6027, 6028, 6030, 6031, 6032, 6034}

-----------------------------------------------------------------------------
(* set_has_...() and the value of the member.                                *)
Store(k, o, n, v) == [o EXCEPT !.has = @ \cup {Bit(k, n)}, !.val[n] = v]

(* RepeatedPtrField: elements that were cleared stay allocated and are used  *)
(* again by Add.                                                             *)
NoElements == [all |-> <<>>, size |-> 0]
Elements(list) == SubSeq(list.all, 1, list.size)

NewLeaf(k) ==
  [has |-> {}, val |-> [n \in Numbers(k) |-> Row(New!Table[k], n)[2]], unknown |-> <<>>]

New0(k) ==
  [has |-> {},
   val |-> [n \in Numbers(k) |->
              IF IsList(k, n) THEN NoElements
              ELSE IF Type(k, n) \in Nested THEN NewLeaf(Type(k, n))
              ELSE Row(New!Table[k], n)[2]],
   unknown |-> <<>>]

ClearWith(k, o, Sub(_, _, _)) ==
  LET Reset(n) ==
        LET row == Row(Clears!Table[k], n) IN
          IF /\ Listed(Clears!Table[k], n)
             /\ AnyBit(o, row[3])
             /\ row[4] => Has(k, o, n)
          THEN Sub(n, o.val[n], row[2]) ELSE o.val[n]
  IN  [has |-> {}, val |-> [n \in Numbers(k) |-> Reset(n)], unknown |-> <<>>]

ClearLeaf(k, o) == ClearWith(k, o, LAMBDA n, old, default : default)

(* Definitions marked "Mutant" are wrong on purpose: the run must fail when  *)
(* one replaces the definition it is named after.                            *)
(* Mutant of ClearList: the elements that stay allocated are not cleared. *)
ClearListShrinks(t, list) == [all |-> list.all, size |-> 0]

ClearList(t, list) ==
  [all |-> [i \in DOMAIN list.all |->
              IF i <= list.size THEN ClearLeaf(t, list.all[i]) ELSE list.all[i]],
   size |-> 0]

(* What Clear and clear_... do to one member. *)
Cleared(k, n, old, default) ==
  IF IsList(k, n) THEN ClearList(Type(k, n), old)
  ELSE IF Type(k, n) \in Nested THEN ClearLeaf(Type(k, n), old)
  ELSE default

(* clear_...() *)
ClearMember(k, o, n) ==
  [o EXCEPT !.has = @ \ {Bit(k, n)},
            !.val[n] = Cleared(k, n, @, Row(Access!Table[k], n)[3])]

Clear(k, o) == ClearWith(k, o, LAMBDA n, old, default : Cleared(k, n, old, default))

(* RepeatedPtrFieldBase::Add *)
Add(t, list) ==
  [all |-> IF list.size < Len(list.all) THEN list.all ELSE Append(list.all, NewLeaf(t)),
   size |-> list.size + 1]

(* The element that Add hands out, and add_...() with what it is made.       *)
Spare(t, list) == Add(t, list).all[list.size + 1]
AddElement(t, list, e) ==
  LET longer == Add(t, list) IN [longer EXCEPT !.all[longer.size] = e]

-----------------------------------------------------------------------------
(* MergeFrom: each member is taken over once.                                *)
MergeWith(k, to, from, Sub(_, _, _)) ==
  LET rows == Merges!Table[k].merged
      Taken(n) == /\ Listed(rows, n)
                  /\ AnyBit(from, Row(rows, n)[3])
                  /\ Row(rows, n)[2] = "append" \/ Has(k, from, n)
      Merge(n) == IF Row(rows, n)[2] = "set" THEN from.val[n]
                  ELSE Sub(n, to.val[n], from.val[n])
  IN  [has |-> to.has \cup {Bit(k, n) : n \in {m \in Numbers(k) :
                              Taken(m) /\ Row(rows, m)[2] # "append"}},
       val |-> [n \in Numbers(k) |-> IF Taken(n) THEN Merge(n) ELSE to.val[n]],
       unknown |-> to.unknown \o from.unknown]

MergeLeaf(k, to, from) == MergeWith(k, to, from, LAMBDA n, old, new : new)

(* RepeatedPtrField::MergeFrom: each element is merged into one that Add     *)
(* hands out.                                                                *)
MergeList(t, to, from) ==
  LET size == to.size + from.size
      Old(i) == IF i \in DOMAIN to.all THEN to.all[i] ELSE NewLeaf(t)
  IN  [all |-> [i \in DOMAIN to.all \cup 1 .. size |->
                  IF i \in to.size + 1 .. size
                  THEN MergeLeaf(t, Old(i), from.all[i - to.size]) ELSE to.all[i]],
       size |-> size]

MergeFrom(k, to, from) ==
  MergeWith(k, to, from,
            LAMBDA n, old, new : IF IsList(k, n) THEN MergeList(Type(k, n), old, new)
                                 ELSE MergeLeaf(Type(k, n), old, new))

IsInitializedLeaf(k, o) == Merges!Table[k].required \subseteq o.has

(* Mutant of IsInitialized: the elements of lists are not asked. *)
IsInitializedShallow(k, o) == Merges!Table[k].required \subseteq o.has

IsInitialized(k, o) ==
  /\ Merges!Table[k].required \subseteq o.has
  /\ \A n \in Merges!Table[k].nested : \A i \in 1..o.val[n].size :
       IsInitializedLeaf(Type(k, n), o.val[n].all[i])

(* Swap, for the object that gets the members of the other. *)
Swapped(k, o, with) ==
  [with EXCEPT !.val = [n \in Numbers(k) |->
     IF n \in Merges!Table[k].swapped THEN with.val[n] ELSE o.val[n]]]

-----------------------------------------------------------------------------
(* The sizes of values, and the bytes that are written for them. *)
VarintSize32(v) == 1 + Cardinality({i \in 1..4 : v >= 2 ^ (7 * i)})
VarintSizeSigned(v) == IF v < 0 THEN 10 ELSE VarintSize32(v)

(* Seven bits a byte, by division: 128 ^ 8 is beyond TLC's integers.         *)
VarintSize64(v) ==
  LET rest[i \in 0..8] == IF i = 0 THEN v ELSE rest[i - 1] \div 128
  IN  IF v < 0 THEN 10 ELSE 1 + Cardinality({i \in 1..8 : rest[i] # 0})

PrimitiveSize(t, v) ==
  CASE t \in {"enum", "int32"} -> VarintSizeSigned(v)
    [] t = "int64" -> VarintSize64(v)
    [] t = "uint32" -> IF v < 0 THEN 5 ELSE VarintSize32(v)
    [] t \in {"bool", "fixed1"} -> 1
    [] t \in {"double", "fixed8"} -> 8
    [] t = "string" -> VarintSize32(v) + v

Total(sizes) == FoldLeft(LAMBDA a, b : a + b, 0, sizes)
TotalSize(tokens) == Total([i \in DOMAIN tokens |-> tokens[i].size])

ByteSizeWith(k, o, SizeOf(_, _)) ==
  LET rows == Size!Table[k]
      One(row) ==
        LET n == row[1]
            elements == IF IsList(k, n) THEN Elements(o.val[n])
                        ELSE IF Has(k, o, n) THEN <<o.val[n]>> ELSE <<>>
        IN  IF AnyBit(o, row[4])
            THEN Total([j \in DOMAIN elements |-> row[2] + SizeOf(row[3], elements[j])])
            ELSE 0
  IN  Total([i \in DOMAIN rows |-> One(rows[i])]) + TotalSize(o.unknown)

ByteSizeLeaf(k, o) == ByteSizeWith(k, o, PrimitiveSize)

(* Mutant of SizeOfValue: the length in front of a nested message is left out. *)
SizeOfValueBare(t, v) ==
  IF t \in Nested THEN ByteSizeLeaf(t, v) ELSE PrimitiveSize(t, v)

SizeOfValue(t, v) ==
  IF t \in Nested THEN VarintSize32(ByteSizeLeaf(t, v)) + ByteSizeLeaf(t, v)
  ELSE PrimitiveSize(t, v)

ByteSize(k, o) == ByteSizeWith(k, o, SizeOfValue)

WireType(t) ==
  CASE t \in {"enum", "int32", "int64", "uint32", "bool"} -> 0
    [] t = "double" -> 1
    [] OTHER -> 2

MakeTag(n, w) == n * 8 + w

PrimitiveToken(n, t, v) ==
  [num |-> n, wire |-> WireType(t), val |-> v,
   size |-> VarintSize32(MakeTag(n, WireType(t))) + PrimitiveSize(t, v)]

SerializeWith(k, o, Token(_, _, _)) ==
  LET rows == Write!Table[k]
      One(row) ==
        LET n == row[1] IN
        IF IsList(k, n) THEN [i \in 1..o.val[n].size |-> Token(n, row[2], o.val[n].all[i])]
        ELSE IF Has(k, o, n) THEN <<Token(n, row[2], o.val[n])>> ELSE <<>>
  IN  FlattenSeq([i \in DOMAIN rows |-> One(rows[i])]) \o o.unknown

TokenOf(n, t, v) ==
  IF t \in Nested
  THEN LET in == SerializeWith(t, v, PrimitiveToken) IN
         [num |-> n, wire |-> 2, val |-> in,
          size |-> VarintSize32(MakeTag(n, 2)) + VarintSize32(ByteSizeLeaf(t, v))
                     + TotalSize(in)]
  ELSE PrimitiveToken(n, t, v)

(* Mutant of Serialize: the elements that a list keeps for later are written. *)
SerializeSpares(k, o) ==
  SerializeWith(k, [o EXCEPT !.val = [n \in Numbers(k) |->
                      IF IsList(k, n) THEN [o.val[n] EXCEPT !.size = Len(o.val[n].all)]
                      ELSE o.val[n]]], TokenOf)

Serialize(k, o) == SerializeWith(k, o, TokenOf)

-----------------------------------------------------------------------------
(* What the tables of different functions of a class say alike, as far as the *)
(* theorems need it: the has-bits are the fields' own, a nested message holds *)
(* no other, clear_ and Clear give the values of SharedCtor under masks that  *)
(* match, MergeFrom takes over all members as their types want it, Swap       *)
(* leaves out none, ByteSize counts the fields that are written, and these    *)
(* and the cases of the parser are those of the .proto file.                  *)
IsValue(t, v) == v \in Int /\ (t = "enum" => v \in Protos_Game60Fishing)

Covers(rows, k) ==
  /\ {rows[i][1] : i \in DOMAIN rows} = Numbers(k)
  /\ \A i, j \in DOMAIN rows : rows[i][1] = rows[j][1] => i = j

Guards(k, n, mask) ==
  mask # -1 => ~ IsList(k, n) /\ mask \in Nat /\ Bit(k, n) \in mask .. mask + 7

HasBitsAgree(k, n) ==
  /\ n \in Nat \ {0}
  /\ Type(k, n) \in Primitives \cup Nested
  /\ Bit(k, n) \in Nat \cup {-1}
  /\ \A m \in Numbers(k) \ {n} : IsList(k, n) \/ Bit(k, m) # Bit(k, n)
  /\ IsList(k, n) => Type(k, n) \in Nested
  /\ k \in Nested => Scalar(k, n)

ClearAgrees(k, n) ==
  LET row == Row(Clears!Table[k], n)
      default == Row(New!Table[k], n)[2]
  IN  /\ Listed(Clears!Table[k], n)
      /\ Guards(k, n, row[3]) /\ (IsList(k, n) => ~ row[4])
      /\ Scalar(k, n) =>
           /\ row[2] = default /\ Row(Access!Table[k], n)[3] = default
           /\ IsValue(Type(k, n), default) /\ (Type(k, n) = "string" => default = 0)

MergeAgrees(k, n) ==
  LET row == Row(Merges!Table[k].merged, n) IN
  /\ n \in Merges!Table[k].swapped
  /\ Listed(Merges!Table[k].merged, n)
  /\ Guards(k, n, row[3])
  /\ row[2] \in {"append", "set", "merge"}
  /\ row[2] = "append" <=> IsList(k, n)
  /\ row[2] = "set" <=> Scalar(k, n)

RequiredAgree(k) ==
  /\ Merges!Table[k].required = {Bit(k, n) : n \in RequiredFields(k)}
  /\ \A n \in Numbers(k) : IsList(k, n) =>
       n \in Merges!Table[k].nested \/ RequiredFields(Type(k, n)) = {}
  /\ \A n \in Merges!Table[k].nested : n \in Numbers(k) /\ IsList(k, n)

ProtoAgrees(k) ==
  LET rows == Proto!Table[k] IN
  /\ rows \in Seq(Nat \X {"opt", "req", "rep"} \X (Primitives \cup Nested))
  /\ Covers(rows, k)
  /\ \A i \in DOMAIN rows : /\ rows[i][3] = Type(k, rows[i][1])
                            /\ rows[i][2] = "rep" <=> IsList(k, rows[i][1])

WriteAgrees(k) ==
  LET rows == Write!Table[k] IN
  /\ rows \in Seq(Nat \X (Primitives \cup Nested))
  /\ Covers(rows, k)
  /\ \A i \in DOMAIN rows : rows[i][2] = Type(k, rows[i][1])

SizeAgrees(k) ==
  LET rows == Size!Table[k] IN
  /\ DOMAIN rows = DOMAIN Write!Table[k]
  /\ \A i \in DOMAIN rows :
       LET n == Write!Table[k][i][1]
           t == Write!Table[k][i][2]
       IN  /\ rows[i][1] = n
           /\ rows[i][2] = VarintSize32(MakeTag(n, WireType(t)))
           /\ \/ rows[i][3] = t
              \/ <<rows[i][3], t>> \in {<<"fixed1", "bool">>, <<"fixed8", "double">>}
           /\ Guards(k, n, rows[i][4])

ParseAgrees(k) ==
  LET rows == Parse!Table[k] IN
  /\ Covers(rows, k)
  /\ \A i \in DOMAIN rows :
       /\ rows[i][2] = Type(k, rows[i][1])
       /\ rows[i][4] # 0 => rows[i][4] \in Numbers(k)
                            /\ rows[i][3] = MakeTag(rows[i][4], WireType(Type(k, rows[i][4])))

(* The number of the field that only peers with another .proto file write.   *)
StrangeNumber == 100

ASSUME MessagesAssumption ==
  /\ MaxCalls \in Nat /\ MaxList \in Nat
  /\ \A k \in Kinds \cup Nested :
       /\ RequiredAgree(k) /\ ProtoAgrees(k) /\ WriteAgrees(k) /\ SizeAgrees(k)
       /\ ParseAgrees(k)
       /\ StrangeNumber \notin Numbers(k)
       /\ \A n \in Numbers(k) : HasBitsAgree(k, n) /\ ClearAgrees(k, n) /\ MergeAgrees(k, n)

-----------------------------------------------------------------------------
(* The values that are tried: at least one that is not the default, and the  *)
(* ends of what its bytes can be.                                            *)
Values(t) ==
  CASE t = "enum" -> {6034}
    [] t = "int32" -> {-1}
    [] t = "int64" -> {0, -1}
    [] t = "uint32" -> {0, 300}
    [] t \in {"bool", "double"} -> {0, 1}
    [] t = "string" -> {0, 130}

FullLeaf(k) ==
  [has |-> {Bit(k, n) : n \in Numbers(k)},
   val |-> [n \in Numbers(k) |-> CHOOSE v \in Values(Type(k, n)) : v # 0],
   unknown |-> <<>>]

Inputs(t) == IF t \in Nested THEN {NewLeaf(t), FullLeaf(t)} ELSE Values(t)

(* set_...(v), mutable_...() or add_...() with the new value of the field. *)
Put(k, o, n, v) ==
  IF IsList(k, n)
  THEN [o EXCEPT !.val[n] =
          AddElement(Type(k, n), @, MergeLeaf(Type(k, n), Spare(Type(k, n), @), v))]
  ELSE Store(k, o, n, IF Type(k, n) \in Nested THEN MergeLeaf(Type(k, n), o.val[n], v)
                      ELSE v)

FullObject(k) ==
  LET full(t) == IF t \in Nested THEN FullLeaf(t) ELSE CHOOSE v \in Values(t) : v # 0
      put(n) == Put(k, New0(k), n, full(Type(k, n)))
  IN  [has |-> UNION {put(n).has : n \in Numbers(k)},
       val |-> [n \in Numbers(k) |-> put(n).val[n]],
       unknown |-> <<>>]

Init ==
  /\ kind \in Kinds
  /\ obj \in {New0(kind), FullObject(kind)}
  /\ other = New0(kind)
  /\ wire = <<>>
  /\ cut = FALSE
  /\ merged = New0(kind)
  /\ frames = <<>>
  /\ into = New0(kind)
  /\ outcome = "idle"
  /\ calls = 0

Calling == outcome = "idle" /\ calls < MaxCalls /\ calls' = calls + 1

Unread == UNCHANGED <<frames, into, outcome>>

SetField ==
  /\ Calling
  /\ \E n \in Numbers(kind) : \E v \in Inputs(Type(kind, n)) :
       /\ IsList(kind, n) => obj.val[n].size < MaxList
       /\ obj' = Put(kind, obj, n, v)
  /\ UNCHANGED <<kind, other, wire, cut, merged>> /\ Unread

ClearField ==
  /\ Calling
  /\ \E n \in Numbers(kind) : obj' = ClearMember(kind, obj, n)
  /\ UNCHANGED <<kind, other, wire, cut, merged>> /\ Unread

ClearObject ==
  /\ Calling
  /\ obj' = Clear(kind, obj)
  /\ UNCHANGED <<kind, other, wire, cut, merged>> /\ Unread

Swap ==
  /\ Calling
  /\ obj' = Swapped(kind, obj, other)
  /\ other' = Swapped(kind, other, obj)
  /\ UNCHANGED <<kind, wire, cut, merged>> /\ Unread

(* SerializeToArray, behind what was written before. *)
SerializeTo ==
  /\ Calling
  /\ ~ cut
  /\ wire' = wire \o Serialize(kind, obj)
  /\ merged' = MergeFrom(kind, merged, obj)
  /\ UNCHANGED <<kind, obj, other, cut>> /\ Unread

(* A peer with another .proto file writes a field that this one does not     *)
(* know, a value of the enum that it does not know, or another wire type.    *)
Strange ==
  {[num |-> StrangeNumber, wire |-> 0, val |-> 1, size |-> 3],
   [num |-> 2, wire |-> 5, val |-> 1, size |-> 5]}
    \cup IF Type(kind, 1) = "enum" THEN {[num |-> 1, wire |-> 0, val |-> 9999, size |-> 3]}
         ELSE {}

StrangeField ==
  /\ Calling
  /\ ~ cut
  /\ \E token \in Strange :
       /\ wire' = Append(wire, token)
       /\ merged' = [merged EXCEPT !.unknown = Append(@, token)]
  /\ UNCHANGED <<kind, obj, other, cut>> /\ Unread

(* The bytes end before the last field does. *)
CutOff ==
  /\ Calling
  /\ wire # <<>>
  /\ ~ cut
  /\ cut' = TRUE
  /\ UNCHANGED <<kind, obj, other, wire, merged>> /\ Unread

-----------------------------------------------------------------------------
(* MergePartialFromCodedStream. A frame is one call: the class, the object   *)
(* that is filled, the tokens up to the limit, the case that is entered      *)
(* because its tag was expected (0 at the top of the loop) and the field of  *)
(* the caller that it fills.                                                 *)
Frame(k, o, in, field) == [k |-> k, o |-> o, in |-> in, case |-> 0, field |-> field]

BeginReading ==
  /\ outcome = "idle"
  /\ outcome' = "reading"
  /\ frames' = <<Frame(kind, New0(kind), wire, 0)>>
  /\ UNCHANGED <<kind, obj, other, wire, cut, merged, into, calls>>

Running == frames[Len(frames)]
Rows == Parse!Table[Running.k]

(* The case of the switch that the next token comes to. *)
Case(i) ==
  /\ Running.in # <<>>
  /\ IF Running.case # 0 THEN Rows[i][1] = Running.case
     ELSE /\ Rows[i][1] = Head(Running.in).num
          /\ WireType(Rows[i][2]) = Head(Running.in).wire

(* Not all bytes of the next token are there; the nested message that is     *)
(* being read is not all there, and its last token is short, if it has any.  *)
Short == cut /\ \A i \in DOMAIN frames : Len(frames[i].in) = 1
CutNested == cut /\ Len(frames) = 2 /\ Len(frames[1].in) = 1

(* if (input->ExpectTag(...)) goto parse_...; at the end of a case. *)
Then(f, i, rows) ==
  LET rest == Tail(f.in) IN
    [f EXCEPT !.in = rest,
              !.case = IF /\ rest # <<>>
                          /\ MakeTag(Head(rest).num, Head(rest).wire) = rows[i][3]
                       THEN rows[i][4] ELSE 0]

WithTop(f) == [frames EXCEPT ![Len(frames)] = f]

(* Mutant of AddUnknown: a value of the enum that is not known is lost. *)
AddUnknownSkips(f, token) ==
  IF token.wire = 0 /\ token.num # StrangeNumber THEN f
  ELSE [f EXCEPT !.o.unknown = Append(@, token)]

AddUnknown(f, token) == [f EXCEPT !.o.unknown = Append(@, token)]

(* ReadPrimitive or ReadString, and set_has_...() *)
ReadField(i) ==
  LET token == Head(Running.in)
      n == Rows[i][1]
      f == IF Rows[i][2] = "enum" /\ token.val \notin Protos_Game60Fishing
           THEN AddUnknown(Running, token)
           ELSE [Running EXCEPT !.o = Store(Running.k, @, n, token.val)]
  IN  /\ Case(i) /\ ~ Short
      /\ Rows[i][2] \notin Nested
      /\ frames' = WithTop(Then(f, i, Rows))
      /\ UNCHANGED <<into, outcome>>

(* ReadMessageNoVirtual into mutable_...() or add_...(): a call of its own,  *)
(* limited to the nested tokens. It fills an element that Add has returned.  *)
(* Of a nested message that is cut short some of the tokens are there.       *)
ReadNested(i) ==
  LET n == Rows[i][1]
      t == Rows[i][2]
      old == Running.o.val[n]
      o == IF ~ IsList(Running.k, n) THEN old
           ELSE Spare(t, old)
  IN  /\ Case(i)
      /\ t \in Nested
      /\ \E last \in 0 .. Len(Head(Running.in).val) :
           /\ Short \/ last = Len(Head(Running.in).val)
           /\ frames' = Append(WithTop([Running EXCEPT !.case = n]),
                               Frame(t, o, SubSeq(Head(Running.in).val, 1, last), n))
      /\ UNCHANGED <<into, outcome>>

(* default: handle_uninterpreted: SkipField *)
SkipField ==
  /\ Running.in # <<>> /\ ~ Short
  /\ \A i \in DOMAIN Rows : ~ Case(i)
  /\ frames' = WithTop([AddUnknown(Running, Head(Running.in))
                          EXCEPT !.in = Tail(@), !.case = 0])
  /\ UNCHANGED <<into, outcome>>

(* The bytes end inside the next token, or before the first of a nested      *)
(* message.                                                                  *)
CutShort ==
  \/ Running.in = <<>> /\ CutNested
  \/ /\ Running.in # <<>> /\ Short
     /\ ~ \E i \in DOMAIN Rows : Case(i) /\ Rows[i][2] \in Nested

(* The parts of a string that are tried where its end is missing.            *)
Parts(length) == {0, length \div 2}

(* What the call leaves in the object: mutable_...() has set the has-bit of a *)
(* string before its length, and maybe a part of it, is read.                *)
Remains ==
  {Running.o} \cup
    UNION {LET n == Rows[i][1] IN
             {Store(Running.k, Running.o, n, v) :
                v \in {Running.o.val[n]} \cup Parts(Head(Running.in).val)} :
           i \in {j \in DOMAIN Rows : Case(j) /\ Rows[j][2] = "string"}}

(* The caller's object, with the nested one that was read in it. *)
Filled(o) ==
  LET caller == frames[Len(frames) - 1]
      n == Running.field
  IN  IF IsList(caller.k, n)
      THEN [caller.o EXCEPT !.val[n] = AddElement(Running.k, @, o)]
      ELSE Store(caller.k, caller.o, n, o)

(* ReadTag returns 0 or ExpectAtEnd holds: the call returns true. *)
Return ==
  /\ Running.in = <<>> /\ ~ CutNested
  /\ IF Len(frames) = 1
     THEN into' = Running.o /\ outcome' = "ok" /\ frames' = <<>>
     ELSE LET caller == frames[Len(frames) - 1]
              rows == Parse!Table[caller.k]
              i == CHOOSE j \in DOMAIN rows : rows[j][1] = Running.field
          IN  /\ frames' = Append(SubSeq(frames, 1, Len(frames) - 2),
                                  Then([caller EXCEPT !.o = Filled(Running.o)], i, rows))
              /\ UNCHANGED <<into, outcome>>

(* Mutant of ReturnFalse: the calls are not left.                            *)
ReturnFalseGoesOn ==
  /\ CutShort
  /\ into' \in {IF CutNested THEN Filled(o) ELSE o : o \in Remains}
  /\ outcome' = "failed"
  /\ UNCHANGED frames

(* DO_ of each call: what was read so far stays in the object. *)
ReturnFalse ==
  /\ CutShort
  /\ into' \in {IF CutNested THEN Filled(o) ELSE o : o \in Remains}
  /\ outcome' = "failed"
  /\ frames' = <<>>

ReadStep ==
  /\ outcome = "reading"
  /\ \/ \E i \in DOMAIN Rows : ReadField(i) \/ ReadNested(i)
     \/ SkipField \/ Return \/ ReturnFalse
  /\ UNCHANGED <<kind, obj, other, wire, cut, merged, calls>>

Next ==
  \/ SetField \/ ClearField \/ ClearObject \/ Swap
  \/ SerializeTo \/ StrangeField \/ CutOff
  \/ BeginReading \/ ReadStep

Spec == Init /\ [][Next]_vars

-----------------------------------------------------------------------------
(* What the .proto file says that tokens mean: of a field that is not        *)
(* repeated the last value counts, nested messages are put together, and     *)
(* what does not fit is kept apart, in order.                                *)
Fits(row, token) ==
  /\ token.num = row[1] /\ token.wire = WireType(row[3])
  /\ row[3] = "enum" => token.val \in Protos_Game60Fishing

FitsNone(k, token) == \A i \in DOMAIN Proto!Table[k] : ~ Fits(Proto!Table[k][i], token)

Fitting(row, tokens) ==
  FlattenSeq([j \in DOMAIN tokens |->
                IF Fits(row, tokens[j]) THEN <<tokens[j]>> ELSE <<>>])

FittingNone(k, tokens) ==
  FlattenSeq([j \in DOMAIN tokens |->
                IF FitsNone(k, tokens[j]) THEN <<tokens[j]>> ELSE <<>>])

MeaningWith(k, tokens, Sub(_, _)) ==
  [fields |-> [i \in DOMAIN Proto!Table[k] |->
     LET row == Proto!Table[k][i]
         mine == Fitting(row, tokens)
     IN  IF row[2] = "rep" THEN [j \in DOMAIN mine |-> Sub(row[3], <<mine[j]>>)]
         ELSE IF mine = <<>> THEN <<>> ELSE <<Sub(row[3], mine)>>],
   unknown |-> FittingNone(k, tokens)]

LastValue(t, mine) == mine[Len(mine)].val
MeaningLeaf(k, tokens) == MeaningWith(k, tokens, LastValue)
Meaning(k, tokens) ==
  MeaningWith(k, tokens,
    LAMBDA t, mine : IF t \in Nested
                     THEN MeaningLeaf(t, FlattenSeq([j \in DOMAIN mine |-> mine[j].val]))
                     ELSE LastValue(t, mine))

(* What the accessors say that an object holds. *)
HeldWith(k, o, Sub(_, _)) ==
  [fields |-> [i \in DOMAIN Proto!Table[k] |->
     LET n == Proto!Table[k][i][1] IN
       IF IsList(k, n) THEN [j \in 1..o.val[n].size |-> Sub(Type(k, n), o.val[n].all[j])]
       ELSE IF Has(k, o, n) THEN <<Sub(Type(k, n), o.val[n])>> ELSE <<>>],
   unknown |-> o.unknown]

HeldLeaf(k, o) == HeldWith(k, o, LAMBDA t, v : v)
Held(k, o) == HeldWith(k, o, LAMBDA t, v : IF t \in Nested THEN HeldLeaf(t, v) ELSE v)

(* A nested object, and a field, that nobody has set since it was made.      *)
FreshLeaf(k, o) ==
  \A n \in Numbers(k) : ~ Has(k, o, n) => o.val[n] = NewLeaf(k).val[n]

FreshWhereUnset(k, o) ==
  \A n \in Numbers(k) :
    LET t == Type(k, n) IN
    IF IsList(k, n)
    THEN \A i \in DOMAIN o.val[n].all :
           IF i > o.val[n].size THEN o.val[n].all[i] = NewLeaf(t)
           ELSE FreshLeaf(t, o.val[n].all[i])
    ELSE IF t \in Nested
    THEN IF Has(k, o, n) THEN FreshLeaf(t, o.val[n]) ELSE o.val[n] = NewLeaf(t)
    ELSE Has(k, o, n) \/ o.val[n] = New0(k).val[n]

Objects == {obj, other, merged, into} \cup {frames[i].o : i \in {j \in DOMAIN frames : j = 1}}

TypeOK ==
  /\ kind \in Kinds
  /\ \A o \in Objects :
       /\ o.has \subseteq {Bit(kind, n) : n \in Numbers(kind)} \ {-1}
       /\ DOMAIN o.val = Numbers(kind)
  /\ outcome \in {"idle", "reading", "ok", "failed"}
  /\ outcome = "reading" <=> frames # <<>>
  /\ Len(frames) <= 2
  /\ calls \in 0..MaxCalls

(* What is written means, by the .proto file, what the accessors say         *)
(* (SerializeWithCachedSizes of each message).                               *)
WrittenAsDeclared == Meaning(kind, Serialize(kind, obj)) = Held(kind, obj)

(* ByteSize is the number of bytes that are written, with values of any sign *)
(* and unknown fields: NetService sends ByteSize() bytes behind the header   *)
(* (NetService.cpp:288-292 and 320-324).                                     *)
SizeIsExact == ByteSize(kind, merged) = TotalSize(Serialize(kind, merged))

(* A reader gets what the .proto file says that the bytes mean, in whatever  *)
(* order the fields come and along whichever jumps of                        *)
(* MergePartialFromCodedStream; it is what MergeFrom makes of the objects    *)
(* that were written. Only bytes that are cut off are refused, and they      *)
(* always are: the object then holds what came before the cut, with a part   *)
(* of a string or a nested message that was cut (DO_ of each message).       *)
Leftover(t, token) ==
  {<<>>} \cup IF t # "string" THEN {}
             ELSE {<<[token EXCEPT !.val = part]>> : part \in Parts(token.val)}

TypeOf(k, token) ==
  IF token.num \in Numbers(k) /\ WireType(Type(k, token.num)) = token.wire
  THEN Type(k, token.num) ELSE "unknown"

LeftoverOf(token) ==
  LET t == TypeOf(kind, token) IN
  IF t \notin Nested THEN Leftover(t, token)
  ELSE {<<[token EXCEPT !.val = <<>>]>>} \cup
         UNION {{<<[token EXCEPT !.val = SubSeq(@, 1, n - 1) \o part]>> :
                   part \in Leftover(TypeOf(t, token.val[n]), token.val[n])} :
                n \in DOMAIN token.val}

ReadAsDeclared ==
  /\ outcome = "ok" => /\ ~ cut
                       /\ Held(kind, into) = Meaning(kind, wire)
                       /\ Held(kind, into) = Held(kind, merged)
  /\ outcome = "failed" =>
       /\ cut
       /\ \E part \in LeftoverOf(Last(wire)) :
            Held(kind, into) = Meaning(kind, Front(wire) \o part)

(* IsInitialized holds just when every field that the .proto file requires   *)
(* is there, in the nested messages of a list, too.                          *)
CompleteLeaf(k, o) == \A n \in RequiredFields(k) : Has(k, o, n)

InitializedIfComplete ==
  IsInitialized(kind, obj) <=>
    /\ \A n \in RequiredFields(kind) : Has(kind, obj, n)
    /\ \A n \in Numbers(kind) : IsList(kind, n) =>
         \A i \in 1..obj.val[n].size : CompleteLeaf(Type(kind, n), obj.val[n].all[i])

(* A field that is not set has its default value, and an element that a list *)
(* keeps for later is empty, however the object was used before (Clear skips *)
(* eight fields at a time by their has-bits, and Add hands out old elements: *)
(* repeated_field.h:671-695).                                                *)
NothingStale == \A o \in Objects : FreshWhereUnset(kind, o)
=============================================================================
