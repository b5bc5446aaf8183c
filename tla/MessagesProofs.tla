--------------------------- MODULE MessagesProofs ---------------------------
(* Proofs about Messages, for any of the messages, any number of calls, lists *)
(* of any length and bytes of any kind. However an object was filled,         *)
(* cleared, exchanged, merged and read, what is not set in it is as if it     *)
(* were new (IInv); what is written has the size that was announced and       *)
(* means what the object holds (WrittenObjects); what is read is what the     *)
(* bytes mean (WhatIsRead).                                                   *)
EXTENDS Messages, SequenceTheorems, FiniteSetTheorems, TLAPS

Bits(k) == {Bit(k, n) : n \in Numbers(k)} \ {-1}

(* An object of the class k, whatever its members are.                        *)
Object(k, o) ==
  /\ o = [has |-> o.has, val |-> o.val, unknown |-> o.unknown]
  /\ o.has \subseteq Bits(k)
  /\ o.val = [n \in Numbers(k) |-> o.val[n]]

(* A nested object, and a list of them: behind its size the list has only     *)
(* elements that are like new.                                                *)
GoodLeaf(k, o) == Object(k, o) /\ FreshLeaf(k, o)

GoodList(t, list) ==
  /\ list = [all |-> list.all, size |-> list.size]
  /\ \E m \in Nat : list.size \in 0 .. m /\ list.all = [i \in 1 .. m |-> list.all[i]]
  /\ \A i \in DOMAIN list.all :
       IF i > list.size THEN list.all[i] = NewLeaf(t) ELSE GoodLeaf(t, list.all[i])

(* A member of an object, that was set or not.                                *)
GoodMember(k, n, v, set) ==
  IF IsList(k, n) THEN GoodList(Type(k, n), v)
  ELSE IF Type(k, n) \in Nested
  THEN GoodLeaf(Type(k, n), v) /\ (set \/ v = NewLeaf(Type(k, n)))
  ELSE set \/ v = Row(New!Table[k], n)[2]

GoodObject(k, o) ==
  Object(k, o) /\ \A n \in Numbers(k) : GoodMember(k, n, o.val[n], Has(k, o, n))

Classes == Kinds \cup Nested
-----------------------------------------------------------------------------
(* Facts about the tables.                                                    *)
LEMMA TablesAgree ==
  ASSUME NEW k \in Classes, NEW n \in Numbers(k)
  PROVE  HasBitsAgree(k, n) /\ ClearAgrees(k, n) /\ MergeAgrees(k, n)
BY MessagesAssumption DEF Classes

LEMMA BitIsOwn ==
  ASSUME NEW k \in Classes, NEW n \in Numbers(k), ~ IsList(k, n)
  PROVE  /\ Bit(k, n) \in Bits(k) /\ Bit(k, n) \in Nat
         /\ \A m \in Numbers(k) \ {n} : Bit(k, m) # Bit(k, n)
<1>1. HasBitsAgree(k, n) /\ Bit(k, n) # -1
  BY TablesAgree DEF IsList
<1>2. \A m \in Numbers(k) \ {n} : Bit(k, m) # Bit(k, n)
  BY <1>1 DEF HasBitsAgree, IsList
<1>3. QED
  BY <1>1, <1>2 DEF HasBitsAgree, Bits

LEMMA LeafHasScalars ==
  ASSUME NEW t \in Nested, NEW n \in Numbers(t)
  PROVE  t \in Classes /\ Scalar(t, n)
BY TablesAgree DEF Classes, HasBitsAgree

(* A field that is set is never skipped by the mask that guards it.           *)
LEMMA GuardIs ==
  ASSUME NEW k, NEW n, NEW mask, Guards(k, n, mask), NEW o, IsList(k, n) \/ Has(k, o, n)
  PROVE  AnyBit(o, mask)
BY DEF Guards, AnyBit, Has

LEMMA NewLeafIsGood ==
  ASSUME NEW t \in Nested PROVE GoodLeaf(t, NewLeaf(t))
BY DEF GoodLeaf, Object, FreshLeaf, NewLeaf, Bits

LEMMA ClearLeafIsNew ==
  ASSUME NEW t \in Nested, NEW o, GoodLeaf(t, o)
  PROVE  ClearLeaf(t, o) = NewLeaf(t)
<1>1. ASSUME NEW n \in Numbers(t)
      PROVE  ClearLeaf(t, o).val[n] = NewLeaf(t).val[n]
  <2> DEFINE row == Row(Clears!Table[t], n)
  <2>1. Scalar(t, n) /\ ClearAgrees(t, n) /\ HasBitsAgree(t, n)
    BY LeafHasScalars, TablesAgree
  <2>2. NewLeaf(t).val[n] = Row(New!Table[t], n)[2]
    BY DEF NewLeaf
  <2>3. CASE AnyBit(o, row[3]) /\ (row[4] => Has(t, o, n))
    BY <2>1, <2>2, <2>3 DEF ClearLeaf, ClearWith, ClearAgrees
  <2>4. CASE ~ (AnyBit(o, row[3]) /\ (row[4] => Has(t, o, n)))
    <3>1. ~ Has(t, o, n)
      BY <2>1, <2>4, GuardIs DEF ClearAgrees
    <3>2. o.val[n] = NewLeaf(t).val[n]
      BY <3>1 DEF GoodLeaf, FreshLeaf
    <3>3. QED
      BY <2>4, <3>2 DEF ClearLeaf, ClearWith
  <2>5. QED
    BY <2>3, <2>4
<1>2. QED
  BY <1>1 DEF ClearLeaf, ClearWith, NewLeaf

(* What MergeFrom takes over of a leaf was set, and is set afterwards.        *)
LEMMA MergeLeafIsGood ==
  ASSUME NEW t \in Nested, NEW to, NEW from, GoodLeaf(t, to), GoodLeaf(t, from)
  PROVE  GoodLeaf(t, MergeLeaf(t, to, from))
<1> DEFINE rows == Merges!Table[t].merged
           o == MergeLeaf(t, to, from)
<1>1. /\ o = [has |-> o.has, val |-> o.val, unknown |-> o.unknown]
      /\ o.val = [n \in Numbers(t) |-> o.val[n]]
      /\ to.has \subseteq o.has
  BY DEF MergeLeaf, MergeWith
<1>2. o.has \subseteq Bits(t)
  <2>1. \A n \in Numbers(t) : Bit(t, n) \in Bits(t)
    BY LeafHasScalars, BitIsOwn DEF Scalar
  <2>2. QED
    BY <2>1 DEF MergeLeaf, MergeWith, GoodLeaf, Object
<1>3. ASSUME NEW n \in Numbers(t), ~ Has(t, o, n)
      PROVE  o.val[n] = NewLeaf(t).val[n]
  <2>1. Scalar(t, n) /\ MergeAgrees(t, n)
    BY LeafHasScalars, TablesAgree
  <2>2. ~ Has(t, to, n)
    BY <1>1, <1>3 DEF Has
  <2>3. to.val[n] = NewLeaf(t).val[n]
    BY <2>2 DEF GoodLeaf, FreshLeaf
  <2>4. Listed(rows, n) => Row(rows, n)[2] # "append"
    BY <2>1 DEF MergeAgrees, Scalar
  <2>5. ~ (Listed(rows, n) /\ AnyBit(from, Row(rows, n)[3]) /\ Has(t, from, n))
    BY <1>3, <2>4 DEF MergeLeaf, MergeWith, Has
  <2>6. o.val[n] = to.val[n]
    BY <2>4, <2>5 DEF MergeLeaf, MergeWith
  <2>7. QED
    BY <2>3, <2>6
<1>4. QED
  BY <1>1, <1>2, <1>3 DEF GoodLeaf, Object, FreshLeaf
-----------------------------------------------------------------------------
(* Lists.                                                                     *)
LEMMA NoElementsIsGood == \A t : GoodList(t, NoElements)
<1>1. NoElements.size \in 0 .. 0 /\ NoElements.all = [i \in 1 .. 0 |-> NoElements.all[i]]
  BY DEF NoElements
<1>2. DOMAIN NoElements.all = {}
  BY <1>1
<1>3. QED
  BY <1>1, <1>2 DEF GoodList, NoElements

LEMMA ClearListIsGood ==
  ASSUME NEW t \in Nested, NEW list, GoodList(t, list)
  PROVE  GoodList(t, ClearList(t, list))
<1> DEFINE cleared == ClearList(t, list)
<1>1. PICK m \in Nat : list.size \in 0 .. m /\ list.all = [i \in 1 .. m |-> list.all[i]]
  BY DEF GoodList
<1>2. /\ cleared = [all |-> cleared.all, size |-> 0]
      /\ cleared.all = [i \in 1 .. m |-> cleared.all[i]]
  BY <1>1 DEF ClearList
<1>3. ASSUME NEW i \in 1 .. m PROVE cleared.all[i] = NewLeaf(t)
  <2>1. CASE i <= list.size
    <3>1. GoodLeaf(t, list.all[i])
      BY <1>1, <2>1 DEF GoodList
    <3>2. QED
      BY <1>1, <2>1, <3>1, ClearLeafIsNew DEF ClearList
  <2>2. CASE ~ i <= list.size
    BY <1>1, <2>2 DEF ClearList, GoodList
  <2>3. QED
    BY <2>1, <2>2
<1>4. QED
  BY <1>2, <1>3 DEF GoodList

(* Add hands out an element that is like new (repeated_field.h:671-695).      *)
LEMMA SpareIsNew ==
  ASSUME NEW t \in Nested, NEW list, GoodList(t, list)
  PROVE  Spare(t, list) = NewLeaf(t)
<1>1. PICK m \in Nat : list.size \in 0 .. m /\ list.all = [i \in 1 .. m |-> list.all[i]]
  BY DEF GoodList
<1>2. Len(list.all) = m
  BY <1>1
<1>3. CASE list.size < m
  BY <1>1, <1>2, <1>3 DEF Spare, Add, GoodList
<1>4. CASE list.size = m
  BY <1>1, <1>2, <1>4 DEF Spare, Add
<1>5. QED
  BY <1>1, <1>3, <1>4

LEMMA ExceptIs ==
  ASSUME NEW S, NEW f, f = [i \in S |-> f[i]], NEW x, NEW v
  PROVE  [f EXCEPT ![x] = v] = [i \in S |-> IF i = x THEN v ELSE f[i]]
OBVIOUS

LEMMA AppendIs ==
  ASSUME NEW m \in Nat, NEW f, f = [i \in 1 .. m |-> f[i]], NEW v
  PROVE  Append(f, v) = [i \in 1 .. m + 1 |-> IF i = m + 1 THEN v ELSE f[i]]
<1> DEFINE S == {f[i] : i \in 1 .. m} \cup {v}
<1>1. f \in [1 .. m -> S]
  OBVIOUS
<1> HIDE DEF S
<1>2. f \in Seq(S) /\ Len(f) = m
  BY <1>1
<1>3. v \in S
  BY DEF S
<1>4. /\ Append(f, v) \in Seq(S) /\ Len(Append(f, v)) = m + 1
      /\ \A i \in 1 .. m + 1 : Append(f, v)[i] = IF i = m + 1 THEN v ELSE f[i]
  BY <1>2, <1>3
<1>5. QED
  BY <1>4

(* The list with one element more, in place of one that was kept or behind    *)
(* all of them.                                                               *)
Grows(list, e, longer) ==
  \E m \in Nat : \E r \in {m, m + 1} :
    /\ list.size \in 0 .. m /\ list.all = [i \in 1 .. m |-> list.all[i]]
    /\ list.size + 1 \in 1 .. r /\ (r = m + 1 => list.size = m)
    /\ longer = [all |-> [i \in 1 .. r |-> IF i = list.size + 1 THEN e ELSE list.all[i]],
                 size |-> list.size + 1]

LEMMA AddElementIs ==
  ASSUME NEW t, NEW list, GoodList(t, list), NEW e
  PROVE  Grows(list, e, AddElement(t, list, e))
<1> DEFINE longer == AddElement(t, list, e)
           grown == Add(t, list)
<1>1. PICK m \in Nat : list.size \in 0 .. m /\ list.all = [i \in 1 .. m |-> list.all[i]]
  BY DEF GoodList
<1>2. Len(list.all) = m
  BY <1>1
<1>3. grown = [all |-> grown.all, size |-> list.size + 1]
  BY DEF Add
<1>4. longer = [grown EXCEPT !.all[grown.size] = e]
  BY DEF AddElement
<1> HIDE DEF longer, grown
<1>5. /\ longer = [all |-> longer.all, size |-> list.size + 1]
      /\ longer.all = [grown.all EXCEPT ![list.size + 1] = e]
  BY <1>3, <1>4
<1> DEFINE Grown(r) ==
             /\ r \in {m, m + 1} /\ list.size + 1 \in 1 .. r /\ (r = m + 1 => list.size = m)
             /\ longer.all = [i \in 1 .. r |-> IF i = list.size + 1 THEN e ELSE list.all[i]]
<1>6. Grown(m) \/ Grown(m + 1)
  <2>1. CASE list.size < m
    <3>1. grown.all = list.all
      BY <1>2, <2>1 DEF Add, grown
    <3>2. [list.all EXCEPT ![list.size + 1] = e]
              = [i \in 1 .. m |-> IF i = list.size + 1 THEN e ELSE list.all[i]]
      BY <1>1, ExceptIs, Zenon
    <3>3. Grown(m)
      BY <1>1, <1>5, <2>1, <3>1, <3>2
    <3>4. QED
      BY <3>3
  <2>2. CASE list.size = m
    <3>1. grown.all = [i \in 1 .. m + 1 |-> IF i = m + 1 THEN NewLeaf(t) ELSE list.all[i]]
      <4>1. grown.all = Append(list.all, NewLeaf(t))
        BY <1>2, <2>2 DEF Add, grown
      <4>2. Append(list.all, NewLeaf(t))
              = [i \in 1 .. m + 1 |-> IF i = m + 1 THEN NewLeaf(t) ELSE list.all[i]]
        BY <1>1, AppendIs
      <4>3. QED
        BY <4>1, <4>2
    <3>2. longer.all = [i \in 1 .. m + 1 |-> IF i = m + 1 THEN e ELSE list.all[i]]
      BY <1>5, <2>2, <3>1
    <3>3. list.size + 1 \in 1 .. m + 1
      BY <2>2
    <3>4. longer.all = [i \in 1 .. m + 1 |-> IF i = list.size + 1 THEN e ELSE list.all[i]]
      BY <2>2, <3>2
    <3>5. Grown(m + 1)
      BY <2>2, <3>3, <3>4
    <3>6. QED
      BY <3>5
  <2> HIDE DEF Grown
  <2>3. QED
    BY <1>1, <2>1, <2>2
<1>7. ASSUME NEW r, Grown(r)
      PROVE  /\ r \in {m, m + 1} /\ list.size + 1 \in 1 .. r /\ (r = m + 1 => list.size = m)
             /\ longer = [all |-> [i \in 1 .. r |-> IF i = list.size + 1 THEN e ELSE list.all[i]],
                          size |-> list.size + 1]
  BY <1>5, <1>7
<1> HIDE DEF Grown
<1>8. QED
  BY <1>1, <1>6, <1>7 DEF longer, Grows

LEMMA AddElementIsGood ==
  ASSUME NEW t \in Nested, NEW list, GoodList(t, list), NEW e, GoodLeaf(t, e)
  PROVE  GoodList(t, AddElement(t, list, e))
<1> DEFINE longer == AddElement(t, list, e)
<1>1. Grows(list, e, longer)
  BY AddElementIs
<1> HIDE DEF longer
<1>2. PICK m \in Nat : \E r \in {m, m + 1} :
        /\ list.size \in 0 .. m /\ list.all = [i \in 1 .. m |-> list.all[i]]
        /\ list.size + 1 \in 1 .. r /\ (r = m + 1 => list.size = m)
        /\ longer = [all |-> [i \in 1 .. r |-> IF i = list.size + 1 THEN e ELSE list.all[i]],
                     size |-> list.size + 1]
  BY <1>1 DEF Grows
<1>3. PICK r \in {m, m + 1} :
        /\ list.size \in 0 .. m /\ list.all = [i \in 1 .. m |-> list.all[i]]
        /\ list.size + 1 \in 1 .. r /\ (r = m + 1 => list.size = m)
        /\ longer = [all |-> [i \in 1 .. r |-> IF i = list.size + 1 THEN e ELSE list.all[i]],
                     size |-> list.size + 1]
  BY <1>2
<1>4. /\ longer.size = list.size + 1 /\ DOMAIN longer.all = 1 .. r /\ r \in Nat
      /\ \A i \in 1 .. r : longer.all[i] = IF i = list.size + 1 THEN e ELSE list.all[i]
  BY <1>3
<1>5. ASSUME NEW i \in 1 .. r
      PROVE  IF i > longer.size THEN longer.all[i] = NewLeaf(t)
             ELSE GoodLeaf(t, longer.all[i])
  <2>1. CASE i = list.size + 1
    BY <1>3, <1>4, <2>1
  <2>2. CASE i # list.size + 1
    <3>1. i \in DOMAIN list.all /\ longer.all[i] = list.all[i]
      BY <1>3, <1>4, <2>2
    <3>2. i > longer.size <=> i > list.size
      BY <1>3, <1>4, <2>2
    <3>3. QED
      BY <3>1, <3>2 DEF GoodList
  <2>3. QED
    BY <2>1, <2>2
<1>6. /\ \E l \in Nat : longer.size \in 0 .. l /\ longer.all = [i \in 1 .. l |-> longer.all[i]]
      /\ longer = [all |-> longer.all, size |-> longer.size]
  BY <1>3, <1>4
<1>7. QED
  BY <1>4, <1>5, <1>6 DEF GoodList, longer

LEMMA MergeListIsGood ==
  ASSUME NEW t \in Nested, NEW to, NEW from, GoodList(t, to), GoodList(t, from)
  PROVE  GoodList(t, MergeList(t, to, from))
<1> DEFINE list == MergeList(t, to, from)
           size == to.size + from.size
<1>1. PICK m \in Nat : to.size \in 0 .. m /\ to.all = [i \in 1 .. m |-> to.all[i]]
  BY DEF GoodList
<1>2. PICK l \in Nat : from.size \in 0 .. l /\ from.all = [i \in 1 .. l |-> from.all[i]]
  BY DEF GoodList
<1>3. size \in Nat
  BY <1>1, <1>2
<1>4. PICK r \in Nat : 1 .. m \cup 1 .. size = 1 .. r /\ size \in 0 .. r /\ r \in {m, size}
  <2>1. CASE m <= size
    BY <1>3, <2>1
  <2>2. CASE size <= m
    BY <1>3, <2>2
  <2>3. QED
    BY <1>3, <2>1, <2>2
<1>5. /\ list = [all |-> list.all, size |-> size]
      /\ DOMAIN list.all = 1 .. r
      /\ list.all = [i \in 1 .. r |-> list.all[i]]
  BY <1>1, <1>4 DEF MergeList
<1>6. ASSUME NEW i \in 1 .. r
      PROVE  IF i > size THEN list.all[i] = NewLeaf(t) ELSE GoodLeaf(t, list.all[i])
  <2>1. CASE i \in to.size + 1 .. size
    <3> DEFINE old == IF i \in 1 .. m THEN to.all[i] ELSE NewLeaf(t)
    <3>1. list.all[i] = MergeLeaf(t, old, from.all[i - to.size])
      BY <1>1, <1>4, <2>1 DEF MergeList
    <3>2. old = NewLeaf(t)
      BY <1>1, <2>1 DEF GoodList
    <3>3. i - to.size \in 1 .. l /\ i - to.size <= from.size
      BY <1>1, <1>2, <2>1
    <3>4. GoodLeaf(t, from.all[i - to.size])
      BY <1>2, <3>3 DEF GoodList
    <3>5. ~ i > size
      BY <1>3, <2>1
    <3>6. QED
      BY <3>1, <3>2, <3>4, <3>5, NewLeafIsGood, MergeLeafIsGood
  <2>2. CASE i \notin to.size + 1 .. size
    <3>1. list.all[i] = to.all[i]
      BY <1>1, <1>4, <2>2 DEF MergeList
    <3>2. i \in 1 .. m
      BY <1>1, <1>2, <1>4, <2>2
    <3>3. CASE i > size
      BY <1>1, <1>2, <3>1, <3>2, <3>3 DEF GoodList
    <3>4. CASE ~ i > size
      BY <1>1, <1>2, <2>2, <3>1, <3>2, <3>4 DEF GoodList
    <3>5. QED
      BY <3>3, <3>4
  <2>3. QED
    BY <2>1, <2>2
<1>7. QED
  BY <1>4, <1>5, <1>6 DEF GoodList
-----------------------------------------------------------------------------
(* Objects.                                                                   *)
LEMMA NewIsGood ==
  ASSUME NEW k \in Classes PROVE GoodObject(k, New0(k))
<1>1. Object(k, New0(k)) /\ New0(k).has = {}
  BY DEF Object, New0, Bits
<1>2. ASSUME NEW n \in Numbers(k)
      PROVE  GoodMember(k, n, New0(k).val[n], Has(k, New0(k), n))
  BY NewLeafIsGood, NoElementsIsGood DEF New0, GoodMember
<1>3. QED
  BY <1>1, <1>2 DEF GoodObject

LEMMA ClearedIsGood ==
  ASSUME NEW k \in Classes, NEW n \in Numbers(k), NEW v, NEW set, GoodMember(k, n, v, set)
  PROVE  GoodMember(k, n, Cleared(k, n, v, Row(New!Table[k], n)[2]), FALSE)
<1>1. CASE IsList(k, n)
  <2>1. Type(k, n) \in Nested
    BY <1>1, TablesAgree DEF HasBitsAgree
  <2>2. QED
    BY <1>1, <2>1, ClearListIsGood DEF GoodMember, Cleared
<1>2. CASE ~ IsList(k, n) /\ Type(k, n) \in Nested
  BY <1>2, ClearLeafIsNew, NewLeafIsGood DEF GoodMember, Cleared
<1>3. CASE Scalar(k, n)
  BY <1>3 DEF GoodMember, Cleared, Scalar
<1>4. QED
  BY <1>1, <1>2, <1>3 DEF Scalar

(* A member that Clear passes over, by its mask or its has-bit, was not set.  *)
LEMMA ClearIsGood ==
  ASSUME NEW k \in Classes, NEW o, GoodObject(k, o)
  PROVE  GoodObject(k, Clear(k, o))
<1> DEFINE c == Clear(k, o)
<1>1. Object(k, c) /\ c.has = {}
  BY DEF Object, Clear, ClearWith, Bits
<1>2. ASSUME NEW n \in Numbers(k)
      PROVE  GoodMember(k, n, c.val[n], FALSE)
  <2> DEFINE row == Row(Clears!Table[k], n)
  <2>1. ClearAgrees(k, n) /\ HasBitsAgree(k, n)
    BY TablesAgree
  <2>2. GoodMember(k, n, o.val[n], Has(k, o, n))
    BY DEF GoodObject
  <2>3. CASE AnyBit(o, row[3]) /\ (row[4] => Has(k, o, n))
    <3>1. c.val[n] = Cleared(k, n, o.val[n], row[2])
      BY <2>1, <2>3 DEF Clear, ClearWith, ClearAgrees
    <3>2. Cleared(k, n, o.val[n], row[2]) = Cleared(k, n, o.val[n], Row(New!Table[k], n)[2])
      BY <2>1 DEF Cleared, ClearAgrees, Scalar
    <3>3. QED
      BY <2>2, <3>1, <3>2, ClearedIsGood
  <2>4. CASE ~ (AnyBit(o, row[3]) /\ (row[4] => Has(k, o, n)))
    <3>1. ~ IsList(k, n) /\ ~ Has(k, o, n)
      BY <2>1, <2>4, GuardIs DEF ClearAgrees
    <3>2. c.val[n] = o.val[n]
      BY <2>4 DEF Clear, ClearWith
    <3>3. QED
      BY <2>2, <3>1, <3>2 DEF GoodMember
  <2>5. QED
    BY <2>3, <2>4
<1>3. \A n \in Numbers(k) : ~ Has(k, c, n)
  BY <1>1 DEF Has
<1>4. QED
  BY <1>1, <1>2, <1>3 DEF GoodObject, GoodMember

(* A change of the has-bit and the value of one member leaves the others.     *)
With(k, o, has, n, v) ==
  [has |-> has, val |-> [m \in Numbers(k) |-> IF m = n THEN v ELSE o.val[m]],
   unknown |-> o.unknown]

LEMMA WithIs ==
  ASSUME NEW k, NEW o, Object(k, o), NEW n \in Numbers(k), NEW v,
         NEW has, has \subseteq Bits(k)
  PROVE  LET p == With(k, o, has, n, v) IN
         /\ Object(k, p) /\ p.has = has /\ p.val[n] = v
         /\ \A m \in Numbers(k) \ {n} : p.val[m] = o.val[m]
BY DEF With, Object

Changed(o, has, n, v) == [o EXCEPT !.has = has, !.val[n] = v]

LEMMA ChangedIsWith ==
  ASSUME NEW k, NEW o, Object(k, o), NEW n, NEW v, NEW has
  PROVE  Changed(o, has, n, v) = With(k, o, has, n, v)
<1> DEFINE a == [o EXCEPT !.has = has]
           p == [a EXCEPT !.val = [a.val EXCEPT ![n] = v]]
           val == [o.val EXCEPT ![n] = v]
<1>1. a = [has |-> has, val |-> o.val, unknown |-> o.unknown]
  BY DEF Object
<1>2. val = [m \in Numbers(k) |-> IF m = n THEN v ELSE o.val[m]]
  BY ExceptIs, Zenon DEF Object
<1>3. Changed(o, has, n, v) = p
  BY DEF Changed
<1> HIDE DEF a
<1>4. a.val = o.val
  BY <1>1
<1>5. p = [a EXCEPT !.val = val]
  BY <1>4
<1> HIDE DEF val, p
<1>6. p = [has |-> has, val |-> val, unknown |-> o.unknown]
  BY <1>1, <1>5
<1>7. QED
  BY <1>2, <1>3, <1>6 DEF With

LEMMA OneMember ==
  ASSUME NEW k \in Classes, NEW o, GoodObject(k, o), NEW n \in Numbers(k), NEW p,
         Object(k, p), \A m \in Numbers(k) \ {n} : p.val[m] = o.val[m],
         p.has \in {o.has, o.has \cup {Bit(k, n)}, o.has \ {Bit(k, n)}},
         GoodMember(k, n, p.val[n], Has(k, p, n))
  PROVE  GoodObject(k, p)
<1>1. ASSUME NEW m \in Numbers(k) \ {n}
      PROVE  GoodMember(k, m, p.val[m], Has(k, p, m))
  <2>1. GoodMember(k, m, o.val[m], Has(k, o, m))
    BY DEF GoodObject
  <2>2. CASE IsList(k, m)
    BY <2>1, <2>2 DEF GoodMember
  <2>3. CASE ~ IsList(k, m)
    <3>1. Bit(k, n) # Bit(k, m)
      BY <2>3, BitIsOwn
    <3>2. Has(k, p, m) <=> Has(k, o, m)
      BY <3>1 DEF Has
    <3>3. QED
      BY <2>1, <3>2 DEF GoodMember
  <2>4. QED
    BY <2>2, <2>3
<1>2. QED
  BY <1>1 DEF GoodObject

LEMMA StoreIsGood ==
  ASSUME NEW k \in Classes, NEW o, GoodObject(k, o), NEW n \in Numbers(k), NEW v,
         ~ IsList(k, n), Type(k, n) \in Nested => GoodLeaf(Type(k, n), v)
  PROVE  GoodObject(k, Store(k, o, n, v)) /\ Has(k, Store(k, o, n, v), n)
<1> DEFINE has == o.has \cup {Bit(k, n)}
           p == Store(k, o, n, v)
<1>1. Object(k, o)
  BY DEF GoodObject
<1>2. p = With(k, o, has, n, v)
  <2>1. p = Changed(o, has, n, v)
    BY DEF Store, Changed
  <2>2. QED
    BY <1>1, <2>1, ChangedIsWith
<1>3. has \subseteq Bits(k)
  BY <1>1, BitIsOwn DEF Object
<1> HIDE DEF p, has
<1>4. /\ Object(k, p) /\ p.has = has /\ p.val[n] = v
      /\ \A m \in Numbers(k) \ {n} : p.val[m] = o.val[m]
  BY <1>1, <1>2, <1>3, WithIs
<1>5. Has(k, p, n)
  BY <1>4 DEF Has, has
<1>6. GoodMember(k, n, p.val[n], Has(k, p, n))
  BY <1>4, <1>5 DEF GoodMember
<1>7. GoodObject(k, p)
  BY <1>4, <1>6, OneMember DEF has
<1>8. QED
  BY <1>5, <1>7 DEF p

LEMMA ClearMemberIsGood ==
  ASSUME NEW k \in Classes, NEW o, GoodObject(k, o), NEW n \in Numbers(k)
  PROVE  GoodObject(k, ClearMember(k, o, n))
<1> DEFINE v == Cleared(k, n, o.val[n], Row(Access!Table[k], n)[3])
           has == o.has \ {Bit(k, n)}
           p == ClearMember(k, o, n)
<1>1. Object(k, o) /\ GoodMember(k, n, o.val[n], Has(k, o, n))
  BY DEF GoodObject
<1>2. p = With(k, o, has, n, v)
  <2>1. [o EXCEPT !.has = has].val = o.val
    BY <1>1 DEF Object
  <2>2. p = Changed(o, has, n, v)
    BY <2>1 DEF ClearMember, Changed
  <2> HIDE DEF p, v, has
  <2>3. QED
    BY <1>1, <2>2, ChangedIsWith
<1>3. v = Cleared(k, n, o.val[n], Row(New!Table[k], n)[2])
  BY TablesAgree DEF Cleared, ClearAgrees, Scalar
<1>4. GoodMember(k, n, v, FALSE)
  BY <1>1, <1>3, ClearedIsGood
<1>5. has \subseteq Bits(k)
  BY <1>1 DEF Object
<1> HIDE DEF p, has, v
<1>6. /\ Object(k, p) /\ p.has = has /\ p.val[n] = v
      /\ \A m \in Numbers(k) \ {n} : p.val[m] = o.val[m]
  BY <1>1, <1>2, <1>5, WithIs
<1>7. ~ Has(k, p, n)
  BY <1>6 DEF Has, has
<1>8. GoodMember(k, n, p.val[n], Has(k, p, n))
  BY <1>4, <1>6, <1>7 DEF GoodMember
<1>9. GoodObject(k, p)
  BY <1>6, <1>8, OneMember DEF has
<1>10. QED
  BY <1>9 DEF p

(* set_...(), mutable_...() and add_...(): what is put into a nested object   *)
(* is merged into it.                                                         *)
LEMMA PutIsGood ==
  ASSUME NEW k \in Classes, NEW o, GoodObject(k, o), NEW n \in Numbers(k), NEW v,
         Type(k, n) \in Nested => GoodLeaf(Type(k, n), v)
  PROVE  /\ GoodObject(k, Put(k, o, n, v))
         /\ ~ IsList(k, n) => Has(k, Put(k, o, n, v), n)
<1> DEFINE p == Put(k, o, n, v)
           t == Type(k, n)
<1>0. Object(k, o) /\ GoodMember(k, n, o.val[n], Has(k, o, n))
  BY DEF GoodObject
<1>1. CASE IsList(k, n)
  <2> DEFINE e == MergeLeaf(t, Spare(t, o.val[n]), v)
  <2>1. t \in Nested /\ GoodList(t, o.val[n])
    BY <1>0, <1>1, TablesAgree DEF HasBitsAgree, GoodMember
  <2>2. GoodLeaf(t, e)
    BY <2>1, SpareIsNew, NewLeafIsGood, MergeLeafIsGood
  <2> HIDE DEF e
  <2>3. p = [o EXCEPT !.val[n] = AddElement(t, @, e)]
    BY <1>1 DEF Put, e
  <2>4. GoodList(t, AddElement(t, o.val[n], e))
    BY <2>1, <2>2, AddElementIsGood
  <2>5. /\ Object(k, p) /\ p.has = o.has /\ p.val[n] = AddElement(t, o.val[n], e)
        /\ \A m \in Numbers(k) \ {n} : p.val[m] = o.val[m]
    BY <1>0, <2>3 DEF Object
  <2>6. GoodMember(k, n, p.val[n], Has(k, p, n))
    BY <1>1, <2>4, <2>5 DEF GoodMember
  <2> HIDE DEF p
  <2>7. GoodObject(k, p)
    BY <2>5, <2>6, OneMember
  <2>8. QED
    BY <1>1, <2>7 DEF p
<1>2. CASE ~ IsList(k, n)
  <2> DEFINE new == IF t \in Nested THEN MergeLeaf(t, o.val[n], v) ELSE v
  <2>1. t \in Nested => GoodLeaf(t, new)
    BY <1>0, <1>2, MergeLeafIsGood DEF GoodMember
  <2>2. p = Store(k, o, n, new)
    BY <1>2 DEF Put
  <2> HIDE DEF new
  <2>3. QED
    BY <1>2, <2>1, <2>2, StoreIsGood
<1>3. QED
  BY <1>1, <1>2

(* MergeFrom takes over what was set, and sets it.                            *)
LEMMA MergeFromIsGood ==
  ASSUME NEW k \in Classes, NEW to, NEW from, GoodObject(k, to), GoodObject(k, from)
  PROVE  GoodObject(k, MergeFrom(k, to, from))
<1> DEFINE o == MergeFrom(k, to, from)
           rows == Merges!Table[k].merged
           how(n) == Row(rows, n)[2]
           taken(n) == /\ Listed(rows, n) /\ AnyBit(from, Row(rows, n)[3])
                       /\ how(n) = "append" \/ Has(k, from, n)
<1>1. /\ o = [has |-> o.has, val |-> o.val, unknown |-> o.unknown]
      /\ o.val = [n \in Numbers(k) |-> o.val[n]]
      /\ o.has = to.has \cup {Bit(k, n) : n \in {m \in Numbers(k) :
                                   taken(m) /\ how(m) # "append"}}
  BY DEF MergeFrom, MergeWith
<1>2. \A n \in Numbers(k) :
        ~ taken(n) => o.val[n] = to.val[n]
  BY DEF MergeFrom, MergeWith
<1>3. \A n \in Numbers(k) : taken(n) =>
        o.val[n] = IF how(n) = "set" THEN from.val[n]
                   ELSE IF IsList(k, n) THEN MergeList(Type(k, n), to.val[n], from.val[n])
                   ELSE MergeLeaf(Type(k, n), to.val[n], from.val[n])
  BY DEF MergeFrom, MergeWith
<1>4. \A n \in Numbers(k) : Listed(rows, n) =>
        /\ how(n) = "append" <=> IsList(k, n)
        /\ how(n) = "set" <=> Scalar(k, n)
  BY TablesAgree DEF MergeAgrees
<1>5. \A n \in Numbers(k) :
        /\ GoodMember(k, n, to.val[n], Has(k, to, n))
        /\ GoodMember(k, n, from.val[n], Has(k, from, n))
  BY DEF GoodObject
<1>6. \A n \in Numbers(k) : taken(n) => Listed(rows, n)
  OBVIOUS
<1>7. to.has \subseteq Bits(k)
  BY DEF GoodObject, Object
<1> HIDE DEF o, taken, how, rows
<1>8. Object(k, o)
  <2>1. ASSUME NEW n \in Numbers(k), taken(n), how(n) # "append" PROVE Bit(k, n) \in Bits(k)
    BY <1>4, <1>6, <2>1, BitIsOwn
  <2>2. o.has \subseteq Bits(k)
    BY <1>1, <1>7, <2>1
  <2>3. QED
    BY <1>1, <2>2 DEF Object
<1>9. ASSUME NEW n \in Numbers(k)
      PROVE  GoodMember(k, n, o.val[n], Has(k, o, n))
  <2>0. Has(k, to, n) => Has(k, o, n)
    BY <1>1 DEF Has
  <2>1. CASE ~ taken(n)
    BY <1>2, <1>5, <2>0, <2>1 DEF GoodMember
  <2>2. CASE taken(n) /\ IsList(k, n)
    <3>1. Type(k, n) \in Nested /\ how(n) # "set"
      BY <1>4, <1>6, <2>2, TablesAgree DEF HasBitsAgree, Scalar
    <3>2. o.val[n] = MergeList(Type(k, n), to.val[n], from.val[n])
      BY <1>3, <2>2, <3>1
    <3>3. QED
      BY <1>5, <2>2, <3>1, <3>2, MergeListIsGood DEF GoodMember
  <2>3. CASE taken(n) /\ ~ IsList(k, n)
    <3>1. how(n) # "append"
      BY <1>4, <1>6, <2>3
    <3>2. Has(k, o, n)
      BY <1>1, <2>3, <3>1 DEF Has
    <3>3. CASE Scalar(k, n)
      BY <3>2, <3>3 DEF GoodMember, Scalar
    <3>4. CASE ~ Scalar(k, n)
      <4>1. Type(k, n) \in Nested
        BY <2>3, <3>4 DEF Scalar
      <4>2. o.val[n] = MergeLeaf(Type(k, n), to.val[n], from.val[n])
        BY <1>3, <1>4, <1>6, <2>3, <3>4
      <4>3. GoodLeaf(Type(k, n), o.val[n])
        BY <1>5, <2>3, <4>1, <4>2, MergeLeafIsGood DEF GoodMember
      <4>4. QED
        BY <2>3, <3>2, <4>1, <4>3 DEF GoodMember
    <3>5. QED
      BY <3>3, <3>4
  <2>4. QED
    BY <2>1, <2>2, <2>3
<1>10. GoodObject(k, o)
  BY <1>8, <1>9 DEF GoodObject
<1>11. QED
  BY <1>10 DEF o

LEMMA SwappedIsGood ==
  ASSUME NEW k \in Classes, NEW o, NEW with, GoodObject(k, o), GoodObject(k, with)
  PROVE  GoodObject(k, Swapped(k, o, with))
<1>1. \A n \in Numbers(k) : n \in Merges!Table[k].swapped
  BY TablesAgree DEF MergeAgrees
<1>2. Swapped(k, o, with) = [with EXCEPT !.val = [n \in Numbers(k) |-> with.val[n]]]
  BY <1>1 DEF Swapped
<1>3. Swapped(k, o, with) = with
  BY <1>2 DEF GoodObject, Object
<1>4. QED
  BY <1>3

(* Whatever the unknown fields are.                                           *)
LEMMA UnknownDoesNotMatter ==
  ASSUME NEW k, NEW o, GoodObject(k, o), NEW u
  PROVE  GoodObject(k, [o EXCEPT !.unknown = u])
<1> DEFINE p == [o EXCEPT !.unknown = u]
<1>1. p = [has |-> o.has, val |-> o.val, unknown |-> u]
  BY DEF GoodObject, Object
<1> HIDE DEF p
<1>2. p.has = o.has /\ p.val = o.val /\ p.unknown = u
  BY <1>1
<1>3. GoodObject(k, p)
  BY <1>1, <1>2 DEF GoodObject, Object, Has
<1>4. QED
  BY <1>3 DEF p

(* The values that are tried.                                                 *)
LEMMA InputsAreGood ==
  ASSUME NEW t \in Nested, NEW v \in Inputs(t) PROVE GoodLeaf(t, v)
<1>1. CASE v = NewLeaf(t)
  BY <1>1, NewLeafIsGood
<1>2. CASE v = FullLeaf(t)
  <2>1. \A n \in Numbers(t) : Bit(t, n) \in Bits(t)
    BY LeafHasScalars, BitIsOwn DEF Scalar
  <2>2. QED
    BY <1>2, <2>1 DEF GoodLeaf, Object, FreshLeaf, FullLeaf, Has
<1>3. QED
  BY <1>1, <1>2 DEF Inputs

LEMMA FullIsGood ==
  ASSUME NEW k \in Classes PROVE GoodObject(k, FullObject(k))
<1> DEFINE full(t) == IF t \in Nested THEN FullLeaf(t) ELSE CHOOSE v \in Values(t) : v # 0
           put(n) == Put(k, New0(k), n, full(Type(k, n)))
           o == FullObject(k)
<1>1. \A n \in Numbers(k) : Type(k, n) \in Nested => GoodLeaf(Type(k, n), full(Type(k, n)))
  BY InputsAreGood DEF Inputs
<1> HIDE DEF full
<1>2. \A n \in Numbers(k) : GoodObject(k, put(n)) /\ (~ IsList(k, n) => Has(k, put(n), n))
  BY <1>1, NewIsGood, PutIsGood
<1>3. o = [has |-> UNION {put(n).has : n \in Numbers(k)},
           val |-> [n \in Numbers(k) |-> put(n).val[n]], unknown |-> <<>>]
  BY DEF FullObject, full
<1> HIDE DEF put, o
<1>4. Object(k, o)
  <2>1. \A n \in Numbers(k) : put(n).has \subseteq Bits(k)
    BY <1>2 DEF GoodObject, Object
  <2>2. o.has \subseteq Bits(k)
    BY <1>3, <2>1
  <2>3. QED
    BY <1>3, <2>2 DEF Object
<1>5. ASSUME NEW n \in Numbers(k)
      PROVE  GoodMember(k, n, o.val[n], Has(k, o, n))
  <2>1. o.val[n] = put(n).val[n] /\ (~ IsList(k, n) => Has(k, o, n))
    BY <1>2, <1>3 DEF Has
  <2>2. GoodMember(k, n, put(n).val[n], Has(k, put(n), n))
    BY <1>2 DEF GoodObject
  <2>3. QED
    BY <2>1, <2>2 DEF GoodMember
<1>6. GoodObject(k, o)
  BY <1>4, <1>5 DEF GoodObject
<1>7. QED
  BY <1>6 DEF o
-----------------------------------------------------------------------------
(* Reading. At most one call of MergePartialFromCodedStream is inside another *)
(* one, and it fills a nested object of the message.                          *)
FrameOK(f) ==
  /\ f = [k |-> f.k, o |-> f.o, in |-> f.in, case |-> f.case, field |-> f.field]
  /\ f.k \in Classes /\ GoodObject(f.k, f.o)

FramesOK ==
  /\ \/ frames = <<>>
     \/ frames = <<frames[1]>>
     \/ /\ frames = <<frames[1], frames[2]>>
        /\ frames[2].field \in Numbers(kind)
        /\ frames[2].k = Type(kind, frames[2].field)
        /\ frames[2].k \in Nested
  /\ frames # <<>> => frames[1].k = kind
  /\ \A i \in DOMAIN frames : FrameOK(frames[i])

IInv ==
  /\ kind \in Kinds
  /\ \A o \in {obj, other, merged, into} : GoodObject(kind, o)
  /\ FramesOK
  /\ outcome \in {"idle", "reading", "ok", "failed"}
  /\ outcome = "reading" <=> frames # <<>>
  /\ calls \in 0 .. MaxCalls

LEMMA LeafIsObject ==
  ASSUME NEW t \in Nested, NEW o
  PROVE  GoodObject(t, o) <=> GoodLeaf(t, o)
<1>1. \A n \in Numbers(t) : Scalar(t, n)
  BY LeafHasScalars
<1>2. \A n \in Numbers(t) : GoodMember(t, n, o.val[n], Has(t, o, n))
                              <=> (Has(t, o, n) \/ o.val[n] = Row(New!Table[t], n)[2])
  BY <1>1 DEF GoodMember, Scalar
<1>3. \A n \in Numbers(t) : NewLeaf(t).val[n] = Row(New!Table[t], n)[2]
  BY DEF NewLeaf
<1>4. QED
  BY <1>2, <1>3 DEF GoodObject, GoodLeaf, FreshLeaf

(* The last frame, and what replaces it.                                      *)
LEMMA RunningIs ==
  ASSUME FramesOK, frames # <<>>
  PROVE  /\ FrameOK(Running)
         /\ Len(frames) \in {1, 2}
         /\ Len(frames) = 1 => frames = <<Running>> /\ Running.k = kind
         /\ Len(frames) = 2 => /\ frames = <<frames[1], Running>>
                               /\ FrameOK(frames[1]) /\ frames[1].k = kind
                               /\ Running.field \in Numbers(kind)
                               /\ Running.k = Type(kind, Running.field)
                               /\ Running.k \in Nested
<1>1. CASE frames = <<frames[1]>>
  <2>1. Len(frames) = 1 /\ 1 \in DOMAIN frames
    BY <1>1
  <2>2. QED
    BY <1>1, <2>1 DEF FramesOK, Running
<1>2. CASE frames = <<frames[1], frames[2]>>
  <2>1. Len(frames) = 2 /\ 1 \in DOMAIN frames /\ 2 \in DOMAIN frames
    BY <1>2
  <2>2. frames # <<frames[1]>>
    BY <1>2
  <2>3. QED
    BY <1>2, <2>1, <2>2 DEF FramesOK, Running
<1>3. QED
  BY <1>1, <1>2 DEF FramesOK

LEMMA WithTopIsOK ==
  ASSUME FramesOK, frames # <<>>, NEW g, FrameOK(g), g.k = Running.k, g.field = Running.field,
         frames' = WithTop(g), kind' = kind
  PROVE  FramesOK' /\ frames' # <<>>
<1>1. CASE Len(frames) = 1
  <2>1. frames = <<Running>> /\ g.k = kind
    BY <1>1, RunningIs
  <2> HIDE DEF Running
  <2>2. frames' = <<g>>
    BY <1>1, <2>1 DEF WithTop
  <2>3. frames'[1] = g /\ DOMAIN frames' = {1}
    BY <2>2
  <2>4. QED
    BY <2>1, <2>2, <2>3 DEF FramesOK, FrameOK
<1>2. CASE Len(frames) = 2
  <2>1. /\ frames = <<frames[1], Running>> /\ FrameOK(frames[1]) /\ frames[1].k = kind
        /\ g.field \in Numbers(kind) /\ g.k = Type(kind, g.field) /\ g.k \in Nested
    BY <1>2, RunningIs
  <2>2. frames' = <<frames[1], g>>
    BY <1>2, <2>1 DEF WithTop
  <2>3. frames'[1] = frames[1] /\ frames'[2] = g /\ DOMAIN frames' = {1, 2}
    BY <2>2
  <2>4. QED
    BY <2>1, <2>2, <2>3 DEF FramesOK, FrameOK
<1>3. QED
  BY <1>1, <1>2, RunningIs

(* A frame with another object, and one that goes on with its next token.     *)
LEMMA FrameExcept ==
  ASSUME NEW f, FrameOK(f), NEW o
  PROVE  [f EXCEPT !.o = o] = [k |-> f.k, o |-> o, in |-> f.in, case |-> f.case,
                               field |-> f.field]
BY DEF FrameOK

GoesOn(f, in, case) == [f EXCEPT !.in = in, !.case = case]

LEMMA GoesOnIsOK ==
  ASSUME NEW f, FrameOK(f), NEW in, NEW case
  PROVE  LET g == GoesOn(f, in, case)
         IN  FrameOK(g) /\ g.k = f.k /\ g.field = f.field /\ g.o = f.o
<1> DEFINE a == [f EXCEPT !.in = in]
           g == [a EXCEPT !.case = case]
<1>1. a = [k |-> f.k, o |-> f.o, in |-> in, case |-> f.case, field |-> f.field]
  BY DEF FrameOK
<1>2. GoesOn(f, in, case) = g
  BY DEF GoesOn
<1> HIDE DEF a
<1>3. g = [k |-> f.k, o |-> f.o, in |-> in, case |-> case, field |-> f.field]
  BY <1>1
<1> HIDE DEF g
<1>4. FrameOK(g) /\ g.k = f.k /\ g.field = f.field /\ g.o = f.o
  BY <1>3 DEF FrameOK
<1>5. QED
  BY <1>2, <1>4

LEMMA ThenIsOK ==
  ASSUME NEW f, FrameOK(f), NEW i, NEW rows
  PROVE  /\ FrameOK(Then(f, i, rows)) /\ Then(f, i, rows).k = f.k
         /\ Then(f, i, rows).field = f.field /\ Then(f, i, rows).o = f.o
<1> DEFINE in == Tail(f.in)
           case == IF in # <<>> /\ MakeTag(Head(in).num, Head(in).wire) = rows[i][3]
                   THEN rows[i][4] ELSE 0
           g == GoesOn(f, in, case)
<1>1. Then(f, i, rows) = g
  BY DEF Then, GoesOn
<1> HIDE DEF in, case
<1>2. FrameOK(g) /\ g.k = f.k /\ g.field = f.field /\ g.o = f.o
  BY GoesOnIsOK
<1>3. QED
  BY <1>1, <1>2

LEMMA AddUnknownIsOK ==
  ASSUME NEW f, FrameOK(f), NEW token
  PROVE  /\ FrameOK(AddUnknown(f, token))
         /\ AddUnknown(f, token).k = f.k /\ AddUnknown(f, token).field = f.field
<1> DEFINE u == Append(f.o.unknown, token)
           p == [f.o EXCEPT !.unknown = u]
           g == AddUnknown(f, token)
<1>1. GoodObject(f.k, p)
  BY UnknownDoesNotMatter DEF FrameOK
<1>2. g = [f EXCEPT !.o = p]
  BY DEF AddUnknown
<1> HIDE DEF u, p, g
<1>3. g = [k |-> f.k, o |-> p, in |-> f.in, case |-> f.case, field |-> f.field]
  BY <1>2 DEF FrameOK
<1>4. FrameOK(g) /\ g.k = f.k /\ g.field = f.field
  BY <1>1, <1>3 DEF FrameOK
<1>5. QED
  BY <1>4 DEF g

LEMMA RowsAre ==
  ASSUME NEW k \in Classes, NEW i \in DOMAIN Parse!Table[k]
  PROVE  /\ Parse!Table[k][i][1] \in Numbers(k)
         /\ Parse!Table[k][i][2] = Type(k, Parse!Table[k][i][1])
<1>1. ParseAgrees(k)
  BY MessagesAssumption DEF Classes
<1>2. QED
  BY <1>1 DEF ParseAgrees, Covers

LEMMA RowIsScalar ==
  ASSUME NEW k \in Classes, NEW i \in DOMAIN Parse!Table[k], Parse!Table[k][i][2] \notin Nested
  PROVE  Scalar(k, Parse!Table[k][i][1])
BY RowsAre, TablesAgree DEF HasBitsAgree, Scalar

LEMMA ReadFieldKeeps ==
  ASSUME FramesOK, frames # <<>>, NEW i \in DOMAIN Rows, ReadField(i), kind' = kind
  PROVE  FramesOK' /\ frames' # <<>>
<1> DEFINE token == Head(Running.in)
           o == Store(Running.k, Running.o, Rows[i][1], token.val)
           set == [Running EXCEPT !.o = o]
           strange == AddUnknown(Running, token)
<1>1. FrameOK(Running) /\ Running.k \in Classes
  BY RunningIs DEF FrameOK
<1>2. \/ frames' = WithTop(Then(strange, i, Rows))
      \/ frames' = WithTop(Then(set, i, Rows))
  BY DEF ReadField
<1>3. FrameOK(strange) /\ strange.k = Running.k /\ strange.field = Running.field
  BY <1>1, AddUnknownIsOK
<1>4. FrameOK(set) /\ set.k = Running.k /\ set.field = Running.field
  <2>1. Rows[i][1] \in Numbers(Running.k) /\ Scalar(Running.k, Rows[i][1])
    BY <1>1, RowsAre, RowIsScalar DEF ReadField, Rows
  <2>2. GoodObject(Running.k, o)
    BY <1>1, <2>1, StoreIsGood DEF FrameOK, Scalar
  <2> HIDE DEF o
  <2>3. set = [k |-> Running.k, o |-> o, in |-> Running.in, case |-> Running.case,
               field |-> Running.field]
    BY <1>1, FrameExcept
  <2> HIDE DEF set
  <2>4. QED
    BY <1>1, <2>2, <2>3 DEF FrameOK
<1> HIDE DEF o, set, strange, token
<1>5. CASE frames' = WithTop(Then(strange, i, Rows))
  BY <1>3, <1>5, ThenIsOK, WithTopIsOK DEF FrameOK
<1>6. CASE frames' = WithTop(Then(set, i, Rows))
  BY <1>4, <1>6, ThenIsOK, WithTopIsOK DEF FrameOK
<1>7. QED
  BY <1>2, <1>5, <1>6

LEMMA SkipFieldKeeps ==
  ASSUME FramesOK, frames # <<>>, SkipField, kind' = kind
  PROVE  FramesOK' /\ frames' # <<>>
<1> DEFINE f == AddUnknown(Running, Head(Running.in))
           in == Tail(f.in)
           g == GoesOn(f, in, 0)
<1>1. FrameOK(f) /\ f.k = Running.k /\ f.field = Running.field
  BY RunningIs, AddUnknownIsOK
<1>2. frames' = WithTop(g)
  BY DEF SkipField, GoesOn
<1> HIDE DEF f, in
<1>3. FrameOK(g) /\ g.k = f.k /\ g.field = f.field
  BY <1>1, GoesOnIsOK
<1> HIDE DEF g
<1>4. QED
  BY <1>1, <1>2, <1>3, WithTopIsOK

LEMMA AppendFirst == ASSUME NEW y PROVE Append(<<>>, y) = <<y>>
<1>1. <<>> \in Seq({y}) /\ y \in {y} /\ Len(<<>>) = 0
  OBVIOUS
<1> DEFINE s == Append(<<>>, y)
           p == <<y>>
<1>2. s \in Seq({y}) /\ Len(s) = 1 /\ s[1] = y
  BY <1>1, AppendProperties
<1>3. p \in Seq({y}) /\ Len(p) = 1 /\ p[1] = y
  OBVIOUS
<1> HIDE DEF s, p
<1>4. Len(s) = Len(p) /\ \A i \in 1 .. Len(s) : s[i] = p[i]
  BY <1>2, <1>3
<1>5. s = p
  BY <1>2, <1>3, <1>4, SeqEqual
<1>6. QED
  BY <1>5 DEF s, p

LEMMA AppendOne == ASSUME NEW x, NEW y PROVE Append(<<x>>, y) = <<x, y>>
<1>1. <<x>> \in Seq({x, y}) /\ y \in {x, y} /\ Len(<<x>>) = 1
  OBVIOUS
<1>2. /\ Len(Append(<<x>>, y)) = 2 /\ Append(<<x>>, y) \in Seq({x, y})
      /\ Append(<<x>>, y)[1] = x /\ Append(<<x>>, y)[2] = y
  BY <1>1, AppendProperties
<1> DEFINE s == Append(<<x>>, y)
           p == <<x, y>>
<1>3. p \in Seq({x, y}) /\ Len(p) = 2 /\ p[1] = x /\ p[2] = y
  OBVIOUS
<1>4. s \in Seq({x, y}) /\ Len(s) = Len(p)
  BY <1>2, <1>3
<1>5. \A i \in 1 .. Len(s) : s[i] = p[i]
  BY <1>2, <1>3
<1> HIDE DEF s, p
<1>6. s = p
  BY <1>3, <1>4, <1>5, SeqEqual
<1>7. QED
  BY <1>6 DEF s, p

LEMMA ReadNestedKeeps ==
  ASSUME FramesOK, frames # <<>>, kind \in Kinds, NEW i \in DOMAIN Rows, ReadNested(i),
         kind' = kind
  PROVE  FramesOK' /\ frames' # <<>>
<1> DEFINE n == Rows[i][1]
           t == Rows[i][2]
           old == Running.o.val[n]
           o == IF ~ IsList(Running.k, n) THEN old ELSE Spare(t, old)
           top == [Running EXCEPT !.case = n]
           read(last) == Frame(t, o, SubSeq(Head(Running.in).val, 1, last), n)
<1>1. FrameOK(Running) /\ Running.k \in Classes
  BY RunningIs DEF FrameOK
<1>2. t \in Nested /\ \E last : frames' = Append(WithTop(top), read(last))
  BY DEF ReadNested
<1>3. n \in Numbers(Running.k) /\ t = Type(Running.k, n)
  BY <1>1, RowsAre DEF Rows
<1>4. Len(frames) = 1 /\ frames = <<Running>> /\ Running.k = kind
  <2>1. Len(frames) # 2
    <3>1. SUFFICES ASSUME Len(frames) = 2 PROVE FALSE
      OBVIOUS
    <3>2. Running.k \in Nested
      BY <3>1, RunningIs
    <3>3. QED
      BY <1>2, <1>3, <3>2, LeafHasScalars DEF Scalar
  <2>2. QED
    BY <2>1, RunningIs
<1>5. GoodLeaf(t, o)
  <2>1. GoodMember(Running.k, n, old, Has(Running.k, Running.o, n))
    BY <1>1, <1>3 DEF FrameOK, GoodObject
  <2>2. CASE IsList(Running.k, n)
    BY <1>2, <1>3, <2>1, <2>2, SpareIsNew, NewLeafIsGood DEF GoodMember
  <2>3. CASE ~ IsList(Running.k, n)
    BY <1>2, <1>3, <2>1, <2>3 DEF GoodMember
  <2>4. QED
    BY <2>2, <2>3
<1>6. PICK last : frames' = Append(WithTop(top), read(last))
  BY <1>2
<1> DEFINE g == read(last)
<1>7. g = [k |-> t, o |-> o, in |-> g.in, case |-> 0, field |-> n]
  BY DEF Frame
<1>8. top = [k |-> Running.k, o |-> Running.o, in |-> Running.in, case |-> n,
             field |-> Running.field]
  BY <1>1 DEF FrameOK
<1>9. WithTop(top) = <<top>>
  <2> HIDE DEF top, Running
  <2>1. QED
    BY <1>4 DEF WithTop
<1>10. frames' = <<top, g>>
  <2>1. frames' = Append(WithTop(top), g)
    BY <1>6
  <2> HIDE DEF g, top
  <2>2. frames' = Append(<<top>>, g)
    BY <1>9, <2>1
  <2>3. QED
    BY <2>2, AppendOne
<1> HIDE DEF g, top, o, n, t, old, Running
<1>11. GoodObject(t, o) /\ t \in Classes
  BY <1>2, <1>5, LeafIsObject DEF Classes
<1>12. FrameOK(g) /\ g.k = t /\ g.field = n
  BY <1>7, <1>11 DEF FrameOK
<1>13. FrameOK(top) /\ top.k = kind
  BY <1>1, <1>4, <1>8 DEF FrameOK
<1>14. frames'[1] = top /\ frames'[2] = g /\ DOMAIN frames' = {1, 2}
  BY <1>10
<1>15. QED
  BY <1>2, <1>3, <1>4, <1>10, <1>12, <1>13, <1>14 DEF FramesOK, FrameOK

(* The nested object in the caller's.                                         *)
LEMMA FilledIsGood ==
  ASSUME FramesOK, kind \in Kinds, Len(frames) = 2, NEW o, GoodObject(Running.k, o)
  PROVE  GoodObject(kind, Filled(o))
<1> DEFINE caller == frames[1]
           n == Running.field
           t == Type(kind, n)
<1>1. /\ GoodObject(kind, caller.o) /\ caller.k = kind
      /\ n \in Numbers(kind) /\ Running.k = t /\ t \in Nested /\ kind \in Classes
  BY RunningIs DEF FrameOK, Classes
<1>2. GoodLeaf(t, o)
  BY <1>1, LeafIsObject
<1>3. GoodMember(kind, n, caller.o.val[n], Has(kind, caller.o, n)) /\ Object(kind, caller.o)
  BY <1>1 DEF GoodObject
<1>4. CASE IsList(kind, n)
  <2> DEFINE list == AddElement(t, caller.o.val[n], o)
             p == [caller.o EXCEPT !.val[n] = list]
  <2>1. Filled(o) = p
    BY <1>1, <1>4 DEF Filled
  <2>2. GoodList(t, list)
    BY <1>1, <1>2, <1>3, <1>4, AddElementIsGood DEF GoodMember
  <2> HIDE DEF list, caller
  <2>3. /\ Object(kind, p) /\ p.has = caller.o.has /\ p.val[n] = list
        /\ \A m \in Numbers(kind) \ {n} : p.val[m] = caller.o.val[m]
    BY <1>1, <1>3 DEF Object
  <2> HIDE DEF p
  <2>4. GoodMember(kind, n, p.val[n], Has(kind, p, n))
    BY <1>4, <2>2, <2>3 DEF GoodMember
  <2>5. QED
    BY <1>1, <2>1, <2>3, <2>4, OneMember
<1>5. CASE ~ IsList(kind, n)
  BY <1>1, <1>2, <1>5, StoreIsGood DEF Filled
<1>6. QED
  BY <1>4, <1>5

LEMMA RemainsAreGood ==
  ASSUME FramesOK, frames # <<>>, NEW o \in Remains
  PROVE  GoodObject(Running.k, o)
<1>1. FrameOK(Running) /\ Running.k \in Classes /\ GoodObject(Running.k, Running.o)
  BY RunningIs DEF FrameOK
<1>2. \/ o = Running.o
      \/ \E j \in DOMAIN Rows : \E v :
           Rows[j][2] = "string" /\ o = Store(Running.k, Running.o, Rows[j][1], v)
  BY DEF Remains
<1>3. ASSUME NEW j \in DOMAIN Rows, NEW v, Rows[j][2] = "string",
             o = Store(Running.k, Running.o, Rows[j][1], v)
      PROVE  GoodObject(Running.k, o)
  <2>1. Rows[j][2] \notin Nested
    BY <1>3 DEF Nested
  <2>2. Rows[j][1] \in Numbers(Running.k) /\ Scalar(Running.k, Rows[j][1])
    BY <1>1, <2>1, RowsAre, RowIsScalar DEF Rows
  <2> HIDE DEF Running, Rows
  <2>3. QED
    BY <1>1, <1>3, <2>2, StoreIsGood DEF Scalar
<1>4. QED
  BY <1>1, <1>2, <1>3

LEMMA ReturnKeeps ==
  ASSUME FramesOK, frames # <<>>, kind \in Kinds, Return, kind' = kind
  PROVE  /\ FramesOK'
         /\ \/ frames' = <<>> /\ outcome' = "ok" /\ GoodObject(kind, into')
            \/ frames' # <<>> /\ UNCHANGED <<into, outcome>>
<1>1. FrameOK(Running)
  BY RunningIs
<1>2. CASE Len(frames) = 1
  <2>1. Running.k = kind
    BY <1>2, RunningIs
  <2>2. frames' = <<>> /\ outcome' = "ok" /\ into' = Running.o
    BY <1>2 DEF Return
  <2>3. QED
    BY <1>1, <2>1, <2>2 DEF FramesOK, FrameOK
<1>3. CASE Len(frames) = 2
  <2> DEFINE caller == frames[1]
             rows == Parse!Table[caller.k]
             i == CHOOSE j \in DOMAIN rows : rows[j][1] = Running.field
             o == Filled(Running.o)
             f == [caller EXCEPT !.o = o]
             g == Then(f, i, rows)
  <2>1. FrameOK(caller) /\ caller.k = kind
    BY <1>3, RunningIs
  <2>2. GoodObject(kind, o)
    BY <1>1, <1>3, FilledIsGood DEF FrameOK
  <2>3. frames' = Append(SubSeq(frames, 1, 0), g) /\ UNCHANGED <<into, outcome>>
    BY <1>3 DEF Return
  <2> HIDE DEF o, i, rows, caller
  <2>4. f = [k |-> caller.k, o |-> o, in |-> caller.in, case |-> caller.case,
             field |-> caller.field]
    BY <2>1, FrameExcept
  <2> HIDE DEF f
  <2>5. FrameOK(f) /\ f.k = kind
    BY <2>1, <2>2, <2>4 DEF FrameOK
  <2>6. FrameOK(g) /\ g.k = kind
    BY <2>5, ThenIsOK
  <2> HIDE DEF g
  <2>7. frames' = <<g>>
    <3>1. frames = <<frames[1], Running>>
      BY <1>3, RunningIs
    <3>2. SubSeq(frames, 1, 0) = <<>>
      BY <3>1
    <3>3. frames' = Append(<<>>, g)
      BY <2>3, <3>2
    <3>4. QED
      BY <3>3, AppendFirst
  <2>8. frames'[1] = g /\ DOMAIN frames' = {1}
    BY <2>7
  <2>9. frames' = <<frames'[1]>> /\ frames'[1].k = kind /\ frames' # <<>>
    <3>1. frames' # <<>>
      BY <2>7
    <3>2. QED
      BY <2>6, <2>7, <2>8, <3>1
  <2>10. \A j \in DOMAIN frames' : FrameOK(frames'[j])
    BY <2>6, <2>8
  <2>11. FramesOK'
    BY <2>9, <2>10 DEF FramesOK
  <2>12. QED
    BY <2>3, <2>9, <2>11
<1>4. QED
  BY <1>2, <1>3, RunningIs

LEMMA ReturnFalseKeeps ==
  ASSUME FramesOK, frames # <<>>, kind \in Kinds, ReturnFalse, kind' = kind
  PROVE  FramesOK' /\ frames' = <<>> /\ outcome' = "failed" /\ GoodObject(kind, into')
<1>1. PICK o \in Remains : into' = IF CutNested THEN Filled(o) ELSE o
  BY DEF ReturnFalse
<1>2. GoodObject(Running.k, o)
  BY RemainsAreGood
<1>3. frames' = <<>> /\ outcome' = "failed" /\ CutShort
  BY DEF ReturnFalse
<1>4. ASSUME CutNested PROVE GoodObject(kind, into')
  <2>1. Len(frames) = 2
    BY <1>4 DEF CutNested
  <2>2. GoodObject(kind, Filled(o))
    BY <1>2, <2>1, FilledIsGood
  <2>3. QED
    BY <1>1, <1>4, <2>2
<1>5. ASSUME ~ CutNested PROVE GoodObject(kind, into')
  <2>1. Short
    BY <1>3, <1>5 DEF CutShort
  <2>2. Len(frames) # 2
    <3>1. SUFFICES ASSUME Len(frames) = 2 PROVE FALSE
      OBVIOUS
    <3>2. frames = <<frames[1], Running>>
      BY <3>1, RunningIs
    <3> HIDE DEF Running
    <3>3. 1 \in DOMAIN frames
      BY <3>2
    <3>4. QED
      BY <1>5, <2>1, <3>1, <3>3 DEF Short, CutNested
  <2>3. Running.k = kind
    BY <2>2, RunningIs
  <2>4. QED
    BY <1>1, <1>2, <1>5, <2>3
<1>6. GoodObject(kind, into')
  BY <1>4, <1>5
<1>7. QED
  BY <1>3, <1>6 DEF FramesOK
-----------------------------------------------------------------------------
(* The invariant: every object of the message is good, at any moment.         *)
LEMMA InitEstablishes == Init => IInv
<1> SUFFICES ASSUME Init PROVE IInv
  OBVIOUS
<1>1. kind \in Kinds /\ kind \in Classes
  BY DEF Init, Classes
<1>2. GoodObject(kind, New0(kind)) /\ GoodObject(kind, FullObject(kind))
  BY <1>1, NewIsGood, FullIsGood
<1>3. GoodObject(kind, obj) /\ GoodObject(kind, other) /\ GoodObject(kind, merged)
      /\ GoodObject(kind, into)
  BY <1>2 DEF Init
<1>4. QED
  BY <1>3, MessagesAssumption DEF Init, IInv, FramesOK

(* Calls on the object leave what is read alone.                              *)
LEMMA CallKeeps ==
  ASSUME IInv, Calling, Unread, kind' = kind, GoodObject(kind, obj'),
         GoodObject(kind, other'), GoodObject(kind, merged')
  PROVE  IInv'
<1>1. frames' = frames /\ into' = into /\ outcome' = outcome /\ outcome = "idle"
  BY DEF Calling, Unread
<1>2. FramesOK' /\ GoodObject(kind', into')
  BY <1>1 DEF IInv, FramesOK, FrameOK
<1>3. calls' \in 0 .. MaxCalls
  BY MessagesAssumption DEF IInv, Calling
<1>4. QED
  BY <1>1, <1>2, <1>3 DEF IInv

LEMMA SetFieldKeeps == IInv /\ SetField => IInv'
<1> SUFFICES ASSUME IInv, SetField PROVE IInv'
  OBVIOUS
<1>1. /\ kind \in Classes /\ GoodObject(kind, obj) /\ GoodObject(kind, other)
      /\ GoodObject(kind, merged)
  BY DEF IInv, Classes
<1>2. PICK n \in Numbers(kind) : \E v \in Inputs(Type(kind, n)) : obj' = Put(kind, obj, n, v)
  BY DEF SetField
<1> DEFINE t == Type(kind, n)
<1>3. PICK v \in Inputs(t) : obj' = Put(kind, obj, n, v)
  BY <1>2
<1>4. t \in Nested => GoodLeaf(t, v)
  BY InputsAreGood
<1>5. GoodObject(kind, obj')
  BY <1>1, <1>3, <1>4, PutIsGood
<1>6. Calling /\ Unread /\ UNCHANGED <<kind, other, merged>>
  BY DEF SetField
<1>7. QED
  BY <1>1, <1>5, <1>6, CallKeeps

LEMMA ClearFieldKeeps == IInv /\ ClearField => IInv'
<1> SUFFICES ASSUME IInv, ClearField PROVE IInv'
  OBVIOUS
<1>1. /\ kind \in Classes /\ GoodObject(kind, obj) /\ GoodObject(kind, other)
      /\ GoodObject(kind, merged)
  BY DEF IInv, Classes
<1>2. PICK n \in Numbers(kind) : obj' = ClearMember(kind, obj, n)
  BY DEF ClearField
<1>3. GoodObject(kind, obj')
  BY <1>1, <1>2, ClearMemberIsGood
<1>4. Calling /\ Unread /\ UNCHANGED <<kind, other, merged>>
  BY DEF ClearField
<1>5. QED
  BY <1>1, <1>3, <1>4, CallKeeps

LEMMA ClearObjectKeeps == IInv /\ ClearObject => IInv'
<1> SUFFICES ASSUME IInv, ClearObject PROVE IInv'
  OBVIOUS
<1>1. /\ kind \in Classes /\ GoodObject(kind, obj) /\ GoodObject(kind, other)
      /\ GoodObject(kind, merged)
  BY DEF IInv, Classes
<1>2. GoodObject(kind, obj')
  BY <1>1, ClearIsGood DEF ClearObject
<1>3. Calling /\ Unread /\ UNCHANGED <<kind, other, merged>>
  BY DEF ClearObject
<1>4. QED
  BY <1>1, <1>2, <1>3, CallKeeps

LEMMA SwapKeeps == IInv /\ Swap => IInv'
<1> SUFFICES ASSUME IInv, Swap PROVE IInv'
  OBVIOUS
<1>1. /\ kind \in Classes /\ GoodObject(kind, obj) /\ GoodObject(kind, other)
      /\ GoodObject(kind, merged)
  BY DEF IInv, Classes
<1>2. GoodObject(kind, obj') /\ GoodObject(kind, other')
  BY <1>1, SwappedIsGood DEF Swap
<1>3. Calling /\ Unread /\ UNCHANGED <<kind, merged>>
  BY DEF Swap
<1>4. QED
  BY <1>1, <1>2, <1>3, CallKeeps

LEMMA SerializeToKeeps == IInv /\ SerializeTo => IInv'
<1> SUFFICES ASSUME IInv, SerializeTo PROVE IInv'
  OBVIOUS
<1>1. /\ kind \in Classes /\ GoodObject(kind, obj) /\ GoodObject(kind, other)
      /\ GoodObject(kind, merged)
  BY DEF IInv, Classes
<1>2. GoodObject(kind, merged')
  BY <1>1, MergeFromIsGood DEF SerializeTo
<1>3. Calling /\ Unread /\ UNCHANGED <<kind, obj, other>>
  BY DEF SerializeTo
<1>4. QED
  BY <1>1, <1>2, <1>3, CallKeeps

LEMMA StrangeFieldKeeps == IInv /\ StrangeField => IInv'
<1> SUFFICES ASSUME IInv, StrangeField PROVE IInv'
  OBVIOUS
<1>1. GoodObject(kind, obj) /\ GoodObject(kind, other) /\ GoodObject(kind, merged)
  BY DEF IInv
<1>2. \E u : merged' = [merged EXCEPT !.unknown = u]
  BY DEF StrangeField
<1>3. GoodObject(kind, merged')
  BY <1>1, <1>2, UnknownDoesNotMatter
<1>4. Calling /\ Unread /\ UNCHANGED <<kind, obj, other>>
  BY DEF StrangeField
<1>5. QED
  BY <1>1, <1>3, <1>4, CallKeeps

LEMMA CutOffKeeps == IInv /\ CutOff => IInv'
<1> SUFFICES ASSUME IInv, CutOff PROVE IInv'
  OBVIOUS
<1>1. GoodObject(kind, obj) /\ GoodObject(kind, other) /\ GoodObject(kind, merged)
  BY DEF IInv
<1>2. Calling /\ Unread /\ UNCHANGED <<kind, obj, other, merged>>
  BY DEF CutOff
<1>3. QED
  BY <1>1, <1>2, CallKeeps

LEMMA BeginReadingKeeps == IInv /\ BeginReading => IInv'
<1> SUFFICES ASSUME IInv, BeginReading PROVE IInv'
  OBVIOUS
<1> DEFINE f == Frame(kind, New0(kind), wire, 0)
<1>1. GoodObject(kind, New0(kind)) /\ kind \in Classes
  BY NewIsGood DEF IInv, Classes
<1>2. FrameOK(f) /\ f.k = kind
  BY <1>1 DEF Frame, FrameOK
<1>3. /\ frames' = <<f>> /\ outcome' = "reading"
      /\ UNCHANGED <<kind, obj, other, merged, into, calls>>
  BY DEF BeginReading
<1> HIDE DEF f
<1>4. FramesOK' /\ frames' # <<>>
  <2>1. frames'[1] = f /\ DOMAIN frames' = {1} /\ frames' # <<>>
    BY <1>3
  <2>2. QED
    BY <1>2, <1>3, <2>1 DEF FramesOK, FrameOK
<1>5. QED
  BY <1>3, <1>4 DEF IInv

LEMMA ReadStepKeeps == IInv /\ ReadStep => IInv'
<1> SUFFICES ASSUME IInv, ReadStep PROVE IInv'
  OBVIOUS
<1>1. /\ FramesOK /\ frames # <<>> /\ kind \in Kinds /\ outcome = "reading"
      /\ UNCHANGED <<kind, obj, other, merged, calls>>
  BY DEF IInv, ReadStep
<1>2. /\ FramesOK'
      /\ \/ frames' # <<>> /\ UNCHANGED <<into, outcome>>
         \/ frames' = <<>> /\ outcome' \in {"ok", "failed"} /\ GoodObject(kind, into')
  <2>1. CASE \E i \in DOMAIN Rows : ReadField(i)
    <3>1. PICK i \in DOMAIN Rows : ReadField(i)
      BY <2>1
    <3>2. FramesOK' /\ frames' # <<>>
      BY <1>1, <3>1, ReadFieldKeeps
    <3>3. QED
      BY <3>1, <3>2 DEF ReadField
  <2>2. CASE \E i \in DOMAIN Rows : ReadNested(i)
    <3>1. PICK i \in DOMAIN Rows : ReadNested(i)
      BY <2>2
    <3>2. FramesOK' /\ frames' # <<>>
      BY <1>1, <3>1, ReadNestedKeeps
    <3>3. QED
      BY <3>1, <3>2 DEF ReadNested
  <2>3. CASE SkipField
    BY <1>1, <2>3, SkipFieldKeeps DEF SkipField
  <2>4. CASE Return
    BY <1>1, <2>4, ReturnKeeps
  <2>5. CASE ReturnFalse
    BY <1>1, <2>5, ReturnFalseKeeps
  <2>6. QED
    BY <2>1, <2>2, <2>3, <2>4, <2>5 DEF ReadStep
<1>3. QED
  BY <1>1, <1>2 DEF IInv

LEMMA StepKeeps == IInv /\ [Next]_vars => IInv'
<1>1. ASSUME IInv, UNCHANGED vars PROVE IInv'
  BY <1>1 DEF IInv, FramesOK, FrameOK, vars
<1>2. QED
  BY <1>1, SetFieldKeeps, ClearFieldKeeps, ClearObjectKeeps, SwapKeeps, SerializeToKeeps,
     StrangeFieldKeeps, CutOffKeeps, BeginReadingKeeps, ReadStepKeeps DEF Next

LEMMA Invariance == Spec => []IInv
  BY InitEstablishes, StepKeeps, PTL DEF Spec
-----------------------------------------------------------------------------
(* The objects that TypeOK and NothingStale look at.                          *)
LEMMA ObjectsAreGood == IInv => \A o \in Objects : GoodObject(kind, o)
<1> SUFFICES ASSUME IInv, NEW o \in Objects PROVE GoodObject(kind, o)
  OBVIOUS
<1>1. CASE o \in {obj, other, merged, into}
  BY <1>1 DEF IInv
<1>2. CASE o \notin {obj, other, merged, into}
  <2>1. 1 \in DOMAIN frames /\ o = frames[1].o
    BY <1>2 DEF Objects
  <2>2. frames # <<>> /\ FrameOK(frames[1]) /\ frames[1].k = kind
    BY <2>1 DEF IInv, FramesOK
  <2>3. QED
    BY <2>1, <2>2 DEF FrameOK
<1>3. QED
  BY <1>1, <1>2

(* The has-bits that are set in an object are those of its fields, it has     *)
(* each of its members, and at most one call of MergePartialFromCodedStream   *)
(* is inside another one.                                                     *)
THEOREM TypesHold == Spec => []TypeOK
<1>1. IInv => TypeOK
  <2> SUFFICES ASSUME IInv PROVE TypeOK
    OBVIOUS
  <2>1. ASSUME NEW o \in Objects
        PROVE  /\ o.has \subseteq {Bit(kind, n) : n \in Numbers(kind)} \ {-1}
               /\ DOMAIN o.val = Numbers(kind)
    BY ObjectsAreGood DEF GoodObject, Object, Bits
  <2>2. Len(frames) <= 2
    <3>1. CASE frames = <<>>
      BY <3>1
    <3>2. CASE frames # <<>>
      <4>1. FramesOK
        BY DEF IInv
      <4>2. Len(frames) = 1 \/ Len(frames) = 2
        BY <3>2, <4>1, RunningIs
      <4>3. \A n : n = 1 \/ n = 2 => n <= 2
        OBVIOUS
      <4>4. QED
        BY <4>2, <4>3
    <3>3. QED
      BY <3>1, <3>2
  <2>3. QED
    BY <2>1, <2>2 DEF IInv, TypeOK
<1>2. QED
  BY <1>1, Invariance, PTL

(* However an object was filled, cleared, exchanged, merged and read, also    *)
(* when the bytes end in the middle: a field of it that is not set has its    *)
(* default value, and an element that a list keeps for later is empty.        *)
THEOREM NothingIsStale == Spec => []NothingStale
<1>1. IInv => NothingStale
  <2> SUFFICES ASSUME IInv, NEW o \in Objects PROVE FreshWhereUnset(kind, o)
    BY DEF NothingStale
  <2>1. GoodObject(kind, o)
    BY ObjectsAreGood
  <2>2. ASSUME NEW n \in Numbers(kind), IsList(kind, n)
        PROVE  \A i \in DOMAIN o.val[n].all :
                 IF i > o.val[n].size THEN o.val[n].all[i] = NewLeaf(Type(kind, n))
                 ELSE FreshLeaf(Type(kind, n), o.val[n].all[i])
    BY <2>1, <2>2 DEF GoodObject, GoodMember, GoodList, GoodLeaf
  <2>3. ASSUME NEW n \in Numbers(kind), ~ IsList(kind, n), Type(kind, n) \in Nested
        PROVE  IF Has(kind, o, n) THEN FreshLeaf(Type(kind, n), o.val[n])
               ELSE o.val[n] = NewLeaf(Type(kind, n))
    BY <2>1, <2>3 DEF GoodObject, GoodMember, GoodLeaf
  <2>4. ASSUME NEW n \in Numbers(kind), Scalar(kind, n)
        PROVE  Has(kind, o, n) \/ o.val[n] = New0(kind).val[n]
    <3>1. New0(kind).val[n] = Row(New!Table[kind], n)[2]
      BY <2>4 DEF New0, Scalar
    <3>2. QED
      BY <2>1, <2>4, <3>1 DEF GoodObject, GoodMember, Scalar
  <2>5. QED
    BY <2>2, <2>3, <2>4 DEF FreshWhereUnset, Scalar
<1>2. QED
  BY <1>1, Invariance, PTL
-----------------------------------------------------------------------------
(* Induction over the naturals, for a set in place of a predicate: the        *)
(* intervals 0 .. n are well-founded as finite sets are.                      *)
LEMMA Induction ==
  ASSUME NEW S, 0 \in S, \A n \in Nat : n \in S => n + 1 \in S
  PROVE  Nat \subseteq S
<1> DEFINE T == {0 .. n : n \in Nat \ S}
           R == StrictSubsetOrdering(Nat)
<1> SUFFICES ASSUME T # {} PROVE FALSE
  OBVIOUS
<1>1. T \subseteq FiniteSubsetsOf(Nat)
  <2>1. ASSUME NEW n \in Nat PROVE 0 .. n \subseteq Nat /\ IsFiniteSet(0 .. n)
    BY FS_Interval
  <2>2. QED
    BY <2>1 DEF FiniteSubsetsOf
<1>2. PICK A \in T : \A B \in T : <<B, A>> \notin R
  <2>1. IsWellFoundedOn(R, FiniteSubsetsOf(Nat))
    BY FS_StrictSubsetOrderingWellFounded
  <2> HIDE DEF T, R
  <2>2. QED
    BY <1>1, <2>1, WFMin
<1>3. PICK n \in Nat \ S : A = 0 .. n
  BY <1>2
<1>4. n # 0 /\ n - 1 \in Nat /\ (n - 1) + 1 = n
  BY <1>3
<1>5. n - 1 \in S
  <2>1. SUFFICES ASSUME n - 1 \notin S PROVE FALSE
    OBVIOUS
  <2>2. 0 .. n - 1 \in T
    BY <1>4, <2>1
  <2>3. 0 .. n - 1 \subseteq 0 .. n /\ n \in 0 .. n /\ n \notin 0 .. n - 1
    BY <1>3
  <2>4. <<0 .. n - 1, A>> \in R
    BY <1>3, <2>3 DEF StrictSubsetOrdering
  <2>5. QED
    BY <1>2, <2>2, <2>4
<1>6. QED
  BY <1>3, <1>4, <1>5

(* Induction over sequences, for a set in place of a predicate.               *)
LEMMA SeqInduction ==
  ASSUME NEW S, NEW X, <<>> \in X,
         \A s \in Seq(S), e \in S : s \in X => Append(s, e) \in X
  PROVE  Seq(S) \subseteq X
<1> DEFINE N == {n \in Nat : \A s \in Seq(S) : Len(s) = n => s \in X}
<1>1. 0 \in N
  BY EmptySeq
<1>2. ASSUME NEW n \in Nat, n \in N PROVE n + 1 \in N
  <2> SUFFICES ASSUME NEW s \in Seq(S), Len(s) = n + 1 PROVE s \in X
    OBVIOUS
  <2>1. s # <<>>
    BY EmptySeq
  <2>2. PICK r \in Seq(S), e \in S : s = Append(r, e)
    BY <2>1, SequenceEmptyOrAppend
  <2>3. Len(s) = Len(r) + 1 /\ Len(r) \in Nat
    BY <2>2, AppendProperties, LenProperties
  <2>4. r \in X
    BY <1>2, <2>3
  <2>5. QED
    BY <2>2, <2>4
<1> HIDE DEF N
<1>3. Nat \subseteq N
  BY <1>1, <1>2, Induction
<1>4. ASSUME NEW s \in Seq(S) PROVE s \in X
  <2>1. Len(s) \in N
    BY <1>3, LenProperties
  <2>2. QED
    BY <2>1 DEF N
<1>5. QED
  BY <1>4

(* Concatenation, without a case distinction on the index.                    *)
LEMMA ConcatElements ==
  ASSUME NEW S, NEW s \in Seq(S), NEW t \in Seq(S)
  PROVE  /\ s \o t \in Seq(S) /\ Len(s \o t) = Len(s) + Len(t)
         /\ \A i \in 1 .. Len(s) : (s \o t)[i] = s[i]
         /\ \A i \in 1 .. Len(t) : (s \o t)[Len(s) + i] = t[i]
<1>1. Len(s) \in Nat /\ Len(t) \in Nat
  BY LenProperties
<1>2. /\ s \o t \in Seq(S) /\ Len(s \o t) = Len(s) + Len(t)
      /\ \A i \in 1 .. Len(s) + Len(t) : (s \o t)[i] = IF i <= Len(s) THEN s[i] ELSE t[i - Len(s)]
  BY ConcatProperties
<1> DEFINE u == s \o t
<1> HIDE DEF u
<1>3. \A i \in 1 .. Len(s) : u[i] = s[i]
  BY <1>1, <1>2 DEF u
<1>4. \A i \in 1 .. Len(t) : u[Len(s) + i] = t[i]
  <2> SUFFICES ASSUME NEW i \in 1 .. Len(t) PROVE u[Len(s) + i] = t[i]
    OBVIOUS
  <2>1. Len(s) + i \in 1 .. Len(s) + Len(t) /\ ~ (Len(s) + i <= Len(s)) /\ (Len(s) + i) - Len(s) = i
    BY <1>1
  <2>2. QED
    BY <1>2, <2>1 DEF u
<1>5. QED
  BY <1>2, <1>3, <1>4 DEF u

LEMMA ConcatIs ==
  ASSUME NEW S, NEW s \in Seq(S), NEW t \in Seq(S), NEW u \in Seq(S),
         Len(u) = Len(s) + Len(t),
         \A i \in 1 .. Len(s) : u[i] = s[i],
         \A i \in 1 .. Len(t) : u[Len(s) + i] = t[i]
  PROVE  u = s \o t
<1> DEFINE v == s \o t
<1>1. /\ v \in Seq(S) /\ Len(v) = Len(s) + Len(t)
      /\ \A i \in 1 .. Len(s) : v[i] = s[i]
      /\ \A i \in 1 .. Len(t) : v[Len(s) + i] = t[i]
  BY ConcatElements
<1>2. Len(s) \in Nat /\ Len(t) \in Nat
  BY LenProperties
<1> HIDE DEF v
<1>3. ASSUME NEW i \in 1 .. Len(u) PROVE u[i] = v[i]
  <2>1. CASE i <= Len(s)
    <3>1. i \in 1 .. Len(s)
      BY <1>2, <2>1
    <3>2. QED
      BY <1>1, <3>1
  <2>2. CASE ~ (i <= Len(s))
    <3>1. i - Len(s) \in 1 .. Len(t) /\ Len(s) + (i - Len(s)) = i
      BY <1>2, <2>2
    <3>2. u[Len(s) + (i - Len(s))] = t[i - Len(s)] /\ v[Len(s) + (i - Len(s))] = t[i - Len(s)]
      BY <1>1, <3>1
    <3>3. QED
      BY <3>1, <3>2
  <2>3. QED
    BY <2>1, <2>2
<1>4. u = v
  BY <1>1, <1>3, SeqEqual
<1>5. QED
  BY <1>4 DEF v
-----------------------------------------------------------------------------
(* FlattenSeq.                                                                *)
IsFlat(f, ss) ==
  f = [i \in 1 .. Len(ss) |-> IF i = 1 THEN ss[i] ELSE f[i - 1] \o ss[i]]

LEMMA FlatExists ==
  ASSUME NEW S PROVE \A ss \in Seq(S) : \E f : IsFlat(f, ss)
<1> DEFINE X == {ss \in Seq(S) : \E f : IsFlat(f, ss)}
<1>1. <<>> \in X
  <2> DEFINE f == [i \in 1 .. 0 |-> <<>>]
  <2>1. Len(<<>>) = 0 /\ <<>> \in Seq(S)
    BY EmptySeq
  <2>2. IsFlat(f, <<>>)
    BY <2>1 DEF IsFlat
  <2>3. QED
    BY <2>1, <2>2
<1>2. ASSUME NEW ss \in Seq(S), NEW s \in S, ss \in X PROVE Append(ss, s) \in X
  <2> DEFINE l == Len(ss)
             tt == Append(ss, s)
  <2>1. /\ l \in Nat /\ tt \in Seq(S) /\ Len(tt) = l + 1
        /\ \A i \in 1 .. l : tt[i] = ss[i]
    BY AppendProperties, LenProperties
  <2>2. PICK f : IsFlat(f, ss)
    BY <1>2
  <2> DEFINE g == [i \in 1 .. l + 1 |-> IF i = 1 THEN tt[i] ELSE f[i - 1] \o tt[i]]
  <2> HIDE DEF l, tt
  <2>3. \A i \in 1 .. l : f[i] = IF i = 1 THEN ss[i] ELSE f[i - 1] \o ss[i]
    BY <2>2 DEF IsFlat, l
  <2>4. \A i \in 1 .. l : g[i] = f[i]
    BY <2>1, <2>3
  <2>5. \A i \in 1 .. l + 1 : i # 1 => i - 1 \in 1 .. l
    BY <2>1
  <2> HIDE DEF g
  <2>6. IsFlat(g, tt)
    BY <2>1, <2>4, <2>5 DEF IsFlat, g
  <2>7. QED
    BY <2>1, <2>6 DEF tt
<1> HIDE DEF X
<1>3. Seq(S) \subseteq X
  BY <1>1, <1>2, SeqInduction
<1>4. QED
  BY <1>3 DEF X

LEMMA FlatUnique ==
  ASSUME NEW ss, NEW tt, Len(ss) \in Nat, Len(tt) \in Nat, Len(ss) <= Len(tt),
         \A i \in 1 .. Len(ss) : ss[i] = tt[i],
         NEW f, IsFlat(f, ss), NEW g, IsFlat(g, tt)
  PROVE  \A i \in 1 .. Len(ss) : f[i] = g[i]
<1> DEFINE N == {n \in Nat : n \in 1 .. Len(ss) => f[n] = g[n]}
<1>1. /\ \A i \in 1 .. Len(ss) : f[i] = IF i = 1 THEN ss[i] ELSE f[i - 1] \o ss[i]
      /\ \A i \in 1 .. Len(ss) : g[i] = IF i = 1 THEN ss[i] ELSE g[i - 1] \o ss[i]
  <2>1. \A i \in 1 .. Len(ss) : f[i] = IF i = 1 THEN ss[i] ELSE f[i - 1] \o ss[i]
    BY DEF IsFlat
  <2>2. \A i \in 1 .. Len(tt) : g[i] = IF i = 1 THEN tt[i] ELSE g[i - 1] \o tt[i]
    BY DEF IsFlat
  <2>3. QED
    BY <2>1, <2>2
<1>2. 0 \in N
  OBVIOUS
<1>3. ASSUME NEW n \in Nat, n \in N PROVE n + 1 \in N
  <2>1. SUFFICES ASSUME n + 1 \in 1 .. Len(ss) PROVE f[n + 1] = g[n + 1]
    OBVIOUS
  <2>2. CASE n = 0
    BY <1>1, <2>1, <2>2
  <2>3. CASE n # 0
    <3>1. f[n] = g[n] /\ (n + 1) - 1 = n /\ n + 1 # 1
      BY <1>3, <2>1, <2>3
    <3>2. QED
      BY <1>1, <2>1, <3>1
  <2>4. QED
    BY <2>2, <2>3
<1> HIDE DEF N
<1>4. Nat \subseteq N
  BY <1>2, <1>3, Induction
<1>5. QED
  BY <1>4 DEF N

LEMMA FlattenIs ==
  ASSUME NEW S, NEW ss \in Seq(S), ss # <<>>
  PROVE  \E f : IsFlat(f, ss) /\ FlattenSeq(ss) = f[Len(ss)]
<1> DEFINE f == CHOOSE g : IsFlat(g, ss)
<1>1. Len(ss) # 0
  BY EmptySeq
<1>2. FlattenSeq(ss) = f[Len(ss)]
  BY <1>1 DEF FlattenSeq, IsFlat
<1>3. IsFlat(f, ss)
  BY FlatExists
<1>4. QED
  BY <1>2, <1>3

LEMMA FlattenEmpty == FlattenSeq(<<>>) = <<>>
BY DEF FlattenSeq

LEMMA FlattenAppend ==
  ASSUME NEW S, NEW ss \in Seq(Seq(S)), NEW s \in Seq(S)
  PROVE  FlattenSeq(Append(ss, s)) = FlattenSeq(ss) \o s
<1> DEFINE tt == Append(ss, s)
           l == Len(ss)
<1>1. /\ l \in Nat /\ tt \in Seq(Seq(S)) /\ Len(tt) = l + 1 /\ tt # <<>>
      /\ tt[l + 1] = s /\ \A i \in 1 .. l : ss[i] = tt[i]
  BY AppendProperties, LenProperties
<1>2. PICK g : IsFlat(g, tt) /\ FlattenSeq(tt) = g[l + 1]
  <2> HIDE DEF tt, l
  <2>1. QED
    BY <1>1, FlattenIs
<1>3. g[l + 1] = IF l + 1 = 1 THEN tt[l + 1] ELSE g[(l + 1) - 1] \o tt[l + 1]
  <2> HIDE DEF tt, l
  <2>1. l + 1 \in 1 .. Len(tt)
    BY <1>1
  <2>2. QED
    BY <1>2, <2>1 DEF IsFlat
<1>4. CASE ss = <<>>
  <2>1. l = 0
    BY <1>4
  <2>2. FlattenSeq(tt) = s
    BY <1>1, <1>2, <1>3, <2>1
  <2>3. <<>> \o s = s
    BY ConcatEmptySeq
  <2>4. QED
    BY <1>4, <2>2, <2>3, FlattenEmpty
<1>5. CASE ss # <<>>
  <2>1. PICK f : IsFlat(f, ss) /\ FlattenSeq(ss) = f[l]
    BY <1>5, FlattenIs
  <2>2. l \in 1 .. l /\ (l + 1) - 1 = l /\ l + 1 # 1
    BY <1>1, <1>5, EmptySeq
  <2>3. f[l] = g[l]
    <3> HIDE DEF tt
    <3>1. /\ Len(ss) \in Nat /\ Len(tt) \in Nat /\ Len(ss) <= Len(tt)
          /\ \A i \in 1 .. Len(ss) : ss[i] = tt[i]
      BY <1>1
    <3>2. IsFlat(f, ss) /\ IsFlat(g, tt)
      BY <1>2, <2>1
    <3>3. \A i \in 1 .. Len(ss) : f[i] = g[i]
      BY <3>1, <3>2, FlatUnique
    <3>4. QED
      BY <2>2, <3>3
  <2> HIDE DEF tt, l
  <2>4. g[l + 1] = g[l] \o s
    BY <1>1, <1>3, <2>2
  <2>5. QED
    BY <1>2, <2>1, <2>3, <2>4 DEF tt
<1>6. QED
  BY <1>4, <1>5

LEMMA FlattenType ==
  ASSUME NEW S PROVE \A ss \in Seq(Seq(S)) : FlattenSeq(ss) \in Seq(S)
<1> DEFINE X == {ss \in Seq(Seq(S)) : FlattenSeq(ss) \in Seq(S)}
<1>1. <<>> \in X
  BY FlattenEmpty, EmptySeq
<1>2. ASSUME NEW ss \in Seq(Seq(S)), NEW s \in Seq(S), ss \in X PROVE Append(ss, s) \in X
  BY <1>2, FlattenAppend, ConcatProperties, AppendProperties
<1> HIDE DEF X
<1>3. Seq(Seq(S)) \subseteq X
  BY <1>1, <1>2, SeqInduction
<1>4. QED
  BY <1>3 DEF X

LEMMA FlattenConcat ==
  ASSUME NEW S, NEW ss \in Seq(Seq(S))
  PROVE  \A tt \in Seq(Seq(S)) : FlattenSeq(ss \o tt) = FlattenSeq(ss) \o FlattenSeq(tt)
<1> DEFINE X == {tt \in Seq(Seq(S)) : FlattenSeq(ss \o tt) = FlattenSeq(ss) \o FlattenSeq(tt)}
<1>1. <<>> \in X
  <2>1. ss \o <<>> = ss /\ FlattenSeq(ss) \in Seq(S)
    BY ConcatEmptySeq, FlattenType
  <2>2. FlattenSeq(ss) \o <<>> = FlattenSeq(ss)
    BY <2>1, ConcatEmptySeq
  <2>3. QED
    BY <2>1, <2>2, FlattenEmpty, EmptySeq
<1>2. ASSUME NEW tt \in Seq(Seq(S)), NEW s \in Seq(S), tt \in X PROVE Append(tt, s) \in X
  <2>1. ss \o Append(tt, s) = Append(ss \o tt, s)
    <3> DEFINE A == Seq(S)
    <3>1. ss \in Seq(A) /\ tt \in Seq(A) /\ s \in A /\ <<s>> \in Seq(A)
      OBVIOUS
    <3> HIDE DEF A
    <3>2. Append(tt, s) = tt \o <<s>> /\ ss \o tt \in Seq(A)
      BY <3>1, AppendIsConcat, ConcatProperties
    <3>3. Append(ss \o tt, s) = (ss \o tt) \o <<s>>
      BY <3>1, <3>2, AppendIsConcat
    <3>4. QED
      BY <3>1, <3>2, <3>3, ConcatAssociative
  <2>2. ss \o tt \in Seq(Seq(S)) /\ Append(tt, s) \in Seq(Seq(S))
    BY ConcatProperties, AppendProperties
  <2>3. FlattenSeq(ss \o Append(tt, s)) = (FlattenSeq(ss) \o FlattenSeq(tt)) \o s
    BY <1>2, <2>1, <2>2, FlattenAppend
  <2>4. FlattenSeq(ss) \in Seq(S) /\ FlattenSeq(tt) \in Seq(S)
    BY FlattenType
  <2>5. (FlattenSeq(ss) \o FlattenSeq(tt)) \o s = FlattenSeq(ss) \o (FlattenSeq(tt) \o s)
    BY <2>4, ConcatAssociative
  <2>6. QED
    BY <2>2, <2>3, <2>5, FlattenAppend
<1> HIDE DEF X
<1>3. Seq(Seq(S)) \subseteq X
  BY <1>1, <1>2, SeqInduction
<1>4. QED
  BY <1>3 DEF X
-----------------------------------------------------------------------------
(* Total.                                                                     *)
LEMMA MaxExists ==
  \A n \in Nat : \A T \in SUBSET (1 .. n) : T # {} => \E x \in T : \A y \in T : x >= y
<1> DEFINE N == {n \in Nat : \A T \in SUBSET (1 .. n) :
                               T # {} => \E x \in T : \A y \in T : x >= y}
<1>1. 0 \in N
  <2>1. 1 .. 0 = {}
    OBVIOUS
  <2>2. QED
    BY <2>1
<1>2. ASSUME NEW n \in Nat, n \in N PROVE n + 1 \in N
  <2> SUFFICES ASSUME NEW T \in SUBSET (1 .. n + 1), T # {}
               PROVE  \E x \in T : \A y \in T : x >= y
    OBVIOUS
  <2>1. CASE n + 1 \in T
    BY <2>1
  <2>2. CASE n + 1 \notin T
    <3>1. T \in SUBSET (1 .. n)
      BY <2>2
    <3>2. QED
      BY <1>2, <3>1
  <2>3. QED
    BY <2>1, <2>2
<1> HIDE DEF N
<1>3. Nat \subseteq N
  BY <1>1, <1>2, Induction
<1>4. QED
  BY <1>3 DEF N

LEMMA MaxIs ==
  \A n \in Nat : \A T \in SUBSET (1 .. n) :
    T # {} => Max(T) \in T /\ \A y \in T : Max(T) >= y
<1> SUFFICES ASSUME NEW n \in Nat, NEW T \in SUBSET (1 .. n), T # {}
             PROVE  Max(T) \in T /\ \A y \in T : Max(T) >= y
  OBVIOUS
<1>1. \E x \in T : \A y \in T : x >= y
  BY MaxExists
<1>2. QED
  BY <1>1 DEF Max

LEMMA MaxUpTo ==
  ASSUME NEW n \in Nat
  PROVE  Max(1 .. n + 1) = n + 1 /\ (1 .. n + 1) \ {n + 1} = 1 .. n /\ 1 .. n + 1 # {}
<1>1. n + 1 \in 1 .. n + 1
  OBVIOUS
<1>2. Max(1 .. n + 1) \in 1 .. n + 1 /\ Max(1 .. n + 1) >= n + 1
  <2> DEFINE T == 1 .. n + 1
  <2>1. n + 1 \in Nat /\ T \in SUBSET (1 .. n + 1) /\ n + 1 \in T
    OBVIOUS
  <2> HIDE DEF T
  <2>2. Max(T) \in T /\ \A y \in T : Max(T) >= y
    BY <2>1, MaxIs
  <2>3. QED
    BY <2>1, <2>2 DEF T
<1>3. QED
  BY <1>1, <1>2

IsSum(f, n, s) ==
  f = [T \in SUBSET (1 .. n) |-> IF T = {} THEN 0 ELSE f[T \ {Max(T)}] + s[Max(T)]]

LEMMA SumExists ==
  ASSUME NEW s PROVE \A n \in Nat : \E f : IsSum(f, n, s)
<1> DEFINE N == {n \in Nat : \E f : IsSum(f, n, s)}
<1>1. 0 \in N
  <2> DEFINE f == [T \in SUBSET (1 .. 0) |-> 0]
  <2>1. IsSum(f, 0, s)
    BY DEF IsSum
  <2>2. QED
    BY <2>1
<1>2. ASSUME NEW n \in Nat, n \in N PROVE n + 1 \in N
  <2>1. PICK f : IsSum(f, n, s)
    BY <1>2
  <2>2. \A T \in SUBSET (1 .. n) : f[T] = IF T = {} THEN 0 ELSE f[T \ {Max(T)}] + s[Max(T)]
    BY <2>1 DEF IsSum
  <2> DEFINE g == [T \in SUBSET (1 .. n + 1) |->
                     IF T = {} THEN 0 ELSE f[T \ {Max(T)}] + s[Max(T)]]
  <2>3. \A T \in SUBSET (1 .. n) : T \in SUBSET (1 .. n + 1)
    OBVIOUS
  <2>4. \A T \in SUBSET (1 .. n) : g[T] = f[T]
    BY <2>2, <2>3
  <2>5. ASSUME NEW T \in SUBSET (1 .. n + 1), T # {}
        PROVE  T \ {Max(T)} \in SUBSET (1 .. n)
    <3>1. Max(T) \in T /\ \A y \in T : Max(T) >= y
      <4>1. n + 1 \in Nat
        OBVIOUS
      <4>2. QED
        BY <2>5, <4>1, MaxIs
    <3>2. ASSUME NEW y \in T, y # Max(T) PROVE y \in 1 .. n
      <4>1. Max(T) \in 1 .. n + 1 /\ y \in 1 .. n + 1 /\ Max(T) >= y
        BY <3>1
      <4>2. QED
        BY <3>2, <4>1
    <3>3. QED
      BY <3>2
  <2>6. \A T \in SUBSET (1 .. n + 1) : T # {} => g[T \ {Max(T)}] = f[T \ {Max(T)}]
    BY <2>4, <2>5
  <2>7. g = [T \in SUBSET (1 .. n + 1) |->
               IF T = {} THEN 0 ELSE g[T \ {Max(T)}] + s[Max(T)]]
    <3> DEFINE h == [T \in SUBSET (1 .. n + 1) |->
                       IF T = {} THEN 0 ELSE g[T \ {Max(T)}] + s[Max(T)]]
    <3>1. \A T \in SUBSET (1 .. n + 1) : g[T] = h[T]
      <4> HIDE DEF g
      <4>1. \A T \in SUBSET (1 .. n + 1) :
              g[T] = IF T = {} THEN 0 ELSE f[T \ {Max(T)}] + s[Max(T)]
        BY DEF g
      <4>2. QED
        BY <2>6, <4>1
    <3>2. QED
      <4>1. g = [T \in SUBSET (1 .. n + 1) |-> g[T]] /\ h = [T \in SUBSET (1 .. n + 1) |-> h[T]]
        OBVIOUS
      <4> HIDE DEF g, h
      <4>2. g = h
        BY <3>1, <4>1
      <4>3. QED
        BY <4>2 DEF h
  <2> HIDE DEF g
  <2>8. IsSum(g, n + 1, s)
    BY <2>7 DEF IsSum
  <2>9. QED
    BY <2>8
<1> HIDE DEF N
<1>3. Nat \subseteq N
  BY <1>1, <1>2, Induction
<1>4. QED
  BY <1>3 DEF N

(* What a sum of the first elements adds up to, in whatever sequence that     *)
(* begins with them.                                                          *)
LEMMA SumStep ==
  ASSUME NEW n \in Nat, NEW f, NEW s, IsSum(f, n, s)
  PROVE  f[1 .. 0] = 0 /\ \A i \in 0 .. n - 1 : f[1 .. i + 1] = f[1 .. i] + s[i + 1]
<1>1. \A T \in SUBSET (1 .. n) : f[T] = IF T = {} THEN 0 ELSE f[T \ {Max(T)}] + s[Max(T)]
  BY DEF IsSum
<1>2. f[1 .. 0] = 0
  <2>1. 1 .. 0 = {} /\ 1 .. 0 \in SUBSET (1 .. n)
    OBVIOUS
  <2>2. QED
    BY <1>1, <2>1
<1>3. ASSUME NEW i \in 0 .. n - 1 PROVE f[1 .. i + 1] = f[1 .. i] + s[i + 1]
  <2>1. i \in Nat /\ 1 .. i + 1 \in SUBSET (1 .. n)
    BY <1>3
  <2> DEFINE T == 1 .. i + 1
  <2>2. Max(T) = i + 1 /\ T \ {i + 1} = 1 .. i /\ T # {}
    BY <2>1, MaxUpTo
  <2> HIDE DEF T
  <2>3. f[T] = f[T \ {Max(T)}] + s[Max(T)]
    BY <1>1, <2>1, <2>2 DEF T
  <2>4. QED
    BY <2>2, <2>3 DEF T
<1>4. QED
  BY <1>2, <1>3

LEMMA SumUnique ==
  ASSUME NEW m \in Nat, NEW n \in Nat, m <= n, NEW s, NEW t, \A i \in 1 .. m : s[i] = t[i],
         NEW f, IsSum(f, m, s), NEW g, IsSum(g, n, t)
  PROVE  f[1 .. m] = g[1 .. m]
<1> DEFINE N == {i \in Nat : i <= m => f[1 .. i] = g[1 .. i]}
<1>1. /\ f[1 .. 0] = 0 /\ \A i \in 0 .. m - 1 : f[1 .. i + 1] = f[1 .. i] + s[i + 1]
      /\ g[1 .. 0] = 0 /\ \A i \in 0 .. n - 1 : g[1 .. i + 1] = g[1 .. i] + t[i + 1]
  BY SumStep
<1>2. 0 \in N
  BY <1>1
<1>3. ASSUME NEW i \in Nat, i \in N PROVE i + 1 \in N
  <2> SUFFICES ASSUME i + 1 <= m PROVE f[1 .. i + 1] = g[1 .. i + 1]
    OBVIOUS
  <2>1. i \in 0 .. m - 1 /\ i \in 0 .. n - 1 /\ i + 1 \in 1 .. m /\ f[1 .. i] = g[1 .. i]
    BY <1>3
  <2>2. QED
    BY <1>1, <2>1
<1> HIDE DEF N
<1>4. Nat \subseteq N
  BY <1>2, <1>3, Induction
<1>5. QED
  BY <1>4 DEF N

LEMMA TotalIs ==
  ASSUME NEW S, NEW s \in Seq(S)
  PROVE  \E f : IsSum(f, Len(s), s) /\ Total(s) = f[1 .. Len(s)]
<1> DEFINE f == CHOOSE g : IsSum(g, Len(s), s)
<1>1. DOMAIN s = 1 .. Len(s) /\ Len(s) \in Nat
  BY LenProperties
<1>2. Total(s) = f[1 .. Len(s)]
  BY <1>1 DEF Total, FoldLeft, MapThenFoldSet, IsSum
<1>3. IsSum(f, Len(s), s)
  BY <1>1, SumExists
<1>4. QED
  BY <1>2, <1>3

LEMMA TotalEmpty == Total(<<>>) = 0
<1>1. <<>> \in Seq(Int) /\ Len(<<>>) = 0
  BY EmptySeq
<1>2. PICK f : IsSum(f, 0, <<>>) /\ Total(<<>>) = f[1 .. 0]
  BY <1>1, TotalIs
<1>3. QED
  BY <1>2, SumStep

LEMMA TotalAppend ==
  ASSUME NEW S, NEW s \in Seq(S), NEW e \in S
  PROVE  Total(Append(s, e)) = Total(s) + e
<1> DEFINE t == Append(s, e)
           l == Len(s)
<1>1. /\ l \in Nat /\ t \in Seq(S) /\ Len(t) = l + 1 /\ t[l + 1] = e
      /\ \A i \in 1 .. l : s[i] = t[i]
  BY AppendProperties, LenProperties
<1> HIDE DEF t, l
<1>2. PICK f : IsSum(f, l, s) /\ Total(s) = f[1 .. l]
  BY TotalIs DEF l
<1>3. PICK g : IsSum(g, l + 1, t) /\ Total(t) = g[1 .. l + 1]
  BY <1>1, TotalIs
<1>4. f[1 .. l] = g[1 .. l]
  BY <1>1, <1>2, <1>3, SumUnique
<1>5. g[1 .. l + 1] = g[1 .. l] + t[l + 1]
  BY <1>1, <1>3, SumStep
<1>6. QED
  BY <1>1, <1>2, <1>3, <1>4, <1>5 DEF t

LEMMA TotalType == \A s \in Seq(Int) : Total(s) \in Int
<1> DEFINE X == {s \in Seq(Int) : Total(s) \in Int}
<1>1. <<>> \in X
  BY TotalEmpty, EmptySeq
<1>2. ASSUME NEW s \in Seq(Int), NEW e \in Int, s \in X PROVE Append(s, e) \in X
  <2>1. Total(Append(s, e)) = Total(s) + e /\ Append(s, e) \in Seq(Int)
    BY TotalAppend, AppendProperties
  <2>2. QED
    BY <1>2, <2>1
<1> HIDE DEF X
<1>3. Seq(Int) \subseteq X
  BY <1>1, <1>2, SeqInduction
<1>4. QED
  BY <1>3 DEF X

LEMMA TotalConcat ==
  ASSUME NEW s \in Seq(Int)
  PROVE  \A t \in Seq(Int) : Total(s \o t) = Total(s) + Total(t)
<1> DEFINE X == {t \in Seq(Int) : Total(s \o t) = Total(s) + Total(t)}
<1>1. <<>> \in X
  <2>1. s \o <<>> = s /\ Total(s) \in Int /\ <<>> \in Seq(Int)
    BY ConcatEmptySeq, TotalType, EmptySeq
  <2>2. QED
    BY <2>1, TotalEmpty
<1>2. ASSUME NEW t \in Seq(Int), NEW e \in Int, t \in X PROVE Append(t, e) \in X
  <2>1. <<e>> \in Seq(Int) /\ s \o t \in Seq(Int) /\ Append(t, e) \in Seq(Int)
    BY ConcatProperties, AppendProperties
  <2>2. s \o Append(t, e) = Append(s \o t, e)
    BY <2>1, AppendIsConcat, ConcatAssociative
  <2>3. /\ Total(Append(s \o t, e)) = Total(s \o t) + e
        /\ Total(Append(t, e)) = Total(t) + e
    BY <2>1, TotalAppend
  <2>4. Total(s) \in Int /\ Total(t) \in Int
    BY TotalType
  <2>5. Total(s \o t) = Total(s) + Total(t)
    BY <1>2
  <2>6. Total(s \o Append(t, e)) = Total(s) + Total(Append(t, e))
    BY <2>2, <2>3, <2>4, <2>5
  <2>7. QED
    BY <2>1, <2>6
<1> HIDE DEF X
<1>3. Seq(Int) \subseteq X
  BY <1>1, <1>2, SeqInduction
<1>4. QED
  BY <1>3 DEF X

Sizes(s) == [i \in DOMAIN s |-> s[i].size]

LEMMA SizesAre ==
  ASSUME NEW S, \A x \in S : x.size \in Int
  PROVE  \A s \in Seq(S) : /\ Sizes(s) \in Seq(Int) /\ Len(Sizes(s)) = Len(s)
                           /\ \A i \in 1 .. Len(s) : Sizes(s)[i] = s[i].size
<1> SUFFICES ASSUME NEW s \in Seq(S)
             PROVE  /\ Sizes(s) \in Seq(Int) /\ Len(Sizes(s)) = Len(s)
                    /\ \A i \in 1 .. Len(s) : Sizes(s)[i] = s[i].size
  OBVIOUS
<1>1. /\ Len(s) \in Nat /\ DOMAIN s = 1 .. Len(s) /\ \A i \in 1 .. Len(s) : s[i] \in S
  BY LenProperties, ElementOfSeq
<1>2. QED
  BY <1>1 DEF Sizes

LEMMA SizesConcat ==
  ASSUME NEW S, \A x \in S : x.size \in Int, NEW s \in Seq(S), NEW t \in Seq(S)
  PROVE  /\ Sizes(s) \in Seq(Int) /\ Sizes(t) \in Seq(Int)
         /\ Sizes(s \o t) = Sizes(s) \o Sizes(t)
<1> DEFINE u == s \o t
           a == Sizes(s)
           b == Sizes(t)
           c == Sizes(u)
<1>1. /\ u \in Seq(S) /\ Len(u) = Len(s) + Len(t)
      /\ \A i \in 1 .. Len(s) : u[i] = s[i]
      /\ \A i \in 1 .. Len(t) : u[Len(s) + i] = t[i]
  BY ConcatElements
<1> HIDE DEF u
<1>2. /\ a \in Seq(Int) /\ Len(a) = Len(s) /\ \A i \in 1 .. Len(s) : a[i] = s[i].size
      /\ b \in Seq(Int) /\ Len(b) = Len(t) /\ \A i \in 1 .. Len(t) : b[i] = t[i].size
      /\ c \in Seq(Int) /\ Len(c) = Len(u) /\ \A i \in 1 .. Len(u) : c[i] = u[i].size
  <2>1. \A r \in Seq(S) : /\ Sizes(r) \in Seq(Int) /\ Len(Sizes(r)) = Len(r)
                          /\ \A i \in 1 .. Len(r) : Sizes(r)[i] = r[i].size
    BY SizesAre
  <2>2. QED
    BY <1>1, <2>1
<1>3. Len(s) \in Nat /\ Len(t) \in Nat
  BY LenProperties
<1> HIDE DEF a, b, c
<1>4. \A i \in 1 .. Len(a) : c[i] = a[i]
  <2> SUFFICES ASSUME NEW i \in 1 .. Len(s) PROVE c[i] = a[i]
    BY <1>2
  <2>1. i \in 1 .. Len(s) + Len(t)
    BY <1>3
  <2>2. Len(u) = Len(s) + Len(t) /\ u[i] = s[i]
    BY <1>1
  <2>3. QED
    BY <1>2, <2>1, <2>2
<1>5. \A i \in 1 .. Len(b) : c[Len(a) + i] = b[i]
  <2> SUFFICES ASSUME NEW i \in 1 .. Len(t) PROVE c[Len(s) + i] = b[i]
    BY <1>2
  <2>1. Len(s) + i \in 1 .. Len(u)
    BY <1>1, <1>3
  <2>2. QED
    BY <1>1, <1>2, <2>1
<1>6. c = a \o b
  <2>1. Len(c) = Len(a) + Len(b)
    BY <1>1, <1>2
  <2>2. a \in Seq(Int) /\ b \in Seq(Int) /\ c \in Seq(Int)
    BY <1>2
  <2>3. QED
    BY <1>4, <1>5, <2>1, <2>2, ConcatIs
<1>7. QED
  BY <1>2, <1>6 DEF a, b, c, u

LEMMA TotalSizeConcat ==
  ASSUME NEW S, \A x \in S : x.size \in Int, NEW s \in Seq(S), NEW t \in Seq(S)
  PROVE  /\ TotalSize(s \o t) = TotalSize(s) + TotalSize(t)
         /\ TotalSize(s) \in Int /\ TotalSize(t) \in Int
<1>1. \A u : TotalSize(u) = Total(Sizes(u))
  BY DEF TotalSize, Sizes
<1>2. /\ Sizes(s) \in Seq(Int) /\ Sizes(t) \in Seq(Int)
      /\ Sizes(s \o t) = Sizes(s) \o Sizes(t)
  BY SizesConcat
<1>3. QED
  BY <1>1, <1>2, TotalConcat, TotalType

(* The sizes of the parts add up to the size of the whole.                    *)
LEMMA TotalSizeFlatten ==
  ASSUME NEW S, \A x \in S : x.size \in Int
  PROVE  \A ss \in Seq(Seq(S)) :
           /\ TotalSize(FlattenSeq(ss)) = Total([i \in DOMAIN ss |-> TotalSize(ss[i])])
           /\ TotalSize(FlattenSeq(ss)) \in Int
<1> DEFINE PartSizes(ss) == [i \in DOMAIN ss |-> TotalSize(ss[i])]
           X == {ss \in Seq(Seq(S)) : TotalSize(FlattenSeq(ss)) = Total(PartSizes(ss))}
<1>0. \A s \in Seq(S) : TotalSize(s) \in Int
  BY TotalSizeConcat
<1>1. <<>> \in X
  <2>1. PartSizes(<<>>) = <<>>
    OBVIOUS
  <2>2. TotalSize(<<>>) = Total(<<>>)
    <3>1. Sizes(<<>>) = <<>>
      BY DEF Sizes
    <3>2. TotalSize(<<>>) = Total(Sizes(<<>>))
      BY DEF TotalSize, Sizes
    <3>3. QED
      BY <3>1, <3>2
  <2>3. QED
    BY <2>1, <2>2, FlattenEmpty, EmptySeq
<1>2. ASSUME NEW ss \in Seq(Seq(S)), NEW s \in Seq(S), ss \in X PROVE Append(ss, s) \in X
  <2>1. FlattenSeq(Append(ss, s)) = FlattenSeq(ss) \o s /\ FlattenSeq(ss) \in Seq(S)
    BY FlattenAppend, FlattenType
  <2>2. TotalSize(FlattenSeq(Append(ss, s))) = TotalSize(FlattenSeq(ss)) + TotalSize(s)
    BY <2>1, TotalSizeConcat
  <2> DEFINE tt == Append(ss, s)
             A == Seq(S)
             p == PartSizes(ss)
             q == PartSizes(tt)
  <2>3. /\ Len(ss) \in Nat /\ DOMAIN ss = 1 .. Len(ss) /\ \A i \in 1 .. Len(ss) : ss[i] \in A
        /\ tt \in Seq(A) /\ Len(tt) = Len(ss) + 1 /\ DOMAIN tt = 1 .. Len(ss) + 1
        /\ tt[Len(ss) + 1] = s /\ \A i \in 1 .. Len(ss) : tt[i] = ss[i]
    <3> ss \in Seq(A) /\ s \in A
      OBVIOUS
    <3> HIDE DEF A
    <3>1. QED
      BY LenProperties, ElementOfSeq, AppendProperties
  <2>4. p \in Seq(Int) /\ Len(p) = Len(ss) /\ \A i \in 1 .. Len(ss) : p[i] = TotalSize(ss[i])
    BY <1>0, <2>3
  <2> HIDE DEF tt
  <2>5. /\ q \in Seq(Int) /\ Len(q) = Len(ss) + 1
        /\ \A i \in 1 .. Len(ss) + 1 : q[i] = TotalSize(tt[i])
    <3>1. \A i \in 1 .. Len(ss) + 1 : TotalSize(tt[i]) \in Int
      <4>1. \A i \in 1 .. Len(ss) + 1 : tt[i] \in A
        BY <2>3
      <4>2. QED
        BY <1>0, <4>1
    <3>2. QED
      BY <2>3, <3>1
  <2> HIDE DEF p, q
  <2>6. q = Append(p, TotalSize(s))
    <3> DEFINE e == TotalSize(s)
               r == Append(p, e)
    <3>1. e \in Int
      BY <1>0
    <3> HIDE DEF e
    <3>2. /\ r \in Seq(Int) /\ Len(r) = Len(ss) + 1 /\ r[Len(ss) + 1] = e
          /\ \A i \in 1 .. Len(ss) : r[i] = p[i]
      BY <2>4, <3>1, AppendProperties
    <3> HIDE DEF r
    <3>3. \A i \in 1 .. Len(q) : q[i] = r[i]
      <4> SUFFICES ASSUME NEW i \in 1 .. Len(ss) + 1 PROVE q[i] = r[i]
        BY <2>5
      <4>1. CASE i = Len(ss) + 1
        BY <2>3, <2>5, <3>2, <4>1 DEF e
      <4>2. CASE i # Len(ss) + 1
        <5>1. i \in 1 .. Len(ss)
          BY <2>3, <4>2
        <5>2. QED
          BY <2>3, <2>4, <2>5, <3>2, <5>1
      <4>3. QED
        BY <4>1, <4>2
    <3>4. q = r
      BY <2>5, <3>2, <3>3, SeqEqual
    <3>5. QED
      BY <3>4 DEF r, e
  <2>7. Total(q) = Total(p) + TotalSize(s)
    <3>1. TotalSize(s) \in Int
      BY <1>0
    <3>2. QED
      BY <2>4, <2>6, <3>1, TotalAppend
  <2>8. TotalSize(FlattenSeq(ss)) = Total(p)
    BY <1>2 DEF p
  <2>9. TotalSize(FlattenSeq(tt)) = Total(q)
    BY <2>2, <2>7, <2>8 DEF tt
  <2>10. tt \in Seq(A)
    BY <2>3
  <2>11. QED
    BY <2>9, <2>10 DEF q, tt
<1> HIDE DEF X
<1>3. Seq(Seq(S)) \subseteq X
  BY <1>1, <1>2, SeqInduction
<1>4. ASSUME NEW ss \in Seq(Seq(S)) PROVE TotalSize(FlattenSeq(ss)) \in Int
  BY <1>0, FlattenType
<1>5. QED
  BY <1>3, <1>4 DEF X
-----------------------------------------------------------------------------
(* What an object holds whose fields were all set by set_...() or copied from *)
(* such objects: values of their types, and unknown fields that fit none.     *)
LeafTokens == [num : Nat, wire : 0 .. 7, val : Int, size : Int]

TopTokens(k) ==
  {x \in [num : Nat, wire : 0 .. 7, val : Int \cup Seq(LeafTokens), size : Int] :
     \A n \in Numbers(k) :
       x.num = n /\ x.wire = WireType(Type(k, n))
         => IF Type(k, n) \in Nested THEN x.val \in Seq(LeafTokens) ELSE x.val \in Int}

StrangeTokens(k) == {x \in TopTokens(k) : FitsNone(k, x)}

WrittenLeaf(t, v) ==
  (\A n \in Numbers(t) : IsValue(Type(t, n), v.val[n])) /\ v.unknown = <<>>

WrittenMember(k, n, v) ==
  IF IsList(k, n) THEN \A i \in DOMAIN v.all : WrittenLeaf(Type(k, n), v.all[i])
  ELSE IF Type(k, n) \in Nested THEN WrittenLeaf(Type(k, n), v)
  ELSE IsValue(Type(k, n), v)

Written(k, o) ==
  /\ GoodObject(k, o)
  /\ \A n \in Numbers(k) : WrittenMember(k, n, o.val[n])
  /\ o.unknown \in Seq(StrangeTokens(k))
-----------------------------------------------------------------------------
(* Sizes.                                                                     *)
LEMMA CountIs == ASSUME NEW n \in Nat, NEW S \in SUBSET (1 .. n) PROVE 1 + Cardinality(S) \in Nat
<1>1. IsFiniteSet(1 .. n)
  BY FS_Interval
<1>2. Cardinality(S) \in Nat
  BY <1>1, FS_Subset, FS_CardinalityType
<1>3. QED
  BY <1>2

LEMMA VarintSizeIs == \A v : VarintSize32(v) \in Nat
<1> SUFFICES ASSUME NEW v PROVE VarintSize32(v) \in Nat
  OBVIOUS
<1> DEFINE S == {i \in 1 .. 4 : v >= 2 ^ (7 * i)}
<1>1. S \in SUBSET (1 .. 4) /\ 4 \in Nat
  OBVIOUS
<1>2. 1 + Cardinality(S) \in Nat
  <2> HIDE DEF S
  <2>1. QED
    BY <1>1, CountIs
<1>3. QED
  BY <1>2 DEF VarintSize32

LEMMA VarintSize64Is == \A v : VarintSize64(v) \in Nat
<1> SUFFICES ASSUME NEW v PROVE VarintSize64(v) \in Nat
  OBVIOUS
<1> DEFINE rest[i \in 0 .. 8] == IF i = 0 THEN v ELSE rest[i - 1] \div 128
           S == {i \in 1 .. 8 : rest[i] # 0}
<1>1. S \in SUBSET (1 .. 8) /\ 8 \in Nat
  OBVIOUS
<1>2. 1 + Cardinality(S) \in Nat
  <2> HIDE DEF S
  <2>1. QED
    BY <1>1, CountIs
<1>3. QED
  BY <1>2 DEF VarintSize64

LEMMA PrimitiveSizeIs ==
  ASSUME NEW t \in Primitives, NEW v \in Int
  PROVE  PrimitiveSize(t, v) \in Int
BY VarintSizeIs, VarintSize64Is DEF PrimitiveSize, VarintSizeSigned, Primitives

LEMMA WireTypeIs == \A t : WireType(t) \in 0 .. 7
BY DEF WireType

LEMMA WireTypeOfNested == \A t \in Nested : WireType(t) = 2
BY DEF WireType, Nested

LEMMA PrimitiveTokenIs ==
  ASSUME NEW n \in Nat, NEW t \in Primitives, NEW v \in Int
  PROVE  /\ PrimitiveToken(n, t, v) \in LeafTokens
         /\ PrimitiveToken(n, t, v).num = n /\ PrimitiveToken(n, t, v).wire = WireType(t)
         /\ PrimitiveToken(n, t, v).val = v
         /\ PrimitiveToken(n, t, v).size =
              VarintSize32(MakeTag(n, WireType(t))) + PrimitiveSize(t, v)
<1>1. /\ VarintSize32(MakeTag(n, WireType(t))) \in Nat /\ PrimitiveSize(t, v) \in Int
      /\ WireType(t) \in 0 .. 7
  BY VarintSizeIs, PrimitiveSizeIs, WireTypeIs
<1>2. QED
  BY <1>1 DEF PrimitiveToken, LeafTokens

(* What the rows of ByteSize and of SerializeWithCachedSizes say.             *)
LEMMA WriteRow ==
  ASSUME NEW k \in Classes, NEW i \in DOMAIN Write!Table[k]
  PROVE  /\ Write!Table[k][i][1] \in Numbers(k) /\ Write!Table[k][i][1] \in Nat
         /\ Write!Table[k][i][2] = Type(k, Write!Table[k][i][1])
         /\ Write!Table[k][i][2] \in Primitives \cup Nested
<1>1. WriteAgrees(k)
  BY MessagesAssumption DEF Classes
<1>2. /\ Write!Table[k][i][1] \in Numbers(k)
      /\ Write!Table[k][i][2] = Type(k, Write!Table[k][i][1])
  BY <1>1 DEF WriteAgrees, Covers
<1>3. HasBitsAgree(k, Write!Table[k][i][1])
  BY <1>2, TablesAgree
<1>4. QED
  BY <1>2, <1>3 DEF HasBitsAgree

LEMMA WriteRows ==
  ASSUME NEW k \in Classes
  PROVE  Len(Write!Table[k]) \in Nat /\ DOMAIN Write!Table[k] = 1 .. Len(Write!Table[k])
<1>1. Write!Table[k] \in Seq(Nat \X (Primitives \cup Nested))
  BY MessagesAssumption DEF Classes, WriteAgrees
<1>2. QED
  BY <1>1, LenProperties

SameBytes(a, b) == a = b \/ <<a, b>> \in {<<"fixed1", "bool">>, <<"fixed8", "double">>}

LEMMA SizeRow ==
  ASSUME NEW k \in Classes
  PROVE  /\ DOMAIN Size!Table[k] = DOMAIN Write!Table[k]
         /\ \A i \in DOMAIN Write!Table[k] :
              LET row == Size!Table[k][i]
                  n == Write!Table[k][i][1]
                  t == Write!Table[k][i][2]
              IN  /\ row[1] = n /\ row[2] = VarintSize32(MakeTag(n, WireType(t)))
                  /\ SameBytes(row[3], t) /\ Guards(k, n, row[4])
<1>1. SizeAgrees(k)
  BY MessagesAssumption DEF Classes
<1>2. QED
  BY <1>1 DEF SizeAgrees, SameBytes

LEMMA SameSize ==
  ASSUME NEW a, NEW t \in Primitives \cup Nested, SameBytes(a, t), NEW v
  PROVE  SizeOfValue(a, v) = SizeOfValue(t, v) /\ PrimitiveSize(a, v) = PrimitiveSize(t, v)
<1>1. CASE a = t
  BY <1>1
<1>2. CASE a = "fixed1" /\ t = "bool"
  BY <1>2 DEF SizeOfValue, PrimitiveSize, Nested
<1>3. CASE a = "fixed8" /\ t = "double"
  BY <1>3 DEF SizeOfValue, PrimitiveSize, Nested
<1>4. QED
  BY <1>1, <1>2, <1>3 DEF SameBytes

LEMMA TotalOne ==
  ASSUME NEW e \in Int PROVE Total(<<e>>) = e
<1>1. <<>> \in Seq(Int) /\ Append(<<>>, e) = <<e>>
  BY EmptySeq, AppendFirst
<1>2. Total(<<e>>) = 0 + e
  BY <1>1, TotalAppend, TotalEmpty
<1>3. QED
  BY <1>2

LEMMA TotalSizeOne ==
  ASSUME NEW x, x.size \in Int PROVE TotalSize(<<x>>) = x.size
<1>1. [i \in DOMAIN <<x>> |-> <<x>>[i].size] = <<x.size>>
  OBVIOUS
<1>2. QED
  BY <1>1, TotalOne DEF TotalSize

LEMMA TotalSizeEmpty == TotalSize(<<>>) = 0
<1>1. [i \in DOMAIN <<>> |-> <<>>[i].size] = <<>>
  OBVIOUS
<1>2. QED
  BY <1>1, TotalEmpty DEF TotalSize

(* The fields of an object that are written for a row, and what ByteSize      *)
(* counts for it.                                                             *)
LeafPart(t, o, i) ==
  LET row == Write!Table[t][i] IN
  IF IsList(t, row[1])
  THEN [j \in 1 .. o.val[row[1]].size |-> PrimitiveToken(row[1], row[2], o.val[row[1]].all[j])]
  ELSE IF Has(t, o, row[1]) THEN <<PrimitiveToken(row[1], row[2], o.val[row[1]])>> ELSE <<>>

LeafSize(t, o, i) ==
  LET row == Size!Table[t][i]
      elements == IF IsList(t, row[1]) THEN Elements(o.val[row[1]])
                  ELSE IF Has(t, o, row[1]) THEN <<o.val[row[1]]>> ELSE <<>>
  IN  IF AnyBit(o, row[4])
      THEN Total([j \in DOMAIN elements |-> row[2] + PrimitiveSize(row[3], elements[j])])
      ELSE 0

Part(k, o, i) ==
  LET row == Write!Table[k][i] IN
  IF IsList(k, row[1])
  THEN [j \in 1 .. o.val[row[1]].size |-> TokenOf(row[1], row[2], o.val[row[1]].all[j])]
  ELSE IF Has(k, o, row[1]) THEN <<TokenOf(row[1], row[2], o.val[row[1]])>> ELSE <<>>

PartSize(k, o, i) ==
  LET row == Size!Table[k][i]
      elements == IF IsList(k, row[1]) THEN Elements(o.val[row[1]])
                  ELSE IF Has(k, o, row[1]) THEN <<o.val[row[1]]>> ELSE <<>>
  IN  IF AnyBit(o, row[4])
      THEN Total([j \in DOMAIN elements |-> row[2] + SizeOfValue(row[3], elements[j])])
      ELSE 0

SerializeLeaf(t, o) == SerializeWith(t, o, PrimitiveToken)

LEMMA PartsAre ==
  \A k, o :
    /\ Serialize(k, o) = FlattenSeq([i \in DOMAIN Write!Table[k] |-> Part(k, o, i)]) \o o.unknown
    /\ ByteSize(k, o) = Total([i \in DOMAIN Size!Table[k] |-> PartSize(k, o, i)])
                          + TotalSize(o.unknown)
    /\ SerializeLeaf(k, o) =
         FlattenSeq([i \in DOMAIN Write!Table[k] |-> LeafPart(k, o, i)]) \o o.unknown
    /\ ByteSizeLeaf(k, o) = Total([i \in DOMAIN Size!Table[k] |-> LeafSize(k, o, i)])
                              + TotalSize(o.unknown)
BY DEF Serialize, SerializeLeaf, SerializeWith, Part, LeafPart,
       ByteSize, ByteSizeLeaf, ByteSizeWith, PartSize, LeafSize

(* Sums of parts that are equal, one by one.                                  *)
LEMMA PartsAddUp ==
  ASSUME NEW S, \A x \in S : x.size \in Int
  PROVE  \A parts, sizes : \A m \in Nat : \A rest \in Seq(S) :
           /\ parts = [i \in 1 .. m |-> parts[i]] /\ \A i \in 1 .. m : parts[i] \in Seq(S)
           /\ sizes = [i \in 1 .. m |-> TotalSize(parts[i])]
           => /\ FlattenSeq(parts) \o rest \in Seq(S)
              /\ Total(sizes) + TotalSize(rest) = TotalSize(FlattenSeq(parts) \o rest)
<1> SUFFICES
      ASSUME NEW parts, NEW sizes, NEW m \in Nat, NEW rest \in Seq(S),
             parts = [i \in 1 .. m |-> parts[i]], \A i \in 1 .. m : parts[i] \in Seq(S),
             sizes = [i \in 1 .. m |-> TotalSize(parts[i])]
      PROVE  /\ FlattenSeq(parts) \o rest \in Seq(S)
             /\ Total(sizes) + TotalSize(rest) = TotalSize(FlattenSeq(parts) \o rest)
  OBVIOUS
<1>1. parts \in Seq(Seq(S)) /\ DOMAIN parts = 1 .. m
  <2> DEFINE A == Seq(S)
  <2>1. \A i \in 1 .. m : parts[i] \in A
    OBVIOUS
  <2> HIDE DEF A
  <2>2. parts \in Seq(A) /\ DOMAIN parts = 1 .. m
    BY <2>1
  <2>3. QED
    BY <2>2 DEF A
<1>2. TotalSize(FlattenSeq(parts)) = Total(sizes)
  <2>1. sizes = [i \in DOMAIN parts |-> TotalSize(parts[i])]
    BY <1>1
  <2>2. QED
    BY <1>1, <2>1, TotalSizeFlatten
<1>3. FlattenSeq(parts) \in Seq(S)
  BY <1>1, FlattenType
<1>4. TotalSize(FlattenSeq(parts) \o rest) = TotalSize(FlattenSeq(parts)) + TotalSize(rest)
  BY <1>3, TotalSizeConcat
<1>5. QED
  BY <1>2, <1>3, <1>4, ConcatProperties

LEMMA LeafPartIs ==
  ASSUME NEW t \in Nested, NEW o, GoodLeaf(t, o), WrittenLeaf(t, o),
         NEW i \in DOMAIN Write!Table[t]
  PROVE  LeafPart(t, o, i) \in Seq(LeafTokens) /\ LeafSize(t, o, i) = TotalSize(LeafPart(t, o, i))
<1> DEFINE n == Write!Table[t][i][1]
           type == Write!Table[t][i][2]
           row == Size!Table[t][i]
           v == o.val[n]
           x == PrimitiveToken(n, type, v)
<1>1. t \in Classes /\ n \in Numbers(t) /\ n \in Nat /\ type = Type(t, n)
  BY LeafHasScalars, WriteRow DEF Classes
<1>2. ~ IsList(t, n) /\ type \in Primitives
  BY <1>1, LeafHasScalars, WriteRow DEF Scalar
<1>3. row[1] = n /\ row[2] = VarintSize32(MakeTag(n, WireType(type))) /\ SameBytes(row[3], type)
      /\ Guards(t, n, row[4])
  BY <1>1, SizeRow
<1>4. v \in Int
  BY <1>1 DEF WrittenLeaf, IsValue
<1>5. /\ x \in LeafTokens /\ x.size = row[2] + PrimitiveSize(row[3], v)
      /\ x.size \in Int
  <2> HIDE DEF n, type, row, v
  <2>1. PrimitiveSize(row[3], v) = PrimitiveSize(type, v)
    BY <1>2, <1>3, SameSize
  <2>2. x \in LeafTokens /\ x.size = row[2] + PrimitiveSize(row[3], v)
    BY <1>1, <1>2, <1>3, <1>4, <2>1, PrimitiveTokenIs
  <2>3. QED
    BY <2>2 DEF LeafTokens
<1> HIDE DEF x, row
<1>6. CASE Has(t, o, n)
  <2>1. AnyBit(o, row[4])
    BY <1>3, <1>6, GuardIs
  <2>2. LeafPart(t, o, i) = <<x>>
    BY <1>2, <1>6 DEF LeafPart, x
  <2>3. LeafSize(t, o, i) = Total([j \in DOMAIN <<v>> |-> row[2] + PrimitiveSize(row[3], <<v>>[j])])
    BY <1>2, <1>3, <1>6, <2>1 DEF LeafSize, row
  <2>4. [j \in DOMAIN <<v>> |-> row[2] + PrimitiveSize(row[3], <<v>>[j])]
          = <<row[2] + PrimitiveSize(row[3], v)>>
    OBVIOUS
  <2>5. QED
    BY <1>5, <2>2, <2>3, <2>4, TotalOne, TotalSizeOne
<1>7. CASE ~ Has(t, o, n)
  <2>1. LeafPart(t, o, i) = <<>>
    BY <1>2, <1>7 DEF LeafPart
  <2>2. LeafSize(t, o, i) = 0
    <3>1. LeafSize(t, o, i) = 0 \/
          LeafSize(t, o, i) = Total([j \in DOMAIN <<>> |-> row[2] + PrimitiveSize(row[3], <<>>[j])])
      BY <1>2, <1>3, <1>7 DEF LeafSize, row
    <3>2. [j \in DOMAIN <<>> |-> row[2] + PrimitiveSize(row[3], <<>>[j])] = <<>>
      OBVIOUS
    <3>3. QED
      BY <3>1, <3>2, TotalEmpty
  <2>3. QED
    BY <2>1, <2>2, TotalSizeEmpty, EmptySeq
<1>8. QED
  BY <1>6, <1>7

LEMMA LeafSizeIsExact ==
  ASSUME NEW t \in Nested, NEW o, GoodLeaf(t, o), WrittenLeaf(t, o)
  PROVE  /\ SerializeLeaf(t, o) \in Seq(LeafTokens)
         /\ ByteSizeLeaf(t, o) = TotalSize(SerializeLeaf(t, o))
<1> DEFINE m == Len(Write!Table[t])
           parts == [i \in 1 .. m |-> LeafPart(t, o, i)]
           sizes == [i \in 1 .. m |-> LeafSize(t, o, i)]
<1>1. t \in Classes /\ m \in Nat /\ DOMAIN Write!Table[t] = 1 .. m /\ DOMAIN Size!Table[t] = 1 .. m
  BY WriteRows, SizeRow DEF Classes
<1>2. /\ SerializeLeaf(t, o) = FlattenSeq(parts) \o <<>>
      /\ ByteSizeLeaf(t, o) = Total(sizes) + TotalSize(<<>>)
  BY <1>1, PartsAre DEF WrittenLeaf
<1>3. \A i \in 1 .. m : LeafPart(t, o, i) \in Seq(LeafTokens)
                        /\ LeafSize(t, o, i) = TotalSize(LeafPart(t, o, i))
  BY <1>1, LeafPartIs
<1> HIDE DEF m
<1>4. /\ \A i \in 1 .. m : parts[i] \in Seq(LeafTokens)
      /\ parts = [i \in 1 .. m |-> parts[i]] /\ sizes = [i \in 1 .. m |-> TotalSize(parts[i])]
  BY <1>3
<1> HIDE DEF parts, sizes
<1>5. (\A x \in LeafTokens : x.size \in Int) /\ <<>> \in Seq(LeafTokens)
  BY EmptySeq DEF LeafTokens
<1>6. /\ FlattenSeq(parts) \o <<>> \in Seq(LeafTokens)
      /\ Total(sizes) + TotalSize(<<>>) = TotalSize(FlattenSeq(parts) \o <<>>)
  <2>1. \A p, z : \A c \in Nat : \A rest \in Seq(LeafTokens) :
          /\ p = [i \in 1 .. c |-> p[i]] /\ \A i \in 1 .. c : p[i] \in Seq(LeafTokens)
          /\ z = [i \in 1 .. c |-> TotalSize(p[i])]
          => /\ FlattenSeq(p) \o rest \in Seq(LeafTokens)
             /\ Total(z) + TotalSize(rest) = TotalSize(FlattenSeq(p) \o rest)
    BY <1>5, PartsAddUp
  <2>2. QED
    BY <1>1, <1>4, <1>5, <2>1
<1>7. QED
  BY <1>2, <1>6

LEMMA RawTokensAre ==
  /\ \A x \in LeafTokens : x.size \in Int
  /\ \A k : \A x \in TopTokens(k) : x.size \in Int
BY DEF LeafTokens, TopTokens

LEMMA TokensSize ==
  ASSUME NEW m \in Int, NEW f, f = [i \in 1 .. m |-> f[i]],
         NEW z, z = [i \in 1 .. m |-> f[i].size]
  PROVE  Total(z) = TotalSize(f)
<1>1. DOMAIN f = 1 .. m
  OBVIOUS
<1>2. z = [i \in DOMAIN f |-> f[i].size]
  BY <1>1
<1>3. QED
  BY <1>2 DEF TotalSize

(* The token of a nested message: its size is that which is counted for it.   *)
LEMMA NestedTokenIs ==
  ASSUME NEW k \in Classes, NEW n \in Numbers(k), NEW t \in Nested, t = Type(k, n), n \in Nat,
         NEW e, GoodLeaf(t, e), WrittenLeaf(t, e)
  PROVE  /\ TokenOf(n, t, e) \in TopTokens(k)
         /\ TokenOf(n, t, e).num = n /\ TokenOf(n, t, e).wire = 2
         /\ TokenOf(n, t, e).val = SerializeLeaf(t, e)
         /\ TokenOf(n, t, e).size =
              VarintSize32(MakeTag(n, WireType(t))) + SizeOfValue(t, e)
<1> DEFINE in == SerializeLeaf(t, e)
           a == VarintSize32(MakeTag(n, 2))
           b == VarintSize32(ByteSizeLeaf(t, e))
           x == [num |-> n, wire |-> 2, val |-> in, size |-> a + b + TotalSize(in)]
<1>1. TokenOf(n, t, e) = x
  BY DEF TokenOf, SerializeLeaf
<1>2. in \in Seq(LeafTokens) /\ ByteSizeLeaf(t, e) = TotalSize(in)
  BY LeafSizeIsExact
<1>3. SizeOfValue(t, e) = b + TotalSize(in)
  BY <1>2 DEF SizeOfValue
<1>4. WireType(t) = 2
  BY WireTypeOfNested
<1>5. a \in Nat /\ b \in Nat /\ TotalSize(in) \in Int
  <2>1. TotalSize(in) \in Int
    BY <1>2, RawTokensAre, TotalSizeConcat
  <2>2. QED
    BY <2>1, VarintSizeIs
<1> HIDE DEF in, a, b
<1>6. x \in TopTokens(k)
  BY <1>2, <1>5 DEF TopTokens
<1>7. x.size = a + (b + TotalSize(in))
  BY <1>5
<1>8. QED
  BY <1>1, <1>3, <1>4, <1>6, <1>7 DEF in, a

LEMMA ScalarTokenIs ==
  ASSUME NEW k \in Classes, NEW n \in Numbers(k), NEW t \in Primitives, t = Type(k, n), n \in Nat,
         NEW v \in Int
  PROVE  /\ TokenOf(n, t, v) \in TopTokens(k) /\ TokenOf(n, t, v) \in LeafTokens
         /\ TokenOf(n, t, v).num = n /\ TokenOf(n, t, v).wire = WireType(t)
         /\ TokenOf(n, t, v).val = v
         /\ TokenOf(n, t, v).size = VarintSize32(MakeTag(n, WireType(t))) + SizeOfValue(t, v)
<1>1. t \notin Nested
  BY DEF Primitives, Nested
<1>2. TokenOf(n, t, v) = PrimitiveToken(n, t, v) /\ SizeOfValue(t, v) = PrimitiveSize(t, v)
  BY <1>1 DEF TokenOf, SizeOfValue
<1> DEFINE x == PrimitiveToken(n, t, v)
<1>3. /\ x \in LeafTokens /\ x.num = n /\ x.wire = WireType(t) /\ x.val = v
      /\ x.size = VarintSize32(MakeTag(n, WireType(t))) + PrimitiveSize(t, v)
  BY PrimitiveTokenIs
<1> HIDE DEF x
<1>4. x \in TopTokens(k)
  <2>1. x \in [num : Nat, wire : 0 .. 7, val : Int \cup Seq(LeafTokens), size : Int]
    BY <1>3 DEF LeafTokens
  <2>2. QED
    BY <1>1, <1>3, <2>1 DEF TopTokens
<1>5. QED
  BY <1>2, <1>3, <1>4 DEF x

(* What is written for a value of the field n, be it of a list or not.        *)
LEMMA TokenIs ==
  ASSUME NEW k \in Classes, NEW n \in Numbers(k), NEW t, t = Type(k, n), n \in Nat,
         t \in Primitives \cup Nested, NEW v,
         t \in Nested => GoodLeaf(t, v) /\ WrittenLeaf(t, v), t \notin Nested => v \in Int
  PROVE  /\ TokenOf(n, t, v) \in TopTokens(k)
         /\ TokenOf(n, t, v).size = VarintSize32(MakeTag(n, WireType(t))) + SizeOfValue(t, v)
         /\ TokenOf(n, t, v).size \in Int
         /\ TokenOf(n, t, v).num = n /\ TokenOf(n, t, v).wire = WireType(t)
         /\ TokenOf(n, t, v).val = IF t \in Nested THEN SerializeLeaf(t, v) ELSE v
<1>1. \A x \in TopTokens(k) : x.size \in Int
  BY RawTokensAre
<1>2. CASE t \in Nested
  BY <1>1, <1>2, NestedTokenIs, WireTypeOfNested
<1>3. CASE t \notin Nested
  BY <1>1, <1>3, ScalarTokenIs
<1>4. QED
  BY <1>2, <1>3

(* The elements of a list.                                                    *)
LEMMA ElementsAre ==
  ASSUME NEW t, NEW list, GoodList(t, list)
  PROVE  /\ list.size \in Nat /\ 1 .. list.size \subseteq DOMAIN list.all
         /\ DOMAIN Elements(list) = 1 .. list.size
         /\ \A j \in 1 .. list.size : /\ Elements(list)[j] = list.all[j]
                                      /\ GoodLeaf(t, list.all[j])
<1> DEFINE a == list.all
           s == list.size
<1>1. PICK m \in Nat : s \in 0 .. m /\ a = [i \in 1 .. m |-> a[i]]
  BY DEF GoodList
<1>2. s \in Nat /\ s <= m /\ DOMAIN a = 1 .. m
  BY <1>1
<1>3. \A j \in 1 .. s : j \in DOMAIN a /\ GoodLeaf(t, a[j])
  <2>1. \A j \in 1 .. s : j \in DOMAIN a /\ ~ (j > s)
    BY <1>2
  <2>2. QED
    BY <2>1 DEF GoodList
<1> DEFINE S == {a[i] : i \in 1 .. m}
<1>4. a \in Seq(S) /\ Len(a) = m
  BY <1>1
<1> HIDE DEF S, a, s
<1>5. /\ Len(SubSeq(a, 1, s)) = s /\ DOMAIN SubSeq(a, 1, s) = 1 .. s
      /\ \A j \in 1 .. s : SubSeq(a, 1, s)[j] = a[j]
  BY <1>2, <1>4
<1>6. QED
  BY <1>2, <1>3, <1>5 DEF Elements, a, s

LEMMA WrittenElements ==
  ASSUME NEW k, NEW o, Written(k, o), NEW n \in Numbers(k), IsList(k, n), k \in Classes
  PROVE  LET list == o.val[n] IN
         /\ Type(k, n) \in Nested
         /\ list.size \in Nat /\ DOMAIN Elements(list) = 1 .. list.size
         /\ \A j \in 1 .. list.size : /\ Elements(list)[j] = list.all[j]
                                      /\ GoodLeaf(Type(k, n), list.all[j])
                                      /\ WrittenLeaf(Type(k, n), list.all[j])
<1> DEFINE list == o.val[n]
<1>1. GoodList(Type(k, n), list)
  BY DEF Written, GoodObject, GoodMember
<1>2. Type(k, n) \in Nested
  BY TablesAgree DEF HasBitsAgree
<1>3. \A j \in DOMAIN list.all : WrittenLeaf(Type(k, n), list.all[j])
  BY DEF Written, WrittenMember
<1> HIDE DEF list
<1>4. /\ list.size \in Nat /\ 1 .. list.size \subseteq DOMAIN list.all
      /\ DOMAIN Elements(list) = 1 .. list.size
      /\ \A j \in 1 .. list.size : /\ Elements(list)[j] = list.all[j]
                                   /\ GoodLeaf(Type(k, n), list.all[j])
  BY <1>1, ElementsAre
<1>5. QED
  BY <1>2, <1>3, <1>4 DEF list

LEMMA WrittenSingle ==
  ASSUME NEW k, NEW o, Written(k, o), NEW n \in Numbers(k), ~ IsList(k, n), k \in Classes
  PROVE  /\ Type(k, n) \in Nested => GoodLeaf(Type(k, n), o.val[n])
                                     /\ WrittenLeaf(Type(k, n), o.val[n])
         /\ Type(k, n) \notin Nested => IsValue(Type(k, n), o.val[n])
BY DEF Written, GoodObject, GoodMember, WrittenMember

LEMMA ListPartIs ==
  ASSUME NEW k \in Classes, NEW o, Written(k, o), NEW i \in DOMAIN Write!Table[k],
         IsList(k, Write!Table[k][i][1])
  PROVE  Part(k, o, i) \in Seq(TopTokens(k)) /\ PartSize(k, o, i) = TotalSize(Part(k, o, i))
<1> DEFINE n == Write!Table[k][i][1]
           type == Write!Table[k][i][2]
           row == Size!Table[k][i]
           list == o.val[n]
           e == Elements(list)
           f == [j \in 1 .. list.size |-> TokenOf(n, type, list.all[j])]
           z == [j \in 1 .. list.size |-> row[2] + SizeOfValue(row[3], e[j])]
<1>1. n \in Numbers(k) /\ n \in Nat /\ type = Type(k, n) /\ type \in Primitives \cup Nested
  BY WriteRow
<1>2. row[1] = n /\ row[2] = VarintSize32(MakeTag(n, WireType(type))) /\ SameBytes(row[3], type)
      /\ Guards(k, n, row[4])
  BY <1>1, SizeRow
<1>3. /\ type \in Nested
      /\ list.size \in Nat /\ DOMAIN e = 1 .. list.size
      /\ \A j \in 1 .. list.size : /\ e[j] = list.all[j] /\ GoodLeaf(type, list.all[j])
                                   /\ WrittenLeaf(type, list.all[j])
  BY <1>1, WrittenElements, SMTT(30)
<1>4. AnyBit(o, row[4])
  BY <1>1, <1>2, GuardIs
<1>5. Part(k, o, i) = f /\ PartSize(k, o, i) = Total(z)
  BY <1>2, <1>3, <1>4, Zenon DEF Part, PartSize, Elements
<1> HIDE DEF n, type, row, list, e
<1>6. ASSUME NEW j \in 1 .. list.size
      PROVE  f[j] \in TopTokens(k) /\ z[j] = f[j].size
  <2>1. SizeOfValue(row[3], e[j]) = SizeOfValue(type, e[j])
    BY <1>1, <1>2, SameSize
  <2>2. /\ TokenOf(n, type, list.all[j]) \in TopTokens(k)
        /\ TokenOf(n, type, list.all[j]).size = row[2] + SizeOfValue(type, list.all[j])
    BY <1>1, <1>2, <1>3, TokenIs
  <2>3. QED
    BY <1>3, <2>1, <2>2
<1> DEFINE c == list.size
<1>7. c \in Nat /\ f = [j \in 1 .. c |-> f[j]] /\ z = [j \in 1 .. c |-> f[j].size]
  <2>1. f = [j \in 1 .. c |-> f[j]] /\ z = [j \in 1 .. c |-> z[j]]
    OBVIOUS
  <2>2. \A j \in 1 .. c : z[j] = f[j].size
    BY <1>6
  <2> HIDE DEF f, z
  <2>3. QED
    BY <1>3, <2>1, <2>2 DEF c
<1> HIDE DEF f, z
<1>8. Total(z) = TotalSize(f)
  <2> HIDE DEF c
  <2>1. c \in Int
    BY <1>7
  <2>2. QED
    BY <1>7, <2>1, TokensSize
<1>9. f \in Seq(TopTokens(k))
  <2>1. \A j \in 1 .. c : f[j] \in TopTokens(k)
    BY <1>6
  <2> HIDE DEF c
  <2>2. QED
    BY <1>7, <2>1
<1>10. QED
  BY <1>5, <1>8, <1>9

LEMMA SinglePartIs ==
  ASSUME NEW k \in Classes, NEW o, Written(k, o), NEW i \in DOMAIN Write!Table[k],
         ~ IsList(k, Write!Table[k][i][1])
  PROVE  Part(k, o, i) \in Seq(TopTokens(k)) /\ PartSize(k, o, i) = TotalSize(Part(k, o, i))
<1> DEFINE n == Write!Table[k][i][1]
           type == Write!Table[k][i][2]
           row == Size!Table[k][i]
           v == o.val[n]
           x == TokenOf(n, type, v)
<1>1. n \in Numbers(k) /\ n \in Nat /\ type = Type(k, n) /\ type \in Primitives \cup Nested
  BY WriteRow
<1>2. row[1] = n /\ row[2] = VarintSize32(MakeTag(n, WireType(type))) /\ SameBytes(row[3], type)
      /\ Guards(k, n, row[4])
  BY <1>1, SizeRow
<1>3. /\ type \in Nested => GoodLeaf(type, v) /\ WrittenLeaf(type, v)
      /\ type \notin Nested => v \in Int
  BY <1>1, WrittenSingle DEF IsValue
<1>4. x \in TopTokens(k) /\ x.size = row[2] + SizeOfValue(row[3], v) /\ x.size \in Int
  <2> HIDE DEF n, type, row, v
  <2>1. SizeOfValue(row[3], v) = SizeOfValue(type, v)
    BY <1>1, <1>2, SameSize
  <2>2. QED
    BY <1>1, <1>2, <1>3, <2>1, TokenIs
<1> HIDE DEF x, row
<1>5. CASE Has(k, o, n)
  <2>1. AnyBit(o, row[4])
    BY <1>2, <1>5, GuardIs
  <2>2. Part(k, o, i) = <<x>>
    BY <1>5 DEF Part, x
  <2>3. PartSize(k, o, i) = Total([j \in DOMAIN <<v>> |-> row[2] + SizeOfValue(row[3], <<v>>[j])])
    BY <1>2, <1>5, <2>1 DEF PartSize, row
  <2>4. [j \in DOMAIN <<v>> |-> row[2] + SizeOfValue(row[3], <<v>>[j])]
          = <<row[2] + SizeOfValue(row[3], v)>>
    OBVIOUS
  <2>5. QED
    BY <1>4, <2>2, <2>3, <2>4, TotalOne, TotalSizeOne
<1>6. CASE ~ Has(k, o, n)
  <2>1. Part(k, o, i) = <<>>
    BY <1>6 DEF Part
  <2>2. PartSize(k, o, i) = 0
    <3>1. PartSize(k, o, i) = 0 \/
          PartSize(k, o, i) = Total([j \in DOMAIN <<>> |-> row[2] + SizeOfValue(row[3], <<>>[j])])
      BY <1>2, <1>6 DEF PartSize, row
    <3>2. [j \in DOMAIN <<>> |-> row[2] + SizeOfValue(row[3], <<>>[j])] = <<>>
      OBVIOUS
    <3>3. QED
      BY <3>1, <3>2, TotalEmpty
  <2>3. QED
    BY <2>1, <2>2, TotalSizeEmpty, EmptySeq
<1>7. QED
  BY <1>5, <1>6

(* ByteSize of an object whose fields all hold values of their types.         *)
LEMMA SizeIsExactFor ==
  ASSUME NEW k \in Classes, NEW o, Written(k, o)
  PROVE  /\ Serialize(k, o) \in Seq(TopTokens(k))
         /\ ByteSize(k, o) = TotalSize(Serialize(k, o))
<1> DEFINE m == Len(Write!Table[k])
           parts == [i \in 1 .. m |-> Part(k, o, i)]
           sizes == [i \in 1 .. m |-> PartSize(k, o, i)]
           S == TopTokens(k)
           u == o.unknown
<1>1. m \in Nat /\ DOMAIN Write!Table[k] = 1 .. m /\ DOMAIN Size!Table[k] = 1 .. m
  BY WriteRows, SizeRow
<1>2. /\ Serialize(k, o) = FlattenSeq(parts) \o u
      /\ ByteSize(k, o) = Total(sizes) + TotalSize(u)
  BY <1>1, PartsAre
<1>3. \A i \in 1 .. m : Part(k, o, i) \in Seq(S) /\ PartSize(k, o, i) = TotalSize(Part(k, o, i))
  <2> SUFFICES ASSUME NEW i \in DOMAIN Write!Table[k]
               PROVE  Part(k, o, i) \in Seq(S) /\ PartSize(k, o, i) = TotalSize(Part(k, o, i))
    BY <1>1
  <2>1. QED
    BY ListPartIs, SinglePartIs
<1>4. \A x \in S : x.size \in Int
  BY RawTokensAre
<1>5. u \in Seq(S)
  <2>1. u \in Seq(StrangeTokens(k)) /\ StrangeTokens(k) \subseteq S
    BY DEF Written, StrangeTokens
  <2>2. QED
    BY <2>1
<1> HIDE DEF m, S, u
<1>6. /\ \A i \in 1 .. m : parts[i] \in Seq(S)
      /\ parts = [i \in 1 .. m |-> parts[i]] /\ sizes = [i \in 1 .. m |-> TotalSize(parts[i])]
  BY <1>3
<1> HIDE DEF parts, sizes
<1>7. /\ FlattenSeq(parts) \o u \in Seq(S)
      /\ Total(sizes) + TotalSize(u) = TotalSize(FlattenSeq(parts) \o u)
  <2>1. \A p, z : \A c \in Nat : \A rest \in Seq(S) :
          /\ p = [i \in 1 .. c |-> p[i]] /\ \A i \in 1 .. c : p[i] \in Seq(S)
          /\ z = [i \in 1 .. c |-> TotalSize(p[i])]
          => /\ FlattenSeq(p) \o rest \in Seq(S)
             /\ Total(z) + TotalSize(rest) = TotalSize(FlattenSeq(p) \o rest)
    BY <1>4, PartsAddUp
  <2>2. QED
    BY <1>1, <1>5, <1>6, <2>1
<1>8. QED
  BY <1>2, <1>7 DEF S

(* What the calls put into an object are values of their types.               *)
LEMMA DefaultIsValue ==
  ASSUME NEW k \in Classes, NEW n \in Numbers(k), Scalar(k, n)
  PROVE  IsValue(Type(k, n), Row(New!Table[k], n)[2])
BY TablesAgree DEF ClearAgrees

LEMMA ValuesAreValues ==
  ASSUME NEW t \in Primitives
  PROVE  (\A v \in Values(t) : IsValue(t, v)) /\ \E v \in Values(t) : v # 0
<1>1. 6034 \in Protos_Game60Fishing
  BY DEF Protos_Game60Fishing
<1>2. CASE t = "enum"
  <2>1. Values(t) = {6034}
    BY <1>2 DEF Values
  <2>2. QED
    BY <1>1, <2>1 DEF IsValue
<1>3. CASE t = "int32"
  BY <1>3 DEF Values, IsValue
<1>4. CASE t = "int64"
  BY <1>4 DEF Values, IsValue
<1>5. CASE t = "uint32"
  <2>1. Values(t) = {0, 300}
    BY <1>5 DEF Values
  <2>2. QED
    BY <1>5, <2>1 DEF IsValue
<1>6. CASE t \in {"bool", "double"}
  BY <1>6 DEF Values, IsValue
<1>7. CASE t = "string"
  BY <1>7 DEF Values, IsValue
<1>8. QED
  BY <1>2, <1>3, <1>4, <1>5, <1>6, <1>7 DEF Primitives

LEMMA TypeOfScalar ==
  ASSUME NEW k \in Classes, NEW n \in Numbers(k)
  PROVE  /\ Type(k, n) \notin Nested <=> Type(k, n) \in Primitives
         /\ Type(k, n) \notin Nested <=> Scalar(k, n)
BY TablesAgree DEF HasBitsAgree, Scalar, Primitives, Nested

LEMMA NewLeafIsWritten ==
  ASSUME NEW t \in Nested PROVE WrittenLeaf(t, NewLeaf(t))
<1>1. ASSUME NEW n \in Numbers(t) PROVE IsValue(Type(t, n), NewLeaf(t).val[n])
  <2>1. NewLeaf(t).val[n] = Row(New!Table[t], n)[2]
    BY DEF NewLeaf
  <2>2. QED
    BY <2>1, LeafHasScalars, DefaultIsValue
<1>2. NewLeaf(t).unknown = <<>>
  BY DEF NewLeaf
<1>3. QED
  BY <1>1, <1>2 DEF WrittenLeaf

LEMMA FullLeafIsWritten ==
  ASSUME NEW t \in Nested PROVE WrittenLeaf(t, FullLeaf(t))
<1>1. ASSUME NEW n \in Numbers(t) PROVE IsValue(Type(t, n), FullLeaf(t).val[n])
  <2>1. Type(t, n) \in Primitives
    BY LeafHasScalars, TypeOfScalar
  <2>2. FullLeaf(t).val[n] = CHOOSE v \in Values(Type(t, n)) : v # 0
    BY DEF FullLeaf
  <2>3. FullLeaf(t).val[n] \in Values(Type(t, n))
    BY <2>1, <2>2, ValuesAreValues
  <2>4. QED
    BY <2>1, <2>3, ValuesAreValues
<1>2. FullLeaf(t).unknown = <<>>
  BY DEF FullLeaf
<1>3. QED
  BY <1>1, <1>2 DEF WrittenLeaf

LEMMA MergeLeafIsWritten ==
  ASSUME NEW t \in Nested, NEW to, NEW from, WrittenLeaf(t, to), WrittenLeaf(t, from)
  PROVE  WrittenLeaf(t, MergeLeaf(t, to, from))
<1> DEFINE o == MergeLeaf(t, to, from)
<1>1. ASSUME NEW n \in Numbers(t) PROVE o.val[n] \in {to.val[n], from.val[n]}
  <2>1. Listed(Merges!Table[t].merged, n) => Row(Merges!Table[t].merged, n)[2] = "set"
    BY LeafHasScalars, TablesAgree DEF MergeAgrees
  <2>2. QED
    BY <2>1 DEF MergeLeaf, MergeWith
<1>2. o.unknown = <<>>
  <2>1. o.unknown = <<>> \o <<>>
    BY DEF MergeLeaf, MergeWith, WrittenLeaf
  <2>2. QED
    BY <2>1
<1> HIDE DEF o
<1>3. \A n \in Numbers(t) : IsValue(Type(t, n), o.val[n])
  BY <1>1 DEF WrittenLeaf
<1>4. WrittenLeaf(t, o)
  BY <1>2, <1>3 DEF WrittenLeaf
<1>5. QED
  BY <1>4 DEF o

(* Lists whose elements do.                                                   *)
WrittenList(t, list) == \A i \in DOMAIN list.all : WrittenLeaf(t, list.all[i])

LEMMA ClearListIsWritten ==
  ASSUME NEW t \in Nested, NEW list, GoodList(t, list), WrittenList(t, list)
  PROVE  WrittenList(t, ClearList(t, list))
<1> DEFINE cleared == ClearList(t, list)
<1>1. DOMAIN cleared.all = DOMAIN list.all
  BY DEF ClearList
<1>2. ASSUME NEW i \in DOMAIN list.all PROVE WrittenLeaf(t, cleared.all[i])
  <2>1. PICK m \in Nat : list.size \in 0 .. m /\ list.all = [j \in 1 .. m |-> list.all[j]]
    BY DEF GoodList
  <2>2. CASE i <= list.size
    <3>1. GoodLeaf(t, list.all[i])
      BY <2>1, <2>2 DEF GoodList
    <3>2. cleared.all[i] = NewLeaf(t)
      BY <2>2, <3>1, ClearLeafIsNew DEF ClearList
    <3>3. QED
      BY <3>2, NewLeafIsWritten
  <2>3. CASE ~ i <= list.size
    BY <2>3 DEF ClearList, WrittenList
  <2>4. QED
    BY <2>2, <2>3
<1>3. QED
  BY <1>1, <1>2 DEF WrittenList

LEMMA AddElementIsWritten ==
  ASSUME NEW t \in Nested, NEW list, GoodList(t, list), WrittenList(t, list),
         NEW e, WrittenLeaf(t, e)
  PROVE  WrittenList(t, AddElement(t, list, e))
<1> DEFINE grown == Add(t, list)
           longer == AddElement(t, list, e)
<1>1. PICK m \in Nat : list.size \in 0 .. m /\ list.all = [i \in 1 .. m |-> list.all[i]]
  BY DEF GoodList
<1>2. Len(list.all) = m
  BY <1>1
<1>3. grown = [all |-> grown.all, size |-> list.size + 1]
  BY DEF Add
<1>4. \A i \in DOMAIN grown.all : WrittenLeaf(t, grown.all[i])
  <2>1. CASE list.size < m
    BY <1>2, <2>1 DEF Add, WrittenList
  <2>2. CASE ~ list.size < m
    <3>1. grown.all = Append(list.all, NewLeaf(t))
      BY <1>2, <2>2 DEF Add
    <3>2. Append(list.all, NewLeaf(t))
            = [i \in 1 .. m + 1 |-> IF i = m + 1 THEN NewLeaf(t) ELSE list.all[i]]
      BY <1>1, AppendIs
    <3> HIDE DEF grown
    <3>3. \A i \in 1 .. m + 1 : i # m + 1 => i \in DOMAIN list.all
      BY <1>1
    <3>4. ASSUME NEW i \in 1 .. m + 1
          PROVE  WrittenLeaf(t, IF i = m + 1 THEN NewLeaf(t) ELSE list.all[i])
      BY <3>3, NewLeafIsWritten DEF WrittenList
    <3>5. QED
      BY <3>1, <3>2, <3>4
  <2>3. QED
    BY <2>1, <2>2
<1>5. longer = [grown EXCEPT !.all[grown.size] = e]
  BY DEF AddElement
<1> HIDE DEF grown, longer
<1>6. longer.all = [grown.all EXCEPT ![list.size + 1] = e]
  BY <1>3, <1>5
<1>7. WrittenList(t, longer)
  BY <1>4, <1>6 DEF WrittenList
<1>8. QED
  BY <1>7 DEF longer

LEMMA MergeListIsWritten ==
  ASSUME NEW t \in Nested, NEW to, NEW from, GoodList(t, to), GoodList(t, from),
         WrittenList(t, to), WrittenList(t, from)
  PROVE  WrittenList(t, MergeList(t, to, from))
<1> DEFINE list == MergeList(t, to, from)
           size == to.size + from.size
           old(i) == IF i \in DOMAIN to.all THEN to.all[i] ELSE NewLeaf(t)
<1>1. PICK m \in Nat : to.size \in 0 .. m /\ to.all = [i \in 1 .. m |-> to.all[i]]
  BY DEF GoodList
<1>2. PICK l \in Nat : from.size \in 0 .. l /\ from.all = [i \in 1 .. l |-> from.all[i]]
  BY DEF GoodList
<1>3. /\ DOMAIN list.all = DOMAIN to.all \cup 1 .. size
      /\ \A i \in DOMAIN to.all \cup 1 .. size :
           list.all[i] = IF i \in to.size + 1 .. size
                         THEN MergeLeaf(t, old(i), from.all[i - to.size]) ELSE to.all[i]
  BY DEF MergeList
<1> HIDE DEF list
<1>4. ASSUME NEW i \in DOMAIN to.all \cup 1 .. size PROVE WrittenLeaf(t, list.all[i])
  <2>1. CASE i \in to.size + 1 .. size
    <3>1. i - to.size \in DOMAIN from.all
      BY <1>1, <1>2, <2>1
    <3>2. WrittenLeaf(t, from.all[i - to.size])
      BY <3>1 DEF WrittenList
    <3>3. WrittenLeaf(t, old(i))
      BY NewLeafIsWritten DEF WrittenList
    <3>4. list.all[i] = MergeLeaf(t, old(i), from.all[i - to.size])
      BY <1>3, <2>1
    <3> HIDE DEF old
    <3>5. QED
      BY <3>2, <3>3, <3>4, MergeLeafIsWritten
  <2>2. CASE i \notin to.size + 1 .. size
    <3>1. i \in DOMAIN to.all
      BY <1>1, <1>2, <2>2
    <3>2. list.all[i] = to.all[i]
      BY <1>3, <2>2
    <3>3. QED
      BY <3>1, <3>2 DEF WrittenList
  <2>3. QED
    BY <2>1, <2>2
<1>5. WrittenList(t, list)
  BY <1>3, <1>4 DEF WrittenList
<1>6. QED
  BY <1>5 DEF list

(* Members and objects.                                                       *)
LEMMA MemberIsWritten ==
  ASSUME NEW k \in Classes, NEW n \in Numbers(k), NEW v
  PROVE  /\ IsList(k, n) => Type(k, n) \in Nested
                            /\ (WrittenMember(k, n, v) <=> WrittenList(Type(k, n), v))
         /\ ~ IsList(k, n) /\ Type(k, n) \in Nested =>
              (WrittenMember(k, n, v) <=> WrittenLeaf(Type(k, n), v))
         /\ Scalar(k, n) => (WrittenMember(k, n, v) <=> IsValue(Type(k, n), v))
<1>1. IsList(k, n) => Type(k, n) \in Nested
  BY TablesAgree DEF HasBitsAgree
<1>2. QED
  BY <1>1 DEF WrittenMember, WrittenList, Scalar

LEMMA NewIsWritten ==
  ASSUME NEW k \in Classes PROVE Written(k, New0(k))
<1> DEFINE o == New0(k)
<1>1. ASSUME NEW n \in Numbers(k) PROVE WrittenMember(k, n, o.val[n])
  <2>1. CASE IsList(k, n)
    <3>1. o.val[n] = NoElements
      BY <2>1 DEF New0
    <3>2. WrittenList(Type(k, n), NoElements)
      BY DEF WrittenList, NoElements
    <3>3. QED
      BY <2>1, <3>1, <3>2, MemberIsWritten
  <2>2. CASE ~ IsList(k, n) /\ Type(k, n) \in Nested
    <3>1. o.val[n] = NewLeaf(Type(k, n))
      BY <2>2 DEF New0
    <3>2. QED
      BY <2>2, <3>1, NewLeafIsWritten, MemberIsWritten
  <2>3. CASE Scalar(k, n)
    <3>1. o.val[n] = Row(New!Table[k], n)[2]
      BY <2>3 DEF New0, Scalar
    <3>2. QED
      BY <2>3, <3>1, DefaultIsValue, MemberIsWritten
  <2>4. QED
    BY <2>1, <2>2, <2>3 DEF Scalar
<1>2. o.unknown = <<>>
  BY DEF New0
<1> HIDE DEF o
<1>3. QED
  BY <1>1, <1>2, NewIsGood, EmptySeq DEF Written, o

LEMMA ClearedIsWritten ==
  ASSUME NEW k \in Classes, NEW n \in Numbers(k), NEW v, NEW set, GoodMember(k, n, v, set),
         WrittenMember(k, n, v)
  PROVE  WrittenMember(k, n, Cleared(k, n, v, Row(New!Table[k], n)[2]))
<1> DEFINE c == Cleared(k, n, v, Row(New!Table[k], n)[2])
<1>1. CASE IsList(k, n)
  <2>1. GoodList(Type(k, n), v) /\ WrittenList(Type(k, n), v) /\ Type(k, n) \in Nested
    BY <1>1, MemberIsWritten DEF GoodMember
  <2>2. c = ClearList(Type(k, n), v)
    BY <1>1 DEF Cleared
  <2> HIDE DEF c
  <2>3. QED
    BY <1>1, <2>1, <2>2, ClearListIsWritten, MemberIsWritten DEF c
<1>2. CASE ~ IsList(k, n) /\ Type(k, n) \in Nested
  <2>1. GoodLeaf(Type(k, n), v)
    BY <1>2 DEF GoodMember
  <2>2. c = NewLeaf(Type(k, n))
    BY <1>2, <2>1, ClearLeafIsNew DEF Cleared
  <2> HIDE DEF c
  <2>3. QED
    BY <1>2, <2>2, NewLeafIsWritten, MemberIsWritten DEF c
<1>3. CASE Scalar(k, n)
  <2>1. c = Row(New!Table[k], n)[2]
    BY <1>3 DEF Cleared, Scalar
  <2> HIDE DEF c
  <2>2. QED
    BY <1>3, <2>1, DefaultIsValue, MemberIsWritten DEF c
<1>4. QED
  BY <1>1, <1>2, <1>3 DEF Scalar

LEMMA ClearIsWritten ==
  ASSUME NEW k \in Classes, NEW o, Written(k, o)
  PROVE  Written(k, Clear(k, o))
<1> DEFINE c == Clear(k, o)
<1>1. GoodObject(k, o) /\ \A n \in Numbers(k) : WrittenMember(k, n, o.val[n])
  BY DEF Written
<1>2. ASSUME NEW n \in Numbers(k) PROVE WrittenMember(k, n, c.val[n])
  <2> DEFINE row == Row(Clears!Table[k], n)
  <2>1. ClearAgrees(k, n) /\ HasBitsAgree(k, n)
    BY TablesAgree
  <2>2. GoodMember(k, n, o.val[n], Has(k, o, n)) /\ WrittenMember(k, n, o.val[n])
    BY <1>1 DEF GoodObject
  <2>3. c.val[n] = o.val[n] \/ c.val[n] = Cleared(k, n, o.val[n], row[2])
    BY DEF Clear, ClearWith
  <2>4. Cleared(k, n, o.val[n], row[2]) = Cleared(k, n, o.val[n], Row(New!Table[k], n)[2])
    BY <2>1 DEF Cleared, ClearAgrees, Scalar
  <2> HIDE DEF c, row
  <2>5. QED
    BY <2>2, <2>3, <2>4, ClearedIsWritten
<1>3. c.unknown = <<>>
  BY DEF Clear, ClearWith
<1> HIDE DEF c
<1>4. QED
  BY <1>1, <1>2, <1>3, ClearIsGood, EmptySeq DEF Written, c

LEMMA OneMemberWritten ==
  ASSUME NEW k, NEW o, Written(k, o), NEW n \in Numbers(k), NEW p, GoodObject(k, p),
         \A m \in Numbers(k) \ {n} : p.val[m] = o.val[m], p.unknown = o.unknown,
         WrittenMember(k, n, p.val[n])
  PROVE  Written(k, p)
<1>1. \A m \in Numbers(k) : WrittenMember(k, m, p.val[m])
  BY DEF Written
<1>2. QED
  BY <1>1 DEF Written

LEMMA WithMember ==
  ASSUME NEW k, NEW o, Object(k, o), NEW n \in Numbers(k), NEW v,
         NEW p, p \in {Changed(o, has, n, v) : has \in SUBSET Bits(k)}
  PROVE  /\ p.val[n] = v /\ \A m \in Numbers(k) \ {n} : p.val[m] = o.val[m]
         /\ p.unknown = o.unknown
<1>1. PICK has \in SUBSET Bits(k) : p = Changed(o, has, n, v)
  OBVIOUS
<1>2. p = With(k, o, has, n, v)
  BY <1>1, ChangedIsWith
<1>3. p.unknown = o.unknown
  BY <1>2 DEF With
<1>4. QED
  BY <1>2, <1>3, WithIs

LEMMA ClearMemberIsWritten ==
  ASSUME NEW k \in Classes, NEW o, Written(k, o), NEW n \in Numbers(k)
  PROVE  Written(k, ClearMember(k, o, n))
<1> DEFINE v == Cleared(k, n, o.val[n], Row(Access!Table[k], n)[3])
           has == o.has \ {Bit(k, n)}
           p == ClearMember(k, o, n)
<1>1. /\ GoodObject(k, o) /\ Object(k, o) /\ GoodMember(k, n, o.val[n], Has(k, o, n))
      /\ WrittenMember(k, n, o.val[n])
  BY DEF Written, GoodObject
<1>2. p = Changed(o, has, n, v)
  <2>1. [o EXCEPT !.has = has].val = o.val
    BY <1>1 DEF Object
  <2>2. QED
    BY <2>1 DEF ClearMember, Changed
<1>3. has \in SUBSET Bits(k)
  BY <1>1 DEF Object
<1>4. v = Cleared(k, n, o.val[n], Row(New!Table[k], n)[2])
  BY TablesAgree DEF Cleared, ClearAgrees, Scalar
<1>5. WrittenMember(k, n, v)
  BY <1>1, <1>4, ClearedIsWritten
<1> HIDE DEF p, has, v
<1>6. /\ p.val[n] = v /\ \A m \in Numbers(k) \ {n} : p.val[m] = o.val[m]
      /\ p.unknown = o.unknown
  BY <1>1, <1>2, <1>3, WithMember
<1>7. GoodObject(k, p)
  BY <1>1, ClearMemberIsGood DEF p
<1>8. Written(k, p)
  BY <1>5, <1>6, <1>7, OneMemberWritten
<1>9. QED
  BY <1>8 DEF p

LEMMA PutIsWritten ==
  ASSUME NEW k \in Classes, NEW o, Written(k, o), NEW n \in Numbers(k), NEW v,
         Type(k, n) \in Nested => GoodLeaf(Type(k, n), v) /\ WrittenLeaf(Type(k, n), v),
         Type(k, n) \notin Nested => IsValue(Type(k, n), v)
  PROVE  Written(k, Put(k, o, n, v))
<1> DEFINE p == Put(k, o, n, v)
           t == Type(k, n)
<1>0. /\ GoodObject(k, o) /\ Object(k, o) /\ GoodMember(k, n, o.val[n], Has(k, o, n))
      /\ WrittenMember(k, n, o.val[n])
  BY DEF Written, GoodObject
<1>1. GoodObject(k, p)
  BY <1>0, PutIsGood
<1>2. CASE IsList(k, n)
  <2> DEFINE e == MergeLeaf(t, Spare(t, o.val[n]), v)
  <2>1. t \in Nested /\ GoodList(t, o.val[n]) /\ WrittenList(t, o.val[n])
    BY <1>0, <1>2, MemberIsWritten DEF GoodMember
  <2>2. WrittenLeaf(t, e)
    BY <2>1, SpareIsNew, NewLeafIsWritten, MergeLeafIsWritten
  <2> HIDE DEF e
  <2>3. p = [o EXCEPT !.val[n] = AddElement(t, @, e)]
    BY <1>2 DEF Put, e
  <2>4. WrittenMember(k, n, AddElement(t, o.val[n], e))
    BY <1>2, <2>1, <2>2, AddElementIsWritten, MemberIsWritten
  <2>5. /\ p.val[n] = AddElement(t, o.val[n], e) /\ p.unknown = o.unknown
        /\ \A m \in Numbers(k) \ {n} : p.val[m] = o.val[m]
    BY <1>0, <2>3 DEF Object
  <2> HIDE DEF p
  <2>6. Written(k, p)
    BY <1>1, <2>4, <2>5, OneMemberWritten
  <2>7. QED
    BY <2>6 DEF p
<1>3. CASE ~ IsList(k, n)
  <2> DEFINE new == IF t \in Nested THEN MergeLeaf(t, o.val[n], v) ELSE v
             has == o.has \cup {Bit(k, n)}
  <2>1. WrittenMember(k, n, new)
    <3>1. CASE t \in Nested
      <4>1. WrittenLeaf(t, o.val[n])
        BY <1>0, <1>3, <3>1, MemberIsWritten
      <4>2. WrittenLeaf(t, MergeLeaf(t, o.val[n], v))
        BY <3>1, <4>1, MergeLeafIsWritten
      <4>3. QED
        BY <1>3, <3>1, <4>2, MemberIsWritten
    <3>2. CASE t \notin Nested
      BY <1>3, <3>2, MemberIsWritten DEF Scalar
    <3>3. QED
      BY <3>1, <3>2
  <2>2. p = Store(k, o, n, new)
    BY <1>3 DEF Put
  <2> HIDE DEF new
  <2>3. p = Changed(o, has, n, new)
    BY <2>2 DEF Store, Changed
  <2>4. has \in SUBSET Bits(k)
    BY <1>0, <1>3, BitIsOwn DEF Object
  <2> HIDE DEF p, has
  <2>5. /\ p.val[n] = new /\ \A m \in Numbers(k) \ {n} : p.val[m] = o.val[m]
        /\ p.unknown = o.unknown
    BY <1>0, <2>3, <2>4, WithMember
  <2>6. Written(k, p)
    BY <1>1, <2>1, <2>5, OneMemberWritten
  <2>7. QED
    BY <2>6 DEF p
<1>4. QED
  BY <1>2, <1>3

LEMMA MergeFromIsWritten ==
  ASSUME NEW k \in Classes, NEW to, NEW from, Written(k, to), Written(k, from)
  PROVE  Written(k, MergeFrom(k, to, from))
<1> DEFINE o == MergeFrom(k, to, from)
           rows == Merges!Table[k].merged
<1>1. /\ \A n \in Numbers(k) :
           /\ GoodMember(k, n, to.val[n], Has(k, to, n)) /\ WrittenMember(k, n, to.val[n])
           /\ GoodMember(k, n, from.val[n], Has(k, from, n)) /\ WrittenMember(k, n, from.val[n])
      /\ GoodObject(k, to) /\ GoodObject(k, from)
  BY DEF Written, GoodObject
<1>2. ASSUME NEW n \in Numbers(k) PROVE WrittenMember(k, n, o.val[n])
  <2> DEFINE merged1 == IF IsList(k, n) THEN MergeList(Type(k, n), to.val[n], from.val[n])
                        ELSE MergeLeaf(Type(k, n), to.val[n], from.val[n])
  <2>1. \/ o.val[n] = to.val[n] \/ o.val[n] = from.val[n]
        \/ Listed(rows, n) /\ Row(rows, n)[2] # "set" /\ o.val[n] = merged1
    BY DEF MergeFrom, MergeWith
  <2>2. Listed(rows, n) /\ Row(rows, n)[2] # "set" => WrittenMember(k, n, merged1)
    <3> SUFFICES ASSUME Row(rows, n)[2] # "set" PROVE WrittenMember(k, n, merged1)
      OBVIOUS
    <3>1. ~ Scalar(k, n)
      BY TablesAgree DEF MergeAgrees
    <3>2. CASE IsList(k, n)
      <4>1. /\ Type(k, n) \in Nested
            /\ GoodList(Type(k, n), to.val[n]) /\ WrittenList(Type(k, n), to.val[n])
            /\ GoodList(Type(k, n), from.val[n]) /\ WrittenList(Type(k, n), from.val[n])
        BY <1>1, <3>2, MemberIsWritten DEF GoodMember
      <4>2. WrittenList(Type(k, n), MergeList(Type(k, n), to.val[n], from.val[n]))
        BY <4>1, MergeListIsWritten
      <4>3. QED
        BY <3>2, <4>2, MemberIsWritten
    <3>3. CASE ~ IsList(k, n)
      <4>1. /\ Type(k, n) \in Nested
            /\ WrittenLeaf(Type(k, n), to.val[n]) /\ WrittenLeaf(Type(k, n), from.val[n])
        BY <1>1, <3>1, <3>3, MemberIsWritten DEF Scalar
      <4>2. WrittenLeaf(Type(k, n), MergeLeaf(Type(k, n), to.val[n], from.val[n]))
        BY <4>1, MergeLeafIsWritten
      <4>3. QED
        BY <3>3, <4>1, <4>2, MemberIsWritten
    <3>4. QED
      BY <3>2, <3>3
  <2> HIDE DEF o, merged1
  <2>3. QED
    BY <1>1, <2>1, <2>2
<1>3. o.unknown = to.unknown \o from.unknown
  BY DEF MergeFrom, MergeWith
<1>4. o.unknown \in Seq(StrangeTokens(k))
  <2>1. to.unknown \in Seq(StrangeTokens(k)) /\ from.unknown \in Seq(StrangeTokens(k))
    BY DEF Written
  <2> HIDE DEF o
  <2>2. QED
    BY <1>3, <2>1, ConcatProperties
<1> HIDE DEF o
<1>5. GoodObject(k, o)
  BY <1>1, MergeFromIsGood DEF o
<1>6. Written(k, o)
  BY <1>2, <1>4, <1>5 DEF Written
<1>7. QED
  BY <1>6 DEF o

LEMMA SwappedIsWritten ==
  ASSUME NEW k \in Classes, NEW o, NEW with, Written(k, o), Written(k, with)
  PROVE  Written(k, Swapped(k, o, with))
<1>1. \A n \in Numbers(k) : n \in Merges!Table[k].swapped
  BY TablesAgree DEF MergeAgrees
<1>2. Swapped(k, o, with) = [with EXCEPT !.val = [n \in Numbers(k) |-> with.val[n]]]
  BY <1>1 DEF Swapped
<1>3. Swapped(k, o, with) = with
  BY <1>2 DEF Written, GoodObject, Object
<1>4. QED
  BY <1>3

LEMMA InputsAreWritten ==
  ASSUME NEW k \in Classes, NEW n \in Numbers(k), NEW v \in Inputs(Type(k, n))
  PROVE  /\ Type(k, n) \in Nested => GoodLeaf(Type(k, n), v) /\ WrittenLeaf(Type(k, n), v)
         /\ Type(k, n) \notin Nested => IsValue(Type(k, n), v)
<1>1. CASE Type(k, n) \in Nested
  BY <1>1, InputsAreGood, NewLeafIsWritten, FullLeafIsWritten DEF Inputs
<1>2. CASE Type(k, n) \notin Nested
  BY <1>2, TypeOfScalar, ValuesAreValues DEF Inputs
<1>3. QED
  BY <1>1, <1>2

LEMMA FullIsWritten ==
  ASSUME NEW k \in Classes PROVE Written(k, FullObject(k))
<1> DEFINE full(t) == IF t \in Nested THEN FullLeaf(t) ELSE CHOOSE v \in Values(t) : v # 0
           put(n) == Put(k, New0(k), n, full(Type(k, n)))
           o == FullObject(k)
<1>1. ASSUME NEW n \in Numbers(k) PROVE full(Type(k, n)) \in Inputs(Type(k, n))
  <2>1. CASE Type(k, n) \in Nested
    BY <2>1 DEF Inputs
  <2>2. CASE Type(k, n) \notin Nested
    <3>1. \E v \in Values(Type(k, n)) : v # 0
      BY <2>2, TypeOfScalar, ValuesAreValues
    <3>2. QED
      BY <2>2, <3>1 DEF Inputs
  <2>3. QED
    BY <2>1, <2>2
<1> HIDE DEF full
<1>2. ASSUME NEW n \in Numbers(k) PROVE Written(k, put(n))
  <2>1. /\ Type(k, n) \in Nested => GoodLeaf(Type(k, n), full(Type(k, n)))
                                    /\ WrittenLeaf(Type(k, n), full(Type(k, n)))
        /\ Type(k, n) \notin Nested => IsValue(Type(k, n), full(Type(k, n)))
    BY <1>1, InputsAreWritten
  <2>2. QED
    BY <2>1, NewIsWritten, PutIsWritten
<1>3. o = [has |-> UNION {put(n).has : n \in Numbers(k)},
           val |-> [n \in Numbers(k) |-> put(n).val[n]], unknown |-> <<>>]
  BY DEF FullObject, full
<1> HIDE DEF put, o
<1>4. \A n \in Numbers(k) : WrittenMember(k, n, o.val[n])
  BY <1>2, <1>3 DEF Written
<1>5. o.unknown = <<>>
  BY <1>3
<1>6. GoodObject(k, o)
  BY FullIsGood DEF o
<1>7. Written(k, o)
  BY <1>4, <1>5, <1>6, EmptySeq DEF Written
<1>8. QED
  BY <1>7 DEF o

LEMMA UnknownIsWritten ==
  ASSUME NEW k, NEW o, Written(k, o), NEW u \in Seq(StrangeTokens(k))
  PROVE  Written(k, [o EXCEPT !.unknown = u])
<1> DEFINE p == [o EXCEPT !.unknown = u]
<1>1. p.val = o.val /\ p.unknown = u
  BY DEF Written, GoodObject, Object
<1>2. GoodObject(k, p)
  BY UnknownDoesNotMatter DEF Written
<1> HIDE DEF p
<1>3. Written(k, p)
  BY <1>1, <1>2 DEF Written
<1>4. QED
  BY <1>3 DEF p

LEMMA StrangeTokensAre ==
  ASSUME kind \in Kinds, NEW token \in Strange
  PROVE  token \in StrangeTokens(kind)
<1>1. ProtoAgrees(kind) /\ StrangeNumber \notin Numbers(kind)
  BY MessagesAssumption
<1>2. \A i \in DOMAIN Proto!Table[kind] :
        LET row == Proto!Table[kind][i]
        IN  row[1] \in Numbers(kind) /\ row[3] = Type(kind, row[1])
  BY <1>1 DEF ProtoAgrees, Covers
<1>3. /\ token.num \in {1, 2, StrangeNumber} /\ token.wire \in {0, 5} /\ token.val \in Int
      /\ token = [num |-> token.num, wire |-> token.wire, val |-> token.val,
                  size |-> token.size]
      /\ token.size \in Int /\ StrangeNumber \in Nat
      /\ \/ token.num = StrangeNumber
         \/ token.wire = 5
         \/ token.num = 1 /\ Type(kind, 1) = "enum" /\ token.val = 9999
  BY DEF Strange, StrangeNumber
<1>4. token \in TopTokens(kind)
  <2>1. token \in [num : Nat, wire : 0 .. 7, val : Int \cup Seq(LeafTokens), size : Int]
    BY <1>3
  <2>2. \A t \in Nested : token.wire # WireType(t)
    BY <1>3, WireTypeOfNested
  <2> HIDE DEF Strange
  <2>3. QED
    BY <1>3, <2>1, <2>2 DEF TopTokens
<1>5. FitsNone(kind, token)
  <2> SUFFICES ASSUME NEW i \in DOMAIN Proto!Table[kind]
               PROVE  ~ Fits(Proto!Table[kind][i], token)
    BY DEF FitsNone
  <2> DEFINE row == Proto!Table[kind][i]
  <2>1. row[1] \in Numbers(kind) /\ row[3] = Type(kind, row[1])
    BY <1>2
  <2>2. CASE token.num = StrangeNumber
    BY <1>1, <2>1, <2>2 DEF Fits
  <2>3. CASE token.wire = 5
    <3>1. WireType(row[3]) # 5
      BY DEF WireType
    <3>2. QED
      BY <2>3, <3>1 DEF Fits
  <2>4. CASE token.num = 1 /\ Type(kind, 1) = "enum" /\ token.val = 9999
    <3>1. 9999 \notin Protos_Game60Fishing
      BY DEF Protos_Game60Fishing
    <3>2. QED
      BY <2>1, <2>4, <3>1 DEF Fits
  <2>5. QED
    BY <1>3, <2>2, <2>3, <2>4
<1>6. QED
  BY <1>4, <1>5 DEF StrangeTokens

(* The objects that are written and those they are put together in hold       *)
(* values of their types, whatever is done with them.                         *)
WrittenObjects == \A o \in {obj, other, merged} : Written(kind, o)

LEMMA WrittenAtFirst == Init => WrittenObjects
<1> SUFFICES ASSUME Init PROVE WrittenObjects
  OBVIOUS
<1>1. kind \in Classes
  BY DEF Init, Classes
<1>2. Written(kind, New0(kind)) /\ Written(kind, FullObject(kind))
  BY <1>1, NewIsWritten, FullIsWritten
<1>3. QED
  BY <1>2 DEF Init, WrittenObjects

LEMMA StaysWritten == IInv /\ WrittenObjects /\ [Next]_vars => WrittenObjects'
<1> SUFFICES ASSUME IInv, WrittenObjects, [Next]_vars PROVE WrittenObjects'
  OBVIOUS
<1>1. /\ kind \in Kinds /\ kind \in Classes
      /\ Written(kind, obj) /\ Written(kind, other) /\ Written(kind, merged)
  BY DEF IInv, Classes, WrittenObjects
<1>2. SUFFICES ASSUME Next
               PROVE  /\ kind' = kind
                      /\ Written(kind, obj') /\ Written(kind, other') /\ Written(kind, merged')
  BY <1>1 DEF WrittenObjects, vars
<1>3. CASE SetField
  <2>1. PICK n \in Numbers(kind) : \E v \in Inputs(Type(kind, n)) : obj' = Put(kind, obj, n, v)
    BY <1>3 DEF SetField
  <2>2. PICK v \in Inputs(Type(kind, n)) : obj' = Put(kind, obj, n, v)
    BY <2>1
  <2>3. Written(kind, obj')
    BY <1>1, <2>2, InputsAreWritten, PutIsWritten
  <2>4. QED
    BY <1>1, <1>3, <2>3 DEF SetField
<1>4. CASE ClearField
  <2>1. PICK n \in Numbers(kind) : obj' = ClearMember(kind, obj, n)
    BY <1>4 DEF ClearField
  <2>2. QED
    BY <1>1, <1>4, <2>1, ClearMemberIsWritten DEF ClearField
<1>5. CASE ClearObject
  BY <1>1, <1>5, ClearIsWritten DEF ClearObject
<1>6. CASE Swap
  BY <1>1, <1>6, SwappedIsWritten DEF Swap
<1>7. CASE SerializeTo
  BY <1>1, <1>7, MergeFromIsWritten DEF SerializeTo
<1>8. CASE StrangeField
  <2>1. PICK token \in Strange : merged' = [merged EXCEPT !.unknown = Append(@, token)]
    BY <1>8 DEF StrangeField
  <2> DEFINE u == Append(merged.unknown, token)
  <2>2. u \in Seq(StrangeTokens(kind))
    BY <1>1, StrangeTokensAre, AppendProperties DEF Written
  <2>3. merged' = [merged EXCEPT !.unknown = u]
    BY <2>1
  <2> HIDE DEF u
  <2>4. Written(kind, merged')
    BY <1>1, <2>2, <2>3, UnknownIsWritten
  <2>5. QED
    BY <1>1, <1>8, <2>4 DEF StrangeField
<1>9. CASE CutOff
  BY <1>1, <1>9 DEF CutOff
<1>10. CASE BeginReading
  BY <1>1, <1>10 DEF BeginReading
<1>11. CASE ReadStep
  BY <1>1, <1>11 DEF ReadStep
<1>12. QED
  BY <1>2, <1>3, <1>4, <1>5, <1>6, <1>7, <1>8, <1>9, <1>10, <1>11 DEF Next

LEMMA AlwaysWritten == Spec => [](IInv /\ WrittenObjects)
<1>1. Init => IInv /\ WrittenObjects
  BY InitEstablishes, WrittenAtFirst
<1>2. (IInv /\ WrittenObjects) /\ [Next]_vars => (IInv /\ WrittenObjects)'
  BY StepKeeps, StaysWritten
<1>3. QED
  BY <1>1, <1>2, PTL DEF Spec

(* ByteSize is the number of bytes that SerializeWithCachedSizes writes, for  *)
(* any object that was filled, cleared, exchanged and put together by         *)
(* MergeFrom, with lists of any length and unknown fields: NetService sends   *)
(* ByteSize() bytes behind the header (NetService.cpp:288-292 and 320-324).   *)
THEOREM SizesAreExact == Spec => []SizeIsExact
<1>1. IInv /\ WrittenObjects => SizeIsExact
  BY SizeIsExactFor DEF IInv, Classes, WrittenObjects, SizeIsExact
<1>2. QED
  BY <1>1, AlwaysWritten, PTL

LEMMA InitializedLeafIs ==
  ASSUME NEW t \in Nested, NEW o
  PROVE  IsInitializedLeaf(t, o) <=> CompleteLeaf(t, o)
<1>1. RequiredAgree(t)
  BY MessagesAssumption
<1>2. Merges!Table[t].required = {Bit(t, n) : n \in RequiredFields(t)}
  BY <1>1 DEF RequiredAgree
<1>3. QED
  BY <1>2 DEF IsInitializedLeaf, CompleteLeaf, Has

(* IsInitialized of any object that a program can build holds just when each  *)
(* required field is there, in the elements of a list, too.                   *)
THEOREM InitializedIsComplete == Spec => []InitializedIfComplete
<1>1. IInv => InitializedIfComplete
  <2> SUFFICES ASSUME IInv PROVE InitializedIfComplete
    OBVIOUS
  <2>1. kind \in Classes /\ kind \in Kinds
    BY DEF IInv, Classes
  <2>2. RequiredAgree(kind)
    BY <2>1, MessagesAssumption
  <2>3. Merges!Table[kind].required \subseteq obj.has
          <=> \A n \in RequiredFields(kind) : Has(kind, obj, n)
    BY <2>2 DEF RequiredAgree, Has
  <2> DEFINE all(n) == \A i \in 1 .. obj.val[n].size :
                         CompleteLeaf(Type(kind, n), obj.val[n].all[i])
             asked == Merges!Table[kind].nested
  <2>4. \A n \in asked : n \in Numbers(kind) /\ IsList(kind, n) /\ Type(kind, n) \in Nested
    BY <2>1, <2>2, TablesAgree DEF RequiredAgree, HasBitsAgree
  <2>5. ASSUME NEW n \in asked
        PROVE  all(n) <=> \A i \in 1 .. obj.val[n].size :
                            IsInitializedLeaf(Type(kind, n), obj.val[n].all[i])
    BY <2>4, InitializedLeafIs
  <2>6. ASSUME NEW n \in Numbers(kind), IsList(kind, n), n \notin asked
        PROVE  all(n)
    <3>1. RequiredFields(Type(kind, n)) = {}
      BY <2>2, <2>6 DEF RequiredAgree
    <3>2. QED
      BY <3>1 DEF CompleteLeaf
  <2>7. (\A n \in asked : all(n)) <=> \A n \in Numbers(kind) : IsList(kind, n) => all(n)
    BY <2>4, <2>6
  <2>8. (\A n \in asked : \A i \in 1 .. obj.val[n].size :
            IsInitializedLeaf(Type(kind, n), obj.val[n].all[i]))
          <=> \A n \in Numbers(kind) : IsList(kind, n) => all(n)
    BY <2>5, <2>7
  <2>9. QED
    BY <2>3, <2>8 DEF InitializedIfComplete, IsInitialized
<1>2. QED
  BY <1>1, Invariance, PTL
-----------------------------------------------------------------------------
(* What a function makes of each element of a sequence.                       *)
Map(f, s) == [i \in DOMAIN s |-> f[s[i]]]
Maps(f, S, T) == f \in [S -> T]

LEMMA MapIs ==
  ASSUME NEW S, NEW T, NEW f, Maps(f, S, T)
  PROVE  \A s \in Seq(S) : /\ Map(f, s) \in Seq(T) /\ Len(Map(f, s)) = Len(s)
                            /\ \A i \in 1 .. Len(s) : Map(f, s)[i] = f[s[i]]
<1> SUFFICES ASSUME NEW s \in Seq(S)
             PROVE  /\ Map(f, s) \in Seq(T) /\ Len(Map(f, s)) = Len(s)
                    /\ \A i \in 1 .. Len(s) : Map(f, s)[i] = f[s[i]]
  OBVIOUS
<1>1. Len(s) \in Nat /\ DOMAIN s = 1 .. Len(s) /\ \A i \in 1 .. Len(s) : s[i] \in S
  BY LenProperties, ElementOfSeq
<1>2. QED
  BY <1>1 DEF Map, Maps

LEMMA MapEmpty == \A f : Map(f, <<>>) = <<>>
BY DEF Map

LEMMA MapConcat ==
  ASSUME NEW S, NEW T, NEW f, Maps(f, S, T)
  PROVE  \A s, t \in Seq(S) : Map(f, s \o t) = Map(f, s) \o Map(f, t)
<1> SUFFICES ASSUME NEW s \in Seq(S), NEW t \in Seq(S)
             PROVE  Map(f, s \o t) = Map(f, s) \o Map(f, t)
  OBVIOUS
<1> DEFINE u == s \o t
           a == Map(f, s)
           b == Map(f, t)
           c == Map(f, u)
<1>1. /\ u \in Seq(S) /\ Len(u) = Len(s) + Len(t)
      /\ \A i \in 1 .. Len(s) : u[i] = s[i]
      /\ \A i \in 1 .. Len(t) : u[Len(s) + i] = t[i]
  BY ConcatElements
<1> HIDE DEF u
<1>2. /\ a \in Seq(T) /\ Len(a) = Len(s) /\ \A i \in 1 .. Len(s) : a[i] = f[s[i]]
      /\ b \in Seq(T) /\ Len(b) = Len(t) /\ \A i \in 1 .. Len(t) : b[i] = f[t[i]]
      /\ c \in Seq(T) /\ Len(c) = Len(u) /\ \A i \in 1 .. Len(u) : c[i] = f[u[i]]
  <2>1. \A r \in Seq(S) : /\ Map(f, r) \in Seq(T) /\ Len(Map(f, r)) = Len(r)
                           /\ \A i \in 1 .. Len(r) : Map(f, r)[i] = f[r[i]]
    BY MapIs
  <2>2. QED
    BY <1>1, <2>1
<1>3. Len(s) \in Nat /\ Len(t) \in Nat
  BY LenProperties
<1> HIDE DEF a, b, c
<1>4. \A i \in 1 .. Len(a) : c[i] = a[i]
  <2> SUFFICES ASSUME NEW i \in 1 .. Len(s) PROVE c[i] = a[i]
    BY <1>2
  <2>1. i \in 1 .. Len(u) /\ u[i] = s[i]
    BY <1>1, <1>3
  <2>2. QED
    BY <1>2, <2>1
<1>5. \A i \in 1 .. Len(b) : c[Len(a) + i] = b[i]
  <2> SUFFICES ASSUME NEW i \in 1 .. Len(t) PROVE c[Len(s) + i] = b[i]
    BY <1>2
  <2>1. Len(s) + i \in 1 .. Len(u) /\ u[Len(s) + i] = t[i]
    BY <1>1, <1>3
  <2>2. QED
    BY <1>2, <2>1
<1>6. c = a \o b
  <2>1. Len(c) = Len(a) + Len(b)
    BY <1>1, <1>2
  <2>2. a \in Seq(T) /\ b \in Seq(T) /\ c \in Seq(T)
    BY <1>2
  <2>3. QED
    BY <1>4, <1>5, <2>1, <2>2, ConcatIs
<1>7. QED
  BY <1>6 DEF a, b, c, u

LEMMA MapOne == \A f, x : Map(f, <<x>>) = <<f[x]>>
BY DEF Map

(* FlattenSeq of one sequence, and of several of which one is not empty.      *)
LEMMA FlattenOne ==
  ASSUME NEW S, NEW s \in Seq(S) PROVE FlattenSeq(<<s>>) = s
<1>1. <<>> \in Seq(Seq(S)) /\ Append(<<>>, s) = <<s>>
  BY EmptySeq, AppendFirst
<1>2. FlattenSeq(<<s>>) = <<>> \o s
  BY <1>1, FlattenAppend, FlattenEmpty
<1>3. QED
  BY <1>2, ConcatEmptySeq

LEMMA FlattenNone ==
  ASSUME NEW S
  PROVE  \A ss \in Seq(Seq(S)) :
           (\A i \in 1 .. Len(ss) : ss[i] = <<>>) => FlattenSeq(ss) = <<>>
<1> DEFINE A == Seq(S)
           none(ss) == \A i \in 1 .. Len(ss) : ss[i] = <<>>
           X == {ss \in Seq(A) : none(ss) => FlattenSeq(ss) = <<>>}
<1>1. <<>> \in X
  BY FlattenEmpty, EmptySeq
<1>2. ASSUME NEW ss \in Seq(A), NEW s \in A, ss \in X PROVE Append(ss, s) \in X
  <2> DEFINE tt == Append(ss, s)
  <2>1. /\ tt \in Seq(A) /\ Len(tt) = Len(ss) + 1 /\ Len(ss) \in Nat
        /\ tt[Len(ss) + 1] = s /\ \A i \in 1 .. Len(ss) : tt[i] = ss[i]
    <3> HIDE DEF A
    <3>1. QED
      BY AppendProperties, LenProperties
  <2>2. FlattenSeq(tt) = FlattenSeq(ss) \o s
    BY FlattenAppend
  <2> HIDE DEF tt
  <2>3. ASSUME none(tt) PROVE FlattenSeq(tt) = <<>>
    <3>1. Len(ss) + 1 \in 1 .. Len(tt) /\ \A i \in 1 .. Len(ss) : i \in 1 .. Len(tt)
      BY <2>1
    <3>2. s = <<>> /\ none(ss)
      BY <2>1, <2>3, <3>1
    <3>3. FlattenSeq(tt) = <<>> \o <<>>
      BY <1>2, <2>2, <3>2
    <3>4. QED
      BY <3>3
  <2>4. QED
    BY <2>1, <2>3 DEF tt
<1> HIDE DEF X
<1>3. Seq(A) \subseteq X
  BY <1>1, <1>2, SeqInduction
<1>4. QED
  BY <1>3 DEF X

LEMMA FlattenOnly ==
  ASSUME NEW S
  PROVE  \A ss \in Seq(Seq(S)) : \A k \in 1 .. Len(ss) :
           (\A i \in 1 .. Len(ss) \ {k} : ss[i] = <<>>) => FlattenSeq(ss) = ss[k]
<1> DEFINE A == Seq(S)
           only(ss, k) == \A i \in 1 .. Len(ss) \ {k} : ss[i] = <<>>
           X == {ss \in Seq(A) : \A k \in 1 .. Len(ss) : only(ss, k) => FlattenSeq(ss) = ss[k]}
<1>1. <<>> \in X
  <2>1. 1 .. Len(<<>>) = {}
    OBVIOUS
  <2>2. QED
    BY <2>1, EmptySeq
<1>2. ASSUME NEW ss \in Seq(A), NEW s \in A, ss \in X PROVE Append(ss, s) \in X
  <2> DEFINE tt == Append(ss, s)
  <2>1. /\ tt \in Seq(A) /\ Len(tt) = Len(ss) + 1 /\ Len(ss) \in Nat
        /\ tt[Len(ss) + 1] = s /\ \A i \in 1 .. Len(ss) : tt[i] = ss[i] /\ ss[i] \in A
    <3> HIDE DEF A
    <3>1. QED
      BY AppendProperties, LenProperties, ElementOfSeq
  <2>2. FlattenSeq(tt) = FlattenSeq(ss) \o s
    BY FlattenAppend
  <2> HIDE DEF tt
  <2>3. ASSUME NEW k \in 1 .. Len(tt), only(tt, k) PROVE FlattenSeq(tt) = tt[k]
    <3>1. CASE k = Len(ss) + 1
      <4>1. \A i \in 1 .. Len(ss) : i \in 1 .. Len(tt) \ {k}
        BY <2>1, <3>1
      <4>2. \A i \in 1 .. Len(ss) : ss[i] = <<>>
        BY <2>1, <2>3, <4>1
      <4>3. FlattenSeq(ss) = <<>>
        BY <4>2, FlattenNone
      <4>4. QED
        BY <2>1, <2>2, <3>1, <4>3, ConcatEmptySeq
    <3>2. CASE k # Len(ss) + 1
      <4>1. k \in 1 .. Len(ss) /\ Len(ss) + 1 \in 1 .. Len(tt) \ {k}
            /\ \A i \in 1 .. Len(ss) \ {k} : i \in 1 .. Len(tt) \ {k}
        BY <2>1, <3>2
      <4>2. s = <<>> /\ only(ss, k)
        BY <2>1, <2>3, <4>1
      <4>3. FlattenSeq(ss) = ss[k] /\ ss[k] \in A
        BY <1>2, <2>1, <4>1, <4>2
      <4>4. QED
        BY <2>1, <2>2, <4>1, <4>2, <4>3, ConcatEmptySeq
    <3>3. QED
      BY <3>1, <3>2
  <2>4. QED
    BY <2>1, <2>3 DEF tt
<1> HIDE DEF X
<1>3. Seq(A) \subseteq X
  BY <1>1, <1>2, SeqInduction
<1>4. QED
  BY <1>3 DEF X

(* The elements of a sequence that are in a set.                              *)
Keep(P, s) == FlattenSeq([j \in DOMAIN s |-> IF s[j] \in P THEN <<s[j]>> ELSE <<>>])

Chosen(P, S) == [x \in S |-> IF x \in P THEN <<x>> ELSE <<>>]

LEMMA ChosenIs == \A P, S : Maps(Chosen(P, S), S, Seq(S))
<1> SUFFICES ASSUME NEW P, NEW S PROVE Maps(Chosen(P, S), S, Seq(S))
  OBVIOUS
<1>1. \A x \in S : <<x>> \in Seq(S) /\ <<>> \in Seq(S)
  OBVIOUS
<1> DEFINE A == Seq(S)
<1> HIDE DEF A
<1>2. Chosen(P, S) \in [S -> A]
  BY <1>1 DEF A, Chosen
<1>3. QED
  BY <1>2 DEF A, Maps

LEMMA ChosenMaps ==
  ASSUME NEW P, NEW S
  PROVE  LET f == Chosen(P, S) IN
         /\ \A s \in Seq(S) : /\ Map(f, s) \in Seq(Seq(S)) /\ Len(Map(f, s)) = Len(s)
                              /\ \A i \in 1 .. Len(s) : Map(f, s)[i] = f[s[i]]
         /\ \A s, t \in Seq(S) : Map(f, s \o t) = Map(f, s) \o Map(f, t)
<1> DEFINE f == Chosen(P, S)
           T == Seq(S)
<1>1. Maps(f, S, T)
  BY ChosenIs
<1> HIDE DEF f, T
<1>2. \A s \in Seq(S) : /\ Map(f, s) \in Seq(T) /\ Len(Map(f, s)) = Len(s)
                         /\ \A i \in 1 .. Len(s) : Map(f, s)[i] = f[s[i]]
  BY <1>1, MapIs
<1>3. \A s, t \in Seq(S) : Map(f, s \o t) = Map(f, s) \o Map(f, t)
  BY <1>1, MapConcat
<1>4. QED
  BY <1>2, <1>3 DEF f, T

LEMMA KeepIs ==
  ASSUME NEW P, NEW S
  PROVE  \A s \in Seq(S) : /\ Keep(P, s) = FlattenSeq(Map(Chosen(P, S), s))
                            /\ Map(Chosen(P, S), s) \in Seq(Seq(S))
                            /\ Keep(P, s) \in Seq(S)
<1> SUFFICES ASSUME NEW s \in Seq(S)
             PROVE  /\ Keep(P, s) = FlattenSeq(Map(Chosen(P, S), s))
                    /\ Map(Chosen(P, S), s) \in Seq(Seq(S))
                    /\ Keep(P, s) \in Seq(S)
  OBVIOUS
<1> DEFINE f == Chosen(P, S)
<1>1. DOMAIN s = 1 .. Len(s) /\ \A j \in 1 .. Len(s) : s[j] \in S
  BY LenProperties, ElementOfSeq
<1>2. [j \in DOMAIN s |-> IF s[j] \in P THEN <<s[j]>> ELSE <<>>] = Map(f, s)
  BY <1>1 DEF Map, Chosen
<1>3. Map(f, s) \in Seq(Seq(S))
  BY ChosenMaps
<1>4. Keep(P, s) = FlattenSeq(Map(f, s))
  BY <1>2 DEF Keep
<1> HIDE DEF f
<1>5. QED
  BY <1>3, <1>4, FlattenType DEF f

LEMMA KeepEmpty == \A P : Keep(P, <<>>) = <<>>
<1> SUFFICES ASSUME NEW P PROVE Keep(P, <<>>) = <<>>
  OBVIOUS
<1>1. Keep(P, <<>>) = FlattenSeq([j \in DOMAIN <<>> |-> IF <<>>[j] \in P THEN <<<<>>[j]>>
                                                      ELSE <<>>])
  BY DEF Keep
<1>2. [j \in DOMAIN <<>> |-> IF <<>>[j] \in P THEN <<<<>>[j]>> ELSE <<>>] = <<>>
  OBVIOUS
<1>3. QED
  BY <1>1, <1>2, FlattenEmpty

LEMMA KeepConcat ==
  ASSUME NEW P, NEW S
  PROVE  \A s, t \in Seq(S) : Keep(P, s \o t) = Keep(P, s) \o Keep(P, t)
<1> SUFFICES ASSUME NEW s \in Seq(S), NEW t \in Seq(S)
             PROVE  Keep(P, s \o t) = Keep(P, s) \o Keep(P, t)
  OBVIOUS
<1> DEFINE a == Map(Chosen(P, S), s)
           b == Map(Chosen(P, S), t)
           c == Map(Chosen(P, S), s \o t)
<1>1. s \o t \in Seq(S)
  BY ConcatProperties
<1>2. c = a \o b
  BY ChosenMaps
<1>3. /\ Keep(P, s \o t) = FlattenSeq(c)
      /\ Keep(P, s) = FlattenSeq(a) /\ Keep(P, t) = FlattenSeq(b)
      /\ a \in Seq(Seq(S)) /\ b \in Seq(Seq(S))
  BY <1>1, KeepIs
<1> HIDE DEF a, b, c
<1>4. \A ss, tt \in Seq(Seq(S)) : FlattenSeq(ss \o tt) = FlattenSeq(ss) \o FlattenSeq(tt)
  BY FlattenConcat
<1>5. QED
  BY <1>2, <1>3, <1>4

LEMMA KeepOne ==
  ASSUME NEW P, NEW x
  PROVE  Keep(P, <<x>>) = IF x \in P THEN <<x>> ELSE <<>>
<1> DEFINE S == {x}
           c == IF x \in P THEN <<x>> ELSE <<>>
<1>1. [j \in DOMAIN <<x>> |-> IF <<x>>[j] \in P THEN <<<<x>>[j]>> ELSE <<>>] = <<c>>
  OBVIOUS
<1>2. Keep(P, <<x>>) = FlattenSeq(<<c>>)
  BY <1>1 DEF Keep
<1>3. c \in Seq(S)
  <2>1. <<x>> \in Seq(S) /\ <<>> \in Seq(S)
    OBVIOUS
  <2>2. QED
    BY <2>1
<1> HIDE DEF S, c
<1>4. Keep(P, <<x>>) = c
  BY <1>2, <1>3, FlattenOne
<1>5. QED
  BY <1>4 DEF c

LEMMA KeepNone ==
  ASSUME NEW P, NEW S
  PROVE  \A s \in Seq(S) : (\A i \in 1 .. Len(s) : s[i] \notin P) => Keep(P, s) = <<>>
<1> SUFFICES ASSUME NEW s \in Seq(S), \A i \in 1 .. Len(s) : s[i] \notin P
             PROVE  Keep(P, s) = <<>>
  OBVIOUS
<1> DEFINE f == Chosen(P, S)
           ss == Map(f, s)
<1>1. \A i \in 1 .. Len(s) : s[i] \in S
  BY ElementOfSeq
<1>2. Len(ss) = Len(s) /\ \A i \in 1 .. Len(s) : ss[i] = f[s[i]]
  BY ChosenMaps
<1>3. \A i \in 1 .. Len(s) : f[s[i]] = <<>>
  BY <1>1 DEF Chosen
<1>4. Keep(P, s) = FlattenSeq(ss) /\ ss \in Seq(Seq(S))
  BY KeepIs
<1> HIDE DEF f, ss
<1>5. \A i \in 1 .. Len(ss) : ss[i] = <<>>
  BY <1>2, <1>3
<1>6. FlattenSeq(ss) = <<>>
  BY <1>4, <1>5, FlattenNone
<1>7. QED
  BY <1>4, <1>6

LEMMA KeepAll ==
  ASSUME NEW P, NEW S, S \subseteq P
  PROVE  \A s \in Seq(S) : Keep(P, s) = s
<1> DEFINE X == {s \in Seq(S) : Keep(P, s) = s}
<1>1. <<>> \in X
  BY KeepEmpty, EmptySeq
<1>2. ASSUME NEW s \in Seq(S), NEW e \in S, s \in X PROVE Append(s, e) \in X
  <2>1. Append(s, e) = s \o <<e>> /\ <<e>> \in Seq(S) /\ Append(s, e) \in Seq(S)
    BY AppendIsConcat, AppendProperties
  <2>2. Keep(P, s \o <<e>>) = Keep(P, s) \o Keep(P, <<e>>)
    BY <2>1, KeepConcat
  <2>3. Keep(P, <<e>>) = <<e>>
    BY KeepOne
  <2>4. QED
    BY <1>2, <2>1, <2>2, <2>3
<1> HIDE DEF X
<1>3. Seq(S) \subseteq X
  BY <1>1, <1>2, SeqInduction
<1>4. QED
  BY <1>3 DEF X

LEMMA KeepFlatten ==
  ASSUME NEW P, NEW S
  PROVE  \A ss \in Seq(Seq(S)) :
           /\ [i \in DOMAIN ss |-> Keep(P, ss[i])] \in Seq(Seq(S))
           /\ Keep(P, FlattenSeq(ss)) = FlattenSeq([i \in DOMAIN ss |-> Keep(P, ss[i])])
<1> DEFINE A == Seq(S)
           f == [s \in A |-> Keep(P, s)]
           X == {ss \in Seq(A) : Keep(P, FlattenSeq(ss)) = FlattenSeq(Map(f, ss))}
<1>0. \A s \in A : Keep(P, s) \in A
  BY KeepIs
<1>1. Maps(f, A, A)
  <2> HIDE DEF A
  <2>1. QED
    BY <1>0 DEF Maps
<1>2. <<>> \in X
  BY KeepEmpty, FlattenEmpty, MapEmpty, EmptySeq
<1>3. ASSUME NEW ss \in Seq(A), NEW s \in A, ss \in X PROVE Append(ss, s) \in X
  <2>1. Append(ss, s) \in Seq(A) /\ Append(ss, s) = ss \o <<s>> /\ <<s>> \in Seq(A)
    <3> HIDE DEF A
    <3>1. QED
      BY AppendProperties, AppendIsConcat
  <2>2. Map(f, Append(ss, s)) = Map(f, ss) \o <<Keep(P, s)>> /\ Map(f, ss) \in Seq(A)
    <3>1. f[s] = Keep(P, s)
      OBVIOUS
    <3> HIDE DEF A, f
    <3>2. Map(f, ss \o <<s>>) = Map(f, ss) \o Map(f, <<s>>) /\ Map(f, ss) \in Seq(A)
      <4>1. \A p, q \in Seq(A) : Map(f, p \o q) = Map(f, p) \o Map(f, q)
        BY <1>1, MapConcat
      <4>2. Map(f, ss) \in Seq(A)
        BY <1>1, MapIs
      <4>3. QED
        BY <2>1, <4>1, <4>2
    <3>3. QED
      BY <2>1, <3>1, <3>2, MapOne
  <2>3. FlattenSeq(Append(ss, s)) = FlattenSeq(ss) \o s /\ FlattenSeq(ss) \in Seq(S)
    BY FlattenAppend, FlattenType
  <2>4. Keep(P, FlattenSeq(Append(ss, s))) = Keep(P, FlattenSeq(ss)) \o Keep(P, s)
    BY <2>3, KeepConcat
  <2>5. FlattenSeq(Map(f, ss) \o <<Keep(P, s)>>) = FlattenSeq(Map(f, ss)) \o Keep(P, s)
    <3> DEFINE p == Map(f, ss)
               q == Keep(P, s)
    <3>1. p \in Seq(Seq(S)) /\ q \in Seq(S)
      BY <1>0, <2>2
    <3> HIDE DEF p, q
    <3>2. FlattenSeq(Append(p, q)) = FlattenSeq(p) \o q
      BY <3>1, FlattenAppend
    <3>3. Append(p, q) = p \o <<q>>
      BY <3>1, AppendIsConcat
    <3>4. QED
      BY <3>2, <3>3 DEF p, q
  <2>6. Keep(P, FlattenSeq(ss)) = FlattenSeq(Map(f, ss))
    BY <1>3
  <2> HIDE DEF f
  <2>7. Keep(P, FlattenSeq(Append(ss, s))) = FlattenSeq(Map(f, Append(ss, s)))
    BY <2>2, <2>4, <2>5, <2>6
  <2>8. QED
    BY <2>1, <2>7
<1> HIDE DEF X
<1>4. Seq(A) \subseteq X
  BY <1>2, <1>3, SeqInduction
<1>5. ASSUME NEW ss \in Seq(A)
      PROVE  Map(f, ss) \in Seq(A) /\ [i \in DOMAIN ss |-> Keep(P, ss[i])] = Map(f, ss)
  <2> HIDE DEF A
  <2>1. DOMAIN ss = 1 .. Len(ss) /\ \A i \in 1 .. Len(ss) : ss[i] \in A
    BY LenProperties, ElementOfSeq
  <2>2. [i \in DOMAIN ss |-> Keep(P, ss[i])] = Map(f, ss)
    BY <2>1 DEF Map
  <2> HIDE DEF f
  <2>3. QED
    BY <1>1, <2>2, MapIs
<1>6. QED
  BY <1>4, <1>5 DEF X
-----------------------------------------------------------------------------
(* The tokens that fit a row of the .proto file.                              *)
LEMMA FittingIsKeep ==
  ASSUME NEW S
  PROVE  \A s \in Seq(S) :
           /\ \A row : Fitting(row, s) = Keep({x \in S : Fits(row, x)}, s)
           /\ \A k : FittingNone(k, s) = Keep({x \in S : FitsNone(k, x)}, s)
<1> SUFFICES ASSUME NEW s \in Seq(S)
             PROVE  /\ \A row : Fitting(row, s) = Keep({x \in S : Fits(row, x)}, s)
                    /\ \A k : FittingNone(k, s) = Keep({x \in S : FitsNone(k, x)}, s)
  OBVIOUS
<1>1. \A j \in DOMAIN s : s[j] \in S
  BY ElementOfSeq, LenProperties
<1>2. ASSUME NEW row PROVE Fitting(row, s) = Keep({x \in S : Fits(row, x)}, s)
  <2>1. [j \in DOMAIN s |-> IF Fits(row, s[j]) THEN <<s[j]>> ELSE <<>>]
          = [j \in DOMAIN s |-> IF s[j] \in {x \in S : Fits(row, x)} THEN <<s[j]>> ELSE <<>>]
    BY <1>1
  <2>2. QED
    BY <2>1 DEF Fitting, Keep
<1>3. ASSUME NEW k PROVE FittingNone(k, s) = Keep({x \in S : FitsNone(k, x)}, s)
  <2>1. [j \in DOMAIN s |-> IF FitsNone(k, s[j]) THEN <<s[j]>> ELSE <<>>]
          = [j \in DOMAIN s |-> IF s[j] \in {x \in S : FitsNone(k, x)} THEN <<s[j]>> ELSE <<>>]
    BY <1>1
  <2>2. QED
    BY <2>1 DEF FittingNone, Keep
<1>4. QED
  BY <1>2, <1>3

LEMMA FittingConcat ==
  ASSUME NEW S
  PROVE  \A s, t \in Seq(S) :
           /\ \A row : Fitting(row, s \o t) = Fitting(row, s) \o Fitting(row, t)
           /\ \A k : FittingNone(k, s \o t) = FittingNone(k, s) \o FittingNone(k, t)
<1> SUFFICES ASSUME NEW s \in Seq(S), NEW t \in Seq(S)
             PROVE  /\ \A row : Fitting(row, s \o t) = Fitting(row, s) \o Fitting(row, t)
                    /\ \A k : FittingNone(k, s \o t) = FittingNone(k, s) \o FittingNone(k, t)
  OBVIOUS
<1>1. s \o t \in Seq(S)
  BY ConcatProperties
<1>2. \A P : Keep(P, s \o t) = Keep(P, s) \o Keep(P, t)
  BY KeepConcat
<1>3. \A r \in Seq(S) :
        /\ \A row : Fitting(row, r) = Keep({x \in S : Fits(row, x)}, r)
        /\ \A k : FittingNone(k, r) = Keep({x \in S : FitsNone(k, x)}, r)
  BY FittingIsKeep
<1>4. ASSUME NEW row PROVE Fitting(row, s \o t) = Fitting(row, s) \o Fitting(row, t)
  <2> DEFINE P == {x \in S : Fits(row, x)}
  <2>1. /\ Fitting(row, s) = Keep(P, s) /\ Fitting(row, t) = Keep(P, t)
        /\ Fitting(row, s \o t) = Keep(P, s \o t)
    BY <1>1, <1>3
  <2> HIDE DEF P
  <2>2. QED
    BY <1>2, <2>1
<1>5. ASSUME NEW k PROVE FittingNone(k, s \o t) = FittingNone(k, s) \o FittingNone(k, t)
  <2> DEFINE P == {x \in S : FitsNone(k, x)}
  <2>1. /\ FittingNone(k, s) = Keep(P, s) /\ FittingNone(k, t) = Keep(P, t)
        /\ FittingNone(k, s \o t) = Keep(P, s \o t)
    BY <1>1, <1>3
  <2> HIDE DEF P
  <2>2. QED
    BY <1>2, <2>1
<1>6. QED
  BY <1>4, <1>5

LEMMA KeepIn ==
  ASSUME NEW P, NEW S
  PROVE  \A s \in Seq(S) : Keep(P, s) \in Seq(S \cap P)
<1> DEFINE T == S \cap P
           X == {s \in Seq(S) : Keep(P, s) \in Seq(T)}
<1>1. <<>> \in X
  BY KeepEmpty, EmptySeq
<1>2. ASSUME NEW s \in Seq(S), NEW e \in S, s \in X PROVE Append(s, e) \in X
  <2>1. Append(s, e) = s \o <<e>> /\ <<e>> \in Seq(S) /\ Append(s, e) \in Seq(S)
    BY AppendIsConcat, AppendProperties
  <2>2. Keep(P, s \o <<e>>) = Keep(P, s) \o Keep(P, <<e>>)
    BY <2>1, KeepConcat
  <2>3. Keep(P, <<e>>) \in Seq(T)
    <3>1. e \in P => e \in T /\ <<e>> \in Seq(T)
      OBVIOUS
    <3>2. <<>> \in Seq(T)
      BY EmptySeq
    <3> HIDE DEF T
    <3>3. Keep(P, <<e>>) = IF e \in P THEN <<e>> ELSE <<>>
      BY KeepOne
    <3>4. QED
      BY <3>1, <3>2, <3>3
  <2>4. Keep(P, s) \in Seq(T)
    BY <1>2
  <2> HIDE DEF T
  <2>5. Keep(P, s) \o Keep(P, <<e>>) \in Seq(T)
    BY <2>3, <2>4, ConcatProperties
  <2>6. QED
    BY <2>1, <2>2, <2>5
<1> HIDE DEF X
<1>3. Seq(S) \subseteq X
  BY <1>1, <1>2, SeqInduction
<1>4. QED
  BY <1>3 DEF X

LEMMA FittingIn ==
  ASSUME NEW S
  PROVE  \A s \in Seq(S) :
           /\ \A row : Fitting(row, s) \in Seq({x \in S : Fits(row, x)})
           /\ \A k : FittingNone(k, s) \in Seq({x \in S : FitsNone(k, x)})
<1> SUFFICES ASSUME NEW s \in Seq(S)
             PROVE  /\ \A row : Fitting(row, s) \in Seq({x \in S : Fits(row, x)})
                    /\ \A k : FittingNone(k, s) \in Seq({x \in S : FitsNone(k, x)})
  OBVIOUS
<1>1. ASSUME NEW row PROVE Fitting(row, s) \in Seq({x \in S : Fits(row, x)})
  <2> DEFINE P == {x \in S : Fits(row, x)}
  <2>1. S \cap P = P /\ Fitting(row, s) = Keep(P, s)
    BY FittingIsKeep
  <2> HIDE DEF P
  <2>2. Keep(P, s) \in Seq(S \cap P)
    BY KeepIn
  <2>3. QED
    BY <2>1, <2>2 DEF P
<1>2. ASSUME NEW k PROVE FittingNone(k, s) \in Seq({x \in S : FitsNone(k, x)})
  <2> DEFINE P == {x \in S : FitsNone(k, x)}
  <2>1. S \cap P = P /\ FittingNone(k, s) = Keep(P, s)
    BY FittingIsKeep
  <2> HIDE DEF P
  <2>2. Keep(P, s) \in Seq(S \cap P)
    BY KeepIn
  <2>3. QED
    BY <2>1, <2>2 DEF P
<1>3. QED
  BY <1>1, <1>2

LEMMA FittingOne ==
  \A x : /\ \A row : Fitting(row, <<x>>) = IF Fits(row, x) THEN <<x>> ELSE <<>>
         /\ \A k : FittingNone(k, <<x>>) = IF FitsNone(k, x) THEN <<x>> ELSE <<>>
<1> SUFFICES ASSUME NEW x
             PROVE  /\ \A row : Fitting(row, <<x>>) = IF Fits(row, x) THEN <<x>> ELSE <<>>
                    /\ \A k : FittingNone(k, <<x>>) = IF FitsNone(k, x) THEN <<x>> ELSE <<>>
  OBVIOUS
<1> DEFINE S == {x}
<1>1. <<x>> \in Seq(S)
  OBVIOUS
<1>2. ASSUME NEW row PROVE Fitting(row, <<x>>) = IF Fits(row, x) THEN <<x>> ELSE <<>>
  <2>1. Fitting(row, <<x>>) = Keep({y \in S : Fits(row, y)}, <<x>>)
    BY <1>1, FittingIsKeep
  <2>2. QED
    BY <2>1, KeepOne, ZenonT(30)
<1>3. ASSUME NEW k PROVE FittingNone(k, <<x>>) = IF FitsNone(k, x) THEN <<x>> ELSE <<>>
  <2>1. FittingNone(k, <<x>>) = Keep({y \in S : FitsNone(k, y)}, <<x>>)
    BY <1>1, FittingIsKeep
  <2>2. QED
    BY <2>1, KeepOne, ZenonT(30)
<1>4. QED
  BY <1>2, <1>3

LEMMA FittingEmpty ==
  (\A row : Fitting(row, <<>>) = <<>>) /\ \A k : FittingNone(k, <<>>) = <<>>
<1> DEFINE S == {}
<1>1. <<>> \in Seq(S)
  BY EmptySeq
<1>2. /\ \A row : Fitting(row, <<>>) = Keep({x \in S : Fits(row, x)}, <<>>)
      /\ \A k : FittingNone(k, <<>>) = Keep({x \in S : FitsNone(k, x)}, <<>>)
  <2> HIDE DEF S
  <2>1. \A s \in Seq(S) :
           /\ \A row : Fitting(row, s) = Keep({x \in S : Fits(row, x)}, s)
           /\ \A k : FittingNone(k, s) = Keep({x \in S : FitsNone(k, x)}, s)
    BY FittingIsKeep
  <2>2. QED
    BY <1>1, <2>1
<1>3. \A P : Keep(P, <<>>) = <<>>
  BY KeepEmpty
<1>4. QED
  BY <1>2, <1>3

LEMMA PartsOf ==
  ASSUME NEW S, NEW ss \in Seq(Seq(S))
  PROVE  DOMAIN ss = 1 .. Len(ss) /\ Len(ss) \in Nat /\ \A i \in 1 .. Len(ss) : ss[i] \in Seq(S)
<1> DEFINE A == Seq(S)
<1>1. ss \in Seq(A)
  OBVIOUS
<1> HIDE DEF A
<1>2. DOMAIN ss = 1 .. Len(ss) /\ Len(ss) \in Nat /\ \A i \in 1 .. Len(ss) : ss[i] \in A
  BY <1>1, LenProperties, ElementOfSeq
<1>3. QED
  BY <1>2 DEF A

LEMMA SeqWithin ==
  ASSUME NEW S, NEW P
  PROVE  \A r \in Seq(S) : (\A j \in 1 .. Len(r) : r[j] \in P) => r \in Seq(P)
<1> SUFFICES ASSUME NEW r \in Seq(S), \A j \in 1 .. Len(r) : r[j] \in P
             PROVE  r \in Seq(P)
  OBVIOUS
<1>1. Len(r) \in Nat /\ r = [j \in 1 .. Len(r) |-> r[j]]
  BY LenProperties
<1>2. QED
  BY <1>1

(* Of parts one of which is that of the row.                                  *)
OnlyIn(row, ss, w) ==
  /\ \A i \in 1 .. Len(ss) \ {w} : \A j \in 1 .. Len(ss[i]) : ~ Fits(row, ss[i][j])
  /\ \A j \in 1 .. Len(ss[w]) : Fits(row, ss[w][j])

LEMMA FittingParts ==
  ASSUME NEW S, NEW row
  PROVE  \A ss \in Seq(Seq(S)) : \A w \in 1 .. Len(ss) :
           OnlyIn(row, ss, w) => Fitting(row, FlattenSeq(ss)) = ss[w]
<1> SUFFICES
      ASSUME NEW ss \in Seq(Seq(S)), NEW w \in 1 .. Len(ss),
             \A i \in 1 .. Len(ss) \ {w} : \A j \in 1 .. Len(ss[i]) : ~ Fits(row, ss[i][j]),
             \A j \in 1 .. Len(ss[w]) : Fits(row, ss[w][j])
      PROVE  Fitting(row, FlattenSeq(ss)) = ss[w]
  BY DEF OnlyIn
<1> DEFINE P == {x \in S : Fits(row, x)}
           A == Seq(S)
           tt == [i \in DOMAIN ss |-> Keep(P, ss[i])]
<1>1. DOMAIN ss = 1 .. Len(ss) /\ Len(ss) \in Nat /\ \A i \in 1 .. Len(ss) : ss[i] \in A
  BY PartsOf
<1>2. tt \in Seq(A) /\ Keep(P, FlattenSeq(ss)) = FlattenSeq(tt)
  <2> HIDE DEF P
  <2>1. \A rr \in Seq(Seq(S)) :
           /\ [i \in DOMAIN rr |-> Keep(P, rr[i])] \in Seq(Seq(S))
           /\ Keep(P, FlattenSeq(rr)) = FlattenSeq([i \in DOMAIN rr |-> Keep(P, rr[i])])
    BY KeepFlatten
  <2>2. QED
    BY <2>1
<1>3. Fitting(row, FlattenSeq(ss)) = Keep(P, FlattenSeq(ss))
  BY FlattenType, FittingIsKeep
<1>4. DOMAIN tt = 1 .. Len(ss) /\ \A i \in 1 .. Len(ss) : tt[i] = Keep(P, ss[i])
  BY <1>1
<1>5. ASSUME NEW i \in 1 .. Len(ss) \ {w} PROVE tt[i] = <<>>
  <2>1. \A j \in 1 .. Len(ss[i]) : ss[i][j] \notin P
    OBVIOUS
  <2>2. ss[i] \in Seq(S)
    BY <1>1
  <2> HIDE DEF P
  <2>3. Keep(P, ss[i]) = <<>>
    BY <2>1, <2>2, KeepNone
  <2> HIDE DEF tt
  <2>4. QED
    BY <1>4, <2>3
<1>6. tt[w] = ss[w]
  <2>1. ss[w] \in Seq(S) /\ \A j \in 1 .. Len(ss[w]) : ss[w][j] \in S
    BY <1>1, ElementOfSeq
  <2>2. \A j \in 1 .. Len(ss[w]) : ss[w][j] \in P
    BY <2>1
  <2>3. ss[w] \in Seq(P)
    BY <2>1, <2>2, SeqWithin
  <2> HIDE DEF P
  <2>4. Keep(P, ss[w]) = ss[w]
    BY <2>3, KeepAll
  <2> HIDE DEF tt
  <2>5. QED
    BY <1>4, <2>4
<1>7. Len(tt) = Len(ss)
  <2> HIDE DEF tt
  <2>1. QED
    BY <1>1, <1>2, <1>4, LenProperties
<1> HIDE DEF tt, P
<1>8. FlattenSeq(tt) = tt[w]
  <2>1. \A rr \in Seq(Seq(S)) : \A l \in 1 .. Len(rr) :
           (\A i \in 1 .. Len(rr) \ {l} : rr[i] = <<>>) => FlattenSeq(rr) = rr[l]
    BY FlattenOnly
  <2>2. QED
    BY <1>2, <1>5, <1>7, <2>1
<1>9. QED
  BY <1>2, <1>3, <1>6, <1>8

LEMMA FittingNoneParts ==
  ASSUME NEW S, NEW k, NEW ss \in Seq(Seq(S)),
         \A i \in 1 .. Len(ss) : \A j \in 1 .. Len(ss[i]) : ~ FitsNone(k, ss[i][j])
  PROVE  FittingNone(k, FlattenSeq(ss)) = <<>>
<1> DEFINE P == {x \in S : FitsNone(k, x)}
           A == Seq(S)
           tt == [i \in DOMAIN ss |-> Keep(P, ss[i])]
<1>1. DOMAIN ss = 1 .. Len(ss) /\ Len(ss) \in Nat /\ \A i \in 1 .. Len(ss) : ss[i] \in A
  BY PartsOf
<1>2. tt \in Seq(A) /\ Keep(P, FlattenSeq(ss)) = FlattenSeq(tt)
  <2> HIDE DEF P
  <2>1. \A rr \in Seq(Seq(S)) :
           /\ [i \in DOMAIN rr |-> Keep(P, rr[i])] \in Seq(Seq(S))
           /\ Keep(P, FlattenSeq(rr)) = FlattenSeq([i \in DOMAIN rr |-> Keep(P, rr[i])])
    BY KeepFlatten
  <2>2. QED
    BY <2>1
<1>3. FittingNone(k, FlattenSeq(ss)) = Keep(P, FlattenSeq(ss))
  BY FlattenType, FittingIsKeep
<1>4. DOMAIN tt = 1 .. Len(ss) /\ \A i \in 1 .. Len(ss) : tt[i] = Keep(P, ss[i])
  BY <1>1
<1>5. ASSUME NEW i \in 1 .. Len(ss) PROVE tt[i] = <<>>
  <2>1. \A j \in 1 .. Len(ss[i]) : ss[i][j] \notin P
    OBVIOUS
  <2>2. ss[i] \in Seq(S)
    BY <1>1
  <2> HIDE DEF P
  <2>3. Keep(P, ss[i]) = <<>>
    BY <2>1, <2>2, KeepNone
  <2> HIDE DEF tt
  <2>4. QED
    BY <1>4, <2>3
<1>6. Len(tt) = Len(ss)
  <2> HIDE DEF tt
  <2>1. QED
    BY <1>1, <1>2, <1>4, LenProperties
<1> HIDE DEF tt, P
<1>7. FlattenSeq(tt) = <<>>
  BY <1>2, <1>5, <1>6, FlattenNone
<1>8. QED
  BY <1>2, <1>3, <1>7
-----------------------------------------------------------------------------
(* What tokens mean and what an object holds, field by field.                 *)
SubMeaning(t, mine) ==
  IF t \in Nested THEN MeaningLeaf(t, FlattenSeq([j \in DOMAIN mine |-> mine[j].val]))
  ELSE LastValue(t, mine)

SubHeld(t, v) == IF t \in Nested THEN HeldLeaf(t, v) ELSE v

MeaningField(k, i, tokens) ==
  LET row == Proto!Table[k][i]
      mine == Fitting(row, tokens)
  IN  IF row[2] = "rep" THEN [j \in DOMAIN mine |-> SubMeaning(row[3], <<mine[j]>>)]
      ELSE IF mine = <<>> THEN <<>> ELSE <<SubMeaning(row[3], mine)>>

HeldField(k, i, o) ==
  LET n == Proto!Table[k][i][1] IN
  IF IsList(k, n) THEN [j \in 1 .. o.val[n].size |-> SubHeld(Type(k, n), o.val[n].all[j])]
  ELSE IF Has(k, o, n) THEN <<SubHeld(Type(k, n), o.val[n])>> ELSE <<>>

LEMMA MeaningIs ==
  \A k, tokens :
    Meaning(k, tokens) = [fields |-> [i \in DOMAIN Proto!Table[k] |-> MeaningField(k, i, tokens)],
                          unknown |-> FittingNone(k, tokens)]
BY DEF Meaning, MeaningWith, MeaningField, SubMeaning

LEMMA HeldIs ==
  \A k, o : Held(k, o) = [fields |-> [i \in DOMAIN Proto!Table[k] |-> HeldField(k, i, o)],
                          unknown |-> o.unknown]
BY DEF Held, HeldWith, HeldField, SubHeld

(* The rows of the .proto file, and the row that writes each of its fields.   *)
LEMMA ProtoRow ==
  ASSUME NEW k \in Classes, NEW i \in DOMAIN Proto!Table[k]
  PROVE  LET n == Proto!Table[k][i][1] IN
         /\ n \in Numbers(k) /\ n \in Nat /\ n > 0
         /\ Proto!Table[k][i][3] = Type(k, n)
         /\ Proto!Table[k][i][2] = "rep" <=> IsList(k, n)
         /\ Type(k, n) \in Primitives \cup Nested
         /\ \A j \in DOMAIN Proto!Table[k] : Proto!Table[k][j][1] = n => j = i
<1> DEFINE n == Proto!Table[k][i][1]
<1>1. ProtoAgrees(k)
  BY MessagesAssumption DEF Classes
<1>2. /\ n \in Numbers(k) /\ Proto!Table[k][i][3] = Type(k, n)
      /\ Proto!Table[k][i][2] = "rep" <=> IsList(k, n)
      /\ \A j \in DOMAIN Proto!Table[k] : Proto!Table[k][j][1] = n => j = i
  BY <1>1 DEF ProtoAgrees, Covers
<1>3. HasBitsAgree(k, n)
  BY <1>2, TablesAgree
<1>4. QED
  BY <1>2, <1>3 DEF HasBitsAgree

LEMMA ProtoRowOf ==
  ASSUME NEW k \in Classes, NEW n \in Numbers(k)
  PROVE  \E i \in DOMAIN Proto!Table[k] : Proto!Table[k][i][1] = n
<1>1. ProtoAgrees(k)
  BY MessagesAssumption DEF Classes
<1>2. QED
  BY <1>1 DEF ProtoAgrees, Covers

LEMMA WriteRowOf ==
  ASSUME NEW k \in Classes, NEW n \in Numbers(k)
  PROVE  \E w \in DOMAIN Write!Table[k] :
           /\ Write!Table[k][w][1] = n
           /\ \A i \in DOMAIN Write!Table[k] \ {w} : Write!Table[k][i][1] # n
<1>1. WriteAgrees(k)
  BY MessagesAssumption DEF Classes
<1>2. Covers(Write!Table[k], k)
  BY <1>1 DEF WriteAgrees
<1>3. PICK w \in DOMAIN Write!Table[k] : Write!Table[k][w][1] = n
  BY <1>2 DEF Covers
<1>4. QED
  BY <1>2, <1>3 DEF Covers

(* A token as a peer with the same .proto file writes it for the field n.     *)
TokenOfField(k, n, x) ==
  /\ x.num = n /\ x.wire = WireType(Type(k, n))
  /\ Type(k, n) = "enum" => x.val \in Protos_Game60Fishing

LEMMA FieldFits ==
  ASSUME NEW k \in Classes, NEW n \in Numbers(k), NEW x, TokenOfField(k, n, x)
  PROVE  /\ \A i \in DOMAIN Proto!Table[k] : Fits(Proto!Table[k][i], x) <=> Proto!Table[k][i][1] = n
         /\ ~ FitsNone(k, x)
<1>1. ASSUME NEW i \in DOMAIN Proto!Table[k]
      PROVE  Fits(Proto!Table[k][i], x) <=> Proto!Table[k][i][1] = n
  BY ProtoRow DEF Fits, TokenOfField
<1>2. PICK i \in DOMAIN Proto!Table[k] : Proto!Table[k][i][1] = n
  BY ProtoRowOf
<1>3. QED
  BY <1>1, <1>2 DEF FitsNone

(* What is written for a row are tokens of its field.                         *)
LEMMA PartTokens ==
  ASSUME NEW k \in Classes, NEW o, Written(k, o), NEW i \in DOMAIN Write!Table[k]
  PROVE  LET n == Write!Table[k][i][1] IN
         \A j \in 1 .. Len(Part(k, o, i)) : TokenOfField(k, n, Part(k, o, i)[j])
<1> DEFINE n == Write!Table[k][i][1]
           type == Write!Table[k][i][2]
           list == o.val[n]
           p == Part(k, o, i)
<1>1. n \in Numbers(k) /\ n \in Nat /\ type = Type(k, n) /\ type \in Primitives \cup Nested
  BY WriteRow
<1>2. ASSUME NEW v, type \in Nested => GoodLeaf(type, v) /\ WrittenLeaf(type, v),
             type \notin Nested => IsValue(type, v)
      PROVE  TokenOfField(k, n, TokenOf(n, type, v))
  <2> HIDE DEF n, type
  <2>1. type \notin Nested => v \in Int
    BY <1>2 DEF IsValue
  <2>2. /\ TokenOf(n, type, v).num = n /\ TokenOf(n, type, v).wire = WireType(type)
        /\ TokenOf(n, type, v).val = IF type \in Nested THEN SerializeLeaf(type, v) ELSE v
    BY <1>1, <1>2, <2>1, TokenIs
  <2>3. type = "enum" => type \notin Nested
    BY DEF Nested
  <2>4. type = "enum" => v \in Protos_Game60Fishing
    BY <1>2, <2>3 DEF IsValue
  <2>5. QED
    BY <1>1, <2>2, <2>3, <2>4 DEF TokenOfField
<1>3. CASE IsList(k, n)
  <2>1. p = [j \in 1 .. list.size |-> TokenOf(n, type, list.all[j])]
    BY <1>3 DEF Part
  <2>2. /\ type \in Nested /\ list.size \in Nat
        /\ \A j \in 1 .. list.size : GoodLeaf(type, list.all[j]) /\ WrittenLeaf(type, list.all[j])
    BY <1>1, <1>3, WrittenElements
  <2> HIDE DEF n, type, list, p
  <2>3. Len(p) = list.size /\ \A j \in 1 .. list.size : p[j] = TokenOf(n, type, list.all[j])
    BY <2>1, <2>2
  <2>4. \A j \in 1 .. list.size : TokenOfField(k, n, TokenOf(n, type, list.all[j]))
    BY <1>2, <2>2
  <2>5. \A j \in 1 .. Len(p) : TokenOfField(k, n, p[j])
    BY <2>3, <2>4
  <2>6. QED
    BY <2>5 DEF n, p
<1>4. CASE ~ IsList(k, n) /\ Has(k, o, n)
  <2>1. p = <<TokenOf(n, type, o.val[n])>>
    BY <1>4 DEF Part
  <2>2. /\ type \in Nested => GoodLeaf(type, o.val[n]) /\ WrittenLeaf(type, o.val[n])
        /\ type \notin Nested => IsValue(type, o.val[n])
    BY <1>1, <1>4, WrittenSingle
  <2> HIDE DEF n, type, p
  <2>3. TokenOfField(k, n, TokenOf(n, type, o.val[n]))
    BY <1>2, <2>2
  <2>4. Len(p) = 1 /\ p[1] = TokenOf(n, type, o.val[n])
    BY <2>1
  <2>5. \A j \in 1 .. Len(p) : TokenOfField(k, n, p[j])
    BY <2>3, <2>4
  <2>6. QED
    BY <2>5 DEF n, p
<1>5. CASE ~ IsList(k, n) /\ ~ Has(k, o, n)
  <2>1. p = <<>>
    BY <1>5 DEF Part
  <2>2. 1 .. Len(p) = {}
    BY <2>1
  <2>3. QED
    BY <2>2
<1>6. QED
  BY <1>3, <1>4, <1>5

(* Nothing else that is written fits the row of the field, and only the       *)
(* unknown fields fit none.                                                   *)
LEMMA FittingAll ==
  ASSUME NEW k, NEW S
  PROVE  \A s \in Seq(S) : (\A x \in S : FitsNone(k, x)) =>
           /\ FittingNone(k, s) = s
           /\ \A i \in DOMAIN Proto!Table[k] : Fitting(Proto!Table[k][i], s) = <<>>
<1> SUFFICES ASSUME NEW s \in Seq(S), \A x \in S : FitsNone(k, x)
             PROVE  /\ FittingNone(k, s) = s
                    /\ \A i \in DOMAIN Proto!Table[k] : Fitting(Proto!Table[k][i], s) = <<>>
  OBVIOUS
<1>1. \A j \in 1 .. Len(s) : s[j] \in S
  BY ElementOfSeq
<1>2. FittingNone(k, s) = s
  <2> DEFINE P == {x \in S : FitsNone(k, x)}
  <2>1. S \subseteq P
    OBVIOUS
  <2>2. FittingNone(k, s) = Keep(P, s)
    BY FittingIsKeep
  <2> HIDE DEF P
  <2>3. QED
    BY <2>1, <2>2, KeepAll
<1>3. ASSUME NEW i \in DOMAIN Proto!Table[k] PROVE Fitting(Proto!Table[k][i], s) = <<>>
  <2> DEFINE P == {x \in S : Fits(Proto!Table[k][i], x)}
  <2>1. \A j \in 1 .. Len(s) : s[j] \notin P
    BY <1>1 DEF FitsNone
  <2>2. Fitting(Proto!Table[k][i], s) = Keep(P, s)
    BY FittingIsKeep
  <2> HIDE DEF P
  <2>3. QED
    BY <2>1, <2>2, KeepNone
<1>4. QED
  BY <1>2, <1>3

LEMMA PartsOfWritten ==
  ASSUME NEW k \in Classes, NEW o, Written(k, o)
  PROVE  LET ss == [i \in DOMAIN Write!Table[k] |-> Part(k, o, i)] IN
         /\ ss \in Seq(Seq(TopTokens(k))) /\ Len(ss) = Len(Write!Table[k])
         /\ DOMAIN Write!Table[k] = 1 .. Len(ss)
         /\ \A i \in 1 .. Len(ss) : ss[i] = Part(k, o, i)
<1> DEFINE S == TopTokens(k)
           A == Seq(S)
           m == Len(Write!Table[k])
           ss == [i \in DOMAIN Write!Table[k] |-> Part(k, o, i)]
<1>1. m \in Nat /\ DOMAIN Write!Table[k] = 1 .. m
  BY WriteRows
<1>2. \A i \in 1 .. m : Part(k, o, i) \in A
  <2> SUFFICES ASSUME NEW i \in DOMAIN Write!Table[k] PROVE Part(k, o, i) \in A
    BY <1>1
  <2>1. QED
    BY ListPartIs, SinglePartIs
<1> HIDE DEF A, m
<1>3. ss \in Seq(A) /\ Len(ss) = m /\ \A i \in 1 .. m : ss[i] = Part(k, o, i)
  BY <1>1, <1>2
<1>4. QED
  BY <1>1, <1>3 DEF A, m

LEMMA FittingWritten ==
  ASSUME NEW k \in Classes, NEW o, Written(k, o), NEW i \in DOMAIN Proto!Table[k],
         NEW w \in DOMAIN Write!Table[k], Write!Table[k][w][1] = Proto!Table[k][i][1],
         \A j \in DOMAIN Write!Table[k] \ {w} : Write!Table[k][j][1] # Proto!Table[k][i][1]
  PROVE  Fitting(Proto!Table[k][i], Serialize(k, o)) = Part(k, o, w)
<1> DEFINE S == TopTokens(k)
           ss == [j \in DOMAIN Write!Table[k] |-> Part(k, o, j)]
           u == o.unknown
           row == Proto!Table[k][i]
           p == Part(k, o, w)
<1>1. /\ ss \in Seq(Seq(S)) /\ DOMAIN Write!Table[k] = 1 .. Len(ss)
      /\ \A j \in 1 .. Len(ss) : ss[j] = Part(k, o, j)
  BY PartsOfWritten
<1>2. Serialize(k, o) = FlattenSeq(ss) \o u
  BY PartsAre
<1>3. u \in Seq(StrangeTokens(k)) /\ u \in Seq(S) /\ StrangeTokens(k) \subseteq S
  BY DEF Written, StrangeTokens
<1>4. ASSUME NEW j \in 1 .. Len(ss) \ {w}, NEW l \in 1 .. Len(ss[j])
      PROVE  ~ Fits(row, ss[j][l])
  <2> DEFINE n == Write!Table[k][j][1]
             x == ss[j][l]
  <2>1. j \in DOMAIN Write!Table[k] /\ n # row[1] /\ ss[j] = Part(k, o, j)
    BY <1>1
  <2>2. n \in Numbers(k)
    BY <2>1, WriteRow
  <2>3. TokenOfField(k, n, x)
    BY <2>1, PartTokens
  <2> HIDE DEF n, x, ss
  <2>4. Fits(row, x) <=> row[1] = n
    BY <2>2, <2>3, FieldFits
  <2>5. QED
    BY <2>1, <2>4 DEF x
<1>5. ASSUME NEW l \in 1 .. Len(p)
      PROVE  Fits(row, p[l])
  <2> DEFINE n == Write!Table[k][w][1]
             x == p[l]
  <2>1. n \in Numbers(k)
    BY WriteRow
  <2>2. TokenOfField(k, n, x)
    BY PartTokens
  <2>3. n = row[1]
    OBVIOUS
  <2> HIDE DEF n, x
  <2>4. Fits(row, x) <=> row[1] = n
    BY <2>1, <2>2, FieldFits
  <2>5. QED
    BY <2>3, <2>4 DEF x
<1>6. w \in 1 .. Len(ss) /\ ss[w] = p
  BY <1>1
<1> HIDE DEF S, ss, p, row
<1>7. Fitting(row, FlattenSeq(ss)) = ss[w]
  <2>1. OnlyIn(row, ss, w)
    BY <1>4, <1>5, <1>6 DEF OnlyIn
  <2>2. \A rr \in Seq(Seq(S)) : \A l \in 1 .. Len(rr) :
          OnlyIn(row, rr, l) => Fitting(row, FlattenSeq(rr)) = rr[l]
    BY FittingParts
  <2>3. QED
    BY <1>1, <1>6, <2>1, <2>2
<1>8. Fitting(row, u) = <<>>
  <2>1. \A x \in StrangeTokens(k) : FitsNone(k, x)
    BY DEF StrangeTokens
  <2> HIDE DEF u
  <2>2. \A s \in Seq(StrangeTokens(k)) : \A j \in DOMAIN Proto!Table[k] :
           Fitting(Proto!Table[k][j], s) = <<>>
    BY <2>1, FittingAll
  <2>3. QED
    BY <1>3, <2>2 DEF row
<1>9. FlattenSeq(ss) \in Seq(S)
  BY <1>1, FlattenType
<1>10. Fitting(row, FlattenSeq(ss) \o u) = Fitting(row, FlattenSeq(ss)) \o Fitting(row, u)
  BY <1>3, <1>9, FittingConcat
<1>11. p \in Seq(S)
  BY <1>1, <1>6, PartsOf
<1>12. QED
  BY <1>2, <1>6, <1>7, <1>8, <1>10, <1>11, ConcatEmptySeq DEF row, p

LEMMA UnknownWritten ==
  ASSUME NEW k \in Classes, NEW o, Written(k, o)
  PROVE  FittingNone(k, Serialize(k, o)) = o.unknown
<1> DEFINE S == TopTokens(k)
           ss == [j \in DOMAIN Write!Table[k] |-> Part(k, o, j)]
           u == o.unknown
<1>1. /\ ss \in Seq(Seq(S)) /\ DOMAIN Write!Table[k] = 1 .. Len(ss)
      /\ \A j \in 1 .. Len(ss) : ss[j] = Part(k, o, j)
  BY PartsOfWritten
<1>2. Serialize(k, o) = FlattenSeq(ss) \o u
  BY PartsAre
<1>3. u \in Seq(StrangeTokens(k)) /\ u \in Seq(S) /\ StrangeTokens(k) \subseteq S
  BY DEF Written, StrangeTokens
<1>4. ASSUME NEW j \in 1 .. Len(ss), NEW l \in 1 .. Len(ss[j])
      PROVE  ~ FitsNone(k, ss[j][l])
  <2> DEFINE n == Write!Table[k][j][1]
             x == ss[j][l]
  <2>1. j \in DOMAIN Write!Table[k] /\ ss[j] = Part(k, o, j)
    BY <1>1
  <2>2. n \in Numbers(k)
    BY <2>1, WriteRow
  <2>3. TokenOfField(k, n, x)
    BY <2>1, PartTokens
  <2> HIDE DEF n, x, ss
  <2>4. ~ FitsNone(k, x)
    BY <2>2, <2>3, FieldFits
  <2>5. QED
    BY <2>4 DEF x
<1> HIDE DEF S, ss
<1>5. FittingNone(k, FlattenSeq(ss)) = <<>>
  BY <1>1, <1>4, FittingNoneParts
<1>6. FittingNone(k, u) = u
  <2>1. \A x \in StrangeTokens(k) : FitsNone(k, x)
    BY DEF StrangeTokens
  <2> HIDE DEF u
  <2>2. \A s \in Seq(StrangeTokens(k)) : FittingNone(k, s) = s
    BY <2>1, FittingAll
  <2>3. QED
    BY <1>3, <2>2
<1>7. FlattenSeq(ss) \in Seq(S)
  BY <1>1, FlattenType
<1>8. FittingNone(k, FlattenSeq(ss) \o u) = FittingNone(k, FlattenSeq(ss)) \o FittingNone(k, u)
  BY <1>3, <1>7, FittingConcat
<1>9. QED
  BY <1>2, <1>3, <1>5, <1>6, <1>8, ConcatEmptySeq
-----------------------------------------------------------------------------
(* A field of a type of its own means what was set; a nested message has no   *)
(* other fields.                                                              *)
LEMMA ScalarFieldWritten ==
  ASSUME NEW k \in Classes, NEW o, Written(k, o), NEW i \in DOMAIN Proto!Table[k],
         Scalar(k, Proto!Table[k][i][1])
  PROVE  MeaningField(k, i, Serialize(k, o)) = HeldField(k, i, o)
<1> DEFINE n == Proto!Table[k][i][1]
           t == Type(k, n)
           v == o.val[n]
           mine == Fitting(Proto!Table[k][i], Serialize(k, o))
<1>1. /\ n \in Numbers(k) /\ n \in Nat /\ Proto!Table[k][i][3] = t
      /\ Proto!Table[k][i][2] # "rep" /\ ~ IsList(k, n) /\ t \notin Nested /\ t \in Primitives
  BY ProtoRow DEF Scalar
<1>2. PICK w \in DOMAIN Write!Table[k] :
        Write!Table[k][w][1] = n /\ \A j \in DOMAIN Write!Table[k] \ {w} : Write!Table[k][j][1] # n
  BY <1>1, WriteRowOf
<1>3. mine = Part(k, o, w)
  BY <1>2, FittingWritten
<1>4. Write!Table[k][w][2] = t
  BY <1>2, WriteRow
<1>5. v \in Int
  BY <1>1, WrittenSingle DEF IsValue
<1>6. CASE Has(k, o, n)
  <2> DEFINE x == TokenOf(n, t, v)
  <2>1. mine = <<x>>
    BY <1>1, <1>2, <1>3, <1>4, <1>6 DEF Part
  <2>2. x.val = v
    <3> HIDE DEF n, t, v
    <3>1. QED
      BY <1>1, <1>5, TokenIs DEF t
  <2> HIDE DEF x
  <2>3. LastValue(t, <<x>>) = v
    BY <2>2 DEF LastValue
  <2>4. <<x>> # <<>>
    OBVIOUS
  <2>5. MeaningField(k, i, Serialize(k, o)) = <<v>>
    BY <1>1, <2>1, <2>3, <2>4 DEF MeaningField, SubMeaning
  <2>6. QED
    BY <1>1, <1>6, <2>5 DEF HeldField, SubHeld
<1>7. CASE ~ Has(k, o, n)
  <2>1. mine = <<>>
    BY <1>1, <1>2, <1>3, <1>7 DEF Part
  <2>2. QED
    BY <1>1, <1>7, <2>1 DEF MeaningField, HeldField
<1>8. QED
  BY <1>6, <1>7

LEMMA LeafIsWritten ==
  ASSUME NEW t \in Nested, NEW v, GoodLeaf(t, v), WrittenLeaf(t, v)
  PROVE  Written(t, v)
<1>1. ASSUME NEW n \in Numbers(t)
      PROVE  GoodMember(t, n, v.val[n], Has(t, v, n)) /\ WrittenMember(t, n, v.val[n])
  <2>1. t \in Classes /\ Scalar(t, n) /\ ~ IsList(t, n) /\ Type(t, n) \notin Nested
    BY LeafHasScalars DEF Scalar
  <2>2. Has(t, v, n) \/ v.val[n] = Row(New!Table[t], n)[2]
    BY DEF GoodLeaf, FreshLeaf, NewLeaf
  <2>3. IsValue(Type(t, n), v.val[n])
    BY DEF WrittenLeaf
  <2>4. QED
    BY <2>1, <2>2, <2>3 DEF GoodMember, WrittenMember
<1>2. v.unknown = <<>> /\ Object(t, v)
  BY DEF WrittenLeaf, GoodLeaf
<1>3. v.unknown \in Seq(StrangeTokens(t))
  BY <1>2, EmptySeq
<1>4. QED
  BY <1>1, <1>2, <1>3 DEF Written, GoodObject

LEMMA LeafSerializes ==
  ASSUME NEW t \in Nested, NEW v
  PROVE  SerializeLeaf(t, v) = Serialize(t, v)
<1>1. ASSUME NEW i \in DOMAIN Write!Table[t] PROVE LeafPart(t, v, i) = Part(t, v, i)
  <2> DEFINE n == Write!Table[t][i][1]
             type == Write!Table[t][i][2]
  <2>1. n \in Numbers(t) /\ type = Type(t, n)
    BY WriteRow DEF Classes
  <2>2. ~ IsList(t, n) /\ type \notin Nested
    BY <2>1, LeafHasScalars DEF Scalar
  <2>3. TokenOf(n, type, v.val[n]) = PrimitiveToken(n, type, v.val[n])
    BY <2>2 DEF TokenOf
  <2>4. QED
    BY <2>2, <2>3 DEF LeafPart, Part
<1>2. [i \in DOMAIN Write!Table[t] |-> LeafPart(t, v, i)]
        = [i \in DOMAIN Write!Table[t] |-> Part(t, v, i)]
  BY <1>1
<1>3. QED
  BY <1>2, PartsAre

LEMMA LeafMeans ==
  ASSUME NEW t \in Nested
  PROVE  \A tokens : MeaningLeaf(t, tokens) = Meaning(t, tokens)
<1> SUFFICES ASSUME NEW tokens PROVE MeaningLeaf(t, tokens) = Meaning(t, tokens)
  OBVIOUS
<1> DEFINE field(i) ==
             LET row == Proto!Table[t][i]
                 mine == Fitting(row, tokens)
             IN  IF row[2] = "rep" THEN [j \in DOMAIN mine |-> LastValue(row[3], <<mine[j]>>)]
                 ELSE IF mine = <<>> THEN <<>> ELSE <<LastValue(row[3], mine)>>
<1>1. MeaningLeaf(t, tokens) = [fields |-> [i \in DOMAIN Proto!Table[t] |-> field(i)],
                                unknown |-> FittingNone(t, tokens)]
  BY DEF MeaningLeaf, MeaningWith
<1>2. ASSUME NEW i \in DOMAIN Proto!Table[t] PROVE field(i) = MeaningField(t, i, tokens)
  <2>1. Proto!Table[t][i][3] \notin Nested
    BY ProtoRow, LeafHasScalars DEF Classes, Scalar
  <2>2. QED
    BY <2>1 DEF MeaningField, SubMeaning
<1> HIDE DEF field
<1>3. QED
  BY <1>1, <1>2, MeaningIs

LEMMA LeafHolds ==
  ASSUME NEW t \in Nested
  PROVE  \A o : HeldLeaf(t, o) = Held(t, o)
<1> SUFFICES ASSUME NEW o PROVE HeldLeaf(t, o) = Held(t, o)
  OBVIOUS
<1> DEFINE field(i) ==
             LET n == Proto!Table[t][i][1] IN
             IF IsList(t, n) THEN [j \in 1 .. o.val[n].size |-> o.val[n].all[j]]
             ELSE IF Has(t, o, n) THEN <<o.val[n]>> ELSE <<>>
<1>1. HeldLeaf(t, o) = [fields |-> [i \in DOMAIN Proto!Table[t] |-> field(i)],
                        unknown |-> o.unknown]
  BY DEF HeldLeaf, HeldWith
<1>2. ASSUME NEW i \in DOMAIN Proto!Table[t] PROVE field(i) = HeldField(t, i, o)
  <2> DEFINE n == Proto!Table[t][i][1]
  <2>1. Type(t, n) \notin Nested /\ ~ IsList(t, n)
    BY ProtoRow, LeafHasScalars DEF Classes, Scalar
  <2>2. QED
    BY <2>1 DEF HeldField, SubHeld
<1> HIDE DEF field
<1>3. QED
  BY <1>1, <1>2, HeldIs

LEMMA LeafWrittenAsDeclared ==
  ASSUME NEW t \in Nested, NEW v, GoodLeaf(t, v), WrittenLeaf(t, v)
  PROVE  MeaningLeaf(t, SerializeLeaf(t, v)) = HeldLeaf(t, v)
<1>1. t \in Classes /\ Written(t, v)
  BY LeafIsWritten DEF Classes
<1>2. ASSUME NEW i \in DOMAIN Proto!Table[t]
      PROVE  MeaningField(t, i, Serialize(t, v)) = HeldField(t, i, v)
  <2>1. Scalar(t, Proto!Table[t][i][1])
    BY <1>1, ProtoRow, LeafHasScalars
  <2>2. QED
    BY <1>1, <2>1, ScalarFieldWritten
<1>3. FittingNone(t, Serialize(t, v)) = v.unknown
  BY <1>1, UnknownWritten
<1>4. Meaning(t, Serialize(t, v)) = Held(t, v)
  BY <1>2, <1>3, MeaningIs, HeldIs
<1>5. QED
  BY <1>4, LeafSerializes, LeafMeans, LeafHolds

(* Nested messages, in a list and not.                                        *)
LEMMA SubMeaningOfOne ==
  ASSUME NEW t \in Nested, NEW x, x.val \in Seq(LeafTokens)
  PROVE  SubMeaning(t, <<x>>) = MeaningLeaf(t, x.val)
<1>1. [j \in DOMAIN <<x>> |-> <<x>>[j].val] = <<x.val>>
  OBVIOUS
<1>2. FlattenSeq(<<x.val>>) = x.val
  BY FlattenOne
<1>3. QED
  BY <1>1, <1>2 DEF SubMeaning

LEMMA NestedWritten ==
  ASSUME NEW k \in Classes, NEW n \in Numbers(k), n \in Nat, NEW t \in Nested, t = Type(k, n),
         NEW v, GoodLeaf(t, v), WrittenLeaf(t, v)
  PROVE  SubMeaning(t, <<TokenOf(n, t, v)>>) = HeldLeaf(t, v)
<1> DEFINE x == TokenOf(n, t, v)
<1>1. x.val = SerializeLeaf(t, v)
  BY NestedTokenIs
<1>2. SerializeLeaf(t, v) \in Seq(LeafTokens)
  BY LeafSizeIsExact
<1> HIDE DEF x
<1>3. SubMeaning(t, <<x>>) = MeaningLeaf(t, SerializeLeaf(t, v))
  BY <1>1, <1>2, SubMeaningOfOne
<1>4. QED
  BY <1>3, LeafWrittenAsDeclared DEF x

LEMMA NestedFieldWritten ==
  ASSUME NEW k \in Classes, NEW o, Written(k, o), NEW i \in DOMAIN Proto!Table[k],
         ~ IsList(k, Proto!Table[k][i][1]), Type(k, Proto!Table[k][i][1]) \in Nested
  PROVE  MeaningField(k, i, Serialize(k, o)) = HeldField(k, i, o)
<1> DEFINE n == Proto!Table[k][i][1]
           t == Type(k, n)
           v == o.val[n]
           x == TokenOf(n, t, v)
           mine == Fitting(Proto!Table[k][i], Serialize(k, o))
<1>1. /\ n \in Numbers(k) /\ n \in Nat /\ Proto!Table[k][i][3] = t
      /\ Proto!Table[k][i][2] # "rep"
  BY ProtoRow
<1>2. PICK w \in DOMAIN Write!Table[k] :
        Write!Table[k][w][1] = n /\ \A j \in DOMAIN Write!Table[k] \ {w} : Write!Table[k][j][1] # n
  BY <1>1, WriteRowOf
<1>3. mine = Part(k, o, w)
  BY <1>2, FittingWritten
<1>4. Write!Table[k][w][2] = t
  BY <1>2, WriteRow
<1>5. CASE Has(k, o, n)
  <2>1. mine = <<x>>
    BY <1>2, <1>3, <1>4, <1>5 DEF Part
  <2>2. GoodLeaf(t, v) /\ WrittenLeaf(t, v)
    BY <1>1, WrittenSingle
  <2>3. SubMeaning(t, <<x>>) = HeldLeaf(t, v)
    <3> HIDE DEF n, v, t
    <3>1. QED
      BY <1>1, <2>2, NestedWritten DEF t, n
  <2>4. <<x>> # <<>>
    OBVIOUS
  <2> HIDE DEF x
  <2>5. MeaningField(k, i, Serialize(k, o)) = <<HeldLeaf(t, v)>>
    BY <1>1, <2>1, <2>3, <2>4 DEF MeaningField
  <2>6. QED
    BY <1>5, <2>5 DEF HeldField, SubHeld
<1>6. CASE ~ Has(k, o, n)
  <2>1. mine = <<>>
    BY <1>2, <1>3, <1>6 DEF Part
  <2>2. QED
    BY <1>1, <1>6, <2>1 DEF MeaningField, HeldField
<1>7. QED
  BY <1>5, <1>6

LEMMA ListFieldWritten ==
  ASSUME NEW k \in Classes, NEW o, Written(k, o), NEW i \in DOMAIN Proto!Table[k],
         IsList(k, Proto!Table[k][i][1])
  PROVE  MeaningField(k, i, Serialize(k, o)) = HeldField(k, i, o)
<1> DEFINE n == Proto!Table[k][i][1]
           t == Type(k, n)
           list == o.val[n]
           mine == Fitting(Proto!Table[k][i], Serialize(k, o))
<1>1. /\ n \in Numbers(k) /\ n \in Nat /\ Proto!Table[k][i][3] = t
      /\ Proto!Table[k][i][2] = "rep"
  BY ProtoRow
<1>2. PICK w \in DOMAIN Write!Table[k] :
        Write!Table[k][w][1] = n /\ \A j \in DOMAIN Write!Table[k] \ {w} : Write!Table[k][j][1] # n
  BY <1>1, WriteRowOf
<1>3. mine = Part(k, o, w)
  BY <1>2, FittingWritten
<1>4. Write!Table[k][w][2] = t
  BY <1>2, WriteRow
<1>5. mine = [j \in 1 .. list.size |-> TokenOf(n, t, list.all[j])]
  BY <1>2, <1>3, <1>4 DEF Part
<1>6. /\ t \in Nested /\ list.size \in Nat
      /\ \A j \in 1 .. list.size : GoodLeaf(t, list.all[j]) /\ WrittenLeaf(t, list.all[j])
  BY <1>1, WrittenElements
<1>7. MeaningField(k, i, Serialize(k, o)) = [j \in DOMAIN mine |-> SubMeaning(t, <<mine[j]>>)]
  BY <1>1 DEF MeaningField
<1>8. HeldField(k, i, o) = [j \in 1 .. list.size |-> HeldLeaf(t, list.all[j])]
  BY <1>6 DEF HeldField, SubHeld
<1>9. t = Type(k, n)
  OBVIOUS
<1> HIDE DEF mine, list, t, n
<1>10. ASSUME NEW j \in 1 .. list.size
       PROVE  SubMeaning(t, <<mine[j]>>) = HeldLeaf(t, list.all[j])
  <2>1. mine[j] = TokenOf(n, t, list.all[j])
    BY <1>5
  <2>2. SubMeaning(t, <<TokenOf(n, t, list.all[j])>>) = HeldLeaf(t, list.all[j])
    BY <1>1, <1>6, <1>9, NestedWritten
  <2>3. QED
    BY <2>1, <2>2
<1>11. DOMAIN mine = 1 .. list.size
  BY <1>5
<1>12. QED
  BY <1>7, <1>8, <1>10, <1>11

LEMMA WrittenMeans ==
  ASSUME NEW k \in Classes, NEW o, Written(k, o)
  PROVE  Meaning(k, Serialize(k, o)) = Held(k, o)
<1>1. ASSUME NEW i \in DOMAIN Proto!Table[k]
      PROVE  MeaningField(k, i, Serialize(k, o)) = HeldField(k, i, o)
  BY ScalarFieldWritten, NestedFieldWritten, ListFieldWritten DEF Scalar
<1>2. FittingNone(k, Serialize(k, o)) = o.unknown
  BY UnknownWritten
<1>3. QED
  BY <1>1, <1>2, MeaningIs, HeldIs

(* What SerializeWithCachedSizes writes means, by the .proto file, just what  *)
(* the accessors say that the object holds, whatever was done with the object *)
(* before: no field is left out, written twice or under another's number, and *)
(* no element of a list is lost, nested messages and unknown fields included. *)
THEOREM WritesWhatItHolds == Spec => []WrittenAsDeclared
<1>1. IInv /\ WrittenObjects => WrittenAsDeclared
  <2> SUFFICES ASSUME IInv, WrittenObjects PROVE WrittenAsDeclared
    OBVIOUS
  <2>1. kind \in Classes
    BY DEF IInv, Classes
  <2>2. Written(kind, obj)
    BY DEF WrittenObjects
  <2>3. QED
    BY <2>1, <2>2, WrittenMeans DEF WrittenAsDeclared
<1>2. QED
  BY <1>1, AlwaysWritten, PTL
-----------------------------------------------------------------------------
(* What tokens mean that follow others, as MergeFrom puts objects together.   *)
CombineLeaf(t, a, b) ==
  [fields |-> [i \in DOMAIN Proto!Table[t] |->
                 IF b.fields[i] = <<>> THEN a.fields[i] ELSE b.fields[i]],
   unknown |-> a.unknown \o b.unknown]

CombineField(k, i, x, y) ==
  LET row == Proto!Table[k][i] IN
  IF row[2] = "rep" THEN x \o y
  ELSE IF y = <<>> THEN x
  ELSE IF x = <<>> \/ row[3] \notin Nested THEN y
  ELSE <<CombineLeaf(row[3], x[1], y[1])>>

Combine(k, a, b) ==
  [fields |-> [i \in DOMAIN Proto!Table[k] |-> CombineField(k, i, a.fields[i], b.fields[i])],
   unknown |-> a.unknown \o b.unknown]

LEMMA LastValueConcat ==
  ASSUME NEW S, NEW t
  PROVE  \A a, b \in Seq(S) : b # <<>> => LastValue(t, a \o b) = LastValue(t, b)
<1> SUFFICES ASSUME NEW a \in Seq(S), NEW b \in Seq(S), b # <<>>
             PROVE  LastValue(t, a \o b) = LastValue(t, b)
  OBVIOUS
<1>1. Len(a \o b) = Len(a) + Len(b) /\ \A j \in 1 .. Len(b) : (a \o b)[Len(a) + j] = b[j]
  BY ConcatElements
<1>2. Len(b) \in 1 .. Len(b)
  BY LenProperties, EmptySeq
<1>3. QED
  BY <1>1, <1>2 DEF LastValue

(* What fits of two sequences, one behind the other.                          *)
LEMMA FittingType ==
  ASSUME NEW S
  PROVE  \A s \in Seq(S) : \A row : Fitting(row, s) \in Seq(S)
<1> SUFFICES ASSUME NEW s \in Seq(S), NEW row PROVE Fitting(row, s) \in Seq(S)
  OBVIOUS
<1>1. Fitting(row, s) = Keep({x \in S : Fits(row, x)}, s)
  BY FittingIsKeep
<1>2. \A P : Keep(P, s) \in Seq(S)
  BY KeepIs
<1>3. QED
  BY <1>1, <1>2

LEMMA ScalarFieldConcat ==
  ASSUME NEW k \in Classes, NEW S, NEW u \in Seq(S), NEW v \in Seq(S),
         NEW i \in DOMAIN Proto!Table[k], Scalar(k, Proto!Table[k][i][1])
  PROVE  MeaningField(k, i, u \o v) = CombineField(k, i, MeaningField(k, i, u), MeaningField(k, i, v))
<1> DEFINE row == Proto!Table[k][i]
           t == row[3]
           a == Fitting(row, u)
           b == Fitting(row, v)
           c == Fitting(row, u \o v)
<1>1. row[2] # "rep" /\ t \notin Nested
  BY ProtoRow DEF Scalar
<1>2. a \in Seq(S) /\ b \in Seq(S) /\ c = a \o b
  <2>1. a \in Seq(S) /\ b \in Seq(S)
    BY FittingType
  <2>2. c = a \o b
    BY FittingConcat
  <2>3. QED
    BY <2>1, <2>2
<1>3. /\ MeaningField(k, i, u) = IF a = <<>> THEN <<>> ELSE <<LastValue(t, a)>>
      /\ MeaningField(k, i, v) = IF b = <<>> THEN <<>> ELSE <<LastValue(t, b)>>
      /\ MeaningField(k, i, u \o v) = IF c = <<>> THEN <<>> ELSE <<LastValue(t, c)>>
  BY <1>1 DEF MeaningField, SubMeaning
<1>4. \A x, y : CombineField(k, i, x, y) = IF y = <<>> THEN x ELSE y
  BY <1>1 DEF CombineField
<1> HIDE DEF a, b, c, t, row
<1>5. CASE b = <<>>
  <2>1. c = a
    BY <1>2, <1>5, ConcatEmptySeq
  <2>2. QED
    BY <1>3, <1>4, <1>5, <2>1
<1>6. CASE b # <<>>
  <2>1. LastValue(t, c) = LastValue(t, b)
    BY <1>2, <1>6, LastValueConcat
  <2>2. c # <<>>
    BY <1>2, <1>6
  <2>3. <<LastValue(t, b)>> # <<>>
    OBVIOUS
  <2>4. QED
    BY <1>3, <1>4, <1>6, <2>1, <2>2, <2>3
<1>7. QED
  BY <1>5, <1>6

LEMMA UnknownConcat ==
  ASSUME NEW k, NEW S
  PROVE  \A u, v \in Seq(S) : FittingNone(k, u \o v) = FittingNone(k, u) \o FittingNone(k, v)
BY FittingConcat

LEMMA MeaningLeafConcat ==
  ASSUME NEW t \in Nested, NEW S
  PROVE  \A u, v \in Seq(S) :
           MeaningLeaf(t, u \o v) = CombineLeaf(t, MeaningLeaf(t, u), MeaningLeaf(t, v))
<1> SUFFICES ASSUME NEW u \in Seq(S), NEW v \in Seq(S)
             PROVE  MeaningLeaf(t, u \o v) = CombineLeaf(t, MeaningLeaf(t, u), MeaningLeaf(t, v))
  OBVIOUS
<1>1. t \in Classes
  BY DEF Classes
<1>2. ASSUME NEW i \in DOMAIN Proto!Table[t]
      PROVE  MeaningField(t, i, u \o v)
               = IF MeaningField(t, i, v) = <<>> THEN MeaningField(t, i, u) ELSE MeaningField(t, i, v)
  <2>1. Scalar(t, Proto!Table[t][i][1])
    BY <1>1, ProtoRow, LeafHasScalars
  <2>2. Proto!Table[t][i][2] # "rep" /\ Proto!Table[t][i][3] \notin Nested
    BY <1>1, <2>1, ProtoRow DEF Scalar
  <2>3. MeaningField(t, i, u \o v)
          = CombineField(t, i, MeaningField(t, i, u), MeaningField(t, i, v))
    BY <1>1, <2>1, ScalarFieldConcat
  <2>4. QED
    BY <2>2, <2>3 DEF CombineField
<1>3. FittingNone(t, u \o v) = FittingNone(t, u) \o FittingNone(t, v)
  BY UnknownConcat
<1> DEFINE a == Meaning(t, u)
           b == Meaning(t, v)
           c == Meaning(t, u \o v)
<1>4. /\ a = [fields |-> [i \in DOMAIN Proto!Table[t] |-> MeaningField(t, i, u)],
              unknown |-> FittingNone(t, u)]
      /\ b = [fields |-> [i \in DOMAIN Proto!Table[t] |-> MeaningField(t, i, v)],
              unknown |-> FittingNone(t, v)]
      /\ c = [fields |-> [i \in DOMAIN Proto!Table[t] |-> MeaningField(t, i, u \o v)],
              unknown |-> FittingNone(t, u \o v)]
  BY MeaningIs
<1> HIDE DEF a, b, c
<1>5. c = CombineLeaf(t, a, b)
  BY <1>2, <1>3, <1>4 DEF CombineLeaf
<1>6. QED
  BY <1>5, LeafMeans DEF a, b, c

(* The tokens of nested messages, all in one.                                 *)
Inside(mine) == FlattenSeq([j \in DOMAIN mine |-> mine[j].val])

LEMMA InsideConcat ==
  ASSUME NEW S, \A x \in S : x.val \in Seq(LeafTokens)
  PROVE  \A a, b \in Seq(S) : /\ Inside(a) \in Seq(LeafTokens)
                              /\ Inside(a \o b) = Inside(a) \o Inside(b)
<1> SUFFICES ASSUME NEW a \in Seq(S), NEW b \in Seq(S)
             PROVE  Inside(a) \in Seq(LeafTokens) /\ Inside(a \o b) = Inside(a) \o Inside(b)
  OBVIOUS
<1> DEFINE A == Seq(LeafTokens)
           f == [x \in S |-> x.val]
<1>1. Maps(f, S, A)
  <2> HIDE DEF A
  <2>1. \A x \in S : x.val \in A
    BY DEF A
  <2>2. QED
    BY <2>1 DEF Maps
<1>2. ASSUME NEW s \in Seq(S) PROVE Map(f, s) = [j \in DOMAIN s |-> s[j].val]
  <2>1. \A j \in DOMAIN s : s[j] \in S
    BY LenProperties, ElementOfSeq
  <2>2. QED
    BY <2>1 DEF Map
<1> HIDE DEF f
<1>3. a \o b \in Seq(S)
  BY ConcatProperties
<1>4. Map(f, a) \in Seq(A) /\ Map(f, b) \in Seq(A)
  <2> HIDE DEF A
  <2>1. QED
    BY <1>1, MapIs
<1>5. Map(f, a \o b) = Map(f, a) \o Map(f, b)
  <2> HIDE DEF A
  <2>1. QED
    BY <1>1, MapConcat
<1>6. Inside(a) = FlattenSeq(Map(f, a)) /\ Inside(b) = FlattenSeq(Map(f, b))
      /\ Inside(a \o b) = FlattenSeq(Map(f, a \o b))
  BY <1>2, <1>3 DEF Inside
<1> DEFINE p == Map(f, a)
           q == Map(f, b)
<1>7. p \in Seq(Seq(LeafTokens)) /\ q \in Seq(Seq(LeafTokens))
  BY <1>4
<1> HIDE DEF p, q
<1>8. FlattenSeq(p \o q) = FlattenSeq(p) \o FlattenSeq(q) /\ FlattenSeq(p) \in Seq(LeafTokens)
  BY <1>7, FlattenConcat, FlattenType
<1>9. QED
  BY <1>5, <1>6, <1>8 DEF p, q

LEMMA InsideOne ==
  ASSUME NEW x, x.val \in Seq(LeafTokens) PROVE Inside(<<x>>) = x.val
<1>1. [j \in DOMAIN <<x>> |-> <<x>>[j].val] = <<x.val>>
  OBVIOUS
<1>2. QED
  BY <1>1, FlattenOne DEF Inside

LEMMA InsideEmpty == Inside(<<>>) = <<>>
<1>1. [j \in DOMAIN <<>> |-> <<>>[j].val] = <<>>
  OBVIOUS
<1>2. QED
  BY <1>1, FlattenEmpty DEF Inside

(* The tokens of a field of nested messages.                                  *)
FieldTokens(k, i) == {x \in TopTokens(k) : Fits(Proto!Table[k][i], x)}

LEMMA FieldTokensAre ==
  ASSUME NEW k \in Classes, NEW i \in DOMAIN Proto!Table[k]
  PROVE  /\ \A s \in Seq(TopTokens(k)) : Fitting(Proto!Table[k][i], s) \in Seq(FieldTokens(k, i))
         /\ Type(k, Proto!Table[k][i][1]) \in Nested =>
              \A x \in FieldTokens(k, i) : x.val \in Seq(LeafTokens)
<1>1. \A s \in Seq(TopTokens(k)) : Fitting(Proto!Table[k][i], s) \in Seq(FieldTokens(k, i))
  <2>1. \A s \in Seq(TopTokens(k)) : \A row :
          Fitting(row, s) \in Seq({x \in TopTokens(k) : Fits(row, x)})
    BY FittingIn
  <2>2. QED
    BY <2>1 DEF FieldTokens
<1>2. ASSUME Type(k, Proto!Table[k][i][1]) \in Nested, NEW x \in FieldTokens(k, i)
      PROVE  x.val \in Seq(LeafTokens)
  <2> DEFINE n == Proto!Table[k][i][1]
  <2>1. n \in Numbers(k) /\ Proto!Table[k][i][3] = Type(k, n)
    BY ProtoRow
  <2>2. x \in TopTokens(k) /\ x.num = n /\ x.wire = WireType(Type(k, n))
    BY <2>1 DEF FieldTokens, Fits
  <2>3. QED
    BY <1>2, <2>1, <2>2 DEF TopTokens
<1>3. QED
  BY <1>1, <1>2

LEMMA NestedFieldConcat ==
  ASSUME NEW k \in Classes, NEW u \in Seq(TopTokens(k)), NEW v \in Seq(TopTokens(k)),
         NEW i \in DOMAIN Proto!Table[k],
         ~ IsList(k, Proto!Table[k][i][1]), Type(k, Proto!Table[k][i][1]) \in Nested
  PROVE  MeaningField(k, i, u \o v) = CombineField(k, i, MeaningField(k, i, u), MeaningField(k, i, v))
<1> DEFINE row == Proto!Table[k][i]
           t == row[3]
           F == FieldTokens(k, i)
           a == Fitting(row, u)
           b == Fitting(row, v)
           c == Fitting(row, u \o v)
           M(s) == MeaningLeaf(t, Inside(s))
<1>1. row[2] # "rep" /\ t \in Nested
  BY ProtoRow
<1>2. a \in Seq(F) /\ b \in Seq(F) /\ \A x \in F : x.val \in Seq(LeafTokens)
  BY FieldTokensAre
<1>3. c = a \o b
  BY FittingConcat
<1>4. /\ MeaningField(k, i, u) = IF a = <<>> THEN <<>> ELSE <<M(a)>>
      /\ MeaningField(k, i, v) = IF b = <<>> THEN <<>> ELSE <<M(b)>>
      /\ MeaningField(k, i, u \o v) = IF c = <<>> THEN <<>> ELSE <<M(c)>>
  BY <1>1 DEF MeaningField, SubMeaning, Inside
<1>5. \A x, y : CombineField(k, i, x, y) = IF y = <<>> THEN x ELSE IF x = <<>> THEN y
                                           ELSE <<CombineLeaf(t, x[1], y[1])>>
  BY <1>1 DEF CombineField
<1> HIDE DEF a, b, c, t, row, F
<1>6. Inside(a) \in Seq(LeafTokens) /\ Inside(b) \in Seq(LeafTokens)
      /\ Inside(c) = Inside(a) \o Inside(b)
  BY <1>2, <1>3, InsideConcat
<1>7. M(c) = CombineLeaf(t, M(a), M(b))
  BY <1>1, <1>6, MeaningLeafConcat
<1> HIDE DEF M
<1>8. (\A x : <<x>> # <<>> /\ <<x>>[1] = x) /\ (a = <<>> => c = b) /\ (b = <<>> => c = a)
      /\ (b # <<>> => c # <<>>)
  <2>1. \A x : <<x>> # <<>> /\ <<x>>[1] = x
    OBVIOUS
  <2>2. (a = <<>> => c = b) /\ (b = <<>> => c = a)
    BY <1>2, <1>3, ConcatEmptySeq
  <2>3. b # <<>> => c # <<>>
    BY <1>2, <1>3
  <2>4. QED
    BY <2>1, <2>2, <2>3
<1>9. QED
  BY <1>4, <1>5, <1>7, <1>8

LEMMA ListFieldConcat ==
  ASSUME NEW k \in Classes, NEW u \in Seq(TopTokens(k)), NEW v \in Seq(TopTokens(k)),
         NEW i \in DOMAIN Proto!Table[k], IsList(k, Proto!Table[k][i][1])
  PROVE  /\ MeaningField(k, i, u \o v)
              = CombineField(k, i, MeaningField(k, i, u), MeaningField(k, i, v))
         /\ \E T : MeaningField(k, i, u) \in Seq(T)
<1> DEFINE row == Proto!Table[k][i]
           t == row[3]
           F == FieldTokens(k, i)
           a == Fitting(row, u)
           b == Fitting(row, v)
           c == Fitting(row, u \o v)
           f == [x \in F |-> SubMeaning(t, <<x>>)]
           T == {f[x] : x \in F}
<1>1. row[2] = "rep"
  BY ProtoRow
<1>2. a \in Seq(F) /\ b \in Seq(F)
  BY FieldTokensAre
<1>3. c = a \o b
  BY FittingConcat
<1>4. c \in Seq(F)
  <2> HIDE DEF a, b, c, F
  <2>1. QED
    BY <1>2, <1>3, ConcatProperties
<1>5. ASSUME NEW s \in Seq(F)
      PROVE  [j \in DOMAIN s |-> SubMeaning(t, <<s[j]>>)] = Map(f, s)
  <2>1. \A j \in DOMAIN s : s[j] \in F
    BY LenProperties, ElementOfSeq
  <2> HIDE DEF F, t
  <2>2. QED
    BY <2>1 DEF Map
<1>6. Maps(f, F, T)
  <2> HIDE DEF F, t
  <2>1. f = [x \in F |-> f[x]] /\ \A x \in F : f[x] \in T
    OBVIOUS
  <2> HIDE DEF f, T
  <2>2. QED
    BY <2>1 DEF Maps
<1>7. /\ MeaningField(k, i, u) = Map(f, a) /\ MeaningField(k, i, v) = Map(f, b)
      /\ MeaningField(k, i, u \o v) = Map(f, c)
  <2>1. /\ MeaningField(k, i, u) = [j \in DOMAIN a |-> SubMeaning(t, <<a[j]>>)]
        /\ MeaningField(k, i, v) = [j \in DOMAIN b |-> SubMeaning(t, <<b[j]>>)]
        /\ MeaningField(k, i, u \o v) = [j \in DOMAIN c |-> SubMeaning(t, <<c[j]>>)]
    BY <1>1 DEF MeaningField
  <2> HIDE DEF a, b, c, F, t, f
  <2>2. QED
    BY <1>2, <1>4, <1>5, <2>1
<1> HIDE DEF a, b, c, F, f, t, T
<1>8. Map(f, a \o b) = Map(f, a) \o Map(f, b)
  BY <1>2, <1>6, MapConcat
<1>9. Map(f, a) \in Seq(T)
  BY <1>2, <1>6, MapIs
<1>10. \A x, y : CombineField(k, i, x, y) = x \o y
  BY <1>1 DEF CombineField, row
<1>11. QED
  BY <1>3, <1>7, <1>8, <1>9, <1>10

LEMMA MeaningConcat ==
  ASSUME NEW k \in Classes
  PROVE  \A u, v \in Seq(TopTokens(k)) :
           Meaning(k, u \o v) = Combine(k, Meaning(k, u), Meaning(k, v))
<1> SUFFICES ASSUME NEW u \in Seq(TopTokens(k)), NEW v \in Seq(TopTokens(k))
             PROVE  Meaning(k, u \o v) = Combine(k, Meaning(k, u), Meaning(k, v))
  OBVIOUS
<1>1. ASSUME NEW i \in DOMAIN Proto!Table[k]
      PROVE  MeaningField(k, i, u \o v)
               = CombineField(k, i, MeaningField(k, i, u), MeaningField(k, i, v))
  <2>1. CASE IsList(k, Proto!Table[k][i][1])
    BY <2>1, ListFieldConcat
  <2>2. CASE ~ IsList(k, Proto!Table[k][i][1]) /\ Type(k, Proto!Table[k][i][1]) \in Nested
    BY <2>2, NestedFieldConcat
  <2>3. CASE Scalar(k, Proto!Table[k][i][1])
    BY <2>3, ScalarFieldConcat
  <2>4. QED
    BY <2>1, <2>2, <2>3 DEF Scalar
<1>2. FittingNone(k, u \o v) = FittingNone(k, u) \o FittingNone(k, v)
  BY UnknownConcat
<1> DEFINE a == Meaning(k, u)
           b == Meaning(k, v)
           c == Meaning(k, u \o v)
<1>3. /\ a = [fields |-> [i \in DOMAIN Proto!Table[k] |-> MeaningField(k, i, u)],
              unknown |-> FittingNone(k, u)]
      /\ b = [fields |-> [i \in DOMAIN Proto!Table[k] |-> MeaningField(k, i, v)],
              unknown |-> FittingNone(k, v)]
      /\ c = [fields |-> [i \in DOMAIN Proto!Table[k] |-> MeaningField(k, i, u \o v)],
              unknown |-> FittingNone(k, u \o v)]
  BY MeaningIs
<1> HIDE DEF a, b, c
<1>4. c = Combine(k, a, b)
  BY <1>1, <1>2, <1>3 DEF Combine
<1>5. QED
  BY <1>4 DEF a, b, c
-----------------------------------------------------------------------------
(* What an object holds into which another was merged.                        *)
LEMMA MergeUnknown ==
  \A k, to, from : MergeFrom(k, to, from).unknown = to.unknown \o from.unknown
BY DEF MergeFrom, MergeWith

LEMMA MergeMember ==
  ASSUME NEW k \in Classes, NEW to, NEW from, NEW n \in Numbers(k)
  PROVE  LET o == MergeFrom(k, to, from) IN
         /\ IsList(k, n) => o.val[n] = MergeList(Type(k, n), to.val[n], from.val[n])
         /\ ~ IsList(k, n) =>
              /\ Has(k, o, n) <=> Has(k, to, n) \/ Has(k, from, n)
              /\ o.val[n] = IF ~ Has(k, from, n) THEN to.val[n]
                            ELSE IF Type(k, n) \in Nested
                            THEN MergeLeaf(Type(k, n), to.val[n], from.val[n])
                            ELSE from.val[n]
<1> DEFINE o == MergeFrom(k, to, from)
           rows == Merges!Table[k].merged
           how(m) == Row(rows, m)[2]
           taken(m) == /\ Listed(rows, m) /\ AnyBit(from, Row(rows, m)[3])
                       /\ how(m) = "append" \/ Has(k, from, m)
<1>1. o.has = to.has \cup {Bit(k, q) : q \in {m \in Numbers(k) :
                               taken(m) /\ how(m) # "append"}}
  BY DEF MergeFrom, MergeWith
<1>2. /\ ~ taken(n) => o.val[n] = to.val[n]
      /\ taken(n) =>
             o.val[n] = IF how(n) = "set" THEN from.val[n]
                        ELSE IF IsList(k, n) THEN MergeList(Type(k, n), to.val[n], from.val[n])
                        ELSE MergeLeaf(Type(k, n), to.val[n], from.val[n])
  BY DEF MergeFrom, MergeWith
<1>3. /\ how(n) = "append" <=> IsList(k, n)
      /\ how(n) = "set" <=> Scalar(k, n)
      /\ taken(n) <=> IsList(k, n) \/ Has(k, from, n)
  <2>1. MergeAgrees(k, n)
    BY TablesAgree
  <2>2. /\ Listed(rows, n) /\ Guards(k, n, Row(rows, n)[3])
        /\ how(n) = "append" <=> IsList(k, n)
        /\ how(n) = "set" <=> Scalar(k, n)
    BY <2>1 DEF MergeAgrees
  <2>3. IsList(k, n) \/ Has(k, from, n) => AnyBit(from, Row(rows, n)[3])
    BY <2>2, GuardIs
  <2>4. QED
    BY <2>2, <2>3
<1> HIDE DEF o, taken, how, rows
<1>4. ASSUME IsList(k, n)
      PROVE  o.val[n] = MergeList(Type(k, n), to.val[n], from.val[n])
  BY <1>2, <1>3, <1>4 DEF Scalar
<1>5. ASSUME ~ IsList(k, n)
      PROVE  /\ Has(k, o, n) <=> Has(k, to, n) \/ Has(k, from, n)
             /\ o.val[n] = IF ~ Has(k, from, n) THEN to.val[n]
                           ELSE IF Type(k, n) \in Nested
                           THEN MergeLeaf(Type(k, n), to.val[n], from.val[n])
                           ELSE from.val[n]
  <2>1. Has(k, o, n) <=> Has(k, to, n) \/ Has(k, from, n)
    <3>1. \A m \in Numbers(k) \ {n} : Bit(k, m) # Bit(k, n)
      BY <1>5, BitIsOwn
    <3>2. taken(n) /\ how(n) # "append" <=> Has(k, from, n)
      BY <1>3, <1>5
    <3>3. Bit(k, n) \in {Bit(k, q) : q \in {m \in Numbers(k) : taken(m) /\ how(m) # "append"}}
            <=> taken(n) /\ how(n) # "append"
      BY <3>1
    <3>4. QED
      BY <1>1, <3>2, <3>3 DEF Has
  <2>2. QED
    BY <1>2, <1>3, <1>5, <2>1 DEF Scalar
<1>6. QED
  BY <1>4, <1>5 DEF o

LEMMA LeafMerges ==
  ASSUME NEW t \in Nested, NEW to, NEW from
  PROVE  MergeLeaf(t, to, from) = MergeFrom(t, to, from)
<1>1. \A n \in Numbers(t) : Row(Merges!Table[t].merged, n)[2] = "set"
  BY TablesAgree, LeafHasScalars DEF Classes, MergeAgrees
<1>2. QED
  BY <1>1 DEF MergeLeaf, MergeFrom, MergeWith

LEMMA HeldMergeScalar ==
  ASSUME NEW k \in Classes, NEW to, NEW from, NEW i \in DOMAIN Proto!Table[k],
         Scalar(k, Proto!Table[k][i][1])
  PROVE  HeldField(k, i, MergeFrom(k, to, from))
           = CombineField(k, i, HeldField(k, i, to), HeldField(k, i, from))
<1> DEFINE n == Proto!Table[k][i][1]
           o == MergeFrom(k, to, from)
<1>1. /\ n \in Numbers(k) /\ ~ IsList(k, n) /\ Type(k, n) \notin Nested
      /\ Proto!Table[k][i][2] # "rep" /\ Proto!Table[k][i][3] \notin Nested
  BY ProtoRow DEF Scalar
<1>2. /\ Has(k, o, n) <=> Has(k, to, n) \/ Has(k, from, n)
      /\ o.val[n] = IF Has(k, from, n) THEN from.val[n] ELSE to.val[n]
  BY <1>1, MergeMember
<1>3. \A x, y : CombineField(k, i, x, y) = IF y = <<>> THEN x ELSE y
  BY <1>1 DEF CombineField
<1>4. \A p : HeldField(k, i, p) = IF Has(k, p, n) THEN <<p.val[n]>> ELSE <<>>
  BY <1>1 DEF HeldField, SubHeld
<1>5. <<from.val[n]>> # <<>>
  OBVIOUS
<1> HIDE DEF n, o
<1>6. QED
  BY <1>2, <1>3, <1>4, <1>5 DEF o

LEMMA HeldMergeLeaf ==
  ASSUME NEW t \in Nested, NEW to, NEW from
  PROVE  HeldLeaf(t, MergeLeaf(t, to, from)) = CombineLeaf(t, HeldLeaf(t, to), HeldLeaf(t, from))
<1> DEFINE o == MergeFrom(t, to, from)
           a == Held(t, to)
           b == Held(t, from)
           c == Held(t, o)
<1>1. t \in Classes
  BY DEF Classes
<1>2. ASSUME NEW i \in DOMAIN Proto!Table[t]
      PROVE  HeldField(t, i, o) = IF HeldField(t, i, from) = <<>> THEN HeldField(t, i, to)
                                  ELSE HeldField(t, i, from)
  <2>1. Scalar(t, Proto!Table[t][i][1])
    BY <1>1, ProtoRow, LeafHasScalars
  <2>2. Proto!Table[t][i][2] # "rep" /\ Proto!Table[t][i][3] \notin Nested
    BY <1>1, <2>1, ProtoRow DEF Scalar
  <2>3. HeldField(t, i, o) = CombineField(t, i, HeldField(t, i, to), HeldField(t, i, from))
    BY <1>1, <2>1, HeldMergeScalar
  <2>4. QED
    BY <2>2, <2>3 DEF CombineField
<1>3. o.unknown = to.unknown \o from.unknown
  BY MergeUnknown
<1>4. /\ a = [fields |-> [i \in DOMAIN Proto!Table[t] |-> HeldField(t, i, to)],
              unknown |-> to.unknown]
      /\ b = [fields |-> [i \in DOMAIN Proto!Table[t] |-> HeldField(t, i, from)],
              unknown |-> from.unknown]
      /\ c = [fields |-> [i \in DOMAIN Proto!Table[t] |-> HeldField(t, i, o)],
              unknown |-> o.unknown]
  BY HeldIs
<1> HIDE DEF a, b, c, o
<1>5. c = CombineLeaf(t, a, b)
  BY <1>2, <1>3, <1>4 DEF CombineLeaf
<1>6. QED
  BY <1>5, LeafHolds, LeafMerges DEF a, b, c, o

(* A leaf that is like new holds nothing, and it means nothing.               *)
Nothing(t) == [fields |-> [i \in DOMAIN Proto!Table[t] |-> <<>>], unknown |-> <<>>]

LEMMA NewLeafHolds ==
  ASSUME NEW t \in Nested
  PROVE  /\ HeldLeaf(t, NewLeaf(t)) = Nothing(t) /\ MeaningLeaf(t, <<>>) = Nothing(t)
<1>1. ASSUME NEW i \in DOMAIN Proto!Table[t]
      PROVE  HeldField(t, i, NewLeaf(t)) = <<>> /\ MeaningField(t, i, <<>>) = <<>>
  <2>1. Proto!Table[t][i][1] \in Numbers(t) /\ (Proto!Table[t][i][2] = "rep" <=> IsList(t, Proto!Table[t][i][1]))
    BY ProtoRow DEF Classes
  <2>2. ~ IsList(t, Proto!Table[t][i][1])
    BY <2>1, LeafHasScalars DEF Scalar
  <2>3. HeldField(t, i, NewLeaf(t)) = <<>>
    BY <2>2 DEF HeldField, Has, NewLeaf
  <2>4. Fitting(Proto!Table[t][i], <<>>) = <<>>
    BY FittingEmpty
  <2>5. MeaningField(t, i, <<>>) = <<>>
    BY <2>1, <2>2, <2>4 DEF MeaningField
  <2>6. QED
    BY <2>3, <2>5
<1>2. NewLeaf(t).unknown = <<>> /\ FittingNone(t, <<>>) = <<>>
  BY FittingEmpty DEF NewLeaf
<1>3. Held(t, NewLeaf(t)) = Nothing(t) /\ Meaning(t, <<>>) = Nothing(t)
  BY <1>1, <1>2, HeldIs, MeaningIs DEF Nothing
<1>4. QED
  BY <1>3, LeafHolds, LeafMeans

(* What is merged into it is what it holds.                                   *)
LEMMA CombineWithNothing ==
  ASSUME NEW t \in Nested, NEW v, v.unknown = <<>>
  PROVE  CombineLeaf(t, Nothing(t), HeldLeaf(t, v)) = HeldLeaf(t, v)
<1> DEFINE b == Held(t, v)
<1>1. b = [fields |-> [i \in DOMAIN Proto!Table[t] |-> HeldField(t, i, v)], unknown |-> <<>>]
  BY HeldIs
<1> HIDE DEF b
<1>2. <<>> \o <<>> = <<>>
  OBVIOUS
<1>3. CombineLeaf(t, Nothing(t), b) = b
  BY <1>1, <1>2 DEF CombineLeaf, Nothing
<1>4. QED
  BY <1>3, LeafHolds DEF b

LEMMA HeldMergeNested ==
  ASSUME NEW k \in Classes, NEW to, GoodObject(k, to), NEW from, Written(k, from),
         NEW i \in DOMAIN Proto!Table[k],
         ~ IsList(k, Proto!Table[k][i][1]), Type(k, Proto!Table[k][i][1]) \in Nested
  PROVE  HeldField(k, i, MergeFrom(k, to, from))
           = CombineField(k, i, HeldField(k, i, to), HeldField(k, i, from))
<1> DEFINE n == Proto!Table[k][i][1]
           t == Type(k, n)
           o == MergeFrom(k, to, from)
           a == to.val[n]
           b == from.val[n]
<1>1. /\ n \in Numbers(k) /\ t \in Nested
      /\ Proto!Table[k][i][2] # "rep" /\ Proto!Table[k][i][3] = t
  BY ProtoRow
<1>2. /\ Has(k, o, n) <=> Has(k, to, n) \/ Has(k, from, n)
      /\ o.val[n] = IF Has(k, from, n) THEN MergeLeaf(t, a, b) ELSE a
  BY <1>1, MergeMember
<1>3. \A x, y : CombineField(k, i, x, y) = IF y = <<>> THEN x ELSE IF x = <<>> THEN y
                                           ELSE <<CombineLeaf(t, x[1], y[1])>>
  BY <1>1 DEF CombineField
<1>4. \A p : HeldField(k, i, p) = IF Has(k, p, n) THEN <<HeldLeaf(t, p.val[n])>> ELSE <<>>
  BY <1>1 DEF HeldField, SubHeld
<1>5. ~ Has(k, to, n) => a = NewLeaf(t)
  BY <1>1 DEF GoodObject, GoodMember
<1>6. b.unknown = <<>>
  BY <1>1 DEF Written, WrittenMember, WrittenLeaf
<1>7. \A x : <<x>> # <<>> /\ <<x>>[1] = x
  OBVIOUS
<1> HIDE DEF n, t, o, a, b
<1>8. HeldLeaf(t, MergeLeaf(t, a, b)) = CombineLeaf(t, HeldLeaf(t, a), HeldLeaf(t, b))
  BY <1>1, HeldMergeLeaf
<1>9. ~ Has(k, to, n) => HeldLeaf(t, MergeLeaf(t, a, b)) = HeldLeaf(t, b)
  BY <1>1, <1>5, <1>6, <1>8, NewLeafHolds, CombineWithNothing
<1>10. /\ HeldField(k, i, to) = IF Has(k, to, n) THEN <<HeldLeaf(t, a)>> ELSE <<>>
       /\ HeldField(k, i, from) = IF Has(k, from, n) THEN <<HeldLeaf(t, b)>> ELSE <<>>
       /\ HeldField(k, i, o) = IF Has(k, o, n) THEN <<HeldLeaf(t, o.val[n])>> ELSE <<>>
  BY <1>4 DEF a, b
<1>11. CASE ~ Has(k, from, n)
  BY <1>2, <1>3, <1>10, <1>11 DEF o
<1>12. CASE Has(k, from, n) /\ Has(k, to, n)
  BY <1>2, <1>3, <1>7, <1>8, <1>10, <1>12 DEF o
<1>13. CASE Has(k, from, n) /\ ~ Has(k, to, n)
  BY <1>2, <1>3, <1>7, <1>9, <1>10, <1>13 DEF o
<1>14. QED
  BY <1>11, <1>12, <1>13

LEMMA MergeListElements ==
  ASSUME NEW t \in Nested, NEW to, NEW from, GoodList(t, to), GoodList(t, from)
  PROVE  LET list == MergeList(t, to, from) IN
         /\ to.size \in Nat /\ from.size \in Nat /\ list.size = to.size + from.size
         /\ \A j \in 1 .. to.size : list.all[j] = to.all[j]
         /\ \A j \in 1 .. from.size :
              list.all[to.size + j] = MergeLeaf(t, NewLeaf(t), from.all[j])
<1> DEFINE list == MergeList(t, to, from)
           size == to.size + from.size
<1>1. PICK m \in Nat : to.size \in 0 .. m /\ to.all = [i \in 1 .. m |-> to.all[i]]
  BY DEF GoodList
<1>2. PICK l \in Nat : from.size \in 0 .. l /\ from.all = [i \in 1 .. l |-> from.all[i]]
  BY DEF GoodList
<1>3. size \in Nat /\ to.size \in Nat /\ from.size \in Nat /\ DOMAIN to.all = 1 .. m
  BY <1>1, <1>2
<1>4. /\ list.size = size
      /\ list.all = [i \in 1 .. m \cup 1 .. size |->
                       IF i \in to.size + 1 .. size
                       THEN MergeLeaf(t, IF i \in 1 .. m THEN to.all[i] ELSE NewLeaf(t),
                                      from.all[i - to.size])
                       ELSE to.all[i]]
  BY <1>3 DEF MergeList
<1> HIDE DEF list
<1>5. ASSUME NEW j \in 1 .. to.size PROVE list.all[j] = to.all[j]
  <2>1. j \in 1 .. m \cup 1 .. size /\ j \notin to.size + 1 .. size
    BY <1>1, <1>3
  <2>2. QED
    BY <1>4, <2>1
<1>6. ASSUME NEW j \in 1 .. from.size
      PROVE  list.all[to.size + j] = MergeLeaf(t, NewLeaf(t), from.all[j])
  <2> DEFINE i == to.size + j
  <2>1. /\ i \in 1 .. m \cup 1 .. size /\ i \in to.size + 1 .. size /\ i - to.size = j
        /\ i > to.size
    BY <1>3
  <2>2. i \in 1 .. m => to.all[i] = NewLeaf(t)
    BY <1>3, <2>1 DEF GoodList
  <2> HIDE DEF i
  <2>3. list.all[i] = MergeLeaf(t, IF i \in 1 .. m THEN to.all[i] ELSE NewLeaf(t), from.all[j])
    BY <1>4, <2>1
  <2>4. QED
    BY <2>2, <2>3 DEF i
<1>7. QED
  BY <1>3, <1>4, <1>5, <1>6 DEF list

LEMMA ListedIn ==
  ASSUME NEW T, NEW m \in Nat, NEW f, f = [j \in 1 .. m |-> f[j]], \A j \in 1 .. m : f[j] \in T
  PROVE  f \in Seq(T) /\ Len(f) = m
<1>1. f \in [1 .. m -> T]
  OBVIOUS
<1>2. QED
  BY <1>1

LEMMA HeldMergeList ==
  ASSUME NEW k \in Classes, NEW to, GoodObject(k, to), NEW from, Written(k, from),
         NEW i \in DOMAIN Proto!Table[k], IsList(k, Proto!Table[k][i][1])
  PROVE  HeldField(k, i, MergeFrom(k, to, from))
           = CombineField(k, i, HeldField(k, i, to), HeldField(k, i, from))
<1> DEFINE n == Proto!Table[k][i][1]
           t == Type(k, n)
           a == to.val[n]
           b == from.val[n]
           c == MergeList(t, a, b)
           x == [j \in 1 .. a.size |-> HeldLeaf(t, a.all[j])]
           y == [j \in 1 .. b.size |-> HeldLeaf(t, b.all[j])]
           z == [j \in 1 .. c.size |-> HeldLeaf(t, c.all[j])]
           T == {x[j] : j \in 1 .. a.size} \cup {y[j] : j \in 1 .. b.size}
                  \cup {z[j] : j \in 1 .. c.size}
<1>1. n \in Numbers(k) /\ Proto!Table[k][i][2] = "rep" /\ t \in Nested
  BY ProtoRow, TablesAgree DEF HasBitsAgree
<1>2. MergeFrom(k, to, from).val[n] = c
  BY <1>1, MergeMember
<1>3. GoodList(t, a) /\ GoodList(t, b)
  BY <1>1 DEF Written, GoodObject, GoodMember
<1>4. \A j \in 1 .. b.size : b.all[j].unknown = <<>>
  <2>1. 1 .. b.size \subseteq DOMAIN b.all
    BY <1>3, ElementsAre
  <2>2. QED
    BY <1>1, <2>1 DEF Written, WrittenMember, WrittenLeaf
<1>5. /\ HeldField(k, i, to) = x /\ HeldField(k, i, from) = y
      /\ HeldField(k, i, MergeFrom(k, to, from)) = z
  BY <1>1, <1>2 DEF HeldField, SubHeld
<1> HIDE DEF n, t, a, b
<1>6. /\ a.size \in Nat /\ b.size \in Nat /\ c.size = a.size + b.size
      /\ \A j \in 1 .. a.size : c.all[j] = a.all[j]
      /\ \A j \in 1 .. b.size : c.all[a.size + j] = MergeLeaf(t, NewLeaf(t), b.all[j])
  BY <1>1, <1>3, MergeListElements
<1> HIDE DEF c
<1>7. \A j \in 1 .. a.size : z[j] = x[j]
  BY <1>6
<1>8. ASSUME NEW j \in 1 .. b.size PROVE z[a.size + j] = y[j]
  <2>1. a.size + j \in 1 .. c.size
    BY <1>6
  <2>2. z[a.size + j] = HeldLeaf(t, MergeLeaf(t, NewLeaf(t), b.all[j]))
    BY <1>6, <2>1
  <2>3. HeldLeaf(t, MergeLeaf(t, NewLeaf(t), b.all[j]))
          = CombineLeaf(t, HeldLeaf(t, NewLeaf(t)), HeldLeaf(t, b.all[j]))
    BY <1>1, HeldMergeLeaf
  <2>4. HeldLeaf(t, NewLeaf(t)) = Nothing(t)
    BY <1>1, NewLeafHolds
  <2>5. CombineLeaf(t, Nothing(t), HeldLeaf(t, b.all[j])) = HeldLeaf(t, b.all[j])
    BY <1>1, <1>4, CombineWithNothing
  <2>6. QED
    BY <2>2, <2>3, <2>4, <2>5
<1>9. /\ x \in Seq(T) /\ Len(x) = a.size /\ y \in Seq(T) /\ Len(y) = b.size
      /\ z \in Seq(T) /\ Len(z) = c.size
  <2>1. x = [j \in 1 .. a.size |-> x[j]] /\ \A j \in 1 .. a.size : x[j] \in T
    OBVIOUS
  <2>2. y = [j \in 1 .. b.size |-> y[j]] /\ \A j \in 1 .. b.size : y[j] \in T
    OBVIOUS
  <2>3. z = [j \in 1 .. c.size |-> z[j]] /\ \A j \in 1 .. c.size : z[j] \in T
    OBVIOUS
  <2> HIDE DEF T, x, y, z
  <2>4. a.size \in Nat /\ b.size \in Nat /\ c.size \in Nat
    BY <1>6
  <2>5. x \in Seq(T) /\ Len(x) = a.size
    BY <2>1, <2>4, ListedIn
  <2>6. y \in Seq(T) /\ Len(y) = b.size
    BY <2>2, <2>4, ListedIn
  <2>7. z \in Seq(T) /\ Len(z) = c.size
    BY <2>3, <2>4, ListedIn
  <2>8. QED
    BY <2>5, <2>6, <2>7
<1> HIDE DEF T, x, y, z
<1>10. z = x \o y
  <2>1. Len(z) = Len(x) + Len(y)
    BY <1>6, <1>9
  <2>2. \A j \in 1 .. Len(x) : z[j] = x[j]
    BY <1>7, <1>9
  <2>3. \A j \in 1 .. Len(y) : z[Len(x) + j] = y[j]
    BY <1>8, <1>9
  <2>4. x \in Seq(T) /\ y \in Seq(T) /\ z \in Seq(T)
    BY <1>9
  <2>5. QED
    BY <2>1, <2>2, <2>3, <2>4, ConcatIs
<1>11. QED
  BY <1>1, <1>5, <1>10 DEF CombineField

LEMMA HeldMerge ==
  ASSUME NEW k \in Classes, NEW to, GoodObject(k, to), NEW from, Written(k, from)
  PROVE  Held(k, MergeFrom(k, to, from)) = Combine(k, Held(k, to), Held(k, from))
<1> DEFINE o == MergeFrom(k, to, from)
           a == Held(k, to)
           b == Held(k, from)
           c == Held(k, o)
<1>1. ASSUME NEW i \in DOMAIN Proto!Table[k]
      PROVE  HeldField(k, i, o) = CombineField(k, i, HeldField(k, i, to), HeldField(k, i, from))
  BY HeldMergeScalar, HeldMergeNested, HeldMergeList DEF Scalar
<1>2. o.unknown = to.unknown \o from.unknown
  BY MergeUnknown
<1>3. /\ a = [fields |-> [i \in DOMAIN Proto!Table[k] |-> HeldField(k, i, to)],
              unknown |-> to.unknown]
      /\ b = [fields |-> [i \in DOMAIN Proto!Table[k] |-> HeldField(k, i, from)],
              unknown |-> from.unknown]
      /\ c = [fields |-> [i \in DOMAIN Proto!Table[k] |-> HeldField(k, i, o)],
              unknown |-> o.unknown]
  BY HeldIs
<1> HIDE DEF a, b, c, o
<1>4. c = Combine(k, a, b)
  BY <1>1, <1>2, <1>3 DEF Combine
<1>5. QED
  BY <1>4 DEF a, b, c, o
-----------------------------------------------------------------------------
(* One more token, as it is read.                                             *)
LEMMA FieldOfOne ==
  ASSUME NEW k \in Classes, NEW i \in DOMAIN Proto!Table[k], NEW x
  PROVE  MeaningField(k, i, <<x>>)
           = IF Fits(Proto!Table[k][i], x) THEN <<SubMeaning(Proto!Table[k][i][3], <<x>>)>>
             ELSE <<>>
<1> DEFINE row == Proto!Table[k][i]
           mine == Fitting(row, <<x>>)
<1>1. mine = IF Fits(row, x) THEN <<x>> ELSE <<>>
  BY FittingOne
<1>2. MeaningField(k, i, <<x>>)
        = IF row[2] = "rep" THEN [j \in DOMAIN mine |-> SubMeaning(row[3], <<mine[j]>>)]
          ELSE IF mine = <<>> THEN <<>> ELSE <<SubMeaning(row[3], mine)>>
  BY DEF MeaningField
<1> HIDE DEF row, mine
<1>3. <<x>> # <<>>
  OBVIOUS
<1>4. CASE ~ Fits(row, x)
  BY <1>1, <1>2, <1>4 DEF row
<1>5. CASE Fits(row, x) /\ row[2] # "rep"
  BY <1>1, <1>2, <1>3, <1>5 DEF row
<1>6. CASE Fits(row, x) /\ row[2] = "rep"
  <2> DEFINE g == [j \in DOMAIN <<x>> |-> SubMeaning(row[3], <<<<x>>[j]>>)]
  <2>1. g = [j \in {1} |-> SubMeaning(row[3], <<x>>)]
    OBVIOUS
  <2>2. \A y : [j \in {1} |-> y] = <<y>>
    OBVIOUS
  <2>3. MeaningField(k, i, <<x>>) = g
    BY <1>1, <1>2, <1>6
  <2> HIDE DEF g
  <2>4. QED
    BY <1>6, <2>1, <2>2, <2>3 DEF row
<1>7. QED
  BY <1>4, <1>5, <1>6 DEF row

LEMMA HeldList ==
  ASSUME NEW k \in Classes, NEW o, GoodObject(k, o), NEW i \in DOMAIN Proto!Table[k],
         IsList(k, Proto!Table[k][i][1])
  PROVE  \E T : HeldField(k, i, o) \in Seq(T)
<1> DEFINE n == Proto!Table[k][i][1]
           list == o.val[n]
           y == [j \in 1 .. list.size |-> SubHeld(Type(k, n), list.all[j])]
           T == {y[j] : j \in 1 .. list.size}
<1>1. n \in Numbers(k)
  BY ProtoRow
<1>2. GoodList(Type(k, n), list)
  BY <1>1 DEF GoodObject, GoodMember
<1>3. list.size \in Nat
  BY <1>2, ElementsAre
<1>4. HeldField(k, i, o) = y
  BY ZenonT(30) DEF HeldField
<1>5. y = [j \in 1 .. list.size |-> y[j]] /\ \A j \in 1 .. list.size : y[j] \in T
  BY Zenon
<1> HIDE DEF y, T, list, n
<1>6. y \in Seq(T)
  BY <1>3, <1>5, ListedIn
<1>7. QED
  BY <1>4, <1>6

LEMMA NothingRead ==
  ASSUME NEW k \in Classes, NEW o, GoodObject(k, o), NEW i \in DOMAIN Proto!Table[k]
  PROVE  CombineField(k, i, HeldField(k, i, o), <<>>) = HeldField(k, i, o)
<1>1. CASE Proto!Table[k][i][2] # "rep"
  BY <1>1 DEF CombineField
<1>2. CASE Proto!Table[k][i][2] = "rep"
  <2>1. PICK T : HeldField(k, i, o) \in Seq(T)
    BY <1>2, ProtoRow, HeldList
  <2>2. HeldField(k, i, o) \o <<>> = HeldField(k, i, o)
    BY <2>1, SMTT(30)
  <2>3. QED
    BY <1>2, <2>2 DEF CombineField
<1>3. QED
  BY <1>1, <1>2

LEMMA SameField ==
  ASSUME NEW k, NEW i, NEW o, NEW p, NEW n, n = Proto!Table[k][i][1],
         p.val[n] = o.val[n], ~ IsList(k, n) => (Has(k, p, n) <=> Has(k, o, n))
  PROVE  HeldField(k, i, p) = HeldField(k, i, o)
  BY DEF HeldField

(* An object to whose field n a token was read.                               *)
LEMMA OneFieldRead ==
  ASSUME NEW k \in Classes, NEW o, GoodObject(k, o), NEW S, o.unknown \in Seq(S),
         NEW n \in Numbers(k), NEW x, TokenOfField(k, n, x),
         NEW p, p.unknown = o.unknown,
         \A m \in Numbers(k) \ {n} :
           p.val[m] = o.val[m] /\ (~ IsList(k, m) => (Has(k, p, m) <=> Has(k, o, m))),
         \A i \in DOMAIN Proto!Table[k] : Proto!Table[k][i][1] = n =>
           HeldField(k, i, p)
             = CombineField(k, i, HeldField(k, i, o), <<SubMeaning(Type(k, n), <<x>>)>>)
  PROVE  Held(k, p) = Combine(k, Held(k, o), Meaning(k, <<x>>))
<1> DEFINE a == Held(k, o)
           b == Meaning(k, <<x>>)
           c == Held(k, p)
<1>1. ASSUME NEW i \in DOMAIN Proto!Table[k]
      PROVE  HeldField(k, i, p)
               = CombineField(k, i, HeldField(k, i, o), MeaningField(k, i, <<x>>))
  <2> DEFINE m == Proto!Table[k][i][1]
  <2>1. m \in Numbers(k) /\ Proto!Table[k][i][3] = Type(k, m)
    BY ProtoRow
  <2>2. Fits(Proto!Table[k][i], x) <=> m = n
    BY FieldFits
  <2>3. CASE m = n
    BY <2>1, <2>2, <2>3, FieldOfOne
  <2>4. CASE m # n
    <3>1. MeaningField(k, i, <<x>>) = <<>>
      BY <2>2, <2>4, FieldOfOne, Zenon
    <3>2. HeldField(k, i, p) = HeldField(k, i, o)
      <4>1. p.val[m] = o.val[m] /\ (~ IsList(k, m) => (Has(k, p, m) <=> Has(k, o, m)))
        BY <2>1, <2>4
      <4>2. QED
        BY <4>1, SameField
    <3>3. CombineField(k, i, HeldField(k, i, o), <<>>) = HeldField(k, i, o)
      BY NothingRead
    <3>4. QED
      BY <3>1, <3>2, <3>3, Zenon
  <2>5. QED
    BY <2>3, <2>4
<1>2. FittingNone(k, <<x>>) = <<>>
  BY FieldFits, FittingOne
<1>3. p.unknown = o.unknown \o FittingNone(k, <<x>>)
  BY <1>2
<1>4. /\ a = [fields |-> [i \in DOMAIN Proto!Table[k] |-> HeldField(k, i, o)],
              unknown |-> o.unknown]
      /\ b = [fields |-> [i \in DOMAIN Proto!Table[k] |-> MeaningField(k, i, <<x>>)],
              unknown |-> FittingNone(k, <<x>>)]
      /\ c = [fields |-> [i \in DOMAIN Proto!Table[k] |-> HeldField(k, i, p)],
              unknown |-> p.unknown]
  BY HeldIs, MeaningIs
<1> HIDE DEF a, b, c
<1>5. c = Combine(k, a, b)
  BY <1>1, <1>3, <1>4 DEF Combine
<1>6. QED
  BY <1>5 DEF a, b, c

(* set_...() of what was read.                                                *)
LEMMA StoreIs ==
  ASSUME NEW k \in Classes, NEW o, Object(k, o), NEW n \in Numbers(k), ~ IsList(k, n), NEW v
  PROVE  LET p == Store(k, o, n, v) IN
         /\ p.unknown = o.unknown /\ p.val[n] = v /\ Has(k, p, n)
         /\ \A m \in Numbers(k) \ {n} :
              p.val[m] = o.val[m] /\ (~ IsList(k, m) => (Has(k, p, m) <=> Has(k, o, m)))
<1> DEFINE has == o.has \cup {Bit(k, n)}
           p == Store(k, o, n, v)
<1>1. p = With(k, o, has, n, v)
  <2>1. p = Changed(o, has, n, v)
    BY DEF Store, Changed
  <2>2. QED
    BY <2>1, ChangedIsWith
<1>2. has \subseteq Bits(k)
  BY BitIsOwn DEF Object
<1> HIDE DEF p, has
<1>3. /\ p.has = has /\ p.val[n] = v /\ \A m \in Numbers(k) \ {n} : p.val[m] = o.val[m]
  BY <1>1, <1>2, WithIs
<1>4. p.unknown = o.unknown
  BY <1>1 DEF With
<1>5. \A m \in Numbers(k) \ {n} : Bit(k, n) # Bit(k, m)
  BY BitIsOwn
<1>6. \A m \in Numbers(k) \ {n} : Has(k, p, m) <=> Has(k, o, m)
  BY <1>3, <1>5 DEF Has, has
<1>7. Has(k, p, n)
  BY <1>3 DEF Has, has
<1>8. QED
  BY <1>3, <1>4, <1>6, <1>7 DEF p

LEMMA StoreReads ==
  ASSUME NEW k \in Classes, NEW o, GoodObject(k, o), NEW S, o.unknown \in Seq(S),
         NEW n \in Numbers(k), Scalar(k, n), NEW x, TokenOfField(k, n, x)
  PROVE  Held(k, Store(k, o, n, x.val)) = Combine(k, Held(k, o), Meaning(k, <<x>>))
<1> DEFINE p == Store(k, o, n, x.val)
<1>1. /\ p.unknown = o.unknown /\ p.val[n] = x.val /\ Has(k, p, n)
      /\ \A m \in Numbers(k) \ {n} :
           p.val[m] = o.val[m] /\ (~ IsList(k, m) => (Has(k, p, m) <=> Has(k, o, m)))
  BY StoreIs DEF GoodObject, Scalar
<1>2. SubMeaning(Type(k, n), <<x>>) = x.val
  BY DEF SubMeaning, LastValue, Scalar
<1>3. <<x.val>> # <<>>
  OBVIOUS
<1>4. ASSUME NEW i \in DOMAIN Proto!Table[k], Proto!Table[k][i][1] = n
      PROVE  HeldField(k, i, p)
               = CombineField(k, i, HeldField(k, i, o), <<SubMeaning(Type(k, n), <<x>>)>>)
  <2>1. HeldField(k, i, p) = <<x.val>>
    BY <1>1, <1>4 DEF HeldField, SubHeld, Scalar
  <2>2. Proto!Table[k][i][2] # "rep" /\ Proto!Table[k][i][3] \notin Nested
    BY <1>4, ProtoRow DEF Scalar
  <2>3. QED
    BY <1>2, <1>3, <2>1, <2>2 DEF CombineField
<1> HIDE DEF p
<1>5. Held(k, p) = Combine(k, Held(k, o), Meaning(k, <<x>>))
  BY <1>1, <1>4, OneFieldRead
<1>6. QED
  BY <1>5 DEF p

(* A token that fits no field is kept behind the others.                      *)
LEMMA UnknownReads ==
  ASSUME NEW k \in Classes, NEW o, GoodObject(k, o), NEW S, o.unknown \in Seq(S),
         NEW x \in S, FitsNone(k, x)
  PROVE  Held(k, [o EXCEPT !.unknown = Append(@, x)])
           = Combine(k, Held(k, o), Meaning(k, <<x>>))
<1> DEFINE p == [o EXCEPT !.unknown = Append(@, x)]
           a == Held(k, o)
           b == Meaning(k, <<x>>)
           c == Held(k, p)
<1>1. p = [has |-> o.has, val |-> o.val, unknown |-> Append(o.unknown, x)]
  <2>1. Object(k, o)
    BY DEF GoodObject
  <2>2. \A u : [o EXCEPT !.unknown = u] = [has |-> o.has, val |-> o.val, unknown |-> u]
    BY <2>1 DEF Object
  <2>3. QED
    BY <2>2
<1> HIDE DEF p
<1>2. ASSUME NEW i \in DOMAIN Proto!Table[k]
      PROVE  HeldField(k, i, p)
               = CombineField(k, i, HeldField(k, i, o), MeaningField(k, i, <<x>>))
  <2>1. MeaningField(k, i, <<x>>) = <<>>
    BY FieldOfOne DEF FitsNone
  <2>2. HeldField(k, i, p) = HeldField(k, i, o)
    BY <1>1 DEF HeldField, Has
  <2>3. QED
    BY <2>1, <2>2, NothingRead
<1>3. p.unknown = o.unknown \o FittingNone(k, <<x>>)
  <2>1. FittingNone(k, <<x>>) = <<x>>
    BY FittingOne
  <2>2. Append(o.unknown, x) = o.unknown \o <<x>>
    OBVIOUS
  <2>3. QED
    BY <1>1, <2>1, <2>2
<1>4. /\ a = [fields |-> [i \in DOMAIN Proto!Table[k] |-> HeldField(k, i, o)],
              unknown |-> o.unknown]
      /\ b = [fields |-> [i \in DOMAIN Proto!Table[k] |-> MeaningField(k, i, <<x>>)],
              unknown |-> FittingNone(k, <<x>>)]
      /\ c = [fields |-> [i \in DOMAIN Proto!Table[k] |-> HeldField(k, i, p)],
              unknown |-> p.unknown]
  BY HeldIs, MeaningIs
<1> HIDE DEF a, b, c
<1>5. c = Combine(k, a, b)
  BY <1>2, <1>3, <1>4 DEF Combine
<1>6. QED
  BY <1>5 DEF a, b, c, p
-----------------------------------------------------------------------------
(* A case that is entered without a look at the tag is that of the token.     *)
CaseOK(f) ==
  f.case # 0 => /\ f.in # <<>> /\ f.case \in Numbers(f.k)
                /\ Head(f.in).num = f.case /\ Head(f.in).wire = WireType(Type(f.k, f.case))

(* The object of a frame holds what the tokens mean that were read.           *)
Reads(f, done, T) ==
  /\ T \subseteq TopTokens(f.k) /\ done \in Seq(T) /\ f.in \in Seq(T)
  /\ CaseOK(f)
  /\ Held(f.k, f.o) = Meaning(f.k, done)

LEMMA LeafTokensAre ==
  ASSUME NEW t \in Nested PROVE LeafTokens \subseteq TopTokens(t)
<1>1. \A n \in Numbers(t) : Type(t, n) \notin Nested
  BY LeafHasScalars DEF Scalar
<1>2. QED
  BY <1>1 DEF LeafTokens, TopTokens

LEMMA HeadOf ==
  ASSUME NEW T
  PROVE  \A s \in Seq(T) : s # <<>> =>
           /\ Head(s) \in T /\ Tail(s) \in Seq(T) /\ s = <<Head(s)>> \o Tail(s)
           /\ Len(Tail(s)) = Len(s) - 1
<1> SUFFICES ASSUME NEW s \in Seq(T), s # <<>>
             PROVE  /\ Head(s) \in T /\ Tail(s) \in Seq(T) /\ s = <<Head(s)>> \o Tail(s)
                    /\ Len(Tail(s)) = Len(s) - 1
  BY Zenon
<1>1. Head(s) \in T /\ Tail(s) \in Seq(T) /\ Len(Tail(s)) = Len(s) - 1
  OBVIOUS
<1>2. /\ <<Head(s)>> \in Seq(T) /\ Len(<<Head(s)>>) = 1 /\ <<Head(s)>>[1] = s[1]
      /\ \A i \in 1 .. Len(Tail(s)) : s[1 + i] = Tail(s)[i]
  BY <1>1
<1> DEFINE one == <<Head(s)>>
<1>3. s = one \o Tail(s)
  <2> HIDE DEF one
  <2>1. /\ Len(s) = Len(one) + Len(Tail(s))
        /\ \A i \in 1 .. Len(one) : s[i] = one[i]
        /\ \A i \in 1 .. Len(Tail(s)) : s[Len(one) + i] = Tail(s)[i]
        /\ one \in Seq(T)
    BY <1>1, <1>2 DEF one
  <2>2. QED
    BY <1>1, <2>1, ConcatIs
<1>4. QED
  BY <1>1, <1>3

LEMMA ReadsMore ==
  ASSUME NEW k \in Classes, NEW T, T \subseteq TopTokens(k), NEW done \in Seq(T), NEW x \in T,
         NEW o, NEW p, Held(k, o) = Meaning(k, done),
         Held(k, p) = Combine(k, Held(k, o), Meaning(k, <<x>>))
  PROVE  done \o <<x>> \in Seq(T) /\ Held(k, p) = Meaning(k, done \o <<x>>)
<1>1. done \in Seq(TopTokens(k)) /\ <<x>> \in Seq(TopTokens(k)) /\ done \o <<x>> \in Seq(T)
  OBVIOUS
<1>2. Meaning(k, done \o <<x>>) = Combine(k, Meaning(k, done), Meaning(k, <<x>>))
  BY <1>1, MeaningConcat
<1>3. QED
  BY <1>1, <1>2

LEMMA UnknownOfRead ==
  ASSUME NEW k, NEW T, NEW done \in Seq(T), NEW o, Held(k, o) = Meaning(k, done)
  PROVE  o.unknown \in Seq(T)
<1>1. Held(k, o).unknown = o.unknown /\ Meaning(k, done).unknown = FittingNone(k, done)
  BY HeldIs, MeaningIs
<1>2. FittingNone(k, done) \in Seq({x \in T : FitsNone(k, x)})
  BY FittingIn
<1>3. QED
  BY <1>1, <1>2

(* ExpectTag: the tag says the field and its wire type.                       *)
LEMMA TagSays ==
  ASSUME NEW m \in Nat, NEW n \in Nat, NEW v \in 0 .. 7, NEW w \in 0 .. 7,
         MakeTag(m, v) = MakeTag(n, w)
  PROVE  m = n /\ v = w
BY DEF MakeTag

LEMMA GoesOnGoes ==
  ASSUME NEW f, FrameOK(f), NEW in, NEW case
  PROVE  GoesOn(f, in, case).in = in /\ GoesOn(f, in, case).case = case
<1> DEFINE a == [f EXCEPT !.in = in]
           g == [a EXCEPT !.case = case]
<1>1. a = [k |-> f.k, o |-> f.o, in |-> in, case |-> f.case, field |-> f.field]
  BY DEF FrameOK
<1>2. GoesOn(f, in, case) = g
  BY DEF GoesOn
<1> HIDE DEF a
<1>3. g = [k |-> f.k, o |-> f.o, in |-> in, case |-> case, field |-> f.field]
  BY <1>1
<1> HIDE DEF g
<1>4. QED
  BY <1>2, <1>3

LEMMA ThenReads ==
  ASSUME NEW f, FrameOK(f), NEW T, T \subseteq TopTokens(f.k), f.in \in Seq(T), f.in # <<>>,
         NEW i \in DOMAIN Parse!Table[f.k]
  PROVE  /\ Then(f, i, Parse!Table[f.k]).in = Tail(f.in)
         /\ CaseOK(Then(f, i, Parse!Table[f.k]))
<1> DEFINE k == f.k
           row == Parse!Table[k][i]
           in == Tail(f.in)
           x == Head(in)
           same == in # <<>> /\ MakeTag(x.num, x.wire) = row[3]
           case == IF same THEN row[4] ELSE 0
           g == GoesOn(f, in, case)
<1>1. Then(f, i, Parse!Table[k]) = g
  BY DEF Then, GoesOn
<1>2. k \in Classes /\ in \in Seq(T)
  BY DEF FrameOK
<1>3. row[4] # 0 => row[4] \in Numbers(k) /\ row[3] = MakeTag(row[4], WireType(Type(k, row[4])))
  <2>1. ParseAgrees(k)
    BY <1>2, MessagesAssumption DEF Classes
  <2>2. QED
    BY <2>1 DEF ParseAgrees
<1>4. in # <<>> => x \in TopTokens(k)
  BY <1>2, HeadOf
<1> HIDE DEF k, row, in, x, case, same
<1>5. g.k = k /\ g.in = in /\ g.case = case
  BY GoesOnIsOK, GoesOnGoes DEF k
<1>6. ASSUME case # 0
      PROVE  in # <<>> /\ case \in Numbers(k) /\ x.num = case /\ x.wire = WireType(Type(k, case))
  <2>1. same /\ case = row[4] /\ case \in Numbers(k)
    BY <1>3, <1>6 DEF case
  <2>2. in # <<>> /\ MakeTag(x.num, x.wire) = MakeTag(case, WireType(Type(k, case)))
    BY <1>3, <1>6, <2>1 DEF same
  <2>3. x.num \in Nat /\ x.wire \in 0 .. 7
    BY <1>4, <2>2 DEF TopTokens
  <2>4. case \in Nat
    BY <1>2, <2>1, TablesAgree DEF HasBitsAgree
  <2>5. WireType(Type(k, case)) \in 0 .. 7
    BY WireTypeIs
  <2>6. QED
    BY <2>1, <2>2, <2>3, <2>4, <2>5, TagSays
<1> HIDE DEF g
<1>7. CaseOK(g)
  BY <1>5, <1>6 DEF CaseOK, x
<1>8. QED
  BY <1>1, <1>5, <1>7 DEF in, k

(* The token that a case of the switch reads is one of its field.             *)
LEMMA CaseReads ==
  ASSUME NEW i \in DOMAIN Rows, Case(i), FrameOK(Running), CaseOK(Running)
  PROVE  /\ Running.in # <<>> /\ Rows[i][1] \in Numbers(Running.k)
         /\ Rows[i][2] = Type(Running.k, Rows[i][1])
         /\ Head(Running.in).num = Rows[i][1]
         /\ Head(Running.in).wire = WireType(Rows[i][2])
<1> DEFINE f == Running
           n == Rows[i][1]
<1>1. n \in Numbers(f.k) /\ Rows[i][2] = Type(f.k, n)
  BY RowsAre DEF FrameOK, Rows
<1>2. /\ f.in # <<>>
      /\ IF f.case # 0 THEN n = f.case
         ELSE n = Head(f.in).num /\ WireType(Rows[i][2]) = Head(f.in).wire
  BY DEF Case
<1> HIDE DEF f, n
<1>3. CaseOK(f)
  BY DEF f
<1>4. Head(f.in).num = n /\ Head(f.in).wire = WireType(Rows[i][2])
  BY <1>1, <1>2, <1>3 DEF CaseOK
<1>5. QED
  BY <1>1, <1>2, <1>4 DEF f, n

(* The running call goes on behind its next token.                            *)
Advance(done, T) ==
  /\ Running.in # <<>> /\ ~ Short
  /\ \E g : /\ FrameOK(g) /\ g.k = Running.k /\ g.field = Running.field
            /\ frames' = WithTop(g) /\ g.in = Tail(Running.in)
            /\ Reads(g, done \o <<Head(Running.in)>>, T)

LEMMA ParseRowOf ==
  ASSUME NEW k \in Classes, NEW n \in Numbers(k)
  PROVE  \E i \in DOMAIN Parse!Table[k] : Parse!Table[k][i][1] = n
<1>1. ParseAgrees(k)
  BY MessagesAssumption DEF Classes
<1>2. QED
  BY <1>1 DEF ParseAgrees, Covers

(* A frame whose object got the token, whichever way.                         *)
LEMMA TokenIsRead ==
  ASSUME NEW f, FrameOK(f), NEW done, NEW T, Reads(f, done, T), f.in # <<>>,
         NEW o, GoodObject(f.k, o),
         Held(f.k, o) = Combine(f.k, Held(f.k, f.o), Meaning(f.k, <<Head(f.in)>>)),
         NEW g, FrameOK(g), g.k = f.k, g.o = o, g.in = Tail(f.in), CaseOK(g)
  PROVE  Reads(g, done \o <<Head(f.in)>>, T)
<1>1. /\ T \subseteq TopTokens(f.k) /\ done \in Seq(T) /\ f.in \in Seq(T)
      /\ Held(f.k, f.o) = Meaning(f.k, done)
  BY DEF Reads
<1>2. f.k \in Classes
  BY DEF FrameOK
<1>3. Head(f.in) \in T /\ Tail(f.in) \in Seq(T)
  BY <1>1, HeadOf
<1>4. /\ done \o <<Head(f.in)>> \in Seq(T)
      /\ Held(f.k, o) = Meaning(f.k, done \o <<Head(f.in)>>)
  BY <1>1, <1>2, <1>3, ReadsMore
<1>5. QED
  BY <1>1, <1>3, <1>4 DEF Reads

LEMMA FrameWith ==
  ASSUME NEW f, FrameOK(f), NEW o, GoodObject(f.k, o)
  PROVE  LET g == [f EXCEPT !.o = o] IN
         /\ FrameOK(g) /\ g.k = f.k /\ g.field = f.field /\ g.in = f.in /\ g.o = o
<1> DEFINE g == [f EXCEPT !.o = o]
<1>1. g = [k |-> f.k, o |-> o, in |-> f.in, case |-> f.case, field |-> f.field]
  BY FrameExcept
<1> HIDE DEF g
<1>2. FrameOK(g) /\ g.k = f.k /\ g.field = f.field /\ g.in = f.in /\ g.o = o
  BY <1>1 DEF FrameOK
<1>3. QED
  BY <1>2 DEF g

LEMMA AddUnknownIs ==
  ASSUME NEW f, FrameOK(f), NEW token
  PROVE  AddUnknown(f, token) = [f EXCEPT !.o = [f.o EXCEPT !.unknown = Append(@, token)]]
BY DEF AddUnknown

LEMMA ReadFieldAdvances ==
  ASSUME FramesOK, frames # <<>>, NEW done, NEW T, Reads(Running, done, T),
         NEW i \in DOMAIN Rows, ReadField(i)
  PROVE  Advance(done, T)
<1> DEFINE f == Running
           k == f.k
           x == Head(f.in)
           n == Rows[i][1]
           t == Rows[i][2]
           strange == t = "enum" /\ x.val \notin Protos_Game60Fishing
           o == IF strange THEN [f.o EXCEPT !.unknown = Append(@, x)]
                ELSE Store(k, f.o, n, x.val)
           p == [f EXCEPT !.o = o]
           g == Then(p, i, Parse!Table[k])
<1>1. FrameOK(f) /\ k \in Classes /\ GoodObject(k, f.o)
  BY RunningIs DEF FrameOK
<1>2. Case(i) /\ ~ Short /\ t \notin Nested /\ CaseOK(f) /\ Rows = Parse!Table[k]
  BY DEF ReadField, Reads, Rows
<1>3. frames' = WithTop(g)
  BY <1>1, <1>2, AddUnknownIs DEF ReadField
<1>4. /\ f.in # <<>> /\ n \in Numbers(k) /\ t = Type(k, n) /\ x.num = n
      /\ x.wire = WireType(t)
  BY <1>1, <1>2, CaseReads
<1>5. Scalar(k, n)
  BY <1>1, <1>2, RowIsScalar
<1>6. /\ T \subseteq TopTokens(k) /\ done \in Seq(T) /\ f.in \in Seq(T)
      /\ Held(k, f.o) = Meaning(k, done)
  BY DEF Reads
<1>7. x \in T /\ f.o.unknown \in Seq(T)
  BY <1>4, <1>6, HeadOf, UnknownOfRead
<1> HIDE DEF f, k, x, n, t
<1>8. GoodObject(k, o) /\ Held(k, o) = Combine(k, Held(k, f.o), Meaning(k, <<x>>))
  <2>1. CASE strange
    <3>1. FitsNone(k, x)
      <4>1. SUFFICES ASSUME NEW j \in DOMAIN Proto!Table[k], Fits(Proto!Table[k][j], x)
                     PROVE  FALSE
        BY DEF FitsNone
      <4>2. Proto!Table[k][j][1] = n
        BY <1>4, <4>1 DEF Fits
      <4>3. Proto!Table[k][j][3] = "enum"
        BY <1>1, <1>4, <2>1, <4>2, ProtoRow
      <4>4. QED
        BY <2>1, <4>1, <4>3 DEF Fits
    <3>2. o = [f.o EXCEPT !.unknown = Append(@, x)]
      BY <2>1
    <3>3. GoodObject(k, [f.o EXCEPT !.unknown = Append(@, x)])
      BY <1>1, UnknownDoesNotMatter
    <3>4. Held(k, [f.o EXCEPT !.unknown = Append(@, x)])
            = Combine(k, Held(k, f.o), Meaning(k, <<x>>))
      BY <1>1, <1>7, <3>1, UnknownReads
    <3> HIDE DEF o
    <3>5. QED
      BY <3>2, <3>3, <3>4
  <2>2. CASE ~ strange
    <3>1. o = Store(k, f.o, n, x.val)
      BY <2>2
    <3>2. TokenOfField(k, n, x)
      BY <1>4, <2>2 DEF TokenOfField
    <3>3. GoodObject(k, Store(k, f.o, n, x.val))
      BY <1>1, <1>4, <1>5, StoreIsGood DEF Scalar
    <3>4. Held(k, Store(k, f.o, n, x.val)) = Combine(k, Held(k, f.o), Meaning(k, <<x>>))
      BY <1>1, <1>4, <1>5, <1>7, <3>2, StoreReads
    <3> HIDE DEF o
    <3>5. QED
      BY <3>1, <3>3, <3>4
  <2>3. QED
    BY <2>1, <2>2
<1> HIDE DEF o
<1>9. FrameOK(p) /\ p.k = k /\ p.field = f.field /\ p.in = f.in /\ p.o = o
  BY <1>1, <1>8, FrameWith DEF k
<1> HIDE DEF p
<1>10. /\ FrameOK(g) /\ g.k = k /\ g.field = f.field /\ g.o = o
       /\ g.in = Tail(f.in) /\ CaseOK(g)
  <2>1. FrameOK(g) /\ g.k = k /\ g.field = f.field /\ g.o = o
    BY <1>9, ThenIsOK
  <2>2. i \in DOMAIN Parse!Table[p.k]
    BY <1>2, <1>9
  <2>3. g.in = Tail(f.in) /\ CaseOK(g)
    BY <1>4, <1>6, <1>9, <2>2, ThenReads
  <2>4. QED
    BY <2>1, <2>3
<1> HIDE DEF g
<1>11. Reads(g, done \o <<x>>, T)
  <2>1. Reads(f, done, T)
    BY DEF f
  <2>2. QED
    BY <1>1, <1>4, <1>8, <1>10, <2>1, TokenIsRead DEF k, x
<1>12. QED
  BY <1>2, <1>3, <1>4, <1>10, <1>11 DEF Advance, f, k, x

LEMMA SkippedFitsNone ==
  ASSUME FrameOK(Running), CaseOK(Running), Running.in # <<>>, \A i \in DOMAIN Rows : ~ Case(i)
  PROVE  FitsNone(Running.k, Head(Running.in))
<1> DEFINE f == Running
           k == f.k
           x == Head(f.in)
<1>1. k \in Classes /\ Rows = Parse!Table[k]
  BY DEF FrameOK, Rows
<1>2. ASSUME NEW i \in DOMAIN Rows
      PROVE  IF f.case # 0 THEN Rows[i][1] # f.case
             ELSE ~ (Rows[i][1] = x.num /\ WireType(Rows[i][2]) = x.wire)
  BY DEF Case
<1>3. f.case # 0 => f.case \in Numbers(k)
  BY DEF CaseOK
<1> HIDE DEF f, k, x
<1>4. f.case = 0
  <2>1. SUFFICES ASSUME f.case # 0 PROVE FALSE
    OBVIOUS
  <2>2. \E i \in DOMAIN Parse!Table[k] : Parse!Table[k][i][1] = f.case
    BY <1>1, <1>3, <2>1, ParseRowOf
  <2>3. QED
    BY <1>1, <1>2, <2>1, <2>2
<1>5. SUFFICES ASSUME NEW j \in DOMAIN Proto!Table[k], Fits(Proto!Table[k][j], x) PROVE FALSE
  BY DEF FitsNone, k, x, f
<1>6. x.num \in Numbers(k) /\ x.wire = WireType(Type(k, x.num))
  BY <1>1, <1>5, ProtoRow DEF Fits
<1>7. PICK i \in DOMAIN Parse!Table[k] : Parse!Table[k][i][1] = x.num
  BY <1>1, <1>6, ParseRowOf
<1>8. Parse!Table[k][i][2] = Type(k, x.num)
  BY <1>1, <1>7, RowsAre
<1>9. QED
  BY <1>1, <1>2, <1>4, <1>6, <1>7, <1>8

LEMMA SkipFieldAdvances ==
  ASSUME FramesOK, frames # <<>>, NEW done, NEW T, Reads(Running, done, T), SkipField
  PROVE  Advance(done, T)
<1> DEFINE f == Running
           k == f.k
           x == Head(f.in)
           o == [f.o EXCEPT !.unknown = Append(@, x)]
           p == [f EXCEPT !.o = o]
           in == Tail(f.in)
           g == GoesOn(p, in, 0)
<1>1. FrameOK(f) /\ k \in Classes /\ GoodObject(k, f.o)
  BY RunningIs DEF FrameOK
<1>2. /\ f.in # <<>> /\ ~ Short /\ CaseOK(f) /\ \A i \in DOMAIN Rows : ~ Case(i)
      /\ T \subseteq TopTokens(k) /\ done \in Seq(T) /\ f.in \in Seq(T)
      /\ Held(k, f.o) = Meaning(k, done)
  BY DEF SkipField, Reads
<1>3. GoodObject(k, o)
  BY <1>1, UnknownDoesNotMatter
<1>4. FrameOK(p) /\ p.k = k /\ p.field = f.field /\ p.in = f.in /\ p.o = o
  BY <1>1, <1>3, FrameWith
<1>5. frames' = WithTop(g)
  <2> DEFINE q == AddUnknown(f, x)
  <2>1. frames' = WithTop([q EXCEPT !.in = Tail(@), !.case = 0])
    BY DEF SkipField
  <2>2. q = p
    BY <1>1, AddUnknownIs
  <2> HIDE DEF q, p, f
  <2>3. QED
    BY <1>4, <2>1, <2>2 DEF GoesOn
<1>6. FitsNone(k, x)
  BY <1>1, <1>2, SkippedFitsNone
<1>7. x \in T /\ f.o.unknown \in Seq(T)
  BY <1>2, HeadOf, UnknownOfRead
<1>8. Held(k, o) = Combine(k, Held(k, f.o), Meaning(k, <<x>>))
  BY <1>1, <1>6, <1>7, UnknownReads
<1> HIDE DEF p, o
<1>9. FrameOK(g) /\ g.k = k /\ g.field = f.field /\ g.o = o
  BY <1>4, GoesOnIsOK
<1>10. g.in = in /\ g.case = 0
  BY <1>4, GoesOnGoes
<1> HIDE DEF g
<1>11. CaseOK(g)
  BY <1>10 DEF CaseOK
<1>12. Reads(g, done \o <<x>>, T)
  <2> HIDE DEF f
  <2>1. Reads(f, done, T)
    BY DEF f
  <2>2. QED
    BY <1>1, <1>2, <1>3, <1>8, <1>9, <1>10, <1>11, <2>1, TokenIsRead
<1>13. QED
  BY <1>2, <1>5, <1>9, <1>10, <1>12 DEF Advance
-----------------------------------------------------------------------------
(* What the tokens mean that were read before for the nested object that a    *)
(* call fills: nothing for the next element of a list.                        *)
RowOf(k, n) == Row(Proto!Table[k], n)
Before(k, n, done) == IF IsList(k, n) THEN <<>> ELSE Inside(Fitting(RowOf(k, n), done))
ToFill(k, o, n) == IF ~ IsList(k, n) THEN o.val[n] ELSE Spare(Type(k, n), o.val[n])

LEMMA RowOfIs ==
  ASSUME NEW k \in Classes, NEW i \in DOMAIN Proto!Table[k]
  PROVE  RowOf(k, Proto!Table[k][i][1]) = Proto!Table[k][i]
<1> DEFINE n == Proto!Table[k][i][1]
           j == CHOOSE j \in DOMAIN Proto!Table[k] : Proto!Table[k][j][1] = n
<1>1. j \in DOMAIN Proto!Table[k] /\ Proto!Table[k][j][1] = n
  OBVIOUS
<1> HIDE DEF j
<1>2. j = i
  BY <1>1, ProtoRow
<1>3. QED
  BY <1>2 DEF RowOf, Row, j

(* The field of a nested message that is not a list, before and after.        *)
LEMMA NestedFieldMeans ==
  ASSUME NEW k \in Classes, NEW done \in Seq(TopTokens(k)), NEW i \in DOMAIN Proto!Table[k],
         NEW n, n = Proto!Table[k][i][1], ~ IsList(k, n), Type(k, n) \in Nested
  PROVE  /\ Before(k, n, done) \in Seq(LeafTokens)
         /\ MeaningField(k, i, done) = <<>> => Before(k, n, done) = <<>>
         /\ MeaningField(k, i, done) # <<>> =>
              MeaningField(k, i, done) = <<MeaningLeaf(Type(k, n), Before(k, n, done))>>
<1> DEFINE row == Proto!Table[k][i]
           t == Type(k, n)
           mine == Fitting(row, done)
           F == FieldTokens(k, i)
<1>1. row[2] # "rep" /\ row[3] = t
  BY ProtoRow
<1>2. Before(k, n, done) = Inside(mine)
  BY RowOfIs DEF Before
<1>3. mine \in Seq(F) /\ \A x \in F : x.val \in Seq(LeafTokens)
  BY FieldTokensAre
<1>4. MeaningField(k, i, done) = IF mine = <<>> THEN <<>> ELSE <<SubMeaning(t, mine)>>
  BY <1>1 DEF MeaningField
<1>5. SubMeaning(t, mine) = MeaningLeaf(t, Inside(mine))
  BY DEF SubMeaning, Inside
<1> HIDE DEF mine, F, t, row
<1>6. Inside(mine) \in Seq(LeafTokens)
  BY <1>3, InsideConcat
<1>7. \A y : <<y>> # <<>>
  OBVIOUS
<1>8. QED
  BY <1>2, <1>4, <1>5, <1>6, <1>7, InsideEmpty DEF t

LEMMA ToFillReads ==
  ASSUME NEW k \in Classes, NEW o, GoodObject(k, o), NEW done \in Seq(TopTokens(k)),
         Held(k, o) = Meaning(k, done), NEW n \in Numbers(k), Type(k, n) \in Nested
  PROVE  /\ Before(k, n, done) \in Seq(LeafTokens)
         /\ Held(Type(k, n), ToFill(k, o, n)) = Meaning(Type(k, n), Before(k, n, done))
<1> DEFINE t == Type(k, n)
           e == ToFill(k, o, n)
<1>0. GoodMember(k, n, o.val[n], Has(k, o, n))
  BY DEF GoodObject
<1>1. Held(t, NewLeaf(t)) = Meaning(t, <<>>)
  BY NewLeafHolds, LeafHolds, LeafMeans
<1>2. CASE IsList(k, n)
  <2>1. e = NewLeaf(t) /\ Before(k, n, done) = <<>>
    BY <1>0, <1>2, SpareIsNew DEF ToFill, Before, GoodMember
  <2>2. <<>> \in Seq(LeafTokens)
    OBVIOUS
  <2>3. QED
    BY <1>1, <2>1, <2>2
<1>3. CASE ~ IsList(k, n)
  <2>1. PICK i \in DOMAIN Proto!Table[k] : Proto!Table[k][i][1] = n
    BY ProtoRowOf
  <2>2. HeldField(k, i, o) = MeaningField(k, i, done)
    <3>1. Held(k, o).fields[i] = HeldField(k, i, o)
      BY HeldIs
    <3>2. Meaning(k, done).fields[i] = MeaningField(k, i, done)
      BY MeaningIs
    <3>3. QED
      BY <3>1, <3>2
  <2>3. e = o.val[n]
    BY <1>3 DEF ToFill
  <2>4. HeldField(k, i, o) = IF Has(k, o, n) THEN <<HeldLeaf(t, e)>> ELSE <<>>
    BY <1>3, <2>1, <2>3 DEF HeldField, SubHeld
  <2>5. ~ Has(k, o, n) => e = NewLeaf(t)
    BY <1>0, <1>3, <2>3 DEF GoodMember
  <2>6. /\ Before(k, n, done) \in Seq(LeafTokens)
        /\ MeaningField(k, i, done) = <<>> => Before(k, n, done) = <<>>
        /\ MeaningField(k, i, done) # <<>> =>
             MeaningField(k, i, done) = <<MeaningLeaf(t, Before(k, n, done))>>
    BY <1>3, <2>1, NestedFieldMeans
  <2>7. \A x, y : <<x>> # <<>> /\ (<<x>> = <<y>> => x = y)
    OBVIOUS
  <2> HIDE DEF t, e
  <2>8. CASE Has(k, o, n)
    <3>1. MeaningField(k, i, done) = <<HeldLeaf(t, e)>>
      BY <2>2, <2>4, <2>8
    <3>2. HeldLeaf(t, e) = MeaningLeaf(t, Before(k, n, done))
      BY <2>6, <2>7, <3>1
    <3>3. QED
      BY <2>6, <3>2, LeafHolds, LeafMeans DEF t, e
  <2>9. CASE ~ Has(k, o, n)
    BY <1>1, <2>2, <2>4, <2>5, <2>6, <2>9 DEF t, e
  <2>10. QED
    BY <2>8, <2>9
<1>4. QED
  BY <1>2, <1>3

(* The caller's object, with the nested one in it.                            *)
FilledWith(k, o, n, e) ==
  IF IsList(k, n) THEN [o EXCEPT !.val[n] = AddElement(Type(k, n), @, e)] ELSE Store(k, o, n, e)

LEMMA FilledListField ==
  ASSUME NEW k \in Classes, NEW n \in Numbers(k), IsList(k, n), Type(k, n) \in Nested,
         NEW i \in DOMAIN Proto!Table[k], Proto!Table[k][i][1] = n,
         NEW o, GoodObject(k, o), NEW e, NEW p, p.val[n] = AddElement(Type(k, n), o.val[n], e)
  PROVE  HeldField(k, i, p) = HeldField(k, i, o) \o <<HeldLeaf(Type(k, n), e)>>
<1> DEFINE t == Type(k, n)
           list == o.val[n]
           longer == AddElement(t, list, e)
           x == [j \in 1 .. list.size |-> HeldLeaf(t, list.all[j])]
           y == HeldLeaf(t, e)
           z == [j \in 1 .. longer.size |-> HeldLeaf(t, longer.all[j])]
           T == {x[j] : j \in 1 .. list.size} \cup {z[j] : j \in 1 .. longer.size} \cup {y}
<1>1. HeldField(k, i, o) = x /\ HeldField(k, i, p) = z
  BY DEF HeldField, SubHeld
<1>2. GoodList(t, list)
  BY DEF GoodObject, GoodMember
<1>3. Grows(list, e, longer)
  BY <1>2, AddElementIs
<1>4. /\ list.size \in Nat /\ longer.size = list.size + 1
      /\ longer.all[list.size + 1] = e
      /\ \A j \in 1 .. list.size : longer.all[j] = list.all[j]
  <2> HIDE DEF longer
  <2>1. PICK m \in Nat : \E r \in {m, m + 1} :
          /\ list.size \in 0 .. m /\ list.all = [j \in 1 .. m |-> list.all[j]]
          /\ list.size + 1 \in 1 .. r /\ (r = m + 1 => list.size = m)
          /\ longer = [all |-> [j \in 1 .. r |-> IF j = list.size + 1 THEN e ELSE list.all[j]],
                       size |-> list.size + 1]
    BY <1>3 DEF Grows
  <2>2. PICK r \in {m, m + 1} :
          /\ list.size \in 0 .. m
          /\ list.size + 1 \in 1 .. r
          /\ longer = [all |-> [j \in 1 .. r |-> IF j = list.size + 1 THEN e ELSE list.all[j]],
                       size |-> list.size + 1]
    BY <2>1
  <2>3. /\ longer.size = list.size + 1
        /\ longer.all = [j \in 1 .. r |-> IF j = list.size + 1 THEN e ELSE list.all[j]]
    BY <2>2
  <2>4. ASSUME NEW j \in 1 .. list.size PROVE longer.all[j] = list.all[j]
    <3>1. j \in 1 .. r /\ j # list.size + 1
      BY <2>2
    <3>2. QED
      BY <2>3, <3>1
  <2>5. QED
    BY <2>2, <2>3, <2>4
<1>5. x = [j \in 1 .. list.size |-> x[j]] /\ \A j \in 1 .. list.size : x[j] \in T
  OBVIOUS
<1>6. z = [j \in 1 .. longer.size |-> z[j]] /\ \A j \in 1 .. longer.size : z[j] \in T
  OBVIOUS
<1> HIDE DEF longer
<1>7. \A j \in 1 .. list.size : z[j] = x[j]
  BY <1>4
<1>8. z[list.size + 1] = y
  BY <1>4
<1>9. y \in T /\ longer.size \in Nat /\ list.size \in Nat
  BY <1>4
<1> HIDE DEF x, y, z, T, list, t
<1>10. x \in Seq(T) /\ Len(x) = list.size
  BY <1>5, <1>9, ListedIn
<1>11. z \in Seq(T) /\ Len(z) = longer.size
  BY <1>6, <1>9, ListedIn
<1>12. <<y>> \in Seq(T) /\ Len(<<y>>) = 1 /\ <<y>>[1] = y
  BY <1>9
<1> DEFINE one == <<y>>
<1>13. z = x \o one
  <2> HIDE DEF one
  <2>1. /\ Len(z) = Len(x) + Len(one) /\ one \in Seq(T)
        /\ \A j \in 1 .. Len(x) : z[j] = x[j]
        /\ \A j \in 1 .. Len(one) : z[Len(x) + j] = one[j]
    BY <1>4, <1>7, <1>8, <1>10, <1>11, <1>12 DEF one
  <2>2. QED
    BY <1>10, <1>11, <2>1, ConcatIs
<1>14. QED
  BY <1>1, <1>13 DEF y, t

LEMMA FilledWithIs ==
  ASSUME NEW k \in Classes, NEW o, GoodObject(k, o), NEW n \in Numbers(k), NEW e
  PROVE  LET p == FilledWith(k, o, n, e) IN
         /\ p.unknown = o.unknown
         /\ \A m \in Numbers(k) \ {n} :
              p.val[m] = o.val[m] /\ (~ IsList(k, m) => (Has(k, p, m) <=> Has(k, o, m)))
         /\ IsList(k, n) => p.val[n] = AddElement(Type(k, n), o.val[n], e)
         /\ ~ IsList(k, n) => p.val[n] = e /\ Has(k, p, n)
<1> DEFINE p == FilledWith(k, o, n, e)
<1>1. Object(k, o)
  BY DEF GoodObject
<1>2. CASE IsList(k, n)
  <2> DEFINE list == AddElement(Type(k, n), o.val[n], e)
  <2>1. p = [o EXCEPT !.val[n] = list]
    BY <1>2 DEF FilledWith
  <2> HIDE DEF list
  <2>2. /\ p.has = o.has /\ p.unknown = o.unknown /\ p.val[n] = list
        /\ \A m \in Numbers(k) \ {n} : p.val[m] = o.val[m]
    BY <1>1, <2>1 DEF Object
  <2> HIDE DEF p
  <2>3. \A m \in Numbers(k) : Has(k, p, m) <=> Has(k, o, m)
    BY <2>2 DEF Has
  <2>4. QED
    BY <1>2, <2>2, <2>3 DEF list, p
<1>3. CASE ~ IsList(k, n)
  <2>1. p = Store(k, o, n, e)
    BY <1>3 DEF FilledWith
  <2> HIDE DEF p
  <2>2. QED
    BY <1>1, <1>3, <2>1, StoreIs DEF p
<1>4. QED
  BY <1>2, <1>3

LEMMA FilledReads ==
  ASSUME NEW k \in Classes, NEW o, GoodObject(k, o), NEW done \in Seq(TopTokens(k)),
         Held(k, o) = Meaning(k, done), NEW n \in Numbers(k), Type(k, n) \in Nested,
         NEW x, TokenOfField(k, n, x), x \in TopTokens(k), NEW e,
         Held(Type(k, n), e) = Meaning(Type(k, n), Before(k, n, done) \o x.val)
  PROVE  /\ done \o <<x>> \in Seq(TopTokens(k))
         /\ Held(k, FilledWith(k, o, n, e)) = Meaning(k, done \o <<x>>)
<1> DEFINE t == Type(k, n)
           p == FilledWith(k, o, n, e)
<1>1. x.val \in Seq(LeafTokens)
  BY DEF TokenOfField, TopTokens
<1>2. SubMeaning(t, <<x>>) = MeaningLeaf(t, x.val)
  BY <1>1, SubMeaningOfOne
<1>3. HeldLeaf(t, e) = MeaningLeaf(t, Before(k, n, done) \o x.val)
  BY LeafHolds, LeafMeans
<1>4. /\ p.unknown = o.unknown
      /\ \A m \in Numbers(k) \ {n} :
           p.val[m] = o.val[m] /\ (~ IsList(k, m) => (Has(k, p, m) <=> Has(k, o, m)))
      /\ IsList(k, n) => p.val[n] = AddElement(Type(k, n), o.val[n], e)
      /\ ~ IsList(k, n) => p.val[n] = e /\ Has(k, p, n)
  BY FilledWithIs
<1> HIDE DEF p, t
<1>5. ASSUME NEW i \in DOMAIN Proto!Table[k], Proto!Table[k][i][1] = n
      PROVE  HeldField(k, i, p) = CombineField(k, i, HeldField(k, i, o), <<MeaningLeaf(t, x.val)>>)
  <2>1. CASE IsList(k, n)
    <3>1. p.val[n] = AddElement(Type(k, n), o.val[n], e)
      BY <1>4, <2>1
    <3>2. HeldField(k, i, p) = HeldField(k, i, o) \o <<HeldLeaf(t, e)>>
      BY <1>5, <2>1, <3>1, FilledListField DEF t
    <3>3. Before(k, n, done) \o x.val = x.val
      BY <1>1, <2>1 DEF Before
    <3>4. Proto!Table[k][i][2] = "rep"
      BY <1>5, <2>1, ProtoRow
    <3>5. QED
      BY <1>3, <3>2, <3>3, <3>4 DEF CombineField
  <2>2. CASE ~ IsList(k, n)
    <3>1. HeldField(k, i, p) = <<HeldLeaf(t, e)>>
      <4>1. p.val[n] = e /\ Has(k, p, n)
        BY <1>4, <2>2
      <4>2. QED
        BY <1>5, <2>2, <4>1 DEF HeldField, SubHeld, t
    <3>2. HeldField(k, i, o) = MeaningField(k, i, done)
      <4>1. Held(k, o).fields[i] = HeldField(k, i, o)
        BY HeldIs
      <4>2. Meaning(k, done).fields[i] = MeaningField(k, i, done)
        BY MeaningIs
      <4>3. QED
        BY <4>1, <4>2
    <3>3. /\ Before(k, n, done) \in Seq(LeafTokens)
          /\ MeaningField(k, i, done) = <<>> => Before(k, n, done) = <<>>
          /\ MeaningField(k, i, done) # <<>> =>
               MeaningField(k, i, done) = <<MeaningLeaf(t, Before(k, n, done))>>
      BY <1>5, <2>2, NestedFieldMeans DEF t
    <3>4. Proto!Table[k][i][2] # "rep" /\ Proto!Table[k][i][3] = t /\ t \in Nested
      BY <1>5, <2>2, ProtoRow DEF t
    <3>5. \A y : <<y>> # <<>> /\ <<y>>[1] = y
      OBVIOUS
    <3>6. CASE MeaningField(k, i, done) = <<>>
      <4>1. Before(k, n, done) \o x.val = x.val
        BY <1>1, <3>3, <3>6
      <4>2. CombineField(k, i, <<>>, <<MeaningLeaf(t, x.val)>>) = <<MeaningLeaf(t, x.val)>>
        BY <3>4, <3>5 DEF CombineField
      <4>3. QED
        BY <1>3, <3>1, <3>2, <3>6, <4>1, <4>2
    <3>7. CASE MeaningField(k, i, done) # <<>>
      <4>1. MeaningField(k, i, done) = <<MeaningLeaf(t, Before(k, n, done))>>
        BY <3>3, <3>7
      <4>2. HeldLeaf(t, e)
              = CombineLeaf(t, MeaningLeaf(t, Before(k, n, done)), MeaningLeaf(t, x.val))
        BY <1>1, <1>3, <3>3, <3>4, MeaningLeafConcat
      <4>3. \A y, z : CombineField(k, i, <<y>>, <<z>>) = <<CombineLeaf(t, y, z)>>
        BY <3>4, <3>5 DEF CombineField
      <4>4. QED
        BY <3>1, <3>2, <4>1, <4>2, <4>3
    <3>8. QED
      BY <3>6, <3>7
  <2>3. QED
    BY <2>1, <2>2
<1>6. Held(k, p) = Combine(k, Held(k, o), Meaning(k, <<x>>))
  <2>1. o.unknown \in Seq(TopTokens(k))
    BY UnknownOfRead
  <2>2. ASSUME NEW i \in DOMAIN Proto!Table[k], Proto!Table[k][i][1] = n
        PROVE  HeldField(k, i, p)
                 = CombineField(k, i, HeldField(k, i, o), <<SubMeaning(Type(k, n), <<x>>)>>)
    BY <1>2, <1>5, <2>2 DEF t
  <2>3. QED
    BY <1>4, <2>1, <2>2, OneFieldRead
<1>7. QED
  BY <1>6, ReadsMore DEF p
-----------------------------------------------------------------------------
(* What is left of a string that ends too early.                              *)
LEMMA StringDefault ==
  ASSUME NEW k \in Classes, NEW n \in Numbers(k), Type(k, n) = "string"
  PROVE  Scalar(k, n) /\ Row(New!Table[k], n)[2] = 0
<1>1. Type(k, n) \notin Nested
  BY DEF Nested
<1>2. Scalar(k, n)
  BY <1>1, TypeOfScalar
<1>3. QED
  BY <1>2, TablesAgree DEF ClearAgrees

LEMMA StoreAgain ==
  ASSUME NEW k \in Classes, NEW o, GoodObject(k, o), NEW n \in Numbers(k), ~ IsList(k, n),
         Has(k, o, n)
  PROVE  Held(k, Store(k, o, n, o.val[n])) = Held(k, o)
<1> DEFINE p == Store(k, o, n, o.val[n])
<1>1. /\ p.unknown = o.unknown /\ p.val[n] = o.val[n] /\ Has(k, p, n)
      /\ \A m \in Numbers(k) \ {n} :
           p.val[m] = o.val[m] /\ (~ IsList(k, m) => (Has(k, p, m) <=> Has(k, o, m)))
  BY StoreIs DEF GoodObject
<1> HIDE DEF p
<1>2. ASSUME NEW i \in DOMAIN Proto!Table[k] PROVE HeldField(k, i, p) = HeldField(k, i, o)
  <2> DEFINE m == Proto!Table[k][i][1]
  <2>1. m \in Numbers(k)
    BY ProtoRow
  <2>2. p.val[m] = o.val[m] /\ (~ IsList(k, m) => (Has(k, p, m) <=> Has(k, o, m)))
    BY <1>1, <2>1
  <2>3. QED
    BY <2>2, SameField
<1>3. Held(k, p) = Held(k, o)
  BY <1>1, <1>2, HeldIs
<1>4. QED
  BY <1>3 DEF p

WithValue(x, v) == [x EXCEPT !.val = v]

LEMMA ShortString ==
  ASSUME NEW k \in Classes, NEW T, T \in {TopTokens(k), LeafTokens}, NEW n \in Numbers(k),
         Type(k, n) = "string", NEW x \in T, x.num = n, x.wire = WireType(Type(k, n)),
         NEW v \in Int
  PROVE  /\ WithValue(x, v) \in T /\ WithValue(x, v).val = v
         /\ TokenOfField(k, n, WithValue(x, v))
<1> DEFINE y == WithValue(x, v)
<1>1. /\ x = [num |-> x.num, wire |-> x.wire, val |-> x.val, size |-> x.size]
      /\ x.num \in Nat /\ x.wire \in 0 .. 7 /\ x.size \in Int
  <2>1. CASE T = TopTokens(k)
    BY <2>1 DEF TopTokens
  <2>2. CASE T = LeafTokens
    BY <2>2 DEF LeafTokens
  <2>3. QED
    BY <2>1, <2>2
<1>2. y = [num |-> x.num, wire |-> x.wire, val |-> v, size |-> x.size]
  BY <1>1 DEF WithValue
<1> HIDE DEF y
<1>3. y.num = n /\ y.wire = WireType(Type(k, n)) /\ y.val = v
  BY <1>2
<1>4. y \in LeafTokens
  BY <1>1, <1>2 DEF LeafTokens
<1>5. y \in TopTokens(k)
  <2>1. Type(k, n) \notin Nested
    BY DEF Nested
  <2>2. y \in [num : Nat, wire : 0 .. 7, val : Int \cup Seq(LeafTokens), size : Int]
    BY <1>1, <1>2
  <2>3. ASSUME NEW m \in Numbers(k), y.num = m
        PROVE  IF Type(k, m) \in Nested THEN y.val \in Seq(LeafTokens) ELSE y.val \in Int
    BY <1>3, <2>1, <2>3
  <2>4. QED
    BY <2>2, <2>3 DEF TopTokens
<1>6. TokenOfField(k, n, y)
  BY <1>3 DEF TokenOfField
<1>7. QED
  BY <1>3, <1>4, <1>5, <1>6 DEF y

LEMMA RemainsRead ==
  ASSUME FramesOK, frames # <<>>, NEW done, NEW T, T \in {TopTokens(Running.k), LeafTokens},
         Reads(Running, done, T), NEW o \in Remains
  PROVE  \/ Held(Running.k, o) = Meaning(Running.k, done)
         \/ /\ Running.in # <<>>
            /\ \E part \in Leftover(TypeOf(Running.k, Head(Running.in)), Head(Running.in)) :
                 /\ part \in Seq(T)
                 /\ Held(Running.k, o) = Meaning(Running.k, done \o part)
<1> DEFINE f == Running
           k == f.k
           x == Head(f.in)
<1>1. FrameOK(f) /\ k \in Classes /\ GoodObject(k, f.o)
  BY RunningIs DEF FrameOK
<1>2. /\ T \subseteq TopTokens(k) /\ done \in Seq(T) /\ f.in \in Seq(T) /\ CaseOK(f)
      /\ Held(k, f.o) = Meaning(k, done)
  BY DEF Reads
<1>3. CASE o = f.o
  BY <1>2, <1>3
<1>4. CASE o # f.o
  <2>1. PICK i \in DOMAIN Rows : /\ Case(i) /\ Rows[i][2] = "string"
                                 /\ \E v \in {f.o.val[Rows[i][1]]} \cup Parts(x.val) :
                                      o = Store(k, f.o, Rows[i][1], v)
    BY <1>4 DEF Remains
  <2> DEFINE n == Rows[i][1]
  <2>2. PICK v \in {f.o.val[n]} \cup Parts(x.val) : o = Store(k, f.o, n, v)
    BY <2>1
  <2>3. /\ f.in # <<>> /\ n \in Numbers(k) /\ Type(k, n) = "string" /\ x.num = n
        /\ x.wire = WireType(Type(k, n))
    BY <1>1, <1>2, <2>1, CaseReads
  <2> HIDE DEF f, k, x, n
  <2>4. x \in T /\ x \in TopTokens(k) /\ Scalar(k, n) /\ Row(New!Table[k], n)[2] = 0
    <3>1. x \in T /\ x \in TopTokens(k)
      BY <1>2, <2>3, HeadOf DEF x
    <3>2. Scalar(k, n) /\ Row(New!Table[k], n)[2] = 0
      BY <1>1, <2>3, StringDefault
    <3>3. QED
      BY <3>1, <3>2
  <2>5. TypeOf(k, x) = "string"
    BY <2>3 DEF TypeOf
  <2>6. x.val \in Int
    BY <2>3, <2>4 DEF TopTokens, Scalar
  <2>7. ASSUME NEW part \in Parts(x.val), o = Store(k, f.o, n, part)
        PROVE  \E p \in Leftover(TypeOf(k, x), x) :
                 p \in Seq(T) /\ Held(k, o) = Meaning(k, done \o p)
    <3> DEFINE y == WithValue(x, part)
    <3>1. part \in Int
      BY <2>6 DEF Parts
    <3>2. y \in T /\ y.val = part /\ TokenOfField(k, n, y)
      <4>1. T \in {TopTokens(k), LeafTokens}
        BY DEF k, f
      <4>2. QED
        BY <1>1, <2>3, <2>4, <3>1, <4>1, ShortString, ZenonT(30)
    <3>3. <<y>> \in Leftover(TypeOf(k, x), x)
      BY <2>5 DEF Leftover, WithValue
    <3> HIDE DEF y
    <3>4. f.o.unknown \in Seq(T)
      BY <1>2, UnknownOfRead
    <3>5. Held(k, o) = Combine(k, Held(k, f.o), Meaning(k, <<y>>))
      BY <1>1, <2>3, <2>4, <2>7, <3>2, <3>4, StoreReads
    <3>6. Held(k, o) = Meaning(k, done \o <<y>>)
      BY <1>1, <1>2, <3>2, <3>5, ReadsMore
    <3>7. <<y>> \in Seq(T)
      BY <3>2
    <3>8. QED
      BY <3>3, <3>6, <3>7
  <2>8. CASE v \in Parts(x.val)
    BY <2>2, <2>3, <2>7, <2>8 DEF f, k, x
  <2>9. CASE v = f.o.val[n] /\ Has(k, f.o, n)
    <3>1. Held(k, o) = Held(k, f.o)
      BY <1>1, <2>2, <2>3, <2>4, <2>9, StoreAgain DEF Scalar
    <3>2. QED
      BY <1>2, <3>1 DEF k, f
  <2>10. CASE v = f.o.val[n] /\ ~ Has(k, f.o, n)
    <3>1. v = 0
      BY <1>1, <2>3, <2>4, <2>10 DEF GoodObject, GoodMember, Scalar
    <3>2. v \in Parts(x.val)
      BY <3>1 DEF Parts
    <3>3. QED
      BY <2>2, <2>3, <2>7, <3>2 DEF f, k, x
  <2>11. QED
    BY <2>8, <2>9, <2>10
<1>5. QED
  BY <1>3, <1>4
-----------------------------------------------------------------------------
(* Of the bytes some were read into the outer object, and of the nested ones  *)
(* that are there some into the nested object. The end of those that are cut  *)
(* off is yet to be met.                                                      *)
TopRead(done) ==
  /\ wire = done \o frames[1].in
  /\ Reads(frames[1], done, TopTokens(kind))
  /\ cut => frames[1].in # <<>>

NestedRead(done, inner, left) ==
  LET f == frames[1]
      g == frames[2]
  IN  /\ f.in # <<>> /\ f.case = g.field
      /\ inner \in Seq(LeafTokens) /\ left \in Seq(LeafTokens)
      /\ Head(f.in).val = inner \o (g.in \o left)
      /\ Before(kind, g.field, done) \in Seq(LeafTokens)
      /\ Reads(g, Before(kind, g.field, done) \o inner, LeafTokens)
      /\ ~ CutNested => left = <<>>
      /\ CutNested => g.in # <<>> \/ inner = <<>>

Reading ==
  \E done : /\ TopRead(done)
            /\ Len(frames) = 2 => \E inner, left : NestedRead(done, inner, left)

LEMMA TwoFrames ==
  ASSUME FramesOK, Len(frames) = 2
  PROVE  frames # <<>> /\ frames = <<frames[1], Running>> /\ Running = frames[2]
<1>1. frames # <<>>
  <2>1. SUFFICES ASSUME frames = <<>> PROVE FALSE
    OBVIOUS
  <2>2. Len(<<>>) = 0
    OBVIOUS
  <2>3. QED
    BY <2>1, <2>2
<1>2. Running = frames[2]
  BY DEF Running
<1>3. QED
  BY <1>1, <1>2, RunningIs

(* The call on the outer object that has entered a nested one.                *)
LEMMA CallerIs ==
  ASSUME FramesOK, kind \in Kinds, Len(frames) = 2, NEW done, TopRead(done),
         NEW inner, NEW left, NestedRead(done, inner, left)
  PROVE  LET f == frames[1]
             n == Running.field
             x == Head(f.in)
         IN  /\ Running = frames[2] /\ FrameOK(Running) /\ FrameOK(f)
             /\ f.k = kind /\ kind \in Classes
             /\ n \in Numbers(kind) /\ Running.k = Type(kind, n) /\ Type(kind, n) \in Nested
             /\ f.in # <<>> /\ x \in TopTokens(kind) /\ TokenOfField(kind, n, x)
             /\ x.val \in Seq(LeafTokens)
             /\ done \in Seq(TopTokens(kind)) /\ f.in \in Seq(TopTokens(kind))
             /\ Held(kind, f.o) = Meaning(kind, done) /\ GoodObject(kind, f.o)
<1> DEFINE f == frames[1]
           g == frames[2]
           n == Running.field
           x == Head(f.in)
<1>1. Running = g
  BY DEF Running
<1>2. frames # <<>>
  BY TwoFrames
<1>3. /\ FrameOK(Running) /\ FrameOK(f) /\ f.k = kind /\ n \in Numbers(kind)
      /\ Running.k = Type(kind, n) /\ Running.k \in Nested
  BY <1>2, RunningIs
<1>4. /\ f.in # <<>> /\ f.case = n
  BY <1>1 DEF NestedRead
<1>5. /\ done \in Seq(TopTokens(kind)) /\ f.in \in Seq(TopTokens(kind)) /\ CaseOK(f)
      /\ Held(kind, f.o) = Meaning(kind, done)
  BY <1>3 DEF TopRead, Reads
<1>6. kind \in Classes /\ GoodObject(kind, f.o)
  BY <1>3 DEF FrameOK, Classes
<1> HIDE DEF f, n, x, g
<1>7. n # 0
  BY <1>3, <1>6, TablesAgree DEF HasBitsAgree
<1>8. x.num = n /\ x.wire = WireType(Type(kind, n)) /\ x \in TopTokens(kind)
  BY <1>3, <1>4, <1>5, <1>7, HeadOf DEF CaseOK, x
<1>9. TokenOfField(kind, n, x) /\ x.val \in Seq(LeafTokens)
  BY <1>3, <1>8 DEF TokenOfField, TopTokens, Nested
<1>10. QED
  BY <1>1, <1>3, <1>4, <1>5, <1>6, <1>8, <1>9 DEF f, n, x, g

LEMMA FilledIs ==
  ASSUME FramesOK, kind \in Kinds, Len(frames) = 2, NEW o
  PROVE  Filled(o) = FilledWith(kind, frames[1].o, Running.field, o)
<1>1. frames # <<>>
  BY TwoFrames
<1>2. Running.k = Type(kind, Running.field) /\ frames[1].k = kind
  BY <1>1, RunningIs
<1>3. frames[Len(frames) - 1] = frames[1]
  OBVIOUS
<1> HIDE DEF Running
<1>4. QED
  BY <1>2, <1>3 DEF Filled, FilledWith

(* The nested tokens are in the token, one after the other.                   *)
LEMMA TakeVal ==
  ASSUME NEW k \in Classes, NEW n \in Numbers(k), Type(k, n) \in Nested,
         NEW x \in TopTokens(k), TokenOfField(k, n, x), NEW v \in Seq(LeafTokens)
  PROVE  /\ WithValue(x, v) \in TopTokens(k) /\ WithValue(x, v).val = v
         /\ TokenOfField(k, n, WithValue(x, v))
<1> DEFINE y == WithValue(x, v)
<1>1. /\ x = [num |-> x.num, wire |-> x.wire, val |-> x.val, size |-> x.size]
      /\ x.num \in Nat /\ x.wire \in 0 .. 7 /\ x.size \in Int
  BY DEF TopTokens
<1>2. y = [num |-> x.num, wire |-> x.wire, val |-> v, size |-> x.size]
  BY <1>1 DEF WithValue
<1> HIDE DEF y
<1>3. y.num = n /\ y.wire = WireType(Type(k, n)) /\ y.val = v
  BY <1>2 DEF TokenOfField
<1>4. y \in [num : Nat, wire : 0 .. 7, val : Int \cup Seq(LeafTokens), size : Int]
  BY <1>1, <1>2
<1>5. y \in TopTokens(k)
  BY <1>3, <1>4 DEF TopTokens
<1>6. TokenOfField(k, n, y)
  BY <1>3 DEF TokenOfField, Nested
<1>7. QED
  BY <1>3, <1>5, <1>6 DEF y

LEMMA FrontLast ==
  ASSUME NEW S
  PROVE  \A s \in Seq(S), y \in S : Front(s \o <<y>>) = s /\ Last(s \o <<y>>) = y
<1> SUFFICES ASSUME NEW s \in Seq(S), NEW y \in S
             PROVE  Front(s \o <<y>>) = s /\ Last(s \o <<y>>) = y
  BY Zenon
<1> DEFINE r == s \o <<y>>
<1>1. /\ r \in Seq(S) /\ Len(r) = Len(s) + 1 /\ r[Len(s) + 1] = y
      /\ \A i \in 1 .. Len(s) : r[i] = s[i]
  OBVIOUS
<1> HIDE DEF r
<1>2. Last(r) = y
  BY <1>1 DEF Last
<1> DEFINE q == SubSeq(r, 1, Len(s))
<1>3. q \in Seq(S) /\ Len(q) = Len(s) /\ \A i \in 1 .. Len(s) : q[i] = s[i]
  BY <1>1
<1>4. Front(r) = q
  BY <1>1 DEF Front
<1> HIDE DEF q
<1>5. q = s
  BY <1>3, SeqEqual
<1>6. QED
  BY <1>2, <1>4, <1>5 DEF r

LEMMA OneToken ==
  ASSUME NEW S
  PROVE  \A s \in Seq(S) : Len(s) = 1 => s = <<Head(s)>> /\ Head(s) \in S /\ s # <<>>
<1> SUFFICES ASSUME NEW s \in Seq(S), Len(s) = 1
             PROVE  s = <<Head(s)>> /\ Head(s) \in S /\ s # <<>>
  OBVIOUS
<1>1. s # <<>> /\ Head(s) \in S /\ Head(s) = s[1]
  OBVIOUS
<1> DEFINE p == <<Head(s)>>
<1>2. p \in Seq(S) /\ Len(p) = 1 /\ p[1] = s[1]
  BY <1>1
<1> HIDE DEF p
<1>3. s = p
  BY <1>2, SeqEqual
<1>4. QED
  BY <1>1, <1>3 DEF p

(* The bytes end in the outer message: what its object holds.                 *)
LEMMA FailedOutside ==
  ASSUME FramesOK, kind \in Kinds, frames # <<>>, Len(frames) = 1, CutShort, ~ CutNested,
         NEW done, TopRead(done), NEW o \in Remains
  PROVE  /\ cut
         /\ \E part \in LeftoverOf(Last(wire)) : Held(kind, o) = Meaning(kind, Front(wire) \o part)
<1> DEFINE f == Running
           x == Head(f.in)
           T == TopTokens(kind)
<1>1. frames = <<f>> /\ f.k = kind /\ FrameOK(f) /\ kind \in Classes
  BY RunningIs DEF Classes
<1>2. frames[1] = f /\ 1 \in DOMAIN frames
  BY <1>1
<1>3. f.in # <<>> /\ Short /\ ~ \E i \in DOMAIN Rows : Case(i) /\ Rows[i][2] \in Nested
  BY DEF CutShort
<1>4. cut /\ Len(f.in) = 1
  BY <1>2, <1>3 DEF Short
<1>5. /\ wire = done \o f.in /\ Reads(f, done, T) /\ done \in Seq(T) /\ f.in \in Seq(T)
      /\ CaseOK(f)
  BY <1>1, <1>2 DEF TopRead, Reads
<1>6. f.in = <<x>> /\ x \in T
  BY <1>4, <1>5, OneToken
<1>7. Front(wire) = done /\ Last(wire) = x
  <2> HIDE DEF x, f, T
  <2>1. wire = done \o <<x>>
    BY <1>5, <1>6
  <2>2. QED
    BY <1>5, <1>6, <2>1, FrontLast
<1>8. TypeOf(kind, x) \notin Nested
  <2>1. SUFFICES ASSUME TypeOf(kind, x) \in Nested PROVE FALSE
    OBVIOUS
  <2>2. "unknown" \notin Nested
    BY DEF Nested
  <2>3. x.num \in Numbers(kind) /\ WireType(Type(kind, x.num)) = x.wire
        /\ Type(kind, x.num) \in Nested
    BY <2>1, <2>2 DEF TypeOf
  <2>4. PICK i \in DOMAIN Parse!Table[kind] : Parse!Table[kind][i][1] = x.num
    BY <1>1, <2>3, ParseRowOf
  <2>5. Parse!Table[kind][i][2] = Type(kind, x.num)
    BY <1>1, <2>4, RowsAre
  <2>6. Rows = Parse!Table[kind]
    BY <1>1 DEF Rows
  <2>7. f.case # 0 => x.num = f.case
    BY <1>5 DEF CaseOK
  <2>8. Case(i)
    BY <1>3, <2>3, <2>4, <2>5, <2>6, <2>7 DEF Case
  <2>9. QED
    BY <1>3, <2>3, <2>5, <2>6, <2>8
<1>9. LeftoverOf(x) = Leftover(TypeOf(kind, x), x)
  BY <1>8 DEF LeftoverOf
<1>10. <<>> \in Leftover(TypeOf(kind, x), x)
  BY DEF Leftover
<1>11. \/ Held(f.k, o) = Meaning(f.k, done)
       \/ \E part \in Leftover(TypeOf(f.k, x), x) :
            part \in Seq(T) /\ Held(f.k, o) = Meaning(f.k, done \o part)
  <2>1. T = TopTokens(f.k)
    BY <1>1
  <2>2. T \in {TopTokens(Running.k), LeafTokens} /\ Reads(Running, done, T)
    BY <1>5, <2>1
  <2> HIDE DEF T
  <2>3. QED
    BY <2>2, RemainsRead
<1>12. done \o <<>> = done
  BY <1>5
<1> HIDE DEF f, x, T
<1>13. \E part \in Leftover(TypeOf(kind, x), x) : Held(kind, o) = Meaning(kind, done \o part)
  BY <1>1, <1>10, <1>11, <1>12
<1>14. QED
  BY <1>4, <1>7, <1>9, <1>13

(* The first part of a sequence, and what follows it.                         *)
LEMMA SplitAt ==
  ASSUME NEW S
  PROVE  \A s, r \in Seq(S), y \in S :
           LET q == s \o (<<y>> \o r) IN
           /\ q \in Seq(S) /\ Len(s) + 1 \in DOMAIN q /\ q[Len(s) + 1] = y
           /\ SubSeq(q, 1, (Len(s) + 1) - 1) = s
<1> SUFFICES ASSUME NEW s \in Seq(S), NEW r \in Seq(S), NEW y \in S
             PROVE  LET q == s \o (<<y>> \o r) IN
                    /\ q \in Seq(S) /\ Len(s) + 1 \in DOMAIN q /\ q[Len(s) + 1] = y
                    /\ SubSeq(q, 1, (Len(s) + 1) - 1) = s
  OBVIOUS
<1> DEFINE one == <<y>>
           rest == one \o r
           q == s \o rest
<1>1. one \in Seq(S) /\ Len(one) = 1 /\ one[1] = y
  OBVIOUS
<1>2. rest \in Seq(S) /\ Len(rest) = 1 + Len(r) /\ rest[1] = y
  OBVIOUS
<1> HIDE DEF one
<1> HIDE DEF rest
<1>3. /\ q \in Seq(S) /\ Len(q) = Len(s) + Len(rest)
      /\ \A i \in 1 .. Len(s) : q[i] = s[i]
      /\ q[Len(s) + 1] = rest[1]
  <2>1. q \in Seq(S) /\ Len(q) = Len(s) + Len(rest)
    BY <1>2
  <2>2. \A i \in 1 .. Len(s) : q[i] = s[i]
    BY <1>2
  <2>3. Len(r) \in Nat /\ Len(s) \in Nat
    OBVIOUS
  <2>4. q[Len(s) + 1] = rest[1]
    BY <1>2, <2>3
  <2>5. QED
    BY <2>1, <2>2, <2>4
<1> HIDE DEF q
<1>4. Len(s) \in Nat /\ Len(r) \in Nat /\ (Len(s) + 1) - 1 = Len(s)
  OBVIOUS
<1>5. Len(s) + 1 \in 1 .. Len(q) /\ 1 \in 1 .. Len(rest)
  BY <1>2, <1>3, <1>4
<1>6. q[Len(s) + 1] = y
  BY <1>2, <1>3, <1>5
<1> DEFINE p == SubSeq(q, 1, Len(s))
<1>7. p \in Seq(S) /\ Len(p) = Len(s) /\ \A i \in 1 .. Len(s) : p[i] = s[i]
  BY <1>2, <1>3, <1>4
<1> HIDE DEF p
<1>8. p = s
  BY <1>7, SeqEqual
<1>9. DOMAIN q = 1 .. Len(q)
  BY <1>3
<1>10. QED
  BY <1>3, <1>4, <1>5, <1>6, <1>8, <1>9 DEF p, q, rest, one

(* The bytes end in the nested message: what is left of it is in the object.  *)
LEMMA FailedInside ==
  ASSUME FramesOK, kind \in Kinds, CutShort, CutNested, NEW done, TopRead(done),
         NEW inner, NEW left, NestedRead(done, inner, left), NEW o \in Remains
  PROVE  /\ cut
         /\ \E part \in LeftoverOf(Last(wire)) :
              Held(kind, Filled(o)) = Meaning(kind, Front(wire) \o part)
<1> DEFINE f == frames[1]
           g == Running
           n == Running.field
           t == Type(kind, n)
           x == Head(f.in)
           T == TopTokens(kind)
           B == Before(kind, n, done)
<1>1. cut /\ Len(frames) = 2 /\ Len(f.in) = 1
  BY DEF CutNested
<1>2. /\ g = frames[2] /\ f.k = kind /\ kind \in Classes
      /\ n \in Numbers(kind) /\ g.k = t /\ t \in Nested
      /\ x \in T /\ TokenOfField(kind, n, x) /\ x.val \in Seq(LeafTokens)
      /\ done \in Seq(T) /\ f.in \in Seq(T)
      /\ Held(kind, f.o) = Meaning(kind, done) /\ GoodObject(kind, f.o)
  BY <1>1, CallerIs
<1>3. frames # <<>>
  BY <1>1, TwoFrames
<1>4. /\ inner \in Seq(LeafTokens) /\ left \in Seq(LeafTokens)
      /\ x.val = inner \o (g.in \o left) /\ B \in Seq(LeafTokens)
      /\ Reads(g, B \o inner, LeafTokens) /\ (g.in # <<>> \/ inner = <<>>)
  BY <1>2 DEF NestedRead
<1>5. g.in \in Seq(LeafTokens)
  BY <1>4 DEF Reads
<1>6. Front(wire) = done /\ Last(wire) = x
  <2> HIDE DEF x, T
  <2>1. f.in = <<x>>
    BY <1>1, <1>2, OneToken DEF x
  <2>2. wire = done \o <<x>>
    BY <2>1 DEF TopRead
  <2>3. QED
    BY <1>2, <2>2, FrontLast
<1>7. TypeOf(kind, x) = t
  BY <1>2 DEF TypeOf, TokenOfField
<1>8. /\ <<WithValue(x, <<>>)>> \in LeftoverOf(x)
      /\ \A m \in DOMAIN x.val : \A part \in Leftover(TypeOf(t, x.val[m]), x.val[m]) :
           <<WithValue(x, SubSeq(x.val, 1, m - 1) \o part)>> \in LeftoverOf(x)
  <2> HIDE DEF x, t
  <2>1. LeftoverOf(x) =
          {<<WithValue(x, <<>>)>>} \cup
            UNION {{<<WithValue(x, SubSeq(x.val, 1, m - 1) \o part)>> :
                      part \in Leftover(TypeOf(t, x.val[m]), x.val[m])} : m \in DOMAIN x.val}
    BY <1>2, <1>7 DEF LeftoverOf, WithValue
  <2>2. QED
    BY <2>1
<1>9. \/ Held(t, o) = Meaning(t, B \o inner)
      \/ /\ g.in # <<>>
         /\ \E part \in Leftover(TypeOf(t, Head(g.in)), Head(g.in)) :
              part \in Seq(LeafTokens) /\ Held(t, o) = Meaning(t, (B \o inner) \o part)
  <2> DEFINE d == B \o inner
  <2>1. Reads(g, d, LeafTokens) /\ g.k = t
    BY <1>2, <1>4
  <2> HIDE DEF d, t
  <2>2. LeafTokens \in {TopTokens(Running.k), LeafTokens}
    OBVIOUS
  <2>3. \/ Held(Running.k, o) = Meaning(Running.k, d)
        \/ /\ Running.in # <<>>
           /\ \E part \in Leftover(TypeOf(Running.k, Head(Running.in)), Head(Running.in)) :
                part \in Seq(LeafTokens) /\ Held(Running.k, o) = Meaning(Running.k, d \o part)
    BY <1>3, <2>1, <2>2, RemainsRead
  <2>4. QED
    BY <2>1, <2>3 DEF d
<1>10. Filled(o) = FilledWith(kind, f.o, n, o)
  BY <1>1, FilledIs
<1> HIDE DEF f, g, n, t, x, T, B
<1>11. ASSUME NEW v \in Seq(LeafTokens), Held(t, o) = Meaning(t, B \o v)
       PROVE  Held(kind, Filled(o)) = Meaning(kind, done \o <<WithValue(x, v)>>)
  <2> DEFINE y == WithValue(x, v)
  <2>1. y \in TopTokens(kind) /\ y.val = v /\ TokenOfField(kind, n, y)
    BY <1>2, TakeVal DEF t, T
  <2> HIDE DEF y
  <2>2. Held(Type(kind, n), o) = Meaning(Type(kind, n), Before(kind, n, done) \o y.val)
    BY <1>11, <2>1 DEF t, B
  <2>3. done \in Seq(TopTokens(kind)) /\ Type(kind, n) \in Nested
    BY <1>2 DEF T, t
  <2>4. Held(kind, FilledWith(kind, f.o, n, o)) = Meaning(kind, done \o <<y>>)
    BY <1>2, <2>1, <2>2, <2>3, FilledReads
  <2>5. QED
    BY <1>10, <2>4 DEF y
<1>12. CASE g.in = <<>>
  <2>1. inner = <<>> /\ Held(t, o) = Meaning(t, B \o inner) /\ <<>> \in Seq(LeafTokens)
    BY <1>4, <1>9, <1>12
  <2>2. Held(kind, Filled(o)) = Meaning(kind, done \o <<WithValue(x, <<>>)>>)
    BY <1>11, <2>1
  <2>3. QED
    BY <1>1, <1>6, <1>8, <2>2
<1>13. CASE g.in # <<>>
  <2> DEFINE y == Head(g.in)
             m == Len(inner) + 1
  <2>1. Short
    BY <1>13 DEF CutShort, g
  <2>2. Len(g.in) = 1
    <3>1. 2 \in DOMAIN frames
      BY <1>1
    <3>2. QED
      BY <1>2, <2>1, <3>1 DEF Short
  <2>3. g.in = <<y>> /\ y \in LeafTokens
    BY <1>5, <2>2, OneToken
  <2>4. m \in DOMAIN x.val /\ x.val[m] = y /\ SubSeq(x.val, 1, m - 1) = inner
    <3> HIDE DEF y
    <3>1. x.val = inner \o (<<y>> \o left)
      BY <1>4, <2>3
    <3>2. \A s, r \in Seq(LeafTokens), z \in LeafTokens :
            LET q == s \o (<<z>> \o r) IN
            /\ q \in Seq(LeafTokens) /\ Len(s) + 1 \in DOMAIN q /\ q[Len(s) + 1] = z
            /\ SubSeq(q, 1, (Len(s) + 1) - 1) = s
      BY SplitAt
    <3>3. inner \in Seq(LeafTokens) /\ left \in Seq(LeafTokens) /\ y \in LeafTokens
      BY <1>4, <2>3
    <3> DEFINE q == inner \o (<<y>> \o left)
    <3>4. /\ Len(inner) + 1 \in DOMAIN q /\ q[Len(inner) + 1] = y
          /\ SubSeq(q, 1, (Len(inner) + 1) - 1) = inner
      <4> HIDE DEF y
      <4>1. /\ Len(inner) + 1 \in DOMAIN (inner \o (<<y>> \o left))
            /\ (inner \o (<<y>> \o left))[Len(inner) + 1] = y
            /\ SubSeq(inner \o (<<y>> \o left), 1, (Len(inner) + 1) - 1) = inner
        BY <3>2, <3>3, Zenon
      <4>2. QED
        BY <4>1
    <3>5. x.val = q
      BY <3>1
    <3> HIDE DEF q
    <3>6. QED
      BY <3>4, <3>5
  <2> HIDE DEF y, m
  <2>5. ASSUME NEW part \in Leftover(TypeOf(t, y), y), part \in Seq(LeafTokens),
               Held(t, o) = Meaning(t, (B \o inner) \o part)
        PROVE  \E p \in LeftoverOf(Last(wire)) :
                 Held(kind, Filled(o)) = Meaning(kind, Front(wire) \o p)
    <3>1. inner \o part \in Seq(LeafTokens) /\ (B \o inner) \o part = B \o (inner \o part)
      <4>1. inner \in Seq(LeafTokens) /\ part \in Seq(LeafTokens) /\ B \in Seq(LeafTokens)
        BY <1>4, <2>5
      <4>2. inner \o part \in Seq(LeafTokens)
        BY <4>1
      <4>3. (B \o inner) \o part = B \o (inner \o part)
        BY <4>1, ConcatAssociative
      <4>4. QED
        BY <4>2, <4>3
    <3>2. Held(kind, Filled(o)) = Meaning(kind, done \o <<WithValue(x, inner \o part)>>)
      BY <1>11, <2>5, <3>1
    <3>3. <<WithValue(x, inner \o part)>> \in LeftoverOf(x)
      BY <1>8, <2>4, <2>5
    <3>4. QED
      BY <1>6, <3>2, <3>3
  <2>6. CASE Held(t, o) = Meaning(t, B \o inner)
    <3>1. <<>> \in Leftover(TypeOf(t, y), y) /\ <<>> \in Seq(LeafTokens)
      BY DEF Leftover
    <3>2. (B \o inner) \o <<>> = B \o inner
      BY <1>4
    <3>3. QED
      BY <1>1, <2>5, <2>6, <3>1, <3>2
  <2>7. QED
    BY <1>1, <1>9, <2>5, <2>6 DEF y
<1>14. QED
  BY <1>12, <1>13
-----------------------------------------------------------------------------
(* What was written, and the objects that it was written from put together.   *)
LEMMA NewHolds ==
  ASSUME NEW k \in Classes
  PROVE  Held(k, New0(k)) = Meaning(k, <<>>)
<1>1. ASSUME NEW i \in DOMAIN Proto!Table[k]
      PROVE  HeldField(k, i, New0(k)) = <<>> /\ MeaningField(k, i, <<>>) = <<>>
  <2> DEFINE n == Proto!Table[k][i][1]
  <2>1. n \in Numbers(k)
    BY ProtoRow
  <2>2. Fitting(Proto!Table[k][i], <<>>) = <<>>
    BY FittingEmpty
  <2>3. MeaningField(k, i, <<>>) = <<>>
    BY <2>2 DEF MeaningField
  <2>4. CASE IsList(k, n)
    <3>1. New0(k).val[n] = NoElements
      BY <2>1, <2>4 DEF New0
    <3>2. New0(k).val[n].size = 0
      BY <3>1 DEF NoElements
    <3>3. 1 .. 0 = {}
      OBVIOUS
    <3>4. HeldField(k, i, New0(k)) = <<>>
      BY <2>4, <3>2, <3>3 DEF HeldField
    <3>5. QED
      BY <2>3, <3>4
  <2>5. CASE ~ IsList(k, n)
    <3>1. ~ Has(k, New0(k), n)
      BY DEF Has, New0
    <3>2. HeldField(k, i, New0(k)) = <<>>
      BY <2>5, <3>1 DEF HeldField
    <3>3. QED
      BY <2>3, <3>2
  <2>6. QED
    BY <2>4, <2>5
<1>2. New0(k).unknown = <<>> /\ FittingNone(k, <<>>) = <<>>
  BY FittingEmpty DEF New0
<1>3. QED
  BY <1>1, <1>2, HeldIs, MeaningIs

Together ==
  /\ wire \in Seq(TopTokens(kind))
  /\ cut => wire # <<>>
  /\ Held(kind, merged) = Meaning(kind, wire)

LEMMA TogetherAtFirst == Init => Together
<1> SUFFICES ASSUME Init PROVE Together
  OBVIOUS
<1>1. kind \in Classes /\ wire = <<>> /\ cut = FALSE /\ merged = New0(kind)
  BY DEF Init, Classes
<1>2. Held(kind, merged) = Meaning(kind, wire)
  BY <1>1, NewHolds
<1>3. QED
  BY <1>1, <1>2, EmptySeq DEF Together

LEMMA SerializeToPutsTogether ==
  IInv /\ WrittenObjects /\ Together /\ SerializeTo => Together'
<1> SUFFICES ASSUME IInv, WrittenObjects, Together, SerializeTo PROVE Together'
  OBVIOUS
<1> DEFINE S == Serialize(kind, obj)
           T == TopTokens(kind)
<1>1. /\ kind \in Classes /\ Written(kind, obj) /\ GoodObject(kind, merged)
      /\ wire \in Seq(T) /\ Held(kind, merged) = Meaning(kind, wire)
  BY DEF IInv, Classes, WrittenObjects, Together
<1>2. /\ ~ cut /\ cut' = cut /\ kind' = kind
      /\ wire' = wire \o S /\ merged' = MergeFrom(kind, merged, obj)
  BY DEF SerializeTo
<1>3. S \in Seq(T)
  BY <1>1, SizeIsExactFor
<1>4. Held(kind, obj) = Meaning(kind, S)
  BY <1>1, WrittenMeans
<1>5. Held(kind, merged') = Combine(kind, Held(kind, merged), Held(kind, obj))
  BY <1>1, <1>2, HeldMerge
<1> HIDE DEF S
<1>6. Meaning(kind, wire \o S) = Combine(kind, Meaning(kind, wire), Meaning(kind, S))
  BY <1>1, <1>3, MeaningConcat
<1>7. Held(kind, merged') = Meaning(kind, wire')
  BY <1>1, <1>2, <1>4, <1>5, <1>6
<1>8. wire' \in Seq(T)
  BY <1>1, <1>2, <1>3
<1>9. QED
  BY <1>2, <1>7, <1>8 DEF Together

LEMMA StrangeFieldPutsTogether ==
  IInv /\ WrittenObjects /\ Together /\ StrangeField => Together'
<1> SUFFICES ASSUME IInv, WrittenObjects, Together, StrangeField PROVE Together'
  OBVIOUS
<1> DEFINE T == TopTokens(kind)
<1>1. /\ kind \in Kinds /\ kind \in Classes /\ GoodObject(kind, merged)
      /\ wire \in Seq(T) /\ Held(kind, merged) = Meaning(kind, wire)
  BY DEF IInv, Classes, Together
<1>2. PICK x \in Strange : /\ wire' = Append(wire, x)
                           /\ merged' = [merged EXCEPT !.unknown = Append(@, x)]
  BY DEF StrangeField
<1>3. ~ cut /\ cut' = cut /\ kind' = kind
  BY DEF StrangeField
<1>4. x \in T /\ FitsNone(kind, x)
  BY <1>1, StrangeTokensAre DEF StrangeTokens
<1>5. merged.unknown \in Seq(T)
  BY <1>1, UnknownOfRead
<1> HIDE DEF T
<1>6. Held(kind, merged') = Combine(kind, Held(kind, merged), Meaning(kind, <<x>>))
  BY <1>1, <1>2, <1>4, <1>5, UnknownReads
<1>7. wire \o <<x>> \in Seq(T) /\ Held(kind, merged') = Meaning(kind, wire \o <<x>>)
  BY <1>1, <1>4, <1>6, ReadsMore DEF T
<1>8. wire' = wire \o <<x>>
  BY <1>1, <1>2, <1>4, AppendIsConcat
<1>9. QED
  BY <1>3, <1>7, <1>8 DEF Together, T

LEMMA StaysTogether == IInv /\ WrittenObjects /\ Together /\ [Next]_vars => Together'
<1> SUFFICES ASSUME IInv, WrittenObjects, Together, [Next]_vars PROVE Together'
  OBVIOUS
<1>1. ASSUME UNCHANGED <<kind, wire, cut, merged>> PROVE Together'
  BY <1>1 DEF Together
<1>2. CASE SerializeTo
  BY <1>2, SerializeToPutsTogether
<1>3. CASE StrangeField
  BY <1>3, StrangeFieldPutsTogether
<1>4. CASE CutOff
  BY <1>4 DEF CutOff, Together
<1>5. CASE SetField \/ ClearField \/ ClearObject \/ Swap
  BY <1>1, <1>5 DEF SetField, ClearField, ClearObject, Swap
<1>6. CASE BeginReading \/ ReadStep
  BY <1>1, <1>6 DEF BeginReading, ReadStep
<1>7. CASE UNCHANGED vars
  BY <1>1, <1>7 DEF vars
<1>8. QED
  BY <1>2, <1>3, <1>4, <1>5, <1>6, <1>7 DEF Next
-----------------------------------------------------------------------------
(* Where a token stands between others.                                       *)
LEMMA OneBetween ==
  ASSUME NEW S
  PROVE  \A a, c \in Seq(S), y \in S : (a \o <<y>>) \o c = a \o (<<y>> \o c)
<1> SUFFICES ASSUME NEW a \in Seq(S), NEW c \in Seq(S), NEW y \in S
             PROVE  (a \o <<y>>) \o c = a \o (<<y>> \o c)
  OBVIOUS
<1> DEFINE one == <<y>>
<1>1. one \in Seq(S)
  OBVIOUS
<1> HIDE DEF one
<1>2. (a \o one) \o c = a \o (one \o c)
  BY <1>1, ConcatAssociative
<1>3. QED
  BY <1>2 DEF one

LEMMA OneBefore ==
  ASSUME NEW S
  PROVE  \A a, c \in Seq(S), y \in S : (<<y>> \o a) \o c = <<y>> \o (a \o c)
<1> SUFFICES ASSUME NEW a \in Seq(S), NEW c \in Seq(S), NEW y \in S
             PROVE  (<<y>> \o a) \o c = <<y>> \o (a \o c)
  OBVIOUS
<1> DEFINE one == <<y>>
<1>1. one \in Seq(S)
  OBVIOUS
<1> HIDE DEF one
<1>2. (one \o a) \o c = one \o (a \o c)
  BY <1>1, ConcatAssociative
<1>3. QED
  BY <1>2 DEF one

(* The call on the outer object goes on.                                      *)
LEMMA TopAdvances ==
  ASSUME FramesOK, frames # <<>>, Len(frames) = 1, NEW done, TopRead(done),
         Advance(done, TopTokens(kind)), UNCHANGED <<kind, wire, cut>>,
         NEW d, d = done \o <<Head(Running.in)>>
  PROVE  TopRead(d)' /\ Len(frames') = 1
<1> DEFINE f == Running
           x == Head(f.in)
           T == TopTokens(kind)
<1>1. frames = <<f>> /\ frames[1] = f
  BY RunningIs
<1>2. PICK g : /\ FrameOK(g) /\ frames' = WithTop(g) /\ g.in = Tail(f.in)
               /\ Reads(g, done \o <<x>>, T)
  BY DEF Advance
<1>3. f.in # <<>> /\ ~ Short
  BY DEF Advance
<1>4. /\ wire = done \o f.in /\ done \in Seq(T) /\ f.in \in Seq(T)
  BY <1>1 DEF TopRead, Reads
<1> HIDE DEF f, x, T
<1>5. frames' = <<g>>
  BY <1>1, <1>2 DEF WithTop
<1>6. frames'[1] = g /\ Len(frames') = 1
  BY <1>5
<1>7. x \in T /\ g.in \in Seq(T) /\ f.in = <<x>> \o g.in /\ Len(g.in) = Len(f.in) - 1
  BY <1>2, <1>3, <1>4, HeadOf DEF x
<1>8. wire = d \o g.in
  <2>1. /\ done \in Seq(T) /\ g.in \in Seq(T) /\ x \in T
    BY <1>4, <1>7
  <2>2. (done \o <<x>>) \o g.in = done \o (<<x>> \o g.in)
    <3>1. \A a, c \in Seq(T), y \in T : (a \o <<y>>) \o c = a \o (<<y>> \o c)
      BY OneBetween
    <3>2. QED
      BY <2>1, <3>1, Zenon
  <2>3. QED
    BY <1>4, <1>7, <2>2 DEF x, f
<1>9. cut => g.in # <<>>
  <2>1. SUFFICES ASSUME cut, g.in = <<>> PROVE FALSE
    OBVIOUS
  <2>2. Len(<<>>) = 0
    OBVIOUS
  <2>3. Len(f.in) \in Nat
    BY <1>4
  <2>4. Len(f.in) = 1
    BY <1>7, <2>1, <2>2, <2>3
  <2>5. DOMAIN frames = {1}
    BY <1>1
  <2>6. QED
    BY <1>1, <1>3, <2>1, <2>4, <2>5 DEF Short
<1>10. Reads(g, d, T)
  BY <1>2 DEF x, f
<1>11. QED
  BY <1>6, <1>8, <1>9, <1>10 DEF TopRead, T

(* The call on the nested object goes on.                                     *)
LEMMA NestedAdvances ==
  ASSUME FramesOK, kind \in Kinds, Len(frames) = 2, NEW done, TopRead(done),
         NEW inner, NEW left, NestedRead(done, inner, left),
         NEW b, b = Before(kind, Running.field, done) \o inner,
         Advance(b, LeafTokens), UNCHANGED <<kind, wire, cut>>,
         NEW d, d = inner \o <<Head(Running.in)>>
  PROVE  TopRead(done)' /\ NestedRead(done, d, left)' /\ Len(frames') = 2
<1> DEFINE f == frames[1]
           r == Running
           x == Head(r.in)
           T == LeafTokens
           B == Before(kind, r.field, done)
<1>1. r = frames[2] /\ frames = <<f, r>>
  BY TwoFrames
<1>2. PICK g : /\ FrameOK(g) /\ frames' = WithTop(g) /\ g.in = Tail(r.in)
               /\ g.field = r.field /\ Reads(g, b \o <<x>>, T)
  BY DEF Advance
<1>3. r.in # <<>> /\ ~ Short
  BY DEF Advance
<1>4. /\ f.in # <<>> /\ f.case = r.field
      /\ inner \in Seq(T) /\ left \in Seq(T)
      /\ Head(f.in).val = inner \o (r.in \o left) /\ B \in Seq(T)
      /\ Reads(r, B \o inner, T)
      /\ (~ CutNested => left = <<>>)
  BY <1>1 DEF NestedRead
<1>5. r.in \in Seq(T)
  BY <1>4 DEF Reads
<1> HIDE DEF f, r, x, T, B
<1>6. frames' = <<f, g>>
  BY <1>1, <1>2 DEF WithTop
<1>7. frames'[1] = f /\ frames'[2] = g /\ Len(frames') = 2
  BY <1>6
<1>8. x \in T /\ g.in \in Seq(T) /\ r.in = <<x>> \o g.in /\ Len(g.in) = Len(r.in) - 1
  BY <1>2, <1>3, <1>5, HeadOf DEF x
<1>9. d = inner \o <<x>> /\ d \in Seq(T) /\ <<x>> \in Seq(T)
  BY <1>4, <1>8 DEF x, r
<1>10. Head(f.in).val = d \o (g.in \o left)
  <2>0. /\ inner \in Seq(T) /\ left \in Seq(T) /\ g.in \in Seq(T) /\ x \in T
    BY <1>4, <1>8
  <2>1. (<<x>> \o g.in) \o left = <<x>> \o (g.in \o left)
    <3>1. \A a, c \in Seq(T), y \in T : (<<y>> \o a) \o c = <<y>> \o (a \o c)
      BY OneBefore
    <3>2. QED
      BY <2>0, <3>1, Zenon
  <2>2. g.in \o left \in Seq(T)
    BY <2>0
  <2>3. (inner \o <<x>>) \o (g.in \o left) = inner \o (<<x>> \o (g.in \o left))
    <3>1. \A a, c \in Seq(T), y \in T : (a \o <<y>>) \o c = a \o (<<y>> \o c)
      BY OneBetween
    <3>2. QED
      BY <2>0, <2>2, <3>1, Zenon
  <2>4. QED
    BY <1>4, <1>8, <1>9, <2>1, <2>3
<1>11. Reads(g, B \o d, T)
  <2>1. b = B \o inner
    BY DEF B, r
  <2>2. (B \o inner) \o <<x>> = B \o (inner \o <<x>>)
    <3> DEFINE one == <<x>>
    <3>1. B \in Seq(T) /\ inner \in Seq(T) /\ one \in Seq(T)
      BY <1>4, <1>9
    <3> HIDE DEF one
    <3>2. (B \o inner) \o one = B \o (inner \o one)
      BY <3>1, ConcatAssociative
    <3>3. QED
      BY <3>2 DEF one
  <2>3. QED
    BY <1>2, <1>9, <2>1, <2>2
<1>12. CutNested => g.in # <<>>
  <2>1. SUFFICES ASSUME CutNested, g.in = <<>> PROVE FALSE
    OBVIOUS
  <2>2. Len(<<>>) = 0
    OBVIOUS
  <2>3. Len(r.in) \in Nat
    BY <1>5
  <2>4. Len(r.in) = 1
    BY <1>8, <2>1, <2>2, <2>3
  <2>5. DOMAIN frames = {1, 2} /\ frames[1] = f /\ frames[2] = r
    BY <1>1
  <2>6. QED
    BY <1>3, <2>1, <2>4, <2>5 DEF Short, CutNested
<1>13. CutNested' <=> CutNested
  <2>1. frames[1] = f
    BY DEF f
  <2>2. QED
    BY <1>7, <2>1 DEF CutNested
<1>14. TopRead(done)'
  <2>1. frames[1] = f
    BY DEF f
  <2>2. QED
    BY <1>7, <2>1 DEF TopRead
<1>15. g.field = r.field /\ B = Before(kind, g.field, done)
  BY <1>2 DEF B
<1>16. NestedRead(done, d, left)'
  BY <1>4, <1>7, <1>9, <1>10, <1>11, <1>12, <1>13, <1>15 DEF NestedRead, T
<1>17. QED
  BY <1>7, <1>14, <1>16
-----------------------------------------------------------------------------
(* The call on a nested message begins.                                       *)
LEMMA SplitBy ==
  ASSUME NEW S
  PROVE  \A s \in Seq(S) : \A m \in 0 .. Len(s) :
           LET a == SubSeq(s, 1, m)
               c == SubSeq(s, m + 1, Len(s))
           IN  /\ a \in Seq(S) /\ c \in Seq(S) /\ s = a \o c
               /\ m = Len(s) => c = <<>>
<1> SUFFICES ASSUME NEW s \in Seq(S), NEW m \in 0 .. Len(s)
             PROVE  LET a == SubSeq(s, 1, m)
                        c == SubSeq(s, m + 1, Len(s))
                    IN  /\ a \in Seq(S) /\ c \in Seq(S) /\ s = a \o c
                        /\ m = Len(s) => c = <<>>
  OBVIOUS
<1> DEFINE a == SubSeq(s, 1, m)
           c == SubSeq(s, m + 1, Len(s))
<1>1. Len(s) \in Nat /\ m \in Nat /\ m <= Len(s)
  OBVIOUS
<1>2. a \in Seq(S) /\ Len(a) = m /\ \A i \in 1 .. m : a[i] = s[i]
  BY <1>1
<1>3. c \in Seq(S) /\ Len(c) = Len(s) - m /\ \A i \in 1 .. Len(s) - m : c[i] = s[m + i]
  BY <1>1
<1> HIDE DEF a, c
<1>4. s = a \o c
  <2>1. /\ Len(s) = Len(a) + Len(c)
        /\ \A i \in 1 .. Len(a) : s[i] = a[i]
        /\ \A i \in 1 .. Len(c) : s[Len(a) + i] = c[i]
    BY <1>1, <1>2, <1>3
  <2>2. QED
    BY <1>2, <1>3, <2>1, ConcatIs
<1>5. m = Len(s) => c = <<>>
  <2>1. SUFFICES ASSUME m = Len(s) PROVE c = <<>>
    OBVIOUS
  <2>2. Len(c) = 0
    BY <1>1, <1>3, <2>1
  <2>3. QED
    BY <1>3, <2>2
<1>6. QED
  BY <1>2, <1>3, <1>4, <1>5 DEF a, c

LEMMA NestedReadNext ==
  ASSUME NEW f, NEW g, frames'[1] = f, frames'[2] = g, NEW done, NEW inner, NEW left,
         /\ f.in # <<>> /\ f.case = g.field
         /\ inner \in Seq(LeafTokens) /\ left \in Seq(LeafTokens)
         /\ Head(f.in).val = inner \o (g.in \o left)
         /\ Before(kind', g.field, done) \in Seq(LeafTokens)
         /\ Reads(g, Before(kind', g.field, done) \o inner, LeafTokens)
         /\ ~ CutNested' => left = <<>>
         /\ CutNested' => g.in # <<>> \/ inner = <<>>
  PROVE  NestedRead(done, inner, left)'
BY DEF NestedRead

LEMMA ReadNestedReads ==
  ASSUME FramesOK, frames # <<>>, kind \in Kinds, NEW done, TopRead(done), Len(frames) = 1,
         NEW i \in DOMAIN Rows, ReadNested(i), UNCHANGED <<kind, wire, cut>>
  PROVE  /\ TopRead(done)' /\ Len(frames') = 2
         /\ \E inner, left : NestedRead(done, inner, left)'
<1> DEFINE f == Running
           x == Head(f.in)
           T == TopTokens(kind)
           n == Rows[i][1]
           t == Rows[i][2]
           o == ToFill(kind, f.o, n)
           top == [f EXCEPT !.case = n]
           B == Before(kind, n, done)
<1>1. /\ frames = <<f>> /\ frames[1] = f /\ f.k = kind /\ FrameOK(f) /\ kind \in Classes
      /\ GoodObject(kind, f.o)
  BY RunningIs DEF FrameOK, Classes
<1>2. /\ Reads(f, done, T) /\ wire = done \o f.in /\ CaseOK(f) /\ done \in Seq(T)
      /\ f.in \in Seq(T) /\ Held(kind, f.o) = Meaning(kind, done)
  BY <1>1 DEF TopRead, Reads
<1>3. Case(i) /\ t \in Nested
  BY DEF ReadNested
<1>4. /\ f.in # <<>> /\ n \in Numbers(kind) /\ t = Type(kind, n)
      /\ x.num = n /\ x.wire = WireType(t)
  BY <1>1, <1>2, <1>3, CaseReads
<1>5. x \in T
  BY <1>2, <1>4, HeadOf
<1>6. x.val \in Seq(LeafTokens)
  BY <1>3, <1>4, <1>5 DEF TopTokens
<1>7. PICK last \in 0 .. Len(x.val) :
        /\ Short \/ last = Len(x.val)
        /\ frames' = Append(WithTop(top), Frame(t, o, SubSeq(x.val, 1, last), n))
  <2>1. o = IF ~ IsList(f.k, n) THEN f.o.val[n] ELSE Spare(t, f.o.val[n])
    BY <1>1, <1>4 DEF ToFill
  <2> HIDE DEF o
  <2>2. QED
    BY <2>1 DEF ReadNested
<1> DEFINE in == SubSeq(x.val, 1, last)
           left == SubSeq(x.val, last + 1, Len(x.val))
           g == Frame(t, o, in, n)
<1>8. g = [k |-> t, o |-> o, in |-> in, case |-> 0, field |-> n]
  BY DEF Frame
<1>9. top = [k |-> kind, o |-> f.o, in |-> f.in, case |-> n, field |-> f.field]
  BY <1>1 DEF FrameOK
<1>10. WithTop(top) = <<top>>
  <2> HIDE DEF top, f
  <2>1. QED
    BY <1>1 DEF WithTop
<1>11. frames' = <<top, g>>
  <2>1. frames' = Append(WithTop(top), g)
    BY <1>7
  <2> HIDE DEF g, top
  <2>2. frames' = Append(<<top>>, g)
    BY <1>10, <2>1
  <2>3. QED
    BY <2>2, AppendOne
<1>12. /\ in \in Seq(LeafTokens) /\ left \in Seq(LeafTokens) /\ x.val = in \o left
       /\ last = Len(x.val) => left = <<>>
  <2> HIDE DEF x
  <2>1. QED
    BY <1>6, <1>7, SplitBy
<1> HIDE DEF g, top, o, in, left, f, x, n, t, T, B
<1>13. frames'[1] = top /\ frames'[2] = g /\ Len(frames') = 2
  BY <1>11
<1>14. top.k = kind /\ top.o = f.o /\ top.in = f.in /\ top.case = n
  BY <1>9
<1>15. g.k = t /\ g.o = o /\ g.in = in /\ g.case = 0 /\ g.field = n
  BY <1>8
<1>16. CaseOK(top)
  BY <1>4, <1>14 DEF CaseOK, x
<1>17. Reads(top, done, T)
  BY <1>2, <1>14, <1>16 DEF Reads, T
<1>18. TopRead(done)'
  BY <1>2, <1>4, <1>13, <1>14, <1>17 DEF TopRead, T
<1>19. B \in Seq(LeafTokens) /\ Held(t, o) = Meaning(t, B)
  <2>1. done \in Seq(TopTokens(kind)) /\ Type(kind, n) \in Nested
    BY <1>2, <1>3, <1>4 DEF T
  <2>2. QED
    BY <1>1, <1>2, <1>4, <2>1, ToFillReads DEF B, o
<1>20. Reads(g, B \o <<>>, LeafTokens)
  <2>1. B \o <<>> = B
    BY <1>19
  <2>2. LeafTokens \subseteq TopTokens(t)
    BY <1>3, LeafTokensAre
  <2>3. CaseOK(g)
    BY <1>15 DEF CaseOK
  <2>4. QED
    BY <1>12, <1>15, <1>19, <2>1, <2>2, <2>3 DEF Reads
<1>21. CutNested' <=> Short
  <2>1. CutNested' <=> cut /\ Len(f.in) = 1
    BY <1>13, <1>14 DEF CutNested
  <2>2. DOMAIN frames = {1}
    BY <1>1
  <2>3. QED
    BY <1>1, <2>1, <2>2 DEF Short
<1>22. ~ CutNested' => left = <<>>
  BY <1>7, <1>12, <1>21 DEF x, f
<1>23. Head(top.in).val = <<>> \o (g.in \o left)
  <2>1. <<>> \o x.val = x.val
    BY <1>6
  <2>2. QED
    BY <1>12, <1>14, <1>15, <2>1 DEF x
<1>24. PICK rest : rest = left
  OBVIOUS
<1>25. NestedRead(done, <<>>, rest)'
  <2>1. <<>> \in Seq(LeafTokens)
    OBVIOUS
  <2>2. Before(kind, g.field, done) = B
    BY <1>15 DEF B
  <2>3. top.in # <<>> /\ top.case = g.field
    BY <1>4, <1>14, <1>15
  <2>4. rest \in Seq(LeafTokens) /\ B \in Seq(LeafTokens) /\ kind' = kind
    BY <1>12, <1>19, <1>24
  <2>5. /\ top.in # <<>> /\ top.case = g.field
        /\ <<>> \in Seq(LeafTokens) /\ rest \in Seq(LeafTokens)
        /\ Head(top.in).val = <<>> \o (g.in \o rest)
        /\ Before(kind', g.field, done) \in Seq(LeafTokens)
        /\ Reads(g, Before(kind', g.field, done) \o <<>>, LeafTokens)
        /\ ~ CutNested' => rest = <<>>
        /\ CutNested' => g.in # <<>> \/ <<>> = <<>>
    <3> HIDE DEF CutNested
    <3>1. Before(kind', g.field, done) = B
      BY <2>2, <2>4
    <3>2. Reads(g, Before(kind', g.field, done) \o <<>>, LeafTokens)
      BY <1>20, <3>1
    <3>3. QED
      BY <1>22, <1>23, <1>24, <2>1, <2>3, <2>4, <3>1, <3>2, Zenon
  <2>6. frames'[1] = top /\ frames'[2] = g
    BY <1>13
  <2>7. QED
    BY <2>5, <2>6, NestedReadNext
<1>26. QED
  BY <1>13, <1>18, <1>25
-----------------------------------------------------------------------------
(* The call on a nested message returns true.                                 *)
LEMMA NestedIsRead ==
  ASSUME FramesOK, kind \in Kinds, Len(frames) = 2, NEW done, TopRead(done),
         NEW inner, NEW left, NestedRead(done, inner, left), Running.in = <<>>, ~ CutNested,
         NEW d, d = done \o <<Head(frames[1].in)>>
  PROVE  /\ d \in Seq(TopTokens(kind))
         /\ Held(kind, Filled(Running.o)) = Meaning(kind, d)
<1> DEFINE f == frames[1]
           n == Running.field
           t == Type(kind, n)
           x == Head(f.in)
           T == TopTokens(kind)
           B == Before(kind, n, done)
           o == Running.o
<1>1. /\ kind \in Classes /\ n \in Numbers(kind) /\ Running.k = t /\ t \in Nested
      /\ x \in T /\ TokenOfField(kind, n, x) /\ done \in Seq(T)
      /\ Held(kind, f.o) = Meaning(kind, done) /\ GoodObject(kind, f.o)
  BY CallerIs
<1>2. Running = frames[2]
  BY TwoFrames
<1>3. /\ inner \in Seq(LeafTokens) /\ x.val = inner \o (<<>> \o <<>>)
      /\ Reads(Running, B \o inner, LeafTokens)
  BY <1>2 DEF NestedRead
<1>4. x.val = inner
  BY <1>3
<1>5. Held(t, o) = Meaning(t, B \o x.val)
  BY <1>1, <1>3, <1>4 DEF Reads
<1>6. Filled(o) = FilledWith(kind, f.o, n, o)
  BY FilledIs
<1> HIDE DEF o, f, x
<1>7. /\ done \o <<x>> \in Seq(T) /\ Held(kind, FilledWith(kind, f.o, n, o)) = Meaning(kind, done \o <<x>>)
  <2>1. Held(Type(kind, n), o) = Meaning(Type(kind, n), Before(kind, n, done) \o x.val)
    BY <1>5
  <2> HIDE DEF n
  <2>2. QED
    BY <1>1, <2>1, FilledReads
<1>8. QED
  BY <1>6, <1>7 DEF x, f, o

LEMMA ReturnNestedReads ==
  ASSUME FramesOK, kind \in Kinds, Len(frames) = 2, NEW done, TopRead(done),
         NEW inner, NEW left, NestedRead(done, inner, left), Return,
         UNCHANGED <<kind, wire, cut>>, NEW d, d = done \o <<Head(frames[1].in)>>
  PROVE  TopRead(d)' /\ Len(frames') = 1
<1> DEFINE f == frames[1]
           n == Running.field
           x == Head(f.in)
           T == TopTokens(kind)
           rows == Parse!Table[f.k]
           i == CHOOSE j \in DOMAIN rows : rows[j][1] = n
           o == Filled(Running.o)
           p == [f EXCEPT !.o = o]
           g == Then(p, i, rows)
<1>1. /\ FrameOK(Running) /\ FrameOK(f) /\ f.k = kind /\ kind \in Classes
      /\ n \in Numbers(kind) /\ f.in # <<>> /\ x \in T
      /\ done \in Seq(T) /\ f.in \in Seq(T)
  BY CallerIs
<1>2. Running.in = <<>> /\ ~ CutNested
  BY DEF Return
<1>3. d \in Seq(T) /\ Held(kind, o) = Meaning(kind, d)
  BY <1>2, NestedIsRead
<1>4. GoodObject(kind, o)
  BY <1>1, FilledIsGood DEF FrameOK
<1>5. frames' = Append(SubSeq(frames, 1, 0), g)
  BY DEF Return
<1>6. i \in DOMAIN rows
  <2>1. \E j \in DOMAIN rows : rows[j][1] = n
    BY <1>1, ParseRowOf
  <2> HIDE DEF rows, n
  <2>2. QED
    BY <2>1
<1>7. wire = done \o f.in /\ (cut => Len(f.in) # 1)
  BY <1>2 DEF TopRead, CutNested
<1> HIDE DEF o, i, f, n, x, T
<1>8. FrameOK(p) /\ p.k = kind /\ p.in = f.in /\ p.o = o
  BY <1>1, <1>4, FrameWith
<1> HIDE DEF p
<1>9. FrameOK(g) /\ g.k = kind /\ g.o = o
  BY <1>8, ThenIsOK
<1>10. g.in = Tail(f.in) /\ CaseOK(g)
  <2>1. T \subseteq TopTokens(p.k) /\ p.in \in Seq(T) /\ p.in # <<>> /\ rows = Parse!Table[p.k]
    BY <1>1, <1>8 DEF T
  <2>2. QED
    BY <1>6, <1>8, <2>1, ThenReads
<1> HIDE DEF g
<1>11. frames' = <<g>>
  <2>1. frames = <<frames[1], Running>>
    BY TwoFrames
  <2>2. SubSeq(frames, 1, 0) = <<>>
    BY <2>1
  <2>3. QED
    BY <1>5, <2>2, AppendFirst
<1>12. frames'[1] = g /\ Len(frames') = 1
  BY <1>11
<1>13. g.in \in Seq(T) /\ f.in = <<x>> \o g.in /\ Len(g.in) = Len(f.in) - 1
  BY <1>1, <1>10, HeadOf DEF x
<1>14. wire = d \o g.in
  <2>1. \A a, c \in Seq(T), y \in T : (a \o <<y>>) \o c = a \o (<<y>> \o c)
    BY OneBetween
  <2>2. (done \o <<x>>) \o g.in = done \o (<<x>> \o g.in)
    BY <1>1, <1>13, <2>1, Zenon
  <2>3. QED
    BY <1>7, <1>13, <2>2 DEF x, f
<1>15. cut => g.in # <<>>
  <2>1. SUFFICES ASSUME cut, g.in = <<>> PROVE FALSE
    OBVIOUS
  <2>2. Len(<<>>) = 0
    OBVIOUS
  <2>3. Len(f.in) \in Nat
    BY <1>1
  <2>4. Len(f.in) = 1
    BY <1>13, <2>1, <2>2, <2>3
  <2>5. QED
    BY <1>7, <2>1, <2>4
<1>16. Reads(g, d, T)
  BY <1>3, <1>9, <1>10, <1>13 DEF Reads, T
<1>17. QED
  BY <1>12, <1>14, <1>15, <1>16 DEF TopRead, T
-----------------------------------------------------------------------------
(* Each step of a call.                                                       *)
LEMMA FieldStepReads ==
  ASSUME FramesOK, frames # <<>>, kind \in Kinds, Reading, UNCHANGED <<kind, wire, cut>>,
         SkipField \/ \E i \in DOMAIN Rows : ReadField(i)
  PROVE  Reading'
<1>1. PICK done : /\ TopRead(done)
                  /\ Len(frames) = 2 => \E inner, left : NestedRead(done, inner, left)
  BY DEF Reading
<1>2. ASSUME NEW b, NEW T, Reads(Running, b, T) PROVE Advance(b, T)
  <2>1. CASE SkipField
    BY <1>2, <2>1, SkipFieldAdvances
  <2>2. CASE \E i \in DOMAIN Rows : ReadField(i)
    <3>1. PICK i \in DOMAIN Rows : ReadField(i)
      BY <2>2
    <3>2. QED
      BY <1>2, <3>1, ReadFieldAdvances
  <2>3. QED
    BY <2>1, <2>2
<1>3. CASE Len(frames) = 1
  <2>1. frames[1] = Running
    BY <1>3 DEF Running
  <2>2. Reads(Running, done, TopTokens(kind))
    BY <1>1, <2>1 DEF TopRead
  <2>3. Advance(done, TopTokens(kind))
    BY <1>2, <2>2
  <2>4. PICK d : d = done \o <<Head(Running.in)>>
    OBVIOUS
  <2>5. TopRead(d)' /\ Len(frames') = 1
    BY <1>1, <1>3, <2>3, <2>4, TopAdvances
  <2>6. QED
    BY <2>5 DEF Reading
<1>4. CASE Len(frames) = 2
  <2>1. PICK inner, left : NestedRead(done, inner, left)
    BY <1>1, <1>4
  <2>2. Running = frames[2]
    BY <1>4, TwoFrames
  <2>3. PICK b : b = Before(kind, Running.field, done) \o inner
    OBVIOUS
  <2>4. Reads(Running, b, LeafTokens)
    BY <2>1, <2>2, <2>3 DEF NestedRead
  <2>5. Advance(b, LeafTokens)
    BY <1>2, <2>4
  <2>6. PICK d : d = inner \o <<Head(Running.in)>>
    OBVIOUS
  <2>7. TopRead(done)' /\ NestedRead(done, d, left)'
    BY <1>1, <1>4, <2>1, <2>3, <2>5, <2>6, NestedAdvances
  <2>8. QED
    BY <2>7 DEF Reading
<1>5. QED
  BY <1>3, <1>4, RunningIs

LEMMA ReadNestedStepReads ==
  ASSUME FramesOK, frames # <<>>, kind \in Kinds, Reading, UNCHANGED <<kind, wire, cut>>,
         NEW i \in DOMAIN Rows, ReadNested(i)
  PROVE  Reading'
<1>1. PICK done : TopRead(done)
  BY DEF Reading
<1>2. Len(frames) = 1
  <2>1. SUFFICES ASSUME Len(frames) = 2 PROVE FALSE
    BY RunningIs
  <2>2. Running.k \in Nested /\ FrameOK(Running)
    BY <2>1, RunningIs
  <2>3. Rows[i][2] \in Nested
    BY DEF ReadNested
  <2>4. /\ Rows[i][1] \in Numbers(Running.k) /\ Rows[i][2] = Type(Running.k, Rows[i][1])
    BY <2>2, RowsAre DEF Rows, FrameOK
  <2>5. QED
    BY <2>2, <2>3, <2>4, LeafHasScalars DEF Scalar
<1>3. TopRead(done)' /\ \E inner, left : NestedRead(done, inner, left)'
  BY <1>1, <1>2, ReadNestedReads
<1>4. QED
  BY <1>3 DEF Reading

(* What a call that has returned leaves.                                      *)
LEMMA ReturnReads ==
  ASSUME FramesOK, frames # <<>>, kind \in Kinds, Reading, UNCHANGED <<kind, wire, cut>>,
         Return
  PROVE  \/ /\ frames' = <<>> /\ outcome' = "ok" /\ ~ cut
            /\ Held(kind, into') = Meaning(kind, wire)
         \/ /\ Reading' /\ outcome' = outcome
<1>1. PICK done : /\ TopRead(done)
                  /\ Len(frames) = 2 => \E inner, left : NestedRead(done, inner, left)
  BY DEF Reading
<1>2. CASE Len(frames) = 1
  <2>1. frames[1] = Running /\ Running.k = kind
    BY <1>2, RunningIs DEF Running
  <2>2. Running.in = <<>> /\ into' = Running.o /\ outcome' = "ok" /\ frames' = <<>>
    BY <1>2 DEF Return
  <2>3. /\ wire = done \o <<>> /\ done \in Seq(TopTokens(kind)) /\ ~ cut
        /\ Held(kind, Running.o) = Meaning(kind, done)
    BY <1>1, <2>1, <2>2 DEF TopRead, Reads
  <2>4. wire = done
    BY <2>3
  <2>5. QED
    BY <2>2, <2>3, <2>4
<1>3. CASE Len(frames) = 2
  <2>1. PICK inner, left : NestedRead(done, inner, left)
    BY <1>1, <1>3
  <2>2. PICK d : d = done \o <<Head(frames[1].in)>>
    OBVIOUS
  <2>3. TopRead(d)' /\ Len(frames') = 1
    BY <1>1, <1>3, <2>1, <2>2, ReturnNestedReads
  <2>4. outcome' = outcome
    BY <1>3 DEF Return
  <2>5. QED
    BY <2>3, <2>4 DEF Reading
<1>4. QED
  BY <1>2, <1>3, RunningIs

LEMMA ReturnFalseReads ==
  ASSUME FramesOK, frames # <<>>, kind \in Kinds, Reading, UNCHANGED <<kind, wire, cut>>,
         ReturnFalse
  PROVE  /\ frames' = <<>> /\ outcome' = "failed" /\ cut
         /\ \E part \in LeftoverOf(Last(wire)) :
              Held(kind, into') = Meaning(kind, Front(wire) \o part)
<1>1. PICK done : /\ TopRead(done)
                  /\ Len(frames) = 2 => \E inner, left : NestedRead(done, inner, left)
  BY DEF Reading
<1>2. PICK o \in Remains : into' = IF CutNested THEN Filled(o) ELSE o
  BY DEF ReturnFalse
<1>3. frames' = <<>> /\ outcome' = "failed" /\ CutShort
  BY DEF ReturnFalse
<1>4. CASE CutNested
  <2>1. Len(frames) = 2
    BY <1>4 DEF CutNested
  <2>2. PICK inner, left : NestedRead(done, inner, left)
    BY <1>1, <2>1
  <2>3. /\ cut
        /\ \E part \in LeftoverOf(Last(wire)) :
             Held(kind, Filled(o)) = Meaning(kind, Front(wire) \o part)
    BY <1>1, <1>3, <1>4, <2>2, FailedInside
  <2>4. into' = Filled(o)
    BY <1>2, <1>4
  <2>5. QED
    BY <1>3, <2>3, <2>4
<1>5. CASE ~ CutNested
  <2>1. Len(frames) = 1
    <3>1. SUFFICES ASSUME Len(frames) = 2 PROVE FALSE
      BY RunningIs
    <3>2. Short
      BY <1>3, <1>5 DEF CutShort
    <3>3. 1 \in DOMAIN frames
      BY <3>1
    <3>4. QED
      BY <1>5, <3>1, <3>2, <3>3 DEF Short, CutNested
  <2>2. /\ cut
        /\ \E part \in LeftoverOf(Last(wire)) : Held(kind, o) = Meaning(kind, Front(wire) \o part)
    BY <1>1, <1>3, <1>5, <2>1, FailedOutside
  <2>3. into' = o
    BY <1>2, <1>5
  <2>4. QED
    BY <1>3, <2>2, <2>3
<1>6. QED
  BY <1>4, <1>5
-----------------------------------------------------------------------------
(* Whatever was read so far is in the objects of the calls, and what a call   *)
(* left that has returned is there.                                           *)
WhatIsRead ==
  /\ Together
  /\ frames # <<>> => Reading
  /\ ReadAsDeclared

LEMMA ReadAtFirst == Init => WhatIsRead
<1>1. Init => frames = <<>> /\ ReadAsDeclared
  BY DEF Init, ReadAsDeclared
<1>2. QED
  BY <1>1, TogetherAtFirst DEF WhatIsRead

LEMMA BeginReadingReads ==
  ASSUME IInv, Together, BeginReading
  PROVE  Reading'
<1> DEFINE g == Frame(kind, New0(kind), wire, 0)
           T == TopTokens(kind)
<1>1. kind \in Classes
  BY DEF IInv, Classes
<1>2. frames' = <<g>> /\ UNCHANGED <<kind, wire, cut>>
  BY DEF BeginReading
<1>3. g.k = kind /\ g.o = New0(kind) /\ g.in = wire /\ g.case = 0
  BY DEF Frame
<1> HIDE DEF g
<1>4. frames'[1] = g /\ Len(frames') = 1
  BY <1>2
<1>5. wire \in Seq(T) /\ (cut => wire # <<>>)
  BY DEF Together
<1> DEFINE nothing == <<>>
<1>6. nothing \in Seq(T) /\ wire = nothing \o wire
  BY <1>5
<1>7. Held(kind, New0(kind)) = Meaning(kind, nothing)
  BY <1>1, NewHolds
<1>8. CaseOK(g)
  BY <1>3 DEF CaseOK
<1> HIDE DEF nothing
<1>9. Reads(g, nothing, T)
  BY <1>3, <1>5, <1>6, <1>7, <1>8 DEF Reads
<1>10. PICK done : done = nothing
  OBVIOUS
<1>11. TopRead(done)'
  BY <1>2, <1>3, <1>4, <1>5, <1>6, <1>9, <1>10 DEF TopRead
<1>12. QED
  BY <1>4, <1>11 DEF Reading

LEMMA ReadStepKeepsWhatIsRead ==
  ASSUME IInv, WhatIsRead, ReadStep
  PROVE  (frames' # <<>> => Reading') /\ ReadAsDeclared'
<1>1. /\ FramesOK /\ kind \in Kinds /\ frames # <<>> /\ outcome = "reading"
      /\ Reading /\ Together
  BY DEF ReadStep, IInv, WhatIsRead
<1>2. UNCHANGED <<kind, wire, cut, merged>>
  BY DEF ReadStep
<1>3. ASSUME Reading', outcome' = "reading"
      PROVE  (frames' # <<>> => Reading') /\ ReadAsDeclared'
  BY <1>3 DEF ReadAsDeclared
<1>4. CASE SkipField \/ \E i \in DOMAIN Rows : ReadField(i)
  <2>1. Reading'
    BY <1>1, <1>2, <1>4, FieldStepReads
  <2>2. outcome' = outcome
    BY <1>4 DEF SkipField, ReadField
  <2>3. QED
    BY <1>1, <1>3, <2>1, <2>2
<1>5. CASE \E i \in DOMAIN Rows : ReadNested(i)
  <2>1. PICK i \in DOMAIN Rows : ReadNested(i)
    BY <1>5
  <2>2. Reading'
    BY <1>1, <1>2, <2>1, ReadNestedStepReads
  <2>3. outcome' = outcome
    BY <2>1 DEF ReadNested
  <2>4. QED
    BY <1>1, <1>3, <2>2, <2>3
<1>6. CASE Return
  <2>1. \/ /\ frames' = <<>> /\ outcome' = "ok" /\ ~ cut
           /\ Held(kind, into') = Meaning(kind, wire)
        \/ /\ Reading' /\ outcome' = outcome
    BY <1>1, <1>2, <1>6, ReturnReads
  <2>2. Held(kind, merged) = Meaning(kind, wire)
    BY <1>1 DEF Together
  <2>3. ASSUME frames' = <<>>, outcome' = "ok", ~ cut, Held(kind, into') = Meaning(kind, wire)
        PROVE  (frames' # <<>> => Reading') /\ ReadAsDeclared'
    BY <1>2, <2>2, <2>3 DEF ReadAsDeclared
  <2>4. QED
    BY <1>1, <1>3, <2>1, <2>3
<1>7. CASE ReturnFalse
  <2>1. /\ frames' = <<>> /\ outcome' = "failed" /\ cut
        /\ \E part \in LeftoverOf(Last(wire)) :
             Held(kind, into') = Meaning(kind, Front(wire) \o part)
    BY <1>1, <1>2, <1>7, ReturnFalseReads
  <2>2. LeftoverOf(Last(wire))' = LeftoverOf(Last(wire))
    BY <1>2 DEF LeftoverOf
  <2>3. ReadAsDeclared'
    BY <1>2, <2>1, <2>2 DEF ReadAsDeclared
  <2>4. QED
    BY <2>1, <2>3
<1>8. QED
  BY <1>4, <1>5, <1>6, <1>7 DEF ReadStep

LEMMA StaysRead == (IInv /\ WrittenObjects) /\ WhatIsRead /\ [Next]_vars => WhatIsRead'
<1> SUFFICES ASSUME IInv, WrittenObjects, WhatIsRead, [Next]_vars PROVE WhatIsRead'
  OBVIOUS
<1>1. Together' /\ Together
  BY StaysTogether DEF WhatIsRead
<1>2. SUFFICES (frames' # <<>> => Reading') /\ ReadAsDeclared'
  BY <1>1 DEF WhatIsRead
<1>3. CASE BeginReading
  <2>1. Reading'
    BY <1>1, <1>3, BeginReadingReads
  <2>2. ReadAsDeclared'
    BY <1>3 DEF BeginReading, ReadAsDeclared
  <2>3. QED
    BY <2>1, <2>2
<1>4. CASE ReadStep
  BY <1>4, ReadStepKeepsWhatIsRead
<1>5. CASE \/ SetField \/ ClearField \/ ClearObject \/ Swap
           \/ SerializeTo \/ StrangeField \/ CutOff
  <2>1. outcome = "idle" /\ frames' = frames /\ outcome' = outcome
    BY <1>5 DEF SetField, ClearField, ClearObject, Swap, SerializeTo, StrangeField, CutOff,
                Calling, Unread
  <2>2. frames = <<>>
    BY <2>1 DEF IInv
  <2>3. QED
    BY <2>1, <2>2 DEF ReadAsDeclared
<1>6. CASE UNCHANGED vars
  <2>1. Reading' <=> Reading
    BY <1>6 DEF vars, Reading, TopRead, NestedRead, CutNested
  <2>2. LeftoverOf(Last(wire))' = LeftoverOf(Last(wire))
    BY <1>6 DEF vars, LeftoverOf
  <2>3. ReadAsDeclared'
    BY <1>6, <2>2 DEF vars, ReadAsDeclared, WhatIsRead
  <2>4. QED
    BY <1>6, <2>1, <2>3 DEF vars, WhatIsRead
<1>7. QED
  BY <1>3, <1>4, <1>5, <1>6 DEF Next

(* A reader gets what the .proto file says that the bytes mean and what       *)
(* MergeFrom makes of the objects that were written, in whatever order the    *)
(* fields come and along whichever jumps of MergePartialFromCodedStream;      *)
(* bytes that are cut off are refused, and no others, and the object then     *)
(* holds what came before the cut, whatever was being read there.             *)
THEOREM ReadsAsDeclared == Spec => []ReadAsDeclared
<1> DEFINE Inv == (IInv /\ WrittenObjects) /\ WhatIsRead
<1>1. Init => Inv
  BY InitEstablishes, WrittenAtFirst, ReadAtFirst
<1>2. Inv /\ [Next]_vars => Inv'
  BY StepKeeps, StaysWritten, StaysRead
<1>3. Inv => ReadAsDeclared
  BY DEF WhatIsRead
<1> HIDE DEF Inv
<1>4. QED
  BY <1>1, <1>2, <1>3, PTL DEF Spec
=============================================================================
