------------------------- MODULE KeysetBlocksProofs -------------------------
(***************************************************************************)
(* Proofs about KeysetBlocks, for all block sizes, texts and numbers of    *)
(* keysets: the counters of reserve() agree, keys share no bytes, pushing  *)
(* a key leaves the others as they are, and a keyset implements            *)
(* KeySequence.                                                            *)
(***************************************************************************)
EXTENDS KeysetBlocks, TLAPS

Bytes == Nat \cup {Junk}

KeyType ==
  [in : {"none", "base", "extra"}, block : Nat, at : Nat, len : Nat, word : Nat]

KeysetType ==
  [base : Seq(Seq(Bytes)), baseUsed : Nat, extra : Seq(Seq(Bytes)), extraUsed : Nat,
   keyBlocks : Seq(Seq(KeyType)), keyBlocksUsed : Nat,
   ptr : [block : Nat, at : Nat], avail : Nat, size : Nat, totalLength : Nat]

\* What is counted as used is there.
Sized(ks) ==
  /\ ks.baseUsed <= Len(ks.base)
  /\ ks.extraUsed <= Len(ks.extra)
  /\ ks.keyBlocksUsed <= Len(ks.keyBlocks)
  /\ \A b \in DOMAIN ks.base : ks.base[b] = NoBlock \/ Len(ks.base[b]) = BaseSize

\* SpaceAccounted of one keyset.
Accounted(ks) ==
  /\ ks.size <= ks.keyBlocksUsed * KeyBlockSize
  /\ \A b \in 1 .. ks.keyBlocksUsed : Len(ks.keyBlocks[b]) = KeyBlockSize
  /\ \A b \in 1 .. ks.baseUsed : Len(ks.base[b]) = BaseSize
  /\ \A b \in 1 .. ks.extraUsed : Len(ks.extra[b]) > ExtraSize
  /\ ks.ptr.block = ks.baseUsed
  /\ ks.ptr.at + ks.avail = IF ks.baseUsed = 0 THEN 0 ELSE BaseSize

\* The bytes of a key are behind ptr_ in the block in use, or in another block.
KeyFits(ks, key) ==
  /\ key.in = "none" => key.block = 0 /\ key.at = 0 /\ key.len = 0
  /\ key.in = "base" =>
       /\ key.block \in 1 .. ks.baseUsed
       /\ key.block = ks.baseUsed => key.at + key.len <= ks.ptr.at
       /\ key.block # ks.baseUsed => key.at + key.len <= BaseSize
  /\ key.in = "extra" =>
       /\ key.block \in 1 .. ks.extraUsed
       /\ key.at = 0 /\ key.len <= Len(ks.extra[key.block])

\* Keys were written where they point to.
KeysFit(ks) ==
  \A i \in 0 .. ks.size - 1 :
    /\ KeyAt(ks, i) \in KeyType
    /\ KeyFits(ks, KeyAt(ks, i))
    /\ Said(ks, KeyAt(ks, i)) \in Seq(Nat)

\* The keys of a block are in it in the order in which they were pushed.
InOrder(ks) ==
  \A i, j \in 0 .. ks.size - 1 :
    LET k == KeyAt(ks, i)  l == KeyAt(ks, j)
    IN  i < j /\ k.in = l.in /\ k.block = l.block => k.at + k.len <= l.at

Good(ks) ==
  ks \in KeysetType /\ Sized(ks) /\ Accounted(ks) /\ KeysFit(ks) /\ InOrder(ks)

IInv ==
  /\ keysets \in [Owners -> KeysetType]
  /\ \A s \in Owners : Good(keysets[s]) /\ keysets[s].size <= MaxSize
  /\ given \in [text : Seq(Nat), word : Nat]

\* What a keyset with more room or more keys has kept of one it was before.
Extends(ks, k) ==
  /\ ks.size <= k.size /\ ks.baseUsed <= k.baseUsed /\ ks.extraUsed <= k.extraUsed
  /\ ks.baseUsed = k.baseUsed => ks.ptr.at <= k.ptr.at
  /\ \A b \in 1 .. ks.baseUsed :
       /\ b \in DOMAIN k.base /\ DOMAIN k.base[b] = DOMAIN ks.base[b]
       /\ \A j \in DOMAIN ks.base[b] :
            (b = ks.baseUsed => j <= ks.ptr.at) => k.base[b][j] = ks.base[b][j]
  /\ \A b \in 1 .. ks.extraUsed : b \in DOMAIN k.extra /\ k.extra[b] = ks.extra[b]
  /\ \A i \in 0 .. ks.size - 1 : KeyAt(k, i) = KeyAt(ks, i)

\* Is there a slot for one key more?
HasSlot(ks) == ks.size < ks.keyBlocksUsed * KeyBlockSize
-----------------------------------------------------------------------------
(* Blocks and slots.                                                       *)

\* The slot of a key is in its block, and no other key has it.
LEMMA SlotOf ==
  ASSUME NEW i \in Nat, NEW used \in Nat, i < used * KeyBlockSize
  PROVE  /\ i \div KeyBlockSize + 1 \in 1 .. used
         /\ (i % KeyBlockSize) + 1 \in 1 .. KeyBlockSize
         /\ \A j \in Nat : /\ i \div KeyBlockSize = j \div KeyBlockSize
                           /\ i % KeyBlockSize = j % KeyBlockSize
                           => i = j
<1>1. KeyBlockSize \in Nat \ {0}
  BY SizesAssumption
<1>2. \A n \in Nat : /\ n \div KeyBlockSize \in Nat /\ n % KeyBlockSize \in 0 .. KeyBlockSize - 1
                     /\ n = KeyBlockSize * (n \div KeyBlockSize) + (n % KeyBlockSize)
  BY <1>1
<1>3. i \div KeyBlockSize < used
  BY <1>1
<1>4. i \div KeyBlockSize + 1 \in 1 .. used /\ (i % KeyBlockSize) + 1 \in 1 .. KeyBlockSize
  BY <1>1, <1>2, <1>3
<1>5. ASSUME NEW j \in Nat, i \div KeyBlockSize = j \div KeyBlockSize,
             i % KeyBlockSize = j % KeyBlockSize
      PROVE  i = j
  BY <1>2, <1>5
<1> QED
  BY <1>4, <1>5

\* An array that has grown has room behind its used slots, and keeps its blocks.
LEMMA GrownFacts ==
  ASSUME NEW S, NoBlock \in S, NEW array \in Seq(S), NEW used \in Nat,
         used <= Len(array)
  PROVE  /\ Grown(array, used) \in Seq(S)
         /\ used < Len(Grown(array, used)) /\ Len(array) <= Len(Grown(array, used))
         /\ \A b \in 1 .. Len(array) : Grown(array, used)[b] = array[b]
         /\ \A b \in Len(array) + 1 .. Len(Grown(array, used)) :
              Grown(array, used)[b] = NoBlock
<1>1. CASE used < Len(array)
  BY <1>1 DEF Grown
<1>2. CASE ~(used < Len(array))
  <2> DEFINE n == IF used # 0 THEN used ELSE 1
             more == [i \in 1 .. n |-> NoBlock]
  <2>1. n \in Nat /\ n > 0
    OBVIOUS
  <2> HIDE DEF n
  <2>2. more \in Seq(S) /\ Len(more) = n /\ \A i \in 1 .. n : more[i] = NoBlock
    BY <2>1
  <2>3. Grown(array, used) = array \o more
    BY <1>2 DEF Grown, n
  <2> HIDE DEF more
  <2> QED
    BY <1>2, <2>1, <2>2, <2>3
<1> QED
  BY <1>1, <1>2

\* Blocks of bytes and of keys as they are made.
LEMMA NewBlocks ==
  /\ NoBlock \in Seq(Bytes) /\ NoBlock \in Seq(KeyType)
  /\ \A n \in Nat : Fresh(n) \in Seq(Bytes) /\ Len(Fresh(n)) = n /\ DOMAIN Fresh(n) = 1 .. n
  /\ [i \in 1 .. KeyBlockSize |-> NoKey] \in Seq(KeyType)
  /\ Len([i \in 1 .. KeyBlockSize |-> NoKey]) = KeyBlockSize
<1>1. NoKey \in KeyType /\ KeyBlockSize \in Nat
  BY SizesAssumption DEF NoKey, KeyType
<1>2. \A n \in Nat : Fresh(n) \in Seq(Bytes) /\ Len(Fresh(n)) = n /\ DOMAIN Fresh(n) = 1 .. n
  BY DEF Fresh, Bytes
<1> QED
  BY <1>1, <1>2 DEF NoBlock

\* What the counters of a keyset are.
LEMMA Counters ==
  ASSUME NEW ks \in KeysetType
  PROVE  /\ ks.baseUsed \in Nat /\ ks.extraUsed \in Nat /\ ks.keyBlocksUsed \in Nat
         /\ ks.ptr.block \in Nat /\ ks.ptr.at \in Nat
         /\ ks.avail \in Nat /\ ks.size \in Nat /\ ks.totalLength \in Nat
BY DEF KeysetType

\* What its arrays are.
LEMMA Arrays ==
  ASSUME NEW ks \in KeysetType
  PROVE  /\ ks.base \in Seq(Seq(Bytes)) /\ ks.extra \in Seq(Seq(Bytes))
         /\ ks.keyBlocks \in Seq(Seq(KeyType))
         /\ DOMAIN ks.base = 1 .. Len(ks.base) /\ Len(ks.base) \in Nat
         /\ DOMAIN ks.extra = 1 .. Len(ks.extra) /\ Len(ks.extra) \in Nat
         /\ DOMAIN ks.keyBlocks = 1 .. Len(ks.keyBlocks) /\ Len(ks.keyBlocks) \in Nat
         /\ \A b \in DOMAIN ks.base :
              /\ ks.base[b] \in Seq(Bytes) /\ Len(ks.base[b]) \in Nat
              /\ DOMAIN ks.base[b] = 1 .. Len(ks.base[b])
         /\ \A b \in DOMAIN ks.extra :
              /\ ks.extra[b] \in Seq(Bytes) /\ Len(ks.extra[b]) \in Nat
              /\ DOMAIN ks.extra[b] = 1 .. Len(ks.extra[b])
         /\ \A b \in DOMAIN ks.keyBlocks :
              /\ ks.keyBlocks[b] \in Seq(KeyType) /\ Len(ks.keyBlocks[b]) \in Nat
              /\ DOMAIN ks.keyBlocks[b] = 1 .. Len(ks.keyBlocks[b])
<1>1. /\ ks.base \in Seq(Seq(Bytes)) /\ ks.extra \in Seq(Seq(Bytes))
      /\ ks.keyBlocks \in Seq(Seq(KeyType))
  BY DEF KeysetType
<1>2. /\ DOMAIN ks.base = 1 .. Len(ks.base) /\ Len(ks.base) \in Nat
      /\ \A b \in DOMAIN ks.base : ks.base[b] \in Seq(Bytes)
  BY <1>1
<1>3. /\ DOMAIN ks.extra = 1 .. Len(ks.extra) /\ Len(ks.extra) \in Nat
      /\ \A b \in DOMAIN ks.extra : ks.extra[b] \in Seq(Bytes)
  BY <1>1
<1>4. /\ DOMAIN ks.keyBlocks = 1 .. Len(ks.keyBlocks) /\ Len(ks.keyBlocks) \in Nat
      /\ \A b \in DOMAIN ks.keyBlocks : ks.keyBlocks[b] \in Seq(KeyType)
  BY <1>1
<1>5. \A S : \A block \in Seq(S) : Len(block) \in Nat /\ DOMAIN block = 1 .. Len(block)
  OBVIOUS
<1> QED
  BY <1>1, <1>2, <1>3, <1>4, <1>5

\* What a key is made of.
LEMMA KeyFields ==
  ASSUME NEW key \in KeyType
  PROVE  /\ key.in \in {"none", "base", "extra"}
         /\ key.block \in Nat /\ key.at \in Nat /\ key.len \in Nat /\ key.word \in Nat
BY DEF KeyType

\* Blocks that are counted as used are in their arrays.
LEMMA UsedAreThere ==
  ASSUME NEW ks \in KeysetType, Sized(ks)
  PROVE  /\ \A b \in 1 .. ks.baseUsed : b \in DOMAIN ks.base
         /\ \A b \in 1 .. ks.extraUsed : b \in DOMAIN ks.extra
         /\ \A b \in 1 .. ks.keyBlocksUsed : b \in DOMAIN ks.keyBlocks
<1>1. /\ ks.baseUsed \in Nat /\ ks.baseUsed <= Len(ks.base)
      /\ ks.extraUsed \in Nat /\ ks.extraUsed <= Len(ks.extra)
      /\ ks.keyBlocksUsed \in Nat /\ ks.keyBlocksUsed <= Len(ks.keyBlocks)
  BY Counters DEF Sized
<1>2. /\ DOMAIN ks.base = 1 .. Len(ks.base) /\ Len(ks.base) \in Nat
      /\ DOMAIN ks.extra = 1 .. Len(ks.extra) /\ Len(ks.extra) \in Nat
      /\ DOMAIN ks.keyBlocks = 1 .. Len(ks.keyBlocks) /\ Len(ks.keyBlocks) \in Nat
  BY Arrays
<1> QED
  BY <1>1, <1>2
-----------------------------------------------------------------------------
(* Keysets that extend others.                                             *)

\* The keys of a keyset fit into one that extends it, and say what they said.
LEMMA KeysOfExtended ==
  ASSUME NEW ks, NEW k, Good(ks), k \in KeysetType, Accounted(k), Extends(ks, k),
         NEW i \in 0 .. ks.size - 1
  PROVE  /\ KeyAt(k, i) = KeyAt(ks, i)
         /\ KeyFits(k, KeyAt(k, i))
         /\ Said(k, KeyAt(k, i)) = Said(ks, KeyAt(ks, i))
<1> DEFINE key == KeyAt(ks, i)
<1>1. key \in KeyType /\ KeyFits(ks, key) /\ KeyAt(k, i) = key
  BY DEF Good, KeysFit, Extends
<1>2. ks \in KeysetType /\ Accounted(ks) /\ Sized(ks)
  BY DEF Good
<1> HIDE DEF key
<1>3. /\ BaseSize \in Nat
      /\ key.in \in {"none", "base", "extra"}
      /\ key.block \in Nat /\ key.at \in Nat /\ key.len \in Nat
      /\ ks.baseUsed \in Nat /\ k.baseUsed \in Nat /\ ks.extraUsed \in Nat
      /\ k.extraUsed \in Nat /\ ks.ptr.at \in Nat /\ k.ptr.at \in Nat
      /\ ks.avail \in Nat
  BY <1>1, <1>2, SizesAssumption, Counters, KeyFields
<1>8. /\ DOMAIN ks.base = 1 .. Len(ks.base) /\ Len(ks.base) \in Nat
      /\ DOMAIN ks.extra = 1 .. Len(ks.extra) /\ Len(ks.extra) \in Nat
      /\ ks.baseUsed <= Len(ks.base) /\ ks.extraUsed <= Len(ks.extra)
  BY <1>2, Arrays DEF Sized
<1>4. /\ ks.baseUsed <= k.baseUsed /\ ks.extraUsed <= k.extraUsed
      /\ ks.baseUsed = k.baseUsed => ks.ptr.at <= k.ptr.at
  BY DEF Extends
<1>5. CASE key.in = "none"
  <2>1. key.block = 0 /\ key.at = 0 /\ key.len = 0
    BY <1>1, <1>5 DEF KeyFits
  <2>2. KeyFits(k, key)
    BY <1>5, <2>1 DEF KeyFits
  <2> QED
    BY <1>1, <2>1, <2>2 DEF key, Said
<1>6. CASE key.in = "base"
  <2> DEFINE b == key.block
  <2>1. /\ b \in 1 .. ks.baseUsed
        /\ b = ks.baseUsed => key.at + key.len <= ks.ptr.at
        /\ b # ks.baseUsed => key.at + key.len <= BaseSize
    BY <1>1, <1>6 DEF KeyFits
  <2>2. /\ b \in DOMAIN k.base /\ DOMAIN k.base[b] = DOMAIN ks.base[b]
        /\ \A j \in DOMAIN ks.base[b] :
             (b = ks.baseUsed => j <= ks.ptr.at) => k.base[b][j] = ks.base[b][j]
    BY <2>1 DEF Extends
  <2>3. b \in DOMAIN ks.base
    BY <1>3, <1>8, <2>1
  <2>4. b = ks.baseUsed => ks.ptr.at <= BaseSize
    <3>1. ks.ptr.at + ks.avail = IF ks.baseUsed = 0 THEN 0 ELSE BaseSize
      BY <1>2 DEF Accounted
    <3> QED
      BY <1>3, <2>1, <3>1
  <2>5. KeyFits(k, key)
    <3>1. b \in 1 .. k.baseUsed
      BY <1>3, <1>4, <2>1
    <3>2. /\ b = k.baseUsed => key.at + key.len <= k.ptr.at
          /\ b # k.baseUsed => key.at + key.len <= BaseSize
      BY <1>3, <1>4, <2>1, <2>4
    <3> QED
      BY <1>6, <3>1, <3>2 DEF KeyFits
  <2>6. Said(k, key) = Said(ks, key)
    <3>1. \A j \in 1 .. key.len :
            key.at + j \in DOMAIN ks.base[b] => k.base[b][key.at + j] = ks.base[b][key.at + j]
      BY <1>3, <2>1, <2>2
    <3>2. Said(k, key) = [j \in 1 .. key.len |->
             IF key.at + j \in DOMAIN k.base[b] THEN k.base[b][key.at + j] ELSE Junk]
      BY <1>6, <2>2 DEF Said
    <3>3. Said(ks, key) = [j \in 1 .. key.len |->
             IF key.at + j \in DOMAIN ks.base[b] THEN ks.base[b][key.at + j] ELSE Junk]
      BY <1>6, <2>3 DEF Said
    <3> QED
      BY <2>2, <3>1, <3>2, <3>3
  <2> QED
    BY <1>1, <2>5, <2>6 DEF key
<1>7. CASE key.in = "extra"
  <2> DEFINE b == key.block
  <2>1. b \in 1 .. ks.extraUsed /\ key.at = 0 /\ key.len <= Len(ks.extra[b])
    BY <1>1, <1>7 DEF KeyFits
  <2>2. b \in DOMAIN k.extra /\ k.extra[b] = ks.extra[b]
    BY <2>1 DEF Extends
  <2>3. b \in DOMAIN ks.extra
    BY <1>3, <1>8, <2>1
  <2>4. KeyFits(k, key)
    BY <1>3, <1>4, <1>7, <2>1, <2>2 DEF KeyFits
  <2>5. Said(k, key) = Said(ks, key)
    BY <1>7, <2>2, <2>3 DEF Said
  <2> QED
    BY <1>1, <2>4, <2>5 DEF key
<1> QED
  BY <1>3, <1>5, <1>6, <1>7

\* A keyset with more room is as good as it was.
LEMMA GoodByExtension ==
  ASSUME NEW ks, NEW k, Good(ks), k \in KeysetType, Sized(k), Accounted(k),
         Extends(ks, k), k.size = ks.size
  PROVE  Good(k)
<1>1. KeysFit(k)
  BY KeysOfExtended DEF Good, KeysFit
<1>2. InOrder(k)
  BY KeysOfExtended DEF Good, InOrder
<1> QED
  BY <1>1, <1>2 DEF Good

\* What one keyset has kept of another, and that of a third, it has of it.
LEMMA ExtendsTwice ==
  ASSUME NEW ks \in KeysetType, NEW k \in KeysetType, NEW l \in KeysetType,
         Extends(ks, k), Extends(k, l)
  PROVE  Extends(ks, l)
<1>1. /\ ks.size <= l.size /\ ks.baseUsed <= l.baseUsed /\ ks.extraUsed <= l.extraUsed
      /\ ks.baseUsed = l.baseUsed => ks.ptr.at <= l.ptr.at
  BY Counters DEF Extends
<1>2. ASSUME NEW b \in 1 .. ks.baseUsed
      PROVE  /\ b \in DOMAIN l.base /\ DOMAIN l.base[b] = DOMAIN ks.base[b]
             /\ \A j \in DOMAIN ks.base[b] :
                  (b = ks.baseUsed => j <= ks.ptr.at) => l.base[b][j] = ks.base[b][j]
  <2>1. b \in 1 .. k.baseUsed
    BY Counters DEF Extends
  <2>2. /\ b \in DOMAIN l.base /\ DOMAIN l.base[b] = DOMAIN k.base[b]
        /\ \A j \in DOMAIN k.base[b] :
             (b = k.baseUsed => j <= k.ptr.at) => l.base[b][j] = k.base[b][j]
    BY <2>1 DEF Extends
  <2>3. /\ b \in DOMAIN k.base /\ DOMAIN k.base[b] = DOMAIN ks.base[b]
        /\ \A j \in DOMAIN ks.base[b] :
             (b = ks.baseUsed => j <= ks.ptr.at) => k.base[b][j] = ks.base[b][j]
    BY DEF Extends
  <2>4. ASSUME NEW j \in DOMAIN ks.base[b], b = ks.baseUsed => j <= ks.ptr.at
        PROVE  b = k.baseUsed => j <= k.ptr.at
    <3>1. j \in Nat
      <4>1. b \in DOMAIN k.base /\ k.base[b] \in Seq(Bytes)
        BY <2>3, Arrays
      <4> QED
        BY <2>3, <4>1
    <3>2. b = k.baseUsed => ks.baseUsed = k.baseUsed
      <4>1. ks.baseUsed <= k.baseUsed
        BY DEF Extends
      <4> QED
        BY <4>1, Counters
    <3> QED
      BY <2>4, <3>1, <3>2, Counters DEF Extends
  <2> QED
    BY <2>2, <2>3, <2>4
<1>3. \A b \in 1 .. ks.extraUsed : b \in DOMAIN l.extra /\ l.extra[b] = ks.extra[b]
  BY Counters DEF Extends
<1>4. \A i \in 0 .. ks.size - 1 : KeyAt(l, i) = KeyAt(ks, i)
  BY Counters DEF Extends
<1> QED
  BY <1>1, <1>2, <1>3, <1>4 DEF Extends

\* Keys stay where they are as long as their blocks do.
LEMMA KeysStayPut ==
  ASSUME NEW ks \in KeysetType, NEW k, Accounted(ks),
         \A b \in 1 .. ks.keyBlocksUsed : k.keyBlocks[b] = ks.keyBlocks[b]
  PROVE  \A i \in 0 .. ks.size - 1 : KeyAt(k, i) = KeyAt(ks, i)
<1> SUFFICES ASSUME NEW i \in 0 .. ks.size - 1
             PROVE  KeyAt(k, i) = KeyAt(ks, i)
  OBVIOUS
<1>1. ks.size \in Nat /\ ks.keyBlocksUsed \in Nat /\ KeyBlockSize \in Nat
  BY Counters, SizesAssumption
<1>2. ks.size <= ks.keyBlocksUsed * KeyBlockSize
  BY DEF Accounted
<1>3. i \in Nat /\ i < ks.keyBlocksUsed * KeyBlockSize
  BY <1>1, <1>2
<1>4. i \div KeyBlockSize + 1 \in 1 .. ks.keyBlocksUsed
  BY <1>1, <1>3, SlotOf
<1> QED
  BY <1>4 DEF KeyAt

\* A keyset that only has more blocks is as good, and has kept everything.
LEMMA MoreRoom ==
  ASSUME NEW ks, NEW k, Good(ks), k \in KeysetType, Sized(k), Accounted(k),
         k.size = ks.size,
         ks.baseUsed <= k.baseUsed, ks.extraUsed <= k.extraUsed,
         ks.baseUsed = k.baseUsed => ks.ptr.at <= k.ptr.at,
         \A b \in 1 .. ks.keyBlocksUsed : k.keyBlocks[b] = ks.keyBlocks[b],
         \A b \in 1 .. ks.baseUsed : b \in DOMAIN k.base /\ k.base[b] = ks.base[b],
         \A b \in 1 .. ks.extraUsed : b \in DOMAIN k.extra /\ k.extra[b] = ks.extra[b]
  PROVE  Good(k) /\ Extends(ks, k)
<1>1. \A i \in 0 .. ks.size - 1 : KeyAt(k, i) = KeyAt(ks, i)
  BY KeysStayPut DEF Good
<1>2. ks.size \in Nat
  BY Counters DEF Good
<1>3. Extends(ks, k)
  BY <1>1, <1>2 DEF Extends
<1> QED
  BY <1>3, GoodByExtension

\* An array of blocks with one of them replaced.
LEMMA BlockPut ==
  ASSUME NEW S, NEW array \in Seq(S), NEW b \in 1 .. Len(array), NEW x \in S
  PROVE  /\ [array EXCEPT ![b] = x] \in Seq(S)
         /\ Len([array EXCEPT ![b] = x]) = Len(array)
         /\ [array EXCEPT ![b] = x][b] = x
         /\ \A c \in 1 .. Len(array) : c # b => [array EXCEPT ![b] = x][c] = array[c]
OBVIOUS

\* The second of two blocks put in a place is the one that is there.
LEMMA PutTwice ==
  ASSUME NEW array, NEW b \in DOMAIN array, NEW x, NEW y
  PROVE  /\ [array EXCEPT ![b] = x][b] = x
         /\ [[array EXCEPT ![b] = x] EXCEPT ![b] = y] = [array EXCEPT ![b] = y]
OBVIOUS

\* append_key_block() that fails in its middle, or does not.
LEMMA KeyBlockOK ==
  ASSUME NEW ks, Good(ks), NEW used \in {ks.keyBlocksUsed, ks.keyBlocksUsed + 1},
         NEW array \in Seq(Seq(KeyType)), used <= Len(array),
         \A b \in 1 .. ks.keyBlocksUsed : array[b] = ks.keyBlocks[b],
         used # ks.keyBlocksUsed => Len(array[used]) = KeyBlockSize
  PROVE  LET k == [ks EXCEPT !.keyBlocks = array, !.keyBlocksUsed = used]
         IN  Good(k) /\ Extends(ks, k)
<1> DEFINE k == [ks EXCEPT !.keyBlocks = array, !.keyBlocksUsed = used]
<1>1. ks \in KeysetType /\ Sized(ks) /\ Accounted(ks)
  BY DEF Good
<1>2. used \in Nat /\ ks.keyBlocksUsed \in Nat /\ ks.size \in Nat /\ KeyBlockSize \in Nat
      /\ ks.baseUsed \in Nat /\ ks.extraUsed \in Nat /\ ks.ptr.at \in Nat
  BY <1>1, Counters, SizesAssumption
<1>3. k \in KeysetType
  BY <1>1, <1>2 DEF KeysetType
<1>4. /\ k.base = ks.base /\ k.baseUsed = ks.baseUsed
      /\ k.extra = ks.extra /\ k.extraUsed = ks.extraUsed
      /\ k.keyBlocks = array /\ k.keyBlocksUsed = used
      /\ k.ptr = ks.ptr /\ k.avail = ks.avail /\ k.size = ks.size
  BY <1>1 DEF KeysetType
<1> HIDE DEF k
<1>5. Sized(k)
  BY <1>1, <1>4 DEF Sized
<1>6. k.size <= k.keyBlocksUsed * KeyBlockSize
  <2>1. ks.size <= ks.keyBlocksUsed * KeyBlockSize
    BY <1>1 DEF Accounted
  <2>2. (ks.keyBlocksUsed + 1) * KeyBlockSize = ks.keyBlocksUsed * KeyBlockSize + KeyBlockSize
    BY <1>2
  <2>3. CASE used = ks.keyBlocksUsed
    BY <1>4, <2>1, <2>3
  <2>4. CASE used = ks.keyBlocksUsed + 1
    BY <1>2, <1>4, <2>1, <2>2, <2>4
  <2> QED
    BY <2>3, <2>4
<1>7. \A b \in 1 .. k.keyBlocksUsed : Len(k.keyBlocks[b]) = KeyBlockSize
  <2>1. \A b \in 1 .. ks.keyBlocksUsed : Len(ks.keyBlocks[b]) = KeyBlockSize
    BY <1>1 DEF Accounted
  <2>2. ASSUME NEW b \in 1 .. used
        PROVE  Len(array[b]) = KeyBlockSize
    <3>1. CASE b \in 1 .. ks.keyBlocksUsed
      BY <2>1, <3>1
    <3>2. CASE b \notin 1 .. ks.keyBlocksUsed
      <4>1. b = used /\ used # ks.keyBlocksUsed
        BY <1>2, <3>2
      <4> QED
        BY <4>1
    <3> QED
      BY <3>1, <3>2
  <2> QED
    BY <1>4, <2>2
<1>8. Accounted(k)
  BY <1>1, <1>4, <1>6, <1>7 DEF Accounted
<1>9. /\ \A b \in 1 .. ks.baseUsed : b \in DOMAIN k.base /\ k.base[b] = ks.base[b]
      /\ \A b \in 1 .. ks.extraUsed : b \in DOMAIN k.extra /\ k.extra[b] = ks.extra[b]
  BY <1>1, <1>4, UsedAreThere
<1>10. /\ ks.baseUsed <= k.baseUsed /\ ks.extraUsed <= k.extraUsed
       /\ ks.ptr.at <= k.ptr.at
       /\ \A b \in 1 .. ks.keyBlocksUsed : k.keyBlocks[b] = ks.keyBlocks[b]
  BY <1>2, <1>4
<1>11. Good(k) /\ Extends(ks, k)
  BY <1>3, <1>4, <1>5, <1>8, <1>9, <1>10, MoreRoom
<1> QED
  BY <1>11 DEF k

\* append_extra_block() that fails: the array may have grown.
LEMMA ExtraGrownOK ==
  ASSUME NEW ks, Good(ks)
  PROVE  LET k == [ks EXCEPT !.extra = Grown(@, ks.extraUsed)]
         IN  Good(k) /\ Extends(ks, k)
<1> DEFINE array == Grown(ks.extra, ks.extraUsed)
           k == [ks EXCEPT !.extra = array]
<1>1. ks \in KeysetType /\ Sized(ks) /\ Accounted(ks)
  BY DEF Good
<1>2. /\ Len(ks.extra) \in Nat /\ DOMAIN ks.extra = 1 .. Len(ks.extra)
      /\ ks.extraUsed \in Nat /\ ks.extraUsed <= Len(ks.extra)
  BY <1>1, Arrays, Counters DEF Sized
<1>3. /\ array \in Seq(Seq(Bytes)) /\ DOMAIN array = 1 .. Len(array)
      /\ Len(array) \in Nat
      /\ ks.extraUsed < Len(array) /\ Len(ks.extra) <= Len(array)
      /\ \A b \in 1 .. Len(ks.extra) : array[b] = ks.extra[b]
  <2>1. ks.extra \in Seq(Seq(Bytes)) /\ NoBlock \in Seq(Bytes)
    BY <1>1, Arrays, NewBlocks
  <2>2. array \in Seq(Seq(Bytes))
    BY <1>2, <2>1, GrownFacts
  <2>3. Len(array) \in Nat /\ DOMAIN array = 1 .. Len(array)
    BY <2>2
  <2>4. /\ ks.extraUsed < Len(array) /\ Len(ks.extra) <= Len(array)
        /\ \A b \in 1 .. Len(ks.extra) : array[b] = ks.extra[b]
        /\ \A b \in Len(ks.extra) + 1 .. Len(array) : array[b] = NoBlock
    BY <1>2, <2>1, GrownFacts
  <2> QED
    BY <2>2, <2>3, <2>4
<1> HIDE DEF array
<1>4. k \in KeysetType
  BY <1>1, <1>3 DEF KeysetType
<1>5. /\ k.base = ks.base /\ k.baseUsed = ks.baseUsed
      /\ k.extra = array /\ k.extraUsed = ks.extraUsed
      /\ k.keyBlocks = ks.keyBlocks /\ k.keyBlocksUsed = ks.keyBlocksUsed
      /\ k.ptr = ks.ptr /\ k.avail = ks.avail /\ k.size = ks.size
  BY <1>1 DEF KeysetType
<1>6. \A b \in 1 .. ks.extraUsed : b \in DOMAIN array /\ array[b] = ks.extra[b]
  <2>1. /\ DOMAIN array = 1 .. Len(array) /\ Len(array) \in Nat
        /\ ks.extraUsed < Len(array)
        /\ \A b \in 1 .. Len(ks.extra) : array[b] = ks.extra[b]
    BY <1>3
  <2> QED
    BY <1>2, <2>1
<1>7. ks.baseUsed <= ks.baseUsed /\ ks.extraUsed <= ks.extraUsed /\ ks.ptr.at <= ks.ptr.at
      /\ ks.extraUsed <= Len(array)
  <2>1. Len(array) \in Nat
    BY <1>3
  <2> QED
    BY <1>1, <1>3, <2>1, Counters
<1> HIDE DEF k
<1>8. Sized(k)
  BY <1>1, <1>5, <1>7 DEF Sized
<1>9. Accounted(k)
  BY <1>1, <1>5, <1>6 DEF Accounted
<1>10. \A b \in 1 .. ks.baseUsed : b \in DOMAIN k.base /\ k.base[b] = ks.base[b]
  BY <1>1, <1>5, UsedAreThere
<1>11. Good(k) /\ Extends(ks, k)
  BY <1>4, <1>5, <1>6, <1>7, <1>8, <1>9, <1>10, MoreRoom
<1> QED
  BY <1>11 DEF k, array

\* append_base_block() that fails.
LEMMA BaseGrownOK ==
  ASSUME NEW ks, Good(ks)
  PROVE  LET k == [ks EXCEPT !.base = Grown(@, ks.baseUsed)]
         IN  Good(k) /\ Extends(ks, k)
<1> DEFINE array == Grown(ks.base, ks.baseUsed)
           k == [ks EXCEPT !.base = array]
<1>1. ks \in KeysetType /\ Sized(ks) /\ Accounted(ks)
  BY DEF Good
<1>2. /\ Len(ks.base) \in Nat /\ DOMAIN ks.base = 1 .. Len(ks.base)
      /\ ks.baseUsed \in Nat /\ ks.baseUsed <= Len(ks.base)
  BY <1>1, Arrays, Counters DEF Sized
<1>3. /\ array \in Seq(Seq(Bytes)) /\ DOMAIN array = 1 .. Len(array)
      /\ Len(array) \in Nat
      /\ ks.baseUsed < Len(array) /\ Len(ks.base) <= Len(array)
      /\ \A b \in 1 .. Len(ks.base) : array[b] = ks.base[b]
      /\ \A b \in Len(ks.base) + 1 .. Len(array) : array[b] = NoBlock
  <2>1. ks.base \in Seq(Seq(Bytes)) /\ NoBlock \in Seq(Bytes)
    BY <1>1, Arrays, NewBlocks
  <2>2. array \in Seq(Seq(Bytes))
    BY <1>2, <2>1, GrownFacts
  <2>3. Len(array) \in Nat /\ DOMAIN array = 1 .. Len(array)
    BY <2>2
  <2>4. /\ ks.baseUsed < Len(array) /\ Len(ks.base) <= Len(array)
        /\ \A b \in 1 .. Len(ks.base) : array[b] = ks.base[b]
        /\ \A b \in Len(ks.base) + 1 .. Len(array) : array[b] = NoBlock
    BY <1>2, <2>1, GrownFacts
  <2> QED
    BY <2>2, <2>3, <2>4
<1> HIDE DEF array
<1>4. k \in KeysetType
  BY <1>1, <1>3 DEF KeysetType
<1>5. /\ k.base = array /\ k.baseUsed = ks.baseUsed
      /\ k.extra = ks.extra /\ k.extraUsed = ks.extraUsed
      /\ k.keyBlocks = ks.keyBlocks /\ k.keyBlocksUsed = ks.keyBlocksUsed
      /\ k.ptr = ks.ptr /\ k.avail = ks.avail /\ k.size = ks.size
  BY <1>1 DEF KeysetType
<1>6. \A b \in 1 .. ks.baseUsed : b \in DOMAIN array /\ array[b] = ks.base[b]
  <2>1. /\ DOMAIN array = 1 .. Len(array) /\ Len(array) \in Nat
        /\ ks.baseUsed < Len(array)
        /\ \A b \in 1 .. Len(ks.base) : array[b] = ks.base[b]
    BY <1>3
  <2> QED
    BY <1>2, <2>1
<1>7. ks.baseUsed <= ks.baseUsed /\ ks.extraUsed <= ks.extraUsed /\ ks.ptr.at <= ks.ptr.at
      /\ ks.baseUsed <= Len(array)
  <2>1. Len(array) \in Nat
    BY <1>3
  <2> QED
    BY <1>1, <1>3, <2>1, Counters
<1> HIDE DEF k
<1>8. \A b \in DOMAIN array : array[b] = NoBlock \/ Len(array[b]) = BaseSize
  <2>1. /\ DOMAIN array = 1 .. Len(array) /\ Len(array) \in Nat
        /\ \A b \in 1 .. Len(ks.base) : array[b] = ks.base[b]
        /\ \A b \in Len(ks.base) + 1 .. Len(array) : array[b] = NoBlock
    BY <1>3
  <2>2. \A b \in DOMAIN ks.base : ks.base[b] = NoBlock \/ Len(ks.base[b]) = BaseSize
    BY <1>1 DEF Sized
  <2> QED
    BY <1>2, <2>1, <2>2
<1>9. Sized(k)
  BY <1>1, <1>5, <1>7, <1>8 DEF Sized
<1>10. Accounted(k)
  BY <1>1, <1>5, <1>6 DEF Accounted
<1>11. \A b \in 1 .. ks.extraUsed : b \in DOMAIN k.extra /\ k.extra[b] = ks.extra[b]
  BY <1>1, <1>5, UsedAreThere
<1>12. Good(k) /\ Extends(ks, k)
  BY <1>4, <1>5, <1>6, <1>7, <1>9, <1>10, <1>11, MoreRoom
<1> QED
  BY <1>12 DEF k, array

\* The array of key blocks, grown.
LEMMA KeyBlocksGrown ==
  ASSUME NEW ks, Good(ks)
  PROVE  LET array == Grown(ks.keyBlocks, ks.keyBlocksUsed)
         IN  /\ array \in Seq(Seq(KeyType)) /\ Len(array) \in Nat
             /\ ks.keyBlocksUsed \in Nat /\ ks.keyBlocksUsed < Len(array)
             /\ \A b \in 1 .. ks.keyBlocksUsed : array[b] = ks.keyBlocks[b]
<1> DEFINE array == Grown(ks.keyBlocks, ks.keyBlocksUsed)
<1>1. ks \in KeysetType /\ Sized(ks)
  BY DEF Good
<1>2. /\ Len(ks.keyBlocks) \in Nat /\ ks.keyBlocksUsed \in Nat
      /\ ks.keyBlocksUsed <= Len(ks.keyBlocks)
  BY <1>1, Arrays, Counters DEF Sized
<1>3. ks.keyBlocks \in Seq(Seq(KeyType)) /\ NoBlock \in Seq(KeyType)
  BY <1>1, Arrays, NewBlocks
<1>4. array \in Seq(Seq(KeyType))
  BY <1>2, <1>3, GrownFacts
<1>5. Len(array) \in Nat
  BY <1>4
<1>6. /\ ks.keyBlocksUsed < Len(array)
      /\ \A b \in 1 .. Len(ks.keyBlocks) : array[b] = ks.keyBlocks[b]
  BY <1>2, <1>3, GrownFacts
<1>7. \A b \in 1 .. ks.keyBlocksUsed : array[b] = ks.keyBlocks[b]
  BY <1>2, <1>6
<1> QED
  BY <1>2, <1>4, <1>5, <1>6, <1>7

\* append_key_block(), if it is called: then there is a slot for a key.
LEMMA KeySlotOK ==
  ASSUME NEW ks, Good(ks)
  PROVE  LET k == WithKeySlot(ks)
         IN  /\ Good(k) /\ Extends(ks, k) /\ HasSlot(k)
             /\ k.size = ks.size /\ k.base = ks.base /\ k.baseUsed = ks.baseUsed
             /\ k.extra = ks.extra /\ k.extraUsed = ks.extraUsed /\ k.avail = ks.avail
             /\ k.ptr = ks.ptr
<1>1. ks \in KeysetType /\ Accounted(ks)
  BY DEF Good
<1>2. KeyBlockSize \in Nat \ {0} /\ ks.size \in Nat /\ ks.keyBlocksUsed \in Nat
      /\ ks.baseUsed \in Nat /\ ks.extraUsed \in Nat /\ ks.ptr.at \in Nat
  BY <1>1, SizesAssumption, Counters
<1>3. CASE NeedsKeyBlock(ks)
  <2> DEFINE grown == Grown(ks.keyBlocks, ks.keyBlocksUsed)
             new == [i \in 1 .. KeyBlockSize |-> NoKey]
             used == ks.keyBlocksUsed + 1
             array == [grown EXCEPT ![used] = new]
             k == [ks EXCEPT !.keyBlocks = array, !.keyBlocksUsed = used]
  <2>1. WithKeySlot(ks) = k
    BY <1>3 DEF WithKeySlot, WithKeyBlock
  <2>2. /\ grown \in Seq(Seq(KeyType)) /\ Len(grown) \in Nat
        /\ ks.keyBlocksUsed < Len(grown)
        /\ \A b \in 1 .. ks.keyBlocksUsed : grown[b] = ks.keyBlocks[b]
    BY KeyBlocksGrown
  <2>3. new \in Seq(KeyType) /\ Len(new) = KeyBlockSize
    BY NewBlocks
  <2> HIDE DEF grown, new
  <2>4. used \in 1 .. Len(grown)
    BY <1>2, <2>2
  <2>5. /\ array \in Seq(Seq(KeyType)) /\ Len(array) = Len(grown) /\ array[used] = new
        /\ \A b \in 1 .. Len(grown) : b # used => array[b] = grown[b]
    BY <2>2, <2>3, <2>4, BlockPut
  <2>6. \A b \in 1 .. ks.keyBlocksUsed : array[b] = ks.keyBlocks[b]
    BY <1>2, <2>2, <2>4, <2>5
  <2>7. used <= Len(array)
    BY <2>4, <2>5
  <2> HIDE DEF array
  <2>8. Good(k) /\ Extends(ks, k)
    BY <2>3, <2>5, <2>6, <2>7, KeyBlockOK
  <2>9. HasSlot(k)
    <3>1. k.size = ks.size /\ k.keyBlocksUsed = used
      BY <1>1 DEF KeysetType
    <3>2. ks.size < (ks.keyBlocksUsed + 1) * KeyBlockSize
      BY <1>2, <1>3 DEF NeedsKeyBlock
    <3> QED
      BY <3>1, <3>2 DEF HasSlot
  <2>10. /\ k.size = ks.size /\ k.base = ks.base /\ k.baseUsed = ks.baseUsed
         /\ k.extra = ks.extra /\ k.extraUsed = ks.extraUsed /\ k.avail = ks.avail
         /\ k.ptr = ks.ptr
    BY <1>1 DEF KeysetType
  <2> QED
    BY <2>1, <2>8, <2>9, <2>10
<1>4. CASE ~NeedsKeyBlock(ks)
  <2>1. WithKeySlot(ks) = ks
    BY <1>4 DEF WithKeySlot
  <2>2. ks.size <= ks.keyBlocksUsed * KeyBlockSize
    BY <1>1 DEF Accounted
  <2>3. ks.size \div KeyBlockSize < ks.keyBlocksUsed
    <3>1. ks.size \div KeyBlockSize <= ks.keyBlocksUsed
      BY <1>2, <2>2
    <3>2. ks.size \div KeyBlockSize # ks.keyBlocksUsed /\ ks.size \div KeyBlockSize \in Int
      BY <1>2, <1>4 DEF NeedsKeyBlock
    <3> QED
      BY <1>2, <3>1, <3>2
  <2>4. HasSlot(ks)
    <3>1. ks.size + 1 <= ks.keyBlocksUsed * KeyBlockSize
      BY <1>2, <2>3
    <3>2. ks.keyBlocksUsed * KeyBlockSize \in Nat
      BY <1>2
    <3> QED
      BY <1>2, <3>1, <3>2 DEF HasSlot
  <2>5. Extends(ks, ks)
    BY <1>1, <1>2, UsedAreThere DEF Extends, Good
  <2> QED
    BY <2>1, <2>4, <2>5
<1> QED
  BY <1>3, <1>4

\* append_base_block(): an empty block is in use, new or used before.
LEMMA BaseBlockOK ==
  ASSUME NEW ks, Good(ks)
  PROVE  LET k == WithBaseBlock(ks)
         IN  /\ Good(k) /\ Extends(ks, k)
             /\ HasSlot(ks) => HasSlot(k)
             /\ k.size = ks.size /\ k.avail = BaseSize
             /\ k.extra = ks.extra /\ k.extraUsed = ks.extraUsed
<1> DEFINE grown == Grown(ks.base, ks.baseUsed)
           block == ks.baseUsed + 1
           array == IF grown[block] = NoBlock
                    THEN [grown EXCEPT ![block] = Fresh(BaseSize)] ELSE grown
           k == [ks EXCEPT !.base = array, !.baseUsed = block,
                   !.ptr = [block |-> block, at |-> 0], !.avail = BaseSize]
<1>1. ks \in KeysetType /\ Sized(ks) /\ Accounted(ks)
  BY DEF Good
<1>2. /\ ks.baseUsed \in Nat /\ BaseSize \in Nat \ {0} /\ ks.extraUsed \in Nat
  BY <1>1, Counters, SizesAssumption
<1>3. /\ grown \in Seq(Seq(Bytes)) /\ Len(grown) \in Nat
      /\ ks.baseUsed < Len(grown)
      /\ \A b \in 1 .. ks.baseUsed : grown[b] = ks.base[b]
      /\ \A b \in 1 .. Len(grown) : grown[b] = NoBlock \/ Len(grown[b]) = BaseSize
  <2> DEFINE g == [ks EXCEPT !.base = grown]
  <2>1. Good(g) /\ Extends(ks, g)
    BY BaseGrownOK
  <2>2. g.base = grown /\ g.baseUsed = ks.baseUsed /\ g \in KeysetType /\ Sized(g)
    BY <1>1, <2>1 DEF Good, KeysetType
  <2>3. ks.base \in Seq(Seq(Bytes)) /\ NoBlock \in Seq(Bytes) /\ ks.baseUsed <= Len(ks.base)
    BY <1>1, Arrays, NewBlocks DEF Sized
  <2>4. /\ ks.baseUsed < Len(grown)
        /\ \A b \in 1 .. Len(ks.base) : grown[b] = ks.base[b]
    BY <1>2, <2>3, GrownFacts
  <2>5. Len(ks.base) \in Nat
    BY <1>1, Arrays
  <2>6. \A b \in 1 .. ks.baseUsed : grown[b] = ks.base[b]
    BY <1>2, <2>3, <2>4, <2>5
  <2>7. grown \in Seq(Seq(Bytes)) /\ Len(grown) \in Nat /\ DOMAIN grown = 1 .. Len(grown)
    <3> HIDE DEF g, grown
    <3> QED
      BY <2>2, Arrays
  <2>8. \A b \in DOMAIN grown : grown[b] = NoBlock \/ Len(grown[b]) = BaseSize
    <3> HIDE DEF g, grown
    <3> QED
      BY <2>2 DEF Sized
  <2> QED
    BY <2>4, <2>6, <2>7, <2>8
<1> HIDE DEF grown
<1>4. block \in 1 .. Len(grown)
  BY <1>2, <1>3
<1>5. Fresh(BaseSize) \in Seq(Bytes) /\ Len(Fresh(BaseSize)) = BaseSize
  BY <1>2, NewBlocks
<1>6. /\ array \in Seq(Seq(Bytes)) /\ Len(array) = Len(grown)
      /\ Len(array[block]) = BaseSize
      /\ \A b \in 1 .. Len(grown) : b # block => array[b] = grown[b]
  <2>1. CASE grown[block] = NoBlock
    <3>1. /\ [grown EXCEPT ![block] = Fresh(BaseSize)] \in Seq(Seq(Bytes))
          /\ Len([grown EXCEPT ![block] = Fresh(BaseSize)]) = Len(grown)
          /\ [grown EXCEPT ![block] = Fresh(BaseSize)][block] = Fresh(BaseSize)
          /\ \A b \in 1 .. Len(grown) : b # block =>
                [grown EXCEPT ![block] = Fresh(BaseSize)][b] = grown[b]
      <4> HIDE DEF block
      <4> QED
        BY <1>3, <1>4, <1>5, BlockPut
    <3> QED
      BY <1>5, <2>1, <3>1
  <2>2. CASE grown[block] # NoBlock
    BY <1>3, <1>4, <2>2
  <2> QED
    BY <2>1, <2>2
<1>7. DOMAIN array = 1 .. Len(grown)
  <2> HIDE DEF array
  <2> QED
    BY <1>6
<1>8. k = WithBaseBlock(ks)
  BY DEF WithBaseBlock, grown
<1> HIDE DEF array
<1>9. k \in KeysetType
  <2> DEFINE ptr == [block |-> block, at |-> 0]
  <2>1. ptr \in [block : Nat, at : Nat] /\ block \in Nat /\ BaseSize \in Nat
    BY <1>2
  <2> HIDE DEF ptr, block
  <2> QED
    BY <1>1, <1>6, <2>1 DEF KeysetType
<1>10. /\ k.base = array /\ k.baseUsed = block
       /\ k.extra = ks.extra /\ k.extraUsed = ks.extraUsed
       /\ k.keyBlocks = ks.keyBlocks /\ k.keyBlocksUsed = ks.keyBlocksUsed
       /\ k.ptr = [block |-> block, at |-> 0] /\ k.avail = BaseSize /\ k.size = ks.size
  BY <1>1 DEF KeysetType
<1> HIDE DEF k
<1>11. Sized(k)
  <2>1. \A b \in DOMAIN array : array[b] = NoBlock \/ Len(array[b]) = BaseSize
    BY <1>3, <1>6, <1>7
  <2>2. block <= Len(array)
    BY <1>4, <1>6
  <2> QED
    BY <1>1, <1>10, <2>1, <2>2 DEF Sized
<1>12. \A b \in 1 .. block : Len(array[b]) = BaseSize
  <2>1. \A b \in 1 .. ks.baseUsed : Len(ks.base[b]) = BaseSize
    BY <1>1 DEF Accounted
  <2>2. ASSUME NEW b \in 1 .. ks.baseUsed
        PROVE  Len(array[b]) = BaseSize
    <3>1. b \in 1 .. Len(grown) /\ b # block
      BY <1>2, <1>3
    <3>2. array[b] = ks.base[b]
      BY <1>3, <1>6, <3>1
    <3> QED
      BY <2>1, <3>2
  <2> QED
    BY <1>2, <1>6, <2>2
<1>13. Accounted(k)
  <2>1. k.ptr.block = k.baseUsed /\ k.ptr.at + k.avail = BaseSize /\ k.baseUsed # 0
    BY <1>2, <1>10
  <2>2. \A b \in 1 .. k.baseUsed : Len(k.base[b]) = BaseSize
    BY <1>10, <1>12
  <2>3. /\ k.size <= k.keyBlocksUsed * KeyBlockSize
        /\ \A b \in 1 .. k.keyBlocksUsed : Len(k.keyBlocks[b]) = KeyBlockSize
        /\ \A b \in 1 .. k.extraUsed : Len(k.extra[b]) > ExtraSize
    BY <1>1, <1>10 DEF Accounted
  <2> QED
    BY <2>1, <2>2, <2>3 DEF Accounted
<1>14. \A b \in 1 .. ks.baseUsed : b \in DOMAIN k.base /\ k.base[b] = ks.base[b]
  <2>1. \A b \in 1 .. ks.baseUsed : b \in 1 .. Len(grown) /\ b # block
    BY <1>2, <1>3
  <2> QED
    BY <1>3, <1>6, <1>7, <1>10, <2>1
<1>15. \A b \in 1 .. ks.extraUsed : b \in DOMAIN k.extra /\ k.extra[b] = ks.extra[b]
  BY <1>1, <1>10, UsedAreThere
<1>16. ks.baseUsed <= k.baseUsed /\ ks.extraUsed <= k.extraUsed /\ ks.baseUsed # k.baseUsed
  BY <1>2, <1>10
<1>17. Good(k) /\ Extends(ks, k)
  BY <1>9, <1>10, <1>11, <1>13, <1>14, <1>15, <1>16, MoreRoom
<1>18. HasSlot(ks) => HasSlot(k)
  BY <1>10 DEF HasSlot
<1> QED
  BY <1>8, <1>10, <1>17, <1>18
-----------------------------------------------------------------------------
(* A key is pushed.                                                        *)

\* Storing a key in the next slot changes no other key.
LEMMA SlotPut ==
  ASSUME NEW ks, Good(ks), HasSlot(ks), NEW key \in KeyType
  PROVE  LET inBlock == ks.size \div KeyBlockSize + 1
             inSlot == (ks.size % KeyBlockSize) + 1
             keyBlocks == [ks.keyBlocks EXCEPT ![inBlock][inSlot] = key]
         IN  /\ keyBlocks \in Seq(Seq(KeyType)) /\ Len(keyBlocks) = Len(ks.keyBlocks)
             /\ \A b \in 1 .. ks.keyBlocksUsed : Len(keyBlocks[b]) = KeyBlockSize
             /\ keyBlocks[inBlock][inSlot] = key
             /\ \A i \in 0 .. ks.size - 1 :
                  keyBlocks[i \div KeyBlockSize + 1][(i % KeyBlockSize) + 1] = KeyAt(ks, i)
<1> DEFINE inBlock == ks.size \div KeyBlockSize + 1
           inSlot == (ks.size % KeyBlockSize) + 1
           block == ks.keyBlocks[inBlock]
           new == [block EXCEPT ![inSlot] = key]
           keyBlocks == [ks.keyBlocks EXCEPT ![inBlock] = new]
<1>1. ks \in KeysetType /\ Sized(ks) /\ Accounted(ks)
  BY DEF Good
<1>2. ks.size \in Nat /\ ks.keyBlocksUsed \in Nat /\ KeyBlockSize \in Nat \ {0}
  BY <1>1, Counters, SizesAssumption
<1>3. inBlock \in 1 .. ks.keyBlocksUsed /\ inSlot \in 1 .. KeyBlockSize
  BY <1>2, SlotOf DEF HasSlot
<1>4. /\ Len(ks.keyBlocks) \in Nat /\ ks.keyBlocksUsed <= Len(ks.keyBlocks)
      /\ DOMAIN ks.keyBlocks = 1 .. Len(ks.keyBlocks)
  BY <1>1, Arrays DEF Sized
<1>5. inBlock \in 1 .. Len(ks.keyBlocks)
  BY <1>2, <1>3, <1>4
<1>6. block \in Seq(KeyType) /\ Len(block) = KeyBlockSize
  BY <1>1, <1>3, <1>4, <1>5, Arrays DEF Accounted
<1> HIDE DEF inBlock, inSlot
<1>7. /\ new \in Seq(KeyType) /\ Len(new) = KeyBlockSize /\ new[inSlot] = key
      /\ \A c \in 1 .. KeyBlockSize : c # inSlot => new[c] = block[c]
  <2> HIDE DEF block
  <2> QED
    BY <1>3, <1>6, BlockPut
<1> HIDE DEF new
<1>8. /\ keyBlocks \in Seq(Seq(KeyType)) /\ Len(keyBlocks) = Len(ks.keyBlocks)
      /\ keyBlocks[inBlock] = new
      /\ \A c \in 1 .. Len(ks.keyBlocks) : c # inBlock => keyBlocks[c] = ks.keyBlocks[c]
  <2>1. ks.keyBlocks \in Seq(Seq(KeyType))
    BY <1>1, Arrays
  <2> QED
    BY <1>5, <1>7, <2>1, BlockPut
<1>9. [ks.keyBlocks EXCEPT ![inBlock][inSlot] = key] = keyBlocks
  BY <1>4, <1>5 DEF new
<1> HIDE DEF keyBlocks
<1>10. \A b \in 1 .. ks.keyBlocksUsed : Len(keyBlocks[b]) = KeyBlockSize
  <2>1. \A b \in 1 .. ks.keyBlocksUsed : Len(ks.keyBlocks[b]) = KeyBlockSize
    BY <1>1 DEF Accounted
  <2>2. \A b \in 1 .. ks.keyBlocksUsed : b \in 1 .. Len(ks.keyBlocks)
    BY <1>2, <1>4
  <2> QED
    BY <1>7, <1>8, <2>1, <2>2
<1>11. ASSUME NEW i \in 0 .. ks.size - 1
       PROVE  keyBlocks[i \div KeyBlockSize + 1][(i % KeyBlockSize) + 1] = KeyAt(ks, i)
  <2> DEFINE b == i \div KeyBlockSize + 1
             c == (i % KeyBlockSize) + 1
  <2>1. i \in Nat /\ i < ks.size
    BY <1>2
  <2>2. i < ks.keyBlocksUsed * KeyBlockSize
    <3>1. ks.keyBlocksUsed * KeyBlockSize \in Nat
      BY <1>2
    <3> QED
      BY <1>2, <2>1, <3>1 DEF HasSlot
  <2>3. b \in 1 .. ks.keyBlocksUsed /\ c \in 1 .. KeyBlockSize
    BY <1>2, <2>1, <2>2, SlotOf
  <2>4. ~(i \div KeyBlockSize = ks.size \div KeyBlockSize /\ i % KeyBlockSize = ks.size % KeyBlockSize)
    BY <1>2, <2>1, <2>2, SlotOf
  <2>5. ~(b = inBlock /\ c = inSlot)
    <3>1. /\ i \div KeyBlockSize \in Int /\ ks.size \div KeyBlockSize \in Int
          /\ i % KeyBlockSize \in Int /\ ks.size % KeyBlockSize \in Int
      BY <1>2, <2>1
    <3> QED
      BY <2>4, <3>1 DEF inBlock, inSlot
  <2>6. KeyAt(ks, i) = ks.keyBlocks[b][c]
    BY DEF KeyAt
  <2> HIDE DEF b, c
  <2>7. b \in 1 .. Len(ks.keyBlocks)
    BY <1>2, <1>4, <2>3
  <2>8. CASE b = inBlock
    BY <1>7, <1>8, <2>3, <2>5, <2>6, <2>8 DEF block, b, c
  <2>9. CASE b # inBlock
    BY <1>8, <2>6, <2>7, <2>9 DEF b, c
  <2> QED
    BY <2>8, <2>9
<1> QED
  BY <1>7, <1>8, <1>9, <1>10, <1>11 DEF inBlock, inSlot

\* What a push_back() has done.
Pushes(ks, p, text, word) ==
  /\ Good(p) /\ Extends(ks, p) /\ p.size = ks.size + 1
  /\ KeyAt(p, ks.size).word = word
  /\ Said(p, KeyAt(p, ks.size)) = text

\* A key stored behind the others of its block, with its bytes where it points.
LEMMA NewKey ==
  ASSUME NEW ks, Good(ks), HasSlot(ks), NEW key \in KeyType, NEW p \in KeysetType,
         p.size = ks.size + 1, p.keyBlocksUsed = ks.keyBlocksUsed,
         p.keyBlocks = [ks.keyBlocks EXCEPT
           ![ks.size \div KeyBlockSize + 1][(ks.size % KeyBlockSize) + 1] = key],
         p.baseUsed = ks.baseUsed, ks.ptr.at <= p.ptr.at, p.ptr.block = ks.ptr.block,
         p.ptr.at + p.avail = ks.ptr.at + ks.avail,
         Len(p.base) = Len(ks.base),
         \A b \in DOMAIN ks.base : Len(p.base[b]) = Len(ks.base[b]),
         \A b \in 1 .. ks.baseUsed : \A j \in DOMAIN ks.base[b] :
           (b = ks.baseUsed => j <= ks.ptr.at) => p.base[b][j] = ks.base[b][j],
         ks.extraUsed <= p.extraUsed, p.extraUsed <= Len(p.extra),
         \A b \in 1 .. ks.extraUsed : p.extra[b] = ks.extra[b],
         \A b \in 1 .. p.extraUsed : Len(p.extra[b]) > ExtraSize,
         KeyFits(p, key), Said(p, key) \in Seq(Nat),
         key.in = "base" => key.block = ks.baseUsed /\ key.at = ks.ptr.at,
         key.in = "extra" => key.block > ks.extraUsed
  PROVE  Pushes(ks, p, Said(p, key), key.word)
<1>1. ks \in KeysetType /\ Sized(ks) /\ Accounted(ks)
  BY DEF Good
<1>2. /\ ks.size \in Nat /\ ks.keyBlocksUsed \in Nat /\ KeyBlockSize \in Nat \ {0}
      /\ ks.baseUsed \in Nat /\ ks.extraUsed \in Nat /\ p.extraUsed \in Nat
      /\ ks.ptr.at \in Nat /\ p.ptr.at \in Nat
  BY <1>1, Counters, SizesAssumption
<1>3. /\ Len(p.keyBlocks) = Len(ks.keyBlocks)
      /\ \A b \in 1 .. ks.keyBlocksUsed : Len(p.keyBlocks[b]) = KeyBlockSize
      /\ KeyAt(p, ks.size) = key
      /\ \A i \in 0 .. ks.size - 1 : KeyAt(p, i) = KeyAt(ks, i)
  <2> DEFINE keyBlocks == [ks.keyBlocks EXCEPT
               ![ks.size \div KeyBlockSize + 1][(ks.size % KeyBlockSize) + 1] = key]
  <2>1. /\ Len(keyBlocks) = Len(ks.keyBlocks)
        /\ \A b \in 1 .. ks.keyBlocksUsed : Len(keyBlocks[b]) = KeyBlockSize
        /\ keyBlocks[ks.size \div KeyBlockSize + 1][(ks.size % KeyBlockSize) + 1] = key
        /\ \A i \in 0 .. ks.size - 1 :
             keyBlocks[i \div KeyBlockSize + 1][(i % KeyBlockSize) + 1] = KeyAt(ks, i)
    BY SlotPut
  <2>2. p.keyBlocks = keyBlocks
    OBVIOUS
  <2> HIDE DEF keyBlocks
  <2>3. KeyAt(p, ks.size) = key
    BY <2>1, <2>2 DEF KeyAt
  <2>4. ASSUME NEW i \in 0 .. ks.size - 1
        PROVE  KeyAt(p, i) = KeyAt(ks, i)
    <3>1. KeyAt(p, i) = keyBlocks[i \div KeyBlockSize + 1][(i % KeyBlockSize) + 1]
      BY <2>2 DEF KeyAt
    <3> QED
      BY <2>1, <3>1
  <2> QED
    BY <2>1, <2>2, <2>3, <2>4
<1>4. Sized(p)
  <2>1. p.baseUsed <= Len(p.base) /\ p.keyBlocksUsed <= Len(p.keyBlocks)
    BY <1>1, <1>3 DEF Sized
  <2>2. ASSUME NEW b \in DOMAIN p.base
        PROVE  p.base[b] = NoBlock \/ Len(p.base[b]) = BaseSize
    <3>1. b \in DOMAIN ks.base /\ Len(p.base[b]) = Len(ks.base[b])
      BY <1>1, Arrays
    <3>2. CASE ks.base[b] = NoBlock
      <4>1. Len(p.base[b]) = 0
        BY <3>1, <3>2 DEF NoBlock
      <4>2. p.base[b] \in Seq(Bytes)
        BY Arrays
      <4> QED
        BY <4>1, <4>2 DEF NoBlock
    <3>3. CASE Len(ks.base[b]) = BaseSize
      BY <3>1, <3>3
    <3> QED
      BY <1>1, <3>1, <3>2, <3>3 DEF Sized
  <2> QED
    BY <2>1, <2>2 DEF Sized
<1>5. \A b \in 1 .. ks.baseUsed :
        /\ b \in DOMAIN p.base /\ b \in DOMAIN ks.base
        /\ Len(p.base[b]) = Len(ks.base[b]) /\ DOMAIN p.base[b] = DOMAIN ks.base[b]
  <2>1. \A b \in 1 .. ks.baseUsed : b \in DOMAIN ks.base
    BY <1>1, UsedAreThere
  <2>2. DOMAIN p.base = DOMAIN ks.base
    BY <1>1, Arrays
  <2>3. \A b \in DOMAIN ks.base : DOMAIN p.base[b] = DOMAIN ks.base[b]
    BY <1>1, <2>2, Arrays
  <2> QED
    BY <2>1, <2>2, <2>3
<1>6. Accounted(p)
  <2>1. p.size <= p.keyBlocksUsed * KeyBlockSize
    <3>1. ks.keyBlocksUsed * KeyBlockSize \in Nat
      BY <1>2
    <3> QED
      BY <1>2, <3>1 DEF HasSlot
  <2>2. \A b \in 1 .. p.baseUsed : Len(p.base[b]) = BaseSize
    BY <1>1, <1>5 DEF Accounted
  <2>3. p.ptr.block = p.baseUsed /\ p.ptr.at + p.avail = IF p.baseUsed = 0 THEN 0 ELSE BaseSize
    BY <1>1 DEF Accounted
  <2> QED
    BY <1>3, <2>1, <2>2, <2>3 DEF Accounted
<1>7. Extends(ks, p)
  <2>1. /\ ks.size <= p.size /\ ks.baseUsed <= p.baseUsed /\ ks.extraUsed <= p.extraUsed
    BY <1>2
  <2>2. \A b \in 1 .. ks.extraUsed : b \in DOMAIN p.extra
    <3>1. DOMAIN p.extra = 1 .. Len(p.extra) /\ Len(p.extra) \in Nat
      BY Arrays
    <3> QED
      BY <1>2, <3>1
  <2> QED
    BY <1>3, <1>5, <2>1, <2>2 DEF Extends
<1>8. \A i \in 0 .. ks.size - 1 :
        /\ KeyAt(ks, i) \in KeyType
        /\ KeyAt(p, i) = KeyAt(ks, i) /\ KeyFits(p, KeyAt(p, i))
        /\ Said(p, KeyAt(p, i)) \in Seq(Nat)
  BY <1>6, <1>7, KeysOfExtended DEF Good, KeysFit
<1>9. \A i \in 0 .. p.size - 1 : i \in 0 .. ks.size - 1 \/ i = ks.size
  BY <1>2
<1>10. KeysFit(p)
  BY <1>3, <1>8, <1>9 DEF KeysFit
<1>11. ASSUME NEW i \in 0 .. ks.size - 1, KeyAt(ks, i).in = key.in,
              KeyAt(ks, i).block = key.block
       PROVE  KeyAt(ks, i).at + KeyAt(ks, i).len <= key.at
  <2> DEFINE k == KeyAt(ks, i)
  <2>1. k \in KeyType /\ KeyFits(ks, k)
    BY DEF Good, KeysFit
  <2>2. k.at \in Nat /\ k.len \in Nat /\ key.at \in Nat /\ key.block \in Nat
        /\ key.in \in {"none", "base", "extra"}
    BY <2>1, KeyFields
  <2> HIDE DEF k
  <2>3. k.in = key.in /\ k.block = key.block
    BY <1>11 DEF k
  <2>4. CASE key.in = "none"
    <3>1. k.at = 0 /\ k.len = 0
      BY <2>1, <2>3, <2>4 DEF KeyFits
    <3> QED
      BY <2>2, <3>1 DEF k
  <2>5. CASE key.in = "base"
    <3>1. k.block = ks.baseUsed /\ key.at = ks.ptr.at
      BY <2>3, <2>5
    <3>2. k.at + k.len <= ks.ptr.at
      BY <2>1, <2>3, <2>5, <3>1 DEF KeyFits
    <3> QED
      BY <3>1, <3>2 DEF k
  <2>6. CASE key.in = "extra"
    <3>1. k.block \in 1 .. ks.extraUsed
      BY <2>1, <2>3, <2>6 DEF KeyFits
    <3> QED
      BY <1>2, <2>2, <2>3, <2>6, <3>1
  <2> QED
    BY <2>2, <2>4, <2>5, <2>6 DEF k
<1>12. InOrder(p)
  <2>1. SUFFICES ASSUME NEW i \in 0 .. p.size - 1, NEW j \in 0 .. p.size - 1, i < j,
                        KeyAt(p, i).in = KeyAt(p, j).in,
                        KeyAt(p, i).block = KeyAt(p, j).block
                 PROVE  KeyAt(p, i).at + KeyAt(p, i).len <= KeyAt(p, j).at
    BY DEF InOrder
  <2>2. i \in 0 .. ks.size - 1
    BY <1>2, <2>1
  <2>3. CASE j = ks.size
    BY <1>3, <1>11, <2>1, <2>2, <2>3
  <2>4. CASE j \in 0 .. ks.size - 1
    BY <1>3, <2>1, <2>2, <2>4 DEF Good, InOrder
  <2> QED
    BY <1>9, <2>3, <2>4
<1> QED
  BY <1>3, <1>4, <1>6, <1>7, <1>10, <1>12 DEF Pushes, Good

\* Writing bytes into a block leaves what is before them.
LEMMA OverFacts ==
  ASSUME NEW block \in Seq(Bytes), NEW bytes \in Seq(Nat), NEW at \in Nat,
         at + Len(bytes) <= Len(block)
  PROVE  /\ Over(block, at, bytes) \in Seq(Bytes)
         /\ Len(Over(block, at, bytes)) = Len(block)
         /\ \A j \in DOMAIN block : j <= at => Over(block, at, bytes)[j] = block[j]
         /\ \A j \in 1 .. Len(bytes) : Over(block, at, bytes)[at + j] = bytes[j]
<1>1. Len(block) \in Nat /\ DOMAIN block = 1 .. Len(block)
      /\ Len(bytes) \in Nat /\ DOMAIN bytes = 1 .. Len(bytes)
  OBVIOUS
<1>2. \A i \in 1 .. Len(block) :
        (IF i - at \in DOMAIN bytes THEN bytes[i - at] ELSE block[i]) \in Bytes
  BY <1>1 DEF Bytes
<1>3. Over(block, at, bytes) =
        [i \in 1 .. Len(block) |-> IF i - at \in DOMAIN bytes THEN bytes[i - at] ELSE block[i]]
  BY <1>1 DEF Over
<1>4. Over(block, at, bytes) \in Seq(Bytes) /\ Len(Over(block, at, bytes)) = Len(block)
  BY <1>1, <1>2, <1>3
<1>5. \A j \in DOMAIN block : j <= at => Over(block, at, bytes)[j] = block[j]
  BY <1>1, <1>3
<1>6. ASSUME NEW j \in 1 .. Len(bytes)
      PROVE  Over(block, at, bytes)[at + j] = bytes[j]
  <2>1. at + j \in 1 .. Len(block) /\ (at + j) - at = j
    BY <1>1
  <2> QED
    BY <1>1, <1>3, <2>1
<1> QED
  BY <1>4, <1>5, <1>6

\* The key and the keyset of a push_back() that needs neither block.
BaseKey(ks, len, word) ==
  [in |-> IF ks.ptr.block = 0 THEN "none" ELSE "base",
   block |-> ks.ptr.block, at |-> ks.ptr.at, len |-> len, word |-> word]

PutKey(ks, len, key) ==
  [ks EXCEPT
     !.keyBlocks[ks.size \div KeyBlockSize + 1][(ks.size % KeyBlockSize) + 1] = key,
     !.size = @ + 1, !.totalLength = @ + len]

InBase(ks, bytes, len, word) ==
  LET keyed == PutKey(Taken(ks, Len(bytes)), len, BaseKey(ks, len, word))
  IN  IF ks.ptr.block = 0 THEN keyed
      ELSE [keyed EXCEPT !.base[ks.ptr.block] = Over(@, ks.ptr.at, bytes)]

\* The first len of n places behind at are among them, and before the end.
LEMMA PlacesWithin ==
  ASSUME NEW at \in Nat, NEW n \in Nat, NEW len \in Nat, NEW size \in Nat,
         len <= n, at + n <= size
  PROVE  \A j \in 1 .. len : j \in 1 .. n /\ at + j \in 1 .. size
OBVIOUS

\* push_back() with enough space behind ptr_.
LEMMA PutInBase ==
  ASSUME NEW ks, Good(ks), HasSlot(ks), NEW bytes \in Seq(Nat), Len(bytes) <= ks.avail,
         NEW len \in 0 .. Len(bytes), NEW word \in Nat
  PROVE  Pushes(ks, InBase(ks, bytes, len, word), SubSeq(bytes, 1, len), word)
<1> DEFINE n == Len(bytes)
           key == BaseKey(ks, len, word)
           p == InBase(ks, bytes, len, word)
           keyBlocks == [ks.keyBlocks EXCEPT
             ![ks.size \div KeyBlockSize + 1][(ks.size % KeyBlockSize) + 1] = key]
           ptr == [ks.ptr EXCEPT !.at = @ + n]
           block == ks.base[ks.baseUsed]
           base == IF ks.baseUsed = 0 THEN ks.base
                   ELSE [ks.base EXCEPT ![ks.baseUsed] = Over(block, ks.ptr.at, bytes)]
<1>1. ks \in KeysetType /\ Sized(ks) /\ Accounted(ks)
  BY DEF Good
<1>2. /\ ks.size \in Nat /\ ks.baseUsed \in Nat /\ ks.extraUsed \in Nat
      /\ ks.ptr.at \in Nat /\ ks.ptr.block \in Nat /\ ks.avail \in Nat
      /\ ks.totalLength \in Nat /\ n \in Nat /\ len \in Nat /\ BaseSize \in Nat
      /\ n <= ks.avail /\ len <= n
  BY <1>1, Counters, SizesAssumption
<1> HIDE DEF n, key, p
<1>3. /\ ks.ptr.block = ks.baseUsed
      /\ ks.ptr.at + ks.avail = IF ks.baseUsed = 0 THEN 0 ELSE BaseSize
  BY <1>1 DEF Accounted
<1>4. ks.baseUsed = 0 => ks.ptr.at = 0 /\ ks.avail = 0 /\ n = 0 /\ len = 0
  BY <1>2, <1>3
<1>5. key \in KeyType
  BY <1>2 DEF KeyType, key, BaseKey
<1>6. /\ key.in = IF ks.baseUsed = 0 THEN "none" ELSE "base"
      /\ key.block = ks.baseUsed /\ key.at = ks.ptr.at /\ key.len = len /\ key.word = word
  BY <1>3 DEF key, BaseKey
<1>7. keyBlocks \in Seq(Seq(KeyType))
  BY <1>5, SlotPut
<1>8. ptr \in [block : Nat, at : Nat] /\ ptr.block = ks.ptr.block /\ ptr.at = ks.ptr.at + n
  <2>1. ks.ptr \in [block : Nat, at : Nat]
    BY <1>1 DEF KeysetType
  <2> QED
    BY <1>2, <2>1 DEF ptr
<1>9. ASSUME ks.baseUsed # 0
      PROVE  /\ ks.baseUsed \in 1 .. Len(ks.base) /\ block \in Seq(Bytes)
             /\ Len(block) = BaseSize /\ ks.ptr.at + n <= Len(block)
  <2>1. ks.baseUsed \in 1 .. ks.baseUsed
    BY <1>2, <1>9
  <2>2. ks.baseUsed \in DOMAIN ks.base
    BY <1>1, <2>1, UsedAreThere
  <2>3. block \in Seq(Bytes) /\ DOMAIN ks.base = 1 .. Len(ks.base)
    BY <1>1, <2>2, Arrays
  <2>4. Len(block) = BaseSize
    BY <1>1, <2>1 DEF Accounted
  <2>5. ks.ptr.at + n <= BaseSize
    BY <1>2, <1>3, <1>9
  <2> QED
    BY <2>2, <2>3, <2>4, <2>5
<1>10. /\ base \in Seq(Seq(Bytes)) /\ Len(base) = Len(ks.base)
       /\ \A b \in DOMAIN ks.base : Len(base[b]) = Len(ks.base[b])
       /\ \A b \in DOMAIN ks.base : \A j \in DOMAIN ks.base[b] :
            (b = ks.baseUsed => j <= ks.ptr.at) => base[b][j] = ks.base[b][j]
       /\ ks.baseUsed # 0 => base[ks.baseUsed] = Over(block, ks.ptr.at, bytes)
  <2>1. ks.base \in Seq(Seq(Bytes)) /\ DOMAIN ks.base = 1 .. Len(ks.base)
    BY <1>1, Arrays
  <2>2. CASE ks.baseUsed = 0
    BY <2>1, <2>2
  <2>3. CASE ks.baseUsed # 0
    <3> DEFINE new == Over(block, ks.ptr.at, bytes)
    <3>1. /\ new \in Seq(Bytes) /\ Len(new) = Len(block)
          /\ \A j \in DOMAIN block : j <= ks.ptr.at => new[j] = block[j]
      <4> HIDE DEF block
      <4> QED
        BY <1>2, <1>9, <2>3, OverFacts DEF n
    <3> HIDE DEF new
    <3>2. base = [ks.base EXCEPT ![ks.baseUsed] = new]
      BY <2>3 DEF new
    <3>3. /\ base \in Seq(Seq(Bytes)) /\ Len(base) = Len(ks.base) /\ base[ks.baseUsed] = new
          /\ \A c \in 1 .. Len(ks.base) : c # ks.baseUsed => base[c] = ks.base[c]
      <4> HIDE DEF base
      <4> QED
        BY <1>9, <2>1, <2>3, <3>1, <3>2, BlockPut
    <3> HIDE DEF base
    <3>4. ASSUME NEW b \in DOMAIN ks.base
          PROVE  /\ Len(base[b]) = Len(ks.base[b])
                 /\ \A j \in DOMAIN ks.base[b] :
                      (b = ks.baseUsed => j <= ks.ptr.at) => base[b][j] = ks.base[b][j]
      <4>1. CASE b = ks.baseUsed
        BY <3>1, <3>3, <4>1
      <4>2. CASE b # ks.baseUsed
        BY <2>1, <3>3, <4>2
      <4> QED
        BY <4>1, <4>2
    <3> QED
      BY <3>3, <3>4 DEF new
  <2> QED
    BY <2>2, <2>3
<1>11. p = [ks EXCEPT !.ptr = ptr, !.avail = ks.avail - n, !.keyBlocks = keyBlocks,
                      !.size = ks.size + 1, !.totalLength = ks.totalLength + len,
                      !.base = base]
  <2> DEFINE keyed == [ks EXCEPT !.ptr = ptr, !.avail = ks.avail - n,
                      !.keyBlocks = keyBlocks, !.size = ks.size + 1,
                      !.totalLength = ks.totalLength + len]
  <2>1. PutKey(Taken(ks, n), len, key) = keyed
    <3> DEFINE taken == Taken(ks, n)
    <3>1. taken = [ks EXCEPT !.ptr = ptr, !.avail = ks.avail - n]
      BY <1>1 DEF Taken, KeysetType
    <3>2. /\ taken.keyBlocks = ks.keyBlocks /\ taken.size = ks.size
          /\ taken.totalLength = ks.totalLength
      BY <1>1, <3>1 DEF KeysetType
    <3> QED
      BY <1>1, <3>1, <3>2 DEF PutKey, KeysetType
  <2>2. CASE ks.baseUsed = 0
    <3>1. p = keyed
      BY <1>3, <2>1, <2>2 DEF InBase, p, key, n
    <3>2. keyed.base = ks.base
      BY <1>1 DEF KeysetType
    <3> QED
      BY <1>1, <2>2, <3>1, <3>2 DEF KeysetType
  <2>3. CASE ks.baseUsed # 0
    <3>1. p = [keyed EXCEPT !.base[ks.baseUsed] = Over(@, ks.ptr.at, bytes)]
      BY <1>3, <2>1, <2>3 DEF InBase, p, key, n
    <3>2. keyed.base = ks.base
      BY <1>1 DEF KeysetType
    <3> QED
      BY <1>1, <2>3, <3>1, <3>2 DEF KeysetType
  <2> QED
    BY <2>2, <2>3
<1> HIDE DEF ptr, keyBlocks, base
<1>12. ks.avail - n \in Nat /\ ks.size + 1 \in Nat /\ ks.totalLength + len \in Nat
  BY <1>2
<1>13. p \in KeysetType
  BY <1>1, <1>7, <1>8, <1>10, <1>11, <1>12 DEF KeysetType
<1>14. /\ p.base = base /\ p.baseUsed = ks.baseUsed /\ p.extra = ks.extra
       /\ p.extraUsed = ks.extraUsed /\ p.keyBlocks = keyBlocks
       /\ p.keyBlocksUsed = ks.keyBlocksUsed /\ p.ptr = ptr /\ p.avail = ks.avail - n
       /\ p.size = ks.size + 1
  BY <1>1, <1>11 DEF KeysetType
<1>15. KeyFits(p, key)
  <2>1. CASE ks.baseUsed = 0
    BY <1>4, <1>6, <2>1 DEF KeyFits
  <2>2. CASE ks.baseUsed # 0
    <3>1. key.at + key.len <= p.ptr.at
      BY <1>2, <1>6, <1>8, <1>14
    <3>2. key.block \in 1 .. p.baseUsed
      BY <1>2, <1>6, <1>14, <2>2
    <3> QED
      BY <1>6, <1>14, <2>2, <3>1, <3>2 DEF KeyFits
  <2> QED
    BY <2>1, <2>2
<1>16. Said(p, key) = SubSeq(bytes, 1, len)
  <2>1. SubSeq(bytes, 1, len) = [j \in 1 .. len |-> bytes[j]]
    BY <1>2
  <2>2. CASE ks.baseUsed = 0
    BY <1>4, <1>6, <2>1, <2>2 DEF Said
  <2>3. CASE ks.baseUsed # 0
    <3> DEFINE new == Over(block, ks.ptr.at, bytes)
    <3>1. /\ new \in Seq(Bytes) /\ Len(new) = BaseSize
          /\ \A j \in 1 .. n : new[ks.ptr.at + j] = bytes[j]
      <4> HIDE DEF block
      <4> QED
        BY <1>2, <1>9, <2>3, OverFacts DEF n
    <3>2. p.base[ks.baseUsed] = new /\ ks.baseUsed \in DOMAIN p.base
      <4>1. DOMAIN p.base = 1 .. Len(p.base)
        BY <1>13, Arrays
      <4> QED
        BY <1>9, <1>10, <1>14, <2>3, <4>1
    <3> HIDE DEF new
    <3>3. DOMAIN new = 1 .. BaseSize
      BY <3>1
    <3>4. ks.ptr.at + n <= BaseSize
      BY <1>9, <2>3
    <3>5. \A j \in 1 .. len : /\ ks.ptr.at + j \in DOMAIN new
                             /\ new[ks.ptr.at + j] = bytes[j]
      <4>1. \A j \in 1 .. len : j \in 1 .. n /\ ks.ptr.at + j \in 1 .. BaseSize
        <5>1. ks.ptr.at \in Nat /\ n \in Nat /\ len \in Nat /\ len <= n /\ BaseSize \in Nat
          BY <1>2
        <5> QED
          BY <3>4, <5>1, PlacesWithin
      <4> QED
        BY <3>1, <3>3, <4>1
    <3>6. Said(p, key) = [j \in 1 .. len |->
             IF ks.ptr.at + j \in DOMAIN new THEN new[ks.ptr.at + j] ELSE Junk]
      BY <1>6, <2>3, <3>2 DEF Said
    <3> QED
      BY <2>1, <3>5, <3>6
  <2> QED
    BY <2>2, <2>3
<1>17. SubSeq(bytes, 1, len) \in Seq(Nat)
  BY DEF n
<1>18. /\ ks.ptr.at <= p.ptr.at /\ p.ptr.block = ks.ptr.block
       /\ p.ptr.at + p.avail = ks.ptr.at + ks.avail
  <2>1. p.ptr.at = ks.ptr.at + n /\ p.avail = ks.avail - n /\ p.ptr.block = ks.ptr.block
    BY <1>8, <1>14
  <2>2. ks.ptr.at \in Nat /\ n \in Nat /\ ks.avail \in Nat
    BY <1>2
  <2> QED
    BY <2>1, <2>2
<1>19. /\ p.extraUsed <= Len(p.extra) /\ ks.extraUsed <= p.extraUsed
       /\ \A b \in 1 .. ks.extraUsed : p.extra[b] = ks.extra[b]
       /\ \A b \in 1 .. p.extraUsed : Len(p.extra[b]) > ExtraSize
  <2>1. /\ ks.extraUsed <= Len(ks.extra)
        /\ \A b \in 1 .. ks.extraUsed : Len(ks.extra[b]) > ExtraSize
    BY <1>1 DEF Sized, Accounted
  <2>2. ks.extraUsed <= ks.extraUsed
    BY <1>2
  <2> QED
    BY <1>14, <2>1, <2>2
<1>20. /\ Len(p.base) = Len(ks.base)
       /\ \A b \in DOMAIN ks.base : Len(p.base[b]) = Len(ks.base[b])
       /\ \A b \in 1 .. ks.baseUsed : \A j \in DOMAIN ks.base[b] :
            (b = ks.baseUsed => j <= ks.ptr.at) => p.base[b][j] = ks.base[b][j]
  BY <1>1, <1>10, <1>14, UsedAreThere
<1>21. /\ key.in = "base" => key.block = ks.baseUsed /\ key.at = ks.ptr.at
       /\ key.in # "extra"
  BY <1>6
<1>22. Pushes(ks, p, Said(p, key), key.word)
  BY <1>5, <1>13, <1>14, <1>15, <1>16, <1>17, <1>18, <1>19, <1>20, <1>21, NewKey DEF keyBlocks
<1> QED
  BY <1>6, <1>16, <1>22 DEF p

\* The key and the keyset of a push_back() to an extra block.
ExtraKey(ks, len, word) ==
  [in |-> "extra", block |-> ks.extraUsed + 1, at |-> 0, len |-> len, word |-> word]

InExtra(ks, bytes, len, word) ==
  LET keyed == PutKey(WithExtraBlock(ks, Len(bytes)), len, ExtraKey(ks, len, word))
  IN  [keyed EXCEPT !.extra[ks.extraUsed + 1] = Over(@, 0, bytes)]

\* push_back() of a long key.
LEMMA PutInExtra ==
  ASSUME NEW ks, Good(ks), HasSlot(ks), NEW bytes \in Seq(Nat), Len(bytes) > ExtraSize,
         NEW len \in 0 .. Len(bytes), NEW word \in Nat
  PROVE  Pushes(ks, InExtra(ks, bytes, len, word), SubSeq(bytes, 1, len), word)
<1> DEFINE n == Len(bytes)
           new == ks.extraUsed + 1
           key == ExtraKey(ks, len, word)
           p == InExtra(ks, bytes, len, word)
           keyBlocks == [ks.keyBlocks EXCEPT
             ![ks.size \div KeyBlockSize + 1][(ks.size % KeyBlockSize) + 1] = key]
           grown == Grown(ks.extra, ks.extraUsed)
           fresh == [grown EXCEPT ![new] = Fresh(n)]
           written == Over(Fresh(n), 0, bytes)
           extra == [grown EXCEPT ![new] = written]
<1>1. ks \in KeysetType /\ Sized(ks) /\ Accounted(ks)
  BY DEF Good
<1>2. /\ ks.size \in Nat /\ ks.extraUsed \in Nat /\ ks.ptr.at \in Nat
      /\ ks.avail \in Nat /\ ks.totalLength \in Nat /\ n \in Nat /\ len \in Nat
      /\ ExtraSize \in Nat /\ n > ExtraSize /\ len <= n
      /\ new \in Nat /\ ks.extraUsed < new
  BY <1>1, Counters, SizesAssumption
<1>3. key \in KeyType
  BY <1>2 DEF KeyType, ExtraKey
<1>4. /\ key.in = "extra" /\ key.block = new /\ key.at = 0
      /\ key.len = len /\ key.word = word
  BY DEF ExtraKey
<1> HIDE DEF n, key, p
<1>5. keyBlocks \in Seq(Seq(KeyType))
  BY <1>3, SlotPut
<1>6. /\ grown \in Seq(Seq(Bytes)) /\ Len(grown) \in Nat /\ new \in 1 .. Len(grown)
      /\ \A b \in 1 .. ks.extraUsed : b \in 1 .. Len(grown) /\ grown[b] = ks.extra[b]
  <2>1. ks.extra \in Seq(Seq(Bytes)) /\ NoBlock \in Seq(Bytes)
    BY <1>1, Arrays, NewBlocks
  <2>2. ks.extraUsed <= Len(ks.extra) /\ Len(ks.extra) \in Nat
    BY <1>1, Arrays DEF Sized
  <2>3. grown \in Seq(Seq(Bytes))
    BY <1>2, <2>1, <2>2, GrownFacts
  <2>4. /\ ks.extraUsed < Len(grown)
        /\ \A b \in 1 .. Len(ks.extra) : grown[b] = ks.extra[b]
    <3>1. ks.extraUsed \in Nat
      BY <1>2
    <3> QED
      BY <2>1, <2>2, <3>1, GrownFacts
  <2>5. Len(grown) \in Nat
    BY <2>3
  <2> HIDE DEF grown
  <2>6. new \in 1 .. Len(grown) /\ \A b \in 1 .. ks.extraUsed : b \in 1 .. Len(grown)
    BY <1>2, <2>4, <2>5
  <2>7. \A b \in 1 .. ks.extraUsed : b \in 1 .. Len(ks.extra)
    BY <1>2, <2>2
  <2> QED
    BY <2>3, <2>4, <2>5, <2>6, <2>7
<1>7. /\ Fresh(n) \in Seq(Bytes) /\ Len(Fresh(n)) = n
  BY <1>2, NewBlocks
<1>8. /\ written \in Seq(Bytes) /\ Len(written) = n
      /\ \A j \in 1 .. n : written[j] = bytes[j]
  <2>1. 0 \in Nat /\ 0 + Len(bytes) <= Len(Fresh(n))
    BY <1>2, <1>7 DEF n
  <2>2. /\ written \in Seq(Bytes) /\ Len(written) = Len(Fresh(n))
        /\ \A j \in 1 .. Len(bytes) : written[0 + j] = bytes[j]
    BY <1>7, <2>1, OverFacts
  <2>3. \A j \in 1 .. n : 0 + j = j
    BY <1>2
  <2> QED
    BY <1>7, <2>2, <2>3 DEF n
<1> HIDE DEF grown, written, new
<1>9. /\ extra \in Seq(Seq(Bytes)) /\ Len(extra) = Len(grown) /\ extra[new] = written
      /\ \A b \in 1 .. Len(grown) : b # new => extra[b] = grown[b]
  BY <1>6, <1>8, BlockPut
<1>10. p = [ks EXCEPT !.extra = extra, !.extraUsed = new, !.keyBlocks = keyBlocks,
                      !.size = ks.size + 1, !.totalLength = ks.totalLength + len]
  <2> DEFINE with == [ks EXCEPT !.extra = fresh, !.extraUsed = new]
             keyed == [ks EXCEPT !.extra = fresh, !.extraUsed = new,
                         !.keyBlocks = keyBlocks, !.size = ks.size + 1,
                         !.totalLength = ks.totalLength + len]
  <2>1. WithExtraBlock(ks, n) = with
    BY <1>1 DEF WithExtraBlock, KeysetType, grown, new
  <2>2. /\ with.keyBlocks = ks.keyBlocks /\ with.size = ks.size
        /\ with.totalLength = ks.totalLength
    BY <1>1 DEF KeysetType
  <2>3. PutKey(with, len, key) = keyed
    BY <1>1, <2>2 DEF PutKey, KeysetType
  <2>4. p = [keyed EXCEPT !.extra[new] = Over(@, 0, bytes)]
    BY <2>1, <2>3 DEF InExtra, p, key, n, new
  <2>5. keyed.extra = fresh
    BY <1>1 DEF KeysetType
  <2>6. fresh[new] = Fresh(n) /\ [fresh EXCEPT ![new] = written] = extra
    <3>1. new \in DOMAIN grown
      BY <1>6
    <3> QED
      BY <3>1, PutTwice
  <2>7. p = [keyed EXCEPT !.extra = [fresh EXCEPT ![new] = written]]
    <3> HIDE DEF fresh, keyed
    <3> QED
      BY <2>4, <2>5, <2>6 DEF written
  <2> HIDE DEF fresh, extra
  <2> QED
    BY <1>1, <2>6, <2>7 DEF KeysetType
<1> HIDE DEF keyBlocks, extra
<1>11. ks.size + 1 \in Nat /\ ks.totalLength + len \in Nat
  BY <1>2
<1>12. p \in KeysetType
  BY <1>1, <1>2, <1>5, <1>9, <1>10, <1>11 DEF KeysetType
<1>13. /\ p.base = ks.base /\ p.baseUsed = ks.baseUsed /\ p.extra = extra
       /\ p.extraUsed = new /\ p.keyBlocks = keyBlocks
       /\ p.keyBlocksUsed = ks.keyBlocksUsed /\ p.ptr = ks.ptr /\ p.avail = ks.avail
       /\ p.size = ks.size + 1
  BY <1>1, <1>10 DEF KeysetType
<1>14. KeyFits(p, key)
  <2>1. key.block \in 1 .. p.extraUsed
    BY <1>2, <1>4, <1>13 DEF new
  <2>2. key.len <= Len(p.extra[key.block])
    BY <1>2, <1>4, <1>8, <1>9, <1>13
  <2> QED
    BY <1>4, <2>1, <2>2 DEF KeyFits
<1>15. Said(p, key) = SubSeq(bytes, 1, len)
  <2>1. SubSeq(bytes, 1, len) = [j \in 1 .. len |-> bytes[j]]
    BY DEF n
  <2>2. p.extra[new] = written /\ new \in DOMAIN p.extra
    <3>1. DOMAIN p.extra = 1 .. Len(p.extra)
      BY <1>12, Arrays
    <3> QED
      BY <1>6, <1>9, <1>13, <3>1
  <2>3. DOMAIN written = 1 .. n
    BY <1>8
  <2>4. \A j \in 1 .. len : 0 + j \in 1 .. n /\ 0 + j = j
    BY <1>2
  <2>5. Said(p, key) = [j \in 1 .. len |->
           IF 0 + j \in DOMAIN written THEN written[0 + j] ELSE Junk]
    BY <1>4, <2>2 DEF Said
  <2> QED
    BY <1>8, <2>1, <2>3, <2>4, <2>5
<1>16. SubSeq(bytes, 1, len) \in Seq(Nat)
  BY DEF n
<1>17. /\ ks.ptr.at <= p.ptr.at /\ p.ptr.block = ks.ptr.block
       /\ p.ptr.at + p.avail = ks.ptr.at + ks.avail
  <2>1. ks.ptr.at <= ks.ptr.at
    BY <1>2
  <2> QED
    BY <1>13, <2>1
<1>18. /\ p.extraUsed <= Len(p.extra) /\ ks.extraUsed <= p.extraUsed
       /\ \A b \in 1 .. ks.extraUsed : p.extra[b] = ks.extra[b]
       /\ \A b \in 1 .. p.extraUsed : Len(p.extra[b]) > ExtraSize
  <2>1. new <= Len(extra) /\ ks.extraUsed <= new
    <3>1. Len(extra) \in Nat /\ new \in 1 .. Len(extra)
      BY <1>6, <1>9
    <3> QED
      BY <1>2, <3>1
  <2>2. \A b \in 1 .. ks.extraUsed : b # new
    BY <1>2 DEF new
  <2>3. \A b \in 1 .. ks.extraUsed : extra[b] = ks.extra[b]
    BY <1>6, <1>9, <2>2
  <2>4. \A b \in 1 .. ks.extraUsed : Len(ks.extra[b]) > ExtraSize
    BY <1>1 DEF Accounted
  <2>5. \A b \in 1 .. new : b \in 1 .. ks.extraUsed \/ b = new
    BY <1>2 DEF new
  <2>6. \A b \in 1 .. new : Len(extra[b]) > ExtraSize
    BY <1>2, <1>8, <1>9, <2>3, <2>4, <2>5
  <2> QED
    BY <1>13, <2>1, <2>3, <2>6
<1>19. /\ Len(p.base) = Len(ks.base)
       /\ \A b \in DOMAIN ks.base : Len(p.base[b]) = Len(ks.base[b])
       /\ \A b \in 1 .. ks.baseUsed : \A j \in DOMAIN ks.base[b] :
            (b = ks.baseUsed => j <= ks.ptr.at) => p.base[b][j] = ks.base[b][j]
  BY <1>13
<1>20. key.in # "base" /\ key.block > ks.extraUsed
  BY <1>2, <1>4
<1>21. Pushes(ks, p, Said(p, key), key.word)
  BY <1>3, <1>12, <1>13, <1>14, <1>15, <1>16, <1>17, <1>18, <1>19, <1>20, NewKey DEF keyBlocks
<1> QED
  BY <1>4, <1>15, <1>21 DEF p

\* Room that is made first changes nothing about what was pushed.
LEMMA PushesAfter ==
  ASSUME NEW ks, NEW k, NEW p, NEW text, NEW word, Good(ks), Good(k), Extends(ks, k),
         k.size = ks.size, Pushes(k, p, text, word)
  PROVE  Pushes(ks, p, text, word)
<1>1. ks \in KeysetType /\ k \in KeysetType /\ p \in KeysetType
  BY DEF Good, Pushes
<1>2. Extends(ks, p)
  BY <1>1, ExtendsTwice DEF Pushes
<1> QED
  BY <1>2 DEF Pushes

\* push_back() adds one key that says what it was given.
LEMMA PushedOK ==
  ASSUME NEW ks, Good(ks), NEW bytes \in Seq(Nat), NEW len \in 0 .. Len(bytes),
         NEW word \in Nat
  PROVE  Pushes(ks, Pushed(ks, bytes, len, word), SubSeq(bytes, 1, len), word)
<1> DEFINE k == WithKeySlot(ks)
           n == Len(bytes)
           m == IF NeedsBaseBlock(k, n) THEN WithBaseBlock(k) ELSE k
<1>1. /\ Good(k) /\ Extends(ks, k) /\ HasSlot(k) /\ k.size = ks.size
  BY KeySlotOK
<1>2. n \in Nat /\ ExtraSize \in Nat /\ BaseSize \in Nat /\ ExtraSize <= BaseSize
  BY SizesAssumption
<1> HIDE DEF k, n
<1>3. CASE n > ExtraSize
  <2>1. Pushes(k, InExtra(k, bytes, len, word), SubSeq(bytes, 1, len), word)
    BY <1>1, <1>3, PutInExtra DEF n
  <2>2. Pushed(ks, bytes, len, word) = InExtra(k, bytes, len, word)
    <3> DEFINE room == WithExtraBlock(k, n)
    <3>1. Reserved(ks, n) = room
      BY <1>3 DEF Reserved, k
    <3>2. room.extraUsed = k.extraUsed + 1
      BY <1>1 DEF WithExtraBlock, Good, KeysetType
    <3> HIDE DEF room
    <3>3. Place(room, n) = [in |-> "extra", block |-> k.extraUsed + 1, at |-> 0]
      BY <1>3, <3>2 DEF Place
    <3>4. room.size = ks.size
      BY <1>1 DEF room, WithExtraBlock, Good, KeysetType
    <3>5. Pushed(ks, bytes, len, word) =
            [PutKey(room, len, ExtraKey(k, len, word))
               EXCEPT !.extra[k.extraUsed + 1] = Over(@, 0, bytes)]
      BY <3>1, <3>3, <3>4 DEF Pushed, n, PutKey, ExtraKey
    <3> QED
      BY <3>5 DEF InExtra, room, n
  <2> QED
    BY <1>1, <2>1, <2>2, PushesAfter
<1>4. CASE ~(n > ExtraSize)
  <2>1. /\ Good(m) /\ Extends(ks, m) /\ HasSlot(m) /\ m.size = ks.size /\ n <= m.avail
    <3>1. CASE NeedsBaseBlock(k, n)
      <4>1. /\ Good(m) /\ Extends(k, m) /\ HasSlot(m) /\ m.size = ks.size
            /\ m.avail = BaseSize
        <5> DEFINE w == WithBaseBlock(k)
        <5>1. m = w
          BY <3>1
        <5>2. /\ Good(w) /\ Extends(k, w)
              /\ HasSlot(k) => HasSlot(w)
              /\ w.size = k.size /\ w.avail = BaseSize
          BY <1>1, BaseBlockOK
        <5>3. HasSlot(w) /\ w.size = ks.size
          BY <1>1, <5>2
        <5> HIDE DEF m, w
        <5> QED
          BY <5>1, <5>2, <5>3
      <4>2. n <= m.avail
        BY <1>2, <1>4, <4>1
      <4>3. Extends(ks, m)
        BY <1>1, <4>1, ExtendsTwice DEF Good
      <4> QED
        BY <4>1, <4>2, <4>3
    <3>2. CASE ~NeedsBaseBlock(k, n)
      <4>1. k.avail \in Nat
        BY <1>1, Counters DEF Good
      <4> QED
        BY <1>1, <1>2, <3>2, <4>1 DEF NeedsBaseBlock
    <3> QED
      BY <3>1, <3>2
  <2>2. Reserved(ks, n) = Taken(m, n)
    BY <1>4 DEF Reserved, k
  <2> HIDE DEF m
  <2>3. Pushes(m, InBase(m, bytes, len, word), SubSeq(bytes, 1, len), word)
    BY <2>1, PutInBase DEF n
  <2>4. Pushed(ks, bytes, len, word) = InBase(m, bytes, len, word)
    <3> DEFINE room == Taken(m, n)
    <3>1. m \in KeysetType /\ m.ptr.at \in Nat
      BY <2>1, Counters DEF Good
    <3>2. /\ room.ptr.block = m.ptr.block /\ room.ptr.at = m.ptr.at + n
          /\ room.size = m.size
      BY <3>1 DEF Taken, KeysetType
    <3>3. room.ptr.at - n = m.ptr.at
      BY <1>2, <3>1, <3>2
    <3> HIDE DEF room
    <3>4. Place(room, n) = [in |-> IF m.ptr.block = 0 THEN "none" ELSE "base",
                            block |-> m.ptr.block, at |-> m.ptr.at]
      BY <1>4, <3>2, <3>3 DEF Place
    <3> DEFINE keyed == PutKey(room, len, BaseKey(m, len, word))
    <3>5. Pushed(ks, bytes, len, word) =
            IF m.ptr.block = 0 THEN keyed
            ELSE [keyed EXCEPT !.base[m.ptr.block] = Over(@, m.ptr.at, bytes)]
      <4> DEFINE place == Place(room, n)
                 new == [in |-> place.in, block |-> place.block, at |-> place.at,
                         len |-> len, word |-> word]
      <4>1. /\ place.in = IF m.ptr.block = 0 THEN "none" ELSE "base"
            /\ place.block = m.ptr.block /\ place.at = m.ptr.at
        BY <3>4
      <4>2. new = BaseKey(m, len, word)
        BY <4>1 DEF BaseKey
      <4>3. Reserved(ks, n) = room /\ room.size = ks.size
        BY <2>1, <2>2, <3>2 DEF room
      <4>4. [room EXCEPT
               !.keyBlocks[ks.size \div KeyBlockSize + 1][(ks.size % KeyBlockSize) + 1] = new,
               !.size = @ + 1, !.totalLength = @ + len] = keyed
        BY <4>2, <4>3 DEF PutKey
      <4>5. Pushed(ks, bytes, len, word) =
              CASE place.in = "none"  -> keyed
                [] place.in = "base"  ->
                     [keyed EXCEPT !.base[place.block] = Over(@, place.at, bytes)]
                [] place.in = "extra" ->
                     [keyed EXCEPT !.extra[place.block] = Over(@, place.at, bytes)]
        BY <4>3, <4>4 DEF Pushed, n
      <4> HIDE DEF keyed, place
      <4>6. CASE m.ptr.block = 0
        BY <4>1, <4>5, <4>6
      <4>7. CASE m.ptr.block # 0
        BY <4>1, <4>5, <4>7
      <4> QED
        BY <4>6, <4>7
    <3> QED
      BY <3>5 DEF InBase, room, n
  <2> QED
    BY <2>1, <2>3, <2>4, PushesAfter
<1> QED
  BY <1>3, <1>4
-----------------------------------------------------------------------------
(* The steps.                                                              *)

\* A keyset that is left by an allocation that failed has the same keys.
LEMMA FailuresOK ==
  ASSUME NEW ks, Good(ks), NEW n \in Nat, NEW left \in Failures(ks, n)
  PROVE  Good(left) /\ Extends(ks, left) /\ left.size = ks.size
<1> DEFINE k == WithKeySlot(ks)
<1>1. ks \in KeysetType
  BY DEF Good
<1>2. Good(k) /\ Extends(ks, k) /\ k.size = ks.size
      /\ k.base = ks.base /\ k.baseUsed = ks.baseUsed
      /\ k.extra = ks.extra /\ k.extraUsed = ks.extraUsed
  BY KeySlotOK
<1>3. Extends(ks, ks)
  BY <1>1, Counters, UsedAreThere DEF Extends, Good
<1> HIDE DEF k
<1>4. k \in KeysetType
  BY <1>2 DEF Good
<1>5. CASE left = ks
  BY <1>3, <1>5
<1>6. CASE left = [ks EXCEPT !.keyBlocks = Grown(@, ks.keyBlocksUsed)]
  <2> DEFINE array == Grown(ks.keyBlocks, ks.keyBlocksUsed)
             l == [ks EXCEPT !.keyBlocks = array, !.keyBlocksUsed = ks.keyBlocksUsed]
  <2>1. /\ array \in Seq(Seq(KeyType)) /\ ks.keyBlocksUsed <= Len(array)
        /\ \A b \in 1 .. ks.keyBlocksUsed : array[b] = ks.keyBlocks[b]
    <3>1. /\ array \in Seq(Seq(KeyType)) /\ Len(array) \in Nat
          /\ ks.keyBlocksUsed \in Nat /\ ks.keyBlocksUsed < Len(array)
          /\ \A b \in 1 .. ks.keyBlocksUsed : array[b] = ks.keyBlocks[b]
      BY KeyBlocksGrown
    <3> HIDE DEF array
    <3>2. ks.keyBlocksUsed <= Len(array)
      BY <3>1
    <3> QED
      BY <3>1, <3>2
  <2> HIDE DEF array
  <2>2. Good(l) /\ Extends(ks, l)
    BY <2>1, KeyBlockOK
  <2>3. left = l /\ l.size = ks.size
    BY <1>1, <1>6 DEF KeysetType, array
  <2> QED
    BY <2>2, <2>3
<1>7. CASE left = k
  BY <1>2, <1>7
<1>8. CASE left = [k EXCEPT !.extra = Grown(@, ks.extraUsed)]
  <2> DEFINE l == [k EXCEPT !.extra = Grown(@, k.extraUsed)]
  <2>1. Good(l) /\ Extends(k, l)
    BY <1>2, ExtraGrownOK
  <2>2. left = l /\ l.size = k.size
    BY <1>2, <1>4, <1>8 DEF KeysetType
  <2> HIDE DEF l
  <2> QED
    BY <1>1, <1>2, <1>4, <2>1, <2>2, ExtendsTwice DEF Good
<1>9. CASE left = [k EXCEPT !.base = Grown(@, ks.baseUsed)]
  <2> DEFINE l == [k EXCEPT !.base = Grown(@, k.baseUsed)]
  <2>1. Good(l) /\ Extends(k, l)
    BY <1>2, BaseGrownOK
  <2>2. left = l /\ l.size = k.size
    BY <1>2, <1>4, <1>9 DEF KeysetType
  <2> HIDE DEF l
  <2> QED
    BY <1>1, <1>2, <1>4, <2>1, <2>2, ExtendsTwice DEF Good
<1> QED
  BY <1>5, <1>6, <1>7, <1>8, <1>9 DEF Failures, k

\* reset() leaves a keyset without keys, whose blocks can be used again.
LEMMA ResetOK ==
  ASSUME NEW ks, Good(ks)
  PROVE  Good([ks EXCEPT
           !.base = [b \in DOMAIN ks.base |-> Fresh(Len(ks.base[b]))], !.baseUsed = 0,
           !.extra = [b \in DOMAIN ks.extra |-> Fresh(Len(ks.extra[b]))], !.extraUsed = 0,
           !.keyBlocks = [b \in DOMAIN ks.keyBlocks |->
                            [i \in DOMAIN ks.keyBlocks[b] |-> NoKey]],
           !.ptr = [block |-> 0, at |-> 0], !.avail = 0, !.size = 0, !.totalLength = 0])
<1> DEFINE base == [b \in DOMAIN ks.base |-> Fresh(Len(ks.base[b]))]
           extra == [b \in DOMAIN ks.extra |-> Fresh(Len(ks.extra[b]))]
           keyBlocks == [b \in DOMAIN ks.keyBlocks |->
                          [i \in DOMAIN ks.keyBlocks[b] |-> NoKey]]
           ptr == [block |-> 0, at |-> 0]
           r == [ks EXCEPT !.base = base, !.baseUsed = 0, !.extra = extra, !.extraUsed = 0,
                   !.keyBlocks = keyBlocks, !.ptr = ptr, !.avail = 0, !.size = 0,
                   !.totalLength = 0]
<1>1. ks \in KeysetType /\ Sized(ks) /\ Accounted(ks)
  BY DEF Good
<1>2. ks.keyBlocksUsed \in Nat /\ KeyBlockSize \in Nat
  BY <1>1, Counters, SizesAssumption
<1>3. /\ base \in Seq(Seq(Bytes)) /\ DOMAIN base = DOMAIN ks.base
      /\ \A b \in DOMAIN base : base[b] = NoBlock \/ Len(base[b]) = BaseSize
  <2>1. \A b \in DOMAIN ks.base : /\ Fresh(Len(ks.base[b])) \in Seq(Bytes)
                                 /\ Len(Fresh(Len(ks.base[b]))) = Len(ks.base[b])
    BY <1>1, Arrays, NewBlocks
  <2>2. DOMAIN ks.base = 1 .. Len(ks.base) /\ Len(ks.base) \in Nat
    BY <1>1, Arrays
  <2>3. base \in Seq(Seq(Bytes))
    BY <2>1, <2>2
  <2>4. ASSUME NEW b \in DOMAIN ks.base
        PROVE  base[b] = NoBlock \/ Len(base[b]) = BaseSize
    <3>1. base[b] = Fresh(Len(ks.base[b]))
      OBVIOUS
    <3>2. CASE ks.base[b] = NoBlock
      BY <3>1, <3>2 DEF NoBlock, Fresh
    <3>3. CASE Len(ks.base[b]) = BaseSize
      BY <2>1, <3>1, <3>3
    <3> QED
      BY <1>1, <3>2, <3>3 DEF Sized
  <2> QED
    BY <2>3, <2>4
<1>4. extra \in Seq(Seq(Bytes))
  <2>1. \A b \in DOMAIN ks.extra : Fresh(Len(ks.extra[b])) \in Seq(Bytes)
    BY <1>1, Arrays, NewBlocks
  <2>2. DOMAIN ks.extra = 1 .. Len(ks.extra) /\ Len(ks.extra) \in Nat
    BY <1>1, Arrays
  <2> QED
    BY <2>1, <2>2
<1>5. /\ keyBlocks \in Seq(Seq(KeyType)) /\ Len(keyBlocks) = Len(ks.keyBlocks)
      /\ \A b \in 1 .. ks.keyBlocksUsed : Len(keyBlocks[b]) = KeyBlockSize
  <2>1. NoKey \in KeyType
    BY DEF NoKey, KeyType
  <2>2. \A b \in DOMAIN ks.keyBlocks :
          /\ DOMAIN ks.keyBlocks[b] = 1 .. Len(ks.keyBlocks[b]) /\ Len(ks.keyBlocks[b]) \in Nat
    BY <1>1, Arrays
  <2>3. \A b \in DOMAIN ks.keyBlocks :
          /\ [i \in DOMAIN ks.keyBlocks[b] |-> NoKey] \in Seq(KeyType)
          /\ Len([i \in DOMAIN ks.keyBlocks[b] |-> NoKey]) = Len(ks.keyBlocks[b])
    BY <2>1, <2>2
  <2>4. DOMAIN ks.keyBlocks = 1 .. Len(ks.keyBlocks) /\ Len(ks.keyBlocks) \in Nat
    BY <1>1, Arrays
  <2>5. keyBlocks \in Seq(Seq(KeyType)) /\ Len(keyBlocks) = Len(ks.keyBlocks)
    BY <2>3, <2>4
  <2>6. \A b \in 1 .. ks.keyBlocksUsed : b \in DOMAIN ks.keyBlocks
    BY <1>1, UsedAreThere
  <2>7. \A b \in 1 .. ks.keyBlocksUsed : Len(ks.keyBlocks[b]) = KeyBlockSize
    BY <1>1 DEF Accounted
  <2> QED
    BY <2>3, <2>5, <2>6, <2>7
<1>6. ptr \in [block : Nat, at : Nat] /\ ptr.block = 0 /\ ptr.at = 0
  OBVIOUS
<1> HIDE DEF base, extra, keyBlocks, ptr
<1>7. r \in KeysetType
  BY <1>1, <1>3, <1>4, <1>5, <1>6 DEF KeysetType
<1>8. /\ r.base = base /\ r.baseUsed = 0 /\ r.extra = extra /\ r.extraUsed = 0
      /\ r.keyBlocks = keyBlocks /\ r.keyBlocksUsed = ks.keyBlocksUsed
      /\ r.ptr = ptr /\ r.avail = 0 /\ r.size = 0
  BY <1>1 DEF KeysetType
<1> HIDE DEF r
<1>9. Sized(r)
  <2>1. 0 <= Len(r.base) /\ 0 <= Len(r.extra)
    BY <1>7, Arrays
  <2> QED
    BY <1>1, <1>3, <1>5, <1>8, <2>1 DEF Sized
<1>10. Accounted(r)
  <2>1. 0 <= ks.keyBlocksUsed * KeyBlockSize
    BY <1>2
  <2> QED
    BY <1>5, <1>6, <1>8, <2>1 DEF Accounted
<1>11. KeysFit(r) /\ InOrder(r)
  BY <1>8 DEF KeysFit, InOrder
<1>12. Good(r)
  BY <1>7, <1>9, <1>10, <1>11 DEF Good
<1> QED
  BY <1>12 DEF r, base, extra, keyBlocks, ptr

\* Keyset::Keyset() is good.
LEMMA EmptyOK == Good(EmptyKeyset) /\ EmptyKeyset.size = 0
<1>1. EmptyKeyset \in KeysetType
  <2>1. <<>> \in Seq(Seq(Bytes)) /\ <<>> \in Seq(Seq(KeyType))
    OBVIOUS
  <2>2. [block |-> 0, at |-> 0] \in [block : Nat, at : Nat]
    OBVIOUS
  <2> QED
    BY <2>1, <2>2 DEF EmptyKeyset, KeysetType
<1>2. Sized(EmptyKeyset)
  BY DEF EmptyKeyset, Sized
<1>3. Accounted(EmptyKeyset)
  BY SizesAssumption DEF EmptyKeyset, Accounted
<1>4. KeysFit(EmptyKeyset) /\ InOrder(EmptyKeyset)
  BY DEF EmptyKeyset, KeysFit, InOrder
<1> QED
  BY <1>1, <1>2, <1>3, <1>4 DEF Good, EmptyKeyset

\* A push_back() of some bytes, of which the key has the first len.
Pushing(s) ==
  \E bytes \in Seq(Nat) : \E len \in 0 .. Len(bytes) : \E word \in Nat :
    PushBack(s, bytes, len, word)

\* The four push_back() functions give PushBack bytes, and a length within them.
LEMMA PushesAreTyped ==
  ASSUME IInv, NEW s \in Owners, PushText(s) \/ PushSlice(s) \/ PushKey(s) \/ PushMarked(s)
  PROVE  Pushing(s)
<1>1. \A text \in Seq(Nat) : \A len \in 0 .. Len(text) :
        SubSeq(text, 1, len) \in Seq(Nat) /\ Len(SubSeq(text, 1, len)) = len
  OBVIOUS
<1>2. \A len \in Nat : len \in 0 .. len /\ len \in 0 .. len + 1
  OBVIOUS
<1>3. CASE PushText(s)
  <2>1. PICK text \in Texts : \E len \in {n \in 0 .. Len(text) : EndsAt(text, n)} :
          PushBack(s, SubSeq(text, 1, len), len, 1)
    BY <1>3 DEF PushText
  <2>2. text \in Seq(Nat)
    BY InputsAssumption
  <2>3. PICK len \in 0 .. Len(text) : PushBack(s, SubSeq(text, 1, len), len, 1)
    BY <2>1
  <2>4. SubSeq(text, 1, len) \in Seq(Nat) /\ len \in 0 .. Len(SubSeq(text, 1, len))
    BY <1>1, <2>2
  <2> QED
    BY <2>3, <2>4 DEF Pushing
<1>4. CASE PushSlice(s)
  <2>1. PICK text \in Texts, length \in Lengths, weight \in Words :
          LET len == IF length < 0 \/ length > Len(text) THEN Len(text) ELSE length
          IN  PushBack(s, SubSeq(text, 1, len), len, weight)
    BY <1>4 DEF PushSlice
  <2> DEFINE len == IF length < 0 \/ length > Len(text) THEN Len(text) ELSE length
  <2>2. text \in Seq(Nat) /\ length \in Int /\ weight \in Nat
    BY InputsAssumption
  <2>3. len \in 0 .. Len(text)
    BY <2>2
  <2>4. PushBack(s, SubSeq(text, 1, len), len, weight)
    BY <2>1
  <2> HIDE DEF len
  <2>5. SubSeq(text, 1, len) \in Seq(Nat) /\ len \in 0 .. Len(SubSeq(text, 1, len))
    BY <1>1, <2>2, <2>3
  <2> QED
    BY <2>2, <2>4, <2>5 DEF Pushing
<1>5. ASSUME NEW r \in Owners, NEW i \in 0 .. keysets[r].size - 1
      PROVE  LET key == KeyAt(keysets[r], i)
             IN  /\ Said(keysets[r], key) \in Seq(Nat) /\ Len(Said(keysets[r], key)) = key.len
                 /\ key.len \in Nat /\ key.word \in Nat
  <2> DEFINE key == KeyAt(keysets[r], i)
  <2>1. key \in KeyType /\ Said(keysets[r], key) \in Seq(Nat)
    BY DEF IInv, Good, KeysFit
  <2>2. key.len \in Nat /\ key.word \in Nat
    BY <2>1, KeyFields
  <2> HIDE DEF key
  <2>3. Len(Said(keysets[r], key)) = key.len
    BY <2>2 DEF Said
  <2> QED
    BY <2>1, <2>2, <2>3 DEF key
<1>6. CASE PushKey(s)
  <2>1. PICK r \in Owners : \E i \in 0 .. keysets[r].size - 1 :
          LET key == KeyAt(keysets[r], i)
          IN  PushBack(s, Said(keysets[r], key), key.len, key.word)
    BY <1>6 DEF PushKey
  <2>2. PICK i \in 0 .. keysets[r].size - 1 :
          LET key == KeyAt(keysets[r], i)
          IN  PushBack(s, Said(keysets[r], key), key.len, key.word)
    BY <2>1
  <2> DEFINE key == KeyAt(keysets[r], i)
             bytes == Said(keysets[r], key)
  <2>3. /\ bytes \in Seq(Nat) /\ Len(bytes) = key.len /\ key.len \in Nat /\ key.word \in Nat
    BY <1>5
  <2>4. PushBack(s, bytes, key.len, key.word)
    BY <2>2
  <2> HIDE DEF bytes, key
  <2> QED
    BY <1>2, <2>3, <2>4 DEF Pushing
<1>7. CASE PushMarked(s)
  <2>1. PICK r \in Owners : \E i \in 0 .. keysets[r].size - 1 :
          LET key == KeyAt(keysets[r], i)
          IN  PushBack(s, Append(Said(keysets[r], key), NUL), key.len, key.word)
    BY <1>7 DEF PushMarked
  <2>2. PICK i \in 0 .. keysets[r].size - 1 :
          LET key == KeyAt(keysets[r], i)
          IN  PushBack(s, Append(Said(keysets[r], key), NUL), key.len, key.word)
    BY <2>1
  <2> DEFINE key == KeyAt(keysets[r], i)
             bytes == Said(keysets[r], key)
             marked == Append(bytes, NUL)
  <2>3. /\ bytes \in Seq(Nat) /\ Len(bytes) = key.len /\ key.len \in Nat /\ key.word \in Nat
    BY <1>5
  <2>4. PushBack(s, marked, key.len, key.word)
    BY <2>2
  <2> HIDE DEF bytes, key
  <2>5. marked \in Seq(Nat) /\ Len(marked) = key.len + 1
    BY <2>3 DEF NUL
  <2> HIDE DEF marked
  <2> QED
    BY <1>2, <2>3, <2>4, <2>5 DEF Pushing
<1> QED
  BY <1>3, <1>4, <1>6, <1>7

\* What a step may have made of a keyset: one with a key more, one with the
\* same keys and perhaps more room, or one with none.
Replaced(s, k) ==
  /\ keysets' = [keysets EXCEPT ![s] = k]
  /\ Good(k) /\ k.size <= MaxSize
  /\ \/ /\ Pushes(keysets[s], k, given'.text, given'.word)
        /\ given' \in [text : Seq(Nat), word : Nat]
     \/ Extends(keysets[s], k) /\ k.size = keysets[s].size /\ UNCHANGED given
     \/ k.size = 0 /\ UNCHANGED given

\* reset() in one piece.
LEMMA ResetIsReplaced ==
  ASSUME IInv, NEW s \in Owners, Reset(s)
  PROVE  \E k : Replaced(s, k)
<1> DEFINE ks == keysets[s]
           r == [ks EXCEPT
                   !.base = [b \in DOMAIN ks.base |-> Fresh(Len(ks.base[b]))], !.baseUsed = 0,
                   !.extra = [b \in DOMAIN ks.extra |-> Fresh(Len(ks.extra[b]))],
                   !.extraUsed = 0,
                   !.keyBlocks = [b \in DOMAIN ks.keyBlocks |->
                                    [i \in DOMAIN ks.keyBlocks[b] |-> NoKey]],
                   !.ptr = [block |-> 0, at |-> 0], !.avail = 0, !.size = 0,
                   !.totalLength = 0]
<1>1. ks \in KeysetType /\ Good(ks) /\ keysets \in [Owners -> KeysetType]
  BY DEF IInv
<1>2. keysets' = [keysets EXCEPT ![s] = r] /\ UNCHANGED given
  BY <1>1 DEF Reset, KeysetType
<1>3. Good(r)
  BY <1>1, ResetOK
<1>4. r.size = 0 /\ 0 <= MaxSize
  BY <1>1, SizesAssumption DEF KeysetType
<1> HIDE DEF r
<1> QED
  BY <1>2, <1>3, <1>4 DEF Replaced

\* Every step of Next is one of these, or a swap.
LEMMA StepReplaces ==
  ASSUME IInv, Next
  PROVE  \/ \E s \in Owners : \E k : Replaced(s, k)
         \/ \E s, t \in Owners : Swap(s, t)
<1>1. ASSUME NEW s \in Owners, Pushing(s)
      PROVE  \E k : Replaced(s, k)
  <2> DEFINE ks == keysets[s]
  <2>0. PICK bytes \in Seq(Nat) :
          \E len \in 0 .. Len(bytes) : \E word \in Nat : PushBack(s, bytes, len, word)
    BY <1>1 DEF Pushing
  <2>1. PICK len \in 0 .. Len(bytes), word \in Nat : PushBack(s, bytes, len, word)
    BY <2>0
  <2>2. Good(ks) /\ ks.size \in Nat /\ ks.size < MaxSize /\ MaxSize \in Nat
    BY <2>1, Counters, SizesAssumption DEF IInv, Good, PushBack
  <2>3. CASE /\ keysets' = [keysets EXCEPT ![s] = Pushed(@, bytes, len, word)]
             /\ given' = [text |-> SubSeq(bytes, 1, len), word |-> word]
    <3> DEFINE k == Pushed(ks, bytes, len, word)
    <3>1. Pushes(ks, k, SubSeq(bytes, 1, len), word)
      BY <2>2, PushedOK
    <3>2. given' \in [text : Seq(Nat), word : Nat] /\ given'.text = SubSeq(bytes, 1, len)
          /\ given'.word = word
      BY <2>3
    <3>3. keysets' = [keysets EXCEPT ![s] = k]
      BY <2>3
    <3> HIDE DEF k
    <3>4. Good(k) /\ k.size <= MaxSize
      BY <2>2, <3>1 DEF Pushes
    <3> QED
      BY <3>1, <3>2, <3>3, <3>4 DEF Replaced
  <2>4. ASSUME NEW left \in Failures(ks, Len(bytes)),
               keysets' = [keysets EXCEPT ![s] = left], UNCHANGED given
        PROVE  \E k : Replaced(s, k)
    <3>1. Good(left) /\ Extends(ks, left) /\ left.size = ks.size
      <4>1. Len(bytes) \in Nat
        OBVIOUS
      <4> QED
        BY <2>2, <2>4, <4>1, FailuresOK
    <3>2. left.size <= MaxSize
      BY <2>2, <3>1
    <3>3. keysets' = [keysets EXCEPT ![s] = left] /\ UNCHANGED given
      BY <2>4
    <3>4. Replaced(s, left)
      BY <3>1, <3>2, <3>3 DEF Replaced
    <3> QED
      BY <3>4
  <2> QED
    BY <2>1, <2>3, <2>4 DEF PushBack
<1>2. ASSUME NEW s \in Owners, Clear(s)
      PROVE  \E k : Replaced(s, k)
  <2>1. 0 <= MaxSize
    BY SizesAssumption
  <2> QED
    BY <1>2, <2>1, EmptyOK DEF Clear, Replaced
<1>3. ASSUME NEW s \in Owners, PushText(s) \/ PushSlice(s) \/ PushKey(s) \/ PushMarked(s)
      PROVE  \E k : Replaced(s, k)
  BY <1>1, <1>3, PushesAreTyped
<1> QED
  BY <1>2, <1>3, ResetIsReplaced DEF Next

\* The invariant holds of new keysets.
LEMMA InitOK == Init => IInv
<1> SUFFICES ASSUME Init PROVE IInv
  OBVIOUS
<1>1. Good(EmptyKeyset) /\ EmptyKeyset \in KeysetType /\ EmptyKeyset.size <= MaxSize
  BY EmptyOK, SizesAssumption DEF Good
<1>2. given \in [text : Seq(Nat), word : Nat]
  BY DEF Init
<1> QED
  BY <1>1, <1>2 DEF Init, IInv

\* Every step keeps it.
LEMMA NextKeeps == IInv /\ [Next]_vars => IInv'
<1>1. ASSUME IInv, Next
      PROVE  IInv'
  <2>1. ASSUME NEW s \in Owners, NEW k, Replaced(s, k)
        PROVE  IInv'
    <3>1. keysets' = [keysets EXCEPT ![s] = k] /\ Good(k) /\ k.size <= MaxSize
          /\ keysets \in [Owners -> KeysetType] /\ k \in KeysetType
      BY <1>1, <2>1 DEF Replaced, Good, IInv
    <3>2. keysets' \in [Owners -> KeysetType]
      BY <3>1
    <3>3. \A t \in Owners : Good(keysets'[t]) /\ keysets'[t].size <= MaxSize
      BY <1>1, <3>1 DEF IInv
    <3>4. given' \in [text : Seq(Nat), word : Nat]
      BY <1>1, <2>1 DEF Replaced, IInv
    <3> QED
      BY <3>2, <3>3, <3>4 DEF IInv
  <2>2. ASSUME NEW s \in Owners, NEW t \in Owners, Swap(s, t)
        PROVE  IInv'
    BY <1>1, <2>2 DEF Swap, IInv
  <2> QED
    BY <1>1, <2>1, <2>2, StepReplaces
<1>2. ASSUME IInv, UNCHANGED vars
      PROVE  IInv'
  BY <1>2 DEF IInv, vars
<1> QED
  BY <1>1, <1>2
-----------------------------------------------------------------------------
(* The theorems.                                                           *)

\* The inductive invariant of a program's keysets, whatever allocations fail.
THEOREM Invariant == Spec => []IInv
<1> QED
  BY InitOK, NextKeeps, PTL DEF Spec

\* The counters of reserve() agree: there is a slot for each key and a block
\* behind ptr_, for all block sizes and sequences of calls.
THEOREM AlwaysAccounted == Spec => []SpaceAccounted
<1>1. IInv => SpaceAccounted
  BY DEF IInv, Good, Accounted, SpaceAccounted
<1> QED
  BY <1>1, Invariant, PTL

\* Every counter is in range, and blocks hold bytes.
THEOREM TypeCorrect == Spec => []TypeOK
<1>1. ASSUME IInv
      PROVE  TypeOK
  <2>1. ASSUME NEW s \in Owners
        PROVE  LET ks == keysets[s]
               IN  /\ ks.base \in Seq(Seq(Nat \cup {Junk})) /\ ks.baseUsed \in 0 .. Len(ks.base)
                   /\ ks.extra \in Seq(Seq(Nat \cup {Junk}))
                   /\ ks.extraUsed \in 0 .. Len(ks.extra)
                   /\ ks.keyBlocksUsed \in 0 .. Len(ks.keyBlocks)
                   /\ ks.avail \in 0 .. BaseSize
                   /\ ks.size \in 0 .. MaxSize /\ ks.totalLength \in Nat
    <3> DEFINE ks == keysets[s]
    <3>1. ks \in KeysetType /\ Sized(ks) /\ Accounted(ks) /\ ks.size <= MaxSize
      BY <1>1 DEF IInv, Good
    <3>2. /\ ks.base \in Seq(Seq(Nat \cup {Junk})) /\ ks.extra \in Seq(Seq(Nat \cup {Junk}))
      BY <3>1, Arrays DEF Bytes
    <3>3. /\ ks.baseUsed \in Nat /\ ks.extraUsed \in Nat /\ ks.keyBlocksUsed \in Nat
          /\ ks.ptr.at \in Nat /\ ks.avail \in Nat /\ ks.size \in Nat
          /\ ks.totalLength \in Nat /\ BaseSize \in Nat /\ MaxSize \in Nat
      BY <3>1, Counters, SizesAssumption
    <3>4. /\ ks.baseUsed <= Len(ks.base) /\ ks.extraUsed <= Len(ks.extra)
          /\ ks.keyBlocksUsed <= Len(ks.keyBlocks) /\ Len(ks.base) \in Nat
          /\ Len(ks.extra) \in Nat /\ Len(ks.keyBlocks) \in Nat
      BY <3>1, Arrays DEF Sized
    <3>5. ks.ptr.at + ks.avail = IF ks.baseUsed = 0 THEN 0 ELSE BaseSize
      BY <3>1 DEF Accounted
    <3> HIDE DEF ks
    <3>6. ks.avail <= BaseSize
      BY <3>3, <3>5
    <3>7. ks.size <= MaxSize
      BY <3>1
    <3> QED
      BY <3>2, <3>3, <3>4, <3>6, <3>7 DEF ks
  <2>2. given.text \in Seq(Nat) /\ given.word \in Nat
    BY <1>1 DEF IInv
  <2> QED
    BY <2>1, <2>2 DEF TypeOK
<1> QED
  BY <1>1, Invariant, PTL

\* No key reaches beyond its block, and no two keys share a byte.
THEOREM KeysStayApart == Spec => []KeysApart
<1>1. ASSUME IInv, NEW s \in Owners
      PROVE  LET ks == keysets[s] IN
             /\ \A i \in 0 .. ks.size - 1 : LET key == KeyAt(ks, i) IN
                  /\ key.in = "none" => key.len = 0
                  /\ key.in = "base" => key.block <= ks.baseUsed /\ key.at + key.len <= BaseSize
                  /\ key.in = "extra" => /\ key.block <= ks.extraUsed
                                         /\ key.at + key.len <= Len(ks.extra[key.block])
             /\ InOrder(ks)
  <2> DEFINE ks == keysets[s]
  <2>1. Good(ks) /\ ks \in KeysetType /\ Accounted(ks)
    BY <1>1 DEF IInv, Good
  <2> HIDE DEF ks
  <2>2. /\ ks.baseUsed \in Nat /\ ks.extraUsed \in Nat /\ ks.ptr.at \in Nat
        /\ ks.avail \in Nat /\ BaseSize \in Nat
    BY <2>1, Counters, SizesAssumption
  <2>3. ks.ptr.at + ks.avail = IF ks.baseUsed = 0 THEN 0 ELSE BaseSize
    BY <2>1 DEF Accounted
  <2>4. ks.ptr.at <= BaseSize
    BY <2>2, <2>3
  <2>5. ASSUME NEW i \in 0 .. ks.size - 1
        PROVE  LET key == KeyAt(ks, i) IN
                /\ key.in = "none" => key.len = 0
                /\ key.in = "base" => key.block <= ks.baseUsed /\ key.at + key.len <= BaseSize
                /\ key.in = "extra" => /\ key.block <= ks.extraUsed
                                       /\ key.at + key.len <= Len(ks.extra[key.block])
    <3> DEFINE key == KeyAt(ks, i)
    <3>1. key \in KeyType /\ KeyFits(ks, key)
      BY <2>1 DEF Good, KeysFit
    <3>2. key.block \in Nat /\ key.at \in Nat /\ key.len \in Nat
      BY <3>1, KeyFields
    <3> HIDE DEF key
    <3>3. key.in = "none" => key.len = 0
      BY <3>1 DEF KeyFits
    <3>4. ASSUME key.in = "base"
          PROVE  key.block <= ks.baseUsed /\ key.at + key.len <= BaseSize
      <4>1. /\ key.block \in 1 .. ks.baseUsed
            /\ key.block = ks.baseUsed => key.at + key.len <= ks.ptr.at
            /\ key.block # ks.baseUsed => key.at + key.len <= BaseSize
        BY <3>1, <3>4 DEF KeyFits
      <4> QED
        BY <2>2, <2>4, <3>2, <4>1
    <3>5. ASSUME key.in = "extra"
          PROVE  key.block <= ks.extraUsed /\ key.at + key.len <= Len(ks.extra[key.block])
      <4>1. key.block \in 1 .. ks.extraUsed /\ key.at = 0 /\ key.len <= Len(ks.extra[key.block])
        BY <3>1, <3>5 DEF KeyFits
      <4>2. key.at + key.len = key.len
        BY <3>2, <4>1
      <4> QED
        BY <2>2, <4>1, <4>2
    <3> QED
      BY <3>3, <3>4, <3>5 DEF key
  <2> QED
    BY <2>1, <2>5 DEF ks, Good
<1>2. ASSUME IInv
      PROVE  KeysApart
  <2>1. ASSUME NEW s \in Owners, NEW i \in DOMAIN Keys(keysets[s])
        PROVE  LET ks == keysets[s]  key == Keys(ks)[i] IN
                /\ key.in = "none" => key.len = 0
                /\ key.in = "base" => key.block <= ks.baseUsed /\ key.at + key.len <= BaseSize
                /\ key.in = "extra" => /\ key.block <= ks.extraUsed
                                       /\ key.at + key.len <= Len(ks.extra[key.block])
    <3>1. i \in 0 .. keysets[s].size - 1 /\ Keys(keysets[s])[i] = KeyAt(keysets[s], i)
      BY <2>1 DEF Keys
    <3> QED
      BY <1>1, <1>2, <3>1
  <2>2. ASSUME NEW s \in Owners, NEW i \in DOMAIN Keys(keysets[s]),
               NEW j \in DOMAIN Keys(keysets[s])
        PROVE  LET k == Keys(keysets[s])[i]  l == Keys(keysets[s])[j] IN
               i < j /\ k.in = l.in /\ k.block = l.block => k.at + k.len <= l.at
    <3>1. /\ i \in 0 .. keysets[s].size - 1 /\ Keys(keysets[s])[i] = KeyAt(keysets[s], i)
          /\ j \in 0 .. keysets[s].size - 1 /\ Keys(keysets[s])[j] = KeyAt(keysets[s], j)
      BY <2>2 DEF Keys
    <3>2. InOrder(keysets[s])
      BY <1>1, <1>2
    <3> QED
      BY <3>1, <3>2 DEF InOrder
  <2> QED
    BY <2>1, <2>2 DEF KeysApart
<1> QED
  BY <1>2, Invariant, PTL

\* A key that is there is neither moved nor rewritten by a push_back().
THEOREM KeysStayAlways == Spec => KeysStay
<1> DEFINE Stays(s) ==
      keysets'[s].size > keysets[s].size =>
        \/ \A i \in DOMAIN Keys(keysets[s]) :
             /\ KeyAt(keysets'[s], i) = KeyAt(keysets[s], i)
             /\ Said(keysets'[s], KeyAt(keysets'[s], i))
                  = Said(keysets[s], KeyAt(keysets[s], i))
        \/ \E t \in Owners : keysets'[s] = keysets[t]
<1>1. ASSUME IInv, NEW s \in Owners, NEW k, Replaced(s, k), NEW t \in Owners
      PROVE  Stays(t)
  <2>1. keysets' = [keysets EXCEPT ![s] = k] /\ keysets \in [Owners -> KeysetType]
        /\ Good(keysets[s]) /\ Good(k) /\ k \in KeysetType /\ Accounted(k)
    BY <1>1 DEF Replaced, IInv, Good
  <2>2. CASE t # s
    <3>1. keysets'[t] = keysets[t]
      BY <2>1, <2>2
    <3> QED
      BY <3>1
  <2>3. CASE t = s
    <3>1. keysets'[s] = k
      BY <2>1
    <3>2. keysets[s].size \in Nat
      BY <2>1, Counters
    <3>3. CASE Extends(keysets[s], k)
      <4>1. ASSUME NEW i \in DOMAIN Keys(keysets[s])
            PROVE  /\ KeyAt(k, i) = KeyAt(keysets[s], i)
                   /\ Said(k, KeyAt(k, i)) = Said(keysets[s], KeyAt(keysets[s], i))
        <5>1. i \in 0 .. keysets[s].size - 1
          BY <4>1 DEF Keys
        <5> QED
          BY <2>1, <3>3, <5>1, KeysOfExtended
      <4> QED
        BY <2>3, <3>1, <4>1
    <3>4. CASE k.size = 0
      <4>1. ~(k.size > keysets[s].size)
        BY <3>2, <3>4
      <4> QED
        BY <2>3, <3>1, <4>1
    <3> QED
      BY <1>1, <3>3, <3>4 DEF Replaced, Pushes
  <2> QED
    BY <2>2, <2>3
<1>2. ASSUME IInv, NEW s \in Owners, NEW t \in Owners, Swap(s, t), NEW r \in Owners
      PROVE  Stays(r)
  <2>1. \E q \in Owners : keysets'[r] = keysets[q]
    BY <1>2 DEF Swap, IInv
  <2> QED
    BY <2>1
<1>3. ASSUME UNCHANGED vars, NEW s \in Owners
      PROVE  Stays(s)
  BY <1>3 DEF vars
<1> HIDE DEF Stays
<1>4. IInv /\ [Next]_vars => \A s \in Owners : Stays(s)
  BY <1>1, <1>2, <1>3, StepReplaces
<1>5. IInv /\ [Next]_vars => [\A s \in Owners : Stays(s)]_vars
  BY <1>4
<1> USE DEF Stays
<1> QED
  BY <1>5, Invariant, PTL DEF Spec, KeysStay
-----------------------------------------------------------------------------
(* The refinement.                                                         *)

\* What KeySequence sees of a keyset.
Held(ks) ==
  [i \in 1 .. ks.size |->
     LET key == KeyAt(ks, i - 1)
     IN  [text |-> Said(ks, key), word |-> key.word]]

AllHeld == [s \in Owners |-> Held(keysets[s])]

\* With more room, a keyset holds what it held.
LEMMA HeldExtended ==
  ASSUME NEW ks, NEW k, Good(ks), Good(k), Extends(ks, k),
         NEW i \in 1 .. ks.size
  PROVE  Held(ks)[i] = [text |-> Said(k, KeyAt(k, i - 1)), word |-> KeyAt(k, i - 1).word]
<1>1. ks.size \in Nat /\ k \in KeysetType /\ Accounted(k)
  BY Counters DEF Good
<1>2. i - 1 \in 0 .. ks.size - 1
  BY <1>1
<1>3. KeyAt(k, i - 1) = KeyAt(ks, i - 1)
      /\ Said(k, KeyAt(k, i - 1)) = Said(ks, KeyAt(ks, i - 1))
  BY <1>1, <1>2, KeysOfExtended
<1> QED
  BY <1>3 DEF Held

\* A push_back() appends a key to what is held.
LEMMA HeldPushed ==
  ASSUME NEW ks, NEW k, NEW text, NEW word, Good(ks), Pushes(ks, k, text, word)
  PROVE  Held(k) = Append(Held(ks), [text |-> text, word |-> word])
<1> DEFINE new == [text |-> text, word |-> word]
           old == Held(ks)
<1>1. ks.size \in Nat /\ k.size = ks.size + 1 /\ Good(k) /\ Extends(ks, k)
  BY Counters DEF Good, Pushes
<1>2. KeyAt(k, ks.size).word = word /\ Said(k, KeyAt(k, ks.size)) = text
  BY DEF Pushes
<1>3. DOMAIN old = 1 .. ks.size /\ Len(old) = ks.size
  <2>1. DOMAIN old = 1 .. ks.size
    BY DEF Held
  <2> QED
    BY <1>1, <2>1
<1>4. \A i \in 1 .. ks.size :
        old[i] = [text |-> Said(k, KeyAt(k, i - 1)), word |-> KeyAt(k, i - 1).word]
  BY <1>1, HeldExtended
<1>8. old = [i \in 1 .. ks.size |-> old[i]]
  BY DEF Held
<1> HIDE DEF old, new
<1>5. Append(old, new) = [i \in 1 .. ks.size + 1 |-> IF i = ks.size + 1 THEN new ELSE old[i]]
  <2> DEFINE S == {old[i] : i \in 1 .. ks.size} \cup {new}
  <2>1. old = [i \in 1 .. ks.size |-> old[i]]
    BY <1>8
  <2>2. new \in S /\ \A i \in 1 .. ks.size : old[i] \in S
    OBVIOUS
  <2> HIDE DEF S
  <2>3. old \in [1 .. ks.size -> S]
    BY <2>1, <2>2
  <2>4. old \in Seq(S)
    BY <1>1, <2>3
  <2>5. /\ Append(old, new) \in Seq(S)
        /\ Len(Append(old, new)) = ks.size + 1
        /\ \A i \in 1 .. ks.size : Append(old, new)[i] = old[i]
        /\ Append(old, new)[ks.size + 1] = new
    BY <1>1, <1>3, <2>2, <2>4
  <2>6. DOMAIN Append(old, new) = 1 .. ks.size + 1
    BY <2>5
  <2>7. \A i \in 1 .. ks.size + 1 :
          Append(old, new)[i] = IF i = ks.size + 1 THEN new ELSE old[i]
    BY <1>1, <2>5
  <2> DEFINE longer == Append(old, new)
  <2>8. longer \in [1 .. Len(longer) -> S]
    <3>1. longer \in Seq(S)
      BY <2>5
    <3> HIDE DEF longer
    <3> QED
      BY <3>1
  <2> HIDE DEF longer
  <2>9. longer = [i \in 1 .. Len(longer) |-> longer[i]]
    BY <2>8
  <2> USE DEF longer
  <2> QED
    BY <2>5, <2>6, <2>7, <2>9
<1>6. ASSUME NEW i \in 1 .. ks.size + 1
      PROVE  [text |-> Said(k, KeyAt(k, i - 1)), word |-> KeyAt(k, i - 1).word]
               = IF i = ks.size + 1 THEN new ELSE old[i]
  <2>1. CASE i = ks.size + 1
    <3>1. i - 1 = ks.size
      BY <1>1, <2>1
    <3> QED
      BY <1>2, <2>1, <3>1 DEF new
  <2>2. CASE i # ks.size + 1
    <3>1. i \in 1 .. ks.size
      BY <1>1, <2>2
    <3> QED
      BY <1>4, <2>2, <3>1
  <2> QED
    BY <2>1, <2>2
<1>7. Held(k) = [i \in 1 .. ks.size + 1 |-> IF i = ks.size + 1 THEN new ELSE old[i]]
  BY <1>1, <1>6 DEF Held
<1> QED
  BY <1>5, <1>7 DEF old, new

\* As long as no key is added, the same is held.
LEMMA HeldKept ==
  ASSUME NEW ks, NEW k, Good(ks), Good(k), Extends(ks, k), k.size = ks.size
  PROVE  Held(k) = Held(ks)
<1>1. \A i \in 1 .. ks.size :
        Held(ks)[i] = [text |-> Said(k, KeyAt(k, i - 1)), word |-> KeyAt(k, i - 1).word]
  BY HeldExtended
<1>2. \A i \in 1 .. ks.size :
        Held(k)[i] = [text |-> Said(k, KeyAt(k, i - 1)), word |-> KeyAt(k, i - 1).word]
  BY DEF Held
<1> QED
  BY <1>1, <1>2 DEF Held

\* An empty keyset holds nothing.
LEMMA HeldEmpty == \A ks : ks.size = 0 => Held(ks) = <<>>
<1> SUFFICES ASSUME NEW ks, ks.size = 0 PROVE Held(ks) = <<>>
  OBVIOUS
<1>1. 1 .. ks.size = {}
  OBVIOUS
<1> QED
  BY <1>1 DEF Held

\* One keyset replaced: one entry of what is held is.
LEMMA HeldReplaced ==
  ASSUME IInv, NEW s \in Owners, NEW k, keysets' = [keysets EXCEPT ![s] = k]
  PROVE  AllHeld' = [AllHeld EXCEPT ![s] = Held(k)]
<1>1. \A t \in Owners : keysets'[t] = IF t = s THEN k ELSE keysets[t]
  BY DEF IInv
<1>2. AllHeld' = [t \in Owners |-> Held(keysets'[t])]
  BY DEF AllHeld, Held, KeyAt, Said
<1>3. AllHeld = [t \in Owners |-> Held(keysets[t])]
  BY DEF AllHeld
<1>4. \A t \in Owners : Held(keysets'[t]) = IF t = s THEN Held(k) ELSE Held(keysets[t])
  BY <1>1
<1> HIDE DEF AllHeld, Held
<1> QED
  BY <1>2, <1>3, <1>4, Zenon

\* Whatever its blocks and whichever allocations fail, a keyset is the
\* sequence of the keys it was given.
THEOREM Refinement == Spec => KeepsKeys
<1>1. Init => Sequence!Init
  <2> SUFFICES ASSUME Init PROVE AllHeld = [s \in Owners |-> <<>>]
    BY DEF Sequence!Init, AllHeld, Held
  <2>1. EmptyKeyset.size = 0
    BY EmptyOK
  <2> QED
    BY <2>1, HeldEmpty DEF Init, AllHeld
<1>2. ASSUME IInv, NEW s \in Owners, NEW k, Replaced(s, k)
      PROVE  [Sequence!Next]_<<AllHeld, given>>
  <2>1. AllHeld' = [AllHeld EXCEPT ![s] = Held(k)]
    BY <1>2, HeldReplaced DEF Replaced
  <2>2. Good(keysets[s]) /\ Good(k)
    BY <1>2 DEF IInv, Replaced
  <2>3. CASE /\ Pushes(keysets[s], k, given'.text, given'.word)
             /\ given' \in [text : Seq(Nat), word : Nat]
    <3>1. given' = [text |-> given'.text, word |-> given'.word]
      BY <2>3
    <3>2. Held(k) = Append(Held(keysets[s]), given')
      BY <2>2, <2>3, <3>1, HeldPushed
    <3>3. AllHeld' = [AllHeld EXCEPT ![s] = Append(AllHeld[s], given')]
      BY <2>1, <3>2 DEF AllHeld
    <3>4. Sequence!PushBack(s)
      BY <3>3 DEF Sequence!PushBack, AllHeld, Held
    <3> QED
      BY <3>4 DEF Sequence!Next
  <2>4. CASE Extends(keysets[s], k) /\ k.size = keysets[s].size /\ UNCHANGED given
    <3>1. Held(k) = Held(keysets[s])
      BY <2>2, <2>4, HeldKept
    <3>2. UNCHANGED AllHeld
      BY <2>1, <3>1 DEF AllHeld
    <3> QED
      BY <2>4, <3>2
  <2>5. CASE k.size = 0 /\ UNCHANGED given
    <3>1. Held(k) = <<>>
      BY <2>5, HeldEmpty
    <3>2. Sequence!Empty(s)
      BY <2>1, <2>5, <3>1 DEF Sequence!Empty, AllHeld, Held
    <3> QED
      BY <3>2 DEF Sequence!Next
  <2> QED
    BY <1>2, <2>3, <2>4, <2>5 DEF Replaced
<1>3. ASSUME IInv, NEW s \in Owners, NEW t \in Owners, Swap(s, t)
      PROVE  [Sequence!Next]_<<AllHeld, given>>
  <2>1. AllHeld' = [r \in Owners |-> Held(keysets'[r])]
    BY DEF AllHeld, Held, KeyAt, Said
  <2>2. \A r \in Owners :
          keysets'[r] = IF r = t THEN keysets[s] ELSE IF r = s THEN keysets[t] ELSE keysets[r]
    BY <1>3 DEF Swap, IInv
  <2>3. AllHeld' = [AllHeld EXCEPT ![s] = AllHeld[t], ![t] = AllHeld[s]]
    BY <2>1, <2>2 DEF AllHeld
  <2>4. Sequence!Swap(s, t)
    BY <1>3, <2>3 DEF Sequence!Swap, Swap, AllHeld, Held
  <2> QED
    BY <2>4 DEF Sequence!Next
<1>4. ASSUME UNCHANGED vars
      PROVE  UNCHANGED <<AllHeld, given>>
  BY <1>4 DEF vars, AllHeld, Held, KeyAt, Said
<1>5. IInv /\ [Next]_vars => [Sequence!Next]_<<AllHeld, given>>
  BY <1>2, <1>3, <1>4, StepReplaces
<1> QED
  BY <1>1, <1>5, Invariant, PTL DEF Spec, KeepsKeys, Sequence!Spec, AllHeld, Held
=============================================================================
