---------------------------- MODULE KeysetBlocks ----------------------------
(***************************************************************************)
(* Keyset: an allocator.  Keys live in key blocks; their bytes are packed  *)
(* into base blocks, and a key longer than ExtraSize gets an extra block   *)
(* of its own.  reset() forgets the keys but keeps all blocks; base blocks *)
(* and key blocks are used again, extra blocks replaced.  A key is a       *)
(* pointer and a length, so what it says is what its bytes say now.        *)
(*                                                                         *)
(* A block of bytes is the sequence of its bytes, an array of blocks the   *)
(* sequence of its slots up to its capacity.  Any allocation may fail; the *)
(* call then throws from the middle of reserve().                          *)
(***************************************************************************)
EXTENDS Integers, Sequences

CONSTANTS
  Owners,          \* the keysets of a program
  BaseSize,        \* BASE_BLOCK_SIZE
  ExtraSize,       \* EXTRA_BLOCK_SIZE
  KeyBlockSize,    \* KEY_BLOCK_SIZE
  Texts, Words,    \* what may be pushed
  Lengths,         \* lengths a caller may give with a text
  MaxSize          \* bound: keys in a keyset

NUL == 0

ASSUME SizesAssumption ==
  /\ KeyBlockSize \in Nat \ {0}
  /\ ExtraSize \in Nat \ {0}
  /\ BaseSize \in Nat /\ ExtraSize <= BaseSize
  /\ MaxSize \in Nat

ASSUME InputsAssumption ==
  Texts \subseteq Seq(Nat) /\ Words \subseteq Nat /\ Lengths \subseteq Int

VARIABLES
  keysets,         \* the state of each Keyset
  given            \* history: the key the last push_back() was asked to add

vars == <<keysets, given>>

\* A slot of an array that has no block, and a byte never written.
NoBlock == <<>>
Junk == -1

\* Key::Key()
NoKey == [in |-> "none", block |-> 0, at |-> 0, len |-> 0, word |-> 0]

\* Keyset::Keyset()
EmptyKeyset ==
  [base |-> <<>>, baseUsed |-> 0, extra |-> <<>>, extraUsed |-> 0,
   keyBlocks |-> <<>>, keyBlocksUsed |-> 0,
   ptr |-> [block |-> 0, at |-> 0], avail |-> 0, size |-> 0, totalLength |-> 0]

Fresh(size) == [i \in 1 .. size |-> Junk]

\* The i-th key, counted from 0.
KeyAt(ks, i) ==
  ks.keyBlocks[i \div KeyBlockSize + 1][(i % KeyBlockSize) + 1]

\* What a key says: the bytes behind its pointer, now.  Outside of all blocks
\* there is only Junk.
Said(ks, key) ==
  LET blocks == IF key.in = "extra" THEN ks.extra ELSE ks.base
      block == IF key.block \in DOMAIN blocks THEN blocks[key.block] ELSE NoBlock
  IN  [i \in 1 .. key.len |->
        IF key.at + i \in DOMAIN block THEN block[key.at + i] ELSE Junk]
-----------------------------------------------------------------------------

\* An array that is full is doubled; the blocks it holds move over.
Grown(array, used) ==
  IF used < Len(array) THEN array
  ELSE array \o [i \in 1 .. (IF used # 0 THEN used ELSE 1) |-> NoBlock]

NeedsKeyBlock(ks) == ks.size \div KeyBlockSize = ks.keyBlocksUsed

\* append_key_block()
WithKeyBlock(ks) ==
  [ks EXCEPT
     !.keyBlocks = [Grown(@, ks.keyBlocksUsed) EXCEPT
                      ![ks.keyBlocksUsed + 1] = [i \in 1 .. KeyBlockSize |-> NoKey]],
     !.keyBlocksUsed = @ + 1]

\* append_extra_block(): a block that is already there is replaced.
WithExtraBlock(ks, size) ==
  [ks EXCEPT
     !.extra = [Grown(@, ks.extraUsed) EXCEPT ![ks.extraUsed + 1] = Fresh(size)],
     !.extraUsed = @ + 1]

\* Mutant: does not count the block.
SameBaseBlock(ks) ==
  [ks EXCEPT
     !.base = IF @ = <<>> THEN <<Fresh(BaseSize)>> ELSE @,
     !.baseUsed = 1,
     !.ptr = [block |-> 1, at |-> 0],
     !.avail = BaseSize]

\* append_base_block(): a block that is already there is used again.
WithBaseBlock(ks) ==
  LET block == ks.baseUsed + 1
      array == Grown(ks.base, ks.baseUsed)
  IN  [ks EXCEPT
         !.base = IF array[block] = NoBlock
                  THEN [array EXCEPT ![block] = Fresh(BaseSize)] ELSE array,
         !.baseUsed = block,
         !.ptr = [block |-> block, at |-> 0],
         !.avail = BaseSize]

\* Mutant: takes a key one byte too long for what is left of the block.
NeedsBaseBlockLate(ks, size) == size > ks.avail + 1

NeedsBaseBlock(ks, size) == size > ks.avail

WithKeySlot(ks) == IF NeedsKeyBlock(ks) THEN WithKeyBlock(ks) ELSE ks

\* Mutant: the space is not taken.
TakenTwice(ks, size) == [ks EXCEPT !.ptr.at = @ + size]

Taken(ks, size) == [ks EXCEPT !.ptr.at = @ + size, !.avail = @ - size]

\* reserve(): the keyset with room for one key more and size bytes for it.
Reserved(ks, size) ==
  LET k == WithKeySlot(ks)
  IN  IF size > ExtraSize THEN WithExtraBlock(k, size)
      ELSE Taken(IF NeedsBaseBlock(k, size) THEN WithBaseBlock(k) ELSE k, size)

\* The pointer it returns.
Place(ks, size) ==
  IF size > ExtraSize THEN [in |-> "extra", block |-> ks.extraUsed, at |-> 0]
  ELSE [in |-> IF ks.ptr.block = 0 THEN "none" ELSE "base",
        block |-> ks.ptr.block, at |-> ks.ptr.at - size]

\* What reserve() leaves behind when an allocation fails: the array may have
\* been doubled, and the key block may have been added.
Failures(ks, size) ==
  LET k == WithKeySlot(ks)
      next == ks.baseUsed + 1
  IN  (IF NeedsKeyBlock(ks)
       THEN {ks, [ks EXCEPT !.keyBlocks = Grown(@, ks.keyBlocksUsed)]} ELSE {})
      \cup
      (IF size > ExtraSize
       THEN {k, [k EXCEPT !.extra = Grown(@, ks.extraUsed)]}
       ELSE IF NeedsBaseBlock(k, size)
               /\ Grown(ks.base, ks.baseUsed)[next] = NoBlock
       THEN {k, [k EXCEPT !.base = Grown(@, ks.baseUsed)]} ELSE {})

\* A block with bytes put in from offset at on.
Over(block, at, bytes) ==
  [i \in DOMAIN block |->
     IF i - at \in DOMAIN bytes THEN bytes[i - at] ELSE block[i]]

\* push_back(): room, the bytes, and a key that points at the first len.
Pushed(ks, bytes, len, word) ==
  LET room == Reserved(ks, Len(bytes))
      place == Place(room, Len(bytes))
      key == [in |-> place.in, block |-> place.block, at |-> place.at,
              len |-> len, word |-> word]
      inBlock == ks.size \div KeyBlockSize + 1
      inSlot == (ks.size % KeyBlockSize) + 1
      keyed == [room EXCEPT !.keyBlocks[inBlock][inSlot] = key,
                            !.size = @ + 1, !.totalLength = @ + len]
  IN  CASE place.in = "none"  -> keyed
        [] place.in = "base"  ->
             [keyed EXCEPT !.base[place.block] = Over(@, place.at, bytes)]
        [] place.in = "extra" ->
             [keyed EXCEPT !.extra[place.block] = Over(@, place.at, bytes)]
-----------------------------------------------------------------------------
Init ==
  /\ keysets = [s \in Owners |-> EmptyKeyset]
  /\ given = [text |-> <<>>, word |-> 0]

PushBack(s, bytes, len, word) ==
  /\ keysets[s].size < MaxSize
  /\ \/ /\ keysets' = [keysets EXCEPT ![s] = Pushed(@, bytes, len, word)]
        /\ given' = [text |-> SubSeq(bytes, 1, len), word |-> word]
     \/ /\ \E left \in Failures(keysets[s], Len(bytes)) :
             keysets' = [keysets EXCEPT ![s] = left]
        /\ UNCHANGED given

\* Is this the length of a text as a C string, which ends at its first NUL?
EndsAt(text, n) ==
  /\ n = Len(text) \/ text[n + 1] = NUL
  /\ \A i \in 1 .. n : text[i] # NUL

\* push_back(string)
PushText(s) ==
  \E text \in Texts : \E len \in {n \in 0 .. Len(text) : EndsAt(text, n)} :
    PushBack(s, SubSeq(text, 1, len), len, 1)

\* push_back(string, length, weight): a length that makes no sense is all.
PushSlice(s) ==
  \E text \in Texts, length \in Lengths, weight \in Words :
    LET len == IF length < 0 \/ length > Len(text) THEN Len(text) ELSE length
    IN  PushBack(s, SubSeq(text, 1, len), len, weight)

\* push_back(key): a key of any keyset, with its word as it is.
PushKey(s) ==
  \E r \in Owners : \E i \in 0 .. keysets[r].size - 1 :
    LET key == KeyAt(keysets[r], i)
    IN  PushBack(s, Said(keysets[r], key), key.len, key.word)

\* push_back(key, end_marker)
PushMarked(s) ==
  \E r \in Owners : \E i \in 0 .. keysets[r].size - 1 :
    LET key == KeyAt(keysets[r], i)
    IN  PushBack(s, Append(Said(keysets[r], key), NUL), key.len, key.word)

\* Mutant: goes on writing where the last key ended.
ResetKeepsPtr(s) ==
  /\ keysets' = [keysets EXCEPT ![s].baseUsed = 0, ![s].extraUsed = 0,
                   ![s].size = 0, ![s].totalLength = 0]
  /\ UNCHANGED given

\* key_blocks_size_ and all blocks stay.  What they held is poisoned here:
\* whoever reads a byte or a key before writing it reads Junk or NoKey.
Reset(s) ==
  /\ keysets' = [keysets EXCEPT
       ![s].base = [b \in DOMAIN @ |-> Fresh(Len(@[b]))], ![s].baseUsed = 0,
       ![s].extra = [b \in DOMAIN @ |-> Fresh(Len(@[b]))], ![s].extraUsed = 0,
       ![s].keyBlocks = [b \in DOMAIN @ |-> [i \in DOMAIN @[b] |-> NoKey]],
       ![s].ptr = [block |-> 0, at |-> 0], ![s].avail = 0,
       ![s].size = 0, ![s].totalLength = 0]
  /\ UNCHANGED given

Clear(s) ==
  /\ keysets' = [keysets EXCEPT ![s] = EmptyKeyset]
  /\ UNCHANGED given

\* Mutant: forgets ptr_ and avail_.
SwapKeepsPtr(s, t) ==
  /\ keysets' = [keysets EXCEPT
       ![s] = [keysets[t] EXCEPT !.ptr = keysets[s].ptr, !.avail = keysets[s].avail],
       ![t] = [keysets[s] EXCEPT !.ptr = keysets[t].ptr, !.avail = keysets[t].avail]]
  /\ UNCHANGED given

Swap(s, t) ==
  /\ keysets' = [keysets EXCEPT ![s] = keysets[t], ![t] = keysets[s]]
  /\ UNCHANGED given

Next ==
  \/ \E s \in Owners :
       \/ PushText(s) \/ PushSlice(s) \/ PushKey(s) \/ PushMarked(s)
       \/ Reset(s) \/ Clear(s)
  \/ \E s, t \in Owners : Swap(s, t)

Spec == Init /\ [][Next]_vars
-----------------------------------------------------------------------------
Keys(ks) == [i \in 0 .. ks.size - 1 |-> KeyAt(ks, i)]

\* Type invariant.
TypeOK ==
  /\ \A s \in Owners :
       LET ks == keysets[s]
           Blocks(array) == array \in Seq(Seq(Nat \cup {Junk}))
       IN  /\ Blocks(ks.base) /\ ks.baseUsed \in 0 .. Len(ks.base)
           /\ Blocks(ks.extra) /\ ks.extraUsed \in 0 .. Len(ks.extra)
           /\ ks.keyBlocksUsed \in 0 .. Len(ks.keyBlocks)
           /\ ks.avail \in 0 .. BaseSize
           /\ ks.size \in 0 .. MaxSize /\ ks.totalLength \in Nat
  /\ given.text \in Seq(Nat) /\ given.word \in Nat

\* The counters of reserve() agree, through resets and failed allocations:
\* there is a slot for every key, ptr_ and avail_ together are the block in
\* use, and whatever is counted as used has been allocated.
SpaceAccounted ==
  \A s \in Owners : LET ks == keysets[s] IN
    /\ ks.size <= ks.keyBlocksUsed * KeyBlockSize
    /\ \A b \in 1 .. ks.keyBlocksUsed : Len(ks.keyBlocks[b]) = KeyBlockSize
    /\ \A b \in 1 .. ks.baseUsed : Len(ks.base[b]) = BaseSize
    /\ \A b \in 1 .. ks.extraUsed : Len(ks.extra[b]) > ExtraSize
    /\ ks.ptr.block = ks.baseUsed
    /\ ks.ptr.at + ks.avail = IF ks.baseUsed = 0 THEN 0 ELSE BaseSize

\* No key reaches beyond its block, and no two keys share a byte.
KeysApart ==
  \A s \in Owners : LET ks == keysets[s] IN
    /\ \A i \in DOMAIN Keys(ks) : LET key == Keys(ks)[i] IN
         /\ key.in = "none" => key.len = 0
         /\ key.in = "base" => key.block <= ks.baseUsed /\ key.at + key.len <= BaseSize
         /\ key.in = "extra" => /\ key.block <= ks.extraUsed
                                /\ key.at + key.len <= Len(ks.extra[key.block])
    /\ \A i, j \in DOMAIN Keys(ks) : LET k == Keys(ks)[i] l == Keys(ks)[j] IN
         i < j /\ k.in = l.in /\ k.block = l.block => k.at + k.len <= l.at

\* Key objects and built tries hold pointers to keys and into blocks: adding
\* keys must not move or rewrite what is there.
KeysStay ==
  [][\A s \in Owners : keysets'[s].size > keysets[s].size =>
       \/ \A i \in DOMAIN Keys(keysets[s]) :
            /\ KeyAt(keysets'[s], i) = KeyAt(keysets[s], i)
            /\ Said(keysets'[s], KeyAt(keysets'[s], i))
                 = Said(keysets[s], KeyAt(keysets[s], i))
       \/ \E t \in Owners : keysets'[s] = keysets[t]]_vars

Sequence == INSTANCE KeySequence WITH
  contents <- [s \in Owners |->
    [i \in 1 .. keysets[s].size |->
       LET key == KeyAt(keysets[s], i - 1)
       IN  [text |-> Said(keysets[s], key), word |-> key.word]]]

\* A keyset is a sequence of the keys it was given, whatever happens to its
\* blocks.
KeepsKeys == Sequence!Spec
=============================================================================
