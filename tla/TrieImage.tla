----------------------------- MODULE TrieImage -----------------------------
(***************************************************************************)
(* A trie as bytes: what LoudsTrie::write_ puts into a file and what read_ *)
(* and map_ make of it.                                                    *)
(*                                                                         *)
(* In memory a level of the trie is a function from the names of its parts *)
(* to their values, and it is made from what TrieBuild has built.  A file  *)
(* is a sequence of items, one for each call of Writer::write or seek:     *)
(* what it holds and how many bytes that takes.                            *)
(***************************************************************************)
EXTENDS TrieBuild, VectorLayout
LOCAL INSTANCE SequencesExt

Word == 64

\* A unit is the set of its bits that are 1, out of all that are.
Unit(ones, u) == {b \in 1 .. Word : (u - 1) * Word + b \in ones}

\* The bits that push_back() has put into 64-bit units.
Units(bits) ==
  LET ones == {i \in DOMAIN bits : bits[i]}
  IN  [u \in 1 .. (Len(bits) + Word - 1) \div Word |-> Unit(ones, u)]

\* A BitVector field that was not built: end_flags_, and terminal_flags_ of
\* the later tries.
Pushed(f, bits) ==
  (<<f, "units">> :> Units(bits)) @@ (<<f, "size">> :> Len(bits)) @@
  (<<f, "num_1s">> :> Ones(bits)) @@ (<<f, "ranks">> :> <<>>) @@
  (<<f, "select0s">> :> <<>>) @@ (<<f, "select1s">> :> <<>>)

\* Where every 512th of the bits of a kind is, and the size.
Samples(bits, kind) ==
  LET count == IF kind THEN Ones(bits) ELSE Zeros(bits)
      Select(i) == IF kind THEN Select1(bits, i) ELSE Select0(bits, i)
  IN  Append([i \in 1 .. (count + 511) \div 512 |-> Select((i - 1) * 512)], Len(bits))

\* build_index(): a count for every block of 512 bits, and one more.  A
\* RankIndex also holds counts for the units of its block, which these imply.
Indexed(f, bits, enablesSelect0, enablesSelect1) ==
  LET blocks == (Len(bits) + 511) \div 512
  IN  (<<f, "ranks">> :> [i \in 1 .. blocks + 1 |->
         [abs |-> IF i > blocks THEN Ones(bits) ELSE Rank1(bits, (i - 1) * 512)]]) @@
      (<<f, "select0s">> :>
         IF enablesSelect0 THEN Samples(bits, FALSE) ELSE <<>>) @@
      (<<f, "select1s">> :>
         IF enablesSelect1 THEN Samples(bits, TRUE) ELSE <<>>) @@
      Pushed(f, bits)

\* A FlatVector field: value after value, the lowest bit first.
Packed(f, list) ==
  LET size == ValueSize(list)
      ones == {i \in 1 .. size * Len(list) :
                 (list[(i - 1) \div size + 1] \div 2 ^ ((i - 1) % size)) % 2 = 1}
  IN
  (<<f, "units">> :>
     [u \in 1 .. NumUnits(list, Word, 1) |-> Unit(ones, u)]) @@
  (<<f, "value_size">> :> ValueSize(list)) @@
  (<<f, "mask">> :> 2 ^ ValueSize(list) - 1) @@ (<<f, "size">> :> Len(list))

\* Config::flags(): what a trie keeps of its settings, which does not include
\* the size of the cache.
Flags(tries, tailMode, nodeOrder) ==
  tries + (IF tailMode = "text" THEN 4096 ELSE 8192) +
  (IF nodeOrder = "label" THEN 65536 ELSE 131072)

\* MARISA_INVALID_EXTRA
InvalidExtra == 2 ^ 24 - 1

\* MARISA_UINT32_MAX, beyond what TLC can count to.
NoNode == -1

\* An element of the cache as fill_cache() leaves it.  An empty one keeps the
\* bits of its weight, FLT_MIN, where others have a base and an extra.
CacheElement(slot) ==
  IF ~slot.used
  THEN [parent |-> NoNode, child |-> NoNode, base |-> 0, extra |-> 2 ^ 15]
  ELSE [parent |-> slot.parent, child |-> slot.child, base |-> slot.base,
        extra |-> IF slot.link THEN slot.extra ELSE InvalidExtra]

\* Level l of the finished trie.  Only the last level can have a tail, and
\* Tail::mode() calls a tail without end flags a text tail.
Level(l) ==
  LET t == trie[l]
      hasTail == l = Len(trie)
      ends == IF hasTail THEN tail.ends ELSE <<>>
      slots == [s \in 1 .. Cardinality(DOMAIN t.cache) |-> CacheElement(t.cache[s - 1])]
  IN  Indexed("louds", t.louds, l = 1, TRUE) @@
      (IF l = 1 THEN Indexed("terminal_flags", terminalFlags, FALSE, TRUE)
                ELSE Pushed("terminal_flags", <<>>)) @@
      Indexed("link_flags", t.linkFlags, FALSE, FALSE) @@
      (<<"bases", "data">> :> t.bases) @@
      Packed("extras", t.extras) @@
      (<<"tail", "buf">> :> IF hasTail THEN tail.buf ELSE <<>>) @@
      Pushed("end_flags", ends) @@
      (<<"cache", "slots">> :> slots) @@
      (<<"trie", "num_l1_nodes">> :> t.numL1) @@
      (<<"trie", "flags">> :>
         Flags(Len(trie) - l + 1, IF tail.ends = <<>> THEN "text" ELSE "binary",
               setting.nodeOrder))

Levels == [l \in DOMAIN trie |-> Level(l)]
-----------------------------------------------------------------------------
\* A part of a level: an array of elements, or one number, of so many bytes.
Array(f, part, bytes) == [name |-> <<f, part>>, array |-> TRUE, bytes |-> bytes]

Number(f, part, bytes) == [name |-> <<f, part>>, array |-> FALSE, bytes |-> bytes]

BitVectorParts(f) ==
  << Array(f, "units", 8), Number(f, "size", 4), Number(f, "num_1s", 4),
     Array(f, "ranks", 12), Array(f, "select0s", 4), Array(f, "select1s", 4) >>

FlatVectorParts(f) ==
  << Array(f, "units", 8), Number(f, "value_size", 4), Number(f, "mask", 4),
     Number(f, "size", 8) >>

TailParts == <<Array("tail", "buf", 1)>> \o BitVectorParts("end_flags")

\* write_(), in front of the next trie.
FrontWritten ==
  BitVectorParts("louds") \o BitVectorParts("terminal_flags") \o
  BitVectorParts("link_flags") \o <<Array("bases", "data", 1)>> \o
  FlatVectorParts("extras") \o TailParts

\* read_(), in front of the next trie.
FrontRead ==
  BitVectorParts("louds") \o BitVectorParts("terminal_flags") \o
  BitVectorParts("link_flags") \o <<Array("bases", "data", 1)>> \o
  FlatVectorParts("extras") \o TailParts

\* map_(), in front of the next trie.
FrontMapped ==
  BitVectorParts("louds") \o BitVectorParts("terminal_flags") \o
  BitVectorParts("link_flags") \o <<Array("bases", "data", 1)>> \o
  FlatVectorParts("extras") \o TailParts

\* Behind the next trie.
Back ==
  << Array("cache", "slots", 12), Number("trie", "num_l1_nodes", 4),
     Number("trie", "flags", 4) >>
-----------------------------------------------------------------------------
Item(kind, elem, bytes, value) ==
  [kind |-> kind, elem |-> elem, bytes |-> bytes, value |-> value]

Header == Item("header", 1, 16, "We love Marisa.")

\* An item whose write broke off after so many bytes.
Torn(item, bytes) == [item EXCEPT !.kind = "torn", !.bytes = bytes]

\* The data of an array that is zeros where its elements were.
Zeroed(item) ==
  LET Zero(x) == IF item.elem = 8 THEN {}
                 ELSE IF item.elem = 12 THEN [field \in DOMAIN x |-> 0]
                 ELSE 0
  IN  [item EXCEPT !.value = [i \in DOMAIN @ |-> Zero(@[i])]]

Bytes(items) ==
  LET first[i \in 0 .. Len(items)] == IF i = 0 THEN 0 ELSE first[i - 1] + items[i].bytes
  IN  first[Len(items)]

\* Vector<T>::write_ and Writer::write: nothing is written for no bytes.
Written(fields, part) ==
  LET value == fields[part.name]
      total == part.bytes * Len(value)
  IN  IF ~part.array
      THEN <<Item("number", part.bytes, part.bytes, value)>>
      ELSE SelectSeq(<<Item("number", 8, 8, total),
                       Item("data", part.bytes, total, value),
                       Item("zeros", 1, Padding(total), 0)>>,
                     LAMBDA item : item.bytes # 0)

\* LoudsTrie::write.  Each level writes the next one between its front and its
\* back, so the fronts come in order and then the backs in reverse.
Image(levels) ==
  LET All(fields, parts) ==
        FlattenSeq([p \in DOMAIN parts |-> Written(fields, parts[p])])
  IN  <<Header>> \o
      FlattenSeq([l \in DOMAIN levels |-> All(levels[l], FrontWritten)]) \o
      FlattenSeq(Reverse([l \in DOMAIN levels |-> All(levels[l], Back)]))

\* Mutant: counts the header again for the next trie.
NestedIoSize(levels) == Bytes(Image(levels)) + 16 * (Len(levels) - 1)

\* LoudsTrie::io_size(), over the io_size() of the parts.
IoSize(levels) ==
  LET Size(fields, part) ==
        IF part.array THEN VectorIoSize(part.bytes, Len(fields[part.name]))
                      ELSE part.bytes
      Own(fields) ==
        LET parts == FrontWritten \o Back
            first[p \in 0 .. Len(parts)] ==
              IF p = 0 THEN 0 ELSE first[p - 1] + Size(fields, parts[p])
        IN  first[Len(parts)]
      total[l \in DOMAIN levels] ==
        16 + Own(levels[l]) +
        IF l < Len(levels) THEN total[l + 1] - 16 ELSE 0
  IN  total[1]
-----------------------------------------------------------------------------
\* Do the next bytes hold what is asked for?  A reader asks for a number of
\* bytes; one that is out of step with the items would get garbage and is
\* refused here.
Holds(src, at, kind, bytes) ==
  at < Len(src) /\ src[at + 1].kind = kind /\ src[at + 1].bytes = bytes

Refused(r) == [r EXCEPT !.ok = FALSE]

\* The checks on numbers in BitVector::read_, FlatVector::read_ and
\* Config::parse.
Plausible(part, value, fields) ==
  /\ part.name[2] = "num_1s" => value <= fields[<<part.name[1], "size">>]
  /\ part.name[2] = "value_size" => value <= 32
  /\ part.name[2] = "flags" =>
       \E tailMode \in {"text", "binary"}, nodeOrder \in {"label", "weight"} :
         value = Flags(value % 128, tailMode, nodeOrder)

\* Reader::read or Mapper::map of one number into level r.fields.
NumberRead(src, r, part) ==
  LET value == src[r.at + 1].value
  IN  IF Holds(src, r.at, "number", part.bytes) /\ Plausible(part, value, r.fields)
      THEN [r EXCEPT !.at = @ + 1, !.fields = @ @@ (part.name :> value)]
      ELSE Refused(r)

\* Vector<T>::read_ or map_: the size, the elements, the zeros behind them.
ArrayRead(src, r, part) ==
  LET total == src[r.at + 1].value
      pad == Padding(total)
      data == IF total = 0 THEN 0 ELSE 1
      zeros == IF pad = 0 THEN 0 ELSE 1
  IN  IF /\ Holds(src, r.at, "number", 8)
         /\ total % part.bytes = 0
         /\ total # 0 => Holds(src, r.at + 1, "data", total)
         /\ pad # 0 => Holds(src, r.at + 1 + data, "zeros", pad)
      THEN [r EXCEPT !.at = @ + 1 + data + zeros,
                     !.fields = @ @@ (part.name :>
                       IF total = 0 THEN <<>> ELSE src[r.at + 2].value)]
      ELSE Refused(r)

\* Reads parts of one level, as far as they are there.
PartsRead(src, r, parts) ==
  LET got[p \in 0 .. Len(parts)] ==
        IF p = 0 THEN r
        ELSE LET before == got[p - 1]
             IN  IF ~before.ok THEN before
                 ELSE IF parts[p].array THEN ArrayRead(src, before, parts[p])
                 ELSE NumberRead(src, before, parts[p])
  IN  got[Len(parts)]

\* Mutant: does not ask for the tail.
NextIfLinks(fields) == fields[<<"link_flags", "num_1s">>] # 0

\* Is there a next trie?  The file does not say; it is inferred.
HasNext(fields) ==
  fields[<<"link_flags", "num_1s">>] # 0 /\ fields[<<"tail", "buf">>] = <<>>

\* LoudsTrie::read or map from item start on: whether it succeeds, the levels
\* read so far, and where it stopped.
TrieRead(src, start, frontParts) ==
  LET WithFront(above) ==
        LET r == PartsRead(src, [ok |-> TRUE, at |-> above.at, fields |-> <<>>],
                           frontParts)
        IN  [ok |-> r.ok, at |-> r.at, levels |-> Append(above.levels, r.fields)]
      fronts[d \in Nat] ==
        IF d = 0
        THEN LET ok == Holds(src, start, "header", 16)
             IN  [ok |-> ok, levels |-> <<>>,
                  at |-> IF ok THEN start + 1 ELSE start]
        ELSE LET above == fronts[d - 1]
             IN  IF above.ok /\ (d = 1 \/ (/\ Len(above.levels) = d - 1
                                           /\ HasNext(above.levels[d - 1])))
                 THEN WithFront(above) ELSE above
      Behind(l, below) ==
        LET r == PartsRead(src, [ok |-> below.ok, at |-> below.at,
                                 fields |-> below.levels[l]], Back)
        IN  [ok |-> r.ok, at |-> r.at,
             levels |-> [below.levels EXCEPT ![l] = r.fields]]
      deepest == fronts[Len(src)]
  IN  FoldRight(Behind, [l \in DOMAIN deepest.levels |-> l], deepest)
=============================================================================
