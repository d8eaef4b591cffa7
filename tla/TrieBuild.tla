----------------------------- MODULE TrieBuild -----------------------------
(***************************************************************************)
(* LoudsTrie::build: how a keyset becomes a chain of LOUDS tries.          *)
(*                                                                         *)
(* build_trie() builds one trie breadth first (build_current_trie), hands  *)
(* the segments of its long edges to the next trie or to the tail          *)
(* (build_next_trie), and on the way back stores in every link node where  *)
(* the next level put its segment.  build_() then turns the terminal nodes *)
(* of the first trie into key ids.  One action is one iteration of one of  *)
(* these loops.                                                            *)
(*                                                                         *)
(* A byte is a number below Base (256 in the code), 0 is NUL.  Keys are    *)
(* named by their position in the caller's vector.  The code sorts them    *)
(* and passes slices of the sorted vector around; here a slice is the set  *)
(* of keys it holds, so the sort itself is not modelled.                   *)
(***************************************************************************)
EXTENDS LoudsBits

CONSTANTS
  Base,              \* number of byte values; a link is base + Base * extra
  Keysets,           \* the keysets build() may be called with
  Settings,          \* the configurations it may be called with
  CacheId(_, _, _)   \* get_cache_id(node, label) in a cache of a given size

Byte == 0 .. Base - 1
NUL == 0

ASSUME BaseAssumption == Base \in Nat \ {0, 1}

ASSUME KeysetsAssumption ==
  \A ks \in Keysets : ks \in Seq([text : Seq(Byte), weight : Nat])

ASSUME SettingsAssumption ==
  Settings \subseteq [numTries : Nat \ {0}, nodeOrder : {"label", "weight"},
                      cacheLevel : Nat \ {0}, tailMode : {"text", "binary"}]

VARIABLES
  keyset, setting,          \* the arguments of build(), never changed
  phase,                    \* the loop the builder is in
  level, keys, queue,       \* trie_id; keys and queue of build_current_trie
  node, pos, rest, groups,  \* the range taken from the queue and its w_ranges
  louds, linkFlags, bases, cache, numL1, nextKeys,   \* the trie being built
  tail, entries, last,      \* the tail, entries not yet stored, the last one
  stack,                    \* tries built, waiting for their links
  links,                    \* next_terminals of the trie on top of the stack
  trie,                     \* finished tries, the first one first
  terminalFlags, ids,       \* terminal_flags_, and the ids given to the keyset
  parentOf, textOf          \* history: under which node each node was put, and
                            \* the text between the root and each node

inputVars == <<keyset, setting>>
rangeVars == <<node, pos, rest, groups>>
bitVars   == <<louds, linkFlags, bases, cache, numL1, nextKeys, parentOf, textOf>>
tailVars  == <<tail, entries, last>>
linkVars  == <<stack, links, trie, terminalFlags, ids>>
vars == <<inputVars, phase, level, keys, queue, rangeVars, bitVars, tailVars,
          linkVars>>
-----------------------------------------------------------------------------
\* A ReverseKey, the key of the second and later tries, is read backwards.
Label(k, q) ==
  LET text == keys[k].text
  IN  IF level = 1 THEN text[q + 1] ELSE text[Len(text) - q]

\* Mutant: takes the segment of a ReverseKey as if it were read forwards.
SegmentForwards(k, from, to) == SubSeq(keys[k].text, from + 1, to)

\* substr(): the part of key k read from position from up to position to,
\* kept as text that reads forwards.
Segment(k, from, to) ==
  LET text == keys[k].text
  IN  IF level = 1 THEN SubSeq(text, from + 1, to)
                   ELSE SubSeq(text, Len(text) - to + 1, Len(text) - from)

\* The keys of a group agree on everything from pos up to end.
Shared(group, end) ==
  \A k, l \in group :
    /\ end <= Len(keys[k].text)
    /\ \A q \in pos .. end - 1 : Label(k, q) = Label(l, q)

\* Mutant: sorts with std::less.
LighterFirst(b, c) ==
  \/ /\ setting.nodeOrder = "weight"
     /\ groups[b].weight < groups[c].weight
  \/ /\ setting.nodeOrder = "weight" => groups[b].weight = groups[c].weight
     /\ b < c

\* The order in which the w_ranges of a node become its children.
Precedes(b, c) ==
  \/ /\ setting.nodeOrder = "weight"
     /\ groups[b].weight > groups[c].weight
  \/ /\ setting.nodeOrder = "weight" => groups[b].weight = groups[c].weight
     /\ b < c

\* A size doubled so many times.
Doubled(least) ==
  LET size[i \in Nat] == IF i = 0 THEN least ELSE 2 * size[i - 1]
  IN  size

\* reserve_cache(): the smallest doubling that is large enough.
CacheSize(trieId, numKeys, cacheLevel) ==
  LET sizes == {Doubled(IF trieId = 1 THEN Base ELSE 1)[i] : i \in 0 .. numKeys}
      Large(s) == s >= numKeys \div cacheLevel
  IN  CHOOSE s \in sizes : Large(s) /\ \A t \in sizes : Large(t) => s <= t

\* FLT_MIN is the weight of an empty slot: a weight of zero never enters.
EmptySlot == [parent |-> 0, child |-> 0, weight |-> 0]

\* Mutant: hashes the parent without the label.
SlotOfParent(parent, child, label) ==
  IF level = 1 THEN parent % Cardinality(DOMAIN cache)
               ELSE child % Cardinality(DOMAIN cache)

\* cache<Key> hashes the parent and the label, cache<ReverseKey> the child.
Slot(parent, child, label) ==
  IF level = 1 THEN CacheId(parent, label, Cardinality(DOMAIN cache))
               ELSE child % Cardinality(DOMAIN cache)

CacheWith(parent, child, weight, label) ==
  LET slot == Slot(parent, child, label)
  IN  IF weight > cache[slot].weight
      THEN [cache EXCEPT ![slot] =
              [parent |-> parent, child |-> child, weight |-> weight]]
      ELSE cache
-----------------------------------------------------------------------------
Init ==
  /\ keyset \in Keysets
  /\ setting \in Settings
  /\ phase = "begin"
  /\ level = 1
  /\ keys = [k \in DOMAIN keyset |->
              [text |-> keyset[k].text, word |-> keyset[k].weight]]
  /\ queue = <<>>
  /\ node = 0 /\ pos = 0 /\ rest = {} /\ groups = <<>>
  /\ louds = <<>> /\ linkFlags = <<>> /\ bases = <<>> /\ cache = <<>>
  /\ numL1 = 0 /\ nextKeys = <<>> /\ parentOf = <<>> /\ textOf = <<>>
  /\ tail = [buf |-> <<>>, ends |-> <<>>, mode |-> setting.tailMode]
  /\ entries = {} /\ last = 0
  /\ stack = <<>> /\ links = <<>> /\ trie = <<>>
  /\ terminalFlags = <<>> /\ ids = <<>>

\* Mutant: leaves the super-root open.
OpenSuperRoot == <<TRUE>>

SuperRoot == <<TRUE, FALSE>>

\* The super-root and the root, and the range of all keys.
BeginTrie ==
  /\ phase = "begin"
  /\ phase' = "pop"
  /\ queue' = <<[keys |-> DOMAIN keys, pos |-> 0]>>
  /\ louds' = SuperRoot
  /\ linkFlags' = <<FALSE>>
  /\ bases' = <<0>>
  /\ LET numKeys == Cardinality({keys[k].text : k \in DOMAIN keys})
         size == CacheSize(level, numKeys, setting.cacheLevel)
     IN  cache' = [s \in 0 .. size - 1 |-> EmptySlot]
  /\ numL1' = 0
  /\ nextKeys' = <<>>
  /\ parentOf' = <<>>
  /\ textOf' = << <<>> >>
  /\ UNCHANGED <<inputVars, level, keys, rangeVars, tailVars, linkVars>>

\* Mutant: counts after the range has left the queue.
NumberAfterPop == Len(linkFlags) - Len(Tail(queue))

\* The number of the node a range is taken for.
NodeNumber == Len(linkFlags) - Len(queue)

\* Take a range from the queue.  A key that ends here gets this node as its
\* terminal; terminal and weight share a word, so its weight is gone.
OpenNode ==
  /\ phase = "pop"
  /\ queue # <<>>
  /\ LET n == NodeNumber
         range == Head(queue)
         ended == {k \in range.keys : Len(keys[k].text) = range.pos}
     IN  /\ node' = n
         /\ pos' = range.pos
         /\ rest' = range.keys \ ended
         /\ keys' = [k \in DOMAIN keys |->
                      IF k \in ended THEN [keys[k] EXCEPT !.word = n]
                                     ELSE keys[k]]
  /\ queue' = Tail(queue)
  /\ groups' = <<>>
  /\ phase' = "group"
  /\ UNCHANGED <<inputVars, level, bitVars, tailVars, linkVars>>

\* Put one more key of the range under its label, adding up the weights.
GroupKey ==
  /\ phase = "group"
  /\ \E k \in rest :
       /\ \A other \in rest : k <= other
       /\ rest' = rest \ {k}
       /\ LET label == Label(k, pos)
              before == IF label \in DOMAIN groups THEN groups[label]
                        ELSE [keys |-> {}, weight |-> 0]
              after == [keys |-> before.keys \cup {k},
                        weight |-> before.weight + keys[k].word]
          IN  groups' = [b \in DOMAIN groups \cup {label} |->
                          IF b = label THEN after ELSE groups[b]]
  /\ UNCHANGED <<inputVars, phase, level, keys, queue, node, pos, bitVars,
                 tailVars, linkVars>>

Grouped ==
  /\ phase = "group"
  /\ rest = {}
  /\ phase' = "children"
  /\ numL1' = IF node = 0 THEN Cardinality(DOMAIN groups) ELSE numL1
  /\ UNCHANGED <<inputVars, level, keys, queue, rangeVars, louds, linkFlags,
                 bases, cache, nextKeys, parentOf, textOf, tailVars, linkVars>>

\* Append the next child.  Its edge takes the longest part the keys of the
\* group share; an edge longer than one byte becomes a link.
AddChild ==
  /\ phase = "children"
  /\ \E b \in DOMAIN groups :
       /\ \A c \in DOMAIN groups \ {b} : Precedes(b, c)
       /\ LET group == groups[b].keys
              first == CHOOSE k \in group : TRUE
              text == keys[first].text
          IN  \E end \in pos + 1 .. Len(text) :
                /\ Shared(group, end)
                /\ ~Shared(group, end + 1)
                /\ queue' = Append(queue, [keys |-> group, pos |-> end])
                /\ textOf' = Append(textOf, Segment(first, 0, end))
                /\ \/ /\ end = pos + 1
                      /\ bases' = Append(bases, b)
                      /\ linkFlags' = Append(linkFlags, FALSE)
                      /\ UNCHANGED nextKeys
                   \/ /\ end > pos + 1
                      /\ bases' = Append(bases, 0)
                      /\ linkFlags' = Append(linkFlags, TRUE)
                      /\ nextKeys' = Append(nextKeys,
                           [text |-> Segment(first, pos, end),
                            word |-> groups[b].weight])
       /\ cache' = CacheWith(node, Len(bases), groups[b].weight, b)
       /\ groups' = [c \in DOMAIN groups \ {b} |-> groups[c]]
  /\ louds' = Append(louds, TRUE)
  /\ parentOf' = Append(parentOf, node)
  /\ UNCHANGED <<inputVars, phase, level, keys, node, pos, rest, numL1,
                 tailVars, linkVars>>

CloseNode ==
  /\ phase = "children"
  /\ DOMAIN groups = {}
  /\ phase' = "pop"
  /\ louds' = Append(louds, FALSE)
  /\ UNCHANGED <<inputVars, level, keys, queue, rangeVars, linkFlags, bases,
                 cache, numL1, nextKeys, parentOf, textOf, tailVars, linkVars>>
-----------------------------------------------------------------------------
\* Mutant: one terminal for each different key.
TerminalsOfDistinct ==
  [k \in 1 .. Cardinality({keys[l].text : l \in DOMAIN keys}) |-> keys[k].word]

\* build_terminals(): one terminal for each key, in the caller's order.
Terminals == [k \in DOMAIN keys |-> keys[k].word]

\* The queue is empty: the trie is closed and its keys' terminals are handed
\* to whoever asked for it.
CloseTrie ==
  /\ phase = "pop"
  /\ queue = <<>>
  /\ stack' = Append(stack,
       [louds |-> Append(louds, FALSE), linkFlags |-> linkFlags,
        bases |-> bases, cache |-> cache, numL1 |-> numL1,
        parentOf |-> parentOf, textOf |-> textOf,
        terminals |-> Terminals])
  /\ UNCHANGED <<inputVars, queue, rangeVars, louds, linkFlags, bases, cache,
                 numL1, parentOf, textOf, trie, terminalFlags, ids>>

\* No edge is longer than a byte: there is no next level.
NoNextLevel ==
  /\ CloseTrie
  /\ nextKeys = <<>>
  /\ phase' = "link"
  /\ links' = <<>>
  /\ UNCHANGED <<level, keys, nextKeys, tailVars>>

NextTrie ==
  /\ CloseTrie
  /\ nextKeys # <<>>
  /\ level # setting.numTries
  /\ phase' = "begin"
  /\ level' = level + 1
  /\ keys' = nextKeys
  /\ nextKeys' = <<>>
  /\ UNCHANGED <<links, tailVars>>

\* Mutant: trusts the configured tail mode.
IgnoreNul(entry) == FALSE

HasNul(entry) == \E i \in DOMAIN entry : entry[i] = NUL

\* The last trie allowed: the segments go to the tail.  A NUL in any of them
\* makes a text tail a binary one.
NextTail ==
  /\ CloseTrie
  /\ nextKeys # <<>>
  /\ level = setting.numTries
  /\ phase' = "tail"
  /\ keys' = nextKeys
  /\ nextKeys' = <<>>
  /\ entries' = DOMAIN nextKeys
  /\ links' = [k \in DOMAIN nextKeys |-> 0]
  /\ tail' = [tail EXCEPT !.mode =
       IF \E k \in DOMAIN nextKeys : HasNul(nextKeys[k].text) THEN "binary" ELSE @]
  /\ UNCHANGED <<level, last>>

\* Mutant: a comparison that is not strict.
EntryNotAfter(k, l) ==
  LET s == keys[k].text
      t == keys[l].text
  IN  \E i \in 1 .. Len(t) :
        /\ \A j \in 1 .. i - 1 :
             j <= Len(s) /\ s[Len(s) + 1 - j] = t[Len(t) + 1 - j]
        /\ i > Len(s) \/ s[Len(s) + 1 - i] <= t[Len(t) + 1 - i]

\* Entries are compared from their last byte backwards.
EntryBefore(k, l) ==
  LET s == keys[k].text
      t == keys[l].text
  IN  \E i \in 1 .. Len(t) :
        /\ \A j \in 1 .. i - 1 :
             j <= Len(s) /\ s[Len(s) + 1 - j] = t[Len(t) + 1 - j]
        /\ i > Len(s) \/ s[Len(s) + 1 - i] < t[Len(t) + 1 - i]

Suffix(s, t) ==
  /\ Len(s) <= Len(t)
  /\ s = SubSeq(t, Len(t) - Len(s) + 1, Len(t))

\* Store the greatest entry left.  One that ends the entry stored before it
\* shares its bytes.
AddEntry ==
  /\ phase = "tail"
  /\ \E k \in entries :
       /\ \A other \in entries : ~EntryBefore(k, other)
       /\ entries' = entries \ {k}
       /\ last' = k
       /\ LET text == keys[k].text
          IN  IF last # 0 /\ Suffix(text, keys[last].text)
              THEN /\ links' = [links EXCEPT ![k] =
                        links[last] + Len(keys[last].text) - Len(text)]
                   /\ UNCHANGED tail
              ELSE /\ links' = [links EXCEPT ![k] = Len(tail.buf)]
                   /\ IF tail.mode = "text"
                      THEN tail' = [tail EXCEPT !.buf = @ \o text \o <<NUL>>]
                      ELSE tail' = [tail EXCEPT !.buf = @ \o text,
                             !.ends = @ \o [i \in DOMAIN text |->
                                             i = Len(text)]]
  /\ UNCHANGED <<inputVars, phase, level, keys, queue, rangeVars, bitVars,
                 stack, trie, terminalFlags, ids>>

TailDone ==
  /\ phase = "tail"
  /\ entries = {}
  /\ phase' = "link"
  /\ UNCHANGED <<inputVars, level, keys, queue, rangeVars, bitVars, tailVars,
                 linkVars>>
-----------------------------------------------------------------------------
\* Mutant: does not cut the link down to a byte.
LowLinkUncut(link) == link

LowLink(link) == link % Base

HighLink(link) == link \div Base

\* Back in build_trie(): the n-th link node gets the n-th entry of links, its
\* low part in bases, the rest in extras; then the cache learns the labels.
Linked(t) ==
  LET Link(n) == links[Rank1(t.linkFlags, n) + 1]
      newBases == [i \in DOMAIN t.bases |->
                    IF t.linkFlags[i] THEN LowLink(Link(i - 1)) ELSE t.bases[i]]
      newExtras == [i \in DOMAIN links |-> HighLink(links[i])]
      Filled(slot) ==
        LET child == slot.child IN
        IF child = 0
        THEN [used |-> FALSE, parent |-> 0, child |-> 0, base |-> 0,
              link |-> FALSE, extra |-> 0]
        ELSE [used |-> TRUE, parent |-> slot.parent, child |-> child,
              base |-> newBases[child + 1],
              link |-> Bit(t.linkFlags, child),
              extra |-> IF Bit(t.linkFlags, child)
                        THEN newExtras[Rank1(t.linkFlags, child) + 1] ELSE 0]
  IN  [louds |-> t.louds, linkFlags |-> t.linkFlags, bases |-> newBases,
       extras |-> newExtras, numL1 |-> t.numL1,
       parentOf |-> t.parentOf, textOf |-> t.textOf,
       cache |-> [s \in DOMAIN t.cache |-> Filled(t.cache[s])]]

LinkTrie ==
  /\ phase = "link"
  /\ stack # <<>>
  /\ LET t == stack[Len(stack)]
     IN  /\ trie' = <<Linked(t)>> \o trie
         /\ links' = t.terminals
  /\ stack' = SubSeq(stack, 1, Len(stack) - 1)
  /\ UNCHANGED <<inputVars, phase, level, keys, queue, rangeVars, bitVars,
                 tailVars, terminalFlags, ids>>

\* Mutant: counts the terminal itself.
RankAfter(flags, n) == Rank1(flags, n + 1)

KeyIdOf(flags, n) == Rank1(flags, n)

\* build_(): flag the terminal nodes, one flag more than there are nodes, and
\* give every key the rank of its terminal as its id.
NumberKeys ==
  /\ phase = "link"
  /\ stack = <<>>
  /\ phase' = "done"
  /\ LET flags == [i \in 1 .. Len(trie[1].bases) + 1 |->
                    \E k \in DOMAIN links : links[k] = i - 1]
     IN  /\ terminalFlags' = flags
         /\ ids' = [k \in DOMAIN links |-> KeyIdOf(flags, links[k])]
  /\ UNCHANGED <<inputVars, level, keys, queue, rangeVars, bitVars, tailVars,
                 stack, links, trie>>
-----------------------------------------------------------------------------
Next ==
  \/ BeginTrie \/ OpenNode \/ GroupKey \/ Grouped \/ AddChild \/ CloseNode
  \/ NoNextLevel \/ NextTrie \/ NextTail \/ AddEntry \/ TailDone
  \/ LinkTrie \/ NumberKeys

Spec == Init /\ [][Next]_vars

\* build() runs to its end without giving up the thread.
FairSpec == Spec /\ WF_vars(Next)
-----------------------------------------------------------------------------
Building == phase \in {"pop", "group", "children"}

KeyType == [text : Seq(Byte), word : Nat]

RangeType == [keys : SUBSET DOMAIN keys, pos : Nat]

BitsOK(t) ==
  /\ t.louds \in Seq(BOOLEAN)
  /\ t.linkFlags \in Seq(BOOLEAN)
  /\ t.bases \in Seq(Byte)
  /\ t.parentOf \in Seq(Nat)
  /\ t.numL1 \in Nat

\* Type invariant.  Every value a byte vector of the trie holds is a byte,
\* also after the links have been split over bases_ and extras_.
TypeOK ==
  /\ keyset \in Keysets /\ setting \in Settings
  /\ phase \in {"begin", "pop", "group", "children", "tail", "link", "done"}
  /\ level \in Nat \ {0}
  /\ keys \in Seq(KeyType)
  /\ nextKeys \in Seq(KeyType)
  /\ Building => queue \in Seq(RangeType)
  /\ phase \in {"group", "children"} =>
       /\ node \in Nat /\ pos \in Nat
       /\ rest \subseteq DOMAIN keys
       /\ DOMAIN groups \subseteq Byte
       /\ \A b \in DOMAIN groups :
            groups[b] \in [keys : SUBSET DOMAIN keys, weight : Nat]
  /\ BitsOK([louds |-> louds, linkFlags |-> linkFlags, bases |-> bases,
             parentOf |-> parentOf, numL1 |-> numL1])
  /\ tail \in [buf : Seq(Byte), ends : Seq(BOOLEAN), mode : {"text", "binary"}]
  /\ phase \in {"tail", "link", "done"} => links \in Seq(Nat)
  /\ \A i \in DOMAIN stack :
       BitsOK(stack[i]) /\ stack[i].terminals \in Seq(Nat)
  /\ \A i \in DOMAIN trie : BitsOK(trie[i]) /\ trie[i].extras \in Seq(Nat)

\* The bits of the trie under construction and of every trie built so far.
AllTries ==
  {stack[i] : i \in DOMAIN stack} \cup {trie[i] : i \in DOMAIN trie}

\* build_current_trie() computes the number of the node it opens as
\* link_flags_.size() - queue.size().  That is right only as long as every
\* node has one 1 and every node that was opened one 0 (and the super-root
\* one more of each), which ties four vectors and the queue together.
Balanced ==
  /\ Building =>
       /\ Ones(louds) = Len(linkFlags)
       /\ Len(bases) = Len(linkFlags)
       /\ Len(parentOf) + 1 = Len(linkFlags)
  /\ phase = "pop" => Zeros(louds) + Len(queue) = Len(linkFlags) + 1
  /\ phase \in {"group", "children"} =>
       /\ Zeros(louds) + Len(queue) = Len(linkFlags)
       /\ Zeros(louds) = node + 1
  /\ \A t \in AllTries :
       /\ Ones(t.louds) = Len(t.linkFlags)
       /\ Zeros(t.louds) = Len(t.linkFlags) + 2
       /\ Len(t.bases) = Len(t.linkFlags)
       /\ Len(t.parentOf) + 1 = Len(t.linkFlags)

ParentsOf(bits, parents) ==
  \A n \in DOMAIN parents : Select1(bits, n) - n - 1 = parents[n]

\* Walking towards the root, select1(n) - n - 1 (louds-trie.cc:100, 746, 797,
\* 842), reaches the node under which the builder put n.
ParentsFound ==
  /\ Building => ParentsOf(louds, parentOf)
  /\ \A t \in AllTries : ParentsOf(t.louds, t.parentOf)

\* Walking away from it, the children of n are numbered from
\* select0(n) + 1 - n - 1 on, as long as 1s follow (find_child).
ChildrenFound ==
  \A t \in AllTries : \A n \in 0 .. Len(t.bases) - 1 :
    LET first == Select0(t.louds, n) + 1
    IN  {m \in DOMAIN t.parentOf : t.parentOf[m] = n} =
        {m \in first - n - 1 .. Len(t.parentOf) :
           \A i \in first .. m + n + 1 : Bit(t.louds, i)}

\* build_trie() walks to the next link node for every terminal the next level
\* returned, without looking for the end of the flags: there must be as many
\* link nodes as terminals, for the trie on top and for those that wait.
LinksFit ==
  /\ phase = "link" /\ stack # <<>> =>
       Ones(stack[Len(stack)].linkFlags) = Len(links)
  /\ \A i \in 1 .. Len(stack) - 1 :
       Ones(stack[i].linkFlags) = Len(stack[i + 1].terminals)

\* The build comes to an end, whatever the keys.
Terminates == <>(phase = "done")
=============================================================================
