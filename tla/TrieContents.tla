---------------------------- MODULE TrieContents ----------------------------
(***************************************************************************)
(* What the bits of a finished chain of tries stand for: which text a node *)
(* has, read over links, later tries and the tail, and what has to hold of *)
(* it for the searches to work.                                            *)
(***************************************************************************)
EXTENDS TrieBuild
Seqs == INSTANCE SequencesExt

\* get_link()
Extra(t, n) == t.extras[Rank1(t.linkFlags, n) + 1]

LinkOf(t, n) == t.bases[n + 1] + Base * Extra(t, n)

\* Tail::restore(): an entry ends at a NUL in a text tail, at a flag in the
\* other.
TailEnd(offset) ==
  LET IsEnd(i) == IF tail.mode = "text" THEN tail.buf[i + 1] = NUL
                                        ELSE tail.ends[i]
  IN  CHOOSE i \in offset + 1 .. Len(tail.buf) :
        IsEnd(i) /\ \A j \in offset + 1 .. i - 1 : ~IsEnd(j)

TailText(offset) == SubSeq(tail.buf, offset + 1, TailEnd(offset))

\* The nodes of all tries, each with the trie it is in.
Places == UNION {{l} \X (0 .. Len(trie[l].bases) - 1) : l \in DOMAIN trie}

\* The text from the root of trie l down to node n, in the case of a later
\* trie from n up to the root.
PathTexts ==
  LET text[p \in Places] ==
        LET l == p[1]
            n == p[2]
            t == trie[l]
            own == IF ~Bit(t.linkFlags, n) THEN <<t.bases[n + 1]>>
                   ELSE IF l < Len(trie) THEN text[l + 1, LinkOf(t, n)]
                   ELSE TailText(LinkOf(t, n))
            up == text[l, Select1(t.louds, n) - n - 1]
        IN  IF n = 0 THEN <<>>
            ELSE IF l = 1 THEN up \o own
            ELSE own \o up
  IN  text

\* The whole point: from the id it was given, every key can be restored, byte
\* for byte, across all levels and the tail.
KeysRestored ==
  phase = "done" =>
    \A k \in DOMAIN keyset :
      PathTexts[1, Select1(terminalFlags, ids[k])] = keyset[k].text

\* The weight of the keys S of a keyset together, as so many units.
Units(ks, S) == UNION {{k} \X (1 .. ks[k].weight) : k \in S}

\* The keys of a keyset that begin with a text.
Starting(ks, text) == {k \in DOMAIN ks : Seqs!IsPrefix(text, ks[k].text)}

\* What those weigh.
Weighs(ks, text) == Cardinality(Units(ks, Starting(ks, text)))

\* The order MARISA_WEIGHT_ORDER and MARISA_LABEL_ORDER promise: siblings of
\* the first trie by the weight of all keys below them, the heaviest first,
\* and by label where weights do not count or are equal.  The weights are
\* added up from words that other keys use for their terminals by then.
SiblingsInOrder ==
  phase = "done" =>
    LET t == trie[1]
        Weight(n) == Weighs(keyset, PathTexts[1, n])
        LabelOf(n) == PathTexts[1, n][Len(PathTexts[1, t.parentOf[n]]) + 1]
    IN  \A m, n \in DOMAIN t.parentOf :
          t.parentOf[m] = t.parentOf[n] /\ m < n =>
            IF setting.nodeOrder = "weight" /\ Weight(m) # Weight(n)
            THEN Weight(m) > Weight(n) ELSE LabelOf(m) < LabelOf(n)

\* Ids are dense: equal keys share one, different keys do not, and together
\* they are 0 .. num_keys() - 1.
IdsDense ==
  phase = "done" =>
    /\ \A k, l \in DOMAIN keyset :
         ids[k] = ids[l] <=> keyset[k].text = keyset[l].text
    /\ {ids[k] : k \in DOMAIN keyset} = 0 .. Ones(terminalFlags) - 1

\* A filled slot never misleads: in the first trie, where find_child() only
\* compares the parent, the slot of a node and a label holds the child with
\* that label or another parent; in a later one it holds its child's parent.
CacheTruthful ==
  phase = "done" => \A l \in DOMAIN trie :
    LET t == trie[l]
        size == Cardinality(DOMAIN t.cache)
        LabelOf(n) == PathTexts[1, n][Len(PathTexts[1, t.parentOf[n]]) + 1]
    IN  /\ \A s \in DOMAIN t.cache : t.cache[s].used =>
             LET c == t.cache[s] IN
             /\ c.parent = t.parentOf[c.child]
             /\ c.base = t.bases[c.child + 1]
             /\ c.link = Bit(t.linkFlags, c.child)
             /\ c.link => c.extra = Extra(t, c.child)
        /\ l = 1 => \A p \in 0 .. Len(t.bases) - 1, b \in Byte :
             LET c == t.cache[CacheId(p, b, size)] IN
             c.used /\ c.parent = p => LabelOf(c.child) = b
=============================================================================
