-------------------------- MODULE TrieReadingProofs --------------------------
(***************************************************************************)
(* What the pieces of a search return, for every keyset, setting, radix    *)
(* and query, once the trie is built and if the hash keeps labels apart:   *)
(* restore() gives back a node's text (RestoredIs), match() and            *)
(* prefix_match() compare as if they had all of it before them             *)
(* (MatchedIs), find_child() goes to the child the query goes on with      *)
(* (FindChildIs), and one step of an enumeration reads the next node's     *)
(* flags at the right places of the bit vectors.                           *)
(*                                                                         *)
(* Nothing here speaks of the cursor: the lemmas are about a trie, a text  *)
(* and a position, and TrieSearchProofs puts them to use.                  *)
(***************************************************************************)
EXTENDS TrieSearch, TrieContentsProofs

-----------------------------------------------------------------------------
Text(t, n) == t.textOf[n + 1]
Nodes(t) == 0 .. Len(t.parentOf)

\* Text begins with start.
Begins(start, text) ==
  Len(start) <= Len(text) /\ \A i \in 1 .. Len(start) : start[i] = text[i]

\* A trie whose nodes are told apart by their texts.
Tree(t) ==
  /\ t.parentOf \in Seq(Nat)
  /\ t.textOf \in Seq(Seq(Byte)) /\ Len(t.textOf) = Len(t.parentOf) + 1
  /\ Text(t, 0) = <<>>
  /\ \A n \in DOMAIN t.parentOf :
       /\ t.parentOf[n] \in 0 .. n - 1
       /\ Len(Text(t, t.parentOf[n])) < Len(Text(t, n))
       /\ Begins(Text(t, t.parentOf[n]), Text(t, n))
  /\ LabelsApart(t.parentOf, t.textOf)

LEMMA BeginsItself ==
  ASSUME NEW s \in Seq(Byte)
  PROVE  Begins(s, s) /\ Begins(<<>>, s) /\ Len(s) \in Nat
BY LenProperties DEF Begins

LEMMA BeginsOn ==
  ASSUME NEW r \in Seq(Byte), NEW s \in Seq(Byte), NEW t \in Seq(Byte),
         Begins(r, s), Begins(s, t)
  PROVE  Begins(r, t)
<1>1. Len(r) \in Nat /\ Len(s) \in Nat /\ Len(t) \in Nat
  BY LenProperties
<1> QED
  BY <1>1 DEF Begins

\* Of two starts of one text the shorter is a start of the longer.
LEMMA BothBegin ==
  ASSUME NEW r \in Seq(Byte), NEW s \in Seq(Byte), NEW t \in Seq(Byte),
         Begins(r, t), Begins(s, t), Len(r) <= Len(s)
  PROVE  Begins(r, s)
<1>1. Len(r) \in Nat /\ Len(s) \in Nat /\ Len(t) \in Nat
  BY LenProperties
<1> QED
  BY <1>1 DEF Begins

LEMMA BeginsSame ==
  ASSUME NEW s \in Seq(Byte), NEW t \in Seq(Byte), Begins(s, t), Len(t) <= Len(s)
  PROVE  s = t
<1>1. Len(s) \in Nat /\ Len(t) \in Nat
  BY LenProperties
<1>2. Len(s) = Len(t)
  BY <1>1 DEF Begins
<1>3. \A i \in 1 .. Len(s) : s[i] = t[i]
  BY DEF Begins
<1> QED
  BY <1>2, <1>3, SeqEqual

LEMMA TreeNode ==
  ASSUME NEW t, Tree(t), NEW n \in Nodes(t)
  PROVE  /\ Text(t, n) \in Seq(Byte) /\ Len(Text(t, n)) \in Nat /\ n \in Nat
         /\ n = 0 \/ n \in DOMAIN t.parentOf
         /\ n # 0 => /\ t.parentOf[n] \in Nodes(t) /\ t.parentOf[n] < n
                     /\ Len(Text(t, t.parentOf[n])) < Len(Text(t, n))
                     /\ Begins(Text(t, t.parentOf[n]), Text(t, n))
<1> DEFINE len == Len(t.parentOf)
<1>1. /\ len \in Nat /\ DOMAIN t.parentOf = 1 .. len /\ n \in 0 .. len
      /\ t.textOf \in Seq(Seq(Byte)) /\ Len(t.textOf) = len + 1
  BY LenProperties DEF Tree, Nodes
<1>2. n + 1 \in 1 .. Len(t.textOf)
  <2> HIDE DEF len
  <2> QED
    BY <1>1
<1>3. Text(t, n) \in Seq(Byte) /\ Len(Text(t, n)) \in Nat
  BY <1>1, <1>2, ElementOfSeq, LenProperties DEF Text
<1>4. n = 0 \/ n \in DOMAIN t.parentOf
  <2> HIDE DEF len
  <2> QED
    BY <1>1
<1>5. ASSUME n # 0
      PROVE  /\ t.parentOf[n] \in Nodes(t) /\ t.parentOf[n] < n
             /\ Len(Text(t, t.parentOf[n])) < Len(Text(t, n))
             /\ Begins(Text(t, t.parentOf[n]), Text(t, n))
  <2>1. /\ t.parentOf[n] \in 0 .. n - 1
        /\ Len(Text(t, t.parentOf[n])) < Len(Text(t, n))
        /\ Begins(Text(t, t.parentOf[n]), Text(t, n))
    BY <1>4, <1>5 DEF Tree
  <2> DEFINE up == t.parentOf[n]
  <2>2. up \in 0 .. n - 1
    BY <2>1
  <2> HIDE DEF up, len
  <2>3. up \in 0 .. len /\ up < n
    BY <1>1, <2>2
  <2> QED
    BY <2>1, <2>3 DEF up, len, Nodes
<1>6. n \in Nat
  BY DEF Nodes
<1> QED
  BY <1>3, <1>4, <1>5, <1>6

LEMMA TreeChild ==
  ASSUME NEW t, Tree(t), NEW n \in DOMAIN t.parentOf
  PROVE  n \in Nodes(t) /\ n # 0 /\ n \in Nat
<1> DEFINE len == Len(t.parentOf)
<1>1. len \in Nat /\ n \in 1 .. len
  BY LenProperties DEF Tree
<1> HIDE DEF len
<1>2. n \in 0 .. len /\ n # 0 /\ n \in Nat
  BY <1>1
<1> QED
  BY <1>2 DEF Nodes, len

\* Children of one node whose texts have the next byte in common are one.
LEMMA SameFork ==
  ASSUME NEW t, Tree(t), NEW m \in DOMAIN t.parentOf, NEW n \in DOMAIN t.parentOf,
         t.parentOf[m] = t.parentOf[n],
         LET next == Len(Text(t, t.parentOf[m])) + 1
         IN  Text(t, m)[next] = Text(t, n)[next]
  PROVE  m = n
BY DEF Tree, LabelsApart, LabelIn, Text

\* If the texts of two children of a node are starts of one text, they are one.
LEMMA OneFork ==
  ASSUME NEW t, Tree(t), NEW m \in DOMAIN t.parentOf, NEW n \in DOMAIN t.parentOf,
         t.parentOf[m] = t.parentOf[n],
         NEW text \in Seq(Byte), Begins(Text(t, m), text), Begins(Text(t, n), text)
  PROVE  m = n
<1> DEFINE up == t.parentOf[m]
           next == Len(Text(t, up)) + 1
<1>1. /\ up \in Nodes(t)
      /\ Len(Text(t, up)) < Len(Text(t, m)) /\ Len(Text(t, up)) < Len(Text(t, n))
  BY TreeChild, TreeNode
<1>2. Len(Text(t, up)) \in Nat /\ Len(Text(t, m)) \in Nat /\ Len(Text(t, n)) \in Nat
  BY <1>1, TreeChild, TreeNode
<1>3. Text(t, m)[next] = text[next] /\ Text(t, n)[next] = text[next]
  <2> HIDE DEF up
  <2> QED
    BY <1>1, <1>2 DEF Begins
<1> QED
  BY <1>3, SameFork

\* Below node u, or at u itself: node z is reached over a child of u.
Way(t, u, z) ==
  Begins(Text(t, u), Text(t, z)) =>
    \/ u = z
    \/ \E m \in DOMAIN t.parentOf : t.parentOf[m] = u /\ Begins(Text(t, m), Text(t, z))

LEMMA WayDown ==
  ASSUME NEW t, Tree(t)
  PROVE  \A u, z \in Nodes(t) : Way(t, u, z)
<1> DEFINE S == {k \in Nat : \A u, z \in Nodes(t) : u + z < k => Way(t, u, z)}
<1>1. 0 \in S
  BY DEF Nodes
<1>2. ASSUME NEW k \in Nat, k \in S PROVE k + 1 \in S
  <2> SUFFICES ASSUME NEW u \in Nodes(t), NEW z \in Nodes(t), u + z < k + 1,
                      Begins(Text(t, u), Text(t, z)), u # z
               PROVE  \E m \in DOMAIN t.parentOf :
                        t.parentOf[m] = u /\ Begins(Text(t, m), Text(t, z))
    BY DEF Way
  <2> DEFINE w == t.parentOf[z]
             x == t.parentOf[u]
  <2>1. /\ u \in Nat /\ z \in Nat
        /\ Text(t, u) \in Seq(Byte) /\ Len(Text(t, u)) \in Nat
        /\ Text(t, z) \in Seq(Byte) /\ Len(Text(t, z)) \in Nat
    BY TreeNode
  <2>2. \A a, b \in Nodes(t) : a + b < u + z => Way(t, a, b)
    <3> SUFFICES ASSUME NEW a \in Nodes(t), NEW b \in Nodes(t), a + b < u + z
                 PROVE  Way(t, a, b)
      OBVIOUS
    <3>1. a + b < k
      BY <2>1 DEF Nodes
    <3> QED
      BY <1>2, <3>1
  <2>3. z # 0
    <3> SUFFICES ASSUME z = 0 PROVE FALSE
      OBVIOUS
    <3>1. Len(Text(t, z)) = 0
      BY DEF Tree
    <3>2. Len(Text(t, u)) = 0
      BY <2>1, <3>1 DEF Begins
    <3>3. x \in Nodes(t) /\ Len(Text(t, x)) < Len(Text(t, u))
      BY TreeNode
    <3>4. Len(Text(t, x)) \in Nat
      BY <3>3, TreeNode
    <3> QED
      BY <3>2, <3>3, <3>4
  <2>4. /\ z \in DOMAIN t.parentOf /\ w \in Nodes(t) /\ w \in Nat /\ w < z
        /\ Text(t, w) \in Seq(Byte) /\ Len(Text(t, w)) \in Nat
        /\ Len(Text(t, w)) < Len(Text(t, z)) /\ Begins(Text(t, w), Text(t, z))
    BY <2>3, TreeNode
  <2>5. CASE Len(Text(t, u)) <= Len(Text(t, w))
    <3>1. Begins(Text(t, u), Text(t, w))
      BY <2>1, <2>4, <2>5, BothBegin
    <3>2. u + w < u + z
      BY <2>1, <2>4
    <3>3. Way(t, u, w)
      BY <2>2, <2>4, <3>2
    <3>4. CASE u = w
      <4>1. Begins(Text(t, z), Text(t, z))
        BY <2>1, BeginsItself
      <4> QED
        BY <2>4, <3>4, <4>1
    <3>5. CASE \E m \in DOMAIN t.parentOf : t.parentOf[m] = u /\ Begins(Text(t, m), Text(t, w))
      <4>1. PICK m \in DOMAIN t.parentOf : t.parentOf[m] = u /\ Begins(Text(t, m), Text(t, w))
        BY <3>5
      <4>2. Text(t, m) \in Seq(Byte)
        BY TreeChild, TreeNode
      <4>3. Begins(Text(t, m), Text(t, z))
        BY <2>1, <2>4, <4>1, <4>2, BeginsOn
      <4> QED
        BY <4>1, <4>3
    <3> QED
      BY <3>1, <3>3, <3>4, <3>5 DEF Way
  <2>6. CASE Len(Text(t, w)) < Len(Text(t, u))
    <3>1. u # 0
      BY <2>4, <2>6 DEF Tree
    <3>2. /\ u \in DOMAIN t.parentOf /\ x \in Nodes(t) /\ x \in Nat /\ x < u
          /\ Text(t, x) \in Seq(Byte) /\ Len(Text(t, x)) \in Nat
          /\ Len(Text(t, x)) < Len(Text(t, u)) /\ Begins(Text(t, x), Text(t, u))
      BY <3>1, TreeNode
    <3>3. Begins(Text(t, w), Text(t, u)) /\ Begins(Text(t, x), Text(t, z))
      BY <2>1, <2>4, <2>6, <3>2, BothBegin, BeginsOn
    <3>4. Begins(Text(t, z), Text(t, u))
      <4>1. w + u < u + z
        BY <2>1, <2>4
      <4>2. Way(t, w, u) /\ w # u
        BY <2>1, <2>2, <2>4, <2>6, <4>1
      <4>3. PICK m \in DOMAIN t.parentOf : t.parentOf[m] = w /\ Begins(Text(t, m), Text(t, u))
        BY <3>3, <4>2 DEF Way
      <4>4. Text(t, m) \in Seq(Byte)
        BY TreeChild, TreeNode
      <4>5. Begins(Text(t, m), Text(t, z))
        BY <2>1, <4>3, <4>4, BeginsOn
      <4>6. Begins(Text(t, z), Text(t, z))
        BY <2>1, BeginsItself
      <4>7. m = z
        BY <2>1, <2>4, <4>3, <4>5, <4>6, OneFork
      <4> QED
        BY <4>3, <4>7
    <3>5. Text(t, u) = Text(t, z)
      BY <2>1, <3>4, BeginsSame DEF Begins
    <3>6. w # x
      <4> SUFFICES ASSUME w = x PROVE FALSE
        OBVIOUS
      <4>1. Begins(Text(t, z), Text(t, z)) /\ Begins(Text(t, u), Text(t, z))
        BY <2>1, BeginsItself
      <4> QED
        BY <2>1, <2>4, <3>2, <4>1, OneFork
    <3>7. CASE Len(Text(t, w)) <= Len(Text(t, x))
      <4>1. Begins(Text(t, w), Text(t, x))
        BY <2>1, <2>4, <3>2, <3>3, <3>7, BothBegin
      <4>2. w + x < u + z
        BY <2>1, <2>4, <3>2
      <4>3. PICK m \in DOMAIN t.parentOf : t.parentOf[m] = w /\ Begins(Text(t, m), Text(t, x))
        BY <2>2, <2>4, <3>2, <3>6, <4>1, <4>2 DEF Way
      <4>4. Text(t, m) \in Seq(Byte)
        BY TreeChild, TreeNode
      <4>5. Begins(Text(t, m), Text(t, z)) /\ Begins(Text(t, z), Text(t, z))
        BY <2>1, <3>2, <3>3, <4>3, <4>4, BeginsOn, BeginsItself
      <4>6. m = z
        BY <2>1, <2>4, <4>3, <4>5, OneFork
      <4> QED
        BY <2>1, <3>2, <3>5, <4>3, <4>6 DEF Begins
    <3>8. CASE Len(Text(t, x)) < Len(Text(t, w))
      <4>1. Begins(Text(t, x), Text(t, w))
        BY <2>1, <2>4, <3>2, <3>3, <3>8, BothBegin
      <4>2. x + w < u + z
        BY <2>1, <2>4, <3>2
      <4>3. PICK m \in DOMAIN t.parentOf : t.parentOf[m] = x /\ Begins(Text(t, m), Text(t, w))
        BY <2>2, <2>4, <3>2, <3>6, <4>1, <4>2 DEF Way
      <4>4. Text(t, m) \in Seq(Byte)
        BY TreeChild, TreeNode
      <4>5. Begins(Text(t, m), Text(t, z))
        BY <2>1, <2>4, <4>3, <4>4, BeginsOn
      <4>6. m = u
        BY <2>1, <3>2, <4>3, <4>5, OneFork
      <4> QED
        BY <2>1, <2>4, <2>6, <4>3, <4>6 DEF Begins
    <3> QED
      BY <2>4, <3>2, <3>7, <3>8
  <2> QED
    BY <2>1, <2>4, <2>5, <2>6
<1>3. \A k \in Nat : k \in S
  <2> HIDE DEF S
  <2>1. \A k \in Nat : k \in S => k + 1 \in S
    BY <1>2
  <2> QED
    BY <1>1, <2>1, Induction
<1> SUFFICES ASSUME NEW u \in Nodes(t), NEW z \in Nodes(t)
             PROVE  Way(t, u, z)
  OBVIOUS
<1>4. u \in Nat /\ z \in Nat /\ u + z + 1 \in Nat /\ u + z < u + z + 1
  BY DEF Nodes
<1>5. u + z + 1 \in S
  BY <1>3, <1>4
<1> QED
  BY <1>4, <1>5

\* Nodes with one text are one.
LEMMA OneNode ==
  ASSUME NEW t, Tree(t), NEW u \in Nodes(t), NEW z \in Nodes(t), Text(t, u) = Text(t, z)
  PROVE  u = z
<1> SUFFICES ASSUME u # z PROVE FALSE
  OBVIOUS
<1>1. Text(t, u) \in Seq(Byte) /\ Len(Text(t, u)) \in Nat
  BY TreeNode
<1>2. Begins(Text(t, u), Text(t, z))
  BY <1>1, BeginsItself
<1>3. PICK m \in DOMAIN t.parentOf : t.parentOf[m] = u /\ Begins(Text(t, m), Text(t, z))
  BY <1>2, WayDown DEF Way
<1>4. Len(Text(t, u)) < Len(Text(t, m)) /\ Len(Text(t, m)) \in Nat
  BY <1>3, TreeChild, TreeNode
<1> QED
  BY <1>1, <1>3, <1>4 DEF Begins

\* A node whose text goes on below node u is below a child of u.
LEMMA NextWay ==
  ASSUME NEW t, Tree(t), NEW u \in Nodes(t), NEW z \in Nodes(t),
         Begins(Text(t, u), Text(t, z)), u # z
  PROVE  \E m \in DOMAIN t.parentOf : t.parentOf[m] = u /\ Begins(Text(t, m), Text(t, z))
BY WayDown DEF Way
-----------------------------------------------------------------------------
\* Node n is where the first p bytes of the query lead.
Led(t, q, n, p) ==
  n \in Nodes(t) /\ p \in 0 .. Len(q) /\ Text(t, n) = SubSeq(q, 1, p)

\* The same, but the text of n may go on behind the end of the query.
Leads(t, q, n, p, buf) ==
  /\ n \in Nodes(t) /\ p \in 0 .. Len(q)
  /\ buf = Text(t, n)
  /\ p <= Len(buf) /\ \A i \in 1 .. p : buf[i] = q[i]
  /\ p < Len(q) => Len(buf) = p
  /\ n # 0 => Len(Text(t, t.parentOf[n])) < Len(q)

\* What is left of the text of node z is in buf, the last byte first.
Climbs(t, z, n, buf) ==
  /\ n \in DOMAIN t.parentOf
  /\ Text(t, z) = Text(t, n) \o Seqs!Reverse(buf)

\* All texts the query is the start of are below node r.
RootOf(t, q, r) ==
  /\ r \in Nodes(t) /\ Begins(q, Text(t, r))
  /\ \A z \in Nodes(t) : Begins(q, Text(t, z)) => Begins(Text(t, r), Text(t, z))

\* The levels the cursor is on or has gone down through are a path.
PathOK(t, h, hp) ==
  \A i \in 1 .. hp :
    /\ h[i].nodeId \in Nodes(t)
    /\ h[i].keyPos = Len(Text(t, h[i].nodeId))
    /\ i > 1 => h[i].nodeId # 0 /\ t.parentOf[h[i].nodeId] = h[i - 1].nodeId
    /\ \A j \in i .. hp : Begins(Text(t, h[i].nodeId), Text(t, h[j].nodeId))

\* The number of the node whose 1 comes next at level i.
Upto(h, hp, i) == h[i].nodeId + (IF i <= hp THEN 1 ELSE 0)

\* The position of level i in the LOUDS bits says how many nodes and how many
\* parents lie before it, and the counters how many links and terminals; a
\* level deeper than the one to go on with has just been begun.
LevelOK(t, flags, h, hp, i) ==
  LET p == h[i].loudsPos
      n == Upto(h, hp, i)
  IN  /\ p \in 1 .. Len(t.louds)
      /\ Rank1(t.louds, p) = n
      /\ Rank0(t.louds, p) = h[i - 1].nodeId + 1
      /\ h[i].linkId # Invalid => h[i].linkId + 1 = Rank1(t.linkFlags, n)
      /\ h[i].keyId # Invalid => h[i].keyId + 1 = Rank1(flags, n)
      /\ i > hp + 1 => ~Bit(t.louds, p - 1)

Ids(flags) == 0 .. Ones(flags) - 1

\* Node z is below a child of node u before node n.
Below(t, u, n, z) ==
  \E m \in DOMAIN t.parentOf :
    t.parentOf[m] = u /\ m < n /\ Begins(Text(t, m), Text(t, z))

\* The node z comes before where the walk goes on.
Visited(t, h, hp, z) ==
  \E i \in 1 .. hp :
    \/ z = h[i].nodeId
    \/ i < Len(h) /\ Below(t, h[i].nodeId, h[i + 1].nodeId, z)

-----------------------------------------------------------------------------
(* What restore() and match() return.                                    *)

\* The text of the edge above a node.
Own(l, n) == EdgesOf(trie, l, TailTexts)[n]

LEMMA EdgeText ==
  ASSUME Finished, NEW l \in DOMAIN trie, NEW n \in DOMAIN trie[l].parentOf
  PROVE  LET t == trie[l]
         IN  /\ Text(t, n) = Join(l, Text(t, t.parentOf[n]), Own(l, n))
             /\ Own(l, n) \in Seq(Byte) /\ Own(l, n) # <<>>
             /\ n \in Nat /\ t.parentOf[n] \in 0 .. n - 1
             /\ Text(t, n) \in Seq(Byte) /\ Text(t, t.parentOf[n]) \in Seq(Byte)
             /\ Text(t, 0) = <<>> /\ n # 0
             /\ ~Bit(t.linkFlags, n) => Own(l, n) = <<t.bases[n + 1]>>
             /\ Bit(t.linkFlags, n) /\ l < Len(trie) =>
                  /\ l + 1 \in DOMAIN trie
                  /\ LinkOf(t, n) \in DOMAIN trie[l + 1].parentOf
                  /\ Own(l, n) = Text(trie[l + 1], LinkOf(t, n))
             /\ Bit(t.linkFlags, n) /\ ~(l < Len(trie)) =>
                  Own(l, n) = TailText(LinkOf(t, n))
<1> DEFINE t == trie[l]
           up == t.parentOf[n]
<1>1. /\ Len(trie) \in Nat /\ DOMAIN trie = 1 .. Len(trie)
      /\ \A j \in DOMAIN trie : FinishedTrie(j, trie[j])
  BY EachTrie
<1>2. FinishedTrie(l, t)
  BY <1>1
<1>3. /\ t.textOf \in Seq(Seq(Byte)) /\ Len(t.textOf) = Len(t.parentOf) + 1
      /\ Text(t, 0) = <<>>
      /\ up \in 0 .. n - 1
      /\ Text(t, n) = Join(l, Text(t, up), Own(l, n))
      /\ Len(Text(t, up)) < Len(Text(t, n))
      /\ Len(t.parentOf) \in Nat /\ n \in 1 .. Len(t.parentOf)
      /\ t.bases \in Seq(Byte) /\ Len(t.bases) = Len(t.parentOf) + 1
      /\ t.linkFlags \in Seq(BOOLEAN)
  BY <1>2 DEF FinishedTrie, Spelled, Shaped, Longer, Text, Own, WellFormed, BitsOK
<1>4. n \in 1 .. Len(t.bases) - 1 /\ n \in Nat /\ n # 0 /\ up \in Nat
  <2> HIDE DEF t, up
  <2> QED
    BY <1>3
<1>5. Text(t, n) \in Seq(Byte) /\ Text(t, up) \in Seq(Byte)
  <2>1. n + 1 \in 1 .. Len(t.textOf) /\ up + 1 \in 1 .. Len(t.textOf)
    <3> DEFINE size == Len(t.parentOf)
               texts == Len(t.textOf)
    <3>1. size \in Nat /\ n \in 1 .. size /\ up \in 0 .. n - 1 /\ texts = size + 1
      BY <1>3
    <3> HIDE DEF size, texts, t, up
    <3>2. n + 1 \in 1 .. texts /\ up + 1 \in 1 .. texts
      BY ONLY <3>1
    <3> QED
      BY <3>2 DEF texts
  <2> QED
    BY <1>3, <2>1, ElementOfSeq DEF Text
<1>6. Bit(t.linkFlags, n) =>
        /\ LinkOf(t, n) \in Nat
        /\ l < Len(trie) =>
             /\ l + 1 \in DOMAIN trie
             /\ LinkOf(t, n) \in 0 .. Len(trie[l + 1].bases) - 1
  BY <1>4, NodesOfDone DEF Finished
<1>7. Own(l, n) = IF ~Bit(t.linkFlags, n) THEN <<t.bases[n + 1]>>
                  ELSE IF l < Len(trie) THEN trie[l + 1].textOf[LinkOf(t, n) + 1]
                  ELSE TailTexts[LinkOf(t, n)]
  BY DEF Own, EdgesOf
<1>8. ASSUME Own(l, n) \in Seq(Byte) PROVE Own(l, n) # <<>>
  <2>1. CASE Own(l, n) = <<>>
    <3>1. Text(t, n) = Text(t, up)
      BY <1>3, <1>5, <2>1, ConcatEmptySeq DEF Join
    <3>2. Len(Text(t, up)) \in Nat
      BY <1>5, LenProperties
    <3> QED
      BY <1>3, <3>1, <3>2
  <2> QED
    BY <2>1
<1>9. ASSUME ~Bit(t.linkFlags, n)
      PROVE  Own(l, n) \in Seq(Byte) /\ Own(l, n) = <<t.bases[n + 1]>>
  <2>1. n + 1 \in 1 .. Len(t.bases)
    <3> DEFINE size == Len(t.parentOf)
               width == Len(t.bases)
    <3>1. size \in Nat /\ n \in 1 .. size /\ width = size + 1
      BY <1>3
    <3> HIDE DEF size, width, t, up
    <3>2. n + 1 \in 1 .. width
      BY ONLY <3>1
    <3> QED
      BY <3>2 DEF width
  <2>2. t.bases[n + 1] \in Byte
    BY <1>3, <2>1, ElementOfSeq
  <2> QED
    BY <1>7, <1>9, <2>2
<1>10. ASSUME Bit(t.linkFlags, n), l < Len(trie)
       PROVE  /\ Own(l, n) \in Seq(Byte)
              /\ l + 1 \in DOMAIN trie
              /\ LinkOf(t, n) \in DOMAIN trie[l + 1].parentOf
              /\ Own(l, n) = Text(trie[l + 1], LinkOf(t, n))
  <2> DEFINE next == trie[l + 1]
             m == LinkOf(t, n)
  <2>1. /\ l + 1 \in DOMAIN trie /\ m \in 0 .. Len(next.bases) - 1
        /\ Own(l, n) = Text(next, m)
    BY <1>6, <1>7, <1>10 DEF Text
  <2>2. FinishedTrie(l + 1, next)
    BY <1>1, <2>1
  <2>3. /\ next.textOf \in Seq(Seq(Byte)) /\ Len(next.textOf) = Len(next.parentOf) + 1
        /\ Text(next, 0) = <<>>
        /\ Len(next.parentOf) \in Nat /\ DOMAIN next.parentOf = 1 .. Len(next.parentOf)
        /\ Len(next.bases) = Len(next.parentOf) + 1
    BY <2>2 DEF FinishedTrie, Spelled, Text
  <2>4. m + 1 \in 1 .. Len(next.textOf)
    <3> HIDE DEF next, m
    <3> QED
      BY <2>1, <2>3
  <2>5. Text(next, m) \in Seq(Byte)
    BY <2>3, <2>4, ElementOfSeq DEF Text
  <2>6. m # 0
    BY <1>8, <2>1, <2>3, <2>5
  <2>7. m \in DOMAIN next.parentOf
    <3> HIDE DEF next, m
    <3> QED
      BY <2>1, <2>3, <2>6
  <2> QED
    BY <2>1, <2>5, <2>7
<1>11. ASSUME Bit(t.linkFlags, n), ~(l < Len(trie))
       PROVE  /\ Own(l, n) \in Seq(Byte)
              /\ Own(l, n) = TailText(LinkOf(t, n))
  <2>1. trie # <<>> /\ l = Len(trie) /\ LinkOf(t, n) \in Nat
    BY <1>1, <1>6, <1>11
  <2>2. Own(l, n) = TailTexts[LinkOf(t, n)]
    BY <1>7, <1>11
  <2>3. TailTexts[LinkOf(t, n)] \in Seq(Byte)
    BY <1>11, <2>1 DEF Finished, TailReadInv
  <2> QED
    BY <2>1, <2>2, <2>3 DEF TailTexts
<1> QED
  BY <1>3, <1>4, <1>5, <1>8, <1>9, <1>10, <1>11

\* A slot of a cache, whatever the hash.
LEMMA SlotOf ==
  ASSUME NEW S, Slots(S), NEW n \in Nat
  PROVE  n % Cardinality(S) \in S
<1>1. PICK size \in Nat \ {0} : S = 0 .. size - 1
  BY DEF Slots
<1>2. Cardinality(S) = size
  <2>1. 0 \in Int /\ size - 1 \in Int
    BY <1>1
  <2>2. Cardinality(0 .. size - 1) = IF 0 > size - 1 THEN 0 ELSE size - 1 - 0 + 1
    BY <2>1, FS_Interval
  <2> QED
    BY <1>1, <2>2
<1>3. n % size \in 0 .. size - 1
  BY <1>1
<1> QED
  BY <1>1, <1>2, <1>3

\* A step towards the root of a later trie is the same from the cache and from
\* the vectors.
LEMMA EdgeIs ==
  ASSUME Finished, NEW l \in DOMAIN trie, l # 1, NEW n \in DOMAIN trie[l].parentOf
  PROVE  /\ Edge(l, n).link = Bit(trie[l].linkFlags, n)
         /\ Edge(l, n).label = trie[l].bases[n + 1]
         /\ Bit(trie[l].linkFlags, n) => Edge(l, n).target = LinkOf(trie[l], n)
         /\ Edge(l, n).parent = trie[l].parentOf[n]
<1> DEFINE t == trie[l]
           s == n % Cardinality(DOMAIN t.cache)
           c == t.cache[s]
           cached == [link |-> c.link, label |-> c.base, target |-> c.base + Base * c.extra,
                      parent |-> c.parent]
           read == [link |-> Bit(t.linkFlags, n), label |-> t.bases[n + 1],
                    target |-> IF Bit(t.linkFlags, n) THEN LinkOf(t, n) ELSE 0,
                    parent |-> IF n <= t.numL1 THEN 0 ELSE Select1(t.louds, n) - n - 1]
<1>1. Edge(l, n) = IF c.used /\ c.child = n THEN cached ELSE read
  BY DEF Edge
<1>2. FinishedTrie(l, t)
  BY EachTrie
<1>3. n \in Nat /\ n # 0
  BY EdgeText
<1>4. s \in DOMAIN t.cache
  BY <1>2, <1>3, SlotOf DEF FinishedTrie, Shaped
<1>5. CASE c.used /\ c.child = n
  <2>1. Edge(l, n) = cached
    BY <1>1, <1>5
  <2>2. /\ c.base = t.bases[n + 1] /\ c.link = Bit(t.linkFlags, n)
        /\ c.link => c.extra = Extra(t, n)
    BY <1>2, <1>4, <1>5 DEF FinishedTrie, Repeats
  <2>3. c.parent = t.parentOf[n]
    BY <1>2, <1>3, <1>4, <1>5 DEF FinishedTrie, Tells, SlotTells
  <2> QED
    BY <2>1, <2>2, <2>3 DEF LinkOf
<1>6. CASE ~(c.used /\ c.child = n)
  <2>1. Edge(l, n) = read
    BY <1>1, <1>6
  <2>2. t.parentOf[n] = 0 <=> n <= t.numL1
    BY <1>2 DEF FinishedTrie, Shaped, RootFirst
  <2>3. Select1(t.louds, n) - n - 1 = t.parentOf[n]
    <3>1. Numbered(t.louds, t.parentOf) /\ t.parentOf \in Seq(Nat)
      BY <1>2 DEF FinishedTrie, WellFormed, BitsOK
    <3> QED
      BY <3>1, NumberedFinds DEF ParentsOf
  <2> QED
    BY <2>1, <2>2, <2>3
<1> QED
  BY <1>5, <1>6

LEMMA EdgeOfRoot ==
  ASSUME Finished, NEW l \in DOMAIN trie, l # 1
  PROVE  /\ ~Edge(l, 0).link
         /\ Edge(l, 0).label = trie[l].bases[1]
         /\ Edge(l, 0).parent = 0
<1> DEFINE t == trie[l]
           s == 0 % Cardinality(DOMAIN t.cache)
           c == t.cache[s]
           cached == [link |-> c.link, label |-> c.base, target |-> c.base + Base * c.extra,
                      parent |-> c.parent]
           read == [link |-> Bit(t.linkFlags, 0), label |-> t.bases[0 + 1],
                    target |-> IF Bit(t.linkFlags, 0) THEN LinkOf(t, 0) ELSE 0,
                    parent |-> IF 0 <= t.numL1 THEN 0 ELSE Select1(t.louds, 0) - 0 - 1]
<1>1. Edge(l, 0) = IF c.used /\ c.child = 0 THEN cached ELSE read
  BY DEF Edge
<1>2. FinishedTrie(l, t)
  BY EachTrie
<1>3. s \in DOMAIN t.cache
  BY <1>2, SlotOf DEF FinishedTrie, Shaped
<1>4. ~(c.used /\ c.child = 0)
  BY <1>2, <1>3 DEF FinishedTrie, Repeats
<1>5. Edge(l, 0) = read
  BY <1>1, <1>4
<1>6. ~Bit(t.linkFlags, 0) /\ t.numL1 \in Nat
  BY <1>2 DEF FinishedTrie, WellFormed, BitsOK
<1> QED
  BY <1>5, <1>6

LEMMA LaterAre ==
  ASSUME Finished, NEW l \in DOMAIN trie, l # 1
  PROVE  \A n : <<l, n>> \in Later <=> n \in 0 .. Len(trie[l].bases) - 1
<1>1. l > 1
  BY EachTrie
<1> QED
  BY <1>1, PlacesAre DEF Later

\* What holds of the nodes of later tries can be shown along the way restore()
\* goes: from the last trie to the second, and in each from the root on.
LEMMA FromTheEnd ==
  ASSUME Finished, NEW R,
         \A l \in DOMAIN trie \ {1} : \A n \in 0 .. Len(trie[l].bases) - 1 :
           /\ l < Len(trie) =>
                \A m \in 0 .. Len(trie[l + 1].bases) - 1 : <<l + 1, m>> \in R
           /\ \A m \in 0 .. n - 1 : <<l, m>> \in R
           => <<l, n>> \in R
  PROVE  \A l \in DOMAIN trie \ {1} : \A n \in 0 .. Len(trie[l].bases) - 1 :
           <<l, n>> \in R
<1> DEFINE All(l) == \A n \in 0 .. Len(trie[l].bases) - 1 : <<l, n>> \in R
           S == {d \in Nat : \A l \in DOMAIN trie \ {1} : l + d >= Len(trie) => All(l)}
<1>1. Len(trie) \in Nat /\ DOMAIN trie = 1 .. Len(trie)
  BY EachTrie
<1>2. ASSUME NEW l \in DOMAIN trie \ {1}, l < Len(trie) => All(l + 1)
      PROVE  All(l)
  <2> DEFINE size == Len(trie[l].bases)
             T == {k \in Nat : \A n \in 0 .. size - 1 : n < k => <<l, n>> \in R}
  <2>1. 0 \in T
    OBVIOUS
  <2>2. ASSUME NEW k \in Nat, k \in T PROVE k + 1 \in T
    <3> SUFFICES ASSUME NEW n \in 0 .. size - 1, n < k + 1 PROVE <<l, n>> \in R
      OBVIOUS
    <3>1. size \in Nat
      BY EachTrie DEF FinishedTrie
    <3>2. ASSUME NEW m \in 0 .. n - 1 PROVE <<l, m>> \in R
      <4>1. m \in 0 .. size - 1 /\ m < k
        <5> HIDE DEF size
        <5> QED
          BY <3>1
      <4> QED
        BY <2>2, <4>1
    <3> QED
      BY <1>2, <3>2
  <2> HIDE DEF T
  <2>3. \A k \in Nat : k \in T
    BY <2>1, <2>2, Induction
  <2>4. ASSUME NEW n \in 0 .. size - 1 PROVE <<l, n>> \in R
    <3>1. n + 1 \in T /\ n < n + 1
      BY <2>3
    <3> QED
      BY <3>1 DEF T
  <2> QED
    BY <2>4
<1> HIDE DEF All
<1>3. 0 \in S
  <2> SUFFICES ASSUME NEW l \in DOMAIN trie \ {1}, l + 0 >= Len(trie) PROVE All(l)
    OBVIOUS
  <2>1. ~(l < Len(trie))
    BY <1>1
  <2> QED
    BY <1>2, <2>1
<1>4. ASSUME NEW d \in Nat, d \in S PROVE d + 1 \in S
  <2> SUFFICES ASSUME NEW l \in DOMAIN trie \ {1}, l + (d + 1) >= Len(trie) PROVE All(l)
    OBVIOUS
  <2>1. ASSUME l < Len(trie) PROVE All(l + 1)
    <3>1. l + 1 \in DOMAIN trie \ {1} /\ l + 1 + d >= Len(trie)
      BY <1>1, <2>1
    <3> QED
      BY <1>4, <3>1
  <2> QED
    BY <1>2, <2>1
<1> HIDE DEF S
<1>5. \A d \in Nat : d \in S
  BY <1>3, <1>4, Induction
<1>6. Len(trie) \in S /\ \A l \in DOMAIN trie : l + Len(trie) >= Len(trie)
  BY <1>1, <1>5
<1> QED
  BY <1>6 DEF S, All

\* What restore() reads at a node, given what it reads at others.
RestoredRead(text, l, n) ==
  LET e == Edge(l, n)
      own == IF ~e.link THEN <<e.label>>
             ELSE IF l < Len(trie) THEN text[<<l + 1, e.target>>]
             ELSE TailText(e.target)
  IN  IF e.parent = 0 THEN own ELSE own \o text[<<l, e.parent>>]

\* The texts of the nodes, and for a root, which is never asked for, its label.
BackText(l, n) == IF n = 0 THEN <<trie[l].bases[1]>> ELSE Text(trie[l], n)

BackTexts == [place \in Later |-> BackText(place[1], place[2])]

LEMMA RestoredEquation ==
  Restored = CHOOSE text : text = [place \in Later |-> RestoredRead(text, place[1], place[2])]
BY DEF Restored, RestoredRead

LEMMA RestoredReads ==
  ASSUME Finished, NEW text, NEW l \in DOMAIN trie \ {1},
         NEW n \in 0 .. Len(trie[l].bases) - 1,
         l < Len(trie) => \A m \in 0 .. Len(trie[l + 1].bases) - 1 :
                            text[<<l + 1, m>>] = BackText(l + 1, m),
         \A m \in 0 .. n - 1 : text[<<l, m>>] = BackText(l, m)
  PROVE  RestoredRead(text, l, n) = BackText(l, n)
<1> DEFINE t == trie[l]
           e == Edge(l, n)
           own == IF ~e.link THEN <<e.label>>
                  ELSE IF l < Len(trie) THEN text[<<l + 1, e.target>>]
                  ELSE TailText(e.target)
<1>1. RestoredRead(text, l, n) = IF e.parent = 0 THEN own ELSE own \o text[<<l, e.parent>>]
  BY DEF RestoredRead
<1>2. CASE n = 0
  <2>1. ~e.link /\ e.label = t.bases[1] /\ e.parent = 0
    BY <1>2, EdgeOfRoot
  <2> QED
    BY <1>1, <1>2, <2>1 DEF BackText
<1>3. CASE n # 0
  <2>1. n \in DOMAIN t.parentOf
    <3>1. FinishedTrie(l, t)
      BY EachTrie
    <3>2. /\ Len(t.parentOf) \in Nat /\ DOMAIN t.parentOf = 1 .. Len(t.parentOf)
          /\ Len(t.bases) = Len(t.parentOf) + 1 /\ n \in 0 .. Len(t.bases) - 1
      BY <3>1 DEF FinishedTrie
    <3> HIDE DEF t
    <3> QED
      BY <1>3, <3>2
  <2> DEFINE up == t.parentOf[n]
  <2>2. /\ e.link = Bit(t.linkFlags, n) /\ e.label = t.bases[n + 1]
        /\ Bit(t.linkFlags, n) => e.target = LinkOf(t, n)
        /\ e.parent = up
    BY <2>1, EdgeIs
  <2>3. /\ Text(t, n) = Join(l, Text(t, up), Own(l, n))
        /\ Own(l, n) \in Seq(Byte) /\ up \in 0 .. n - 1 /\ Text(t, 0) = <<>>
        /\ ~Bit(t.linkFlags, n) => Own(l, n) = <<t.bases[n + 1]>>
        /\ Bit(t.linkFlags, n) /\ ~(l < Len(trie)) => Own(l, n) = TailText(LinkOf(t, n))
    BY <2>1, EdgeText
  <2>4. ASSUME Bit(t.linkFlags, n), l < Len(trie)
        PROVE  text[<<l + 1, LinkOf(t, n)>>] = Own(l, n)
    <3> DEFINE next == trie[l + 1]
               m == LinkOf(t, n)
    <3>1. l + 1 \in DOMAIN trie /\ m \in DOMAIN next.parentOf /\ Own(l, n) = Text(next, m)
      BY <2>1, <2>4, EdgeText
    <3>2. m \in 0 .. Len(next.bases) - 1 /\ m # 0
      <4>1. FinishedTrie(l + 1, next)
        BY <3>1, EachTrie
      <4>2. /\ Len(next.parentOf) \in Nat /\ m \in 1 .. Len(next.parentOf)
            /\ Len(next.bases) = Len(next.parentOf) + 1
        BY <3>1, <4>1 DEF FinishedTrie
      <4> HIDE DEF next, m
      <4> QED
        BY <4>2
    <3> QED
      BY <2>4, <3>1, <3>2 DEF BackText
  <2>5. own = Own(l, n)
    <3>1. CASE ~Bit(t.linkFlags, n)
      BY <2>2, <2>3, <3>1
    <3>2. CASE Bit(t.linkFlags, n) /\ l < Len(trie)
      <4>1. own = text[<<l + 1, LinkOf(t, n)>>]
        BY <2>2, <3>2
      <4> QED
        BY <2>4, <3>2, <4>1
    <3>3. CASE Bit(t.linkFlags, n) /\ ~(l < Len(trie))
      BY <2>2, <2>3, <3>3
    <3> QED
      BY <3>1, <3>2, <3>3
  <2> HIDE DEF own, up, e
  <2>6. CASE up = 0
    <3>1. Own(l, n) \o <<>> = Own(l, n)
      BY <2>3, ConcatEmptySeq
    <3> QED
      BY <1>1, <1>3, <2>2, <2>3, <2>5, <2>6, <3>1 DEF BackText, Join
  <2>7. CASE up # 0
    <3>1. text[<<l, up>>] = Text(t, up)
      BY <2>3, <2>7 DEF BackText
    <3> QED
      BY <1>1, <1>3, <2>2, <2>3, <2>5, <2>7, <3>1 DEF BackText, Join
  <2> QED
    BY <2>6, <2>7
<1> QED
  BY <1>2, <1>3

\* From every node of a later trie of a finished build, restore() returns the text the
\* node was made for: through the cache or the vectors, whichever way each step takes,
\* down the links to the next tries and to the tail.  (The root has no text; its
\* entry is the byte that stands in bases for it.)
THEOREM RestoredIs ==
  ASSUME Finished, NEW l \in DOMAIN trie \ {1}, NEW n \in 0 .. Len(trie[l].bases) - 1
  PROVE  Restored[<<l, n>>] = BackText(l, n)
<1>1. \A j \in DOMAIN trie \ {1} : \A m \in 0 .. Len(trie[j].bases) - 1 :
        BackTexts[<<j, m>>] = BackText(j, m)
  <2> TAKE j \in DOMAIN trie \ {1}
  <2> TAKE m \in 0 .. Len(trie[j].bases) - 1
  <2>1. <<j, m>> \in Later
    BY LaterAre
  <2> QED
    BY <2>1 DEF BackTexts
<1>2. \A j \in DOMAIN trie \ {1} : j < Len(trie) => j + 1 \in DOMAIN trie \ {1}
  BY EachTrie
<1>3. BackTexts = [place \in Later |-> RestoredRead(BackTexts, place[1], place[2])]
  <2>1. ASSUME NEW place \in Later
        PROVE  BackText(place[1], place[2]) = RestoredRead(BackTexts, place[1], place[2])
    <3>1. PICK j \in DOMAIN trie :
            place \in {j} \X (0 .. Len(trie[j].bases) - 1) /\ place[1] > 1
      BY DEF Later, Places
    <3> DEFINE m == place[2]
    <3>2. /\ place = <<j, m>> /\ m \in 0 .. Len(trie[j].bases) - 1
          /\ j \in DOMAIN trie \ {1}
      BY <3>1, EachTrie
    <3>3. \A i \in 0 .. m - 1 : BackTexts[<<j, i>>] = BackText(j, i)
      <4> TAKE i \in 0 .. m - 1
      <4>1. Len(trie[j].bases) \in Nat
        BY <3>2, EachTrie DEF FinishedTrie
      <4>2. i \in 0 .. Len(trie[j].bases) - 1
        BY <3>2, <4>1
      <4> QED
        BY <1>1, <3>2, <4>2
    <3>4. RestoredRead(BackTexts, j, m) = BackText(j, m)
      BY <1>1, <1>2, <3>2, <3>3, RestoredReads, ZenonT(40)
    <3> QED
      BY <3>2, <3>4
  <2> QED
    BY <2>1 DEF BackTexts
<1> DEFINE text == Restored
<1>4. text = [place \in Later |-> RestoredRead(text, place[1], place[2])]
  BY <1>3, RestoredEquation
<1> DEFINE R == {place \in Later : text[place] = BackText(place[1], place[2])}
<1> HIDE DEF text
<1>5. ASSUME NEW j \in DOMAIN trie \ {1}, NEW m \in 0 .. Len(trie[j].bases) - 1,
             j < Len(trie) =>
               \A i \in 0 .. Len(trie[j + 1].bases) - 1 : <<j + 1, i>> \in R,
             \A i \in 0 .. m - 1 : <<j, i>> \in R
      PROVE  <<j, m>> \in R
  <2>1. <<j, m>> \in Later
    BY LaterAre
  <2>2. text[<<j, m>>] = RestoredRead(text, j, m)
    BY <1>4, <2>1
  <2>3. j < Len(trie) => \A i \in 0 .. Len(trie[j + 1].bases) - 1 :
                           text[<<j + 1, i>>] = BackText(j + 1, i)
    BY <1>5
  <2>4. \A i \in 0 .. m - 1 : text[<<j, i>>] = BackText(j, i)
    BY <1>5
  <2>5. RestoredRead(text, j, m) = BackText(j, m)
    BY <2>3, <2>4, RestoredReads
  <2> QED
    BY <2>1, <2>2, <2>5
<1> HIDE DEF R
<1>6. <<l, n>> \in R
  BY <1>5, FromTheEnd
<1> QED
  BY <1>6 DEF R, text

-----------------------------------------------------------------------------
\* So many bytes of text agree with q from position p on, and no more do.
Agrees(text, q, p, n) ==
  /\ n \in Nat /\ n <= Len(text) /\ p + n <= Len(q)
  /\ \A i \in 1 .. n : text[i] = q[p + i]
  /\ n < Len(text) /\ p + n < Len(q) => text[n + 1] # q[p + n + 1]

LEMMA AgreeSomewhere ==
  ASSUME NEW q \in Seq(Byte), NEW text \in Seq(Byte), NEW p \in 0 .. Len(q)
  PROVE  \E n : Agrees(text, q, p, n)
<1> DEFINE Ends(k) == \/ k = Len(text) \/ p + k = Len(q)
                      \/ text[k + 1] # q[p + k + 1]
           S == {k \in Nat : k <= Len(text) /\ p + k <= Len(q) /\ Ends(k)}
<1>1. Len(q) \in Nat /\ Len(text) \in Nat
  BY LenProperties
<1>2. S \in SUBSET Nat /\ S # {}
  <2>1. CASE Len(text) <= Len(q) - p
    <3>1. Len(text) \in S
      BY <1>1, <2>1
    <3> QED
      BY <3>1
  <2>2. CASE ~(Len(text) <= Len(q) - p)
    <3>1. Len(q) - p \in Nat /\ Len(q) - p <= Len(text) /\ p + (Len(q) - p) = Len(q)
      BY <1>1, <2>2
    <3>2. Len(q) - p \in S
      BY <3>1
    <3> QED
      BY <3>2
  <2> QED
    BY <2>1, <2>2
<1> HIDE DEF S
<1>3. PICK n \in S : \A k \in S : n <= k
  BY <1>2, LeastNumber
<1>4. n \in Nat /\ n <= Len(text) /\ p + n <= Len(q) /\ Ends(n)
  BY DEF S
<1>5. ASSUME NEW i \in 1 .. n PROVE text[i] = q[p + i]
  <2>1. /\ i - 1 \in Nat /\ i - 1 < n /\ i - 1 + 1 = i /\ p + (i - 1) + 1 = p + i
        /\ i - 1 <= Len(text) /\ p + (i - 1) <= Len(q)
        /\ i - 1 # Len(text) /\ p + (i - 1) # Len(q)
    BY <1>1, <1>4
  <2>2. i - 1 \notin S
    BY <1>3, <1>4, <2>1
  <2>3. ~Ends(i - 1)
    BY <2>1, <2>2 DEF S
  <2> QED
    BY <2>1, <2>3
<1>6. Agrees(text, q, p, n)
  BY <1>1, <1>4, <1>5 DEF Agrees
<1> QED
  BY <1>6

LEMMA CommonLength ==
  ASSUME NEW q \in Seq(Byte), NEW text \in Seq(Byte), NEW p \in 0 .. Len(q),
         NEW n, Agrees(text, q, p, n)
  PROVE  Len(Seqs!LongestCommonPrefix({text, SubSeq(q, p + 1, Len(q))})) = n
<1> DEFINE ahead == SubSeq(q, p + 1, Len(q))
           both == {text, ahead}
           common == Seqs!CommonPrefixes(both)
           start == SubSeq(text, 1, n)
<1>1. Len(q) \in Nat /\ Len(text) \in Nat /\ p \in Nat /\ p <= Len(q)
  BY LenProperties
<1>2. /\ n \in Nat /\ n <= Len(text) /\ p + n <= Len(q)
      /\ \A i \in 1 .. n : text[i] = q[p + i]
      /\ n < Len(text) /\ p + n < Len(q) => text[n + 1] # q[p + n + 1]
  BY DEF Agrees
<1>3. /\ ahead \in Seq(Byte) /\ Len(ahead) = Len(q) - p
      /\ \A i \in 1 .. Len(q) - p : ahead[i] = q[p + i]
  <2>1. p + 1 \in 1 .. Len(q) + 1 /\ Len(q) \in p + 1 - 1 .. Len(q)
        /\ \A i \in p + 1 .. Len(q) : q[i] \in Byte
    BY <1>1, ElementOfSeq
  <2>2. /\ ahead \in Seq(Byte) /\ Len(ahead) = Len(q) - (p + 1) + 1
        /\ \A i \in 1 .. Len(q) - (p + 1) + 1 : ahead[i] = q[p + 1 + i - 1]
    BY <1>1, <2>1
  <2>3. Len(q) - (p + 1) + 1 = Len(q) - p
    BY <1>1
  <2> HIDE DEF ahead
  <2>4. ASSUME NEW i \in 1 .. Len(q) - p PROVE ahead[i] = q[p + i]
    <3>1. p + 1 + i - 1 = p + i
      BY <1>1
    <3> QED
      BY <2>2, <2>3, <3>1
  <2> QED
    BY <2>2, <2>3, <2>4
<1>4. start \in Seq(Byte) /\ Len(start) = n /\ \A i \in 1 .. n : start[i] = text[i]
  BY <1>1, <1>2
<1>5. common = {prefix \in Seqs!Prefixes(text) \cup Seqs!Prefixes(ahead) :
                  /\ Len(prefix) <= Len(text)
                  /\ SubSeq(prefix, 1, Len(prefix)) = SubSeq(text, 1, Len(prefix))
                  /\ Len(prefix) <= Len(ahead)
                  /\ SubSeq(prefix, 1, Len(prefix)) = SubSeq(ahead, 1, Len(prefix))}
  BY DEF Seqs!CommonPrefixes, Seqs!IsPrefix
<1> HIDE DEF ahead, start
<1>6. start \in common
  <2>1. start \in Seqs!Prefixes(text)
    BY <1>1, <1>2 DEF start, Seqs!Prefixes
  <2>2. SubSeq(start, 1, n) = start
    BY <1>4, SubSeqFull
  <2>3. n <= Len(ahead)
    BY <1>1, <1>2, <1>3
  <2>4. start = SubSeq(ahead, 1, n)
    <3> DEFINE other == SubSeq(ahead, 1, n)
    <3>1. other \in Seq(Byte) /\ Len(other) = n /\ \A i \in 1 .. n : other[i] = ahead[i]
      BY <1>2, <1>3, <2>3
    <3>2. \A i \in 1 .. n : ahead[i] = text[i]
      BY <1>1, <1>2, <1>3
    <3> HIDE DEF other
    <3>3. start = other
      BY <1>4, <3>1, <3>2, SeqEqual
    <3> QED
      BY <3>3 DEF other
  <2>5. /\ Len(start) = n /\ n <= Len(text) /\ n <= Len(ahead)
        /\ start = SubSeq(text, 1, n)
    BY <1>2, <1>4, <2>3 DEF start
  <2> QED
    BY <1>5, <2>1, <2>2, <2>4, <2>5, Zenon
<1>7. ASSUME NEW prefix \in common PROVE Len(prefix) \in Nat /\ Len(prefix) <= n
  <2>1. /\ Len(prefix) <= Len(text) /\ Len(prefix) <= Len(ahead)
        /\ SubSeq(text, 1, Len(prefix)) = SubSeq(ahead, 1, Len(prefix))
        /\ prefix \in Seqs!Prefixes(text) \cup Seqs!Prefixes(ahead)
    BY <1>5
  <2>2. prefix \in Seq(Byte)
    <3>1. \A s \in {text, ahead} : \A l \in 0 .. Len(s) : SubSeq(s, 1, l) \in Seq(Byte)
      BY <1>3
    <3> QED
      BY <2>1, <3>1 DEF Seqs!Prefixes
  <2>3. Len(prefix) \in Nat
    BY <2>2, LenProperties
  <2>4. ASSUME n < Len(prefix) PROVE FALSE
    <3>1. n + 1 \in 1 .. Len(prefix) /\ n + 1 \in 1 .. Len(q) - p
      BY <1>1, <1>2, <1>3, <2>1, <2>3, <2>4
    <3>2. SubSeq(text, 1, Len(prefix))[n + 1] = text[n + 1]
      BY <1>1, <2>1, <2>3, <3>1
    <3>3. SubSeq(ahead, 1, Len(prefix))[n + 1] = ahead[n + 1]
      BY <1>3, <2>1, <2>3, <3>1
    <3>4. ahead[n + 1] = q[p + (n + 1)] /\ p + (n + 1) = p + n + 1
      BY <1>1, <1>2, <1>3, <3>1
    <3>5. n < Len(text) /\ p + n < Len(q)
      BY <1>1, <1>2, <2>1, <2>3, <2>4, <3>1
    <3> QED
      BY <1>2, <2>1, <3>2, <3>3, <3>4, <3>5
  <2> QED
    BY <1>2, <2>3, <2>4
<1> DEFINE longest == Seqs!LongestCommonPrefix(both)
<1>8. longest = CHOOSE s \in common : \A other \in common : Len(other) <= Len(s)
  BY DEF Seqs!LongestCommonPrefix
<1> HIDE DEF common, both
<1>9. start \in common /\ \A other \in common : Len(other) <= Len(start)
  BY <1>4, <1>6, <1>7
<1>10. longest \in common /\ \A other \in common : Len(other) <= Len(longest)
  BY <1>8, <1>9
<1>11. Len(longest) = n
  <2>1. Len(longest) \in Nat /\ Len(longest) <= n /\ n <= Len(longest)
    BY <1>4, <1>6, <1>7, <1>10
  <2> QED
    BY <1>2, <2>1
<1> QED
  BY <1>11 DEF longest, both, ahead

\* The outcome of a comparison in which so many bytes agree.
Judged(text, q, p, n, partial) ==
  LET ok == n = Len(text) \/ (partial /\ p + n = Len(q))
  IN  [ok |-> ok, pos |-> p + n, text |-> IF ok THEN text ELSE SubSeq(text, 1, n)]

LEMMA JudgedFits ==
  ASSUME NEW text, NEW q, NEW p, NEW n, NEW partial,
         n = Len(text) \/ (partial /\ p + n = Len(q))
  PROVE  Judged(text, q, p, n, partial) = [ok |-> TRUE, pos |-> p + n, text |-> text]
<1> DEFINE fits == n = Len(text) \/ (partial /\ p + n = Len(q))
<1>1. fits = TRUE
  BY Zenon
<1>2. Judged(text, q, p, n, partial)
        = [ok |-> fits, pos |-> p + n, text |-> IF fits THEN text ELSE SubSeq(text, 1, n)]
  BY DEF Judged
<1> HIDE DEF fits
<1> QED
  BY <1>1, <1>2

LEMMA JudgedFails ==
  ASSUME NEW text, NEW q, NEW p, NEW n, NEW partial,
         ~(n = Len(text) \/ (partial /\ p + n = Len(q)))
  PROVE  Judged(text, q, p, n, partial)
           = [ok |-> FALSE, pos |-> p + n, text |-> SubSeq(text, 1, n)]
<1> DEFINE fits == n = Len(text) \/ (partial /\ p + n = Len(q))
<1>1. fits = FALSE
  BY Zenon
<1>2. Judged(text, q, p, n, partial)
        = [ok |-> fits, pos |-> p + n, text |-> IF fits THEN text ELSE SubSeq(text, 1, n)]
  BY DEF Judged
<1> HIDE DEF fits
<1> QED
  BY <1>1, <1>2

LEMMA ComparedIs ==
  ASSUME query \in Seq(Byte), NEW text \in Seq(Byte), NEW p \in 0 .. Len(query),
         NEW partial \in BOOLEAN, NEW n, Agrees(text, query, p, n)
  PROVE  Compared(text, p, partial) = Judged(text, query, p, n, partial)
<1>1. Len(Seqs!LongestCommonPrefix({text, SubSeq(query, p + 1, Len(query))})) = n
  BY CommonLength
<1> QED
  BY <1>1, Zenon DEF Compared, Judged

LEMMA ComparedByte ==
  ASSUME query \in Seq(Byte), NEW b \in Byte, NEW p \in 0 .. Len(query) - 1,
         NEW partial \in BOOLEAN
  PROVE  Compared(<<b>>, p, partial) =
           IF Query(p) = b THEN [ok |-> TRUE, pos |-> p + 1, text |-> <<b>>]
           ELSE [ok |-> FALSE, pos |-> p, text |-> <<>>]
<1>1. <<b>> \in Seq(Byte) /\ Len(<<b>>) = 1 /\ p \in 0 .. Len(query) /\ Len(query) \in Nat
      /\ <<b>>[1] = b
  BY LenProperties
<1>2. CASE Query(p) = b
  <2>1. Agrees(<<b>>, query, p, 1)
    BY <1>1, <1>2 DEF Agrees, Query
  <2>2. Compared(<<b>>, p, partial) = Judged(<<b>>, query, p, 1, partial)
    BY <1>1, <2>1, ComparedIs
  <2> QED
    BY <1>1, <1>2, <2>2 DEF Judged
<1>3. CASE Query(p) # b
  <2>1. p + 0 + 1 = p + 1 /\ p + 0 = p
    OBVIOUS
  <2>2. Agrees(<<b>>, query, p, 0)
    BY <1>1, <1>3, <2>1 DEF Agrees, Query
  <2>3. Compared(<<b>>, p, partial) = Judged(<<b>>, query, p, 0, partial)
    BY <1>1, <2>2, ComparedIs
  <2>4. p + 0 # Len(query) /\ SubSeq(<<b>>, 1, 0) = <<>> /\ 0 # Len(<<b>>)
    BY <1>1
  <2> QED
    BY <1>3, <2>1, <2>3, <2>4 DEF Judged
<1> QED
  BY <1>2, <1>3

\* Agreement over two texts, one behind the other.
LEMMA AgreesJoined ==
  ASSUME NEW q \in Seq(Byte), NEW own \in Seq(Byte), NEW up \in Seq(Byte),
         NEW p \in 0 .. Len(q), NEW n, Agrees(own, q, p, n)
  PROVE  /\ n < Len(own) \/ p + n = Len(q) => Agrees(own \o up, q, p, n)
         /\ n = Len(own) => \A m : Agrees(up, q, p + n, m) => Agrees(own \o up, q, p, n + m)
<1>1. /\ Len(q) \in Nat /\ Len(own) \in Nat /\ Len(up) \in Nat
      /\ Len(own \o up) = Len(own) + Len(up)
      /\ \A i \in 1 .. Len(own) : (own \o up)[i] = own[i]
      /\ \A i \in 1 .. Len(up) : (own \o up)[Len(own) + i] = up[i]
  <2>1. Len(q) \in Nat /\ Len(own) \in Nat /\ Len(up) \in Nat
    BY LenProperties
  <2>2. /\ Len(own \o up) = Len(own) + Len(up)
        /\ \A i \in 1 .. Len(own) + Len(up) :
             (own \o up)[i] = IF i <= Len(own) THEN own[i] ELSE up[i - Len(own)]
    BY ConcatProperties
  <2>3. ASSUME NEW i \in 1 .. Len(own) PROVE (own \o up)[i] = own[i]
    BY <2>1, <2>2
  <2>4. ASSUME NEW i \in 1 .. Len(up) PROVE (own \o up)[Len(own) + i] = up[i]
    <3>1. /\ Len(own) + i \in 1 .. Len(own) + Len(up) /\ ~(Len(own) + i <= Len(own))
          /\ Len(own) + i - Len(own) = i
      BY <2>1
    <3> QED
      BY <2>2, <3>1
  <2> QED
    BY <2>1, <2>2, <2>3, <2>4
<1>2. /\ n \in Nat /\ n <= Len(own) /\ p + n <= Len(q)
      /\ \A i \in 1 .. n : own[i] = q[p + i]
      /\ n < Len(own) /\ p + n < Len(q) => own[n + 1] # q[p + n + 1]
  BY DEF Agrees
<1> DEFINE whole == own \o up
<1> HIDE DEF whole
<1>3. ASSUME n < Len(own) \/ p + n = Len(q) PROVE Agrees(whole, q, p, n)
  <2>1. n <= Len(whole) /\ \A i \in 1 .. n : whole[i] = q[p + i]
    BY <1>1, <1>2 DEF whole
  <2>2. ASSUME p + n < Len(q) PROVE whole[n + 1] # q[p + n + 1]
    <3>1. n < Len(own) /\ n + 1 \in 1 .. Len(own)
      BY <1>1, <1>2, <1>3, <2>2
    <3> QED
      BY <1>1, <1>2, <2>2, <3>1 DEF whole
  <2> QED
    BY <1>2, <2>1, <2>2 DEF Agrees
<1>4. ASSUME n = Len(own), NEW m, Agrees(up, q, p + n, m) PROVE Agrees(whole, q, p, n + m)
  <2>1. /\ m \in Nat /\ m <= Len(up) /\ p + n + m <= Len(q)
        /\ \A i \in 1 .. m : up[i] = q[p + n + i]
        /\ m < Len(up) /\ p + n + m < Len(q) => up[m + 1] # q[p + n + m + 1]
    BY <1>4 DEF Agrees
  <2>2. n + m \in Nat /\ n + m <= Len(whole) /\ p + (n + m) <= Len(q)
    BY <1>1, <1>2, <1>4, <2>1 DEF whole
  <2>3. ASSUME NEW i \in 1 .. n + m PROVE whole[i] = q[p + i]
    <3>1. CASE i <= n
      BY <1>1, <1>2, <3>1 DEF whole
    <3>2. CASE ~(i <= n)
      <4>1. i - n \in 1 .. m /\ i - n \in 1 .. Len(up) /\ n + (i - n) = i
            /\ p + n + (i - n) = p + i
        BY <1>1, <1>2, <2>1, <3>2
      <4>2. whole[n + (i - n)] = up[i - n]
        BY <1>1, <1>4, <4>1 DEF whole
      <4> QED
        BY <2>1, <4>1, <4>2
    <3> QED
      BY <3>1, <3>2
  <2>4. ASSUME n + m < Len(whole), p + (n + m) < Len(q)
        PROVE  whole[n + m + 1] # q[p + (n + m) + 1]
    <3>1. m < Len(up) /\ p + n + m < Len(q) /\ m + 1 \in 1 .. Len(up)
          /\ n + (m + 1) = n + m + 1 /\ p + (n + m) + 1 = p + n + m + 1
      BY <1>1, <1>2, <1>4, <2>1, <2>4 DEF whole
    <3>2. whole[n + (m + 1)] = up[m + 1]
      BY <1>1, <1>4, <3>1 DEF whole
    <3> QED
      BY <2>1, <3>1, <3>2
  <2> QED
    BY <2>2, <2>3, <2>4 DEF Agrees
<1> QED
  BY <1>3, <1>4 DEF whole

\* The starts of two texts, one behind the other.
LEMMA StartOfJoined ==
  ASSUME NEW own \in Seq(Byte), NEW up \in Seq(Byte)
  PROVE  /\ \A n \in 0 .. Len(own) : SubSeq(own \o up, 1, n) = SubSeq(own, 1, n)
         /\ SubSeq(own \o up, 1, Len(own)) = own
         /\ \A m \in 0 .. Len(up) : SubSeq(own \o up, 1, Len(own) + m) = own \o SubSeq(up, 1, m)
<1> DEFINE whole == own \o up
<1>1. Len(own) \in Nat /\ Len(up) \in Nat
  BY LenProperties
<1>2. /\ whole \in Seq(Byte) /\ Len(whole) = Len(own) + Len(up)
      /\ \A i \in 1 .. Len(own) + Len(up) :
           whole[i] = IF i <= Len(own) THEN own[i] ELSE up[i - Len(own)]
  BY ConcatProperties
<1> HIDE DEF whole
<1>3. ASSUME NEW n \in 0 .. Len(own) PROVE SubSeq(whole, 1, n) = SubSeq(own, 1, n)
  <2>1. CASE n = 0
    BY <2>1
  <2>2. CASE n # 0
    <3>1. 1 \in 1 .. Len(own) /\ n \in 1 .. Len(own)
      BY <1>1, <2>2
    <3> QED
      BY <3>1, SubSeqOfConcat1 DEF whole
  <2> QED
    BY <2>1, <2>2
<1>4. SubSeq(whole, 1, Len(own)) = own
  BY <1>1, <1>3, SubSeqFull
<1>5. ASSUME NEW m \in 0 .. Len(up)
      PROVE  SubSeq(whole, 1, Len(own) + m) = own \o SubSeq(up, 1, m)
  <2> DEFINE left == SubSeq(whole, 1, Len(own) + m)
             more == SubSeq(up, 1, m)
             right == own \o more
  <2>1. more \in Seq(Byte) /\ Len(more) = m /\ \A i \in 1 .. m : more[i] = up[i]
    BY <1>1
  <2>2. /\ left \in Seq(Byte) /\ Len(left) = Len(own) + m
        /\ \A i \in 1 .. Len(own) + m : left[i] = whole[i]
    <3>1. Len(own) + m \in Nat /\ Len(own) + m <= Len(whole)
      BY <1>1, <1>2
    <3> QED
      BY <1>2, <3>1
  <2> HIDE DEF more, left
  <2>3. /\ right \in Seq(Byte) /\ Len(right) = Len(own) + m
        /\ \A i \in 1 .. Len(own) + m :
             right[i] = IF i <= Len(own) THEN own[i] ELSE more[i - Len(own)]
    BY <2>1, ConcatProperties
  <2> HIDE DEF right
  <2>4. ASSUME NEW i \in 1 .. Len(own) + m PROVE left[i] = right[i]
    <3>1. i \in 1 .. Len(own) + Len(up)
      BY <1>1
    <3>2. ~(i <= Len(own)) => i - Len(own) \in 1 .. m
      BY <1>1
    <3> QED
      BY <1>2, <2>1, <2>2, <2>3, <3>1, <3>2
  <2>5. left = right
    BY <1>1, <2>2, <2>3, <2>4, SeqEqual
  <2> QED
    BY <2>5 DEF left, right, more
<1> QED
  BY <1>3, <1>4, <1>5 DEF whole

\* A comparison with two texts, one behind the other, piece by piece.
JoinedAs(own, up, p, partial) ==
  LET c == Compared(own, p, partial)
  IN  /\ c.ok \in BOOLEAN /\ c.pos \in p .. Len(query) /\ c.text \in Seq(Byte)
      /\ c.ok => c.text = own
      /\ Compared(own \o up, p, partial) =
           IF ~c.ok THEN c
           ELSE IF c.pos < Len(query)
           THEN [Compared(up, c.pos, partial) EXCEPT !.text = own \o @]
           ELSE [ok |-> partial, pos |-> c.pos,
                 text |-> IF partial THEN own \o up ELSE own]

LEMMA ComparedJoined ==
  ASSUME query \in Seq(Byte), NEW own \in Seq(Byte), NEW up \in Seq(Byte), up # <<>>,
         NEW p \in 0 .. Len(query), NEW partial \in BOOLEAN
  PROVE  JoinedAs(own, up, p, partial)
<1> DEFINE c == Compared(own, p, partial)
           whole == own \o up
<1>1. PICK n : Agrees(own, query, p, n)
  BY AgreeSomewhere
<1>2. c = Judged(own, query, p, n, partial)
  BY <1>1, ComparedIs
<1>3. /\ Len(query) \in Nat /\ Len(own) \in Nat /\ Len(up) \in Nat \ {0}
      /\ whole \in Seq(Byte) /\ Len(whole) = Len(own) + Len(up)
  <2>1. Len(up) # 0
    BY EmptySeq
  <2> QED
    BY <2>1, LenProperties, ConcatProperties
<1>4. n \in Nat /\ n <= Len(own) /\ p + n <= Len(query) /\ n \in 0 .. Len(own)
  BY <1>1, <1>3 DEF Agrees
<1>5. n < Len(own) \/ p + n = Len(query) =>
        Compared(whole, p, partial) = Judged(whole, query, p, n, partial)
  <2>1. n < Len(own) \/ p + n = Len(query) => Agrees(whole, query, p, n)
    BY <1>1, AgreesJoined
  <2> QED
    BY <1>3, <2>1, ComparedIs
<1> HIDE DEF c, whole
<1>6. SubSeq(own, 1, n) \in Seq(Byte) /\ p + n \in p .. Len(query)
  BY <1>3, <1>4
<1>7. CASE ~(n = Len(own) \/ (partial /\ p + n = Len(query)))
  <2>1. c = [ok |-> FALSE, pos |-> p + n, text |-> SubSeq(own, 1, n)]
    BY <1>2, <1>4, <1>7, JudgedFails
  <2>2. n < Len(own) /\ ~(n = Len(whole) \/ (partial /\ p + n = Len(query)))
    BY <1>3, <1>4, <1>7
  <2>3. Compared(whole, p, partial) = [ok |-> FALSE, pos |-> p + n, text |-> SubSeq(whole, 1, n)]
    BY <1>4, <1>5, <2>2, JudgedFails
  <2>4. SubSeq(whole, 1, n) = SubSeq(own, 1, n)
    BY <1>4, StartOfJoined DEF whole
  <2>5. Compared(whole, p, partial) = c /\ c.ok = FALSE /\ c.pos = p + n
        /\ c.text = SubSeq(own, 1, n)
    BY <2>1, <2>3, <2>4
  <2> QED
    BY <1>6, <2>5 DEF JoinedAs, c, whole
<1>8. CASE n = Len(own) \/ (partial /\ p + n = Len(query))
  <2>1. c = [ok |-> TRUE, pos |-> p + n, text |-> own]
    BY <1>2, <1>4, <1>8, JudgedFits
  <2>2. c.ok = TRUE /\ c.pos = p + n /\ c.text = own
    BY <2>1
  <2>3. CASE p + n < Len(query)
    <3>1. n = Len(own) /\ p + n \in 0 .. Len(query)
      BY <1>3, <1>4, <1>8, <2>3
    <3>2. PICK m : Agrees(up, query, p + n, m)
      BY <3>1, AgreeSomewhere
    <3>3. Compared(up, p + n, partial) = Judged(up, query, p + n, m, partial)
      BY <3>1, <3>2, ComparedIs
    <3>4. Compared(whole, p, partial) = Judged(whole, query, p, n + m, partial)
      <4>1. Agrees(whole, query, p, n + m)
        BY <1>1, <3>1, <3>2, AgreesJoined DEF whole
      <4> QED
        BY <1>3, <4>1, ComparedIs
    <3>5. m \in Nat /\ m <= Len(up) /\ m \in 0 .. Len(up) /\ p + (n + m) = p + n + m
      BY <1>3, <1>4, <3>2 DEF Agrees
    <3>6. n + m = Len(whole) <=> m = Len(up)
      <4>1. Len(whole) = n + Len(up) /\ Len(up) \in Nat
        BY <1>3, <3>1
      <4> QED
        BY <1>4, <3>5, <4>1
    <3>7. SubSeq(whole, 1, n + m) = own \o SubSeq(up, 1, m)
      BY <3>1, <3>5, StartOfJoined, Zenon DEF whole
    <3> DEFINE at == p + n
               k == n + m
               c2 == Compared(up, at, partial)
    <3>9. /\ at + m = p + k
          /\ k = Len(whole) <=> m = Len(up)
          /\ c2 = Judged(up, query, at, m, partial)
          /\ Compared(whole, p, partial) = Judged(whole, query, p, k, partial)
          /\ SubSeq(whole, 1, k) = own \o SubSeq(up, 1, m)
      BY <3>3, <3>4, <3>5, <3>6, <3>7
    <3> HIDE DEF at, k, c2
    <3>8. Compared(whole, p, partial) = [c2 EXCEPT !.text = own \o @]
      <4>1. CASE m = Len(up) \/ (partial /\ at + m = Len(query))
        <5>1. c2 = [ok |-> TRUE, pos |-> at + m, text |-> up]
          BY <3>9, <4>1, JudgedFits
        <5>2. k = Len(whole) \/ (partial /\ p + k = Len(query))
          BY <3>9, <4>1
        <5>3. Compared(whole, p, partial) = [ok |-> TRUE, pos |-> p + k, text |-> whole]
          BY <3>9, <5>2, JudgedFits
        <5>4. [c2 EXCEPT !.text = own \o @] = [ok |-> TRUE, pos |-> at + m, text |-> own \o up]
          <6> DEFINE new == own \o up
          <6>1. c2.text = up
            BY <5>1
          <6>2. [c2 EXCEPT !.text = own \o @] = [c2 EXCEPT !.text = new]
            BY <6>1, Zenon
          <6> DEFINE end == at + m
                     ok == TRUE
          <6>4. c2 = [ok |-> ok, pos |-> end, text |-> up]
            BY <5>1
          <6> HIDE DEF new, end, ok
          <6>3. [c2 EXCEPT !.text = new] = [ok |-> ok, pos |-> end, text |-> new]
            BY <6>4
          <6> QED
            BY <6>2, <6>3 DEF new, end, ok
        <5> QED
          BY <3>9, <5>3, <5>4 DEF whole
      <4>2. CASE ~(m = Len(up) \/ (partial /\ at + m = Len(query)))
        <5>1. c2 = [ok |-> FALSE, pos |-> at + m, text |-> SubSeq(up, 1, m)]
          BY <3>9, <4>2, JudgedFails
        <5>2. ~(k = Len(whole) \/ (partial /\ p + k = Len(query)))
          BY <3>9, <4>2
        <5>3. Compared(whole, p, partial) = [ok |-> FALSE, pos |-> p + k, text |-> SubSeq(whole, 1, k)]
          BY <3>9, <5>2, JudgedFails
        <5>4. [c2 EXCEPT !.text = own \o @]
                = [ok |-> FALSE, pos |-> at + m, text |-> own \o SubSeq(up, 1, m)]
          <6> DEFINE new == own \o SubSeq(up, 1, m)
          <6>1. c2.text = SubSeq(up, 1, m)
            BY <5>1
          <6>2. [c2 EXCEPT !.text = own \o @] = [c2 EXCEPT !.text = new]
            BY <6>1, Zenon
          <6> DEFINE end == at + m
                     ok == FALSE
          <6>4. c2 = [ok |-> ok, pos |-> end, text |-> SubSeq(up, 1, m)]
            BY <5>1
          <6> HIDE DEF new, end, ok
          <6>3. [c2 EXCEPT !.text = new] = [ok |-> ok, pos |-> end, text |-> new]
            BY <6>4
          <6> QED
            BY <6>2, <6>3 DEF new, end, ok
        <5> QED
          BY <3>9, <5>3, <5>4
      <4> QED
        BY <4>1, <4>2
    <3> QED
      BY <1>6, <2>2, <2>3, <3>8 DEF JoinedAs, c, c2, at, whole
  <2>4. CASE ~(p + n < Len(query))
    <3>1. p + n = Len(query) /\ n # Len(whole)
      BY <1>3, <1>4, <2>4
    <3>2. CASE partial = TRUE
      <4>1. Compared(whole, p, partial) = [ok |-> TRUE, pos |-> p + n, text |-> whole]
        <5>1. partial /\ Compared(whole, p, partial) = Judged(whole, query, p, n, partial)
          BY <1>5, <3>1, <3>2
        <5>2. n = Len(whole) \/ (partial /\ p + n = Len(query))
          BY <3>1, <5>1
        <5> DEFINE at == p + n
        <5>3. Judged(whole, query, p, n, partial) = [ok |-> TRUE, pos |-> at, text |-> whole]
          BY <5>2, JudgedFits
        <5> HIDE DEF at
        <5>4. Compared(whole, p, partial) = [ok |-> TRUE, pos |-> at, text |-> whole]
          BY <5>1, <5>3
        <5> QED
          BY <5>4 DEF at
      <4> QED
        BY <1>6, <2>2, <2>4, <3>2, <4>1 DEF JoinedAs, c, whole
    <3>3. CASE partial = FALSE
      <4>1. n = Len(own)
        BY <1>8, <3>3
      <4>2. SubSeq(whole, 1, n) = own
        BY <4>1, StartOfJoined DEF whole
      <4>3. Compared(whole, p, partial) = [ok |-> FALSE, pos |-> p + n, text |-> own]
        BY <1>5, <3>1, <3>3, <4>2, JudgedFails
      <4> QED
        BY <1>6, <2>2, <2>4, <3>3, <4>3 DEF JoinedAs, c, whole
    <3> QED
      BY <3>2, <3>3
  <2> QED
    BY <2>3, <2>4
<1> QED
  BY <1>7, <1>8

\* What match() and prefix_match() find at a node, given what they find at others.
MatchedRead(match, partial, l, n, p) ==
  LET e == Edge(l, n)
      own == IF e.link
             THEN IF l < Len(trie) THEN match[<< <<l + 1, e.target>>, p >>]
                  ELSE Compared(TailText(e.target), p, partial)
             ELSE IF Query(p) = e.label
             THEN [ok |-> TRUE, pos |-> p + 1, text |-> <<e.label>>]
             ELSE [ok |-> FALSE, pos |-> p, text |-> <<>>]
      up == <<l, e.parent>>
  IN  IF ~own.ok \/ e.parent = 0 THEN own
      ELSE IF own.pos < Len(query)
      THEN LET more == match[<<up, own.pos>>]
           IN  [more EXCEPT !.text = own.text \o @]
      ELSE [ok |-> partial, pos |-> own.pos,
            text |-> IF partial THEN own.text \o Restored[up] ELSE own.text]

Starts == 0 .. Len(query) - 1

BackMatches(partial) ==
  [at \in Later \X Starts |-> Compared(BackText(at[1][1], at[1][2]), at[2], partial)]

LEMMA MatchedEquation ==
  ASSUME NEW partial
  PROVE  Matched(partial) =
           CHOOSE match : match = [at \in Later \X Starts |->
                                    MatchedRead(match, partial, at[1][1], at[1][2], at[2])]
BY DEF Matched, MatchedRead, Starts

\* The comparison is right at the nodes it goes on to from node n.
MatchedOn(match, partial, l, n) ==
  /\ l < Len(trie) =>
       \A m \in 0 .. Len(trie[l + 1].bases) - 1 : \A p \in Starts :
         match[<< <<l + 1, m>>, p >>] = Compared(BackText(l + 1, m), p, partial)
  /\ \A m \in 0 .. n - 1 : \A p \in Starts :
       match[<< <<l, m>>, p >>] = Compared(BackText(l, m), p, partial)

LEMMA MatchedReads ==
  ASSUME Finished, query \in Seq(Byte), NEW partial \in BOOLEAN, NEW match,
         NEW l \in DOMAIN trie \ {1}, NEW n \in 0 .. Len(trie[l].bases) - 1,
         MatchedOn(match, partial, l, n), NEW p \in Starts
  PROVE  MatchedRead(match, partial, l, n, p) = Compared(BackText(l, n), p, partial)
<1> DEFINE t == trie[l]
           e == Edge(l, n)
           own == IF e.link
                  THEN IF l < Len(trie) THEN match[<< <<l + 1, e.target>>, p >>]
                       ELSE Compared(TailText(e.target), p, partial)
                  ELSE IF Query(p) = e.label
                  THEN [ok |-> TRUE, pos |-> p + 1, text |-> <<e.label>>]
                  ELSE [ok |-> FALSE, pos |-> p, text |-> <<>>]
           next == match[<< <<l, e.parent>>, own.pos >>]
<1>1. MatchedRead(match, partial, l, n, p) =
        IF ~own.ok \/ e.parent = 0 THEN own
        ELSE IF own.pos < Len(query) THEN [next EXCEPT !.text = own.text \o @]
        ELSE [ok |-> partial, pos |-> own.pos,
              text |-> IF partial THEN own.text \o Restored[<<l, e.parent>>] ELSE own.text]
  BY Zenon DEF MatchedRead
<1>2. FinishedTrie(l, t)
  BY EachTrie
<1>3. /\ Len(t.parentOf) \in Nat /\ DOMAIN t.parentOf = 1 .. Len(t.parentOf)
      /\ Len(t.bases) = Len(t.parentOf) + 1 /\ t.bases \in Seq(Byte)
      /\ Len(query) \in Nat
  BY <1>2, LenProperties DEF FinishedTrie, WellFormed, BitsOK
<1>4. ASSUME ~e.link, NEW b \in Byte, e.label = b
      PROVE  own = Compared(<<b>>, p, partial)
  <2>1. Compared(<<b>>, p, partial) =
          IF Query(p) = b THEN [ok |-> TRUE, pos |-> p + 1, text |-> <<b>>]
          ELSE [ok |-> FALSE, pos |-> p, text |-> <<>>]
    BY ComparedByte DEF Starts
  <2> HIDE DEF e
  <2> QED
    BY <1>4, <2>1
<1>5. CASE n = 0
  <2>1. ~e.link /\ e.label = t.bases[1] /\ e.parent = 0
    BY <1>5, EdgeOfRoot
  <2>2. t.bases[1] \in Byte
    <3>1. 1 \in 1 .. Len(t.bases)
      <4> HIDE DEF t
      <4> QED
        BY <1>3
    <3> QED
      BY <1>3, <3>1, ElementOfSeq
  <2>3. own = Compared(<<t.bases[1]>>, p, partial)
    BY <1>4, <2>1, <2>2
  <2> HIDE DEF own, next
  <2>4. MatchedRead(match, partial, l, n, p) = own
    BY <1>1, <2>1
  <2> QED
    BY <1>5, <2>3, <2>4 DEF BackText
<1>6. CASE n # 0
  <2>1. n \in DOMAIN t.parentOf
    <3> HIDE DEF t
    <3> QED
      BY <1>3, <1>6 DEF t
  <2> DEFINE up == t.parentOf[n]
  <2>2. /\ e.link = Bit(t.linkFlags, n) /\ e.label = t.bases[n + 1]
        /\ Bit(t.linkFlags, n) => e.target = LinkOf(t, n)
        /\ e.parent = up
    BY <2>1, EdgeIs
  <2>3. /\ Text(t, n) = Join(l, Text(t, up), Own(l, n))
        /\ Own(l, n) \in Seq(Byte) /\ up \in 0 .. n - 1 /\ Text(t, 0) = <<>>
        /\ ~Bit(t.linkFlags, n) => Own(l, n) = <<t.bases[n + 1]>>
        /\ Bit(t.linkFlags, n) /\ ~(l < Len(trie)) => Own(l, n) = TailText(LinkOf(t, n))
    BY <2>1, EdgeText
  <2>4. ASSUME Bit(t.linkFlags, n), l < Len(trie)
        PROVE  match[<< <<l + 1, LinkOf(t, n)>>, p >>] = Compared(Own(l, n), p, partial)
    <3> DEFINE other == trie[l + 1]
               m == LinkOf(t, n)
    <3>1. l + 1 \in DOMAIN trie /\ m \in DOMAIN other.parentOf /\ Own(l, n) = Text(other, m)
      BY <2>1, <2>4, EdgeText
    <3>2. m \in 0 .. Len(other.bases) - 1 /\ m # 0
      <4>1. FinishedTrie(l + 1, other)
        BY <3>1, EachTrie
      <4>2. /\ Len(other.parentOf) \in Nat /\ m \in 1 .. Len(other.parentOf)
            /\ Len(other.bases) = Len(other.parentOf) + 1
        BY <3>1, <4>1 DEF FinishedTrie
      <4> HIDE DEF other, m
      <4> QED
        BY <4>2
    <3>3. BackText(l + 1, m) = Own(l, n)
      BY <3>1, <3>2 DEF BackText
    <3> HIDE DEF m
    <3>4. match[<< <<l + 1, m>>, p >>] = Compared(BackText(l + 1, m), p, partial)
      BY <2>4, <3>2 DEF MatchedOn
    <3> QED
      BY <3>3, <3>4 DEF m
  <2>5. own = Compared(Own(l, n), p, partial)
    <3>1. CASE ~Bit(t.linkFlags, n)
      <4>1. n + 1 \in 1 .. Len(t.bases)
        <5>1. n \in 1 .. Len(t.parentOf)
          BY <1>3, <2>1
        <5> HIDE DEF t
        <5> QED
          BY <1>3, <5>1
      <4>2. t.bases[n + 1] \in Byte
        BY <1>3, <4>1, ElementOfSeq
      <4> QED
        BY <1>4, <2>2, <2>3, <3>1, <4>2
    <3>2. CASE Bit(t.linkFlags, n) /\ l < Len(trie)
      <4>1. own = match[<< <<l + 1, LinkOf(t, n)>>, p >>]
        BY <2>2, <3>2
      <4> QED
        BY <2>4, <3>2, <4>1
    <3>3. CASE Bit(t.linkFlags, n) /\ ~(l < Len(trie))
      <4>1. own = Compared(TailText(LinkOf(t, n)), p, partial)
        BY <2>2, <3>3
      <4> QED
        BY <2>3, <3>3, <4>1
    <3> QED
      BY <3>1, <3>2, <3>3
  <2>6. BackText(l, n) = Text(t, n)
    BY <1>6 DEF BackText
  <2> HIDE DEF own
  <2>7. CASE up = 0
    <3>1. Text(t, n) = Own(l, n)
      <4>1. Own(l, n) \o <<>> = Own(l, n)
        BY <2>3, ConcatEmptySeq
      <4> QED
        BY <2>3, <2>7, <4>1 DEF Join
    <3>2. MatchedRead(match, partial, l, n, p) = own
      <4> HIDE DEF next
      <4> QED
        BY <1>1, <2>2, <2>7
    <3> QED
      BY <2>5, <2>6, <3>1, <3>2
  <2>8. CASE up # 0
    <3> DEFINE above == Text(t, up)
               c == Compared(Own(l, n), p, partial)
    <3>1. up \in DOMAIN t.parentOf
      <4>0. n \in 1 .. Len(t.parentOf)
        BY <1>3, <2>1
      <4> HIDE DEF t, up
      <4>1. up \in 1 .. Len(t.parentOf)
        BY <1>3, <2>3, <2>8, <4>0
      <4> QED
        BY <1>3, <4>1
    <3>2. above \in Seq(Byte) /\ above # <<>> /\ BackText(l, up) = above
      <4>1. above \in Seq(Byte)
        BY <3>1, EdgeText
      <4>2. Len(Text(t, t.parentOf[up])) < Len(above)
        BY <1>2, <3>1 DEF FinishedTrie, Shaped, Longer, Text
      <4>3. Text(t, t.parentOf[up]) \in Seq(Byte)
        BY <3>1, EdgeText
      <4>4. Len(above) # 0
        <5>1. Len(Text(t, t.parentOf[up])) \in Nat
          BY <4>3, LenProperties
        <5> HIDE DEF above
        <5> QED
          BY <4>2, <5>1
      <4>5. BackText(l, up) = above
        BY <2>8 DEF BackText
      <4> QED
        BY <4>1, <4>4, <4>5, EmptySeq
    <3>3. Text(t, n) = Own(l, n) \o above
      BY <2>3 DEF Join
    <3>4. p \in 0 .. Len(query)
      BY <1>3 DEF Starts
    <3> HIDE DEF above
    <3>5. /\ c.ok \in BOOLEAN /\ c.pos \in p .. Len(query) /\ c.text \in Seq(Byte)
          /\ c.ok => c.text = Own(l, n)
          /\ Compared(Own(l, n) \o above, p, partial) =
               IF ~c.ok THEN c
               ELSE IF c.pos < Len(query)
               THEN [Compared(above, c.pos, partial) EXCEPT !.text = Own(l, n) \o @]
               ELSE [ok |-> partial, pos |-> c.pos,
                     text |-> IF partial THEN Own(l, n) \o above ELSE Own(l, n)]
      <4> HIDE DEF c
      <4>1. Own(l, n) \in Seq(Byte)
        BY <2>3
      <4>2. above \in Seq(Byte) /\ above # <<>>
        BY <3>2
      <4> QED
        <5>1. JoinedAs(Own(l, n), above, p, partial)
          BY <4>1, <4>2, <3>4, ComparedJoined
        <5> QED
          BY <5>1 DEF JoinedAs, c
    <3>6. own = c
      BY <2>5
    <3> HIDE DEF c
    <3>7. CASE ~c.ok
      <4> HIDE DEF next
      <4>1. MatchedRead(match, partial, l, n, p) = own
        BY <1>1, <3>6, <3>7
      <4> QED
        BY <2>6, <3>3, <3>5, <3>6, <3>7, <4>1
    <3>8. CASE c.ok /\ c.pos < Len(query)
      <4>1. c.pos \in Starts
        BY <1>3, <3>4, <3>5, <3>8 DEF Starts
      <4>2. next = Compared(above, c.pos, partial)
        <5>1. match[<< <<l, up>>, c.pos >>] = Compared(BackText(l, up), c.pos, partial)
          BY <2>3, <4>1 DEF MatchedOn
        <5> QED
          BY <2>2, <3>2, <3>6, <5>1
      <4> HIDE DEF next
      <4>3. MatchedRead(match, partial, l, n, p) = [next EXCEPT !.text = own.text \o @]
        <5>1. ~(~own.ok \/ e.parent = 0) /\ own.pos < Len(query)
          BY <2>2, <2>8, <3>6, <3>8
        <5> QED
          BY <1>1, <5>1, Zenon
      <4>4. own.text = Own(l, n)
        BY <3>5, <3>6, <3>8
      <4>5. Compared(Own(l, n) \o above, p, partial)
              = [Compared(above, c.pos, partial) EXCEPT !.text = Own(l, n) \o @]
        BY <3>5, <3>8, Zenon
      <4> QED
        BY <2>6, <3>3, <4>2, <4>3, <4>4, <4>5, Zenon
    <3>9. CASE c.ok /\ ~(c.pos < Len(query))
      <4> HIDE DEF next
      <4>1. MatchedRead(match, partial, l, n, p) =
              [ok |-> partial, pos |-> own.pos,
               text |-> IF partial THEN own.text \o Restored[<<l, e.parent>>] ELSE own.text]
        <5>1. ~(~own.ok \/ e.parent = 0) /\ ~(own.pos < Len(query))
          BY <2>2, <2>8, <3>6, <3>9
        <5> QED
          BY <1>1, <5>1, Zenon
      <4>2. Restored[<<l, e.parent>>] = above
        <5>1. up \in 0 .. Len(t.bases) - 1
          <6> HIDE DEF t, up
          <6> QED
            BY <1>3, <3>1
        <5>2. Restored[<<l, up>>] = BackText(l, up)
          BY <5>1, RestoredIs
        <5> QED
          BY <2>2, <3>2, <5>2
      <4>3. own.text = Own(l, n) /\ own.pos = c.pos
        BY <3>5, <3>6, <3>9
      <4>4. Compared(Own(l, n) \o above, p, partial)
              = [ok |-> partial, pos |-> c.pos,
                 text |-> IF partial THEN Own(l, n) \o above ELSE Own(l, n)]
        BY <3>5, <3>9, Zenon
      <4> QED
        BY <2>6, <3>3, <4>1, <4>2, <4>3, <4>4, Zenon
    <3> QED
      BY <3>5, <3>7, <3>8, <3>9
  <2> QED
    BY <2>7, <2>8
<1> QED
  BY <1>5, <1>6

\* match() and prefix_match(), which compare byte by byte and edge by edge on their way
\* up to the root and across links, say what a comparison of the node's whole text with
\* the rest of the query would: the same verdict, end position and text.
THEOREM MatchedIs ==
  ASSUME Finished, query \in Seq(Byte), NEW partial \in BOOLEAN,
         NEW l \in DOMAIN trie \ {1}, NEW n \in 0 .. Len(trie[l].bases) - 1,
         NEW p \in Starts
  PROVE  Matched(partial)[<< <<l, n>>, p >>] = Compared(BackText(l, n), p, partial)
<1> DEFINE whole == BackMatches(partial)
           match == Matched(partial)
<1>1. \A j \in DOMAIN trie \ {1} : \A m \in 0 .. Len(trie[j].bases) - 1 : \A s \in Starts :
        whole[<< <<j, m>>, s >>] = Compared(BackText(j, m), s, partial)
  <2> TAKE j \in DOMAIN trie \ {1}
  <2> TAKE m \in 0 .. Len(trie[j].bases) - 1
  <2> TAKE s \in Starts
  <2>1. << <<j, m>>, s >> \in Later \X Starts
    BY LaterAre
  <2> QED
    BY <2>1 DEF BackMatches
<1>2. \A j \in DOMAIN trie \ {1} : j < Len(trie) => j + 1 \in DOMAIN trie \ {1}
  BY EachTrie
<1> HIDE DEF whole
<1>3. whole = [at \in Later \X Starts |->
                 MatchedRead(whole, partial, at[1][1], at[1][2], at[2])]
  <2>1. ASSUME NEW at \in Later \X Starts
        PROVE  Compared(BackText(at[1][1], at[1][2]), at[2], partial)
                 = MatchedRead(whole, partial, at[1][1], at[1][2], at[2])
    <3>0. at[1] \in Later /\ at[2] \in Starts
      OBVIOUS
    <3>1. PICK j \in DOMAIN trie :
            at[1] \in {j} \X (0 .. Len(trie[j].bases) - 1) /\ at[1][1] > 1
      BY <3>0 DEF Later, Places
    <3> DEFINE m == at[1][2]
               s == at[2]
    <3>2. /\ at[1][1] = j /\ m \in 0 .. Len(trie[j].bases) - 1
          /\ j \in DOMAIN trie \ {1}
      BY <3>1, EachTrie
    <3> HIDE DEF m, s
    <3>3. \A i \in 0 .. m - 1 : \A r \in Starts :
            whole[<< <<j, i>>, r >>] = Compared(BackText(j, i), r, partial)
      <4> TAKE i \in 0 .. m - 1
      <4>1. Len(trie[j].bases) \in Nat
        BY <3>2, EachTrie DEF FinishedTrie
      <4>2. i \in 0 .. Len(trie[j].bases) - 1
        BY <3>2, <4>1
      <4> QED
        BY <1>1, <3>2, <4>2
    <3>4. s \in Starts
      BY <3>0 DEF s
    <3>5. j < Len(trie) =>
            \A i \in 0 .. Len(trie[j + 1].bases) - 1 : \A r \in Starts :
              whole[<< <<j + 1, i>>, r >>] = Compared(BackText(j + 1, i), r, partial)
      BY <1>1, <1>2, <3>2
    <3>6. MatchedRead(whole, partial, j, m, s) = Compared(BackText(j, m), s, partial)
      <4>1. MatchedOn(whole, partial, j, m)
        BY <3>3, <3>5 DEF MatchedOn
      <4> QED
        BY <3>2, <3>4, <4>1, MatchedReads
    <3> QED
      BY <3>2, <3>6 DEF m, s
  <2>2. BackMatches(partial) = [at \in Later \X Starts |->
                 MatchedRead(whole, partial, at[1][1], at[1][2], at[2])]
    BY <2>1 DEF BackMatches
  <2> QED
    BY <2>2 DEF whole
<1>4. match = [at \in Later \X Starts |->
                 MatchedRead(match, partial, at[1][1], at[1][2], at[2])]
  BY <1>3, MatchedEquation
<1> HIDE DEF match
<1> DEFINE R == {place \in Later : \A s \in Starts :
                   match[<<place, s>>] = Compared(BackText(place[1], place[2]), s, partial)}
<1>5. ASSUME NEW j \in DOMAIN trie \ {1}, NEW m \in 0 .. Len(trie[j].bases) - 1,
             j < Len(trie) =>
               \A i \in 0 .. Len(trie[j + 1].bases) - 1 : <<j + 1, i>> \in R,
             \A i \in 0 .. m - 1 : <<j, i>> \in R
      PROVE  <<j, m>> \in R
  <2>1. <<j, m>> \in Later
    BY LaterAre
  <2>2. ASSUME NEW s \in Starts
        PROVE  match[<< <<j, m>>, s >>] = Compared(BackText(j, m), s, partial)
    <3>0. << <<j, m>>, s >> \in Later \X Starts
      BY <2>1
    <3>1. match[<< <<j, m>>, s >>] = MatchedRead(match, partial, j, m, s)
      BY <1>4, <3>0
    <3>2. j < Len(trie) => \A i \in 0 .. Len(trie[j + 1].bases) - 1 : \A r \in Starts :
            match[<< <<j + 1, i>>, r >>] = Compared(BackText(j + 1, i), r, partial)
      BY <1>5
    <3>3. \A i \in 0 .. m - 1 : \A r \in Starts :
            match[<< <<j, i>>, r >>] = Compared(BackText(j, i), r, partial)
      BY <1>5
    <3>4. MatchedRead(match, partial, j, m, s) = Compared(BackText(j, m), s, partial)
      <4>1. MatchedOn(match, partial, j, m)
        BY <3>2, <3>3 DEF MatchedOn
      <4> QED
        BY <4>1, MatchedReads
    <3> QED
      BY <3>1, <3>4
  <2> QED
    BY <2>1, <2>2
<1> HIDE DEF R
<1>6. <<l, n>> \in R
  BY <1>5, FromTheEnd
<1> QED
  BY <1>6 DEF R, match

-----------------------------------------------------------------------------
\* No byte of text differs from q from position p on, as far as both go.
Fits(text, q, p) == \A i \in 1 .. Len(text) : p + i <= Len(q) => text[i] = q[p + i]

\* What c must be as the outcome of comparing text with q from position p on.
Outcome(text, q, p, partial, c) ==
  /\ c.ok \in BOOLEAN /\ c.pos \in p .. Len(q) /\ c.text \in Seq(Byte)
  /\ c.ok <=> Fits(text, q, p) /\ (partial \/ p + Len(text) <= Len(q))
  /\ c.ok => /\ c.text = text
             /\ c.pos = IF p + Len(text) <= Len(q) THEN p + Len(text) ELSE Len(q)
  /\ p < Len(q) /\ text # <<>> /\ (c.ok \/ c.pos # p) => text[1] = q[p + 1]

LEMMA ComparedOutcome ==
  ASSUME query \in Seq(Byte), NEW text \in Seq(Byte), NEW p \in 0 .. Len(query),
         NEW partial \in BOOLEAN
  PROVE  Outcome(text, query, p, partial, Compared(text, p, partial))
<1> DEFINE c == Compared(text, p, partial)
           q == query
<1>1. PICK n : Agrees(text, q, p, n)
  BY AgreeSomewhere
<1>2. c = Judged(text, q, p, n, partial)
  BY <1>1, ComparedIs
<1>3. Len(text) \in Nat /\ Len(q) \in Nat /\ p \in Nat /\ p <= Len(q)
  BY LenProperties
<1>4. /\ n \in Nat /\ n <= Len(text) /\ p + n <= Len(q)
      /\ \A i \in 1 .. n : text[i] = q[p + i]
      /\ n < Len(text) /\ p + n < Len(q) => text[n + 1] # q[p + n + 1]
  BY <1>1 DEF Agrees
<1>5. text # <<>> <=> Len(text) # 0
  BY EmptySeq
<1>6. n = Len(text) \/ p + n = Len(q) => Fits(text, q, p)
  <2> SUFFICES ASSUME n = Len(text) \/ p + n = Len(q), NEW i \in 1 .. Len(text),
                      p + i <= Len(q)
               PROVE  text[i] = q[p + i]
    BY DEF Fits
  <2>1. i \in 1 .. n
    BY <1>3, <1>4
  <2> QED
    BY <1>4, <2>1
<1>7. Fits(text, q, p) => n = Len(text) \/ p + n = Len(q)
  <2> SUFFICES ASSUME Fits(text, q, p), n # Len(text), p + n # Len(q) PROVE FALSE
    OBVIOUS
  <2>1. n + 1 \in 1 .. Len(text) /\ p + (n + 1) <= Len(q) /\ p + (n + 1) = p + n + 1
        /\ n < Len(text) /\ p + n < Len(q)
    BY <1>3, <1>4, SMTT(30)
  <2> QED
    BY <1>4, <2>1 DEF Fits
<1>8. p < Len(q) /\ text # <<>> /\ n # 0 => text[1] = q[p + 1]
  <2> SUFFICES ASSUME n # 0 PROVE text[1] = q[p + 1]
    OBVIOUS
  <2>1. 1 \in 1 .. n
    BY <1>4
  <2> QED
    BY <1>4, <2>1
<1> HIDE DEF c, q
<1>9. CASE n = Len(text) \/ (partial /\ p + n = Len(q))
  <2>1. c = [ok |-> TRUE, pos |-> p + n, text |-> text]
    BY <1>2, <1>9, JudgedFits
  <2>2. c.ok = TRUE /\ c.pos = p + n /\ c.text = text
    BY <2>1
  <2>3. c.ok
    BY <2>2
  <2>4. Fits(text, q, p) /\ (partial \/ p + Len(text) <= Len(q))
    BY <1>3, <1>4, <1>6, <1>9
  <2>5. c.pos = IF p + Len(text) <= Len(q) THEN p + Len(text) ELSE Len(q)
    <3> DEFINE size == Len(text)
               end == Len(q)
    <3>1. /\ size \in Nat /\ end \in Nat /\ p \in Nat /\ n \in Nat
          /\ n <= size /\ p + n <= end /\ (n = size \/ p + n = end)
      BY <1>3, <1>4, <1>9
    <3> HIDE DEF size, end
    <3>2. p + n = IF p + size <= end THEN p + size ELSE end
      BY ONLY <3>1
    <3> QED
      BY <2>2, <3>2 DEF size, end
  <2>6. c.pos \in p .. Len(q) /\ c.text \in Seq(Byte) /\ c.ok \in BOOLEAN
    <3>1. p + n \in p .. Len(q)
      BY <1>3, <1>4
    <3>2. c.ok \in BOOLEAN
      BY <2>2, Zenon
    <3> QED
      BY <2>2, <3>1, <3>2, Zenon
  <2>7. p < Len(q) /\ text # <<>> => n # 0
    BY <1>3, <1>5, <1>9
  <2> QED
    BY <1>8, <2>2, <2>3, <2>4, <2>5, <2>6, <2>7 DEF Outcome, c, q
<1>10. CASE ~(n = Len(text) \/ (partial /\ p + n = Len(q)))
  <2>1. c = [ok |-> FALSE, pos |-> p + n, text |-> SubSeq(text, 1, n)]
    BY <1>2, <1>10, JudgedFails
  <2>2. c.ok = FALSE /\ c.pos = p + n /\ c.text = SubSeq(text, 1, n)
    BY <2>1
  <2>3. ~c.ok
    BY <2>2
  <2>4. ~(Fits(text, q, p) /\ (partial \/ p + Len(text) <= Len(q)))
    <3> SUFFICES ASSUME Fits(text, q, p), partial \/ p + Len(text) <= Len(q) PROVE FALSE
      OBVIOUS
    <3>1. p + n = Len(q) /\ ~partial /\ n # Len(text)
      BY <1>7, <1>10
    <3> QED
      BY <1>3, <1>4, <3>1
  <2>5. c.text \in Seq(Byte)
    <3>1. n <= Len(text) /\ 1 \in Int /\ n \in Int
      BY <1>4
    <3> QED
      BY <1>3, <1>4, <2>2, <3>1, SubSeqProperties
  <2>6. c.pos \in p .. Len(q) /\ c.ok \in BOOLEAN
    <3>1. p + n \in p .. Len(q)
      BY <1>3, <1>4
    <3>2. c.ok \in BOOLEAN
      BY <2>2, Zenon
    <3> QED
      BY <2>2, <3>1, <3>2, Zenon
  <2>7. c.pos # p => n # 0
    BY <1>3, <1>4, <2>2
  <2> QED
    BY <1>8, <2>3, <2>4, <2>5, <2>6, <2>7 DEF Outcome, c, q
<1> QED
  BY <1>9, <1>10

-----------------------------------------------------------------------------
(* What find_child() returns.                                            *)

\* The comparison of the query with what a child adds, find_child()'s for one child.
Tested(m, partial) == Compared(Own(1, m), queryPos, partial)

Kids(t, n) == {m \in DOMAIN t.parentOf : t.parentOf[m] = n}

LEMMA RestoredLinkIs ==
  ASSUME Finished, NEW n \in DOMAIN Top.parentOf, Bit(Top.linkFlags, n)
  PROVE  RestoredLink(LinkOf(Top, n)) = Own(1, n)
<1> DEFINE m == LinkOf(Top, n)
<1>1. /\ Len(trie) \in Nat /\ DOMAIN trie = 1 .. Len(trie) /\ 1 \in DOMAIN trie
      /\ \A l \in DOMAIN trie : FinishedTrie(l, trie[l])
  BY EachTrie
<1>2. /\ 1 < Len(trie) => /\ 2 \in DOMAIN trie /\ m \in DOMAIN trie[2].parentOf
                          /\ Own(1, n) = Text(trie[2], m)
      /\ ~(1 < Len(trie)) => Own(1, n) = TailText(m)
  <2>1. 1 + 1 = 2 /\ n \in DOMAIN trie[1].parentOf
    BY DEF Top
  <2> QED
    BY <1>1, <2>1, EdgeText DEF Top
<1> HIDE DEF m
<1>3. CASE Len(trie) = 1
  BY <1>2, <1>3 DEF RestoredLink, m
<1>4. CASE Len(trie) # 1
  <2>1. 1 < Len(trie) /\ 2 \in DOMAIN trie \ {1}
    BY <1>1, <1>2, <1>4
  <2>2. m \in 0 .. Len(trie[2].bases) - 1 /\ m # 0
    <3>1. /\ Len(trie[2].parentOf) \in Nat /\ m \in 1 .. Len(trie[2].parentOf)
          /\ Len(trie[2].bases) = Len(trie[2].parentOf) + 1
      BY <1>1, <1>2, <2>1 DEF FinishedTrie
    <3> QED
      BY <3>1
  <2>3. Restored[<<2, m>>] = BackText(2, m)
    BY <2>1, <2>2, RestoredIs
  <2> QED
    BY <1>2, <1>4, <2>1, <2>2, <2>3 DEF RestoredLink, BackText, m
<1> QED
  BY <1>3, <1>4

LEMMA MatchedLinkIs ==
  ASSUME Finished, query \in Seq(Byte), queryPos \in Starts, NEW partial \in BOOLEAN,
         NEW n \in DOMAIN Top.parentOf, Bit(Top.linkFlags, n)
  PROVE  MatchedLink(LinkOf(Top, n), partial) = Tested(n, partial)
<1> DEFINE m == LinkOf(Top, n)
<1>1. /\ Len(trie) \in Nat /\ DOMAIN trie = 1 .. Len(trie) /\ 1 \in DOMAIN trie
      /\ \A l \in DOMAIN trie : FinishedTrie(l, trie[l])
  BY EachTrie
<1>2. /\ 1 < Len(trie) => /\ 2 \in DOMAIN trie /\ m \in DOMAIN trie[2].parentOf
                          /\ Own(1, n) = Text(trie[2], m)
      /\ ~(1 < Len(trie)) => Own(1, n) = TailText(m)
  <2>1. 1 + 1 = 2 /\ n \in DOMAIN trie[1].parentOf
    BY DEF Top
  <2> QED
    BY <1>1, <2>1, EdgeText DEF Top
<1> HIDE DEF m
<1>3. CASE Len(trie) = 1
  <2>1. Own(1, n) = TailText(m)
    BY <1>2, <1>3
  <2> QED
    BY <1>3, <2>1, Zenon DEF MatchedLink, Tested, m
<1>4. CASE Len(trie) # 1
  <2>1. 1 < Len(trie) /\ 2 \in DOMAIN trie \ {1}
    BY <1>1, <1>2, <1>4
  <2>2. m \in 0 .. Len(trie[2].bases) - 1 /\ m # 0
    <3>1. /\ Len(trie[2].parentOf) \in Nat /\ m \in 1 .. Len(trie[2].parentOf)
          /\ Len(trie[2].bases) = Len(trie[2].parentOf) + 1
      BY <1>1, <1>2, <2>1 DEF FinishedTrie
    <3> QED
      BY <3>1
  <2>3. Matched(partial)[<< <<2, m>>, queryPos >>]
          = Compared(BackText(2, m), queryPos, partial)
    BY <2>1, <2>2, MatchedIs
  <2>4. BackText(2, m) = Own(1, n)
    BY <1>2, <2>1, <2>2 DEF BackText
  <2> QED
    BY <1>4, <2>3, <2>4, Zenon DEF MatchedLink, Tested, m
<1> QED
  BY <1>3, <1>4

Took(label) == [ok |-> TRUE, pos |-> queryPos + 1, text |-> <<label>>]
Left == [ok |-> FALSE, pos |-> queryPos, text |-> <<>>]

\* find_child()'s test of child m.
Tried(m, partial) ==
  IF Bit(Top.linkFlags, m) THEN MatchedLink(LinkOf(Top, m), partial)
  ELSE IF Top.bases[m + 1] = Query(queryPos) THEN Took(Top.bases[m + 1])
  ELSE Left

LEMMA TriedIs ==
  ASSUME Finished, query \in Seq(Byte), queryPos \in Starts, NEW partial \in BOOLEAN,
         NEW m \in DOMAIN Top.parentOf
  PROVE  /\ Tried(m, partial) = Tested(m, partial)
         /\ Outcome(Own(1, m), query, queryPos, partial, Tested(m, partial))
         /\ Own(1, m) \in Seq(Byte) /\ Own(1, m) # <<>>
         /\ ~Bit(Top.linkFlags, m) => /\ Own(1, m) = <<Top.bases[m + 1]>>
                                      /\ Top.bases[m + 1] \in Byte
<1>1. /\ 1 \in DOMAIN trie /\ FinishedTrie(1, Top)
  BY EachTrie DEF Top
<1>2. /\ Own(1, m) \in Seq(Byte) /\ Own(1, m) # <<>>
      /\ ~Bit(Top.linkFlags, m) => Own(1, m) = <<Top.bases[m + 1]>>
  BY <1>1, EdgeText DEF Top
<1>3. /\ Len(query) \in Nat /\ queryPos \in 0 .. Len(query) - 1 /\ queryPos \in 0 .. Len(query)
  BY LenProperties DEF Starts
<1>4. Outcome(Own(1, m), query, queryPos, partial, Tested(m, partial))
  BY <1>2, <1>3, ComparedOutcome DEF Tested
<1>5. Top.bases[m + 1] \in Byte
  <2>1. m \in 1 .. Len(Top.parentOf) /\ Len(Top.parentOf) \in Nat
        /\ Len(Top.bases) = Len(Top.parentOf) + 1 /\ Top.bases \in Seq(Byte)
    BY <1>1 DEF FinishedTrie, WellFormed, BitsOK
  <2>2. m + 1 \in 1 .. Len(Top.bases)
    BY <2>1
  <2> QED
    BY <2>1, <2>2, ElementOfSeq
<1>6. Tried(m, partial) = Tested(m, partial)
  <2>1. CASE Bit(Top.linkFlags, m)
    BY <2>1, MatchedLinkIs DEF Tried
  <2>2. CASE ~Bit(Top.linkFlags, m)
    <3> DEFINE b == Top.bases[m + 1]
    <3>1. Compared(<<b>>, queryPos, partial) =
            IF Query(queryPos) = b THEN [ok |-> TRUE, pos |-> queryPos + 1, text |-> <<b>>]
            ELSE [ok |-> FALSE, pos |-> queryPos, text |-> <<>>]
      BY <1>3, <1>5, ComparedByte
    <3>2. Tested(m, partial) = Compared(<<b>>, queryPos, partial)
      BY <1>2, <2>2 DEF Tested
    <3>3. Tried(m, partial) = IF b = Query(queryPos) THEN Took(b) ELSE Left
      BY <2>2 DEF Tried
    <3> HIDE DEF b
    <3> QED
      BY <3>1, <3>2, <3>3 DEF Took, Left
  <2> QED
    BY <2>1, <2>2
<1> QED
  BY <1>2, <1>4, <1>5, <1>6

\* The children find_child() goes through.
Scanned ==
  LET first == Select0(Top.louds, nodeId) + 1
  IN  {m \in first - nodeId - 1 .. Len(Top.bases) - 1 :
         \A i \in first .. m + nodeId + 1 : Bit(Top.louds, i)}

LEMMA KidsOf ==
  ASSUME NEW t, WellFormed(t), Numbered(t.louds, t.parentOf),
         NEW n \in 0 .. Len(t.parentOf), NEW first, first = Select0(t.louds, n) + 1
  PROVE  Kids(t, n) = {m \in first - n - 1 .. Len(t.parentOf) :
                         \A i \in first .. m + n + 1 : Bit(t.louds, i)}
<1>1. t.louds \in Seq(BOOLEAN) /\ t.parentOf \in Seq(Nat)
  BY DEF WellFormed, BitsOK
<1>2. Len(t.louds) \in Nat /\ Len(t.parentOf) \in Nat
  BY <1>1, LenProperties
<1>3. Ones(t.louds) + Zeros(t.louds) = Len(t.louds)
  BY <1>1, <1>2, RankType DEF Ones, Zeros
<1>4. /\ Zeros(t.louds) = Len(t.parentOf) + 3
      /\ Len(t.louds) = 2 * Len(t.parentOf) + 4
  BY <1>2, <1>3 DEF WellFormed
<1> DEFINE bits == t.louds
           parents == t.parentOf
<1>5. /\ bits \in Seq(BOOLEAN) /\ parents \in Seq(Nat) /\ Numbered(bits, parents)
      /\ Zeros(bits) = Len(parents) + 3 /\ Len(bits) = 2 * Len(parents) + 4
      /\ n \in 0 .. Len(parents) /\ first = Select0(bits, n) + 1
  BY <1>1, <1>4
<1> HIDE DEF bits, parents
<1>6. {m \in DOMAIN parents : parents[m] = n} =
      {m \in first - n - 1 .. Len(parents) :
         \A i \in first .. m + n + 1 : Bit(bits, i)}
  BY <1>5, NumberedChildren
<1> QED
  BY <1>6 DEF bits, parents, Kids

LEMMA ScannedIs ==
  ASSUME Finished, nodeId \in Nodes(Top)
  PROVE  Scanned = Kids(Top, nodeId)
<1>1. FinishedTrie(1, Top)
  BY EachTrie DEF Top
<1>2. /\ WellFormed(Top) /\ Numbered(Top.louds, Top.parentOf)
      /\ Len(Top.parentOf) \in Nat /\ Len(Top.bases) = Len(Top.parentOf) + 1
  BY <1>1 DEF FinishedTrie
<1>3. Len(Top.bases) - 1 = Len(Top.parentOf)
  BY <1>2
<1> DEFINE first == Select0(Top.louds, nodeId) + 1
<1>4. Kids(Top, nodeId) = {m \in first - nodeId - 1 .. Len(Top.parentOf) :
                             \A i \in first .. m + nodeId + 1 : Bit(Top.louds, i)}
  BY <1>2, KidsOf DEF Nodes
<1> QED
  BY <1>3, <1>4 DEF Scanned

LEMMA GreatestNumber ==
  ASSUME NEW n \in Nat, NEW S \in SUBSET (0 .. n), S # {}
  PROVE  Sets!Max(S) \in S
<1> DEFINE T == {k \in Nat : n - k \in S}
<1>1. T \in SUBSET Nat /\ T # {}
  <2>1. PICK x : x \in S
    OBVIOUS
  <2>2. n - x \in Nat /\ n - (n - x) = x
    BY <2>1
  <2> QED
    BY <2>1, <2>2
<1>2. PICK k \in T : \A j \in T : k <= j
  BY <1>1, LeastNumber
<1>3. n - k \in S /\ \A y \in S : n - k >= y
  <2>1. ASSUME NEW y \in S PROVE n - k >= y
    <3>1. n - y \in Nat /\ n - (n - y) = y /\ y \in Nat
      OBVIOUS
    <3>2. n - y \in T
      BY <3>1
    <3>3. k <= n - y /\ k \in Nat
      BY <1>2, <3>2
    <3> QED
      BY <3>1, <3>3
  <2> QED
    BY <1>2, <2>1
<1>4. \E x \in S : \A y \in S : x >= y
  BY <1>3
<1> QED
  BY <1>4 DEF Sets!Max

LEMMA SmallestNumber ==
  ASSUME NEW S \in SUBSET Nat, S # {}
  PROVE  Sets!Min(S) \in S
<1>1. \E x \in S : \A y \in S : x <= y
  BY LeastNumber
<1> QED
  BY <1>1 DEF Sets!Min

\* What find_child() has to find: the child whose text the query goes on with, or
\* the news that there is none.
FoundAs(found, partial) ==
  /\ found.ok \in BOOLEAN /\ found.node \in Nat /\ found.pos \in 0 .. Len(query)
  /\ found.text \in Seq(Byte)
  /\ found.ok => /\ found.node \in Kids(Top, nodeId)
                 /\ Tested(found.node, partial).ok
                 /\ found.pos = Tested(found.node, partial).pos
                 /\ found.text = Tested(found.node, partial).text
  /\ ~found.ok => \A m \in Kids(Top, nodeId) : ~Tested(m, partial).ok

At(n, outcome) ==
  [node |-> n, ok |-> outcome.ok, pos |-> outcome.pos, text |-> outcome.text]

\* The label of a child is the first byte of what it adds.
LEMMA LabelIs ==
  ASSUME Finished, NEW n \in DOMAIN Top.parentOf
  PROVE  LabelIn(Top.parentOf, Top.textOf, n) = Own(1, n)[1]
<1> DEFINE up == Text(Top, Top.parentOf[n])
<1>1. /\ Text(Top, n) = up \o Own(1, n)
      /\ Own(1, n) \in Seq(Byte) /\ Own(1, n) # <<>> /\ up \in Seq(Byte)
  BY EdgeText, EachTrie DEF Top, Join
<1>2. Len(Own(1, n)) \in Nat \ {0} /\ Len(up) \in Nat
  BY <1>1, LenProperties, EmptySeq
<1>3. LabelIn(Top.parentOf, Top.textOf, n) = Text(Top, n)[Len(up) + 1]
  BY DEF LabelIn, Text
<1> DEFINE o == Own(1, n)
<1>4. o \in Seq(Byte) /\ Len(o) \in Nat \ {0} /\ up \in Seq(Byte) /\ Len(up) \in Nat
  BY <1>1, <1>2
<1> HIDE DEF o, up
<1>5. (up \o o)[Len(up) + 1] = o[1]
  BY <1>4
<1> QED
  BY <1>1, <1>3, <1>5 DEF o

\* The first byte is enough to know that no sibling can match.
LEMMA OnlyOne ==
  ASSUME Finished, query \in Seq(Byte), queryPos \in Starts, NEW partial \in BOOLEAN,
         NEW m \in Kids(Top, nodeId), NEW k \in Kids(Top, nodeId),
         Own(1, m)[1] = query[queryPos + 1], Tested(k, partial).ok
  PROVE  m = k
<1>1. m \in DOMAIN Top.parentOf /\ k \in DOMAIN Top.parentOf
      /\ Top.parentOf[m] = nodeId /\ Top.parentOf[k] = nodeId
  BY DEF Kids
<1>2. /\ Outcome(Own(1, k), query, queryPos, partial, Tested(k, partial))
      /\ Own(1, k) # <<>>
  BY <1>1, TriedIs
<1>3. queryPos < Len(query)
  BY LenProperties DEF Starts
<1>4. Own(1, k)[1] = query[queryPos + 1]
  BY <1>2, <1>3 DEF Outcome
<1>5. \A n \in {m, k} : LabelIn(Top.parentOf, Top.textOf, n) = Own(1, n)[1]
  BY <1>1, LabelIs
<1>6. LabelsApart(Top.parentOf, Top.textOf)
  BY EachTrie DEF Top, FinishedTrie, Shaped
<1> QED
  BY <1>1, <1>4, <1>5, <1>6 DEF LabelsApart

\* The slot of the cache find_child() asks, and what it makes of it.
SlotAsked == CacheId(nodeId, Query(queryPos), Cardinality(DOMAIN Top.cache))

SlotSays(slot, partial) ==
  IF slot.link THEN MatchedLink(slot.base + Base * slot.extra, partial)
  ELSE Took(slot.base)

Stops(partial) == {m \in Scanned : Tried(m, partial).ok \/ Tried(m, partial).pos # queryPos}

Scan(partial) ==
  IF Stops(partial) # {} THEN At(Sets!Min(Stops(partial)), Tried(Sets!Min(Stops(partial)), partial))
  ELSE IF Scanned # {} THEN At(Sets!Max(Scanned) + 1, Left)
  ELSE At(nodeId, Left)

LEMMA FindChildReads ==
  ASSUME NEW partial
  PROVE  FindChild(partial) =
           LET slot == Top.cache[SlotAsked]
           IN  IF slot.used /\ slot.parent = nodeId
               THEN At(IF SlotSays(slot, partial).ok THEN slot.child ELSE nodeId,
                       SlotSays(slot, partial))
               ELSE Scan(partial)
BY Zenon DEF FindChild, SlotAsked, SlotSays, Stops, Scan, Scanned, Tried, Took, Left, At

\* A child that starts with the next byte of the query decides.
LEMMA Decided ==
  ASSUME Finished, query \in Seq(Byte), queryPos \in Starts, NEW partial \in BOOLEAN,
         NEW m \in Kids(Top, nodeId), Own(1, m)[1] = query[queryPos + 1],
         NEW n \in Nat, Tested(m, partial).ok => n = m
  PROVE  FoundAs(At(n, Tested(m, partial)), partial)
<1> DEFINE c == Tested(m, partial)
           found == At(n, c)
<1>1. found.node = n /\ found.ok = c.ok /\ found.pos = c.pos /\ found.text = c.text
  BY DEF At
<1>2. m \in DOMAIN Top.parentOf
  BY DEF Kids
<1>3. c.ok \in BOOLEAN /\ c.pos \in queryPos .. Len(query) /\ c.text \in Seq(Byte)
  BY <1>2, TriedIs DEF Outcome
<1>4. c.pos \in 0 .. Len(query)
  <2>1. Len(query) \in Nat /\ queryPos \in Nat
    BY LenProperties DEF Starts
  <2> HIDE DEF c
  <2> QED
    BY <1>3, <2>1
<1>5. ~c.ok => \A k \in Kids(Top, nodeId) : ~Tested(k, partial).ok
  BY OnlyOne
<1> HIDE DEF c
<1>6. found.ok \in BOOLEAN /\ (found.ok <=> c.ok)
  BY <1>1, <1>3, Zenon
<1>7. c.ok => n = m
  BY DEF c
<1>8. found.ok => /\ found.node \in Kids(Top, nodeId)
                  /\ Tested(found.node, partial).ok
                  /\ found.pos = Tested(found.node, partial).pos
                  /\ found.text = Tested(found.node, partial).text
  <2> SUFFICES ASSUME found.ok PROVE
                  /\ found.node \in Kids(Top, nodeId)
                  /\ Tested(found.node, partial).ok
                  /\ found.pos = Tested(found.node, partial).pos
                  /\ found.text = Tested(found.node, partial).text
    OBVIOUS
  <2>1. c.ok /\ found.node = m
    BY <1>1, <1>6, <1>7
  <2>2. Tested(found.node, partial) = c
    BY <2>1 DEF c
  <2> HIDE DEF found
  <2> QED
    BY <1>1, <2>1, <2>2
<1> HIDE DEF found
<1>9. found.node \in Nat /\ found.pos \in 0 .. Len(query) /\ found.text \in Seq(Byte)
  BY <1>1, <1>3, <1>4
<1> QED
  BY <1>5, <1>6, <1>8, <1>9 DEF FoundAs, found, c

LEMMA KidsNumbers ==
  ASSUME Finished, nodeId \in Nodes(Top)
  PROVE  /\ nodeId \in Nat
         /\ Len(Top.parentOf) \in Nat
         /\ Kids(Top, nodeId) \subseteq 0 .. Len(Top.parentOf)
<1>1. Len(Top.parentOf) \in Nat /\ DOMAIN Top.parentOf = 1 .. Len(Top.parentOf)
  BY EachTrie DEF Top, FinishedTrie
<1> QED
  BY <1>1 DEF Nodes, Kids

LEMMA ScanIs ==
  ASSUME Finished, query \in Seq(Byte), queryPos \in Starts, NEW partial \in BOOLEAN,
         nodeId \in Nodes(Top)
  PROVE  FoundAs(Scan(partial), partial)
<1>1. Scanned = Kids(Top, nodeId)
  BY ScannedIs
<1>2. /\ nodeId \in Nat /\ Len(Top.parentOf) \in Nat
      /\ Kids(Top, nodeId) \subseteq 0 .. Len(Top.parentOf)
  BY KidsNumbers
<1>3. Len(query) \in Nat /\ queryPos \in 0 .. Len(query) /\ queryPos < Len(query)
  BY LenProperties DEF Starts
<1> DEFINE S == Stops(partial)
<1>4. S = {m \in Kids(Top, nodeId) :
             Tested(m, partial).ok \/ Tested(m, partial).pos # queryPos}
  <2>1. \A m \in Kids(Top, nodeId) : Tried(m, partial) = Tested(m, partial)
    BY TriedIs DEF Kids
  <2> QED
    BY <1>1, <2>1 DEF Stops
<1>5. ASSUME NEW n \in Nat, S = {} PROVE FoundAs(At(n, Left), partial)
  <2>1. \A m \in Kids(Top, nodeId) : ~Tested(m, partial).ok
    BY <1>4, <1>5
  <2> DEFINE found == At(n, Left)
  <2>2. found.node = n /\ found.ok = FALSE /\ found.pos = queryPos /\ found.text = <<>>
    BY DEF At, Left
  <2> HIDE DEF found
  <2>3. found.ok \in BOOLEAN /\ ~found.ok
    BY <2>2, Zenon
  <2>4. <<>> \in Seq(Byte)
    OBVIOUS
  <2>5. found.node \in Nat /\ found.pos \in 0 .. Len(query) /\ found.text \in Seq(Byte)
    BY <1>3, <2>2, <2>4
  <2> QED
    BY <2>1, <2>3, <2>5, Zenon DEF FoundAs, found
<1>6. CASE S # {}
  <2> DEFINE m == Sets!Min(S)
  <2>1. m \in S
    <3>1. S \in SUBSET Nat
      BY <1>2, <1>4
    <3> QED
      BY <1>6, <3>1, SmallestNumber
  <2>2. m \in Kids(Top, nodeId) /\ (Tested(m, partial).ok \/ Tested(m, partial).pos # queryPos)
    BY <1>4, <2>1
  <2> HIDE DEF m
  <2>3. m \in DOMAIN Top.parentOf /\ m \in Nat
    BY <1>2, <2>2 DEF Kids
  <2>4. /\ Tried(m, partial) = Tested(m, partial)
        /\ Outcome(Own(1, m), query, queryPos, partial, Tested(m, partial))
        /\ Own(1, m) # <<>>
    BY <2>3, TriedIs
  <2>5. Own(1, m)[1] = query[queryPos + 1]
    BY <1>3, <2>2, <2>4 DEF Outcome
  <2>6. FoundAs(At(m, Tested(m, partial)), partial)
    BY <2>2, <2>3, <2>5, Decided
  <2>7. Scan(partial) = At(m, Tried(m, partial))
    BY <1>6 DEF Scan, m
  <2> QED
    BY <2>4, <2>6, <2>7
<1>7. CASE S = {} /\ Scanned # {}
  <2>1. Sets!Max(Scanned) \in Scanned
    BY <1>1, <1>2, <1>7, GreatestNumber
  <2>2. Sets!Max(Scanned) + 1 \in Nat
    BY <1>1, <1>2, <2>1
  <2>3. Scan(partial) = At(Sets!Max(Scanned) + 1, Left)
    BY <1>7 DEF Scan
  <2> QED
    BY <1>5, <1>7, <2>2, <2>3
<1>8. CASE S = {} /\ Scanned = {}
  <2>1. Scan(partial) = At(nodeId, Left)
    BY <1>8 DEF Scan
  <2> QED
    BY <1>2, <1>5, <1>8, <2>1
<1> QED
  BY <1>6, <1>7, <1>8

LEMMA HitIs ==
  ASSUME Finished, query \in Seq(Byte), queryPos \in Starts, NEW partial \in BOOLEAN,
         nodeId \in Nodes(Top),
         Top.cache[SlotAsked].used, Top.cache[SlotAsked].parent = nodeId
  PROVE  LET slot == Top.cache[SlotAsked]
         IN  FoundAs(At(IF SlotSays(slot, partial).ok THEN slot.child ELSE nodeId,
                        SlotSays(slot, partial)), partial)
<1> DEFINE slot == Top.cache[SlotAsked]
           m == slot.child
<1>1. FinishedTrie(1, Top)
  BY EachTrie DEF Top
<1>2. Tells(1, Top.cache, Top.parentOf, Top.textOf) /\ Repeats(Top)
  BY <1>1 DEF FinishedTrie
<1>3. Len(query) \in Nat /\ queryPos \in 0 .. Len(query) /\ queryPos < Len(query)
      /\ Query(queryPos) = query[queryPos + 1] /\ Query(queryPos) \in Byte
  <2>1. Len(query) \in Nat /\ queryPos \in Nat /\ queryPos + 1 \in 1 .. Len(query)
        /\ queryPos < Len(query)
    BY LenProperties DEF Starts
  <2> QED
    BY <2>1, ElementOfSeq DEF Query
<1>4. nodeId \in Nat
  BY KidsNumbers
<1>5. SlotAsked \in DOMAIN Top.cache
  BY <1>2, <1>3, <1>4 DEF Tells, ApartIn, SlotAsked
<1>6. /\ m # 0 /\ slot.base = Top.bases[m + 1] /\ slot.link = Bit(Top.linkFlags, m)
      /\ slot.link => slot.extra = Extra(Top, m)
  BY <1>2, <1>5 DEF Repeats
<1>7. /\ m \in DOMAIN Top.parentOf /\ nodeId = Top.parentOf[m]
      /\ LabelIn(Top.parentOf, Top.textOf, m) \in Byte
      /\ SlotAsked = CacheId(nodeId, LabelIn(Top.parentOf, Top.textOf, m),
                             Cardinality(DOMAIN Top.cache))
  BY <1>2, <1>5, <1>6 DEF Tells, SlotTells
<1>8. LabelIn(Top.parentOf, Top.textOf, m) = query[queryPos + 1]
  BY <1>2, <1>3, <1>4, <1>7 DEF Tells, ApartIn, SlotAsked
<1>9. m \in Kids(Top, nodeId) /\ m \in Nat
  BY <1>7, KidsNumbers DEF Kids
<1>10. /\ Tried(m, partial) = Tested(m, partial) /\ Own(1, m) # <<>>
       /\ ~Bit(Top.linkFlags, m) => Own(1, m) = <<Top.bases[m + 1]>>
  BY <1>7, TriedIs
<1>11. LabelIn(Top.parentOf, Top.textOf, m) = Own(1, m)[1]
  BY <1>7, LabelIs
<1>12. SlotSays(slot, partial) = Tested(m, partial)
  <2> HIDE DEF slot
  <2>1. CASE slot.link
    <3>1. slot.base + Base * slot.extra = LinkOf(Top, m)
      BY <1>6, <2>1 DEF LinkOf
    <3> QED
      BY <1>6, <1>10, <2>1, <3>1 DEF SlotSays, Tried
  <2>2. CASE ~slot.link
    <3>1. Own(1, m)[1] = Top.bases[m + 1]
      BY <1>6, <1>10, <2>2
    <3> QED
      BY <1>3, <1>6, <1>8, <1>10, <1>11, <2>2, <3>1 DEF SlotSays, Tried
  <2> QED
    BY <2>1, <2>2
<1> DEFINE c == Tested(m, partial)
           n == IF c.ok THEN m ELSE nodeId
<1>13. n \in Nat /\ (Tested(m, partial).ok => n = m)
  BY <1>4, <1>9
<1>14. Own(1, m)[1] = query[queryPos + 1]
  BY <1>8, <1>11
<1> HIDE DEF n, m
<1>15. FoundAs(At(n, Tested(m, partial)), partial)
  BY <1>9, <1>13, <1>14, Decided
<1> QED
  BY <1>12, <1>15 DEF n, m

\* find_child() and predictive_find_child() go to the child whose text the query goes on
\* with (or, if partial, ends in), if there is one, and fail if there is none: neither a
\* slot of the cache nor stopping at the first link that matches in part leads astray.
THEOREM FindChildIs ==
  ASSUME Finished, query \in Seq(Byte), queryPos \in Starts, NEW partial \in BOOLEAN,
         nodeId \in Nodes(Top)
  PROVE  FoundAs(FindChild(partial), partial)
<1> DEFINE slot == Top.cache[SlotAsked]
<1>1. FindChild(partial) =
        IF slot.used /\ slot.parent = nodeId
        THEN At(IF SlotSays(slot, partial).ok THEN slot.child ELSE nodeId,
                SlotSays(slot, partial))
        ELSE Scan(partial)
  BY FindChildReads
<1>2. CASE slot.used /\ slot.parent = nodeId
  BY <1>1, <1>2, HitIs
<1>3. CASE ~(slot.used /\ slot.parent = nodeId)
  BY <1>1, <1>3, ScanIs
<1> QED
  BY <1>2, <1>3

-----------------------------------------------------------------------------
(* Where the cursor goes: one step of each search.                       *)

\* The first trie is a tree of texts.
LEMMA TopIsTree ==
  ASSUME Finished
  PROVE  /\ Tree(Top) /\ FinishedTrie(1, Top) /\ WellFormed(Top) /\ Numbered(Top.louds, Top.parentOf)
         /\ Len(Top.parentOf) \in Nat /\ DOMAIN Top.parentOf = 1 .. Len(Top.parentOf)
         /\ Len(Top.bases) = Len(Top.parentOf) + 1
         /\ Len(Top.linkFlags) = Len(Top.parentOf) + 1
         /\ ~Bit(Top.linkFlags, 0) /\ 1 \in DOMAIN trie
<1>1. FinishedTrie(1, Top) /\ 1 \in DOMAIN trie
  BY EachTrie DEF Top
<1>2. /\ WellFormed(Top) /\ Numbered(Top.louds, Top.parentOf)
      /\ Len(Top.parentOf) \in Nat /\ DOMAIN Top.parentOf = 1 .. Len(Top.parentOf)
      /\ Len(Top.bases) = Len(Top.parentOf) + 1
      /\ ~Bit(Top.linkFlags, 0)
  BY <1>1 DEF FinishedTrie
<1>3. Len(Top.linkFlags) = Len(Top.parentOf) + 1 /\ Top.parentOf \in Seq(Nat)
  BY <1>2 DEF WellFormed, BitsOK
<1>4. /\ Top.textOf \in Seq(Seq(Byte)) /\ Len(Top.textOf) = Len(Top.parentOf) + 1
      /\ Text(Top, 0) = <<>>
  BY <1>1 DEF FinishedTrie, Spelled, Text
<1>5. ASSUME NEW n \in DOMAIN Top.parentOf
      PROVE  /\ Top.parentOf[n] \in 0 .. n - 1
             /\ Len(Text(Top, Top.parentOf[n])) < Len(Text(Top, n))
             /\ Begins(Text(Top, Top.parentOf[n]), Text(Top, n))
  <2> DEFINE up == Text(Top, Top.parentOf[n])
             own == Own(1, n)
             text == Text(Top, n)
  <2>1. /\ text = up \o own /\ own \in Seq(Byte) /\ own # <<>> /\ up \in Seq(Byte)
        /\ Top.parentOf[n] \in 0 .. n - 1
    BY <1>1, EdgeText DEF Top, Join
  <2>2. Len(own) \in Nat \ {0} /\ Len(up) \in Nat
    BY <2>1, LenProperties, EmptySeq
  <2> HIDE DEF up, own, text
  <2>3. Len(up) < Len(text) /\ Begins(up, text)
    BY <2>1, <2>2 DEF Begins
  <2> QED
    BY <2>1, <2>3 DEF up, text
<1>6. LabelsApart(Top.parentOf, Top.textOf)
  BY <1>1 DEF FinishedTrie, Shaped
<1>7. Tree(Top)
  BY <1>3, <1>4, <1>5, <1>6 DEF Tree
<1> QED
  BY <1>1, <1>2, <1>3, <1>7

LEMMA KidText ==
  ASSUME Finished, NEW n, NEW m \in Kids(Top, n)
  PROVE  /\ m \in DOMAIN Top.parentOf /\ Top.parentOf[m] = n /\ m # 0
         /\ m \in Nodes(Top) /\ n \in Nodes(Top)
         /\ Text(Top, m) = Text(Top, n) \o Own(1, m)
         /\ Own(1, m) \in Seq(Byte) /\ Own(1, m) # <<>>
         /\ Text(Top, n) \in Seq(Byte) /\ Text(Top, m) \in Seq(Byte)
<1>1. m \in DOMAIN Top.parentOf /\ Top.parentOf[m] = n
  BY DEF Kids
<1>2. m \in Nodes(Top) /\ m # 0 /\ n \in Nodes(Top)
  BY <1>1, TopIsTree, TreeChild, TreeNode
<1>3. 1 \in DOMAIN trie
  BY TopIsTree
<1> QED
  BY <1>1, <1>2, <1>3, EdgeText DEF Top, Join

\* A lookup or a common prefix search goes down one edge.
LEMMA LedOn ==
  ASSUME Finished, query \in Seq(Byte), Led(Top, query, nodeId, queryPos),
         HasMoreQuery, NEW found, FoundAs(found, FALSE), found.ok
  PROVE  Led(Top, query, found.node, found.pos)
<1> DEFINE m == found.node
           own == Own(1, m)
           p == queryPos
           q == query
           up == Text(Top, nodeId)
<1>1. /\ m \in Kids(Top, nodeId) /\ Tested(m, FALSE).ok
      /\ found.pos = Tested(m, FALSE).pos
  BY DEF FoundAs
<1>2. /\ m \in Nodes(Top) /\ m \in DOMAIN Top.parentOf /\ Text(Top, m) = up \o own
      /\ own \in Seq(Byte)
  BY <1>1, KidText
<1>3. /\ p \in Nat /\ p < Len(q) /\ Len(q) \in Nat /\ up = SubSeq(q, 1, p)
      /\ p \in Starts
  BY LenProperties DEF Led, HasMoreQuery, Starts
<1>4. Outcome(own, q, p, FALSE, Tested(m, FALSE))
  BY <1>2, <1>3, TriedIs
<1>5. Fits(own, q, p) /\ p + Len(own) <= Len(q) /\ found.pos = p + Len(own)
  BY <1>1, <1>4 DEF Outcome
<1>6. Len(own) \in Nat /\ up \in Seq(Byte) /\ Len(up) = p
      /\ \A i \in 1 .. p : up[i] = q[i]
  BY <1>2, <1>3, LenProperties
<1> HIDE DEF own, up, m
<1> DEFINE e == p + Len(own)
           part == SubSeq(q, 1, e)
<1>7. part \in Seq(Byte) /\ Len(part) = e /\ \A i \in 1 .. e : part[i] = q[i]
  BY <1>3, <1>5, <1>6
<1>8. up \o own = part
  <2>1. /\ up \o own \in Seq(Byte) /\ Len(up \o own) = e
    BY <1>2, <1>3, <1>6
  <2>2. ASSUME NEW i \in 1 .. e PROVE (up \o own)[i] = q[i]
    <3>1. CASE i <= p
      BY <1>2, <1>3, <1>6, <3>1
    <3>2. CASE i > p
      <4>1. i - p \in 1 .. Len(own) /\ p + (i - p) = i /\ p + (i - p) <= Len(q)
        BY <1>3, <1>5, <1>6, <3>2
      <4>2. (up \o own)[i] = own[i - p]
        BY <1>2, <1>3, <1>6, <3>2
      <4> QED
        BY <1>5, <4>1, <4>2 DEF Fits
    <3> QED
      BY <1>3, <1>6, <3>1, <3>2
  <2> HIDE DEF part
  <2> QED
    BY <1>7, <2>1, <2>2, SeqEqual
<1>9. found.pos \in 0 .. Len(q)
  BY <1>3, <1>5, <1>6
<1> QED
  BY <1>2, <1>5, <1>8, <1>9 DEF Led, m

\* A predictive search goes down one edge; the last one may lead beyond the query.
LEMMA LeadsOn ==
  ASSUME Finished, query \in Seq(Byte), Leads(Top, query, nodeId, queryPos, keyBuf),
         HasMoreQuery, NEW found, FoundAs(found, TRUE), found.ok
  PROVE  Leads(Top, query, found.node, found.pos, keyBuf \o found.text)
<1> DEFINE m == found.node
           own == Own(1, m)
           p == queryPos
           q == query
           up == Text(Top, nodeId)
<1>1. /\ m \in Kids(Top, nodeId) /\ Tested(m, TRUE).ok
      /\ found.pos = Tested(m, TRUE).pos /\ found.text = Tested(m, TRUE).text
  BY DEF FoundAs
<1>2. /\ m \in Nodes(Top) /\ m \in DOMAIN Top.parentOf /\ Text(Top, m) = up \o own
      /\ own \in Seq(Byte) /\ up \in Seq(Byte) /\ Top.parentOf[m] = nodeId
  BY <1>1, KidText
<1>3. /\ p \in Nat /\ p < Len(q) /\ Len(q) \in Nat /\ keyBuf = up /\ Len(up) = p
      /\ \A i \in 1 .. p : up[i] = q[i]
      /\ p \in Starts
  BY LenProperties DEF Leads, HasMoreQuery, Starts
<1>4. Outcome(own, q, p, TRUE, Tested(m, TRUE))
  BY <1>2, <1>3, TriedIs
<1>5. /\ Fits(own, q, p) /\ found.text = own
      /\ found.pos = IF p + Len(own) <= Len(q) THEN p + Len(own) ELSE Len(q)
  BY <1>1, <1>4 DEF Outcome
<1>6. Len(own) \in Nat
  BY <1>2, LenProperties
<1> DEFINE e == found.pos
           text == up \o own
<1>7. Len(Text(Top, nodeId)) < Len(q)
  BY <1>3
<1> HIDE DEF own, up, m, e
<1>8. /\ text \in Seq(Byte) /\ Len(text) = p + Len(own)
      /\ \A i \in 1 .. p : text[i] = up[i]
      /\ \A i \in p + 1 .. p + Len(own) : text[i] = own[i - p]
  <2>1. /\ Len(up \o own) = Len(up) + Len(own) /\ up \o own \in Seq(Byte)
        /\ \A i \in 1 .. Len(up) : (up \o own)[i] = up[i]
        /\ \A i \in Len(up) + 1 .. Len(up) + Len(own) :
             (up \o own)[i] = own[i - Len(up)]
    BY <1>2, ConcatProperties
  <2> QED
    BY <1>3, <2>1
<1> HIDE DEF text
<1>9. /\ e \in 0 .. Len(q) /\ e <= Len(text) /\ (e < Len(q) => Len(text) = e)
  BY <1>3, <1>5, <1>6, <1>8 DEF e
<1>10. ASSUME NEW i \in 1 .. e PROVE text[i] = q[i]
  <2>1. CASE i <= p
    BY <1>3, <1>8, <2>1
  <2>2. CASE i > p
    <3>1. i - p \in 1 .. Len(own) /\ p + (i - p) = i /\ p + (i - p) <= Len(q)
          /\ i \in p + 1 .. p + Len(own)
      BY <1>3, <1>6, <1>8, <1>9, <2>2
    <3> QED
      BY <1>5, <1>8, <3>1 DEF Fits
  <2> QED
    BY <1>3, <1>9, <2>1, <2>2
<1>11. keyBuf \o found.text = text /\ text = Text(Top, m)
  BY <1>2, <1>3, <1>5 DEF text
<1>12. Len(Text(Top, Top.parentOf[m])) < Len(q)
  BY <1>2, <1>7
<1> QED
  BY <1>2, <1>9, <1>10, <1>11, <1>12 DEF Leads, m, e

\* Where a predictive search ends: all nodes whose text begins with the query are
\* at and below that node.
LEMMA LeadsToRoot ==
  ASSUME NEW t, Tree(t), NEW q \in Seq(Byte), NEW n, NEW p, NEW buf,
         Leads(t, q, n, p, buf), p = Len(q)
  PROVE  RootOf(t, q, n)
<1> DEFINE text == Text(t, n)
<1>1. /\ n \in Nodes(t) /\ buf = text /\ Len(q) <= Len(text)
      /\ \A i \in 1 .. Len(q) : text[i] = q[i]
      /\ n # 0 => Len(Text(t, t.parentOf[n])) < Len(q)
  BY DEF Leads
<1>2. Begins(q, text)
  BY <1>1 DEF Begins
<1>3. /\ text \in Seq(Byte) /\ Len(text) \in Nat /\ Len(q) \in Nat
  BY <1>1, TreeNode, LenProperties
<1>4. ASSUME NEW z \in Nodes(t), Begins(q, Text(t, z)) PROVE Begins(text, Text(t, z))
  <2> DEFINE whole == Text(t, z)
  <2>1. whole \in Seq(Byte) /\ Len(whole) \in Nat
    BY TreeNode
  <2>2. CASE n = 0
    <3>1. text = <<>>
      BY <2>2 DEF Tree
    <3> QED
      BY <2>1, <3>1, BeginsItself
  <2>3. CASE n # 0
    <3> DEFINE u == t.parentOf[n]
               up == Text(t, u)
    <3>1. /\ n \in DOMAIN t.parentOf /\ u \in Nodes(t) /\ Begins(up, text)
          /\ Len(up) < Len(q)
      BY <1>1, <2>3, TreeNode
    <3>2. up \in Seq(Byte) /\ Len(up) \in Nat
      BY <3>1, TreeNode
    <3>3. Begins(up, q)
      BY <1>2, <1>3, <3>1, <3>2, BothBegin
    <3>4. Begins(up, whole)
      BY <1>4, <2>1, <3>2, <3>3, BeginsOn
    <3>5. u # z
      BY <1>3, <1>4, <2>1, <3>1, <3>2 DEF Begins
    <3>6. PICK m \in DOMAIN t.parentOf : t.parentOf[m] = u /\ Begins(Text(t, m), whole)
      BY <3>1, <3>4, <3>5, NextWay
    <3> DEFINE next == Len(up) + 1
    <3>7. next \in 1 .. Len(q)
      BY <1>3, <3>1, <3>2
    <3>8. text[next] = q[next] /\ whole[next] = q[next]
      BY <1>1, <1>4, <3>7 DEF Begins
    <3>9. Text(t, m)[next] = whole[next]
      <4>1. m \in Nodes(t) /\ m # 0 /\ Text(t, m) \in Seq(Byte) /\ Len(Text(t, m)) \in Nat
        BY TreeChild, TreeNode
      <4>2. Len(up) < Len(Text(t, m))
        BY <3>6, <4>1, TreeNode
      <4>3. next \in 1 .. Len(Text(t, m))
        BY <3>2, <4>1, <4>2
      <4> QED
        BY <3>6, <4>3 DEF Begins
    <3>10. m = n
      <4>1. Text(t, m)[next] = Text(t, n)[next] /\ t.parentOf[m] = t.parentOf[n]
            /\ next = Len(Text(t, t.parentOf[m])) + 1
        BY <3>6, <3>8, <3>9
      <4> HIDE DEF next
      <4> QED
        BY <3>1, <4>1, SameFork
    <3> QED
      BY <3>6, <3>10
  <2> QED
    BY <2>2, <2>3
<1> QED
  BY <1>1, <1>2, <1>4 DEF RootOf

\* What one step of a reverse lookup reads goes in front of what it has.
ReadAt(n) ==
  IF Bit(Top.linkFlags, n) THEN Seqs!Reverse(RestoredLink(LinkOf(Top, n)))
  ELSE <<Top.bases[n + 1]>>

LEMMA ReverseOf ==
  ASSUME NEW S, NEW s \in Seq(S)
  PROVE  /\ Seqs!Reverse(s) \in Seq(S) /\ Len(Seqs!Reverse(s)) = Len(s)
         /\ \A i \in 1 .. Len(s) : Seqs!Reverse(s)[i] = s[Len(s) - i + 1]
<1>1. Len(s) \in Nat /\ \A i \in 1 .. Len(s) : s[i] \in S
  BY LenProperties, ElementOfSeq
<1>2. Seqs!Reverse(s) = [i \in 1 .. Len(s) |-> s[(Len(s) - i) + 1]]
  BY DEF Seqs!Reverse
<1>3. \A i \in 1 .. Len(s) : (Len(s) - i) + 1 \in 1 .. Len(s)
  BY <1>1
<1> DEFINE r == [i \in 1 .. Len(s) |-> s[(Len(s) - i) + 1]]
<1>4. r \in Seq(S) /\ Len(r) = Len(s)
  BY <1>1, <1>3
<1> QED
  BY <1>2, <1>4

LEMMA ReverseTwice ==
  ASSUME NEW S, NEW s \in Seq(S)
  PROVE  Seqs!Reverse(Seqs!Reverse(s)) = s
<1> DEFINE r == Seqs!Reverse(s)
           rr == Seqs!Reverse(r)
<1>1. /\ r \in Seq(S) /\ Len(r) = Len(s)
      /\ \A i \in 1 .. Len(s) : r[i] = s[Len(s) - i + 1]
  BY ReverseOf
<1>2. Len(s) \in Nat
  BY LenProperties
<1> HIDE DEF r
<1>3. /\ rr \in Seq(S) /\ Len(rr) = Len(s)
      /\ \A i \in 1 .. Len(s) : rr[i] = r[Len(s) - i + 1]
  BY <1>1, ReverseOf
<1>4. ASSUME NEW i \in 1 .. Len(s) PROVE rr[i] = s[i]
  <2>1. Len(s) - i + 1 \in 1 .. Len(s) /\ Len(s) - (Len(s) - i + 1) + 1 = i
    BY <1>2
  <2> QED
    BY <1>1, <1>3, <2>1
<1> HIDE DEF rr
<1>5. rr = s
  BY <1>1, <1>3, <1>4, SeqEqual
<1> QED
  BY <1>5 DEF rr, r

LEMMA ReverseJoined ==
  ASSUME NEW S, NEW a \in Seq(S), NEW b \in Seq(S)
  PROVE  Seqs!Reverse(a \o b) = Seqs!Reverse(b) \o Seqs!Reverse(a)
<1> DEFINE ra == Seqs!Reverse(a)
           rb == Seqs!Reverse(b)
           c == a \o b
           rc == Seqs!Reverse(c)
<1>1. /\ ra \in Seq(S) /\ Len(ra) = Len(a)
      /\ \A i \in 1 .. Len(a) : ra[i] = a[Len(a) - i + 1]
  BY ReverseOf
<1>2. /\ rb \in Seq(S) /\ Len(rb) = Len(b)
      /\ \A i \in 1 .. Len(b) : rb[i] = b[Len(b) - i + 1]
  BY ReverseOf
<1>3. /\ Len(a) \in Nat /\ Len(b) \in Nat /\ c \in Seq(S) /\ Len(c) = Len(a) + Len(b)
      /\ \A i \in 1 .. Len(a) : c[i] = a[i]
      /\ \A i \in Len(a) + 1 .. Len(a) + Len(b) : c[i] = b[i - Len(a)]
  BY LenProperties, ConcatProperties
<1> HIDE DEF ra, rb, c
<1>4. /\ rc \in Seq(S) /\ Len(rc) = Len(c)
      /\ \A i \in 1 .. Len(c) : rc[i] = c[Len(c) - i + 1]
  BY <1>3, ReverseOf
<1>5. /\ rb \o ra \in Seq(S) /\ Len(rb \o ra) = Len(c)
  <2>1. rb \o ra \in Seq(S) /\ Len(rb \o ra) = Len(rb) + Len(ra)
    BY <1>1, <1>2, ConcatProperties
  <2> QED
    BY <1>1, <1>2, <1>3, <2>1
<1> HIDE DEF rc
<1>6. ASSUME NEW i \in 1 .. Len(c) PROVE rc[i] = (rb \o ra)[i]
  <2>1. rc[i] = c[Len(c) - i + 1]
    BY <1>4
  <2>2. CASE i <= Len(b)
    <3>1. (rb \o ra)[i] = rb[i] /\ i \in 1 .. Len(b)
      BY <1>1, <1>2, <1>3, <2>2
    <3> DEFINE j == Len(c) - i + 1
    <3>2. j \in Len(a) + 1 .. Len(a) + Len(b) /\ j - Len(a) = Len(b) - i + 1
      BY <1>3, <2>2
    <3> HIDE DEF j
    <3>3. c[j] = b[j - Len(a)]
      BY <1>3, <3>2
    <3> QED
      BY <1>2, <2>1, <3>1, <3>2, <3>3 DEF j
  <2>3. CASE i > Len(b)
    <3>1. (rb \o ra)[i] = ra[i - Len(b)] /\ i - Len(b) \in 1 .. Len(a)
      BY <1>1, <1>2, <1>3, <2>3
    <3> DEFINE j == Len(c) - i + 1
    <3>2. j \in 1 .. Len(a) /\ j = Len(a) - (i - Len(b)) + 1
      BY <1>3, <2>3
    <3> HIDE DEF j
    <3>3. c[j] = a[j]
      BY <1>3, <3>2
    <3> QED
      BY <1>1, <2>1, <3>1, <3>2, <3>3 DEF j
  <2>4. i <= Len(b) \/ i > Len(b)
    <3>1. Len(c) \in Nat /\ Len(b) \in Nat /\ i \in 1 .. Len(c)
      BY <1>3
    <3> QED
      BY ONLY <3>1
  <2> QED
    BY <2>2, <2>3, <2>4
<1>7. rc = rb \o ra
  BY <1>4, <1>5, <1>6, SeqEqual
<1> QED
  BY <1>7 DEF rc, rb, ra, c

LEMMA ReadAtIs ==
  ASSUME Finished, NEW n \in DOMAIN Top.parentOf
  PROVE  ReadAt(n) = Seqs!Reverse(Own(1, n)) /\ Own(1, n) \in Seq(Byte)
<1>1. 1 \in DOMAIN trie /\ FinishedTrie(1, Top) /\ n \in DOMAIN trie[1].parentOf
  BY TopIsTree DEF Top
<1>2. /\ Own(1, n) \in Seq(Byte)
      /\ ~Bit(Top.linkFlags, n) => Own(1, n) = <<Top.bases[n + 1]>>
  BY <1>1, EdgeText DEF Top
<1>3. CASE Bit(Top.linkFlags, n)
  BY <1>2, <1>3, RestoredLinkIs DEF ReadAt
<1>4. CASE ~Bit(Top.linkFlags, n)
  <2> DEFINE b == Top.bases[n + 1]
             one == <<b>>
             r == Seqs!Reverse(one)
  <2>1. one \in Seq(Byte) /\ Len(one) = 1 /\ one[1] = b
    BY <1>2, <1>4
  <2> HIDE DEF one
  <2>2. r \in Seq(Byte) /\ Len(r) = 1 /\ \A i \in 1 .. 1 : r[i] = one[1 - i + 1]
    BY <2>1, ReverseOf
  <2> HIDE DEF r
  <2>3. \A i \in 1 .. 1 : r[i] = one[i]
    BY <2>2
  <2>4. r = one
    BY <2>1, <2>2, <2>3, SeqEqual
  <2> QED
    BY <1>2, <1>4, <2>4 DEF ReadAt, r, one
<1> QED
  BY <1>3, <1>4

\* A reverse lookup goes up one edge.
LEMMA ClimbsOn ==
  ASSUME Finished, NEW z, NEW n, NEW buf \in Seq(Byte), Climbs(Top, z, n, buf)
  PROVE  LET more == buf \o ReadAt(n)
         IN  /\ more \in Seq(Byte)
             /\ n <= Top.numL1 => Text(Top, z) = Seqs!Reverse(more)
             /\ ~(n <= Top.numL1) => Climbs(Top, z, Select1(Top.louds, n) - n - 1, more)
<1> DEFINE up == Text(Top, Top.parentOf[n])
           own == Own(1, n)
           text == Text(Top, n)
           more == buf \o ReadAt(n)
           back == Seqs!Reverse(buf)
<1>1. n \in DOMAIN Top.parentOf /\ Text(Top, z) = text \o back
  BY DEF Climbs
<1>2. ReadAt(n) = Seqs!Reverse(own) /\ own \in Seq(Byte)
  BY <1>1, ReadAtIs
<1>3. /\ text = up \o own /\ up \in Seq(Byte) /\ Text(Top, 0) = <<>>
      /\ Top.parentOf[n] \in 0 .. n - 1
  <2>1. 1 \in DOMAIN trie /\ n \in DOMAIN trie[1].parentOf
    BY <1>1, TopIsTree DEF Top
  <2> QED
    BY <2>1, EdgeText DEF Top, Join
<1>4. back \in Seq(Byte) /\ Seqs!Reverse(own) \in Seq(Byte)
  BY <1>2, ReverseOf
<1>5. more \in Seq(Byte)
  BY <1>2, <1>4, ConcatProperties
<1>6. Seqs!Reverse(more) = own \o back
  BY <1>2, <1>4, ReverseJoined, ReverseTwice
<1>7. Text(Top, z) = up \o (own \o back)
  <2>1. Text(Top, z) = (up \o own) \o back
    BY <1>1, <1>3
  <2> HIDE DEF up, own, back
  <2>2. (up \o own) \o back = up \o (own \o back)
    <3>1. up \in Seq(Byte) /\ own \in Seq(Byte) /\ back \in Seq(Byte)
      BY <1>2, <1>3, <1>4
    <3> QED
      BY ONLY <3>1, ConcatAssociative
  <2> QED
    BY <2>1, <2>2
<1>8. n <= Top.numL1 <=> Top.parentOf[n] = 0
  BY <1>1, TopIsTree DEF FinishedTrie, Shaped, RootFirst
<1>9. Select1(Top.louds, n) - n - 1 = Top.parentOf[n]
  BY <1>1, TopIsTree, NumberedFinds DEF ParentsOf, WellFormed, BitsOK
<1>10. ASSUME Top.parentOf[n] = 0 PROVE Text(Top, z) = Seqs!Reverse(more)
  <2>1. up = <<>>
    BY <1>3, <1>10
  <2>2. own \o back \in Seq(Byte)
    BY <1>2, <1>4, ConcatProperties
  <2>3. <<>> \o (own \o back) = own \o back
    BY <2>2, ConcatEmptySeq
  <2> QED
    BY <1>6, <1>7, <2>1, <2>3
<1>11. ASSUME Top.parentOf[n] # 0 PROVE Top.parentOf[n] \in DOMAIN Top.parentOf
  <2>1. n \in 1 .. Len(Top.parentOf) /\ Len(Top.parentOf) \in Nat
    BY <1>1, TopIsTree
  <2>2. Top.parentOf[n] \in 1 .. Len(Top.parentOf)
    BY <1>3, <1>11, <2>1
  <2> QED
    BY <2>2, TopIsTree
<1> HIDE DEF more, back, own, up
<1>12. ASSUME ~(n <= Top.numL1)
       PROVE  Climbs(Top, z, Select1(Top.louds, n) - n - 1, more)
  <2>1. Top.parentOf[n] \in DOMAIN Top.parentOf
    BY <1>8, <1>11, <1>12
  <2> QED
    BY <1>6, <1>7, <1>9, <2>1 DEF Climbs, up
<1> QED
  BY <1>5, <1>8, <1>10, <1>12 DEF more

-----------------------------------------------------------------------------
LevelType == [nodeId : Nat, loudsPos : Nat, keyPos : Nat,
              linkId : Nat \cup {Invalid}, keyId : Nat \cup {Invalid}]

LEMMA BitsOf ==
  ASSUME NEW t, WellFormed(t)
  PROVE  /\ t.louds \in Seq(BOOLEAN) /\ Len(t.louds) \in Nat
         /\ t.parentOf \in Seq(Nat) /\ Len(t.parentOf) \in Nat
         /\ Zeros(t.louds) = Len(t.parentOf) + 3
         /\ Ones(t.louds) = Len(t.parentOf) + 1
         /\ Len(t.louds) = 2 * Len(t.parentOf) + 4
         /\ t.linkFlags \in Seq(BOOLEAN) /\ Len(t.linkFlags) = Len(t.parentOf) + 1
         /\ t.bases \in Seq(Byte) /\ Len(t.bases) = Len(t.parentOf) + 1
         /\ DOMAIN t.parentOf = 1 .. Len(t.parentOf)
<1>1. /\ t.louds \in Seq(BOOLEAN) /\ t.parentOf \in Seq(Nat)
      /\ t.linkFlags \in Seq(BOOLEAN) /\ t.bases \in Seq(Byte)
      /\ Len(t.parentOf) + 1 = Len(t.linkFlags) /\ Len(t.bases) = Len(t.linkFlags)
      /\ Ones(t.louds) = Len(t.linkFlags) /\ Zeros(t.louds) = Len(t.linkFlags) + 2
  BY DEF WellFormed, BitsOK
<1>2. Len(t.louds) \in Nat /\ Len(t.parentOf) \in Nat /\ DOMAIN t.parentOf = 1 .. Len(t.parentOf)
  BY <1>1, LenProperties
<1> DEFINE bits == t.louds
           n == Len(t.parentOf)
<1>3. Ones(bits) + Zeros(bits) = Len(bits)
  <2>1. bits \in Seq(BOOLEAN) /\ Len(bits) \in 0 .. Len(bits)
    BY <1>1, <1>2
  <2> HIDE DEF bits
  <2> QED
    BY <2>1, RankType DEF Ones, Zeros
<1>4. n \in Nat /\ n + 1 = Len(t.linkFlags) /\ Ones(bits) = n + 1
      /\ Zeros(bits) = Len(t.linkFlags) + 2 /\ Len(t.bases) = Len(t.linkFlags)
  BY <1>1, <1>2
<1> HIDE DEF bits, n
<1>5. Zeros(bits) = n + 3 /\ Len(bits) = 2 * n + 4 /\ Len(t.linkFlags) = n + 1
      /\ Len(t.bases) = n + 1
  <2>1. Len(t.linkFlags) = n + 1 /\ Len(t.bases) = n + 1
    BY <1>4
  <2>2. Zeros(bits) = n + 3
    BY <1>4, <2>1
  <2>3. Len(bits) = (n + 1) + (n + 3)
    BY <1>3, <1>4, <2>2
  <2> QED
    BY <1>4, <2>1, <2>2, <2>3
<1> QED
  BY <1>1, <1>2, <1>4, <1>5 DEF bits, n

\* What is known of the trie, the flags and the history while an enumeration goes on.
Walk(t, flags, h, hp) ==
  /\ Tree(t) /\ WellFormed(t) /\ Numbered(t.louds, t.parentOf)
  /\ flags \in Seq(BOOLEAN) /\ Len(flags) = Len(t.parentOf) + 2
  /\ h \in Seq(LevelType) /\ hp \in 1 .. Len(h) /\ Len(h) \in Nat
  /\ PathOK(t, h, hp)
  /\ \A i \in 2 .. Len(h) : LevelOK(t, flags, h, hp, i)

\* The history with the level the enumeration goes on at.
LevelsOn(t, h, hp) ==
  LET current == h[Len(h)]
      pos0 == Select0(t.louds, current.nodeId) + 1
  IN  IF hp < Len(h) THEN h
      ELSE Append(h,
             [nodeId |-> pos0 - current.nodeId - 1, loudsPos |-> pos0,
              keyPos |-> 0, linkId |-> Invalid, keyId |-> Invalid])

LEMMA LevelsAre ==
  ASSUME NEW t, NEW flags, NEW h, NEW hp, Walk(t, flags, h, hp)
  PROVE  LET more == LevelsOn(t, h, hp)
         IN  /\ Walk(t, flags, more, hp) /\ hp + 1 \in 2 .. Len(more)
             /\ \A i \in 1 .. Len(h) : more[i] = h[i]
             /\ hp < Len(h) \/ ~Bit(t.louds, more[hp + 1].loudsPos - 1)
<1> DEFINE more == LevelsOn(t, h, hp)
<1>1. /\ Tree(t) /\ WellFormed(t) /\ Numbered(t.louds, t.parentOf)
      /\ flags \in Seq(BOOLEAN) /\ Len(flags) = Len(t.parentOf) + 2
      /\ h \in Seq(LevelType) /\ hp \in 1 .. Len(h) /\ Len(h) \in Nat
      /\ PathOK(t, h, hp)
      /\ \A i \in 2 .. Len(h) : LevelOK(t, flags, h, hp, i)
  BY DEF Walk
<1>2. CASE hp < Len(h)
  <2>1. more = h
    BY <1>2 DEF LevelsOn
  <2>2. hp + 1 \in 2 .. Len(h)
    BY <1>1, <1>2
  <2> HIDE DEF more
  <2> QED
    BY <1>2, <2>1, <2>2 DEF more
<1>3. CASE ~(hp < Len(h))
  <2>1. hp = Len(h)
    BY <1>1, <1>3
  <2> DEFINE c == h[hp].nodeId
             z == Select0(t.louds, c)
             p == z + 1
             new == [nodeId |-> p - c - 1, loudsPos |-> p,
                     keyPos |-> 0, linkId |-> Invalid, keyId |-> Invalid]
  <2>2. more = Append(h, new)
    BY <1>3, <2>1 DEF LevelsOn
  <2>3. c \in Nodes(t)
    BY <1>1 DEF PathOK
  <2>4. /\ t.louds \in Seq(BOOLEAN) /\ Len(t.louds) \in Nat /\ Len(t.parentOf) \in Nat
        /\ Zeros(t.louds) = Len(t.parentOf) + 3
    BY <1>1, BitsOf
  <2>5. c \in Nat /\ c \in 0 .. Zeros(t.louds) - 1
    BY <2>3, <2>4 DEF Nodes
  <2>6. z \in 0 .. Len(t.louds) - 1 /\ ~Bit(t.louds, z) /\ Rank0(t.louds, z) = c
    BY <2>4, <2>5, Select0Finds
  <2> HIDE DEF c, z
  <2>7. Rank0(t.louds, z + 1) = c + 1 /\ z + 1 \in 1 .. Len(t.louds) /\ z \in Nat
    BY <2>4, <2>5, <2>6, RankStep
  <2>8. Rank1(t.louds, z + 1) \in Nat /\ Rank1(t.louds, z + 1) + (c + 1) = z + 1
    <3>1. z + 1 \in 0 .. Len(t.louds)
      BY <2>4, <2>7
    <3> QED
      BY <2>4, <2>7, <3>1, RankType
  <2>9. new \in LevelType /\ new.nodeId = Rank1(t.louds, z + 1)
    <3>1. p - c - 1 = Rank1(t.louds, z + 1) /\ p \in Nat
      BY <2>5, <2>7, <2>8
    <3> QED
      BY <2>8, <3>1 DEF LevelType
  <2>10. /\ more \in Seq(LevelType) /\ Len(more) = Len(h) + 1
         /\ \A i \in 1 .. Len(h) : more[i] = h[i]
         /\ more[hp + 1] = new
    <3> HIDE DEF new, more
    <3> QED
      BY <1>1, <2>1, <2>2, <2>9
  <2>11. new.loudsPos = z + 1 /\ new.linkId = Invalid /\ new.keyId = Invalid
    OBVIOUS
  <2>12. PathOK(t, more, hp)
    <3>1. \A i \in 1 .. hp : more[i] = h[i]
      BY <2>1, <2>10
    <3>2. \A i \in 1 .. hp : i > 1 => i - 1 \in 1 .. hp
      BY <1>1
    <3>3. \A i \in 1 .. hp : \A j \in i .. hp : j \in 1 .. hp
      BY <1>1
    <3> HIDE DEF more
    <3> QED
      BY <1>1, <3>1, <3>2, <3>3 DEF PathOK
  <2>13. ASSUME NEW i \in 2 .. Len(more) PROVE LevelOK(t, flags, more, hp, i)
    <3>1. CASE i \in 2 .. Len(h)
      <4>1. more[i] = h[i] /\ more[i - 1] = h[i - 1]
        <5>1. i \in 1 .. Len(h) /\ i - 1 \in 1 .. Len(h)
          BY <1>1, <3>1
        <5> QED
          BY <2>10, <5>1
      <4>2. LevelOK(t, flags, h, hp, i)
        BY <1>1, <3>1
      <4> HIDE DEF more
      <4> QED
        BY <4>1, <4>2 DEF LevelOK, Upto
    <3>2. CASE i = hp + 1
      <4>1. more[i] = new /\ more[i - 1].nodeId = c
        <5>1. i - 1 = hp /\ hp \in 1 .. Len(h)
          BY <1>1, <3>2
        <5> QED
          BY <2>10, <3>2, <5>1 DEF c
      <4>2. ~(i <= hp) /\ ~(i > hp + 1)
        BY <1>1, <3>2
      <4> HIDE DEF new, more
      <4>3. Upto(more, hp, i) = Rank1(t.louds, z + 1)
        BY <2>8, <2>9, <4>1, <4>2 DEF Upto
      <4> QED
        BY <2>7, <2>11, <4>1, <4>2, <4>3 DEF LevelOK
    <3> QED
      BY <1>1, <2>1, <2>10, <3>1, <3>2
  <2>14. z + 1 - 1 = z
    BY <2>7
  <2>15. ~Bit(t.louds, more[hp + 1].loudsPos - 1)
    BY <2>6, <2>10, <2>11, <2>14
  <2> HIDE DEF more
  <2>16. hp \in 1 .. Len(more) /\ Len(more) \in Nat /\ hp + 1 \in 2 .. Len(more)
    BY <1>1, <2>1, <2>10
  <2> QED
    BY <1>1, <2>10, <2>12, <2>13, <2>15, <2>16 DEF Walk, more
<1> QED
  BY <1>2, <1>3

\* A counter that goes along with the nodes counts the flags passed.
Counted(flags, id, n) ==
  IF ~Bit(flags, n) THEN id ELSE IF id = Invalid THEN Rank1(flags, n) ELSE id + 1

LEMMA CountedIs ==
  ASSUME NEW flags \in Seq(BOOLEAN), NEW n \in 0 .. Len(flags) - 1,
         NEW id \in Nat \cup {Invalid}, id # Invalid => id + 1 = Rank1(flags, n)
  PROVE  LET c == Counted(flags, id, n)
         IN  /\ c \in Nat \cup {Invalid}
             /\ Bit(flags, n) => c = Rank1(flags, n) /\ c \in Nat
             /\ c # Invalid => c + 1 = Rank1(flags, n + 1)
<1>1. Len(flags) \in Nat /\ n \in 0 .. Len(flags)
  BY LenProperties
<1>2. Rank1(flags, n) \in Nat
  BY <1>1, RankType
<1>3. Rank1(flags, n + 1) = Rank1(flags, n) + (IF Bit(flags, n) THEN 1 ELSE 0)
  BY RankStep
<1>4. CASE Bit(flags, n)
  <2>1. Counted(flags, id, n) = Rank1(flags, n)
    BY <1>4 DEF Counted
  <2>2. Rank1(flags, n + 1) = Rank1(flags, n) + 1
    BY <1>3, <1>4
  <2> QED
    BY <1>2, <2>1, <2>2
<1>5. CASE ~Bit(flags, n)
  <2>1. Counted(flags, id, n) = id
    BY <1>5 DEF Counted
  <2>2. Rank1(flags, n + 1) = Rank1(flags, n)
    BY <1>2, <1>3, <1>5
  <2> QED
    BY <1>5, <2>1, <2>2
<1> QED
  BY <1>4, <1>5

\* What a level of the history is once its next node is visited.
VisitedLevel(t, flags, level1) ==
  [nodeId |-> level1.nodeId, loudsPos |-> level1.loudsPos + 1,
   keyPos |-> Len(Text(t, level1.nodeId)),
   linkId |-> Counted(t.linkFlags, level1.linkId, level1.nodeId),
   keyId |-> Counted(flags, level1.keyId, level1.nodeId)]

\* The bit a level stands at, and what it says of the node the level holds.
LEMMA LevelNode ==
  ASSUME NEW t, NEW flags, NEW h, NEW hp, Walk(t, flags, h, hp), hp + 1 \in 2 .. Len(h)
  PROVE  LET p == h[hp + 1].loudsPos
             n == h[hp + 1].nodeId
             u == h[hp].nodeId
         IN  /\ h[hp + 1] \in LevelType /\ h[hp] \in LevelType
             /\ hp \in 1 .. Len(h) /\ hp + 1 \in 1 .. Len(h) /\ hp \in Nat
             /\ u \in Nodes(t) /\ u \in Nat /\ n \in Nat
             /\ p \in 1 .. Len(t.louds) - 1
             /\ Rank1(t.louds, p) = n /\ Rank0(t.louds, p) = u + 1
             /\ Bit(t.louds, p) => n \in DOMAIN t.parentOf /\ t.parentOf[n] = u
<1> DEFINE p == h[hp + 1].loudsPos
           n == h[hp + 1].nodeId
           u == h[hp].nodeId
<1>1. /\ WellFormed(t) /\ Numbered(t.louds, t.parentOf) /\ Tree(t)
      /\ h \in Seq(LevelType) /\ hp \in 1 .. Len(h) /\ Len(h) \in Nat
      /\ PathOK(t, h, hp) /\ LevelOK(t, flags, h, hp, hp + 1)
  BY DEF Walk
<1>2. hp + 1 - 1 = hp /\ ~(hp + 1 <= hp) /\ hp \in Nat /\ hp + 1 \in 1 .. Len(h)
  BY <1>1
<1>3. h[hp + 1] \in LevelType /\ h[hp] \in LevelType
  BY <1>1, <1>2, ElementOfSeq
<1>4. n \in Nat /\ p \in Nat /\ u \in Nat
  BY <1>3 DEF LevelType
<1>5. Upto(h, hp, hp + 1) = n
  BY <1>2, <1>4 DEF Upto
<1>6. /\ p \in 1 .. Len(t.louds)
      /\ Rank1(t.louds, p) = n /\ Rank0(t.louds, p) = u + 1
  BY <1>1, <1>2, <1>5 DEF LevelOK
<1>7. u \in Nodes(t)
  BY <1>1, <1>2 DEF PathOK
<1>8. /\ t.louds \in Seq(BOOLEAN) /\ Len(t.louds) \in Nat /\ Len(t.parentOf) \in Nat
      /\ Zeros(t.louds) = Len(t.parentOf) + 3 /\ DOMAIN t.parentOf = 1 .. Len(t.parentOf)
  BY <1>1, BitsOf
<1> HIDE DEF p, n, u
<1>9. p # Len(t.louds)
  <2> SUFFICES ASSUME p = Len(t.louds) PROVE FALSE
    OBVIOUS
  <2>1. u + 1 = Len(t.parentOf) + 3
    BY <1>6, <1>8 DEF Zeros
  <2> QED
    BY <1>4, <1>7, <1>8, <2>1 DEF Nodes
<1>10. p \in 1 .. Len(t.louds) - 1 /\ p \in 0 .. Len(t.louds) - 1 /\ p # 0
  BY <1>6, <1>8, <1>9
<1>11. ASSUME Bit(t.louds, p) PROVE n \in DOMAIN t.parentOf /\ t.parentOf[n] = u
  <2>1. Rank1(t.louds, p) # 0
    BY <1>1, <1>10, <1>11 DEF Numbered
  <2>2. /\ n \in DOMAIN t.parentOf /\ t.parentOf[n] = p - n - 1
    BY <1>1, <1>6, <1>10, <1>11, <2>1 DEF Numbered
  <2>3. n + (u + 1) = p
    <3>1. p \in 0 .. Len(t.louds)
      BY <1>10, <1>8
    <3>2. Rank1(t.louds, p) + Rank0(t.louds, p) = p
      BY <1>8, <3>1, RankType
    <3> QED
      BY <1>6, <3>2
  <2>4. p - n - 1 = u
    BY <1>4, <2>3
  <2> QED
    BY <2>2, <2>4
<1> QED
  BY <1>1, <1>2, <1>3, <1>4, <1>6, <1>7, <1>10, <1>11 DEF p, n, u

\* The enumeration steps on to the node of the next level.
SteppedOn(t, flags, h, hp) ==
  LET next == [h EXCEPT ![hp + 1] = VisitedLevel(t, flags, h[hp + 1])]
      n == h[hp + 1].nodeId
  IN  /\ Walk(t, flags, next, hp + 1)
      /\ n \in DOMAIN t.parentOf /\ t.parentOf[n] = h[hp].nodeId
      /\ Bit(t.linkFlags, n) =>
           Counted(t.linkFlags, h[hp + 1].linkId, n) = Rank1(t.linkFlags, n)
      /\ Bit(flags, n) =>
           /\ Counted(flags, h[hp + 1].keyId, n) = Rank1(flags, n)
           /\ Counted(flags, h[hp + 1].keyId, n) \in Nat
      /\ Len(next) = Len(h) /\ next[hp + 1] = VisitedLevel(t, flags, h[hp + 1])
      /\ \A i \in 1 .. Len(h) : i # hp + 1 => next[i] = h[i]

LEMMA WalkVisit ==
  ASSUME NEW t, NEW flags, NEW h, NEW hp, Walk(t, flags, h, hp), hp + 1 \in 2 .. Len(h),
         Bit(t.louds, h[hp + 1].loudsPos)
  PROVE  SteppedOn(t, flags, h, hp)
<1> DEFINE lev == h[hp + 1]
           p == lev.loudsPos
           n == lev.nodeId
           u == h[hp].nodeId
           new == VisitedLevel(t, flags, lev)
           next == [h EXCEPT ![hp + 1] = new]
<1>1. /\ lev \in LevelType /\ h[hp] \in LevelType
      /\ hp \in 1 .. Len(h) /\ hp + 1 \in 1 .. Len(h) /\ hp \in Nat
      /\ u \in Nodes(t) /\ u \in Nat /\ n \in Nat
      /\ p \in 1 .. Len(t.louds) - 1
      /\ Rank1(t.louds, p) = n /\ Rank0(t.louds, p) = u + 1
      /\ n \in DOMAIN t.parentOf /\ t.parentOf[n] = u
  BY LevelNode
<1>2. /\ Tree(t) /\ WellFormed(t) /\ Numbered(t.louds, t.parentOf)
      /\ flags \in Seq(BOOLEAN) /\ Len(flags) = Len(t.parentOf) + 2
      /\ h \in Seq(LevelType) /\ Len(h) \in Nat
      /\ PathOK(t, h, hp)
      /\ \A i \in 2 .. Len(h) : LevelOK(t, flags, h, hp, i)
  BY DEF Walk
<1>3. /\ t.louds \in Seq(BOOLEAN) /\ Len(t.louds) \in Nat
      /\ Len(t.parentOf) \in Nat /\ DOMAIN t.parentOf = 1 .. Len(t.parentOf)
      /\ t.linkFlags \in Seq(BOOLEAN) /\ Len(t.linkFlags) = Len(t.parentOf) + 1
  BY <1>2, BitsOf
<1>4. n \in Nodes(t) /\ n # 0 /\ Text(t, n) \in Seq(Byte) /\ Len(Text(t, n)) \in Nat
      /\ Begins(Text(t, u), Text(t, n)) /\ Text(t, u) \in Seq(Byte)
  BY <1>1, <1>2, TreeChild, TreeNode
<1>5. /\ lev.linkId \in Nat \cup {Invalid} /\ lev.keyId \in Nat \cup {Invalid}
      /\ p \in Nat
  BY <1>1 DEF LevelType
<1>6. /\ lev.linkId # Invalid => lev.linkId + 1 = Rank1(t.linkFlags, n)
      /\ lev.keyId # Invalid => lev.keyId + 1 = Rank1(flags, n)
  <2>1. LevelOK(t, flags, h, hp, hp + 1)
    BY <1>2
  <2>2. Upto(h, hp, hp + 1) = n
    BY <1>1 DEF Upto
  <2> QED
    BY <2>1, <2>2 DEF LevelOK
<1> DEFINE linkId == Counted(t.linkFlags, lev.linkId, n)
           keyId == Counted(flags, lev.keyId, n)
<1> HIDE DEF n, p
<1>7. n \in 0 .. Len(t.linkFlags) - 1 /\ n \in 0 .. Len(flags) - 1
  BY <1>1, <1>2, <1>3
<1>8. /\ linkId \in Nat \cup {Invalid}
      /\ Bit(t.linkFlags, n) => linkId = Rank1(t.linkFlags, n)
      /\ linkId # Invalid => linkId + 1 = Rank1(t.linkFlags, n + 1)
  BY <1>3, <1>5, <1>6, <1>7, CountedIs
<1>9. /\ keyId \in Nat \cup {Invalid}
      /\ Bit(flags, n) => keyId = Rank1(flags, n) /\ keyId \in Nat
      /\ keyId # Invalid => keyId + 1 = Rank1(flags, n + 1)
  BY <1>2, <1>5, <1>6, <1>7, CountedIs
<1> HIDE DEF linkId, keyId
<1>10. /\ new.nodeId = n /\ new.loudsPos = p + 1 /\ new.keyPos = Len(Text(t, n))
       /\ new.linkId = linkId /\ new.keyId = keyId
       /\ new \in LevelType
  <2>1. new = [nodeId |-> n, loudsPos |-> p + 1, keyPos |-> Len(Text(t, n)),
               linkId |-> linkId, keyId |-> keyId]
    BY DEF VisitedLevel, n, p, linkId, keyId
  <2>2. p + 1 \in Nat
    BY <1>5
  <2> QED
    BY <1>1, <1>4, <1>8, <1>9, <2>1, <2>2 DEF LevelType
<1> HIDE DEF new
<1>11. /\ next \in Seq(LevelType) /\ Len(next) = Len(h) /\ next[hp + 1] = new
       /\ \A i \in 1 .. Len(h) : i # hp + 1 => next[i] = h[i]
  BY <1>1, <1>2, <1>10, ExceptSeq
<1> HIDE DEF next
<1>12. PathOK(t, next, hp + 1)
  <2>1. ASSUME NEW i \in 1 .. hp PROVE next[i] = h[i]
    <3>1. i \in 1 .. Len(h) /\ i # hp + 1
      BY <1>1, <1>2
    <3> QED
      BY <1>11, <3>1
  <2>2. ASSUME NEW i \in 1 .. hp
        PROVE  /\ h[i].nodeId \in Nodes(t) /\ h[i].keyPos = Len(Text(t, h[i].nodeId))
               /\ i > 1 => h[i].nodeId # 0 /\ t.parentOf[h[i].nodeId] = h[i - 1].nodeId
               /\ \A j \in i .. hp : Begins(Text(t, h[i].nodeId), Text(t, h[j].nodeId))
               /\ hp \in i .. hp
    <3>1. hp \in i .. hp
      BY <1>1
    <3> QED
      BY <1>2, <3>1, Zenon DEF PathOK
  <2>3. ASSUME NEW i \in 1 .. hp PROVE Begins(Text(t, h[i].nodeId), Text(t, n))
    <3>1. Begins(Text(t, h[i].nodeId), Text(t, u)) /\ Text(t, h[i].nodeId) \in Seq(Byte)
      BY <1>2, <2>2, TreeNode
    <3> QED
      BY <1>4, <3>1, BeginsOn
  <2>4. Begins(Text(t, n), Text(t, n))
    BY <1>4, BeginsItself
  <2>5. ASSUME NEW i \in 1 .. hp + 1
        PROVE  /\ next[i].nodeId \in Nodes(t)
               /\ next[i].keyPos = Len(Text(t, next[i].nodeId))
               /\ i > 1 => /\ next[i].nodeId # 0
                           /\ t.parentOf[next[i].nodeId] = next[i - 1].nodeId
               /\ \A j \in i .. hp + 1 : Begins(Text(t, next[i].nodeId), Text(t, next[j].nodeId))
    <3>1. CASE i = hp + 1
      <4>1. next[i] = new /\ next[i - 1] = h[hp]
        <5>1. i - 1 = hp /\ hp \in 1 .. hp
          BY <1>1, <3>1
        <5> QED
          BY <1>11, <2>1, <3>1, <5>1
      <4>2. \A j \in i .. hp + 1 : j = i
        BY <1>1, <3>1
      <4> QED
        BY <1>1, <1>4, <1>10, <2>4, <4>1, <4>2
    <3>2. CASE i # hp + 1
      <4>1. i \in 1 .. hp /\ (i > 1 => i - 1 \in 1 .. hp)
        BY <1>1, <3>2, SMTT(30)
      <4>2. next[i] = h[i] /\ (i > 1 => next[i - 1] = h[i - 1])
        BY <2>1, <4>1
      <4>3. ASSUME NEW j \in i .. hp + 1
            PROVE  Begins(Text(t, next[i].nodeId), Text(t, next[j].nodeId))
        <5>1. CASE j = hp + 1
          BY <1>10, <1>11, <2>3, <4>1, <4>2, <5>1
        <5>2. CASE j # hp + 1
          <6>1. j \in i .. hp /\ j \in 1 .. hp
            BY <1>1, <4>1, <5>2
          <6> QED
            BY <2>1, <2>2, <4>1, <4>2, <6>1
        <5> QED
          BY <5>1, <5>2
      <4> QED
        BY <2>2, <4>1, <4>2, <4>3
    <3> QED
      BY <3>1, <3>2
  <2> QED
    BY <2>5 DEF PathOK
<1>13. ASSUME NEW i \in 2 .. Len(next) PROVE LevelOK(t, flags, next, hp + 1, i)
  <2>0. i \in 1 .. Len(h) /\ i - 1 \in 1 .. Len(h) /\ i \in 2 .. Len(h) /\ i \in Nat
    BY <1>2, <1>11
  <2>1. next[i - 1].nodeId = h[i - 1].nodeId
    <3>1. CASE i - 1 = hp + 1
      BY <1>10, <1>11, <3>1 DEF n
    <3>2. CASE i - 1 # hp + 1
      BY <1>11, <2>0, <3>2
    <3> QED
      BY <3>1, <3>2
  <2>2. CASE i = hp + 1
    <3>1. next[i] = new /\ i - 1 = hp /\ i <= hp + 1 /\ ~(i > hp + 1 + 1)
      BY <1>1, <1>11, <2>2
    <3>2. Upto(next, hp + 1, i) = n + 1
      BY <1>10, <3>1 DEF Upto
    <3>3. /\ Rank1(t.louds, p + 1) = n + 1 /\ Rank0(t.louds, p + 1) = u + 1
          /\ p + 1 \in 1 .. Len(t.louds)
      <4>1. p \in 0 .. Len(t.louds) - 1 /\ Bit(t.louds, p)
        <5>1. Bit(t.louds, p)
          BY DEF p
        <5> QED
          BY <1>1, <1>3, <5>1
      <4>2. /\ Rank1(t.louds, p + 1) = Rank1(t.louds, p) + 1
            /\ Rank0(t.louds, p + 1) = Rank0(t.louds, p) + 0
        BY <1>3, <4>1, RankStep
      <4>3. p + 1 \in 1 .. Len(t.louds)
        <5>1. p \in 1 .. Len(t.louds) - 1 /\ Len(t.louds) \in Nat
          BY <1>1, <1>3
        <5> QED
          BY ONLY <5>1
      <4>4. u \in Nat
        BY <1>1
      <4> HIDE DEF u
      <4>5. u + 1 + 0 = u + 1
        BY <4>4
      <4> QED
        BY <1>1, <4>2, <4>3, <4>5
    <3>4. next[i - 1].nodeId = u
      BY <2>1, <3>1
    <3> QED
      BY <1>8, <1>9, <1>10, <3>1, <3>2, <3>3, <3>4 DEF LevelOK
  <2>3. CASE i # hp + 1
    <3>1. next[i] = h[i]
      BY <1>11, <2>0, <2>3
    <3>2. LevelOK(t, flags, h, hp, i)
      BY <1>2, <2>0
    <3>3. /\ i <= hp + 1 <=> i <= hp
          /\ i > hp + 1 + 1 => i > hp + 1
      BY <1>1, <2>0, <2>3
    <3>4. Upto(next, hp + 1, i) = Upto(h, hp, i)
      BY <3>1, <3>3 DEF Upto
    <3> QED
      BY <2>1, <3>1, <3>2, <3>3, <3>4 DEF LevelOK
  <2> QED
    BY <2>2, <2>3
<1>14. hp + 1 \in 1 .. Len(next) /\ Len(next) \in Nat
  BY <1>1, <1>2, <1>11
<1>15. Walk(t, flags, next, hp + 1)
  BY <1>2, <1>11, <1>12, <1>13, <1>14 DEF Walk
<1> QED
  BY <1>1, <1>8, <1>9, <1>11, <1>15 DEF SteppedOn, next, new, n, linkId, keyId

\* The enumeration goes up and leaves a level behind.
PassedOn(h, hp) == [h EXCEPT ![hp + 1].loudsPos = @ + 1, ![hp].nodeId = @ + 1]

GoneUp(t, flags, h, hp) ==
  LET next == PassedOn(h, hp)
  IN  /\ Walk(t, flags, next, hp - 1) /\ hp - 1 \in 1 .. Len(h)
      /\ Len(next) = Len(h)
      /\ next[hp + 1] = [h[hp + 1] EXCEPT !.loudsPos = @ + 1]
      /\ next[hp] = [h[hp] EXCEPT !.nodeId = @ + 1]
      /\ \A i \in 1 .. Len(h) : i # hp + 1 /\ i # hp => next[i] = h[i]

LEMMA WalkUp ==
  ASSUME NEW t, NEW flags, NEW h, NEW hp, Walk(t, flags, h, hp), hp + 1 \in 2 .. Len(h),
         ~Bit(t.louds, h[hp + 1].loudsPos), hp # 1
  PROVE  GoneUp(t, flags, h, hp)
<1> DEFINE lev == h[hp + 1]
           p == lev.loudsPos
           n == lev.nodeId
           u == h[hp].nodeId
           gone == [lev EXCEPT !.loudsPos = @ + 1]
           up == [h[hp] EXCEPT !.nodeId = @ + 1]
           one == [h EXCEPT ![hp + 1] = gone]
           next == [one EXCEPT ![hp] = up]
<1>1. /\ lev \in LevelType /\ h[hp] \in LevelType
      /\ hp \in 1 .. Len(h) /\ hp + 1 \in 1 .. Len(h) /\ hp \in Nat
      /\ u \in Nodes(t) /\ u \in Nat /\ n \in Nat
      /\ p \in 1 .. Len(t.louds) - 1
      /\ Rank1(t.louds, p) = n /\ Rank0(t.louds, p) = u + 1
  BY LevelNode
<1>2. /\ Tree(t) /\ WellFormed(t) /\ Numbered(t.louds, t.parentOf)
      /\ flags \in Seq(BOOLEAN) /\ Len(flags) = Len(t.parentOf) + 2
      /\ h \in Seq(LevelType) /\ Len(h) \in Nat
      /\ PathOK(t, h, hp)
      /\ \A i \in 2 .. Len(h) : LevelOK(t, flags, h, hp, i)
  BY DEF Walk
<1>3. /\ t.louds \in Seq(BOOLEAN) /\ Len(t.louds) \in Nat /\ p \in Nat
  BY <1>1, <1>2, BitsOf DEF LevelType
<1>4. /\ gone.nodeId = n /\ gone.loudsPos = p + 1 /\ gone.linkId = lev.linkId
      /\ gone.keyId = lev.keyId /\ gone.keyPos = lev.keyPos /\ gone \in LevelType
  <2>1. p + 1 \in Nat
    BY <1>3
  <2> QED
    BY <1>1, <2>1 DEF LevelType
<1>5. /\ up.nodeId = u + 1 /\ up.loudsPos = h[hp].loudsPos /\ up.linkId = h[hp].linkId
      /\ up.keyId = h[hp].keyId /\ up.keyPos = h[hp].keyPos /\ up \in LevelType
  <2>1. u + 1 \in Nat
    BY <1>1
  <2> QED
    BY <1>1, <2>1 DEF LevelType
<1>6. PassedOn(h, hp) = next
  <2>1. hp # hp + 1 /\ hp \in DOMAIN h /\ hp + 1 \in DOMAIN h
    BY <1>1, <1>2
  <2> QED
    BY <2>1 DEF PassedOn
<1> HIDE DEF gone, up, n, p
<1>7. /\ one \in Seq(LevelType) /\ Len(one) = Len(h) /\ one[hp + 1] = gone
      /\ \A i \in 1 .. Len(h) : i # hp + 1 => one[i] = h[i]
  BY <1>1, <1>2, <1>4, ExceptSeq
<1> HIDE DEF one
<1>8. /\ next \in Seq(LevelType) /\ Len(next) = Len(h) /\ next[hp] = up
      /\ \A i \in 1 .. Len(h) : i # hp => next[i] = one[i]
  BY <1>1, <1>2, <1>5, <1>7, ExceptSeq
<1> HIDE DEF next
<1>9. /\ next[hp + 1] = gone /\ next[hp] = up
      /\ \A i \in 1 .. Len(h) : i # hp + 1 /\ i # hp => next[i] = h[i]
  <2>1. hp # hp + 1
    BY <1>1
  <2> QED
    BY <1>1, <1>7, <1>8, <2>1
<1>10. hp - 1 \in 1 .. Len(h) /\ hp - 1 \in Nat /\ hp - 1 + 1 = hp
  BY <1>1, <1>2
<1>11. PathOK(t, next, hp - 1)
  <2>1. \A i \in 1 .. hp - 1 : next[i] = h[i] /\ i \in 1 .. hp /\ (i > 1 => i - 1 \in 1 .. hp - 1)
    <3> TAKE i \in 1 .. hp - 1
    <3>1. i \in 1 .. Len(h) /\ i # hp + 1 /\ i # hp /\ i \in 1 .. hp
          /\ (i > 1 => i - 1 \in 1 .. hp - 1)
      BY <1>1, <1>2
    <3> QED
      BY <1>9, <3>1
  <2>2. \A i \in 1 .. hp - 1 : \A j \in i .. hp - 1 : j \in i .. hp /\ j \in 1 .. hp - 1
    BY <1>1, SMTT(30)
  <2> QED
    BY <1>2, <2>1, <2>2 DEF PathOK
<1>12. ASSUME NEW i \in 2 .. Len(next) PROVE LevelOK(t, flags, next, hp - 1, i)
  <2>0. i \in 1 .. Len(h) /\ i - 1 \in 1 .. Len(h) /\ i \in 2 .. Len(h) /\ i \in Nat
    BY <1>2, <1>8
  <2>1. LevelOK(t, flags, h, hp, i)
    BY <1>2, <2>0
  <2>2. CASE i = hp + 1
    <3>1. i - 1 = hp /\ ~(i <= hp - 1) /\ ~(i <= hp) /\ next[i] = gone /\ next[i - 1] = up
          /\ h[i] = lev
      BY <1>1, <1>9, <2>2
    <3>2. Upto(next, hp - 1, i) = n /\ Upto(h, hp, i) = n
      <4>1. n + 0 = n
        BY <1>1
      <4> QED
        BY <1>4, <3>1, <4>1 DEF Upto, n
    <3>3. /\ Rank1(t.louds, p + 1) = n /\ Rank0(t.louds, p + 1) = u + 1 + 1
          /\ p + 1 \in 1 .. Len(t.louds) /\ p + 1 - 1 = p
      <4>1. p \in 0 .. Len(t.louds) - 1 /\ ~Bit(t.louds, p)
        <5>1. ~Bit(t.louds, p)
          BY DEF p
        <5> QED
          BY <1>1, <1>3, <5>1
      <4>2. /\ Rank1(t.louds, p + 1) = Rank1(t.louds, p) + 0
            /\ Rank0(t.louds, p + 1) = Rank0(t.louds, p) + 1
        BY <1>3, <4>1, RankStep
      <4> QED
        BY <1>1, <1>3, <4>2
    <3>4. /\ lev.linkId # Invalid => lev.linkId + 1 = Rank1(t.linkFlags, n)
          /\ lev.keyId # Invalid => lev.keyId + 1 = Rank1(flags, n)
      BY <2>1, <3>1, <3>2 DEF LevelOK
    <3>5. ~Bit(t.louds, gone.loudsPos - 1)
      <4>1. gone.loudsPos - 1 = p
        <5> DEFINE at == gone.loudsPos
        <5>1. at = p + 1 /\ p \in Nat
          BY <1>3, <1>4
        <5> HIDE DEF at
        <5>2. at - 1 = p
          BY ONLY <5>1
        <5> QED
          BY <5>2 DEF at
      <4>2. ~Bit(t.louds, p)
        BY DEF p
      <4> QED
        BY <4>1, <4>2
    <3> HIDE DEF u
    <3> QED
      BY <1>4, <1>5, <3>1, <3>2, <3>3, <3>4, <3>5 DEF LevelOK
  <2>3. CASE i = hp
    <3>1. next[i] = up /\ next[i - 1] = h[i - 1] /\ ~(i <= hp - 1) /\ i <= hp
          /\ ~(i > hp - 1 + 1) /\ h[i].nodeId = u
      <4>1. i - 1 # hp /\ i - 1 # hp + 1 /\ ~(i <= hp - 1) /\ i <= hp /\ ~(i > hp - 1 + 1)
        BY <1>1, <2>3
      <4> QED
        BY <1>9, <2>0, <2>3, <4>1
    <3>2. Upto(next, hp - 1, i) = u + 1 /\ Upto(h, hp, i) = u + 1
      <4>1. u + 1 + 0 = u + 1
        BY <1>1
      <4> QED
        BY <1>5, <3>1, <4>1 DEF Upto
    <3> QED
      BY <1>5, <2>1, <2>3, <3>1, <3>2 DEF LevelOK
  <2>4. CASE i # hp + 1 /\ i # hp
    <3>1. next[i] = h[i]
      BY <1>9, <2>0, <2>4
    <3>2. next[i - 1].nodeId = h[i - 1].nodeId
      <4>1. i - 1 # hp
        BY <1>1, <2>0, <2>4
      <4>2. CASE i - 1 = hp + 1
        BY <1>4, <1>9, <4>2 DEF n
      <4>3. CASE i - 1 # hp + 1
        BY <1>9, <2>0, <4>1, <4>3
      <4> QED
        BY <4>2, <4>3
    <3>3. /\ i <= hp - 1 <=> i <= hp
          /\ i > hp - 1 + 1 => i > hp + 1
      BY <1>1, <2>0, <2>4
    <3>4. Upto(next, hp - 1, i) = Upto(h, hp, i)
      BY <3>1, <3>3 DEF Upto
    <3> QED
      BY <2>1, <3>1, <3>2, <3>3, <3>4 DEF LevelOK
  <2> QED
    BY <2>2, <2>3, <2>4
<1>13. hp - 1 \in 1 .. Len(next) /\ Len(next) \in Nat
  BY <1>2, <1>8, <1>10
<1>14. Walk(t, flags, next, hp - 1)
  BY <1>2, <1>8, <1>11, <1>12, <1>13 DEF Walk
<1> QED
  BY <1>6, <1>8, <1>9, <1>10, <1>14 DEF GoneUp, gone, up

=============================================================================
