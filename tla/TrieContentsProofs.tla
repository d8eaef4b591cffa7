------------------------- MODULE TrieContentsProofs -------------------------
(***************************************************************************)
(* What holds of the builder, and what a finished trie stands for, for     *)
(* every keyset, setting, radix and hash: LOUDS is balanced and numbers    *)
(* the nodes, the ids are dense and tell the keys apart, every key can be  *)
(* restored from its id, and siblings are in the order that was asked for; *)
(* and the cache tells the truth if the hash keeps labels apart.           *)
(*                                                                         *)
(* The first part is Inv, which is inductive.  Beyond what TypeOK,         *)
(* Balanced and LinksFit say, it knows that a range's keys are long enough *)
(* for its position, that every group has a key, that the trie under       *)
(* construction has one link node for each key collected for the next      *)
(* level, and that the trie on top of the stack has one for each key of    *)
(* the level being built: without those the three invariants are not       *)
(* preserved.  There is one lemma per action.  The numbering of the nodes  *)
(* (Numbered) is a second invariant on top.                                *)
(*                                                                         *)
(* Five more follow, each on top of the ones before: PlacedInv (where each *)
(* key waits or has its terminal), NamedInv (which texts the terminals     *)
(* name), StoredInv and SpelledInv (what links and tail spell), CachedInv  *)
(* and SiblingsInv.                                                        *)
(***************************************************************************)
EXTENDS TrieContents, FiniteSetTheorems, SequenceTheorems, TLAPS

-----------------------------------------------------------------------------
(* Counting and selecting bits, whatever the vector.                      *)

\* A rank is a number, and the two ranks of a position add up to it.
LEMMA RankType ==
  ASSUME NEW bits \in Seq(BOOLEAN), NEW i \in 0 .. Len(bits)
  PROVE  /\ Rank1(bits, i) \in Nat
         /\ Rank0(bits, i) \in Nat
         /\ Rank1(bits, i) + Rank0(bits, i) = i
<1> DEFINE all == 1 .. i
           ones == {j \in all : bits[j]}
           zeros == {j \in all : ~bits[j]}
<1>1. Len(bits) \in Nat /\ i \in Nat
  BY LenProperties
<1>2. IsFiniteSet(all) /\ Cardinality(all) = i
  BY <1>1, FS_Interval
<1>3a. ones \in SUBSET all /\ zeros \in SUBSET all
  OBVIOUS
<1>4. ones \cup zeros = all /\ ones \cap zeros = {}
  OBVIOUS
<1>8. Rank1(bits, i) = Cardinality(ones) /\ Rank0(bits, i) = Cardinality(zeros)
  BY DEF Rank1, Rank0
<1> HIDE DEF all, ones, zeros
<1>3. IsFiniteSet(ones) /\ IsFiniteSet(zeros)
  BY <1>2, <1>3a, FS_Subset
<1>5. Cardinality(ones \cap zeros) = 0
  BY <1>4, FS_EmptySet
<1>6. Cardinality(ones) \in Nat /\ Cardinality(zeros) \in Nat
  BY <1>3, FS_CardinalityType
<1>7. Cardinality(all) = Cardinality(ones) + Cardinality(zeros)
  <2>1. Cardinality(ones \cup zeros) =
          Cardinality(ones) + Cardinality(zeros) - Cardinality(ones \cap zeros)
    BY <1>3, FS_Union
  <2>2. Cardinality(ones \cup zeros) = Cardinality(all)
    BY <1>4
  <2> QED
    BY <1>5, <1>6, <2>1, <2>2
<1> QED
  BY <1>2, <1>6, <1>7, <1>8

\* Appending a bit leaves the ranks of the positions before it as they were.
LEMMA RankAppendBefore ==
  ASSUME NEW bits \in Seq(BOOLEAN), NEW b \in BOOLEAN, NEW i \in 0 .. Len(bits)
  PROVE  /\ Rank1(Append(bits, b), i) = Rank1(bits, i)
         /\ Rank0(Append(bits, b), i) = Rank0(bits, i)
<1>1. \A j \in 1 .. Len(bits) : Append(bits, b)[j] = bits[j]
  BY AppendProperties
<1>2. Len(bits) \in Nat
  BY LenProperties
<1>3. 1 .. i \subseteq 1 .. Len(bits)
  BY <1>2
<1>4. /\ {j \in 1 .. i : Append(bits, b)[j]} = {j \in 1 .. i : bits[j]}
      /\ {j \in 1 .. i : ~Append(bits, b)[j]} = {j \in 1 .. i : ~bits[j]}
  BY <1>1, <1>3
<1> QED
  BY <1>4 DEF Rank1, Rank0

\* The rank of a position one further on counts the bit passed.
LEMMA RankStep ==
  ASSUME NEW bits \in Seq(BOOLEAN), NEW i \in 0 .. Len(bits) - 1
  PROVE  /\ Rank1(bits, i + 1) = Rank1(bits, i) + (IF Bit(bits, i) THEN 1 ELSE 0)
         /\ Rank0(bits, i + 1) = Rank0(bits, i) + (IF Bit(bits, i) THEN 0 ELSE 1)
<1> DEFINE ones == {j \in 1 .. i : bits[j]}
           zeros == {j \in 1 .. i : ~bits[j]}
<1>1. Len(bits) \in Nat /\ i \in Nat /\ i + 1 \in 1 .. Len(bits)
  BY LenProperties
<1>2. bits[i + 1] \in BOOLEAN
  BY <1>1, ElementOfSeq
<1>3. IsFiniteSet(ones) /\ IsFiniteSet(zeros)
  <2>1. IsFiniteSet(1 .. i)
    BY <1>1, FS_Interval
  <2>2. ones \in SUBSET (1 .. i) /\ zeros \in SUBSET (1 .. i)
    OBVIOUS
  <2> HIDE DEF ones, zeros
  <2> QED
    BY <2>1, <2>2, FS_Subset
<1>4. /\ Cardinality(ones \cup {i + 1}) = Cardinality(ones) + 1
      /\ Cardinality(zeros \cup {i + 1}) = Cardinality(zeros) + 1
  <2>1. i + 1 \notin ones /\ i + 1 \notin zeros
    BY <1>1
  <2> HIDE DEF ones, zeros
  <2> QED
    BY <1>3, <2>1, FS_AddElement
<1>5. Cardinality(ones) \in Nat /\ Cardinality(zeros) \in Nat
  BY <1>3, FS_CardinalityType
<1>6. 1 .. i + 1 = (1 .. i) \cup {i + 1}
  BY <1>1
<1>7. CASE bits[i + 1]
  <2>1. {j \in 1 .. i + 1 : bits[j]} = ones \cup {i + 1}
    BY <1>6, <1>7
  <2>2. {j \in 1 .. i + 1 : ~bits[j]} = zeros
    BY <1>6, <1>7
  <2>3. Rank1(bits, i + 1) = Cardinality(ones \cup {i + 1}) /\ Rank1(bits, i) = Cardinality(ones)
    BY <2>1 DEF Rank1
  <2>4. Rank0(bits, i + 1) = Cardinality(zeros) /\ Rank0(bits, i) = Cardinality(zeros)
    BY <2>2 DEF Rank0
  <2> HIDE DEF ones, zeros
  <2> QED
    BY <1>4, <1>5, <1>7, <2>3, <2>4 DEF Bit
<1>8. CASE ~bits[i + 1]
  <2>1. {j \in 1 .. i + 1 : bits[j]} = ones
    BY <1>6, <1>8
  <2>2. {j \in 1 .. i + 1 : ~bits[j]} = zeros \cup {i + 1}
    BY <1>6, <1>8
  <2>3. Rank1(bits, i + 1) = Cardinality(ones) /\ Rank1(bits, i) = Cardinality(ones)
    BY <2>1 DEF Rank1
  <2>4. Rank0(bits, i + 1) = Cardinality(zeros \cup {i + 1}) /\ Rank0(bits, i) = Cardinality(zeros)
    BY <2>2 DEF Rank0
  <2> HIDE DEF ones, zeros
  <2> QED
    BY <1>4, <1>5, <1>8, <2>3, <2>4 DEF Bit
<1> QED
  BY <1>2, <1>7, <1>8

\* Appending a 1 adds one to the number of 1s, appending a 0 to that of 0s.
LEMMA CountAppend ==
  ASSUME NEW bits \in Seq(BOOLEAN), NEW b \in BOOLEAN
  PROVE  /\ Append(bits, b) \in Seq(BOOLEAN)
         /\ Len(Append(bits, b)) = Len(bits) + 1
         /\ Ones(Append(bits, b)) = Ones(bits) + (IF b THEN 1 ELSE 0)
         /\ Zeros(Append(bits, b)) = Zeros(bits) + (IF b THEN 0 ELSE 1)
<1> DEFINE more == Append(bits, b)
<1>1. /\ more \in Seq(BOOLEAN)
      /\ Len(more) = Len(bits) + 1
      /\ more[Len(bits) + 1] = b
  BY AppendProperties
<1>2. Len(bits) \in Nat
  BY LenProperties
<1>3. Len(bits) \in 0 .. Len(more) - 1
  BY <1>1, <1>2
<1>4. /\ Rank1(more, Len(bits) + 1) =
           Rank1(more, Len(bits)) + (IF Bit(more, Len(bits)) THEN 1 ELSE 0)
      /\ Rank0(more, Len(bits) + 1) =
           Rank0(more, Len(bits)) + (IF Bit(more, Len(bits)) THEN 0 ELSE 1)
  BY <1>1, <1>3, RankStep
<1>5. /\ Rank1(more, Len(bits)) = Ones(bits)
      /\ Rank0(more, Len(bits)) = Zeros(bits)
  BY <1>2, RankAppendBefore DEF Ones, Zeros
<1>6. Bit(more, Len(bits)) = b
  BY <1>1 DEF Bit
<1> QED
  BY <1>1, <1>4, <1>5, <1>6 DEF Ones, Zeros

\* A rank never exceeds the number of bits of its kind.
LEMMA RankBound ==
  ASSUME NEW bits \in Seq(BOOLEAN), NEW i \in 0 .. Len(bits)
  PROVE  Rank1(bits, i) <= Ones(bits)
<1>1. Len(bits) \in Nat /\ i \in Nat
  BY LenProperties
<1> DEFINE all == {j \in 1 .. Len(bits) : bits[j]}
<1> DEFINE some == {j \in 1 .. i : bits[j]}
<1>2. IsFiniteSet(1 .. Len(bits))
  BY <1>1, FS_Interval
<1>3. all \in SUBSET (1 .. Len(bits)) /\ some \in SUBSET all
  BY <1>1
<1>4. Rank1(bits, i) = Cardinality(some) /\ Ones(bits) = Cardinality(all)
  BY DEF Rank1, Ones
<1> HIDE DEF all, some
<1>5. IsFiniteSet(all)
  BY <1>2, <1>3, FS_Subset
<1> QED
  BY <1>3, <1>4, <1>5, FS_Subset

\* No two 1s have the same rank, and the rank of a 1 is less than the number
\* of 1s: it is the number of some node.
LEMMA RankOfOne ==
  ASSUME NEW bits \in Seq(BOOLEAN), NEW i \in 0 .. Len(bits) - 1, Bit(bits, i)
  PROVE  /\ Rank1(bits, i) < Ones(bits)
<1>1. Len(bits) \in Nat /\ i \in Nat /\ i + 1 \in 0 .. Len(bits)
  BY LenProperties
<1>2. Rank1(bits, i + 1) = Rank1(bits, i) + 1
  BY RankStep
<1>3. Rank1(bits, i) \in Nat /\ Ones(bits) \in Nat
  BY <1>1, RankType DEF Ones
<1>4. Rank1(bits, i + 1) <= Ones(bits)
  BY <1>1, RankBound
<1> QED
  BY <1>2, <1>3, <1>4

\* Appending a 0, without the arithmetic.
LEMMA CountAppendZero ==
  ASSUME NEW bits \in Seq(BOOLEAN)
  PROVE  /\ Append(bits, FALSE) \in Seq(BOOLEAN)
         /\ Len(Append(bits, FALSE)) = Len(bits) + 1
         /\ Ones(Append(bits, FALSE)) = Ones(bits)
         /\ Zeros(Append(bits, FALSE)) = Zeros(bits) + 1
<1>1. Ones(bits) \in Nat
  BY LenProperties, RankType DEF Ones
<1>2. Ones(Append(bits, FALSE)) = Ones(bits) + 0
  BY CountAppend
<1>3. Ones(Append(bits, FALSE)) = Ones(bits)
  <2>1. Ones(bits) + 0 = Ones(bits)
    BY <1>1
  <2> QED
    BY <1>2, <2>1, Zenon
<1> QED
  BY <1>3, CountAppend

\* Appending a 1, without the arithmetic.
LEMMA CountAppendOne ==
  ASSUME NEW bits \in Seq(BOOLEAN)
  PROVE  /\ Append(bits, TRUE) \in Seq(BOOLEAN)
         /\ Len(Append(bits, TRUE)) = Len(bits) + 1
         /\ Ones(Append(bits, TRUE)) = Ones(bits) + 1
         /\ Zeros(Append(bits, TRUE)) = Zeros(bits)
<1>1. Zeros(bits) \in Nat
  BY LenProperties, RankType DEF Zeros
<1>2. Zeros(Append(bits, TRUE)) = Zeros(bits) + 0
  BY CountAppend
<1>3. Zeros(Append(bits, TRUE)) = Zeros(bits)
  <2>1. Zeros(bits) + 0 = Zeros(bits)
    BY <1>1
  <2> QED
    BY <1>2, <2>1, Zenon
<1> QED
  BY <1>3, CountAppend

\* A set of numbers has a least one: all there is to induction over numbers,
\* stated about a set so that the provers can use it.
LEMMA LeastNumber ==
  ASSUME NEW S \in SUBSET Nat, S # {}
  PROVE  \E m \in S : \A k \in S : m <= k
<1> DEFINE less == {pair \in Nat \X Nat : pair[1] < pair[2]}
<1>1. IsWellFoundedOn(OpToRel(<, Nat), Nat)
  BY NatLessThanWellFounded
<1>2. OpToRel(<, Nat) = less
  BY DEF OpToRel
<1>3. IsWellFoundedOn(less, Nat)
  BY <1>1, <1>2
<1>4. \A x, y \in Nat : <<x, y>> \in less <=> x < y
  OBVIOUS
<1> HIDE DEF less
<1>5. PICK m \in S : \A y \in S : ~(<<y, m>> \in less)
  <2>1. \E m \in S : \A y \in S : ~(<<y, m>> \in less)
    BY <1>3, WFMin
  <2> QED
    BY <2>1
<1>6. \A y \in S : ~(y < m)
  BY <1>4, <1>5
<1> QED
  BY <1>6

\* Induction over numbers, from LeastNumber.
LEMMA Induction ==
  ASSUME NEW S, 0 \in S, \A n \in Nat : n \in S => n + 1 \in S
  PROVE  \A n \in Nat : n \in S
<1> SUFFICES ASSUME NEW n \in Nat, n \notin S PROVE FALSE
  OBVIOUS
<1> DEFINE T == Nat \ S
<1>1. T \in SUBSET Nat /\ T # {}
  OBVIOUS
<1>2. PICK m \in T : \A k \in T : m <= k
  BY <1>1, LeastNumber
<1>3. m # 0 /\ m - 1 \in Nat
  OBVIOUS
<1>4. m - 1 \notin T
  BY <1>2, <1>3
<1> QED
  BY <1>3, <1>4

\* Further on, a rank is never less.
LEMMA RankMonotone ==
  ASSUME NEW bits \in Seq(BOOLEAN), NEW i \in 0 .. Len(bits),
         NEW j \in i .. Len(bits)
  PROVE  /\ Rank1(bits, i) <= Rank1(bits, j)
         /\ Rank0(bits, i) <= Rank0(bits, j)
<1>1. Len(bits) \in Nat /\ i \in Nat /\ j \in Nat /\ i <= j
  BY LenProperties
<1> DEFINE ones(n) == {x \in 1 .. n : bits[x]}
           zeros(n) == {x \in 1 .. n : ~bits[x]}
<1>2. IsFiniteSet(1 .. j)
  BY <1>1, FS_Interval
<1>3. /\ ones(j) \in SUBSET (1 .. j) /\ ones(i) \in SUBSET ones(j)
      /\ zeros(j) \in SUBSET (1 .. j) /\ zeros(i) \in SUBSET zeros(j)
  BY <1>1
<1>4. /\ Rank1(bits, i) = Cardinality(ones(i)) /\ Rank1(bits, j) = Cardinality(ones(j))
      /\ Rank0(bits, i) = Cardinality(zeros(i)) /\ Rank0(bits, j) = Cardinality(zeros(j))
  BY DEF Rank1, Rank0
<1> HIDE DEF ones, zeros
<1>5. IsFiniteSet(ones(j)) /\ IsFiniteSet(zeros(j))
  BY <1>2, <1>3, FS_Subset
<1>6. /\ Cardinality(ones(i)) <= Cardinality(ones(j))
      /\ Cardinality(zeros(i)) <= Cardinality(zeros(j))
  BY <1>3, <1>5, FS_Subset
<1> QED
  BY <1>4, <1>6

\* The rank of the first position is 0.
LEMMA RankOfZero ==
  ASSUME NEW bits
  PROVE  Rank1(bits, 0) = 0 /\ Rank0(bits, 0) = 0
<1>1. {j \in 1 .. 0 : bits[j]} = {} /\ {j \in 1 .. 0 : ~bits[j]} = {}
  OBVIOUS
<1> QED
  BY <1>1, FS_EmptySet DEF Rank1, Rank0

\* The 0s in front of two positions are as many if and only if there are only
\* 1s between them.
LEMMA RunOfOnes ==
  ASSUME NEW bits \in Seq(BOOLEAN), NEW i \in 0 .. Len(bits),
         NEW j \in i .. Len(bits)
  PROVE  Rank0(bits, i) = Rank0(bits, j) <=> \A p \in i .. j - 1 : Bit(bits, p)
<1>1. Len(bits) \in Nat /\ i \in Nat /\ j \in Nat /\ i <= j
  BY LenProperties
<1>2. ASSUME \A p \in i .. j - 1 : Bit(bits, p)
      PROVE  Rank0(bits, i) = Rank0(bits, j)
  <2>1. ASSUME NEW x \in 1 .. j, ~bits[x] PROVE x \in 1 .. i
    <3>1. CASE x > i
      <4>1. x - 1 \in i .. j - 1 /\ x - 1 + 1 = x
        BY <1>1, <3>1
      <4>2. bits[x - 1 + 1]
        BY <1>2, <4>1 DEF Bit
      <4> QED
        BY <2>1, <4>1, <4>2
    <3> QED
      BY <1>1, <3>1
  <2>2. 1 .. i \subseteq 1 .. j
    BY <1>1
  <2>3. {x \in 1 .. j : ~bits[x]} = {x \in 1 .. i : ~bits[x]}
    BY <2>1, <2>2
  <2> QED
    BY <2>3 DEF Rank0
<1>3. ASSUME Rank0(bits, i) = Rank0(bits, j), NEW p \in i .. j - 1, ~Bit(bits, p)
      PROVE  FALSE
  <2>1. p \in 0 .. Len(bits) - 1 /\ p \in 0 .. Len(bits)
        /\ p \in i .. Len(bits) /\ p + 1 \in 0 .. Len(bits) /\ j \in p + 1 .. Len(bits)
        /\ j \in 0 .. Len(bits)
    BY <1>1
  <2>2. Rank0(bits, p + 1) = Rank0(bits, p) + 1
    BY <1>3, <2>1, RankStep
  <2>3. Rank0(bits, i) <= Rank0(bits, p) /\ Rank0(bits, p + 1) <= Rank0(bits, j)
    BY <2>1, RankMonotone
  <2>4. Rank0(bits, p) \in Nat /\ Rank0(bits, j) \in Nat
    BY <2>1, RankType
  <2> QED
    BY <1>3, <2>2, <2>3, <2>4
<1> QED
  BY <1>2, <1>3

\* A 1 is found again from its rank, and a 0 from its.
LEMMA SelectOfRank ==
  ASSUME NEW bits \in Seq(BOOLEAN), NEW i \in 0 .. Len(bits) - 1
  PROVE  /\ Bit(bits, i) => Select1(bits, Rank1(bits, i)) = i
         /\ ~Bit(bits, i) => Select0(bits, Rank0(bits, i)) = i
<1>1. Len(bits) \in Nat
  BY LenProperties
<1>2. ASSUME NEW p \in 0 .. Len(bits) - 1, NEW q \in 0 .. Len(bits) - 1, p < q
      PROVE  /\ Bit(bits, p) => Rank1(bits, p) < Rank1(bits, q)
             /\ ~Bit(bits, p) => Rank0(bits, p) < Rank0(bits, q)
  <2>1. p \in 0 .. Len(bits) /\ p + 1 \in 0 .. Len(bits) /\ q \in p + 1 .. Len(bits)
        /\ q \in 0 .. Len(bits)
    BY <1>1, <1>2
  <2>2. /\ Rank1(bits, p + 1) = Rank1(bits, p) + (IF Bit(bits, p) THEN 1 ELSE 0)
        /\ Rank0(bits, p + 1) = Rank0(bits, p) + (IF Bit(bits, p) THEN 0 ELSE 1)
    BY RankStep
  <2>3. Rank1(bits, p + 1) <= Rank1(bits, q) /\ Rank0(bits, p + 1) <= Rank0(bits, q)
    BY <2>1, RankMonotone
  <2>4. /\ Rank1(bits, p) \in Nat /\ Rank0(bits, p) \in Nat
        /\ Rank1(bits, q) \in Nat /\ Rank0(bits, q) \in Nat
    BY <2>1, RankType
  <2> QED
    BY <2>2, <2>3, <2>4
<1>3. ASSUME NEW p \in 0 .. Len(bits) - 1, NEW q \in 0 .. Len(bits) - 1, p # q
      PROVE  /\ Bit(bits, p) /\ Bit(bits, q) => Rank1(bits, p) # Rank1(bits, q)
             /\ ~Bit(bits, p) /\ ~Bit(bits, q) => Rank0(bits, p) # Rank0(bits, q)
  <2>1. p < q \/ q < p
    BY <1>3
  <2>2. p \in 0 .. Len(bits) /\ q \in 0 .. Len(bits)
    BY <1>1
  <2>3. /\ Rank1(bits, p) \in Nat /\ Rank0(bits, p) \in Nat
        /\ Rank1(bits, q) \in Nat /\ Rank0(bits, q) \in Nat
    BY <2>2, RankType
  <2> QED
    BY <1>2, <2>1, <2>3
<1>4. ASSUME Bit(bits, i) PROVE Select1(bits, Rank1(bits, i)) = i
  BY <1>3, <1>4 DEF Select1
<1>5. ASSUME ~Bit(bits, i) PROVE Select0(bits, Rank0(bits, i)) = i
  BY <1>3, <1>5 DEF Select0
<1> QED
  BY <1>4, <1>5

\* Every number below the number of 0s is the rank of a 0, which select0 finds.
LEMMA Select0Finds ==
  ASSUME NEW bits \in Seq(BOOLEAN), NEW k \in 0 .. Zeros(bits) - 1
  PROVE  /\ Select0(bits, k) \in 0 .. Len(bits) - 1
         /\ ~Bit(bits, Select0(bits, k))
         /\ Rank0(bits, Select0(bits, k)) = k
<1>1. Len(bits) \in Nat /\ \A i \in 0 .. Len(bits) : Rank0(bits, i) \in Nat
  BY LenProperties, RankType
<1> DEFINE passed == {i \in 0 .. Len(bits) : Rank0(bits, i) > k}
<1>2. Len(bits) \in passed /\ passed \in SUBSET Nat
  BY <1>1 DEF Zeros
<1>3. PICK m \in passed : \A i \in passed : m <= i
  BY <1>2, LeastNumber
<1>4. m # 0
  BY RankOfZero
<1>5. m - 1 \in 0 .. Len(bits) - 1 /\ m - 1 \in 0 .. Len(bits) /\ m - 1 + 1 = m
  BY <1>1, <1>4
<1>6. m - 1 \notin passed
  BY <1>1, <1>3, <1>5
<1>7. Rank0(bits, m) = Rank0(bits, m - 1) + (IF Bit(bits, m - 1) THEN 0 ELSE 1)
  BY <1>5, RankStep
<1>8. Rank0(bits, m) > k /\ Rank0(bits, m - 1) <= k
  BY <1>1, <1>5, <1>6
<1>9. Rank0(bits, m) \in Nat /\ Rank0(bits, m - 1) \in Nat
  BY <1>1, <1>5
<1> HIDE DEF passed
<1>10. ~Bit(bits, m - 1) /\ Rank0(bits, m - 1) = k
  BY <1>7, <1>8, <1>9
<1> QED
  BY <1>5, <1>10 DEF Select0

\* Every number below the number of 1s is the rank of a 1, which select1 finds.
LEMMA Select1Finds ==
  ASSUME NEW bits \in Seq(BOOLEAN), NEW k \in 0 .. Ones(bits) - 1
  PROVE  /\ Select1(bits, k) \in 0 .. Len(bits) - 1
         /\ Bit(bits, Select1(bits, k))
         /\ Rank1(bits, Select1(bits, k)) = k
<1>1. Len(bits) \in Nat /\ \A i \in 0 .. Len(bits) : Rank1(bits, i) \in Nat
  BY LenProperties, RankType
<1> DEFINE passed == {i \in 0 .. Len(bits) : Rank1(bits, i) > k}
<1>2. Len(bits) \in passed /\ passed \in SUBSET Nat
  BY <1>1 DEF Ones
<1>3. PICK m \in passed : \A i \in passed : m <= i
  BY <1>2, LeastNumber
<1>4. m # 0
  BY RankOfZero
<1>5. m - 1 \in 0 .. Len(bits) - 1 /\ m - 1 \in 0 .. Len(bits) /\ m - 1 + 1 = m
  BY <1>1, <1>4
<1>6. m - 1 \notin passed
  BY <1>1, <1>3, <1>5
<1>7. Rank1(bits, m) = Rank1(bits, m - 1) + (IF Bit(bits, m - 1) THEN 1 ELSE 0)
  BY <1>5, RankStep
<1>8. Rank1(bits, m) > k /\ Rank1(bits, m - 1) <= k
  BY <1>1, <1>5, <1>6
<1>9. Rank1(bits, m) \in Nat /\ Rank1(bits, m - 1) \in Nat
  BY <1>1, <1>5
<1> HIDE DEF passed
<1>10. Bit(bits, m - 1) /\ Rank1(bits, m - 1) = k
  BY <1>7, <1>8, <1>9
<1> QED
  BY <1>5, <1>10 DEF Select1

-----------------------------------------------------------------------------
(* The builder.                                                            *)

\* A node has been taken from the queue and is being given its children.
Opened == phase \in {"group", "children"}

ControlOK ==
  /\ keyset \in Keysets /\ setting \in Settings
  /\ phase \in {"begin", "pop", "group", "children", "tail", "link", "done"}
  /\ level \in Nat \ {0}

KeysOK ==
  /\ keys \in Seq(KeyType)
  /\ nextKeys \in Seq(KeyType)

\* Every key of a range in the queue reaches the position of the range.
QueueOK ==
  Building =>
    /\ queue \in Seq(RangeType)
    /\ \A i \in DOMAIN queue : \A k \in queue[i].keys :
         queue[i].pos <= Len(keys[k].text)

\* The keys that are left of the range go on beyond its position.
NodeOK ==
  Opened =>
    /\ node \in Nat /\ pos \in Nat
    /\ rest \subseteq DOMAIN keys
    /\ \A k \in rest : pos < Len(keys[k].text)

\* Every label found in the range has a key.
GroupsOK ==
  Opened =>
    /\ DOMAIN groups \subseteq Byte
    /\ \A b \in DOMAIN groups :
         /\ groups[b] \in [keys : SUBSET DOMAIN keys, weight : Nat]
         /\ groups[b].keys # {}

CurrentOK ==
  BitsOK([louds |-> louds, linkFlags |-> linkFlags, bases |-> bases,
          parentOf |-> parentOf, numL1 |-> numL1])

\* The vectors of the trie under construction and the queue add up.
ShapeOK ==
  /\ Building =>
       /\ Ones(louds) = Len(linkFlags)
       /\ Len(bases) = Len(linkFlags)
       /\ Len(parentOf) + 1 = Len(linkFlags)
       /\ Ones(linkFlags) = Len(nextKeys)
       /\ Zeros(louds) \in Nat \ {0}
  /\ phase = "pop" => Zeros(louds) + Len(queue) = Len(linkFlags) + 1
  /\ Opened =>
       /\ Zeros(louds) + Len(queue) = Len(linkFlags)
       /\ Zeros(louds) = node + 1

\* While the tail is built, every entry has an offset.
TailOK ==
  /\ tail \in [buf : Seq(Byte), ends : Seq(BOOLEAN), mode : {"text", "binary"}]
  /\ phase = "begin" \/ Building => last = 0
  /\ phase = "tail" =>
       /\ last \in DOMAIN keys \cup {0}
       /\ entries \subseteq DOMAIN keys
       /\ links \in Seq(Nat)
       /\ Len(links) = Len(keys)

\* A trie that has been closed: its vectors add up.
WellFormed(t) ==
  /\ BitsOK(t)
  /\ Ones(t.louds) = Len(t.linkFlags)
  /\ Zeros(t.louds) = Len(t.linkFlags) + 2
  /\ Len(t.bases) = Len(t.linkFlags)
  /\ Len(t.parentOf) + 1 = Len(t.linkFlags)

\* Of two tries on the stack, the upper one answers every link of the lower.
StackOK ==
  /\ DOMAIN stack = 1 .. Len(stack) /\ Len(stack) \in Nat
  /\ \A i \in DOMAIN stack :
       WellFormed(stack[i]) /\ stack[i].terminals \in Seq(Nat)
  /\ \A i \in 1 .. Len(stack) - 1 :
       Ones(stack[i].linkFlags) = Len(stack[i + 1].terminals)

\* The level being built, then what it returned, answers every link of the
\* trie on top of the stack.
TopOK ==
  /\ phase \in {"link", "done"} => links \in Seq(Nat)
  /\ stack # <<>> =>
     LET wanted == Ones(stack[Len(stack)].linkFlags)
     IN  /\ phase = "begin" \/ Building \/ phase = "tail" => wanted = Len(keys)
         /\ phase = "link" => wanted = Len(links)

TrieOK ==
  /\ DOMAIN trie = 1 .. Len(trie) /\ Len(trie) \in Nat
  /\ \A i \in DOMAIN trie :
       WellFormed(trie[i]) /\ trie[i].extras \in Seq(Nat)

Inv ==
  /\ ControlOK /\ KeysOK /\ QueueOK /\ NodeOK /\ GroupsOK /\ CurrentOK
  /\ ShapeOK /\ TailOK /\ StackOK /\ TopOK /\ TrieOK

\* The placeholder for the base of a link node is a byte.
LEMMA ZeroIsByte == 0 \in Byte
  BY BaseAssumption DEF Byte

\* A function on 1 .. n is a sequence of length n.
LEMMA SeqFromFunction ==
  ASSUME NEW S, NEW n \in Nat, NEW f \in [1 .. n -> S]
  PROVE  f \in Seq(S) /\ Len(f) = n
  OBVIOUS

\* A step that leaves the vectors alone leaves them well typed.
LEMMA FrameCurrent ==
  ASSUME CurrentOK, UNCHANGED <<louds, linkFlags, bases, parentOf, numL1>>
  PROVE  CurrentOK'
  BY DEF CurrentOK, BitsOK

\* A step outside of the tail loop that leaves the tail alone.
LEMMA FrameTail ==
  ASSUME TailOK, phase # "tail", phase' # "tail", UNCHANGED <<tail, last>>,
         phase' = "begin" \/ Building' => phase = "begin" \/ Building
  PROVE  TailOK'
  BY DEF TailOK

\* A step that leaves the stack alone.
LEMMA FrameStack ==
  ASSUME StackOK, UNCHANGED stack
  PROVE  StackOK'
  BY DEF StackOK, WellFormed, BitsOK

\* A step that leaves the finished tries alone.
LEMMA FrameTrie ==
  ASSUME TrieOK, UNCHANGED trie
  PROVE  TrieOK'
  BY DEF TrieOK, WellFormed, BitsOK

\* OpenNode: the queue is one range shorter, one more node is open; keys only
\* get another word.
LEMMA OpenNodeInv == Inv /\ OpenNode => Inv'
<1> SUFFICES ASSUME Inv, OpenNode PROVE Inv'
  OBVIOUS
<1> USE DEF Inv
<1> DEFINE n == Len(linkFlags) - Len(queue)
           range == Head(queue)
           ended == {k \in range.keys : Len(keys[k].text) = range.pos}
<1>1. /\ queue \in Seq(RangeType) /\ queue # <<>>
      /\ phase = "pop" /\ phase' = "group" /\ Building /\ Building'
      /\ ~Opened /\ Opened'
  BY DEF OpenNode, QueueOK, Building, Opened
<1>2. /\ node' = n /\ pos' = range.pos /\ rest' = range.keys \ ended
      /\ queue' = Tail(queue) /\ groups' = <<>>
      /\ keys' = [k \in DOMAIN keys |->
                   IF k \in ended THEN [keys[k] EXCEPT !.word = n] ELSE keys[k]]
  BY DEF OpenNode, NodeNumber
<1>3. /\ range \in RangeType
      /\ Tail(queue) \in Seq(RangeType)
      /\ Len(Tail(queue)) = Len(queue) - 1
      /\ \A i \in 1 .. Len(Tail(queue)) : Tail(queue)[i] = queue[i + 1]
      /\ Len(queue) \in Nat \ {0}
      /\ range = queue[1]
  BY <1>1, HeadTailProperties, LenProperties, EmptySeq
<1>4. n \in Nat
  <2>1. linkFlags \in Seq(BOOLEAN)
    BY DEF CurrentOK, BitsOK
  <2>2. Len(linkFlags) \in Nat
    BY <2>1, LenProperties
  <2> QED
    BY <1>1, <1>3, <2>2 DEF ShapeOK
<1>5. /\ keys \in Seq(KeyType)
      /\ \A k \in DOMAIN keys : keys[k] \in KeyType
      /\ DOMAIN keys = 1 .. Len(keys)
  BY ElementOfSeq, LenProperties DEF KeysOK
<1>6. /\ DOMAIN keys' = DOMAIN keys
      /\ Len(keys') = Len(keys)
      /\ keys' \in Seq(KeyType)
      /\ \A k \in DOMAIN keys : keys'[k].text = keys[k].text
  <2>1. \A k \in DOMAIN keys : keys'[k] \in KeyType
    BY <1>2, <1>4, <1>5 DEF KeyType
  <2>2. \A k \in DOMAIN keys : keys'[k].text = keys[k].text
    BY <1>2, <1>5 DEF KeyType
  <2>3. Len(keys) \in Nat
    BY <1>5, LenProperties
  <2> HIDE DEF n, range, ended
  <2> QED
    BY <1>2, <1>5, <2>1, <2>2, <2>3
<1>7. UNCHANGED <<keyset, setting, level, louds, linkFlags, bases, cache, numL1,
                  nextKeys, parentOf, tail, entries, last, stack, links, trie>>
  BY DEF OpenNode, inputVars, bitVars, tailVars, linkVars
<1>8. \A k \in range.keys : k \in DOMAIN keys /\ range.pos <= Len(keys[k].text)
  BY <1>1, <1>3 DEF QueueOK, RangeType
<1> HIDE DEF n
<1>9. ControlOK'
  BY <1>1, <1>7 DEF ControlOK
<1>10. KeysOK'
  BY <1>6, <1>7 DEF KeysOK
<1>11. QueueOK'
  <2>1. RangeType' = RangeType
    BY <1>6 DEF RangeType
  <2>2. ASSUME NEW i \in DOMAIN queue', NEW k \in queue'[i].keys
        PROVE  queue'[i].pos <= Len(keys'[k].text)
    <3>1. i \in 1 .. Len(queue')
      BY <1>2, <1>3, LenProperties
    <3>2. queue'[i] = queue[i + 1] /\ i + 1 \in DOMAIN queue
      BY <1>1, <1>2, <1>3, <3>1, LenProperties
    <3>3. queue[i + 1] \in RangeType
      BY <1>1, <3>2, ElementOfSeq, LenProperties
    <3>4. k \in DOMAIN keys
      BY <3>2, <3>3 DEF RangeType
    <3> QED
      BY <1>1, <1>6, <3>2, <3>4 DEF QueueOK
  <2> QED
    BY <1>2, <1>3, <2>1, <2>2 DEF QueueOK
<1>12. NodeOK'
  <2>1. range.pos \in Nat
    BY <1>3 DEF RangeType
  <2>2. rest' \subseteq DOMAIN keys'
    BY <1>2, <1>6, <1>8
  <2>3. ASSUME NEW k \in rest' PROVE pos' < Len(keys'[k].text)
    <3>1. k \in DOMAIN keys /\ range.pos <= Len(keys[k].text)
          /\ Len(keys[k].text) # range.pos
      BY <1>2, <1>8
    <3>2. Len(keys[k].text) \in Nat
      BY <1>5, <3>1, LenProperties DEF KeyType
    <3> QED
      BY <1>2, <1>6, <2>1, <3>1, <3>2
  <2> QED
    BY <1>2, <1>4, <2>1, <2>2, <2>3 DEF NodeOK
<1>13. GroupsOK'
  BY <1>2 DEF GroupsOK
<1>14. CurrentOK'
  BY <1>7, FrameCurrent
<1>15. ShapeOK'
  <2>1. Len(linkFlags) \in Nat
    BY LenProperties DEF CurrentOK, BitsOK
  <2> QED
    BY <1>1, <1>2, <1>3, <1>7, <2>1 DEF ShapeOK, n
<1>16. TailOK'
  BY <1>1, <1>7, FrameTail
<1>17. StackOK'
  BY <1>7, FrameStack
<1>18. TopOK'
  BY <1>1, <1>6, <1>7 DEF TopOK
<1>19. TrieOK'
  BY <1>7, FrameTrie
<1> QED
  BY <1>9, <1>10, <1>11, <1>12, <1>13, <1>14, <1>15, <1>16, <1>17, <1>18, <1>19

\* A step that leaves the queue and the keys alone.
LEMMA FrameQueue ==
  ASSUME QueueOK, Building, UNCHANGED <<keys, queue>>
  PROVE  QueueOK'
  BY DEF QueueOK, RangeType

\* A step that leaves the keys alone.
LEMMA FrameKeys ==
  ASSUME KeysOK, UNCHANGED <<keys, nextKeys>>
  PROVE  KeysOK'
  BY DEF KeysOK

\* What a key is made of.
LEMMA KeyFields ==
  ASSUME KeysOK, NEW k \in DOMAIN keys
  PROVE  /\ keys[k].text \in Seq(Byte)
         /\ Len(keys[k].text) \in Nat
         /\ keys[k].word \in Nat
<1>1. keys[k] \in KeyType
  BY ElementOfSeq, LenProperties DEF KeysOK
<1> QED
  BY <1>1, LenProperties DEF KeyType

\* A label within a key is a byte, whichever way the key is read.
LEMMA LabelIsByte ==
  ASSUME KeysOK, level \in Nat \ {0}, NEW k \in DOMAIN keys, NEW q \in Nat,
         q < Len(keys[k].text)
  PROVE  Label(k, q) \in Byte
<1> DEFINE text == keys[k].text
<1>1. text \in Seq(Byte)
  BY KeyFields
<1>2. Len(text) \in Nat
  BY <1>1, LenProperties
<1>3. q + 1 \in 1 .. Len(text) /\ Len(text) - q \in 1 .. Len(text)
  BY <1>2
<1>4. text[q + 1] \in Byte /\ text[Len(text) - q] \in Byte
  BY <1>1, <1>3, ElementOfSeq
<1> QED
  BY <1>4 DEF Label

\* GroupKey: one more key is in a group, under a label that is a byte.
LEMMA GroupKeyInv == Inv /\ GroupKey => Inv'
<1> SUFFICES ASSUME Inv, GroupKey PROVE Inv'
  OBVIOUS
<1> USE DEF Inv
<1>1. /\ phase = "group" /\ phase' = "group" /\ Building /\ Building'
      /\ Opened /\ Opened'
  BY DEF GroupKey, Building, Opened
<1>2. UNCHANGED <<keyset, setting, level, keys, queue, node, pos, louds,
        linkFlags, bases, cache, numL1, nextKeys, parentOf, tail, entries, last,
        stack, links, trie>>
  BY DEF GroupKey, inputVars, bitVars, tailVars, linkVars
<1> DEFINE before(b) == IF b \in DOMAIN groups THEN groups[b]
                        ELSE [keys |-> {}, weight |-> 0]
           after(k, b) == [keys |-> before(b).keys \cup {k},
                           weight |-> before(b).weight + keys[k].word]
<1>3. PICK k \in rest :
        /\ rest' = rest \ {k}
        /\ groups' = [b \in DOMAIN groups \cup {Label(k, pos)} |->
                       IF b = Label(k, pos) THEN after(k, Label(k, pos))
                       ELSE groups[b]]
  BY DEF GroupKey
<1>4. k \in DOMAIN keys /\ pos \in Nat /\ pos < Len(keys[k].text)
  BY <1>1 DEF NodeOK
<1>5. Label(k, pos) \in Byte
  BY <1>4, LabelIsByte DEF ControlOK
<1>6. keys[k].word \in Nat
  BY <1>4, KeyFields
<1>7. before(Label(k, pos)) \in [keys : SUBSET DOMAIN keys, weight : Nat]
  BY <1>1 DEF GroupsOK
<1> HIDE DEF before
<1>8. /\ after(k, Label(k, pos)) \in [keys : SUBSET DOMAIN keys, weight : Nat]
      /\ after(k, Label(k, pos)).keys # {}
  BY <1>4, <1>6, <1>7
<1> HIDE DEF after
<1>9. GroupsOK'
  BY <1>1, <1>2, <1>3, <1>5, <1>8 DEF GroupsOK
<1>10. NodeOK'
  BY <1>1, <1>2, <1>3 DEF NodeOK
<1>11. ShapeOK'
  BY <1>1, <1>2 DEF ShapeOK
<1>12. ControlOK' /\ KeysOK' /\ QueueOK'
  BY <1>1, <1>2, FrameQueue, FrameKeys DEF ControlOK
<1>13. CurrentOK' /\ TailOK' /\ StackOK' /\ TrieOK'
  BY <1>1, <1>2, FrameCurrent, FrameTail, FrameStack, FrameTrie
<1>14. TopOK'
  BY <1>1, <1>2 DEF TopOK
<1> QED
  BY <1>9, <1>10, <1>11, <1>12, <1>13, <1>14

\* Grouped: the number of different labels is a number, there being finitely
\* many bytes.
LEMMA GroupedInv == Inv /\ Grouped => Inv'
<1> SUFFICES ASSUME Inv, Grouped PROVE Inv'
  OBVIOUS
<1> USE DEF Inv
<1>1. /\ phase = "group" /\ phase' = "children" /\ Building /\ Building'
      /\ Opened /\ Opened'
  BY DEF Grouped, Building, Opened
<1>2. UNCHANGED <<keyset, setting, level, keys, queue, node, pos, rest, groups,
        louds, linkFlags, bases, cache, nextKeys, parentOf, tail, entries, last,
        stack, links, trie>>
  BY DEF Grouped, inputVars, rangeVars, tailVars, linkVars
<1>3. numL1' \in Nat
  <2>1. DOMAIN groups \in SUBSET (0 .. Base - 1)
    BY <1>1 DEF GroupsOK, Byte
  <2>2. Base \in Int /\ Base - 1 \in Int
    BY BaseAssumption
  <2>3. IsFiniteSet(0 .. Base - 1)
    BY <2>2, FS_Interval
  <2>4. IsFiniteSet(DOMAIN groups)
    BY <2>1, <2>3, FS_Subset
  <2>5. Cardinality(DOMAIN groups) \in Nat
    BY <2>4, FS_CardinalityType
  <2> QED
    BY <2>5 DEF Grouped, CurrentOK, BitsOK
<1>4. CurrentOK'
  BY <1>2, <1>3 DEF CurrentOK, BitsOK
<1>5. NodeOK'
  BY <1>1, <1>2 DEF NodeOK
<1>6. GroupsOK'
  BY <1>1, <1>2 DEF GroupsOK
<1>7. ShapeOK'
  BY <1>1, <1>2 DEF ShapeOK
<1>8. ControlOK' /\ KeysOK' /\ QueueOK'
  BY <1>1, <1>2, FrameQueue, FrameKeys DEF ControlOK
<1>9. TailOK' /\ StackOK' /\ TrieOK'
  BY <1>1, <1>2, FrameTail, FrameStack, FrameTrie
<1>10. TopOK'
  BY <1>1, <1>2 DEF TopOK
<1> QED
  BY <1>4, <1>5, <1>6, <1>7, <1>8, <1>9, <1>10

\* CloseNode: one more 0, one open node less.
LEMMA CloseNodeInv == Inv /\ CloseNode => Inv'
<1> SUFFICES ASSUME Inv, CloseNode PROVE Inv'
  OBVIOUS
<1> USE DEF Inv
<1>1. /\ phase = "children" /\ phase' = "pop" /\ Building /\ Building'
      /\ Opened /\ ~Opened'
  BY DEF CloseNode, Building, Opened
<1>2. UNCHANGED <<keyset, setting, level, keys, queue, node, pos, rest, groups,
        linkFlags, bases, cache, numL1, nextKeys, parentOf, tail, entries, last,
        stack, links, trie>>
  BY DEF CloseNode, inputVars, rangeVars, tailVars, linkVars
<1>3. louds \in Seq(BOOLEAN)
  BY DEF CurrentOK, BitsOK
<1>4. /\ louds' \in Seq(BOOLEAN)
      /\ Ones(louds') = Ones(louds)
      /\ Zeros(louds') = Zeros(louds) + 1
  <2>1. louds' = Append(louds, FALSE)
    BY DEF CloseNode
  <2>2. /\ Append(louds, FALSE) \in Seq(BOOLEAN)
        /\ Ones(Append(louds, FALSE)) = Ones(louds)
        /\ Zeros(Append(louds, FALSE)) = Zeros(louds) + 1
    BY <1>3, CountAppendZero
  <2> QED
    BY <2>1, <2>2
<1>5. CurrentOK'
  BY <1>2, <1>4 DEF CurrentOK, BitsOK
<1>6. ShapeOK'
  <2>1. Len(linkFlags) \in Nat
    BY LenProperties DEF CurrentOK, BitsOK
  <2>2. Len(queue) \in Nat
    BY <1>1, LenProperties DEF QueueOK
  <2> QED
    BY <1>1, <1>2, <1>4, <2>1, <2>2 DEF ShapeOK
<1>7. NodeOK' /\ GroupsOK'
  BY <1>1 DEF NodeOK, GroupsOK
<1>8. ControlOK' /\ KeysOK' /\ QueueOK'
  BY <1>1, <1>2, FrameQueue, FrameKeys DEF ControlOK
<1>9. TailOK' /\ StackOK' /\ TrieOK'
  BY <1>1, <1>2, FrameTail, FrameStack, FrameTrie
<1>10. TopOK'
  BY <1>1, <1>2 DEF TopOK
<1> QED
  BY <1>5, <1>6, <1>7, <1>8, <1>9, <1>10

\* A segment of a key is made of bytes.
LEMMA SegmentType ==
  ASSUME KeysOK, NEW k \in DOMAIN keys, NEW from \in Nat, NEW to \in Nat,
         to <= Len(keys[k].text)
  PROVE  Segment(k, from, to) \in Seq(Byte)
<1> DEFINE text == keys[k].text
           len == Len(text)
<1>1. text \in Seq(Byte) /\ len \in Nat
  BY KeyFields
<1>2. \A i \in 1 .. len : text[i] \in Byte
  BY <1>1, ElementOfSeq
<1>3. SubSeq(text, from + 1, to) \in Seq(Byte)
  <2>1. \A i \in from + 1 .. to : text[i] \in Byte
    BY <1>1, <1>2
  <2> QED
    BY <2>1, SubSeqProperties
<1>4. SubSeq(text, len - to + 1, len - from) \in Seq(Byte)
  <2>1. \A i \in len - to + 1 .. len - from : text[i] \in Byte
    BY <1>1, <1>2
  <2>2. len - to + 1 \in Int /\ len - from \in Int
    BY <1>1
  <2> QED
    BY <2>1, <2>2, SubSeqProperties
<1> QED
  BY <1>3, <1>4 DEF Segment

\* AddChild: one more 1, one more node, one more range in the queue, and one
\* more key for the next level if and only if the new node is a link.
LEMMA AddChildInv == Inv /\ AddChild => Inv'
<1> SUFFICES ASSUME Inv, AddChild PROVE Inv'
  OBVIOUS
<1> USE DEF Inv
<1>1. /\ phase = "children" /\ phase' = "children" /\ Building /\ Building'
      /\ Opened /\ Opened'
  BY DEF AddChild, Building, Opened
<1>2. UNCHANGED <<keyset, setting, level, keys, node, pos, rest, numL1, tail,
        entries, last, stack, links, trie>>
  BY DEF AddChild, inputVars, tailVars, linkVars
<1> DEFINE first(b) == CHOOSE k \in groups[b].keys : TRUE
           long(b, end) == [text |-> Segment(first(b), pos, end),
                            word |-> groups[b].weight]
<1>3. PICK b \in DOMAIN groups : \E end \in pos + 1 .. Len(keys[first(b)].text) :
        /\ Shared(groups[b].keys, end)
        /\ queue' = Append(queue, [keys |-> groups[b].keys, pos |-> end])
        /\ \/ /\ bases' = Append(bases, b)
              /\ linkFlags' = Append(linkFlags, FALSE)
              /\ nextKeys' = nextKeys
           \/ /\ bases' = Append(bases, 0)
              /\ linkFlags' = Append(linkFlags, TRUE)
              /\ nextKeys' = Append(nextKeys, long(b, end))
        /\ groups' = [c \in DOMAIN groups \ {b} |-> groups[c]]
  BY DEF AddChild
<1>4. PICK end \in pos + 1 .. Len(keys[first(b)].text) :
        /\ Shared(groups[b].keys, end)
        /\ queue' = Append(queue, [keys |-> groups[b].keys, pos |-> end])
        /\ \/ /\ bases' = Append(bases, b)
              /\ linkFlags' = Append(linkFlags, FALSE)
              /\ nextKeys' = nextKeys
           \/ /\ bases' = Append(bases, 0)
              /\ linkFlags' = Append(linkFlags, TRUE)
              /\ nextKeys' = Append(nextKeys, long(b, end))
        /\ groups' = [c \in DOMAIN groups \ {b} |-> groups[c]]
  BY <1>3
<1>5. louds' = Append(louds, TRUE) /\ parentOf' = Append(parentOf, node)
  BY DEF AddChild
<1>6. /\ b \in Byte
      /\ groups[b].keys \subseteq DOMAIN keys
      /\ groups[b].weight \in Nat
      /\ first(b) \in groups[b].keys
  BY <1>1 DEF GroupsOK
<1>7. pos \in Nat /\ node \in Nat
  BY <1>1 DEF NodeOK
<1>8. first(b) \in DOMAIN keys
  BY <1>6
<1> HIDE DEF first
<1>9. end \in Nat /\ end <= Len(keys[first(b)].text)
  BY <1>7, <1>8, KeyFields
<1>10. long(b, end) \in KeyType
  BY <1>6, <1>7, <1>8, <1>9, SegmentType DEF KeyType
<1> HIDE DEF long
<1>11. /\ louds \in Seq(BOOLEAN) /\ linkFlags \in Seq(BOOLEAN)
       /\ bases \in Seq(Byte) /\ parentOf \in Seq(Nat) /\ numL1 \in Nat
  BY DEF CurrentOK, BitsOK
<1>12. /\ louds' \in Seq(BOOLEAN)
       /\ Ones(louds') = Ones(louds) + 1
       /\ Zeros(louds') = Zeros(louds)
  BY <1>5, <1>11, CountAppendOne
<1>13. /\ bases' \in Seq(Byte)
       /\ Len(bases') = Len(bases) + 1
  <2>1. \A x \in Byte : /\ Append(bases, x) \in Seq(Byte)
                        /\ Len(Append(bases, x)) = Len(bases) + 1
    BY <1>11, AppendProperties
  <2> QED
    BY <1>4, <1>6, <2>1, ZeroIsByte
<1>14. /\ parentOf' \in Seq(Nat)
       /\ Len(parentOf') = Len(parentOf) + 1
  BY <1>5, <1>7, <1>11, AppendProperties
<1>15. /\ nextKeys \in Seq(KeyType)
       /\ nextKeys' \in Seq(KeyType)
  <2>1. nextKeys \in Seq(KeyType)
    BY DEF KeysOK
  <2>2. Append(nextKeys, long(b, end)) \in Seq(KeyType)
    BY <1>10, <2>1, AppendProperties
  <2> QED
    BY <1>4, <2>1, <2>2
<1>16. /\ linkFlags' \in Seq(BOOLEAN)
       /\ Len(linkFlags') = Len(linkFlags) + 1
       /\ Ones(linkFlags') = Len(nextKeys')
  <2>1. Ones(linkFlags) = Len(nextKeys)
    BY <1>1 DEF ShapeOK
  <2>2. CASE linkFlags' = Append(linkFlags, FALSE) /\ nextKeys' = nextKeys
    BY <1>11, <2>1, <2>2, CountAppendZero
  <2>3. CASE /\ linkFlags' = Append(linkFlags, TRUE)
             /\ nextKeys' = Append(nextKeys, long(b, end))
    <3>1. Len(nextKeys') = Len(nextKeys) + 1
      BY <1>10, <1>15, <2>3, AppendProperties
    <3> QED
      BY <1>11, <2>1, <2>3, <3>1, CountAppendOne
  <2> QED
    BY <1>4, <2>2, <2>3
<1>17. CurrentOK'
  BY <1>2, <1>11, <1>12, <1>13, <1>14, <1>16 DEF CurrentOK, BitsOK
<1>18. KeysOK'
  BY <1>2, <1>15 DEF KeysOK
<1>19. [keys |-> groups[b].keys, pos |-> end] \in RangeType
  BY <1>6, <1>9 DEF RangeType
<1>20. /\ queue' \in Seq(RangeType)
       /\ Len(queue') = Len(queue) + 1
       /\ \A i \in 1 .. Len(queue) : queue'[i] = queue[i]
       /\ queue'[Len(queue) + 1] = [keys |-> groups[b].keys, pos |-> end]
       /\ queue \in Seq(RangeType) /\ Len(queue) \in Nat
  BY <1>1, <1>4, <1>19, AppendProperties, LenProperties DEF QueueOK
<1>21. QueueOK'
  <2>1. RangeType' = RangeType
    BY <1>2 DEF RangeType
  <2>2. ASSUME NEW i \in DOMAIN queue', NEW k \in queue'[i].keys
        PROVE  queue'[i].pos <= Len(keys'[k].text)
    <3>1. i \in 1 .. Len(queue) + 1
      BY <1>20, LenProperties
    <3>2. CASE i \in 1 .. Len(queue)
      <4>1. i \in DOMAIN queue /\ queue'[i] = queue[i]
        BY <1>20, <3>2, LenProperties
      <4> QED
        BY <1>1, <1>2, <4>1 DEF QueueOK
    <3>3. CASE i = Len(queue) + 1
      BY <1>2, <1>4, <1>20, <3>3 DEF Shared
    <3> QED
      BY <1>20, <3>1, <3>2, <3>3
  <2> QED
    BY <1>20, <2>1, <2>2 DEF QueueOK
<1>22. ShapeOK'
  <2>1. Len(linkFlags) \in Nat /\ Len(bases) \in Nat /\ Len(parentOf) \in Nat
    BY <1>11, LenProperties
  <2>2. /\ Ones(louds) = Len(linkFlags)
        /\ Len(bases) = Len(linkFlags)
        /\ Len(parentOf) + 1 = Len(linkFlags)
        /\ Zeros(louds) \in Nat \ {0}
        /\ Zeros(louds) + Len(queue) = Len(linkFlags)
        /\ Zeros(louds) = node + 1
    BY <1>1 DEF ShapeOK
  <2>3. /\ Ones(louds') = Len(linkFlags')
        /\ Len(bases') = Len(linkFlags')
        /\ Len(parentOf') + 1 = Len(linkFlags')
    BY <1>12, <1>13, <1>14, <1>16, <2>1, <2>2
  <2>4. /\ Zeros(louds') \in Nat \ {0}
        /\ Zeros(louds') + Len(queue') = Len(linkFlags')
        /\ Zeros(louds') = node' + 1
    BY <1>2, <1>12, <1>16, <1>20, <2>1, <2>2
  <2> QED
    BY <1>1, <1>16, <2>3, <2>4 DEF ShapeOK
<1>23. NodeOK'
  BY <1>1, <1>2 DEF NodeOK
<1>24. GroupsOK'
  BY <1>1, <1>2, <1>4 DEF GroupsOK
<1>25. ControlOK'
  BY <1>1, <1>2 DEF ControlOK
<1>26. TailOK' /\ StackOK' /\ TrieOK'
  BY <1>1, <1>2, FrameTail, FrameStack, FrameTrie
<1>27. TopOK'
  BY <1>1, <1>2 DEF TopOK
<1> QED
  BY <1>17, <1>18, <1>21, <1>22, <1>23, <1>24, <1>25, <1>26, <1>27

\* BeginTrie: the super-root and the root add up.
LEMMA BeginTrieInv == Inv /\ BeginTrie => Inv'
<1> SUFFICES ASSUME Inv, BeginTrie PROVE Inv'
  OBVIOUS
<1> USE DEF Inv
<1>1. /\ phase = "begin" /\ phase' = "pop" /\ Building' /\ ~Opened'
  BY DEF BeginTrie, Building, Opened
<1>2. UNCHANGED <<keyset, setting, level, keys, node, pos, rest, groups, tail,
        entries, last, stack, links, trie, terminalFlags, ids>>
  BY DEF BeginTrie, inputVars, rangeVars, tailVars, linkVars
<1>3. /\ louds' = <<TRUE, FALSE>> /\ linkFlags' = <<FALSE>> /\ bases' = <<0>>
      /\ numL1' = 0 /\ nextKeys' = <<>> /\ parentOf' = <<>>
      /\ queue' = <<[keys |-> DOMAIN keys, pos |-> 0]>>
  BY DEF BeginTrie, SuperRoot
<1>4. <<>> \in Seq(BOOLEAN) /\ Ones(<<>>) = 0 /\ Zeros(<<>>) = 0
  <2>1. Len(<<>>) = 0 /\ 1 .. 0 = {}
    OBVIOUS
  <2>2. {j \in 1 .. 0 : <<>>[j]} = {} /\ {j \in 1 .. 0 : ~<<>>[j]} = {}
    BY <2>1
  <2> QED
    BY <2>1, <2>2, FS_EmptySet DEF Ones, Zeros, Rank1, Rank0
<1>5. /\ <<TRUE>> \in Seq(BOOLEAN) /\ Ones(<<TRUE>>) = 1 /\ Zeros(<<TRUE>>) = 0
  <2>1. <<TRUE>> = Append(<<>>, TRUE)
    OBVIOUS
  <2>2. Ones(Append(<<>>, TRUE)) = Ones(<<>>) + 1
    BY <1>4, CountAppendOne
  <2>3. Zeros(Append(<<>>, TRUE)) = Zeros(<<>>)
    BY <1>4, CountAppendOne
  <2> QED
    BY <1>4, <2>1, <2>2, <2>3
<1>6. /\ louds' \in Seq(BOOLEAN) /\ Ones(louds') = 1 /\ Zeros(louds') = 1
  <2>1. <<TRUE, FALSE>> = Append(<<TRUE>>, FALSE)
    <3> DEFINE s == <<TRUE, FALSE>>
               t == Append(<<TRUE>>, FALSE)
    <3>1. s \in Seq(BOOLEAN) /\ Len(s) = 2 /\ s[1] = TRUE /\ s[2] = FALSE
      OBVIOUS
    <3>2. Len(<<TRUE>>) = 1 /\ <<TRUE>>[1] = TRUE
      OBVIOUS
    <3>3. t \in Seq(BOOLEAN) /\ Len(t) = 2 /\ t[1] = TRUE /\ t[2] = FALSE
      BY <1>5, <3>2, AppendProperties
    <3> HIDE DEF s, t
    <3>4. s = t
      BY <3>1, <3>3, SeqEqual
    <3> QED
      BY <3>4 DEF s, t
  <2>2. /\ Ones(Append(<<TRUE>>, FALSE)) = Ones(<<TRUE>>)
        /\ Zeros(Append(<<TRUE>>, FALSE)) = Zeros(<<TRUE>>) + 1
        /\ Append(<<TRUE>>, FALSE) \in Seq(BOOLEAN)
    BY <1>5, CountAppendZero
  <2>3. /\ Ones(<<TRUE, FALSE>>) = 1
        /\ Zeros(<<TRUE, FALSE>>) = 0 + 1
        /\ <<TRUE, FALSE>> \in Seq(BOOLEAN)
    BY <1>5, <2>1, <2>2, Zenon
  <2> QED
    BY <1>3, <2>3
<1>7. /\ linkFlags' \in Seq(BOOLEAN) /\ Ones(linkFlags') = 0
      /\ Len(linkFlags') = 1
  <2>1. linkFlags' = Append(<<>>, FALSE)
    BY <1>3
  <2>2. Ones(Append(<<>>, FALSE)) = Ones(<<>>)
    BY <1>4, CountAppendZero
  <2> QED
    BY <1>3, <1>4, <2>1, <2>2
<1>8. bases' \in Seq(Byte) /\ Len(bases') = 1
  BY <1>3, ZeroIsByte
<1>9. parentOf' \in Seq(Nat) /\ Len(parentOf') = 0
  BY <1>3
<1>10. CurrentOK'
  BY <1>3, <1>6, <1>7, <1>8, <1>9 DEF CurrentOK, BitsOK
<1>11. nextKeys' \in Seq(KeyType) /\ Len(nextKeys') = 0
  BY <1>3
<1>12. KeysOK'
  BY <1>2, <1>11 DEF KeysOK
<1>13. queue' \in Seq(RangeType) /\ Len(queue') = 1 /\ DOMAIN queue' = 1 .. 1
  BY <1>3 DEF RangeType
<1>14. QueueOK'
  <2>1. RangeType' = RangeType
    BY <1>2 DEF RangeType
  <2>2. ASSUME NEW i \in DOMAIN queue', NEW k \in queue'[i].keys
        PROVE  queue'[i].pos <= Len(keys'[k].text)
    <3>1. queue'[i] = [keys |-> DOMAIN keys, pos |-> 0]
      BY <1>3, <1>13
    <3>2. Len(keys[k].text) \in Nat
      BY <3>1, KeyFields
    <3> QED
      BY <1>2, <3>1, <3>2
  <2> QED
    BY <1>13, <2>1, <2>2 DEF QueueOK
<1>15. ShapeOK'
  BY <1>1, <1>6, <1>7, <1>8, <1>9, <1>11, <1>13 DEF ShapeOK
<1>16. NodeOK' /\ GroupsOK'
  BY <1>1 DEF NodeOK, GroupsOK
<1>17. ControlOK'
  BY <1>1, <1>2 DEF ControlOK
<1>18. TailOK' /\ StackOK' /\ TrieOK'
  BY <1>1, <1>2, FrameTail, FrameStack, FrameTrie
<1>19. TopOK'
  BY <1>1, <1>2 DEF TopOK
<1> QED
  BY <1>10, <1>12, <1>14, <1>15, <1>16, <1>17, <1>18, <1>19

\* CloseTrie: the trie that is closed is well formed, answers the links of the
\* trie below it, and has one link node for each key collected.
LEMMA CloseTrieStack ==
  ASSUME Inv, CloseTrie
  PROVE  /\ StackOK'
         /\ stack' # <<>>
         /\ Ones(stack'[Len(stack')].linkFlags) = Len(nextKeys)
<1> USE DEF Inv
<1>1. phase = "pop" /\ queue = <<>> /\ Building
  BY DEF CloseTrie, Building
<1> DEFINE terminals == [k \in DOMAIN keys |-> keys[k].word]
           t == [louds |-> Append(louds, FALSE), linkFlags |-> linkFlags,
                 bases |-> bases, cache |-> cache, numL1 |-> numL1,
                 parentOf |-> parentOf, textOf |-> textOf,
                 terminals |-> terminals]
<1>2. stack' = Append(stack, t)
  BY DEF CloseTrie, Terminals
<1>3. /\ louds \in Seq(BOOLEAN) /\ linkFlags \in Seq(BOOLEAN)
      /\ bases \in Seq(Byte) /\ parentOf \in Seq(Nat) /\ numL1 \in Nat
  BY DEF CurrentOK, BitsOK
<1>4. /\ Ones(louds) = Len(linkFlags)
      /\ Zeros(louds) = Len(linkFlags) + 1
      /\ Len(bases) = Len(linkFlags)
      /\ Len(parentOf) + 1 = Len(linkFlags)
      /\ Ones(linkFlags) = Len(nextKeys)
      /\ Len(linkFlags) \in Nat
  <2>1. Len(queue) = 0 /\ Zeros(louds) \in Nat /\ Len(linkFlags) \in Nat
    BY <1>1, <1>3, LenProperties DEF ShapeOK
  <2> QED
    BY <1>1, <2>1 DEF ShapeOK
<1>5. /\ Append(louds, FALSE) \in Seq(BOOLEAN)
      /\ Ones(Append(louds, FALSE)) = Ones(louds)
      /\ Zeros(Append(louds, FALSE)) = Zeros(louds) + 1
  BY <1>3, CountAppendZero
<1>6. terminals \in Seq(Nat) /\ Len(terminals) = Len(keys)
  <2>1. \A k \in DOMAIN keys : keys[k].word \in Nat
    BY KeyFields
  <2>2. DOMAIN keys = 1 .. Len(keys) /\ Len(keys) \in Nat
    BY LenProperties DEF KeysOK
  <2> QED
    BY <2>1, <2>2
<1> HIDE DEF terminals
<1>7. /\ WellFormed(t) /\ t.terminals = terminals /\ t.linkFlags = linkFlags
  <2>1. /\ t.louds = Append(louds, FALSE) /\ t.linkFlags = linkFlags
        /\ t.bases = bases /\ t.parentOf = parentOf /\ t.numL1 = numL1
        /\ t.terminals = terminals
    OBVIOUS
  <2> HIDE DEF t
  <2>2. BitsOK(t)
    BY <1>3, <1>5, <2>1 DEF BitsOK
  <2>3. Zeros(Append(louds, FALSE)) = Len(linkFlags) + 2
    <3> DEFINE closed == Append(louds, FALSE)
    <3>1. Zeros(closed) = Zeros(louds) + 1
      BY <1>5
    <3> HIDE DEF closed
    <3>2. Zeros(closed) = Len(linkFlags) + 2
      BY <1>4, <3>1
    <3> QED
      BY <3>2 DEF closed
  <2> QED
    BY <1>4, <1>5, <2>1, <2>2, <2>3 DEF WellFormed
<1> HIDE DEF t
<1>8. /\ DOMAIN stack' = 1 .. Len(stack') /\ Len(stack') = Len(stack) + 1
      /\ Len(stack) \in Nat
      /\ \A i \in 1 .. Len(stack) : stack'[i] = stack[i]
      /\ stack'[Len(stack) + 1] = t
  BY <1>2 DEF StackOK
<1>9. ASSUME NEW i \in DOMAIN stack'
      PROVE  WellFormed(stack'[i]) /\ stack'[i].terminals \in Seq(Nat)
  <2>1. CASE i \in 1 .. Len(stack)
    BY <1>8, <2>1 DEF StackOK
  <2>2. CASE i = Len(stack) + 1
    BY <1>6, <1>7, <1>8, <2>2
  <2> QED
    BY <1>8, <2>1, <2>2
<1>10. ASSUME NEW i \in 1 .. Len(stack') - 1
       PROVE  Ones(stack'[i].linkFlags) = Len(stack'[i + 1].terminals)
  <2>1. i \in 1 .. Len(stack) /\ stack'[i] = stack[i]
    BY <1>8
  <2>2. CASE i + 1 \in 1 .. Len(stack)
    BY <1>8, <2>1, <2>2 DEF StackOK
  <2>3. CASE i = Len(stack)
    <3>1. stack # <<>>
      BY <1>8, <2>1
    <3>2. Ones(stack[i].linkFlags) = Len(keys)
      BY <1>1, <2>3, <3>1 DEF TopOK
    <3> QED
      BY <1>6, <1>7, <1>8, <2>1, <2>3, <3>2
  <2> QED
    BY <1>8, <2>1, <2>2, <2>3
<1>12. StackOK'
  BY <1>8, <1>9, <1>10 DEF StackOK
<1> QED
  BY <1>2, <1>4, <1>7, <1>8, <1>12

\* NoNextLevel: no key was collected, so there are no links to answer.
LEMMA NoNextLevelInv == Inv /\ NoNextLevel => Inv'
<1> SUFFICES ASSUME Inv, NoNextLevel PROVE Inv'
  OBVIOUS
<1>1. CloseTrie /\ nextKeys = <<>> /\ links' = <<>>
  BY DEF NoNextLevel
<1>2. /\ StackOK' /\ Ones(stack'[Len(stack')].linkFlags) = Len(nextKeys)
  BY <1>1, CloseTrieStack
<1> USE DEF Inv
<1>3. phase = "pop" /\ phase' = "link" /\ ~Building' /\ ~Opened'
  BY DEF NoNextLevel, CloseTrie, Building, Opened
<1>4. UNCHANGED <<keyset, setting, level, keys, nextKeys, louds, linkFlags,
        bases, parentOf, numL1, tail, entries, last, trie>>
  BY DEF NoNextLevel, CloseTrie, inputVars, tailVars
<1>5. ControlOK' /\ KeysOK' /\ CurrentOK' /\ TrieOK' /\ TailOK'
  BY <1>3, <1>4, FrameKeys, FrameCurrent, FrameTrie, FrameTail DEF ControlOK
<1>6. QueueOK' /\ NodeOK' /\ GroupsOK' /\ ShapeOK'
  BY <1>3 DEF QueueOK, NodeOK, GroupsOK, ShapeOK
<1>7. TopOK'
  BY <1>1, <1>2, <1>3 DEF TopOK
<1> QED
  BY <1>2, <1>5, <1>6, <1>7

\* NextTrie: the keys collected are the keys of the next level.
LEMMA NextTrieInv == Inv /\ NextTrie => Inv'
<1> SUFFICES ASSUME Inv, NextTrie PROVE Inv'
  OBVIOUS
<1>1. /\ CloseTrie /\ level' = level + 1 /\ keys' = nextKeys
      /\ nextKeys' = <<>>
  BY DEF NextTrie
<1>2. /\ StackOK' /\ Ones(stack'[Len(stack')].linkFlags) = Len(nextKeys)
  BY <1>1, CloseTrieStack
<1> USE DEF Inv
<1>3. phase = "pop" /\ phase' = "begin" /\ Building /\ ~Building' /\ ~Opened'
  BY DEF NextTrie, CloseTrie, Building, Opened
<1>4. UNCHANGED <<keyset, setting, louds, linkFlags, bases, parentOf, numL1,
        tail, entries, last, trie, links>>
  BY DEF NextTrie, CloseTrie, inputVars, tailVars
<1>5. ControlOK' /\ KeysOK'
  BY <1>1, <1>3, <1>4 DEF ControlOK, KeysOK
<1>6. CurrentOK' /\ TrieOK' /\ TailOK'
  BY <1>3, <1>4, FrameCurrent, FrameTrie, FrameTail
<1>7. QueueOK' /\ NodeOK' /\ GroupsOK' /\ ShapeOK'
  BY <1>3 DEF QueueOK, NodeOK, GroupsOK, ShapeOK
<1>8. TopOK'
  BY <1>1, <1>2, <1>3 DEF TopOK
<1> QED
  BY <1>2, <1>5, <1>6, <1>7, <1>8

\* NextTail: the keys collected are the entries of the tail.
LEMMA NextTailInv == Inv /\ NextTail => Inv'
<1> SUFFICES ASSUME Inv, NextTail PROVE Inv'
  OBVIOUS
<1>1. /\ CloseTrie /\ keys' = nextKeys /\ nextKeys' = <<>>
      /\ entries' = DOMAIN nextKeys
      /\ links' = [k \in DOMAIN nextKeys |-> 0]
      /\ \E b \in BOOLEAN : tail' = [tail EXCEPT !.mode = IF b THEN "binary" ELSE @]
      /\ last' = last
  BY DEF NextTail
<1>2. /\ StackOK' /\ Ones(stack'[Len(stack')].linkFlags) = Len(nextKeys)
  BY <1>1, CloseTrieStack
<1> USE DEF Inv
<1>3. phase = "pop" /\ phase' = "tail" /\ Building /\ ~Building' /\ ~Opened'
  BY DEF NextTail, CloseTrie, Building, Opened
<1>4. UNCHANGED <<keyset, setting, level, louds, linkFlags, bases, parentOf,
        numL1, trie>>
  BY DEF NextTail, CloseTrie, inputVars
<1>5. /\ nextKeys \in Seq(KeyType) /\ DOMAIN nextKeys = 1 .. Len(nextKeys)
      /\ Len(nextKeys) \in Nat
  BY LenProperties DEF KeysOK
<1>6. ControlOK' /\ KeysOK'
  BY <1>1, <1>3, <1>4, <1>5 DEF ControlOK, KeysOK
<1>7. CurrentOK' /\ TrieOK'
  BY <1>4, FrameCurrent, FrameTrie
<1>8. links' \in Seq(Nat) /\ Len(links') = Len(nextKeys)
  BY <1>1, <1>5
<1>9. TailOK'
  <2>1. tail' \in [buf : Seq(Byte), ends : Seq(BOOLEAN), mode : {"text", "binary"}]
    BY <1>1 DEF TailOK
  <2>2. last' = 0
    BY <1>1, <1>3 DEF TailOK
  <2> QED
    BY <1>1, <1>3, <1>8, <2>1, <2>2 DEF TailOK
<1>10. QueueOK' /\ NodeOK' /\ GroupsOK' /\ ShapeOK'
  BY <1>3 DEF QueueOK, NodeOK, GroupsOK, ShapeOK
<1>11. TopOK'
  BY <1>1, <1>2, <1>3 DEF TopOK
<1> QED
  BY <1>2, <1>6, <1>7, <1>9, <1>10, <1>11

\* AddEntry: an offset into the tail is a number, also where bytes are shared.
LEMMA AddEntryInv == Inv /\ AddEntry => Inv'
<1> SUFFICES ASSUME Inv, AddEntry PROVE Inv'
  OBVIOUS
<1> USE DEF Inv
<1>1. /\ phase = "tail" /\ phase' = "tail" /\ ~Building /\ ~Building'
      /\ ~Opened /\ ~Opened'
  BY DEF AddEntry, Building, Opened
<1>2. UNCHANGED <<keyset, setting, level, keys, nextKeys, louds, linkFlags,
        bases, parentOf, numL1, stack, trie>>
  BY DEF AddEntry, inputVars, bitVars
<1> DEFINE text(k) == keys[k].text
           shared(k) == links[last] + Len(text(last)) - Len(text(k))
<1>3. PICK k \in entries :
        /\ entries' = entries \ {k}
        /\ last' = k
        /\ \/ /\ last # 0 /\ Len(text(k)) <= Len(text(last))
              /\ links' = [links EXCEPT ![k] = shared(k)]
              /\ tail' = tail
           \/ /\ links' = [links EXCEPT ![k] = Len(tail.buf)]
              /\ \/ tail' = [tail EXCEPT !.buf = @ \o text(k) \o <<NUL>>]
                 \/ tail' = [tail EXCEPT !.buf = @ \o text(k),
                       !.ends = @ \o [i \in DOMAIN text(k) |-> i = Len(text(k))]]
  BY DEF AddEntry, Suffix
<1>4. /\ last \in DOMAIN keys \cup {0} /\ entries \subseteq DOMAIN keys
      /\ links \in Seq(Nat) /\ Len(links) = Len(keys)
      /\ DOMAIN links = DOMAIN keys
  BY <1>1, LenProperties DEF TailOK, KeysOK
<1>5. k \in DOMAIN keys
  BY <1>4
<1>6. /\ text(k) \in Seq(Byte) /\ Len(text(k)) \in Nat
  BY <1>5, KeyFields
<1>7. tail.buf \in Seq(Byte) /\ tail.ends \in Seq(BOOLEAN)
      /\ tail \in [buf : Seq(Byte), ends : Seq(BOOLEAN), mode : {"text", "binary"}]
  BY DEF TailOK
<1>8. \A x \in Nat : /\ [links EXCEPT ![k] = x] \in Seq(Nat)
                     /\ Len([links EXCEPT ![k] = x]) = Len(links)
  BY <1>4, <1>5, ExceptSeq, LenProperties
<1>9. links' \in Seq(Nat) /\ Len(links') = Len(keys)
  <2>1. CASE /\ last # 0 /\ Len(text(k)) <= Len(text(last))
             /\ links' = [links EXCEPT ![k] = shared(k)]
    <3>1. last \in DOMAIN keys
      BY <1>4, <2>1
    <3>2. links[last] \in Nat
      BY <1>4, <3>1, ElementOfSeq, LenProperties
    <3>3. Len(text(last)) \in Nat
      BY <3>1, KeyFields
    <3>4. shared(k) \in Nat
      <4>1. \A x, y, z \in Nat : z <= y => x + y - z \in Nat
        OBVIOUS
      <4> HIDE DEF text
      <4> QED
        BY <1>6, <2>1, <3>2, <3>3, <4>1
    <3> QED
      BY <1>4, <1>8, <2>1, <3>4
  <2>2. CASE links' = [links EXCEPT ![k] = Len(tail.buf)]
    <3>1. Len(tail.buf) \in Nat
      BY <1>7, LenProperties
    <3> QED
      BY <1>4, <1>8, <2>2, <3>1
  <2> QED
    BY <1>3, <2>1, <2>2
<1>10. tail' \in [buf : Seq(Byte), ends : Seq(BOOLEAN), mode : {"text", "binary"}]
  <2>1. tail.buf \o text(k) \in Seq(Byte)
    BY <1>6, <1>7, ConcatProperties
  <2>2. <<NUL>> \in Seq(Byte)
    BY ZeroIsByte DEF NUL
  <2>3. tail.buf \o text(k) \o <<NUL>> \in Seq(Byte)
    BY <2>1, <2>2, ConcatProperties
  <2> DEFINE marks == [i \in DOMAIN text(k) |-> i = Len(text(k))]
  <2>4. marks \in Seq(BOOLEAN)
    <3>1. DOMAIN text(k) = 1 .. Len(text(k))
      BY <1>6, LenProperties
    <3> QED
      BY <1>6, <3>1
  <2> HIDE DEF marks
  <2>5. tail.ends \o marks \in Seq(BOOLEAN)
    BY <1>7, <2>4, ConcatProperties
  <2>6. \/ tail' = tail
        \/ tail' = [tail EXCEPT !.buf = tail.buf \o text(k) \o <<NUL>>]
        \/ tail' = [tail EXCEPT !.buf = tail.buf \o text(k),
                                !.ends = tail.ends \o marks]
    BY <1>3, <1>7 DEF marks
  <2> HIDE DEF text
  <2> QED
    BY <1>7, <2>1, <2>3, <2>5, <2>6
<1>11. TailOK'
  BY <1>1, <1>2, <1>3, <1>4, <1>5, <1>9, <1>10 DEF TailOK
<1>12. ControlOK' /\ KeysOK' /\ CurrentOK' /\ StackOK' /\ TrieOK'
  BY <1>1, <1>2, FrameKeys, FrameCurrent, FrameStack, FrameTrie DEF ControlOK
<1>13. QueueOK' /\ NodeOK' /\ GroupsOK' /\ ShapeOK'
  BY <1>1 DEF QueueOK, NodeOK, GroupsOK, ShapeOK
<1>14. TopOK'
  BY <1>1, <1>2 DEF TopOK
<1> QED
  BY <1>11, <1>12, <1>13, <1>14

\* TailDone: the offsets are as many as the entries.
LEMMA TailDoneInv == Inv /\ TailDone => Inv'
<1> SUFFICES ASSUME Inv, TailDone PROVE Inv'
  OBVIOUS
<1> USE DEF Inv
<1>1. /\ phase = "tail" /\ phase' = "link" /\ ~Building' /\ ~Opened'
  BY DEF TailDone, Building, Opened
<1>2. UNCHANGED <<keyset, setting, level, keys, nextKeys, louds, linkFlags,
        bases, parentOf, numL1, stack, trie, links, tail>>
  BY DEF TailDone, inputVars, bitVars, linkVars, tailVars
<1>3. ControlOK' /\ KeysOK' /\ CurrentOK' /\ StackOK' /\ TrieOK'
  BY <1>1, <1>2, FrameKeys, FrameCurrent, FrameStack, FrameTrie DEF ControlOK
<1>4. QueueOK' /\ NodeOK' /\ GroupsOK' /\ ShapeOK'
  BY <1>1 DEF QueueOK, NodeOK, GroupsOK, ShapeOK
<1>5. TailOK' /\ TopOK'
  BY <1>1, <1>2 DEF TailOK, TopOK
<1> QED
  BY <1>3, <1>4, <1>5

\* LinkTrie: a link fits in a byte and a number, and the terminals of the trie
\* that leaves the stack answer the links of the one below it.
LEMMA LinkTrieInv == Inv /\ LinkTrie => Inv'
<1> SUFFICES ASSUME Inv, LinkTrie PROVE Inv'
  OBVIOUS
<1> USE DEF Inv
<1>1. /\ phase = "link" /\ phase' = "link" /\ ~Building' /\ ~Opened'
      /\ stack # <<>>
  BY DEF LinkTrie, Building, Opened
<1>2. UNCHANGED <<keyset, setting, level, keys, nextKeys, louds, linkFlags,
        bases, parentOf, numL1, tail, last>>
  BY DEF LinkTrie, inputVars, bitVars, tailVars
<1> DEFINE top == Len(stack)
           t == stack[top]
<1>3. /\ trie' = <<Linked(t)>> \o trie
      /\ links' = t.terminals
      /\ stack' = SubSeq(stack, 1, top - 1)
  BY DEF LinkTrie
<1>4. /\ top \in Nat \ {0} /\ DOMAIN stack = 1 .. top /\ top \in DOMAIN stack
  BY <1>1 DEF StackOK
<1>5. /\ WellFormed(t) /\ t.terminals \in Seq(Nat)
      /\ links \in Seq(Nat) /\ Ones(t.linkFlags) = Len(links)
  BY <1>1, <1>4 DEF StackOK, TopOK
<1>6. /\ DOMAIN stack' = 1 .. Len(stack') /\ Len(stack') = top - 1
      /\ \A i \in 1 .. top - 1 : stack'[i] = stack[i]
  BY <1>3, <1>4
<1>7. StackOK'
  <2>1. \A i \in DOMAIN stack' :
          WellFormed(stack'[i]) /\ stack'[i].terminals \in Seq(Nat)
    BY <1>4, <1>6 DEF StackOK
  <2>2. \A i \in 1 .. Len(stack') - 1 :
          Ones(stack'[i].linkFlags) = Len(stack'[i + 1].terminals)
    BY <1>4, <1>6 DEF StackOK
  <2> QED
    BY <1>4, <1>6, <2>1, <2>2 DEF StackOK
<1>8. TopOK'
  <2>1. ASSUME stack' # <<>>
        PROVE  Ones(stack'[Len(stack')].linkFlags) = Len(links')
    <3>1. top - 1 \in 1 .. top - 1
      BY <1>4, <1>6, <2>1
    <3>2. Ones(stack[top - 1].linkFlags) = Len(stack[top - 1 + 1].terminals)
      BY <1>4, <3>1 DEF StackOK
    <3> QED
      BY <1>3, <1>4, <1>6, <3>1, <3>2
  <2> QED
    BY <1>1, <1>3, <1>5, <2>1 DEF TopOK
<1> HIDE DEF t
<1> DEFINE Link(n) == links[Rank1(t.linkFlags, n) + 1]
           newBases == [i \in DOMAIN t.bases |->
                  IF t.linkFlags[i] THEN Link(i - 1) % Base ELSE t.bases[i]]
           newExtras == [i \in DOMAIN links |-> links[i] \div Base]
<1>9. /\ Linked(t).louds = t.louds /\ Linked(t).linkFlags = t.linkFlags
      /\ Linked(t).bases = newBases /\ Linked(t).extras = newExtras
      /\ Linked(t).numL1 = t.numL1 /\ Linked(t).parentOf = t.parentOf
  BY DEF Linked, LowLink, HighLink
<1>10. Base \in Nat \ {0}
  BY BaseAssumption
<1>11. newExtras \in Seq(Nat)
  <2>1. DOMAIN links = 1 .. Len(links) /\ Len(links) \in Nat
    BY <1>5, LenProperties
  <2>2. \A i \in DOMAIN links : links[i] \div Base \in Nat
    <3>1. \A i \in DOMAIN links : links[i] \in Nat
      BY <1>5, <2>1, ElementOfSeq
    <3>2. \A x \in Nat : x \div Base \in Nat
      BY <1>10
    <3> QED
      BY <3>1, <3>2
  <2> QED
    BY <2>1, <2>2
<1>12. /\ t.linkFlags \in Seq(BOOLEAN) /\ t.bases \in Seq(Byte)
       /\ Len(t.bases) = Len(t.linkFlags)
       /\ DOMAIN t.bases = 1 .. Len(t.bases) /\ Len(t.bases) \in Nat
  BY <1>5, LenProperties DEF WellFormed, BitsOK
<1>13. \A i \in DOMAIN t.bases : newBases[i] \in Byte
  <2> SUFFICES ASSUME NEW i \in DOMAIN t.bases PROVE newBases[i] \in Byte
    OBVIOUS
  <2>1. i - 1 \in 0 .. Len(t.linkFlags) - 1 /\ i - 1 \in 0 .. Len(t.linkFlags)
    BY <1>12
  <2>2. CASE t.linkFlags[i]
    <3>1. Bit(t.linkFlags, i - 1)
      BY <1>12, <2>2 DEF Bit
    <3>2. /\ Rank1(t.linkFlags, i - 1) \in Nat
          /\ Rank1(t.linkFlags, i - 1) < Len(links)
      BY <1>5, <1>12, <2>1, <3>1, RankType, RankOfOne
    <3>3. Link(i - 1) \in Nat
      BY <1>5, <3>2, ElementOfSeq, LenProperties
    <3>4. Link(i - 1) % Base \in Byte
      <4>1. \A x \in Nat : x % Base \in 0 .. Base - 1
        BY <1>10
      <4> HIDE DEF Link
      <4> QED
        BY <3>3, <4>1 DEF Byte
    <3> QED
      BY <2>2, <3>4
  <2>3. CASE ~t.linkFlags[i]
    BY <1>12, <2>3, ElementOfSeq
  <2> QED
    BY <2>2, <2>3
<1>14. newBases \in Seq(Byte) /\ Len(newBases) = Len(t.bases)
  <2>1. newBases \in [1 .. Len(t.bases) -> Byte]
    BY <1>12, <1>13
  <2> HIDE DEF newBases
  <2> QED
    BY <1>12, <2>1, SeqFromFunction
<1> HIDE DEF newBases, newExtras
<1>15. WellFormed(Linked(t)) /\ Linked(t).extras \in Seq(Nat)
  BY <1>5, <1>9, <1>11, <1>12, <1>14 DEF WellFormed, BitsOK
<1>16. TrieOK'
  <2>1. /\ DOMAIN trie' = 1 .. Len(trie') /\ Len(trie') \in Nat
        /\ Len(trie') = Len(trie) + 1
        /\ trie'[1] = Linked(t)
        /\ \A i \in 2 .. Len(trie) + 1 : trie'[i] = trie[i - 1]
    BY <1>3 DEF TrieOK
  <2>2. ASSUME NEW i \in DOMAIN trie'
        PROVE  WellFormed(trie'[i]) /\ trie'[i].extras \in Seq(Nat)
    <3>1. CASE i = 1
      BY <1>15, <2>1, <3>1
    <3>2. CASE i # 1
      <4>1. i - 1 \in DOMAIN trie /\ trie'[i] = trie[i - 1]
        BY <2>1, <3>2 DEF TrieOK
      <4> QED
        BY <4>1 DEF TrieOK
    <3> QED
      BY <3>1, <3>2
  <2> QED
    BY <2>1, <2>2 DEF TrieOK
<1>17. ControlOK' /\ KeysOK' /\ CurrentOK' /\ TailOK'
  BY <1>1, <1>2, FrameKeys, FrameCurrent, FrameTail DEF ControlOK
<1>18. QueueOK' /\ NodeOK' /\ GroupsOK' /\ ShapeOK'
  BY <1>1 DEF QueueOK, NodeOK, GroupsOK, ShapeOK
<1> QED
  BY <1>7, <1>8, <1>16, <1>17, <1>18

\* NumberKeys disturbs nothing the invariant knows of.
LEMMA NumberKeysInv == Inv /\ NumberKeys => Inv'
<1> SUFFICES ASSUME Inv, NumberKeys PROVE Inv'
  OBVIOUS
<1> USE DEF Inv
<1>1. /\ phase = "link" /\ phase' = "done" /\ ~Building' /\ ~Opened'
  BY DEF NumberKeys, Building, Opened
<1>2. UNCHANGED <<keyset, setting, level, keys, nextKeys, louds, linkFlags,
        bases, parentOf, numL1, stack, trie, links, tail, last>>
  BY DEF NumberKeys, inputVars, bitVars, tailVars
<1>3. ControlOK' /\ KeysOK' /\ CurrentOK' /\ StackOK' /\ TrieOK'
  BY <1>1, <1>2, FrameKeys, FrameCurrent, FrameStack, FrameTrie DEF ControlOK
<1>4. QueueOK' /\ NodeOK' /\ GroupsOK' /\ ShapeOK'
  BY <1>1 DEF QueueOK, NodeOK, GroupsOK, ShapeOK
<1>5. TailOK' /\ TopOK'
  BY <1>1, <1>2, FrameTail DEF TopOK
<1> QED
  BY <1>3, <1>4, <1>5

\* The invariant holds before the build.
LEMMA InitInv == Init => Inv
<1> SUFFICES ASSUME Init PROVE Inv
  OBVIOUS
<1> USE DEF Init
<1>1. /\ keyset \in Seq([text : Seq(Byte), weight : Nat])
      /\ DOMAIN keyset = 1 .. Len(keyset) /\ Len(keyset) \in Nat
  BY KeysetsAssumption, LenProperties
<1>2. keys \in Seq(KeyType)
  <2>1. \A k \in 1 .. Len(keyset) :
          keyset[k] \in [text : Seq(Byte), weight : Nat]
    BY <1>1, ElementOfSeq
  <2>2. keys \in [1 .. Len(keyset) -> KeyType]
    BY <1>1, <2>1 DEF KeyType
  <2> QED
    BY <1>1, <2>2, SeqFromFunction
<1>3. phase = "begin" /\ ~Building /\ ~Opened
  BY DEF Building, Opened
<1>4. ControlOK /\ KeysOK
  BY <1>2 DEF ControlOK, KeysOK
<1>5. QueueOK /\ NodeOK /\ GroupsOK /\ ShapeOK
  BY <1>3 DEF QueueOK, NodeOK, GroupsOK, ShapeOK
<1>6. CurrentOK
  BY DEF CurrentOK, BitsOK
<1>7. TailOK
  <2>1. setting.tailMode \in {"text", "binary"}
    BY SettingsAssumption
  <2> QED
    BY <1>3, <2>1 DEF TailOK
<1>8. StackOK /\ TopOK /\ TrieOK
  BY <1>3 DEF StackOK, TopOK, TrieOK
<1> QED
  BY <1>4, <1>5, <1>6, <1>7, <1>8 DEF Inv

\* The invariant holds after a step that changes nothing.
LEMMA StutterInv == Inv /\ UNCHANGED vars => Inv'
<1> SUFFICES ASSUME Inv, UNCHANGED vars PROVE Inv'
  OBVIOUS
<1> USE DEF Inv, vars, inputVars, rangeVars, bitVars, tailVars, linkVars
<1>1. ControlOK' /\ KeysOK' /\ CurrentOK' /\ StackOK' /\ TrieOK'
  BY FrameKeys, FrameCurrent, FrameStack, FrameTrie DEF ControlOK
<1>2. QueueOK' /\ NodeOK' /\ GroupsOK'
  BY DEF QueueOK, NodeOK, GroupsOK, Building, Opened, RangeType
<1>3. ShapeOK'
  BY DEF ShapeOK, Building, Opened
<1>4. TailOK' /\ TopOK'
  BY DEF TailOK, TopOK, Building
<1> QED
  BY <1>1, <1>2, <1>3, <1>4

\* The inductive invariant of build().
THEOREM Invariance == Spec => []Inv
<1>1. Init => Inv
  BY InitInv
<1>2. Inv /\ [Next]_vars => Inv'
  BY OpenNodeInv, GroupKeyInv, GroupedInv, AddChildInv, CloseNodeInv,
     BeginTrieInv, NoNextLevelInv, NextTrieInv, NextTailInv, AddEntryInv,
     TailDoneInv, LinkTrieInv, NumberKeysInv, StutterInv DEF Next
<1> QED
  BY <1>1, <1>2, PTL DEF Spec

\* The invariant is strong enough for the three that the runs check.
LEMMA InvImplies == Inv => TypeOK /\ Balanced /\ LinksFit
<1> SUFFICES ASSUME Inv PROVE TypeOK /\ Balanced /\ LinksFit
  OBVIOUS
<1> USE DEF Inv
<1>1. TypeOK
  <2>1. phase \in {"group", "children"} => Opened
    BY DEF Opened
  <2> QED
    BY <2>1 DEF TypeOK, ControlOK, KeysOK, QueueOK, NodeOK, GroupsOK,
                CurrentOK, TailOK, StackOK, TopOK, TrieOK, WellFormed
<1>2. Balanced
  BY DEF Balanced, ShapeOK, StackOK, TrieOK, WellFormed, AllTries, Opened
<1>3. LinksFit
  BY DEF LinksFit, StackOK, TopOK
<1> QED
  BY <1>1, <1>2, <1>3

\* TypeOK for every keyset and setting: above all, whatever a byte vector of a
\* trie holds is a byte, the links build_trie() splits over bases_ and extras_
\* included.
THEOREM TypeCorrect == Spec => []TypeOK
<1>1. Inv => TypeOK
  BY InvImplies
<1> QED
  BY <1>1, Invariance, PTL

\* build_current_trie() may compute the number of the node it opens from the
\* sizes of link_flags_ and the queue: the vectors and the queue always add up.
THEOREM BalancedThm == Spec => []Balanced
<1>1. Inv => Balanced
  BY InvImplies
<1> QED
  BY <1>1, Invariance, PTL

\* build_trie() may walk from link node to link node without looking for the
\* end: every terminal the next level returns has its link node.
THEOREM LinksFitThm == Spec => []LinksFit
<1>1. Inv => LinksFit
  BY InvImplies
<1> QED
  BY <1>1, Invariance, PTL

\* Every 1 of bits but the first is the node its rank says, put under the node
\* the 0s in front of it say; and every node has such a 1.  No 0 is in front of
\* the super-root's 1.
Numbered(bits, parents) ==
  /\ \A i \in 0 .. Len(bits) - 1 : Bit(bits, i) /\ Rank1(bits, i) = 0 => i = 0
  /\ \A i \in 0 .. Len(bits) - 1 :
       Bit(bits, i) /\ Rank1(bits, i) # 0 =>
         /\ Rank1(bits, i) \in DOMAIN parents
         /\ parents[Rank1(bits, i)] = i - Rank1(bits, i) - 1
  /\ \A n \in DOMAIN parents :
       \E i \in 0 .. Len(bits) - 1 : Bit(bits, i) /\ Rank1(bits, i) = n

\* In a trie whose nodes are numbered, select1 finds the parents.
LEMMA NumberedFinds ==
  ASSUME NEW bits, NEW parents \in Seq(Nat), Numbered(bits, parents)
  PROVE  ParentsOf(bits, parents)
<1> SUFFICES ASSUME NEW n \in DOMAIN parents
             PROVE  Select1(bits, n) - n - 1 = parents[n]
  BY DEF ParentsOf
<1>1. n \in Nat \ {0}
  BY LenProperties
<1>2. \E i \in 0 .. Len(bits) - 1 : Bit(bits, i) /\ Rank1(bits, i) = n
  BY DEF Numbered
<1>3. /\ Select1(bits, n) \in 0 .. Len(bits) - 1
      /\ Bit(bits, Select1(bits, n))
      /\ Rank1(bits, Select1(bits, n)) = n
  BY <1>2 DEF Select1
<1> QED
  BY <1>1, <1>3 DEF Numbered

\* A 0 at the end changes no number.
LEMMA NumberedZero ==
  ASSUME NEW bits \in Seq(BOOLEAN), NEW parents \in Seq(Nat),
         Numbered(bits, parents)
  PROVE  Numbered(Append(bits, FALSE), parents)
<1> DEFINE more == Append(bits, FALSE)
<1>1. /\ Len(bits) \in Nat /\ Len(more) = Len(bits) + 1
      /\ \A i \in 1 .. Len(bits) : more[i] = bits[i]
      /\ more[Len(bits) + 1] = FALSE
  BY AppendProperties, LenProperties
<1>2. \A i \in 0 .. Len(bits) : Rank1(more, i) = Rank1(bits, i)
  BY RankAppendBefore
<1> HIDE DEF more
<1>3. /\ \A i \in 0 .. Len(bits) - 1 :
           Bit(more, i) = Bit(bits, i) /\ Rank1(more, i) = Rank1(bits, i)
      /\ ~Bit(more, Len(bits))
  BY <1>1, <1>2 DEF Bit
<1>4. \A i \in 0 .. Len(more) - 1 : Bit(more, i) => i \in 0 .. Len(bits) - 1
  BY <1>1, <1>3
<1>5. 0 .. Len(bits) - 1 \subseteq 0 .. Len(more) - 1
  BY <1>1
<1>6. Numbered(more, parents)
  BY <1>3, <1>4, <1>5 DEF Numbered
<1> QED
  BY <1>6 DEF more

\* A 1 at the end is the next node, put under the node that is open.
LEMMA NumberedOne ==
  ASSUME NEW bits \in Seq(BOOLEAN), NEW parents \in Seq(Nat),
         Numbered(bits, parents), NEW n \in Nat,
         Ones(bits) = Len(parents) + 1, Zeros(bits) = n + 1
  PROVE  Numbered(Append(bits, TRUE), Append(parents, n))
<1> DEFINE more == Append(bits, TRUE)
           moreParents == Append(parents, n)
<1>1. /\ Len(bits) \in Nat /\ Len(more) = Len(bits) + 1
      /\ \A i \in 1 .. Len(bits) : more[i] = bits[i]
      /\ more[Len(bits) + 1] = TRUE
  BY AppendProperties, LenProperties
<1>2. /\ Len(parents) \in Nat /\ DOMAIN parents = 1 .. Len(parents)
      /\ DOMAIN moreParents = 1 .. Len(parents) + 1
      /\ \A i \in 1 .. Len(parents) : moreParents[i] = parents[i]
      /\ moreParents[Len(parents) + 1] = n
  BY AppendProperties, LenProperties
<1>3. \A i \in 0 .. Len(bits) : Rank1(more, i) = Rank1(bits, i)
  BY RankAppendBefore
<1> HIDE DEF more, moreParents
<1>4. /\ \A i \in 0 .. Len(bits) - 1 :
           Bit(more, i) = Bit(bits, i) /\ Rank1(more, i) = Rank1(bits, i)
      /\ Bit(more, Len(bits))
  BY <1>1, <1>3 DEF Bit
<1>5. /\ Rank1(more, Len(bits)) = Len(parents) + 1
      /\ Len(bits) = Len(parents) + 1 + n + 1
  <2>1. /\ Rank1(bits, Len(bits)) + Rank0(bits, Len(bits)) = Len(bits)
    BY <1>1, RankType
  <2> QED
    BY <1>1, <1>2, <1>3, <2>1 DEF Ones, Zeros
<1>6. \A i \in 0 .. Len(more) - 1 : i \in 0 .. Len(bits) - 1 \/ i = Len(bits)
  BY <1>1
<1>7. ASSUME NEW i \in 0 .. Len(more) - 1, Bit(more, i), Rank1(more, i) # 0
      PROVE  /\ Rank1(more, i) \in DOMAIN moreParents
             /\ moreParents[Rank1(more, i)] = i - Rank1(more, i) - 1
  <2>1. CASE i = Len(bits)
    BY <1>2, <1>5, <2>1
  <2>2. CASE i \in 0 .. Len(bits) - 1
    <3>1. /\ Rank1(bits, i) \in DOMAIN parents
          /\ parents[Rank1(bits, i)] = i - Rank1(bits, i) - 1
      BY <1>4, <1>7, <2>2 DEF Numbered
    <3> QED
      BY <1>2, <1>4, <2>2, <3>1
  <2> QED
    BY <1>6, <2>1, <2>2
<1>8. ASSUME NEW m \in DOMAIN moreParents
      PROVE  \E i \in 0 .. Len(more) - 1 : Bit(more, i) /\ Rank1(more, i) = m
  <2>1. CASE m = Len(parents) + 1
    BY <1>1, <1>4, <1>5, <2>1
  <2>2. CASE m \in 1 .. Len(parents)
    <3>1. PICK i \in 0 .. Len(bits) - 1 : Bit(bits, i) /\ Rank1(bits, i) = m
      BY <1>2, <2>2 DEF Numbered
    <3> QED
      BY <1>1, <1>4, <3>1
  <2> QED
    BY <1>2, <2>1, <2>2
<1>9. ASSUME NEW i \in 0 .. Len(more) - 1, Bit(more, i), Rank1(more, i) = 0
      PROVE  i = 0
  <2>1. i # Len(bits)
    BY <1>2, <1>5, <1>9
  <2>2. i \in 0 .. Len(bits) - 1
    BY <1>6, <2>1
  <2> QED
    BY <1>4, <1>9, <2>2 DEF Numbered
<1>10. Numbered(more, moreParents)
  BY <1>7, <1>8, <1>9 DEF Numbered
<1> QED
  BY <1>10 DEF more, moreParents

\* The nodes are numbered in every trie, finished or not.
NumberedInv ==
  /\ Building => Numbered(louds, parentOf)
  /\ \A i \in DOMAIN stack : Numbered(stack[i].louds, stack[i].parentOf)
  /\ \A i \in DOMAIN trie : Numbered(trie[i].louds, trie[i].parentOf)

\* The 1 of the super-root is no node but the root.
LEMMA NumberedBegin == BeginTrie /\ NumberedInv => NumberedInv'
<1> SUFFICES ASSUME BeginTrie, NumberedInv PROVE NumberedInv'
  OBVIOUS
<1>1. louds' = <<TRUE, FALSE>> /\ parentOf' = <<>> /\ UNCHANGED <<stack, trie>>
  BY DEF BeginTrie, SuperRoot, linkVars
<1>2. Numbered(<<TRUE, FALSE>>, <<>>)
  <2>1. ASSUME NEW i \in 0 .. Len(<<TRUE, FALSE>>) - 1, Bit(<<TRUE, FALSE>>, i)
        PROVE  Rank1(<<TRUE, FALSE>>, i) = 0 /\ i = 0
    <3>1. i = 0
      <4>1. Len(<<TRUE, FALSE>>) = 2 /\ <<TRUE, FALSE>>[2] = FALSE
        OBVIOUS
      <4>2. i = 0 \/ i = 1
        BY <4>1
      <4>3. ASSUME i = 1 PROVE FALSE
        <5>1. <<TRUE, FALSE>>[i + 1]
          BY <2>1 DEF Bit
        <5> QED
          BY <4>1, <4>3, <5>1
      <4> QED
        BY <4>2, <4>3
    <3>2. {j \in 1 .. 0 : <<TRUE, FALSE>>[j]} = {}
      OBVIOUS
    <3> QED
      BY <3>1, <3>2, FS_EmptySet DEF Rank1
  <2> QED
    BY <2>1 DEF Numbered
<1> QED
  BY <1>1, <1>2 DEF NumberedInv

\* AddChild numbers the new node; Balanced says which node is open.
LEMMA NumberedAddChild == Inv /\ AddChild /\ NumberedInv => NumberedInv'
<1> SUFFICES ASSUME Inv, AddChild, NumberedInv PROVE NumberedInv'
  OBVIOUS
<1>1. /\ louds' = Append(louds, TRUE) /\ parentOf' = Append(parentOf, node)
      /\ UNCHANGED <<stack, trie>> /\ Building /\ Opened
  BY DEF AddChild, linkVars, Building, Opened
<1>2. louds \in Seq(BOOLEAN) /\ parentOf \in Seq(Nat) /\ node \in Nat
  BY <1>1 DEF Inv, CurrentOK, BitsOK, NodeOK
<1>3. Ones(louds) = Len(parentOf) + 1 /\ Zeros(louds) = node + 1
  BY <1>1 DEF Inv, ShapeOK
<1>4. Numbered(louds', parentOf')
  BY <1>1, <1>2, <1>3, NumberedOne DEF NumberedInv
<1> QED
  BY <1>1, <1>4 DEF NumberedInv

\* CloseNode only adds a 0.
LEMMA NumberedCloseNode == Inv /\ CloseNode /\ NumberedInv => NumberedInv'
<1> SUFFICES ASSUME Inv, CloseNode, NumberedInv PROVE NumberedInv'
  OBVIOUS
<1>1. /\ louds' = Append(louds, FALSE)
      /\ UNCHANGED <<parentOf, stack, trie>> /\ Building
  BY DEF CloseNode, linkVars, Building
<1>2. louds \in Seq(BOOLEAN) /\ parentOf \in Seq(Nat)
  BY DEF Inv, CurrentOK, BitsOK
<1>3. Numbered(louds', parentOf)
  BY <1>1, <1>2, NumberedZero DEF NumberedInv
<1> QED
  BY <1>1, <1>3 DEF NumberedInv

\* A trie keeps its numbers when it is closed and pushed.
LEMMA NumberedCloseTrie ==
  ASSUME Inv, CloseTrie, NumberedInv, ~Building'
  PROVE  NumberedInv'
<1>1. Building /\ UNCHANGED trie
  BY DEF CloseTrie, Building
<1>2. louds \in Seq(BOOLEAN) /\ parentOf \in Seq(Nat)
  BY DEF Inv, CurrentOK, BitsOK
<1>3. Numbered(Append(louds, FALSE), parentOf)
  BY <1>1, <1>2, NumberedZero DEF NumberedInv
<1> DEFINE t == [louds |-> Append(louds, FALSE), linkFlags |-> linkFlags,
                 bases |-> bases, cache |-> cache, numL1 |-> numL1,
                 parentOf |-> parentOf, textOf |-> textOf,
                 terminals |-> [k \in DOMAIN keys |-> keys[k].word]]
<1>4. /\ stack' = Append(stack, t)
      /\ t.louds = Append(louds, FALSE) /\ t.parentOf = parentOf
  BY DEF CloseTrie, Terminals
<1> HIDE DEF t
<1>5. /\ DOMAIN stack' = 1 .. Len(stack) + 1 /\ Len(stack) \in Nat
      /\ DOMAIN stack = 1 .. Len(stack)
      /\ \A i \in 1 .. Len(stack) : stack'[i] = stack[i]
      /\ stack'[Len(stack) + 1] = t
  BY <1>4 DEF Inv, StackOK
<1>6. ASSUME NEW i \in DOMAIN stack'
      PROVE  Numbered(stack'[i].louds, stack'[i].parentOf)
  <2>1. CASE i \in 1 .. Len(stack)
    BY <1>5, <2>1 DEF NumberedInv
  <2>2. CASE i = Len(stack) + 1
    BY <1>3, <1>4, <1>5, <2>2
  <2> QED
    BY <1>5, <2>1, <2>2
<1> QED
  BY <1>1, <1>6 DEF NumberedInv

\* A trie keeps its numbers when its links are stored.
LEMMA NumberedLinkTrie == Inv /\ LinkTrie /\ NumberedInv => NumberedInv'
<1> SUFFICES ASSUME Inv, LinkTrie, NumberedInv PROVE NumberedInv'
  OBVIOUS
<1> DEFINE t == stack[Len(stack)]
<1>1. /\ trie' = <<Linked(t)>> \o trie
      /\ stack' = SubSeq(stack, 1, Len(stack) - 1)
      /\ stack # <<>> /\ ~Building'
  BY DEF LinkTrie, Building
<1>2. /\ DOMAIN stack = 1 .. Len(stack) /\ Len(stack) \in Nat \ {0}
      /\ DOMAIN trie = 1 .. Len(trie) /\ Len(trie) \in Nat
  BY <1>1 DEF Inv, StackOK, TrieOK
<1>3. Numbered(t.louds, t.parentOf)
  BY <1>2 DEF NumberedInv
<1>4. Linked(t).louds = t.louds /\ Linked(t).parentOf = t.parentOf
  BY DEF Linked
<1>5. /\ DOMAIN stack' = 1 .. Len(stack) - 1
      /\ \A i \in 1 .. Len(stack) - 1 : stack'[i] = stack[i]
  BY <1>1, <1>2
<1> HIDE DEF t
<1>6. /\ DOMAIN trie' = 1 .. Len(trie) + 1 /\ trie'[1] = Linked(t)
      /\ \A i \in 2 .. Len(trie) + 1 : trie'[i] = trie[i - 1]
  BY <1>1, <1>2
<1>7. \A i \in DOMAIN stack' : Numbered(stack'[i].louds, stack'[i].parentOf)
  BY <1>2, <1>5 DEF NumberedInv
<1>8. ASSUME NEW i \in DOMAIN trie'
      PROVE  Numbered(trie'[i].louds, trie'[i].parentOf)
  <2>1. CASE i = 1
    BY <1>3, <1>4, <1>6, <2>1
  <2>2. CASE i # 1
    <3>1. i - 1 \in DOMAIN trie /\ trie'[i] = trie[i - 1]
      BY <1>2, <1>6, <2>2
    <3> QED
      BY <3>1 DEF NumberedInv
  <2> QED
    BY <2>1, <2>2
<1> QED
  BY <1>1, <1>7, <1>8 DEF NumberedInv

\* The numbering is preserved by every step.
LEMMA NumberedStep == Inv /\ [Next]_vars /\ NumberedInv => NumberedInv'
<1> SUFFICES ASSUME Inv, [Next]_vars, NumberedInv PROVE NumberedInv'
  OBVIOUS
<1>1. CASE BeginTrie
  BY <1>1, NumberedBegin
<1>2. CASE AddChild
  BY <1>2, NumberedAddChild
<1>3. CASE CloseNode
  BY <1>3, NumberedCloseNode
<1>4. CASE NoNextLevel \/ NextTrie \/ NextTail
  <2>1. CloseTrie /\ phase' \in {"link", "begin", "tail"}
    <3>1. CASE NoNextLevel
      BY <3>1 DEF NoNextLevel
    <3>2. CASE NextTrie
      BY <3>2 DEF NextTrie
    <3>3. CASE NextTail
      BY <3>3 DEF NextTail
    <3> QED
      BY <1>4, <3>1, <3>2, <3>3
  <2>2. ~Building'
    BY <2>1 DEF Building
  <2> QED
    BY <2>1, <2>2, NumberedCloseTrie
<1>5. CASE LinkTrie
  BY <1>5, NumberedLinkTrie
<1>6. CASE OpenNode \/ GroupKey \/ Grouped \/ AddEntry \/ TailDone
           \/ NumberKeys \/ UNCHANGED vars
  <2>1. UNCHANGED <<louds, parentOf, stack, trie>> /\ (Building' => Building)
    BY <1>6 DEF OpenNode, GroupKey, Grouped, AddEntry, TailDone, NumberKeys,
         vars, bitVars, linkVars, Building
  <2> QED
    BY <2>1 DEF NumberedInv
<1> QED
  BY <1>1, <1>2, <1>3, <1>4, <1>5, <1>6 DEF Next

\* The numbering holds throughout.
LEMMA NumberedAlways == Spec => []NumberedInv
<1>1. Init => NumberedInv
  BY DEF Init, NumberedInv, Building
<1> QED
  BY <1>1, Invariance, NumberedStep, PTL DEF Spec

\* Rank and select lead from every node to the node it was put under, in every
\* trie, for every keyset, setting, radix and hash (LoudsTrie's parent steps).
THEOREM ParentsFoundThm == Spec => []ParentsFound
<1>1. Inv /\ NumberedInv => ParentsFound
  <2> SUFFICES ASSUME Inv, NumberedInv PROVE ParentsFound
    OBVIOUS
  <2>1. Building => ParentsOf(louds, parentOf)
    BY NumberedFinds DEF Inv, CurrentOK, BitsOK, NumberedInv
  <2>2. \A i \in DOMAIN stack : ParentsOf(stack[i].louds, stack[i].parentOf)
    BY NumberedFinds DEF Inv, StackOK, WellFormed, BitsOK, NumberedInv
  <2>3. \A i \in DOMAIN trie : ParentsOf(trie[i].louds, trie[i].parentOf)
    BY NumberedFinds DEF Inv, TrieOK, WellFormed, BitsOK, NumberedInv
  <2> QED
    BY <2>1, <2>2, <2>3 DEF ParentsFound, AllTries
<1> QED
  BY <1>1, Invariance, NumberedAlways, PTL

\* In a trie whose nodes are numbered, the 1s that follow select0 of a node are
\* its children: the 0s in front of them are as many as in front of the first.
LEMMA NumberedChildren ==
  ASSUME NEW bits \in Seq(BOOLEAN), NEW parents \in Seq(Nat),
         Numbered(bits, parents),
         Zeros(bits) = Len(parents) + 3, Len(bits) = 2 * Len(parents) + 4,
         NEW n \in 0 .. Len(parents), NEW first, first = Select0(bits, n) + 1
  PROVE  {m \in DOMAIN parents : parents[m] = n} =
         {m \in first - n - 1 .. Len(parents) :
            \A i \in first .. m + n + 1 : Bit(bits, i)}
<1> DEFINE z == Select0(bits, n)
<1>1. /\ Len(parents) \in Nat /\ Len(bits) \in Nat /\ n \in Nat
      /\ DOMAIN parents = 1 .. Len(parents)
  BY LenProperties
<1>2. n \in 0 .. Zeros(bits) - 1
  BY <1>1
<1>3. z \in 0 .. Len(bits) - 1 /\ ~Bit(bits, z) /\ Rank0(bits, z) = n
  BY <1>2, Select0Finds
<1>3a. first = z + 1
  OBVIOUS
<1> HIDE DEF z
<1>4. first \in 0 .. Len(bits) /\ first \in Nat /\ z \in 0 .. Len(bits)
  BY <1>1, <1>3, <1>3a
<1>5. Rank0(bits, first) = n + 1
  <2>1. Rank0(bits, z + 1) = Rank0(bits, z) + 1
    BY <1>3, RankStep
  <2> QED
    BY <1>3, <1>3a, <2>1
<1>6. n <= z
  <2>1. Rank1(bits, z) \in Nat /\ Rank1(bits, z) + Rank0(bits, z) = z
    BY <1>4, RankType
  <2> QED
    BY <1>1, <1>3, <1>4, <2>1
<1>7. ASSUME NEW m \in DOMAIN parents, parents[m] = n
      PROVE  /\ m \in first - n - 1 .. Len(parents)
             /\ \A i \in first .. m + n + 1 : Bit(bits, i)
  <2>1. PICK p \in 0 .. Len(bits) - 1 : Bit(bits, p) /\ Rank1(bits, p) = m
    BY DEF Numbered
  <2>2. m \in Nat /\ m # 0 /\ m <= Len(parents) /\ p \in 0 .. Len(bits)
    BY <1>1
  <2>3. p = m + n + 1
    <3>1. parents[m] = p - m - 1
      BY <2>1, <2>2 DEF Numbered
    <3> QED
      BY <1>1, <1>7, <2>2, <3>1
  <2>4. Rank0(bits, p) = n + 1
    <3>1. Rank0(bits, p) \in Nat /\ Rank1(bits, p) + Rank0(bits, p) = p
      BY <2>2, RankType
    <3> DEFINE zeros == Rank0(bits, p)
    <3>2. zeros \in Nat /\ m + zeros = p /\ p = m + n + 1 /\ m \in Nat /\ n \in Nat
      BY <1>1, <2>1, <2>2, <2>3, <3>1
    <3> HIDE DEF zeros
    <3>3. zeros = n + 1
      BY ONLY <3>2
    <3> QED
      BY <3>3 DEF zeros
  <2>5. first <= p
    <3>1. CASE p <= z
      <4>1. z \in p .. Len(bits)
        <5>1. Len(bits) \in Nat /\ z \in 0 .. Len(bits) /\ p \in 0 .. Len(bits)
          BY <1>1, <1>4, <2>2
        <5> QED
          BY ONLY <3>1, <5>1
      <4>2. Rank0(bits, p) <= Rank0(bits, z)
        BY <2>2, <4>1, RankMonotone
      <4> QED
        BY <1>1, <1>3, <2>4, <4>2
    <3> QED
      BY <1>4, <1>3a, <2>2, <3>1
  <2>6. \A i \in first .. p - 1 : Bit(bits, i)
    <3>1. p \in first .. Len(bits)
      BY <2>2, <2>5
    <3> QED
      BY <1>4, <1>5, <2>4, <3>1, RunOfOnes
  <2>7. \A i \in first .. p : i \in first .. p - 1 \/ i = p
    BY <1>4, <2>2
  <2> QED
    BY <1>1, <1>4, <2>1, <2>2, <2>3, <2>5, <2>6, <2>7, SMTT(30)
<1>8. ASSUME NEW m \in first - n - 1 .. Len(parents),
             \A i \in first .. m + n + 1 : Bit(bits, i)
      PROVE  m \in DOMAIN parents /\ parents[m] = n
  <2> DEFINE p == m + n + 1
  <2>1. /\ m \in Nat /\ m <= Len(parents) /\ first <= p
        /\ p \in 0 .. Len(bits) - 1 /\ p \in 0 .. Len(bits)
        /\ p \in first .. Len(bits)
    BY <1>1, <1>4, <1>6, <1>3a
  <2>2. \A i \in first .. p - 1 : i \in first .. p
    BY <1>4, <2>1
  <2>3. Bit(bits, p) /\ \A i \in first .. p - 1 : Bit(bits, i)
    BY <1>4, <1>8, <2>1, <2>2
  <2> HIDE DEF p
  <2>4. Rank0(bits, p) = n + 1
    BY <1>4, <1>5, <2>1, <2>3, RunOfOnes
  <2>5. Rank1(bits, p) = m
    <3>1. Rank1(bits, p) \in Nat /\ Rank1(bits, p) + Rank0(bits, p) = p
      BY <2>1, RankType
    <3> QED
      BY <1>1, <2>1, <2>4, <3>1 DEF p
  <2>6. m # 0
    BY <1>1, <2>1, <2>3, <2>5 DEF Numbered, p
  <2>7. parents[m] = p - m - 1
    BY <2>1, <2>3, <2>5, <2>6 DEF Numbered
  <2> QED
    BY <1>1, <2>1, <2>6, <2>7 DEF p
<1> QED
  BY <1>7, <1>8

\* The 1s behind select0 of a node are its children and nothing else, in every
\* finished trie, for every keyset, setting, radix and hash: find_child() and
\* the enumeration may walk over them with no other bound (find_child).
THEOREM ChildrenFoundThm == Spec => []ChildrenFound
<1>1. ASSUME NEW t, WellFormed(t), Numbered(t.louds, t.parentOf),
             NEW n \in 0 .. Len(t.bases) - 1, NEW first,
             first = Select0(t.louds, n) + 1
      PROVE  {m \in DOMAIN t.parentOf : t.parentOf[m] = n} =
             {m \in first - n - 1 .. Len(t.parentOf) :
                \A i \in first .. m + n + 1 : Bit(t.louds, i)}
  <2>1. t.louds \in Seq(BOOLEAN) /\ t.parentOf \in Seq(Nat)
    BY <1>1 DEF WellFormed, BitsOK
  <2>2. Len(t.louds) \in Nat /\ Len(t.parentOf) \in Nat
    BY <2>1, LenProperties
  <2>3. Ones(t.louds) + Zeros(t.louds) = Len(t.louds)
    BY <2>1, <2>2, RankType DEF Ones, Zeros
  <2>4. /\ Zeros(t.louds) = Len(t.parentOf) + 3
        /\ Len(t.louds) = 2 * Len(t.parentOf) + 4
        /\ n \in 0 .. Len(t.parentOf)
    BY <1>1, <2>2, <2>3, SMTT(30) DEF WellFormed
  <2> DEFINE bits == t.louds
             parents == t.parentOf
  <2>5. /\ bits \in Seq(BOOLEAN) /\ parents \in Seq(Nat) /\ Numbered(bits, parents)
        /\ Zeros(bits) = Len(parents) + 3 /\ Len(bits) = 2 * Len(parents) + 4
        /\ n \in 0 .. Len(parents) /\ first = Select0(bits, n) + 1
    BY <1>1, <2>1, <2>4
  <2> HIDE DEF bits, parents
  <2>6. {m \in DOMAIN parents : parents[m] = n} =
        {m \in first - n - 1 .. Len(parents) :
           \A i \in first .. m + n + 1 : Bit(bits, i)}
    BY <2>5, NumberedChildren
  <2> QED
    BY <2>6 DEF bits, parents
<1>2. ASSUME Inv, NumberedInv, NEW t \in AllTries
      PROVE  WellFormed(t) /\ Numbered(t.louds, t.parentOf)
  BY <1>2 DEF Inv, StackOK, TrieOK, NumberedInv, AllTries
<1>3. Inv /\ NumberedInv => ChildrenFound
  BY <1>1, <1>2, Zenon DEF ChildrenFound
<1> QED
  BY <1>3, Invariance, NumberedAlways, PTL

-----------------------------------------------------------------------------
(* Keys, texts and what has been read of them.                           *)

\* What has been read of a text at position end, in a trie of level l.
Read(l, text, end) ==
  IF l = 1 THEN SubSeq(text, 1, end)
           ELSE SubSeq(text, Len(text) - end + 1, Len(text))

\* The text of a node, from that of its parent and that of the edge between.
Join(l, up, own) == IF l = 1 THEN up \o own ELSE own \o up

\* A segment has one byte for each label it covers.
LEMMA SegmentLabels ==
  ASSUME KeysOK, NEW k \in DOMAIN keys, NEW from \in Nat,
         NEW to \in from .. Len(keys[k].text)
  PROVE  /\ Segment(k, from, to) \in Seq(Byte)
         /\ Len(Segment(k, from, to)) = to - from
         /\ \A i \in 1 .. to - from :
              Segment(k, from, to)[i] = IF level = 1 THEN Label(k, from + i - 1)
                                                     ELSE Label(k, to - i)
<1> DEFINE text == keys[k].text
           len == Len(text)
<1>1. text \in Seq(Byte) /\ len \in Nat /\ to \in Nat /\ from <= to /\ to <= len
  BY KeyFields
<1>2. Segment(k, from, to) \in Seq(Byte)
  BY <1>1, SegmentType
<1> HIDE DEF text, len
<1>3. CASE level = 1
  <2>1. Segment(k, from, to) = SubSeq(text, from + 1, to)
    BY <1>3 DEF Segment, text
  <2>2. /\ Len(SubSeq(text, from + 1, to)) = to - from
        /\ \A i \in 1 .. to - from : SubSeq(text, from + 1, to)[i] = text[from + i]
    BY <1>1 DEF len
  <2>3. \A i \in 1 .. to - from : Label(k, from + i - 1) = text[from + i]
    <3> TAKE i \in 1 .. to - from
    <3>1. from + i - 1 + 1 = from + i
      BY <1>1
    <3> QED
      BY <1>3, <3>1 DEF Label, text
  <2> QED
    BY <1>2, <1>3, <2>1, <2>2, <2>3
<1>4. CASE level # 1
  <2>1. Segment(k, from, to) = SubSeq(text, len - to + 1, len - from)
    BY <1>4 DEF Segment, text, len
  <2>2. /\ Len(SubSeq(text, len - to + 1, len - from)) = to - from
        /\ \A i \in 1 .. to - from :
             SubSeq(text, len - to + 1, len - from)[i] = text[len - to + i]
    <3>1. len - to + 1 \in 1 .. len + 1 /\ len - from \in 0 .. len
      BY <1>1
    <3> QED
      BY <1>1, <3>1 DEF len
  <2>3. \A i \in 1 .. to - from : Label(k, to - i) = text[len - to + i]
    <3> TAKE i \in 1 .. to - from
    <3>1. len - (to - i) = len - to + i
      BY <1>1
    <3> QED
      BY <1>4, <3>1 DEF Label, text, len
  <2> QED
    BY <1>2, <1>4, <2>1, <2>2, <2>3
<1> QED
  BY <1>3, <1>4

\* It is the segment from the first position on.
LEMMA ReadIsSegment ==
  ASSUME KeysOK, NEW k \in DOMAIN keys, NEW end
  PROVE  Segment(k, 0, end) = Read(level, keys[k].text, end)
<1> DEFINE text == keys[k].text
           len == Len(text)
<1>1. len \in Nat
  BY KeyFields
<1>2. Segment(k, 0, end) = IF level = 1 THEN SubSeq(text, 0 + 1, end)
                           ELSE SubSeq(text, len - end + 1, len - 0)
  BY DEF Segment
<1>3. Read(level, text, end) = IF level = 1 THEN SubSeq(text, 1, end)
                               ELSE SubSeq(text, len - end + 1, len)
  BY DEF Read
<1> HIDE DEF text, len
<1>4. 0 + 1 = 1 /\ len - 0 = len
  BY <1>1
<1>5. Segment(k, 0, end) = Read(level, text, end)
  BY <1>2, <1>3, <1>4
<1> QED
  BY <1>5 DEF text

\* Two keys read the same up to a position if and only if their labels agree.
LEMMA ReadsAgree ==
  ASSUME KeysOK, NEW k \in DOMAIN keys, NEW l \in DOMAIN keys, NEW end \in Nat,
         end <= Len(keys[k].text), end <= Len(keys[l].text)
  PROVE  Read(level, keys[k].text, end) = Read(level, keys[l].text, end) <=>
           \A q \in 0 .. end - 1 : Label(k, q) = Label(l, q)
<1> DEFINE a == Segment(k, 0, end)
           b == Segment(l, 0, end)
<1>1. /\ end \in 0 .. Len(keys[k].text) /\ end \in 0 .. Len(keys[l].text)
      /\ 0 \in Nat
  BY KeyFields
<1>2. /\ a \in Seq(Byte) /\ Len(a) = end - 0
      /\ \A i \in 1 .. end - 0 :
           a[i] = IF level = 1 THEN Label(k, 0 + i - 1) ELSE Label(k, end - i)
  BY <1>1, SegmentLabels, Zenon
<1>3. /\ b \in Seq(Byte) /\ Len(b) = end - 0
      /\ \A i \in 1 .. end - 0 :
           b[i] = IF level = 1 THEN Label(l, 0 + i - 1) ELSE Label(l, end - i)
  BY <1>1, SegmentLabels, Zenon
<1> HIDE DEF a, b
<1>4. ASSUME a = b, NEW q \in 0 .. end - 1 PROVE Label(k, q) = Label(l, q)
  <2>1. CASE level = 1
    <3>1. q + 1 \in 1 .. end - 0 /\ 0 + (q + 1) - 1 = q
      OBVIOUS
    <3>2. a[q + 1] = Label(k, q) /\ b[q + 1] = Label(l, q)
      BY <1>2, <1>3, <2>1, <3>1
    <3> QED
      BY <1>4, <3>2
  <2>2. CASE level # 1
    <3>1. end - q \in 1 .. end - 0 /\ end - (end - q) = q
      OBVIOUS
    <3>2. a[end - q] = Label(k, q) /\ b[end - q] = Label(l, q)
      BY <1>2, <1>3, <2>2, <3>1
    <3> QED
      BY <1>4, <3>2
  <2> QED
    BY <2>1, <2>2
<1>5. ASSUME \A q \in 0 .. end - 1 : Label(k, q) = Label(l, q) PROVE a = b
  <2>1. \A i \in 1 .. end - 0 : 0 + i - 1 \in 0 .. end - 1 /\ end - i \in 0 .. end - 1
    OBVIOUS
  <2>2. \A i \in 1 .. Len(a) : a[i] = b[i]
    BY <1>2, <1>3, <1>5, <2>1
  <2> QED
    BY <1>2, <1>3, <2>2, SeqEqual
<1> QED
  <2>1. a = Read(level, keys[k].text, end) /\ b = Read(level, keys[l].text, end)
    BY ReadIsSegment DEF a, b
  <2> QED
    BY <1>4, <1>5, <2>1

\* Nothing is read in front of the first position, all of it up to the end.
LEMMA ReadEnds ==
  ASSUME NEW l, NEW text \in Seq(Byte)
  PROVE  Read(l, text, 0) = <<>> /\ Read(l, text, Len(text)) = text
<1> DEFINE len == Len(text)
<1>1. len \in Nat
  BY LenProperties
<1>2. SubSeq(text, 1, len) = text
  OBVIOUS
<1>3. SubSeq(text, 1, 0) = <<>>
  OBVIOUS
<1>4. SubSeq(text, len + 1, len) = <<>>
  BY <1>1
<1>5. len - len + 1 = 1 /\ len - 0 + 1 = len + 1
  BY <1>1
<1> QED
  BY <1>2, <1>3, <1>4, <1>5 DEF Read

\* Reading on joins what has been read and the segment that follows.
LEMMA ReadOn ==
  ASSUME KeysOK, NEW k \in DOMAIN keys, NEW from \in Nat,
         NEW to \in from .. Len(keys[k].text)
  PROVE  Read(level, keys[k].text, to) =
           Join(level, Read(level, keys[k].text, from), Segment(k, from, to))
<1> DEFINE text == keys[k].text
           len == Len(text)
<1>1. text \in Seq(Byte) /\ len \in Nat /\ to \in Nat /\ from <= to /\ to <= len
  BY KeyFields
<1> HIDE DEF text, len
<1>2. CASE level = 1
  <2>1. Read(level, text, to) = SubSeq(text, 1, to) /\ Read(level, text, from) = SubSeq(text, 1, from)
        /\ Segment(k, from, to) = SubSeq(text, from + 1, to)
    BY <1>2 DEF Segment, Read, text
  <2>2. SubSeq(text, 1, to) = SubSeq(text, 1, from) \o SubSeq(text, from + 1, to)
    <3>1. 1 \in 1 .. Len(text) + 1 /\ from \in 1 - 1 .. Len(text) /\ to \in from .. Len(text)
      BY <1>1 DEF len
    <3> QED
      BY <1>1, <3>1, ConcatAdjacentSubSeq
  <2> QED
    BY <1>2, <2>1, <2>2 DEF Join, text
<1>3. CASE level # 1
  <2>1. /\ Read(level, text, to) = SubSeq(text, len - to + 1, len)
        /\ Read(level, text, from) = SubSeq(text, len - from + 1, len)
        /\ Segment(k, from, to) = SubSeq(text, len - to + 1, len - from)
    BY <1>3 DEF Segment, Read, text, len
  <2>2. SubSeq(text, len - to + 1, len) =
          SubSeq(text, len - to + 1, len - from) \o SubSeq(text, len - from + 1, len)
    <3> DEFINE x == len - to
               y == len - from
    <3>1. x \in Nat /\ y \in Nat /\ x <= y /\ y <= len
      BY <1>1
    <3> HIDE DEF x, y
    <3>2. PICK m \in 1 .. Len(text) + 1 : m = x + 1
      BY <1>1, <3>1 DEF len
    <3>4. y \in m - 1 .. Len(text) /\ len \in y .. Len(text)
      BY <1>1, <3>1, <3>2 DEF len
    <3>3. SubSeq(text, x + 1, len) = SubSeq(text, x + 1, y) \o SubSeq(text, y + 1, len)
      BY <1>1, <3>2, <3>4, ConcatAdjacentSubSeq
    <3> QED
      BY <3>3 DEF x, y
  <2> QED
    BY <1>3, <2>1, <2>2 DEF Join, text
<1> QED
  BY <1>2, <1>3

\* The segment of one label.
LEMMA SegmentOfOne ==
  ASSUME KeysOK, NEW k \in DOMAIN keys, NEW q \in Nat, q < Len(keys[k].text)
  PROVE  Segment(k, q, q + 1) = <<Label(k, q)>>
<1>1. PICK to \in q .. Len(keys[k].text) : to = q + 1
  BY KeyFields
<1> DEFINE s == Segment(k, q, to)
<1>2. /\ s \in Seq(Byte) /\ Len(s) = to - q
      /\ \A i \in 1 .. to - q :
           s[i] = IF level = 1 THEN Label(k, q + i - 1) ELSE Label(k, to - i)
  BY SegmentLabels
<1>3. s = Segment(k, q, q + 1)
  BY <1>1
<1> HIDE DEF s
<1>4. to - q = 1 /\ 1 \in 1 .. to - q /\ q + 1 - 1 = q /\ to - 1 = q
  BY <1>1
<1>5. Len(s) = 1 /\ s[1] = Label(k, q)
  BY <1>2, <1>4
<1>6. s = <<s[1]>>
  <2>1. Len(<<s[1]>>) = 1 /\ <<s[1]>>[1] = s[1]
    OBVIOUS
  <2>2. 1 \in 1 .. Len(s)
    BY <1>5
  <2>3. s[1] \in Byte
    BY <1>2, <2>2, ElementOfSeq
  <2>4. <<s[1]>> \in Seq(Byte)
    BY <2>3
  <2>5. \A i \in 1 .. Len(s) : s[i] = <<s[1]>>[i]
    BY <1>5, <2>1
  <2> QED
    BY <1>2, <1>5, <2>1, <2>4, <2>5, SeqEqual
<1> QED
  BY <1>3, <1>5, <1>6
-----------------------------------------------------------------------------
\* Every node of the trie under construction has a text.
TextOfOK ==
  Building => textOf \in Seq(Seq(Byte)) /\ Len(textOf) = Len(linkFlags)

\* A set of keys that has with a key all keys of the same text.
Whole(S, ks) ==
  \A k \in S : \A l \in DOMAIN ks : ks[k].text = ks[l].text => l \in S

\* The keys of the range that have been put under a label.
InGroups == UNION {groups[b].keys : b \in DOMAIN groups}

\* The keys that have not got their terminal.
Waiting ==
  (UNION {queue[i].keys : i \in DOMAIN queue})
    \cup (IF Opened THEN rest \cup InGroups ELSE {})

\* A range of the queue has all keys of a text or none, and all of them read,
\* up to the position of the range, as the node it is kept for.
QueuedOK ==
  Building =>
    \A i \in DOMAIN queue :
      /\ Whole(queue[i].keys, keys)
      /\ \A k \in queue[i].keys :
           textOf[Len(linkFlags) - Len(queue) + i] =
             Read(level, keys[k].text, queue[i].pos)

\* So do the keys of the range that has been taken from the queue, and each of
\* them has the label of the group it is in.
OpenedOK ==
  Opened =>
    /\ \A k \in rest \cup InGroups : textOf[node + 1] = Read(level, keys[k].text, pos)
    /\ \A b \in DOMAIN groups : \A k \in groups[b].keys :
         pos < Len(keys[k].text) /\ Label(k, pos) = b
    /\ phase = "group" => Whole(rest \cup InGroups, keys)
    /\ phase = "children" =>
         rest = {} /\ \A b \in DOMAIN groups : Whole(groups[b].keys, keys)

\* A key that waits no longer has the node of its text as its terminal, and
\* shares it with the keys of the same text.
EndedOK ==
  Building =>
    \A k \in DOMAIN keys \ Waiting :
      /\ keys[k].word < Len(linkFlags)
      /\ textOf[keys[k].word + 1] = keys[k].text
      /\ \A l \in DOMAIN keys \ Waiting :
           keys[k].text = keys[l].text => keys[k].word = keys[l].word

PlacedInv == TextOfOK /\ QueuedOK /\ OpenedOK /\ EndedOK

\* Where the elements of a concatenation are.
LEMMA ConcatFacts ==
  ASSUME NEW s \in Seq(BOOLEAN), NEW t \in Seq(BOOLEAN)
  PROVE  /\ Len(s \o t) = Len(s) + Len(t)
         /\ \A i \in 1 .. Len(s) : (s \o t)[i] = s[i]
         /\ \A i \in 1 .. Len(t) : (s \o t)[Len(s) + i] = t[i]
BY ConcatProperties, LenProperties

\* A step that changes no text of a key leaves whole sets whole.
LEMMA StaysWhole ==
  ASSUME NEW ks, NEW ls, NEW S \in SUBSET DOMAIN ks, Whole(S, ks),
         DOMAIN ls = DOMAIN ks, \A k \in DOMAIN ks : ls[k].text = ks[k].text
  PROVE  Whole(S, ls)
  BY DEF Whole

\* Whatever leaves the loops of build_current_trie() has nothing to place.
LEMMA PlacedElsewhere ==
  ASSUME ~Building'
  PROVE  PlacedInv'
<1>1. ~Opened'
  BY DEF Building, Opened
<1> QED
  BY <1>1 DEF PlacedInv, TextOfOK, QueuedOK, OpenedOK, EndedOK

\* BeginTrie: all keys wait for the root, which has the text they start with.
LEMMA PlacedBegin == Inv /\ BeginTrie => PlacedInv'
<1> SUFFICES ASSUME Inv, BeginTrie PROVE PlacedInv'
  OBVIOUS
<1> DEFINE all == [keys |-> DOMAIN keys, pos |-> 0]
<1>1. /\ phase' = "pop" /\ queue' = <<all>> /\ textOf' = << <<>> >>
      /\ linkFlags' = <<FALSE>> /\ UNCHANGED <<keys, level>>
  BY DEF BeginTrie
<1>2. Building' /\ ~Opened'
  BY <1>1 DEF Building, Opened
<1>3. KeysOK
  BY DEF Inv
<1>4. all.keys = DOMAIN keys /\ all.pos = 0
  OBVIOUS
<1> HIDE DEF all
<1>5. DOMAIN queue' = {1} /\ queue'[1] = all /\ Len(queue') = 1 /\ Len(linkFlags') = 1
      /\ textOf'[1] = <<>> /\ Len(textOf') = 1
  BY <1>1
<1>6. \A k \in DOMAIN keys : Read(level, keys[k].text, 0) = <<>>
  BY <1>3, KeyFields, ReadEnds
<1>7. Whole(DOMAIN keys, keys)
  BY DEF Whole
<1>8. TextOfOK'
  <2>1. <<>> \in Seq(Byte)
    OBVIOUS
  <2>2. << <<>> >> \in Seq(Seq(Byte))
    BY <2>1
  <2> QED
    BY <1>1, <1>5, <2>2 DEF TextOfOK
<1>9. QueuedOK'
  <2>1. 1 - 1 + 1 = 1
    OBVIOUS
  <2> QED
    BY <1>1, <1>4, <1>5, <1>6, <1>7, <2>1 DEF QueuedOK
<1>10. OpenedOK'
  BY <1>2 DEF OpenedOK
<1>11. EndedOK'
  <2>1. DOMAIN keys' \subseteq Waiting'
    BY <1>1, <1>4, <1>5 DEF Waiting
  <2> QED
    BY <2>1 DEF EndedOK
<1> QED
  BY <1>8, <1>9, <1>10, <1>11 DEF PlacedInv

\* OpenNode: a key that ends here gets the node that has its text; the rest
\* read on from there.
LEMMA PlacedOpen == Inv /\ OpenNode /\ PlacedInv => PlacedInv'
<1> SUFFICES ASSUME Inv, OpenNode, PlacedInv PROVE PlacedInv'
  OBVIOUS
<1> DEFINE n == Len(linkFlags) - Len(queue)
           range == Head(queue)
           ended == {k \in range.keys : Len(keys[k].text) = range.pos}
<1>1. /\ phase = "pop" /\ phase' = "group" /\ queue # <<>>
      /\ node' = n /\ pos' = range.pos /\ rest' = range.keys \ ended
      /\ queue' = Tail(queue) /\ groups' = <<>>
      /\ keys' = [k \in DOMAIN keys |->
                   IF k \in ended THEN [keys[k] EXCEPT !.word = n] ELSE keys[k]]
      /\ UNCHANGED <<level, linkFlags, textOf>>
  BY DEF OpenNode, NodeNumber, bitVars
<1>2. Building /\ Building' /\ ~Opened /\ Opened'
  BY <1>1 DEF Building, Opened
<1>3. /\ KeysOK /\ queue \in Seq(RangeType)
      /\ \A i \in DOMAIN queue : \A k \in queue[i].keys :
           queue[i].pos <= Len(keys[k].text)
  BY <1>2 DEF Inv, QueueOK
<1>4. /\ Tail(queue) \in Seq(RangeType)
      /\ Len(Tail(queue)) = Len(queue) - 1
      /\ \A i \in 1 .. Len(Tail(queue)) : Tail(queue)[i] = queue[i + 1]
      /\ Len(queue) \in Nat \ {0}
      /\ range = queue[1]
  BY <1>1, <1>3, HeadTailProperties, LenProperties, EmptySeq
<1>5. /\ 1 \in DOMAIN queue
      /\ DOMAIN queue' = 1 .. Len(queue) - 1
      /\ Len(queue') = Len(queue) - 1
      /\ \A i \in DOMAIN queue' : i + 1 \in DOMAIN queue /\ queue'[i] = queue[i + 1]
      /\ \A i \in DOMAIN queue : i = 1 \/ i - 1 \in DOMAIN queue'
      /\ \A i \in DOMAIN queue : i \in Int /\ i - 1 + 1 = i
  BY <1>1, <1>3, <1>4, LenProperties
<1>6. range \in RangeType /\ range.keys \subseteq DOMAIN keys /\ range.pos \in Nat
  <2>1. queue[1] \in RangeType
    BY <1>3, <1>5, ElementOfSeq, LenProperties
  <2> QED
    BY <1>4, <2>1 DEF RangeType
<1>7. Len(linkFlags) \in Nat /\ n \in Nat /\ n < Len(linkFlags) /\ n + 1 = Len(linkFlags) - Len(queue) + 1
  <2>1. Len(linkFlags) \in Nat
    BY LenProperties DEF Inv, CurrentOK, BitsOK
  <2>2. Zeros(louds) + Len(queue) = Len(linkFlags) + 1 /\ Zeros(louds) \in Nat \ {0}
    BY <1>1, <1>2 DEF Inv, ShapeOK
  <2> QED
    BY <1>4, <2>1, <2>2
<1>8. /\ DOMAIN keys' = DOMAIN keys
      /\ \A k \in DOMAIN keys : keys'[k].text = keys[k].text
      /\ \A k \in DOMAIN keys : keys'[k].word = IF k \in ended THEN n ELSE keys[k].word
  <2>1. \A k \in DOMAIN keys : keys[k] \in KeyType
    BY <1>3, ElementOfSeq, LenProperties DEF KeysOK
  <2> HIDE DEF n, range, ended
  <2> QED
    BY <1>1, <2>1 DEF KeyType
<1>9. \A S \in SUBSET DOMAIN keys : Whole(S, keys) => Whole(S, keys')
  BY <1>8, StaysWhole
<1>10. /\ Whole(range.keys, keys)
       /\ \A k \in range.keys :
            textOf[n + 1] = Read(level, keys[k].text, range.pos)
  <2>1. /\ Whole(queue[1].keys, keys)
        /\ \A k \in queue[1].keys :
             textOf[Len(linkFlags) - Len(queue) + 1] =
               Read(level, keys[k].text, queue[1].pos)
    BY <1>2, <1>5 DEF PlacedInv, QueuedOK
  <2> HIDE DEF range
  <2> QED
    BY <1>4, <1>7, <2>1
<1>11. InGroups' = {}
  <2>1. DOMAIN groups' = {}
    BY <1>1
  <2> QED
    BY <2>1 DEF InGroups
<1> HIDE DEF n
<1>12. TextOfOK'
  BY <1>1, <1>2 DEF PlacedInv, TextOfOK
<1>13. QueuedOK'
  <2> SUFFICES ASSUME NEW i \in DOMAIN queue'
               PROVE  /\ Whole(queue'[i].keys, keys')
                      /\ \A k \in queue'[i].keys :
                           textOf'[Len(linkFlags') - Len(queue') + i] =
                             Read(level', keys'[k].text, queue'[i].pos)
    BY DEF QueuedOK
  <2>1. i + 1 \in DOMAIN queue /\ queue'[i] = queue[i + 1] /\ i \in Int
    BY <1>5
  <2>2. Len(linkFlags') - Len(queue') + i = Len(linkFlags) - Len(queue) + (i + 1)
    BY <1>1, <1>4, <1>5, <1>7, <2>1
  <2>3. queue[i + 1].keys \subseteq DOMAIN keys
    <3>1. queue[i + 1] \in RangeType
      BY <1>3, <2>1, ElementOfSeq, LenProperties
    <3> QED
      BY <3>1 DEF RangeType
  <2>4. /\ Whole(queue[i + 1].keys, keys)
        /\ \A k \in queue[i + 1].keys :
             textOf[Len(linkFlags) - Len(queue) + (i + 1)] =
               Read(level, keys[k].text, queue[i + 1].pos)
    BY <1>2, <2>1 DEF PlacedInv, QueuedOK
  <2> QED
    BY <1>1, <1>8, <1>9, <2>1, <2>2, <2>3, <2>4
<1>14. OpenedOK'
  <2>1. \A k \in rest' : textOf'[node' + 1] = Read(level', keys'[k].text, pos')
    BY <1>1, <1>6, <1>8, <1>10
  <2>2. Whole(rest', keys')
    <3> SUFFICES ASSUME NEW k \in rest', NEW l \in DOMAIN keys',
                        keys'[k].text = keys'[l].text
                 PROVE  l \in rest'
      BY DEF Whole
    <3>1. keys[k].text = keys[l].text /\ k \in range.keys /\ l \in DOMAIN keys
      BY <1>1, <1>6, <1>8
    <3>2. l \in range.keys
      BY <1>10, <3>1 DEF Whole
    <3> QED
      BY <1>1, <3>1, <3>2
  <2>3. DOMAIN groups' = {} /\ rest' \cup InGroups' = rest'
    BY <1>1, <1>11
  <2> QED
    BY <1>1, <2>1, <2>2, <2>3 DEF OpenedOK
<1>15. EndedOK'
  <2>1. \A k \in DOMAIN keys \ Waiting' :
          k \in ended \/ (k \in DOMAIN keys \ Waiting /\ k \notin range.keys)
    <3> SUFFICES ASSUME NEW k \in DOMAIN keys, k \notin Waiting', k \notin ended
                 PROVE  k \notin Waiting /\ k \notin range.keys
      BY DEF ended
    <3>3. rest' \subseteq Waiting'
      BY <1>2 DEF Waiting
    <3>1. k \notin range.keys
      BY <1>1, <3>3
    <3>2. \A i \in DOMAIN queue : k \notin queue[i].keys
      <4> SUFFICES ASSUME NEW i \in DOMAIN queue, k \in queue[i].keys PROVE FALSE
        OBVIOUS
      <4>1. i # 1 /\ i - 1 \in DOMAIN queue' /\ i - 1 + 1 = i
        BY <1>4, <1>5, <3>1
      <4>2. queue'[i - 1] = queue[i]
        BY <1>5, <4>1
      <4> QED
        BY <4>1, <4>2 DEF Waiting
    <3> QED
      BY <1>2, <3>1, <3>2 DEF Waiting
  <2>2. \A k \in ended : k \in range.keys /\ Len(keys[k].text) = range.pos /\ k \in DOMAIN keys
    BY <1>6
  <2>3. \A k \in ended : textOf[n + 1] = keys[k].text
    BY <1>3, <1>10, <2>2, KeyFields, ReadEnds
  <2>4. \A k \in DOMAIN keys \ Waiting' : k \notin ended =>
          /\ k \in DOMAIN keys \ Waiting /\ k \notin range.keys
          /\ keys'[k].word = keys[k].word /\ keys'[k].text = keys[k].text
    BY <1>8, <2>1
  <2>5. \A k \in ended : keys'[k].word = n /\ keys'[k].text = keys[k].text
    BY <1>8, <2>2
  <2> HIDE DEF range, ended
  <2>6. ASSUME NEW k \in DOMAIN keys \ Waiting'
        PROVE  keys'[k].word < Len(linkFlags) /\ textOf[keys'[k].word + 1] = keys'[k].text
    <3>1. CASE k \in ended
      BY <1>7, <2>3, <2>5, <3>1
    <3>2. CASE k \notin ended
      BY <1>2, <2>4, <3>2 DEF PlacedInv, EndedOK
    <3> QED
      BY <3>1, <3>2
  <2>7. ASSUME NEW k \in DOMAIN keys \ Waiting', NEW l \in DOMAIN keys \ Waiting',
               keys'[k].text = keys'[l].text
        PROVE  keys'[k].word = keys'[l].word
    <3>1. CASE k \in ended /\ l \in ended
      BY <2>5, <3>1
    <3>2. CASE k \notin ended /\ l \notin ended
      BY <1>2, <2>4, <2>7, <3>2 DEF PlacedInv, EndedOK
    <3>3. CASE k \in ended /\ l \notin ended
      BY <1>10, <2>2, <2>4, <2>5, <2>7, <3>3 DEF Whole
    <3>4. CASE k \notin ended /\ l \in ended
      BY <1>10, <2>2, <2>4, <2>5, <2>7, <3>4 DEF Whole
    <3> QED
      BY <3>1, <3>2, <3>3, <3>4
  <2> QED
    BY <1>1, <1>8, <2>6, <2>7 DEF EndedOK
<1> QED
  BY <1>12, <1>13, <1>14, <1>15 DEF PlacedInv

\* GroupKey: a key goes from the rest into the group of its label.
LEMMA PlacedGroupKey == Inv /\ GroupKey /\ PlacedInv => PlacedInv'
<1> SUFFICES ASSUME Inv, GroupKey, PlacedInv PROVE PlacedInv'
  OBVIOUS
<1>1. /\ phase = "group" /\ phase' = "group"
      /\ UNCHANGED <<level, keys, queue, node, pos, linkFlags, textOf>>
  BY DEF GroupKey, bitVars
<1>2. Building /\ Building' /\ Opened /\ Opened'
  BY <1>1 DEF Building, Opened
<1> DEFINE before(b) == IF b \in DOMAIN groups THEN groups[b]
                        ELSE [keys |-> {}, weight |-> 0]
           after(k, b) == [keys |-> before(b).keys \cup {k},
                           weight |-> before(b).weight + keys[k].word]
<1>3. PICK k \in rest :
        /\ rest' = rest \ {k}
        /\ groups' = [b \in DOMAIN groups \cup {Label(k, pos)} |->
                       IF b = Label(k, pos) THEN after(k, Label(k, pos))
                       ELSE groups[b]]
  BY DEF GroupKey
<1> DEFINE label == Label(k, pos)
<1>4. k \in DOMAIN keys /\ pos < Len(keys[k].text)
  BY <1>2 DEF Inv, NodeOK
<1>5. /\ DOMAIN groups' = DOMAIN groups \cup {label}
      /\ groups'[label].keys =
           (IF label \in DOMAIN groups THEN groups[label].keys ELSE {}) \cup {k}
      /\ \A b \in DOMAIN groups : b # label => groups'[b] = groups[b]
  BY <1>3
<1> HIDE DEF label
<1>6. InGroups' = InGroups \cup {k}
  <2>1. \A b \in DOMAIN groups' : groups'[b].keys \subseteq InGroups \cup {k}
    BY <1>5 DEF InGroups
  <2>2. \A b \in DOMAIN groups : groups[b].keys \subseteq groups'[b].keys
    BY <1>5
  <2>3. k \in InGroups'
    BY <1>5 DEF InGroups
  <2>4. InGroups' \subseteq InGroups \cup {k}
    BY <2>1 DEF InGroups
  <2>5. InGroups \subseteq InGroups'
    BY <1>5, <2>2 DEF InGroups
  <2> QED
    BY <2>3, <2>4, <2>5
<1>7. rest' \cup InGroups' = rest \cup InGroups
  BY <1>3, <1>6
<1>8. TextOfOK' /\ QueuedOK'
  BY <1>1, <1>2 DEF PlacedInv, TextOfOK, QueuedOK
<1>9. OpenedOK'
  <2>1. ASSUME NEW b \in DOMAIN groups', NEW l \in groups'[b].keys
        PROVE  pos < Len(keys[l].text) /\ Label(l, pos) = b
    <3>1. CASE l = k /\ b = label
      BY <1>4, <3>1 DEF label
    <3>2. CASE b \in DOMAIN groups /\ l \in groups[b].keys
      BY <1>2, <3>2 DEF PlacedInv, OpenedOK
    <3> QED
      BY <1>5, <3>1, <3>2
  <2>2. \A b \in DOMAIN groups' : \A l \in groups'[b].keys :
          pos' < Len(keys'[l].text) /\ Label(l, pos)' = b
    BY <1>1, <2>1 DEF Label
  <2> QED
    BY <1>1, <1>2, <1>7, <2>2 DEF PlacedInv, OpenedOK
<1>10. EndedOK'
  <2>1. Waiting' = Waiting
    BY <1>1, <1>2, <1>7 DEF Waiting
  <2> QED
    BY <1>1, <1>2, <2>1 DEF PlacedInv, EndedOK
<1> QED
  BY <1>8, <1>9, <1>10 DEF PlacedInv

\* Grouped: keys of the same text have the same label, so each group is whole.
LEMMA PlacedGrouped == Inv /\ Grouped /\ PlacedInv => PlacedInv'
<1> SUFFICES ASSUME Inv, Grouped, PlacedInv PROVE PlacedInv'
  OBVIOUS
<1>1. /\ phase = "group" /\ phase' = "children" /\ rest = {}
      /\ UNCHANGED <<level, keys, queue, node, pos, rest, groups, linkFlags, textOf>>
  BY DEF Grouped, rangeVars
<1>2. Building /\ Building' /\ Opened /\ Opened'
  BY <1>1 DEF Building, Opened
<1>3. InGroups' = InGroups
  BY <1>1 DEF InGroups
<1>4. TextOfOK' /\ QueuedOK'
  BY <1>1, <1>2 DEF PlacedInv, TextOfOK, QueuedOK
<1>5. ASSUME NEW b \in DOMAIN groups, NEW k \in groups[b].keys,
             NEW l \in DOMAIN keys, keys[k].text = keys[l].text
      PROVE  l \in groups[b].keys
  <2>1. Whole(rest \cup InGroups, keys) /\ k \in rest \cup InGroups
    BY <1>1, <1>2 DEF PlacedInv, OpenedOK, InGroups
  <2>2. l \in InGroups
    BY <1>1, <1>5, <2>1 DEF Whole
  <2>3. PICK c \in DOMAIN groups : l \in groups[c].keys
    BY <2>2 DEF InGroups
  <2>4. Label(k, pos) = b /\ Label(l, pos) = c
    BY <1>2, <2>3 DEF PlacedInv, OpenedOK
  <2>5. Label(k, pos) = Label(l, pos)
    BY <1>5 DEF Label
  <2> QED
    BY <2>3, <2>4, <2>5
<1>6. OpenedOK'
  <2>1. \A b \in DOMAIN groups : Whole(groups[b].keys, keys)
    BY <1>5 DEF Whole
  <2>2. \A b \in DOMAIN groups : \A k \in groups[b].keys :
          pos' < Len(keys'[k].text) /\ Label(k, pos)' = b
    BY <1>1, <1>2 DEF PlacedInv, OpenedOK, Label
  <2> QED
    BY <1>1, <1>2, <1>3, <2>1, <2>2 DEF PlacedInv, OpenedOK
<1>7. EndedOK'
  <2>1. Waiting' = Waiting
    BY <1>1, <1>2, <1>3 DEF Waiting
  <2> QED
    BY <1>1, <1>2, <2>1 DEF PlacedInv, EndedOK
<1> QED
  BY <1>4, <1>6, <1>7 DEF PlacedInv

\* CloseNode: nothing is left of the range.
LEMMA PlacedClose == Inv /\ CloseNode /\ PlacedInv => PlacedInv'
<1> SUFFICES ASSUME Inv, CloseNode, PlacedInv PROVE PlacedInv'
  OBVIOUS
<1>1. /\ phase = "children" /\ phase' = "pop" /\ DOMAIN groups = {}
      /\ UNCHANGED <<level, keys, queue, linkFlags, textOf>>
  BY DEF CloseNode
<1>2. Building /\ Building' /\ Opened /\ ~Opened'
  BY <1>1 DEF Building, Opened
<1>3. TextOfOK' /\ QueuedOK'
  BY <1>1, <1>2 DEF PlacedInv, TextOfOK, QueuedOK
<1>4. OpenedOK'
  BY <1>2 DEF OpenedOK
<1>5. EndedOK'
  <2>1. rest = {}
    BY <1>1, <1>2 DEF PlacedInv, OpenedOK
  <2>2. InGroups = {}
    BY <1>1 DEF InGroups
  <2>3. Waiting' = Waiting
    BY <1>1, <1>2, <2>1, <2>2 DEF Waiting
  <2> QED
    BY <1>1, <1>2, <2>3 DEF PlacedInv, EndedOK
<1> QED
  BY <1>3, <1>4, <1>5 DEF PlacedInv

\* What AddChild does with the keys of the group it takes: the edge reads as
\* each of them between pos and end.
LEMMA ChildTaken ==
  ASSUME Inv, AddChild
  PROVE  \E b \in DOMAIN groups : \E first \in groups[b].keys : \E end \in Nat :
           /\ pos < end /\ end <= Len(keys[first].text)
           /\ Shared(groups[b].keys, end)
           /\ queue' = Append(queue, [keys |-> groups[b].keys, pos |-> end])
           /\ textOf' = Append(textOf, Segment(first, 0, end))
           /\ \/ /\ end = pos + 1
                 /\ bases' = Append(bases, b)
                 /\ linkFlags' = Append(linkFlags, FALSE)
                 /\ nextKeys' = nextKeys
              \/ /\ bases' = Append(bases, 0)
                 /\ linkFlags' = Append(linkFlags, TRUE)
                 /\ nextKeys' = Append(nextKeys,
                      [text |-> Segment(first, pos, end), word |-> groups[b].weight])
           /\ groups' = [c \in DOMAIN groups \ {b} |-> groups[c]]
           /\ cache' = CacheWith(node, Len(bases), groups[b].weight, b)
           /\ \A c \in DOMAIN groups \ {b} : Precedes(b, c)
<1> DEFINE first(b) == CHOOSE k \in groups[b].keys : TRUE
           Takes(b, k, end) ==
             /\ Shared(groups[b].keys, end)
             /\ queue' = Append(queue, [keys |-> groups[b].keys, pos |-> end])
             /\ textOf' = Append(textOf, Segment(k, 0, end))
             /\ \/ /\ end = pos + 1
                   /\ bases' = Append(bases, b)
                   /\ linkFlags' = Append(linkFlags, FALSE)
                   /\ nextKeys' = nextKeys
                \/ /\ bases' = Append(bases, 0)
                   /\ linkFlags' = Append(linkFlags, TRUE)
                   /\ nextKeys' = Append(nextKeys,
                        [text |-> Segment(k, pos, end), word |-> groups[b].weight])
             /\ groups' = [c \in DOMAIN groups \ {b} |-> groups[c]]
             /\ cache' = CacheWith(node, Len(bases), groups[b].weight, b)
             /\ \A c \in DOMAIN groups \ {b} : Precedes(b, c)
<1>1. \E b \in DOMAIN groups : \E end \in pos + 1 .. Len(keys[first(b)].text) :
        Takes(b, first(b), end)
  BY DEF AddChild
<1>2. Opened /\ KeysOK
  BY DEF AddChild, Opened, Inv
<1>3. \A b \in DOMAIN groups :
        groups[b].keys # {} /\ groups[b].keys \subseteq DOMAIN keys
  BY <1>2 DEF Inv, GroupsOK
<1>4. \A b \in DOMAIN groups :
        first(b) \in groups[b].keys /\ Len(keys[first(b)].text) \in Nat
  BY <1>2, <1>3, KeyFields
<1>5. pos \in Nat
  BY <1>2 DEF Inv, NodeOK
<1> HIDE DEF first, Takes
<1>6. PICK b \in DOMAIN groups : \E end \in pos + 1 .. Len(keys[first(b)].text) :
        Takes(b, first(b), end)
  BY <1>1
<1>7. PICK end \in pos + 1 .. Len(keys[first(b)].text) : Takes(b, first(b), end)
  BY <1>6
<1>8. /\ first(b) \in groups[b].keys /\ end \in Nat /\ pos < end
      /\ end <= Len(keys[first(b)].text)
  BY <1>4, <1>5, <1>7
<1>9. PICK k \in groups[b].keys : k = first(b)
  BY <1>8
<1>10. Takes(b, k, end) /\ end \in Nat /\ pos < end /\ end <= Len(keys[k].text)
  BY <1>7, <1>8, <1>9
<1> QED
  BY <1>10 DEF Takes

\* The numbers that hold the node being opened and the queue together.
LEMMA OpenedNumbers ==
  ASSUME Inv, Opened
  PROVE  /\ Len(linkFlags) \in Nat /\ Len(queue) \in Nat
         /\ Len(queue) <= Len(linkFlags)
         /\ node \in Nat /\ node < Len(linkFlags)
         /\ Building /\ KeysOK /\ queue \in Seq(RangeType)
<1>1. Building /\ KeysOK
  BY DEF Opened, Building, Inv
<1>2. queue \in Seq(RangeType) /\ linkFlags \in Seq(BOOLEAN) /\ node \in Nat
  BY <1>1 DEF Inv, QueueOK, CurrentOK, BitsOK, NodeOK
<1>3. Zeros(louds) \in Nat \ {0} /\ Zeros(louds) + Len(queue) = Len(linkFlags)
      /\ Zeros(louds) = node + 1
  BY <1>1 DEF Inv, ShapeOK
<1> QED
  BY <1>1, <1>2, <1>3, LenProperties

\* The keys that share an edge read the same up to its end.
LEMMA GroupReads ==
  ASSUME Inv, Opened, PlacedInv, NEW b \in DOMAIN groups,
         NEW first \in groups[b].keys, NEW end \in Nat, pos < end,
         Shared(groups[b].keys, end), NEW k \in groups[b].keys
  PROVE  /\ end <= Len(keys[k].text)
         /\ Read(level, keys[k].text, end) = Read(level, keys[first].text, end)
<1>1. k \in DOMAIN keys /\ first \in DOMAIN keys /\ pos \in Nat /\ KeysOK
  BY DEF Inv, GroupsOK, NodeOK
<1>2. /\ end <= Len(keys[k].text) /\ end <= Len(keys[first].text)
      /\ \A q \in pos .. end - 1 : Label(k, q) = Label(first, q)
  BY DEF Shared
<1>3. Read(level, keys[k].text, pos) = Read(level, keys[first].text, pos)
  <2>1. k \in InGroups /\ first \in InGroups
    BY DEF InGroups
  <2> QED
    BY <2>1 DEF PlacedInv, OpenedOK
<1>4. pos <= Len(keys[k].text) /\ pos <= Len(keys[first].text)
  <2>1. Len(keys[k].text) \in Nat /\ Len(keys[first].text) \in Nat
    BY <1>1, KeyFields
  <2> QED
    BY <1>1, <1>2, <2>1
<1>5. \A q \in 0 .. pos - 1 : Label(k, q) = Label(first, q)
  BY <1>1, <1>3, <1>4, ReadsAgree
<1>6. \A q \in 0 .. end - 1 : Label(k, q) = Label(first, q)
  <2> SUFFICES ASSUME NEW q \in 0 .. end - 1 PROVE Label(k, q) = Label(first, q)
    OBVIOUS
  <2>1. q \in 0 .. pos - 1 \/ q \in pos .. end - 1
    BY <1>1
  <2> QED
    BY <1>2, <1>5, <2>1
<1> QED
  BY <1>1, <1>2, <1>6, ReadsAgree

\* AddChild: the group waits on for the new node, which has the text all of
\* its keys have in common.
LEMMA PlacedAddChild == Inv /\ AddChild /\ PlacedInv => PlacedInv'
<1> SUFFICES ASSUME Inv, AddChild, PlacedInv PROVE PlacedInv'
  OBVIOUS
<1>1. /\ phase = "children" /\ phase' = "children"
      /\ UNCHANGED <<level, keys, node, pos, rest>>
  BY DEF AddChild
<1>2. Building /\ Building' /\ Opened /\ Opened'
  BY <1>1 DEF Building, Opened
<1>3. PICK b \in DOMAIN groups : \E first \in groups[b].keys : \E end \in Nat :
        /\ pos < end /\ end <= Len(keys[first].text)
        /\ Shared(groups[b].keys, end)
        /\ queue' = Append(queue, [keys |-> groups[b].keys, pos |-> end])
        /\ textOf' = Append(textOf, Segment(first, 0, end))
        /\ linkFlags' \in {Append(linkFlags, FALSE), Append(linkFlags, TRUE)}
        /\ groups' = [c \in DOMAIN groups \ {b} |-> groups[c]]
  BY ChildTaken
<1>4. PICK first \in groups[b].keys : \E end \in Nat :
        /\ pos < end /\ end <= Len(keys[first].text)
        /\ Shared(groups[b].keys, end)
        /\ queue' = Append(queue, [keys |-> groups[b].keys, pos |-> end])
        /\ textOf' = Append(textOf, Segment(first, 0, end))
        /\ linkFlags' \in {Append(linkFlags, FALSE), Append(linkFlags, TRUE)}
        /\ groups' = [c \in DOMAIN groups \ {b} |-> groups[c]]
  BY <1>3
<1>5. PICK end \in Nat :
        /\ pos < end /\ end <= Len(keys[first].text)
        /\ Shared(groups[b].keys, end)
        /\ queue' = Append(queue, [keys |-> groups[b].keys, pos |-> end])
        /\ textOf' = Append(textOf, Segment(first, 0, end))
        /\ linkFlags' \in {Append(linkFlags, FALSE), Append(linkFlags, TRUE)}
        /\ groups' = [c \in DOMAIN groups \ {b} |-> groups[c]]
  BY <1>4
<1> DEFINE group == groups[b].keys
           range == [keys |-> group, pos |-> end]
           len == Len(linkFlags)
<1>6. /\ group \subseteq DOMAIN keys /\ first \in group /\ pos \in Nat
  BY <1>2 DEF Inv, GroupsOK, NodeOK
<1>7. /\ len \in Nat /\ Len(queue) \in Nat /\ Len(queue) <= len
      /\ node \in Nat /\ node < len /\ KeysOK /\ queue \in Seq(RangeType)
  BY <1>2, OpenedNumbers
<1>8. textOf \in Seq(Seq(Byte)) /\ Len(textOf) = len
  BY <1>2 DEF PlacedInv, TextOfOK
<1>9. Segment(first, 0, end) \in Seq(Byte)
      /\ Segment(first, 0, end) = Read(level, keys[first].text, end)
  BY <1>5, <1>6, <1>7, SegmentType, ReadIsSegment
<1>10. /\ textOf' \in Seq(Seq(Byte)) /\ Len(textOf') = len + 1
       /\ \A i \in 1 .. len : textOf'[i] = textOf[i]
       /\ textOf'[len + 1] = Read(level, keys[first].text, end)
  BY <1>5, <1>8, <1>9, AppendProperties
<1>11. Len(linkFlags') = len + 1
  <2>1. linkFlags \in Seq(BOOLEAN)
    BY DEF Inv, CurrentOK, BitsOK
  <2>2. \A x \in BOOLEAN : Len(Append(linkFlags, x)) = Len(linkFlags) + 1
    BY <2>1, AppendProperties
  <2> QED
    BY <1>5, <2>2
<1>12. range.keys = group /\ range.pos = end /\ range \in RangeType
  BY <1>6 DEF RangeType
<1> HIDE DEF range
<1>13. /\ Len(queue') = Len(queue) + 1 /\ DOMAIN queue' = 1 .. Len(queue) + 1
       /\ \A i \in 1 .. Len(queue) : queue'[i] = queue[i]
       /\ queue'[Len(queue) + 1] = range
       /\ DOMAIN queue = 1 .. Len(queue)
  <2>1. queue' = Append(queue, range)
    BY <1>5 DEF range
  <2> QED
    BY <1>7, <1>12, <2>1, AppendProperties, LenProperties
<1>14. \A k \in group : Read(level, keys[k].text, end) = Read(level, keys[first].text, end)
  BY <1>2, <1>5, GroupReads
<1>15. TextOfOK'
  BY <1>2, <1>10, <1>11 DEF TextOfOK
<1>16. /\ \A c \in DOMAIN groups : Whole(groups[c].keys, keys)
       /\ rest = {}
       /\ \A k \in InGroups : textOf[node + 1] = Read(level, keys[k].text, pos)
       /\ \A c \in DOMAIN groups : \A k \in groups[c].keys :
            pos < Len(keys[k].text) /\ Label(k, pos) = c
  BY <1>1, <1>2 DEF PlacedInv, OpenedOK
<1>17. DOMAIN groups' = DOMAIN groups \ {b} /\ \A c \in DOMAIN groups' : groups'[c] = groups[c]
  BY <1>5
<1>18. QueuedOK'
  <2> SUFFICES ASSUME NEW i \in DOMAIN queue'
               PROVE  /\ Whole(queue'[i].keys, keys')
                      /\ \A k \in queue'[i].keys :
                           textOf'[Len(linkFlags') - Len(queue') + i] =
                             Read(level', keys'[k].text, queue'[i].pos)
    BY DEF QueuedOK
  <2>1. CASE i = Len(queue) + 1
    <3>1. Len(linkFlags') - Len(queue') + i = len + 1
      BY <1>7, <1>11, <1>13, <2>1
    <3>2. Whole(group, keys)
      BY <1>16
    <3>3. \A k \in group : textOf'[len + 1] = Read(level, keys[k].text, end)
      BY <1>10, <1>14
    <3> QED
      BY <1>1, <1>12, <1>13, <2>1, <3>1, <3>2, <3>3
  <2>2. CASE i \in 1 .. Len(queue)
    <3>1. Len(linkFlags') - Len(queue') + i = len - Len(queue) + i
          /\ len - Len(queue) + i \in 1 .. len
      BY <1>7, <1>11, <1>13, <2>2
    <3>2. /\ Whole(queue[i].keys, keys)
          /\ \A k \in queue[i].keys :
               textOf[len - Len(queue) + i] = Read(level, keys[k].text, queue[i].pos)
      BY <1>2, <1>13, <2>2 DEF PlacedInv, QueuedOK
    <3>3. queue'[i] = queue[i]
      BY <1>13, <2>2
    <3>4. textOf'[len - Len(queue) + i] = textOf[len - Len(queue) + i]
      BY <1>10, <3>1
    <3> QED
      BY <1>1, <3>1, <3>2, <3>3, <3>4
  <2> QED
    BY <1>7, <1>13, <2>1, <2>2
<1>19. OpenedOK'
  <2>1. InGroups' \subseteq InGroups /\ rest' = {}
    BY <1>1, <1>16, <1>17 DEF InGroups
  <2>2. textOf'[node' + 1] = textOf[node + 1]
    <3>1. node + 1 \in 1 .. len
      BY <1>7
    <3> QED
      BY <1>1, <1>10, <3>1
  <2>3. \A k \in rest' \cup InGroups' : textOf'[node' + 1] = Read(level', keys'[k].text, pos')
    BY <1>1, <1>16, <2>1, <2>2
  <2>4. \A c \in DOMAIN groups' : \A k \in groups'[c].keys :
          pos' < Len(keys'[k].text) /\ Label(k, pos)' = c
    BY <1>1, <1>16, <1>17 DEF Label
  <2>5. \A c \in DOMAIN groups' : Whole(groups'[c].keys, keys')
    BY <1>1, <1>16, <1>17
  <2> QED
    BY <1>1, <2>1, <2>3, <2>4, <2>5 DEF OpenedOK
<1>20. EndedOK'
  <2>1. \A k : k \in InGroups <=> k \in InGroups' \/ k \in group
    <3>1. ASSUME NEW k \in InGroups PROVE k \in InGroups' \/ k \in group
      <4>1. PICK c \in DOMAIN groups : k \in groups[c].keys
        BY DEF InGroups
      <4>2. c = b \/ (c \in DOMAIN groups' /\ groups'[c] = groups[c])
        BY <1>17
      <4> QED
        BY <4>1, <4>2 DEF InGroups
    <3>2. InGroups' \subseteq InGroups
      BY <1>17 DEF InGroups
    <3>3. group \subseteq InGroups
      BY DEF InGroups
    <3> QED
      BY <3>1, <3>2, <3>3
  <2> DEFINE queued == UNION {queue[i].keys : i \in DOMAIN queue}
  <2>2. queued' = queued \cup group
    <3>1. \A i \in DOMAIN queue : i \in DOMAIN queue' /\ queue'[i] = queue[i]
      BY <1>7, <1>13
    <3>2. \A i \in DOMAIN queue' : i \in DOMAIN queue \/ queue'[i] = range
      BY <1>7, <1>13
    <3>3. Len(queue) + 1 \in DOMAIN queue' /\ queue'[Len(queue) + 1].keys = group
      BY <1>7, <1>12, <1>13
    <3>4. queued \subseteq queued'
      BY <3>1
    <3>5. group \subseteq queued'
      BY <3>3
    <3>6. queued' \subseteq queued \cup group
      BY <1>12, <3>1, <3>2
    <3> QED
      BY <3>4, <3>5, <3>6
  <2>3. Waiting = queued \cup (rest \cup InGroups)
        /\ Waiting' = queued' \cup (rest' \cup InGroups')
    BY <1>2 DEF Waiting
  <2> HIDE DEF queued
  <2>4. Waiting' = Waiting
    BY <1>1, <2>1, <2>2, <2>3
  <2>5. ASSUME NEW k \in DOMAIN keys \ Waiting
        PROVE  /\ keys[k].word < len + 1
               /\ textOf'[keys[k].word + 1] = textOf[keys[k].word + 1]
    <3>1. keys[k].word \in Nat /\ keys[k].word < len
      BY <1>2, <1>7, KeyFields DEF PlacedInv, EndedOK
    <3>2. keys[k].word + 1 \in 1 .. len
      BY <1>7, <3>1
    <3> QED
      BY <1>7, <1>10, <3>1, <3>2
  <2> QED
    BY <1>1, <1>2, <1>11, <2>4, <2>5 DEF PlacedInv, EndedOK
<1> QED
  BY <1>15, <1>18, <1>19, <1>20 DEF PlacedInv

\* Every key gets to its node, or waits for it, throughout.
LEMMA PlacedStep == Inv /\ [Next]_vars /\ PlacedInv => PlacedInv'
<1> SUFFICES ASSUME Inv, [Next]_vars, PlacedInv PROVE PlacedInv'
  OBVIOUS
<1>1. CASE BeginTrie \/ OpenNode \/ GroupKey \/ Grouped \/ AddChild \/ CloseNode
  BY <1>1, PlacedBegin, PlacedOpen, PlacedGroupKey, PlacedGrouped,
     PlacedAddChild, PlacedClose
<1>2. CASE NoNextLevel \/ NextTrie \/ NextTail \/ AddEntry \/ TailDone
           \/ LinkTrie \/ NumberKeys
  <2>1. phase' \in {"begin", "tail", "link", "done"}
    BY <1>2 DEF NoNextLevel, NextTrie, NextTail, AddEntry, TailDone, LinkTrie,
         NumberKeys
  <2>2. ~Building'
    BY <2>1 DEF Building
  <2> QED
    BY <2>2, PlacedElsewhere
<1>3. CASE UNCHANGED vars
  <2>1. UNCHANGED <<phase, level, keys, queue, node, pos, rest, groups, linkFlags,
                    textOf>>
    BY <1>3 DEF vars, rangeVars, bitVars
  <2>2. InGroups' = InGroups
    BY <2>1 DEF InGroups
  <2>3. (Opened' <=> Opened) /\ (Building' <=> Building)
    BY <2>1 DEF Opened, Building
  <2>4. Waiting' = Waiting
    BY <2>1, <2>2, <2>3 DEF Waiting
  <2>5. TextOfOK' /\ QueuedOK'
    BY <2>1, <2>3 DEF PlacedInv, TextOfOK, QueuedOK
  <2>6. OpenedOK'
    <3>1. \A c \in DOMAIN groups' : \A k \in groups'[c].keys :
            Label(k, pos)' = Label(k, pos)
      BY <2>1 DEF Label
    <3> QED
      BY <2>1, <2>2, <2>3, <3>1 DEF PlacedInv, OpenedOK
  <2>7. EndedOK'
    BY <2>1, <2>3, <2>4 DEF PlacedInv, EndedOK
  <2> QED
    BY <2>5, <2>6, <2>7 DEF PlacedInv
<1> QED
  BY <1>1, <1>2, <1>3 DEF Next

LEMMA PlacedAlways == Spec => []PlacedInv
<1>1. Init => PlacedInv
  <2>1. Init => ~Building /\ ~Opened
    BY DEF Init, Building, Opened
  <2> QED
    BY <2>1 DEF PlacedInv, TextOfOK, QueuedOK, OpenedOK, EndedOK
<1> QED
  BY <1>1, Invariance, PlacedStep, PTL DEF Spec

-----------------------------------------------------------------------------
\* The links, and then the terminals of the first trie, are on their way back.
Linking == phase \in {"link", "done"}

\* Each level is on the stack, and then among the finished tries.
LevelsOK ==
  /\ phase = "begin" \/ Building => level = Len(stack) + 1
  /\ ~Linking => trie = <<>>
  /\ phase = "tail" => stack # <<>>
  /\ Linking => Len(stack) + Len(trie) >= 1
  /\ phase = "done" => stack = <<>>

\* The first trie is built from the texts of the keyset.
FirstKeysOK ==
  level = 1 /\ (phase = "begin" \/ Building) =>
    /\ DOMAIN keys = DOMAIN keyset
    /\ \A k \in DOMAIN keys : keys[k].text = keyset[k].text

\* A terminal for each key: the node of its text, one for all of the same text.
Names(terminals, texts) ==
  /\ DOMAIN terminals = DOMAIN keyset
  /\ \A k \in DOMAIN keyset : texts[terminals[k] + 1] = keyset[k].text
  /\ \A k, l \in DOMAIN keyset :
       keyset[k].text = keyset[l].text => terminals[k] = terminals[l]

NamesOK ==
  /\ stack # <<>> => Names(stack[1].terminals, stack[1].textOf)
  /\ Linking /\ stack = <<>> => Names(links, trie[1].textOf)

\* Terminals are nodes.
TerminalsOK ==
  /\ \A i \in DOMAIN stack : \A k \in DOMAIN stack[i].terminals :
       stack[i].terminals[k] < Len(stack[i].linkFlags)
  /\ Linking /\ trie # <<>> =>
       \A k \in DOMAIN links : links[k] < Len(trie[1].linkFlags)

NamedInv == LevelsOK /\ FirstKeysOK /\ NamesOK /\ TerminalsOK

\* What CloseTrie leaves on top of the stack.
LEMMA Pushed ==
  ASSUME Inv, CloseTrie
  PROVE  /\ phase = "pop" /\ Building /\ ~Opened /\ queue = <<>>
         /\ Len(stack) \in Nat /\ DOMAIN stack = 1 .. Len(stack)
         /\ Len(stack') = Len(stack) + 1 /\ DOMAIN stack' = 1 .. Len(stack) + 1
         /\ stack' # <<>>
         /\ \A i \in 1 .. Len(stack) : stack'[i] = stack[i]
         /\ stack'[Len(stack) + 1].linkFlags = linkFlags
         /\ stack'[Len(stack) + 1].bases = bases
         /\ stack'[Len(stack) + 1].parentOf = parentOf
         /\ stack'[Len(stack) + 1].textOf = textOf
         /\ stack'[Len(stack) + 1].terminals = [k \in DOMAIN keys |-> keys[k].word]
         /\ UNCHANGED <<keyset, trie>>
<1> DEFINE t == [louds |-> Append(louds, FALSE), linkFlags |-> linkFlags,
                 bases |-> bases, cache |-> cache, numL1 |-> numL1,
                 parentOf |-> parentOf, textOf |-> textOf,
                 terminals |-> [k \in DOMAIN keys |-> keys[k].word]]
<1>1. /\ phase = "pop" /\ queue = <<>> /\ stack' = Append(stack, t)
      /\ UNCHANGED <<keyset, trie>>
  BY DEF CloseTrie, Terminals, inputVars
<1>2. /\ t.linkFlags = linkFlags /\ t.bases = bases /\ t.parentOf = parentOf
      /\ t.textOf = textOf /\ t.terminals = [k \in DOMAIN keys |-> keys[k].word]
  OBVIOUS
<1> HIDE DEF t
<1>3. Building /\ ~Opened
  BY <1>1 DEF Building, Opened
<1>4. /\ Len(stack) \in Nat /\ DOMAIN stack = 1 .. Len(stack)
      /\ Len(stack') = Len(stack) + 1 /\ DOMAIN stack' = 1 .. Len(stack) + 1
      /\ \A i \in 1 .. Len(stack) : stack'[i] = stack[i]
      /\ stack'[Len(stack) + 1] = t
  BY <1>1 DEF Inv, StackOK
<1>5. stack' # <<>>
  BY <1>4
<1> QED
  BY <1>1, <1>2, <1>3, <1>4, <1>5

\* What LinkTrie takes from the stack and puts in front of the finished tries.
LEMMA Popped ==
  ASSUME Inv, LinkTrie
  PROVE  /\ phase = "link" /\ phase' = "link" /\ ~Building /\ ~Building'
         /\ Len(stack) \in Nat \ {0} /\ DOMAIN stack = 1 .. Len(stack)
         /\ Len(trie) \in Nat /\ DOMAIN trie = 1 .. Len(trie)
         /\ Len(stack') = Len(stack) - 1 /\ DOMAIN stack' = 1 .. Len(stack) - 1
         /\ \A i \in 1 .. Len(stack) - 1 : stack'[i] = stack[i]
         /\ Len(trie') = Len(trie) + 1 /\ DOMAIN trie' = 1 .. Len(trie) + 1
         /\ trie' # <<>>
         /\ trie'[1] = Linked(stack[Len(stack)])
         /\ \A i \in 1 .. Len(trie) : trie'[i + 1] = trie[i]
         /\ links' = stack[Len(stack)].terminals
         /\ UNCHANGED <<keyset, level, keys, tail>>
<1>1. /\ phase = "link" /\ phase' = "link" /\ stack # <<>>
      /\ UNCHANGED <<keyset, level, keys, tail>>
      /\ trie' = <<Linked(stack[Len(stack)])>> \o trie
      /\ links' = stack[Len(stack)].terminals
      /\ stack' = SubSeq(stack, 1, Len(stack) - 1)
  BY DEF LinkTrie, inputVars, tailVars
<1>2. /\ DOMAIN stack = 1 .. Len(stack) /\ Len(stack) \in Nat \ {0}
      /\ DOMAIN trie = 1 .. Len(trie) /\ Len(trie) \in Nat
  BY <1>1 DEF Inv, StackOK, TrieOK
<1>3. /\ Len(stack') = Len(stack) - 1 /\ DOMAIN stack' = 1 .. Len(stack) - 1
      /\ \A i \in 1 .. Len(stack) - 1 : stack'[i] = stack[i]
  BY <1>1, <1>2
<1>4. /\ Len(trie') = Len(trie) + 1 /\ DOMAIN trie' = 1 .. Len(trie) + 1
      /\ trie'[1] = Linked(stack[Len(stack)])
      /\ \A i \in 1 .. Len(trie) : trie'[i + 1] = trie[i]
  BY <1>1, <1>2
<1>5. trie' # <<>>
  BY <1>2, <1>4
<1>6. ~Building /\ ~Building'
  BY <1>1 DEF Building
<1> QED
  BY <1>1, <1>2, <1>3, <1>4, <1>5, <1>6

\* When the queue is empty every key has the node of its text.
LEMMA AllPlaced ==
  ASSUME Inv, PlacedInv, CloseTrie
  PROVE  /\ textOf \in Seq(Seq(Byte)) /\ Len(textOf) = Len(linkFlags)
         /\ \A k \in DOMAIN keys :
              /\ keys[k].word < Len(linkFlags)
              /\ textOf[keys[k].word + 1] = keys[k].text
              /\ \A l \in DOMAIN keys :
                   keys[k].text = keys[l].text => keys[k].word = keys[l].word
<1>1. Building /\ ~Opened /\ queue = <<>>
  BY Pushed
<1>2. DOMAIN queue = {}
  BY <1>1
<1>3. Waiting = {}
  BY <1>1, <1>2 DEF Waiting
<1> QED
  BY <1>1, <1>3 DEF PlacedInv, TextOfOK, EndedOK

\* A trie is closed: its terminals name its keys.
LEMMA NamedCloseTrie ==
  ASSUME Inv, PlacedInv, NamedInv, CloseTrie,
         phase' \in {"begin", "tail", "link"},
         phase' = "begin" => level' = level + 1
  PROVE  NamedInv'
<1> DEFINE top == stack'[Len(stack) + 1]
<1>1. /\ phase = "pop" /\ Building /\ ~Opened /\ ~Building'
      /\ Len(stack) \in Nat /\ DOMAIN stack = 1 .. Len(stack)
      /\ Len(stack') = Len(stack) + 1 /\ DOMAIN stack' = 1 .. Len(stack) + 1
      /\ stack' # <<>>
      /\ \A i \in 1 .. Len(stack) : stack'[i] = stack[i]
      /\ top.linkFlags = linkFlags /\ top.textOf = textOf
      /\ top.terminals = [k \in DOMAIN keys |-> keys[k].word]
      /\ UNCHANGED <<keyset, trie>>
  BY Pushed DEF Building
<1> HIDE DEF top
<1>2. \A k \in DOMAIN keys :
        /\ keys[k].word < Len(linkFlags)
        /\ textOf[keys[k].word + 1] = keys[k].text
        /\ \A l \in DOMAIN keys :
             keys[k].text = keys[l].text => keys[k].word = keys[l].word
  BY AllPlaced
<1>3. level = Len(stack) + 1 /\ trie = <<>> /\ level \in Nat
  BY <1>1 DEF NamedInv, LevelsOK, Linking, Inv, ControlOK
<1>4. LevelsOK'
  BY <1>1, <1>3 DEF LevelsOK, Linking
<1>5. FirstKeysOK'
  BY <1>1, <1>3 DEF FirstKeysOK
<1>6. NamesOK'
  <2>1. CASE Len(stack) = 0
    <3>1. stack'[1] = top /\ level = 1
      BY <1>3, <2>1 DEF top
    <3>2. DOMAIN keys = DOMAIN keyset /\ \A k \in DOMAIN keys : keys[k].text = keyset[k].text
      BY <1>1, <3>1 DEF NamedInv, FirstKeysOK
    <3>3. Names(top.terminals, top.textOf)
      BY <1>1, <1>2, <3>2 DEF Names
    <3> QED
      BY <1>1, <3>1, <3>3 DEF NamesOK, Names
  <2>2. CASE Len(stack) # 0
    <3>1. stack'[1] = stack[1] /\ stack # <<>>
      BY <1>1, <2>2
    <3>2. Names(stack[1].terminals, stack[1].textOf)
      BY <3>1 DEF NamedInv, NamesOK
    <3> QED
      BY <1>1, <3>1, <3>2 DEF NamesOK, Names
  <2> QED
    BY <2>1, <2>2
<1>7. TerminalsOK'
  <2>1. ASSUME NEW i \in DOMAIN stack', NEW k \in DOMAIN stack'[i].terminals
        PROVE  stack'[i].terminals[k] < Len(stack'[i].linkFlags)
    <3>1. CASE i = Len(stack) + 1
      BY <1>1, <1>2, <3>1 DEF top
    <3>2. CASE i \in 1 .. Len(stack)
      BY <1>1, <3>2, Zenon DEF NamedInv, TerminalsOK
    <3> QED
      BY <1>1, <3>1, <3>2
  <2> QED
    BY <1>1, <1>3, <2>1 DEF TerminalsOK
<1> QED
  BY <1>4, <1>5, <1>6, <1>7 DEF NamedInv

\* A trie keeps its names when its links are stored.
LEMMA NamedLinkTrie == Inv /\ LinkTrie /\ NamedInv => NamedInv'
<1> SUFFICES ASSUME Inv, LinkTrie, NamedInv PROVE NamedInv'
  OBVIOUS
<1> DEFINE t == stack[Len(stack)]
<1>1. /\ phase = "link" /\ phase' = "link" /\ ~Building /\ ~Building'
      /\ Len(stack) \in Nat \ {0} /\ DOMAIN stack = 1 .. Len(stack)
      /\ Len(trie) \in Nat
      /\ Len(stack') = Len(stack) - 1 /\ DOMAIN stack' = 1 .. Len(stack) - 1
      /\ \A i \in 1 .. Len(stack) - 1 : stack'[i] = stack[i]
      /\ Len(trie') = Len(trie) + 1
      /\ trie'[1] = Linked(t)
      /\ links' = t.terminals
      /\ UNCHANGED <<keyset, level, keys>>
  BY Popped, Zenon
<1>2. Linked(t).textOf = t.textOf /\ Linked(t).linkFlags = t.linkFlags
  BY DEF Linked
<1> HIDE DEF t
<1>3. LevelsOK'
  BY <1>1 DEF LevelsOK, Linking
<1>4. FirstKeysOK'
  BY <1>1 DEF FirstKeysOK
<1>5. NamesOK'
  <2>1. Names(stack[1].terminals, stack[1].textOf)
    <3>1. stack # <<>>
      BY <1>1
    <3> QED
      BY <3>1 DEF NamedInv, NamesOK
  <2>2. CASE Len(stack) = 1
    <3>1. t = stack[1]
      BY <2>2 DEF t
    <3>2. stack' = <<>>
      <4>1. stack' = SubSeq(stack, 1, Len(stack) - 1)
        BY DEF LinkTrie
      <4>2. stack' = SubSeq(stack, 1, 0)
        BY <2>2, <4>1
      <4> QED
        BY <4>2
    <3> QED
      BY <1>1, <1>2, <2>1, <3>1, <3>2 DEF NamesOK, Names
  <2>3. CASE Len(stack) # 1
    <3>1. stack' # <<>> /\ stack'[1] = stack[1]
      BY <1>1, <2>3
    <3> QED
      BY <1>1, <2>1, <3>1 DEF NamesOK, Names
  <2> QED
    BY <2>2, <2>3
<1>6. TerminalsOK'
  <2>1. \A i \in DOMAIN stack' : \A k \in DOMAIN stack'[i].terminals :
          stack'[i].terminals[k] < Len(stack'[i].linkFlags)
    BY <1>1 DEF NamedInv, TerminalsOK
  <2>2. \A k \in DOMAIN t.terminals : t.terminals[k] < Len(t.linkFlags)
    BY <1>1 DEF NamedInv, TerminalsOK, t
  <2> QED
    BY <1>1, <1>2, <2>1, <2>2 DEF TerminalsOK
<1> QED
  BY <1>3, <1>4, <1>5, <1>6 DEF NamedInv

\* The names of the keys are preserved by every step.
LEMMA NamedStep == Inv /\ PlacedInv /\ [Next]_vars /\ NamedInv => NamedInv'
<1> SUFFICES ASSUME Inv, PlacedInv, [Next]_vars, NamedInv PROVE NamedInv'
  OBVIOUS
<1>1. CASE NoNextLevel \/ NextTrie \/ NextTail
  <2>1. /\ CloseTrie /\ phase' \in {"begin", "tail", "link"}
        /\ phase' = "begin" => level' = level + 1
    BY <1>1 DEF NoNextLevel, NextTrie, NextTail
  <2> QED
    BY <2>1, NamedCloseTrie
<1>2. CASE LinkTrie
  BY <1>2, NamedLinkTrie
<1>3. CASE BeginTrie \/ GroupKey \/ Grouped \/ AddChild \/ CloseNode
  <2>1. /\ UNCHANGED <<keyset, level, keys, stack, trie>>
        /\ phase = "begin" \/ Building
        /\ Building' /\ ~Linking'
        /\ phase' \notin {"begin", "tail", "done"}
    BY <1>3 DEF BeginTrie, GroupKey, Grouped, AddChild, CloseNode, Building,
         Linking, inputVars, linkVars
  <2>2. ~Linking
    BY <2>1 DEF Linking, Building
  <2> QED
    BY <2>1, <2>2 DEF NamedInv, LevelsOK, FirstKeysOK, NamesOK, Names, TerminalsOK
<1>4. CASE OpenNode
  <2>1. /\ UNCHANGED <<keyset, level, stack, trie>>
        /\ phase = "pop" /\ phase' = "group"
    BY <1>4 DEF OpenNode, inputVars, linkVars
  <2>2. Building /\ Building' /\ ~Linking /\ ~Linking'
    BY <2>1 DEF Building, Linking
  <2>3. DOMAIN keys' = DOMAIN keys /\ \A k \in DOMAIN keys : keys'[k].text = keys[k].text
    <3>1. \A k \in DOMAIN keys : keys[k] \in KeyType
      BY ElementOfSeq, LenProperties DEF Inv, KeysOK
    <3> QED
      BY <1>4, <3>1 DEF OpenNode, KeyType
  <2> QED
    BY <2>1, <2>2, <2>3 DEF NamedInv, LevelsOK, FirstKeysOK, NamesOK, Names, TerminalsOK
<1>5. CASE AddEntry \/ TailDone
  <2>1. /\ UNCHANGED <<keyset, level, stack, trie>>
        /\ phase = "tail" /\ phase' \in {"tail", "link"}
    BY <1>5 DEF AddEntry, TailDone, inputVars, linkVars
  <2>2. ~Building /\ ~Building' /\ ~Linking
    BY <2>1 DEF Building, Linking
  <2>3. stack # <<>> /\ trie = <<>>
    BY <2>1, <2>2 DEF NamedInv, LevelsOK
  <2>4. Len(stack) \in Nat \ {0} /\ Len(trie) = 0
    BY <2>3 DEF Inv, StackOK
  <2> QED
    BY <2>1, <2>2, <2>3, <2>4
       DEF NamedInv, LevelsOK, FirstKeysOK, NamesOK, Names, TerminalsOK, Linking
<1>6. CASE NumberKeys
  <2>1. /\ UNCHANGED <<keyset, level, keys, stack, trie, links>>
        /\ phase = "link" /\ phase' = "done" /\ stack = <<>>
    BY <1>6 DEF NumberKeys, inputVars
  <2>2. ~Building /\ ~Building' /\ Linking /\ Linking'
    BY <2>1 DEF Building, Linking
  <2> QED
    BY <2>1, <2>2 DEF NamedInv, LevelsOK, FirstKeysOK, NamesOK, Names, TerminalsOK
<1>7. CASE UNCHANGED vars
  <2>1. UNCHANGED <<keyset, level, phase, keys, stack, trie, links>>
    BY <1>7 DEF vars, inputVars, linkVars
  <2> QED
    BY <2>1 DEF NamedInv, LevelsOK, FirstKeysOK, NamesOK, Names, TerminalsOK,
         Building, Linking
<1> QED
  BY <1>1, <1>2, <1>3, <1>4, <1>5, <1>6, <1>7 DEF Next

LEMMA NamedAlways == Spec => []NamedInv
<1>1. Init => NamedInv
  <2> SUFFICES ASSUME Init PROVE NamedInv
    OBVIOUS
  <2>1. /\ phase = "begin" /\ level = 1 /\ stack = <<>> /\ trie = <<>>
        /\ DOMAIN keys = DOMAIN keyset
        /\ \A k \in DOMAIN keys : keys[k].text = keyset[k].text
    BY DEF Init
  <2>2. Len(stack) = 0 /\ ~Building /\ ~Linking
    BY <2>1 DEF Building, Linking
  <2> QED
    BY <2>1, <2>2 DEF NamedInv, LevelsOK, FirstKeysOK, NamesOK, TerminalsOK
<1> QED
  BY <1>1, Invariance, PlacedAlways, NamedStep, PTL DEF Spec

\* What NumberKeys leaves behind.
IdsGiven ==
  phase = "done" =>
    /\ terminalFlags = [i \in 1 .. Len(trie[1].bases) + 1 |->
                         \E k \in DOMAIN links : links[k] = i - 1]
    /\ ids = [k \in DOMAIN links |-> Rank1(terminalFlags, links[k])]

LEMMA IdsGivenAlways == Spec => []IdsGiven
<1>1. Init => IdsGiven
  BY DEF Init, IdsGiven
<1>2. [Next]_vars /\ IdsGiven => IdsGiven'
  <2> SUFFICES ASSUME [Next]_vars, IdsGiven PROVE IdsGiven'
    OBVIOUS
  <2>1. CASE NumberKeys
    BY <2>1 DEF NumberKeys, IdsGiven, KeyIdOf
  <2>2. CASE UNCHANGED vars
    BY <2>2 DEF vars, linkVars, IdsGiven
  <2>3. CASE BeginTrie \/ OpenNode \/ GroupKey \/ Grouped \/ AddChild \/ CloseNode
             \/ NoNextLevel \/ NextTrie \/ NextTail \/ AddEntry \/ TailDone \/ LinkTrie
    <3>1. phase' # "done"
      BY <2>3 DEF BeginTrie, OpenNode, GroupKey, Grouped, AddChild, CloseNode,
           NoNextLevel, NextTrie, NextTail, AddEntry, TailDone, LinkTrie
    <3> QED
      BY <3>1, Zenon DEF IdsGiven
  <2> QED
    BY <2>1, <2>2, <2>3 DEF Next
<1> QED
  BY <1>1, <1>2, PTL DEF Spec

\* At the end the id of a key leads back to its terminal, and every flag that
\* is set is the terminal of a key.
LEMMA IdsLeadBack ==
  ASSUME Inv, NamedInv, IdsGiven, phase = "done"
  PROVE  /\ trie # <<>> /\ 1 \in DOMAIN trie
         /\ Names(links, trie[1].textOf)
         /\ terminalFlags \in Seq(BOOLEAN)
         /\ \A k \in DOMAIN keyset :
              /\ links[k] \in 0 .. Len(trie[1].linkFlags) - 1
              /\ ids[k] \in 0 .. Ones(terminalFlags) - 1
              /\ Select1(terminalFlags, ids[k]) = links[k]
         /\ \A id \in 0 .. Ones(terminalFlags) - 1 :
              \E k \in DOMAIN keyset : ids[k] = id
<1> DEFINE n == Len(trie[1].bases)
           flags == terminalFlags
<1>1. stack = <<>> /\ Len(stack) + Len(trie) >= 1 /\ Linking
  BY DEF NamedInv, LevelsOK, Linking
<1>2. /\ Len(trie) \in Nat \ {0} /\ DOMAIN trie = 1 .. Len(trie)
      /\ trie # <<>> /\ 1 \in DOMAIN trie
  BY <1>1 DEF Inv, TrieOK
<1>3. /\ Names(links, trie[1].textOf)
      /\ \A k \in DOMAIN links : links[k] < Len(trie[1].linkFlags)
  BY <1>1, <1>2 DEF NamedInv, NamesOK, TerminalsOK
<1>4. n = Len(trie[1].linkFlags) /\ n \in Nat
  BY <1>2, LenProperties DEF Inv, TrieOK, WellFormed, BitsOK
<1>5. /\ DOMAIN links = DOMAIN keyset
      /\ \A k \in DOMAIN keyset : links[k] \in 0 .. n - 1
  <2>1. links \in Seq(Nat)
    BY DEF Inv, TopOK
  <2>2. \A k \in DOMAIN links : links[k] \in Nat
    BY <2>1, ElementOfSeq, LenProperties
  <2> QED
    BY <1>3, <1>4, <2>2 DEF Names
<1>6. /\ flags = [i \in 1 .. n + 1 |-> \E k \in DOMAIN links : links[k] = i - 1]
      /\ ids = [k \in DOMAIN links |-> Rank1(flags, links[k])]
  BY DEF IdsGiven
<1> HIDE DEF n, flags
<1>7. flags \in Seq(BOOLEAN) /\ Len(flags) = n + 1
  <2>1. flags \in [1 .. n + 1 -> BOOLEAN]
    BY <1>6
  <2> QED
    BY <1>4, <2>1, SeqFromFunction
<1>8. \A i \in 0 .. n : Bit(flags, i) <=> \E k \in DOMAIN links : links[k] = i
  <2> TAKE i \in 0 .. n
  <2>1. i + 1 \in 1 .. n + 1 /\ i + 1 - 1 = i
    BY <1>4
  <2>2. flags[i + 1] <=> \E k \in DOMAIN links : links[k] = i
    BY <1>6, <2>1
  <2> QED
    BY <2>2 DEF Bit
<1>9. \A k \in DOMAIN keyset :
        /\ links[k] \in 0 .. Len(flags) - 1 /\ Bit(flags, links[k])
        /\ ids[k] = Rank1(flags, links[k])
  <2> TAKE k \in DOMAIN keyset
  <2>1. links[k] \in 0 .. Len(flags) - 1 /\ links[k] \in 0 .. n
    BY <1>4, <1>5, <1>7
  <2>2. k \in DOMAIN links /\ links[k] = links[k]
    BY <1>5
  <2>3. Bit(flags, links[k])
    BY <1>8, <2>1, <2>2
  <2>4. ids[k] = Rank1(flags, links[k])
    BY <1>6, <2>2
  <2> QED
    BY <2>1, <2>3, <2>4
<1>10. \A k \in DOMAIN keyset : Select1(flags, ids[k]) = links[k]
  BY <1>7, <1>9, SelectOfRank
<1>11. ASSUME NEW k \in DOMAIN keyset PROVE ids[k] \in 0 .. Ones(flags) - 1
  <2>1. Rank1(flags, links[k]) < Ones(flags)
    BY <1>7, <1>9, RankOfOne
  <2>2. links[k] \in 0 .. Len(flags) /\ Len(flags) \in 0 .. Len(flags)
    BY <1>4, <1>7, <1>9
  <2>3. Rank1(flags, links[k]) \in Nat /\ Ones(flags) \in Nat
    BY <1>7, <2>2, RankType DEF Ones
  <2> QED
    BY <1>9, <2>1, <2>3
<1>12. ASSUME NEW id \in 0 .. Ones(flags) - 1
       PROVE  \E k \in DOMAIN keyset : ids[k] = id
  <2> DEFINE i == Select1(flags, id)
  <2>1. i \in 0 .. Len(flags) - 1 /\ Bit(flags, i) /\ Rank1(flags, i) = id
    BY <1>7, Select1Finds
  <2> HIDE DEF i
  <2>2. i \in 0 .. n
    BY <1>4, <1>7, <2>1
  <2>3. PICK k \in DOMAIN links : links[k] = i
    BY <1>8, <2>1, <2>2
  <2> QED
    BY <1>5, <1>9, <2>1, <2>3
<1> QED
  BY <1>2, <1>3, <1>4, <1>5, <1>7, <1>10, <1>11, <1>12 DEF flags

\* Equal keys share an id, different keys do not, and the ids are the numbers
\* below num_keys() (LoudsTrie::build_ and its terminal_flags_).
THEOREM IdsDenseThm == Spec => []IdsDense
<1>1. Inv /\ NamedInv /\ IdsGiven => IdsDense
  <2> SUFFICES ASSUME Inv, NamedInv, IdsGiven, phase = "done"
               PROVE  /\ \A k, l \in DOMAIN keyset :
                           ids[k] = ids[l] <=> keyset[k].text = keyset[l].text
                      /\ {ids[k] : k \in DOMAIN keyset} = 0 .. Ones(terminalFlags) - 1
    BY DEF IdsDense
  <2>1. /\ Names(links, trie[1].textOf)
        /\ \A k \in DOMAIN keyset :
             /\ ids[k] \in 0 .. Ones(terminalFlags) - 1
             /\ Select1(terminalFlags, ids[k]) = links[k]
        /\ \A id \in 0 .. Ones(terminalFlags) - 1 :
             \E k \in DOMAIN keyset : ids[k] = id
    BY IdsLeadBack
  <2>2. ASSUME NEW k \in DOMAIN keyset, NEW l \in DOMAIN keyset, ids[k] = ids[l]
        PROVE  keyset[k].text = keyset[l].text
    <3>1. links[k] = links[l]
      BY <2>1, <2>2
    <3> QED
      BY <2>1, <3>1 DEF Names
  <2>3. ASSUME NEW k \in DOMAIN keyset, NEW l \in DOMAIN keyset,
               keyset[k].text = keyset[l].text
        PROVE  ids[k] = ids[l]
    <3>1. links[k] = links[l] /\ DOMAIN links = DOMAIN keyset
      BY <2>1, <2>3 DEF Names
    <3> QED
      BY <3>1 DEF IdsGiven
  <2> QED
    BY <2>1, <2>2, <2>3
<1> QED
  BY <1>1, Invariance, NamedAlways, IdsGivenAlways, PTL

-----------------------------------------------------------------------------
\* The nodes of a trie of level l have the texts their edges spell.
Spelled(l, texts, parents, edges) ==
  /\ texts \in Seq(Seq(Byte))
  /\ Len(texts) = Len(parents) + 1
  /\ texts[1] = <<>>
  /\ \A n \in DOMAIN parents :
       /\ parents[n] \in 0 .. n - 1
       /\ texts[n + 1] = Join(l, texts[parents[n] + 1], edges[n])

\* The edges of a trie whose link nodes stand for parts, in their order.
EdgesBy(flags, labels, parents, parts) ==
  [n \in DOMAIN parents |->
    IF Bit(flags, n) THEN parts[Rank1(flags, n) + 1] ELSE <<labels[n + 1]>>]

\* Only as many parts count as there are link nodes.
LEMMA EdgesSame ==
  ASSUME NEW flags \in Seq(BOOLEAN), NEW labels, NEW parents \in Seq(Nat),
         Len(parents) + 1 = Len(flags), NEW parts, NEW others,
         \A r \in 1 .. Ones(flags) : parts[r] = others[r]
  PROVE  EdgesBy(flags, labels, parents, parts) =
           EdgesBy(flags, labels, parents, others)
<1>1. ASSUME NEW n \in DOMAIN parents, Bit(flags, n)
      PROVE  parts[Rank1(flags, n) + 1] = others[Rank1(flags, n) + 1]
  <2>1. n \in 0 .. Len(flags) - 1 /\ n \in 0 .. Len(flags)
        /\ Len(flags) \in 0 .. Len(flags)
    BY LenProperties
  <2>2. Rank1(flags, n) \in Nat /\ Rank1(flags, n) < Ones(flags) /\ Ones(flags) \in Nat
    BY <1>1, <2>1, RankType, RankOfOne DEF Ones
  <2> QED
    BY <2>2
<1> QED
  BY <1>1 DEF EdgesBy

\* One more node, with the text of its parent and of its edge.
LEMMA SpelledMore ==
  ASSUME NEW l, NEW texts, NEW parents \in Seq(Nat), NEW flags \in Seq(BOOLEAN),
         NEW labels \in Seq(Byte), NEW parts,
         Len(parents) + 1 = Len(flags), Len(labels) = Len(flags),
         Spelled(l, texts, parents, EdgesBy(flags, labels, parents, parts)),
         NEW from \in Nat, from < Len(flags), NEW text \in Seq(Byte),
         NEW link \in BOOLEAN, NEW label \in Byte, NEW edge,
         text = Join(l, texts[from + 1], edge),
         ~link => edge = <<label>>,
         NEW others, \A r \in 1 .. Ones(flags) : others[r] = parts[r],
         link => others[Ones(flags) + 1] = edge
  PROVE  Spelled(l, Append(texts, text), Append(parents, from),
           EdgesBy(Append(flags, link), Append(labels, label),
                   Append(parents, from), others))
<1> DEFINE N == Len(flags)
           texts2 == Append(texts, text)
           parents2 == Append(parents, from)
           flags2 == Append(flags, link)
           labels2 == Append(labels, label)
           edges == EdgesBy(flags, labels, parents, parts)
           edges2 == EdgesBy(flags2, labels2, parents2, others)
<1>1. /\ N \in Nat \ {0} /\ DOMAIN parents = 1 .. N - 1
      /\ N \in 0 .. N /\ Len(texts) = N /\ texts \in Seq(Seq(Byte))
  BY LenProperties DEF Spelled
<1>2. /\ texts2 \in Seq(Seq(Byte)) /\ Len(texts2) = N + 1 /\ texts2[N + 1] = text
      /\ \A i \in 1 .. N : texts2[i] = texts[i]
  <2> DEFINE Texts == Seq(Byte)
  <2>1. texts \in Seq(Texts) /\ text \in Texts
    BY <1>1
  <2> HIDE DEF Texts
  <2>2. /\ texts2 \in Seq(Texts) /\ Len(texts2) = Len(texts) + 1
        /\ texts2[Len(texts) + 1] = text
        /\ \A i \in 1 .. Len(texts) : texts2[i] = texts[i]
    BY <2>1, AppendProperties
  <2> HIDE DEF texts2
  <2>3. Len(texts) = N
    BY <1>1
  <2> QED
    BY <2>2, <2>3 DEF Texts
<1>3. /\ DOMAIN parents2 = 1 .. N /\ Len(parents2) = N /\ parents2[N] = from
      /\ \A n \in 1 .. N - 1 : parents2[n] = parents[n]
  <2>1. /\ parents2 \in Seq(Nat) /\ Len(parents2) = Len(parents) + 1
        /\ parents2[Len(parents) + 1] = from
        /\ \A n \in 1 .. Len(parents) : parents2[n] = parents[n]
    BY AppendProperties
  <2> HIDE DEF parents2
  <2>2. Len(parents) = N - 1
    BY <1>1, LenProperties
  <2> QED
    BY <1>1, <2>1, <2>2, LenProperties
<1>4. /\ flags2[N + 1] = link /\ \A i \in 1 .. N : flags2[i] = flags[i]
      /\ \A n \in 0 .. N : Rank1(flags2, n) = Rank1(flags, n)
  <2>1. \A n \in 0 .. Len(flags) : Rank1(Append(flags, link), n) = Rank1(flags, n)
    BY RankAppendBefore
  <2> QED
    BY <2>1, AppendProperties
<1>5. labels2[N + 1] = label /\ \A i \in 1 .. N : labels2[i] = labels[i]
  BY AppendProperties
<1>6. \A n \in DOMAIN parents2 :
        edges2[n] = IF Bit(flags2, n) THEN others[Rank1(flags2, n) + 1]
                                      ELSE <<labels2[n + 1]>>
  BY DEF EdgesBy
<1>7. \A n \in DOMAIN parents :
        edges[n] = IF Bit(flags, n) THEN parts[Rank1(flags, n) + 1]
                                    ELSE <<labels[n + 1]>>
  BY DEF EdgesBy
<1>8. /\ texts[1] = <<>>
      /\ \A n \in DOMAIN parents :
           /\ parents[n] \in 0 .. n - 1
           /\ texts[n + 1] = Join(l, texts[parents[n] + 1], edges[n])
  BY DEF Spelled
<1>9. Ones(flags) = Rank1(flags, N)
  BY DEF Ones
<1> HIDE DEF texts2, parents2, flags2, labels2, edges, edges2, N
<1>10. edges2[N] = edge
  <2>1. N \in DOMAIN parents2 /\ N \in 0 .. N
    BY <1>1, <1>3
  <2>2. Bit(flags2, N) = link
    BY <1>4 DEF Bit
  <2>3. Rank1(flags2, N) = Ones(flags)
    BY <1>4, <1>9, <2>1
  <2> QED
    BY <1>5, <1>6, <2>1, <2>2, <2>3
<1>11. ASSUME NEW n \in 1 .. N - 1 PROVE edges2[n] = edges[n]
  <2>1. /\ n \in DOMAIN parents2 /\ n \in DOMAIN parents /\ n \in 0 .. N
        /\ n + 1 \in 1 .. N /\ n \in 0 .. Len(flags) - 1 /\ n \in 0 .. Len(flags)
    BY <1>1, <1>3 DEF N
  <2>2. Bit(flags2, n) = Bit(flags, n) /\ Rank1(flags2, n) = Rank1(flags, n)
        /\ labels2[n + 1] = labels[n + 1]
    BY <1>4, <1>5, <2>1 DEF Bit
  <2>3. Bit(flags, n) => others[Rank1(flags, n) + 1] = parts[Rank1(flags, n) + 1]
    <3> HAVE Bit(flags, n)
    <3>1. Rank1(flags, n) \in Nat /\ Rank1(flags, n) < Ones(flags)
      BY <2>1, RankType, RankOfOne
    <3>2. Ones(flags) \in Nat
      BY <1>1, <1>9, RankType DEF N
    <3>3. Rank1(flags, n) + 1 \in 1 .. Ones(flags)
      BY <3>1, <3>2
    <3> QED
      BY <3>3
  <2> QED
    BY <1>6, <1>7, <2>1, <2>2, <2>3
<1>12. ASSUME NEW n \in DOMAIN parents2
       PROVE  /\ parents2[n] \in 0 .. n - 1
              /\ texts2[n + 1] = Join(l, texts2[parents2[n] + 1], edges2[n])
  <2>1. CASE n = N
    <3>1. from + 1 \in 1 .. N /\ from \in 0 .. N - 1
      BY <1>1 DEF N
    <3>2. texts2[from + 1] = texts[from + 1]
      BY <1>2, <3>1
    <3> QED
      BY <1>2, <1>3, <1>10, <2>1, <3>1, <3>2
  <2>2. CASE n \in 1 .. N - 1
    <3>1. parents2[n] = parents[n] /\ parents[n] \in 0 .. n - 1
      BY <1>1, <1>3, <1>8, <2>2
    <3>2. n + 1 \in 1 .. N /\ parents[n] + 1 \in 1 .. N
      <4>1. N \in Nat \ {0}
        BY <1>1
      <4>2. \A m \in 1 .. N - 1 : m + 1 \in 1 .. N /\ \A p \in 0 .. m - 1 : p + 1 \in 1 .. N
        BY <4>1
      <4>3. parents[n] \in 0 .. n - 1
        BY <3>1
      <4> QED
        BY <2>2, <4>2, <4>3, Zenon
    <3>3. texts2[n + 1] = texts[n + 1] /\ texts2[parents[n] + 1] = texts[parents[n] + 1]
      BY <1>2, <3>2
    <3> QED
      BY <1>1, <1>8, <1>11, <2>2, <3>1, <3>3
  <2> QED
    BY <1>1, <1>3, <2>1, <2>2
<1>13. texts2[1] = <<>>
  BY <1>1, <1>2, <1>8
<1>14. Spelled(l, texts2, parents2, edges2)
  BY <1>2, <1>3, <1>12, <1>13 DEF Spelled
<1> QED
  BY <1>14 DEF texts2, parents2, flags2, labels2, edges2

-----------------------------------------------------------------------------
\* An entry of the tail ends in front of position i.
EndsAt(tl, i) ==
  IF tl.mode = "text" THEN i < Len(tl.buf) /\ tl.buf[i + 1] = NUL ELSE tl.ends[i]

\* A text is in the tail at an offset: its bytes, and then its end.
Stored(tl, offset, text) ==
  LET end == offset + Len(text)
  IN  /\ text # <<>>
      /\ end <= Len(tl.buf)
      /\ \A i \in 1 .. Len(text) : tl.buf[offset + i] = text[i]
      /\ EndsAt(tl, end)
      /\ \A i \in offset + 1 .. end - 1 : ~EndsAt(tl, i)

\* No edge that is handed on is empty.
PartsOK ==
  /\ Building => \A k \in DOMAIN nextKeys : nextKeys[k].text # <<>>
  /\ phase = "tail" => \A k \in DOMAIN keys : keys[k].text # <<>>

\* Every entry that has been added can be read at its offset.
EntriesOK ==
  /\ phase = "begin" \/ Building => tail.buf = <<>> /\ tail.ends = <<>>
  /\ phase = "tail" =>
       /\ tail.mode = "text" => \A k \in DOMAIN keys : ~HasNul(keys[k].text)
       /\ tail.mode # "text" => Len(tail.ends) = Len(tail.buf)
       /\ last \notin entries
       /\ DOMAIN links = DOMAIN keys
       /\ \A k \in DOMAIN keys \ entries : Stored(tail, links[k], keys[k].text)

StoredInv == PartsOK /\ EntriesOK

\* A stored text is what Tail::restore() reads there.
LEMMA StoredIsRead ==
  ASSUME tail.buf \in Seq(Byte), NEW offset \in Nat, NEW text \in Seq(Byte),
         Stored(tail, offset, text)
  PROVE  TailText(offset) = text
<1> DEFINE end == offset + Len(text)
           n == Len(tail.buf)
           IsEnd(i) == IF tail.mode = "text" THEN tail.buf[i + 1] = NUL ELSE tail.ends[i]
<1>1. /\ Len(text) \in Nat \ {0} /\ n \in Nat /\ end \in offset + 1 .. n
      /\ \A i \in 1 .. Len(text) : tail.buf[offset + i] = text[i]
      /\ EndsAt(tail, end)
      /\ \A i \in offset + 1 .. end - 1 : ~EndsAt(tail, i)
  BY LenProperties, EmptySeq DEF Stored
<1>2. IsEnd(end)
  BY <1>1 DEF EndsAt
<1>3. \A i \in offset + 1 .. end - 1 : ~IsEnd(i)
  <2> TAKE i \in offset + 1 .. end - 1
  <2>1. ~EndsAt(tail, i) /\ i < Len(tail.buf)
    BY <1>1
  <2> QED
    BY <2>1 DEF EndsAt
<1>4. TailEnd(offset) = CHOOSE i \in offset + 1 .. n :
                          IsEnd(i) /\ \A j \in offset + 1 .. i - 1 : ~IsEnd(j)
  BY DEF TailEnd
<1> HIDE DEF IsEnd, n
<1>5. \A i \in offset + 1 .. n :
        IsEnd(i) /\ (\A j \in offset + 1 .. i - 1 : ~IsEnd(j)) => i = end
  <2> SUFFICES ASSUME NEW i \in offset + 1 .. n, IsEnd(i),
                      \A j \in offset + 1 .. i - 1 : ~IsEnd(j)
               PROVE  i = end
    OBVIOUS
  <2>1. CASE i < end
    <3>1. i \in offset + 1 .. end - 1
      BY <1>1, <2>1
    <3> QED
      BY <1>3, <3>1
  <2>2. CASE i > end
    <3>1. end \in offset + 1 .. i - 1
      BY <1>1, <2>2
    <3> QED
      BY <1>2, <3>1
  <2>3. i \in Int /\ end \in Int
    BY <1>1
  <2> QED
    BY <2>1, <2>2, <2>3
<1>6. TailEnd(offset) = end
  <2> DEFINE P(i) == IsEnd(i) /\ \A j \in offset + 1 .. i - 1 : ~IsEnd(j)
  <2>1. end \in offset + 1 .. n /\ P(end)
    BY <1>1, <1>2, <1>3
  <2>2. \A i \in offset + 1 .. n : P(i) => i = end
    BY <1>5
  <2>3. TailEnd(offset) = CHOOSE i \in offset + 1 .. n : P(i)
    BY <1>4
  <2> HIDE DEF P, end
  <2> QED
    BY <2>1, <2>2, <2>3
<1>7. TailText(offset) = SubSeq(tail.buf, offset + 1, end)
  BY <1>6 DEF TailText
<1>8. SubSeq(tail.buf, offset + 1, end) = text
  <2> DEFINE sub == SubSeq(tail.buf, offset + 1, end)
  <2>1. /\ sub \in Seq(Byte) /\ Len(sub) = Len(text)
        /\ \A i \in 1 .. Len(text) : sub[i] = tail.buf[offset + i]
    <3>1. \A i \in 1 .. n : tail.buf[i] \in Byte
      BY ElementOfSeq DEF n
    <3>2. \A i \in offset + 1 .. end : tail.buf[i] \in Byte
      BY <1>1, <3>1
    <3>3. sub \in Seq(Byte)
      BY <1>1, <3>2, SubSeqProperties
    <3>4. offset + 1 \in Int /\ end \in Int /\ end - (offset + 1) + 1 = Len(text)
      BY <1>1
    <3>5. Len(sub) = Len(text) /\ \A i \in 1 .. Len(text) : sub[i] = tail.buf[offset + i]
      BY <1>1, <3>4
    <3> QED
      BY <3>3, <3>5
  <2> HIDE DEF sub
  <2>2. \A i \in 1 .. Len(sub) : sub[i] = text[i]
    BY <1>1, <2>1
  <2>3. sub = text
    BY <2>1, <2>2, SeqEqual
  <2> QED
    BY <2>3 DEF sub
<1> QED
  BY <1>7, <1>8

\* What is stored stays when the tail grows.
LEMMA StoredStays ==
  ASSUME NEW tl, NEW more, tl.buf \in Seq(Byte), more.buf \in Seq(Byte),
         more.mode = tl.mode, Len(tl.buf) <= Len(more.buf),
         \A i \in 1 .. Len(tl.buf) : more.buf[i] = tl.buf[i],
         tl.mode # "text" =>
           Len(tl.ends) = Len(tl.buf)
             /\ \A i \in 1 .. Len(tl.buf) : more.ends[i] = tl.ends[i],
         NEW offset \in Nat, NEW text \in Seq(Byte), Stored(tl, offset, text)
  PROVE  Stored(more, offset, text)
<1> DEFINE end == offset + Len(text)
           n == Len(tl.buf)
<1>1. /\ text # <<>> /\ Len(text) \in Nat \ {0} /\ n \in Nat /\ end \in 1 .. n
      /\ \A i \in 1 .. Len(text) : tl.buf[offset + i] = text[i]
      /\ EndsAt(tl, end)
      /\ \A i \in offset + 1 .. end - 1 : ~EndsAt(tl, i)
      /\ Len(more.buf) \in Nat /\ n <= Len(more.buf)
  BY LenProperties, EmptySeq DEF Stored
<1>2. \A i \in 1 .. Len(text) : more.buf[offset + i] = text[i]
  <2> TAKE i \in 1 .. Len(text)
  <2>1. offset + i \in 1 .. n
    BY <1>1
  <2> QED
    BY <1>1, <2>1
<1>3. EndsAt(more, end)
  <2>1. CASE tl.mode = "text"
    <3>1. end < n /\ tl.buf[end + 1] = NUL
      BY <1>1, <2>1 DEF EndsAt
    <3>2. end + 1 \in 1 .. n /\ end < Len(more.buf)
      BY <1>1, <3>1
    <3> QED
      BY <2>1, <3>1, <3>2 DEF EndsAt
  <2>2. CASE tl.mode # "text"
    BY <1>1, <2>2 DEF EndsAt
  <2> QED
    BY <2>1, <2>2
<1>4. ASSUME NEW i \in offset + 1 .. end - 1 PROVE ~EndsAt(more, i)
  <2>1. i \in 1 .. n /\ i + 1 \in 1 .. n /\ i < n
    BY <1>1
  <2>2. ~EndsAt(tl, i)
    BY <1>1
  <2>3. CASE tl.mode = "text"
    BY <2>1, <2>2, <2>3 DEF EndsAt
  <2>4. CASE tl.mode # "text"
    BY <2>1, <2>2, <2>4 DEF EndsAt
  <2> QED
    BY <2>3, <2>4
<1>5. end <= Len(more.buf)
  BY <1>1
<1> QED
  BY <1>1, <1>2, <1>3, <1>4, <1>5 DEF Stored

\* The end of what is stored is stored as well.
LEMMA StoredSuffix ==
  ASSUME NEW tl, NEW offset \in Nat, NEW whole \in Seq(Byte), NEW text \in Seq(Byte),
         Stored(tl, offset, whole), Suffix(text, whole), text # <<>>
  PROVE  /\ offset + Len(whole) - Len(text) \in Nat
         /\ Stored(tl, offset + Len(whole) - Len(text), text)
<1> DEFINE m == Len(whole)
           n == Len(text)
           at == offset + m - n
<1>1. m \in Nat /\ n \in Nat /\ n <= m /\ text = SubSeq(whole, m - n + 1, m)
  BY LenProperties DEF Suffix
<1>2. at \in Nat /\ at >= offset /\ at + n = offset + m
  BY <1>1
<1>3. \A i \in 1 .. n : text[i] = whole[m - n + i] /\ m - n + i \in 1 .. m
  BY <1>1
<1>4. /\ offset + m <= Len(tl.buf)
      /\ \A i \in 1 .. m : tl.buf[offset + i] = whole[i]
      /\ EndsAt(tl, offset + m)
      /\ \A i \in offset + 1 .. offset + m - 1 : ~EndsAt(tl, i)
  BY DEF Stored
<1>5. \A i \in 1 .. n : tl.buf[at + i] = text[i]
  <2> TAKE i \in 1 .. n
  <2>1. tl.buf[offset + (m - n + i)] = whole[m - n + i]
    BY <1>3, <1>4
  <2>2. offset + (m - n + i) = at + i
    BY <1>1
  <2> QED
    BY <1>3, <2>1, <2>2
<1>6. \A i \in at + 1 .. at + n - 1 : ~EndsAt(tl, i)
  <2> TAKE i \in at + 1 .. at + n - 1
  <2>1. i \in offset + 1 .. offset + m - 1
    BY <1>1, <1>2
  <2> QED
    BY <1>4, <2>1
<1> HIDE DEF at
<1>7. Stored(tl, at, text)
  BY <1>2, <1>4, <1>5, <1>6 DEF Stored
<1> QED
  BY <1>2, <1>7 DEF at

\* So is what has just been added.
LEMMA StoredNew ==
  ASSUME NEW tl, NEW offset \in Nat, NEW text \in Seq(Byte), text # <<>>,
         Len(tl.buf) \in Nat, offset + Len(text) <= Len(tl.buf),
         \A i \in 1 .. Len(text) : tl.buf[offset + i] = text[i],
         tl.mode = "text" =>
           /\ ~HasNul(text) /\ offset + Len(text) < Len(tl.buf)
           /\ tl.buf[offset + Len(text) + 1] = NUL,
         tl.mode # "text" =>
           \A i \in 1 .. Len(text) : tl.ends[offset + i] = (i = Len(text))
  PROVE  Stored(tl, offset, text)
<1> DEFINE n == Len(text)
<1>1. n \in Nat \ {0}
  BY LenProperties, EmptySeq
<1>2. EndsAt(tl, offset + n)
  <2>1. CASE tl.mode = "text"
    BY <2>1 DEF EndsAt
  <2>2. CASE tl.mode # "text"
    <3>1. n \in 1 .. Len(text) /\ n = Len(text)
      BY <1>1
    <3>2. tl.ends[offset + n]
      BY <2>2, <3>1, Zenon
    <3> QED
      BY <2>2, <3>2 DEF EndsAt
  <2> QED
    BY <2>1, <2>2
<1>3. ASSUME NEW i \in offset + 1 .. offset + n - 1 PROVE ~EndsAt(tl, i)
  <2>1. CASE tl.mode = "text"
    <3>1. i + 1 - offset \in 1 .. n /\ offset + (i + 1 - offset) = i + 1
      BY <1>1
    <3>2. tl.buf[i + 1] = text[i + 1 - offset]
      BY <3>1
    <3>3. text[i + 1 - offset] # NUL
      <4>1. DOMAIN text = 1 .. n
        BY LenProperties
      <4> QED
        BY <2>1, <3>1, <4>1 DEF HasNul
    <3> QED
      BY <2>1, <3>2, <3>3 DEF EndsAt
  <2>2. CASE tl.mode # "text"
    <3>1. i - offset \in 1 .. n /\ i - offset # n /\ offset + (i - offset) = i
      BY <1>1
    <3> QED
      BY <2>2, <3>1 DEF EndsAt
  <2> QED
    BY <2>1, <2>2
<1> QED
  BY <1>2, <1>3, SMTT(30) DEF Stored

\* AddChild: what is handed on is longer than a byte.
LEMMA PartsChild == Inv /\ AddChild /\ PartsOK => PartsOK'
<1> SUFFICES ASSUME Inv, AddChild, PartsOK PROVE PartsOK'
  OBVIOUS
<1>1. phase = "children" /\ phase' = "children"
  BY DEF AddChild
<1>2. Building /\ Opened
  BY <1>1 DEF Building, Opened
<1>3. \E b \in DOMAIN groups : \E first \in groups[b].keys : \E end \in Nat :
        /\ pos < end /\ end <= Len(keys[first].text)
        /\ \/ nextKeys' = nextKeys
           \/ nextKeys' = Append(nextKeys,
                [text |-> Segment(first, pos, end), word |-> groups[b].weight])
  BY ChildTaken
<1>4. PICK b \in DOMAIN groups : \E first \in groups[b].keys : \E end \in Nat :
        /\ pos < end /\ end <= Len(keys[first].text)
        /\ \/ nextKeys' = nextKeys
           \/ nextKeys' = Append(nextKeys,
                [text |-> Segment(first, pos, end), word |-> groups[b].weight])
  BY <1>3
<1>5. PICK first \in groups[b].keys : \E end \in Nat :
        /\ pos < end /\ end <= Len(keys[first].text)
        /\ \/ nextKeys' = nextKeys
           \/ nextKeys' = Append(nextKeys,
                [text |-> Segment(first, pos, end), word |-> groups[b].weight])
  BY <1>4
<1>6. PICK end \in Nat :
        /\ pos < end /\ end <= Len(keys[first].text)
        /\ \/ nextKeys' = nextKeys
           \/ nextKeys' = Append(nextKeys,
                [text |-> Segment(first, pos, end), word |-> groups[b].weight])
  BY <1>5
<1>7. /\ first \in DOMAIN keys /\ pos \in Nat /\ KeysOK /\ nextKeys \in Seq(KeyType)
      /\ groups[b].weight \in Nat
  BY <1>2 DEF Inv, GroupsOK, NodeOK, KeysOK
<1>8. end \in pos .. Len(keys[first].text) /\ end - pos > 0
  BY <1>6, <1>7, KeyFields
<1> DEFINE s == Segment(first, pos, end)
           part == [text |-> s, word |-> groups[b].weight]
<1>9. s \in Seq(Byte) /\ Len(s) = end - pos
  BY <1>7, <1>8, SegmentLabels
<1> HIDE DEF s
<1>10. s # <<>>
  BY <1>8, <1>9
<1>11. part \in KeyType /\ part.text # <<>>
  BY <1>7, <1>9, <1>10 DEF KeyType
<1> HIDE DEF part
<1>12. \A k \in DOMAIN nextKeys : nextKeys[k].text # <<>>
  BY <1>2 DEF PartsOK
<1>13. \A k \in DOMAIN nextKeys' : nextKeys'[k].text # <<>>
  <2>1. CASE nextKeys' = nextKeys
    BY <1>12, <2>1
  <2>2. CASE nextKeys' = Append(nextKeys, part)
    <3>1. /\ DOMAIN nextKeys' = 1 .. Len(nextKeys) + 1
          /\ DOMAIN nextKeys = 1 .. Len(nextKeys) /\ Len(nextKeys) \in Nat
          /\ \A k \in 1 .. Len(nextKeys) : nextKeys'[k] = nextKeys[k]
          /\ nextKeys'[Len(nextKeys) + 1] = part
      BY <1>7, <1>11, <2>2, AppendProperties, LenProperties
    <3> QED
      BY <1>11, <1>12, <3>1
  <2> QED
    BY <1>6, <2>1, <2>2 DEF part, s
<1> QED
  BY <1>1, <1>13 DEF PartsOK

\* NextTail: nothing is stored yet, and a text tail has no use for a NUL.
LEMMA StoredNextTail == Inv /\ NextTail /\ StoredInv => StoredInv'
<1> SUFFICES ASSUME Inv, NextTail, StoredInv PROVE StoredInv'
  OBVIOUS
<1> DEFINE nul == \E k \in DOMAIN nextKeys : HasNul(nextKeys[k].text)
<1>1. /\ phase = "pop" /\ phase' = "tail"
      /\ keys' = nextKeys /\ entries' = DOMAIN nextKeys
      /\ links' = [k \in DOMAIN nextKeys |-> 0]
      /\ tail' = [tail EXCEPT !.mode = IF nul THEN "binary" ELSE @]
      /\ UNCHANGED last
  BY DEF NextTail, CloseTrie
<1>2. Building /\ ~Building'
  BY <1>1 DEF Building
<1>3. tail \in [buf : Seq(Byte), ends : Seq(BOOLEAN), mode : {"text", "binary"}]
      /\ last = 0 /\ nextKeys \in Seq(KeyType)
  BY <1>2 DEF Inv, TailOK, KeysOK
<1>4. tail.buf = <<>> /\ tail.ends = <<>> /\ \A k \in DOMAIN nextKeys : nextKeys[k].text # <<>>
  BY <1>2 DEF StoredInv, EntriesOK, PartsOK
<1>5. tail'.buf = <<>> /\ tail'.ends = <<>> /\ (tail'.mode = "text" => ~nul)
  BY <1>1, <1>3, <1>4
<1>6. last' \notin entries'
  <2>1. DOMAIN nextKeys = 1 .. Len(nextKeys) /\ Len(nextKeys) \in Nat
    BY <1>3, LenProperties
  <2> QED
    BY <1>1, <1>3, <2>1
<1>7. PartsOK'
  BY <1>1, <1>2, <1>4 DEF PartsOK
<1>8. EntriesOK'
  BY <1>1, <1>2, <1>5, <1>6 DEF EntriesOK
<1> QED
  BY <1>7, <1>8 DEF StoredInv

\* AddEntry: the entry is the end of the last one or is appended, and what was
\* stored stays.
LEMMA StoredAddEntry == Inv /\ AddEntry /\ StoredInv => StoredInv'
<1> SUFFICES ASSUME Inv, AddEntry, StoredInv PROVE StoredInv'
  OBVIOUS
<1>1. phase = "tail" /\ phase' = "tail" /\ UNCHANGED <<keys, nextKeys>>
  BY DEF AddEntry, bitVars
<1>2. ~Building /\ ~Building'
  BY <1>1 DEF Building
<1> DEFINE marks(s) == [i \in DOMAIN s |-> i = Len(s)]
           old(k) == links[last] + Len(keys[last].text) - Len(keys[k].text)
<1>3. PICK k \in entries :
        /\ entries' = entries \ {k}
        /\ last' = k
        /\ \/ /\ last # 0 /\ Suffix(keys[k].text, keys[last].text)
              /\ links' = [links EXCEPT ![k] = old(k)]
              /\ tail' = tail
           \/ /\ links' = [links EXCEPT ![k] = Len(tail.buf)]
              /\ IF tail.mode = "text"
                 THEN tail' = [tail EXCEPT !.buf = @ \o keys[k].text \o <<NUL>>]
                 ELSE tail' = [tail EXCEPT !.buf = @ \o keys[k].text,
                                           !.ends = @ \o marks(keys[k].text)]
  BY DEF AddEntry
<1> DEFINE text == keys[k].text
<1>4. /\ last \in DOMAIN keys \cup {0} /\ entries \subseteq DOMAIN keys
      /\ links \in Seq(Nat) /\ DOMAIN links = DOMAIN keys
      /\ tail \in [buf : Seq(Byte), ends : Seq(BOOLEAN), mode : {"text", "binary"}]
      /\ KeysOK
  BY <1>1, LenProperties DEF Inv, TailOK, KeysOK
<1>5. /\ \A j \in DOMAIN keys : keys[j].text # <<>>
      /\ tail.mode = "text" => \A j \in DOMAIN keys : ~HasNul(keys[j].text)
      /\ tail.mode # "text" => Len(tail.ends) = Len(tail.buf)
      /\ last \notin entries
      /\ \A j \in DOMAIN keys \ entries : Stored(tail, links[j], keys[j].text)
  BY <1>1 DEF StoredInv, PartsOK, EntriesOK
<1>6. k \in DOMAIN keys /\ text \in Seq(Byte) /\ text # <<>> /\ Len(text) \in Nat
  BY <1>4, <1>5, KeyFields
<1>7. /\ DOMAIN links' = DOMAIN keys
      /\ \A j \in DOMAIN keys \ {k} : links'[j] = links[j]
      /\ last' \notin entries'
  BY <1>3, <1>4
<1>8. \A j \in DOMAIN keys : links[j] \in Nat /\ keys[j].text \in Seq(Byte)
  BY <1>4, ElementOfSeq, LenProperties, KeyFields
<1> HIDE DEF text
<1>9. CASE /\ last # 0 /\ Suffix(text, keys[last].text)
           /\ links' = [links EXCEPT ![k] = old(k)]
           /\ tail' = tail
  <2>1. last \in DOMAIN keys \ entries
    BY <1>4, <1>5, <1>9
  <2>2. /\ Stored(tail, links[last], keys[last].text)
        /\ links[last] \in Nat /\ keys[last].text \in Seq(Byte)
    BY <1>5, <1>8, <2>1
  <2>3. Stored(tail, links[last] + Len(keys[last].text) - Len(text), text)
    BY <1>6, <1>9, <2>2, StoredSuffix
  <2>4. links'[k] = links[last] + Len(keys[last].text) - Len(text)
    BY <1>4, <1>6, <1>9 DEF text
  <2>5. \A j \in DOMAIN keys \ entries' : Stored(tail, links'[j], keys[j].text)
    BY <1>3, <1>5, <1>7, <2>3, <2>4 DEF text
  <2>6. EntriesOK'
    BY <1>1, <1>2, <1>5, <1>7, <1>9, <2>5 DEF EntriesOK
  <2> QED
    BY <1>1, <1>2, <1>5, <2>6 DEF StoredInv, PartsOK
<1>10. CASE /\ links' = [links EXCEPT ![k] = Len(tail.buf)]
            /\ IF tail.mode = "text"
               THEN tail' = [tail EXCEPT !.buf = @ \o text \o <<NUL>>]
               ELSE tail' = [tail EXCEPT !.buf = @ \o text, !.ends = @ \o marks(text)]
  <2> DEFINE n == Len(tail.buf)
             m == Len(text)
  <2>1. /\ tail.buf \in Seq(Byte) /\ tail.ends \in Seq(BOOLEAN)
        /\ n \in Nat /\ m \in Nat
    BY <1>4, <1>6, LenProperties
  <2>2. /\ tail.buf \o text \in Seq(Byte)
        /\ Len(tail.buf \o text) = n + m
        /\ \A i \in 1 .. n : (tail.buf \o text)[i] = tail.buf[i]
        /\ \A i \in 1 .. m : (tail.buf \o text)[n + i] = text[i]
    BY <1>6, <2>1, ConcatProperties
  <2>3. CASE tail.mode = "text"
    <3>1. tail'.buf = tail.buf \o text \o <<NUL>> /\ tail'.mode = "text"
      BY <1>4, <1>10, <2>3
    <3> DEFINE front == tail.buf \o text
    <3>2. front \in Seq(Byte) /\ Len(front) = n + m /\ Len(front) \in Nat
      BY <2>1, <2>2
    <3> HIDE DEF front
    <3>3. <<NUL>> \in Seq(Byte) /\ Len(<<NUL>>) = 1 /\ <<NUL>>[1] = NUL
      BY ZeroIsByte DEF NUL
    <3>4. /\ front \o <<NUL>> \in Seq(Byte)
          /\ Len(front \o <<NUL>>) = Len(front) + 1
          /\ \A i \in 1 .. Len(front) : (front \o <<NUL>>)[i] = front[i]
          /\ (front \o <<NUL>>)[Len(front) + 1] = NUL
      BY <3>2, <3>3, ConcatProperties
    <3>5. /\ tail'.buf \in Seq(Byte) /\ Len(tail'.buf) = n + m + 1
          /\ \A i \in 1 .. n + m : tail'.buf[i] = front[i]
          /\ tail'.buf[n + m + 1] = NUL
      BY <3>1, <3>2, <3>4 DEF front
    <3>6. \A i \in 1 .. n : tail'.buf[i] = tail.buf[i]
      BY <2>1, <2>2, <3>5 DEF front
    <3>7. \A i \in 1 .. m : tail'.buf[n + i] = text[i]
      <4> TAKE i \in 1 .. m
      <4>1. n + i \in 1 .. n + m
        BY <2>1
      <4> QED
        BY <2>2, <3>5, <4>1 DEF front
    <3> DEFINE more == tail'
    <3>8. \A j \in DOMAIN keys \ entries : Stored(more, links[j], keys[j].text)
      <4> SUFFICES ASSUME NEW j \in DOMAIN keys \ entries
                   PROVE  Stored(more, links[j], keys[j].text)
        OBVIOUS
      <4>1. /\ Stored(tail, links[j], keys[j].text) /\ links[j] \in Nat
            /\ keys[j].text \in Seq(Byte)
        BY <1>5, <1>8
      <4>2. n <= Len(more.buf)
        BY <2>1, <3>5
      <4> HIDE DEF n
      <4> QED
        BY <2>1, <2>3, <3>1, <3>5, <3>6, <4>1, <4>2, StoredStays DEF n
    <3>9. Stored(more, n, text)
      <4>1. ~HasNul(text)
        BY <1>5, <1>6, <2>3 DEF text
      <4>2. n + m <= Len(more.buf) /\ n + m < Len(more.buf) /\ Len(more.buf) \in Nat
        BY <2>1, <3>5
      <4> QED
        BY <1>6, <2>1, <3>1, <3>5, <3>7, <4>1, <4>2, StoredNew
    <3>10. links'[k] = n
      BY <1>4, <1>6, <1>10
    <3> HIDE DEF more, n
    <3>11. \A j \in DOMAIN keys \ entries' : Stored(more, links'[j], keys[j].text)
      BY <1>3, <1>7, <3>8, <3>9, <3>10 DEF text
    <3>12. EntriesOK'
      BY <1>1, <1>2, <1>5, <1>7, <2>3, <3>1, <3>11 DEF EntriesOK, more
    <3> QED
      BY <1>1, <1>2, <1>5, <3>12 DEF StoredInv, PartsOK
  <2>4. CASE tail.mode # "text"
    <3> DEFINE flags == marks(text)
    <3>1. /\ tail'.buf = tail.buf \o text /\ tail'.mode = tail.mode
          /\ tail'.ends = tail.ends \o flags
      BY <1>4, <1>10, <2>4
    <3>2. /\ flags \in Seq(BOOLEAN) /\ Len(flags) = m
          /\ \A i \in 1 .. m : flags[i] = (i = m)
      <4>1. DOMAIN text = 1 .. m
        BY <1>6, LenProperties
      <4>2. flags \in [1 .. m -> BOOLEAN] /\ \A i \in 1 .. m : flags[i] = (i = m)
        BY <4>1
      <4> HIDE DEF flags
      <4> QED
        BY <2>1, <4>2, SeqFromFunction
    <3> HIDE DEF flags
    <3>3. Len(tail.ends) = n
      BY <1>5, <2>4
    <3>4. /\ Len(tail.ends \o flags) = n + m
          /\ \A i \in 1 .. n : (tail.ends \o flags)[i] = tail.ends[i]
          /\ \A i \in 1 .. m : (tail.ends \o flags)[n + i] = flags[i]
      <4> DEFINE before == tail.ends
      <4>1. before \in Seq(BOOLEAN)
        BY <2>1
      <4> HIDE DEF before
      <4>2. /\ Len(before \o flags) = Len(before) + Len(flags)
            /\ \A i \in 1 .. Len(before) : (before \o flags)[i] = before[i]
            /\ \A i \in 1 .. Len(flags) : (before \o flags)[Len(before) + i] = flags[i]
        <5>1. before \in Seq(BOOLEAN) /\ flags \in Seq(BOOLEAN)
          BY <3>2, <4>1
        <5> QED
          BY ONLY <5>1, ConcatFacts
      <4> QED
        BY <3>2, <3>3, <4>2 DEF before
    <3> DEFINE more == tail'
    <3>5. /\ more.buf \in Seq(Byte) /\ Len(more.buf) = n + m
          /\ \A i \in 1 .. n : more.buf[i] = tail.buf[i]
          /\ \A i \in 1 .. m : more.buf[n + i] = text[i]
      BY <2>2, <3>1
    <3>6. /\ Len(more.ends) = n + m
          /\ \A i \in 1 .. n : more.ends[i] = tail.ends[i]
          /\ \A i \in 1 .. m : more.ends[n + i] = flags[i]
      BY <3>1, <3>4
    <3>7. more.mode = tail.mode
      BY <3>1
    <3>8. \A j \in DOMAIN keys \ entries : Stored(more, links[j], keys[j].text)
      <4> SUFFICES ASSUME NEW j \in DOMAIN keys \ entries
                   PROVE  Stored(more, links[j], keys[j].text)
        OBVIOUS
      <4>1. /\ Stored(tail, links[j], keys[j].text) /\ links[j] \in Nat
            /\ keys[j].text \in Seq(Byte)
        BY <1>5, <1>8
      <4>2. n <= Len(more.buf)
        BY <2>1, <3>5
      <4> HIDE DEF more
      <4> QED
        BY <2>1, <3>3, <3>5, <3>6, <3>7, <4>1, <4>2, StoredStays
    <3>9. Stored(more, n, text)
      <4>1. n + m <= Len(more.buf) /\ Len(more.buf) \in Nat
        BY <2>1, <3>5
      <4>2. \A i \in 1 .. m : more.ends[n + i] = (i = m)
        BY <3>2, <3>6
      <4> HIDE DEF more
      <4> QED
        BY <1>6, <2>1, <2>4, <3>5, <3>7, <4>1, <4>2, StoredNew
    <3>10. links'[k] = n
      BY <1>4, <1>6, <1>10
    <3>11. Len(more.ends) = Len(more.buf)
      BY <3>5, <3>6
    <3> HIDE DEF more, n
    <3>12. \A j \in DOMAIN keys \ entries' : Stored(more, links'[j], keys[j].text)
      BY <1>3, <1>7, <3>8, <3>9, <3>10 DEF text
    <3>13. EntriesOK'
      BY <1>1, <1>2, <1>7, <2>4, <3>1, <3>11, <3>12 DEF EntriesOK, more
    <3> QED
      BY <1>1, <1>2, <1>5, <3>13 DEF StoredInv, PartsOK
  <2> QED
    BY <2>3, <2>4
<1> QED
  BY <1>3, <1>9, <1>10 DEF text

\* What is stored stays readable throughout.
LEMMA StoredStep == Inv /\ [Next]_vars /\ StoredInv => StoredInv'
<1> SUFFICES ASSUME Inv, [Next]_vars, StoredInv PROVE StoredInv'
  OBVIOUS
<1>1. CASE AddChild
  <2>1. PartsOK'
    BY <1>1, PartsChild DEF StoredInv
  <2>2. /\ UNCHANGED tail /\ phase = "children" /\ phase' = "children"
    BY <1>1 DEF AddChild, tailVars
  <2>3. EntriesOK'
    BY <2>2 DEF StoredInv, EntriesOK, Building
  <2> QED
    BY <2>1, <2>3 DEF StoredInv
<1>2. CASE BeginTrie
  <2>1. /\ UNCHANGED tail /\ phase = "begin" /\ phase' = "pop"
        /\ DOMAIN nextKeys' = {}
    BY <1>2 DEF BeginTrie, tailVars
  <2> QED
    BY <2>1 DEF StoredInv, PartsOK, EntriesOK, Building
<1>3. CASE OpenNode \/ GroupKey \/ Grouped \/ CloseNode
  <2>1. /\ UNCHANGED <<tail, nextKeys>> /\ Building /\ Building'
        /\ phase' \notin {"tail", "begin"}
    BY <1>3 DEF OpenNode, GroupKey, Grouped, CloseNode, tailVars, bitVars, Building
  <2> QED
    BY <2>1 DEF StoredInv, PartsOK, EntriesOK
<1>4. CASE NoNextLevel \/ TailDone \/ LinkTrie \/ NumberKeys
  <2>1. phase' \in {"link", "done"}
    BY <1>4 DEF NoNextLevel, TailDone, LinkTrie, NumberKeys
  <2> QED
    BY <2>1 DEF StoredInv, PartsOK, EntriesOK, Building
<1>5. CASE NextTrie
  <2>1. UNCHANGED tail /\ phase = "pop" /\ phase' = "begin"
    BY <1>5 DEF NextTrie, CloseTrie, tailVars
  <2> QED
    BY <2>1 DEF StoredInv, PartsOK, EntriesOK, Building
<1>6. CASE NextTail
  BY <1>6, StoredNextTail
<1>7. CASE AddEntry
  BY <1>7, StoredAddEntry
<1>8. CASE UNCHANGED vars
  BY <1>8 DEF vars, tailVars, linkVars, bitVars, StoredInv, PartsOK, EntriesOK, Building
<1> QED
  BY <1>1, <1>2, <1>3, <1>4, <1>5, <1>6, <1>7, <1>8 DEF Next

LEMMA StoredAlways == Spec => []StoredInv
<1>1. Init => StoredInv
  BY DEF Init, StoredInv, PartsOK, EntriesOK, Building
<1> QED
  BY <1>1, Invariance, StoredStep, PTL DEF Spec

-----------------------------------------------------------------------------
TextsOf(ks) == [k \in DOMAIN ks |-> ks[k].text]

\* The texts at the terminals of a trie.
EndTexts(t) == [k \in DOMAIN t.terminals |-> t.textOf[t.terminals[k] + 1]]

TailTexts == [offset \in Nat |-> TailText(offset)]

\* The texts behind the links on their way back.
LinkTexts ==
  [k \in DOMAIN links |-> IF trie = <<>> THEN TailTexts[links[k]]
                          ELSE trie[1].textOf[links[k] + 1]]

\* What the link nodes of the trie on top of the stack stand for.
Parts == IF Linking THEN LinkTexts ELSE TextsOf(keys)

\* The nodes of t, of level l, have the texts their edges spell.
SpelledBy(l, t, parts) ==
  Spelled(l, t.textOf, t.parentOf,
          EdgesBy(t.linkFlags, t.bases, t.parentOf, parts))

\* The edges of a finished trie: its links lead into the next one or the tail.
EdgesOf(tries, j, tails) ==
  LET t == tries[j]
  IN  [n \in DOMAIN t.parentOf |->
        IF ~Bit(t.linkFlags, n) THEN <<t.bases[n + 1]>>
        ELSE IF j < Len(tries) THEN tries[j + 1].textOf[LinkOf(t, n) + 1]
        ELSE tails[LinkOf(t, n)]]

CurrentSpelled ==
  Building => Spelled(level, textOf, parentOf,
                      EdgesBy(linkFlags, bases, parentOf, TextsOf(nextKeys)))

StackSpelled ==
  /\ \A i \in 1 .. Len(stack) - 1 : SpelledBy(i, stack[i], EndTexts(stack[i + 1]))
  /\ stack # <<>> => SpelledBy(Len(stack), stack[Len(stack)], Parts)

TriesSpelled ==
  \A j \in DOMAIN trie :
    Spelled(Len(stack) + j, trie[j].textOf, trie[j].parentOf,
            EdgesOf(trie, j, TailTexts))

\* Links are numbers, and in all tries but the last they are nodes of the next.
LinksLead ==
  \A j \in DOMAIN trie : \A n \in DOMAIN trie[j].parentOf :
    Bit(trie[j].linkFlags, n) =>
      /\ LinkOf(trie[j], n) \in Nat
      /\ j < Len(trie) => LinkOf(trie[j], n) < Len(trie[j + 1].linkFlags)

SpelledInv == CurrentSpelled /\ StackSpelled /\ TriesSpelled /\ LinksLead

\* BeginTrie: the root has the empty text.
LEMMA SpelledBegin ==
  ASSUME NEW l, NEW edges
  PROVE  Spelled(l, << <<>> >>, <<>>, edges)
<1>1. <<>> \in Seq(Byte)
  OBVIOUS
<1>2. << <<>> >> \in Seq(Seq(Byte)) /\ Len(<< <<>> >>) = 1 /\ << <<>> >>[1] = <<>>
  BY <1>1
<1>3. DOMAIN <<>> = {} /\ Len(<<>>) = 0
  OBVIOUS
<1> QED
  BY <1>2, <1>3 DEF Spelled

\* AddChild: the edge of the new node is what its keys have in common between
\* the text of its parent and its own.
LEMMA SpelledChild == Inv /\ PlacedInv /\ AddChild /\ CurrentSpelled => CurrentSpelled'
<1> SUFFICES ASSUME Inv, PlacedInv, AddChild, CurrentSpelled PROVE CurrentSpelled'
  OBVIOUS
<1> DEFINE Takes(b, first, end) ==
             /\ pos < end /\ end <= Len(keys[first].text)
             /\ textOf' = Append(textOf, Segment(first, 0, end))
             /\ \/ /\ end = pos + 1
                   /\ bases' = Append(bases, b)
                   /\ linkFlags' = Append(linkFlags, FALSE)
                   /\ nextKeys' = nextKeys
                \/ /\ bases' = Append(bases, 0)
                   /\ linkFlags' = Append(linkFlags, TRUE)
                   /\ nextKeys' = Append(nextKeys,
                        [text |-> Segment(first, pos, end), word |-> groups[b].weight])
<1>1. phase = "children" /\ parentOf' = Append(parentOf, node) /\ UNCHANGED level
      /\ phase' = "children"
  BY DEF AddChild
<1>2. Building /\ Building' /\ Opened
  BY <1>1 DEF Building, Opened
<1>3. \E b \in DOMAIN groups : \E first \in groups[b].keys : \E end \in Nat :
        Takes(b, first, end)
  BY ChildTaken
<1> HIDE DEF Takes
<1>4. PICK b \in DOMAIN groups : \E first \in groups[b].keys : \E end \in Nat :
        Takes(b, first, end)
  BY <1>3
<1>5. PICK first \in groups[b].keys : \E end \in Nat : Takes(b, first, end)
  BY <1>4
<1>6. PICK end \in Nat : Takes(b, first, end)
  BY <1>5
<1>7. /\ first \in DOMAIN keys /\ pos \in Nat /\ KeysOK /\ nextKeys \in Seq(KeyType)
      /\ groups[b].weight \in Nat /\ b \in Byte
      /\ first \in rest \cup InGroups
  BY <1>2 DEF Inv, GroupsOK, NodeOK, KeysOK, InGroups
<1>8. /\ pos < end /\ end <= Len(keys[first].text)
      /\ textOf' = Append(textOf, Segment(first, 0, end))
  BY <1>6 DEF Takes
<1>9. end \in pos .. Len(keys[first].text) /\ end \in 0 .. Len(keys[first].text)
      /\ Len(keys[first].text) \in Nat
  BY <1>7, <1>8, KeyFields
<1> DEFINE s == Segment(first, pos, end)
           text == Segment(first, 0, end)
<1>10. s \in Seq(Byte) /\ Len(s) = end - pos
  BY <1>7, <1>9, SegmentLabels
<1>11. text \in Seq(Byte)
  BY <1>7, <1>9, SegmentType
<1>12. text = Join(level, textOf[node + 1], s)
  <2>1. text = Read(level, keys[first].text, end)
    BY <1>7, ReadIsSegment
  <2>2. textOf[node + 1] = Read(level, keys[first].text, pos)
    BY <1>2, <1>7 DEF PlacedInv, OpenedOK
  <2>3. Read(level, keys[first].text, end) =
          Join(level, Read(level, keys[first].text, pos), s)
    BY <1>7, <1>9, ReadOn
  <2> QED
    BY <2>1, <2>2, <2>3
<1>13. /\ parentOf \in Seq(Nat) /\ linkFlags \in Seq(BOOLEAN) /\ bases \in Seq(Byte)
       /\ Len(parentOf) + 1 = Len(linkFlags) /\ Len(bases) = Len(linkFlags)
       /\ Ones(linkFlags) = Len(nextKeys)
       /\ node \in Nat /\ node < Len(linkFlags)
  BY <1>2, OpenedNumbers DEF Inv, CurrentOK, BitsOK, ShapeOK
<1>14. /\ DOMAIN nextKeys = 1 .. Len(nextKeys) /\ Len(nextKeys) \in Nat
  BY <1>7, LenProperties
<1> DEFINE parts == TextsOf(nextKeys)
           others == TextsOf(nextKeys')
<1>15. Spelled(level, textOf, parentOf, EdgesBy(linkFlags, bases, parentOf, parts))
  BY <1>2 DEF CurrentSpelled
<1>16. CASE /\ end = pos + 1
            /\ bases' = Append(bases, b)
            /\ linkFlags' = Append(linkFlags, FALSE)
            /\ nextKeys' = nextKeys
  <2>1. others = parts
    BY <1>16
  <2>2. s = <<b>>
    <3>1. Label(first, pos) = b
      <4>1. \A c \in DOMAIN groups : \A k \in groups[c].keys : Label(k, pos) = c
        BY <1>2 DEF PlacedInv, OpenedOK
      <4> QED
        BY <4>1
    <3>2. pos < Len(keys[first].text)
      BY <1>7, <1>8, <1>9
    <3>3. Segment(first, pos, pos + 1) = <<Label(first, pos)>>
      BY <1>7, <3>2, SegmentOfOne
    <3> QED
      BY <1>16, <3>1, <3>3
  <2> HIDE DEF s, text, parts, others
  <2>3. FALSE \in BOOLEAN /\ \A r \in 1 .. Ones(linkFlags) : others[r] = parts[r]
    BY <2>1
  <2>4. Spelled(level, Append(textOf, text), Append(parentOf, node),
          EdgesBy(Append(linkFlags, FALSE), Append(bases, b), Append(parentOf, node), others))
    BY <1>7, <1>11, <1>12, <1>13, <1>15, <2>2, <2>3, SpelledMore
  <2> QED
    BY <1>1, <1>8, <1>16, <2>4 DEF CurrentSpelled, text, others
<1>17. CASE /\ bases' = Append(bases, 0)
            /\ linkFlags' = Append(linkFlags, TRUE)
            /\ nextKeys' = Append(nextKeys, [text |-> s, word |-> groups[b].weight])
  <2> DEFINE part == [text |-> s, word |-> groups[b].weight]
  <2>1. part \in KeyType /\ part.text = s
    BY <1>7, <1>10 DEF KeyType
  <2> HIDE DEF part
  <2>2. /\ DOMAIN nextKeys' = 1 .. Len(nextKeys) + 1
        /\ \A k \in 1 .. Len(nextKeys) : nextKeys'[k] = nextKeys[k]
        /\ nextKeys'[Len(nextKeys) + 1] = part
    <3>1. nextKeys' = Append(nextKeys, part)
      BY <1>17 DEF part
    <3> QED
      BY <1>7, <1>14, <2>1, <3>1, AppendProperties, LenProperties
  <2>3. /\ \A r \in 1 .. Ones(linkFlags) : others[r] = parts[r]
        /\ others[Ones(linkFlags) + 1] = s
    <3>1. /\ \A r \in 1 .. Len(nextKeys) : others[r] = nextKeys[r].text
          /\ others[Len(nextKeys) + 1] = s
      BY <1>14, <2>1, <2>2 DEF TextsOf
    <3>2. \A r \in 1 .. Len(nextKeys) : parts[r] = nextKeys[r].text
      BY <1>14 DEF TextsOf
    <3> QED
      BY <1>13, <3>1, <3>2
  <2> HIDE DEF s, text, parts, others
  <2>4. TRUE \in BOOLEAN /\ 0 \in Byte
    BY ZeroIsByte
  <2>5. Spelled(level, Append(textOf, text), Append(parentOf, node),
          EdgesBy(Append(linkFlags, TRUE), Append(bases, 0), Append(parentOf, node), others))
    BY <1>7, <1>11, <1>12, <1>13, <1>15, <2>3, <2>4, SpelledMore
  <2> QED
    BY <1>1, <1>8, <1>17, <2>5 DEF CurrentSpelled, text, others
<1> QED
  BY <1>6, <1>16, <1>17 DEF Takes

\* A trie is closed: its terminals say what the links of the trie below it
\* stand for, and its own links stand for the keys of the next level.
LEMMA SpelledCloseTrie ==
  ASSUME Inv, PlacedInv, NamedInv, SpelledInv, CloseTrie,
         \/ phase' \in {"begin", "tail"} /\ keys' = nextKeys
         \/ phase' = "link" /\ nextKeys = <<>>
  PROVE  SpelledInv'
<1> DEFINE top == stack'[Len(stack) + 1]
<1>1. /\ phase = "pop" /\ Building /\ ~Building' /\ ~Linking
      /\ Len(stack) \in Nat /\ DOMAIN stack = 1 .. Len(stack)
      /\ Len(stack') = Len(stack) + 1 /\ DOMAIN stack' = 1 .. Len(stack) + 1
      /\ stack' # <<>>
      /\ \A i \in 1 .. Len(stack) : stack'[i] = stack[i]
      /\ top.linkFlags = linkFlags /\ top.bases = bases
      /\ top.parentOf = parentOf /\ top.textOf = textOf
      /\ top.terminals = [k \in DOMAIN keys |-> keys[k].word]
      /\ UNCHANGED trie
  BY Pushed DEF Building, Linking
<1> HIDE DEF top
<1>2. level = Len(stack) + 1 /\ trie = <<>>
  BY <1>1 DEF NamedInv, LevelsOK
<1>3. EndTexts(top) = TextsOf(keys)
  <2>1. \A k \in DOMAIN keys : textOf[keys[k].word + 1] = keys[k].text
    BY AllPlaced
  <2> QED
    BY <1>1, <2>1 DEF EndTexts, TextsOf
<1>4. ASSUME NEW i \in 1 .. Len(stack)
      PROVE  SpelledBy(i, stack'[i], EndTexts(stack'[i + 1]))
  <2>1. CASE i = Len(stack)
    <3>1. stack # <<>> /\ Parts = TextsOf(keys)
      BY <1>1, <2>1 DEF Parts
    <3>2. SpelledBy(Len(stack), stack[Len(stack)], TextsOf(keys))
      BY <3>1 DEF SpelledInv, StackSpelled
    <3> QED
      BY <1>1, <1>3, <2>1, <3>2 DEF top
  <2>2. CASE i # Len(stack)
    <3>1. i \in 1 .. Len(stack) - 1 /\ i + 1 \in 1 .. Len(stack)
      <4>1. \A n \in Nat : \A m \in 1 .. n :
              m # n => m \in 1 .. n - 1 /\ m + 1 \in 1 .. n
        OBVIOUS
      <4>2. Len(stack) \in Nat
        BY <1>1
      <4> QED
        BY <2>2, <4>1, <4>2
    <3>2. SpelledBy(i, stack[i], EndTexts(stack[i + 1]))
      BY <3>1 DEF SpelledInv, StackSpelled
    <3> QED
      BY <1>1, <3>1, <3>2
  <2> QED
    BY <2>1, <2>2
<1>5. SpelledBy(Len(stack) + 1, top, Parts')
  <2>1. Spelled(level, textOf, parentOf,
                EdgesBy(linkFlags, bases, parentOf, TextsOf(nextKeys)))
    BY <1>1 DEF SpelledInv, CurrentSpelled
  <2>2. EdgesBy(linkFlags, bases, parentOf, TextsOf(nextKeys))
          = EdgesBy(linkFlags, bases, parentOf, Parts')
    <3>1. CASE phase' \in {"begin", "tail"} /\ keys' = nextKeys
      <4>1. Parts' = TextsOf(nextKeys)
        BY <3>1 DEF Parts, Linking, TextsOf
      <4> QED
        BY <4>1
    <3>2. CASE phase' = "link" /\ nextKeys = <<>>
      <4>1. /\ linkFlags \in Seq(BOOLEAN) /\ parentOf \in Seq(Nat)
            /\ Len(parentOf) + 1 = Len(linkFlags)
            /\ Ones(linkFlags) = 0
        BY <1>1, <3>2 DEF Inv, CurrentOK, BitsOK, ShapeOK
      <4> DEFINE p == TextsOf(nextKeys)
                 q == Parts'
      <4> HIDE DEF p, q
      <4>2. \A r \in 1 .. Ones(linkFlags) : p[r] = q[r]
        BY <4>1
      <4>3. EdgesBy(linkFlags, bases, parentOf, p) = EdgesBy(linkFlags, bases, parentOf, q)
        BY <4>1, <4>2, EdgesSame
      <4> QED
        BY <4>3 DEF p, q
    <3> QED
      BY <3>1, <3>2
  <2> QED
    BY <1>1, <1>2, <2>1, <2>2 DEF SpelledBy
<1>6. StackSpelled'
  BY <1>1, <1>4, <1>5 DEF StackSpelled, top
<1>7. CurrentSpelled' /\ TriesSpelled' /\ LinksLead'
  <2>1. DOMAIN trie' = {}
    BY <1>1, <1>2
  <2> QED
    BY <1>1, <2>1 DEF CurrentSpelled, TriesSpelled, LinksLead
<1> QED
  BY <1>6, <1>7 DEF SpelledInv

\* TailDone: the offsets of the entries stand for what the entries stood for.
LEMMA SpelledTailDone ==
  Inv /\ NamedInv /\ StoredInv /\ TailDone /\ SpelledInv => SpelledInv'
<1> SUFFICES ASSUME Inv, NamedInv, StoredInv, TailDone, SpelledInv PROVE SpelledInv'
  OBVIOUS
<1>1. /\ phase = "tail" /\ phase' = "link" /\ entries = {}
      /\ UNCHANGED <<keys, links, stack, trie, tail>>
  BY DEF TailDone, linkVars, tailVars
<1>2. ~Building' /\ ~Linking /\ Linking' /\ trie = <<>>
  BY <1>1 DEF Building, Linking, NamedInv, LevelsOK
<1>3. TailTexts' = TailTexts
  BY <1>1 DEF TailTexts, TailText, TailEnd
<1>4. LinkTexts' = TextsOf(keys)
  <2>1. DOMAIN links = DOMAIN keys
        /\ \A k \in DOMAIN keys : Stored(tail, links[k], keys[k].text)
    BY <1>1 DEF StoredInv, EntriesOK
  <2>2. links \in Seq(Nat) /\ tail.buf \in Seq(Byte) /\ KeysOK
    BY <1>1 DEF Inv, TailOK
  <2>3. ASSUME NEW k \in DOMAIN keys PROVE TailTexts[links[k]] = keys[k].text
    <3>1. links[k] \in Nat /\ keys[k].text \in Seq(Byte)
      BY <2>1, <2>2, ElementOfSeq, LenProperties, KeyFields
    <3>2. TailText(links[k]) = keys[k].text
      BY <2>1, <2>2, <3>1, StoredIsRead
    <3> QED
      BY <3>1, <3>2 DEF TailTexts
  <2>4. LinkTexts' = [k \in DOMAIN links |-> TailTexts[links[k]]]
    BY <1>1, <1>2, <1>3 DEF LinkTexts
  <2> QED
    BY <2>1, <2>3, <2>4 DEF TextsOf
<1>5. Parts' = Parts
  BY <1>2, <1>4 DEF Parts
<1>6. StackSpelled'
  BY <1>1, <1>5 DEF SpelledInv, StackSpelled
<1>7. DOMAIN trie' = {}
  BY <1>1, <1>2
<1> QED
  BY <1>2, <1>6, <1>7 DEF SpelledInv, CurrentSpelled, TriesSpelled, LinksLead

\* The link stored in bases_ and extras_ is the link that was given.
LEMMA LinkStored ==
  ASSUME NEW t, WellFormed(t), links \in Seq(Nat), Ones(t.linkFlags) = Len(links),
         NEW n \in DOMAIN t.parentOf, Bit(t.linkFlags, n)
  PROVE  /\ Rank1(t.linkFlags, n) + 1 \in DOMAIN links
         /\ LinkOf(Linked(t), n) = links[Rank1(t.linkFlags, n) + 1]
<1> DEFINE r == Rank1(t.linkFlags, n)
           newBases == [i \in DOMAIN t.bases |->
                         IF t.linkFlags[i]
                         THEN LowLink(links[Rank1(t.linkFlags, i - 1) + 1]) ELSE t.bases[i]]
           newExtras == [i \in DOMAIN links |-> HighLink(links[i])]
<1>1. /\ t.linkFlags \in Seq(BOOLEAN) /\ t.bases \in Seq(Byte) /\ t.parentOf \in Seq(Nat)
      /\ Len(t.bases) = Len(t.linkFlags) /\ Len(t.parentOf) + 1 = Len(t.linkFlags)
  BY DEF WellFormed, BitsOK
<1>2. /\ n \in 0 .. Len(t.linkFlags) - 1 /\ n \in 0 .. Len(t.linkFlags)
      /\ n + 1 \in DOMAIN t.bases /\ n + 1 - 1 = n
  <2>1. /\ Len(t.parentOf) \in Nat /\ DOMAIN t.parentOf = 1 .. Len(t.parentOf)
        /\ DOMAIN t.bases = 1 .. Len(t.bases) /\ Len(t.bases) \in Nat
    BY <1>1, LenProperties
  <2>2. \A p \in Nat : \A m \in 1 .. p :
          /\ m \in 0 .. p + 1 - 1 /\ m \in 0 .. p + 1
          /\ m + 1 \in 1 .. p + 1 /\ m + 1 - 1 = m
    OBVIOUS
  <2>3. Len(t.bases) = Len(t.parentOf) + 1
    BY <1>1
  <2> QED
    BY <1>1, <2>1, <2>2, <2>3
<1>3. r \in Nat /\ r < Len(links)
  BY <1>1, <1>2, RankType, RankOfOne
<1>4. r + 1 \in DOMAIN links /\ links[r + 1] \in Nat
  BY <1>3, ElementOfSeq, LenProperties
<1>5. /\ Linked(t).bases = newBases /\ Linked(t).extras = newExtras
      /\ Linked(t).linkFlags = t.linkFlags
  BY DEF Linked
<1>6. newBases[n + 1] = links[r + 1] % Base
  <2> DEFINE j == n + 1
  <2>1. j \in DOMAIN t.bases /\ t.linkFlags[j] /\ j - 1 = n
    BY <1>2 DEF Bit
  <2> HIDE DEF j
  <2>2. newBases[j] = LowLink(links[Rank1(t.linkFlags, j - 1) + 1])
    BY <2>1
  <2>3. newBases[j] = LowLink(links[r + 1])
    BY <2>1, <2>2
  <2> QED
    BY <2>3 DEF LowLink, j
<1>7. newExtras[r + 1] = links[r + 1] \div Base
  BY <1>4 DEF HighLink
<1> HIDE DEF newBases, newExtras
<1>8. LinkOf(Linked(t), n) = (links[r + 1] % Base) + Base * (links[r + 1] \div Base)
  BY <1>5, <1>6, <1>7 DEF LinkOf, Extra
<1>9. \A x \in Nat : (x % Base) + Base * (x \div Base) = x
  BY BaseAssumption
<1> HIDE DEF r
<1>10. LinkOf(Linked(t), n) = links[r + 1]
  BY <1>4, <1>8, <1>9
<1> QED
  BY <1>4, <1>10 DEF r

\* LinkTrie: the trie that leaves the stack spells its texts over the trie in
\* front of which it is put, and its terminals answer the trie below it.
LEMMA SpelledLinkTrie == Inv /\ NamedInv /\ LinkTrie /\ SpelledInv => SpelledInv'
<1> SUFFICES ASSUME Inv, NamedInv, LinkTrie, SpelledInv PROVE SpelledInv'
  OBVIOUS
<1> DEFINE t == stack[Len(stack)]
           u == Linked(t)
<1>1. /\ phase = "link" /\ phase' = "link" /\ ~Building' /\ Linking /\ Linking'
      /\ Len(stack) \in Nat \ {0} /\ DOMAIN stack = 1 .. Len(stack)
      /\ Len(trie) \in Nat /\ DOMAIN trie = 1 .. Len(trie)
      /\ Len(stack') = Len(stack) - 1 /\ DOMAIN stack' = 1 .. Len(stack) - 1
      /\ \A i \in 1 .. Len(stack) - 1 : stack'[i] = stack[i]
      /\ Len(trie') = Len(trie) + 1 /\ DOMAIN trie' = 1 .. Len(trie) + 1
      /\ trie' # <<>> /\ trie'[1] = u
      /\ \A i \in 1 .. Len(trie) : trie'[i + 1] = trie[i]
      /\ links' = t.terminals
      /\ UNCHANGED tail
  BY Popped, Zenon DEF Linking
<1>2. /\ WellFormed(t) /\ links \in Seq(Nat) /\ Ones(t.linkFlags) = Len(links)
  <2>1. stack # <<>>
    BY <1>1
  <2> QED
    BY <1>1, <2>1 DEF Inv, StackOK, TopOK
<1>3. /\ u.textOf = t.textOf /\ u.parentOf = t.parentOf /\ u.linkFlags = t.linkFlags
      /\ u.bases = [i \in DOMAIN t.bases |->
                     IF t.linkFlags[i]
                     THEN LowLink(links[Rank1(t.linkFlags, i - 1) + 1]) ELSE t.bases[i]]
  BY DEF Linked
<1>4. TailTexts' = TailTexts
  BY <1>1 DEF TailTexts, TailText, TailEnd
<1>5. SpelledBy(Len(stack), t, LinkTexts)
  <2>1. stack # <<>>
    BY <1>1
  <2> QED
    BY <1>1, <2>1 DEF SpelledInv, StackSpelled, Parts
<1>6. ASSUME NEW n \in DOMAIN t.parentOf, Bit(t.linkFlags, n)
      PROVE  /\ Rank1(t.linkFlags, n) + 1 \in DOMAIN links
             /\ LinkOf(u, n) = links[Rank1(t.linkFlags, n) + 1]
             /\ LinkOf(u, n) \in Nat
  <2> HIDE DEF t
  <2>1. /\ Rank1(t.linkFlags, n) + 1 \in DOMAIN links
        /\ LinkOf(u, n) = links[Rank1(t.linkFlags, n) + 1]
    BY <1>2, <1>6, LinkStored
  <2> QED
    BY <1>2, <2>1, ElementOfSeq, LenProperties
<1>7. ASSUME NEW n \in DOMAIN t.parentOf, ~Bit(t.linkFlags, n)
      PROVE  u.bases[n + 1] = t.bases[n + 1]
  <2>1. /\ t.bases \in Seq(Byte) /\ t.parentOf \in Seq(Nat)
        /\ Len(t.bases) = Len(t.linkFlags) /\ Len(t.parentOf) + 1 = Len(t.linkFlags)
    BY <1>2 DEF WellFormed, BitsOK
  <2>2. n + 1 \in DOMAIN t.bases /\ ~t.linkFlags[n + 1]
    BY <1>7, <2>1, LenProperties DEF Bit
  <2> QED
    BY <1>3, <2>2
<1> HIDE DEF t, u
<1>8. EdgesOf(trie', 1, TailTexts) = EdgesBy(t.linkFlags, t.bases, t.parentOf, LinkTexts)
  <2> DEFINE own(n) == IF ~Bit(u.linkFlags, n) THEN <<u.bases[n + 1]>>
                       ELSE IF 1 < Len(trie') THEN trie'[1 + 1].textOf[LinkOf(u, n) + 1]
                       ELSE TailTexts[LinkOf(u, n)]
             their(n) == IF Bit(t.linkFlags, n) THEN LinkTexts[Rank1(t.linkFlags, n) + 1]
                                                ELSE <<t.bases[n + 1]>>
  <2>1. ASSUME NEW n \in DOMAIN t.parentOf PROVE own(n) = their(n)
    <3>1. CASE ~Bit(t.linkFlags, n)
      BY <1>3, <1>7, <3>1
    <3>2. CASE Bit(t.linkFlags, n)
      <4> DEFINE r == Rank1(t.linkFlags, n) + 1
      <4>1. r \in DOMAIN links /\ LinkOf(u, n) = links[r]
        BY <1>6, <3>2
      <4>2. LinkTexts[r] = IF trie = <<>> THEN TailTexts[links[r]]
                           ELSE trie[1].textOf[links[r] + 1]
        BY <4>1 DEF LinkTexts
      <4>3. CASE trie = <<>>
        <5>1. ~(1 < Len(trie'))
          BY <1>1, <4>3
        <5> QED
          BY <1>3, <3>2, <4>1, <4>2, <4>3, <5>1
      <4>4. CASE trie # <<>>
        <5>1. Len(trie) # 0
          BY <4>4 DEF Inv, TrieOK
        <5>2. 1 < Len(trie') /\ trie'[1 + 1] = trie[1]
          BY <1>1, <5>1
        <5> QED
          BY <1>3, <3>2, <4>1, <4>2, <4>4, <5>2
      <4> QED
        BY <4>3, <4>4
    <3> QED
      BY <3>1, <3>2
  <2>2. EdgesOf(trie', 1, TailTexts) = [n \in DOMAIN t.parentOf |-> own(n)]
    BY <1>1, <1>3 DEF EdgesOf
  <2>3. EdgesBy(t.linkFlags, t.bases, t.parentOf, LinkTexts)
          = [n \in DOMAIN t.parentOf |-> their(n)]
    BY DEF EdgesBy
  <2> HIDE DEF own, their
  <2> QED
    BY <2>1, <2>2, <2>3
<1>9. ASSUME NEW j \in 1 .. Len(trie)
      PROVE  EdgesOf(trie', j + 1, TailTexts) = EdgesOf(trie, j, TailTexts)
  <2>1. trie'[j + 1] = trie[j] /\ (j + 1 < Len(trie') <=> j < Len(trie))
    BY <1>1
  <2>2. j < Len(trie) => trie'[j + 1 + 1] = trie[j + 1]
    <3> HAVE j < Len(trie)
    <3>1. j + 1 \in 1 .. Len(trie)
      BY <1>1
    <3> QED
      BY <1>1, <3>1
  <2> QED
    BY <2>1, <2>2 DEF EdgesOf
<1>10. TriesSpelled'
  <2> SUFFICES ASSUME NEW j \in 1 .. Len(trie) + 1
               PROVE  Spelled(Len(stack) - 1 + j, trie'[j].textOf, trie'[j].parentOf,
                              EdgesOf(trie', j, TailTexts))
    BY <1>1, <1>4 DEF TriesSpelled
  <2>1. CASE j = 1
    <3>1. Len(stack) - 1 + j = Len(stack)
      BY <1>1, <2>1
    <3> QED
      BY <1>1, <1>3, <1>5, <1>8, <2>1, <3>1 DEF SpelledBy
  <2>2. CASE j # 1
    <3>1. PICK i \in 1 .. Len(trie) : j = i + 1
      <4>1. j - 1 \in 1 .. Len(trie) /\ j = j - 1 + 1
        BY <1>1, <2>2
      <4> QED
        BY <4>1
    <3>2. Spelled(Len(stack) + i, trie[i].textOf, trie[i].parentOf,
                  EdgesOf(trie, i, TailTexts))
      BY <1>1 DEF SpelledInv, TriesSpelled
    <3>3. Len(stack) - 1 + j = Len(stack) + i
      BY <1>1, <3>1
    <3> QED
      BY <1>1, <1>9, <3>1, <3>2, <3>3
  <2> QED
    BY <2>1, <2>2
<1>11. LinksLead'
  <2> SUFFICES ASSUME NEW j \in 1 .. Len(trie) + 1, NEW n \in DOMAIN trie'[j].parentOf,
                      Bit(trie'[j].linkFlags, n)
               PROVE  /\ LinkOf(trie'[j], n) \in Nat
                      /\ j < Len(trie') =>
                           LinkOf(trie'[j], n) < Len(trie'[j + 1].linkFlags)
    BY <1>1 DEF LinksLead
  <2>1. CASE j = 1
    <3> DEFINE r == Rank1(t.linkFlags, n) + 1
    <3>1. /\ r \in DOMAIN links /\ LinkOf(u, n) = links[r] /\ LinkOf(u, n) \in Nat
      BY <1>1, <1>3, <1>6, <2>1
    <3>2. ASSUME 1 < Len(trie') PROVE links[r] < Len(trie'[2].linkFlags)
      <4>1. trie'[2] = trie[1] /\ trie # <<>>
        BY <1>1, <3>2
      <4> QED
        BY <1>1, <3>1, <4>1 DEF NamedInv, TerminalsOK
    <3> QED
      BY <1>1, <2>1, <3>1, <3>2
  <2>2. CASE j # 1
    <3>1. PICK i \in 1 .. Len(trie) : j = i + 1
      <4>1. j - 1 \in 1 .. Len(trie) /\ j = j - 1 + 1
        BY <1>1, <2>2
      <4> QED
        BY <4>1
    <3>2. trie'[j] = trie[i] /\ (j < Len(trie') <=> i < Len(trie))
      BY <1>1, <3>1
    <3>3. i < Len(trie) => trie'[j + 1] = trie[i + 1]
      <4> HAVE i < Len(trie)
      <4>1. i + 1 \in 1 .. Len(trie)
        BY <1>1
      <4> QED
        BY <1>1, <3>1, <4>1
    <3> QED
      BY <1>1, <3>2, <3>3 DEF SpelledInv, LinksLead
  <2> QED
    BY <2>1, <2>2
<1>12. StackSpelled'
  <2>1. ASSUME NEW i \in 1 .. Len(stack') - 1
        PROVE  SpelledBy(i, stack'[i], EndTexts(stack'[i + 1]))
    <3>1. /\ i \in 1 .. Len(stack) - 1 /\ i + 1 \in 1 .. Len(stack) - 1
      BY <1>1
    <3> QED
      BY <1>1, <3>1 DEF SpelledInv, StackSpelled
  <2>2. ASSUME stack' # <<>>
        PROVE  SpelledBy(Len(stack'), stack'[Len(stack')], Parts')
    <3> DEFINE i == Len(stack) - 1
    <3>1. i \in 1 .. Len(stack) - 1 /\ i + 1 = Len(stack)
      <4>1. Len(stack') # 0
        <5>1. stack' = SubSeq(stack, 1, Len(stack) - 1)
          BY DEF LinkTrie
        <5>2. SubSeq(stack, 1, 0) = <<>>
          OBVIOUS
        <5>3. Len(stack) - 1 = 0 => stack' = <<>>
          BY <5>1, <5>2
        <5> QED
          BY <1>1, <2>2, <5>3
      <4> QED
        BY <1>1, <4>1
    <3>2. SpelledBy(i, stack[i], EndTexts(t))
      BY <3>1 DEF SpelledInv, StackSpelled, t
    <3>3. Parts' = EndTexts(t)
      <4>1. Parts' = [k \in DOMAIN links' |-> u.textOf[links'[k] + 1]]
        BY <1>1 DEF Parts, LinkTexts
      <4> QED
        BY <1>1, <1>3, <4>1 DEF EndTexts
    <3>4. stack'[i] = stack[i] /\ Len(stack') = i
      BY <1>1, <3>1
    <3> QED
      BY <3>2, <3>3, <3>4
  <2> QED
    BY <2>1, <2>2 DEF StackSpelled
<1>13. CurrentSpelled'
  BY <1>1 DEF CurrentSpelled
<1> QED
  BY <1>10, <1>11, <1>12, <1>13 DEF SpelledInv

LEMMA SpelledStep ==
  Inv /\ PlacedInv /\ NamedInv /\ StoredInv /\ [Next]_vars /\ SpelledInv => SpelledInv'
<1> SUFFICES ASSUME Inv, PlacedInv, NamedInv, StoredInv, [Next]_vars, SpelledInv
             PROVE  SpelledInv'
  OBVIOUS
<1>1. ASSUME ~Linking, ~Linking', UNCHANGED <<stack, trie>>, TextsOf(keys') = TextsOf(keys)
      PROVE  StackSpelled' /\ TriesSpelled' /\ LinksLead'
  <2>1. DOMAIN trie' = {}
    BY <1>1 DEF NamedInv, LevelsOK
  <2>2. Parts' = Parts
    BY <1>1 DEF Parts
  <2>3. StackSpelled'
    BY <1>1, <2>2 DEF SpelledInv, StackSpelled
  <2> QED
    BY <2>1, <2>3 DEF TriesSpelled, LinksLead
<1>2. CASE BeginTrie
  <2>1. /\ UNCHANGED <<level, keys, stack, trie>>
        /\ phase = "begin" /\ phase' = "pop"
        /\ textOf' = << <<>> >> /\ parentOf' = <<>>
    BY <1>2 DEF BeginTrie, linkVars
  <2>2. ~Linking /\ ~Linking'
    BY <2>1 DEF Linking
  <2>3. CurrentSpelled'
    BY <2>1, SpelledBegin DEF CurrentSpelled
  <2> QED
    BY <1>1, <2>1, <2>2, <2>3 DEF SpelledInv
<1>3. CASE OpenNode
  <2>1. /\ UNCHANGED <<level, stack, trie, linkFlags, bases, parentOf, textOf, nextKeys>>
        /\ phase = "pop" /\ phase' = "group"
    BY <1>3 DEF OpenNode, linkVars, bitVars
  <2>2. ~Linking /\ ~Linking' /\ Building
    BY <2>1 DEF Linking, Building
  <2>3. DOMAIN keys' = DOMAIN keys /\ \A k \in DOMAIN keys : keys'[k].text = keys[k].text
    <3>1. \A k \in DOMAIN keys : keys[k] \in KeyType
      BY ElementOfSeq, LenProperties DEF Inv, KeysOK
    <3> QED
      BY <1>3, <3>1 DEF OpenNode, KeyType
  <2>4. TextsOf(keys') = TextsOf(keys)
    BY <2>3 DEF TextsOf
  <2>5. CurrentSpelled'
    BY <2>1, <2>2 DEF SpelledInv, CurrentSpelled
  <2> QED
    BY <1>1, <2>1, <2>2, <2>4, <2>5 DEF SpelledInv
<1>4. CASE GroupKey \/ Grouped \/ CloseNode
  <2>1. /\ UNCHANGED <<level, keys, stack, trie, linkFlags, bases, parentOf, textOf,
                       nextKeys>>
        /\ Building /\ Building'
    BY <1>4 DEF GroupKey, Grouped, CloseNode, linkVars, bitVars, Building
  <2>2. ~Linking /\ ~Linking'
    BY <2>1 DEF Linking, Building
  <2>3. CurrentSpelled'
    BY <2>1 DEF SpelledInv, CurrentSpelled
  <2> QED
    BY <1>1, <2>1, <2>2, <2>3 DEF SpelledInv
<1>5. CASE AddChild
  <2>1. /\ UNCHANGED <<keys, stack, trie>>
        /\ phase = "children" /\ phase' = "children"
    BY <1>5 DEF AddChild, linkVars
  <2>2. ~Linking /\ ~Linking'
    BY <2>1 DEF Linking
  <2>3. CurrentSpelled'
    BY <1>5, SpelledChild DEF SpelledInv
  <2> QED
    BY <1>1, <2>1, <2>2, <2>3 DEF SpelledInv
<1>6. CASE NoNextLevel \/ NextTrie \/ NextTail
  <2>1. /\ CloseTrie
        /\ \/ phase' \in {"begin", "tail"} /\ keys' = nextKeys
           \/ phase' = "link" /\ nextKeys = <<>>
    BY <1>6 DEF NoNextLevel, NextTrie, NextTail
  <2> QED
    BY <2>1, SpelledCloseTrie
<1>7. CASE AddEntry
  <2>1. /\ UNCHANGED <<keys, stack, trie>> /\ phase = "tail" /\ phase' = "tail"
    BY <1>7 DEF AddEntry
  <2>2. ~Linking /\ ~Linking' /\ ~Building'
    BY <2>1 DEF Linking, Building
  <2> QED
    BY <1>1, <2>1, <2>2 DEF SpelledInv, CurrentSpelled
<1>8. CASE TailDone
  BY <1>8, SpelledTailDone
<1>9. CASE LinkTrie
  BY <1>9, SpelledLinkTrie
<1>10. CASE NumberKeys \/ UNCHANGED vars
  <2>1. UNCHANGED <<level, keys, stack, trie, links, tail, linkFlags, bases,
                    parentOf, textOf, nextKeys>>
    BY <1>10 DEF NumberKeys, vars, linkVars, bitVars, tailVars
  <2>2. phase' = phase \/ (phase = "link" /\ phase' = "done")
    BY <1>10 DEF NumberKeys, vars
  <2>3. (Building' <=> Building) /\ (Linking' <=> Linking)
    BY <2>2 DEF Building, Linking
  <2>4. TailTexts' = TailTexts
    BY <2>1 DEF TailTexts, TailText, TailEnd
  <2>5. LinkTexts' = LinkTexts
    BY <2>1, <2>4 DEF LinkTexts
  <2>6. Parts' = Parts
    BY <2>1, <2>3, <2>5 DEF Parts
  <2>7. CurrentSpelled'
    BY <2>1, <2>3 DEF SpelledInv, CurrentSpelled
  <2>8. StackSpelled'
    BY <2>1, <2>6 DEF SpelledInv, StackSpelled
  <2>9. TriesSpelled'
    BY <2>1, <2>4 DEF SpelledInv, TriesSpelled
  <2>10. LinksLead'
    BY <2>1 DEF SpelledInv, LinksLead
  <2> QED
    BY <2>7, <2>8, <2>9, <2>10 DEF SpelledInv
<1> QED
  BY <1>2, <1>3, <1>4, <1>5, <1>6, <1>7, <1>8, <1>9, <1>10 DEF Next

LEMMA SpelledAlways == Spec => []SpelledInv
<1>1. Init => SpelledInv
  <2> SUFFICES ASSUME Init PROVE SpelledInv
    OBVIOUS
  <2>1. /\ phase = "begin" /\ stack = <<>> /\ DOMAIN trie = {}
    BY DEF Init
  <2>2. Len(stack) = 0 /\ ~Building
    BY <2>1, Zenon DEF Building
  <2> QED
    BY <2>1, <2>2 DEF SpelledInv, CurrentSpelled, StackSpelled, TriesSpelled, LinksLead
<1> QED
  BY <1>1, Invariance, PlacedAlways, NamedAlways, StoredAlways, SpelledStep, PTL DEF Spec

-----------------------------------------------------------------------------
\* What the searches read at a node, given what they read at other nodes:
\* the edge above it, and all of it.
EdgeRead(text, l, n) ==
  IF ~Bit(trie[l].linkFlags, n) THEN <<trie[l].bases[n + 1]>>
  ELSE IF l < Len(trie) THEN text[<<l + 1, LinkOf(trie[l], n)>>]
  ELSE TailText(LinkOf(trie[l], n))

TextRead(text, l, n) ==
  IF n = 0 THEN <<>>
  ELSE Join(l, text[<<l, Select1(trie[l].louds, n) - n - 1>>], EdgeRead(text, l, n))

\* The texts the builder knows its nodes by.
GivenTexts == [p \in Places |-> trie[p[1]].textOf[p[2] + 1]]

LEMMA PathTextsEquation ==
  PathTexts = CHOOSE text : text = [p \in Places |-> TextRead(text, p[1], p[2])]
BY Zenon DEF PathTexts, TextRead, EdgeRead, Join

LEMMA PlacesAre ==
  ASSUME NEW l \in DOMAIN trie
  PROVE  \A n : <<l, n>> \in Places <=> n \in 0 .. Len(trie[l].bases) - 1
BY DEF Places

\* In a finished trie: the parent and the edge of a node that is not the root.
LEMMA NodesOfDone ==
  ASSUME Inv, NumberedInv, NamedInv, SpelledInv, phase = "done",
         NEW l \in DOMAIN trie, NEW n \in 1 .. Len(trie[l].bases) - 1
  PROVE  /\ Select1(trie[l].louds, n) - n - 1 = trie[l].parentOf[n]
         /\ trie[l].parentOf[n] \in 0 .. n - 1
         /\ trie[l].textOf[n + 1]
              = Join(l, trie[l].textOf[trie[l].parentOf[n] + 1],
                     EdgesOf(trie, l, TailTexts)[n])
         /\ Bit(trie[l].linkFlags, n) =>
              /\ LinkOf(trie[l], n) \in Nat
              /\ l < Len(trie) =>
                   /\ l + 1 \in DOMAIN trie
                   /\ LinkOf(trie[l], n) \in 0 .. Len(trie[l + 1].bases) - 1
         /\ n \in DOMAIN trie[l].parentOf
<1> DEFINE t == trie[l]
<1>1. stack = <<>> /\ Len(stack) = 0
  BY DEF NamedInv, LevelsOK
<1>2. DOMAIN trie = 1 .. Len(trie) /\ Len(trie) \in Nat
  BY DEF Inv, TrieOK
<1>3. /\ \A j \in DOMAIN trie : WellFormed(trie[j])
  BY DEF Inv, TrieOK
<1>4. /\ t.parentOf \in Seq(Nat) /\ Len(t.bases) = Len(t.parentOf) + 1
  BY <1>3 DEF WellFormed, BitsOK
<1> HIDE DEF t
<1>5. n \in DOMAIN t.parentOf
  <2>1. DOMAIN t.parentOf = 1 .. Len(t.parentOf) /\ Len(t.parentOf) \in Nat
    BY <1>4, LenProperties
  <2> QED
    BY <1>4, <2>1 DEF t
<1>6. Select1(t.louds, n) - n - 1 = t.parentOf[n]
  <2>1. Numbered(t.louds, t.parentOf)
    BY DEF NumberedInv, t
  <2> QED
    BY <1>4, <1>5, <2>1, NumberedFinds DEF ParentsOf
<1>7. Spelled(l, t.textOf, t.parentOf, EdgesOf(trie, l, TailTexts))
  <2>1. Len(stack) + l = l
    BY <1>1, <1>2
  <2> QED
    BY <2>1 DEF SpelledInv, TriesSpelled, t
<1>8. /\ t.parentOf[n] \in 0 .. n - 1
      /\ t.textOf[n + 1] = Join(l, t.textOf[t.parentOf[n] + 1],
                                EdgesOf(trie, l, TailTexts)[n])
  BY <1>5, <1>7 DEF Spelled
<1>9. ASSUME Bit(t.linkFlags, n)
      PROVE  /\ LinkOf(t, n) \in Nat
             /\ l < Len(trie) =>
                  /\ l + 1 \in DOMAIN trie
                  /\ LinkOf(t, n) \in 0 .. Len(trie[l + 1].bases) - 1
  <2>1. /\ LinkOf(t, n) \in Nat
        /\ l < Len(trie) => LinkOf(t, n) < Len(trie[l + 1].linkFlags)
    BY <1>5, <1>9 DEF SpelledInv, LinksLead, t
  <2>2. ASSUME l < Len(trie)
        PROVE  /\ l + 1 \in DOMAIN trie
               /\ LinkOf(t, n) \in 0 .. Len(trie[l + 1].bases) - 1
    <3>1. l + 1 \in DOMAIN trie
      BY <1>2, <2>2
    <3>2. /\ Len(trie[l + 1].bases) = Len(trie[l + 1].linkFlags)
          /\ trie[l + 1].bases \in Seq(Byte)
      BY <1>3, <3>1 DEF WellFormed, BitsOK
    <3>3. Len(trie[l + 1].bases) \in Nat
      BY <3>2, LenProperties
    <3> QED
      BY <2>1, <2>2, <3>1, <3>2, <3>3
  <2> QED
    BY <2>1, <2>2
<1> QED
  BY <1>5, <1>6, <1>8, <1>9 DEF t

\* What the builder gave the nodes is what one reads at them.
LEMMA GivenIsRead ==
  ASSUME Inv, NumberedInv, NamedInv, SpelledInv, phase = "done",
         NEW l \in DOMAIN trie, NEW n \in 0 .. Len(trie[l].bases) - 1
  PROVE  GivenTexts[<<l, n>>] = TextRead(GivenTexts, l, n)
<1> DEFINE t == trie[l]
<1>1. \A j \in DOMAIN trie : \A m \in 0 .. Len(trie[j].bases) - 1 :
        GivenTexts[<<j, m>>] = trie[j].textOf[m + 1]
  <2> TAKE j \in DOMAIN trie
  <2> TAKE m \in 0 .. Len(trie[j].bases) - 1
  <2>1. <<j, m>> \in Places
    BY PlacesAre
  <2> QED
    BY <2>1 DEF GivenTexts
<1>2. CASE n = 0
  <2>1. Spelled(Len(stack) + l, t.textOf, t.parentOf, EdgesOf(trie, l, TailTexts))
    BY DEF SpelledInv, TriesSpelled
  <2>2. t.textOf[1] = <<>>
    BY <2>1 DEF Spelled
  <2>3. t.textOf[n + 1] = <<>>
    BY <1>2, <2>2
  <2> QED
    BY <1>1, <1>2, <2>3 DEF TextRead
<1>3. CASE n # 0
  <2>1. n \in 1 .. Len(t.bases) - 1 /\ t.bases \in Seq(Byte)
    BY <1>3 DEF Inv, TrieOK, WellFormed, BitsOK
  <2>2. /\ Select1(t.louds, n) - n - 1 = t.parentOf[n]
        /\ t.parentOf[n] \in 0 .. n - 1
        /\ t.textOf[n + 1] = Join(l, t.textOf[t.parentOf[n] + 1],
                                  EdgesOf(trie, l, TailTexts)[n])
        /\ Bit(t.linkFlags, n) =>
             /\ LinkOf(t, n) \in Nat
             /\ l < Len(trie) =>
                  /\ l + 1 \in DOMAIN trie
                  /\ LinkOf(t, n) \in 0 .. Len(trie[l + 1].bases) - 1
        /\ n \in DOMAIN t.parentOf
    BY <2>1, NodesOfDone
  <2>3. EdgeRead(GivenTexts, l, n) = EdgesOf(trie, l, TailTexts)[n]
    <3>1. EdgesOf(trie, l, TailTexts)[n]
            = IF ~Bit(t.linkFlags, n) THEN <<t.bases[n + 1]>>
              ELSE IF l < Len(trie) THEN trie[l + 1].textOf[LinkOf(t, n) + 1]
              ELSE TailTexts[LinkOf(t, n)]
      BY <2>2 DEF EdgesOf
    <3>2. CASE ~Bit(t.linkFlags, n)
      BY <3>1, <3>2 DEF EdgeRead
    <3>3. CASE Bit(t.linkFlags, n) /\ l < Len(trie)
      <4>1. GivenTexts[<<l + 1, LinkOf(t, n)>>] = trie[l + 1].textOf[LinkOf(t, n) + 1]
        BY <1>1, <2>2, <3>3
      <4> QED
        BY <3>1, <3>3, <4>1 DEF EdgeRead
    <3>4. CASE Bit(t.linkFlags, n) /\ ~(l < Len(trie))
      <4>1. TailTexts[LinkOf(t, n)] = TailText(LinkOf(t, n))
        BY <2>2, <3>4 DEF TailTexts
      <4> QED
        BY <3>1, <3>4, <4>1 DEF EdgeRead
    <3> QED
      BY <3>2, <3>3, <3>4
  <2>4. t.parentOf[n] \in 0 .. Len(t.bases) - 1
    <3>1. Len(t.bases) \in Nat
      BY <2>1, LenProperties
    <3> QED
      BY <2>1, <2>2, <3>1
  <2>5. GivenTexts[<<l, t.parentOf[n]>>] = t.textOf[t.parentOf[n] + 1]
    BY <1>1, <2>4
  <2>6. TextRead(GivenTexts, l, n)
          = Join(l, GivenTexts[<<l, t.parentOf[n]>>], EdgesOf(trie, l, TailTexts)[n])
    BY <1>3, <2>2, <2>3 DEF TextRead
  <2> QED
    BY <1>1, <2>2, <2>5, <2>6
<1> QED
  BY <1>2, <1>3

\* There is no other way to read the nodes: the last trie reads the tail only,
\* each other trie the next one, and every node its parent, which comes first.
LEMMA OneReading ==
  ASSUME Inv, NumberedInv, NamedInv, SpelledInv, phase = "done",
         NEW text, text = [p \in Places |-> TextRead(text, p[1], p[2])]
  PROVE  text = GivenTexts
<1>1. DOMAIN trie = 1 .. Len(trie) /\ Len(trie) \in Nat
  BY DEF Inv, TrieOK
<1> DEFINE Wrong(l, n) == text[<<l, n>>] # GivenTexts[<<l, n>>]
           WrongFrom == {d \in Nat : \E l \in DOMAIN trie :
                           /\ l + d = Len(trie)
                           /\ \E n \in 0 .. Len(trie[l].bases) - 1 : Wrong(l, n)}
<1>2. ASSUME NEW l \in DOMAIN trie, NEW n \in 0 .. Len(trie[l].bases) - 1
      PROVE  text[<<l, n>>] = TextRead(text, l, n)
  <2>1. <<l, n>> \in Places /\ <<l, n>>[1] = l /\ <<l, n>>[2] = n
    BY PlacesAre
  <2> QED
    BY <2>1
<1>3. ASSUME NEW d \in WrongFrom, \A e \in WrongFrom : d <= e
      PROVE  FALSE
  <2>1. PICK l \in DOMAIN trie :
          /\ l + d = Len(trie)
          /\ \E n \in 0 .. Len(trie[l].bases) - 1 : Wrong(l, n)
    OBVIOUS
  <2>2. ASSUME l + 1 \in DOMAIN trie, NEW m \in 0 .. Len(trie[l + 1].bases) - 1
        PROVE  ~Wrong(l + 1, m)
    <3> SUFFICES ASSUME Wrong(l + 1, m) PROVE FALSE
      OBVIOUS
    <3> HIDE DEF Wrong
    <3>1. d - 1 \in Nat /\ l + 1 + (d - 1) = Len(trie) /\ ~(d <= d - 1)
      BY <1>1, <2>1, <2>2, SMTT(30)
    <3>2. d - 1 \in WrongFrom
      BY <2>2, <3>1, Zenon
    <3> QED
      BY <1>3, <3>1, <3>2
  <2> DEFINE nodes == {n \in 0 .. Len(trie[l].bases) - 1 : Wrong(l, n)}
  <2> HIDE DEF Wrong, WrongFrom
  <2>3. PICK n \in nodes : \A m \in nodes : n <= m
    <3>1. nodes \in SUBSET Nat /\ nodes # {}
      BY <2>1
    <3> HIDE DEF nodes
    <3> QED
      BY <3>1, LeastNumber
  <2>4. n \in 0 .. Len(trie[l].bases) - 1 /\ Wrong(l, n)
    BY <2>3
  <2>5. ASSUME NEW m \in 0 .. Len(trie[l].bases) - 1, m < n PROVE ~Wrong(l, m)
    <3>1. ~(n <= m)
      BY <2>4, <2>5
    <3> QED
      BY <2>3, <3>1
  <2>6. TextRead(text, l, n) = TextRead(GivenTexts, l, n)
    <3>1. CASE n = 0
      BY <3>1 DEF TextRead
    <3>2. CASE n # 0
      <4>1. n \in 1 .. Len(trie[l].bases) - 1
        BY <2>4, <3>2
      <4> DEFINE up == Select1(trie[l].louds, n) - n - 1
      <4>2. /\ up \in 0 .. n - 1
            /\ Bit(trie[l].linkFlags, n) /\ l < Len(trie) =>
                 /\ l + 1 \in DOMAIN trie
                 /\ LinkOf(trie[l], n) \in 0 .. Len(trie[l + 1].bases) - 1
        BY <4>1, NodesOfDone
      <4>3. EdgeRead(text, l, n) = EdgeRead(GivenTexts, l, n)
        BY <2>2, <4>2 DEF EdgeRead, Wrong
      <4>4. text[<<l, up>>] = GivenTexts[<<l, up>>]
        <5> HIDE DEF up
        <5>1. trie[l].bases \in Seq(Byte)
          BY DEF Inv, TrieOK, WellFormed, BitsOK
        <5>2. Len(trie[l].bases) \in Nat
          BY <5>1, LenProperties
        <5>3. up \in 0 .. Len(trie[l].bases) - 1 /\ up < n
          BY <4>1, <4>2, <5>2
        <5> QED
          BY <2>5, <5>3 DEF Wrong
      <4> QED
        BY <4>3, <4>4 DEF TextRead
    <3> QED
      BY <3>1, <3>2
  <2>7. GivenTexts[<<l, n>>] = TextRead(GivenTexts, l, n)
    BY <2>4, GivenIsRead
  <2> QED
    BY <1>2, <2>4, <2>6, <2>7 DEF Wrong
<1>4. WrongFrom = {}
  <2>1. WrongFrom \in SUBSET Nat
    OBVIOUS
  <2> HIDE DEF WrongFrom
  <2> QED
    BY <1>3, <2>1, LeastNumber
<1>5. ASSUME NEW l \in DOMAIN trie, NEW n \in 0 .. Len(trie[l].bases) - 1
      PROVE  ~Wrong(l, n)
  <2> HIDE DEF Wrong
  <2>1. PICK d \in Nat : l + d = Len(trie)
    <3>1. Len(trie) - l \in Nat /\ l + (Len(trie) - l) = Len(trie)
      BY <1>1
    <3> QED
      BY <3>1
  <2> QED
    BY <1>4, <2>1
<1>6. ASSUME NEW p \in Places PROVE text[p] = GivenTexts[p]
  <2>1. PICK l \in DOMAIN trie : p \in {l} \X (0 .. Len(trie[l].bases) - 1)
    BY DEF Places
  <2>2. PICK n \in 0 .. Len(trie[l].bases) - 1 : p = <<l, n>>
    BY <2>1
  <2> QED
    BY <1>5, <2>2
<1> QED
  BY <1>6 DEF GivenTexts

\* Reading a node of a finished trie gives the text the builder put there.
LEMMA PathsAreGiven ==
  Inv /\ NumberedInv /\ NamedInv /\ SpelledInv /\ phase = "done" =>
    PathTexts = GivenTexts
<1> SUFFICES ASSUME Inv, NumberedInv, NamedInv, SpelledInv, phase = "done"
             PROVE  PathTexts = GivenTexts
  OBVIOUS
<1> DEFINE IsReading(text) == text = [p \in Places |-> TextRead(text, p[1], p[2])]
<1>1. IsReading(GivenTexts)
  <2>1. ASSUME NEW p \in Places
        PROVE  GivenTexts[p] = TextRead(GivenTexts, p[1], p[2])
    <3>1. PICK l \in DOMAIN trie : p \in {l} \X (0 .. Len(trie[l].bases) - 1)
      BY DEF Places
    <3>2. PICK n \in 0 .. Len(trie[l].bases) - 1 : p = <<l, n>>
      BY <3>1
    <3>3. p[1] = l /\ p[2] = n
      BY <3>2
    <3> QED
      BY <3>2, <3>3, GivenIsRead
  <2>2. GivenTexts = [p \in Places |-> GivenTexts[p]]
    BY DEF GivenTexts
  <2> HIDE DEF GivenTexts
  <2> QED
    BY <2>1, <2>2
<1>2. PathTexts = CHOOSE text : IsReading(text)
  BY PathTextsEquation
<1> HIDE DEF IsReading
<1>3. IsReading(PathTexts)
  BY <1>1, <1>2
<1> QED
  BY <1>3, OneReading DEF IsReading

\* From the id it was given every key can be restored, byte for byte: what the
\* searches read on the way from the terminal to the root, over links, later
\* tries and the tail, is the key (LoudsTrie::build, restore and Tail).
THEOREM KeysRestoredThm == Spec => []KeysRestored
<1>1. Inv /\ NumberedInv /\ NamedInv /\ SpelledInv /\ IdsGiven => KeysRestored
  <2> DEFINE Restored(k) == PathTexts[1, Select1(terminalFlags, ids[k])] = keyset[k].text
  <2>0. KeysRestored <=> (phase = "done" => \A k \in DOMAIN keyset : Restored(k))
    BY Zenon DEF KeysRestored
  <2> HIDE DEF Restored
  <2> SUFFICES ASSUME Inv, NumberedInv, NamedInv, SpelledInv, IdsGiven, phase = "done",
                      NEW k \in DOMAIN keyset
               PROVE  Restored(k)
    BY <2>0
  <2> USE DEF Restored
  <2>1. /\ 1 \in DOMAIN trie
        /\ Names(links, trie[1].textOf)
        /\ links[k] \in 0 .. Len(trie[1].linkFlags) - 1
        /\ Select1(terminalFlags, ids[k]) = links[k]
    BY IdsLeadBack
  <2>2. Len(trie[1].bases) = Len(trie[1].linkFlags)
    BY <2>1 DEF Inv, TrieOK, WellFormed
  <2>3. <<1, links[k]>> \in Places
    BY <2>1, <2>2, PlacesAre
  <2>4. GivenTexts[<<1, links[k]>>] = trie[1].textOf[links[k] + 1]
    BY <2>3 DEF GivenTexts
  <2>5. trie[1].textOf[links[k] + 1] = keyset[k].text
    BY <2>1 DEF Names
  <2> QED
    BY <2>1, <2>4, <2>5, PathsAreGiven
<1> QED
  BY <1>1, Invariance, NumberedAlways, NamedAlways, SpelledAlways, IdsGivenAlways, PTL

-----------------------------------------------------------------------------
(* The cache.                                                              *)

\* The hash keeps to the cache, and gives two labels below one node two slots.
ApartIn(slots) ==
  \A p \in Nat : \A b \in Byte :
    /\ CacheId(p, b, Cardinality(slots)) \in slots
    /\ \A c \in Byte :
         CacheId(p, b, Cardinality(slots)) = CacheId(p, c, Cardinality(slots)) => b = c

\* What get_cache_id() does in any cache reserve_cache() makes for a first trie:
\* the cache has one slot for each byte, or 2, 4, 8, ... times as many, and the
\* label is mixed in by an exclusive or, which cannot make two labels one.
HashKeepsApart ==
  \A numKeys \in Nat, cacheLevel \in Nat \ {0} :
    ApartIn(0 .. CacheSize(1, numKeys, cacheLevel) - 1)

\* The byte a node of the first trie adds to the text of its parent first.
LabelIn(parents, texts, n) == texts[n + 1][Len(texts[parents[n] + 1]) + 1]

\* A slot with a child has its parent too, and in the first trie it is the slot
\* of that parent and the label of the child.
SlotTells(l, slots, parents, texts, s) ==
  slots[s].child # 0 =>
    LET n == slots[s].child
    IN  /\ n \in DOMAIN parents
        /\ slots[s].parent = parents[n]
        /\ l = 1 => /\ LabelIn(parents, texts, n) \in Byte
                    /\ s = CacheId(parents[n], LabelIn(parents, texts, n),
                                   Cardinality(DOMAIN slots))

Tells(l, slots, parents, texts) ==
  /\ l = 1 => ApartIn(DOMAIN slots)
  /\ \A s \in DOMAIN slots : SlotTells(l, slots, parents, texts, s)

\* A filled slot of a finished trie repeats what the trie says of the child.
Repeats(t) ==
  \A s \in DOMAIN t.cache : t.cache[s].used =>
    LET c == t.cache[s]
    IN  /\ c.child # 0
        /\ c.base = t.bases[c.child + 1]
        /\ c.link = Bit(t.linkFlags, c.child)
        /\ c.link => c.extra = Extra(t, c.child)

CachedInv ==
  /\ Building => Tells(level, cache, parentOf, textOf)
  /\ \A i \in DOMAIN stack :
       Tells(i, stack[i].cache, stack[i].parentOf, stack[i].textOf)
  /\ \A j \in DOMAIN trie :
       /\ Tells(Len(stack) + j, trie[j].cache, trie[j].parentOf, trie[j].textOf)
       /\ Repeats(trie[j])

\* A slot that stays as it is tells the same of a trie with one more node.
LEMMA SlotStays ==
  ASSUME NEW l, NEW slots, NEW more, DOMAIN more = DOMAIN slots,
         NEW parents \in Seq(Nat), NEW texts \in Seq(Seq(Byte)),
         Len(texts) = Len(parents) + 1,
         \A n \in DOMAIN parents : parents[n] \in 0 .. n - 1,
         NEW p \in Nat, NEW text \in Seq(Byte),
         NEW s, more[s] = slots[s], SlotTells(l, slots, parents, texts, s)
  PROVE  SlotTells(l, more, Append(parents, p), Append(texts, text), s)
<1> DEFINE n == slots[s].child
           ps == Append(parents, p)
           ts == Append(texts, text)
<1>1. CASE n = 0
  BY <1>1 DEF SlotTells
<1>2. CASE n # 0
  <2>1. /\ n \in DOMAIN parents /\ slots[s].parent = parents[n]
        /\ l = 1 => /\ LabelIn(parents, texts, n) \in Byte
                    /\ s = CacheId(parents[n], LabelIn(parents, texts, n),
                                   Cardinality(DOMAIN slots))
    BY <1>2 DEF SlotTells
  <2>2. /\ Len(parents) \in Nat /\ DOMAIN parents = 1 .. Len(parents)
        /\ DOMAIN ps = 1 .. Len(parents) + 1
        /\ \A i \in 1 .. Len(parents) : ps[i] = parents[i]
        /\ \A i \in 1 .. Len(parents) + 1 : ts[i] = texts[i]
    <3>1. /\ Len(parents) \in Nat /\ DOMAIN parents = 1 .. Len(parents)
          /\ DOMAIN ps = 1 .. Len(parents) + 1
          /\ \A i \in 1 .. Len(parents) : ps[i] = parents[i]
      BY AppendProperties, LenProperties
    <3>2. \A i \in 1 .. Len(texts) : ts[i] = texts[i]
      BY AppendProperties, LenProperties
    <3> QED
      BY <3>1, <3>2
  <2> HIDE DEF n, ps, ts
  <2>3. n \in DOMAIN ps /\ ps[n] = parents[n]
    BY <2>1, <2>2
  <2>4. ts[n + 1] = texts[n + 1] /\ ts[parents[n] + 1] = texts[parents[n] + 1]
    <3>1. n + 1 \in 1 .. Len(parents) + 1
      BY <2>1, <2>2
    <3>2. parents[n] \in 0 .. n - 1
      BY <2>1
    <3>3. parents[n] + 1 \in 1 .. Len(parents) + 1
      BY <2>1, <2>2, <3>2
    <3> QED
      BY <2>2, <3>1, <3>3
  <2>5. LabelIn(ps, ts, n) = LabelIn(parents, texts, n)
    BY <2>3, <2>4 DEF LabelIn
  <2>6. more[s].child = n /\ more[s].parent = slots[s].parent
    BY DEF n
  <2> QED
    BY <2>1, <2>3, <2>5, <2>6 DEF SlotTells, ps, ts
<1> QED
  BY <1>1, <1>2

\* In the first trie the label AddChild has found is that of the new node.
LEMMA NewLabel ==
  ASSUME Inv, PlacedInv, phase = "children", level = 1,
         NEW b \in DOMAIN groups, NEW first \in groups[b].keys, NEW end \in Nat,
         pos < end, end <= Len(keys[first].text)
  PROVE  LabelIn(Append(parentOf, node), Append(textOf, Segment(first, 0, end)),
                 Len(parentOf) + 1) = b
<1> DEFINE text == keys[first].text
           ts == Append(textOf, Segment(first, 0, end))
           ps == Append(parentOf, node)
           new == Len(parentOf) + 1
<1>1. Opened /\ Building /\ KeysOK
  BY DEF Opened, Building, Inv
<1>2. /\ Len(linkFlags) \in Nat /\ node \in Nat /\ node < Len(linkFlags)
  BY <1>1, OpenedNumbers
<1>3. first \in DOMAIN keys /\ pos \in Nat
  BY <1>1 DEF Inv, GroupsOK, NodeOK
<1>4. text \in Seq(Byte) /\ Len(text) \in Nat
  BY <1>1, <1>3, KeyFields
<1>5. parentOf \in Seq(Nat) /\ Len(parentOf) + 1 = Len(linkFlags)
  BY <1>1 DEF Inv, ShapeOK, CurrentOK, BitsOK
<1>6. textOf \in Seq(Seq(Byte)) /\ Len(textOf) = Len(linkFlags)
  BY <1>1 DEF PlacedInv, TextOfOK
<1>7. textOf[node + 1] = SubSeq(text, 1, pos)
  <2>1. first \in InGroups
    BY DEF InGroups
  <2>2. textOf[node + 1] = Read(level, text, pos)
    BY <1>1, <2>1 DEF PlacedInv, OpenedOK
  <2> QED
    BY <2>2 DEF Read
<1>8. text[pos + 1] = b
  BY <1>1 DEF PlacedInv, OpenedOK, Label
<1>9. Segment(first, 0, end) = SubSeq(text, 1, end) /\ SubSeq(text, 1, end) \in Seq(Byte)
  <2>1. Segment(first, 0, end) = Read(level, text, end)
    BY <1>1, <1>3, ReadIsSegment
  <2>2. Segment(first, 0, end) \in Seq(Byte)
    BY <1>1, <1>3, SegmentType
  <2> QED
    BY <2>1, <2>2 DEF Read
<1> HIDE DEF text, ts, ps, new
<1>10. ps[new] = node /\ new \in Nat
  BY <1>2, <1>5, AppendProperties, LenProperties DEF ps, new
<1>11. /\ ts[new + 1] = SubSeq(text, 1, end)
       /\ ts[node + 1] = SubSeq(text, 1, pos)
  <2>1. /\ ts[Len(textOf) + 1] = SubSeq(text, 1, end)
        /\ \A i \in 1 .. Len(textOf) : ts[i] = textOf[i]
    BY <1>6, <1>9, AppendProperties DEF ts, text
  <2>2. new = Len(textOf)
    BY <1>5, <1>6 DEF new
  <2>3. node + 1 \in 1 .. Len(textOf)
    BY <1>2, <1>6
  <2> QED
    BY <1>7, <2>1, <2>2, <2>3
<1>12. Len(SubSeq(text, 1, pos)) = pos /\ SubSeq(text, 1, end)[pos + 1] = text[pos + 1]
  BY <1>3, <1>4 DEF text
<1>13. LabelIn(ps, ts, new) = b
  BY <1>8, <1>10, <1>11, <1>12 DEF LabelIn, text
<1> QED
  BY <1>13 DEF ps, ts, new

\* AddChild: the slot of the new node, if it gets one, tells the truth of it.
LEMMA CachedChild ==
  ASSUME Inv, PlacedInv, SpelledInv, AddChild, Tells(level, cache, parentOf, textOf)
  PROVE  Tells(level, cache', parentOf', textOf')
<1> DEFINE Takes(b, first, end) ==
             /\ pos < end /\ end <= Len(keys[first].text)
             /\ textOf' = Append(textOf, Segment(first, 0, end))
             /\ cache' = CacheWith(node, Len(bases), groups[b].weight, b)
<1>1. phase = "children" /\ Building /\ Opened /\ parentOf' = Append(parentOf, node)
  BY DEF AddChild, Building, Opened
<1>2. \E b \in DOMAIN groups : \E first \in groups[b].keys : \E end \in Nat :
        Takes(b, first, end)
  BY ChildTaken
<1> HIDE DEF Takes
<1>3. PICK b \in DOMAIN groups : \E first \in groups[b].keys : \E end \in Nat :
        Takes(b, first, end)
  BY <1>2
<1>4. PICK first \in groups[b].keys : \E end \in Nat : Takes(b, first, end)
  BY <1>3
<1>5. PICK end \in Nat : Takes(b, first, end)
  BY <1>4
<1> DEFINE text == Segment(first, 0, end)
           slot == Slot(node, Len(bases), b)
           filled == [parent |-> node, child |-> Len(bases), weight |-> groups[b].weight]
<1>6. /\ pos < end /\ end <= Len(keys[first].text)
      /\ textOf' = Append(textOf, text)
      /\ \/ cache' = [cache EXCEPT ![slot] = filled]
         \/ cache' = cache
  BY <1>5 DEF Takes, CacheWith
<1>7. KeysOK /\ first \in DOMAIN keys /\ b \in Byte /\ text \in Seq(Byte)
  <2>1. KeysOK /\ first \in DOMAIN keys /\ b \in Byte
    BY <1>1 DEF Inv, GroupsOK
  <2>2. text \in Seq(Byte)
    BY <1>6, <2>1, SegmentType
  <2> QED
    BY <2>1, <2>2
<1>8. /\ parentOf \in Seq(Nat) /\ node \in Nat /\ Len(bases) = Len(parentOf) + 1
      /\ Len(parentOf) \in Nat
  BY <1>1, LenProperties DEF Inv, CurrentOK, BitsOK, NodeOK, ShapeOK
<1>9. /\ textOf \in Seq(Seq(Byte)) /\ Len(textOf) = Len(parentOf) + 1
      /\ \A n \in DOMAIN parentOf : parentOf[n] \in 0 .. n - 1
  BY <1>1 DEF SpelledInv, CurrentSpelled, Spelled
<1>10. level = 1 => LabelIn(parentOf', textOf', Len(bases)) = b
  BY <1>1, <1>6, <1>8, NewLabel
<1>11. Len(bases) \in DOMAIN parentOf' /\ parentOf'[Len(bases)] = node
  BY <1>1, <1>8, AppendProperties, LenProperties
<1>12. level = 1 => slot = CacheId(node, b, Cardinality(DOMAIN cache))
  BY DEF Slot
<1>13. filled.child = Len(bases) /\ filled.parent = node /\ Len(bases) # 0
  BY <1>8
<1> HIDE DEF text, slot, filled
<1>14. DOMAIN cache' = DOMAIN cache
       /\ \A s \in DOMAIN cache : cache'[s] = cache[s] \/ (s = slot /\ cache'[s] = filled)
  BY <1>6
<1>15. ASSUME NEW s \in DOMAIN cache, cache'[s] = cache[s]
       PROVE  SlotTells(level, cache', parentOf', textOf', s)
  <2>1. SlotTells(level, cache, parentOf, textOf, s)
    BY DEF Tells
  <2>2. SlotTells(level, cache', Append(parentOf, node), Append(textOf, text), s)
    BY <1>7, <1>8, <1>9, <1>14, <1>15, <2>1, SlotStays
  <2> QED
    BY <1>1, <1>6, <2>2
<1>16. ASSUME NEW s \in DOMAIN cache, s = slot, cache'[s] = filled
       PROVE  SlotTells(level, cache', parentOf', textOf', s)
  <2>1. cache'[s].child = Len(bases) /\ cache'[s].parent = node
    BY <1>13, <1>16
  <2>2. level = 1 => s = CacheId(node, b, Cardinality(DOMAIN cache'))
    BY <1>12, <1>14, <1>16
  <2> QED
    BY <1>7, <1>10, <1>11, <2>1, <2>2 DEF SlotTells
<1>17. \A s \in DOMAIN cache' : SlotTells(level, cache', parentOf', textOf', s)
  BY <1>14, <1>15, <1>16
<1>18. level = 1 => ApartIn(DOMAIN cache')
  BY <1>14 DEF Tells
<1> QED
  BY <1>17, <1>18 DEF Tells

\* BeginTrie: an empty cache tells nothing.
LEMMA CachedBegin ==
  ASSUME HashKeepsApart, Inv, BeginTrie
  PROVE  Tells(level, cache', parentOf', textOf')
<1> DEFINE texts == {keys[k].text : k \in DOMAIN keys}
           size == CacheSize(level, Cardinality(texts), setting.cacheLevel)
<1>1. cache' = [s \in 0 .. size - 1 |-> EmptySlot]
  BY DEF BeginTrie
<1>2. Cardinality(texts) \in Nat
  <2>1. keys \in Seq(KeyType)
    BY DEF Inv, KeysOK
  <2>2. IsFiniteSet(DOMAIN keys)
    <3>1. DOMAIN keys = 1 .. Len(keys) /\ Len(keys) \in Nat
      BY <2>1, LenProperties
    <3> QED
      BY <3>1, FS_Interval
  <2>3. IsFiniteSet(texts)
    <3> DEFINE f == [k \in DOMAIN keys |-> keys[k].text]
    <3>1. f \in Surjection(DOMAIN keys, texts)
      BY DEF Surjection
    <3> QED
      BY <2>2, <3>1, FS_Surjection
  <2> QED
    BY <2>3, FS_CardinalityType
<1>3. setting.cacheLevel \in Nat \ {0}
  BY SettingsAssumption DEF Inv, ControlOK
<1>4. DOMAIN cache' = 0 .. size - 1
  BY <1>1
<1>5. \A s \in DOMAIN cache' : cache'[s].child = 0
  BY <1>1 DEF EmptySlot
<1>6. level = 1 => ApartIn(DOMAIN cache')
  BY <1>2, <1>3, <1>4 DEF HashKeepsApart
<1> QED
  BY <1>5, <1>6 DEF Tells, SlotTells

\* A trie takes its cache with it when it is closed and pushed.
LEMMA CachedCloseTrie ==
  ASSUME Inv, NamedInv, CloseTrie, ~Building', CachedInv
  PROVE  CachedInv'
<1> DEFINE t == [louds |-> Append(louds, FALSE), linkFlags |-> linkFlags,
                 bases |-> bases, cache |-> cache, numL1 |-> numL1,
                 parentOf |-> parentOf, textOf |-> textOf,
                 terminals |-> [k \in DOMAIN keys |-> keys[k].word]]
<1>1. /\ Building /\ ~Linking /\ trie' = trie
      /\ stack' = Append(stack, t)
      /\ t.cache = cache /\ t.parentOf = parentOf /\ t.textOf = textOf
  BY DEF CloseTrie, Terminals, Building, Linking
<1> HIDE DEF t
<1>2. /\ Len(stack) \in Nat /\ DOMAIN stack = 1 .. Len(stack)
      /\ DOMAIN stack' = 1 .. Len(stack) + 1
      /\ \A i \in 1 .. Len(stack) : stack'[i] = stack[i]
      /\ stack'[Len(stack) + 1] = t
  BY <1>1 DEF Inv, StackOK
<1>3. level = Len(stack) + 1 /\ DOMAIN trie' = {}
  BY <1>1 DEF NamedInv, LevelsOK
<1>4. ASSUME NEW i \in DOMAIN stack'
      PROVE  Tells(i, stack'[i].cache, stack'[i].parentOf, stack'[i].textOf)
  <2>1. CASE i \in 1 .. Len(stack)
    BY <1>2, <2>1 DEF CachedInv
  <2>2. CASE i = Len(stack) + 1
    <3>1. Tells(level, cache, parentOf, textOf)
      BY <1>1 DEF CachedInv
    <3> QED
      BY <1>1, <1>2, <1>3, <2>2, <3>1
  <2> QED
    BY <1>2, <2>1, <2>2
<1>5. \A j \in DOMAIN trie' :
        /\ Tells(Len(stack') + j, trie'[j].cache, trie'[j].parentOf, trie'[j].textOf)
        /\ Repeats(trie'[j])
  BY ONLY <1>3
<1> QED
  BY <1>4, <1>5 DEF CachedInv

\* Linked: a slot with a child keeps it and learns what the trie says of it.
LEMMA LinkedCache ==
  ASSUME NEW t, NEW l, Tells(l, t.cache, t.parentOf, t.textOf)
  PROVE  /\ Tells(l, Linked(t).cache, Linked(t).parentOf, Linked(t).textOf)
         /\ Repeats(Linked(t))
<1> DEFINE u == Linked(t)
           None == [used |-> FALSE, parent |-> 0, child |-> 0, base |-> 0,
                    link |-> FALSE, extra |-> 0]
           Of(slot) == [used |-> TRUE, parent |-> slot.parent, child |-> slot.child,
                        base |-> u.bases[slot.child + 1],
                        link |-> Bit(t.linkFlags, slot.child),
                        extra |-> IF Bit(t.linkFlags, slot.child)
                                  THEN u.extras[Rank1(t.linkFlags, slot.child) + 1]
                                  ELSE 0]
<1>1. /\ u.linkFlags = t.linkFlags /\ u.parentOf = t.parentOf /\ u.textOf = t.textOf
  BY DEF Linked
<1>2. u.cache = [s \in DOMAIN t.cache |->
                   IF t.cache[s].child = 0 THEN None ELSE Of(t.cache[s])]
  BY DEF Linked
<1> HIDE DEF u
<1>3. /\ DOMAIN u.cache = DOMAIN t.cache
      /\ \A s \in DOMAIN t.cache :
           u.cache[s] = IF t.cache[s].child = 0 THEN None ELSE Of(t.cache[s])
  BY <1>2
<1>4. ASSUME NEW s \in DOMAIN t.cache, t.cache[s].child = 0
      PROVE  u.cache[s].child = 0 /\ ~u.cache[s].used
  <2>1. u.cache[s] = None
    BY <1>3, <1>4
  <2>2. None.child = 0 /\ None.used = FALSE
    OBVIOUS
  <2> HIDE DEF None
  <2>3. u.cache[s].child = 0 /\ u.cache[s].used = FALSE
    BY <2>1, <2>2, Zenon
  <2> QED
    BY <2>3
<1>5. ASSUME NEW s \in DOMAIN t.cache, t.cache[s].child # 0
      PROVE  /\ u.cache[s].child = t.cache[s].child
             /\ u.cache[s].parent = t.cache[s].parent
             /\ u.cache[s].base = u.bases[u.cache[s].child + 1]
             /\ u.cache[s].link = Bit(u.linkFlags, u.cache[s].child)
             /\ u.cache[s].link => u.cache[s].extra = Extra(u, u.cache[s].child)
  <2>1. u.cache[s] = Of(t.cache[s])
    BY <1>3, <1>5
  <2>2. /\ u.cache[s].child = t.cache[s].child
        /\ u.cache[s].parent = t.cache[s].parent
        /\ u.cache[s].base = u.bases[t.cache[s].child + 1]
        /\ u.cache[s].link = Bit(t.linkFlags, t.cache[s].child)
        /\ Bit(t.linkFlags, t.cache[s].child) =>
             u.cache[s].extra = u.extras[Rank1(t.linkFlags, t.cache[s].child) + 1]
    BY <2>1
  <2> QED
    BY <1>1, <2>2 DEF Extra
<1>6. ASSUME NEW s \in DOMAIN u.cache
      PROVE  SlotTells(l, u.cache, u.parentOf, u.textOf, s)
  <2>1. SlotTells(l, t.cache, t.parentOf, t.textOf, s)
    BY <1>3 DEF Tells
  <2>2. CASE t.cache[s].child = 0
    BY <1>3, <1>4, <2>2 DEF SlotTells
  <2>3. CASE t.cache[s].child # 0
    BY <1>1, <1>3, <1>5, <2>1, <2>3 DEF SlotTells
  <2> QED
    BY <2>2, <2>3
<1>7. Tells(l, u.cache, u.parentOf, u.textOf)
  BY <1>3, <1>6 DEF Tells
<1>8. Repeats(u)
  BY <1>3, <1>4, <1>5 DEF Repeats
<1> QED
  BY <1>7, <1>8 DEF u

LEMMA CachedLinkTrie == Inv /\ LinkTrie /\ CachedInv => CachedInv'
<1> SUFFICES ASSUME Inv, LinkTrie, CachedInv PROVE CachedInv'
  OBVIOUS
<1> DEFINE t == stack[Len(stack)]
<1>1. /\ ~Building'
      /\ Len(stack) \in Nat \ {0} /\ DOMAIN stack = 1 .. Len(stack)
      /\ Len(trie) \in Nat /\ DOMAIN trie = 1 .. Len(trie)
      /\ Len(stack') = Len(stack) - 1 /\ DOMAIN stack' = 1 .. Len(stack) - 1
      /\ \A i \in 1 .. Len(stack) - 1 : stack'[i] = stack[i]
      /\ DOMAIN trie' = 1 .. Len(trie) + 1
      /\ trie'[1] = Linked(t)
      /\ \A i \in 1 .. Len(trie) : trie'[i + 1] = trie[i]
  BY Popped, Zenon
<1>2. /\ Tells(Len(stack), Linked(t).cache, Linked(t).parentOf, Linked(t).textOf)
      /\ Repeats(Linked(t))
  <2>1. Tells(Len(stack), t.cache, t.parentOf, t.textOf)
    BY <1>1 DEF CachedInv
  <2> QED
    BY <2>1, LinkedCache
<1> HIDE DEF t
<1>3. \A i \in DOMAIN stack' :
        Tells(i, stack'[i].cache, stack'[i].parentOf, stack'[i].textOf)
  BY <1>1 DEF CachedInv
<1>4. ASSUME NEW j \in DOMAIN trie'
      PROVE  /\ Tells(Len(stack') + j, trie'[j].cache, trie'[j].parentOf, trie'[j].textOf)
             /\ Repeats(trie'[j])
  <2>1. CASE j = 1
    <3>1. Len(stack') + 1 = Len(stack)
      BY <1>1
    <3> QED
      BY <1>1, <1>2, <2>1, <3>1
  <2>2. CASE j # 1
    <3>1. PICK i \in 1 .. Len(trie) : j = i + 1
      <4>1. j - 1 \in 1 .. Len(trie) /\ j = (j - 1) + 1
        BY <1>1, <2>2
      <4> QED
        BY <4>1
    <3>2. Len(stack') + j = Len(stack) + i
      BY <1>1, <3>1
    <3>3. trie'[j] = trie[i] /\ i \in DOMAIN trie
      BY <1>1, <3>1
    <3> QED
      BY <3>2, <3>3 DEF CachedInv
  <2> QED
    BY <2>1, <2>2
<1> QED
  BY <1>1, <1>3, <1>4, Zenon DEF CachedInv

LEMMA CachedStep ==
  ASSUME HashKeepsApart
  PROVE  Inv /\ PlacedInv /\ NamedInv /\ SpelledInv /\ [Next]_vars /\ CachedInv => CachedInv'
<1> SUFFICES ASSUME Inv, PlacedInv, NamedInv, SpelledInv, [Next]_vars, CachedInv
             PROVE  CachedInv'
  OBVIOUS
<1>1. ASSUME UNCHANGED <<stack, trie>>,
             Building' => Tells(level', cache', parentOf', textOf')
      PROVE  CachedInv'
  BY <1>1 DEF CachedInv
<1>2. CASE BeginTrie
  <2>1. UNCHANGED <<level, stack, trie>>
    BY <1>2 DEF BeginTrie, linkVars
  <2>2. Tells(level, cache', parentOf', textOf')
    BY <1>2, CachedBegin
  <2> QED
    BY <1>1, <2>1, <2>2
<1>3. CASE AddChild
  <2>1. UNCHANGED <<level, stack, trie>> /\ Building
    BY <1>3 DEF AddChild, linkVars, Building
  <2>2. Tells(level, cache', parentOf', textOf')
    BY <1>3, <2>1, CachedChild DEF CachedInv
  <2> QED
    BY <1>1, <2>1, <2>2
<1>4. CASE NoNextLevel \/ NextTrie \/ NextTail
  <2>1. CloseTrie /\ phase' \in {"begin", "tail", "link"}
    BY <1>4 DEF NoNextLevel, NextTrie, NextTail
  <2>2. ~Building'
    BY <2>1 DEF Building
  <2> QED
    BY <2>1, <2>2, CachedCloseTrie
<1>5. CASE LinkTrie
  BY <1>5, CachedLinkTrie
<1>6. CASE OpenNode \/ GroupKey \/ Grouped \/ CloseNode \/ AddEntry \/ TailDone
           \/ NumberKeys \/ UNCHANGED vars
  <2>1. /\ UNCHANGED <<level, cache, parentOf, textOf, stack, trie>>
        /\ Building' => Building
    BY <1>6 DEF OpenNode, GroupKey, Grouped, CloseNode, AddEntry, TailDone, NumberKeys,
         vars, bitVars, linkVars, Building
  <2> QED
    BY <1>1, <2>1, Zenon DEF CachedInv
<1> QED
  BY <1>2, <1>3, <1>4, <1>5, <1>6 DEF Next

LEMMA CachedAlways ==
  ASSUME HashKeepsApart
  PROVE  Spec => []CachedInv
<1>1. Init => CachedInv
  <2> SUFFICES ASSUME Init PROVE CachedInv
    OBVIOUS
  <2>1. ~Building /\ DOMAIN stack = {} /\ DOMAIN trie = {}
    BY DEF Init, Building
  <2> QED
    BY <2>1 DEF CachedInv
<1>2. Inv /\ PlacedInv /\ NamedInv /\ SpelledInv /\ [Next]_vars /\ CachedInv => CachedInv'
  BY CachedStep
<1> QED
  BY <1>1, <1>2, Invariance, PlacedAlways, NamedAlways, SpelledAlways, PTL DEF Spec

\* A filled slot never misleads (cache<Key>, cache<ReverseKey>, fill_cache): the
\* child it holds has the parent, the base and the link it says, in every trie,
\* and in the first one, where find_child() compares the parent only, the label
\* the slot was asked for.  This takes a hash that keeps labels apart.
THEOREM CacheTruthfulThm ==
  ASSUME HashKeepsApart
  PROVE  Spec => []CacheTruthful
<1>1. Inv /\ NumberedInv /\ NamedInv /\ SpelledInv /\ CachedInv => CacheTruthful
  <2> SUFFICES ASSUME Inv, NumberedInv, NamedInv, SpelledInv, CachedInv
               PROVE  CacheTruthful
    OBVIOUS
  <2> DEFINE LabelOf(t, n) == PathTexts[1, n][Len(PathTexts[1, t.parentOf[n]]) + 1]
             Right(t, s) == t.cache[s].used =>
               /\ t.cache[s].parent = t.parentOf[t.cache[s].child]
               /\ t.cache[s].base = t.bases[t.cache[s].child + 1]
               /\ t.cache[s].link = Bit(t.linkFlags, t.cache[s].child)
               /\ t.cache[s].link => t.cache[s].extra = Extra(t, t.cache[s].child)
             At(t, p, b) == t.cache[CacheId(p, b, Cardinality(DOMAIN t.cache))]
             Found(t, p, b) ==
               At(t, p, b).used /\ At(t, p, b).parent = p =>
                 LabelOf(t, At(t, p, b).child) = b
  <2>1. CacheTruthful <=>
          (phase = "done" =>
             \A l \in DOMAIN trie :
               /\ \A s \in DOMAIN trie[l].cache : Right(trie[l], s)
               /\ l = 1 => \A p \in 0 .. Len(trie[l].bases) - 1, b \in Byte :
                             Found(trie[l], p, b))
    BY Zenon DEF CacheTruthful
  <2> HIDE DEF LabelOf, At, Right, Found
  <2> SUFFICES ASSUME phase = "done", NEW l \in DOMAIN trie
               PROVE  /\ \A s \in DOMAIN trie[l].cache : Right(trie[l], s)
                      /\ l = 1 => \A p \in 0 .. Len(trie[l].bases) - 1, b \in Byte :
                                    Found(trie[l], p, b)
    BY <2>1
  <2> DEFINE t == trie[l]
  <2>2. Len(stack) + l = l
    <3>1. stack = <<>> /\ Len(stack) = 0
      BY DEF NamedInv, LevelsOK
    <3>2. l \in Nat
      BY DEF Inv, TrieOK
    <3> QED
      BY <3>1, <3>2
  <2>3. Tells(l, t.cache, t.parentOf, t.textOf) /\ Repeats(t)
    BY <2>2 DEF CachedInv
  <2>4. \A s \in DOMAIN t.cache : SlotTells(l, t.cache, t.parentOf, t.textOf, s)
    BY <2>3 DEF Tells
  <2>5. ASSUME NEW s \in DOMAIN t.cache
        PROVE  Right(t, s)
    BY <2>3, <2>4 DEF Right, Repeats, SlotTells
  <2>6. ASSUME l = 1, NEW p \in 0 .. Len(t.bases) - 1, NEW b \in Byte
        PROVE  Found(t, p, b)
    <3> DEFINE s == CacheId(p, b, Cardinality(DOMAIN t.cache))
               n == t.cache[s].child
    <3> SUFFICES ASSUME t.cache[s].used, t.cache[s].parent = p
                 PROVE  LabelOf(t, n) = b
      BY DEF Found, At
    <3>1. ApartIn(DOMAIN t.cache) /\ p \in Nat
      BY <2>3, <2>6 DEF Tells
    <3>2. s \in DOMAIN t.cache
      BY <3>1 DEF ApartIn
    <3>3. n # 0
      BY <2>3, <3>2 DEF Repeats
    <3>4. /\ n \in DOMAIN t.parentOf /\ t.parentOf[n] = p
          /\ LabelIn(t.parentOf, t.textOf, n) \in Byte
          /\ s = CacheId(p, LabelIn(t.parentOf, t.textOf, n), Cardinality(DOMAIN t.cache))
      BY <2>4, <2>6, <3>2, <3>3 DEF SlotTells
    <3>5. LabelIn(t.parentOf, t.textOf, n) = b
      BY <3>1, <3>4 DEF ApartIn
    <3>6. n \in 0 .. Len(t.bases) - 1
      <4>1. /\ t.parentOf \in Seq(Nat) /\ Len(t.bases) = Len(t.parentOf) + 1
        BY DEF Inv, TrieOK, WellFormed, BitsOK
      <4>2. DOMAIN t.parentOf = 1 .. Len(t.parentOf) /\ Len(t.parentOf) \in Nat
        BY <4>1, LenProperties
      <4> HIDE DEF n, t
      <4> QED
        BY <3>4, <4>1, <4>2
    <3>7. \A m \in 0 .. Len(t.bases) - 1 : PathTexts[<<1, m>>] = t.textOf[m + 1]
      <4>1. PathTexts = GivenTexts
        BY PathsAreGiven
      <4> TAKE m \in 0 .. Len(t.bases) - 1
      <4>2. <<1, m>> \in Places
        BY <2>6, PlacesAre
      <4> QED
        BY <2>6, <4>1, <4>2 DEF GivenTexts
    <3>8. PathTexts[<<1, n>>] = t.textOf[n + 1] /\ PathTexts[<<1, p>>] = t.textOf[p + 1]
      BY <3>6, <3>7
    <3>9. LabelOf(t, n) = PathTexts[<<1, n>>][Len(PathTexts[<<1, p>>]) + 1]
      BY <3>4, Zenon DEF LabelOf
    <3> QED
      BY <3>4, <3>5, <3>8, <3>9 DEF LabelIn
  <2> QED
    BY <2>5, <2>6
<1>2. Spec => []CachedInv
  BY CachedAlways
<1> QED
  BY <1>1, <1>2, Invariance, NumberedAlways, NamedAlways, SpelledAlways, PTL

-----------------------------------------------------------------------------
(* Siblings.                                                               *)

\* Whether a child of weight v and label b comes before one of weight w and
\* label c.
Before(order, v, b, w, c) ==
  IF order = "weight" /\ v # w THEN v > w ELSE b < c

InOrder(order, ks, parents, texts) ==
  \A m, n \in DOMAIN parents : parents[m] = parents[n] /\ m < n =>
    Before(order, Weighs(ks, texts[m + 1]), LabelIn(parents, texts, m),
           Weighs(ks, texts[n + 1]), LabelIn(parents, texts, n))

\* No key waits in two places.
OnceOK ==
  Building =>
    /\ \A i, j \in DOMAIN queue : i # j => queue[i].keys \cap queue[j].keys = {}
    /\ Opened =>
         /\ \A i \in DOMAIN queue : queue[i].keys \cap (rest \cup InGroups) = {}
         /\ rest \cap InGroups = {}

\* Keys that still have their weight in the word they share with their terminal.
Unspent(S) == \A k \in S : keys[k].word = keyset[k].weight

\* A key that waits is one.
WordsOK ==
  /\ level = 1 /\ phase = "begin" => Unspent(DOMAIN keys)
  /\ level = 1 /\ Building => \A i \in DOMAIN queue : Unspent(queue[i].keys)
  /\ level = 1 /\ Opened => Unspent(rest \cup InGroups)

\* A range has all keys that begin with the text of its node, and a label has
\* all of them that go on with it.
RangesOK ==
  /\ level = 1 /\ Building =>
       \A i \in DOMAIN queue :
         Starting(keyset, textOf[Len(linkFlags) - Len(queue) + i]) \subseteq queue[i].keys
  /\ level = 1 /\ phase = "group" =>
       \A k \in Starting(keyset, textOf[node + 1]) :
         pos < Len(keyset[k].text) => k \in rest \cup InGroups
  /\ level = 1 /\ phase = "children" =>
       \A b \in DOMAIN groups : \A k \in Starting(keyset, textOf[node + 1]) :
         pos < Len(keyset[k].text) /\ keyset[k].text[pos + 1] = b =>
           k \in groups[b].keys

\* A group weighs what its keys weigh.
WeightsOK ==
  level = 1 /\ Opened =>
    \A b \in DOMAIN groups :
      /\ IsFiniteSet(Units(keyset, groups[b].keys))
      /\ groups[b].weight = Cardinality(Units(keyset, groups[b].keys))

\* Nodes are put under the node that is open, or under earlier ones.
ParentsOK ==
  /\ phase = "pop" =>
       \A m \in DOMAIN parentOf : parentOf[m] < Len(linkFlags) - Len(queue)
  /\ phase = "group" => \A m \in DOMAIN parentOf : parentOf[m] < node
  /\ phase = "children" => \A m \in DOMAIN parentOf : parentOf[m] <= node

\* Children come in order, and before the groups that are still to come.
OrderOK ==
  /\ level = 1 /\ Building => InOrder(setting.nodeOrder, keyset, parentOf, textOf)
  /\ level = 1 /\ phase = "children" =>
       \A m \in DOMAIN parentOf : parentOf[m] = node =>
         \A c \in DOMAIN groups :
           Before(setting.nodeOrder, Weighs(keyset, textOf[m + 1]), LabelIn(parentOf, textOf, m),
                  groups[c].weight, c)
  /\ stack # <<>> => InOrder(setting.nodeOrder, keyset, stack[1].parentOf, stack[1].textOf)
  /\ Linking /\ stack = <<>> => InOrder(setting.nodeOrder, keyset, trie[1].parentOf, trie[1].textOf)

SiblingsInv ==
  OnceOK /\ WordsOK /\ RangesOK /\ WeightsOK /\ ParentsOK /\ OrderOK

\* What a key of the keyset is made of.
LEMMA KeysetFields ==
  ASSUME Inv, NEW k \in DOMAIN keyset
  PROVE  /\ keyset[k].text \in Seq(Byte) /\ Len(keyset[k].text) \in Nat
         /\ keyset[k].weight \in Nat
<1>1. keyset \in Seq([text : Seq(Byte), weight : Nat])
  BY KeysetsAssumption DEF Inv, ControlOK
<1>2. keyset[k] \in [text : Seq(Byte), weight : Nat]
  BY <1>1, ElementOfSeq, LenProperties
<1> QED
  BY <1>2, LenProperties

\* The keys that begin with a text, by their first bytes.
LEMMA StartingIs ==
  ASSUME Inv, NEW text \in Seq(Byte), NEW k
  PROVE  k \in Starting(keyset, text) <=>
           /\ k \in DOMAIN keyset
           /\ Len(text) <= Len(keyset[k].text)
           /\ SubSeq(keyset[k].text, 1, Len(text)) = text
<1>1. SubSeq(text, 1, Len(text)) = text
  OBVIOUS
<1> QED
  BY <1>1 DEF Starting, Seqs!IsPrefix

\* One more key adds its weight.
LEMMA OneMoreUnits ==
  ASSUME Inv, NEW S, NEW k \in DOMAIN keyset, k \notin S, IsFiniteSet(Units(keyset, S))
  PROVE  /\ IsFiniteSet(Units(keyset, S \cup {k}))
         /\ Cardinality(Units(keyset, S \cup {k})) = Cardinality(Units(keyset, S)) + keyset[k].weight
<1> DEFINE w == keyset[k].weight
           own == {k} \X (1 .. w)
           f == [i \in 1 .. w |-> <<k, i>>]
<1>1. w \in Nat
  BY KeysetFields
<1>2. IsFiniteSet(own) /\ Cardinality(own) = w
  <2>1. IsFiniteSet(1 .. w) /\ Cardinality(1 .. w) = w
    <3> HIDE DEF w
    <3>1. 1 \in Int /\ w \in Int
      BY <1>1
    <3>2. IsFiniteSet(1 .. w) /\ Cardinality(1 .. w) = IF 1 > w THEN 0 ELSE w - 1 + 1
      BY <3>1, FS_Interval
    <3> QED
      BY <1>1, <3>2
  <2>2. f \in Bijection(1 .. w, own)
    <3> HIDE DEF w
    <3>1. f \in [1 .. w -> own]
      OBVIOUS
    <3>2. \A i, j \in 1 .. w : f[i] = f[j] => i = j
      OBVIOUS
    <3>3. \A x \in own : \E i \in 1 .. w : f[i] = x
      OBVIOUS
    <3> HIDE DEF f, own
    <3> QED
      BY <3>1, <3>2, <3>3 DEF Bijection, Injection, Surjection, IsInjective
  <2>3. ExistsBijection(1 .. w, own)
    BY <2>2 DEF ExistsBijection
  <2> HIDE DEF own, f, w
  <2> QED
    BY <2>1, <2>3, FS_Bijection
<1>3. Units(keyset, S \cup {k}) = Units(keyset, S) \cup own
  BY DEF Units
<1>4. Units(keyset, S) \cap own = {}
  <2>1. \A u \in Units(keyset, S) : u[1] \in S
    BY DEF Units
  <2>2. \A u \in own : u[1] = k
    OBVIOUS
  <2> QED
    BY <2>1, <2>2
<1> HIDE DEF own, w
<1>5. Cardinality(Units(keyset, S)) \in Nat /\ Cardinality({}) = 0
  BY FS_CardinalityType, FS_EmptySet
<1>6. /\ IsFiniteSet(Units(keyset, S) \cup own)
      /\ Cardinality(Units(keyset, S) \cup own) = Cardinality(Units(keyset, S)) + Cardinality(own) - Cardinality({})
  BY <1>2, <1>4, FS_Union
<1>7. Cardinality(Units(keyset, S)) + w - 0 = Cardinality(Units(keyset, S)) + w
  BY <1>1, <1>5
<1> QED
  BY <1>2, <1>3, <1>5, <1>6, <1>7 DEF w

\* No keys weigh nothing.
LEMMA NoUnits == IsFiniteSet(Units(keyset, {})) /\ Cardinality(Units(keyset, {})) = 0
<1>1. Units(keyset, {}) = {}
  BY DEF Units
<1> QED
  BY <1>1, FS_EmptySet

\* In the first trie a key reads as it does in the keyset.
LEMMA FirstKeys ==
  ASSUME NamedInv, level = 1, phase = "begin" \/ Building
  PROVE  /\ DOMAIN keys = DOMAIN keyset
         /\ \A k \in DOMAIN keys :
              /\ keys[k].text = keyset[k].text
              /\ \A q : Label(k, q) = keyset[k].text[q + 1]
BY DEF NamedInv, FirstKeysOK, Label

\* A node is added, and the others keep what they have.
Grown(parents, texts, p, text, ps, ts) ==
  /\ DOMAIN ps = DOMAIN parents \cup {Len(parents) + 1}
  /\ ps[Len(parents) + 1] = p
  /\ ts[Len(parents) + 1 + 1] = text
  /\ \A n \in DOMAIN parents :
       /\ n \in Nat /\ n < Len(parents) + 1
       /\ ps[n] = parents[n]
       /\ ts[n + 1] = texts[n + 1]
       /\ LabelIn(ps, ts, n) = LabelIn(parents, texts, n)

LEMMA NodesStay ==
  ASSUME NEW parents \in Seq(Nat), NEW texts \in Seq(Seq(Byte)),
         Len(texts) = Len(parents) + 1,
         \A n \in DOMAIN parents : parents[n] \in 0 .. n - 1,
         NEW p \in Nat, NEW text \in Seq(Byte)
  PROVE  Grown(parents, texts, p, text, Append(parents, p), Append(texts, text))
<1> DEFINE ps == Append(parents, p)
           ts == Append(texts, text)
<1>1. /\ Len(parents) \in Nat /\ DOMAIN parents = 1 .. Len(parents)
      /\ DOMAIN ps = 1 .. Len(parents) + 1
      /\ \A i \in 1 .. Len(parents) : ps[i] = parents[i]
      /\ ps[Len(parents) + 1] = p
  BY AppendProperties, LenProperties
<1>2. /\ \A i \in 1 .. Len(texts) : ts[i] = texts[i]
      /\ ts[Len(texts) + 1] = text
  BY AppendProperties, LenProperties
<1> HIDE DEF ps, ts
<1>3. ASSUME NEW n \in DOMAIN parents
      PROVE  /\ n \in Nat /\ n < Len(parents) + 1
             /\ ps[n] = parents[n] /\ ts[n + 1] = texts[n + 1]
             /\ LabelIn(ps, ts, n) = LabelIn(parents, texts, n)
  <2> DEFINE len == Len(parents)
             up == parents[n]
  <2>1. len \in Nat /\ n \in 1 .. len /\ Len(texts) = len + 1 /\ up \in 0 .. n - 1
    BY <1>1
  <2> HIDE DEF len, up
  <2>2. n + 1 \in 1 .. len + 1 /\ n \in Nat /\ n < len + 1 /\ up + 1 \in 1 .. len + 1
    BY ONLY <2>1, SMTT(30)
  <2>3. n + 1 \in 1 .. Len(texts) /\ n \in Nat /\ n < Len(parents) + 1
        /\ parents[n] + 1 \in 1 .. Len(texts)
    BY <2>1, <2>2 DEF len, up
  <2>4. ps[n] = parents[n] /\ ts[n + 1] = texts[n + 1] /\ ts[parents[n] + 1] = texts[parents[n] + 1]
    BY <1>1, <1>2, <2>3
  <2>5. LabelIn(ps, ts, n) = LabelIn(parents, texts, n)
    BY <2>4 DEF LabelIn
  <2> QED
    BY <2>3, <2>4, <2>5
<1>4. DOMAIN ps = DOMAIN parents \cup {Len(parents) + 1}
  BY <1>1
<1>5. ts[Len(parents) + 1 + 1] = text
  BY <1>2
<1> QED
  <2>1. Grown(parents, texts, p, text, ps, ts)
    BY <1>1, <1>3, <1>4, <1>5 DEF Grown
  <2> QED
    BY <2>1 DEF ps, ts

\* A node that comes after its siblings may be added.
LEMMA InOrderMore ==
  ASSUME NEW order, NEW ks, NEW parents \in Seq(Nat), NEW texts,
         NEW p, NEW text, NEW ps, NEW ts,
         Grown(parents, texts, p, text, ps, ts),
         InOrder(order, ks, parents, texts),
         \A m \in DOMAIN parents : parents[m] = p =>
           Before(order, Weighs(ks, texts[m + 1]), LabelIn(parents, texts, m),
                  Weighs(ks, text), LabelIn(ps, ts, Len(parents) + 1))
  PROVE  InOrder(order, ks, ps, ts)
<1> DEFINE new == Len(parents) + 1
<1>1. /\ DOMAIN ps = DOMAIN parents \cup {new}
      /\ ps[new] = p /\ ts[new + 1] = text
      /\ \A n \in DOMAIN parents :
           /\ n \in Nat /\ n < new /\ ps[n] = parents[n] /\ ts[n + 1] = texts[n + 1]
           /\ LabelIn(ps, ts, n) = LabelIn(parents, texts, n)
  BY DEF Grown
<1>2. new \in Nat
  BY LenProperties
<1>3. \A m \in DOMAIN parents : parents[m] = p =>
        Before(order, Weighs(ks, texts[m + 1]), LabelIn(parents, texts, m),
               Weighs(ks, text), LabelIn(ps, ts, new))
  OBVIOUS
<1> HIDE DEF new
<1>4. ASSUME NEW m \in DOMAIN ps, NEW n \in DOMAIN ps, ps[m] = ps[n], m < n
      PROVE  Before(order, Weighs(ks, ts[m + 1]), LabelIn(ps, ts, m),
                    Weighs(ks, ts[n + 1]), LabelIn(ps, ts, n))
  <2>1. m # new
    BY <1>1, <1>2, <1>4
  <2>2. m \in DOMAIN parents
    BY <1>1, <2>1
  <2>3. CASE n = new
    BY <1>1, <1>3, <1>4, <2>2, <2>3
  <2>4. CASE n \in DOMAIN parents
    <3>1. parents[m] = parents[n]
      BY <1>1, <1>4, <2>2, <2>4
    <3>2. Before(order, Weighs(ks, texts[m + 1]), LabelIn(parents, texts, m),
                 Weighs(ks, texts[n + 1]), LabelIn(parents, texts, n))
      BY <1>4, <2>2, <2>4, <3>1 DEF InOrder
    <3> QED
      BY <1>1, <2>2, <2>4, <3>2
  <2> QED
    BY <1>1, <2>3, <2>4
<1> QED
  BY <1>4 DEF InOrder

\* BeginTrie: all keys are in the one range, with their weights.
LEMMA SiblingsBegin == Inv /\ NamedInv /\ BeginTrie /\ SiblingsInv => SiblingsInv'
<1> SUFFICES ASSUME Inv, NamedInv, BeginTrie, SiblingsInv PROVE SiblingsInv'
  OBVIOUS
<1> DEFINE all == [keys |-> DOMAIN keys, pos |-> 0]
<1>1. /\ phase = "begin" /\ phase' = "pop" /\ queue' = <<all>>
      /\ textOf' = << <<>> >> /\ parentOf' = <<>>
      /\ UNCHANGED <<keyset, setting, keys, level, stack, trie>>
  BY DEF BeginTrie, inputVars, linkVars
<1>2. all.keys = DOMAIN keys
  OBVIOUS
<1> HIDE DEF all
<1>3. /\ ~Opened' /\ Building' /\ ~Linking /\ ~Linking'
      /\ DOMAIN queue' = {1} /\ queue'[1].keys = DOMAIN keys /\ DOMAIN parentOf' = {}
  BY <1>1, <1>2 DEF Opened, Building, Linking
<1>4. OnceOK'
  BY <1>3 DEF OnceOK
<1>5. WordsOK'
  <2>1. level = 1 => Unspent(DOMAIN keys)
    BY <1>1 DEF SiblingsInv, WordsOK
  <2> QED
    BY <1>1, <1>3, <2>1 DEF WordsOK, Unspent
<1>6. RangesOK'
  <2>1. level = 1 => DOMAIN keys = DOMAIN keyset
    BY <1>1, FirstKeys
  <2>2. \A text : Starting(keyset, text) \subseteq DOMAIN keyset
    BY DEF Starting
  <2> QED
    BY <1>1, <1>3, <2>1, <2>2 DEF RangesOK
<1>7. WeightsOK' /\ ParentsOK'
  BY <1>1, <1>3 DEF WeightsOK, ParentsOK
<1>8. OrderOK'
  <2>1. InOrder(setting.nodeOrder, keyset, parentOf', textOf')
    BY <1>3 DEF InOrder
  <2>2. stack # <<>> => InOrder(setting.nodeOrder, keyset, stack[1].parentOf, stack[1].textOf)
    BY DEF SiblingsInv, OrderOK
  <2> QED
    BY <1>1, <1>3, <2>1, <2>2 DEF OrderOK
<1> QED
  BY <1>4, <1>5, <1>6, <1>7, <1>8 DEF SiblingsInv

\* OpenNode: the range that was in front is open, and what is left of it goes on.
LEMMA SiblingsOpen == Inv /\ NamedInv /\ OpenNode /\ SiblingsInv => SiblingsInv'
<1> SUFFICES ASSUME Inv, NamedInv, OpenNode, SiblingsInv PROVE SiblingsInv'
  OBVIOUS
<1> DEFINE n == Len(linkFlags) - Len(queue)
           range == Head(queue)
           ended == {k \in range.keys : Len(keys[k].text) = range.pos}
<1>1. /\ phase = "pop" /\ phase' = "group" /\ queue # <<>>
      /\ node' = n /\ pos' = range.pos /\ rest' = range.keys \ ended
      /\ queue' = Tail(queue) /\ groups' = <<>>
      /\ keys' = [k \in DOMAIN keys |->
                   IF k \in ended THEN [keys[k] EXCEPT !.word = n] ELSE keys[k]]
      /\ UNCHANGED <<keyset, setting, level, linkFlags, textOf, parentOf, stack, trie>>
  BY DEF OpenNode, NodeNumber, inputVars, bitVars, linkVars
<1>2. /\ Building /\ Building' /\ ~Opened /\ Opened' /\ ~Linking /\ ~Linking'
  BY <1>1 DEF Building, Opened, Linking
<1>3. KeysOK /\ queue \in Seq(RangeType)
  BY <1>2 DEF Inv, QueueOK
<1>4. /\ Tail(queue) \in Seq(RangeType)
      /\ Len(Tail(queue)) = Len(queue) - 1
      /\ \A i \in 1 .. Len(Tail(queue)) : Tail(queue)[i] = queue[i + 1]
      /\ Len(queue) \in Nat \ {0}
      /\ range = queue[1]
  BY <1>1, <1>3, HeadTailProperties, LenProperties, EmptySeq
<1>5. /\ 1 \in DOMAIN queue
      /\ Len(queue') = Len(queue) - 1
      /\ \A i \in DOMAIN queue' :
           /\ i \in Int /\ i + 1 \in DOMAIN queue /\ i + 1 # 1
           /\ queue'[i] = queue[i + 1]
      /\ \A i, j \in DOMAIN queue' : i # j => i + 1 # j + 1
  BY <1>1, <1>3, <1>4, LenProperties
<1>6. /\ range.keys \subseteq DOMAIN keys
      /\ \A i \in DOMAIN queue : queue[i].keys \subseteq DOMAIN keys
  <2>1. \A i \in DOMAIN queue : queue[i] \in RangeType
    BY <1>3, ElementOfSeq, LenProperties
  <2> QED
    BY <1>4, <1>5, <2>1 DEF RangeType
<1>7. Len(linkFlags) \in Nat /\ n \in Int /\ n + 1 = Len(linkFlags) - Len(queue) + 1
  <2>1. Len(linkFlags) \in Nat
    BY LenProperties DEF Inv, CurrentOK, BitsOK
  <2> QED
    BY <1>4, <2>1
<1>8. \A k \in DOMAIN keys : k \notin ended => keys'[k].word = keys[k].word
  <2> HIDE DEF n, range, ended
  <2> QED
    BY <1>1
<1>9. InGroups' = {}
  <2>1. DOMAIN groups' = {}
    BY <1>1
  <2> QED
    BY <2>1 DEF InGroups
<1>10. \A i, j \in DOMAIN queue : i # j => queue[i].keys \cap queue[j].keys = {}
  BY <1>2 DEF SiblingsInv, OnceOK
<1>11. \A i \in DOMAIN queue' : queue'[i].keys \cap range.keys = {}
  BY <1>4, <1>5, <1>10
<1>12. OnceOK'
  <2>1. \A i, j \in DOMAIN queue' : i # j => queue'[i].keys \cap queue'[j].keys = {}
    BY <1>5, <1>10
  <2>2. rest' \subseteq range.keys
    BY <1>1
  <2> HIDE DEF range
  <2> QED
    BY <1>9, <1>11, <2>1, <2>2 DEF OnceOK
<1>13. WordsOK'
  <2>1. ASSUME level = 1, NEW i \in DOMAIN queue', NEW k \in queue'[i].keys
        PROVE  keys'[k].word = keyset[k].weight
    <3>1. keys[k].word = keyset[k].weight
      BY <1>2, <1>5, <2>1 DEF SiblingsInv, WordsOK, Unspent
    <3>2. k \in DOMAIN keys
      BY <1>5, <1>6
    <3>3. k \notin range.keys
      BY <1>11
    <3> QED
      BY <1>8, <3>1, <3>2, <3>3
  <2>2. ASSUME level = 1, NEW k \in rest'
        PROVE  keys'[k].word = keyset[k].weight
    <3>1. k \in range.keys /\ k \notin ended
      BY <1>1
    <3>2. keys[k].word = keyset[k].weight
      BY <1>2, <1>4, <1>5, <2>2, <3>1 DEF SiblingsInv, WordsOK, Unspent
    <3> QED
      BY <1>6, <1>8, <3>1, <3>2
  <2> QED
    BY <1>1, <1>9, <2>1, <2>2 DEF WordsOK, Unspent
<1>14. RangesOK'
  <2>1. ASSUME level = 1, NEW i \in DOMAIN queue'
        PROVE  Starting(keyset, textOf[Len(linkFlags) - Len(queue') + i]) \subseteq queue'[i].keys
    <3>1. Len(linkFlags) - Len(queue') + i = Len(linkFlags) - Len(queue) + (i + 1)
      BY <1>4, <1>5, <1>7
    <3> QED
      BY <1>2, <1>5, <2>1, <3>1 DEF SiblingsInv, RangesOK
  <2>2. ASSUME level = 1, NEW k \in Starting(keyset, textOf[node' + 1]),
               pos' < Len(keyset[k].text)
        PROVE  k \in rest'
    <3>1. Starting(keyset, textOf[Len(linkFlags) - Len(queue) + 1]) \subseteq queue[1].keys
      BY <1>2, <1>5, <2>2 DEF SiblingsInv, RangesOK
    <3>2. k \in range.keys
      BY <1>1, <1>4, <1>7, <2>2, <3>1
    <3>3. keys[k].text = keyset[k].text /\ Len(keys[k].text) \in Nat
      BY <1>2, <1>3, <1>6, <2>2, <3>2, FirstKeys, KeyFields
    <3>4. Len(keys[k].text) # range.pos
      <4>1. range.pos < Len(keys[k].text)
        BY <1>1, <2>2, <3>3
      <4>2. range.pos \in Nat
        <5>1. queue[1] \in RangeType
          BY <1>3, <1>5, ElementOfSeq, LenProperties
        <5> QED
          BY <1>4, <5>1 DEF RangeType
      <4> QED
        BY <3>3, <4>1, <4>2
    <3> QED
      BY <1>1, <3>2, <3>4
  <2> HIDE DEF n, range, ended
  <2> QED
    BY <1>1, <1>2, <2>1, <2>2 DEF RangesOK
<1>15. WeightsOK'
  <2>1. DOMAIN groups' = {}
    BY <1>1
  <2> QED
    BY <2>1 DEF WeightsOK
<1>16. ParentsOK'
  BY <1>1 DEF SiblingsInv, ParentsOK
<1>17. OrderOK'
  BY <1>1, <1>2 DEF SiblingsInv, OrderOK
<1> QED
  BY <1>12, <1>13, <1>14, <1>15, <1>16, <1>17 DEF SiblingsInv

\* GroupKey: a key goes from the rest into the group of its label, and its
\* weight with it.
LEMMA SiblingsGroupKey == Inv /\ PlacedInv /\ NamedInv /\ GroupKey /\ SiblingsInv => SiblingsInv'
<1> SUFFICES ASSUME Inv, PlacedInv, NamedInv, GroupKey, SiblingsInv PROVE SiblingsInv'
  OBVIOUS
<1>1. /\ phase = "group" /\ phase' = "group"
      /\ UNCHANGED <<keyset, setting, level, keys, queue, node, pos, linkFlags, textOf,
                     parentOf, stack, trie>>
  BY DEF GroupKey, inputVars, bitVars, linkVars
<1>2. Building /\ Building' /\ Opened /\ Opened' /\ ~Linking /\ ~Linking'
  BY <1>1 DEF Building, Opened, Linking
<1> DEFINE before(b) == IF b \in DOMAIN groups THEN groups[b]
                        ELSE [keys |-> {}, weight |-> 0]
           after(k, b) == [keys |-> before(b).keys \cup {k},
                           weight |-> before(b).weight + keys[k].word]
<1>3. PICK k \in rest :
        /\ rest' = rest \ {k}
        /\ groups' = [b \in DOMAIN groups \cup {Label(k, pos)} |->
                       IF b = Label(k, pos) THEN after(k, Label(k, pos))
                       ELSE groups[b]]
  BY DEF GroupKey
<1> DEFINE label == Label(k, pos)
           old == before(label)
<1>4. k \in DOMAIN keys
  BY <1>2 DEF Inv, NodeOK
<1>5. /\ DOMAIN groups' = DOMAIN groups \cup {label}
      /\ groups'[label].keys = old.keys \cup {k}
      /\ groups'[label].weight = old.weight + keys[k].word
      /\ \A b \in DOMAIN groups : b # label => groups'[b] = groups[b]
  BY <1>3
<1>6. /\ label \in DOMAIN groups => old = groups[label]
      /\ label \notin DOMAIN groups => old.keys = {} /\ old.weight = 0
  OBVIOUS
<1> HIDE DEF label, old
<1>7. InGroups' = InGroups \cup {k}
  <2>1. \A b \in DOMAIN groups' : groups'[b].keys \subseteq InGroups \cup {k}
    BY <1>5, <1>6 DEF InGroups
  <2>2. \A b \in DOMAIN groups : groups[b].keys \subseteq groups'[b].keys
    BY <1>5, <1>6
  <2>3. k \in InGroups'
    BY <1>5 DEF InGroups
  <2>4. InGroups' \subseteq InGroups \cup {k}
    BY <2>1 DEF InGroups
  <2>5. InGroups \subseteq InGroups'
    BY <1>5, <2>2 DEF InGroups
  <2> QED
    BY <2>3, <2>4, <2>5
<1>8. rest' \cup InGroups' = rest \cup InGroups
  BY <1>3, <1>7
<1>9. rest \cap InGroups = {}
  BY <1>2 DEF SiblingsInv, OnceOK
<1>10. OnceOK'
  <2>1. rest' \cap InGroups' = {}
    BY <1>3, <1>7, <1>9
  <2> QED
    BY <1>1, <1>2, <1>8, <2>1 DEF SiblingsInv, OnceOK
<1>11. WordsOK'
  BY <1>1, <1>2, <1>8 DEF SiblingsInv, WordsOK, Unspent
<1>12. RangesOK'
  BY <1>1, <1>2, <1>8 DEF SiblingsInv, RangesOK
<1>13. WeightsOK'
  <2> SUFFICES ASSUME level = 1, NEW b \in DOMAIN groups'
               PROVE  /\ IsFiniteSet(Units(keyset, groups'[b].keys))
                      /\ groups'[b].weight = Cardinality(Units(keyset, groups'[b].keys))
    BY <1>1 DEF WeightsOK
  <2>1. \A c \in DOMAIN groups :
          /\ IsFiniteSet(Units(keyset, groups[c].keys))
          /\ groups[c].weight = Cardinality(Units(keyset, groups[c].keys))
    BY <1>2 DEF SiblingsInv, WeightsOK
  <2>2. CASE b # label
    BY <1>5, <2>1, <2>2
  <2>3. CASE b = label
    <3>1. /\ IsFiniteSet(Units(keyset, old.keys))
          /\ old.weight = Cardinality(Units(keyset, old.keys))
      BY <1>6, <2>1, NoUnits
    <3>2. k \notin old.keys
      BY <1>6, <1>9 DEF InGroups
    <3>3. k \in DOMAIN keyset /\ keys[k].word = keyset[k].weight
      BY <1>2, <1>4, FirstKeys DEF SiblingsInv, WordsOK, Unspent
    <3>4. /\ IsFiniteSet(Units(keyset, old.keys \cup {k}))
          /\ Cardinality(Units(keyset, old.keys \cup {k}))
               = Cardinality(Units(keyset, old.keys)) + keyset[k].weight
      BY <3>1, <3>2, <3>3, OneMoreUnits
    <3> QED
      BY <1>5, <2>3, <3>1, <3>3, <3>4
  <2> QED
    BY <2>2, <2>3
<1>14. ParentsOK'
  BY <1>1 DEF SiblingsInv, ParentsOK
<1>15. OrderOK'
  BY <1>1, <1>2 DEF SiblingsInv, OrderOK
<1> QED
  BY <1>10, <1>11, <1>12, <1>13, <1>14, <1>15 DEF SiblingsInv

\* Grouped: each label has all keys that go on with it, as none is left over.
LEMMA SiblingsGrouped == Inv /\ PlacedInv /\ NamedInv /\ Grouped /\ SiblingsInv => SiblingsInv'
<1> SUFFICES ASSUME Inv, PlacedInv, NamedInv, Grouped, SiblingsInv PROVE SiblingsInv'
  OBVIOUS
<1>1. /\ phase = "group" /\ phase' = "children" /\ rest = {}
      /\ UNCHANGED <<keyset, setting, level, keys, queue, node, pos, rest, groups,
                     linkFlags, textOf, parentOf, stack, trie>>
  BY DEF Grouped, inputVars, rangeVars, linkVars
<1>2. Building /\ Building' /\ Opened /\ Opened' /\ ~Linking /\ ~Linking'
  BY <1>1 DEF Building, Opened, Linking
<1>3. InGroups' = InGroups
  BY <1>1 DEF InGroups
<1>4. OnceOK'
  BY <1>1, <1>2, <1>3 DEF SiblingsInv, OnceOK
<1>5. WordsOK'
  BY <1>1, <1>2, <1>3 DEF SiblingsInv, WordsOK, Unspent
<1>6. RangesOK'
  <2>1. ASSUME level = 1, NEW b \in DOMAIN groups,
               NEW k \in Starting(keyset, textOf[node + 1]),
               pos < Len(keyset[k].text), keyset[k].text[pos + 1] = b
        PROVE  k \in groups[b].keys
    <3>1. k \in InGroups
      BY <1>1, <2>1 DEF SiblingsInv, RangesOK
    <3>2. PICK c \in DOMAIN groups : k \in groups[c].keys
      BY <3>1 DEF InGroups
    <3>3. Label(k, pos) = c /\ k \in DOMAIN keys
      BY <1>2, <3>2 DEF PlacedInv, OpenedOK, Inv, GroupsOK
    <3>4. Label(k, pos) = keyset[k].text[pos + 1]
      BY <1>2, <2>1, <3>3, FirstKeys
    <3> QED
      BY <2>1, <3>2, <3>3, <3>4
  <2> QED
    BY <1>1, <1>2, <2>1 DEF SiblingsInv, RangesOK
<1>7. WeightsOK'
  BY <1>1, <1>2 DEF SiblingsInv, WeightsOK
<1>8. /\ \A m \in DOMAIN parentOf : parentOf[m] < node /\ parentOf[m] \in Nat
      /\ node \in Nat
  <2>1. parentOf \in Seq(Nat)
    BY DEF Inv, CurrentOK, BitsOK
  <2>2. \A m \in DOMAIN parentOf : parentOf[m] \in Nat
    BY <2>1, ElementOfSeq, LenProperties
  <2> QED
    BY <1>1, <1>2, <2>2 DEF SiblingsInv, ParentsOK, Inv, NodeOK
<1>9. ParentsOK'
  BY <1>1, <1>8 DEF ParentsOK
<1>10. OrderOK'
  <2>1. \A m \in DOMAIN parentOf : parentOf[m] # node
    BY <1>8
  <2> QED
    BY <1>1, <1>2, <2>1 DEF SiblingsInv, OrderOK
<1> QED
  BY <1>4, <1>5, <1>6, <1>7, <1>9, <1>10 DEF SiblingsInv

\* CloseNode: nothing is left of the range that was open.
LEMMA SiblingsClose == Inv /\ CloseNode /\ SiblingsInv => SiblingsInv'
<1> SUFFICES ASSUME Inv, CloseNode, SiblingsInv PROVE SiblingsInv'
  OBVIOUS
<1>1. /\ phase = "children" /\ phase' = "pop"
      /\ UNCHANGED <<keyset, setting, level, keys, queue, linkFlags, textOf, parentOf,
                     stack, trie>>
  BY DEF CloseNode, inputVars, linkVars
<1>2. Building /\ Building' /\ Opened /\ ~Opened' /\ ~Linking /\ ~Linking'
  BY <1>1 DEF Building, Opened, Linking
<1>3. OnceOK' /\ WordsOK' /\ RangesOK'
  BY <1>1, <1>2 DEF SiblingsInv, OnceOK, WordsOK, RangesOK, Unspent
<1>4. WeightsOK'
  BY <1>2 DEF WeightsOK
<1>5. ParentsOK'
  <2>1. /\ Len(linkFlags) \in Nat /\ Len(queue) \in Nat /\ node \in Nat
        /\ parentOf \in Seq(Nat)
    BY <1>2, OpenedNumbers DEF Inv, CurrentOK, BitsOK
  <2>2. Zeros(louds) + Len(queue) = Len(linkFlags) /\ Zeros(louds) = node + 1
    BY <1>2 DEF Inv, ShapeOK
  <2>3. node < Len(linkFlags) - Len(queue)
    BY <2>1, <2>2
  <2>4. \A m \in DOMAIN parentOf : parentOf[m] <= node /\ parentOf[m] \in Nat
    BY <1>1, <2>1, ElementOfSeq, LenProperties DEF SiblingsInv, ParentsOK
  <2>5. \A m \in DOMAIN parentOf : parentOf[m] < Len(linkFlags) - Len(queue)
    BY <2>1, <2>3, <2>4
  <2> QED
    BY <1>1, <2>5 DEF ParentsOK
<1>6. OrderOK'
  BY <1>1, <1>2 DEF SiblingsInv, OrderOK
<1> QED
  BY <1>3, <1>4, <1>5, <1>6 DEF SiblingsInv

\* The keys below a new node of the first trie are those of its group.
LEMMA ChildStarts ==
  ASSUME Inv, PlacedInv, NamedInv, SiblingsInv, phase = "children", level = 1,
         NEW b \in DOMAIN groups, NEW first \in groups[b].keys, NEW end \in Nat,
         pos < end, end <= Len(keys[first].text), Shared(groups[b].keys, end)
  PROVE  Starting(keyset, Segment(first, 0, end)) = groups[b].keys
<1> DEFINE text == keyset[first].text
           new == SubSeq(text, 1, end)
<1>1. Opened /\ Building /\ KeysOK
  BY DEF Opened, Building, Inv
<1>2. groups[b].keys \subseteq DOMAIN keys /\ pos \in Nat
  BY <1>1 DEF Inv, GroupsOK, NodeOK
<1>3. /\ DOMAIN keys = DOMAIN keyset
      /\ \A k \in DOMAIN keys :
           keys[k].text = keyset[k].text /\ Label(k, pos) = keyset[k].text[pos + 1]
  BY <1>1, FirstKeys
<1>4. /\ first \in DOMAIN keyset /\ text \in Seq(Byte) /\ Len(text) \in Nat
      /\ end <= Len(text)
  BY <1>2, <1>3, KeysetFields
<1>5. Segment(first, 0, end) = new
  <2>1. Segment(first, 0, end) = Read(level, keys[first].text, end)
    BY <1>1, <1>2, ReadIsSegment
  <2> QED
    BY <1>2, <1>3, <2>1 DEF Read
<1> HIDE DEF text
<1>6. new \in Seq(Byte) /\ Len(new) = end /\ \A i \in 1 .. end : new[i] = text[i]
  BY <1>4
<1> HIDE DEF new
<1>7. ASSUME NEW k \in groups[b].keys PROVE k \in Starting(keyset, new)
  <2>1. /\ end <= Len(keys[k].text)
        /\ Read(level, keys[k].text, end) = Read(level, keys[first].text, end)
    BY <1>1, GroupReads
  <2>2. k \in DOMAIN keys /\ k \in DOMAIN keyset /\ keys[k].text = keyset[k].text
        /\ keys[first].text = text
    BY <1>2, <1>3 DEF text
  <2>3. SubSeq(keyset[k].text, 1, end) = new
    BY <2>1, <2>2 DEF Read, new
  <2> QED
    BY <1>6, <2>1, <2>2, <2>3, StartingIs
<1>8. ASSUME NEW k \in Starting(keyset, new) PROVE k \in groups[b].keys
  <2> DEFINE own == keyset[k].text
  <2>1. k \in DOMAIN keyset /\ end <= Len(own) /\ SubSeq(own, 1, end) = new
    BY <1>6, StartingIs
  <2>2. own \in Seq(Byte) /\ Len(own) \in Nat
    BY <2>1, KeysetFields
  <2> HIDE DEF own
  <2>3. \A i \in 1 .. end : own[i] = text[i]
    <3>1. \A i \in 1 .. end : SubSeq(own, 1, end)[i] = own[i]
      BY <2>1, <2>2
    <3> QED
      BY <1>6, <2>1, <3>1
  <2>4. SubSeq(own, 1, pos) = SubSeq(text, 1, pos)
    <3>1. /\ SubSeq(own, 1, pos) \in Seq(Byte) /\ Len(SubSeq(own, 1, pos)) = pos
          /\ \A i \in 1 .. pos : SubSeq(own, 1, pos)[i] = own[i]
      BY <1>2, <2>1, <2>2
    <3>2. /\ SubSeq(text, 1, pos) \in Seq(Byte) /\ Len(SubSeq(text, 1, pos)) = pos
          /\ \A i \in 1 .. pos : SubSeq(text, 1, pos)[i] = text[i]
      BY <1>2, <1>4
    <3>3. \A i \in 1 .. pos : own[i] = text[i]
      BY <1>2, <2>3
    <3> QED
      BY <3>1, <3>2, <3>3, SeqEqual
  <2>5. textOf[node + 1] = SubSeq(text, 1, pos)
    <3>1. first \in InGroups
      BY DEF InGroups
    <3>2. textOf[node + 1] = Read(level, keys[first].text, pos)
      BY <1>1, <3>1 DEF PlacedInv, OpenedOK
    <3> QED
      BY <1>2, <1>3, <3>2 DEF Read, text
  <2>6. k \in Starting(keyset, textOf[node + 1])
    <3>1. SubSeq(text, 1, pos) \in Seq(Byte) /\ Len(SubSeq(text, 1, pos)) = pos
          /\ pos <= Len(own)
      BY <1>2, <1>4, <2>1, <2>2
    <3> QED
      BY <2>1, <2>4, <2>5, <3>1, StartingIs DEF own
  <2>7. pos < Len(own) /\ own[pos + 1] = b
    <3>1. pos < Len(own) /\ pos + 1 \in 1 .. end
      BY <1>2, <2>1, <2>2
    <3>2. text[pos + 1] = b
      BY <1>1, <1>2, <1>3 DEF PlacedInv, OpenedOK, text
    <3> QED
      BY <2>3, <3>1, <3>2
  <2> QED
    BY <2>6, <2>7 DEF SiblingsInv, RangesOK, own
<1> QED
  BY <1>5, <1>7, <1>8

\* AddChild: the group that comes first becomes the next child; it waits for its
\* node, and what is left comes behind it.
LEMMA SiblingsAddChild ==
  Inv /\ PlacedInv /\ NamedInv /\ SpelledInv /\ AddChild /\ SiblingsInv => SiblingsInv'
<1> SUFFICES ASSUME Inv, PlacedInv, NamedInv, SpelledInv, AddChild, SiblingsInv
             PROVE  SiblingsInv'
  OBVIOUS
<1>1. /\ phase = "children" /\ phase' = "children" /\ parentOf' = Append(parentOf, node)
      /\ UNCHANGED <<keyset, setting, level, keys, node, pos, rest, stack, trie>>
  BY DEF AddChild, inputVars, linkVars
<1>2. Building /\ Building' /\ Opened /\ Opened' /\ ~Linking /\ ~Linking'
  BY <1>1 DEF Building, Opened, Linking
<1> DEFINE Takes(b, first, end) ==
             /\ pos < end /\ end <= Len(keys[first].text)
             /\ Shared(groups[b].keys, end)
             /\ queue' = Append(queue, [keys |-> groups[b].keys, pos |-> end])
             /\ textOf' = Append(textOf, Segment(first, 0, end))
             /\ linkFlags' \in {Append(linkFlags, FALSE), Append(linkFlags, TRUE)}
             /\ groups' = [c \in DOMAIN groups \ {b} |-> groups[c]]
             /\ \A c \in DOMAIN groups \ {b} : Precedes(b, c)
<1>3. \E b \in DOMAIN groups : \E first \in groups[b].keys : \E end \in Nat :
        Takes(b, first, end)
  BY ChildTaken
<1> HIDE DEF Takes
<1>4. PICK b \in DOMAIN groups : \E first \in groups[b].keys : \E end \in Nat :
        Takes(b, first, end)
  BY <1>3
<1>5. PICK first \in groups[b].keys : \E end \in Nat : Takes(b, first, end)
  BY <1>4
<1>6. PICK end \in Nat : Takes(b, first, end)
  BY <1>5
<1> DEFINE group == groups[b].keys
           range == [keys |-> group, pos |-> end]
           text == Segment(first, 0, end)
           len == Len(linkFlags)
<1>7. /\ pos < end /\ end <= Len(keys[first].text) /\ Shared(group, end)
      /\ textOf' = Append(textOf, text)
      /\ DOMAIN groups' = DOMAIN groups \ {b}
      /\ \A c \in DOMAIN groups' : groups'[c] = groups[c] /\ Precedes(b, c)
  BY <1>6 DEF Takes
<1>8. /\ len \in Nat /\ Len(queue) \in Nat /\ Len(queue) <= len
      /\ node \in Nat /\ node < len /\ KeysOK /\ queue \in Seq(RangeType)
  BY <1>2, OpenedNumbers
<1>9. Len(linkFlags') = len + 1
  <2>1. linkFlags \in Seq(BOOLEAN)
    BY DEF Inv, CurrentOK, BitsOK
  <2>2. \A x \in BOOLEAN : Len(Append(linkFlags, x)) = Len(linkFlags) + 1
    BY <2>1, AppendProperties
  <2> QED
    BY <1>6, <2>2 DEF Takes
<1>10. /\ Len(queue') = Len(queue) + 1 /\ DOMAIN queue' = 1 .. Len(queue) + 1
       /\ DOMAIN queue = 1 .. Len(queue)
       /\ \A i \in DOMAIN queue : queue'[i] = queue[i]
       /\ queue'[Len(queue) + 1].keys = group
  <2>1. range \in RangeType /\ range.keys = group
    BY <1>2 DEF RangeType, Inv, GroupsOK
  <2>2. queue' = Append(queue, range)
    BY <1>6 DEF Takes
  <2> HIDE DEF range
  <2> QED
    BY <1>8, <2>1, <2>2, AppendProperties, LenProperties
<1>11. /\ parentOf \in Seq(Nat) /\ Len(parentOf) \in Nat /\ Len(parentOf) + 1 = len
       /\ textOf \in Seq(Seq(Byte)) /\ Len(textOf) = Len(parentOf) + 1
       /\ \A n \in DOMAIN parentOf : parentOf[n] \in 0 .. n - 1
  BY <1>2, LenProperties
     DEF Inv, CurrentOK, BitsOK, ShapeOK, SpelledInv, CurrentSpelled, Spelled
<1>12. text \in Seq(Byte) /\ first \in DOMAIN keys /\ b \in Byte /\ group \subseteq DOMAIN keys
  <2>1. first \in DOMAIN keys /\ b \in Byte /\ group \subseteq DOMAIN keys
    BY <1>2 DEF Inv, GroupsOK
  <2> QED
    BY <1>7, <1>8, <2>1, SegmentType
<1>13. Grown(parentOf, textOf, node, text, parentOf', textOf')
  BY <1>1, <1>7, <1>8, <1>11, <1>12, NodesStay
<1>14. /\ \A i \in 1 .. len : textOf'[i] = textOf[i]
       /\ textOf'[len + 1] = text
  BY <1>7, <1>11, <1>12, AppendProperties
<1>15. /\ InGroups' \subseteq InGroups /\ group \subseteq InGroups
       /\ group \cap InGroups' = {}
  <2>1. InGroups' \subseteq InGroups /\ group \subseteq InGroups
    BY <1>7 DEF InGroups
  <2>2. \A c \in DOMAIN groups' : group \cap groups'[c].keys = {}
    BY <1>2, <1>7 DEF PlacedInv, OpenedOK
  <2> QED
    BY <2>1, <2>2 DEF InGroups
<1>16. level = 1 => /\ LabelIn(parentOf', textOf', Len(parentOf) + 1) = b
                    /\ Starting(keyset, text) = group
  <2>1. level = 1 => LabelIn(parentOf', textOf', Len(parentOf) + 1) = b
    BY <1>1, <1>7, NewLabel
  <2>2. level = 1 => Starting(keyset, text) = group
    BY <1>1, <1>7, ChildStarts
  <2> QED
    BY <2>1, <2>2
<1> HIDE DEF group, range, text
<1>17. OnceOK'
  <2>1. /\ \A i, j \in DOMAIN queue : i # j => queue[i].keys \cap queue[j].keys = {}
        /\ \A i \in DOMAIN queue : queue[i].keys \cap (rest \cup InGroups) = {}
        /\ rest \cap InGroups = {}
    BY <1>2 DEF SiblingsInv, OnceOK
  <2>2. rest = {}
    BY <1>1, <1>2 DEF PlacedInv, OpenedOK
  <2>3. \A i \in DOMAIN queue' : i \in DOMAIN queue \/ i = Len(queue) + 1
    BY <1>8, <1>10
  <2>4. ASSUME NEW i \in DOMAIN queue', NEW j \in DOMAIN queue', i # j
        PROVE  queue'[i].keys \cap queue'[j].keys = {}
    <3>1. CASE i \in DOMAIN queue /\ j \in DOMAIN queue
      BY <1>10, <2>1, <2>4, <3>1
    <3>2. CASE i = Len(queue) + 1 /\ j \in DOMAIN queue
      BY <1>10, <1>15, <2>1, <3>2
    <3>3. CASE i \in DOMAIN queue /\ j = Len(queue) + 1
      BY <1>10, <1>15, <2>1, <3>3
    <3> QED
      BY <2>3, <2>4, <3>1, <3>2, <3>3
  <2>5. ASSUME NEW i \in DOMAIN queue'
        PROVE  queue'[i].keys \cap InGroups' = {}
    <3>1. CASE i \in DOMAIN queue
      BY <1>10, <1>15, <2>1, <3>1
    <3>2. CASE i = Len(queue) + 1
      BY <1>10, <1>15, <3>2
    <3> QED
      BY <2>3, <3>1, <3>2
  <2> QED
    BY <1>1, <2>2, <2>4, <2>5 DEF OnceOK
<1>18. WordsOK'
  <2>1. level = 1 => /\ \A i \in DOMAIN queue : Unspent(queue[i].keys)
                     /\ Unspent(rest \cup InGroups)
    BY <1>2 DEF SiblingsInv, WordsOK
  <2>2. level = 1 => \A i \in DOMAIN queue' : Unspent(queue'[i].keys)
    <3>1. level = 1 => Unspent(group)
      BY <1>15, <2>1 DEF Unspent
    <3>2. \A i \in DOMAIN queue' : i \in DOMAIN queue \/ i = Len(queue) + 1
      BY <1>8, <1>10
    <3> QED
      BY <1>10, <2>1, <3>1, <3>2
  <2>3. level = 1 => Unspent(rest' \cup InGroups')
    BY <1>1, <1>15, <2>1 DEF Unspent
  <2> QED
    BY <1>1, <2>2, <2>3 DEF WordsOK, Unspent
<1>19. RangesOK'
  <2> SUFFICES ASSUME level = 1 PROVE RangesOK'
    BY <1>1 DEF RangesOK
  <2>1. ASSUME NEW i \in DOMAIN queue'
        PROVE  Starting(keyset, textOf'[len + 1 - (Len(queue) + 1) + i]) \subseteq queue'[i].keys
    <3>1. CASE i = Len(queue) + 1
      <4>1. len + 1 - (Len(queue) + 1) + i = len + 1
        BY <1>8, <3>1
      <4> QED
        BY <1>10, <1>14, <1>16, <3>1, <4>1
    <3>2. CASE i \in DOMAIN queue
      <4>1. len + 1 - (Len(queue) + 1) + i = len - Len(queue) + i
            /\ len - Len(queue) + i \in 1 .. len
        BY <1>8, <1>10, <3>2
      <4>2. Starting(keyset, textOf[len - Len(queue) + i]) \subseteq queue[i].keys
        BY <1>2, <3>2 DEF SiblingsInv, RangesOK
      <4> QED
        BY <1>10, <1>14, <3>2, <4>1, <4>2
    <3> QED
      BY <1>8, <1>10, <3>1, <3>2
  <2>2. textOf'[node + 1] = textOf[node + 1]
    <3>1. node + 1 \in 1 .. len
      BY <1>8
    <3> QED
      BY <1>14, <3>1
  <2>3. \A c \in DOMAIN groups : \A k \in Starting(keyset, textOf[node + 1]) :
          pos < Len(keyset[k].text) /\ keyset[k].text[pos + 1] = c => k \in groups[c].keys
    BY <1>1 DEF SiblingsInv, RangesOK
  <2> HIDE DEF len
  <2>4. \A c \in DOMAIN groups' : \A k \in Starting(keyset, textOf'[node + 1]) :
          pos < Len(keyset[k].text) /\ keyset[k].text[pos + 1] = c => k \in groups'[c].keys
    BY <1>7, <2>2, <2>3
  <2>5. ASSUME NEW i \in DOMAIN queue'
        PROVE  Starting(keyset, textOf'[Len(linkFlags') - Len(queue') + i]) \subseteq queue'[i].keys
    <3>1. Len(linkFlags') = len + 1 /\ Len(queue') = Len(queue) + 1
      BY <1>9, <1>10
    <3>2. Len(linkFlags') - Len(queue') + i = len + 1 - (Len(queue) + 1) + i
      BY <1>8, <1>10, <3>1
    <3> QED
      BY <2>1, <3>2
  <2>6. UNCHANGED <<keyset, level, node, pos>> /\ phase' = "children" /\ phase' # "group"
    BY <1>1
  <2> QED
    BY <2>4, <2>5, <2>6 DEF RangesOK
<1>20. WeightsOK'
  BY <1>1, <1>2, <1>7 DEF SiblingsInv, WeightsOK
<1>21. ParentsOK'
  <2>1. \A m \in DOMAIN parentOf : parentOf[m] <= node
    BY <1>1 DEF SiblingsInv, ParentsOK
  <2>2. node <= node
    BY <1>8
  <2> QED
    BY <1>1, <1>13, <2>1, <2>2 DEF ParentsOK, Grown
<1>22. OrderOK'
  <2>1. stack # <<>> => InOrder(setting.nodeOrder, keyset, stack[1].parentOf, stack[1].textOf)
    BY DEF SiblingsInv, OrderOK
  <2>2. ASSUME level = 1
        PROVE  /\ InOrder(setting.nodeOrder, keyset, parentOf', textOf')
               /\ \A m \in DOMAIN parentOf' : parentOf'[m] = node =>
                    \A c \in DOMAIN groups' :
                      Before(setting.nodeOrder, Weighs(keyset, textOf'[m + 1]),
                             LabelIn(parentOf', textOf', m), groups'[c].weight, c)
    <3> DEFINE order == setting.nodeOrder
    <3>1. /\ InOrder(order, keyset, parentOf, textOf)
          /\ \A m \in DOMAIN parentOf : parentOf[m] = node =>
               \A c \in DOMAIN groups :
                 Before(order, Weighs(keyset, textOf[m + 1]),
                        LabelIn(parentOf, textOf, m), groups[c].weight, c)
      BY <1>1, <1>2, <2>2 DEF SiblingsInv, OrderOK
    <3>2. Weighs(keyset, text) = groups[b].weight
      BY <1>2, <1>16, <2>2 DEF SiblingsInv, WeightsOK, Weighs, group
    <3>3. LabelIn(parentOf', textOf', Len(parentOf) + 1) = b
      BY <1>16, <2>2
    <3> HIDE DEF order
    <3>4. InOrder(order, keyset, parentOf', textOf')
      <4>1. \A m \in DOMAIN parentOf : parentOf[m] = node =>
              Before(order, Weighs(keyset, textOf[m + 1]), LabelIn(parentOf, textOf, m),
                     Weighs(keyset, text), LabelIn(parentOf', textOf', Len(parentOf) + 1))
        BY <3>1, <3>2, <3>3
      <4> QED
        BY <1>11, <1>13, <3>1, <4>1, InOrderMore
    <3>5. ASSUME NEW c \in DOMAIN groups'
          PROVE  Before(order, groups[b].weight, b, groups'[c].weight, c)
      <4>1. c \in DOMAIN groups /\ groups'[c] = groups[c] /\ Precedes(b, c)
        BY <1>7
      <4>2. groups[b].weight \in Nat /\ groups[c].weight \in Nat
        BY <1>2, <4>1 DEF Inv, GroupsOK
      <4> QED
        BY <4>1, <4>2 DEF Before, Precedes, order
    <3>6. ASSUME NEW m \in DOMAIN parentOf', parentOf'[m] = node, NEW c \in DOMAIN groups'
          PROVE  Before(order, Weighs(keyset, textOf'[m + 1]),
                        LabelIn(parentOf', textOf', m), groups'[c].weight, c)
      <4>1. CASE m = Len(parentOf) + 1
        <5>1. textOf'[m + 1] = text
          BY <1>13, <4>1 DEF Grown
        <5> QED
          BY <3>2, <3>3, <3>5, <4>1, <5>1
      <4>2. CASE m \in DOMAIN parentOf
        <5>1. /\ parentOf[m] = node /\ textOf'[m + 1] = textOf[m + 1]
              /\ LabelIn(parentOf', textOf', m) = LabelIn(parentOf, textOf, m)
          BY <1>13, <3>6, <4>2 DEF Grown
        <5>2. c \in DOMAIN groups /\ groups'[c] = groups[c]
          BY <1>7
        <5> QED
          BY <3>1, <4>2, <5>1, <5>2
      <4> QED
        BY <1>13, <4>1, <4>2 DEF Grown
    <3> QED
      BY <3>4, <3>6 DEF order
  <2> QED
    BY <1>1, <1>2, <2>1, <2>2 DEF OrderOK
<1> QED
  BY <1>17, <1>18, <1>19, <1>20, <1>21, <1>22 DEF SiblingsInv

\* A trie that is closed keeps its order on the stack.
LEMMA SiblingsCloseTrie ==
  ASSUME Inv, NamedInv, SiblingsInv, CloseTrie, phase' \in {"begin", "tail", "link"},
         phase' = "begin" => level' = level + 1,
         UNCHANGED <<keyset, setting>>
  PROVE  SiblingsInv'
<1> DEFINE top == stack'[Len(stack) + 1]
<1>1. /\ phase = "pop" /\ Building /\ ~Building'
      /\ Len(stack) \in Nat /\ DOMAIN stack = 1 .. Len(stack)
      /\ stack' # <<>>
      /\ \A i \in 1 .. Len(stack) : stack'[i] = stack[i]
      /\ top.parentOf = parentOf /\ top.textOf = textOf
  BY Pushed DEF Building
<1> HIDE DEF top
<1>2. ~Opened' /\ phase' \notin {"pop", "group", "children"}
  BY DEF Opened
<1>3. (level = Len(stack) + 1 /\ level' # 1) \/ phase' # "begin"
  BY <1>1 DEF NamedInv, LevelsOK, Inv, ControlOK
<1>4. level = Len(stack) + 1
  BY <1>1 DEF NamedInv, LevelsOK
<1>5. InOrder(setting.nodeOrder, keyset, stack'[1].parentOf, stack'[1].textOf)
  <2>1. CASE Len(stack) = 0
    <3>1. stack'[1] = top /\ level = 1
      BY <1>4, <2>1 DEF top
    <3> QED
      BY <1>1, <3>1 DEF SiblingsInv, OrderOK
  <2>2. CASE Len(stack) # 0
    <3>1. stack'[1] = stack[1] /\ stack # <<>>
      BY <1>1, <2>2
    <3> QED
      BY <3>1 DEF SiblingsInv, OrderOK
  <2> QED
    BY <2>1, <2>2
<1>6. OnceOK' /\ WordsOK' /\ RangesOK' /\ WeightsOK' /\ ParentsOK'
  BY <1>1, <1>2, <1>3 DEF OnceOK, WordsOK, RangesOK, WeightsOK, ParentsOK
<1>7. OrderOK'
  BY <1>1, <1>2, <1>5 DEF OrderOK
<1> QED
  BY <1>6, <1>7 DEF SiblingsInv

\* A trie keeps its order when its links are stored.
LEMMA SiblingsLinkTrie == Inv /\ LinkTrie /\ SiblingsInv => SiblingsInv'
<1> SUFFICES ASSUME Inv, LinkTrie, SiblingsInv PROVE SiblingsInv'
  OBVIOUS
<1> DEFINE t == stack[Len(stack)]
<1>1. /\ phase' = "link" /\ ~Building'
      /\ Len(stack) \in Nat \ {0} /\ DOMAIN stack = 1 .. Len(stack)
      /\ Len(stack') = Len(stack) - 1
      /\ \A i \in 1 .. Len(stack) - 1 : stack'[i] = stack[i]
      /\ trie'[1] = Linked(t)
  BY Popped, Zenon
<1>2. UNCHANGED <<keyset, setting>>
  BY DEF LinkTrie, inputVars
<1>3. Linked(t).textOf = t.textOf /\ Linked(t).parentOf = t.parentOf
  BY DEF Linked
<1> HIDE DEF t
<1>4. ~Opened' /\ phase' \notin {"begin", "pop", "group", "children"}
  BY <1>1 DEF Opened
<1>5. stack # <<>> /\ InOrder(setting.nodeOrder, keyset, stack[1].parentOf, stack[1].textOf)
  <2>1. stack # <<>>
    BY <1>1
  <2> QED
    BY <2>1 DEF SiblingsInv, OrderOK
<1>6. OnceOK' /\ WordsOK' /\ RangesOK' /\ WeightsOK' /\ ParentsOK'
  BY <1>1, <1>4 DEF OnceOK, WordsOK, RangesOK, WeightsOK, ParentsOK
<1>7. CASE Len(stack) = 1
  <2>1. t = stack[1]
    BY <1>7 DEF t
  <2>2. stack' = <<>>
    <3>1. stack' = SubSeq(stack, 1, Len(stack) - 1)
      BY DEF LinkTrie
    <3>2. stack' = SubSeq(stack, 1, 0)
      BY <1>7, <3>1
    <3> QED
      BY <3>2
  <2>3. OrderOK'
    BY <1>1, <1>2, <1>3, <1>4, <1>5, <2>1, <2>2 DEF OrderOK
  <2> QED
    BY <1>6, <2>3 DEF SiblingsInv
<1>8. CASE Len(stack) # 1
  <2>1. stack' # <<>> /\ stack'[1] = stack[1]
    BY <1>1, <1>8
  <2>2. OrderOK'
    BY <1>1, <1>2, <1>4, <1>5, <2>1 DEF OrderOK
  <2> QED
    BY <1>6, <2>2 DEF SiblingsInv
<1> QED
  BY <1>7, <1>8, Zenon

\* The siblings are in order, and stay so, in every step.
LEMMA SiblingsStep ==
  Inv /\ PlacedInv /\ NamedInv /\ SpelledInv /\ [Next]_vars /\ SiblingsInv => SiblingsInv'
<1> SUFFICES ASSUME Inv, PlacedInv, NamedInv, SpelledInv, [Next]_vars, SiblingsInv
             PROVE  SiblingsInv'
  OBVIOUS
<1>1. CASE BeginTrie \/ OpenNode \/ GroupKey \/ Grouped \/ AddChild \/ CloseNode
  BY <1>1, SiblingsBegin, SiblingsOpen, SiblingsGroupKey, SiblingsGrouped,
     SiblingsAddChild, SiblingsClose
<1>2. CASE NoNextLevel \/ NextTrie \/ NextTail
  <2>1. /\ CloseTrie /\ phase' \in {"begin", "tail", "link"}
        /\ phase' = "begin" => level' = level + 1
        /\ UNCHANGED <<keyset, setting>>
    BY <1>2 DEF NoNextLevel, NextTrie, NextTail, CloseTrie, inputVars
  <2> QED
    BY <2>1, SiblingsCloseTrie
<1>3. CASE LinkTrie
  BY <1>3, SiblingsLinkTrie
<1>4. CASE AddEntry \/ TailDone \/ NumberKeys
  <2>1. /\ UNCHANGED <<keyset, setting, stack, trie>>
        /\ phase' \in {"tail", "link", "done"}
        /\ phase = "tail" \/ (phase = "link" /\ phase' = "done")
    <3>1. CASE AddEntry
      BY <3>1 DEF AddEntry, inputVars
    <3>2. CASE TailDone
      BY <3>2 DEF TailDone, inputVars, linkVars
    <3>3. CASE NumberKeys
      BY <3>3 DEF NumberKeys, inputVars
    <3> QED
      BY <1>4, <3>1, <3>2, <3>3
  <2>2. /\ ~Building' /\ ~Opened'
        /\ phase' \notin {"begin", "pop", "group", "children"}
    BY <2>1 DEF Building, Opened
  <2>3. Linking' /\ stack = <<>> => Linking
    BY <2>1 DEF Linking, NamedInv, LevelsOK
  <2>4. OnceOK' /\ WordsOK' /\ RangesOK' /\ WeightsOK' /\ ParentsOK'
    BY <2>2 DEF OnceOK, WordsOK, RangesOK, WeightsOK, ParentsOK
  <2>5. OrderOK'
    BY <2>1, <2>2, <2>3 DEF SiblingsInv, OrderOK
  <2> QED
    BY <2>4, <2>5 DEF SiblingsInv
<1>5. CASE UNCHANGED vars
  <2>1. UNCHANGED <<keyset, setting, phase, level, keys, queue, node, pos, rest, groups,
                    linkFlags, textOf, parentOf, stack, trie>>
    BY <1>5 DEF vars, inputVars, rangeVars, bitVars, linkVars
  <2>2. /\ InGroups' = InGroups
        /\ (Opened' <=> Opened) /\ (Building' <=> Building) /\ (Linking' <=> Linking)
    BY <2>1 DEF InGroups, Opened, Building, Linking
  <2>3. OnceOK' /\ WordsOK' /\ RangesOK'
    BY <2>1, <2>2 DEF SiblingsInv, OnceOK, WordsOK, RangesOK, Unspent
  <2>4. WeightsOK' /\ ParentsOK' /\ OrderOK'
    BY <2>1, <2>2 DEF SiblingsInv, WeightsOK, ParentsOK, OrderOK
  <2> QED
    BY <2>3, <2>4 DEF SiblingsInv
<1> QED
  BY <1>1, <1>2, <1>3, <1>4, <1>5 DEF Next

LEMMA SiblingsAlways == Spec => []SiblingsInv
<1>1. Init => SiblingsInv
  <2> SUFFICES ASSUME Init PROVE SiblingsInv
    OBVIOUS
  <2>1. /\ phase = "begin" /\ stack = <<>>
        /\ keys = [k \in DOMAIN keyset |->
                    [text |-> keyset[k].text, word |-> keyset[k].weight]]
    BY DEF Init
  <2>2. ~Building /\ ~Opened /\ ~Linking
    BY <2>1 DEF Building, Opened, Linking
  <2>3. Unspent(DOMAIN keys)
    BY <2>1 DEF Unspent
  <2> QED
    BY <2>1, <2>2, <2>3
       DEF SiblingsInv, OnceOK, WordsOK, RangesOK, WeightsOK, ParentsOK, OrderOK
<1> QED
  BY <1>1, Invariance, PlacedAlways, NamedAlways, SpelledAlways, SiblingsStep, PTL DEF Spec

\* The siblings of the first trie come as the order of nodes asks (the sort of
\* w_ranges in build_current_trie()): the heaviest first, by the weights of all
\* keys of the keyset below them, though the words that held those weights take
\* terminals on the way; and by label where weights do not count or are equal.
THEOREM SiblingsInOrderThm == Spec => []SiblingsInOrder
<1>1. Inv /\ NumberedInv /\ NamedInv /\ SpelledInv /\ SiblingsInv => SiblingsInOrder
  <2> DEFINE t == trie[1]
             Weight(n) == Weighs(keyset, PathTexts[1, n])
             LabelOf(n) == PathTexts[1, n][Len(PathTexts[1, t.parentOf[n]]) + 1]
             Ordered(m, n) ==
               IF setting.nodeOrder = "weight" /\ Weight(m) # Weight(n)
               THEN Weight(m) > Weight(n) ELSE LabelOf(m) < LabelOf(n)
  <2>1. SiblingsInOrder <=>
          (phase = "done" =>
             \A m, n \in DOMAIN t.parentOf :
               t.parentOf[m] = t.parentOf[n] /\ m < n => Ordered(m, n))
    BY Zenon DEF SiblingsInOrder
  <2> HIDE DEF Weight, LabelOf, Ordered
  <2> SUFFICES ASSUME Inv, NumberedInv, NamedInv, SpelledInv, SiblingsInv, phase = "done",
                      NEW m \in DOMAIN t.parentOf, NEW n \in DOMAIN t.parentOf,
                      t.parentOf[m] = t.parentOf[n], m < n
               PROVE  Ordered(m, n)
    BY <2>1
  <2>2. stack = <<>> /\ Linking /\ 1 \in DOMAIN trie
    <3>1. stack = <<>> /\ Linking /\ Len(stack) = 0
      BY DEF Linking, NamedInv, LevelsOK
    <3>2. Len(stack) + Len(trie) >= 1 /\ Len(trie) \in Nat /\ DOMAIN trie = 1 .. Len(trie)
      BY <3>1 DEF NamedInv, LevelsOK, Inv, TrieOK
    <3> QED
      BY <3>1, <3>2
  <2>3. InOrder(setting.nodeOrder, keyset, t.parentOf, t.textOf)
    BY <2>2 DEF SiblingsInv, OrderOK
  <2>4. Before(setting.nodeOrder,
               Weighs(keyset, t.textOf[m + 1]), LabelIn(t.parentOf, t.textOf, m),
               Weighs(keyset, t.textOf[n + 1]), LabelIn(t.parentOf, t.textOf, n))
    BY <2>3 DEF InOrder
  <2>5. ASSUME NEW c \in DOMAIN t.parentOf
        PROVE  c \in 0 .. Len(t.bases) - 1 /\ t.parentOf[c] \in 0 .. Len(t.bases) - 1
    <3>1. /\ t.parentOf \in Seq(Nat) /\ Len(t.bases) = Len(t.parentOf) + 1
      BY <2>2 DEF Inv, TrieOK, WellFormed, BitsOK
    <3>2. DOMAIN t.parentOf = 1 .. Len(t.parentOf) /\ Len(t.parentOf) \in Nat
      BY <3>1, LenProperties
    <3>3. t.parentOf[c] \in 0 .. c - 1
      BY <2>2 DEF SpelledInv, TriesSpelled, Spelled
    <3> DEFINE up == t.parentOf[c]
               nodes == Len(t.bases)
    <3>4. c \in 1 .. Len(t.parentOf) /\ nodes = Len(t.parentOf) + 1 /\ up \in 0 .. c - 1
      BY <3>1, <3>2, <3>3
    <3> HIDE DEF t, up, nodes
    <3>5. c \in 0 .. nodes - 1 /\ up \in 0 .. nodes - 1
      BY <3>2, <3>4
    <3> QED
      BY <3>5 DEF up, nodes
  <2>6. \A c \in 0 .. Len(t.bases) - 1 : PathTexts[<<1, c>>] = t.textOf[c + 1]
    <3>1. PathTexts = GivenTexts
      BY PathsAreGiven
    <3> TAKE c \in 0 .. Len(t.bases) - 1
    <3>2. <<1, c>> \in Places
      BY <2>2, PlacesAre
    <3> QED
      BY <3>1, <3>2 DEF GivenTexts
  <2>7. ASSUME NEW c \in DOMAIN t.parentOf
        PROVE  /\ Weight(c) = Weighs(keyset, t.textOf[c + 1])
               /\ LabelOf(c) = LabelIn(t.parentOf, t.textOf, c)
    <3>1. /\ PathTexts[<<1, c>>] = t.textOf[c + 1]
          /\ PathTexts[<<1, t.parentOf[c]>>] = t.textOf[t.parentOf[c] + 1]
      BY <2>5, <2>6
    <3>2. /\ Weight(c) = Weighs(keyset, PathTexts[<<1, c>>])
          /\ LabelOf(c) = PathTexts[<<1, c>>][Len(PathTexts[<<1, t.parentOf[c]>>]) + 1]
      BY Zenon DEF Weight, LabelOf
    <3> QED
      BY <3>1, <3>2 DEF LabelIn
  <2> QED
    BY <2>4, <2>7 DEF Ordered, Before
<1> QED
  BY <1>1, Invariance, NumberedAlways, NamedAlways, SpelledAlways, SiblingsAlways, PTL

-----------------------------------------------------------------------------
(* What else the searches need to know of a finished trie.                 *)

\* Every node adds something to the text of the node above it.
Longer(parents, texts) ==
  \A n \in DOMAIN parents : Len(texts[parents[n] + 1]) < Len(texts[n + 1])

\* Siblings of the first trie start with different bytes.
LabelsApart(parents, texts) ==
  \A m, n \in DOMAIN parents :
    /\ parents[m] = parents[n]
    /\ LabelIn(parents, texts, m) = LabelIn(parents, texts, n)
    => m = n

\* num_l1_nodes_ is the number of the last child of the root.
RootFirst(parents, numFirst) ==
  /\ numFirst <= Len(parents)
  /\ \A n \in DOMAIN parents : parents[n] = 0 <=> n <= numFirst

\* The slots of a cache; there is always one.
Slots(S) == \E size \in Nat \ {0} : S = 0 .. size - 1

Shaped(l, parents, texts, numFirst, slots) ==
  /\ Longer(parents, texts)
  /\ l = 1 => LabelsApart(parents, texts)
  /\ RootFirst(parents, numFirst)
  /\ Slots(DOMAIN slots)

\* So far the root has all children there are, or it has been opened and its
\* groups are counted.
RootOK ==
  /\ phase = "pop" /\ Len(linkFlags) = Len(queue) => parentOf = <<>>
  /\ phase = "group" /\ node = 0 => parentOf = <<>>
  /\ phase = "children" /\ node = 0 =>
       /\ \A m \in DOMAIN parentOf : parentOf[m] = 0
       /\ numL1 = Len(parentOf) + Cardinality(DOMAIN groups)
  /\ phase = "pop" /\ Len(linkFlags) # Len(queue) => RootFirst(parentOf, numL1)
  /\ Opened /\ node # 0 => RootFirst(parentOf, numL1)

ForksOK ==
  /\ Building => Longer(parentOf, textOf) /\ Slots(DOMAIN cache)
  /\ Building /\ level = 1 => LabelsApart(parentOf, textOf)
  /\ level = 1 /\ phase = "children" =>
       \A m \in DOMAIN parentOf : parentOf[m] = node =>
         LabelIn(parentOf, textOf, m) \notin DOMAIN groups

ShapedInv ==
  /\ RootOK /\ ForksOK
  /\ \A i \in DOMAIN stack :
       Shaped(i, stack[i].parentOf, stack[i].textOf, stack[i].numL1, stack[i].cache)
  /\ \A j \in DOMAIN trie :
       Shaped(Len(stack) + j, trie[j].parentOf, trie[j].textOf, trie[j].numL1,
              trie[j].cache)

\* A prefix of the sequence of sizes, to show that there is one.
DoublesUpto(least, n, f) ==
  /\ f \in [0 .. n -> Nat]
  /\ f[0] = least
  /\ \A i \in 0 .. n - 1 : f[i + 1] = 2 * f[i]

LEMMA DoubledIs ==
  ASSUME NEW least \in Nat \ {0}
  PROVE  \A i \in Nat : Doubled(least)[i] \in Nat /\ Doubled(least)[i] > i
<1> DEFINE Sizes(f) == [i \in Nat |-> IF i = 0 THEN least ELSE 2 * f[i - 1]]
<1>1. \A n \in Nat : \E f : DoublesUpto(least, n, f)
  <2> DEFINE S == {n \in Nat : \E f : DoublesUpto(least, n, f)}
  <2>1. 0 \in S
    <3>1. DoublesUpto(least, 0, [i \in 0 .. 0 |-> least])
      BY DEF DoublesUpto
    <3> QED
      BY <3>1
  <2>2. ASSUME NEW n \in Nat, n \in S PROVE n + 1 \in S
    <3>1. PICK f : DoublesUpto(least, n, f)
      BY <2>2
    <3> DEFINE g == [i \in 0 .. n + 1 |-> IF i = n + 1 THEN 2 * f[n] ELSE f[i]]
    <3>2. \A i \in 0 .. n : g[i] = f[i] /\ f[i] \in Nat
      BY <3>1 DEF DoublesUpto
    <3>3. g[n + 1] = 2 * f[n] /\ g \in [0 .. n + 1 -> Nat]
      <4>1. f[n] \in Nat /\ 2 * f[n] \in Nat /\ n + 1 \in 0 .. n + 1
        <5>1. f[n] \in Nat
          BY <3>1 DEF DoublesUpto
        <5> HIDE DEF g
        <5> QED
          BY <5>1
      <4>2. g[n + 1] = 2 * f[n] /\ \A i \in 0 .. n : g[i] \in Nat
        BY <3>2, <4>1
      <4>3. \A i \in 0 .. n + 1 : g[i] \in Nat
        <5>1. \A i \in 0 .. n + 1 : i \in 0 .. n \/ i = n + 1
          OBVIOUS
        <5> QED
          BY ONLY <4>1, <4>2, <5>1
      <4>4. g = [i \in 0 .. n + 1 |-> g[i]]
        OBVIOUS
      <4> HIDE DEF g
      <4> QED
        BY <4>2, <4>3, <4>4
    <3> HIDE DEF g
    <3>4. \A i \in 0 .. n + 1 - 1 : g[i + 1] = 2 * g[i]
      <4> SUFFICES ASSUME NEW i \in 0 .. n + 1 - 1 PROVE g[i + 1] = 2 * g[i]
        OBVIOUS
      <4>1. CASE i = n
        BY <3>2, <3>3, <4>1
      <4>2. CASE i # n
        <5>1. i \in 0 .. n - 1 /\ i + 1 \in 0 .. n
          BY <4>2
        <5> QED
          BY <3>1, <3>2, <5>1 DEF DoublesUpto
      <4> QED
        BY <4>1, <4>2
    <3>5. DoublesUpto(least, n + 1, g)
      BY <3>1, <3>2, <3>3, <3>4 DEF DoublesUpto
    <3> QED
      BY <3>5
  <2> HIDE DEF S
  <2>3. \A n \in Nat : n \in S => n + 1 \in S
    BY <2>2
  <2>4. \A n \in Nat : n \in S
    BY <2>1, <2>3, Induction
  <2> QED
    BY <2>4 DEF S
<1> DEFINE G(n) == CHOOSE f : DoublesUpto(least, n, f)
<1>2. \A n \in Nat : DoublesUpto(least, n, G(n))
  BY <1>1
<1> HIDE DEF G
<1>3. \A i \in Nat : \A n \in Nat : i <= n => G(n)[i] = G(i)[i]
  <2> DEFINE S == {i \in Nat : \A n \in Nat : i <= n => G(n)[i] = G(i)[i]}
  <2>1. 0 \in S
    BY <1>2 DEF DoublesUpto
  <2>2. ASSUME NEW i \in Nat, i \in S PROVE i + 1 \in S
    <3> SUFFICES ASSUME NEW n \in Nat, i + 1 <= n PROVE G(n)[i + 1] = G(i + 1)[i + 1]
      OBVIOUS
    <3>1. i \in 0 .. n - 1 /\ i \in 0 .. (i + 1) - 1
      OBVIOUS
    <3>2. G(n)[i + 1] = 2 * G(n)[i] /\ G(i + 1)[i + 1] = 2 * G(i + 1)[i]
      BY <1>2, <3>1 DEF DoublesUpto
    <3>3. G(n)[i] = G(i)[i] /\ G(i + 1)[i] = G(i)[i]
      BY <2>2
    <3> QED
      BY <3>2, <3>3
  <2> HIDE DEF S
  <2>3. \A n \in Nat : n \in S => n + 1 \in S
    BY <2>2
  <2>4. \A n \in Nat : n \in S
    BY <2>1, <2>3, Induction
  <2> QED
    BY <2>4 DEF S
<1> DEFINE F == [i \in Nat |-> G(i)[i]]
<1>4. F = Sizes(F)
  <2> SUFFICES ASSUME NEW i \in Nat
               PROVE  F[i] = IF i = 0 THEN least ELSE 2 * F[i - 1]
    OBVIOUS
  <2>1. CASE i = 0
    BY <1>2, <2>1 DEF DoublesUpto
  <2>2. CASE i # 0
    <3>1. i - 1 \in Nat /\ i - 1 \in 0 .. i - 1 /\ (i - 1) + 1 = i
      BY <2>2
    <3>2. G(i)[i] = 2 * G(i)[i - 1]
      BY <1>2, <3>1 DEF DoublesUpto
    <3>3. G(i)[i - 1] = G(i - 1)[i - 1]
      BY <1>3, <3>1
    <3> QED
      BY <2>2, <3>1, <3>2, <3>3
  <2> QED
    BY <2>1, <2>2
<1>5. Doubled(least) = CHOOSE f : f = Sizes(f)
  BY DEF Doubled
<1> HIDE DEF F
<1>6. Doubled(least) = Sizes(Doubled(least))
  BY <1>4, <1>5
<1> DEFINE D == Doubled(least)
<1>7. /\ D[0] = least
      /\ \A i \in Nat : D[i + 1] = 2 * D[i]
  BY <1>6
<1> HIDE DEF D, Sizes
<1> DEFINE S == {i \in Nat : D[i] \in Nat /\ D[i] > i}
<1>8. 0 \in S
  BY <1>7
<1>9. \A i \in Nat : i \in S => i + 1 \in S
  BY <1>7
<1> HIDE DEF S
<1>10. \A i \in Nat : i \in S
  BY <1>8, <1>9, Induction
<1> QED
  BY <1>10 DEF S, D

LEMMA DivBound ==
  ASSUME NEW a \in Nat, NEW b \in Nat \ {0}
  PROVE  a \div b \in Nat /\ a \div b <= a
OBVIOUS

LEMMA CacheHasSlots ==
  ASSUME NEW l, NEW numKeys \in Nat, NEW cacheLevel \in Nat \ {0}
  PROVE  CacheSize(l, numKeys, cacheLevel) \in Nat \ {0}
<1> DEFINE least == IF l = 1 THEN Base ELSE 1
           wanted == numKeys \div cacheLevel
           sizes == {Doubled(least)[i] : i \in 0 .. numKeys}
           large == {s \in sizes : s >= wanted}
<1>1. least \in Nat \ {0}
  BY BaseAssumption
<1>2. wanted \in Nat /\ wanted <= numKeys
  BY DivBound
<1>3. CacheSize(l, numKeys, cacheLevel)
        = CHOOSE s \in sizes : s >= wanted /\ \A t \in sizes : t >= wanted => s <= t
  BY DEF CacheSize
<1> HIDE DEF least, wanted
<1>4. /\ \A i \in 0 .. numKeys : Doubled(least)[i] \in Nat /\ Doubled(least)[i] > i
      /\ numKeys \in 0 .. numKeys
  BY <1>1, DoubledIs
<1>5. sizes \in SUBSET (Nat \ {0})
  BY <1>4
<1>6. Doubled(least)[numKeys] \in large
  BY <1>2, <1>4
<1> HIDE DEF sizes
<1>7. large \in SUBSET Nat /\ large # {}
  BY <1>5, <1>6
<1>8. PICK s \in large : \A t \in large : s <= t
  BY <1>7, LeastNumber
<1>9. s \in sizes /\ s >= wanted /\ \A t \in sizes : t >= wanted => s <= t
  BY <1>8
<1>10. CacheSize(l, numKeys, cacheLevel) \in sizes
  BY <1>3, <1>9
<1> QED
  BY <1>5, <1>10

\* BeginTrie: a new cache has a slot.
LEMMA SlotsBegin ==
  ASSUME Inv, BeginTrie
  PROVE  Slots(DOMAIN cache')
<1> DEFINE texts == {keys[k].text : k \in DOMAIN keys}
           size == CacheSize(level, Cardinality(texts), setting.cacheLevel)
<1>1. cache' = [s \in 0 .. size - 1 |-> EmptySlot]
  BY DEF BeginTrie
<1>2. Cardinality(texts) \in Nat
  <2>1. keys \in Seq(KeyType)
    BY DEF Inv, KeysOK
  <2>2. IsFiniteSet(DOMAIN keys)
    <3>1. DOMAIN keys = 1 .. Len(keys) /\ Len(keys) \in Nat
      BY <2>1, LenProperties
    <3> QED
      BY <3>1, FS_Interval
  <2>3. IsFiniteSet(texts)
    <3> DEFINE f == [k \in DOMAIN keys |-> keys[k].text]
    <3>1. f \in Surjection(DOMAIN keys, texts)
      BY DEF Surjection
    <3> QED
      BY <2>2, <3>1, FS_Surjection
  <2> QED
    BY <2>3, FS_CardinalityType
<1>3. setting.cacheLevel \in Nat \ {0}
  BY SettingsAssumption DEF Inv, ControlOK
<1> HIDE DEF texts
<1>4. size \in Nat \ {0}
  BY <1>2, <1>3, CacheHasSlots
<1> HIDE DEF size
<1> QED
  BY <1>1, <1>4 DEF Slots

LEMMA ShapedElsewhere ==
  ASSUME ~Building'
  PROVE  RootOK' /\ ForksOK'
<1>1. phase' \notin {"pop", "group", "children"} /\ ~Opened'
  BY DEF Building, Opened
<1> QED
  BY <1>1 DEF RootOK, ForksOK

\* BeginTrie: there is no node but the root, and it waits in the queue.
LEMMA ShapedBegin == Inv /\ BeginTrie => RootOK' /\ ForksOK'
<1> SUFFICES ASSUME Inv, BeginTrie PROVE RootOK' /\ ForksOK'
  OBVIOUS
<1>1. /\ phase' = "pop" /\ parentOf' = <<>> /\ DOMAIN parentOf' = {}
      /\ Len(linkFlags') = 1 /\ Len(queue') = 1
  BY DEF BeginTrie
<1>2. ~Opened'
  BY <1>1 DEF Opened
<1> QED
  BY <1>1, <1>2, SlotsBegin DEF RootOK, ForksOK, Longer, LabelsApart

LEMMA ShapedOpen == Inv /\ OpenNode /\ RootOK /\ ForksOK => RootOK' /\ ForksOK'
<1> SUFFICES ASSUME Inv, OpenNode, RootOK, ForksOK PROVE RootOK' /\ ForksOK'
  OBVIOUS
<1>1. /\ phase = "pop" /\ phase' = "group" /\ node' = Len(linkFlags) - Len(queue)
      /\ UNCHANGED <<level, linkFlags, numL1, parentOf, textOf, cache>>
  BY DEF OpenNode, bitVars, NodeNumber
<1>2. Building /\ Building'
  BY <1>1 DEF Building
<1>3. Len(linkFlags) \in Nat /\ Len(queue) \in Nat
  <2>1. linkFlags \in Seq(BOOLEAN) /\ queue \in Seq(RangeType)
    BY <1>2 DEF Inv, CurrentOK, BitsOK, QueueOK
  <2> QED
    BY <2>1, LenProperties
<1>4. node' = 0 <=> Len(linkFlags) = Len(queue)
  BY <1>1, <1>3
<1>5. RootOK'
  BY <1>1, <1>4 DEF RootOK, Opened
<1>6. ForksOK'
  BY <1>1, <1>2 DEF ForksOK
<1> QED
  BY <1>5, <1>6

LEMMA ShapedGroupKey == GroupKey /\ RootOK /\ ForksOK => RootOK' /\ ForksOK'
<1> SUFFICES ASSUME GroupKey, RootOK, ForksOK PROVE RootOK' /\ ForksOK'
  OBVIOUS
<1>1. /\ phase = "group" /\ phase' = "group"
      /\ UNCHANGED <<level, node, linkFlags, numL1, parentOf, textOf, cache>>
  BY DEF GroupKey, bitVars
<1>2. Building /\ Opened /\ Building' /\ Opened'
  BY <1>1 DEF Building, Opened
<1> QED
  BY <1>1, <1>2 DEF RootOK, ForksOK

\* Grouped: the number of children is kept if the node is the root; a node
\* that has just been opened has none yet.
LEMMA ShapedGrouped ==
  Inv /\ SiblingsInv /\ Grouped /\ RootOK /\ ForksOK => RootOK' /\ ForksOK'
<1> SUFFICES ASSUME Inv, SiblingsInv, Grouped, RootOK, ForksOK PROVE RootOK' /\ ForksOK'
  OBVIOUS
<1>1. /\ phase = "group" /\ phase' = "children"
      /\ numL1' = IF node = 0 THEN Cardinality(DOMAIN groups) ELSE numL1
      /\ UNCHANGED <<level, node, groups, linkFlags, parentOf, textOf, cache>>
  BY DEF Grouped, rangeVars
<1>2. Building /\ Opened /\ Building' /\ Opened'
  BY <1>1 DEF Building, Opened
<1>3. RootOK'
  <2>1. CASE node = 0
    <3>1. parentOf = <<>> /\ DOMAIN parentOf = {} /\ Len(parentOf) = 0
      BY <1>1, <2>1 DEF RootOK
    <3>2. Cardinality(DOMAIN groups) \in Nat
      <4>1. DOMAIN groups \subseteq Byte
        BY <1>2 DEF Inv, GroupsOK
      <4>2. IsFiniteSet(Byte)
        BY BaseAssumption, FS_Interval DEF Byte
      <4> QED
        BY <4>1, <4>2, FS_Subset, FS_CardinalityType
    <3>3. Len(parentOf) + Cardinality(DOMAIN groups) = Cardinality(DOMAIN groups)
      BY <3>1, <3>2
    <3> QED
      BY <1>1, <1>2, <2>1, <3>1, <3>3 DEF RootOK
  <2>2. CASE node # 0
    BY <1>1, <1>2, <2>2 DEF RootOK
  <2> QED
    BY <2>1, <2>2
<1>4. ForksOK'
  <2>1. node \in Nat /\ \A m \in DOMAIN parentOf : parentOf[m] \in Nat
    <3>1. parentOf \in Seq(Nat) /\ node \in Nat
      BY <1>2 DEF Inv, CurrentOK, BitsOK, NodeOK
    <3> QED
      BY <3>1, ElementOfSeq, LenProperties
  <2>2. \A m \in DOMAIN parentOf : parentOf[m] < node
    BY <1>1 DEF SiblingsInv, ParentsOK
  <2>3. \A m \in DOMAIN parentOf : parentOf[m] # node
    BY <2>1, <2>2
  <2> QED
    BY <1>1, <1>2, <2>3 DEF ForksOK
<1> QED
  BY <1>3, <1>4

\* AddChild: the part of the keys up to the new node is longer than the one up
\* to its parent, and the label of its group is used up.
LEMMA ShapedAddChild ==
  Inv /\ PlacedInv /\ SpelledInv /\ AddChild /\ RootOK /\ ForksOK => RootOK' /\ ForksOK'
<1> SUFFICES ASSUME Inv, PlacedInv, SpelledInv, AddChild, RootOK, ForksOK
             PROVE  RootOK' /\ ForksOK'
  OBVIOUS
<1>1. /\ phase = "children" /\ phase' = "children" /\ parentOf' = Append(parentOf, node)
      /\ UNCHANGED <<level, node, numL1>>
  BY DEF AddChild
<1>2. Building /\ Building' /\ Opened /\ Opened'
  BY <1>1 DEF Building, Opened
<1> DEFINE Takes(b, first, end) ==
             /\ pos < end /\ end <= Len(keys[first].text)
             /\ textOf' = Append(textOf, Segment(first, 0, end))
             /\ groups' = [c \in DOMAIN groups \ {b} |-> groups[c]]
             /\ cache' = CacheWith(node, Len(bases), groups[b].weight, b)
<1>3. \E b \in DOMAIN groups : \E first \in groups[b].keys : \E end \in Nat :
        Takes(b, first, end)
  BY ChildTaken
<1> HIDE DEF Takes
<1>4. PICK b \in DOMAIN groups : \E first \in groups[b].keys : \E end \in Nat :
        Takes(b, first, end)
  BY <1>3
<1>5. PICK first \in groups[b].keys : \E end \in Nat : Takes(b, first, end)
  BY <1>4
<1>6. PICK end \in Nat : Takes(b, first, end)
  BY <1>5
<1> DEFINE text == Segment(first, 0, end)
<1>7. /\ pos < end /\ end <= Len(keys[first].text)
      /\ textOf' = Append(textOf, text)
      /\ DOMAIN groups' = DOMAIN groups \ {b}
  BY <1>6 DEF Takes
<1>8. KeysOK /\ first \in DOMAIN keys /\ first \in InGroups
      /\ DOMAIN groups \subseteq Byte /\ pos \in Nat /\ node \in Nat
  BY <1>2 DEF Inv, GroupsOK, NodeOK, InGroups
<1>9. /\ parentOf \in Seq(Nat) /\ Len(parentOf) \in Nat
      /\ textOf \in Seq(Seq(Byte)) /\ Len(textOf) = Len(parentOf) + 1
      /\ \A n \in DOMAIN parentOf : parentOf[n] \in 0 .. n - 1
  BY <1>2, LenProperties
     DEF Inv, CurrentOK, BitsOK, ShapeOK, SpelledInv, CurrentSpelled, Spelled
<1>10. text \in Seq(Byte)
  BY <1>7, <1>8, SegmentType
<1>11. Grown(parentOf, textOf, node, text, parentOf', textOf')
  BY <1>1, <1>7, <1>8, <1>9, <1>10, NodesStay
<1> DEFINE new == Len(parentOf) + 1
<1>12. /\ DOMAIN parentOf' = DOMAIN parentOf \cup {new}
       /\ parentOf'[new] = node /\ textOf'[new + 1] = text
       /\ \A n \in DOMAIN parentOf :
            /\ n # new /\ parentOf'[n] = parentOf[n] /\ textOf'[n + 1] = textOf[n + 1]
            /\ LabelIn(parentOf', textOf', n) = LabelIn(parentOf, textOf, n)
  BY <1>11 DEF Grown
<1>13. \A i \in 1 .. Len(textOf) : textOf'[i] = textOf[i]
  BY <1>7, <1>9, <1>10, AppendProperties
<1>14. node + 1 \in 1 .. Len(textOf)
  <2>1. node < Len(linkFlags) /\ Len(linkFlags) \in Nat
    BY <1>2, OpenedNumbers
  <2>2. Len(linkFlags) = Len(textOf)
    BY <1>2 DEF PlacedInv, TextOfOK
  <2> QED
    BY <1>8, <2>1, <2>2
<1>15. Len(textOf[node + 1]) < Len(text)
  <2>1. textOf[node + 1] = Segment(first, 0, pos)
    <3>1. textOf[node + 1] = Read(level, keys[first].text, pos)
      BY <1>2, <1>8 DEF PlacedInv, OpenedOK
    <3> QED
      BY <1>8, <3>1, ReadIsSegment
  <2>2. Len(keys[first].text) \in Nat
    BY <1>8, KeyFields
  <2>3. pos \in 0 .. Len(keys[first].text) /\ end \in 0 .. Len(keys[first].text)
    BY <1>7, <1>8, <2>2
  <2>4. Len(Segment(first, 0, pos)) = pos - 0 /\ Len(text) = end - 0
    BY <1>8, <2>3, SegmentLabels
  <2> QED
    BY <1>7, <1>8, <2>1, <2>4
<1>16. \A n \in DOMAIN parentOf : parentOf[n] + 1 \in 1 .. Len(textOf)
  <2> DEFINE len == Len(parentOf)
  <2>1. len \in Nat /\ DOMAIN parentOf = 1 .. len /\ Len(textOf) = len + 1
    BY <1>9, LenProperties
  <2> HIDE DEF len
  <2>2. ASSUME NEW n \in DOMAIN parentOf PROVE parentOf[n] + 1 \in 1 .. Len(textOf)
    <3>1. n \in 1 .. len /\ parentOf[n] \in 0 .. n - 1
      BY <1>9, <2>1
    <3> QED
      BY ONLY <2>1, <3>1
  <2> QED
    BY <2>2
<1> HIDE DEF text, new
<1>17. Longer(parentOf', textOf')
  <2> SUFFICES ASSUME NEW n \in DOMAIN parentOf'
               PROVE  Len(textOf'[parentOf'[n] + 1]) < Len(textOf'[n + 1])
    BY DEF Longer
  <2>1. CASE n = new
    BY <1>12, <1>13, <1>14, <1>15, <2>1
  <2>2. CASE n \in DOMAIN parentOf
    <3>1. textOf'[parentOf'[n] + 1] = textOf[parentOf[n] + 1]
      BY <1>12, <1>13, <1>16, <2>2
    <3> QED
      BY <1>2, <1>12, <2>2, <3>1 DEF ForksOK, Longer
  <2> QED
    BY <1>12, <2>1, <2>2
<1>18. level = 1 => LabelIn(parentOf', textOf', new) = b
  BY <1>1, <1>7, NewLabel DEF text, new
<1>19. ASSUME level = 1
       PROVE  LabelsApart(parentOf', textOf')
  <2>1. \A m \in DOMAIN parentOf : parentOf[m] = node => LabelIn(parentOf, textOf, m) # b
    BY <1>1, <1>19 DEF ForksOK
  <2>2. LabelsApart(parentOf, textOf)
    BY <1>2, <1>19 DEF ForksOK
  <2> SUFFICES ASSUME NEW m \in DOMAIN parentOf', NEW n \in DOMAIN parentOf',
                      parentOf'[m] = parentOf'[n],
                      LabelIn(parentOf', textOf', m) = LabelIn(parentOf', textOf', n)
               PROVE  m = n
    BY DEF LabelsApart
  <2>3. CASE m = new /\ n \in DOMAIN parentOf
    BY <1>12, <1>18, <1>19, <2>1, <2>3
  <2>4. CASE n = new /\ m \in DOMAIN parentOf
    BY <1>12, <1>18, <1>19, <2>1, <2>4
  <2>5. CASE m \in DOMAIN parentOf /\ n \in DOMAIN parentOf
    BY <1>12, <2>2, <2>5 DEF LabelsApart
  <2> QED
    BY <1>12, <2>3, <2>4, <2>5
<1>20. ASSUME level = 1, NEW m \in DOMAIN parentOf', parentOf'[m] = node
       PROVE  LabelIn(parentOf', textOf', m) \notin DOMAIN groups'
  <2>1. CASE m = new
    BY <1>7, <1>18, <1>20, <2>1
  <2>2. CASE m \in DOMAIN parentOf
    BY <1>1, <1>7, <1>12, <1>20, <2>2 DEF ForksOK
  <2> QED
    BY <1>12, <2>1, <2>2
<1>21. Slots(DOMAIN cache')
  <2>1. DOMAIN cache' = DOMAIN cache
    BY <1>6 DEF Takes, CacheWith
  <2> QED
    BY <1>2, <2>1 DEF ForksOK
<1>22. ForksOK'
  BY <1>1, <1>17, <1>19, <1>20, <1>21 DEF ForksOK
<1>23. RootOK'
  <2>1. CASE node = 0
    <3>1. /\ \A m \in DOMAIN parentOf : parentOf[m] = 0
          /\ numL1 = Len(parentOf) + Cardinality(DOMAIN groups)
      BY <1>1, <2>1 DEF RootOK
    <3>2. Len(parentOf') = Len(parentOf) + 1
      BY <1>1, <1>8, <1>9, AppendProperties
    <3>3. IsFiniteSet(DOMAIN groups)
      <4>1. IsFiniteSet(Byte)
        BY BaseAssumption, FS_Interval DEF Byte
      <4> QED
        BY <1>8, <4>1, FS_Subset
    <3>4. /\ Cardinality(DOMAIN groups) \in Nat
          /\ Cardinality(DOMAIN groups') = Cardinality(DOMAIN groups) - 1
      BY <1>7, <3>3, FS_RemoveElement, FS_CardinalityType
    <3>5. numL1 = Len(parentOf') + Cardinality(DOMAIN groups')
      BY <1>9, <3>1, <3>2, <3>4
    <3>6. \A m \in DOMAIN parentOf' : parentOf'[m] = 0
      BY <1>12, <2>1, <3>1
    <3> QED
      BY <1>1, <2>1, <3>5, <3>6 DEF RootOK
  <2>2. CASE node # 0
    <3>1. RootFirst(parentOf, numL1) /\ numL1 \in Nat
      BY <1>2, <2>2 DEF RootOK, Inv, CurrentOK, BitsOK
    <3>2. ~(new <= numL1) /\ numL1 <= Len(parentOf')
      <4>1. Len(parentOf') = Len(parentOf) + 1
        BY <1>1, <1>8, <1>9, AppendProperties
      <4> QED
        BY <1>9, <3>1, <4>1 DEF RootFirst, new
    <3>3. RootFirst(parentOf', numL1)
      BY <1>12, <2>2, <3>1, <3>2 DEF RootFirst
    <3> QED
      BY <1>1, <2>2, <3>3 DEF RootOK
  <2> QED
    BY <2>1, <2>2
<1> QED
  BY <1>22, <1>23

\* CloseNode: the children of the root are all there once it is closed.
LEMMA ShapedClose == Inv /\ CloseNode /\ RootOK /\ ForksOK => RootOK' /\ ForksOK'
<1> SUFFICES ASSUME Inv, CloseNode, RootOK, ForksOK PROVE RootOK' /\ ForksOK'
  OBVIOUS
<1>1. /\ phase = "children" /\ phase' = "pop" /\ DOMAIN groups = {}
      /\ UNCHANGED <<level, queue, linkFlags, numL1, parentOf, textOf, cache>>
  BY DEF CloseNode
<1>2. Building /\ Building' /\ Opened /\ ~Opened'
  BY <1>1 DEF Building, Opened
<1>3. ForksOK'
  BY <1>1, <1>2 DEF ForksOK
<1>4. Len(linkFlags) # Len(queue)
  <2>1. Len(linkFlags) \in Nat /\ Len(queue) \in Nat /\ node \in Nat
    BY <1>2, OpenedNumbers
  <2> QED
    BY <1>2, <2>1 DEF Inv, ShapeOK
<1>5. RootFirst(parentOf, numL1)
  <2>1. CASE node = 0
    <3>1. /\ \A m \in DOMAIN parentOf : parentOf[m] = 0
          /\ numL1 = Len(parentOf) + Cardinality(DOMAIN groups)
      BY <1>1, <2>1 DEF RootOK
    <3>2. Cardinality(DOMAIN groups) = 0
      BY <1>1, FS_EmptySet
    <3>3. /\ parentOf \in Seq(Nat) /\ Len(parentOf) \in Nat
          /\ DOMAIN parentOf = 1 .. Len(parentOf)
      BY LenProperties DEF Inv, CurrentOK, BitsOK
    <3>4. numL1 = Len(parentOf)
      BY <3>1, <3>2, <3>3
    <3> QED
      BY <3>1, <3>3, <3>4 DEF RootFirst
  <2>2. CASE node # 0
    BY <1>2, <2>2 DEF RootOK
  <2> QED
    BY <2>1, <2>2
<1>6. RootOK'
  BY <1>1, <1>2, <1>4, <1>5 DEF RootOK
<1> QED
  BY <1>3, <1>6

LEMMA ShapedCloseTrie ==
  ASSUME Inv, NamedInv, ShapedInv, CloseTrie, ~Building'
  PROVE  ShapedInv'
<1>1. /\ phase = "pop" /\ queue = <<>> /\ Building /\ ~Linking /\ trie' = trie
      /\ Len(stack) \in Nat /\ DOMAIN stack = 1 .. Len(stack)
      /\ DOMAIN stack' = 1 .. Len(stack) + 1
      /\ \A i \in 1 .. Len(stack) : stack'[i] = stack[i]
      /\ stack'[Len(stack) + 1].parentOf = parentOf
      /\ stack'[Len(stack) + 1].textOf = textOf
  BY Pushed DEF Linking
<1>2. stack'[Len(stack) + 1].numL1 = numL1 /\ stack'[Len(stack) + 1].cache = cache
  <2> DEFINE t == [louds |-> Append(louds, FALSE), linkFlags |-> linkFlags,
                   bases |-> bases, cache |-> cache, numL1 |-> numL1,
                   parentOf |-> parentOf, textOf |-> textOf,
                   terminals |-> Terminals]
  <2>1. stack' = Append(stack, t) /\ t.numL1 = numL1 /\ t.cache = cache
    BY DEF CloseTrie
  <2> HIDE DEF t
  <2> QED
    BY <2>1 DEF Inv, StackOK
<1>3. level = Len(stack) + 1 /\ DOMAIN trie = {}
  BY <1>1 DEF NamedInv, LevelsOK
<1>4. Shaped(level, parentOf, textOf, numL1, cache)
  <2>1. Len(linkFlags) # Len(queue)
    <3>1. Len(parentOf) + 1 = Len(linkFlags) /\ parentOf \in Seq(Nat)
      BY <1>1 DEF Inv, ShapeOK, CurrentOK, BitsOK
    <3>2. Len(parentOf) \in Nat
      BY <3>1, LenProperties
    <3>3. Len(queue) = 0
      BY <1>1
    <3> QED
      BY <3>1, <3>2, <3>3
  <2> QED
    BY <1>1, <2>1 DEF ShapedInv, RootOK, ForksOK, Shaped
<1>5. ASSUME NEW i \in DOMAIN stack'
      PROVE  Shaped(i, stack'[i].parentOf, stack'[i].textOf, stack'[i].numL1, stack'[i].cache)
  <2>1. CASE i \in 1 .. Len(stack)
    BY <1>1, <2>1 DEF ShapedInv
  <2>2. CASE i = Len(stack) + 1
    BY <1>1, <1>2, <1>3, <1>4, <2>2
  <2> QED
    BY <1>1, <2>1, <2>2
<1>6. RootOK' /\ ForksOK'
  BY ShapedElsewhere
<1>7. DOMAIN trie' = {}
  BY <1>1, <1>3
<1>8. \A j \in DOMAIN trie' :
        Shaped(Len(stack') + j, trie'[j].parentOf, trie'[j].textOf, trie'[j].numL1,
               trie'[j].cache)
  BY ONLY <1>7
<1> QED
  BY <1>5, <1>6, <1>8 DEF ShapedInv

LEMMA ShapedLinkTrie == Inv /\ LinkTrie /\ ShapedInv => ShapedInv'
<1> SUFFICES ASSUME Inv, LinkTrie, ShapedInv PROVE ShapedInv'
  OBVIOUS
<1> DEFINE t == stack[Len(stack)]
<1>1. /\ ~Building'
      /\ Len(stack) \in Nat \ {0} /\ DOMAIN stack = 1 .. Len(stack)
      /\ Len(trie) \in Nat /\ DOMAIN trie = 1 .. Len(trie)
      /\ Len(stack') = Len(stack) - 1 /\ DOMAIN stack' = 1 .. Len(stack) - 1
      /\ \A i \in 1 .. Len(stack) - 1 : stack'[i] = stack[i]
      /\ DOMAIN trie' = 1 .. Len(trie) + 1
      /\ trie'[1] = Linked(t)
      /\ \A i \in 1 .. Len(trie) : trie'[i + 1] = trie[i]
  BY Popped
<1>2. /\ Linked(t).parentOf = t.parentOf /\ Linked(t).textOf = t.textOf
      /\ Linked(t).numL1 = t.numL1 /\ DOMAIN Linked(t).cache = DOMAIN t.cache
  BY DEF Linked
<1>3. Shaped(Len(stack), Linked(t).parentOf, Linked(t).textOf, Linked(t).numL1,
              Linked(t).cache)
  <2>1. Shaped(Len(stack), t.parentOf, t.textOf, t.numL1, t.cache)
    BY <1>1 DEF ShapedInv
  <2> QED
    BY <1>2, <2>1 DEF Shaped
<1> HIDE DEF t
<1>4. \A i \in DOMAIN stack' :
        Shaped(i, stack'[i].parentOf, stack'[i].textOf, stack'[i].numL1, stack'[i].cache)
  BY <1>1 DEF ShapedInv
<1>5. ASSUME NEW j \in DOMAIN trie'
      PROVE  Shaped(Len(stack') + j, trie'[j].parentOf, trie'[j].textOf, trie'[j].numL1,
               trie'[j].cache)
  <2>1. CASE j = 1
    <3>1. Len(stack') + 1 = Len(stack)
      BY <1>1
    <3> QED
      BY <1>1, <1>3, <2>1, <3>1
  <2>2. CASE j # 1
    <3>1. PICK i \in 1 .. Len(trie) : j = i + 1
      <4>1. j - 1 \in 1 .. Len(trie) /\ j = (j - 1) + 1
        BY <1>1, <2>2
      <4> QED
        BY <4>1
    <3>2. Len(stack') + j = Len(stack) + i
      BY <1>1, <3>1
    <3>3. trie'[j] = trie[i] /\ i \in DOMAIN trie
      BY <1>1, <3>1
    <3> QED
      BY <3>2, <3>3 DEF ShapedInv
  <2> QED
    BY <2>1, <2>2
<1>6. RootOK' /\ ForksOK'
  BY <1>1, ShapedElsewhere
<1> QED
  BY <1>4, <1>5, <1>6 DEF ShapedInv

LEMMA ShapedStep ==
  Inv /\ PlacedInv /\ NamedInv /\ SpelledInv /\ SiblingsInv /\ [Next]_vars /\ ShapedInv
    => ShapedInv'
<1> SUFFICES ASSUME Inv, PlacedInv, NamedInv, SpelledInv, SiblingsInv, [Next]_vars, ShapedInv
             PROVE  ShapedInv'
  OBVIOUS
<1>1. ASSUME UNCHANGED <<stack, trie>>, RootOK' /\ ForksOK'
      PROVE  ShapedInv'
  BY <1>1 DEF ShapedInv
<1>2. RootOK /\ ForksOK
  BY DEF ShapedInv
<1>3. CASE BeginTrie \/ OpenNode \/ GroupKey \/ Grouped \/ AddChild \/ CloseNode
  <2>1. UNCHANGED <<stack, trie>>
    BY <1>3 DEF BeginTrie, OpenNode, GroupKey, Grouped, AddChild, CloseNode, linkVars
  <2>2. RootOK' /\ ForksOK'
    BY <1>2, <1>3, ShapedBegin, ShapedOpen, ShapedGroupKey, ShapedGrouped,
       ShapedAddChild, ShapedClose
  <2> QED
    BY <1>1, <2>1, <2>2
<1>4. CASE NoNextLevel \/ NextTrie \/ NextTail
  <2>1. CloseTrie /\ phase' \in {"begin", "tail", "link"}
    BY <1>4 DEF NoNextLevel, NextTrie, NextTail
  <2>2. ~Building'
    BY <2>1 DEF Building
  <2> QED
    BY <2>1, <2>2, ShapedCloseTrie
<1>5. CASE LinkTrie
  BY <1>5, ShapedLinkTrie
<1>6. CASE AddEntry \/ TailDone \/ NumberKeys
  <2>1. UNCHANGED <<stack, trie>> /\ ~Building'
    BY <1>6 DEF AddEntry, TailDone, NumberKeys, linkVars, Building
  <2> QED
    BY <1>1, <2>1, ShapedElsewhere
<1>7. CASE UNCHANGED vars
  <2>1. UNCHANGED <<phase, level, queue, node, groups, linkFlags, numL1, parentOf, textOf,
                    cache, stack, trie>>
    BY <1>7 DEF vars, rangeVars, bitVars, linkVars
  <2>2. (Opened' <=> Opened) /\ (Building' <=> Building)
    BY <2>1 DEF Opened, Building
  <2>3. RootOK' /\ ForksOK'
    BY <1>2, <2>1, <2>2 DEF RootOK, ForksOK
  <2> QED
    BY <1>1, <2>1, <2>3
<1> QED
  BY <1>3, <1>4, <1>5, <1>6, <1>7 DEF Next

LEMMA ShapedAlways == Spec => []ShapedInv
<1>1. Init => ShapedInv
  <2> SUFFICES ASSUME Init PROVE ShapedInv
    OBVIOUS
  <2>1. phase = "begin" /\ DOMAIN stack = {} /\ DOMAIN trie = {}
    BY DEF Init
  <2>2. ~Building /\ ~Opened
    BY <2>1 DEF Building, Opened
  <2> QED
    BY <2>1, <2>2 DEF ShapedInv, RootOK, ForksOK
<1> QED
  BY <1>1, Invariance, PlacedAlways, NamedAlways, SpelledAlways, SiblingsAlways,
     ShapedStep, PTL DEF Spec
-----------------------------------------------------------------------------
\* What links of the last trie lead to are texts in the tail.
TailReadInv ==
  /\ phase = "link" /\ trie = <<>> =>
       \A k \in DOMAIN links : TailTexts[links[k]] \in Seq(Byte)
  /\ trie # <<>> =>
       \A n \in DOMAIN trie[Len(trie)].parentOf :
         Bit(trie[Len(trie)].linkFlags, n) =>
           TailTexts[LinkOf(trie[Len(trie)], n)] \in Seq(Byte)

LEMMA TailReadTailDone == Inv /\ NamedInv /\ StoredInv /\ TailDone => TailReadInv'
<1> SUFFICES ASSUME Inv, NamedInv, StoredInv, TailDone PROVE TailReadInv'
  OBVIOUS
<1>1. /\ phase = "tail" /\ entries = {}
      /\ UNCHANGED <<keys, links, trie, tail>>
  BY DEF TailDone, linkVars, tailVars
<1>2. trie = <<>>
  BY <1>1 DEF Linking, NamedInv, LevelsOK
<1>3. TailTexts' = TailTexts
  BY <1>1 DEF TailTexts, TailText, TailEnd
<1>4. ASSUME NEW k \in DOMAIN links PROVE TailTexts[links[k]] \in Seq(Byte)
  <2>1. DOMAIN links = DOMAIN keys
        /\ \A i \in DOMAIN keys : Stored(tail, links[i], keys[i].text)
    BY <1>1 DEF StoredInv, EntriesOK
  <2>2. links \in Seq(Nat) /\ tail.buf \in Seq(Byte) /\ KeysOK
    BY <1>1 DEF Inv, TailOK
  <2>3. links[k] \in Nat /\ keys[k].text \in Seq(Byte)
    BY <2>1, <2>2, ElementOfSeq, LenProperties, KeyFields
  <2>4. TailText(links[k]) = keys[k].text
    BY <2>1, <2>2, <2>3, StoredIsRead
  <2> QED
    BY <2>3, <2>4 DEF TailTexts
<1> QED
  BY <1>1, <1>2, <1>3, <1>4 DEF TailReadInv

LEMMA TailReadLinkTrie == Inv /\ LinkTrie /\ TailReadInv => TailReadInv'
<1> SUFFICES ASSUME Inv, LinkTrie, TailReadInv PROVE TailReadInv'
  OBVIOUS
<1> DEFINE t == stack[Len(stack)]
<1>1. /\ phase = "link" /\ Len(stack) \in Nat \ {0} /\ DOMAIN stack = 1 .. Len(stack)
      /\ Len(trie) \in Nat /\ DOMAIN trie = 1 .. Len(trie)
      /\ Len(trie') = Len(trie) + 1
      /\ trie' # <<>> /\ trie'[1] = Linked(t)
      /\ \A i \in 1 .. Len(trie) : trie'[i + 1] = trie[i]
      /\ UNCHANGED tail
  BY Popped
<1>2. TailTexts' = TailTexts
  BY <1>1 DEF TailTexts, TailText, TailEnd
<1>3. CASE trie = <<>>
  <2>1. Len(trie') = 1 /\ trie'[Len(trie')] = Linked(t)
    BY <1>1, <1>3
  <2>2. WellFormed(t) /\ links \in Seq(Nat) /\ Ones(t.linkFlags) = Len(links)
    <3>1. stack # <<>>
      BY <1>1
    <3> QED
      BY <1>1, <3>1 DEF Inv, StackOK, TopOK
  <2>3. Linked(t).parentOf = t.parentOf /\ Linked(t).linkFlags = t.linkFlags
    BY DEF Linked
  <2> HIDE DEF t
  <2>4. ASSUME NEW n \in DOMAIN t.parentOf, Bit(t.linkFlags, n)
        PROVE  TailTexts[LinkOf(Linked(t), n)] \in Seq(Byte)
    BY <1>1, <1>3, <2>2, <2>4, LinkStored DEF TailReadInv
  <2> QED
    BY <1>1, <1>2, <2>1, <2>3, <2>4 DEF TailReadInv
<1>4. CASE trie # <<>>
  <2>1. Len(trie) \in 1 .. Len(trie)
    <3>1. Len(trie) # 0
      BY <1>4 DEF Inv, TrieOK
    <3> QED
      BY <1>1, <3>1
  <2>2. trie'[Len(trie')] = trie[Len(trie)]
    BY <1>1, <2>1
  <2> QED
    BY <1>1, <1>2, <1>4, <2>2 DEF TailReadInv
<1> QED
  BY <1>3, <1>4

LEMMA TailReadStep ==
  Inv /\ NamedInv /\ StoredInv /\ [Next]_vars /\ TailReadInv => TailReadInv'
<1> SUFFICES ASSUME Inv, NamedInv, StoredInv, [Next]_vars, TailReadInv
             PROVE  TailReadInv'
  OBVIOUS
<1>1. ASSUME phase' # "link", trie' = <<>>
      PROVE  TailReadInv'
  BY <1>1 DEF TailReadInv
<1>2. CASE BeginTrie \/ OpenNode \/ GroupKey \/ Grouped \/ AddChild \/ CloseNode
  <2>1. phase' # "link" /\ trie' = trie /\ phase \in {"begin", "pop", "group", "children"}
    BY <1>2 DEF BeginTrie, OpenNode, GroupKey, Grouped, AddChild, CloseNode, linkVars
  <2>2. trie = <<>>
    BY <2>1 DEF Linking, NamedInv, LevelsOK
  <2> QED
    BY <1>1, <2>1, <2>2
<1>3. CASE NextTrie \/ NextTail \/ AddEntry
  <2>1. phase' # "link" /\ trie' = trie /\ phase \in {"pop", "tail"}
    BY <1>3 DEF NextTrie, NextTail, AddEntry, CloseTrie
  <2>2. trie = <<>>
    BY <2>1 DEF Linking, NamedInv, LevelsOK
  <2> QED
    BY <1>1, <2>1, <2>2
<1>4. CASE NoNextLevel
  <2>1. trie' = trie /\ phase = "pop" /\ DOMAIN links' = {}
    BY <1>4 DEF NoNextLevel, CloseTrie
  <2>2. trie = <<>>
    BY <2>1 DEF Linking, NamedInv, LevelsOK
  <2> QED
    BY <2>1, <2>2 DEF TailReadInv
<1>5. CASE TailDone
  BY <1>5, TailReadTailDone
<1>6. CASE LinkTrie
  BY <1>6, TailReadLinkTrie
<1>7. CASE NumberKeys \/ UNCHANGED vars
  <2>1. /\ UNCHANGED <<links, trie, tail>>
        /\ phase' = "link" => phase = "link"
    BY <1>7 DEF NumberKeys, vars, linkVars, tailVars
  <2>2. TailTexts' = TailTexts
    BY <2>1 DEF TailTexts, TailText, TailEnd
  <2> QED
    BY <2>1, <2>2 DEF TailReadInv
<1> QED
  BY <1>2, <1>3, <1>4, <1>5, <1>6, <1>7 DEF Next

LEMMA TailReadAlways == Spec => []TailReadInv
<1>1. Init => TailReadInv
  BY DEF Init, TailReadInv
<1> QED
  BY <1>1, Invariance, NamedAlways, StoredAlways, TailReadStep, PTL DEF Spec

\* No root is a link.
RootsPlain ==
  /\ Building => ~Bit(linkFlags, 0)
  /\ \A i \in DOMAIN stack : ~Bit(stack[i].linkFlags, 0)
  /\ \A j \in DOMAIN trie : ~Bit(trie[j].linkFlags, 0)

LEMMA RootsPlainStep == Inv /\ [Next]_vars /\ RootsPlain => RootsPlain'
<1> SUFFICES ASSUME Inv, [Next]_vars, RootsPlain PROVE RootsPlain'
  OBVIOUS
<1>1. CASE BeginTrie
  <2>1. UNCHANGED <<stack, trie>> /\ linkFlags' = <<FALSE>>
    BY <1>1 DEF BeginTrie, linkVars
  <2> QED
    BY <2>1 DEF RootsPlain, Bit
<1>2. CASE OpenNode \/ GroupKey \/ Grouped \/ CloseNode \/ UNCHANGED vars
  <2>1. UNCHANGED <<stack, trie, linkFlags>> /\ (Building' => Building)
    BY <1>2 DEF OpenNode, GroupKey, Grouped, CloseNode, vars, bitVars, linkVars, Building
  <2> QED
    BY <2>1 DEF RootsPlain
<1>3. CASE AddChild
  <2>1. UNCHANGED <<stack, trie>> /\ Building
    BY <1>3 DEF AddChild, linkVars, Building
  <2>2. PICK b : linkFlags' = Append(linkFlags, b)
    BY <1>3, ChildTaken
  <2>3. linkFlags \in Seq(BOOLEAN) /\ 1 \in 1 .. Len(linkFlags)
    <3>1. linkFlags \in Seq(BOOLEAN) /\ parentOf \in Seq(Nat)
          /\ Len(parentOf) + 1 = Len(linkFlags)
      BY <2>1 DEF Inv, CurrentOK, BitsOK, ShapeOK
    <3>2. Len(parentOf) \in Nat
      BY <3>1, LenProperties
    <3> QED
      BY <3>1, <3>2
  <2>4. linkFlags'[1] = linkFlags[1]
    BY <2>2, <2>3
  <2> QED
    BY <2>1, <2>4 DEF RootsPlain, Bit
<1>4. CASE NoNextLevel \/ NextTrie \/ NextTail
  <2>1. CloseTrie /\ ~Building'
    BY <1>4 DEF NoNextLevel, NextTrie, NextTail, Building
  <2>2. /\ Building /\ Len(stack) \in Nat /\ DOMAIN stack' = 1 .. Len(stack) + 1
        /\ DOMAIN stack = 1 .. Len(stack)
        /\ \A i \in 1 .. Len(stack) : stack'[i] = stack[i]
        /\ stack'[Len(stack) + 1].linkFlags = linkFlags
        /\ UNCHANGED trie
    BY <2>1, Pushed
  <2>3. ASSUME NEW i \in DOMAIN stack' PROVE ~Bit(stack'[i].linkFlags, 0)
    <3>1. CASE i = Len(stack) + 1
      BY <2>2, <3>1 DEF RootsPlain
    <3>2. CASE i # Len(stack) + 1
      <4>1. i \in 1 .. Len(stack)
        BY <2>2, <3>2
      <4> QED
        BY <2>2, <4>1 DEF RootsPlain
    <3> QED
      BY <3>1, <3>2
  <2> QED
    BY <2>1, <2>2, <2>3 DEF RootsPlain
<1>5. CASE AddEntry \/ TailDone \/ NumberKeys
  <2>1. UNCHANGED <<stack, trie>> /\ ~Building'
    BY <1>5 DEF AddEntry, TailDone, NumberKeys, linkVars, Building
  <2> QED
    BY <2>1 DEF RootsPlain
<1>6. CASE LinkTrie
  <2>1. /\ ~Building'
        /\ Len(stack) \in Nat \ {0} /\ DOMAIN stack = 1 .. Len(stack)
        /\ Len(trie) \in Nat /\ DOMAIN trie = 1 .. Len(trie)
        /\ DOMAIN stack' = 1 .. Len(stack) - 1
        /\ \A i \in 1 .. Len(stack) - 1 : stack'[i] = stack[i]
        /\ DOMAIN trie' = 1 .. Len(trie) + 1
        /\ trie'[1] = Linked(stack[Len(stack)])
        /\ \A i \in 1 .. Len(trie) : trie'[i + 1] = trie[i]
    BY <1>6, Popped
  <2>2. ~Bit(trie'[1].linkFlags, 0)
    <3>1. ~Bit(stack[Len(stack)].linkFlags, 0)
      BY <2>1 DEF RootsPlain
    <3>2. Linked(stack[Len(stack)]).linkFlags = stack[Len(stack)].linkFlags
      BY DEF Linked
    <3> QED
      BY <2>1, <3>1, <3>2
  <2>3. ASSUME NEW j \in DOMAIN trie' PROVE ~Bit(trie'[j].linkFlags, 0)
    <3>1. CASE j = 1
      BY <2>2, <3>1
    <3>2. CASE j # 1
      <4>1. j - 1 \in 1 .. Len(trie) /\ j - 1 + 1 = j
        BY <2>1, <3>2
      <4>2. trie'[j] = trie[j - 1]
        BY <2>1, <4>1
      <4> QED
        BY <2>1, <4>1, <4>2 DEF RootsPlain
    <3> QED
      BY <3>1, <3>2
  <2> QED
    BY <2>1, <2>3 DEF RootsPlain
<1> QED
  BY <1>1, <1>2, <1>3, <1>4, <1>5, <1>6 DEF Next

LEMMA RootsPlainAlways == Spec => []RootsPlain
<1>1. Init => RootsPlain
  BY DEF Init, RootsPlain, Building
<1> QED
  BY <1>1, Invariance, RootsPlainStep, PTL DEF Spec

\* Everything that is known of a trie once it is built.
Finished ==
  /\ phase = "done"
  /\ Inv /\ NumberedInv /\ NamedInv /\ SpelledInv /\ CachedInv /\ SiblingsInv
  /\ IdsGiven /\ ShapedInv /\ TailReadInv /\ RootsPlain

\* What of it is about one of its tries.
FinishedTrie(l, t) ==
  /\ WellFormed(t) /\ t.extras \in Seq(Nat)
  /\ Numbered(t.louds, t.parentOf)
  /\ Tells(l, t.cache, t.parentOf, t.textOf) /\ Repeats(t)
  /\ Shaped(l, t.parentOf, t.textOf, t.numL1, t.cache)
  /\ Spelled(l, t.textOf, t.parentOf, EdgesOf(trie, l, TailTexts))
  /\ Len(t.parentOf) \in Nat /\ DOMAIN t.parentOf = 1 .. Len(t.parentOf)
  /\ Len(t.bases) = Len(t.parentOf) + 1
  /\ ~Bit(t.linkFlags, 0)

LEMMA EachTrie ==
  ASSUME Finished
  PROVE  /\ Len(trie) \in Nat /\ DOMAIN trie = 1 .. Len(trie) /\ 1 \in DOMAIN trie
         /\ \A l \in DOMAIN trie : FinishedTrie(l, trie[l])
<1>1. stack = <<>> /\ Len(stack) = 0 /\ Linking
  BY DEF Finished, NamedInv, LevelsOK, Linking
<1>2. /\ Len(trie) \in Nat /\ DOMAIN trie = 1 .. Len(trie) /\ 1 \in DOMAIN trie
  <2>1. Len(stack) + Len(trie) >= 1
    BY <1>1 DEF Finished, NamedInv, LevelsOK
  <2>2. Len(trie) \in Nat /\ DOMAIN trie = 1 .. Len(trie)
    BY DEF Finished, Inv, TrieOK
  <2> QED
    BY <1>1, <2>1, <2>2
<1>3. ASSUME NEW l \in DOMAIN trie PROVE FinishedTrie(l, trie[l])
  <2>1. Len(stack) + l = l
    BY <1>1, <1>2
  <2>2. WellFormed(trie[l]) /\ trie[l].extras \in Seq(Nat)
    BY DEF Finished, Inv, TrieOK
  <2>3. Numbered(trie[l].louds, trie[l].parentOf)
    BY DEF Finished, NumberedInv
  <2>4. Tells(l, trie[l].cache, trie[l].parentOf, trie[l].textOf) /\ Repeats(trie[l])
    BY <2>1 DEF Finished, CachedInv
  <2>5. Shaped(l, trie[l].parentOf, trie[l].textOf, trie[l].numL1, trie[l].cache)
    BY <2>1 DEF Finished, ShapedInv
  <2>6. Spelled(l, trie[l].textOf, trie[l].parentOf, EdgesOf(trie, l, TailTexts))
    BY <2>1 DEF Finished, SpelledInv, TriesSpelled
  <2>7. trie[l].parentOf \in Seq(Nat) /\ Len(trie[l].parentOf) + 1 = Len(trie[l].bases)
    BY <2>2 DEF WellFormed, BitsOK
  <2>8. Len(trie[l].parentOf) \in Nat /\ DOMAIN trie[l].parentOf = 1 .. Len(trie[l].parentOf)
    BY <2>7, LenProperties
  <2>9. ~Bit(trie[l].linkFlags, 0)
    BY DEF Finished, RootsPlain
  <2> QED
    BY <2>2, <2>3, <2>4, <2>5, <2>6, <2>7, <2>8, <2>9 DEF FinishedTrie
<1> QED
  BY <1>2, <1>3

=============================================================================
