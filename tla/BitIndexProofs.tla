--------------------------- MODULE BitIndexProofs ---------------------------
(***************************************************************************)
(* The index of BitVector answers rank and select, for every vector of     *)
(* bits, every size of a unit and every bound on the walk.                 *)
(*                                                                         *)
(* A position is written as block, unit and offset throughout (Located).   *)
(* IndexInv says what build_index() has written up to the bit it is at,    *)
(* and that is all the three answers need.                                 *)
(***************************************************************************)
EXTENDS BitIndex, FiniteSetTheorems, SequenceTheorems, TLAPS

-----------------------------------------------------------------------------
(* Counting and selecting bits, whatever the vector: the lemmas            *)
(* TrieContentsProofs begins with too, for the vectors of a trie.          *)

\* A rank is a number, and the two ranks of a position add up to it.
LEMMA RankType ==
  ASSUME NEW vec \in Seq(BOOLEAN), NEW i \in 0 .. Len(vec)
  PROVE  /\ Rank1(vec, i) \in Nat
         /\ Rank0(vec, i) \in Nat
         /\ Rank1(vec, i) + Rank0(vec, i) = i
<1> DEFINE all == 1 .. i
           ones == {j \in all : vec[j]}
           zeros == {j \in all : ~vec[j]}
<1>1. Len(vec) \in Nat /\ i \in Nat
  BY LenProperties
<1>2. IsFiniteSet(all) /\ Cardinality(all) = i
  BY <1>1, FS_Interval
<1>3a. ones \in SUBSET all /\ zeros \in SUBSET all
  OBVIOUS
<1>4. ones \cup zeros = all /\ ones \cap zeros = {}
  OBVIOUS
<1>8. Rank1(vec, i) = Cardinality(ones) /\ Rank0(vec, i) = Cardinality(zeros)
  BY DEF Rank1, Rank0
<1> HIDE DEF all, ones, zeros
<1>3. IsFiniteSet(ones) /\ IsFiniteSet(zeros)
  BY <1>2, <1>3a, FS_Subset
<1>5. Cardinality(ones \cap zeros) = 0
  BY <1>4, FS_EmptySet
<1>6. Cardinality(ones) \in Nat /\ Cardinality(zeros) \in Nat
  BY <1>3, FS_CardinalityType
<1>7. Cardinality(all) = Cardinality(ones) + Cardinality(zeros)
  <2>1. Cardinality(ones \cup zeros) =
          Cardinality(ones) + Cardinality(zeros) - Cardinality(ones \cap zeros)
    BY <1>3, FS_Union
  <2>2. Cardinality(ones \cup zeros) = Cardinality(all)
    BY <1>4
  <2> QED
    BY <1>5, <1>6, <2>1, <2>2
<1> QED
  BY <1>2, <1>6, <1>7, <1>8

\* The rank of a position one further on counts the bit passed.
LEMMA RankStep ==
  ASSUME NEW vec \in Seq(BOOLEAN), NEW i \in 0 .. Len(vec) - 1
  PROVE  /\ Rank1(vec, i + 1) = Rank1(vec, i) + (IF Bit(vec, i) THEN 1 ELSE 0)
         /\ Rank0(vec, i + 1) = Rank0(vec, i) + (IF Bit(vec, i) THEN 0 ELSE 1)
<1> DEFINE ones == {j \in 1 .. i : vec[j]}
           zeros == {j \in 1 .. i : ~vec[j]}
<1>1. Len(vec) \in Nat /\ i \in Nat /\ i + 1 \in 1 .. Len(vec)
  BY LenProperties
<1>2. vec[i + 1] \in BOOLEAN
  BY <1>1, ElementOfSeq
<1>3. IsFiniteSet(ones) /\ IsFiniteSet(zeros)
  <2>1. IsFiniteSet(1 .. i)
    BY <1>1, FS_Interval
  <2>2. ones \in SUBSET (1 .. i) /\ zeros \in SUBSET (1 .. i)
    OBVIOUS
  <2> HIDE DEF ones, zeros
  <2> QED
    BY <2>1, <2>2, FS_Subset
<1>4. /\ Cardinality(ones \cup {i + 1}) = Cardinality(ones) + 1
      /\ Cardinality(zeros \cup {i + 1}) = Cardinality(zeros) + 1
  <2>1. i + 1 \notin ones /\ i + 1 \notin zeros
    BY <1>1
  <2> HIDE DEF ones, zeros
  <2> QED
    BY <1>3, <2>1, FS_AddElement
<1>5. Cardinality(ones) \in Nat /\ Cardinality(zeros) \in Nat
  BY <1>3, FS_CardinalityType
<1>6. 1 .. i + 1 = (1 .. i) \cup {i + 1}
  BY <1>1
<1>7. CASE vec[i + 1]
  <2>1. {j \in 1 .. i + 1 : vec[j]} = ones \cup {i + 1}
    BY <1>6, <1>7
  <2>2. {j \in 1 .. i + 1 : ~vec[j]} = zeros
    BY <1>6, <1>7
  <2>3. Rank1(vec, i + 1) = Cardinality(ones \cup {i + 1}) /\ Rank1(vec, i) = Cardinality(ones)
    BY <2>1 DEF Rank1
  <2>4. Rank0(vec, i + 1) = Cardinality(zeros) /\ Rank0(vec, i) = Cardinality(zeros)
    BY <2>2 DEF Rank0
  <2> HIDE DEF ones, zeros
  <2> QED
    BY <1>4, <1>5, <1>7, <2>3, <2>4 DEF Bit
<1>8. CASE ~vec[i + 1]
  <2>1. {j \in 1 .. i + 1 : vec[j]} = ones
    BY <1>6, <1>8
  <2>2. {j \in 1 .. i + 1 : ~vec[j]} = zeros \cup {i + 1}
    BY <1>6, <1>8
  <2>3. Rank1(vec, i + 1) = Cardinality(ones) /\ Rank1(vec, i) = Cardinality(ones)
    BY <2>1 DEF Rank1
  <2>4. Rank0(vec, i + 1) = Cardinality(zeros \cup {i + 1}) /\ Rank0(vec, i) = Cardinality(zeros)
    BY <2>2 DEF Rank0
  <2> HIDE DEF ones, zeros
  <2> QED
    BY <1>4, <1>5, <1>8, <2>3, <2>4 DEF Bit
<1> QED
  BY <1>2, <1>7, <1>8

\* A set of numbers has a least one: all there is to induction over numbers,
\* stated about a set so that the provers can use it.
LEMMA LeastNumber ==
  ASSUME NEW S \in SUBSET Nat, S # {}
  PROVE  \E m \in S : \A k \in S : m <= k
<1> DEFINE less == {pair \in Nat \X Nat : pair[1] < pair[2]}
<1>1. IsWellFoundedOn(OpToRel(<, Nat), Nat)
  BY NatLessThanWellFounded
<1>2. OpToRel(<, Nat) = less
  BY DEF OpToRel
<1>3. IsWellFoundedOn(less, Nat)
  BY <1>1, <1>2
<1>4. \A x, y \in Nat : <<x, y>> \in less <=> x < y
  OBVIOUS
<1> HIDE DEF less
<1>5. PICK m \in S : \A y \in S : ~(<<y, m>> \in less)
  <2>1. \E m \in S : \A y \in S : ~(<<y, m>> \in less)
    BY <1>3, WFMin
  <2> QED
    BY <2>1
<1>6. \A y \in S : ~(y < m)
  BY <1>4, <1>5
<1> QED
  BY <1>6

\* Induction over numbers, from LeastNumber.
LEMMA Induction ==
  ASSUME NEW S, 0 \in S, \A n \in Nat : n \in S => n + 1 \in S
  PROVE  \A n \in Nat : n \in S
<1> SUFFICES ASSUME NEW n \in Nat, n \notin S PROVE FALSE
  OBVIOUS
<1> DEFINE T == Nat \ S
<1>1. T \in SUBSET Nat /\ T # {}
  OBVIOUS
<1>2. PICK m \in T : \A k \in T : m <= k
  BY <1>1, LeastNumber
<1>3. m # 0 /\ m - 1 \in Nat
  OBVIOUS
<1>4. m - 1 \notin T
  BY <1>2, <1>3
<1> QED
  BY <1>3, <1>4

\* Further on, a rank is never less.
LEMMA RankMonotone ==
  ASSUME NEW vec \in Seq(BOOLEAN), NEW i \in 0 .. Len(vec),
         NEW j \in i .. Len(vec)
  PROVE  /\ Rank1(vec, i) <= Rank1(vec, j)
         /\ Rank0(vec, i) <= Rank0(vec, j)
<1>1. Len(vec) \in Nat /\ i \in Nat /\ j \in Nat /\ i <= j
  BY LenProperties
<1> DEFINE ones(n) == {x \in 1 .. n : vec[x]}
           zeros(n) == {x \in 1 .. n : ~vec[x]}
<1>2. IsFiniteSet(1 .. j)
  BY <1>1, FS_Interval
<1>3. /\ ones(j) \in SUBSET (1 .. j) /\ ones(i) \in SUBSET ones(j)
      /\ zeros(j) \in SUBSET (1 .. j) /\ zeros(i) \in SUBSET zeros(j)
  BY <1>1
<1>4. /\ Rank1(vec, i) = Cardinality(ones(i)) /\ Rank1(vec, j) = Cardinality(ones(j))
      /\ Rank0(vec, i) = Cardinality(zeros(i)) /\ Rank0(vec, j) = Cardinality(zeros(j))
  BY DEF Rank1, Rank0
<1> HIDE DEF ones, zeros
<1>5. IsFiniteSet(ones(j)) /\ IsFiniteSet(zeros(j))
  BY <1>2, <1>3, FS_Subset
<1>6. /\ Cardinality(ones(i)) <= Cardinality(ones(j))
      /\ Cardinality(zeros(i)) <= Cardinality(zeros(j))
  BY <1>3, <1>5, FS_Subset
<1> QED
  BY <1>4, <1>6

\* The rank of the first position is 0.
LEMMA RankOfZero ==
  ASSUME NEW vec
  PROVE  Rank1(vec, 0) = 0 /\ Rank0(vec, 0) = 0
<1>1. {j \in 1 .. 0 : vec[j]} = {} /\ {j \in 1 .. 0 : ~vec[j]} = {}
  OBVIOUS
<1> QED
  BY <1>1, FS_EmptySet DEF Rank1, Rank0

\* Every number below the number of 0s is the rank of a 0, which select0 finds.
LEMMA Select0Finds ==
  ASSUME NEW vec \in Seq(BOOLEAN), NEW k \in 0 .. Zeros(vec) - 1
  PROVE  /\ Select0(vec, k) \in 0 .. Len(vec) - 1
         /\ ~Bit(vec, Select0(vec, k))
         /\ Rank0(vec, Select0(vec, k)) = k
<1>1. Len(vec) \in Nat /\ \A i \in 0 .. Len(vec) : Rank0(vec, i) \in Nat
  BY LenProperties, RankType
<1> DEFINE passed == {i \in 0 .. Len(vec) : Rank0(vec, i) > k}
<1>2. Len(vec) \in passed /\ passed \in SUBSET Nat
  BY <1>1 DEF Zeros
<1>3. PICK m \in passed : \A i \in passed : m <= i
  BY <1>2, LeastNumber
<1>4. m # 0
  BY RankOfZero
<1>5. m - 1 \in 0 .. Len(vec) - 1 /\ m - 1 \in 0 .. Len(vec) /\ m - 1 + 1 = m
  BY <1>1, <1>4
<1>6. m - 1 \notin passed
  BY <1>1, <1>3, <1>5
<1>7. Rank0(vec, m) = Rank0(vec, m - 1) + (IF Bit(vec, m - 1) THEN 0 ELSE 1)
  BY <1>5, RankStep
<1>8. Rank0(vec, m) > k /\ Rank0(vec, m - 1) <= k
  BY <1>1, <1>5, <1>6
<1>9. Rank0(vec, m) \in Nat /\ Rank0(vec, m - 1) \in Nat
  BY <1>1, <1>5
<1> HIDE DEF passed
<1>10. ~Bit(vec, m - 1) /\ Rank0(vec, m - 1) = k
  BY <1>7, <1>8, <1>9
<1> QED
  BY <1>5, <1>10 DEF Select0

\* Every number below the number of 1s is the rank of a 1, which select1 finds.
LEMMA Select1Finds ==
  ASSUME NEW vec \in Seq(BOOLEAN), NEW k \in 0 .. Ones(vec) - 1
  PROVE  /\ Select1(vec, k) \in 0 .. Len(vec) - 1
         /\ Bit(vec, Select1(vec, k))
         /\ Rank1(vec, Select1(vec, k)) = k
<1>1. Len(vec) \in Nat /\ \A i \in 0 .. Len(vec) : Rank1(vec, i) \in Nat
  BY LenProperties, RankType
<1> DEFINE passed == {i \in 0 .. Len(vec) : Rank1(vec, i) > k}
<1>2. Len(vec) \in passed /\ passed \in SUBSET Nat
  BY <1>1 DEF Ones
<1>3. PICK m \in passed : \A i \in passed : m <= i
  BY <1>2, LeastNumber
<1>4. m # 0
  BY RankOfZero
<1>5. m - 1 \in 0 .. Len(vec) - 1 /\ m - 1 \in 0 .. Len(vec) /\ m - 1 + 1 = m
  BY <1>1, <1>4
<1>6. m - 1 \notin passed
  BY <1>1, <1>3, <1>5
<1>7. Rank1(vec, m) = Rank1(vec, m - 1) + (IF Bit(vec, m - 1) THEN 1 ELSE 0)
  BY <1>5, RankStep
<1>8. Rank1(vec, m) > k /\ Rank1(vec, m - 1) <= k
  BY <1>1, <1>5, <1>6
<1>9. Rank1(vec, m) \in Nat /\ Rank1(vec, m - 1) \in Nat
  BY <1>1, <1>5
<1> HIDE DEF passed
<1>10. Bit(vec, m - 1) /\ Rank1(vec, m - 1) = k
  BY <1>7, <1>8, <1>9
<1> QED
  BY <1>5, <1>10 DEF Select1

-----------------------------------------------------------------------------
(* The index.                                                              *)

\* Arithmetic with a factor that is not a number: multiples are in order.
LEMMA ProductOrder ==
  ASSUME NEW m \in Nat, NEW a \in Nat, NEW b \in Nat
  PROVE  /\ m * a \in Nat
         /\ a <= b => m * a <= m * b
         /\ a < b => m * a + m <= m * b
OBVIOUS

LEMMA Divided ==
  ASSUME NEW m \in Nat \ {0}, NEW i \in Nat
  PROVE  /\ i \div m \in Nat /\ i % m \in 0 .. m - 1
         /\ i = m * (i \div m) + (i % m)
OBVIOUS

\* There is only one quotient with a remainder below the divisor.
LEMMA DividedOnce ==
  ASSUME NEW m \in Nat \ {0}, NEW q \in Nat, NEW r \in 0 .. m - 1
  PROVE  /\ (m * q + r) \div m = q
         /\ (m * q + r) % m = r
<1>1. PICK i \in Nat : i = m * q + r
  <2>1. m * q + r \in Nat
    BY ProductOrder
  <2> QED
    BY <2>1
<1>2. PICK d \in Nat : d = i \div m
  BY <1>1, Divided
<1>3. PICK e \in 0 .. m - 1 : e = i % m
  BY <1>1, Divided
<1>4. i = m * d + e
  BY <1>1, <1>2, <1>3, Divided
<1>5. (d < q => m * d + m <= m * q) /\ (q < d => m * q + m <= m * d)
  BY ProductOrder
<1>6. PICK a \in Nat : a = m * d
  BY ProductOrder
<1>7. PICK b \in Nat : b = m * q
  BY ProductOrder
<1>8. d = q
  BY <1>1, <1>4, <1>5, <1>6, <1>7
<1>9. e = r
  BY <1>1, <1>4, <1>6, <1>7, <1>8
<1> QED
  BY <1>1, <1>2, <1>3, <1>8, <1>9

-----------------------------------------------------------------------------
LEMMA SizesOK == UnitSize \in Nat \ {0} /\ BlockSize \in Nat \ {0} /\ NearBlocks \in Nat
BY SizesAssumption DEF BlockSize

\* A position is a place in a unit of a block.
LEMMA Located ==
  ASSUME NEW i \in Nat
  PROVE  /\ i \div BlockSize \in Nat
         /\ (i \div UnitSize) % 8 \in 0 .. 7
         /\ i % UnitSize \in 0 .. UnitSize - 1
         /\ i \div UnitSize = 8 * (i \div BlockSize) + ((i \div UnitSize) % 8)
         /\ i % BlockSize = UnitSize * ((i \div UnitSize) % 8) + (i % UnitSize)
         /\ i = BlockSize * (i \div BlockSize) + UnitSize * ((i \div UnitSize) % 8)
                  + (i % UnitSize)
<1>1. PICK q \in Nat : q = i \div UnitSize
  BY SizesOK, Divided
<1>2. PICK o \in 0 .. UnitSize - 1 : o = i % UnitSize
  BY SizesOK, Divided
<1>3. i = UnitSize * q + o
  BY <1>1, <1>2, SizesOK, Divided
<1>4. PICK r \in Nat : r = q \div 8
  BY <1>1
<1>5. PICK u \in 0 .. 7 : u = q % 8
  BY <1>1
<1>6. q = 8 * r + u
  BY <1>4, <1>5
<1>7. PICK p \in Nat : p = UnitSize * u + o
  BY SizesOK, ProductOrder
<1>8. p \in 0 .. BlockSize - 1
  <2>1. UnitSize * u <= UnitSize * 7
    BY SizesOK, ProductOrder
  <2>2. UnitSize * u \in Nat
    BY SizesOK, ProductOrder
  <2> QED
    BY <1>7, <2>1, <2>2, SizesOK DEF BlockSize
<1>9. i = BlockSize * r + p
  <2>1. UnitSize * (8 * r + u) + o = (8 * UnitSize) * r + (UnitSize * u + o)
    BY SizesOK
  <2> QED
    BY <1>3, <1>6, <1>7, <2>1 DEF BlockSize
<1>10. i \div BlockSize = r /\ i % BlockSize = p
  BY <1>8, <1>9, SizesOK, DividedOnce
<1>11. i = BlockSize * r + UnitSize * u + o
  <2>1. BlockSize * r \in Nat /\ UnitSize * u \in Nat
    BY SizesOK, ProductOrder
  <2> QED
    BY <1>7, <1>9, <2>1
<1> QED
  BY <1>1, <1>2, <1>5, <1>6, <1>7, <1>10, <1>11, SizesOK

\* And a place in a unit of a block is one position.
LEMMA Position ==
  ASSUME NEW i \in Nat, NEW r \in Nat, NEW u \in 0 .. 7, NEW o \in 0 .. UnitSize - 1,
         i = BlockSize * r + UnitSize * u + o
  PROVE  /\ i \in Nat
         /\ i \div BlockSize = r /\ (i \div UnitSize) % 8 = u /\ i % UnitSize = o
         /\ i \div UnitSize = 8 * r + u
         /\ i = UnitSize * (8 * r + u) + o
<1>1. BlockSize * r \in Nat /\ UnitSize * u \in Nat
  BY SizesOK, ProductOrder
<1>2. PICK p \in Nat : p = UnitSize * u + o
  BY <1>1, SizesOK
<1>3. p \in 0 .. BlockSize - 1
  <2>1. UnitSize * u <= UnitSize * 7
    BY SizesOK, ProductOrder
  <2> QED
    BY <1>1, <1>2, <2>1, SizesOK DEF BlockSize
<1>4. i = BlockSize * r + p /\ i \in Nat
  BY <1>1, <1>2, SizesOK
<1>5. i \div BlockSize = r
  BY <1>3, <1>4, SizesOK, DividedOnce
<1>6. UnitSize * (8 * r + u) + o = (8 * UnitSize) * r + (UnitSize * u + o)
  BY SizesOK
<1>7. PICK q \in Nat : q = 8 * r + u
  OBVIOUS
<1>8. i = UnitSize * q + o
  BY <1>2, <1>4, <1>6, <1>7 DEF BlockSize
<1>9. i \div UnitSize = q /\ i % UnitSize = o
  BY <1>8, SizesOK, DividedOnce
<1>10. q % 8 = u
  BY <1>7
<1> QED
  BY <1>4, <1>5, <1>7, <1>8, <1>9, <1>10

-----------------------------------------------------------------------------
\* The bits like b in front of position i.
Count(v, b, i) == IF b THEN Rank1(v, i) ELSE Rank0(v, i)

\* From i to j there are at most j - i more of them.
LEMMA RankGap ==
  ASSUME NEW v \in Seq(BOOLEAN), NEW i \in 0 .. Len(v), NEW j \in i .. Len(v)
  PROVE  /\ Rank1(v, i) \in 0 .. i /\ Rank1(v, j) \in Nat
         /\ Rank1(v, j) - Rank1(v, i) \in 0 .. j - i
<1>1. Len(v) \in Nat /\ i \in Nat /\ j \in Nat /\ j \in 0 .. Len(v)
  BY LenProperties
<1>2. /\ Rank1(v, i) \in Nat /\ Rank0(v, i) \in Nat
      /\ Rank1(v, i) + Rank0(v, i) = i
  BY RankType
<1>3. /\ Rank1(v, j) \in Nat /\ Rank0(v, j) \in Nat
      /\ Rank1(v, j) + Rank0(v, j) = j
  BY <1>1, RankType
<1>4. Rank1(v, i) <= Rank1(v, j) /\ Rank0(v, i) <= Rank0(v, j)
  BY RankMonotone
<1> QED
  BY <1>1, <1>2, <1>3, <1>4

\* The units hold the first n bits of v, and 0s behind them.
UnitsHold(us, v, n) ==
  /\ us \in Seq([0 .. UnitSize - 1 -> BOOLEAN])
  /\ n <= UnitSize * Len(us) /\ UnitSize * Len(us) < n + UnitSize
  /\ \A x \in 1 .. Len(us) : \A o \in 0 .. UnitSize - 1 :
       us[x][o] <=> UnitSize * (x - 1) + o < n /\ Bit(v, UnitSize * (x - 1) + o)

Zeroes == [i \in 0 .. UnitSize - 1 |-> FALSE]

\* The units with room for bit n, and with it.
Room(us, n) == IF n = UnitSize * Len(us) THEN Append(us, Zeroes) ELSE us

Pushed(us, v, n) ==
  IF Bit(v, n) THEN [Room(us, n) EXCEPT ![n \div UnitSize + 1][n % UnitSize] = TRUE]
               ELSE Room(us, n)

\* PushBack writes the next bit.
LEMMA UnitsPush ==
  ASSUME NEW us, NEW v \in Seq(BOOLEAN), NEW n \in 0 .. Len(v) - 1, UnitsHold(us, v, n)
  PROVE  UnitsHold(Pushed(us, v, n), v, n + 1)
<1>30. PICK room : room = Room(us, n)
  OBVIOUS
<1>31. PICK more : more = Pushed(us, v, n)
  OBVIOUS
<1> DEFINE Unit == [0 .. UnitSize - 1 -> BOOLEAN]
<1>1. /\ UnitSize \in Nat \ {0} /\ n \in Nat
      /\ us \in Seq(Unit) /\ Len(us) \in Nat /\ DOMAIN us = 1 .. Len(us)
  BY SizesOK, LenProperties DEF UnitsHold
<1>2. PICK q \in Nat : q = n \div UnitSize
  BY <1>1, Divided
<1>3. PICK o \in 0 .. UnitSize - 1 : o = n % UnitSize
  BY <1>1, Divided
<1>4. n = UnitSize * q + o
  BY <1>1, <1>2, <1>3, Divided
<1>5. Zeroes \in Unit
  BY DEF Zeroes
<1> HIDE DEF Unit
<1>0. UnitSize \in Nat /\ 0 < UnitSize /\ n \in Nat
  BY <1>1
<1>6. PICK a \in Nat : a = UnitSize * q
  BY <1>0, ProductOrder
<1>7. PICK c \in Nat : c = UnitSize * Len(us)
  BY <1>1, <1>0, ProductOrder
<1>20. /\ UnitSize * (q + 1) = a + UnitSize
       /\ Len(us) < q => c + UnitSize <= a
       /\ q + 1 < Len(us) => a + UnitSize + UnitSize <= c
       /\ Len(us) = q => c = a
       /\ Len(us) = q + 1 => c = a + UnitSize
  <2>1. UnitSize * (q + 1) = UnitSize * q + UnitSize
    BY <1>0
  <2>2. q + 1 \in Nat
    OBVIOUS
  <2>3. /\ Len(us) < q => UnitSize * Len(us) + UnitSize <= UnitSize * q
        /\ q + 1 < Len(us) => UnitSize * (q + 1) + UnitSize <= UnitSize * Len(us)
    BY <1>0, <1>1, <2>2, ProductOrder
  <2> QED
    BY <1>6, <1>7, <2>1, <2>3
<1>21. n = a + o /\ n <= c /\ c < n + UnitSize
  BY <1>4, <1>6, <1>7 DEF UnitsHold
<1>22. Len(us) \in Nat
  BY <1>1
<1>8. Len(us) = q \/ Len(us) = q + 1
  BY <1>0, <1>20, <1>21, <1>22
<1>9. n = UnitSize * Len(us) <=> Len(us) = q
  BY <1>0, <1>7, <1>8, <1>20, <1>21
<1>10. /\ room \in Seq(Unit) /\ Len(room) = q + 1 /\ DOMAIN room = 1 .. q + 1
       /\ \A x \in 1 .. Len(us) : room[x] = us[x]
       /\ Len(us) = q => room[q + 1] = Zeroes
  <2>1. CASE Len(us) = q
    <3>1. room = Append(us, Zeroes)
      BY <1>9, <1>30, <2>1 DEF Room
    <3>2. /\ Append(us, Zeroes) \in Seq(Unit)
          /\ Len(Append(us, Zeroes)) = Len(us) + 1
          /\ \A x \in 1 .. Len(us) : Append(us, Zeroes)[x] = us[x]
          /\ Append(us, Zeroes)[Len(us) + 1] = Zeroes
      BY <1>1, <1>5, AppendProperties
    <3>3. DOMAIN room = 1 .. Len(room)
      BY <3>1, <3>2, LenProperties
    <3> QED
      BY <2>1, <3>1, <3>2, <3>3
  <2>2. CASE Len(us) = q + 1
    <3>1. room = us
      BY <1>9, <1>30, <2>2 DEF Room
    <3> QED
      BY <1>1, <2>2, <3>1
  <2> QED
    BY <1>8, <2>1, <2>2
<1>11. ASSUME NEW x \in 1 .. q + 1, NEW p \in 0 .. UnitSize - 1
       PROVE  room[x][p] <=> UnitSize * (x - 1) + p < n /\ Bit(v, UnitSize * (x - 1) + p)
  <2>1. CASE x \in 1 .. Len(us)
    BY <1>10, <2>1 DEF UnitsHold
  <2>2. CASE x \notin 1 .. Len(us)
    <3>1. x = q + 1 /\ Len(us) = q
      BY <1>8, <2>2
    <3>2. ~room[x][p]
      BY <1>10, <3>1 DEF Zeroes
    <3>3. n = UnitSize * q /\ x - 1 = q
      BY <1>9, <3>1
    <3>4. ~(a + p < a)
      BY <1>0
    <3> QED
      BY <1>6, <3>2, <3>3, <3>4
  <2> QED
    BY <2>1, <2>2
<1>12. Bit(v, n) \in BOOLEAN
  BY <1>1, ElementOfSeq, LenProperties DEF Bit
<1>13. /\ more \in Seq(Unit) /\ Len(more) = q + 1
       /\ \A x \in 1 .. q + 1 : \A p \in 0 .. UnitSize - 1 :
            more[x][p] = IF x = q + 1 /\ p = o THEN room[x][p] \/ Bit(v, n) ELSE room[x][p]
  <2>1. room[q + 1] \in Unit
    BY <1>10, ElementOfSeq
  <2>2. ASSUME NEW x \in 1 .. q + 1 PROVE room[x] \in Unit
    BY <1>10, ElementOfSeq
  <2>3. \A x \in 1 .. q + 1 : \A p \in 0 .. UnitSize - 1 : room[x][p] \in BOOLEAN
    BY <2>2 DEF Unit
  <2>4. CASE ~Bit(v, n)
    BY <1>10, <1>30, <1>31, <2>3, <2>4 DEF Pushed
  <2>5. CASE Bit(v, n)
    <3> DEFINE last == [room[q + 1] EXCEPT ![o] = TRUE]
    <3>1. more = [room EXCEPT ![q + 1] = last]
      BY <1>2, <1>3, <1>30, <1>31, <2>5 DEF Pushed
    <3>2. last \in Unit /\ \A p \in 0 .. UnitSize - 1 :
            last[p] = IF p = o THEN TRUE ELSE room[q + 1][p]
      BY <2>1 DEF Unit
    <3> HIDE DEF last
    <3>3. more \in Seq(Unit) /\ Len(more) = Len(room)
          /\ \A x \in 1 .. q + 1 : more[x] = IF x = q + 1 THEN last ELSE room[x]
      <4>1. PICK w \in 1 .. Len(room) : w = q + 1
        BY <1>10
      <4>2. /\ [room EXCEPT ![w] = last] \in Seq(Unit)
            /\ Len([room EXCEPT ![w] = last]) = Len(room)
            /\ \A j \in 1 .. Len(room) :
                 [room EXCEPT ![w] = last][j] = IF j = w THEN last ELSE room[j]
        BY <1>10, <3>2, ExceptSeq
      <4> QED
        BY <1>10, <3>1, <4>1, <4>2
    <3>4. Len(more) = q + 1
      BY <1>10, <3>3
    <3>5. ASSUME NEW x \in 1 .. q + 1, NEW p \in 0 .. UnitSize - 1
          PROVE  more[x][p] = IF x = q + 1 /\ p = o THEN room[x][p] \/ Bit(v, n)
                                                   ELSE room[x][p]
      <4>1. CASE x = q + 1
        <5>1. more[x][p] = last[p] /\ room[x] = room[q + 1]
          BY <3>3, <4>1
        <5> QED
          BY <2>5, <3>2, <4>1, <5>1
      <4>2. CASE x # q + 1
        BY <3>3, <4>2
      <4> QED
        BY <4>1, <4>2
    <3> QED
      BY <3>3, <3>4, <3>5
  <2> QED
    BY <2>4, <2>5
<1>14. n + 1 <= UnitSize * Len(more) /\ UnitSize * Len(more) < n + 1 + UnitSize
  <2>1. UnitSize * Len(more) = a + UnitSize
    BY <1>13, <1>20
  <2> QED
    BY <1>0, <1>21, <2>1
<1>15. ASSUME NEW x \in 1 .. q + 1, NEW p \in 0 .. UnitSize - 1
       PROVE  more[x][p] <=> UnitSize * (x - 1) + p < n + 1 /\ Bit(v, UnitSize * (x - 1) + p)
  <2>1. PICK y \in Nat : y = x - 1
    OBVIOUS
  <2>2. PICK z \in Nat : z = UnitSize * y
    BY <1>0, ProductOrder
  <2>3. z + p = n <=> x = q + 1 /\ p = o
    <3>1. y <= q /\ (y = q <=> x = q + 1)
      BY <2>1
    <3>2. y < q => z + UnitSize <= a
      BY <1>0, <1>6, <2>2, ProductOrder
    <3>3. y = q => z = a
      BY <1>6, <2>2
    <3>4. y < q => z + p # n
      BY <1>0, <1>21, <3>2
    <3>5. y = q => (z + p = n <=> p = o)
      BY <1>0, <1>21, <3>3
    <3>6. y < q \/ y = q
      BY <3>1
    <3> QED
      BY <3>1, <3>4, <3>5, <3>6
  <2>4. room[x][p] <=> z + p < n /\ Bit(v, z + p)
    BY <1>11, <2>1, <2>2
  <2>5. more[x][p] = IF x = q + 1 /\ p = o THEN room[x][p] \/ Bit(v, n) ELSE room[x][p]
    BY <1>13
  <2>6. /\ z + p < n + 1 <=> z + p < n \/ z + p = n
        /\ z + p = n => ~(z + p < n)
    BY <1>0, <2>2
  <2>7. CASE z + p = n
    BY <2>1, <2>2, <2>3, <2>4, <2>5, <2>6, <2>7
  <2>8. CASE z + p # n
    BY <2>1, <2>2, <2>3, <2>4, <2>5, <2>6, <2>8
  <2> QED
    BY <2>7, <2>8
<1> QED
  BY <1>13, <1>14, <1>15, <1>31 DEF UnitsHold, Unit

-----------------------------------------------------------------------------
CountRow == [abs : Nat, rel : [1 .. 7 -> Int]]

\* What a row is once its counts within the block are replaced.
LEMMA RowWithRel ==
  ASSUME NEW c \in CountRow, NEW new
  PROVE  [c EXCEPT !.rel = new] = [abs |-> c.abs, rel |-> new]
BY DEF CountRow

\* The counts of block r, as far as the loop has come when it is at n.
RowTo(row, v, r, n) ==
  /\ row.abs = IF BlockSize * r < n THEN Rank1(v, BlockSize * r) ELSE 0
  /\ \A u \in 1 .. 7 :
       row.rel[u] = IF BlockSize * r + UnitSize * u < n
                    THEN Rank1(v, BlockSize * r + UnitSize * u) - Rank1(v, BlockSize * r)
                    ELSE 0

RanksTo(rs, v, n) ==
  /\ rs \in Seq(CountRow)
  /\ \A r \in 1 .. Len(rs) : RowTo(rs[r], v, r - 1, n)

\* WithCount for the ranks and the count it is given.
Written(rs, i, count) ==
  LET block == i \div BlockSize + 1
      unit == (i \div UnitSize) % 8
  IN  IF i % UnitSize # 0 THEN rs
      ELSE IF unit = 0 THEN [rs EXCEPT ![block].abs = count]
      ELSE [rs EXCEPT ![block].rel[unit] = count - rs[block].abs]

\* The start of a unit is at n if n is at the start of that unit.
LEMMA StartOfUnit ==
  ASSUME NEW n \in Nat, NEW x \in Nat, NEW w \in 0 .. 7
  PROVE  BlockSize * x + UnitSize * w = n <=>
           /\ n % UnitSize = 0 /\ n \div BlockSize = x /\ (n \div UnitSize) % 8 = w
<1>1. UnitSize \in Nat /\ 0 < UnitSize
  BY SizesOK
<1>2. BlockSize * x \in Nat /\ UnitSize * w \in Nat
  BY SizesOK, ProductOrder
<1>3. PICK zero \in 0 .. UnitSize - 1 : zero = 0
  BY <1>1
<1>4. ASSUME BlockSize * x + UnitSize * w = n
      PROVE  n % UnitSize = 0 /\ n \div BlockSize = x /\ (n \div UnitSize) % 8 = w
  <2>1. n = BlockSize * x + UnitSize * w + zero
    BY <1>2, <1>3, <1>4
  <2>3. n % UnitSize = zero /\ n \div BlockSize = x /\ (n \div UnitSize) % 8 = w
    BY <2>1, Position
  <2> QED
    BY <1>3, <2>3
<1>5. ASSUME n % UnitSize = 0, n \div BlockSize = x, (n \div UnitSize) % 8 = w
      PROVE  BlockSize * x + UnitSize * w = n
  <2>1. n = BlockSize * x + UnitSize * w + 0
    BY <1>5, Located
  <2> QED
    BY <1>2, <2>1
<1> QED
  BY <1>4, <1>5

LEMMA RanksWritten ==
  ASSUME NEW rs, NEW v \in Seq(BOOLEAN), NEW n \in 0 .. Len(v) - 1,
         RanksTo(rs, v, n), n < BlockSize * Len(rs)
  PROVE  /\ RanksTo(Written(rs, n, Rank1(v, n)), v, n + 1)
         /\ Len(Written(rs, n, Rank1(v, n))) = Len(rs)
<1>1. n \in Nat /\ Len(rs) \in Nat /\ Rank1(v, n) \in Nat
      /\ rs \in Seq(CountRow) /\ DOMAIN rs = 1 .. Len(rs)
  <2>1. Len(v) \in Nat
    BY LenProperties
  <2>2. rs \in Seq(CountRow)
    BY DEF RanksTo
  <2>3. n \in Nat /\ n \in 0 .. Len(v)
    BY <2>1
  <2> QED
    BY <2>2, <2>3, RankType, LenProperties
<1>2. PICK more : more = Written(rs, n, Rank1(v, n))
  OBVIOUS
<1>3. PICK r \in Nat : r = n \div BlockSize
  BY <1>1, SizesOK, Divided
<1>4. PICK u \in 0 .. 7 : u = (n \div UnitSize) % 8
  BY <1>1, Located
<1>5. \A x \in Nat : \A w \in 0 .. 7 :
        BlockSize * x + UnitSize * w = n <=> n % UnitSize = 0 /\ r = x /\ u = w
  BY <1>1, <1>3, <1>4, StartOfUnit
<1>6. r + 1 \in 1 .. Len(rs)
  <2>1. Len(rs) <= r => BlockSize * Len(rs) <= BlockSize * r
    BY <1>1, SizesOK, ProductOrder
  <2>2. BlockSize * r <= n
    <3>1. n = BlockSize * r + (n % BlockSize) /\ n % BlockSize \in 0 .. BlockSize - 1
      BY <1>1, <1>3, SizesOK, Divided
    <3>2. BlockSize * r \in Nat /\ BlockSize \in Nat
      BY SizesOK, ProductOrder
    <3> QED
      BY <3>1, <3>2
  <2>3. BlockSize * r \in Nat /\ BlockSize * Len(rs) \in Nat
    BY <1>1, SizesOK, ProductOrder
  <2> QED
    BY <1>1, <2>1, <2>2, <2>3
<1>7. rs[r + 1] \in CountRow
  BY <1>1, <1>6, ElementOfSeq
<1>8. \A x \in Nat : \A w \in 0 .. 7 :
        /\ BlockSize * x \in Nat
        /\ BlockSize * x + UnitSize * w \in Nat
        /\ BlockSize * x + UnitSize * w < n + 1 <=>
             BlockSize * x + UnitSize * w < n \/ BlockSize * x + UnitSize * w = n
        /\ BlockSize * x + UnitSize * w = n => ~(BlockSize * x + UnitSize * w < n)
  <2> TAKE x \in Nat
  <2> TAKE w \in 0 .. 7
  <2>1. PICK a \in Nat : a = BlockSize * x
    BY SizesOK, ProductOrder
  <2>2. PICK b \in Nat : b = UnitSize * w
    BY SizesOK, ProductOrder
  <2>3. /\ a + b \in Nat
        /\ a + b < n + 1 <=> a + b < n \/ a + b = n
        /\ a + b = n => ~(a + b < n)
    BY <1>1
  <2> QED
    BY <2>1, <2>2, <2>3
<1>9. \A x \in Nat :
        /\ BlockSize * x = n <=> n % UnitSize = 0 /\ r = x /\ u = 0
        /\ BlockSize * x < n + 1 <=> BlockSize * x < n \/ BlockSize * x = n
        /\ BlockSize * x = n => ~(BlockSize * x < n)
  <2> TAKE x \in Nat
  <2>1. PICK w \in 0 .. 7 : w = 0
    OBVIOUS
  <2>2. PICK a \in Nat : a = BlockSize * x
    BY SizesOK, ProductOrder
  <2>3. UnitSize * 0 = 0 /\ a + 0 = a
    BY SizesOK
  <2>4. BlockSize * x + UnitSize * w = a
    BY <2>1, <2>2, <2>3
  <2>5. /\ BlockSize * x + UnitSize * w = n <=> n % UnitSize = 0 /\ r = x /\ u = w
        /\ BlockSize * x + UnitSize * w < n + 1 <=>
             BlockSize * x + UnitSize * w < n \/ BlockSize * x + UnitSize * w = n
        /\ BlockSize * x + UnitSize * w = n => ~(BlockSize * x + UnitSize * w < n)
    BY <1>5, <1>8
  <2>6. /\ a = n <=> n % UnitSize = 0 /\ r = x /\ u = w
        /\ a < n + 1 <=> a < n \/ a = n
        /\ a = n => ~(a < n)
    BY <2>4, <2>5
  <2> QED
    BY <2>1, <2>2, <2>6
<1>10. ASSUME NEW x \in 1 .. Len(rs)
       PROVE  /\ RowTo(rs[x], v, x - 1, n) /\ x - 1 \in Nat /\ rs[x] \in CountRow
              /\ (r = x - 1 <=> x = r + 1)
  BY <1>1, ElementOfSeq DEF RanksTo
<1>14. ASSUME NEW x \in 1 .. Len(rs), ~(n % UnitSize = 0 /\ x = r + 1)
       PROVE  RowTo(rs[x], v, x - 1, n + 1)
  <2>1. PICK y \in Nat : y = x - 1
    BY <1>10
  <2>2. RowTo(rs[x], v, y, n) /\ ~(n % UnitSize = 0 /\ r = y)
    BY <1>10, <1>14, <2>1
  <2>3. BlockSize * y < n + 1 <=> BlockSize * y < n
    BY <1>9, <2>2
  <2>4. ASSUME NEW w \in 1 .. 7
        PROVE  BlockSize * y + UnitSize * w < n + 1 <=> BlockSize * y + UnitSize * w < n
    <3>1. w \in 0 .. 7
      OBVIOUS
    <3> QED
      BY <1>5, <1>8, <2>2, <3>1
  <2>5. RowTo(rs[x], v, y, n + 1)
    BY <2>2, <2>3, <2>4 DEF RowTo
  <2> QED
    BY <2>1, <2>5
<1>11. CASE n % UnitSize # 0
  <2>1. more = rs
    BY <1>2, <1>11 DEF Written
  <2>2. ASSUME NEW x \in 1 .. Len(rs) PROVE RowTo(rs[x], v, x - 1, n + 1)
    BY <1>11, <1>14
  <2> QED
    BY <1>1, <1>2, <2>1, <2>2 DEF RanksTo
<1>12. CASE n % UnitSize = 0 /\ u = 0
  <2> DEFINE row == [rs[r + 1] EXCEPT !.abs = Rank1(v, n)]
  <2>1. more = [rs EXCEPT ![r + 1] = row]
    BY <1>2, <1>3, <1>4, <1>12 DEF Written
  <2>2. row \in CountRow /\ row.abs = Rank1(v, n) /\ row.rel = rs[r + 1].rel
    BY <1>1, <1>7 DEF CountRow
  <2> HIDE DEF row
  <2>3. /\ more \in Seq(CountRow) /\ Len(more) = Len(rs)
        /\ \A x \in 1 .. Len(rs) : more[x] = IF x = r + 1 THEN row ELSE rs[x]
    <3>1. PICK w \in 1 .. Len(rs) : w = r + 1
      BY <1>6
    <3>2. /\ [rs EXCEPT ![w] = row] \in Seq(CountRow)
          /\ Len([rs EXCEPT ![w] = row]) = Len(rs)
          /\ \A j \in 1 .. Len(rs) :
               [rs EXCEPT ![w] = row][j] = IF j = w THEN row ELSE rs[j]
      BY <1>1, <2>2, ExceptSeq
    <3> QED
      BY <2>1, <3>1, <3>2
  <2>4. ASSUME NEW x \in 1 .. Len(rs) PROVE RowTo(more[x], v, x - 1, n + 1)
    <3>1. CASE x = r + 1
      <4>1. more[x] = row /\ BlockSize * (x - 1) = n
        BY <1>9, <1>10, <1>12, <2>3, <3>1
      <4>2. row.abs = IF BlockSize * (x - 1) < n + 1 THEN Rank1(v, BlockSize * (x - 1)) ELSE 0
        BY <1>9, <1>10, <2>2, <4>1
      <4>3. ASSUME NEW w \in 1 .. 7
            PROVE  /\ row.rel[w] = rs[x].rel[w] /\ w \in 0 .. 7 /\ w # u
                   /\ BlockSize * (x - 1) + UnitSize * w # n
        BY <1>5, <1>10, <1>12, <2>2, <3>1, SMTT(30)
      <4> QED
        BY <1>8, <1>10, <4>1, <4>2, <4>3 DEF RowTo
    <3>2. CASE x # r + 1
      <4>1. more[x] = rs[x]
        BY <2>3, <3>2
      <4> QED
        BY <1>14, <3>2, <4>1
    <3> QED
      BY <3>1, <3>2
  <2> QED
    BY <1>2, <2>3, <2>4 DEF RanksTo
<1>13. CASE n % UnitSize = 0 /\ u # 0
  <2> DEFINE count == Rank1(v, n) - rs[r + 1].abs
             rel == [rs[r + 1].rel EXCEPT ![u] = count]
             row == [rs[r + 1] EXCEPT !.rel = rel]
  <2>1. more = [rs EXCEPT ![r + 1] = row]
    BY <1>2, <1>3, <1>4, <1>13 DEF Written
  <2>2. u \in 1 .. 7
    BY <1>13
  <2>3. count \in Int
    <3>1. Rank1(v, n) \in Nat /\ rs[r + 1].abs \in Nat
      BY <1>1, <1>7 DEF CountRow
    <3> QED
      BY <3>1
  <2> HIDE DEF count
  <2>4. /\ row \in CountRow /\ row.abs = rs[r + 1].abs
        /\ \A w \in 1 .. 7 : row.rel[w] = IF w = u THEN count ELSE rs[r + 1].rel[w]
    <3>1. rs[r + 1].rel \in [1 .. 7 -> Int] /\ rs[r + 1].abs \in Nat
          /\ rs[r + 1] = [abs |-> rs[r + 1].abs, rel |-> rs[r + 1].rel]
      BY <1>7 DEF CountRow
    <3>2. rel \in [1 .. 7 -> Int]
          /\ \A w \in 1 .. 7 : rel[w] = IF w = u THEN count ELSE rs[r + 1].rel[w]
      BY <2>2, <2>3, <3>1
    <3> HIDE DEF rel
    <3>3. row = [abs |-> rs[r + 1].abs, rel |-> rel]
      <4>1. rs[r + 1] \in CountRow
        BY <1>7
      <4> QED
        BY <4>1, RowWithRel
    <3> QED
      BY <3>1, <3>2, <3>3 DEF CountRow
  <2> HIDE DEF row
  <2>5. /\ more \in Seq(CountRow) /\ Len(more) = Len(rs)
        /\ \A x \in 1 .. Len(rs) : more[x] = IF x = r + 1 THEN row ELSE rs[x]
    <3>1. PICK w \in 1 .. Len(rs) : w = r + 1
      BY <1>6
    <3>2. /\ [rs EXCEPT ![w] = row] \in Seq(CountRow)
          /\ Len([rs EXCEPT ![w] = row]) = Len(rs)
          /\ \A j \in 1 .. Len(rs) :
               [rs EXCEPT ![w] = row][j] = IF j = w THEN row ELSE rs[j]
      BY <1>1, <2>4, ExceptSeq
    <3> QED
      BY <2>1, <3>1, <3>2
  <2>6. ASSUME NEW x \in 1 .. Len(rs) PROVE RowTo(more[x], v, x - 1, n + 1)
    <3>1. CASE x = r + 1
      <4>1. more[x] = row /\ BlockSize * (x - 1) + UnitSize * u = n
            /\ rs[r + 1] = rs[x]
        BY <1>5, <1>10, <1>13, <2>5, <3>1
      <4>2. BlockSize * (x - 1) < n
        <5>1. PICK a \in Nat : a = BlockSize * (x - 1)
          BY <1>10, SizesOK, ProductOrder
        <5>2. PICK b \in Nat : b = UnitSize * u
          BY SizesOK, ProductOrder
        <5>3. UnitSize * 0 + UnitSize <= UnitSize * u /\ UnitSize * 0 = 0
              /\ UnitSize \in Nat /\ 0 < UnitSize
          BY <2>2, SizesOK, ProductOrder
        <5>4. a + b = n /\ 0 < b
          BY <4>1, <5>1, <5>2, <5>3
        <5>5. a < n
          BY <1>1, <5>4
        <5> QED
          BY <5>1, <5>5
      <4>3. row.abs = Rank1(v, BlockSize * (x - 1))
            /\ BlockSize * (x - 1) < n + 1
        BY <1>9, <1>10, <2>4, <4>1, <4>2 DEF RowTo
      <4>4. ASSUME NEW w \in 1 .. 7
            PROVE  row.rel[w] = IF BlockSize * (x - 1) + UnitSize * w < n + 1
                                THEN Rank1(v, BlockSize * (x - 1) + UnitSize * w)
                                       - Rank1(v, BlockSize * (x - 1))
                                ELSE 0
        <5>0. w \in 0 .. 7 /\ x - 1 \in Nat
          BY <1>10
        <5>1. CASE w = u
          <6>1. row.rel[w] = count /\ BlockSize * (x - 1) + UnitSize * w < n + 1
            BY <1>8, <2>4, <4>1, <5>0, <5>1
          <6> QED
            BY <2>4, <4>1, <4>3, <5>1, <6>1 DEF count
        <5>2. CASE w # u
          <6>1. row.rel[w] = rs[x].rel[w]
                /\ BlockSize * (x - 1) + UnitSize * w # n
            BY <1>5, <2>4, <4>1, <5>0, <5>2
          <6> QED
            BY <1>8, <1>10, <5>0, <6>1 DEF RowTo
        <5> QED
          BY <5>1, <5>2
      <4> QED
        BY <4>1, <4>3, <4>4 DEF RowTo
    <3>2. CASE x # r + 1
      <4>1. more[x] = rs[x]
        BY <2>5, <3>2
      <4> QED
        BY <1>14, <3>2, <4>1
    <3> QED
      BY <3>1, <3>2
  <2> QED
    BY <1>2, <2>5, <2>6 DEF RanksTo
<1> QED
  BY <1>11, <1>12, <1>13

-----------------------------------------------------------------------------
\* There is a block for each bit, and one more.
BlocksFor(rs, n) ==
  /\ Len(rs) >= 1
  /\ n <= BlockSize * (Len(rs) - 1) /\ BlockSize * (Len(rs) - 1) < n + BlockSize

Lesser(x, y) == IF x < y THEN x ELSE y

\* The finished ranks of the n bits of v: behind the last bit, all 1s count.
RanksAll(rs, v, n) ==
  /\ rs \in Seq(CountRow)
  /\ \A r \in 1 .. Len(rs) : rs[r].abs = Rank1(v, Lesser(BlockSize * (r - 1), n))
  /\ \A r \in 1 .. Len(rs) - 1 : \A u \in 1 .. 7 :
       rs[r].rel[u] = Rank1(v, Lesser(BlockSize * (r - 1) + UnitSize * u, n))
                        - Rank1(v, BlockSize * (r - 1))
  /\ \A u \in 1 .. 7 : rs[Len(rs)].rel[u] = 0

\* LastFilled and the last count of all, for the ranks they are given.
Filled(rs, n, count) ==
  LET block == (n - 1) \div BlockSize + 1
      unit == ((n - 1) \div UnitSize) % 8
  IN  IF n % BlockSize = 0 THEN rs
      ELSE [rs EXCEPT ![block].rel =
             [u \in 1 .. 7 |-> IF u > unit THEN count - rs[block].abs
                                           ELSE rs[block].rel[u]]]

Closed(rs, n, count) == [Filled(rs, n, count) EXCEPT ![Len(rs)].abs = count]

\* A unit of a block before the last full one ends in front of the next block.
LEMMA UnitInBlock ==
  ASSUME NEW r \in Nat, NEW u \in 0 .. 7
  PROVE  /\ BlockSize * r \in Nat /\ UnitSize * u \in Nat
         /\ BlockSize * (r + 1) = BlockSize * r + BlockSize
         /\ UnitSize * u + UnitSize <= BlockSize
<1>1. UnitSize * u <= UnitSize * 7 /\ UnitSize * u \in Nat
  BY SizesOK, ProductOrder
<1>2. UnitSize * 7 + UnitSize = BlockSize
  BY SizesOK DEF BlockSize
<1>3. BlockSize * (r + 1) = BlockSize * r + BlockSize
  BY SizesOK
<1>4. BlockSize * r \in Nat
  BY SizesOK, ProductOrder
<1>5. PICK a \in Nat : a = UnitSize * u
  BY <1>1
<1>6. PICK c \in Nat : c = UnitSize * 7
  BY SizesOK
<1>7. a <= c /\ c + UnitSize = BlockSize /\ UnitSize \in Nat
  BY <1>1, <1>2, <1>5, <1>6, SizesOK
<1>8. a + UnitSize <= BlockSize
  BY <1>7
<1> QED
  BY <1>1, <1>3, <1>4, <1>5, <1>8

\* Where the last block that is not full breaks off.
LEMMA LastUnit ==
  ASSUME NEW rs, NEW n \in Nat, BlocksFor(rs, n), Len(rs) \in Nat, n % BlockSize # 0
  PROVE  /\ Len(rs) > 1 /\ (n - 1) \div BlockSize + 1 = Len(rs) - 1
         /\ \A u \in 1 .. 7 :
              u > ((n - 1) \div UnitSize) % 8 <=>
                ~(BlockSize * (Len(rs) - 2) + UnitSize * u < n)
<1>1. PICK l \in Nat : l = Len(rs) - 1
  BY DEF BlocksFor
<1>2. n # 0
  <2>1. 0 % BlockSize = 0
    BY SizesOK
  <2> QED
    BY <2>1
<1>3. PICK p \in Nat : p = n - 1
  BY <1>2
<1>4. PICK r \in Nat : r = p \div BlockSize
  BY SizesOK, Divided
<1>5. PICK w \in 0 .. 7 : w = (p \div UnitSize) % 8
  BY Located
<1>6. PICK o \in 0 .. UnitSize - 1 : o = p % UnitSize
  BY Located
<1>7. p = BlockSize * r + UnitSize * w + o
  BY <1>4, <1>5, <1>6, Located
<1>8. PICK a \in Nat : a = BlockSize * r
  BY SizesOK, ProductOrder
<1>9. PICK e \in Nat : e = BlockSize * l
  BY SizesOK, ProductOrder
<1>10. n <= e /\ e < n + BlockSize
  BY <1>1, <1>9 DEF BlocksFor
<1>11. UnitSize \in Nat /\ BlockSize \in Nat /\ 0 < UnitSize /\ 0 < BlockSize
  BY SizesOK
<1>12. PICK b \in Nat : b = UnitSize * w
  BY SizesOK, ProductOrder
<1>13. p = a + b + o /\ b + UnitSize <= BlockSize
  BY <1>7, <1>8, <1>12, UnitInBlock
<1>14. /\ l <= r => e <= a
       /\ r + 1 < l => a + BlockSize + BlockSize <= e
  <2>1. BlockSize * (r + 1) = a + BlockSize
    BY <1>8, UnitInBlock
  <2>2. r + 1 \in Nat
    OBVIOUS
  <2> QED
    BY <1>8, <1>9, <1>11, <2>1, <2>2, ProductOrder
<1>15. l = r + 1
  <2>1. ~(l <= r)
    BY <1>3, <1>10, <1>11, <1>13, <1>14
  <2>2. ~(r + 1 < l)
    BY <1>3, <1>10, <1>11, <1>13, <1>14
  <2> QED
    BY <2>1, <2>2
<1>16. ASSUME NEW u \in 1 .. 7 PROVE u > w <=> ~(BlockSize * r + UnitSize * u < n)
  <2>1. PICK c \in Nat : c = UnitSize * u
    BY SizesOK, ProductOrder
  <2>2. (w < u => b + UnitSize <= c) /\ (u <= w => c <= b)
    BY <1>12, <2>1, SizesOK, ProductOrder
  <2>3. w < u => ~(a + c < n)
    BY <1>3, <1>11, <1>13, <2>2
  <2>4. u <= w => a + c < n
    BY <1>3, <1>11, <1>13, <2>2
  <2>5. u > w <=> ~(a + c < n)
    BY <2>3, <2>4
  <2> QED
    BY <1>8, <2>1, <2>5
<1>17. Len(rs) - 2 = r /\ Len(rs) > 1 /\ r + 1 = Len(rs) - 1
  BY <1>1, <1>15
<1> QED
  BY <1>3, <1>4, <1>5, <1>16, <1>17

\* What an update of a row of counts changes.
LEMMA RowWith ==
  ASSUME NEW c \in CountRow, NEW new
  PROVE  /\ [c EXCEPT !.rel = new] = [abs |-> c.abs, rel |-> new]
         /\ [c EXCEPT !.abs = new] = [abs |-> new, rel |-> c.rel]
BY DEF CountRow

\* The end of build_index() finishes the ranks.
LEMMA RanksClosed ==
  ASSUME NEW rs, NEW v \in Seq(BOOLEAN), NEW n, n = Len(v),
         RanksTo(rs, v, n), BlocksFor(rs, n)
  PROVE  /\ RanksAll(Closed(rs, n, Rank1(v, n)), v, n)
         /\ Len(Closed(rs, n, Rank1(v, n))) = Len(rs)
<1> DEFINE IsRel(row, r) ==
             \A u \in 1 .. 7 :
               row.rel[u] = Rank1(v, Lesser(BlockSize * (r - 1) + UnitSize * u, n))
                              - Rank1(v, BlockSize * (r - 1))
<1>1. n \in Nat /\ n \in 0 .. Len(v)
  BY LenProperties
<1>2. /\ rs \in Seq(CountRow) /\ Len(rs) \in Nat /\ DOMAIN rs = 1 .. Len(rs)
      /\ Len(rs) >= 1
  BY LenProperties DEF RanksTo, BlocksFor
<1>20. Len(rs) \in Nat /\ Len(rs) >= 1
  BY <1>2
<1>3. PICK l \in Nat : l = Len(rs) - 1
  BY <1>20
<1>4. PICK count \in Nat : count = Rank1(v, n)
  BY <1>1, RankType
<1>5. \A r \in 1 .. Len(rs) : rs[r] \in CountRow /\ RowTo(rs[r], v, r - 1, n)
  BY <1>2, ElementOfSeq DEF RanksTo
<1>6. /\ BlockSize * l \in Nat /\ n <= BlockSize * l
      /\ BlockSize * l < n + BlockSize
      /\ BlockSize \in Nat /\ UnitSize \in Nat
  BY <1>3, SizesOK, ProductOrder DEF BlocksFor
<1>7. ASSUME NEW r \in Nat, r < l
      PROVE  BlockSize * r < n
  <2>1. BlockSize * r + BlockSize <= BlockSize * l /\ BlockSize * r \in Nat
    BY <1>7, SizesOK, ProductOrder
  <2>2. PICK a \in Nat : a = BlockSize * r
    BY <2>1
  <2>3. PICK e \in Nat : e = BlockSize * l
    BY <1>6
  <2>4. a < n
    BY <1>1, <1>6, <2>1, <2>2, <2>3
  <2> QED
    BY <2>2, <2>4
<1>8. \A r \in 1 .. Len(rs) :
        /\ r - 1 \in Nat
        /\ r # Len(rs) => r - 1 < l
        /\ r = Len(rs) => r - 1 = l
  BY <1>3, <1>20
<1>9. ASSUME NEW r \in Nat, NEW u \in 1 .. 7, BlockSize * r + UnitSize * u < n
      PROVE  Lesser(BlockSize * r + UnitSize * u, n) = BlockSize * r + UnitSize * u
  BY <1>9 DEF Lesser
<1>10. PICK filled : filled = Filled(rs, n, count)
  OBVIOUS
<1>11. /\ filled \in Seq(CountRow) /\ Len(filled) = Len(rs)
       /\ \A r \in 1 .. Len(rs) : filled[r].abs = rs[r].abs
       /\ \A r \in 1 .. Len(rs) - 1 : IsRel(filled[r], r)
       /\ filled[Len(rs)] = rs[Len(rs)]
  <2>1. CASE n % BlockSize = 0
    <3>1. filled = rs
      BY <1>10, <2>1 DEF Filled
    <3>2. n = BlockSize * l
      <4>1. PICK d \in Nat : n = BlockSize * d
        <5>1. n = BlockSize * (n \div BlockSize) + 0 /\ n \div BlockSize \in Nat
          BY <1>1, <2>1, SizesOK, Divided
        <5>2. BlockSize * (n \div BlockSize) \in Nat
          BY <5>1, SizesOK, ProductOrder
        <5> QED
          BY <5>1, <5>2
      <4>2. /\ d < l => BlockSize * d + BlockSize <= BlockSize * l
            /\ l < d => BlockSize * l + BlockSize <= BlockSize * d
        BY SizesOK, ProductOrder
      <4>3. PICK e \in Nat : e = BlockSize * l
        BY <1>6
      <4>4. /\ n <= e /\ e < n + BlockSize
            /\ d < l => n + BlockSize <= e
            /\ l < d => e + BlockSize <= n
        BY <1>6, <4>1, <4>2, <4>3
      <4>5. BlockSize \in Nat /\ 0 < BlockSize
        BY SizesOK
      <4>6. ~(d < l) /\ ~(l < d)
        BY <1>1, <4>4, <4>5
      <4>7. d = l
        BY <4>6
      <4> QED
        BY <4>1, <4>7
    <3>3. ASSUME NEW r \in 1 .. Len(rs) - 1, NEW u \in 1 .. 7
          PROVE  BlockSize * (r - 1) + UnitSize * u < n
      <4>1. PICK x \in Nat : x = r - 1
        OBVIOUS
      <4>2. x + 1 \in Nat /\ x + 1 <= l /\ u \in 0 .. 7
        BY <1>2, <1>3, <4>1
      <4>3. BlockSize * (x + 1) <= BlockSize * l
        BY <4>2, SizesOK, ProductOrder
      <4>4. BlockSize * (x + 1) = BlockSize * x + BlockSize
            /\ UnitSize * u + UnitSize <= BlockSize
            /\ BlockSize * x \in Nat /\ UnitSize * u \in Nat
        BY <4>2, UnitInBlock
      <4>5. PICK a \in Nat : a = BlockSize * x
        BY <4>4
      <4>6. PICK b \in Nat : b = UnitSize * u
        BY <4>4
      <4>7. a + BlockSize <= n /\ b + UnitSize <= BlockSize
        BY <3>2, <4>3, <4>4, <4>5, <4>6
      <4>8. UnitSize \in Nat /\ 0 < UnitSize /\ BlockSize \in Nat
        BY SizesOK
      <4>9. a + b < n
        BY <1>1, <4>7, <4>8
      <4> QED
        BY <4>1, <4>5, <4>6, <4>9
    <3>4. ASSUME NEW r \in 1 .. Len(rs) - 1 PROVE IsRel(rs[r], r)
      <4>1. r \in 1 .. Len(rs) /\ r - 1 \in Nat
        BY <1>2
      <4>2. RowTo(rs[r], v, r - 1, n)
        BY <1>5, <4>1
      <4> QED
        BY <1>9, <3>3, <4>1, <4>2 DEF RowTo
    <3> QED
      BY <1>2, <3>1, <3>4
  <2>2. CASE n % BlockSize # 0
    <3> DEFINE unit == ((n - 1) \div UnitSize) % 8
    <3>1. /\ Len(rs) > 1 /\ (n - 1) \div BlockSize + 1 = l
          /\ \A u \in 1 .. 7 : u > unit <=> ~(BlockSize * (l - 1) + UnitSize * u < n)
      <4>1. /\ Len(rs) > 1 /\ (n - 1) \div BlockSize + 1 = Len(rs) - 1
            /\ \A u \in 1 .. 7 :
                 u > ((n - 1) \div UnitSize) % 8 <=>
                   ~(BlockSize * (Len(rs) - 2) + UnitSize * u < n)
        BY <1>1, <1>2, <2>2, LastUnit
      <4>2. Len(rs) - 2 = l - 1
        BY <1>2, <1>3
      <4> QED
        BY <1>3, <4>1, <4>2
    <3>2. l \in 1 .. Len(rs) /\ l - 1 \in Nat /\ l # Len(rs)
      BY <1>3, <1>20, <3>1
    <3>3. PICK old \in CountRow : old = rs[l]
      BY <1>5, <3>2
    <3>4. old.abs \in Nat /\ old.rel \in [1 .. 7 -> Int]
      BY DEF CountRow
    <3> DEFINE rel == [u \in 1 .. 7 |-> IF u > unit THEN count - old.abs ELSE old.rel[u]]
               row == [old EXCEPT !.rel = rel]
    <3>5. rel \in [1 .. 7 -> Int]
      <4>1. \A u \in 1 .. 7 : old.rel[u] \in Int
        BY <3>4
      <4>2. \A x, y \in Nat : x - y \in Int
        OBVIOUS
      <4>3. count - old.abs \in Int
        BY <3>4, <4>2
      <4> QED
        BY <4>1, <4>3
    <3>6. filled = [rs EXCEPT ![l] = row]
      BY <1>10, <2>2, <3>1, <3>3 DEF Filled
    <3>7. /\ \A u \in 1 .. 7 : rel[u] = IF ~(BlockSize * (l - 1) + UnitSize * u < n)
                                        THEN count - old.abs ELSE old.rel[u]
      BY <3>1
    <3> HIDE DEF rel, unit
    <3>8. row \in CountRow /\ row.abs = old.abs /\ row.rel = rel
      <4>2. row = [abs |-> old.abs, rel |-> rel]
        BY RowWith
      <4> QED
        BY <3>4, <3>5, <4>2 DEF CountRow
    <3> HIDE DEF row
    <3>9. /\ filled \in Seq(CountRow) /\ Len(filled) = Len(rs)
          /\ \A x \in 1 .. Len(rs) : filled[x] = IF x = l THEN row ELSE rs[x]
      BY <1>2, <3>2, <3>6, <3>8, ExceptSeq
    <3>10. old.abs = Rank1(v, BlockSize * (l - 1))
      <4>1. BlockSize * (l - 1) < n
        <5>1. l - 1 < l
          OBVIOUS
        <5> QED
          BY <1>7, <3>2, <5>1
      <4> QED
        BY <1>5, <3>2, <3>3, <4>1 DEF RowTo
    <3>11. ASSUME NEW r \in 1 .. Len(rs) - 1 PROVE IsRel(filled[r], r)
      <4>1. r \in 1 .. Len(rs) /\ r - 1 \in Nat
        BY <1>2
      <4>2. RowTo(rs[r], v, r - 1, n)
        BY <1>5, <4>1
      <4>3. CASE r = l
        <5>1. filled[r] = row
          BY <3>9, <4>1, <4>3
        <5>2. ASSUME NEW u \in 1 .. 7
              PROVE  row.rel[u] = Rank1(v, Lesser(BlockSize * (l - 1) + UnitSize * u, n))
                                    - Rank1(v, BlockSize * (l - 1))
          <6>1. CASE BlockSize * (l - 1) + UnitSize * u < n
            <7>1. row.rel[u] = rs[l].rel[u]
              BY <3>3, <3>7, <3>8, <6>1
            <7> QED
              BY <1>9, <3>2, <4>2, <4>3, <6>1, <7>1 DEF RowTo
          <6>2. CASE ~(BlockSize * (l - 1) + UnitSize * u < n)
            BY <1>4, <3>7, <3>8, <3>10, <6>2 DEF Lesser
          <6> QED
            BY <6>1, <6>2
        <5> QED
          BY <4>3, <5>1, <5>2
      <4>4. CASE r # l
        <5>1. filled[r] = rs[r]
          BY <3>9, <4>1, <4>4
        <5>2. PICK x \in Nat : x = r - 1
          BY <4>1
        <5>3. x + 1 \in Nat /\ x + 1 < l
          BY <1>3, <1>20, <4>4, <5>2
        <5>4. BlockSize * (x + 1) < n
          BY <1>7, <5>3
        <5>5. ASSUME NEW u \in 1 .. 7 PROVE BlockSize * x + UnitSize * u < n
          <6>1. u \in 0 .. 7
            OBVIOUS
          <6>2. BlockSize * (x + 1) = BlockSize * x + BlockSize
                /\ UnitSize * u + UnitSize <= BlockSize
                /\ BlockSize * x \in Nat /\ UnitSize * u \in Nat
            BY <6>1, UnitInBlock
          <6>3. PICK a \in Nat : a = BlockSize * x
            BY <6>2
          <6>4. PICK b \in Nat : b = UnitSize * u
            BY <6>2
          <6>5. a + BlockSize < n /\ b + UnitSize <= BlockSize
            BY <5>4, <6>2, <6>3, <6>4
          <6>6. a + b < n
            BY <1>1, <1>6, <6>5
          <6> QED
            BY <6>3, <6>4, <6>6
        <5> QED
          BY <1>9, <4>2, <5>1, <5>2, <5>5 DEF RowTo
      <4> QED
        BY <4>3, <4>4
    <3>12. ASSUME NEW r \in 1 .. Len(rs) PROVE filled[r].abs = rs[r].abs
      BY <3>3, <3>8, <3>9
    <3>13. filled[Len(rs)] = rs[Len(rs)]
      <4>1. Len(rs) \in 1 .. Len(rs)
        BY <1>2
      <4> QED
        BY <3>2, <3>9, <4>1
    <3> QED
      BY <3>9, <3>11, <3>12, <3>13
  <2> QED
    BY <2>1, <2>2
<1> HIDE DEF IsRel
<1>12. PICK closed : closed = Closed(rs, n, count)
  OBVIOUS
<1> DEFINE final == [filled[Len(rs)] EXCEPT !.abs = count]
<1>13. closed = [filled EXCEPT ![Len(rs)] = final]
  BY <1>10, <1>12 DEF Closed
<1>14. final \in CountRow /\ final.abs = count /\ final.rel = rs[Len(rs)].rel
  <2>2. filled[Len(rs)] = rs[Len(rs)] /\ rs[Len(rs)] \in CountRow
    BY <1>2, <1>5, <1>11
  <2>3. final = [abs |-> count, rel |-> rs[Len(rs)].rel]
    BY <2>2, RowWith
  <2> QED
    BY <2>2, <2>3 DEF CountRow
<1> HIDE DEF final
<1>15. /\ closed \in Seq(CountRow) /\ Len(closed) = Len(rs)
       /\ \A x \in 1 .. Len(rs) : closed[x] = IF x = Len(rs) THEN final ELSE filled[x]
  <2>1. PICK w \in 1 .. Len(filled) : w = Len(rs)
    BY <1>11, <1>20
  <2>2. /\ [filled EXCEPT ![w] = final] \in Seq(CountRow)
        /\ Len([filled EXCEPT ![w] = final]) = Len(filled)
        /\ \A j \in 1 .. Len(filled) :
             [filled EXCEPT ![w] = final][j] = IF j = w THEN final ELSE filled[j]
    BY <1>11, <1>14, ExceptSeq
  <2> QED
    BY <1>11, <1>13, <2>1, <2>2
<1>16. ASSUME NEW r \in 1 .. Len(rs)
       PROVE  closed[r].abs = Rank1(v, Lesser(BlockSize * (r - 1), n))
  <2>1. CASE r = Len(rs)
    <3>1. closed[r].abs = count
      BY <1>14, <1>15, <2>1
    <3>2. Lesser(BlockSize * l, n) = n
      BY <1>1, <1>6 DEF Lesser
    <3> QED
      BY <1>4, <1>8, <2>1, <3>1, <3>2
  <2>2. CASE r # Len(rs)
    <3>1. closed[r].abs = rs[r].abs
      BY <1>11, <1>15, <2>2
    <3>2. BlockSize * (r - 1) < n
      BY <1>7, <1>8, <2>2
    <3> QED
      BY <1>5, <3>1, <3>2 DEF RowTo, Lesser
  <2> QED
    BY <2>1, <2>2
<1>17. ASSUME NEW r \in 1 .. Len(rs) - 1 PROVE IsRel(closed[r], r)
  <2>1. r \in 1 .. Len(rs) /\ r # Len(rs)
    BY <1>20
  <2> QED
    BY <1>11, <1>15, <2>1
<1>18. ASSUME NEW u \in 1 .. 7 PROVE closed[Len(rs)].rel[u] = 0
  <2>1. Len(rs) \in 1 .. Len(rs)
    BY <1>20
  <2>2. closed[Len(rs)].rel = rs[Len(rs)].rel
    BY <1>14, <1>15, <2>1
  <2>3. ~(BlockSize * l + UnitSize * u < n)
    <3>1. PICK b \in Nat : b = UnitSize * u
      BY SizesOK, ProductOrder
    <3>2. PICK e \in Nat : e = BlockSize * l
      BY <1>6
    <3>3. ~(e + b < n)
      BY <1>1, <1>6, <3>2
    <3> QED
      BY <3>1, <3>2, <3>3
  <2> QED
    BY <1>5, <1>8, <2>1, <2>2, <2>3 DEF RowTo
<1>19. RanksAll(closed, v, n)
  BY <1>15, <1>16, <1>17, <1>18 DEF RanksAll, IsRel
<1> QED
  BY <1>4, <1>12, <1>15, <1>19

-----------------------------------------------------------------------------
\* The samples of the bits like b among the first n of v: one for each that
\* has a multiple of BlockSize like it in front.
SamplesTo(ss, v, b, n) ==
  /\ ss \in Seq(Nat)
  /\ \A s \in 1 .. Len(ss) :
       /\ ss[s] \in 0 .. n - 1 /\ Bit(v, ss[s]) = b
       /\ Count(v, b, ss[s]) = BlockSize * (s - 1)
  /\ BlockSize * Len(ss) < Count(v, b, n) + BlockSize
  /\ Count(v, b, n) <= BlockSize * Len(ss)

\* Sampled for one kind of bit.
Taken(ss, v, b, n) ==
  IF Bit(v, n) = b /\ Count(v, b, n) % BlockSize = 0 THEN Append(ss, n) ELSE ss

LEMMA CountStep ==
  ASSUME NEW v \in Seq(BOOLEAN), NEW b \in BOOLEAN, NEW n \in 0 .. Len(v) - 1
  PROVE  /\ Count(v, b, n) \in Nat /\ n \in Nat
         /\ Bit(v, n) \in BOOLEAN
         /\ Count(v, b, n + 1) = Count(v, b, n) + (IF Bit(v, n) = b THEN 1 ELSE 0)
<1>1. Len(v) \in Nat /\ n \in 0 .. Len(v) /\ n \in Nat
  BY LenProperties
<1>2. Bit(v, n) \in BOOLEAN
  BY <1>1, ElementOfSeq DEF Bit
<1>3. Rank1(v, n) \in Nat /\ Rank0(v, n) \in Nat
  BY <1>1, RankType
<1>4. /\ Rank1(v, n + 1) = Rank1(v, n) + (IF Bit(v, n) THEN 1 ELSE 0)
      /\ Rank0(v, n + 1) = Rank0(v, n) + (IF Bit(v, n) THEN 0 ELSE 1)
  BY RankStep
<1>5. CASE b = TRUE
  BY <1>1, <1>2, <1>3, <1>4, <1>5 DEF Count
<1>6. CASE b = FALSE
  BY <1>1, <1>2, <1>3, <1>4, <1>6 DEF Count
<1> QED
  BY <1>5, <1>6

LEMMA SampleTaken ==
  ASSUME NEW ss, NEW v \in Seq(BOOLEAN), NEW b \in BOOLEAN, NEW n \in 0 .. Len(v) - 1,
         SamplesTo(ss, v, b, n)
  PROVE  SamplesTo(Taken(ss, v, b, n), v, b, n + 1)
<1>1. PICK c \in Nat : c = Count(v, b, n)
  BY CountStep
<1>2. n \in Nat /\ Bit(v, n) \in BOOLEAN
      /\ Count(v, b, n + 1) = c + (IF Bit(v, n) = b THEN 1 ELSE 0)
  BY <1>1, CountStep
<1>3. ss \in Seq(Nat) /\ Len(ss) \in Nat
  BY LenProperties DEF SamplesTo
<1>4. PICK l \in Nat : l = Len(ss)
  BY <1>3
<1>5. PICK e \in Nat : e = BlockSize * l
  BY SizesOK, ProductOrder
<1>6. e < c + BlockSize /\ c <= e
  BY <1>1, <1>4, <1>5 DEF SamplesTo
<1>7. BlockSize \in Nat /\ 0 < BlockSize
  BY SizesOK
<1>8. c % BlockSize = 0 <=> c = e
  <2>1. PICK d \in Nat : d = c \div BlockSize
    BY SizesOK, Divided
  <2>2. PICK r \in 0 .. BlockSize - 1 : r = c % BlockSize
    BY SizesOK, Divided
  <2>3. c = BlockSize * d + r
    BY <2>1, <2>2, SizesOK, Divided
  <2>4. /\ d < l => BlockSize * d + BlockSize <= BlockSize * l
        /\ l < d => BlockSize * l + BlockSize <= BlockSize * d
    BY SizesOK, ProductOrder
  <2>5. PICK f \in Nat : f = BlockSize * d
    BY SizesOK, ProductOrder
  <2>6. /\ d < l => f + BlockSize <= e
        /\ l < d => e + BlockSize <= f
        /\ d = l => f = e
        /\ c = f + r
    BY <1>5, <2>3, <2>4, <2>5
  <2>7. ASSUME r = 0 PROVE c = e
    <3>1. ~(d < l) /\ ~(l < d)
      BY <1>6, <1>7, <2>6, <2>7
    <3>2. d = l
      BY <3>1
    <3> QED
      BY <2>6, <2>7, <3>2
  <2>8. ASSUME c = e PROVE r = 0
    <3>1. PICK zero \in 0 .. BlockSize - 1 : zero = 0
      BY <1>7
    <3>2. c = BlockSize * l + zero
      BY <1>5, <2>8, <3>1
    <3>3. (BlockSize * l + zero) % BlockSize = zero
      BY SizesOK, DividedOnce
    <3> QED
      BY <2>2, <3>1, <3>2, <3>3
  <2> QED
    BY <2>2, <2>7, <2>8
<1>9. \A s \in 1 .. l :
        /\ ss[s] \in 0 .. n - 1 /\ Bit(v, ss[s]) = b
        /\ Count(v, b, ss[s]) = BlockSize * (s - 1)
  BY <1>4 DEF SamplesTo
<1>10. CASE Bit(v, n) = b /\ c = e
  <2>1. PICK more : more = Append(ss, n)
    OBVIOUS
  <2>2. /\ more \in Seq(Nat) /\ Len(more) = l + 1
        /\ \A s \in 1 .. l : more[s] = ss[s]
        /\ more[l + 1] = n
    BY <1>2, <1>3, <1>4, <2>1, AppendProperties
  <2>3. Taken(ss, v, b, n) = more
    BY <1>1, <1>8, <1>10, <2>1 DEF Taken
  <2>4. ASSUME NEW s \in 1 .. l + 1
        PROVE  /\ more[s] \in 0 .. n + 1 - 1 /\ Bit(v, more[s]) = b
               /\ Count(v, b, more[s]) = BlockSize * (s - 1)
    <3>1. CASE s \in 1 .. l
      <4>1. more[s] = ss[s] /\ ss[s] \in 0 .. n - 1
        BY <1>9, <2>2, <3>1
      <4>2. \A x \in 0 .. n - 1 : x \in 0 .. n + 1 - 1
        BY <1>2
      <4>3. more[s] \in 0 .. n + 1 - 1
        BY <4>1, <4>2
      <4> QED
        BY <1>9, <3>1, <4>1, <4>3
    <3>2. CASE s \notin 1 .. l
      <4>1. s = l + 1 /\ s - 1 = l
        BY <3>2
      <4>2. n \in 0 .. n + 1 - 1
        BY <1>2
      <4> QED
        BY <1>1, <1>5, <1>10, <2>2, <4>1, <4>2
    <3> QED
      BY <3>1, <3>2
  <2>5. BlockSize * (l + 1) = e + BlockSize
    BY <1>5, <1>7
  <2>6. Count(v, b, n + 1) = c + 1
    BY <1>2, <1>10
  <2>7. e + BlockSize < c + 1 + BlockSize /\ c + 1 <= e + BlockSize
    BY <1>6, <1>7, <1>10
  <2> QED
    BY <2>2, <2>3, <2>4, <2>5, <2>6, <2>7 DEF SamplesTo
<1>11. CASE ~(Bit(v, n) = b /\ c = e)
  <2>1. Taken(ss, v, b, n) = ss
    BY <1>1, <1>8, <1>11 DEF Taken
  <2>2. /\ e < Count(v, b, n + 1) + BlockSize
        /\ Count(v, b, n + 1) <= e
    BY <1>2, <1>6, <1>7, <1>11
  <2>3. \A s \in 1 .. l :
          /\ ss[s] \in 0 .. n + 1 - 1 /\ Bit(v, ss[s]) = b
          /\ Count(v, b, ss[s]) = BlockSize * (s - 1)
    <3>1. \A x \in 0 .. n - 1 : x \in 0 .. n + 1 - 1
      BY <1>2
    <3> QED
      BY <1>9, <3>1
  <2> QED
    BY <1>3, <1>4, <1>5, <2>1, <2>2, <2>3 DEF SamplesTo
<1> QED
  BY <1>10, <1>11

-----------------------------------------------------------------------------
\* What the loops have written by the time they are where they are.
ControlOK ==
  /\ bits \in Seq(BOOLEAN)
  /\ phase \in {"push", "index", "done"}
  /\ size \in 0 .. Len(bits)
  /\ phase # "push" => size = Len(bits)
  /\ at \in 0 .. size
  /\ phase = "push" => at = 0
  /\ phase = "done" => at = size
  /\ num1s = Rank1(bits, at)

RanksOK ==
  /\ phase = "push" => ranks = <<>>
  /\ phase = "index" => RanksTo(ranks, bits, at) /\ BlocksFor(ranks, size)
  /\ phase = "done" => RanksAll(ranks, bits, size) /\ BlocksFor(ranks, size)

SelectsOK ==
  /\ DOMAIN selects = BOOLEAN
  /\ phase # "done" => \A b \in BOOLEAN : SamplesTo(selects[b], bits, b, at)
  /\ phase = "done" => \A b \in BOOLEAN :
       \E ss : SamplesTo(ss, bits, b, size) /\ selects[b] = Append(ss, size)

IndexInv ==
  ControlOK /\ UnitsHold(units, bits, size) /\ RanksOK /\ SelectsOK

LEMMA IndexInit == Init => IndexInv
<1> SUFFICES ASSUME Init PROVE IndexInv
  OBVIOUS
<1>1. bits \in Seq(BOOLEAN)
  BY VectorsAssumption DEF Init
<1>2. /\ phase = "push" /\ size = 0 /\ at = 0 /\ num1s = 0
      /\ units = <<>> /\ ranks = <<>> /\ selects = [b \in BOOLEAN |-> <<>>]
  BY DEF Init
<1>3. Len(bits) \in Nat /\ Rank1(bits, 0) = 0 /\ Rank0(bits, 0) = 0
  BY <1>1, LenProperties, RankOfZero
<1>4. ControlOK /\ RanksOK
  BY <1>1, <1>2, <1>3 DEF ControlOK, RanksOK
<1>5. <<>> \in Seq(Nat) /\ <<>> \in Seq([0 .. UnitSize - 1 -> BOOLEAN]) /\ Len(<<>>) = 0
  OBVIOUS
<1>6. /\ UnitSize * 0 = 0 /\ BlockSize * 0 = 0 /\ 0 < 0 + UnitSize /\ 0 < 0 + BlockSize
      /\ 1 .. 0 = {}
  BY SizesOK
<1>7. UnitsHold(<<>>, bits, 0)
  BY <1>5, <1>6 DEF UnitsHold
<1>8. ASSUME NEW b \in BOOLEAN PROVE SamplesTo(<<>>, bits, b, 0)
  <2>1. Count(bits, b, 0) = 0
    BY <1>3 DEF Count
  <2> QED
    BY <1>5, <1>6, <2>1 DEF SamplesTo
<1>9. SelectsOK
  BY <1>2, <1>8 DEF SelectsOK
<1> QED
  BY <1>2, <1>4, <1>7, <1>9 DEF IndexInv

LEMMA IndexPush == IndexInv /\ PushBack => IndexInv'
<1> SUFFICES ASSUME IndexInv, PushBack PROVE IndexInv'
  OBVIOUS
<1>1. /\ phase = "push" /\ phase' = "push" /\ size < Len(bits) /\ size' = size + 1
      /\ UNCHANGED <<bits, at, num1s, ranks, selects>>
  BY DEF PushBack
<1>2. /\ bits \in Seq(BOOLEAN) /\ Len(bits) \in Nat /\ size \in 0 .. Len(bits)
      /\ at = 0
  BY <1>1, LenProperties DEF IndexInv, ControlOK
<1>3. size \in 0 .. Len(bits) - 1 /\ size + 1 \in 0 .. Len(bits) /\ 0 \in 0 .. size + 1
  BY <1>1, <1>2
<1>4. units' = Pushed(units, bits, size)
  BY DEF PushBack, Pushed, Room, Zeroes
<1>5. UnitsHold(units', bits', size')
  BY <1>1, <1>2, <1>3, <1>4, UnitsPush DEF IndexInv
<1>6. ControlOK'
  BY <1>1, <1>2, <1>3 DEF IndexInv, ControlOK
<1>7. RanksOK' /\ SelectsOK'
  BY <1>1 DEF IndexInv, RanksOK, SelectsOK
<1> QED
  BY <1>5, <1>6, <1>7 DEF IndexInv

LEMMA IndexBuild == IndexInv /\ Build => IndexInv'
<1> SUFFICES ASSUME IndexInv, Build PROVE IndexInv'
  OBVIOUS
<1>1. /\ phase = "push" /\ phase' = "index" /\ size = Len(bits)
      /\ UNCHANGED <<bits, size, units, at, num1s, selects>>
  BY DEF Build
<1>2. ControlOK' /\ SelectsOK' /\ UnitsHold(units', bits', size')
  BY <1>1 DEF IndexInv, ControlOK, SelectsOK
<1>3. bits \in Seq(BOOLEAN) /\ size \in Nat /\ at = 0
  BY <1>1, LenProperties DEF IndexInv, ControlOK
<1>4. PICK d \in Nat : d = size \div BlockSize
  BY <1>3, SizesOK, Divided
<1>5. PICK l \in Nat : l = d + (IF size % BlockSize # 0 THEN 1 ELSE 0)
  OBVIOUS
<1>6. ranks' = [r \in 1 .. l + 1 |-> NoCounts]
  BY <1>4, <1>5 DEF Build
<1>7. NoCounts \in CountRow
  BY DEF NoCounts, CountRow
<1>8. /\ ranks' \in Seq(CountRow) /\ Len(ranks') = l + 1
      /\ \A r \in 1 .. l + 1 : ranks'[r] = NoCounts
  <2>1. ranks' \in [1 .. l + 1 -> CountRow]
    BY <1>6, <1>7
  <2>2. \A n \in Nat : [1 .. n -> CountRow] \subseteq Seq(CountRow)
    OBVIOUS
  <2>3. ranks' \in Seq(CountRow)
    BY <2>1, <2>2
  <2>4. DOMAIN ranks' = 1 .. Len(ranks') /\ Len(ranks') \in Nat
    BY <2>3, LenProperties
  <2>5. \A m, n \in Nat : 1 .. m = 1 .. n + 1 => m = n + 1
    OBVIOUS
  <2>6. Len(ranks') = l + 1
    BY <1>6, <2>4, <2>5
  <2> QED
    BY <1>6, <2>3, <2>6
<1>9. ASSUME NEW r \in 1 .. l + 1 PROVE RowTo(ranks'[r], bits, r - 1, 0)
  <2>1. PICK x \in Nat : x = r - 1
    OBVIOUS
  <2>2. PICK a \in Nat : a = BlockSize * x
    BY SizesOK, ProductOrder
  <2>3. ranks'[r] = NoCounts
    BY <1>8
  <2>4. ~(BlockSize * (r - 1) < 0)
    BY <2>1, <2>2
  <2>5. ASSUME NEW u \in 1 .. 7 PROVE ~(BlockSize * (r - 1) + UnitSize * u < 0)
    <3>1. PICK b \in Nat : b = UnitSize * u
      BY SizesOK, ProductOrder
    <3>2. ~(a + b < 0)
      OBVIOUS
    <3> QED
      BY <2>1, <2>2, <3>1, <3>2
  <2>6. NoCounts.abs = 0 /\ \A u \in 1 .. 7 : NoCounts.rel[u] = 0
    BY DEF NoCounts
  <2> HIDE DEF NoCounts
  <2> QED
    BY <2>3, <2>4, <2>5, <2>6 DEF RowTo
<1>10. BlocksFor(ranks', size)
  <2>1. PICK o \in 0 .. BlockSize - 1 : o = size % BlockSize
    BY <1>3, SizesOK, Divided
  <2>2. size = BlockSize * d + o
    BY <1>3, <1>4, <2>1, SizesOK, Divided
  <2>3. PICK a \in Nat : a = BlockSize * d
    BY SizesOK, ProductOrder
  <2>4. BlockSize * (d + 1) = a + BlockSize /\ BlockSize \in Nat /\ 0 < BlockSize
    BY <2>3, SizesOK
  <2>5. PICK e \in Nat : e = BlockSize * l
    BY SizesOK, ProductOrder
  <2>6. (o = 0 => e = a) /\ (o # 0 => e = a + BlockSize)
    BY <1>5, <2>1, <2>3, <2>4, <2>5
  <2>7. size <= e /\ e < size + BlockSize
    BY <2>2, <2>3, <2>4, <2>6
  <2>8. Len(ranks') - 1 = l /\ Len(ranks') >= 1
    BY <1>8
  <2> QED
    BY <2>5, <2>7, <2>8 DEF BlocksFor
<1>11. RanksOK'
  <2>1. RanksTo(ranks', bits, 0)
    BY <1>8, <1>9 DEF RanksTo
  <2> QED
    BY <1>1, <1>3, <1>10, <2>1 DEF RanksOK
<1> QED
  BY <1>2, <1>11 DEF IndexInv

\* The units give back every bit that has been pushed.
LEMMA BitsHeld ==
  ASSUME NEW us, NEW v, NEW n \in Nat, UnitsHold(us, v, n), NEW i \in 0 .. n - 1,
         Bit(v, i) \in BOOLEAN
  PROVE  us[i \div UnitSize + 1][i % UnitSize] = Bit(v, i)
<1>0. i \in Nat
  OBVIOUS
<1>1. PICK q \in Nat : q = i \div UnitSize
  BY <1>0, SizesOK, Divided
<1>2. PICK o \in 0 .. UnitSize - 1 : o = i % UnitSize
  BY <1>0, SizesOK, Divided
<1>3. i = UnitSize * q + o
  BY <1>0, <1>1, <1>2, SizesOK, Divided
<1>4. us \in Seq([0 .. UnitSize - 1 -> BOOLEAN]) /\ n <= UnitSize * Len(us)
  BY DEF UnitsHold
<1>5. Len(us) \in Nat
  BY <1>4, LenProperties
<1>6. q + 1 \in 1 .. Len(us)
  <2>1. PICK a \in Nat : a = UnitSize * q
    BY SizesOK, ProductOrder
  <2>2. PICK c \in Nat : c = UnitSize * Len(us)
    BY <1>5, SizesOK, ProductOrder
  <2>3. Len(us) <= q => c <= a
    BY <1>5, <2>1, <2>2, SizesOK, ProductOrder
  <2>4. i = a + o /\ n <= c
    BY <1>3, <1>4, <2>1, <2>2
  <2>5. ~(Len(us) <= q)
    BY <2>3, <2>4, SizesOK
  <2> QED
    BY <1>5, <2>5
<1>7. us[q + 1] \in [0 .. UnitSize - 1 -> BOOLEAN]
  BY <1>4, <1>6, ElementOfSeq
<1>8. us[q + 1][o] <=> UnitSize * (q + 1 - 1) + o < n /\ Bit(v, UnitSize * (q + 1 - 1) + o)
  BY <1>6 DEF UnitsHold
<1>9. q + 1 - 1 = q
  OBVIOUS
<1>10. i < n
  OBVIOUS
<1>11. us[q + 1][o] <=> Bit(v, i)
  BY <1>3, <1>8, <1>9, <1>10
<1> QED
  BY <1>1, <1>2, <1>7, <1>11

LEMMA IndexOneBit == IndexInv /\ IndexBit => IndexInv'
<1> SUFFICES ASSUME IndexInv, IndexBit PROVE IndexInv'
  OBVIOUS
<1>1. /\ phase = "index" /\ phase' = "index" /\ at < size /\ at' = at + 1
      /\ UNCHANGED <<bits, size, units>>
  BY DEF IndexBit
<1>2. /\ bits \in Seq(BOOLEAN) /\ size = Len(bits) /\ size \in Nat
      /\ at \in 0 .. size /\ num1s = Rank1(bits, at)
      /\ UnitsHold(units, bits, size)
  BY <1>1, LenProperties DEF IndexInv, ControlOK
<1>3. /\ at \in 0 .. Len(bits) - 1 /\ at \in 0 .. size - 1 /\ at \in 0 .. Len(bits)
      /\ at + 1 \in 0 .. size /\ at \in Nat
  BY <1>1, <1>2
<1>4. Bit(bits, at) \in BOOLEAN
  BY <1>2, <1>3, CountStep
<1>5. BitAt(at) = Bit(bits, at)
  BY <1>2, <1>3, <1>4, BitsHeld DEF BitAt
<1>6. /\ Rank1(bits, at) \in Nat /\ Rank0(bits, at) \in Nat
      /\ Rank1(bits, at) + Rank0(bits, at) = at
  BY <1>2, <1>3, RankType
<1>7. num1s' = Rank1(bits, at + 1)
  <2>1. num1s' = IF Bit(bits, at) THEN num1s + 1 ELSE num1s
    BY <1>5 DEF IndexBit
  <2>2. Rank1(bits, at + 1) = Rank1(bits, at) + (IF Bit(bits, at) THEN 1 ELSE 0)
    BY <1>2, <1>3, RankStep
  <2> QED
    BY <1>2, <1>6, <2>1, <2>2
<1>8. ControlOK'
  BY <1>1, <1>2, <1>3, <1>7 DEF ControlOK
<1>9. RanksOK'
  <2>1. RanksTo(ranks, bits, at) /\ BlocksFor(ranks, size)
    BY <1>1 DEF IndexInv, RanksOK
  <2>2. ranks' = Written(ranks, at, Rank1(bits, at))
    BY <1>2 DEF IndexBit, WithCount, Counted, Written
  <2>3. at < BlockSize * Len(ranks)
    <3>1. ranks \in Seq(CountRow)
      BY <2>1 DEF RanksTo
    <3>2. Len(ranks) \in Nat
      BY <3>1, LenProperties
    <3>3. PICK l \in Nat : l = Len(ranks) - 1
      BY <2>1, <3>2 DEF BlocksFor
    <3>4. size <= BlockSize * l
      BY <2>1, <3>3 DEF BlocksFor
    <3>5. BlockSize * l <= BlockSize * Len(ranks)
      <4>1. l <= Len(ranks)
        BY <3>2, <3>3
      <4> QED
        BY <3>2, <4>1, SizesOK, ProductOrder
    <3>6. BlockSize * l \in Nat /\ BlockSize * Len(ranks) \in Nat
      BY <3>2, SizesOK, ProductOrder
    <3>7. PICK a \in Nat : a = BlockSize * l
      BY <3>6
    <3>8. PICK c \in Nat : c = BlockSize * Len(ranks)
      BY <3>6
    <3>9. at < c
      BY <1>1, <1>2, <1>3, <3>4, <3>5, <3>7, <3>8
    <3> QED
      BY <3>8, <3>9
  <2>4. RanksTo(ranks', bits, at + 1) /\ Len(ranks') = Len(ranks)
    BY <1>2, <1>3, <2>1, <2>2, <2>3, RanksWritten
  <2> QED
    BY <1>1, <2>1, <2>4 DEF RanksOK, BlocksFor
<1>10. SelectsOK'
  <2>1. DOMAIN selects = BOOLEAN /\ \A b \in BOOLEAN : SamplesTo(selects[b], bits, b, at)
    BY <1>1 DEF IndexInv, SelectsOK
  <2>2. PICK b \in BOOLEAN : b = Bit(bits, at)
    BY <1>4
  <2>3. Count(bits, b, at) = IF b THEN num1s ELSE at - num1s
    BY <1>2, <1>6 DEF Count
  <2>4. selects' = Sampled(b, Count(bits, b, at))
    BY <1>5, <2>2, <2>3 DEF IndexBit
  <2>5. \A c \in BOOLEAN : selects'[c] = Taken(selects[c], bits, c, at)
    <3> TAKE c \in BOOLEAN
    <3>1. CASE c = b
      BY <2>1, <2>2, <2>4, <3>1 DEF Sampled, Taken
    <3>2. CASE c # b
      <4>1. Taken(selects[c], bits, c, at) = selects[c]
        BY <2>2, <3>2 DEF Taken
      <4> QED
        BY <2>1, <2>4, <3>2, <4>1 DEF Sampled
    <3> QED
      BY <3>1, <3>2
  <2>6. DOMAIN selects' = BOOLEAN
    BY <2>1, <2>4 DEF Sampled
  <2>7. \A c \in BOOLEAN : SamplesTo(Taken(selects[c], bits, c, at), bits, c, at + 1)
    BY <1>2, <1>3, <2>1, SampleTaken
  <2> QED
    BY <1>1, <2>5, <2>6, <2>7 DEF SelectsOK
<1> QED
  BY <1>1, <1>2, <1>8, <1>9, <1>10 DEF IndexInv

LEMMA IndexEnds == IndexInv /\ IndexEnd => IndexInv'
<1> SUFFICES ASSUME IndexInv, IndexEnd PROVE IndexInv'
  OBVIOUS
<1>1. /\ phase = "index" /\ phase' = "done" /\ at = size
      /\ UNCHANGED <<bits, size, units, at, num1s>>
  BY DEF IndexEnd
<1>2. ControlOK' /\ UnitsHold(units', bits', size')
  BY <1>1 DEF IndexInv, ControlOK
<1>3. bits \in Seq(BOOLEAN) /\ size = Len(bits) /\ num1s = Rank1(bits, size)
  BY <1>1 DEF IndexInv, ControlOK
<1>4. RanksTo(ranks, bits, size) /\ BlocksFor(ranks, size)
  BY <1>1 DEF IndexInv, RanksOK
<1>5. ranks' = Closed(ranks, size, num1s)
  BY DEF IndexEnd, LastFilled, Closed, Filled
<1>6. RanksAll(ranks', bits, size) /\ Len(ranks') = Len(ranks)
  BY <1>3, <1>4, <1>5, RanksClosed
<1>7. RanksOK'
  BY <1>1, <1>4, <1>6 DEF RanksOK, BlocksFor
<1>8. SelectsOK'
  <2>1. \A b \in BOOLEAN : SamplesTo(selects[b], bits, b, size)
    BY <1>1 DEF IndexInv, SelectsOK
  <2>2. selects' = [b \in BOOLEAN |-> Append(selects[b], size)]
    BY DEF IndexEnd
  <2> QED
    BY <1>1, <2>1, <2>2 DEF SelectsOK
<1> QED
  BY <1>2, <1>7, <1>8 DEF IndexInv

LEMMA IndexAlways == Spec => []IndexInv
<1>1. IndexInv /\ UNCHANGED vars => IndexInv'
  BY DEF vars, IndexInv, ControlOK, RanksOK, SelectsOK
<1> QED
  BY <1>1, IndexInit, IndexPush, IndexBuild, IndexOneBit, IndexEnds, PTL DEF Spec, Next

-----------------------------------------------------------------------------
\* The counts of a table that is being written fit their fields.
LEMMA CountsToFit ==
  ASSUME NEW rs, NEW v \in Seq(BOOLEAN), NEW n \in 0 .. Len(v), RanksTo(rs, v, n),
         NEW r \in 1 .. Len(rs)
  PROVE  /\ rs[r].abs \in 0 .. n
         /\ \A u \in 1 .. 7 : rs[r].rel[u] \in 0 .. u * UnitSize
<1>1. rs \in Seq(CountRow) /\ RowTo(rs[r], v, r - 1, n)
  BY DEF RanksTo
<1>2. Len(rs) \in Nat /\ Len(v) \in Nat /\ n \in Nat
  BY <1>1, LenProperties
<1>3. PICK x \in Nat : x = r - 1
  BY <1>2
<1>4. PICK i \in Nat : i = BlockSize * x
  BY SizesOK, ProductOrder
<1>5. /\ rs[r].abs = IF i < n THEN Rank1(v, i) ELSE 0
      /\ \A u \in 1 .. 7 : rs[r].rel[u] =
           IF i + UnitSize * u < n THEN Rank1(v, i + UnitSize * u) - Rank1(v, i) ELSE 0
  BY <1>1, <1>3, <1>4 DEF RowTo
<1>6. rs[r].abs \in 0 .. n
  <2>1. CASE i < n
    <3>1. i \in 0 .. Len(v) /\ n \in i .. Len(v)
      BY <1>2, <2>1
    <3>2. Rank1(v, i) \in 0 .. i
      BY <3>1, RankGap
    <3> QED
      BY <1>2, <1>5, <2>1, <3>2
  <2> QED
    BY <1>2, <1>5, <2>1
<1>7. ASSUME NEW u \in 1 .. 7 PROVE rs[r].rel[u] \in 0 .. u * UnitSize
  <2>1. PICK a \in Nat : a = UnitSize * u
    BY SizesOK, ProductOrder
  <2>2. u * UnitSize = a
    BY <2>1, SizesOK
  <2>3. CASE i + a < n
    <3>1. i \in 0 .. Len(v) /\ i + a \in i .. Len(v)
      BY <1>2, <2>3
    <3>2. Rank1(v, i + a) - Rank1(v, i) \in 0 .. i + a - i
      BY <3>1, RankGap
    <3>3. i + a - i = a
      OBVIOUS
    <3> QED
      BY <1>5, <2>1, <2>2, <2>3, <3>2, <3>3
  <2>4. CASE ~(i + a < n)
    <3>1. rs[r].rel[u] = 0
      BY <1>5, <2>1, <2>4
    <3>2. 0 \in 0 .. a
      OBVIOUS
    <3> QED
      BY <2>2, <3>1, <3>2
  <2> QED
    BY <2>3, <2>4
<1> QED
  BY <1>6, <1>7

\* And so do those of a finished table.
LEMMA CountsFit ==
  ASSUME NEW rs, NEW v \in Seq(BOOLEAN), NEW n \in 0 .. Len(v), RanksAll(rs, v, n),
         BlocksFor(rs, n), NEW r \in 1 .. Len(rs)
  PROVE  /\ rs[r].abs \in 0 .. n
         /\ \A u \in 1 .. 7 : rs[r].rel[u] \in 0 .. u * UnitSize
<1>1. rs \in Seq(CountRow)
  BY DEF RanksAll
<1>2. Len(rs) \in Nat /\ Len(v) \in Nat /\ n \in Nat
  BY <1>1, LenProperties
<1>3. PICK x \in Nat : x = r - 1
  BY <1>2
<1>4. PICK i \in Nat : i = BlockSize * x
  BY SizesOK, ProductOrder
<1>5. rs[r].abs \in 0 .. n
  <2>1. PICK j \in 0 .. n : j = Lesser(i, n)
    BY <1>2 DEF Lesser
  <2>2. j \in 0 .. Len(v) /\ n \in j .. Len(v)
    BY <1>2
  <2>3. Rank1(v, j) \in 0 .. j
    BY <2>2, RankGap
  <2>4. rs[r].abs = Rank1(v, j)
    BY <1>3, <1>4, <2>1 DEF RanksAll
  <2> QED
    BY <1>2, <2>3, <2>4
<1>6. ASSUME NEW u \in 1 .. 7 PROVE rs[r].rel[u] \in 0 .. u * UnitSize
  <2>1. PICK a \in Nat : a = UnitSize * u
    BY SizesOK, ProductOrder
  <2>2. u * UnitSize = a
    BY <2>1, SizesOK
  <2>3. CASE r = Len(rs)
    BY <2>2, <2>3, SMTT(30) DEF RanksAll
  <2>4. CASE r # Len(rs)
    <3>1. PICK l \in Nat : l = Len(rs) - 1
      <4>1. Len(rs) >= 1
        BY DEF BlocksFor
      <4> QED
        BY <1>2, <4>1
    <3>2. r \in 1 .. Len(rs) - 1 /\ x < l
      BY <1>2, <1>3, <2>4, <3>1
    <3>3. i < n
      <4>1. BlockSize * x + BlockSize <= BlockSize * l
        BY <3>2, SizesOK, ProductOrder
      <4>2. PICK b \in Nat : b = BlockSize * l
        BY SizesOK, ProductOrder
      <4>3. b < n + BlockSize
        BY <3>1, <4>2 DEF BlocksFor
      <4>4. i + BlockSize <= b
        BY <1>4, <4>1, <4>2
      <4> QED
        BY <1>2, <4>3, <4>4, SizesOK
    <3>4. PICK j \in i .. n : j = Lesser(i + a, n)
      BY <1>2, <3>3 DEF Lesser
    <3>5. i \in 0 .. Len(v) /\ j \in i .. Len(v) /\ j - i <= a
      BY <1>2, <3>3, <3>4 DEF Lesser
    <3>6. Rank1(v, j) - Rank1(v, i) \in 0 .. j - i
      BY <3>5, RankGap
    <3>7. rs[r].rel[u] = Rank1(v, j) - Rank1(v, i)
      BY <1>3, <1>4, <2>1, <3>2, <3>4 DEF RanksAll
    <3>8. j \in Nat /\ i \in Nat
      BY <3>4
    <3> QED
      BY <2>2, <3>5, <3>6, <3>7, <3>8
  <2> QED
    BY <2>3, <2>4
<1> QED
  BY <1>5, <1>6

\* The type invariant of build_index(): while it runs and when it is done, no
\* count is larger than the setters of RankIndex allow, whatever the vector and
\* the size of a unit.
THEOREM IndexTypeThm == Spec => []TypeOK
<1>1. IndexInv => TypeOK
  <2> SUFFICES ASSUME IndexInv PROVE TypeOK
    OBVIOUS
  <2>1. /\ bits \in Seq(BOOLEAN) /\ Len(bits) \in Nat
        /\ size \in 0 .. Len(bits) /\ at \in 0 .. size
    BY LenProperties DEF IndexInv, ControlOK
  <2>2. num1s \in 0 .. at
    <3>1. at \in 0 .. Len(bits) /\ Len(bits) \in at .. Len(bits)
      BY <2>1
    <3> QED
      BY <2>1, <3>1, RankGap DEF IndexInv, ControlOK
  <2>3. units \in Seq([0 .. UnitSize - 1 -> BOOLEAN])
    BY DEF IndexInv, UnitsHold
  <2>4. ASSUME NEW r \in DOMAIN ranks
        PROVE  /\ ranks[r].abs \in 0 .. size
               /\ \A u \in 1 .. 7 : ranks[r].rel[u] \in 0 .. u * UnitSize
    <3>1. CASE phase = "push"
      <4>1. DOMAIN ranks = {}
        BY <3>1 DEF IndexInv, RanksOK
      <4> QED
        BY <4>1
    <3>2. CASE phase = "index"
      <4>1. RanksTo(ranks, bits, at)
        BY <3>2 DEF IndexInv, RanksOK
      <4>2. r \in 1 .. Len(ranks)
        BY <4>1, LenProperties DEF RanksTo
      <4>3. at \in 0 .. Len(bits)
        BY <2>1
      <4>4. /\ ranks[r].abs \in 0 .. at
            /\ \A u \in 1 .. 7 : ranks[r].rel[u] \in 0 .. u * UnitSize
        BY <2>1, <4>1, <4>2, <4>3, CountsToFit
      <4> QED
        BY <2>1, <4>4, SMTT(30)
    <3>3. CASE phase = "done"
      <4>1. RanksAll(ranks, bits, size) /\ BlocksFor(ranks, size)
        BY <3>3 DEF IndexInv, RanksOK
      <4>2. r \in 1 .. Len(ranks)
        BY <4>1, LenProperties DEF RanksAll
      <4> QED
        BY <2>1, <4>1, <4>2, CountsFit
    <3> QED
      BY <3>1, <3>2, <3>3 DEF IndexInv, ControlOK
  <2>5. ASSUME NEW b \in BOOLEAN, NEW s \in DOMAIN selects[b]
        PROVE  selects[b][s] \in 0 .. size
    <3>1. CASE phase # "done"
      <4>1. SamplesTo(selects[b], bits, b, at)
        BY <3>1 DEF IndexInv, SelectsOK
      <4>2. s \in 1 .. Len(selects[b])
        BY <4>1, LenProperties DEF SamplesTo
      <4>3. selects[b][s] \in 0 .. at - 1
        BY <4>1, <4>2 DEF SamplesTo
      <4> QED
        BY <2>1, <4>3
    <3>2. CASE phase = "done"
      <4>1. PICK ss : SamplesTo(ss, bits, b, size) /\ selects[b] = Append(ss, size)
        BY <3>2 DEF IndexInv, SelectsOK
      <4>2. ss \in Seq(Nat) /\ size \in Nat
        BY <2>1, <4>1 DEF SamplesTo
      <4>3. /\ selects[b] \in Seq(Nat) /\ Len(selects[b]) = Len(ss) + 1
            /\ \A t \in 1 .. Len(ss) : selects[b][t] = ss[t]
            /\ selects[b][Len(ss) + 1] = size
        BY <4>1, <4>2, AppendProperties
      <4>4. s \in 1 .. Len(ss) + 1 /\ Len(ss) \in Nat
        BY <4>2, <4>3, LenProperties
      <4>5. CASE s = Len(ss) + 1
        BY <2>1, <4>3, <4>5
      <4>6. CASE s # Len(ss) + 1
        <5>1. s \in 1 .. Len(ss)
          BY <4>4, <4>6
        <5>2. ss[s] \in 0 .. size - 1
          BY <4>1, <5>1 DEF SamplesTo
        <5> QED
          BY <4>2, <4>3, <5>1, <5>2
      <4> QED
        BY <4>5, <4>6
    <3> QED
      BY <3>1, <3>2
  <2> QED
    BY <2>1, <2>2, <2>3, <2>4, <2>5 DEF TypeOK
<1> QED
  BY <1>1, IndexAlways, PTL

-----------------------------------------------------------------------------
\* The bits like b among the first p of a unit.
CountIn(word, b, p) == Cardinality({j \in 0 .. p - 1 : word[j] = b})

LEMMA CountInStep ==
  ASSUME NEW word, NEW b \in BOOLEAN, NEW p \in Nat
  PROVE  /\ CountIn(word, b, p) \in Nat
         /\ CountIn(word, b, 0) = 0
         /\ CountIn(word, b, p + 1) = CountIn(word, b, p) + (IF word[p] = b THEN 1 ELSE 0)
<1> DEFINE like(n) == {j \in 0 .. n - 1 : word[j] = b}
<1>1. IsFiniteSet(0 .. p - 1) /\ like(p) \in SUBSET (0 .. p - 1)
  BY FS_Interval
<1>2. IsFiniteSet(like(p)) /\ Cardinality(like(p)) \in Nat
  BY <1>1, FS_Subset, FS_CardinalityType
<1>3. like(0) = {}
  OBVIOUS
<1>4. like(p + 1) = IF word[p] = b THEN like(p) \cup {p} ELSE like(p)
  OBVIOUS
<1>5. p \notin like(p)
  OBVIOUS
<1>6. /\ CountIn(word, b, p) = Cardinality(like(p))
      /\ CountIn(word, b, 0) = Cardinality(like(0))
      /\ CountIn(word, b, p + 1) = Cardinality(like(p + 1))
  BY DEF CountIn
<1> HIDE DEF like
<1>7. Cardinality(like(p) \cup {p}) = Cardinality(like(p)) + 1
  BY <1>2, <1>5, FS_AddElement
<1> QED
  BY <1>2, <1>3, <1>4, <1>6, <1>7, FS_EmptySet

LEMMA CountInGrows ==
  ASSUME NEW word, NEW b, NEW p \in Nat, NEW q \in Nat, p <= q
  PROVE  CountIn(word, b, p) <= CountIn(word, b, q)
<1> DEFINE like(n) == {j \in 0 .. n - 1 : word[j] = b}
<1>1. IsFiniteSet(0 .. q - 1) /\ like(q) \in SUBSET (0 .. q - 1)
  BY FS_Interval
<1>2. IsFiniteSet(like(q)) /\ like(p) \in SUBSET like(q)
  BY <1>1, FS_Subset
<1>3. CountIn(word, b, p) = Cardinality(like(p)) /\ CountIn(word, b, q) = Cardinality(like(q))
  BY DEF CountIn
<1> HIDE DEF like
<1> QED
  BY <1>2, <1>3, FS_Subset

\* The count of a unit goes on from the rank of its start.
LEMMA CountOfUnit ==
  ASSUME NEW us, NEW v \in Seq(BOOLEAN), NEW n \in 0 .. Len(v), UnitsHold(us, v, n),
         NEW b \in BOOLEAN, NEW x \in Nat, x + 1 \in 1 .. Len(us),
         NEW p \in 0 .. UnitSize, UnitSize * x + p <= n
  PROVE  CountIn(us[x + 1], b, p) = Count(v, b, UnitSize * x + p) - Count(v, b, UnitSize * x)
<1>1. PICK s \in Nat : s = UnitSize * x
  BY SizesOK, ProductOrder
<1>2. Len(v) \in Nat /\ n \in Nat /\ UnitSize \in Nat
  BY LenProperties, SizesOK
<1>3. PICK word \in [0 .. UnitSize - 1 -> BOOLEAN] : word = us[x + 1]
  BY ElementOfSeq DEF UnitsHold
<1>4. \A j \in 0 .. UnitSize - 1 : word[j] <=> s + j < n /\ Bit(v, s + j)
  <2>1. x + 1 - 1 = x
    OBVIOUS
  <2> QED
    BY <1>1, <1>3, <2>1 DEF UnitsHold
<1> DEFINE Good(j) == j <= UnitSize /\ s + j <= n =>
                        CountIn(word, b, j) = Count(v, b, s + j) - Count(v, b, s)
           S == {j \in Nat : Good(j)}
<1>5. \A j \in 0 .. Len(v) : Count(v, b, j) \in Nat
  BY RankType DEF Count
<1>6. s \in 0 .. Len(v)
  BY <1>1, <1>2
<1>7. 0 \in S
  <2>1. CountIn(word, b, 0) = 0
    BY CountInStep
  <2>2. s + 0 = s
    OBVIOUS
  <2>3. Count(v, b, s) - Count(v, b, s) = 0
    BY <1>5, <1>6
  <2> QED
    BY <2>1, <2>2, <2>3
<1>8. ASSUME NEW j \in Nat, j \in S PROVE j + 1 \in S
  <2> SUFFICES ASSUME j + 1 <= UnitSize, s + (j + 1) <= n
               PROVE  CountIn(word, b, j + 1) = Count(v, b, s + (j + 1)) - Count(v, b, s)
    OBVIOUS
  <2>1. CountIn(word, b, j) = Count(v, b, s + j) - Count(v, b, s)
    <3>1. j <= UnitSize /\ s + j <= n
      BY <1>2
    <3> QED
      BY <1>8, <3>1
  <2>2. j \in 0 .. UnitSize - 1 /\ s + j < n /\ s + j \in 0 .. Len(v) - 1
        /\ s + (j + 1) = s + j + 1 /\ s + j \in 0 .. Len(v)
    BY <1>2
  <2>3. word[j] = Bit(v, s + j)
    <3>1. Bit(v, s + j) \in BOOLEAN
      BY <2>2, CountStep
    <3> QED
      BY <1>4, <2>2, <3>1
  <2>4. Count(v, b, s + j + 1) = Count(v, b, s + j) + (IF Bit(v, s + j) = b THEN 1 ELSE 0)
    BY <2>2, CountStep
  <2>5. CountIn(word, b, j + 1) = CountIn(word, b, j) + (IF word[j] = b THEN 1 ELSE 0)
    BY ONLY j \in Nat, b \in BOOLEAN, CountInStep
  <2>6. Count(v, b, s + j) \in Nat /\ Count(v, b, s) \in Nat
    BY <1>5, <1>6, <2>2
  <2> QED
    BY <2>1, <2>2, <2>3, <2>4, <2>5, <2>6
<1> HIDE DEF S
<1>9. \A j \in Nat : j \in S
  BY <1>7, <1>8, Induction
<1>10. Good(p)
  BY <1>9 DEF S
<1> QED
  BY <1>1, <1>3, <1>10

IsPlace(i, r, u, o) == i = BlockSize * r + UnitSize * u + o

\* A place in the vector has its unit, and a block with counts.
LEMMA Placement ==
  ASSUME size \in Nat, NEW i \in 0 .. size - 1, UnitsHold(units, bits, size),
         BlocksFor(ranks, size), NEW r \in Nat, NEW u \in 0 .. 7,
         NEW o \in 0 .. UnitSize - 1, IsPlace(i, r, u, o),
         Len(ranks) \in Nat
  PROVE  /\ r + 1 \in 1 .. Len(ranks) - 1
         /\ 8 * r + u + 1 \in 1 .. Len(units)
         /\ UnitSize * (8 * r + u) = BlockSize * r + UnitSize * u
<1>1. i \in Nat /\ size \in Nat /\ i < size
  OBVIOUS
<1>2. PICK a \in Nat : a = BlockSize * r
  BY SizesOK, ProductOrder
<1>3. PICK e \in Nat : e = UnitSize * u
  BY SizesOK, ProductOrder
<1>4. i = a + e + o
  BY <1>2, <1>3 DEF IsPlace
<1>5. UnitSize * (8 * r + u) = a + e
  BY <1>2, <1>3, SizesOK DEF BlockSize
<1>6. PICK l \in Nat : l = Len(ranks) - 1
  <2>1. Len(ranks) >= 1
    BY DEF BlocksFor
  <2> QED
    BY <2>1
<1>7. PICK c \in Nat : c = BlockSize * l
  BY SizesOK, ProductOrder
<1>8. size <= c
  BY <1>6, <1>7 DEF BlocksFor
<1>9. r < l
  <2>1. l <= r => c <= a
    BY <1>2, <1>7, SizesOK, ProductOrder
  <2>2. ~(c <= a)
    BY <1>1, <1>4, <1>8, SizesOK
  <2> QED
    BY <2>1, <2>2
<1>10. PICK x \in Nat : x = 8 * r + u
  OBVIOUS
<1>11. Len(units) \in Nat
  BY LenProperties DEF UnitsHold
<1>12. PICK d \in Nat : d = UnitSize * Len(units)
  BY <1>11, SizesOK, ProductOrder
<1>13. x < Len(units)
  <2>1. Len(units) <= x => d <= UnitSize * x
    BY <1>11, <1>12, SizesOK, ProductOrder
  <2>2. size <= d
    BY <1>12 DEF UnitsHold
  <2>3. ~(d <= UnitSize * x)
    BY <1>1, <1>4, <1>5, <1>10, <2>2, SizesOK
  <2> QED
    BY <1>11, <2>1, <2>3
<1>14. r + 1 \in 1 .. Len(ranks) - 1
  BY <1>6, <1>9
<1>15. 8 * r + u + 1 \in 1 .. Len(units)
  BY <1>10, <1>11, <1>13
<1> QED
  BY <1>2, <1>3, <1>5, <1>14, <1>15

-----------------------------------------------------------------------------
IsProduct(a, m, x) == a = m * x

\* A vector whose index has been built.
Built ==
  /\ bits \in Seq(BOOLEAN) /\ size = Len(bits)
  /\ UnitsHold(units, bits, size)
  /\ RanksAll(ranks, bits, size) /\ BlocksFor(ranks, size)
  /\ \A b \in BOOLEAN :
       \E ss : SamplesTo(ss, bits, b, size) /\ selects[b] = Append(ss, size)

LEMMA DoneIsBuilt == IndexInv /\ phase = "done" => Built
BY DEF IndexInv, ControlOK, RanksOK, SelectsOK, Built

LEMMA BuiltSizes ==
  ASSUME Built
  PROVE  /\ size \in Nat /\ size = Len(bits) /\ Len(ranks) \in Nat /\ Len(ranks) >= 1
         /\ Len(units) \in Nat /\ bits \in Seq(BOOLEAN)
<1>1. bits \in Seq(BOOLEAN) /\ size = Len(bits) /\ ranks \in Seq(CountRow) /\ Len(ranks) >= 1
  BY DEF Built, RanksAll, BlocksFor
<1>2. units \in Seq([0 .. UnitSize - 1 -> BOOLEAN])
  BY DEF Built, UnitsHold
<1> QED
  BY <1>1, <1>2, LenProperties

\* Of two positions, the one with more bits like b in front is behind a bit
\* like b that the other is not behind.
LEMMA CountOrder ==
  ASSUME NEW v \in Seq(BOOLEAN), NEW b \in BOOLEAN, NEW i \in 0 .. Len(v) - 1,
         Bit(v, i) = b, NEW j \in 0 .. Len(v)
  PROVE  /\ Count(v, b, i) \in Nat /\ Count(v, b, j) \in Nat
         /\ Count(v, b, j) <= Count(v, b, i) <=> j <= i
<1>1. Len(v) \in Nat /\ i \in 0 .. Len(v) /\ i + 1 \in 0 .. Len(v) /\ i \in Nat /\ j \in Nat
  BY LenProperties
<1>2. \A n \in 0 .. Len(v) : Count(v, b, n) \in Nat
  BY RankType DEF Count
<1>3. \A m \in 0 .. Len(v) : \A n \in m .. Len(v) : Count(v, b, m) <= Count(v, b, n)
  BY RankMonotone DEF Count
<1>4. Count(v, b, i + 1) = Count(v, b, i) + 1
  BY CountStep
<1>5. CASE j <= i
  <2>1. i \in j .. Len(v)
    BY <1>1, <1>5
  <2> QED
    BY <1>1, <1>2, <1>3, <1>5, <2>1
<1>6. CASE ~(j <= i)
  <2>1. j \in i + 1 .. Len(v)
    BY <1>1, <1>6
  <2>2. Count(v, b, i + 1) <= Count(v, b, j)
    BY <1>1, <1>3, <2>1
  <2>3. ~(Count(v, b, j) <= Count(v, b, i))
    BY <1>1, <1>2, <1>4, <2>2
  <2> QED
    BY <1>1, <1>2, <1>6, <2>3
<1> QED
  BY <1>5, <1>6

\* What Before says of a block: exact up to the last bit, and not too few there.
LEMMA BeforeBlock ==
  ASSUME Built, NEW b \in BOOLEAN, NEW x \in Nat, x + 1 \in 1 .. Len(ranks),
         NEW a \in Nat, IsProduct(a, BlockSize, x)
  PROVE  /\ Before(b, x) \in Int
         /\ a <= size => Before(b, x) = Count(bits, b, a)
         /\ Count(bits, b, Lesser(a, size)) <= Before(b, x)
<1>1. size \in Nat /\ size = Len(bits) /\ bits \in Seq(BOOLEAN)
  BY BuiltSizes
<1>2. PICK j \in 0 .. Len(bits) : j = Lesser(a, size)
  BY <1>1 DEF Lesser
<1>3. j <= a /\ (a <= size => j = a)
  BY <1>1, <1>2 DEF Lesser
<1>4. /\ Rank1(bits, j) \in Nat /\ Rank0(bits, j) \in Nat
      /\ Rank1(bits, j) + Rank0(bits, j) = j
  BY <1>1, <1>2, RankType
<1>5. ranks[x + 1].abs = Rank1(bits, j)
  <2>1. x + 1 - 1 = x
    OBVIOUS
  <2> QED
    BY <1>2, <2>1 DEF Built, RanksAll, IsProduct
<1>6. x * BlockSize = a
  BY SizesOK DEF IsProduct
<1>7. CASE b = TRUE
  <2>1. Before(b, x) = Rank1(bits, j) /\ Count(bits, b, j) = Rank1(bits, j)
    BY <1>5, <1>7 DEF Before, Count
  <2> QED
    BY <1>2, <1>3, <1>4, <2>1
<1>8. CASE b = FALSE
  <2>1. Before(b, x) = a - Rank1(bits, j) /\ Count(bits, b, j) = Rank0(bits, j)
    BY <1>5, <1>6, <1>8 DEF Before, Count
  <2>2. j \in Nat
    BY <1>1, <1>2
  <2>3. Before(b, x) \in Int /\ Rank0(bits, j) <= Before(b, x)
        /\ (j = a => Before(b, x) = Rank0(bits, j))
    BY <1>3, <1>4, <2>1, <2>2
  <2> QED
    BY <1>2, <1>3, <2>1, <2>3
<1> QED
  BY <1>7, <1>8

\* And the same for BeforeUnit in the block.
LEMMA BeforeInBlock ==
  ASSUME Built, NEW b \in BOOLEAN, NEW x \in Nat, x + 1 \in 1 .. Len(ranks) - 1,
         NEW u \in 0 .. 7, NEW a \in Nat, IsProduct(a, BlockSize, x), a <= size,
         NEW e \in Nat, IsProduct(e, UnitSize, u)
  PROVE  /\ BeforeUnit(b, x, u) \in Int
         /\ a + e <= size =>
              BeforeUnit(b, x, u) = Count(bits, b, a + e) - Count(bits, b, a)
         /\ Count(bits, b, Lesser(a + e, size)) - Count(bits, b, a) <= BeforeUnit(b, x, u)
<1>1. size \in Nat /\ size = Len(bits) /\ bits \in Seq(BOOLEAN)
  BY BuiltSizes
<1>2. PICK j \in 0 .. Len(bits) : j = Lesser(a + e, size)
  BY <1>1 DEF Lesser
<1>3. j - a <= e /\ (a + e <= size => j = a + e) /\ j \in Nat /\ a \in 0 .. Len(bits)
  BY <1>1, <1>2 DEF Lesser
<1>4. /\ Rank1(bits, j) \in Nat /\ Rank0(bits, j) \in Nat
      /\ Rank1(bits, j) + Rank0(bits, j) = j
  BY <1>1, <1>2, RankType
<1>5. /\ Rank1(bits, a) \in Nat /\ Rank0(bits, a) \in Nat
      /\ Rank1(bits, a) + Rank0(bits, a) = a
  BY <1>1, <1>3, RankType
<1>6. Rel(x, u) = Rank1(bits, j) - Rank1(bits, a)
  <2>1. CASE u = 0
    <3>1. e = 0
      BY <2>1, SizesOK DEF IsProduct
    <3>2. j = a
      BY <1>1, <1>3, <3>1
    <3> QED
      BY <1>5, <2>1, <3>2 DEF Rel
  <2>2. CASE u # 0
    <3>1. u \in 1 .. 7 /\ x + 1 - 1 = x
      BY <2>2
    <3>2. ranks[x + 1].rel[u] =
            Rank1(bits, Lesser(BlockSize * (x + 1 - 1) + UnitSize * u, size))
              - Rank1(bits, BlockSize * (x + 1 - 1))
      <4>1. \A r \in 1 .. Len(ranks) - 1 : \A w \in 1 .. 7 :
              ranks[r].rel[w] = Rank1(bits, Lesser(BlockSize * (r - 1) + UnitSize * w, size))
                                  - Rank1(bits, BlockSize * (r - 1))
        BY DEF Built, RanksAll
      <4>2. PICK r \in 1 .. Len(ranks) - 1 : r = x + 1
        OBVIOUS
      <4> QED
        BY <3>1, <4>1, <4>2, SMTT(30)
    <3>3. BlockSize * (x + 1 - 1) = a /\ UnitSize * u = e
      BY <3>1 DEF IsProduct
    <3> QED
      BY <1>2, <2>2, <3>2, <3>3 DEF Rel
  <2> QED
    BY <2>1, <2>2
<1>7. u * UnitSize = e
  BY SizesOK DEF IsProduct
<1>8. CASE b = TRUE
  <2>1. BeforeUnit(b, x, u) = Rel(x, u)
    BY <1>8 DEF BeforeUnit
  <2>2. \A n : Count(bits, b, n) = Rank1(bits, n)
    BY <1>8 DEF Count
  <2>3. PICK y \in Int : y = BeforeUnit(b, x, u)
    BY <1>4, <1>5, <1>6, <2>1
  <2>4. y = Rank1(bits, j) - Rank1(bits, a)
    BY <1>6, <2>1, <2>3
  <2>5. Rank1(bits, j) - Rank1(bits, a) <= y
    BY <1>4, <1>5, <2>3, <2>4
  <2> QED
    BY <1>2, <1>3, <2>2, <2>3, <2>4, <2>5
<1>9. CASE b = FALSE
  <2>1. BeforeUnit(b, x, u) = e - Rel(x, u)
    BY <1>7, <1>9 DEF BeforeUnit
  <2>2. \A n : Count(bits, b, n) = Rank0(bits, n)
    BY <1>9 DEF Count
  <2>3. PICK y \in Int : y = BeforeUnit(b, x, u)
    BY <1>4, <1>5, <1>6, <2>1
  <2>4. y = e - (Rank1(bits, j) - Rank1(bits, a))
    BY <1>6, <2>1, <2>3
  <2>5. Rank0(bits, j) - Rank0(bits, a) <= y
    BY <1>3, <1>4, <1>5, <2>4, SMTT(30)
  <2>6. j = a + e => y = Rank0(bits, j) - Rank0(bits, a)
    BY <1>4, <1>5, <2>4, SMTT(30)
  <2> QED
    BY <1>2, <1>3, <2>2, <2>3, <2>5, <2>6
<1> QED
  BY <1>8, <1>9

\* rank1() of a built vector is the rank of the position, whatever the vector
\* and the sizes: at the start of a block and of a unit, where the stored counts
\* are the answer, and in a last block that is not full.
THEOREM RanksAnswerThm == Spec => []RanksAnswer
<1>1. ASSUME Built, NEW i \in 0 .. size - 1 PROVE FastRank1(i) = Rank1(bits, i)
  <2>1. /\ size \in Nat /\ size = Len(bits) /\ Len(ranks) \in Nat /\ bits \in Seq(BOOLEAN)
        /\ i \in Nat
    BY <1>1, BuiltSizes
  <2>2. PICK r \in Nat : r = i \div BlockSize
    BY <2>1, Located
  <2>3. PICK u \in 0 .. 7 : u = (i \div UnitSize) % 8
    BY <2>1, Located
  <2>4. PICK o \in 0 .. UnitSize - 1 : o = i % UnitSize
    BY <2>1, Located
  <2>5. PICK x \in Nat : x = 8 * r + u
    OBVIOUS
  <2>6. i \div UnitSize = x
    BY <2>1, <2>2, <2>3, <2>5, Located
  <2>7. IsPlace(i, r, u, o)
    BY <2>1, <2>2, <2>3, <2>4, Located DEF IsPlace
  <2>8. UnitsHold(units, bits, size) /\ BlocksFor(ranks, size)
    BY <1>1 DEF Built
  <2>9. /\ r + 1 \in 1 .. Len(ranks) - 1
        /\ x + 1 \in 1 .. Len(units)
        /\ UnitSize * x = BlockSize * r + UnitSize * u
    BY <1>1, <2>1, <2>5, <2>7, <2>8, Placement
  <2>10. PICK a \in Nat : IsProduct(a, BlockSize, r)
    BY SizesOK, ProductOrder DEF IsProduct
  <2>11. PICK e \in Nat : IsProduct(e, UnitSize, u)
    BY SizesOK, ProductOrder DEF IsProduct
  <2>12. i = a + e + o /\ UnitSize * x = a + e
    BY <2>7, <2>9, <2>10, <2>11 DEF IsPlace, IsProduct
  <2>13. a <= size /\ a + e <= size /\ a + e + o <= size
    BY <2>1, <2>12
  <2>14. r + 1 \in 1 .. Len(ranks)
    BY <2>1, <2>9
  <2>15. Before(TRUE, r) = Count(bits, TRUE, a)
    BY <1>1, <2>10, <2>13, <2>14, BeforeBlock
  <2>16. BeforeUnit(TRUE, r, u) = Count(bits, TRUE, a + e) - Count(bits, TRUE, a)
    <3>1. a + e <= size => BeforeUnit(TRUE, r, u) = Count(bits, TRUE, a + e) - Count(bits, TRUE, a)
      <4>1. PICK b \in BOOLEAN : b = TRUE
        OBVIOUS
      <4>2. a + e <= size => BeforeUnit(b, r, u) = Count(bits, b, a + e) - Count(bits, b, a)
        <5>1. /\ Built /\ b \in BOOLEAN /\ r \in Nat /\ r + 1 \in 1 .. Len(ranks) - 1
              /\ u \in 0 .. 7 /\ a \in Nat /\ IsProduct(a, BlockSize, r) /\ a <= size
              /\ e \in Nat /\ IsProduct(e, UnitSize, u)
          BY <1>1, <2>9, <2>10, <2>11, <2>13
        <5> QED
          BY ONLY <5>1, BeforeInBlock, SMTT(30)
      <4> QED
        BY <4>1, <4>2
    <3> QED
      BY <2>13, <3>1
  <2>17. CountIn(units[x + 1], TRUE, o)
           = Count(bits, TRUE, a + e + o) - Count(bits, TRUE, a + e)
    <3>1. o \in 0 .. UnitSize /\ UnitSize * x + o <= size
      BY <2>1, <2>12, SizesOK
    <3>2. size \in 0 .. Len(bits)
      BY <2>1
    <3>3. /\ bits \in Seq(BOOLEAN) /\ size \in 0 .. Len(bits) /\ UnitsHold(units, bits, size)
          /\ x \in Nat /\ x + 1 \in 1 .. Len(units)
          /\ o \in 0 .. UnitSize /\ UnitSize * x + o <= size
      BY <2>1, <2>8, <2>9, <3>1, <3>2
    <3>4. PICK c \in BOOLEAN : c = TRUE
      OBVIOUS
    <3>5. CountIn(units[x + 1], c, o)
            = Count(bits, c, UnitSize * x + o) - Count(bits, c, UnitSize * x)
      BY ONLY <3>3, c \in BOOLEAN, CountOfUnit
    <3> QED
      BY ONLY <2>12, <3>4, <3>5
  <2>18. Cardinality({j \in 0 .. o - 1 : units[x + 1][j]}) = CountIn(units[x + 1], TRUE, o)
    <3>1. units[x + 1] \in [0 .. UnitSize - 1 -> BOOLEAN]
      BY <2>8, <2>9, ElementOfSeq DEF UnitsHold
    <3>2. \A j \in 0 .. o - 1 : units[x + 1][j] \in BOOLEAN
      BY <3>1, SizesOK
    <3>3. {j \in 0 .. o - 1 : units[x + 1][j]} = {j \in 0 .. o - 1 : units[x + 1][j] = TRUE}
      BY <3>2
    <3> QED
      BY <3>3 DEF CountIn
  <2>19. FastRank1(i) = Before(TRUE, r) + BeforeUnit(TRUE, r, u)
                          + CountIn(units[x + 1], TRUE, o)
    BY <2>2, <2>3, <2>4, <2>6, <2>18 DEF FastRank1, Before, BeforeUnit
  <2>20. \A n \in 0 .. Len(bits) : Count(bits, TRUE, n) \in Nat
                                     /\ Count(bits, TRUE, n) = Rank1(bits, n)
    BY <2>1, RankType DEF Count
  <2>21. a \in 0 .. Len(bits) /\ a + e \in 0 .. Len(bits) /\ a + e + o \in 0 .. Len(bits)
    BY <2>1, <2>13, SizesOK
  <2>22. FastRank1(i) = Count(bits, TRUE, a + e + o)
    <3>1. PICK f \in Nat : f = Count(bits, TRUE, a)
      BY <2>20, <2>21
    <3>2. PICK g \in Nat : g = Count(bits, TRUE, a + e)
      BY <2>20, <2>21
    <3>3. PICK h \in Nat : h = Count(bits, TRUE, a + e + o)
      BY <2>20, <2>21
    <3>4. f + (g - f) + (h - g) = h
      OBVIOUS
    <3> QED
      BY <2>15, <2>16, <2>17, <2>19, <3>1, <3>2, <3>3, <3>4
  <2> QED
    BY <2>12, <2>20, <2>21, <2>22
<1>2. IndexInv => RanksAnswer
  BY <1>1, DoneIsBuilt DEF RanksAnswer
<1> QED
  BY <1>2, IndexAlways, PTL

-----------------------------------------------------------------------------
LEMMA DivisionOrder ==
  ASSUME NEW m \in Nat \ {0}, NEW p \in Nat, NEW i \in Nat, p <= i
  PROVE  p \div m <= i \div m
<1>1. PICK d \in Nat : d = p \div m
  BY Divided
<1>2. PICK e \in Nat : e = i \div m
  BY Divided
<1>3. PICK a \in Nat : IsProduct(a, m, d)
  BY ProductOrder DEF IsProduct
<1>4. PICK c \in Nat : IsProduct(c, m, e)
  BY ProductOrder DEF IsProduct
<1>5. a <= p
  <2>1. p = m * d + (p % m) /\ p % m \in 0 .. m - 1
    BY <1>1, Divided
  <2> QED
    BY <1>3, <2>1 DEF IsProduct
<1>6. i < c + m
  <2>1. i = m * e + (i % m) /\ i % m \in 0 .. m - 1
    BY <1>2, Divided
  <2> QED
    BY <1>4, <2>1 DEF IsProduct
<1>7. e < d => c + m <= a
  BY <1>3, <1>4, ProductOrder DEF IsProduct
<1>8. ~(e < d)
  BY <1>5, <1>6, <1>7
<1> QED
  BY <1>1, <1>2, <1>8

\* Rounding up does not pass a multiple, and leaves it if there is more.
LEMMA RoundedUp ==
  ASSUME NEW m \in Nat \ {0}, NEW p \in Nat, NEW x \in Nat, NEW a \in Nat,
         IsProduct(a, m, x)
  PROVE  /\ (p + m - 1) \div m \in Nat
         /\ a < p => x < (p + m - 1) \div m
         /\ p <= a => (p + m - 1) \div m <= x
<1>1. PICK n \in Nat : n = p + m - 1
  OBVIOUS
<1>2. PICK d \in Nat : d = n \div m
  BY <1>1, Divided
<1>3. PICK c \in Nat : IsProduct(c, m, d)
  BY ProductOrder DEF IsProduct
<1>4. PICK e \in 0 .. m - 1 : n = c + e
  <2>1. n = m * d + (n % m) /\ n % m \in 0 .. m - 1
    BY <1>2, Divided
  <2> QED
    BY <1>3, <2>1 DEF IsProduct
<1>5. (d <= x => c <= a) /\ (x < d => a + m <= c)
  BY <1>3, ProductOrder DEF IsProduct
<1>6. a < p => x < d
  BY <1>1, <1>4, <1>5
<1>7. p <= a => d <= x
  BY <1>1, <1>4, <1>5
<1> QED
  BY <1>1, <1>2, <1>6, <1>7

\* The k-th bit like b is at position i, the one with offset o in unit u of block r.
Sought(b, k, i, r, u, o) ==
  /\ b \in BOOLEAN /\ i \in 0 .. size - 1 /\ Bit(bits, i) = b
  /\ k = Count(bits, b, i)
  /\ r \in Nat /\ u \in 0 .. 7 /\ o \in 0 .. UnitSize - 1 /\ IsPlace(i, r, u, o)

LEMMA SoughtPlace ==
  ASSUME Built, NEW b, NEW k, NEW i, NEW r, NEW u, NEW o, Sought(b, k, i, r, u, o)
  PROVE  /\ k \in Nat /\ r + 1 \in 1 .. Len(ranks) - 1
         /\ 8 * r + u + 1 \in 1 .. Len(units)
         /\ UnitSize * (8 * r + u) = BlockSize * r + UnitSize * u
<1>1. /\ size \in Nat /\ size = Len(bits) /\ Len(ranks) \in Nat /\ bits \in Seq(BOOLEAN)
      /\ UnitsHold(units, bits, size) /\ BlocksFor(ranks, size)
  BY BuiltSizes DEF Built
<1>2. /\ b \in BOOLEAN /\ i \in 0 .. size - 1 /\ Bit(bits, i) = b /\ k = Count(bits, b, i)
      /\ r \in Nat /\ u \in 0 .. 7 /\ o \in 0 .. UnitSize - 1 /\ IsPlace(i, r, u, o)
  BY DEF Sought
<1>3. k \in Nat
  BY <1>1, <1>2, CountStep
<1> QED
  BY <1>1, <1>2, <1>3, Placement

\* The blocks up to that of the bit are those with few enough in front.
LEMMA SoughtBlock ==
  ASSUME Built, NEW b, NEW k, NEW i, NEW r, NEW u, NEW o, Sought(b, k, i, r, u, o),
         NEW x \in Nat, x + 1 \in 1 .. Len(ranks)
  PROVE  Before(b, x) \in Int /\ (Before(b, x) <= k <=> x <= r)
<1>1. /\ size \in Nat /\ size = Len(bits) /\ bits \in Seq(BOOLEAN)
  BY BuiltSizes
<1>2. /\ b \in BOOLEAN /\ i \in 0 .. size - 1 /\ Bit(bits, i) = b /\ k = Count(bits, b, i)
      /\ r \in Nat /\ u \in 0 .. 7 /\ o \in 0 .. UnitSize - 1 /\ IsPlace(i, r, u, o)
  BY DEF Sought
<1>3. PICK a \in Nat : IsProduct(a, BlockSize, x)
  BY SizesOK, ProductOrder DEF IsProduct
<1>4. PICK c \in Nat : IsProduct(c, BlockSize, r)
  BY <1>2, SizesOK, ProductOrder DEF IsProduct
<1>5. PICK f \in Nat : IsProduct(f, UnitSize, u)
  BY <1>2, SizesOK, ProductOrder DEF IsProduct
<1>6. i = c + f + o
  BY <1>2, <1>4, <1>5 DEF IsPlace, IsProduct
<1>7. f <= 7 * UnitSize /\ BlockSize = 8 * UnitSize /\ UnitSize \in Nat
  BY <1>2, <1>5, SizesOK, ProductOrder DEF IsProduct, BlockSize
<1>8. c <= i /\ i < c + BlockSize
  BY <1>2, <1>6, <1>7
<1>9. (x <= r => a <= c) /\ (r < x => c + BlockSize <= a)
  BY <1>2, <1>3, <1>4, SizesOK, ProductOrder DEF IsProduct
<1>10. /\ Before(b, x) \in Int
       /\ a <= size => Before(b, x) = Count(bits, b, a)
       /\ Count(bits, b, Lesser(a, size)) <= Before(b, x)
  BY <1>2, <1>3, BeforeBlock
<1>11. \A j \in 0 .. size : /\ Count(bits, b, j) \in Nat /\ k \in Nat
                            /\ Count(bits, b, j) <= k <=> j <= i
  BY <1>1, <1>2, CountOrder
<1>12. CASE x <= r
  <2>1. a <= i /\ a \in 0 .. size
    BY <1>1, <1>2, <1>8, <1>9, <1>12
  <2>2. Before(b, x) = Count(bits, b, a) /\ Count(bits, b, a) <= k
    BY <1>1, <1>10, <1>11, <2>1
  <2> QED
    BY <1>10, <1>12, <2>2
<1>13. CASE ~(x <= r)
  <2>1. i < a
    BY <1>1, <1>2, <1>8, <1>9, <1>13, SizesOK
  <2>2. PICK j \in 0 .. size : j = Lesser(a, size)
    BY <1>1 DEF Lesser
  <2>3. i < j
    BY <1>1, <1>2, <2>1, <2>2 DEF Lesser
  <2>4. ~(j <= i)
    BY <1>1, <1>2, <2>3
  <2>5. Count(bits, b, j) \in Nat /\ k \in Nat /\ ~(Count(bits, b, j) <= k)
    BY <1>11, <2>4
  <2>6. Count(bits, b, j) <= Before(b, x)
    BY <1>10, <2>2
  <2>7. ~(Before(b, x) <= k)
    BY <1>10, <2>5, <2>6
  <2> QED
    BY <1>10, <1>13, <2>7
<1> QED
  BY <1>12, <1>13

\* And so are the units of that block.
LEMMA SoughtUnit ==
  ASSUME Built, NEW b, NEW k, NEW i, NEW r, NEW u, NEW o, Sought(b, k, i, r, u, o),
         NEW w \in 0 .. 7
  PROVE  /\ k - Before(b, r) \in Int /\ BeforeUnit(b, r, w) \in Int
         /\ BeforeUnit(b, r, w) <= k - Before(b, r) <=> w <= u
         /\ w = u => k - Before(b, r) - BeforeUnit(b, r, w)
                       = Count(bits, b, i) - Count(bits, b, BlockSize * r + UnitSize * u)
<1>1. /\ size \in Nat /\ size = Len(bits) /\ Len(ranks) \in Nat /\ bits \in Seq(BOOLEAN)
  BY BuiltSizes
<1>2. /\ b \in BOOLEAN /\ i \in 0 .. size - 1 /\ Bit(bits, i) = b /\ k = Count(bits, b, i)
      /\ r \in Nat /\ u \in 0 .. 7 /\ o \in 0 .. UnitSize - 1 /\ IsPlace(i, r, u, o)
  BY DEF Sought
<1>3. r + 1 \in 1 .. Len(ranks) - 1 /\ r + 1 \in 1 .. Len(ranks)
  <2>1. r + 1 \in 1 .. Len(ranks) - 1
    BY SoughtPlace
  <2> QED
    BY <1>1, <2>1
<1>4. PICK a \in Nat : IsProduct(a, BlockSize, r)
  BY <1>2, SizesOK, ProductOrder DEF IsProduct
<1>5. PICK e \in Nat : IsProduct(e, UnitSize, w)
  BY SizesOK, ProductOrder DEF IsProduct
<1>6. PICK f \in Nat : IsProduct(f, UnitSize, u)
  BY <1>2, SizesOK, ProductOrder DEF IsProduct
<1>7. i = a + f + o
  BY <1>2, <1>4, <1>6 DEF IsPlace, IsProduct
<1>8. a <= size /\ a \in 0 .. size
  BY <1>1, <1>2, <1>7
<1>9. (w <= u => e <= f) /\ (u < w => f + UnitSize <= e)
  BY <1>2, <1>5, <1>6, SizesOK, ProductOrder DEF IsProduct
<1>10. Before(b, r) = Count(bits, b, a)
  BY <1>2, <1>3, <1>4, <1>8, BeforeBlock
<1>11. /\ BeforeUnit(b, r, w) \in Int
       /\ a + e <= size => BeforeUnit(b, r, w) = Count(bits, b, a + e) - Count(bits, b, a)
       /\ Count(bits, b, Lesser(a + e, size)) - Count(bits, b, a) <= BeforeUnit(b, r, w)
  <2>1. /\ Built /\ b \in BOOLEAN /\ r \in Nat /\ r + 1 \in 1 .. Len(ranks) - 1
        /\ a \in Nat /\ IsProduct(a, BlockSize, r) /\ a <= size
        /\ e \in Nat /\ IsProduct(e, UnitSize, w) /\ w \in 0 .. 7
    BY <1>2, <1>3, <1>4, <1>5, <1>8
  <2> QED
    BY ONLY <2>1, BeforeInBlock
<1>12. \A j \in 0 .. size : /\ Count(bits, b, j) \in Nat /\ k \in Nat
                            /\ Count(bits, b, j) <= k <=> j <= i
  BY <1>1, <1>2, CountOrder
<1>13. PICK h \in Nat : h = Count(bits, b, a)
  BY <1>8, <1>12
<1>14. k \in Nat /\ k - Before(b, r) = k - h /\ k - h \in Int
  BY <1>8, <1>10, <1>12, <1>13
<1>15. PICK y \in Int : y = BeforeUnit(b, r, w)
  BY <1>11
<1>16. CASE w <= u
  <2>1. a + e <= i /\ a + e \in 0 .. size /\ a + e <= size
    BY <1>1, <1>2, <1>7, <1>9, <1>16
  <2>2. PICK g \in Nat : g = Count(bits, b, a + e)
    BY <1>12, <2>1
  <2>3. y = g - h /\ g <= k
    BY <1>11, <1>12, <1>13, <1>15, <2>1, <2>2
  <2>4. y <= k - h /\ k - h - y = k - g
    BY <1>14, <2>3
  <2>5. w = u => a + e = BlockSize * r + UnitSize * u
    BY <1>4, <1>5 DEF IsProduct
  <2> QED
    BY <1>2, <1>14, <1>15, <1>16, <2>2, <2>4, <2>5
<1>17. CASE ~(w <= u)
  <2>1. i < a + e
    BY <1>1, <1>2, <1>7, <1>9, <1>17, SizesOK
  <2>2. PICK j \in 0 .. size : j = Lesser(a + e, size)
    BY <1>1 DEF Lesser
  <2>3. ~(j <= i)
    BY <1>1, <1>2, <2>1, <2>2 DEF Lesser
  <2>4. PICK g \in Nat : g = Count(bits, b, j)
    BY <1>12
  <2>5. ~(g <= k) /\ g - h <= y
    BY <1>11, <1>12, <1>13, <1>15, <2>2, <2>3, <2>4
  <2>6. ~(y <= k - h)
    BY <1>14, <2>5
  <2> QED
    BY <1>14, <1>15, <1>17, <2>6
<1> QED
  BY <1>16, <1>17

-----------------------------------------------------------------------------
\* The walk is defined by recursion; these are the functions that solve it.
IsWalk(f, b, k) ==
  f = [r \in Nat |-> IF k >= Before(b, r + 1) THEN f[r + 1] ELSE r]

LEMMA WalkOf ==
  ASSUME NEW b, NEW k, NEW begin
  PROVE  Walk(b, k, begin) = (CHOOSE f : IsWalk(f, b, k))[begin]
BY DEF Walk, IsWalk

\* There is one: it goes to the first block at which the loop stops, if any.
LEMMA WalkExists ==
  ASSUME NEW b, NEW k
  PROVE  \E f : IsWalk(f, b, k)
<1> DEFINE goes(r) == k >= Before(b, r + 1)
           stops(r) == {x \in Nat : r <= x /\ ~goes(x)}
           first(S) == CHOOSE x \in S : \A y \in S : x <= y
           f == [r \in Nat |-> IF stops(r) = {} THEN 0 ELSE first(stops(r))]
<1>1. ASSUME NEW r \in Nat
      PROVE  f[r] = IF goes(r) THEN f[r + 1] ELSE r
  <2> HIDE DEF goes
  <2>1. CASE goes(r)
    <3>1. stops(r) = stops(r + 1)
      <4>1. \A x \in Nat : r <= x /\ ~goes(x) <=> r + 1 <= x /\ ~goes(x)
        <5>1. \A x \in Nat : r <= x /\ x # r <=> r + 1 <= x
          OBVIOUS
        <5> QED
          BY <2>1, <5>1
      <4> QED
        BY <4>1
    <3>2. r + 1 \in Nat
      OBVIOUS
    <3> HIDE DEF stops, first
    <3>3. f[r] = f[r + 1]
      BY <3>1, <3>2
    <3> QED
      BY <2>1, <3>3
  <2>2. CASE ~goes(r)
    <3>1. r \in stops(r) /\ stops(r) \in SUBSET Nat /\ \A x \in stops(r) : r <= x
      BY <2>2
    <3> HIDE DEF stops
    <3>2. \E x \in stops(r) : \A y \in stops(r) : x <= y
      BY <3>1
    <3>3. first(stops(r)) \in stops(r) /\ \A y \in stops(r) : first(stops(r)) <= y
      BY <3>2
    <3>4. PICK x \in stops(r) : x = first(stops(r)) /\ \A y \in stops(r) : x <= y
      BY <3>3
    <3>5. x = r
      BY <3>1, <3>4
    <3>6. f[r] = first(stops(r))
      BY <3>1
    <3> QED
      BY <2>2, <3>4, <3>5, <3>6
  <2> QED
    BY <2>1, <2>2
<1>2. f = [r \in Nat |-> IF goes(r) THEN f[r + 1] ELSE r]
  <2> DEFINE g == [r \in Nat |-> IF goes(r) THEN f[r + 1] ELSE r]
  <2>1. DOMAIN f = Nat /\ DOMAIN g = Nat /\ f = [r \in DOMAIN f |-> f[r]]
        /\ g = [r \in DOMAIN g |-> g[r]]
    OBVIOUS
  <2>2. \A r \in Nat : g[r] = IF goes(r) THEN f[r + 1] ELSE r
    OBVIOUS
  <2>3. \A r \in Nat : f[r] = g[r]
    BY <1>1, <2>2
  <2>4. f = g
    <3> HIDE DEF f, g
    <3> QED
      BY <2>1, <2>3
  <2> QED
    BY <2>4
<1>3. IsWalk(f, b, k)
  BY <1>2 DEF IsWalk
<1> QED
  BY <1>3

LEMMA WalkFinds ==
  ASSUME Built, NEW b, NEW k, NEW i, NEW r, NEW u, NEW o, Sought(b, k, i, r, u, o),
         NEW begin \in 0 .. r
  PROVE  Walk(b, k, begin) = r
<1>1. PICK f : f = CHOOSE g : IsWalk(g, b, k)
  OBVIOUS
<1>2. IsWalk(f, b, k)
  BY <1>1, WalkExists
<1>3. r \in Nat /\ k \in Nat /\ r + 1 \in 1 .. Len(ranks) - 1 /\ Len(ranks) \in Nat
  BY SoughtPlace, BuiltSizes DEF Sought
<1>4. \A x \in 0 .. Len(ranks) - 1 : k >= Before(b, x) <=> x <= r
  <2> TAKE x \in 0 .. Len(ranks) - 1
  <2>1. x \in Nat /\ x + 1 \in 1 .. Len(ranks)
    BY <1>3
  <2>2. Before(b, x) \in Int /\ (Before(b, x) <= k <=> x <= r)
    BY <2>1, SoughtBlock
  <2> QED
    BY <1>3, <2>2
<1>5. \A x \in Nat : f[x] = IF k >= Before(b, x + 1) THEN f[x + 1] ELSE x
  BY <1>2 DEF IsWalk
<1> DEFINE S == {n \in Nat : n <= r => f[r - n] = r}
<1>6. 0 \in S
  <2>1. r + 1 \in 0 .. Len(ranks) - 1 /\ ~(r + 1 <= r)
    BY <1>3
  <2>2. ~(k >= Before(b, r + 1))
    BY <1>4, <2>1
  <2>3. f[r] = r
    BY <1>3, <1>5, <2>2
  <2>4. r - 0 = r
    BY <1>3
  <2> QED
    BY <2>3, <2>4
<1>7. ASSUME NEW n \in Nat, n \in S PROVE n + 1 \in S
  <2> SUFFICES ASSUME n + 1 <= r PROVE f[r - (n + 1)] = r
    OBVIOUS
  <2>1. f[r - n] = r
    BY <1>3, <1>7
  <2>2. PICK x \in Nat : x = r - (n + 1)
    BY <1>3
  <2>3. x + 1 = r - n /\ x + 1 <= r /\ x + 1 \in 0 .. Len(ranks) - 1
    BY <1>3, <2>2
  <2>4. k >= Before(b, x + 1)
    BY <1>4, <2>3
  <2>5. f[x] = f[x + 1]
    BY <1>5, <2>4
  <2> QED
    BY <2>1, <2>2, <2>3, <2>5
<1> HIDE DEF S
<1>8. \A n \in Nat : n \in S
  BY <1>6, <1>7, Induction
<1>9. PICK n \in Nat : n = r - begin
  BY <1>3
<1>10. n <= r => f[r - n] = r
  BY <1>8 DEF S
<1>11. f[begin] = r
  BY <1>3, <1>9, <1>10
<1> QED
  BY <1>1, <1>11, WalkOf

\* And the bisections.
IsBisection(f, b, k, begin, end) ==
  f = [p \in (begin .. end) \X (begin .. end) |->
         LET middle == (p[1] + p[2]) \div 2
         IN  IF p[1] + 1 >= p[2] THEN p[1]
             ELSE IF k < Before(b, middle) THEN f[<<p[1], middle>>]
                                           ELSE f[<<middle, p[2]>>]]

LEMMA BisectOf ==
  ASSUME NEW b, NEW k, NEW begin, NEW end
  PROVE  Bisect(b, k, begin, end)
           = (CHOOSE f : IsBisection(f, b, k, begin, end))[<<begin, end>>]
BY DEF Bisect, IsBisection

\* Where the blocks before r and those behind it are told apart, the bisection
\* ends at r, or as near as its ends are.
LEMMA BisectExists ==
  ASSUME NEW b, NEW k, NEW begin \in Nat, NEW end \in Nat, NEW r \in Nat,
         \A x \in begin .. end : k < Before(b, x) <=> r < x
  PROVE  \E f : IsBisection(f, b, k, begin, end)
<1> DEFINE D == begin .. end
           f == [p \in D \X D |->
                   IF p[1] + 1 >= p[2] \/ r < p[1] THEN p[1]
                   ELSE IF p[2] <= r THEN p[2] - 1 ELSE r]
           Middle(x, y) == (x + y) \div 2
           Step(x, y) == IF x + 1 >= y THEN x
                         ELSE IF k < Before(b, Middle(x, y)) THEN f[<<x, Middle(x, y)>>]
                                                             ELSE f[<<Middle(x, y), y>>]
<1>1. \A x, y \in D : f[<<x, y>>] = IF x + 1 >= y \/ r < x THEN x
                                    ELSE IF y <= r THEN y - 1 ELSE r
  <2> TAKE x, y \in D
  <2>1. <<x, y>> \in D \X D /\ <<x, y>>[1] = x /\ <<x, y>>[2] = y
    OBVIOUS
  <2> HIDE DEF D
  <2> QED
    BY <2>1
<1>2. ASSUME NEW x \in D, NEW y \in D PROVE f[<<x, y>>] = Step(x, y)
  <2> HIDE DEF f
  <2>1. CASE x + 1 >= y
    BY <1>1, <2>1
  <2>2. CASE ~(x + 1 >= y)
    <3>1. PICK m \in D : m = Middle(x, y) /\ x < m /\ m < y
      BY <2>2
    <3>2. k < Before(b, m) <=> r < m
      BY <3>1
    <3>3. Step(x, y) = IF r < m THEN f[<<x, m>>] ELSE f[<<m, y>>]
      BY <2>2, <3>1, <3>2
    <3> HIDE DEF Step, Middle
    <3>4. /\ f[<<x, y>>] = IF x + 1 >= y \/ r < x THEN x ELSE IF y <= r THEN y - 1 ELSE r
          /\ f[<<x, m>>] = IF x + 1 >= m \/ r < x THEN x ELSE IF m <= r THEN m - 1 ELSE r
          /\ f[<<m, y>>] = IF m + 1 >= y \/ r < m THEN m ELSE IF y <= r THEN y - 1 ELSE r
      BY <1>1, <3>1
    <3>5. CASE r < m
      <4>1. (IF x + 1 >= y \/ r < x THEN x ELSE IF y <= r THEN y - 1 ELSE r)
              = IF x + 1 >= m \/ r < x THEN x ELSE IF m <= r THEN m - 1 ELSE r
        BY <2>2, <3>1, <3>5
      <4> QED
        BY <3>3, <3>4, <3>5, <4>1
    <3>6. CASE ~(r < m)
      <4>1. (IF x + 1 >= y \/ r < x THEN x ELSE IF y <= r THEN y - 1 ELSE r)
              = IF m + 1 >= y \/ r < m THEN m ELSE IF y <= r THEN y - 1 ELSE r
        BY <2>2, <3>1, <3>6
      <4> QED
        BY <3>3, <3>4, <3>6, <4>1
    <3> QED
      BY <3>5, <3>6
  <2> QED
    BY <2>1, <2>2
<1>3. f = [p \in D \X D |-> Step(p[1], p[2])]
  <2>1. ASSUME NEW p \in D \X D PROVE f[p] = Step(p[1], p[2])
    <3>1. PICK x \in D, y \in D : p = <<x, y>>
      OBVIOUS
    <3>2. p[1] = x /\ p[2] = y
      BY <3>1
    <3>3. f[<<x, y>>] = Step(x, y)
      BY <1>2
    <3> HIDE DEF f, Step
    <3> QED
      BY <3>1, <3>2, <3>3
  <2> DEFINE g == [p \in D \X D |-> Step(p[1], p[2])]
  <2>2. DOMAIN f = D \X D /\ DOMAIN g = D \X D /\ f = [p \in DOMAIN f |-> f[p]]
        /\ g = [p \in DOMAIN g |-> g[p]]
    OBVIOUS
  <2>3. \A p \in D \X D : g[p] = Step(p[1], p[2])
    <3> HIDE DEF Step, D
    <3> QED
      OBVIOUS
  <2>4. f = g
    <3> HIDE DEF f, g, Step, D
    <3> QED
      BY <2>1, <2>2, <2>3
  <2> QED
    BY <2>4
<1>4. IsBisection(f, b, k, begin, end)
  BY <1>3 DEF IsBisection
<1> QED
  BY <1>4

LEMMA BisectFinds ==
  ASSUME Built, NEW b, NEW k, NEW i, NEW r, NEW u, NEW o, Sought(b, k, i, r, u, o),
         NEW begin \in 0 .. r, NEW end \in r + 1 .. Len(ranks) - 1
  PROVE  Bisect(b, k, begin, end) = r
<1>1. r \in Nat /\ k \in Nat /\ Len(ranks) \in Nat /\ begin \in Nat /\ end \in Nat
  <2>1. r \in Nat /\ k \in Nat /\ Len(ranks) \in Nat
    BY SoughtPlace, BuiltSizes DEF Sought
  <2> QED
    BY <2>1
<1> DEFINE D == begin .. end
<1>2. \A x \in D : k < Before(b, x) <=> r < x
  <2> TAKE x \in D
  <2>1. x \in Nat /\ x + 1 \in 1 .. Len(ranks)
    BY <1>1
  <2>2. Before(b, x) \in Int /\ (Before(b, x) <= k <=> x <= r)
    BY <2>1, SoughtBlock
  <2> QED
    BY <1>1, <2>1, <2>2
<1>3. PICK f : f = CHOOSE g : IsBisection(g, b, k, begin, end)
  OBVIOUS
<1>4. IsBisection(f, b, k, begin, end)
  <2>1. \E g : IsBisection(g, b, k, begin, end)
    BY <1>1, <1>2, BisectExists
  <2> QED
    BY <1>3, <2>1
<1>5. ASSUME NEW x \in D, NEW y \in D, NEW m, m = (x + y) \div 2
      PROVE  f[<<x, y>>] = IF x + 1 >= y THEN x
                           ELSE IF k < Before(b, m) THEN f[<<x, m>>] ELSE f[<<m, y>>]
  <2>1. <<x, y>> \in D \X D /\ <<x, y>>[1] = x /\ <<x, y>>[2] = y
    OBVIOUS
  <2> HIDE DEF D
  <2>2. f = [p \in D \X D |->
         LET middle == (p[1] + p[2]) \div 2
         IN  IF p[1] + 1 >= p[2] THEN p[1]
             ELSE IF k < Before(b, middle) THEN f[<<p[1], middle>>]
                                           ELSE f[<<middle, p[2]>>]]
    BY <1>4 DEF IsBisection, D
  <2> QED
    BY <1>5, <2>1, <2>2
<1> DEFINE Found(n) == \A x, y \in D : x <= r /\ r < y /\ y - x <= n => f[<<x, y>>] = r
           S == {n \in Nat : Found(n)}
<1>6. 0 \in S
  <2>1. \A x, y \in D : ~(x <= r /\ r < y /\ y - x <= 0)
    BY <1>1
  <2> QED
    BY <2>1
<1>7. ASSUME NEW n \in Nat, n \in S PROVE n + 1 \in S
  <2> SUFFICES ASSUME NEW x \in D, NEW y \in D, x <= r, r < y, y - x <= n + 1
               PROVE  f[<<x, y>>] = r
    OBVIOUS
  <2>1. Found(n)
    BY <1>7
  <2>2. PICK m \in D : m = (x + y) \div 2
    BY <1>1
  <2>3. f[<<x, y>>] = IF x + 1 >= y THEN x
                      ELSE IF k < Before(b, m) THEN f[<<x, m>>] ELSE f[<<m, y>>]
    BY <1>5, <2>2
  <2>4. CASE x + 1 >= y
    <3>1. x = r
      BY <1>1, <2>4
    <3> QED
      BY <2>3, <2>4, <3>1
  <2>5. CASE ~(x + 1 >= y)
    <3>1. x < m /\ m < y
      BY <1>1, <2>2, <2>5
    <3>2. m - x <= n /\ y - m <= n
      BY <1>1, <3>1
    <3>3. CASE r < m
      <4>1. f[<<x, m>>] = r
        BY <2>1, <3>2, <3>3
      <4>2. k < Before(b, m)
        BY <1>2, <3>3
      <4> QED
        BY <2>3, <2>5, <4>1, <4>2
    <3>4. CASE ~(r < m)
      <4>1. m <= r
        BY <1>1, <3>4
      <4>2. f[<<m, y>>] = r
        BY <2>1, <3>2, <4>1
      <4>3. ~(k < Before(b, m))
        BY <1>2, <3>4
      <4> QED
        BY <2>3, <2>5, <4>2, <4>3
    <3> QED
      BY <3>3, <3>4
  <2> QED
    BY <2>4, <2>5
<1> HIDE DEF S
<1>8. \A n \in Nat : n \in S
  BY <1>6, <1>7, Induction
<1>9. PICK n \in Nat : n = end - begin
  BY <1>1
<1>10. Found(n)
  BY <1>8 DEF S
<1>11. f[<<begin, end>>] = r
  <2>1. begin \in D /\ end \in D /\ begin <= r /\ r < end /\ end - begin <= n
    BY <1>1, <1>9
  <2> QED
    BY <1>10, <2>1
<1> QED
  BY <1>3, <1>11, BisectOf

\* The three comparisons tell the eight units apart.
LEMMA UnitFinds ==
  ASSUME Built, NEW b, NEW k, NEW i, NEW r, NEW u, NEW o, Sought(b, k, i, r, u, o)
  PROVE  UnitOf(b, r, k - Before(b, r)) = u
<1>1. u \in 0 .. 7
  BY DEF Sought
<1>2. PICK left \in Int : left = k - Before(b, r)
  BY <1>1, SoughtUnit
<1>3. \A w \in 0 .. 7 : left < BeforeUnit(b, r, w) <=> u < w
  <2> TAKE w \in 0 .. 7
  <2>1. BeforeUnit(b, r, w) \in Int /\ (BeforeUnit(b, r, w) <= left <=> w <= u)
    BY <1>2, SoughtUnit
  <2> QED
    BY <1>1, <2>1
<1> DEFINE Upper(unit, half) ==
             IF left < BeforeUnit(b, r, unit + half) THEN unit ELSE unit + half
<1>4. UnitOf(b, r, left) = Upper(Upper(Upper(0, 4), 2), 1)
  BY DEF UnitOf
<1>5. ASSUME NEW w \in 0 .. 7, NEW half \in 0 .. 7, w + half <= 7
      PROVE  Upper(w, half) = IF u < w + half THEN w ELSE w + half
  <2>1. w + half \in 0 .. 7
    BY <1>5
  <2> QED
    BY <1>3, <2>1
<1> HIDE DEF Upper
<1>6. PICK x \in 0 .. 7 : x = Upper(0, 4) /\ x = IF u < 4 THEN 0 ELSE 4
  BY <1>5
<1>7. PICK y \in 0 .. 7 : y = Upper(x, 2) /\ y = IF u < x + 2 THEN x ELSE x + 2
  BY <1>5, <1>6
<1>8. PICK z \in 0 .. 7 : z = Upper(y, 1) /\ z = IF u < y + 1 THEN y ELSE y + 1
  BY <1>1, <1>5, <1>6, <1>7
<1>9. z = u
  BY <1>1, <1>6, <1>7, <1>8
<1> QED
  BY <1>2, <1>4, <1>6, <1>7, <1>8, <1>9

\* And one offset in the unit has the bit and the count.
LEMMA OffsetFinds ==
  ASSUME Built, NEW b, NEW k, NEW i, NEW r, NEW u, NEW o, Sought(b, k, i, r, u, o),
         NEW word, word = units[8 * r + u + 1], NEW rest,
         rest = k - Before(b, r) - BeforeUnit(b, r, u)
  PROVE  SelectBit(word, b, rest) = o
<1>1. /\ size \in Nat /\ size = Len(bits) /\ bits \in Seq(BOOLEAN)
      /\ UnitsHold(units, bits, size)
  BY BuiltSizes DEF Built
<1>2. /\ b \in BOOLEAN /\ i \in 0 .. size - 1 /\ Bit(bits, i) = b /\ k = Count(bits, b, i)
      /\ r \in Nat /\ u \in 0 .. 7 /\ o \in 0 .. UnitSize - 1 /\ IsPlace(i, r, u, o)
  BY DEF Sought
<1>3. PICK x \in Nat : x = 8 * r + u
  BY <1>2
<1>4. x + 1 \in 1 .. Len(units) /\ UnitSize * x = BlockSize * r + UnitSize * u
  BY <1>3, SoughtPlace
<1>5. i \in Nat /\ i = UnitSize * x + o
  <2>1. i = BlockSize * r + UnitSize * u + o
    BY <1>2 DEF IsPlace
  <2> QED
    BY <1>1, <1>2, <1>4, <2>1
<1>6. word[o] = b
  <2>1. i \div UnitSize = x /\ i % UnitSize = o
    BY <1>2, <1>5, SizesOK, DividedOnce
  <2>2. units[i \div UnitSize + 1][i % UnitSize] = Bit(bits, i)
    BY <1>1, <1>2, BitsHeld
  <2> QED
    BY <1>2, <1>3, <2>1, <2>2
<1>7. CountIn(word, b, o) = rest
  <2>1. o \in 0 .. UnitSize /\ UnitSize * x + o <= size /\ size \in 0 .. Len(bits)
    BY <1>1, <1>2, <1>5, SizesOK
  <2>2. CountIn(units[x + 1], b, o)
          = Count(bits, b, UnitSize * x + o) - Count(bits, b, UnitSize * x)
    <3>1. /\ bits \in Seq(BOOLEAN) /\ UnitsHold(units, bits, size) /\ b \in BOOLEAN
          /\ x \in Nat /\ x + 1 \in 1 .. Len(units)
      BY <1>1, <1>2, <1>4
    <3> QED
      BY ONLY <2>1, <3>1, CountOfUnit
  <2>3. rest = Count(bits, b, i) - Count(bits, b, BlockSize * r + UnitSize * u)
    BY <1>2, SoughtUnit
  <2> QED
    BY <1>3, <1>4, <1>5, <2>2, <2>3
<1>8. ASSUME NEW p \in 0 .. UnitSize - 1, NEW q \in 0 .. UnitSize - 1, p < q, word[p] = b
      PROVE  CountIn(word, b, p) # CountIn(word, b, q)
  <2>1. p \in Nat /\ q \in Nat /\ p + 1 \in Nat /\ p + 1 <= q
    BY <1>8, SizesOK
  <2>2. CountIn(word, b, p) \in Nat /\ CountIn(word, b, q) \in Nat
    BY ONLY <1>2, <2>1, CountInStep
  <2>3. CountIn(word, b, p + 1) = CountIn(word, b, p) + (IF word[p] = b THEN 1 ELSE 0)
    BY ONLY <1>2, <2>1, CountInStep
  <2>4. CountIn(word, b, p + 1) <= CountIn(word, b, q)
    BY ONLY <1>2, <2>1, CountInGrows
  <2> QED
    BY <1>8, <2>2, <2>3, <2>4
<1> DEFINE Fits(p) == word[p] = b /\ CountIn(word, b, p) = rest
<1>9. \A p \in 0 .. UnitSize - 1 : Fits(p) => p = o
  <2> SUFFICES ASSUME NEW p \in 0 .. UnitSize - 1, Fits(p), p # o PROVE FALSE
    OBVIOUS
  <2>1. p < o \/ o < p
    BY <1>2, SizesOK
  <2> QED
    BY <1>2, <1>6, <1>7, <1>8, <2>1
<1>10. Fits(o)
  BY <1>6, <1>7
<1> HIDE DEF Fits
<1>11. (CHOOSE p \in 0 .. UnitSize - 1 : Fits(p)) = o
  BY <1>2, <1>9, <1>10
<1> QED
  BY <1>11 DEF Fits, CountIn, SelectBit

\* The samples around the k-th bit: the search begins at its block or before,
\* and ends behind it.
LEMMA SamplesAround ==
  ASSUME Built, NEW b, NEW k, NEW i, NEW r, NEW u, NEW o, Sought(b, k, i, r, u, o),
         NEW id \in Nat, id = k \div BlockSize
  PROVE  /\ selects[b][id + 1] \in 0 .. size - 1 /\ Bit(bits, selects[b][id + 1]) = b
         /\ Count(bits, b, selects[b][id + 1]) = BlockSize * id
         /\ selects[b][id + 1] \div BlockSize \in 0 .. r
         /\ EndBlock(b, id) \in r + 1 .. Len(ranks) - 1
<1>1. /\ size \in Nat /\ size = Len(bits) /\ bits \in Seq(BOOLEAN) /\ Len(ranks) \in Nat
      /\ BlockSize \in Nat \ {0} /\ BlockSize \in Nat /\ 0 < BlockSize
  BY BuiltSizes, SizesOK
<1>2. /\ b \in BOOLEAN /\ i \in 0 .. size - 1 /\ Bit(bits, i) = b /\ k = Count(bits, b, i)
      /\ r \in Nat /\ u \in 0 .. 7 /\ o \in 0 .. UnitSize - 1 /\ IsPlace(i, r, u, o)
      /\ i \in Nat
  BY <1>1 DEF Sought
<1>3. k \in Nat /\ r + 1 \in 1 .. Len(ranks) - 1
  BY SoughtPlace
<1>4. PICK ss : SamplesTo(ss, bits, b, size) /\ selects[b] = Append(ss, size)
  BY <1>2 DEF Built
<1>5. /\ ss \in Seq(Nat) /\ Len(ss) \in Nat
      /\ \A s \in 1 .. Len(ss) : /\ ss[s] \in 0 .. size - 1 /\ Bit(bits, ss[s]) = b
                                 /\ Count(bits, b, ss[s]) = BlockSize * (s - 1)
      /\ Count(bits, b, size) <= BlockSize * Len(ss)
  BY <1>4, LenProperties DEF SamplesTo
<1>6. /\ \A s \in 1 .. Len(ss) : selects[b][s] = ss[s]
      /\ selects[b][Len(ss) + 1] = size
  BY <1>1, <1>4, <1>5, AppendProperties
<1>7. \A j \in 0 .. size : /\ Count(bits, b, j) \in Nat
                           /\ Count(bits, b, j) <= k <=> j <= i
  BY <1>1, <1>2, CountOrder
<1>8. PICK g \in Nat : IsProduct(g, BlockSize, id)
  BY <1>1, ProductOrder DEF IsProduct
<1>9. g <= k /\ k < g + BlockSize
  <2>1. k = BlockSize * id + (k % BlockSize) /\ k % BlockSize \in 0 .. BlockSize - 1
    BY <1>1, <1>3, Divided
  <2>2. PICK e \in 0 .. BlockSize - 1 : e = k % BlockSize
    BY <2>1
  <2>3. k = g + e
    BY <1>8, <2>1, <2>2 DEF IsProduct
  <2> QED
    BY ONLY <1>1, <2>2, <2>3, g \in Nat
<1>10. id < Len(ss)
  <2>1. PICK h \in Nat : IsProduct(h, BlockSize, Len(ss))
    BY <1>1, <1>5, ProductOrder DEF IsProduct
  <2>2. Len(ss) <= id => h <= g
    BY <1>1, <1>5, <1>8, <2>1, ProductOrder DEF IsProduct
  <2>3. Count(bits, b, size) \in Nat /\ Count(bits, b, size) <= h
    BY <1>1, <1>5, <1>7, <2>1 DEF IsProduct
  <2>4. ~(Count(bits, b, size) <= k)
    BY <1>1, <1>2, <1>7
  <2> QED
    BY <1>3, <1>5, <1>9, <2>2, <2>3, <2>4
<1>11. PICK p \in 0 .. size - 1 : /\ p = selects[b][id + 1] /\ Bit(bits, p) = b
                                  /\ Count(bits, b, p) = g
  <2>1. id + 1 \in 1 .. Len(ss) /\ id + 1 - 1 = id
    BY <1>5, <1>10
  <2> QED
    BY <1>5, <1>6, <1>8, <2>1 DEF IsProduct
<1>12. PICK q \in 0 .. size : q = selects[b][id + 2] /\ i < q
  <2>1. CASE id + 2 <= Len(ss)
    <3>1. PICK s \in 1 .. Len(ss) : s = id + 2 /\ s - 1 = id + 1
      BY <1>5, <2>1
    <3>2. BlockSize * (id + 1) = g + BlockSize
      BY <1>1, <1>8 DEF IsProduct
    <3>3. Count(bits, b, ss[s]) = g + BlockSize /\ ss[s] \in 0 .. size - 1
      BY <1>5, <3>1, <3>2
    <3>4. ss[s] \in 0 .. size
      BY <1>1, <3>3
    <3>5. ~(Count(bits, b, ss[s]) <= k)
      BY <1>1, <1>3, <1>9, <3>3
    <3>6. i < ss[s]
      BY <1>2, <1>7, <3>4, <3>5
    <3> QED
      BY <1>6, <3>1, <3>4, <3>6
  <2>2. CASE ~(id + 2 <= Len(ss))
    <3>1. id + 2 = Len(ss) + 1
      BY <1>5, <1>10, <2>2
    <3> QED
      BY <1>1, <1>2, <1>6, <3>1, SMTT(30)
  <2> QED
    BY <2>1, <2>2
<1>13. p \in Nat /\ q \in Nat
  BY <1>1
<1>14. p \div BlockSize \in 0 .. r
  <2>1. p \in 0 .. size /\ Count(bits, b, p) <= k
    BY <1>1, <1>9, <1>11
  <2>2. p <= i
    BY <1>7, <2>1
  <2>3. i \div BlockSize = r
    BY <1>2, Position DEF IsPlace
  <2>4. p \div BlockSize <= r
    BY <1>1, <1>2, <1>13, <2>2, <2>3, DivisionOrder
  <2>5. p \div BlockSize \in Nat
    BY <1>1, <1>13, Divided
  <2> QED
    BY <1>2, <2>4, <2>5
<1>15. EndBlock(b, id) \in r + 1 .. Len(ranks) - 1
  <2>1. EndBlock(b, id) = (q + BlockSize - 1) \div BlockSize
    BY <1>12 DEF EndBlock
  <2>2. PICK a \in Nat : IsProduct(a, BlockSize, r)
    BY <1>1, <1>2, ProductOrder DEF IsProduct
  <2>3. a < q
    <3>1. PICK e \in Nat : e = UnitSize * u
      BY <1>2, SizesOK, ProductOrder
    <3>2. i = a + e + o
      BY <1>2, <2>2, <3>1 DEF IsPlace, IsProduct
    <3> QED
      BY <1>1, <1>2, <1>12, <1>13, <3>2, SMTT(30)
  <2>4. PICK l \in Nat : l = Len(ranks) - 1
    <3>1. Len(ranks) \in Nat /\ r \in Nat /\ r + 1 <= Len(ranks) - 1
      BY <1>1, <1>2, <1>3
    <3>2. \A m, n \in Nat : m + 1 <= n - 1 => \E l \in Nat : l = n - 1
      OBVIOUS
    <3> QED
      BY ONLY <3>1, <3>2
  <2>5. PICK c \in Nat : IsProduct(c, BlockSize, l)
    BY <1>1, ProductOrder DEF IsProduct
  <2>6. q <= c
    <3>1. size <= BlockSize * (Len(ranks) - 1)
      BY DEF Built, BlocksFor
    <3>2. size <= c
      BY <2>4, <2>5, <3>1 DEF IsProduct
    <3> QED
      BY <1>1, <3>2
  <2>7. /\ (q + BlockSize - 1) \div BlockSize \in Nat
        /\ r < (q + BlockSize - 1) \div BlockSize
    BY <1>1, <1>2, <1>13, <2>2, <2>3, RoundedUp
  <2>8. (q + BlockSize - 1) \div BlockSize <= l
    BY <1>1, <1>13, <2>5, <2>6, RoundedUp
  <2>9. PICK d \in Nat : d = (q + BlockSize - 1) \div BlockSize
    BY <2>7
  <2>10. r < d /\ d <= l
    BY <2>7, <2>8, <2>9
  <2> QED
    BY <1>2, <2>1, <2>4, <2>9, <2>10
<1> QED
  BY <1>8, <1>11, <1>14, <1>15 DEF IsProduct

\* Every bit is found by its kind and its count.
LEMMA SelectFinds ==
  ASSUME Built, NEW b \in BOOLEAN, NEW i \in 0 .. size - 1, Bit(bits, i) = b
  PROVE  FastSelect(b, Count(bits, b, i)) = i
<1>1. /\ size \in Nat /\ size = Len(bits) /\ bits \in Seq(BOOLEAN) /\ i \in Nat
      /\ BlockSize \in Nat \ {0}
  BY BuiltSizes, SizesOK
<1>2. PICK k \in Nat : k = Count(bits, b, i)
  BY <1>1, CountStep
<1>3. PICK r \in Nat, u \in 0 .. 7, o \in 0 .. UnitSize - 1 : IsPlace(i, r, u, o)
  <2>1. /\ i \div BlockSize \in Nat /\ (i \div UnitSize) % 8 \in 0 .. 7
        /\ i % UnitSize \in 0 .. UnitSize - 1
        /\ IsPlace(i, i \div BlockSize, (i \div UnitSize) % 8, i % UnitSize)
    BY <1>1, Located DEF IsPlace
  <2> QED
    BY <2>1
<1>4. Sought(b, k, i, r, u, o)
  BY <1>2, <1>3 DEF Sought
<1>5. PICK id \in Nat : id = k \div BlockSize
  BY <1>1, Divided
<1>6. PICK p \in 0 .. size - 1 : p = selects[b][id + 1]
  BY <1>4, <1>5, SamplesAround
<1>7. /\ Bit(bits, p) = b /\ Count(bits, b, p) = BlockSize * id
      /\ p \div BlockSize \in 0 .. r /\ EndBlock(b, id) \in r + 1 .. Len(ranks) - 1
  BY <1>4, <1>5, <1>6, SamplesAround
<1>8. CASE k % BlockSize = 0
  <2>1. k = BlockSize * id + (k % BlockSize)
    BY <1>1, <1>5, Divided
  <2>2. k = BlockSize * id
    <3>1. PICK g \in Nat : g = BlockSize * id
      BY SizesOK, ProductOrder
    <3> QED
      BY <1>8, <2>1, <3>1
  <2>3. Count(bits, b, p) = Count(bits, b, i)
    BY <1>2, <1>7, <2>2
  <2>4. p \in 0 .. Len(bits) /\ i \in 0 .. Len(bits) /\ p \in 0 .. Len(bits) - 1
        /\ i \in 0 .. Len(bits) - 1
    BY <1>1
  <2>5. Count(bits, b, p) <= Count(bits, b, i) <=> p <= i
    BY <1>1, <2>4, CountOrder
  <2>6. Count(bits, b, i) <= Count(bits, b, p) <=> i <= p
    BY <1>1, <1>7, <2>4, CountOrder
  <2>7. p = i
    BY <1>1, <1>2, <2>3, <2>5, <2>6
  <2>8. FastSelect(b, k) = selects[b][id + 1]
    BY <1>5, <1>8 DEF FastSelect
  <2> QED
    BY <1>2, <1>6, <2>7, <2>8
<1>9. CASE k % BlockSize # 0
  <2>1. BlockOf(b, k) = r
    <3>1. Walk(b, k, p \div BlockSize) = r
      BY <1>4, <1>7, WalkFinds
    <3>2. Bisect(b, k, p \div BlockSize, EndBlock(b, id)) = r
      BY <1>4, <1>7, BisectFinds
    <3> QED
      BY <1>5, <1>6, <3>1, <3>2 DEF BlockOf
  <2> DEFINE left == k - Before(b, r)
             rest == left - BeforeUnit(b, r, u)
             word == units[8 * r + u + 1]
  <2>2. UnitOf(b, r, left) = u
    BY <1>4, UnitFinds
  <2>3. SelectBit(word, b, rest) = o
    BY <1>4, OffsetFinds
  <2>4. FastSelect(b, k) = r * BlockSize + u * UnitSize + o
    BY <1>9, <2>1, <2>2, <2>3 DEF FastSelect
  <2>5. r * BlockSize + u * UnitSize + o = i
    <3>1. r * BlockSize = BlockSize * r /\ u * UnitSize = UnitSize * u
      BY SizesOK
    <3> QED
      BY <1>3, <3>1 DEF IsPlace
  <2> QED
    BY <1>2, <2>4, <2>5
<1> QED
  BY <1>8, <1>9

\* select1() and select0() of a built vector invert the ranks: from the sample
\* in front, by walking or by bisection, whichever the distance to the next
\* sample asks for, to the block, to the unit and to the bit.
THEOREM SelectsAnswerThm == Spec => []SelectsAnswer
<1>1. ASSUME Built, NEW k \in 0 .. Ones(bits) - 1
      PROVE  FastSelect(TRUE, k) = Select1(bits, k)
  <2>1. size = Len(bits) /\ bits \in Seq(BOOLEAN)
    BY <1>1, BuiltSizes
  <2>2. PICK i \in 0 .. size - 1 : /\ i = Select1(bits, k)
                                   /\ Bit(bits, i) /\ Rank1(bits, i) = k
    BY <2>1, Select1Finds
  <2>3. Bit(bits, i) \in BOOLEAN
    BY <2>1, CountStep
  <2>4. Bit(bits, i) = TRUE /\ Count(bits, TRUE, i) = k
    BY <2>2, <2>3 DEF Count
  <2>5. FastSelect(TRUE, Count(bits, TRUE, i)) = i
    BY <1>1, <2>4, SelectFinds
  <2> QED
    BY <2>2, <2>4, <2>5
<1>2. ASSUME Built, NEW k \in 0 .. Zeros(bits) - 1
      PROVE  FastSelect(FALSE, k) = Select0(bits, k)
  <2>1. size = Len(bits) /\ bits \in Seq(BOOLEAN)
    BY <1>2, BuiltSizes
  <2>2. PICK i \in 0 .. size - 1 : /\ i = Select0(bits, k)
                                   /\ ~Bit(bits, i) /\ Rank0(bits, i) = k
    BY <2>1, Select0Finds
  <2>3. Bit(bits, i) \in BOOLEAN
    BY <2>1, CountStep
  <2>4. Bit(bits, i) = FALSE /\ Count(bits, FALSE, i) = k
    BY <2>2, <2>3 DEF Count
  <2>5. FastSelect(FALSE, Count(bits, FALSE, i)) = i
    BY <1>2, <2>4, SelectFinds
  <2> QED
    BY <2>2, <2>4, <2>5
<1>3. IndexInv => SelectsAnswer
  BY <1>1, <1>2, DoneIsBuilt DEF SelectsAnswer
<1> QED
  BY <1>3, IndexAlways, PTL
=============================================================================
