------------------------------ MODULE BitIndex ------------------------------
(***************************************************************************)
(* BitVector: how rank and select of LoudsBits are answered.               *)
(*                                                                         *)
(* Bits are pushed into units of UnitSize bits.  build() runs over them    *)
(* once and writes, for every block of eight units, the number of 1s in    *)
(* front of the block (abs) and in front of each of its units (rel1 ..     *)
(* rel7), and the position of every BlockSize-th 1 and 0 (select1s_,       *)
(* select0s_).  A rank is a sum of two of these numbers and a count in one *)
(* unit; a select looks for the block, then for the unit, then in it.      *)
(*                                                                         *)
(* A table of counts is one record per block here, where rel_lo_ and       *)
(* rel_hi_ pack seven of them; TypeOK says that none outgrows its field.   *)
(* Counting and selecting in one unit (popcount, SELECT_TABLE) are what    *)
(* they compute.                                                           *)
(***************************************************************************)
EXTENDS LoudsBits

CONSTANTS
  UnitSize,      \* 64
  NearBlocks,    \* 10: up to here select walks instead of bisecting
  Vectors        \* the vectors that are pushed

BlockSize == 8 * UnitSize

ASSUME SizesAssumption == UnitSize \in Nat \ {0} /\ NearBlocks \in Nat

ASSUME VectorsAssumption == Vectors \subseteq Seq(BOOLEAN)

VARIABLES
  bits,              \* the bits that are to be pushed
  phase,             \* "push", then the loop of build_index(), then "done"
  size, units,       \* size_, units_
  at, num1s,         \* i and num_1s of build_index(); num_0s is the rest
  ranks, selects     \* ranks_; select1s_ under TRUE, select0s_ under FALSE

vars == <<bits, phase, size, units, at, num1s, ranks, selects>>

\* RankIndex::RankIndex()
NoCounts == [abs |-> 0, rel |-> [u \in 1 .. 7 |-> 0]]

BitAt(i) == units[i \div UnitSize + 1][i % UnitSize]
-----------------------------------------------------------------------------
Init ==
  /\ bits \in Vectors
  /\ phase = "push"
  /\ size = 0 /\ units = <<>>
  /\ at = 0 /\ num1s = 0
  /\ ranks = <<>> /\ selects = [b \in BOOLEAN |-> <<>>]

\* push_back(): a new unit is all 0, and only a 1 is written.
PushBack ==
  /\ phase = "push"
  /\ size < Len(bits)
  /\ LET zeros == [i \in 0 .. UnitSize - 1 |-> FALSE]
         room == IF size = UnitSize * Len(units) THEN Append(units, zeros) ELSE units
     IN  units' = IF Bit(bits, size)
                  THEN [room EXCEPT ![size \div UnitSize + 1][size % UnitSize] = TRUE]
                  ELSE room
  /\ size' = size + 1
  /\ UNCHANGED <<bits, phase, at, num1s, ranks, selects>>

\* build_index() reserves one block more than there are.
Build ==
  /\ phase = "push"
  /\ size = Len(bits)
  /\ phase' = "index"
  /\ ranks' = [r \in 1 .. size \div BlockSize
                          + (IF size % BlockSize # 0 THEN 1 ELSE 0) + 1 |-> NoCounts]
  /\ UNCHANGED <<bits, size, units, at, num1s, selects>>

\* Mutant: counts the bit itself.
CountedLate(i) == num1s + IF BitAt(i) THEN 1 ELSE 0

\* The number of 1s in front of position i, when the loop is there.
Counted(i) == num1s

\* Mutant: counts of units are not taken from the start of their block.
WithAbsoluteCount(i) ==
  LET block == i \div BlockSize + 1
      unit == (i \div UnitSize) % 8
  IN  IF i % UnitSize # 0 THEN ranks
      ELSE IF unit = 0 THEN [ranks EXCEPT ![block].abs = Counted(i)]
      ELSE [ranks EXCEPT ![block].rel[unit] = Counted(i)]

\* At the first bit of a unit, its count is written.
WithCount(i) ==
  LET block == i \div BlockSize + 1
      unit == (i \div UnitSize) % 8
  IN  IF i % UnitSize # 0 THEN ranks
      ELSE IF unit = 0 THEN [ranks EXCEPT ![block].abs = Counted(i)]
      ELSE [ranks EXCEPT ![block].rel[unit] = Counted(i) - ranks[block].abs]

\* Mutant: remembers the bit before.
SampledAlways(b, count) ==
  IF (count + 1) % BlockSize = 0 THEN [selects EXCEPT ![b] = Append(@, at)] ELSE selects

\* A bit with a multiple of BlockSize like it in front is remembered.
Sampled(b, count) ==
  IF count % BlockSize = 0 THEN [selects EXCEPT ![b] = Append(@, at)] ELSE selects

IndexBit ==
  /\ phase = "index"
  /\ at < size
  /\ ranks' = WithCount(at)
  /\ LET b == BitAt(at)
     IN  /\ selects' = Sampled(b, IF b THEN num1s ELSE at - num1s)
         /\ num1s' = IF b THEN num1s + 1 ELSE num1s
  /\ at' = at + 1
  /\ UNCHANGED <<bits, phase, size, units>>

\* A last block that is not full: the units behind its last one count all.
LastFilled ==
  LET block == (size - 1) \div BlockSize + 1
      unit == ((size - 1) \div UnitSize) % 8
  IN  IF size % BlockSize = 0 THEN ranks
      ELSE [ranks EXCEPT ![block].rel =
             [u \in 1 .. 7 |-> IF u > unit THEN num1s - ranks[block].abs ELSE @[u]]]

IndexEnd ==
  /\ phase = "index"
  /\ at = size
  /\ phase' = "done"
  /\ ranks' = [LastFilled EXCEPT ![Len(ranks)].abs = num1s]
  /\ selects' = [b \in BOOLEAN |-> Append(selects[b], size)]
  /\ UNCHANGED <<bits, size, units, at, num1s>>

Next == PushBack \/ Build \/ IndexBit \/ IndexEnd

Spec == Init /\ [][Next]_vars
-----------------------------------------------------------------------------
Rel(block, unit) == IF unit = 0 THEN 0 ELSE ranks[block + 1].rel[unit]

\* rank1()
FastRank1(i) ==
  ranks[i \div BlockSize + 1].abs
    + Rel(i \div BlockSize, (i \div UnitSize) % 8)
    + Cardinality({j \in 0 .. (i % UnitSize) - 1 : units[i \div UnitSize + 1][j]})

\* Bits like b in front of a block, and in it in front of a unit.
Before(b, block) ==
  LET ones == ranks[block + 1].abs IN IF b THEN ones ELSE block * BlockSize - ones

BeforeUnit(b, block, unit) ==
  LET ones == Rel(block, unit) IN IF b THEN ones ELSE unit * UnitSize - ones

\* The block to end at: every bit before the next sample is in front of it.
EndBlock(b, id) == (selects[b][id + 2] + BlockSize - 1) \div BlockSize

\* From block to block while the next one does not start behind the k-th bit.
Walk(b, k, begin) ==
  LET walk[r \in Nat] == IF k >= Before(b, r + 1) THEN walk[r + 1] ELSE r
  IN  walk[begin]

\* Halving the blocks from begin to end; p is where the loop has them.
Bisect(b, k, begin, end) ==
  LET bisect[p \in (begin .. end) \X (begin .. end)] ==
        LET middle == (p[1] + p[2]) \div 2
        IN  IF p[1] + 1 >= p[2] THEN p[1]
            ELSE IF k < Before(b, middle) THEN bisect[<<p[1], middle>>]
                                          ELSE bisect[<<middle, p[2]>>]
  IN  bisect[<<begin, end>>]

\* The block of the k-th bit like b: walking if there are few blocks between
\* the samples around it, else by bisection.
BlockOf(b, k) ==
  LET id == k \div BlockSize
      begin == selects[b][id + 1] \div BlockSize
      end == EndBlock(b, id)
  IN  IF begin + NearBlocks >= end THEN Walk(b, k, begin) ELSE Bisect(b, k, begin, end)

\* The unit of the block, in three comparisons.
UnitOf(b, block, k) ==
  LET Upper(unit, half) == IF k < BeforeUnit(b, block, unit + half) THEN unit
                                                                   ELSE unit + half
  IN  Upper(Upper(Upper(0, 4), 2), 1)

\* select_bit(): the bit like b of a unit with so many like it in front.
SelectBit(word, b, count) ==
  CHOOSE p \in 0 .. UnitSize - 1 :
    word[p] = b /\ Cardinality({j \in 0 .. p - 1 : word[j] = b}) = count

\* select1() under TRUE, select0() under FALSE
FastSelect(b, k) ==
  IF k % BlockSize = 0 THEN selects[b][k \div BlockSize + 1]
  ELSE LET block == BlockOf(b, k)
           left == k - Before(b, block)
           unit == UnitOf(b, block, left)
           rest == left - BeforeUnit(b, block, unit)
       IN  block * BlockSize + unit * UnitSize
             + SelectBit(units[8 * block + unit + 1], b, rest)
-----------------------------------------------------------------------------
\* Type invariant of build_index().  The bounds of rel1 .. rel7 are the ones the setters of
\* RankIndex assert (rank-index.h:18-45), and the widths of its fields.
TypeOK ==
  /\ size \in 0 .. Len(bits) /\ at \in 0 .. size /\ num1s \in 0 .. at
  /\ units \in Seq([0 .. UnitSize - 1 -> BOOLEAN])
  /\ \A r \in DOMAIN ranks :
       /\ ranks[r].abs \in 0 .. size
       /\ \A u \in 1 .. 7 : ranks[r].rel[u] \in 0 .. u * UnitSize
  /\ \A b \in BOOLEAN : \A s \in DOMAIN selects[b] : selects[b][s] \in 0 .. size

\* rank1() of a built vector is the rank among the bits that were pushed, at
\* the ends of units, of blocks and of the vector alike.
RanksAnswer ==
  phase = "done" => \A i \in 0 .. size - 1 : FastRank1(i) = Rank1(bits, i)

\* select1() and select0() invert it, whatever the distance of the samples,
\* and up to the last bit of a block that is not full.
SelectsAnswer ==
  phase = "done" =>
    /\ \A k \in 0 .. Ones(bits) - 1 : FastSelect(TRUE, k) = Select1(bits, k)
    /\ \A k \in 0 .. Zeros(bits) - 1 : FastSelect(FALSE, k) = Select0(bits, k)
=============================================================================
