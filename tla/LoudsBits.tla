----------------------------- MODULE LoudsBits -----------------------------
(***************************************************************************)
(* What grimoire/vector/bit-vector promises to the trie: a vector of bits  *)
(* that answers rank and select.  The rank index and the bit tricks behind *)
(* the answers are left out here; the positions are the code's, counted    *)
(* from zero.                                                              *)
(***************************************************************************)
EXTENDS Integers, Sequences, FiniteSets

\* operator[]
Bit(bits, i) == bits[i + 1]

\* rank1(i): the number of 1s in front of position i.
Rank1(bits, i) == Cardinality({j \in 1 .. i : bits[j]})

Rank0(bits, i) == Cardinality({j \in 1 .. i : ~bits[j]})

\* select1(k), select0(k): the position of the bit that has k like it in front.
Select1(bits, k) ==
  CHOOSE i \in 0 .. Len(bits) - 1 : Bit(bits, i) /\ Rank1(bits, i) = k

Select0(bits, k) ==
  CHOOSE i \in 0 .. Len(bits) - 1 : ~Bit(bits, i) /\ Rank0(bits, i) = k

\* num_1s()
Ones(bits) == Rank1(bits, Len(bits))

Zeros(bits) == Rank0(bits, Len(bits))
=============================================================================
