----------------------------- MODULE FlatVector -----------------------------
(***************************************************************************)
(* FlatVector::build: numbers packed with as many bits each as the largest *)
(* one needs, across the ends of units.  extras_, the high part of every   *)
(* link, is one.                                                           *)
(*                                                                         *)
(* The units are new memory: Vector::resize() leaves a Unit uninitialised, *)
(* so every bit is Junk until something is stored in it.  One action is    *)
(* the allocation, one is one set().                                       *)
(***************************************************************************)
EXTENDS VectorLayout, Integers

CONSTANTS
  Lists,       \* the values build() may be called with
  Builds       \* the word sizes, with pad = 64 / word in the code's numbers

ASSUME InputsAssumption ==
  /\ Lists \subseteq Seq(Nat)
  /\ Builds \subseteq [word : Nat \ {0}, pad : {1, 2}]

VARIABLES
  values, build,   \* the arguments, never changed
  units,           \* units_, each a sequence of word bits, or not there yet
  next             \* how many values have been set

vars == <<values, build, units, next>>

Junk == -1
Word == build.word
Size == ValueSize(values)     \* value_size_

\* The unit and the first bit of the i-th value, counted from 0.
UnitId(i) == (i * Size) \div Word
Offset(i) == (i * Size) % Word

\* Does the value reach into the next unit?
Straddles(i) == Offset(i) + Size > Word

BitOf(value, k) == (value \div 2 ^ k) % 2
-----------------------------------------------------------------------------
Init ==
  /\ values \in Lists
  /\ build \in Builds
  /\ units = <<>>
  /\ next = -1

\* Mutant: leaves the last unit as it comes.
AllJunk(count) == [u \in 1 .. count |-> [b \in 1 .. Word |-> Junk]]

\* resize(), then units_.back() = 0.
NewUnits(count) ==
  [u \in 1 .. count |-> [b \in 1 .. Word |-> IF u = count THEN 0 ELSE Junk]]

Allocate ==
  /\ next = -1
  /\ units' = NewUnits(NumUnits(values, Word, build.pad))
  /\ next' = 0
  /\ UNCHANGED <<values, build>>

\* Mutant: stores without clearing first.
OnlyOr(unit, i, value) ==
  [b \in DOMAIN unit |->
    IF b > Offset(i) /\ b <= Offset(i) + Size /\ BitOf(value, b - 1 - Offset(i)) = 1
    THEN 1 ELSE unit[b]]

\* units_[unit_id] &= ~(mask_ << unit_offset), |= value << unit_offset: what
\* is shifted out of the unit is lost.
LowPart(unit, i, value) ==
  [b \in DOMAIN unit |->
    IF b > Offset(i) /\ b <= Offset(i) + Size
    THEN BitOf(value, b - 1 - Offset(i)) ELSE unit[b]]

\* The rest of a value that straddles, at the bottom of the next unit.
HighPart(unit, i, value) ==
  LET stored == Word - Offset(i)
  IN  [b \in DOMAIN unit |->
        IF b <= Size - stored THEN BitOf(value, b - 1 + stored) ELSE unit[b]]

SetValue ==
  /\ next \in 0 .. Len(values) - 1
  /\ LET u == UnitId(next) + 1
         value == values[next + 1]
     IN  units' = [i \in DOMAIN units |->
           IF i = u THEN LowPart(units[i], next, value)
           ELSE IF i = u + 1 /\ Straddles(next)
                THEN HighPart(units[i], next, value) ELSE units[i]]
  /\ next' = next + 1
  /\ UNCHANGED <<values, build>>

Next == Allocate \/ SetValue

Spec == Init /\ [][Next]_vars
-----------------------------------------------------------------------------
\* operator[]: the bits of the i-th value, the lowest first.
Get(i) ==
  [k \in 1 .. Size |->
    IF ~Straddles(i) \/ Offset(i) + k <= Word
    THEN units[UnitId(i) + 1][Offset(i) + k]
    ELSE units[UnitId(i) + 2][Offset(i) + k - Word]]

\* What was put in comes out: every value set so far, also the ones whose
\* units were touched again since, is read back without a bit of its
\* neighbours or of the memory the units were made from.
ValuesKept ==
  \A i \in 0 .. next - 1 :
    /\ values[i + 1] < 2 ^ Size
    /\ Get(i) = [k \in 1 .. Size |-> BitOf(values[i + 1], k - 1)]

\* The units are written to files as they are.  In a 64-bit build each bit of
\* them has been stored by then, so the same keyset gives the same file.  (In
\* a 32-bit build the last unit may be padding, and the bits behind the last
\* value keep what the memory held.)
NothingLeftUnset ==
  next = Len(values) /\ build.pad = 1 =>
    \A u \in DOMAIN units : \A b \in DOMAIN units[u] : units[u][b] # Junk

\* No unit is allocated that neither a value nor the padding to 64 bits needs,
\* and none is missing: build_(), set() and operator[] compute places
\* independently of each other.
UnitsFit ==
  next >= 0 /\ values # <<>> =>
    LET used == {0} \cup {UnitId(i) : i \in 0 .. Len(values) - 1}
                    \cup {UnitId(i) + 1 : i \in {j \in 0 .. Len(values) - 1 : Straddles(j)}}
    IN  /\ used \subseteq 0 .. Len(units) - 1
        /\ Len(units) % build.pad = 0
        /\ \E u \in used : u + build.pad >= Len(units)
=============================================================================
