-------------------------------- MODULE Sort --------------------------------
(***************************************************************************)
(* grimoire/algorithm/sort.h: the multikey quicksort that sorts the keys   *)
(* of a trie and the entries of a tail, and counts the different ones.     *)
(*                                                                         *)
(* A segment l, r, depth is what sort(l, r, depth) is called with; places  *)
(* are counted from one and r is the one behind the last.  The functions   *)
(* that are being executed are a stack of frames, and a step is a round of *)
(* a loop.                                                                 *)
(***************************************************************************)
EXTENDS Integers, Sequences, FiniteSets

CONSTANTS
  Texts,       \* the texts of keys
  MaxKeys,     \* bound: keys to be sorted
  Threshold    \* MARISA_INSERTION_SORT_THRESHOLD

ASSUME SortAssumption ==
  /\ Texts \subseteq Seq(Nat)
  /\ MaxKeys \in Nat
  /\ Threshold \in Nat \ {0}

VARIABLES
  arr,         \* the keys
  given,       \* history: the keys as they came
  frames,      \* the calls of sort(): the segment that is left to sort, the
               \* calls to make first, and the size of the call (history)
  count,       \* the sum of the counts of all calls
  pc,          \* which loop runs
  pl, pr, pivotL, pivotR, pivot,   \* locals of the running call
  at, down     \* i and j of insertion_sort()

vars == <<arr, given, frames, count, pc, pl, pr, pivotL, pivotR, pivot, at, down>>
scan == <<pl, pr, pivotL, pivotR, pivot>>

Segment(l, r, depth) == [l |-> l, r |-> r, depth |-> depth]

Size(s) == s.r - s.l

Frame(s) == [l |-> s.l, r |-> s.r, depth |-> s.depth, calls |-> <<>>, size |-> Size(s)]

top == frames[Len(frames)]

\* get_label()
Label(text, depth) == IF depth < Len(text) THEN text[depth + 1] ELSE -1

Between(m, a, b) == (a <= m /\ m <= b) \/ (b <= m /\ m <= a)

\* median() of three labels.
Median(x, y, z) ==
  IF Between(y, x, z) THEN y ELSE IF Between(x, y, z) THEN x ELSE z

Before(x, y, depth) ==
  \E i \in depth + 1 .. Len(y) :
    /\ \A j \in depth + 1 .. i - 1 : j <= Len(x) /\ x[j] = y[j]
    /\ i > Len(x) \/ x[i] < y[i]

\* compare(), of which only the sign matters.
Compare(x, y, depth) ==
  IF Before(x, y, depth) THEN -1 ELSE IF Before(y, x, depth) THEN 1 ELSE 0

\* marisa::swap(*i, *j)
Swapped(a, i, j) == [a EXCEPT ![i] = a[j], ![j] = a[i]]
-----------------------------------------------------------------------------
Init ==
  /\ \E n \in 0 .. MaxKeys : arr \in [1 .. n -> Texts]
  /\ given = arr
  /\ frames = <<Frame(Segment(1, Len(arr) + 1, 0))>>
  /\ count = 0
  /\ pc = "loop"
  /\ pl = 1 /\ pr = 1 /\ pivotL = 1 /\ pivotR = 1 /\ pivot = -1
  /\ at = 1 /\ down = 1

\* sort() calls itself for another segment.
Call ==
  /\ pc = "loop" /\ top.calls # <<>>
  /\ frames' = Append([frames EXCEPT ![Len(frames)].calls = Tail(@)],
                      Frame(Head(top.calls)))
  /\ UNCHANGED <<arr, given, count, pc, scan, at, down>>

\* A round of the outer loop begins.
Partition ==
  /\ pc = "loop" /\ top.calls = <<>> /\ Size(top) > Threshold
  /\ pl' = top.l /\ pivotL' = top.l
  /\ pr' = top.r /\ pivotR' = top.r
  /\ LET At(i) == Label(arr[i], top.depth)
     IN  pivot' = Median(At(top.l), At(top.l + Size(top) \div 2), At(top.r - 1))
  /\ pc' = "left"
  /\ UNCHANGED <<arr, given, frames, count, at, down>>

\* Mutant: stops in front of the last key.
MetEarly == pl + 1 >= pr

\* Have the scans met?
Met == pl >= pr

\* From the left: the labels that are equal go to the front.
ScanLeft ==
  /\ pc = "left" /\ ~Met
  /\ LET label == Label(arr[pl], top.depth)
     IN  \/ /\ label > pivot
            /\ pc' = "right"
            /\ UNCHANGED <<arr, pl, pivotL>>
         \/ /\ label <= pivot
            /\ pl' = pl + 1
            /\ arr' = IF label = pivot THEN Swapped(arr, pl, pivotL) ELSE arr
            /\ pivotL' = IF label = pivot THEN pivotL + 1 ELSE pivotL
            /\ UNCHANGED pc
  /\ UNCHANGED <<given, frames, count, pr, pivotR, pivot, at, down>>

\* From the right: the labels that are equal go to the end.
ScanRight ==
  /\ pc = "right" /\ ~Met
  /\ pr' = pr - 1
  /\ LET label == Label(arr[pr - 1], top.depth)
     IN  /\ pc' = IF label < pivot THEN "exchange" ELSE pc
         /\ arr' = IF label = pivot THEN Swapped(arr, pr - 1, pivotR - 1) ELSE arr
         /\ pivotR' = IF label = pivot THEN pivotR - 1 ELSE pivotR
  /\ UNCHANGED <<given, frames, count, pl, pivotL, pivot, at, down>>

Exchange ==
  /\ pc = "exchange"
  /\ arr' = Swapped(arr, pl, pr)
  /\ pl' = pl + 1
  /\ pc' = "left"
  /\ UNCHANGED <<given, frames, count, pr, pivotL, pivotR, pivot, at, down>>

Meet ==
  /\ pc \in {"left", "right"} /\ Met
  /\ pc' = "back"
  /\ UNCHANGED <<arr, given, frames, count, scan, at, down>>

\* The labels that are equal go back to the middle.
BackLeft ==
  /\ pc = "back" /\ pivotL > top.l
  /\ arr' = Swapped(arr, pivotL - 1, pl - 1)
  /\ pivotL' = pivotL - 1 /\ pl' = pl - 1
  /\ UNCHANGED <<given, frames, count, pc, pr, pivotR, pivot, at, down>>

BackRight ==
  /\ pc = "back" /\ pivotL = top.l /\ pivotR < top.r
  /\ arr' = Swapped(arr, pivotR, pr)
  /\ pivotR' = pivotR + 1 /\ pr' = pr + 1
  /\ UNCHANGED <<given, frames, count, pc, pl, pivotL, pivot, at, down>>
-----------------------------------------------------------------------------
Less == Segment(top.l, pl, top.depth)
Equal == Segment(pl, pr, top.depth + 1)
Greater == Segment(pr, top.r, top.depth)

\* Is there nothing more to sort in a part, but one key to count?
OneKey(s) == Size(s) = 1 \/ (Size(s) > 1 /\ s = Equal /\ pivot = -1)

One(s) == IF OneKey(s) THEN 1 ELSE 0

\* Is a part outside bigger than the one in the middle?
OuterBigger == Size(Less) > Size(Equal) \/ Size(Greater) > Size(Equal)

\* Mutant: calls itself for the bigger of them.
BiggerOuter == IF Size(Less) < Size(Greater) THEN Greater ELSE Less

SmallerOuter == IF Size(Less) < Size(Greater) THEN Less ELSE Greater

\* The parts that are dealt with by calls, in this order.
Others == IF OuterBigger THEN <<Equal, SmallerOuter>> ELSE <<Less, Greater>>

\* The part that is left to the loop.
Kept ==
  IF ~OuterBigger THEN Equal ELSE IF SmallerOuter = Less THEN Greater ELSE Less

\* Mutant: does not go on to the next byte.
SameByte(s) ==
  Segment(IF ~OneKey(s) \/ Size(s) = 1 THEN s.l ELSE s.r, s.r, top.depth)

\* Mutant: goes on behind the end of the keys.
BehindEnd(s) == s

\* What of it is left to sort.
LeftOf(s) ==
  IF ~OneKey(s) THEN s
  ELSE Segment(IF Size(s) = 1 THEN s.l ELSE s.r, s.r, top.depth)

\* Mutant: keys that end here are not counted as one.
CountSingles ==
  Cardinality({s \in {Others[1], Others[2], Equal} : Size(s) = 1})

\* What is counted at once.
Counted ==
  One(Others[1]) + One(Others[2]) + IF OuterBigger THEN 0 ELSE One(Equal)

Divide ==
  /\ pc = "back" /\ pivotL = top.l /\ pivotR = top.r
  /\ LET CallFor(s) == IF Size(s) > 1 /\ ~OneKey(s) THEN <<s>> ELSE <<>>
         left == LeftOf(Kept)
     IN  frames' = [frames EXCEPT ![Len(frames)] =
           [l |-> left.l, r |-> left.r, depth |-> left.depth, size |-> top.size,
            calls |-> CallFor(Others[1]) \o CallFor(Others[2])]]
  /\ count' = count + Counted
  /\ pc' = "loop"
  /\ UNCHANGED <<arr, given, scan, at, down>>

\* insertion_sort() begins, with a count of one.
Insertion ==
  /\ pc = "loop" /\ top.calls = <<>> /\ Size(top) \in 2 .. Threshold
  /\ at' = top.l + 1 /\ down' = top.l + 1
  /\ count' = count + 1
  /\ pc' = "insert"
  /\ UNCHANGED <<arr, given, frames, scan>>

\* Does the key at down have to move on?
MustMove == down > top.l /\ Compare(arr[down - 1], arr[down], top.depth) > 0

MoveDown ==
  /\ pc = "insert" /\ at < top.r /\ MustMove
  /\ arr' = Swapped(arr, down - 1, down)
  /\ down' = down - 1
  /\ UNCHANGED <<given, frames, count, pc, scan, at>>

\* It is in its place, and counts unless the one before it is the same.
Insert ==
  /\ pc = "insert" /\ at < top.r /\ ~MustMove
  /\ count' = IF down = top.l \/ Compare(arr[down - 1], arr[down], top.depth) # 0
              THEN count + 1 ELSE count
  /\ at' = at + 1 /\ down' = at + 1
  /\ UNCHANGED <<arr, given, frames, pc, scan>>

Return ==
  /\ \/ pc = "loop" /\ top.calls = <<>> /\ Size(top) <= 1
     \/ pc = "insert" /\ at >= top.r
  /\ frames' = SubSeq(frames, 1, Len(frames) - 1)
  /\ pc' = IF Len(frames) = 1 THEN "done" ELSE "loop"
  /\ UNCHANGED <<arr, given, count, scan, at, down>>

Next ==
  \/ Call \/ Partition \/ ScanLeft \/ ScanRight \/ Exchange \/ Meet
  \/ BackLeft \/ BackRight \/ Divide \/ Insertion \/ MoveDown \/ Insert
  \/ Return

Spec == Init /\ [][Next]_vars /\ WF_vars(Next)
-----------------------------------------------------------------------------
\* The keys come out in order, with none lost or doubled, and the count is how
\* many different ones there are: reserve_cache() relies on it.  A single key
\* is counted as none.
SortsAndCounts ==
  pc = "done" =>
    /\ \A i, j \in DOMAIN arr : i < j => Compare(arr[i], arr[j], 0) <= 0
    /\ \A t \in Texts : Cardinality({i \in DOMAIN arr : arr[i] = t}) =
                        Cardinality({i \in DOMAIN given : given[i] = t})
    /\ count = IF Len(arr) = 1 THEN 0
               ELSE Cardinality({arr[i] : i \in DOMAIN arr})

\* MARISA_DEBUG_IF(depth > unit.length(), ...) in get_label(), and why compare()
\* may begin at depth: the keys of a segment to be sorted are alike up to
\* depth, and none is shorter.
SegmentsAlike ==
  \A f \in DOMAIN frames :
    LET segments == {frames[f]} \cup {frames[f].calls[c] : c \in DOMAIN frames[f].calls}
    IN  \A s \in segments : \A i, j \in s.l .. s.r - 1 :
          /\ Len(arr[i]) >= s.depth
          /\ SubSeq(arr[i], 1, s.depth) = SubSeq(arr[j], 1, s.depth)

\* While a segment is partitioned, what is equal has been put at both ends,
\* what is less behind the one, what is greater before the other; and what is
\* between them in the end is equal.
Partitioned ==
  LET At(i) == Label(arr[i], top.depth)
      greater == IF pc = "exchange" THEN pr + 1 ELSE pr
  IN  pc \in {"left", "right", "exchange", "back"} =>
        /\ \A i \in top.l .. pivotL - 1 : At(i) = pivot
        /\ \A i \in pivotL .. pl - 1 : At(i) < pivot
        /\ pc = "back" => \A i \in pl .. pr - 1 : At(i) = pivot
        /\ \A i \in greater .. pivotR - 1 : At(i) > pivot
        /\ \A i \in pivotR .. top.r - 1 : At(i) = pivot

\* sort() calls itself only for segments of at most half the size of its own,
\* so that its calls are never nested deeper than the logarithm of the size.
CallsHalve ==
  \A f \in 2 .. Len(frames) : 2 * frames[f].size <= frames[f - 1].size

\* sort() returns.
Terminates == <>(pc = "done")
=============================================================================
