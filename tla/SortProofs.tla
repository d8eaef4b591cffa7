----------------------------- MODULE SortProofs -----------------------------
(***************************************************************************)
(* Proofs about Sort, for every set of texts, number of keys and           *)
(* threshold: segments are partitioned as Divide takes for granted, no     *)
(* step leaves the array, calls are nested logarithmically, sort() may     *)
(* look at the byte at depth of every key it has to do with, and the keys  *)
(* come out in order, none lost or doubled, with their number counted.     *)
(***************************************************************************)
EXTENDS Sort, FiniteSetTheorems, SequenceTheorems, TLAPS

\* A set of numbers has a least one: all there is to induction over numbers,
\* stated about a set so that the provers can use it.
LEMMA LeastNumber ==
  ASSUME NEW S \in SUBSET Nat, S # {}
  PROVE  \E m \in S : \A k \in S : m <= k
<1> DEFINE less == {pair \in Nat \X Nat : pair[1] < pair[2]}
<1>1. IsWellFoundedOn(OpToRel(<, Nat), Nat)
  BY NatLessThanWellFounded
<1>2. OpToRel(<, Nat) = less
  BY DEF OpToRel
<1>3. IsWellFoundedOn(less, Nat)
  BY <1>1, <1>2
<1>4. \A x, y \in Nat : <<x, y>> \in less <=> x < y
  OBVIOUS
<1> HIDE DEF less
<1>5. PICK m \in S : \A y \in S : ~(<<y, m>> \in less)
  <2>1. \E m \in S : \A y \in S : ~(<<y, m>> \in less)
    BY <1>3, WFMin
  <2> QED
    BY <2>1
<1>6. \A y \in S : ~(y < m)
  BY <1>4, <1>5
<1> QED
  BY <1>6

Segments == [l : Nat, r : Nat, depth : Nat]

Frames == [l : Nat, r : Nat, depth : Nat, calls : Seq(Segments), size : Nat]

SortTypeOK ==
  /\ arr \in Seq(Texts)
  /\ frames \in Seq(Frames)
  /\ pc \in {"loop", "left", "right", "exchange", "back", "insert", "done"}
  /\ pl \in Nat /\ pr \in Nat /\ pivotL \in Nat /\ pivotR \in Nat
  /\ pivot \in Int /\ at \in Nat /\ down \in Nat

InArray(s) == 1 <= s.l /\ s.l <= s.r /\ s.r <= Len(arr) + 1

\* No frame and no call to come leaves the array, and calls are small.
FramesFit ==
  /\ pc # "done" => frames # <<>>
  /\ \A f \in DOMAIN frames :
       /\ InArray(frames[f])
       /\ Size(frames[f]) <= frames[f].size
       /\ \A c \in DOMAIN frames[f].calls :
            /\ InArray(frames[f].calls[c])
            /\ 2 * Size(frames[f].calls[c]) <= frames[f].size

\* The places a scan has got to.
ScanFits ==
  /\ pc \in {"left", "right", "exchange", "back"} =>
       /\ top.l <= pivotL /\ pivotL <= pl /\ pl <= pr
       /\ pr <= pivotR /\ pivotR <= top.r
  /\ pc = "exchange" => pl < pr /\ pr < pivotR
  /\ pc = "insert" => top.l < at /\ at <= top.r /\ top.l <= down /\ down <= at

\* What a scan stopped at.
StoppedAt ==
  /\ pc = "right" /\ pl < pr => Label(arr[pl], top.depth) > pivot
  /\ pc = "exchange" => /\ Label(arr[pl], top.depth) > pivot
                        /\ Label(arr[pr], top.depth) < pivot

IInv == SortTypeOK /\ FramesFit /\ ScanFits /\ StoppedAt /\ Partitioned /\ CallsHalve
-----------------------------------------------------------------------------
(* The array and its labels.                                               *)

\* A label is an integer: a byte, or -1 behind the last.
LEMMA LabelIsInt ==
  ASSUME NEW t \in Texts, NEW d \in Nat
  PROVE  Label(t, d) \in Int
<1>1. t \in Seq(Nat)
  BY SortAssumption
<1> QED
  BY <1>1 DEF Label

\* marisa::swap() changes two places and nothing else.
LEMMA SwappedFacts ==
  ASSUME NEW a \in Seq(Texts), NEW i \in 1 .. Len(a), NEW j \in 1 .. Len(a)
  PROVE  /\ Swapped(a, i, j) \in Seq(Texts)
         /\ Len(Swapped(a, i, j)) = Len(a)
         /\ \A k \in 1 .. Len(a) :
              Swapped(a, i, j)[k] = IF k = j THEN a[i] ELSE IF k = i THEN a[j] ELSE a[k]
BY DEF Swapped

\* The same, for one place.
LEMMA SwappedAt ==
  ASSUME NEW a \in Seq(Texts), NEW i \in 1 .. Len(a), NEW j \in 1 .. Len(a),
         NEW k \in 1 .. Len(a)
  PROVE  /\ Len(Swapped(a, i, j)) = Len(a)
         /\ Swapped(a, i, j)[k] = IF k = j THEN a[i] ELSE IF k = i THEN a[j] ELSE a[k]
BY DEF Swapped

\* The labels of an array are integers, and are swapped with its keys.
LEMMA LabelsAreInts ==
  ASSUME NEW a \in Seq(Texts), NEW d \in Nat, NEW i \in 1 .. Len(a)
  PROVE  Label(a[i], d) \in Int
<1>1. a[i] \in Texts
  OBVIOUS
<1> QED
  BY <1>1, LabelIsInt

\* The labels go with the keys that are swapped.
LEMMA SwappedLabels ==
  ASSUME NEW a \in Seq(Texts), NEW i \in 1 .. Len(a), NEW j \in 1 .. Len(a),
         NEW d, NEW k \in 1 .. Len(a)
  PROVE  /\ k = j => Label(Swapped(a, i, j)[k], d) = Label(a[i], d)
         /\ k = i => Label(Swapped(a, i, j)[k], d) = Label(a[j], d)
         /\ k # i /\ k # j => Label(Swapped(a, i, j)[k], d) = Label(a[k], d)
<1>1. /\ k = j => Swapped(a, i, j)[k] = a[i]
      /\ k = i => Swapped(a, i, j)[k] = a[j]
      /\ k # i /\ k # j => Swapped(a, i, j)[k] = a[k]
  BY DEF Swapped
<1> QED
  BY <1>1

\* As long as something is to be done there is a frame on top.
LEMMA TopFacts ==
  ASSUME SortTypeOK, FramesFit, pc # "done"
  PROVE  /\ Len(frames) \in Nat \ {0} /\ Len(frames) \in DOMAIN frames
         /\ top \in Frames
         /\ top.l \in Nat /\ top.r \in Nat /\ top.depth \in Nat /\ top.size \in Nat
         /\ 1 <= top.l /\ top.l <= top.r /\ top.r <= Len(arr) + 1
         /\ top.r - top.l <= top.size
         /\ Len(arr) \in Nat
<1>1. Len(frames) \in Nat \ {0} /\ Len(frames) \in DOMAIN frames
  BY DEF SortTypeOK, FramesFit
<1>2. top \in Frames
  BY <1>1 DEF SortTypeOK, top
<1>3. InArray(top) /\ Size(top) <= top.size
  BY <1>1 DEF FramesFit, top
<1> QED
  BY <1>1, <1>2, <1>3 DEF Frames, InArray, Size, SortTypeOK

\* Steps that leave the frames as they are, and the array as long as it is.
LEMMA SameFrames ==
  ASSUME IInv, pc # "done", frames' = frames, Len(arr') = Len(arr), pc' # "done"
  PROVE  FramesFit' /\ CallsHalve' /\ top' = top
<1>1. FramesFit'
  BY DEF IInv, FramesFit, InArray, Size
<1>2. CallsHalve'
  BY DEF IInv, CallsHalve
<1> QED
  BY <1>1, <1>2 DEF top
-----------------------------------------------------------------------------
(* The scans.                                                              *)

\* What every step of a scan may rely on.
LEMMA ScanFacts ==
  ASSUME IInv, pc \in {"left", "right", "exchange", "back"}
  PROVE  /\ top.l \in Nat /\ top.r \in Nat /\ top.depth \in Nat /\ Len(arr) \in Nat
         /\ 1 <= top.l /\ top.r <= Len(arr) + 1
         /\ pl \in Nat /\ pr \in Nat /\ pivotL \in Nat /\ pivotR \in Nat /\ pivot \in Int
         /\ top.l <= pivotL /\ pivotL <= pl /\ pl <= pr /\ pr <= pivotR /\ pivotR <= top.r
         /\ arr \in Seq(Texts)
         /\ \A i \in top.l .. top.r - 1 : Label(arr[i], top.depth) \in Int
<1>1. /\ top.l \in Nat /\ top.r \in Nat /\ top.depth \in Nat /\ Len(arr) \in Nat
      /\ 1 <= top.l /\ top.l <= top.r /\ top.r <= Len(arr) + 1
  BY TopFacts DEF IInv
<1>2. arr \in Seq(Texts)
  BY DEF IInv, SortTypeOK
<1>3. \A i \in top.l .. top.r - 1 : Label(arr[i], top.depth) \in Int
  <2>1. \A i \in top.l .. top.r - 1 : i \in 1 .. Len(arr)
    BY <1>1
  <2> QED
    BY <1>1, <1>2, <2>1, LabelsAreInts
<1> QED
  BY <1>1, <1>2, <1>3 DEF IInv, SortTypeOK, ScanFits

\* What a step that swaps two keys does besides.
LEMMA SwapStep ==
  ASSUME IInv, pc # "done", pc' # "done", frames' = frames,
         NEW i \in 1 .. Len(arr), NEW j \in 1 .. Len(arr), arr' = Swapped(arr, i, j)
  PROVE  arr' \in Seq(Texts) /\ FramesFit' /\ CallsHalve' /\ top' = top
<1>1. arr' \in Seq(Texts) /\ Len(arr') = Len(arr)
  BY SwappedFacts DEF IInv, SortTypeOK
<1> QED
  BY <1>1, SameFrames

\* Choosing the pivot keeps the invariant.
LEMMA PartitionKeeps ==
  ASSUME IInv, Partition
  PROVE  IInv'
<1>1. pc = "loop" /\ pc' = "left" /\ arr' = arr /\ frames' = frames
  BY DEF Partition
<1>2. /\ top.l \in Nat /\ top.r \in Nat /\ top.depth \in Nat /\ Len(arr) \in Nat
      /\ 1 <= top.l /\ top.l <= top.r /\ top.r <= Len(arr) + 1
  BY <1>1, TopFacts DEF IInv
<1>3. FramesFit' /\ CallsHalve' /\ top' = top
  BY <1>1, SameFrames
<1>4. /\ pl' = top.l /\ pivotL' = top.l /\ pr' = top.r /\ pivotR' = top.r
      /\ at' = at /\ down' = down
  BY DEF Partition
<1>5. pivot' \in Int
  <2>1. top.r - top.l > 1
    BY <1>2, SortAssumption DEF Partition, Size
  <2> DEFINE mid == top.l + (top.r - top.l) \div 2
  <2>2. mid \in top.l .. top.r - 1
    BY <1>2, <2>1
  <2>3. \A i \in top.l .. top.r - 1 : Label(arr[i], top.depth) \in Int
    <3>1. arr \in Seq(Texts) /\ \A i \in top.l .. top.r - 1 : i \in 1 .. Len(arr)
      BY <1>2 DEF IInv, SortTypeOK
    <3> QED
      BY <1>2, <3>1, LabelsAreInts
  <2>4. pivot' = Median(Label(arr[top.l], top.depth), Label(arr[mid], top.depth),
                        Label(arr[top.r - 1], top.depth))
    BY DEF Partition, Size
  <2>5. top.l \in top.l .. top.r - 1 /\ top.r - 1 \in top.l .. top.r - 1
    BY <1>2, <2>1
  <2> HIDE DEF mid
  <2> QED
    BY <2>2, <2>3, <2>4, <2>5 DEF Median
<1>6. SortTypeOK'
  BY <1>1, <1>2, <1>4, <1>5 DEF IInv, SortTypeOK
<1>7. ScanFits' /\ StoppedAt' /\ Partitioned'
  BY <1>1, <1>2, <1>3, <1>4 DEF ScanFits, StoppedAt, Partitioned
<1> QED
  BY <1>3, <1>6, <1>7 DEF IInv

\* A step of the scan from the left keeps it: it stops, moves on, or puts a key
\* with the pivot's label to the left end.
LEMMA ScanLeftKeeps ==
  ASSUME IInv, ScanLeft
  PROVE  IInv'
<1> DEFINE d == top.depth
           At(i) == Label(arr[i], d)
<1>1. pc = "left" /\ pl < pr /\ frames' = frames /\ pc' \in {"left", "right"}
  BY DEF ScanLeft, Met, IInv, SortTypeOK
<1>2. /\ top.l \in Nat /\ top.r \in Nat /\ d \in Nat /\ Len(arr) \in Nat
      /\ 1 <= top.l /\ top.l <= top.r /\ top.r <= Len(arr) + 1
  BY <1>1, TopFacts DEF IInv
<1>3. /\ pl \in Nat /\ pr \in Nat /\ pivotL \in Nat /\ pivotR \in Nat /\ pivot \in Int
      /\ top.l <= pivotL /\ pivotL <= pl /\ pr <= pivotR /\ pivotR <= top.r
      /\ arr \in Seq(Texts)
  BY <1>1 DEF IInv, SortTypeOK, ScanFits
<1>4. \A i \in 1 .. Len(arr) : At(i) \in Int
  BY <1>2, <1>3, LabelsAreInts
<1>5. /\ \A i \in top.l .. pivotL - 1 : At(i) = pivot
      /\ \A i \in pivotL .. pl - 1 : At(i) < pivot
      /\ \A i \in pr .. pivotR - 1 : At(i) > pivot
      /\ \A i \in pivotR .. top.r - 1 : At(i) = pivot
  BY <1>1 DEF IInv, Partitioned
<1>6. pr' = pr /\ pivotR' = pivotR /\ pivot' = pivot /\ at' = at /\ down' = down
  BY DEF ScanLeft
<1>7. CASE At(pl) > pivot /\ pc' = "right" /\ UNCHANGED <<arr, pl, pivotL>>
  <2>1. FramesFit' /\ CallsHalve' /\ top' = top
    BY <1>1, <1>7, SameFrames
  <2>2. SortTypeOK' /\ ScanFits' /\ StoppedAt'
    BY <1>1, <1>3, <1>6, <1>7, <2>1 DEF IInv, SortTypeOK, ScanFits, StoppedAt
  <2>3. Partitioned'
    BY <1>5, <1>6, <1>7, <2>1 DEF Partitioned
  <2> QED
    BY <2>1, <2>2, <2>3 DEF IInv
<1>8. CASE At(pl) < pivot /\ pl' = pl + 1 /\ UNCHANGED <<arr, pivotL, pc>>
  <2>1. FramesFit' /\ CallsHalve' /\ top' = top
    BY <1>1, <1>8, SameFrames
  <2>2. SortTypeOK' /\ ScanFits' /\ StoppedAt'
    BY <1>1, <1>3, <1>6, <1>8, <2>1 DEF IInv, SortTypeOK, ScanFits, StoppedAt
  <2>3. Partitioned'
    BY <1>1, <1>3, <1>5, <1>6, <1>8, <2>1 DEF Partitioned
  <2> QED
    BY <2>1, <2>2, <2>3 DEF IInv
<1>9. CASE /\ At(pl) = pivot /\ pl' = pl + 1 /\ pivotL' = pivotL + 1 /\ pc' = pc
           /\ arr' = Swapped(arr, pl, pivotL)
  <2>1. pl \in 1 .. Len(arr) /\ pivotL \in 1 .. Len(arr)
    BY <1>1, <1>2, <1>3
  <2>2. arr' \in Seq(Texts) /\ Len(arr') = Len(arr)
    BY <1>3, <1>9, <2>1, SwappedFacts
  <2>3. FramesFit' /\ CallsHalve' /\ top' = top
    BY <1>1, <1>9, <2>2, SameFrames
  <2>4. SortTypeOK' /\ ScanFits' /\ StoppedAt'
    <3>1. SortTypeOK'
      BY <1>1, <1>3, <1>6, <1>9, <2>2 DEF IInv, SortTypeOK
    <3>2. pc' = "left" /\ pl' = pl + 1 /\ pivotL' = pivotL + 1
      BY <1>1, <1>9
    <3>3. ScanFits' /\ StoppedAt'
      BY <1>1, <1>2, <1>3, <1>6, <2>3, <3>2 DEF ScanFits, StoppedAt
    <3> QED
      BY <3>1, <3>3
  <2> DEFINE New(k) == Label(arr'[k], d)
  <2>5. /\ New(pivotL) = pivot
        /\ pivotL < pl => New(pl) < pivot
        /\ \A k \in 1 .. Len(arr) : k # pl /\ k # pivotL => New(k) = At(k)
    <3>1. New(pivotL) = At(pl)
      BY <1>3, <1>9, <2>1, SwappedLabels
    <3>2. New(pl) = At(pivotL)
      BY <1>3, <1>9, <2>1, SwappedLabels
    <3>3. \A k \in 1 .. Len(arr) : k # pl /\ k # pivotL => New(k) = At(k)
      <4>1. ASSUME NEW k \in 1 .. Len(arr), k # pl, k # pivotL
            PROVE  Label(Swapped(arr, pl, pivotL)[k], d) = Label(arr[k], d)
        BY <1>3, <2>1, <4>1, SwappedLabels
      <4> QED
        BY <1>9, <4>1
    <3>4. pivotL < pl => At(pivotL) < pivot
      BY <1>3, <1>5
    <3> QED
      BY <1>9, <3>1, <3>2, <3>3, <3>4
  <2> HIDE DEF New, At
  <2>6. /\ \A i \in top.l .. pivotL : New(i) = pivot
        /\ \A i \in pivotL + 1 .. pl : New(i) < pivot
        /\ \A i \in pr .. pivotR - 1 : New(i) > pivot
        /\ \A i \in pivotR .. top.r - 1 : New(i) = pivot
    <3>1. \A i \in top.l .. top.r - 1 : i \in 1 .. Len(arr)
      BY <1>2
    <3>2. \A i \in top.l .. pivotL : New(i) = pivot
      BY <1>1, <1>2, <1>3, <1>5, <2>5, <3>1
    <3>3. \A i \in pivotL + 1 .. pl : New(i) < pivot
      BY <1>1, <1>2, <1>3, <1>5, <2>5, <3>1
    <3>4. \A i \in pr .. pivotR - 1 : New(i) > pivot
      BY <1>1, <1>2, <1>3, <1>5, <2>5, <3>1
    <3>5. \A i \in pivotR .. top.r - 1 : New(i) = pivot
      BY <1>1, <1>2, <1>3, <1>5, <2>5, <3>1
    <3> QED
      BY <3>2, <3>3, <3>4, <3>5
  <2>7. Partitioned'
    BY <1>1, <1>3, <1>6, <1>9, <2>3, <2>6 DEF Partitioned, New
  <2> QED
    BY <2>3, <2>4, <2>7 DEF IInv
<1>10. pl \in 1 .. Len(arr) /\ At(pl) \in Int
  BY <1>1, <1>2, <1>3, <1>4
<1> QED
  BY <1>1, <1>3, <1>7, <1>8, <1>9, <1>10 DEF ScanLeft

\* A step of the scan from the right keeps it, in the same way.
LEMMA ScanRightKeeps ==
  ASSUME IInv, ScanRight
  PROVE  IInv'
<1> DEFINE d == top.depth
           At(i) == Label(arr[i], d)
           New(i) == Label(arr'[i], d)
<1>1. pc = "right" /\ pl < pr /\ frames' = frames /\ pr' = pr - 1
  BY ScanFacts DEF ScanRight, Met
<1>2. /\ top.l \in Nat /\ top.r \in Nat /\ Len(arr) \in Nat
      /\ 1 <= top.l /\ top.r <= Len(arr) + 1
      /\ pl \in Nat /\ pr \in Nat /\ pivotL \in Nat /\ pivotR \in Nat /\ pivot \in Int
      /\ top.l <= pivotL /\ pivotL <= pl /\ pr <= pivotR /\ pivotR <= top.r
      /\ arr \in Seq(Texts)
      /\ \A i \in top.l .. top.r - 1 : At(i) \in Int
  BY <1>1, ScanFacts
<1>3. /\ \A i \in top.l .. pivotL - 1 : At(i) = pivot
      /\ \A i \in pivotL .. pl - 1 : At(i) < pivot
      /\ \A i \in pr .. pivotR - 1 : At(i) > pivot
      /\ \A i \in pivotR .. top.r - 1 : At(i) = pivot
      /\ At(pl) > pivot
  BY <1>1 DEF IInv, Partitioned, StoppedAt
<1>4. /\ pl' = pl /\ pivotL' = pivotL /\ pivot' = pivot /\ at' = at /\ down' = down
  BY DEF ScanRight
<1>5. CASE At(pr - 1) < pivot /\ pc' = "exchange" /\ arr' = arr /\ pivotR' = pivotR
  <2>1. FramesFit' /\ CallsHalve' /\ top' = top
    BY <1>1, <1>5, SameFrames
  <2>2. pl < pr - 1
    <3>1. pl # pr - 1
      <4>1. pivot < At(pl) /\ At(pr - 1) < pivot /\ pivot \in Int
        BY <1>2, <1>3, <1>5
      <4>2. SUFFICES ASSUME pl = pr - 1 PROVE FALSE
        OBVIOUS
      <4>3. At(pl) = At(pr - 1)
        BY <4>2
      <4>4. At(pl) \in Int
        BY <1>1, <1>2
      <4> QED
        BY <4>1, <4>3, <4>4
    <3> QED
      BY <1>1, <1>2, <3>1
  <2>3. SortTypeOK' /\ ScanFits' /\ StoppedAt'
    BY <1>1, <1>2, <1>3, <1>4, <1>5, <2>1, <2>2
       DEF IInv, SortTypeOK, ScanFits, StoppedAt
  <2>4. Partitioned'
    BY <1>1, <1>2, <1>3, <1>4, <1>5, <2>1 DEF Partitioned
  <2> QED
    BY <2>1, <2>3, <2>4 DEF IInv
<1>6. CASE At(pr - 1) > pivot /\ pc' = pc /\ arr' = arr /\ pivotR' = pivotR
  <2>1. FramesFit' /\ CallsHalve' /\ top' = top
    BY <1>1, <1>6, SameFrames
  <2>2. SortTypeOK' /\ ScanFits' /\ StoppedAt'
    BY <1>1, <1>2, <1>3, <1>4, <1>6, <2>1 DEF IInv, SortTypeOK, ScanFits, StoppedAt
  <2>3. Partitioned'
    BY <1>1, <1>2, <1>3, <1>4, <1>6, <2>1 DEF Partitioned
  <2> QED
    BY <2>1, <2>2, <2>3 DEF IInv
<1>7. CASE /\ At(pr - 1) = pivot /\ pc' = pc /\ pivotR' = pivotR - 1
           /\ arr' = Swapped(arr, pr - 1, pivotR - 1)
  <2>1. /\ pr - 1 \in 1 .. Len(arr) /\ pivotR - 1 \in 1 .. Len(arr)
        /\ pl \in 1 .. Len(arr)
    BY <1>1, <1>2
  <2>2. pl < pr - 1
    <3>1. pl # pr - 1
      BY <1>2, <1>3, <1>7
    <3> QED
      BY <1>1, <1>2, <3>1
  <2>3. pc # "done" /\ pc' = "right"
    BY <1>1, <1>7
  <2>4. /\ arr' \in Seq(Texts) /\ FramesFit' /\ CallsHalve' /\ top' = top
        /\ New(pr - 1) = At(pivotR - 1) /\ New(pivotR - 1) = At(pr - 1)
        /\ \A k \in 1 .. Len(arr) : k # pr - 1 /\ k # pivotR - 1 => New(k) = At(k)
    <3>1. arr' \in Seq(Texts) /\ FramesFit' /\ CallsHalve' /\ top' = top
      BY <1>1, <1>7, <2>1, <2>3, SwapStep
    <3>0. arr \in Seq(Texts) /\ arr' = Swapped(arr, pr - 1, pivotR - 1)
      BY <1>2, <1>7
    <3>2. New(pr - 1) = At(pivotR - 1)
      BY ONLY <2>1, <3>0, SwappedLabels
    <3>3. New(pivotR - 1) = At(pr - 1)
      BY ONLY <2>1, <3>0, SwappedLabels
    <3>4. \A k \in 1 .. Len(arr) : k # pr - 1 /\ k # pivotR - 1 => New(k) = At(k)
      <4>1. \A k \in 1 .. Len(arr) : k # pr - 1 /\ k # pivotR - 1 => arr'[k] = arr[k]
        BY <1>2, <1>7, <2>1 DEF Swapped
      <4> QED
        BY <4>1
    <3> QED
      BY <3>1, <3>2, <3>3, <3>4
  <2> HIDE DEF New, At
  <2>5. \A i \in top.l .. top.r - 1 : i \in 1 .. Len(arr)
    BY <1>2
  <2>6. \A i \in top.l .. pr - 2 : New(i) = At(i)
    BY <1>1, <1>2, <2>4, <2>5
  <2>7. \A i \in pr .. pivotR - 2 : New(i) = At(i)
    BY <1>1, <1>2, <2>4, <2>5
  <2>8. \A i \in pivotR .. top.r - 1 : New(i) = At(i)
    BY <1>1, <1>2, <2>4, <2>5
  <2>9. /\ \A i \in top.l .. pivotL - 1 : New(i) = pivot
        /\ \A i \in pivotL .. pl - 1 : New(i) < pivot
        /\ New(pl) > pivot
    <3>1. \A i \in top.l .. pl : i \in top.l .. pr - 2
      BY <1>2, <2>2
    <3>2. \A i \in top.l .. pl : New(i) = At(i)
      BY <2>6, <3>1
    <3>3. /\ \A i \in top.l .. pivotL - 1 : i \in top.l .. pl
          /\ \A i \in pivotL .. pl - 1 : i \in top.l .. pl
          /\ pl \in top.l .. pl
      BY <1>2
    <3> QED
      BY <1>1, <1>3, <2>2, <3>2, <3>3
  <2>10. \A i \in pr - 1 .. pivotR - 2 : New(i) > pivot
    <3>1. pr < pivotR => New(pr - 1) > pivot
      BY <1>1, <1>2, <1>3, <2>4
    <3>2. \A i \in pr .. pivotR - 2 : New(i) > pivot
      BY <1>2, <1>3, <2>7
    <3> QED
      BY <1>1, <1>2, <3>1, <3>2
  <2>11. \A i \in pivotR - 1 .. top.r - 1 : New(i) = pivot
    <3>1. New(pivotR - 1) = pivot
      BY <1>7, <2>4
    <3>2. ASSUME NEW i \in pivotR .. top.r - 1
          PROVE  New(i) = pivot
      <4>1. At(i) = pivot
        BY <1>3
      <4> QED
        BY <1>2, <2>8, <4>1
    <3> QED
      BY <1>2, <3>1, <3>2
  <2>12. SortTypeOK' /\ ScanFits' /\ StoppedAt'
    BY <1>1, <1>2, <1>4, <1>7, <2>2, <2>3, <2>4, <2>9
       DEF IInv, SortTypeOK, ScanFits, StoppedAt, New
  <2>13. Partitioned'
    BY <1>1, <1>2, <1>4, <1>7, <2>3, <2>4, <2>9, <2>10, <2>11 DEF Partitioned, New
  <2> QED
    BY <2>4, <2>12, <2>13 DEF IInv
<1>8. At(pr - 1) \in Int
  BY <1>1, <1>2
<1> QED
  BY <1>1, <1>2, <1>5, <1>6, <1>7, <1>8 DEF ScanRight

\* The exchange of the two keys the scans stopped at keeps it.
LEMMA ExchangeKeeps ==
  ASSUME IInv, Exchange
  PROVE  IInv'
<1> DEFINE d == top.depth
           At(i) == Label(arr[i], d)
           New(i) == Label(arr'[i], d)
<1>1. /\ pc = "exchange" /\ frames' = frames /\ pc' = "left" /\ pl' = pl + 1
      /\ pr' = pr /\ pivotL' = pivotL /\ pivotR' = pivotR /\ pivot' = pivot
      /\ at' = at /\ down' = down /\ arr' = Swapped(arr, pl, pr)
  BY DEF Exchange
<1>2. /\ top.l \in Nat /\ top.r \in Nat /\ Len(arr) \in Nat
      /\ 1 <= top.l /\ top.r <= Len(arr) + 1
      /\ pl \in Nat /\ pr \in Nat /\ pivotL \in Nat /\ pivotR \in Nat /\ pivot \in Int
      /\ top.l <= pivotL /\ pivotL <= pl /\ pl <= pr /\ pr <= pivotR /\ pivotR <= top.r
      /\ arr \in Seq(Texts)
  BY <1>1, ScanFacts
<1>3. /\ \A i \in top.l .. pivotL - 1 : At(i) = pivot
      /\ \A i \in pivotL .. pl - 1 : At(i) < pivot
      /\ \A i \in pr + 1 .. pivotR - 1 : At(i) > pivot
      /\ At(pl) > pivot /\ At(pr) < pivot /\ pl < pr /\ pr < pivotR
      /\ \A i \in pivotR .. top.r - 1 : At(i) = pivot
  BY <1>1 DEF IInv, Partitioned, StoppedAt, ScanFits
<1>4. pl \in 1 .. Len(arr) /\ pr \in 1 .. Len(arr)
  BY <1>1, <1>2, <1>3
<1>5. /\ arr' \in Seq(Texts) /\ FramesFit' /\ CallsHalve' /\ top' = top
      /\ New(pl) = At(pr) /\ New(pr) = At(pl)
      /\ \A k \in 1 .. Len(arr) : k # pl /\ k # pr => New(k) = At(k)
  <2>1. arr' \in Seq(Texts) /\ FramesFit' /\ CallsHalve' /\ top' = top
    BY <1>1, <1>4, SwapStep
  <2>2. /\ arr'[pl] = arr[pr] /\ arr'[pr] = arr[pl]
        /\ \A k \in 1 .. Len(arr) : k # pl /\ k # pr => arr'[k] = arr[k]
    BY <1>1, <1>2, <1>4 DEF Swapped
  <2> QED
    BY <2>1, <2>2
<1> HIDE DEF New, At
<1>6. \A i \in top.l .. top.r - 1 : i \in 1 .. Len(arr)
  BY <1>2
<1>7. \A i \in top.l .. pivotL - 1 : New(i) = pivot
  <2>1. \A i \in top.l .. pivotL - 1 : New(i) = pivot
    <3>1. ASSUME NEW i \in top.l .. pivotL - 1
          PROVE  New(i) = pivot
      <4>1. i \in 1 .. Len(arr) /\ i # pl /\ i # pr
        BY <1>1, <1>2, <1>3
      <4>2. New(i) = At(i)
        BY <1>5, <4>1
      <4> QED
        BY <1>1, <1>2, <1>3, <4>2
    <3> QED
      BY <3>1
  <2> QED
    BY <1>2, <2>1
<1>8. \A i \in pivotL .. pl : New(i) < pivot
  <2>1. \A i \in pivotL .. pl - 1 : New(i) < pivot
    <3>1. ASSUME NEW i \in pivotL .. pl - 1
          PROVE  New(i) < pivot
      <4>1. i \in 1 .. Len(arr) /\ i # pl /\ i # pr
        BY <1>1, <1>2, <1>3
      <4>2. New(i) = At(i)
        BY <1>5, <4>1
      <4> QED
        BY <1>1, <1>2, <1>3, <4>2
    <3> QED
      BY <3>1
  <2>2. New(pl) < pivot
    BY <1>3, <1>5
  <2> QED
    BY <1>2, <2>1, <2>2
<1>9. \A i \in pr .. pivotR - 1 : New(i) > pivot
  <2>1. \A i \in pr + 1 .. pivotR - 1 : New(i) > pivot
    <3>1. ASSUME NEW i \in pr + 1 .. pivotR - 1
          PROVE  New(i) > pivot
      <4>1. i \in 1 .. Len(arr) /\ i # pl /\ i # pr
        BY <1>1, <1>2, <1>3
      <4>2. New(i) = At(i)
        BY <1>5, <4>1
      <4> QED
        BY <1>1, <1>2, <1>3, <4>2
    <3> QED
      BY <3>1
  <2>2. New(pr) > pivot
    BY <1>3, <1>5
  <2> QED
    BY <1>2, <2>1, <2>2
<1>10. \A i \in pivotR .. top.r - 1 : New(i) = pivot
  <2>1. \A i \in pivotR .. top.r - 1 : New(i) = pivot
    <3>1. ASSUME NEW i \in pivotR .. top.r - 1
          PROVE  New(i) = pivot
      <4>1. i \in 1 .. Len(arr) /\ i # pl /\ i # pr
        BY <1>1, <1>2, <1>3
      <4>2. New(i) = At(i)
        BY <1>5, <4>1
      <4> QED
        BY <1>1, <1>2, <1>3, <4>2
    <3> QED
      BY <3>1
  <2> QED
    BY <1>2, <2>1
<1>20. SortTypeOK' /\ ScanFits' /\ StoppedAt'
  BY <1>1, <1>2, <1>3, <1>5 DEF IInv, SortTypeOK, ScanFits, StoppedAt
<1>21. Partitioned'
  BY <1>1, <1>2, <1>5, <1>7, <1>8, <1>9, <1>10 DEF Partitioned, New
<1> QED
  BY <1>5, <1>20, <1>21 DEF IInv

\* That the scans met keeps it.
LEMMA MeetKeeps ==
  ASSUME IInv, Meet
  PROVE  IInv'
<1>1. /\ pc \in {"left", "right"} /\ pl >= pr /\ pc' = "back" /\ arr' = arr
      /\ frames' = frames /\ pl' = pl /\ pr' = pr /\ pivotL' = pivotL
      /\ pivotR' = pivotR /\ pivot' = pivot /\ at' = at /\ down' = down
  BY DEF Meet, Met, scan
<1>2. FramesFit' /\ CallsHalve' /\ top' = top
  BY <1>1, SameFrames
<1>3. /\ top.l <= pivotL /\ pivotL <= pl /\ pl <= pr /\ pr <= pivotR /\ pivotR <= top.r
      /\ pl \in Nat /\ pr \in Nat
  BY <1>1, ScanFacts
<1>4. SortTypeOK' /\ ScanFits' /\ StoppedAt'
  BY <1>1, <1>2, <1>3 DEF IInv, SortTypeOK, ScanFits, StoppedAt
<1>5. Partitioned'
  BY <1>1, <1>2, <1>3 DEF IInv, Partitioned
<1> QED
  BY <1>2, <1>4, <1>5 DEF IInv

\* Bringing an equal key back from the left end to the middle keeps it.
LEMMA BackLeftKeeps ==
  ASSUME IInv, BackLeft
  PROVE  IInv'
<1> DEFINE d == top.depth
           At(i) == Label(arr[i], d)
           New(i) == Label(arr'[i], d)
<1>1. /\ pc = "back" /\ pivotL > top.l /\ frames' = frames /\ pc' = pc /\ pl' = pl - 1
      /\ pr' = pr /\ pivotL' = pivotL - 1 /\ pivotR' = pivotR /\ pivot' = pivot
      /\ at' = at /\ down' = down /\ arr' = Swapped(arr, pivotL - 1, pl - 1)
  BY DEF BackLeft
<1>2. /\ top.l \in Nat /\ top.r \in Nat /\ Len(arr) \in Nat
      /\ 1 <= top.l /\ top.r <= Len(arr) + 1
      /\ pl \in Nat /\ pr \in Nat /\ pivotL \in Nat /\ pivotR \in Nat /\ pivot \in Int
      /\ top.l <= pivotL /\ pivotL <= pl /\ pl <= pr /\ pr <= pivotR /\ pivotR <= top.r
      /\ arr \in Seq(Texts)
  BY <1>1, ScanFacts
<1>3. /\ \A i \in top.l .. pivotL - 1 : At(i) = pivot
      /\ \A i \in pivotL .. pl - 1 : At(i) < pivot
      /\ \A i \in pl .. pr - 1 : At(i) = pivot
      /\ \A i \in pr .. pivotR - 1 : At(i) > pivot
      /\ \A i \in pivotR .. top.r - 1 : At(i) = pivot
  BY <1>1 DEF IInv, Partitioned
<1>4. pivotL - 1 \in 1 .. Len(arr) /\ pl - 1 \in 1 .. Len(arr)
  BY <1>1, <1>2
<1>5. /\ arr' \in Seq(Texts) /\ FramesFit' /\ CallsHalve' /\ top' = top
      /\ New(pivotL - 1) = At(pl - 1) /\ New(pl - 1) = At(pivotL - 1)
      /\ \A k \in 1 .. Len(arr) : k # pivotL - 1 /\ k # pl - 1 => New(k) = At(k)
  <2>1. arr' \in Seq(Texts) /\ FramesFit' /\ CallsHalve' /\ top' = top
    BY <1>1, <1>4, SwapStep
  <2>2. /\ arr'[pivotL - 1] = arr[pl - 1] /\ arr'[pl - 1] = arr[pivotL - 1]
        /\ \A k \in 1 .. Len(arr) : k # pivotL - 1 /\ k # pl - 1 => arr'[k] = arr[k]
    BY <1>1, <1>2, <1>4 DEF Swapped
  <2> QED
    BY <2>1, <2>2
<1> HIDE DEF New, At
<1>6. \A i \in top.l .. top.r - 1 : i \in 1 .. Len(arr)
  BY <1>2
<1>7. \A i \in top.l .. pivotL - 2 : New(i) = pivot
  <2>1. \A i \in top.l .. pivotL - 2 : New(i) = pivot
    <3>1. ASSUME NEW i \in top.l .. pivotL - 2
          PROVE  New(i) = pivot
      <4>1. i \in 1 .. Len(arr) /\ i # pivotL - 1 /\ i # pl - 1
        BY <1>1, <1>2, <1>3
      <4>2. New(i) = At(i)
        BY <1>5, <4>1
      <4> QED
        BY <1>1, <1>2, <1>3, <4>2
    <3> QED
      BY <3>1
  <2> QED
    BY <1>2, <2>1
<1>8. \A i \in pivotL - 1 .. pl - 2 : New(i) < pivot
  <2>1. \A i \in pivotL .. pl - 2 : New(i) < pivot
    <3>1. \A i \in pivotL .. pl - 2 :
            i \in 1 .. Len(arr) /\ i # pivotL - 1 /\ i # pl - 1 /\ i \in pivotL .. pl - 1
      BY <1>1, <1>2, <1>6
    <3> QED
      BY <1>3, <1>5, <3>1
  <2>2. pivotL < pl => New(pivotL - 1) < pivot
    BY <1>1, <1>2, <1>3, <1>5
  <2> QED
    BY <1>2, <2>1, <2>2
<1>9. \A i \in pl - 1 .. pr - 1 : New(i) = pivot
  <2>1. \A i \in pl .. pr - 1 : New(i) = pivot
    <3>1. ASSUME NEW i \in pl .. pr - 1
          PROVE  New(i) = pivot
      <4>1. i \in 1 .. Len(arr) /\ i # pivotL - 1 /\ i # pl - 1
        BY <1>1, <1>2, <1>3
      <4>2. New(i) = At(i)
        BY <1>5, <4>1
      <4> QED
        BY <1>1, <1>2, <1>3, <4>2
    <3> QED
      BY <3>1
  <2>2. New(pl - 1) = pivot
    BY <1>1, <1>2, <1>3, <1>5
  <2> QED
    BY <1>2, <2>1, <2>2
<1>10. \A i \in pr .. pivotR - 1 : New(i) > pivot
  <2>1. \A i \in pr .. pivotR - 1 : New(i) > pivot
    <3>1. \A i \in pr .. pivotR - 1 :
            i \in 1 .. Len(arr) /\ i # pivotL - 1 /\ i # pl - 1
      BY <1>1, <1>2, <1>6
    <3> QED
      BY <1>3, <1>5, <3>1
  <2> QED
    BY <1>2, <2>1
<1>11. \A i \in pivotR .. top.r - 1 : New(i) = pivot
  <2>1. \A i \in pivotR .. top.r - 1 : New(i) = pivot
    <3>1. ASSUME NEW i \in pivotR .. top.r - 1
          PROVE  New(i) = pivot
      <4>1. i \in 1 .. Len(arr) /\ i # pivotL - 1 /\ i # pl - 1
        BY <1>1, <1>2, <1>3
      <4>2. New(i) = At(i)
        BY <1>5, <4>1
      <4> QED
        BY <1>1, <1>2, <1>3, <4>2
    <3> QED
      BY <3>1
  <2> QED
    BY <1>2, <2>1
<1>20. SortTypeOK' /\ ScanFits' /\ StoppedAt'
  BY <1>1, <1>2, <1>5 DEF IInv, SortTypeOK, ScanFits, StoppedAt
<1>21. Partitioned'
  BY <1>1, <1>2, <1>5, <1>7, <1>8, <1>9, <1>10, <1>11 DEF Partitioned, New
<1> QED
  BY <1>5, <1>20, <1>21 DEF IInv

\* Bringing an equal key back from the right end keeps it.
LEMMA BackRightKeeps ==
  ASSUME IInv, BackRight
  PROVE  IInv'
<1> DEFINE d == top.depth
           At(i) == Label(arr[i], d)
           New(i) == Label(arr'[i], d)
<1>1. /\ pc = "back" /\ pivotR < top.r /\ frames' = frames /\ pc' = pc /\ pl' = pl
      /\ pr' = pr + 1 /\ pivotL' = pivotL /\ pivotR' = pivotR + 1 /\ pivot' = pivot
      /\ at' = at /\ down' = down /\ arr' = Swapped(arr, pivotR, pr)
  BY DEF BackRight
<1>2. /\ top.l \in Nat /\ top.r \in Nat /\ Len(arr) \in Nat
      /\ 1 <= top.l /\ top.r <= Len(arr) + 1
      /\ pl \in Nat /\ pr \in Nat /\ pivotL \in Nat /\ pivotR \in Nat /\ pivot \in Int
      /\ top.l <= pivotL /\ pivotL <= pl /\ pl <= pr /\ pr <= pivotR /\ pivotR <= top.r
      /\ arr \in Seq(Texts)
  BY <1>1, ScanFacts
<1>3. /\ \A i \in top.l .. pivotL - 1 : At(i) = pivot
      /\ \A i \in pivotL .. pl - 1 : At(i) < pivot
      /\ \A i \in pl .. pr - 1 : At(i) = pivot
      /\ \A i \in pr .. pivotR - 1 : At(i) > pivot
      /\ \A i \in pivotR .. top.r - 1 : At(i) = pivot
  BY <1>1 DEF IInv, Partitioned
<1>4. pivotR \in 1 .. Len(arr) /\ pr \in 1 .. Len(arr)
  BY <1>1, <1>2
<1>5. /\ arr' \in Seq(Texts) /\ FramesFit' /\ CallsHalve' /\ top' = top
      /\ New(pivotR) = At(pr) /\ New(pr) = At(pivotR)
      /\ \A k \in 1 .. Len(arr) : k # pivotR /\ k # pr => New(k) = At(k)
  <2>1. arr' \in Seq(Texts) /\ FramesFit' /\ CallsHalve' /\ top' = top
    BY <1>1, <1>4, SwapStep
  <2>2. /\ arr'[pivotR] = arr[pr] /\ arr'[pr] = arr[pivotR]
        /\ \A k \in 1 .. Len(arr) : k # pivotR /\ k # pr => arr'[k] = arr[k]
    <3>1. arr \in Seq(Texts) /\ arr' = Swapped(arr, pivotR, pr)
      BY <1>1, <1>2
    <3> QED
      BY ONLY <1>4, <3>1 DEF Swapped
  <2> QED
    BY <2>1, <2>2
<1> HIDE DEF New, At
<1>6. \A i \in top.l .. top.r - 1 : i \in 1 .. Len(arr)
  BY <1>2
<1>7. \A i \in top.l .. pivotL - 1 : New(i) = pivot
  <2>1. \A i \in top.l .. pivotL - 1 : New(i) = pivot
    <3>1. ASSUME NEW i \in top.l .. pivotL - 1
          PROVE  New(i) = pivot
      <4>1. i \in 1 .. Len(arr) /\ i # pivotR /\ i # pr
        BY <1>1, <1>2, <1>3
      <4>2. New(i) = At(i)
        BY <1>5, <4>1
      <4> QED
        BY <1>1, <1>2, <1>3, <4>2
    <3> QED
      BY <3>1
  <2> QED
    BY <1>2, <2>1
<1>8. \A i \in pivotL .. pl - 1 : New(i) < pivot
  <2>1. \A i \in pivotL .. pl - 1 : New(i) < pivot
    <3>1. ASSUME NEW i \in pivotL .. pl - 1
          PROVE  New(i) < pivot
      <4>1. i \in 1 .. Len(arr) /\ i # pivotR /\ i # pr
        BY <1>1, <1>2
      <4>2. New(i) = At(i)
        BY <1>5, <4>1
      <4> QED
        BY <1>3, <4>2
    <3> QED
      BY <3>1
  <2> QED
    BY <1>2, <2>1
<1>9. \A i \in pl .. pr : New(i) = pivot
  <2>1. \A i \in pl .. pr - 1 : New(i) = pivot
    <3>1. ASSUME NEW i \in pl .. pr - 1
          PROVE  New(i) = pivot
      <4>1. i \in 1 .. Len(arr) /\ i # pivotR /\ i # pr
        BY <1>1, <1>2, <1>3
      <4>2. New(i) = At(i)
        BY <1>5, <4>1
      <4> QED
        BY <1>1, <1>2, <1>3, <4>2
    <3> QED
      BY <3>1
  <2>2. New(pr) = pivot
    BY <1>1, <1>2, <1>3, <1>5
  <2> QED
    BY <1>2, <2>1, <2>2
<1>10. \A i \in pr + 1 .. pivotR : New(i) > pivot
  <2>1. \A i \in pr + 1 .. pivotR - 1 : New(i) > pivot
    <3>1. ASSUME NEW i \in pr + 1 .. pivotR - 1
          PROVE  New(i) > pivot
      <4>1. i \in 1 .. Len(arr) /\ i # pivotR /\ i # pr
        BY <1>1, <1>2, <1>3
      <4>2. New(i) = At(i)
        BY <1>5, <4>1
      <4> QED
        BY <1>1, <1>2, <1>3, <4>2
    <3> QED
      BY <3>1
  <2>2. pr < pivotR => New(pivotR) > pivot
    BY <1>1, <1>2, <1>3, <1>5
  <2> QED
    BY <1>2, <2>1, <2>2
<1>11. \A i \in pivotR + 1 .. top.r - 1 : New(i) = pivot
  <2>1. \A i \in pivotR + 1 .. top.r - 1 : New(i) = pivot
    <3>1. ASSUME NEW i \in pivotR + 1 .. top.r - 1
          PROVE  New(i) = pivot
      <4>1. i \in 1 .. Len(arr) /\ i # pivotR /\ i # pr
        BY <1>1, <1>2, <1>3
      <4>2. New(i) = At(i)
        BY <1>5, <4>1
      <4> QED
        BY <1>1, <1>2, <1>3, <4>2
    <3> QED
      BY <3>1
  <2> QED
    BY <1>2, <2>1
<1>20. SortTypeOK' /\ ScanFits' /\ StoppedAt'
  BY <1>1, <1>2, <1>5 DEF IInv, SortTypeOK, ScanFits, StoppedAt
<1>21. Partitioned'
  BY <1>1, <1>2, <1>5, <1>7, <1>8, <1>9, <1>10, <1>11 DEF Partitioned, New
<1> QED
  BY <1>5, <1>20, <1>21 DEF IInv
-----------------------------------------------------------------------------
(* The calls.                                                              *)

\* Between the scans the facts about them are void.
LEMMA NoScan ==
  ASSUME pc' \in {"loop", "done"}
  PROVE  ScanFits' /\ StoppedAt' /\ Partitioned'
BY DEF ScanFits, StoppedAt, Partitioned

\* Another frame on top, and another element appended.
LEMMA ReplaceTop ==
  ASSUME NEW S, NEW q \in Seq(S), q # <<>>, NEW x \in S
  PROVE  /\ [q EXCEPT ![Len(q)] = x] \in Seq(S)
         /\ Len([q EXCEPT ![Len(q)] = x]) = Len(q)
         /\ [q EXCEPT ![Len(q)] = x][Len(q)] = x
         /\ \A f \in 1 .. Len(q) - 1 : [q EXCEPT ![Len(q)] = x][f] = q[f]
OBVIOUS

\* What Append leaves alone.
LEMMA AppendFacts ==
  ASSUME NEW S, NEW q \in Seq(S), NEW x \in S
  PROVE  /\ Append(q, x) \in Seq(S) /\ Len(Append(q, x)) = Len(q) + 1
         /\ Append(q, x)[Len(q) + 1] = x
         /\ \A f \in 1 .. Len(q) : Append(q, x)[f] = q[f]
OBVIOUS

\* What FramesFit says of a frame, without InArray: a frame of the next state
\* and an array of the next state.
FrameFits(f, length) ==
  /\ 1 <= f.l /\ f.l <= f.r /\ f.r <= length + 1
  /\ f.r - f.l <= f.size
  /\ \A c \in DOMAIN f.calls :
       /\ 1 <= f.calls[c].l /\ f.calls[c].l <= f.calls[c].r
       /\ f.calls[c].r <= length + 1
       /\ 2 * (f.calls[c].r - f.calls[c].l) <= f.size

\* FramesFit in the words of FrameFits, before and after a step.
LEMMA AllFit ==
  /\ FramesFit <=> /\ pc # "done" => frames # <<>>
                   /\ \A f \in DOMAIN frames : FrameFits(frames[f], Len(arr))
  /\ FramesFit' <=> /\ pc' # "done" => frames' # <<>>
                    /\ \A f \in DOMAIN frames' : FrameFits(frames'[f], Len(arr'))
BY DEF FramesFit, FrameFits, InArray, Size

\* A call of sort() for a segment: the frames before and after.
LEMMA CallFrames ==
  ASSUME IInv, Call
  PROVE  LET n == Len(frames)  s == Head(top.calls)
         IN  /\ frames' \in Seq(Frames) /\ Len(frames') = n + 1
             /\ \A f \in 1 .. n - 1 : frames'[f] = frames[f]
             /\ frames'[n] = [frames[n] EXCEPT !.calls = Tail(@)]
             /\ frames'[n + 1] = Frame(s)
<1> DEFINE n == Len(frames)
           s == Head(top.calls)
<1>1. pc = "loop" /\ pc' = "loop" /\ arr' = arr /\ top.calls # <<>>
  BY DEF Call
<1>2. n \in Nat \ {0} /\ n \in DOMAIN frames /\ top \in Frames /\ frames \in Seq(Frames)
  BY <1>1, TopFacts DEF IInv, SortTypeOK
<1>3. top.calls \in Seq(Segments) /\ s \in Segments /\ Tail(top.calls) \in Seq(Segments)
  BY <1>1, <1>2 DEF Frames
<1>4. InArray(s)
  <2>1. 1 \in DOMAIN top.calls /\ s = top.calls[1]
    BY <1>1, <1>3
  <2> QED
    BY <1>2, <2>1 DEF IInv, FramesFit, top
<1>5. Frame(s) \in Frames
  BY <1>3, <1>4 DEF Frame, Frames, Segments, Size, InArray
<1>6. [frames[n] EXCEPT !.calls = Tail(@)] \in Frames
  BY <1>2, <1>3 DEF Frames, top
<1> DEFINE x == [frames[n] EXCEPT !.calls = Tail(@)]
           q == [frames EXCEPT ![n] = x]
<1>7. frames' = Append(q, Frame(s))
  BY <1>2 DEF Call
<1> HIDE DEF s, x
<1>8. q \in Seq(Frames) /\ Len(q) = n /\ q[n] = x /\ \A f \in 1 .. n - 1 : q[f] = frames[f]
  BY <1>2, <1>6, ReplaceTop DEF x
<1> HIDE DEF n, q
<1>9. /\ frames' \in Seq(Frames) /\ Len(frames') = n + 1 /\ frames'[n + 1] = Frame(s)
      /\ \A f \in 1 .. n : frames'[f] = q[f]
  BY <1>5, <1>7, <1>8, AppendFacts
<1>10. /\ frames' \in Seq(Frames) /\ Len(frames') = n + 1
       /\ \A f \in 1 .. n - 1 : frames'[f] = frames[f]
       /\ frames'[n] = x /\ frames'[n + 1] = Frame(s)
  BY <1>2, <1>8, <1>9
<1> QED
  BY <1>10 DEF n, s, x

\* A recursive call keeps it: its segment was on the list, and fits.
LEMMA CallKeeps ==
  ASSUME IInv, Call
  PROVE  IInv'
<1> DEFINE n == Len(frames)
           s == Head(top.calls)
<1>1. pc = "loop" /\ pc' = "loop" /\ arr' = arr /\ top.calls # <<>>
  BY DEF Call
<1>2. n \in Nat \ {0} /\ n \in DOMAIN frames /\ top \in Frames /\ frames \in Seq(Frames)
  BY <1>1, TopFacts DEF IInv, SortTypeOK
<1>3. /\ frames' \in Seq(Frames) /\ Len(frames') = n + 1
      /\ \A f \in 1 .. n - 1 : frames'[f] = frames[f]
      /\ frames'[n] = [frames[n] EXCEPT !.calls = Tail(@)]
      /\ frames'[n + 1] = Frame(s)
  BY CallFrames
<1>4. /\ InArray(s) /\ 2 * Size(s) <= top.size
      /\ \A c \in DOMAIN Tail(top.calls) :
           InArray(Tail(top.calls)[c]) /\ 2 * Size(Tail(top.calls)[c]) <= top.size
  <2>1. top.calls \in Seq(Segments)
    BY <1>2 DEF Frames
  <2>2. \A c \in DOMAIN top.calls : InArray(top.calls[c]) /\ 2 * Size(top.calls[c]) <= top.size
    BY <1>2 DEF IInv, FramesFit, top
  <2>3. 1 \in DOMAIN top.calls /\ s = top.calls[1]
    BY <1>1, <2>1
  <2>4. \A c \in DOMAIN Tail(top.calls) :
          c + 1 \in DOMAIN top.calls /\ Tail(top.calls)[c] = top.calls[c + 1]
    BY <1>1, <2>1
  <2> QED
    BY <2>2, <2>3, <2>4
<1> HIDE DEF n, s
<1>5. SortTypeOK'
  BY <1>1, <1>3 DEF IInv, SortTypeOK, Call, scan
<1>6. FramesFit'
  <2>1. DOMAIN frames' = 1 .. n + 1 /\ frames' # <<>>
    BY <1>2, <1>3
  <2>2. ASSUME NEW f \in 1 .. n - 1
        PROVE  FrameFits(frames'[f], Len(arr'))
    <3>1. f \in DOMAIN frames
      BY <1>2 DEF n
    <3> QED
      BY <1>1, <1>3, <3>1, AllFit DEF IInv
  <2>3. FrameFits(frames'[n], Len(arr'))
    <3>1. /\ frames'[n].l = top.l /\ frames'[n].r = top.r /\ frames'[n].size = top.size
          /\ frames'[n].calls = Tail(top.calls)
      BY <1>2, <1>3 DEF top, n, Frames
    <3>2. FrameFits(top, Len(arr))
      BY <1>2, AllFit DEF IInv, top, n
    <3> QED
      BY <1>1, <1>4, <3>1, <3>2 DEF InArray, Size, FrameFits
  <2>4. FrameFits(frames'[n + 1], Len(arr'))
    <3>1. /\ frames'[n + 1].l = s.l /\ frames'[n + 1].r = s.r
          /\ frames'[n + 1].size = s.r - s.l /\ frames'[n + 1].calls = <<>>
      BY <1>3 DEF Frame, Size
    <3>2. frames'[n + 1].l \in Nat /\ frames'[n + 1].r \in Nat
      <4>1. frames'[n + 1] \in Frames
        BY <1>2, <1>3
      <4> QED
        BY <4>1 DEF Frames
    <3>3. s.r - s.l <= s.r - s.l
      BY <3>1, <3>2
    <3> QED
      BY <1>1, <1>4, <3>1, <3>3 DEF InArray, FrameFits
  <2>5. \A f \in 1 .. n + 1 : f \in 1 .. n - 1 \/ f = n \/ f = n + 1
    BY <1>2
  <2>6. \A f \in DOMAIN frames' : FrameFits(frames'[f], Len(arr'))
    BY <2>1, <2>2, <2>3, <2>4, <2>5
  <2> QED
    BY <2>1, <2>6, AllFit
<1>7. CallsHalve'
  <2> SUFFICES ASSUME NEW f \in 2 .. n + 1
               PROVE  2 * frames'[f].size <= frames'[f - 1].size
    BY <1>3 DEF CallsHalve
  <2>1. \A g \in 1 .. n : frames'[g].size = frames[g].size
    <3>1. frames'[n].size = frames[n].size
      BY <1>2, <1>3 DEF Frames, top
    <3>2. \A g \in 1 .. n - 1 : frames'[g].size = frames[g].size
      BY <1>3
    <3>3. \A g \in 1 .. n : g \in 1 .. n - 1 \/ g = n
      BY <1>2
    <3> QED
      BY <3>1, <3>2, <3>3
  <2>2. CASE f \in 2 .. n
    BY <1>2, <2>1, <2>2 DEF IInv, CallsHalve, n
  <2>3. CASE f = n + 1
    <3>1. frames'[f].size = Size(s) /\ frames'[f - 1].size = top.size
      BY <1>2, <1>3, <2>1, <2>3 DEF Frame, top, n
    <3> QED
      BY <1>4, <3>1
  <2> QED
    BY <1>2, <2>2, <2>3
<1> QED
  BY <1>1, <1>5, <1>6, <1>7, NoScan DEF IInv

\* Parts outside that are no longer than the one between them are at most half.
LEMMA OuterHalves ==
  ASSUME NEW l \in Nat, NEW p \in Nat, NEW q \in Nat, NEW r \in Nat, NEW size \in Nat,
         r - l <= size, p - l <= q - p, r - q <= q - p, l <= p, p <= q, q <= r
  PROVE  2 * (p - l) <= size /\ 2 * (r - q) <= size
OBVIOUS

\* Two parts of a segment are together no longer than it.
LEMMA OuterSum ==
  ASSUME NEW l \in Nat, NEW p \in Nat, NEW q \in Nat, NEW r \in Nat, NEW size \in Nat,
         r - l <= size, l <= p, p <= q, q <= r
  PROVE  p - l \in Nat /\ r - q \in Nat /\ (p - l) + (r - q) <= size
OBVIOUS

\* The smaller of two parts is at most half.
LEMMA SmallerHalf ==
  ASSUME NEW p \in Nat, NEW q \in Nat, NEW size \in Nat, p + q <= size
  PROVE  (p < q => 2 * p <= size) /\ (~(p < q) => 2 * q <= size)
OBVIOUS

\* What the segment is divided into: the calls are for at most half of it.
LEMMA PartsFit ==
  ASSUME IInv, pc = "back", pivotL = top.l, pivotR = top.r
  PROVE  /\ \A s \in {Others[1], Others[2]} :
              s \in Segments /\ InArray(s) /\ 2 * Size(s) <= top.size
         /\ LeftOf(Kept) \in Segments /\ InArray(LeftOf(Kept))
         /\ Size(LeftOf(Kept)) <= top.size
<1>1. /\ top.l \in Nat /\ top.r \in Nat /\ top.depth \in Nat /\ Len(arr) \in Nat
      /\ 1 <= top.l /\ top.r <= Len(arr) + 1
      /\ pl \in Nat /\ pr \in Nat /\ top.l <= pl /\ pl <= pr /\ pr <= top.r
  BY ScanFacts
<1>2. top.size \in Nat /\ top.r - top.l <= top.size
  BY TopFacts DEF IInv
<1>3. \A s \in {Less, Equal, Greater} : s \in Segments /\ InArray(s)
  BY <1>1 DEF Less, Equal, Greater, Segment, Segments, InArray
<1>4. Size(Less) = pl - top.l /\ Size(Equal) = pr - pl /\ Size(Greater) = top.r - pr
  BY DEF Less, Equal, Greater, Segment, Size
<1>10. Size(Less) \in Nat /\ Size(Greater) \in Nat /\ Size(Less) + Size(Greater) <= top.size
  <2>1. /\ pl - top.l \in Nat /\ top.r - pr \in Nat
        /\ (pl - top.l) + (top.r - pr) <= top.size
    BY ONLY <1>1, <1>2, OuterSum
  <2> QED
    BY ONLY <1>4, <2>1
<1>5. \A s \in {Others[1], Others[2]} :
        s \in {Less, Equal, Greater} /\ 2 * Size(s) <= top.size
  <2>1. CASE OuterBigger
    <3>1. Others[1] = Equal /\ Others[2] = SmallerOuter
      BY <2>1 DEF Others
    <3>2. SmallerOuter \in {Less, Greater} /\ 2 * Size(SmallerOuter) <= top.size
      <4>1. CASE Size(Less) < Size(Greater)
        <5>1. SmallerOuter = Less
          BY <4>1 DEF SmallerOuter
        <5> QED
          <6>1. 2 * Size(Less) <= top.size
            BY ONLY <1>2, <1>10, <4>1, SmallerHalf
          <6> QED
            BY <5>1, <6>1
      <4>2. CASE ~(Size(Less) < Size(Greater))
        <5>1. SmallerOuter = Greater
          BY <4>2 DEF SmallerOuter
        <5> QED
          <6>1. 2 * Size(Greater) <= top.size
            BY ONLY <1>2, <1>10, <4>2, SmallerHalf
          <6> QED
            BY <5>1, <6>1
      <4> QED
        BY <4>1, <4>2
    <3>3. 2 * Size(Equal) <= top.size
      <4>1. 2 * (pr - pl) <= top.size
        <5>1. pl - top.l > pr - pl \/ top.r - pr > pr - pl
          BY ONLY <1>4, <2>1 DEF OuterBigger
        <5> QED
          BY <1>1, <1>2, <5>1
      <4> QED
        BY ONLY <1>4, <4>1
    <3> QED
      BY <3>1, <3>2, <3>3
  <2>2. CASE ~OuterBigger
    <3>1. Others[1] = Less /\ Others[2] = Greater
      BY <2>2 DEF Others
    <3>2. 2 * Size(Less) <= top.size /\ 2 * Size(Greater) <= top.size
      <4>1. ~(pl - top.l > pr - pl) /\ ~(top.r - pr > pr - pl)
        BY <1>4, <2>2 DEF OuterBigger
      <4>2. 2 * (pl - top.l) <= top.size /\ 2 * (top.r - pr) <= top.size
        <5>1. pl - top.l <= pr - pl /\ top.r - pr <= pr - pl
          BY <1>1, <4>1
        <5> QED
          BY <1>1, <1>2, <5>1, OuterHalves
      <4> QED
        BY <1>4, <4>2
    <3> QED
      BY <3>1, <3>2
  <2> QED
    BY <2>1, <2>2
<1>6. Kept \in {Less, Equal, Greater}
  BY DEF Kept
<1>7. /\ LeftOf(Kept) \in Segments /\ InArray(LeftOf(Kept))
      /\ LeftOf(Kept).l >= Kept.l /\ LeftOf(Kept).r = Kept.r
  <2>1. Kept \in Segments /\ InArray(Kept)
    BY <1>3, <1>6
  <2>2. CASE OneKey(Kept)
    <3>1. LeftOf(Kept) = Segment(IF Size(Kept) = 1 THEN Kept.l ELSE Kept.r, Kept.r, top.depth)
      BY <2>2 DEF LeftOf
    <3> QED
      BY <1>1, <2>1, <3>1 DEF Segment, Segments, InArray
  <2>3. CASE ~OneKey(Kept)
    <3>1. LeftOf(Kept) = Kept
      BY <2>3 DEF LeftOf
    <3> QED
      BY <2>1, <3>1 DEF Segments
  <2> QED
    BY <2>2, <2>3
<1>8. Size(LeftOf(Kept)) <= top.size
  <2>1. Size(Kept) <= top.size
    <3>1. pl - top.l <= top.size /\ pr - pl <= top.size /\ top.r - pr <= top.size
      BY <1>1, <1>2
    <3>2. Size(Less) <= top.size /\ Size(Equal) <= top.size /\ Size(Greater) <= top.size
      BY <1>4, <3>1
    <3> QED
      BY ONLY <1>6, <3>2
  <2>2. Kept \in Segments /\ LeftOf(Kept) \in Segments
    BY <1>3, <1>6, <1>7
  <2> QED
    BY <1>2, <1>7, <2>1, <2>2 DEF Size, Segments
<1> QED
  BY <1>3, <1>5, <1>7, <1>8

\* Dividing the segment keeps it: the calls that come are for PartsFit's parts.
LEMMA DivideKeeps ==
  ASSUME IInv, Divide
  PROVE  IInv'
<1> DEFINE n == Len(frames)
           left == LeftOf(Kept)
           CallFor(s) == IF Size(s) > 1 /\ ~OneKey(s) THEN <<s>> ELSE <<>>
           todo == CallFor(Others[1]) \o CallFor(Others[2])
           x == [l |-> left.l, r |-> left.r, depth |-> left.depth, size |-> top.size,
                 calls |-> todo]
<1>1. /\ pc = "back" /\ pc' = "loop" /\ arr' = arr /\ pivotL = top.l /\ pivotR = top.r
      /\ UNCHANGED scan /\ UNCHANGED <<at, down>>
  BY DEF Divide
<1>2. n \in Nat \ {0} /\ n \in DOMAIN frames /\ top.size \in Nat /\ frames \in Seq(Frames)
      /\ Len(arr) \in Nat
  BY <1>1, TopFacts DEF IInv, SortTypeOK
<1>3. frames' = [frames EXCEPT ![n] = x]
  BY DEF Divide
<1>4. /\ \A s \in {Others[1], Others[2]} :
           s \in Segments /\ InArray(s) /\ 2 * Size(s) <= top.size
      /\ left \in Segments /\ InArray(left) /\ Size(left) <= top.size
  BY <1>1, PartsFit
<1>5. /\ todo \in Seq(Segments)
      /\ \A c \in DOMAIN todo : todo[c] \in {Others[1], Others[2]}
  <2> DEFINE P == {Others[1], Others[2]}
  <2>1. \A s \in P : CallFor(s) \in Seq(P)
    <3>1. \A s \in P : <<s>> \in Seq(P) /\ <<>> \in Seq(P)
      OBVIOUS
    <3> HIDE DEF P
    <3> QED
      BY <3>1
  <2> HIDE DEF CallFor, P
  <2>2. Others[1] \in P /\ Others[2] \in P /\ P \subseteq Segments
    BY <1>4 DEF P
  <2>3. todo \in Seq(P)
    BY <2>1, <2>2
  <2> HIDE DEF todo
  <2>4. todo \in Seq(Segments) /\ \A c \in DOMAIN todo : todo[c] \in P
    BY <2>2, <2>3
  <2> QED
    BY <2>4 DEF P
<1> HIDE DEF left, todo, CallFor
<1>6. x \in Frames
  BY <1>2, <1>4, <1>5 DEF Frames, Segments
<1>7. FrameFits(x, Len(arr))
  <2>1. 1 <= left.l /\ left.l <= left.r /\ left.r <= Len(arr) + 1 /\ left.r - left.l <= top.size
    BY <1>4 DEF InArray, Size
  <2>2. \A c \in DOMAIN todo : InArray(todo[c]) /\ 2 * Size(todo[c]) <= top.size
    BY <1>4, <1>5
  <2> QED
    BY <2>1, <2>2 DEF FrameFits, InArray, Size
<1>8. x.size = top.size
  OBVIOUS
<1> HIDE DEF x
<1>9. /\ frames' \in Seq(Frames) /\ Len(frames') = n /\ frames'[n] = x
      /\ \A f \in 1 .. n - 1 : frames'[f] = frames[f]
  <2>1. frames # <<>>
    BY <1>2
  <2> QED
    BY <1>2, <1>3, <1>6, <2>1, ReplaceTop
<1> HIDE DEF n
<1>10. \A f \in DOMAIN frames : f \in 1 .. n - 1 \/ f = n
  BY <1>2 DEF n
<1>11. DOMAIN frames' = DOMAIN frames /\ frames' # <<>>
  BY <1>2, <1>9 DEF n
<1>12. FramesFit'
  <2>1. \A f \in DOMAIN frames : FrameFits(frames[f], Len(arr))
    BY AllFit DEF IInv
  <2>2. \A f \in DOMAIN frames : FrameFits(frames'[f], Len(arr))
    <3>1. \A f \in 1 .. n - 1 : f \in DOMAIN frames
      BY <1>2 DEF n
    <3> QED
      BY <1>7, <1>9, <1>10, <2>1, <3>1
  <2> QED
    BY <1>1, <1>11, <2>2, AllFit
<1>13. CallsHalve'
  <2>1. \A f \in DOMAIN frames : frames'[f].size = frames[f].size
    BY <1>8, <1>9, <1>10 DEF top, n
  <2>2. \A f \in 2 .. n : f \in DOMAIN frames /\ f - 1 \in DOMAIN frames
    BY <1>2 DEF n
  <2> QED
    BY <1>9, <2>1, <2>2 DEF IInv, CallsHalve, n
<1>14. SortTypeOK'
  BY <1>1, <1>9 DEF IInv, SortTypeOK, scan
<1> QED
  BY <1>1, <1>12, <1>13, <1>14, NoScan DEF IInv

\* Beginning an insertion sort keeps it.
LEMMA InsertionKeeps ==
  ASSUME IInv, Insertion
  PROVE  IInv'
<1>1. /\ pc = "loop" /\ pc' = "insert" /\ arr' = arr /\ frames' = frames
      /\ at' = top.l + 1 /\ down' = top.l + 1 /\ UNCHANGED scan
  BY DEF Insertion
<1>2. top.l \in Nat /\ top.r \in Nat /\ top.r - top.l >= 2
  <2>1. top.l \in Nat /\ top.r \in Nat
    BY <1>1, TopFacts DEF IInv
  <2> QED
    BY <2>1 DEF Insertion, Size
<1>3. FramesFit' /\ CallsHalve' /\ top' = top
  BY <1>1, SameFrames
<1>4. SortTypeOK' /\ ScanFits' /\ StoppedAt' /\ Partitioned'
  BY <1>1, <1>2, <1>3 DEF IInv, SortTypeOK, ScanFits, StoppedAt, Partitioned, scan
<1> QED
  BY <1>3, <1>4 DEF IInv

\* Moving a key down by one place keeps it.
LEMMA MoveDownKeeps ==
  ASSUME IInv, MoveDown
  PROVE  IInv'
<1>1. /\ pc = "insert" /\ pc' = pc /\ frames' = frames /\ at < top.r /\ down > top.l
      /\ arr' = Swapped(arr, down - 1, down) /\ down' = down - 1 /\ at' = at
      /\ UNCHANGED scan
  BY DEF MoveDown, MustMove
<1>2. /\ top.l \in Nat /\ top.r \in Nat /\ Len(arr) \in Nat
      /\ 1 <= top.l /\ top.r <= Len(arr) + 1
  BY <1>1, TopFacts DEF IInv
<1>3. at \in Nat /\ down \in Nat /\ top.l < at /\ top.l <= down /\ down <= at
  BY <1>1 DEF IInv, SortTypeOK, ScanFits
<1>4. down - 1 \in 1 .. Len(arr) /\ down \in 1 .. Len(arr)
  BY <1>1, <1>2, <1>3
<1>5. arr' \in Seq(Texts) /\ FramesFit' /\ CallsHalve' /\ top' = top
  BY <1>1, <1>4, SwapStep
<1>6. SortTypeOK' /\ ScanFits' /\ StoppedAt' /\ Partitioned'
  BY <1>1, <1>2, <1>3, <1>5 DEF IInv, SortTypeOK, ScanFits, StoppedAt, Partitioned, scan
<1> QED
  BY <1>5, <1>6 DEF IInv

\* Having found a key's place keeps it.
LEMMA InsertKeeps ==
  ASSUME IInv, Insert
  PROVE  IInv'
<1>1. /\ pc = "insert" /\ pc' = pc /\ frames' = frames /\ at < top.r /\ arr' = arr
      /\ at' = at + 1 /\ down' = at + 1 /\ UNCHANGED scan
  BY DEF Insert
<1>2. top.l \in Nat /\ top.r \in Nat
  BY <1>1, TopFacts DEF IInv
<1>3. at \in Nat /\ top.l < at
  BY <1>1 DEF IInv, SortTypeOK, ScanFits
<1>4. FramesFit' /\ CallsHalve' /\ top' = top
  BY <1>1, SameFrames
<1>5. SortTypeOK' /\ ScanFits' /\ StoppedAt' /\ Partitioned'
  BY <1>1, <1>2, <1>3, <1>4 DEF IInv, SortTypeOK, ScanFits, StoppedAt, Partitioned, scan
<1> QED
  BY <1>4, <1>5 DEF IInv

\* The frames a return leaves.
LEMMA ReturnFrames ==
  ASSUME IInv, Return
  PROVE  LET n == Len(frames)
         IN  /\ frames' \in Seq(Frames) /\ DOMAIN frames' = 1 .. n - 1 /\ Len(frames') = n - 1
             /\ \A f \in 1 .. n - 1 : frames'[f] = frames[f] /\ f \in DOMAIN frames
<1> DEFINE n == Len(frames)
<1>1. pc # "done" /\ frames' = SubSeq(frames, 1, n - 1)
  BY DEF Return
<1>2. n \in Nat \ {0} /\ frames \in Seq(Frames)
  BY <1>1, TopFacts DEF IInv, SortTypeOK
<1>3. frames' = [f \in 1 .. n - 1 |-> frames[f]]
  BY <1>1, <1>2
<1>4. \A f \in 1 .. n - 1 : f \in DOMAIN frames /\ frames[f] \in Frames
  BY <1>2
<1>5. n - 1 \in Nat
  BY <1>2
<1> HIDE DEF n
<1>6. frames' \in Seq(Frames) /\ Len(frames') = n - 1
  BY <1>3, <1>4, <1>5
<1>7. DOMAIN frames' = 1 .. n - 1
  BY <1>3
<1> QED
  BY <1>3, <1>4, <1>6, <1>7 DEF n

\* A return keeps it: the caller's frame fits still.
LEMMA ReturnKeeps ==
  ASSUME IInv, Return
  PROVE  IInv'
<1> DEFINE n == Len(frames)
<1>1. /\ pc # "done" /\ arr' = arr /\ UNCHANGED scan /\ at' = at /\ down' = down
      /\ frames' = SubSeq(frames, 1, n - 1)
      /\ pc' = IF n = 1 THEN "done" ELSE "loop"
  BY DEF Return
<1>2. n \in Nat \ {0} /\ frames \in Seq(Frames)
  BY <1>1, TopFacts DEF IInv, SortTypeOK
<1>3. /\ frames' \in Seq(Frames) /\ DOMAIN frames' = 1 .. n - 1 /\ Len(frames') = n - 1
      /\ \A f \in 1 .. n - 1 : frames'[f] = frames[f] /\ f \in DOMAIN frames
  BY ReturnFrames
<1>4. pc' # "done" => frames' # <<>>
  <2>1. n # 1 => Len(frames') # 0
    BY <1>2, <1>3
  <2> QED
    BY <1>1, <2>1
<1>5. FramesFit'
  <2>1. \A f \in DOMAIN frames : FrameFits(frames[f], Len(arr))
    BY AllFit DEF IInv
  <2> QED
    BY <1>1, <1>3, <1>4, <2>1, AllFit
<1>6. CallsHalve'
  <2> HIDE DEF n
  <2>1. \A f \in 2 .. n - 1 : f \in 1 .. n - 1 /\ f - 1 \in 1 .. n - 1 /\ f \in 2 .. n
    BY <1>2
  <2> QED
    BY <1>3, <2>1 DEF IInv, CallsHalve, n
<1>7. SortTypeOK'
  BY <1>1, <1>3 DEF IInv, SortTypeOK, scan
<1> QED
  BY <1>1, <1>5, <1>6, <1>7, NoScan DEF IInv
-----------------------------------------------------------------------------
(* The theorems.                                                           *)

\* A call of sort() begins in the invariant.
LEMMA InitOK ==
  ASSUME Init
  PROVE  IInv
<1>1. PICK n \in 0 .. MaxKeys : arr \in [1 .. n -> Texts]
  BY DEF Init
<1>2. arr \in Seq(Texts) /\ Len(arr) \in Nat
  BY <1>1, SortAssumption
<1>3. /\ Len(frames) = 1 /\ DOMAIN frames = {1} /\ frames # <<>>
      /\ frames[1] = [l |-> 1, r |-> Len(arr) + 1, depth |-> 0, calls |-> <<>>,
                      size |-> Len(arr)]
  <2>1. Len(arr) + 1 - 1 = Len(arr)
    BY <1>2
  <2> QED
    BY <2>1 DEF Init, Frame, Segment, Size
<1>4. frames \in Seq(Frames)
  <2>1. frames[1] \in Frames
    BY <1>2, <1>3 DEF Frames
  <2>2. frames = <<frames[1]>>
    BY DEF Init
  <2>3. \A x \in Frames : <<x>> \in Seq(Frames)
    OBVIOUS
  <2> QED
    BY <2>1, <2>2, <2>3, Zenon
<1>5. SortTypeOK
  BY <1>2, <1>4 DEF Init, SortTypeOK
<1>6. FramesFit
  BY <1>2, <1>3 DEF FramesFit, InArray, Size
<1>7. CallsHalve
  BY <1>3 DEF CallsHalve
<1> QED
  BY <1>5, <1>6, <1>7 DEF Init, IInv, ScanFits, StoppedAt, Partitioned

\* Every step keeps the invariant, as the lemmas above say of each action.
LEMMA NextKeeps ==
  ASSUME IInv, [Next]_vars
  PROVE  IInv'
<1>1. CASE Next
  BY <1>1, CallKeeps, PartitionKeeps, ScanLeftKeeps, ScanRightKeeps, ExchangeKeeps,
     MeetKeeps, BackLeftKeeps, BackRightKeeps, DivideKeeps, InsertionKeeps,
     MoveDownKeeps, InsertKeeps, ReturnKeeps DEF Next
<1>2. CASE UNCHANGED vars
  BY <1>2 DEF vars, IInv, SortTypeOK, FramesFit, ScanFits, StoppedAt, Partitioned,
     CallsHalve, InArray, Size, top
<1> QED
  BY <1>1, <1>2

\* The inductive invariant of sort(), for all texts, lengths and thresholds: the
\* frames and the scans stay in the array, and the partition is as it should be.
THEOREM Invariant == Spec => []IInv
<1>1. Init => IInv
  BY InitOK
<1>2. IInv /\ [Next]_vars => IInv'
  BY NextKeeps
<1> QED
  BY <1>1, <1>2, PTL DEF Spec

\* No step of sort() reads or writes a key outside of the segment it was called
\* for, nor outside of the array, and insertion_sort() does neither.
THEOREM StaysInArray == Spec => [](SortTypeOK /\ FramesFit /\ ScanFits)
<1>1. IInv => SortTypeOK /\ FramesFit /\ ScanFits
  BY DEF IInv
<1> QED
  BY <1>1, Invariant, PTL

\* The partition is what Divide takes it for: less, equal and greater.
THEOREM PartitionedAlways == Spec => []Partitioned
<1>1. IInv => Partitioned
  BY DEF IInv
<1> QED
  BY <1>1, Invariant, PTL

\* The depth of the recursion is logarithmic, for any keys.
THEOREM CallsHalveAlways == Spec => []CallsHalve
<1>1. IInv => CallsHalve
  BY DEF IInv
<1> QED
  BY <1>1, Invariant, PTL

-----------------------------------------------------------------------------
(* Why the keys of a segment are alike up to its depth: the segments that  *)
(* are still to be sorted do not overlap, so what one call does to its own *)
(* leaves the others' keys as they are.                                    *)

\* The keys of a segment have their first depth bytes, and the same ones.
Alike(a, s) ==
  \A i, j \in s.l .. s.r - 1 :
    Len(a[i]) >= s.depth /\ \A k \in 1 .. s.depth : a[i][k] = a[j][k]

\* The same of what is left of a call, and of the calls it will make.
AllAlike(a, fr) == Alike(a, fr) /\ \A c \in DOMAIN fr.calls : Alike(a, fr.calls[c])

Disjoint(s, q) == s.r <= q.l \/ q.r <= s.l

\* Segments of one frame, of a frame and a segment, of two frames.
Apart(fr) ==
  \A c \in DOMAIN fr.calls :
    /\ Disjoint(fr, fr.calls[c])
    /\ \A d \in DOMAIN fr.calls : c < d => Disjoint(fr.calls[c], fr.calls[d])

FreeOf(fr, s) == Disjoint(fr, s) /\ \A c \in DOMAIN fr.calls : Disjoint(fr.calls[c], s)

FramesApart(fr, gr) ==
  FreeOf(fr, gr) /\ \A c \in DOMAIN gr.calls : FreeOf(fr, gr.calls[c])

AllApart ==
  /\ \A f \in DOMAIN frames : Apart(frames[f])
  /\ \A f, g \in DOMAIN frames : f < g => FramesApart(frames[f], frames[g])

AInv == AllApart /\ \A f \in DOMAIN frames : AllAlike(arr, frames[f])
-----------------------------------------------------------------------------
(* Keys that move.                                                         *)

\* A swap of two keys of a segment, or of two others, leaves its keys alike.
LEMMA AlikeSwapped ==
  ASSUME NEW a \in Seq(Texts), NEW i \in 1 .. Len(a), NEW j \in 1 .. Len(a), NEW s,
         s.l \in Nat, s.r \in Nat, 1 <= s.l, s.r <= Len(a) + 1, Alike(a, s),
         i \in s.l .. s.r - 1 <=> j \in s.l .. s.r - 1
  PROVE  Alike(Swapped(a, i, j), s)
<1> DEFINE b == Swapped(a, i, j)
           From(k) == IF k = j THEN i ELSE IF k = i THEN j ELSE k
<1>1. ASSUME NEW k \in s.l .. s.r - 1
      PROVE  From(k) \in s.l .. s.r - 1 /\ b[k] = a[From(k)]
  <2>1. k \in 1 .. Len(a)
    BY <1>1
  <2>2. b[k] = IF k = j THEN a[i] ELSE IF k = i THEN a[j] ELSE a[k]
    <3>1. \A n \in 1 .. Len(a) :
            Swapped(a, i, j)[n] = IF n = j THEN a[i] ELSE IF n = i THEN a[j] ELSE a[n]
      BY SwappedFacts
    <3> QED
      BY <2>1, <3>1
  <2>3. b[k] = a[From(k)]
    BY <2>2
  <2> QED
    BY <1>1, <2>3
<1> HIDE DEF b, From
<1>2. ASSUME NEW k \in s.l .. s.r - 1, NEW m \in s.l .. s.r - 1
      PROVE  Len(b[k]) >= s.depth /\ \A p \in 1 .. s.depth : b[k][p] = b[m][p]
  <2>1. b[k] = a[From(k)] /\ From(k) \in s.l .. s.r - 1
        /\ b[m] = a[From(m)] /\ From(m) \in s.l .. s.r - 1
    BY <1>1
  <2>2. ASSUME NEW x \in s.l .. s.r - 1, NEW y \in s.l .. s.r - 1
        PROVE  Len(a[x]) >= s.depth /\ \A p \in 1 .. s.depth : a[x][p] = a[y][p]
    BY DEF Alike
  <2>3. /\ Len(a[From(k)]) >= s.depth
        /\ \A p \in 1 .. s.depth : a[From(k)][p] = a[From(m)][p]
    BY <2>1, <2>2
  <2> QED
    BY <2>1, <2>3
<1>3. Alike(b, s)
  BY <1>2 DEF Alike
<1> QED
  BY <1>3 DEF b

\* One of two keys that are in the segment being sorted is in another segment
\* to be sorted as little as the other is.
LEMMA OthersKeepStill ==
  ASSUME NEW s, NEW q, s.l \in Nat, s.r \in Nat, q.l \in Nat, q.r \in Nat,
         Disjoint(q, s), NEW i \in s.l .. s.r - 1
  PROVE  i \notin q.l .. q.r - 1
BY DEF Disjoint

\* The types of all segments there are.
LEMMA SegmentsTyped ==
  ASSUME IInv, NEW f \in DOMAIN frames
  PROVE  /\ frames[f].l \in Nat /\ frames[f].r \in Nat /\ frames[f].depth \in Nat
         /\ 1 <= frames[f].l /\ frames[f].r <= Len(arr) + 1
         /\ frames[f].calls \in Seq(Segments)
         /\ \A c \in DOMAIN frames[f].calls :
              LET s == frames[f].calls[c]
              IN  s.l \in Nat /\ s.r \in Nat /\ s.depth \in Nat /\ 1 <= s.l
                  /\ s.l <= s.r /\ s.r <= Len(arr) + 1
<1>1. frames[f] \in Frames
  BY DEF IInv, SortTypeOK
<1>2. FrameFits(frames[f], Len(arr))
  BY AllFit DEF IInv
<1>3. frames[f].calls \in Seq(Segments)
  BY <1>1 DEF Frames
<1>4. \A c \in DOMAIN frames[f].calls : frames[f].calls[c] \in Segments
  BY <1>3
<1> QED
  BY <1>1, <1>2, <1>3, <1>4 DEF Frames, Segments, FrameFits

\* Only the frame on top is executed; its segment is free of the others.
LEMMA SwapKeepsAlike ==
  ASSUME IInv, AInv, pc # "done", frames' = frames,
         NEW i \in top.l .. top.r - 1, NEW j \in top.l .. top.r - 1,
         arr' = Swapped(arr, i, j)
  PROVE  AInv'
<1> DEFINE n == Len(frames)
<1>1. n \in DOMAIN frames /\ n \in Nat /\ top = frames[n] /\ arr \in Seq(Texts)
  BY TopFacts DEF IInv, top, SortTypeOK
<1>2. /\ top.l \in Nat /\ top.r \in Nat /\ 1 <= top.l /\ top.r <= Len(arr) + 1
      /\ Len(arr) \in Nat
  BY TopFacts DEF IInv
<1>3. i \in 1 .. Len(arr) /\ j \in 1 .. Len(arr)
  BY <1>2
<1>4. AllApart'
  BY DEF AInv, AllApart
<1>5. ASSUME NEW q, q.l \in Nat, q.r \in Nat, 1 <= q.l, q.r <= Len(arr) + 1,
             Alike(arr, q), Disjoint(q, top)
      PROVE  Alike(arr', q)
  <2>1. i \notin q.l .. q.r - 1 /\ j \notin q.l .. q.r - 1
    BY <1>2, <1>5, OthersKeepStill
  <2> QED
    BY <1>1, <1>3, <1>5, <2>1, AlikeSwapped
<1>6. ASSUME NEW f \in DOMAIN frames
      PROVE  AllAlike(arr', frames[f])
  <2>1. AllAlike(arr, frames[f])
    BY DEF AInv
  <2>2. CASE f = n
    <3>1. Alike(arr', top)
      <4>1. Alike(arr, top)
        BY <1>1, <2>1, <2>2 DEF AllAlike
      <4> QED
        BY <1>1, <1>2, <1>3, <4>1, AlikeSwapped
    <3>2. ASSUME NEW c \in DOMAIN top.calls
          PROVE  Alike(arr', top.calls[c])
      <4>1. Alike(arr, top.calls[c])
        BY <1>1, <2>1, <2>2 DEF AllAlike
      <4>2. Disjoint(top.calls[c], top)
        BY <1>1 DEF AInv, AllApart, Apart, Disjoint
      <4> QED
        BY <1>1, <1>5, <4>1, <4>2, SegmentsTyped
    <3> QED
      BY <1>1, <2>2, <3>1, <3>2 DEF AllAlike
  <2>3. CASE f # n
    <3>1. f < n
      BY <1>1, <2>3 DEF IInv, SortTypeOK
    <3>2. FreeOf(frames[f], top)
      BY <1>1, <3>1 DEF AInv, AllApart, FramesApart
    <3>3. Alike(arr', frames[f])
      BY <1>5, <2>1, <3>2, SegmentsTyped DEF AllAlike, FreeOf
    <3>4. ASSUME NEW c \in DOMAIN frames[f].calls
          PROVE  Alike(arr', frames[f].calls[c])
      BY <1>5, <2>1, <3>2, SegmentsTyped DEF AllAlike, FreeOf
    <3> QED
      BY <3>3, <3>4 DEF AllAlike
  <2> QED
    BY <2>2, <2>3
<1> QED
  BY <1>4, <1>6 DEF AInv

\* A step that moves no key and makes or ends no call.
LEMMA StillAlike ==
  ASSUME AInv, UNCHANGED <<arr, frames>>
  PROVE  AInv'
BY DEF AInv, AllApart
-----------------------------------------------------------------------------
(* The loops.                                                              *)

\* The scans move keys of the segment only.
LEMMA ScansKeep ==
  ASSUME IInv, AInv, ScanLeft \/ ScanRight \/ Exchange \/ BackLeft \/ BackRight
  PROVE  AInv'
<1>1. pc \in {"left", "right", "exchange", "back"} /\ frames' = frames
  BY DEF ScanLeft, ScanRight, Exchange, BackLeft, BackRight
<1>2. /\ top.l \in Nat /\ top.r \in Nat
      /\ pl \in Nat /\ pr \in Nat /\ pivotL \in Nat /\ pivotR \in Nat
      /\ top.l <= pivotL /\ pivotL <= pl /\ pl <= pr /\ pr <= pivotR /\ pivotR <= top.r
  BY <1>1, ScanFacts
<1>3. ASSUME NEW i \in top.l .. top.r - 1, NEW j \in top.l .. top.r - 1,
             arr' = Swapped(arr, i, j)
      PROVE  AInv'
  <2>1. pc # "done"
    BY <1>1
  <2> QED
    BY <1>1, <1>3, <2>1, SwapKeepsAlike
<1>4. CASE UNCHANGED arr
  BY <1>1, <1>4, StillAlike
<1>5. CASE ScanLeft
  <2>1. pl \in top.l .. top.r - 1 /\ pivotL \in top.l .. top.r - 1
    BY <1>2, <1>5 DEF ScanLeft, Met
  <2> QED
    BY <1>3, <1>4, <1>5, <2>1 DEF ScanLeft
<1>6. CASE ScanRight
  <2>1. pr - 1 \in top.l .. top.r - 1 /\ pivotR - 1 \in top.l .. top.r - 1
    BY <1>2, <1>6 DEF ScanRight, Met
  <2> QED
    BY <1>3, <1>4, <1>6, <2>1 DEF ScanRight
<1>7. CASE Exchange
  <2>1. pl < pr /\ pr < pivotR
    BY <1>7 DEF Exchange, IInv, ScanFits
  <2>2. pl \in top.l .. top.r - 1 /\ pr \in top.l .. top.r - 1
    BY <1>2, <2>1
  <2> QED
    BY <1>3, <1>7, <2>2 DEF Exchange
<1>8. CASE BackLeft
  <2>1. pivotL - 1 \in top.l .. top.r - 1 /\ pl - 1 \in top.l .. top.r - 1
    BY <1>2, <1>8 DEF BackLeft
  <2> QED
    BY <1>3, <1>8, <2>1 DEF BackLeft
<1>9. CASE BackRight
  <2>1. pivotR \in top.l .. top.r - 1 /\ pr \in top.l .. top.r - 1
    BY <1>2, <1>9 DEF BackRight
  <2> QED
    BY <1>3, <1>9, <2>1 DEF BackRight
<1> QED
  BY <1>5, <1>6, <1>7, <1>8, <1>9

\* So does the insertion sort.
LEMMA MoveDownKeepsAlike ==
  ASSUME IInv, AInv, MoveDown
  PROVE  AInv'
<1>1. /\ pc = "insert" /\ frames' = frames /\ at < top.r /\ down > top.l
      /\ arr' = Swapped(arr, down - 1, down)
  BY DEF MoveDown, MustMove
<1>2. top.l \in Nat /\ top.r \in Nat /\ pc # "done"
  BY <1>1, TopFacts DEF IInv
<1>3. at \in Nat /\ down \in Nat /\ down <= at
  BY <1>1 DEF IInv, SortTypeOK, ScanFits
<1>4. down - 1 \in top.l .. top.r - 1 /\ down \in top.l .. top.r - 1
  BY <1>1, <1>2, <1>3
<1> QED
  BY <1>1, <1>2, <1>4, SwapKeepsAlike
-----------------------------------------------------------------------------
(* Calls and returns.                                                      *)

\* The segment of a call leaves its caller's list.
LEMMA CallKeepsAlike ==
  ASSUME IInv, AInv, Call
  PROVE  AInv'
<1> DEFINE n == Len(frames)
           s == Head(top.calls)
           N == frames'[n]
           M == frames'[n + 1]
<1>1. pc # "done" /\ arr' = arr /\ top.calls # <<>>
  BY DEF Call
<1>2. n \in Nat \ {0} /\ n \in DOMAIN frames /\ top = frames[n] /\ top \in Frames
      /\ DOMAIN frames = 1 .. n
  BY <1>1, TopFacts DEF IInv, SortTypeOK, top
<1>3. /\ DOMAIN frames' = 1 .. n + 1
      /\ \A f \in 1 .. n - 1 : frames'[f] = frames[f]
      /\ N = [top EXCEPT !.calls = Tail(@)] /\ M = Frame(s)
  BY <1>2, CallFrames
<1>4. /\ 1 \in DOMAIN top.calls /\ s = top.calls[1] /\ Tail(top.calls) \in Seq(Segments)
      /\ \A c \in DOMAIN Tail(top.calls) :
           c \in Nat \ {0} /\ c + 1 \in DOMAIN top.calls
           /\ Tail(top.calls)[c] = top.calls[c + 1]
  BY <1>1, <1>2 DEF Frames
<1>5. /\ N.l = top.l /\ N.r = top.r /\ N.depth = top.depth /\ N.calls = Tail(top.calls)
      /\ M.l = s.l /\ M.r = s.r /\ M.depth = s.depth /\ M.calls = <<>>
  BY <1>2, <1>3 DEF Frame, Frames
<1> HIDE DEF n, s, N, M
<1>6. Apart(top) /\ AllAlike(arr, top)
  BY <1>2 DEF AInv, AllApart
<1>7. \A f \in 1 .. n - 1 : f \in DOMAIN frames /\ f < n
  BY <1>2
<1>8. ASSUME NEW f \in 1 .. n - 1
      PROVE  /\ Apart(frames'[f]) /\ AllAlike(arr', frames'[f])
             /\ FramesApart(frames'[f], N) /\ FramesApart(frames'[f], M)
  <2>1. Apart(frames[f]) /\ AllAlike(arr, frames[f]) /\ FramesApart(frames[f], top)
    BY <1>2, <1>7 DEF AInv, AllApart
  <2>2. FreeOf(frames[f], N) /\ FreeOf(frames[f], M)
    BY <1>4, <1>5, <2>1 DEF FramesApart, FreeOf, Disjoint
  <2>3. \A c \in DOMAIN N.calls : FreeOf(frames[f], N.calls[c])
    BY <1>4, <1>5, <2>1 DEF FramesApart
  <2>4. DOMAIN M.calls = {}
    BY <1>5
  <2> QED
    BY <1>1, <1>3, <2>1, <2>2, <2>3, <2>4 DEF FramesApart
<1>9. Apart(N) /\ AllAlike(arr', N)
  <2>1. \A c \in DOMAIN N.calls :
          c \in Nat \ {0} /\ c + 1 \in DOMAIN top.calls /\ N.calls[c] = top.calls[c + 1]
    BY <1>4, <1>5
  <2>2. \A c, d \in DOMAIN N.calls : c < d => c + 1 < d + 1
    BY <2>1
  <2>3. Apart(N)
    BY <1>5, <1>6, <2>1, <2>2 DEF Apart, Disjoint
  <2>4. AllAlike(arr, N)
    BY <1>5, <1>6, <2>1 DEF AllAlike, Alike
  <2> QED
    BY <1>1, <2>3, <2>4
<1>10. Apart(M) /\ AllAlike(arr', M) /\ FramesApart(N, M)
  <2>1. DOMAIN M.calls = {}
    BY <1>5
  <2>2. Alike(arr, M)
    BY <1>4, <1>5, <1>6 DEF AllAlike, Alike
  <2>3. Disjoint(N, M)
    BY <1>4, <1>5, <1>6 DEF Apart, Disjoint
  <2>4. ASSUME NEW c \in DOMAIN N.calls
        PROVE  Disjoint(N.calls[c], M)
    <3>1. N.calls[c] = top.calls[c + 1] /\ c + 1 \in DOMAIN top.calls /\ 1 < c + 1
      BY <1>4, <1>5
    <3>2. Disjoint(top.calls[1], top.calls[c + 1])
      BY <1>4, <1>6, <3>1 DEF Apart
    <3> QED
      BY <1>4, <1>5, <3>1, <3>2 DEF Disjoint
  <2> QED
    BY <1>1, <2>1, <2>2, <2>3, <2>4 DEF Apart, AllAlike, FramesApart, FreeOf
<1>11. \A f \in 1 .. n + 1 : f \in 1 .. n - 1 \/ f = n \/ f = n + 1
  BY <1>2
<1>12. \A f \in DOMAIN frames' : Apart(frames'[f]) /\ AllAlike(arr', frames'[f])
  BY <1>3, <1>8, <1>9, <1>10, <1>11 DEF N, M
<1>13. ASSUME NEW f \in DOMAIN frames', NEW g \in DOMAIN frames', f < g
       PROVE  FramesApart(frames'[f], frames'[g])
  <2>1. f \in 1 .. n - 1 \/ (f = n /\ g = n + 1)
    BY <1>2, <1>3, <1>13
  <2>2. CASE f = n /\ g = n + 1
    BY <1>10, <2>2 DEF N, M
  <2>3. CASE f \in 1 .. n - 1
    <3>1. CASE g \in 1 .. n - 1
      BY <1>3, <1>7, <1>13, <2>3, <3>1 DEF AInv, AllApart
    <3> QED
      BY <1>3, <1>8, <1>11, <2>3, <3>1 DEF N, M
  <2> QED
    BY <2>1, <2>2, <2>3
<1> QED
  BY <1>12, <1>13 DEF AInv, AllApart

\* A return leaves the frames below as they are.
LEMMA ReturnKeepsAlike ==
  ASSUME IInv, AInv, Return
  PROVE  AInv'
<1>1. /\ arr' = arr
      /\ \A f \in DOMAIN frames' : frames'[f] = frames[f] /\ f \in DOMAIN frames
  BY ReturnFrames DEF Return
<1> QED
  BY <1>1 DEF AInv, AllApart
-----------------------------------------------------------------------------
(* The division into three.                                                *)

\* The calls that Divide puts on the list, in their order.
LEMMA TwoCalls ==
  ASSUME NEW first, NEW second, NEW p \in BOOLEAN, NEW q \in BOOLEAN
  PROVE  LET calls == (IF p THEN <<first>> ELSE <<>>) \o (IF q THEN <<second>> ELSE <<>>)
         IN  /\ \A c \in DOMAIN calls : (calls[c] = first /\ p) \/ (calls[c] = second /\ q)
             /\ \A c, d \in DOMAIN calls :
                  c < d => calls[c] = first /\ calls[d] = second
<1> DEFINE S == {first, second}
           a == IF p THEN <<first>> ELSE <<>>
           b == IF q THEN <<second>> ELSE <<>>
           calls == a \o b
<1>1. a \in Seq(S) /\ b \in Seq(S)
  <2>1. <<first>> \in Seq(S) /\ <<second>> \in Seq(S) /\ <<>> \in Seq(S)
    OBVIOUS
  <2> HIDE DEF S
  <2> QED
    BY <2>1
<1>2. /\ Len(a) = IF p THEN 1 ELSE 0
      /\ Len(b) = IF q THEN 1 ELSE 0
      /\ p => a[1] = first
      /\ q => b[1] = second
  OBVIOUS
<1> HIDE DEF S, a, b
<1>3. /\ calls \in Seq(S) /\ Len(calls) = Len(a) + Len(b)
      /\ \A c \in 1 .. Len(a) + Len(b) :
           calls[c] = IF c <= Len(a) THEN a[c] ELSE b[c - Len(a)]
  BY <1>1
<1> HIDE DEF calls
<1>4. DOMAIN calls = 1 .. Len(a) + Len(b)
  BY <1>3
<1>5. /\ \A c \in DOMAIN calls : (calls[c] = first /\ p) \/ (calls[c] = second /\ q)
      /\ \A c, d \in DOMAIN calls : c < d => calls[c] = first /\ calls[d] = second
  <2>1. ASSUME NEW c \in DOMAIN calls
        PROVE  \/ calls[c] = first /\ p /\ (q => c = 1)
               \/ calls[c] = second /\ q /\ (p => c = 2)
    <3>1. CASE p /\ q
      BY <1>2, <1>3, <1>4, <3>1
    <3>2. CASE p /\ ~q
      BY <1>2, <1>3, <1>4, <3>2
    <3>3. CASE ~p /\ q
      BY <1>2, <1>3, <1>4, <3>3
    <3>4. CASE ~p /\ ~q
      BY <1>2, <1>4, <3>4
    <3> QED
      BY <3>1, <3>2, <3>3, <3>4
  <2>2. ASSUME NEW c \in DOMAIN calls, NEW d \in DOMAIN calls, c < d
        PROVE  calls[c] = first /\ calls[d] = second
    <3>1. p /\ q /\ c = 1 /\ d = 2
      BY <1>2, <1>4, <2>2
    <3> QED
      BY <1>2, <1>3, <1>4, <3>1
  <2>3. \A c \in DOMAIN calls : (calls[c] = first /\ p) \/ (calls[c] = second /\ q)
    BY <2>1
  <2>4. \A c, d \in DOMAIN calls : c < d => calls[c] = first /\ calls[d] = second
    BY <2>2
  <2> QED
    BY <2>3, <2>4
<1> QED
  BY <1>5 DEF calls, a, b

\* A part of a segment of keys that are alike.
LEMMA PartAlike ==
  ASSUME NEW a, NEW s, NEW q, Alike(a, s), q.depth = s.depth,
         s.l \in Nat, s.r \in Nat, q.l \in Nat, q.r \in Nat, s.l <= q.l, q.r <= s.r
  PROVE  Alike(a, q)
<1>1. \A i \in q.l .. q.r - 1 : i \in s.l .. s.r - 1
  OBVIOUS
<1> QED
  BY <1>1 DEF Alike

\* Where the three parts are, and that they do not overlap.
LEMMA PartsApart ==
  ASSUME IInv, pc = "back"
  PROVE  /\ \A q \in {Less, Equal, Greater} :
              q.l \in Nat /\ q.r \in Nat /\ q.l <= q.r /\ top.l <= q.l /\ q.r <= top.r
         /\ \A q, t \in {Less, Equal, Greater} : q # t => Disjoint(q, t)
         /\ Less.depth = top.depth /\ Greater.depth = top.depth
         /\ Equal.depth = top.depth + 1
         /\ Equal.l = pl /\ Equal.r = pr
<1>1. /\ top.l \in Nat /\ top.r \in Nat /\ pl \in Nat /\ pr \in Nat
      /\ top.l <= pl /\ pl <= pr /\ pr <= top.r
  BY ScanFacts
<1>2. /\ Less.l = top.l /\ Less.r = pl /\ Less.depth = top.depth
      /\ Equal.l = pl /\ Equal.r = pr /\ Equal.depth = top.depth + 1
      /\ Greater.l = pr /\ Greater.r = top.r /\ Greater.depth = top.depth
  BY DEF Less, Equal, Greater, Segment
<1> QED
  BY <1>1, <1>2 DEF Disjoint

\* The labels of the part in the middle are the pivot, so its keys are alike
\* in one byte more, unless they end here.
LEMMA PartsAlike ==
  ASSUME IInv, AInv, pc = "back"
  PROVE  /\ Alike(arr, Less) /\ Alike(arr, Greater)
         /\ pivot # -1 => Alike(arr, Equal)
<1>1. /\ top.l \in Nat /\ top.r \in Nat /\ top.depth \in Nat /\ Len(arr) \in Nat
      /\ 1 <= top.l /\ top.r <= Len(arr) + 1 /\ arr \in Seq(Texts)
      /\ pl \in Nat /\ pr \in Nat /\ top.l <= pl /\ pr <= top.r
  BY ScanFacts
<1>2. Alike(arr, top)
  BY TopFacts DEF IInv, AInv, AllAlike, top
<1>3. Alike(arr, Less) /\ Alike(arr, Greater)
  BY <1>1, <1>2, PartsApart, PartAlike
<1>4. ASSUME pivot # -1, NEW i \in pl .. pr - 1
      PROVE  Len(arr[i]) >= top.depth + 1 /\ arr[i][top.depth + 1] = pivot
  <2>1. Label(arr[i], top.depth) = pivot
    BY <1>4 DEF IInv, Partitioned
  <2>2. i \in 1 .. Len(arr)
    BY <1>1, <1>4
  <2>3. arr[i] \in Seq(Nat)
    BY <1>1, <2>2, SortAssumption
  <2>4. Len(arr[i]) \in Nat
    BY <2>3
  <2> QED
    BY <1>1, <1>4, <2>1, <2>4 DEF Label
<1>5. ASSUME pivot # -1
      PROVE  Alike(arr, Equal)
  <2>1. \A i \in pl .. pr - 1 : i \in top.l .. top.r - 1
    BY <1>1
  <2>2. ASSUME NEW i \in pl .. pr - 1, NEW j \in pl .. pr - 1
        PROVE  /\ Len(arr[i]) >= top.depth + 1
               /\ \A k \in 1 .. top.depth + 1 : arr[i][k] = arr[j][k]
    <3>1. \A k \in 1 .. top.depth : arr[i][k] = arr[j][k]
      BY <1>2, <2>1 DEF Alike
    <3>2. \A k \in 1 .. top.depth + 1 : k \in 1 .. top.depth \/ k = top.depth + 1
      BY <1>1
    <3>3. arr[i][top.depth + 1] = arr[j][top.depth + 1] /\ Len(arr[i]) >= top.depth + 1
      BY <1>4, <1>5
    <3> QED
      BY <3>1, <3>2, <3>3
  <2> QED
    BY <2>2, PartsApart DEF Alike
<1> QED
  BY <1>3, <1>5

\* What a call, or the loop, gets of the parts.
LEMMA DividedAlike ==
  ASSUME IInv, AInv, pc = "back"
  PROVE  LET left == LeftOf(Kept)
             first == Others[1]
             second == Others[2]
         IN  /\ \A q \in {left, first, second} :
                  q.l \in Nat /\ q.r \in Nat /\ q.l <= q.r /\ top.l <= q.l /\ q.r <= top.r
             /\ Disjoint(left, first) /\ Disjoint(left, second) /\ Disjoint(first, second)
             /\ Alike(arr, left)
             /\ \A q \in {first, second} : Size(q) > 1 /\ ~OneKey(q) => Alike(arr, q)
<1> DEFINE left == LeftOf(Kept)
           first == Others[1]
           second == Others[2]
           Parts == {Less, Equal, Greater}
<1>1. /\ \A q \in Parts :
           q.l \in Nat /\ q.r \in Nat /\ q.l <= q.r /\ top.l <= q.l /\ q.r <= top.r
      /\ \A q, t \in Parts : q # t => Disjoint(q, t)
      /\ Less.depth = top.depth /\ Greater.depth = top.depth
      /\ Equal.depth = top.depth + 1
  BY PartsApart
<1>2. top.depth \in Nat /\ top.l \in Nat /\ top.r \in Nat
  BY ScanFacts
<1>3. Disjoint(Less, Equal) /\ Disjoint(Equal, Greater) /\ Disjoint(Less, Greater)
  <2>1. /\ Less.r = pl /\ Equal.l = pl /\ Equal.r = pr /\ Greater.l = pr /\ Less.r <= Greater.l
    BY ScanFacts DEF Less, Equal, Greater, Segment
  <2>2. pl <= pl /\ pr <= pr
    BY ScanFacts
  <2> QED
    BY <2>1, <2>2 DEF Disjoint
<1>4. /\ first \in Parts /\ second \in Parts /\ Kept \in Parts
      /\ Disjoint(Kept, first) /\ Disjoint(Kept, second) /\ Disjoint(first, second)
  <2>1. CASE ~OuterBigger
    <3>1. first = Less /\ second = Greater /\ Kept = Equal
      BY <2>1 DEF Others, Kept
    <3> QED
      BY <1>3, <3>1 DEF Disjoint
  <2>2. CASE OuterBigger /\ SmallerOuter = Less
    <3>1. first = Equal /\ second = Less /\ Kept = Greater
      BY <2>2 DEF Others, Kept
    <3> QED
      BY <1>3, <3>1 DEF Disjoint
  <2>3. CASE OuterBigger /\ SmallerOuter # Less
    <3>1. first = Equal /\ second = Greater /\ Kept = Less
      BY <2>3 DEF Others, Kept, SmallerOuter
    <3> QED
      BY <1>3, <3>1 DEF Disjoint
  <2> QED
    BY <2>1, <2>2, <2>3
<1>5. \A q \in Parts : Size(q) > 1 /\ ~OneKey(q) => Alike(arr, q)
  BY PartsAlike DEF OneKey
<1>6. /\ left.l \in Nat /\ left.r = Kept.r /\ Kept.l <= left.l /\ left.l <= left.r
      /\ left = Kept \/ left.depth = top.depth
  <2>1. CASE OneKey(Kept)
    <3>1. left = Segment(IF Size(Kept) = 1 THEN Kept.l ELSE Kept.r, Kept.r, top.depth)
      BY <2>1 DEF LeftOf
    <3> QED
      BY <1>1, <1>4, <3>1 DEF Segment
  <2>2. CASE ~OneKey(Kept)
    <3>1. left = Kept
      BY <2>2 DEF LeftOf
    <3> QED
      BY <1>1, <1>4, <3>1
  <2> QED
    BY <2>1, <2>2
<1>7. Alike(arr, left)
  <2>1. CASE left.depth = top.depth
    <3>1. Alike(arr, top)
      BY TopFacts DEF IInv, AInv, AllAlike, top
    <3> HIDE DEF left
    <3> QED
      BY <1>1, <1>2, <1>4, <1>6, <2>1, <3>1, PartAlike
  <2>2. CASE left = Kept /\ ~OneKey(Kept)
    <3>1. CASE Size(Kept) > 1
      BY <1>4, <1>5, <2>2, <3>1
    <3>2. CASE ~(Size(Kept) > 1)
      <4>1. Kept.r - Kept.l = 0
        BY <1>1, <1>4, <2>2, <3>2 DEF OneKey, Size
      <4>2. \A i \in Kept.l .. Kept.r - 1 : FALSE
        BY <1>1, <1>4, <4>1
      <4> QED
        BY <2>2, <4>2 DEF Alike
    <3> QED
      BY <3>1, <3>2
  <2>3. left.depth = top.depth \/ (left = Kept /\ ~OneKey(Kept))
    BY DEF LeftOf, Segment
  <2> QED
    BY <2>1, <2>2, <2>3
<1>8. Disjoint(left, first) /\ Disjoint(left, second)
  <2> HIDE DEF left, first, second
  <2> QED
    BY <1>1, <1>4, <1>6 DEF Disjoint
<1>9. top.l <= left.l /\ left.r <= top.r /\ left.r \in Nat
  <2> HIDE DEF left
  <2> QED
    BY <1>1, <1>2, <1>4, <1>6
<1> HIDE DEF left, first, second, Parts
<1>10. \A q \in {left, first, second} :
         q.l \in Nat /\ q.r \in Nat /\ q.l <= q.r /\ top.l <= q.l /\ q.r <= top.r
  BY <1>1, <1>4, <1>6, <1>9
<1> QED
  BY <1>4, <1>5, <1>7, <1>8, <1>10 DEF left, first, second

\* Dividing a segment makes segments of it that do not overlap.
LEMMA DivideKeepsAlike ==
  ASSUME IInv, AInv, Divide
  PROVE  AInv'
<1> DEFINE n == Len(frames)
           left == LeftOf(Kept)
           first == Others[1]
           second == Others[2]
           More(s) == Size(s) > 1 /\ ~OneKey(s)
           N == frames'[n]
<1>1. pc = "back" /\ arr' = arr
  BY DEF Divide
<1>2. n \in Nat \ {0} /\ n \in DOMAIN frames /\ top = frames[n] /\ DOMAIN frames = 1 .. n
  BY <1>1, TopFacts DEF IInv, SortTypeOK, top
<1>3. /\ DOMAIN frames' = 1 .. n
      /\ \A f \in 1 .. n - 1 : frames'[f] = frames[f]
      /\ N.l = left.l /\ N.r = left.r /\ N.depth = left.depth
      /\ N.calls = (IF More(first) THEN <<first>> ELSE <<>>) \o
                   (IF More(second) THEN <<second>> ELSE <<>>)
  BY <1>2 DEF Divide
<1>4. /\ \A q \in {left, first, second} :
           q.l \in Nat /\ q.r \in Nat /\ q.l <= q.r /\ top.l <= q.l /\ q.r <= top.r
      /\ Disjoint(left, first) /\ Disjoint(left, second) /\ Disjoint(first, second)
      /\ Alike(arr, left)
      /\ \A q \in {first, second} : More(q) => Alike(arr, q)
  BY <1>1, DividedAlike
<1>5. top.l \in Nat /\ top.r \in Nat
  BY <1>1, ScanFacts
<1> HIDE DEF n, left, first, second, N
<1>6. /\ \A c \in DOMAIN N.calls :
           (N.calls[c] = first /\ More(first)) \/ (N.calls[c] = second /\ More(second))
      /\ \A c, d \in DOMAIN N.calls : c < d => N.calls[c] = first /\ N.calls[d] = second
  <2>1. More(first) \in BOOLEAN /\ More(second) \in BOOLEAN
    OBVIOUS
  <2> DEFINE p == More(first)
             q == More(second)
             todo == (IF p THEN <<first>> ELSE <<>>) \o (IF q THEN <<second>> ELSE <<>>)
  <2>2. N.calls = todo
    BY <1>3
  <2> HIDE DEF More, p, q
  <2>3. p \in BOOLEAN /\ q \in BOOLEAN
    BY <2>1 DEF p, q
  <2>4. /\ \A c \in DOMAIN todo : (todo[c] = first /\ p) \/ (todo[c] = second /\ q)
        /\ \A c, d \in DOMAIN todo : c < d => todo[c] = first /\ todo[d] = second
    BY <2>3, TwoCalls
  <2> HIDE DEF todo
  <2> QED
    BY <2>2, <2>4 DEF p, q
<1> HIDE DEF More
<1>7. Apart(N)
  BY <1>3, <1>4, <1>6 DEF Apart, Disjoint
<1>8. AllAlike(arr', N)
  <2>1. Alike(arr, N)
    BY <1>3, <1>4 DEF Alike
  <2>2. \A c \in DOMAIN N.calls : Alike(arr, N.calls[c])
    BY <1>4, <1>6
  <2> QED
    BY <1>1, <2>1, <2>2 DEF AllAlike
<1>9. ASSUME NEW f \in 1 .. n - 1
      PROVE  /\ Apart(frames'[f]) /\ AllAlike(arr', frames'[f])
             /\ FramesApart(frames'[f], N)
  <2>1. f \in DOMAIN frames /\ f < n
    BY <1>2
  <2>2. Apart(frames[f]) /\ AllAlike(arr, frames[f]) /\ FreeOf(frames[f], top)
    BY <1>2, <2>1 DEF AInv, AllApart, FramesApart
  <2>3. ASSUME NEW q, q.l \in Nat, q.r \in Nat, top.l <= q.l, q.r <= top.r
        PROVE  FreeOf(frames[f], q)
    <3>1. /\ frames[f].l \in Nat /\ frames[f].r \in Nat
          /\ \A c \in DOMAIN frames[f].calls :
               frames[f].calls[c].l \in Nat /\ frames[f].calls[c].r \in Nat
      BY <2>1, SegmentsTyped
    <3> QED
      BY <1>5, <2>2, <2>3, <3>1 DEF FreeOf, Disjoint
  <2>4. FreeOf(frames[f], left) /\ FreeOf(frames[f], first) /\ FreeOf(frames[f], second)
    BY <1>4, <2>3
  <2>5. FreeOf(frames[f], N)
    BY <1>3, <2>4 DEF FreeOf, Disjoint
  <2> QED
    BY <1>1, <1>3, <1>6, <2>2, <2>4, <2>5 DEF FramesApart
<1>10. \A f \in 1 .. n : f \in 1 .. n - 1 \/ f = n
  BY <1>2
<1>11. \A f \in DOMAIN frames' : Apart(frames'[f]) /\ AllAlike(arr', frames'[f])
  BY <1>3, <1>7, <1>8, <1>9, <1>10 DEF N
<1>12. ASSUME NEW f \in DOMAIN frames', NEW g \in DOMAIN frames', f < g
       PROVE  FramesApart(frames'[f], frames'[g])
  <2>1. f \in 1 .. n - 1
    BY <1>2, <1>3, <1>12
  <2>2. CASE g \in 1 .. n - 1
    <3>1. f \in DOMAIN frames /\ g \in DOMAIN frames
      BY <1>2, <2>1, <2>2
    <3> QED
      BY <1>3, <1>12, <2>1, <2>2, <3>1 DEF AInv, AllApart
  <2>3. CASE g = n
    BY <1>9, <2>1, <2>3 DEF N
  <2> QED
    BY <1>3, <1>10, <2>2, <2>3
<1> QED
  BY <1>11, <1>12 DEF AInv, AllApart
-----------------------------------------------------------------------------
(* The theorem.                                                            *)

\* All the keys are alike in their first zero bytes.
LEMMA InitAlike ==
  ASSUME Init
  PROVE  AInv
<1>1. IInv
  BY InitOK
<1>2. /\ DOMAIN frames = {1} /\ frames[1].l = 1 /\ frames[1].r = Len(arr) + 1
      /\ frames[1].depth = 0 /\ DOMAIN frames[1].calls = {}
  BY DEF Init, Frame, Segment
<1>3. arr \in Seq(Texts)
  BY <1>1 DEF IInv, SortTypeOK
<1>4. \A i \in 1 .. Len(arr) + 1 - 1 : Len(arr[i]) >= 0
  <2>1. \A i \in 1 .. Len(arr) + 1 - 1 : arr[i] \in Texts
    BY <1>3
  <2>2. \A t \in Texts : Len(t) \in Nat
    BY SortAssumption
  <2> QED
    BY <2>1, <2>2
<1>5. AllAlike(arr, frames[1]) /\ Apart(frames[1])
  BY <1>2, <1>4 DEF AllAlike, Alike, Apart
<1> QED
  BY <1>2, <1>5 DEF AInv, AllApart

\* Every step keeps the pending segments apart and their keys alike.
LEMMA NextKeepsAlike ==
  ASSUME IInv, AInv, [Next]_vars
  PROVE  AInv'
<1>1. CASE Partition \/ Meet \/ Insertion \/ Insert \/ UNCHANGED vars
  BY <1>1, StillAlike DEF Partition, Meet, Insertion, Insert, vars
<1> QED
  BY <1>1, CallKeepsAlike, ScansKeep, DivideKeepsAlike, MoveDownKeepsAlike,
     ReturnKeepsAlike DEF Next

\* The first bytes of two keys of a segment are the same text.
LEMMA SamePrefix ==
  ASSUME IInv, NEW s, s.l \in Nat, s.r \in Nat, s.depth \in Nat, 1 <= s.l,
         s.r <= Len(arr) + 1, Alike(arr, s),
         NEW i \in s.l .. s.r - 1, NEW j \in s.l .. s.r - 1
  PROVE  /\ Len(arr[i]) >= s.depth
         /\ SubSeq(arr[i], 1, s.depth) = SubSeq(arr[j], 1, s.depth)
<1>1. arr \in Seq(Texts) /\ Len(arr) \in Nat
  BY DEF IInv, SortTypeOK
<1>2. i \in 1 .. Len(arr) /\ j \in 1 .. Len(arr)
  BY <1>1
<1>3. arr[i] \in Seq(Nat) /\ arr[j] \in Seq(Nat)
  BY <1>1, <1>2, SortAssumption
<1>4. /\ Len(arr[i]) >= s.depth /\ Len(arr[j]) >= s.depth
      /\ \A k \in 1 .. s.depth : arr[i][k] = arr[j][k]
  BY DEF Alike
<1>5. /\ SubSeq(arr[i], 1, s.depth) = [k \in 1 .. s.depth |-> arr[i][k]]
      /\ SubSeq(arr[j], 1, s.depth) = [k \in 1 .. s.depth |-> arr[j][k]]
  BY <1>3, <1>4
<1>6. [k \in 1 .. s.depth |-> arr[i][k]] = [k \in 1 .. s.depth |-> arr[j][k]]
  BY <1>4
<1> QED
  BY <1>4, <1>5, <1>6

\* get_label() and compare() never look behind the end of a key: all keys of a
\* segment that sort() is called for, or has still to be, have depth bytes, and
\* the same ones.
THEOREM SegmentsAlikeAlways == Spec => []SegmentsAlike
<1>1. IInv /\ AInv => SegmentsAlike
  <2> SUFFICES ASSUME IInv, AInv, NEW f \in DOMAIN frames,
                      NEW s \in {frames[f]} \cup
                                {frames[f].calls[c] : c \in DOMAIN frames[f].calls},
                      NEW i \in s.l .. s.r - 1, NEW j \in s.l .. s.r - 1
               PROVE  /\ Len(arr[i]) >= s.depth
                      /\ SubSeq(arr[i], 1, s.depth) = SubSeq(arr[j], 1, s.depth)
    BY DEF SegmentsAlike
  <2>1. /\ s.l \in Nat /\ s.r \in Nat /\ s.depth \in Nat /\ 1 <= s.l
        /\ s.r <= Len(arr) + 1
    BY SegmentsTyped
  <2>2. Alike(arr, s)
    BY DEF AInv, AllAlike
  <2> QED
    BY <2>1, <2>2, SamePrefix
<1>2. Init => AInv
  BY InitAlike
<1>3. IInv /\ AInv /\ [Next]_vars => AInv'
  BY NextKeepsAlike
<1> QED
  BY <1>1, <1>2, <1>3, Invariant, PTL DEF Spec
-----------------------------------------------------------------------------
(* Why the keys come out sorted, and how many there are.  Two keys that    *)
(* are not together in a segment still to be sorted are in order already;  *)
(* the keys in no such segment, and those insertion_sort() has dealt with, *)
(* have been counted.                                                      *)

\* Where a segment is, whatever is to be done with it.
Span(s) == [l |-> s.l, r |-> s.r]

\* The places of the segments with more than one key, in a frame and in all.
SpansOf(fr) ==
  {p \in {Span(fr)} \cup {Span(fr.calls[c]) : c \in DOMAIN fr.calls} : p.r - p.l > 1}

Spans == UNION {SpansOf(frames[f]) : f \in DOMAIN frames}

Inside(p, i) == p.l <= i /\ i < p.r

Free(S, i) == \A p \in S : ~Inside(p, i)

\* The order of keys.
Lt(x, y) == Before(x, y, 0)

Le(x, y) == x = y \/ Lt(x, y)

\* Keys that no segment of S holds both of are in order, and only two that no
\* segment holds may be equal.
Ordered(a, S) ==
  \A i, j \in 1 .. Len(a) : i < j =>
    \/ \E p \in S : Inside(p, i) /\ Inside(p, j)
    \/ Lt(a[i], a[j])
    \/ a[i] = a[j] /\ Free(S, i) /\ Free(S, j)

SpansApart(S) == \A p, q \in S : p # q => Disjoint(p, q)

\* insertion_sort() has sorted the keys in front of at, but for the one at
\* down, which is less than those it has passed.
Inserting ==
  pc = "insert" =>
    /\ at = top.r => down = at
    /\ \A i, j \in (top.l .. at) \ {down} : i < j => Le(arr[i], arr[j])
    /\ \A j \in down + 1 .. at : Lt(arr[down], arr[j])

\* The places of the keys that have been counted.
CountedPlaces ==
  {i \in 1 .. Len(arr) : Free(Spans, i)} \cup
  (IF pc = "insert" THEN (top.l .. at) \ {down} ELSE {})

\* The keys at some places.
KeysAt(a, C) == {a[i] : i \in C}

\* All that keys are counted, however often they occur; none if there is one.
CountsKeys ==
  count = IF Len(arr) = 1 THEN 0 ELSE Cardinality(KeysAt(arr, CountedPlaces))

\* The places of a key.
PlacesOf(a, t) == {i \in DOMAIN a : a[i] = t}

\* No key is lost or doubled.
SameKeys(a, b) ==
  \A t \in Texts : Cardinality(PlacesOf(a, t)) = Cardinality(PlacesOf(b, t))

\* A pivot is the label of one of the keys.
PivotThere ==
  pc \in {"left", "right", "exchange", "back"} =>
    \E i \in top.l .. top.r - 1 : Label(arr[i], top.depth) = pivot

\* While a segment is sorted it has two keys or more, and no calls are left.
AtWork ==
  pc \in {"left", "right", "exchange", "back", "insert"} =>
    Size(top) > 1 /\ top.calls = <<>>

CInv ==
  /\ Ordered(arr, Spans)
  /\ PivotThere
  /\ AtWork
  /\ Inserting
  /\ SameKeys(arr, given)
  /\ CountsKeys
  /\ pc = "done" => frames = <<>>
-----------------------------------------------------------------------------
(* compare() orders texts.                                                 *)

\* The first place where two texts differ, if it is there that x is before y.
DiffersAt(x, y, i) ==
  /\ \A j \in 1 .. i - 1 : j <= Len(x) /\ x[j] = y[j]
  /\ i > Len(x) \/ x[i] < y[i]

LEMMA LtMeans ==
  ASSUME NEW x, NEW y
  PROVE  Lt(x, y) <=> \E i \in 1 .. Len(y) : DiffersAt(x, y, i)
<1>1. 0 + 1 = 1
  OBVIOUS
<1> QED
  BY <1>1 DEF Lt, Before, DiffersAt

\* No text is before itself.
LEMMA LtIrreflexive ==
  ASSUME NEW x \in Seq(Nat)
  PROVE  ~Lt(x, x)
<1>1. ASSUME Lt(x, x)
      PROVE  FALSE
  <2>1. PICK i \in 1 .. Len(x) : i > Len(x) \/ x[i] < x[i]
    BY <1>1, LtMeans DEF DiffersAt
  <2>2. Len(x) \in Nat /\ x[i] \in Nat
    OBVIOUS
  <2> QED
    BY <2>1, <2>2
<1> QED
  BY <1>1

LEMMA LessLess ==
  ASSUME NEW k \in Nat, NEW m \in Nat, NEW n \in Nat, k < m, m < n
  PROVE  k < n
OBVIOUS

\* What is before what is before is before.
LEMMA LtTransitive ==
  ASSUME NEW x \in Seq(Nat), NEW y \in Seq(Nat), NEW z \in Seq(Nat), Lt(x, y), Lt(y, z)
  PROVE  Lt(x, z)
<1>1. PICK i \in 1 .. Len(y) : /\ \A j \in 1 .. i - 1 : j <= Len(x) /\ x[j] = y[j]
                               /\ i > Len(x) \/ x[i] < y[i]
  BY LtMeans DEF DiffersAt
<1>2. PICK k \in 1 .. Len(z) : /\ \A j \in 1 .. k - 1 : j <= Len(y) /\ y[j] = z[j]
                               /\ k > Len(y) \/ y[k] < z[k]
  BY LtMeans DEF DiffersAt
<1>3. Len(x) \in Nat /\ Len(y) \in Nat /\ Len(z) \in Nat
  OBVIOUS
<1>4. /\ \A j \in 1 .. Len(x) : x[j] \in Nat
      /\ \A j \in 1 .. Len(y) : y[j] \in Nat
      /\ \A j \in 1 .. Len(z) : z[j] \in Nat
  <2>1. \A j \in 1 .. Len(x) : x[j] \in Nat
    OBVIOUS
  <2>2. \A j \in 1 .. Len(y) : y[j] \in Nat
    OBVIOUS
  <2>3. \A j \in 1 .. Len(z) : z[j] \in Nat
    OBVIOUS
  <2> QED
    BY <2>1, <2>2, <2>3
<1>5. \E m \in 1 .. Len(z) : /\ \A j \in 1 .. m - 1 : j <= Len(x) /\ x[j] = z[j]
                             /\ m > Len(x) \/ x[m] < z[m]
  <2>1. CASE i < k
    <3>1. i \in 1 .. Len(z) /\ y[i] = z[i]
      BY <1>2, <1>3, <2>1
    <3>2. ASSUME NEW j \in 1 .. i - 1
          PROVE  j <= Len(x) /\ x[j] = z[j]
      <4>1. j \in 1 .. k - 1
        BY <1>3, <2>1
      <4>2. y[j] = z[j]
        BY <1>2, <4>1
      <4> QED
        BY <1>1, <4>2
    <3> QED
      BY <1>1, <3>1, <3>2
  <2>2. CASE k < i
    <3>1. k <= Len(x) /\ x[k] = y[k] /\ k <= Len(y)
      BY <1>1, <1>3, <2>2
    <3>2. x[k] < z[k]
      BY <1>2, <1>3, <3>1
    <3>3. \A j \in 1 .. k - 1 : j <= Len(x) /\ x[j] = z[j]
      <4>1. ASSUME NEW j \in 1 .. k - 1
            PROVE  j <= Len(x) /\ x[j] = z[j]
        <5>1. j <= Len(x) /\ x[j] = y[j]
          BY <1>1, <1>3, <2>2
        <5>2. j <= Len(y) /\ y[j] = z[j]
          BY <1>2, <1>3
        <5> QED
          BY <5>1, <5>2
      <4> QED
        BY <4>1
    <3> QED
      BY <3>2, <3>3
  <2>3. CASE i = k
    <3>1. y[i] < z[i] /\ y[i] \in Nat /\ z[i] \in Nat
      BY <1>1, <1>2, <1>3, <1>4, <2>3
    <3>2. i > Len(x) \/ x[i] < z[i]
      <4>1. CASE i <= Len(x)
        <5>1. x[i] \in Nat /\ x[i] < y[i]
          BY <1>1, <1>3, <1>4, <4>1
        <5> QED
          BY <3>1, <5>1, LessLess
      <4> QED
        BY <1>3, <4>1
    <3>3. \A j \in 1 .. i - 1 : j <= Len(x) /\ x[j] = z[j]
      BY <1>1, <1>2, <1>3, <2>3
    <3> QED
      BY <1>2, <2>3, <3>2, <3>3
  <2> QED
    BY <1>1, <1>2, <2>1, <2>2, <2>3
<1> QED
  BY <1>5, LtMeans DEF DiffersAt

\* Texts are sequences of one length and the same elements.
LEMMA SameText ==
  ASSUME NEW x \in Seq(Nat), NEW y \in Seq(Nat), Len(x) = Len(y),
         \A i \in 1 .. Len(x) : x[i] = y[i]
  PROVE  x = y
BY SeqEqual

\* Of two texts that differ one is before the other.
LEMMA LtTotal ==
  ASSUME NEW x \in Seq(Nat), NEW y \in Seq(Nat)
  PROVE  x = y \/ Lt(x, y) \/ Lt(y, x)
<1> DEFINE D == {i \in Nat : /\ i >= 1
                             /\ i <= Len(x) \/ i <= Len(y)
                             /\ i <= Len(x) /\ i <= Len(y) => x[i] # y[i]}
<1>1. Len(x) \in Nat /\ Len(y) \in Nat
  OBVIOUS
<1>2. /\ \A j \in 1 .. Len(x) : x[j] \in Nat
      /\ \A j \in 1 .. Len(y) : y[j] \in Nat
  OBVIOUS
<1>3. CASE D = {}
  <2>1. \A i \in Nat : i >= 1 /\ (i <= Len(x) \/ i <= Len(y)) =>
                       i <= Len(x) /\ i <= Len(y) /\ x[i] = y[i]
    BY <1>3
  <2>2. Len(x) <= Len(y) /\ Len(y) <= Len(x)
    <3>1. Len(x) >= 1 => Len(x) <= Len(y)
      BY <1>1, <2>1
    <3>2. Len(y) >= 1 => Len(y) <= Len(x)
      BY <1>1, <2>1
    <3> QED
      BY <1>1, <3>1, <3>2
  <2>3. \A i \in 1 .. Len(x) : x[i] = y[i]
    BY <1>1, <2>1
  <2>4. Len(x) = Len(y)
    BY <1>1, <2>2
  <2> QED
    BY <2>3, <2>4, SameText
<1>4. CASE D # {}
  <2>1. D \in SUBSET Nat
    OBVIOUS
  <2>2. PICK i \in D : \A k \in D : i <= k
    <3> HIDE DEF D
    <3> QED
      BY <1>4, <2>1, LeastNumber
  <2>3. i \in Nat /\ i >= 1 /\ (i <= Len(x) \/ i <= Len(y))
    OBVIOUS
  <2>4. \A j \in 1 .. i - 1 : j <= Len(x) /\ j <= Len(y) /\ x[j] = y[j]
    <3> SUFFICES ASSUME NEW j \in 1 .. i - 1
                 PROVE  j <= Len(x) /\ j <= Len(y) /\ x[j] = y[j]
      OBVIOUS
    <3>1. j \in Nat /\ j >= 1 /\ j < i
      BY <2>3
    <3>2. j \notin D
      BY <2>2, <2>3, <3>1
    <3> QED
      BY <1>1, <2>3, <3>1, <3>2
  <2>5. CASE i > Len(x)
    <3>1. i \in 1 .. Len(y)
      BY <1>1, <2>3, <2>5
    <3> QED
      BY <2>4, <2>5, <3>1, LtMeans DEF DiffersAt
  <2>6. CASE i > Len(y)
    <3>1. i \in 1 .. Len(x)
      BY <1>1, <2>3, <2>6
    <3> QED
      BY <2>4, <2>6, <3>1, LtMeans DEF DiffersAt
  <2>7. CASE i <= Len(x) /\ i <= Len(y)
    <3>1. i \in 1 .. Len(x) /\ i \in 1 .. Len(y) /\ x[i] # y[i]
      BY <1>1, <2>3, <2>7
    <3>2. x[i] < y[i] \/ y[i] < x[i]
      BY <1>2, <3>1
    <3> QED
      BY <2>4, <3>1, <3>2, LtMeans DEF DiffersAt
  <2> QED
    BY <1>1, <2>3, <2>5, <2>6, <2>7
<1> QED
  BY <1>3, <1>4

\* So Le is an order of all texts.
LEMMA LeFacts ==
  ASSUME NEW x \in Seq(Nat), NEW y \in Seq(Nat)
  PROVE  /\ Le(x, y) <=> ~Lt(y, x)
         /\ \A z \in Seq(Nat) : /\ Le(x, y) /\ Le(y, z) => Le(x, z)
                                /\ Le(x, y) /\ Lt(y, z) => Lt(x, z)
                                /\ Lt(x, y) /\ Le(y, z) => Lt(x, z)
<1>1. Le(x, y) \/ Lt(y, x)
  BY LtTotal DEF Le
<1>2. ASSUME Le(x, y), Lt(y, x)
      PROVE  FALSE
  <2>1. CASE x = y
    BY <1>2, <2>1, LtIrreflexive
  <2>2. CASE Lt(x, y)
    <3>1. Lt(x, x)
      BY <1>2, <2>2, LtTransitive
    <3> QED
      BY <3>1, LtIrreflexive
  <2> QED
    BY <1>2, <2>1, <2>2 DEF Le
<1>3. ASSUME NEW z \in Seq(Nat)
      PROVE  /\ Le(x, y) /\ Le(y, z) => Le(x, z)
             /\ Le(x, y) /\ Lt(y, z) => Lt(x, z)
             /\ Lt(x, y) /\ Le(y, z) => Lt(x, z)
  <2>1. Lt(x, y) /\ Lt(y, z) => Lt(x, z)
    BY LtTransitive
  <2> QED
    BY <2>1 DEF Le
<1> QED
  BY <1>1, <1>2, <1>3

\* Texts that are alike up to a depth, as Alike says of the keys of a segment.
AlikeTo(x, y, d) ==
  Len(x) >= d /\ Len(y) >= d /\ \A k \in 1 .. d : x[k] = y[k]

\* compare() may begin at a depth that two texts are alike up to.
LEMMA BeforeFromDepth ==
  ASSUME NEW x \in Seq(Nat), NEW y \in Seq(Nat), NEW d \in Nat, AlikeTo(x, y, d)
  PROVE  Before(x, y, d) <=> Lt(x, y)
<1>1. Len(x) \in Nat /\ Len(y) \in Nat /\ Len(x) >= d /\ Len(y) >= d
  BY DEF AlikeTo
<1>2. \A k \in 1 .. d : x[k] = y[k] /\ x[k] \in Nat
  <2>1. \A k \in 1 .. d : k \in 1 .. Len(x)
    BY <1>1
  <2> QED
    BY <2>1 DEF AlikeTo
<1>3. ASSUME Before(x, y, d)
      PROVE  Lt(x, y)
  <2>1. PICK i \in d + 1 .. Len(y) :
          /\ \A j \in d + 1 .. i - 1 : j <= Len(x) /\ x[j] = y[j]
          /\ i > Len(x) \/ x[i] < y[i]
    BY <1>3 DEF Before
  <2>2. i \in 1 .. Len(y) /\ i \in Nat
    BY <1>1
  <2>3. \A j \in 1 .. i - 1 : j \in 1 .. d \/ j \in d + 1 .. i - 1
    BY <2>2
  <2>4. \A j \in 1 .. i - 1 : j <= Len(x) /\ x[j] = y[j]
    BY <1>1, <1>2, <2>1, <2>3
  <2> QED
    BY <2>1, <2>2, <2>4, LtMeans DEF DiffersAt
<1>4. ASSUME Lt(x, y)
      PROVE  Before(x, y, d)
  <2>1. PICK i \in 1 .. Len(y) :
          /\ \A j \in 1 .. i - 1 : j <= Len(x) /\ x[j] = y[j]
          /\ i > Len(x) \/ x[i] < y[i]
    BY <1>4, LtMeans DEF DiffersAt
  <2>2. ~(i <= d)
    BY <1>1, <1>2, <2>1
  <2>3. i \in d + 1 .. Len(y) /\ \A j \in d + 1 .. i - 1 : j \in 1 .. i - 1
    BY <1>1, <2>2
  <2> QED
    BY <2>1, <2>3 DEF Before
<1> QED
  BY <1>3, <1>4

\* AlikeTo is symmetric.
LEMMA AlikeSymmetric ==
  ASSUME NEW x, NEW y, NEW d, AlikeTo(x, y, d)
  PROVE  AlikeTo(y, x, d)
BY DEF AlikeTo

\* What the sign of compare() says.
LEMMA CompareSays ==
  ASSUME NEW x \in Seq(Nat), NEW y \in Seq(Nat), NEW d \in Nat, AlikeTo(x, y, d)
  PROVE  /\ Compare(x, y, d) > 0 <=> Lt(y, x)
         /\ Compare(x, y, d) = 0 <=> x = y
         /\ Compare(x, y, d) <= 0 <=> Le(x, y)
<1>1. (Before(x, y, d) <=> Lt(x, y)) /\ (Before(y, x, d) <=> Lt(y, x))
  BY BeforeFromDepth, AlikeSymmetric
<1>2. Le(x, y) <=> ~Lt(y, x)
  BY LeFacts
<1>3. Le(y, x) <=> ~Lt(x, y)
  BY LeFacts
<1> QED
  BY <1>1, <1>2, <1>3 DEF Compare, Le

\* The label at the depth decides, the end of a text before any byte.
LEMMA LabelsOrder ==
  ASSUME NEW x \in Seq(Nat), NEW y \in Seq(Nat), NEW d \in Nat, AlikeTo(x, y, d),
         Label(x, d) < Label(y, d)
  PROVE  Lt(x, y)
<1>1. Len(x) \in Nat /\ Len(y) \in Nat /\ Len(x) >= d /\ Len(y) >= d
  BY DEF AlikeTo
<1>2. /\ d < Len(x) => x[d + 1] \in Nat
      /\ d < Len(y) => y[d + 1] \in Nat
  BY <1>1
<1>3. d < Len(y) /\ d + 1 \in 1 .. Len(y)
  BY <1>1, <1>2 DEF Label
<1>4. d + 1 > Len(x) \/ x[d + 1] < y[d + 1]
  BY <1>1, <1>2, <1>3 DEF Label
<1>5. \A j \in 1 .. d + 1 - 1 : j <= Len(x) /\ x[j] = y[j]
  BY <1>1 DEF AlikeTo
<1> QED
  BY <1>3, <1>4, <1>5, LtMeans DEF DiffersAt

\* Two texts that end at the depth are one.
LEMMA EndsAlike ==
  ASSUME NEW x \in Seq(Nat), NEW y \in Seq(Nat), NEW d \in Nat, AlikeTo(x, y, d),
         Label(x, d) = -1, Label(y, d) = -1
  PROVE  x = y
<1>1. Len(x) \in Nat /\ Len(y) \in Nat /\ Len(x) >= d /\ Len(y) >= d
  BY DEF AlikeTo
<1>2. /\ d < Len(x) => x[d + 1] \in Nat
      /\ d < Len(y) => y[d + 1] \in Nat
  BY <1>1
<1>3. Len(x) = d /\ Len(y) = d
  BY <1>1, <1>2 DEF Label
<1> QED
  BY <1>3, SameText DEF AlikeTo
-----------------------------------------------------------------------------
(* Keys in order, but for those together in a span.                        *)

\* A swap of two keys of a span.
LEMMA OrderedSwap ==
  ASSUME NEW a \in Seq(Texts), NEW S, SpansApart(S), Ordered(a, S),
         \A p \in S : p.l \in Nat /\ p.r \in Nat, NEW t \in S,
         NEW i \in 1 .. Len(a), NEW j \in 1 .. Len(a), Inside(t, i), Inside(t, j)
  PROVE  Ordered(Swapped(a, i, j), S)
<1> DEFINE b == Swapped(a, i, j)
           From(k) == IF k = j THEN i ELSE IF k = i THEN j ELSE k
<1>1. Len(b) = Len(a) /\ \A k \in 1 .. Len(a) : b[k] = a[From(k)]
  <2>1. Len(b) = Len(a) /\ \A k \in 1 .. Len(a) :
          b[k] = IF k = j THEN a[i] ELSE IF k = i THEN a[j] ELSE a[k]
    <3>1. Len(Swapped(a, i, j)) = Len(a)
      BY SwappedAt
    <3>2. ASSUME NEW k \in 1 .. Len(a)
          PROVE  Swapped(a, i, j)[k] =
                   IF k = j THEN a[i] ELSE IF k = i THEN a[j] ELSE a[k]
      BY SwappedAt
    <3> QED
      BY <3>1, <3>2
  <2> HIDE DEF b
  <2> QED
    BY <2>1
<1>2. \A k \in 1 .. Len(a) : /\ From(k) \in 1 .. Len(a)
                             /\ Inside(t, k) => Inside(t, From(k))
                             /\ ~Inside(t, k) => From(k) = k
  OBVIOUS
<1>3. Len(a) \in Nat /\ t.l \in Nat /\ t.r \in Nat
  OBVIOUS
<1> HIDE DEF b, From
<1>4. \A p \in S, k \in 1 .. Len(a) : Inside(p, k) /\ Inside(t, k) => p = t
  BY <1>3 DEF SpansApart, Disjoint, Inside
<1> SUFFICES ASSUME NEW x \in 1 .. Len(a), NEW y \in 1 .. Len(a), x < y
             PROVE  \/ \E p \in S : Inside(p, x) /\ Inside(p, y)
                    \/ Lt(b[x], b[y])
                    \/ b[x] = b[y] /\ Free(S, x) /\ Free(S, y)
  BY <1>1 DEF Ordered, b
<1> DEFINE u == From(x)
           v == From(y)
<1>5. u \in 1 .. Len(a) /\ v \in 1 .. Len(a) /\ b[x] = a[u] /\ b[y] = a[v]
  BY <1>1, <1>2
<1>6. CASE ~Inside(t, x) /\ ~Inside(t, y)
  <2>1. u = x /\ v = y
    BY <1>2, <1>6
  <2> QED
    BY <1>5, <2>1 DEF Ordered
<1>7. CASE Inside(t, x) /\ Inside(t, y)
  BY <1>7
<1>8. ASSUME u < v, ~(Inside(t, u) /\ Inside(t, v)), Inside(t, u) \/ Inside(t, v)
      PROVE  Lt(b[x], b[y])
  <2>1. \/ \E p \in S : Inside(p, u) /\ Inside(p, v)
        \/ Lt(a[u], a[v])
        \/ Free(S, u) /\ Free(S, v)
    BY <1>5, <1>8 DEF Ordered
  <2>2. ~(\E p \in S : Inside(p, u) /\ Inside(p, v))
    BY <1>4, <1>5, <1>8
  <2>3. ~(Free(S, u) /\ Free(S, v))
    BY <1>8 DEF Free
  <2> QED
    BY <1>5, <2>1, <2>2, <2>3
<1>9. CASE Inside(t, x) /\ ~Inside(t, y)
  <2>1. Inside(t, u) /\ v = y
    BY <1>2, <1>9
  <2>2. u < v
    BY <1>3, <1>5, <1>9, <2>1 DEF Inside
  <2> QED
    BY <1>8, <1>9, <2>1, <2>2
<1>10. CASE ~Inside(t, x) /\ Inside(t, y)
  <2>1. Inside(t, v) /\ u = x
    BY <1>2, <1>10
  <2>2. u < v
    BY <1>3, <1>5, <1>10, <2>1 DEF Inside
  <2> QED
    BY <1>8, <1>10, <2>1, <2>2
<1> QED
  BY <1>6, <1>7, <1>9, <1>10

\* A span is replaced by spans of it, and keys of it that none of these holds
\* both of are in order.
LEMMA OrderedSplit ==
  ASSUME NEW a, NEW S, SpansApart(S), Ordered(a, S), Len(a) \in Nat,
         \A p \in S : p.l \in Nat /\ p.r \in Nat, NEW t \in S, NEW T,
         \A q \in T : \A k \in 1 .. Len(a) : Inside(q, k) => Inside(t, k),
         \A i, j \in 1 .. Len(a) : i < j /\ Inside(t, i) /\ Inside(t, j) =>
           \/ \E q \in T : Inside(q, i) /\ Inside(q, j)
           \/ Lt(a[i], a[j])
           \/ a[i] = a[j] /\ Free(T, i) /\ Free(T, j)
  PROVE  Ordered(a, (S \ {t}) \cup T)
<1> DEFINE R == (S \ {t}) \cup T
<1>1. \A p \in S, k \in 1 .. Len(a) : Inside(p, k) /\ Inside(t, k) => p = t
  BY DEF SpansApart, Disjoint, Inside
<1>2. ASSUME NEW x \in 1 .. Len(a), NEW y \in 1 .. Len(a), x < y
      PROVE  \/ \E p \in R : Inside(p, x) /\ Inside(p, y)
             \/ Lt(a[x], a[y])
             \/ a[x] = a[y] /\ Free(R, x) /\ Free(R, y)
  <2>1. CASE Inside(t, x) /\ Inside(t, y)
    <3>1. \/ \E q \in T : Inside(q, x) /\ Inside(q, y)
          \/ Lt(a[x], a[y])
          \/ a[x] = a[y] /\ Free(T, x) /\ Free(T, y)
      BY <1>2, <2>1
    <3>2. Free(S \ {t}, x) /\ Free(S \ {t}, y)
      BY <1>1, <2>1 DEF Free
    <3> QED
      BY <3>1, <3>2 DEF Free
  <2>2. CASE ~(Inside(t, x) /\ Inside(t, y))
    <3>1. \/ \E q \in S : Inside(q, x) /\ Inside(q, y)
          \/ Lt(a[x], a[y])
          \/ a[x] = a[y] /\ Free(S, x) /\ Free(S, y)
      BY <1>2 DEF Ordered
    <3>2. ASSUME NEW k \in 1 .. Len(a), Free(S, k)
          PROVE  Free(R, k)
      BY <3>2 DEF Free
    <3>3. ASSUME NEW q \in S, Inside(q, x), Inside(q, y)
          PROVE  q \in R
      BY <2>2, <3>3
    <3> QED
      BY <3>1, <3>2, <3>3
  <2> QED
    BY <2>1, <2>2
<1> QED
  BY <1>2 DEF Ordered

\* A place that a span is replaced at is free if none of the new ones holds it.
LEMMA FreeSplit ==
  ASSUME NEW n \in Nat, NEW S, SpansApart(S),
         \A p \in S : p.l \in Nat /\ p.r \in Nat, NEW t \in S, NEW T,
         \A q \in T : \A k \in 1 .. n : Inside(q, k) => Inside(t, k), NEW k \in 1 .. n
  PROVE  Free((S \ {t}) \cup T, k) <=> Free(S, k) \/ (Inside(t, k) /\ Free(T, k))
<1>1. \A p \in S : Inside(p, k) /\ Inside(t, k) => p = t
  BY DEF SpansApart, Disjoint, Inside
<1> QED
  BY <1>1 DEF Free

\* A key that has been dealt with is none of those of a span.
LEMMA FreeKeysDiffer ==
  ASSUME NEW a \in Seq(Texts), NEW S, Ordered(a, S), NEW t \in S,
         NEW i \in 1 .. Len(a), NEW j \in 1 .. Len(a), Free(S, i), Inside(t, j)
  PROVE  a[i] # a[j]
<1>1. ~Free(S, j)
  BY DEF Free
<1>2. i # j
  BY <1>1
<1>3. i \in Nat /\ j \in Nat
  OBVIOUS
<1>4. ~(\E p \in S : Inside(p, i) /\ Inside(p, j)) /\ ~(\E p \in S : Inside(p, j) /\ Inside(p, i))
  BY DEF Free
<1>5. Lt(a[i], a[j]) \/ Lt(a[j], a[i])
  <2>1. CASE i < j
    BY <1>1, <1>4, <2>1 DEF Ordered
  <2>2. CASE j < i
    BY <1>1, <1>4, <2>2 DEF Ordered
  <2> QED
    BY <1>2, <1>3, <2>1, <2>2
<1>6. a[i] \in Seq(Nat)
  BY SortAssumption
<1>7. ~Lt(a[i], a[i])
  BY <1>6, LtIrreflexive
<1> QED
  BY <1>5, <1>7
-----------------------------------------------------------------------------
(* The spans of the frames.                                                *)

\* A span is that of a frame or of a call to come.
LEMMA SpanOfSegment ==
  ASSUME IInv, NEW f \in DOMAIN frames, NEW p \in SpansOf(frames[f])
  PROVE  /\ p.l \in Nat /\ p.r \in Nat /\ 1 <= p.l /\ p.r <= Len(arr) + 1 /\ p.r - p.l > 1
         /\ \/ p.l = frames[f].l /\ p.r = frames[f].r
            \/ \E c \in DOMAIN frames[f].calls :
                 p.l = frames[f].calls[c].l /\ p.r = frames[f].calls[c].r
         /\ p = [l |-> p.l, r |-> p.r]
<1>1. p.r - p.l > 1 /\ (p = Span(frames[f]) \/
                        \E c \in DOMAIN frames[f].calls : p = Span(frames[f].calls[c]))
  BY DEF SpansOf
<1>2. /\ frames[f].l \in Nat /\ frames[f].r \in Nat
      /\ 1 <= frames[f].l /\ frames[f].r <= Len(arr) + 1
      /\ \A c \in DOMAIN frames[f].calls :
           /\ frames[f].calls[c].l \in Nat /\ frames[f].calls[c].r \in Nat
           /\ 1 <= frames[f].calls[c].l /\ frames[f].calls[c].r <= Len(arr) + 1
  BY SegmentsTyped
<1>3. CASE p = Span(frames[f])
  <2>1. p.l = frames[f].l /\ p.r = frames[f].r /\ p = [l |-> p.l, r |-> p.r]
    BY <1>3 DEF Span
  <2> QED
    BY <1>1, <1>2, <2>1
<1>4. ASSUME NEW c \in DOMAIN frames[f].calls, p = Span(frames[f].calls[c])
      PROVE  /\ p.l = frames[f].calls[c].l /\ p.r = frames[f].calls[c].r
             /\ p = [l |-> p.l, r |-> p.r]
  BY <1>4 DEF Span
<1>5. CASE \E c \in DOMAIN frames[f].calls : p = Span(frames[f].calls[c])
  <2>1. PICK c \in DOMAIN frames[f].calls : p = Span(frames[f].calls[c])
    BY <1>5
  <2>2. /\ p.l = frames[f].calls[c].l /\ p.r = frames[f].calls[c].r
        /\ p = [l |-> p.l, r |-> p.r]
    BY <1>4, <2>1
  <2> QED
    BY <1>1, <1>2, <2>2
<1> QED
  BY <1>1, <1>3, <1>5

\* Where spans lie.
LEMMA SpansTyped ==
  ASSUME IInv, NEW p \in Spans
  PROVE  /\ p.l \in Nat /\ p.r \in Nat /\ 1 <= p.l /\ p.r <= Len(arr) + 1 /\ p.r - p.l > 1
         /\ p = [l |-> p.l, r |-> p.r]
<1>1. PICK f \in DOMAIN frames : p \in SpansOf(frames[f])
  BY DEF Spans
<1> QED
  BY <1>1, SpanOfSegment

\* The spans of two frames do not overlap.
LEMMA SpansOfTwo ==
  ASSUME IInv, AInv, NEW f \in DOMAIN frames, NEW g \in DOMAIN frames, f < g,
         NEW p \in SpansOf(frames[f]), NEW q \in SpansOf(frames[g])
  PROVE  Disjoint(p, q) /\ Disjoint(q, p) /\ p # q
<1>1. FramesApart(frames[f], frames[g])
  BY DEF AInv, AllApart
<1>2. \/ p.l = frames[f].l /\ p.r = frames[f].r
      \/ \E c \in DOMAIN frames[f].calls :
           p.l = frames[f].calls[c].l /\ p.r = frames[f].calls[c].r
  BY SpanOfSegment
<1>3. \/ q.l = frames[g].l /\ q.r = frames[g].r
      \/ \E c \in DOMAIN frames[g].calls :
           q.l = frames[g].calls[c].l /\ q.r = frames[g].calls[c].r
  BY SpanOfSegment
<1>4. p.l \in Nat /\ p.r \in Nat /\ q.l \in Nat /\ q.r \in Nat /\ p.r - p.l > 1
      /\ q.r - q.l > 1
  BY SpanOfSegment
<1>5. Disjoint(p, q)
  BY <1>1, <1>2, <1>3 DEF FramesApart, FreeOf, Disjoint
<1> QED
  BY <1>4, <1>5 DEF Disjoint

\* The segments that are still to be sorted do not overlap.
LEMMA SpansAreApart ==
  ASSUME IInv, AInv
  PROVE  SpansApart(Spans)
<1> SUFFICES ASSUME NEW p \in Spans, NEW q \in Spans, p # q
             PROVE  Disjoint(p, q)
  BY DEF SpansApart
<1>1. PICK f \in DOMAIN frames : p \in SpansOf(frames[f])
  BY DEF Spans
<1>2. PICK g \in DOMAIN frames : q \in SpansOf(frames[g])
  BY DEF Spans
<1>3. f \in Nat /\ g \in Nat
  BY DEF IInv, SortTypeOK
<1>4. CASE f = g
  <2>1. Apart(frames[f])
    BY DEF AInv, AllApart
  <2>2. \/ p.l = frames[f].l /\ p.r = frames[f].r
        \/ \E c \in DOMAIN frames[f].calls :
             p.l = frames[f].calls[c].l /\ p.r = frames[f].calls[c].r
    BY <1>1, SpanOfSegment
  <2>3. \/ q.l = frames[f].l /\ q.r = frames[f].r
        \/ \E c \in DOMAIN frames[f].calls :
             q.l = frames[f].calls[c].l /\ q.r = frames[f].calls[c].r
    BY <1>2, <1>4, SpanOfSegment
  <2>4. p.l # q.l \/ p.r # q.r
    <3>1. p = [l |-> p.l, r |-> p.r] /\ q = [l |-> q.l, r |-> q.r]
      BY SpansTyped
    <3> QED
      BY <3>1
  <2>5. \A c, d \in DOMAIN frames[f].calls : c \in Nat /\ d \in Nat
    BY SegmentsTyped
  <2>6. \A c, d \in DOMAIN frames[f].calls : c # d => c < d \/ d < c
    BY <2>5
  <2> QED
    BY <2>1, <2>2, <2>3, <2>4, <2>6 DEF Apart, Disjoint
<1>5. CASE f # g
  <2>1. f < g \/ g < f
    BY <1>3, <1>5
  <2> QED
    BY <1>1, <1>2, <2>1, SpansOfTwo
<1> QED
  BY <1>4, <1>5

\* The spans of the frames below the one on top.
Below == UNION {SpansOf(frames[f]) : f \in 1 .. Len(frames) - 1}

\* They are apart from those of the frame on top.
LEMMA SpansSplit ==
  ASSUME IInv, AInv, pc # "done"
  PROVE  /\ Spans = Below \cup SpansOf(top)
         /\ \A p \in Below, q \in SpansOf(top) : p # q
<1>1. Len(frames) \in Nat \ {0} /\ DOMAIN frames = 1 .. Len(frames) /\ top = frames[Len(frames)]
      /\ Len(frames) \in DOMAIN frames
  BY TopFacts DEF IInv, SortTypeOK, top
<1>2. \A f \in DOMAIN frames : f \in 1 .. Len(frames) - 1 \/ f = Len(frames)
  BY <1>1
<1>3. \A f \in 1 .. Len(frames) - 1 : f \in DOMAIN frames /\ f < Len(frames)
  BY <1>1
<1>4. Spans = Below \cup SpansOf(top)
  BY <1>1, <1>2, <1>3 DEF Spans, Below
<1>5. ASSUME NEW p \in Below, NEW q \in SpansOf(top)
      PROVE  p # q
  <2>1. PICK f \in 1 .. Len(frames) - 1 : p \in SpansOf(frames[f])
    BY DEF Below
  <2> QED
    BY <1>1, <1>3, <2>1, SpansOfTwo
<1> QED
  BY <1>4, <1>5

\* While a segment is sorted it is the one span of its frame.
LEMMA TopSpan ==
  ASSUME IInv, AInv, AtWork, pc \in {"left", "right", "exchange", "back", "insert"}
  PROVE  /\ SpansOf(top) = {Span(top)} /\ Spans = Below \cup {Span(top)}
         /\ Span(top) \notin Below /\ Span(top) \in Spans
         /\ Below = Spans \ {Span(top)}
         /\ Span(top).l = top.l /\ Span(top).r = top.r
<1>1. top.calls = <<>> /\ Size(top) > 1
  BY DEF AtWork
<1>2. DOMAIN top.calls = {}
  BY <1>1
<1>3. Span(top).l = top.l /\ Span(top).r = top.r
  BY DEF Span
<1>4. SpansOf(top) = {Span(top)}
  BY <1>1, <1>2, <1>3 DEF SpansOf, Size
<1> QED
  BY <1>3, <1>4, SpansSplit
-----------------------------------------------------------------------------
(* Swaps.                                                                  *)

\* A swap neither loses nor doubles a key.
LEMMA SwapCounts ==
  ASSUME NEW a \in Seq(Texts), NEW i \in 1 .. Len(a), NEW j \in 1 .. Len(a), NEW t
  PROVE  Cardinality(PlacesOf(Swapped(a, i, j), t)) = Cardinality(PlacesOf(a, t))
<1> DEFINE b == Swapped(a, i, j)
           From(k) == IF k = j THEN i ELSE IF k = i THEN j ELSE k
           A == {k \in 1 .. Len(a) : a[k] = t}
           B == {k \in 1 .. Len(a) : b[k] = t}
           f == [k \in A |-> From(k)]
<1>1. Len(b) = Len(a) /\ \A k \in 1 .. Len(a) : b[k] = a[From(k)]
  <2>1. Len(b) = Len(a)
    BY SwappedAt
  <2>2. ASSUME NEW k \in 1 .. Len(a)
        PROVE  b[k] = IF k = j THEN a[i] ELSE IF k = i THEN a[j] ELSE a[k]
    BY SwappedAt
  <2> HIDE DEF b
  <2> QED
    BY <2>1, <2>2
<1>2. DOMAIN a = 1 .. Len(a) /\ DOMAIN b = 1 .. Len(a)
  BY <1>1, SwappedFacts
<1>3. \A k \in 1 .. Len(a) : From(k) \in 1 .. Len(a) /\ From(From(k)) = k
  OBVIOUS
<1> HIDE DEF b, From
<1>4. f \in [A -> B]
  <2>1. \A k \in A : From(k) \in B
    BY <1>1, <1>3
  <2> QED
    BY <2>1
<1>5. \A k, m \in A : f[k] = f[m] => k = m
  <2>1. \A k \in A : k = From(f[k])
    BY <1>3
  <2> HIDE DEF f
  <2> QED
    BY <2>1
<1>6. \A m \in B : \E k \in A : f[k] = m
  <2> SUFFICES ASSUME NEW m \in B
               PROVE  \E k \in A : f[k] = m
    OBVIOUS
  <2>1. From(m) \in A /\ From(From(m)) = m
    BY <1>1, <1>3
  <2>2. f[From(m)] = m
    BY <2>1
  <2> QED
    BY <2>1, <2>2
<1>7. IsFiniteSet(A)
  <2>1. IsFiniteSet(1 .. Len(a))
    BY FS_Interval
  <2>2. A \in SUBSET (1 .. Len(a))
    OBVIOUS
  <2> HIDE DEF A
  <2> QED
    BY <2>1, <2>2, FS_Subset
<1> HIDE DEF f, A, B
<1>8. ExistsBijection(A, B)
  <2>1. f \in Bijection(A, B)
    BY <1>4, <1>5, <1>6 DEF Bijection, Injection, Surjection, IsInjective
  <2> QED
    BY <2>1 DEF ExistsBijection
<1>9. Cardinality(B) = Cardinality(A)
  BY <1>7, <1>8, FS_Bijection
<1> QED
  BY <1>2, <1>9 DEF A, B, b, PlacesOf

\* The frames stay as they are, and so do the segments.
LEMMA SpansStay ==
  ASSUME frames' = frames
  PROVE  Spans' = Spans /\ top' = top
BY DEF Spans, top

\* What the swap of two keys of the segment being sorted does not touch.
LEMMA SwapInTop ==
  ASSUME IInv, AInv, CInv, pc \in {"left", "right", "exchange", "back", "insert"},
         frames' = frames, given' = given,
         NEW i \in top.l .. top.r - 1, NEW j \in top.l .. top.r - 1,
         arr' = Swapped(arr, i, j)
  PROVE  /\ Ordered(arr', Spans) /\ SameKeys(arr', given') /\ Len(arr') = Len(arr)
         /\ \A k \in 1 .. Len(arr) : Free(Spans, k) => arr'[k] = arr[k]
         /\ \A d \in Int : (\E k \in top.l .. top.r - 1 : Label(arr[k], top.depth) = d) =>
                           (\E k \in top.l .. top.r - 1 : Label(arr'[k], top.depth) = d)
<1>1. /\ top.l \in Nat /\ top.r \in Nat /\ 1 <= top.l /\ top.r <= Len(arr) + 1
      /\ Len(arr) \in Nat /\ arr \in Seq(Texts)
  BY TopFacts DEF IInv, SortTypeOK
<1>2. Span(top) \in Spans /\ Span(top).l = top.l /\ Span(top).r = top.r
  BY TopSpan DEF CInv
<1>3. /\ i \in 1 .. Len(arr) /\ j \in 1 .. Len(arr) /\ i \in Nat /\ j \in Nat
      /\ Inside(Span(top), i) /\ Inside(Span(top), j)
  BY <1>1, <1>2 DEF Inside
<1>4. Ordered(arr', Spans)
  <2>1. \A p \in Spans : p.l \in Nat /\ p.r \in Nat
    BY SpansTyped
  <2>2. SpansApart(Spans) /\ Ordered(arr, Spans)
    BY SpansAreApart DEF CInv
  <2> HIDE DEF Spans
  <2> QED
    BY <1>1, <1>2, <1>3, <2>1, <2>2, OrderedSwap
<1>5. SameKeys(arr', given')
  <2>1. SameKeys(arr, given)
    BY DEF CInv
  <2>2. ASSUME NEW t \in Texts
        PROVE  Cardinality(PlacesOf(arr', t)) = Cardinality(PlacesOf(given', t))
    <3>1. Cardinality(PlacesOf(Swapped(arr, i, j), t)) = Cardinality(PlacesOf(arr, t))
      BY <1>1, <1>3, SwapCounts
    <3>2. Cardinality(PlacesOf(arr, t)) = Cardinality(PlacesOf(given, t))
      BY <2>1 DEF SameKeys
    <3> QED
      BY <3>1, <3>2
  <2> QED
    BY <2>2 DEF SameKeys
<1>6. Len(arr') = Len(arr) /\ \A k \in 1 .. Len(arr) :
        arr'[k] = IF k = j THEN arr[i] ELSE IF k = i THEN arr[j] ELSE arr[k]
  <2>1. Len(Swapped(arr, i, j)) = Len(arr) /\ \A k \in 1 .. Len(arr) :
         Swapped(arr, i, j)[k] = IF k = j THEN arr[i] ELSE IF k = i THEN arr[j] ELSE arr[k]
    <3>1. Len(Swapped(arr, i, j)) = Len(arr)
      BY <1>1, <1>3, SwappedAt
    <3>2. ASSUME NEW k \in 1 .. Len(arr)
          PROVE  Swapped(arr, i, j)[k] =
                   IF k = j THEN arr[i] ELSE IF k = i THEN arr[j] ELSE arr[k]
      BY <1>1, <1>3, SwappedAt
    <3> QED
      BY <3>1, <3>2
  <2> QED
    BY <2>1
<1>7. ASSUME NEW k \in 1 .. Len(arr), Free(Spans, k)
      PROVE  arr'[k] = arr[k]
  <2>1. k # i /\ k # j
    BY <1>2, <1>3, <1>7 DEF Free
  <2> QED
    BY <1>6, <2>1
<1>8. ASSUME NEW k \in top.l .. top.r - 1
      PROVE  \E m \in top.l .. top.r - 1 : arr'[m] = arr[k]
  <2>1. \A m \in top.l .. top.r - 1 : m \in 1 .. Len(arr)
    BY <1>1
  <2>2. CASE k = i
    <3>1. arr'[j] = arr[k]
      BY <1>3, <1>6, <2>2
    <3> QED
      BY <3>1
  <2>3. CASE k = j /\ k # i
    <3>1. arr'[i] = arr[k]
      BY <1>3, <1>6, <2>3
    <3> QED
      BY <3>1
  <2>4. CASE k # i /\ k # j
    <3>1. arr'[k] = arr[k]
      BY <1>6, <2>1, <2>4
    <3> QED
      BY <3>1
  <2> QED
    BY <2>2, <2>3, <2>4
<1> QED
  BY <1>4, <1>5, <1>6, <1>7, <1>8

\* Keys that have been counted are counted as before.
LEMMA CountsStay ==
  ASSUME CountsKeys, count' = count, Spans' = Spans, Len(arr') = Len(arr), Len(arr) \in Nat,
         \A k \in 1 .. Len(arr) : Free(Spans, k) => arr'[k] = arr[k],
         pc # "insert", pc' # "insert"
  PROVE  CountsKeys'
<1> DEFINE C == {k \in 1 .. Len(arr) : Free(Spans, k)}
<1>1. CountedPlaces = C /\ CountedPlaces' = C
  BY DEF CountedPlaces
<1>2. KeysAt(arr', C) = KeysAt(arr, C)
  BY DEF KeysAt
<1> HIDE DEF C
<1> QED
  BY <1>1, <1>2 DEF CountsKeys

\* The scans keep it.
LEMMA ScansKeepCounts ==
  ASSUME IInv, AInv, CInv,
         ScanLeft \/ ScanRight \/ Exchange \/ BackLeft \/ BackRight \/ Meet
  PROVE  CInv'
<1>1. /\ pc \in {"left", "right", "exchange", "back"} /\ frames' = frames
      /\ pc' \in {"left", "right", "exchange", "back"} /\ given' = given
      /\ count' = count /\ pivot' = pivot
  BY DEF ScanLeft, ScanRight, Exchange, BackLeft, BackRight, Meet, scan
<1>2. /\ top.l \in Nat /\ top.r \in Nat /\ pivot \in Int /\ Len(arr) \in Nat
      /\ pl \in Nat /\ pr \in Nat /\ pivotL \in Nat /\ pivotR \in Nat
      /\ top.l <= pivotL /\ pivotL <= pl /\ pl <= pr /\ pr <= pivotR /\ pivotR <= top.r
  BY <1>1, ScanFacts
<1>3. Spans' = Spans /\ top' = top
  BY <1>1, SpansStay
<1>4. AtWork' /\ Inserting' /\ pc' # "done"
  BY <1>1, <1>3 DEF CInv, AtWork, Inserting, Size
<1>5. ASSUME /\ Ordered(arr', Spans) /\ SameKeys(arr', given') /\ Len(arr') = Len(arr)
             /\ \A k \in 1 .. Len(arr) : Free(Spans, k) => arr'[k] = arr[k]
             /\ \A d \in Int :
                  (\E k \in top.l .. top.r - 1 : Label(arr[k], top.depth) = d) =>
                  (\E k \in top.l .. top.r - 1 : Label(arr'[k], top.depth) = d)
      PROVE  CInv'
  <2>1. CountsKeys'
    BY <1>1, <1>2, <1>3, <1>5, CountsStay DEF CInv
  <2>2. PivotThere'
    BY <1>1, <1>2, <1>3, <1>5 DEF CInv, PivotThere
  <2> QED
    BY <1>3, <1>4, <1>5, <2>1, <2>2 DEF CInv
<1>6. ASSUME NEW i \in top.l .. top.r - 1, NEW j \in top.l .. top.r - 1,
             arr' = Swapped(arr, i, j)
      PROVE  CInv'
  BY <1>1, <1>5, <1>6, SwapInTop
<1>7. CASE UNCHANGED arr
  BY <1>1, <1>5, <1>7 DEF CInv
<1>8. CASE ScanLeft
  <2>1. pl \in top.l .. top.r - 1 /\ pivotL \in top.l .. top.r - 1
    BY <1>2, <1>8 DEF ScanLeft, Met
  <2> QED
    BY <1>6, <1>7, <1>8, <2>1 DEF ScanLeft
<1>9. CASE ScanRight
  <2>1. pr - 1 \in top.l .. top.r - 1 /\ pivotR - 1 \in top.l .. top.r - 1
    BY <1>2, <1>9 DEF ScanRight, Met
  <2> QED
    BY <1>6, <1>7, <1>9, <2>1 DEF ScanRight
<1>10. CASE Exchange
  <2>1. pl < pr /\ pr < pivotR
    BY <1>10 DEF Exchange, IInv, ScanFits
  <2>2. pl \in top.l .. top.r - 1 /\ pr \in top.l .. top.r - 1
    BY <1>2, <2>1
  <2> QED
    BY <1>6, <1>10, <2>2 DEF Exchange
<1>11. CASE BackLeft
  <2>1. pivotL - 1 \in top.l .. top.r - 1 /\ pl - 1 \in top.l .. top.r - 1
    BY <1>2, <1>11 DEF BackLeft
  <2> QED
    BY <1>6, <1>11, <2>1 DEF BackLeft
<1>12. CASE BackRight
  <2>1. pivotR \in top.l .. top.r - 1 /\ pr \in top.l .. top.r - 1
    BY <1>2, <1>12 DEF BackRight
  <2> QED
    BY <1>6, <1>12, <2>1 DEF BackRight
<1>13. CASE Meet
  BY <1>7, <1>13 DEF Meet
<1> QED
  BY <1>8, <1>9, <1>10, <1>11, <1>12, <1>13
-----------------------------------------------------------------------------
(* Rounds begin, calls are made and return.                                *)

\* A median is one of the three.
LEMMA MedianOfThree ==
  ASSUME NEW x, NEW y, NEW z
  PROVE  Median(x, y, z) \in {x, y, z}
BY DEF Median

\* A segment that is partitioned has a key whose label is the pivot.
LEMMA PartitionKeepsCounts ==
  ASSUME IInv, AInv, CInv, Partition
  PROVE  CInv'
<1>1. /\ pc = "loop" /\ pc' = "left" /\ frames' = frames /\ arr' = arr /\ given' = given
      /\ count' = count /\ top.calls = <<>> /\ Size(top) > Threshold
  BY DEF Partition
<1>2. /\ top.l \in Nat /\ top.r \in Nat /\ Threshold \in Nat \ {0} /\ Len(arr) \in Nat
      /\ top.l <= top.r
  BY <1>1, TopFacts, SortAssumption DEF IInv
<1>3. Spans' = Spans /\ top' = top
  BY <1>1, SpansStay
<1>4. PivotThere'
  <2> DEFINE At(i) == Label(arr[i], top.depth)
             half == top.l + Size(top) \div 2
  <2>1. pivot' = Median(At(top.l), At(half), At(top.r - 1))
    BY DEF Partition
  <2>2. /\ top.l \in top.l .. top.r - 1 /\ half \in top.l .. top.r - 1
        /\ top.r - 1 \in top.l .. top.r - 1
    BY <1>1, <1>2 DEF Size
  <2> HIDE DEF At, half
  <2>3. pivot' \in {At(top.l), At(half), At(top.r - 1)}
    BY <2>1, MedianOfThree
  <2>4. \E i \in top.l .. top.r - 1 : At(i) = pivot'
    BY <2>2, <2>3
  <2> QED
    BY <1>1, <1>3, <2>4 DEF PivotThere, At
<1>5. AtWork'
  BY <1>1, <1>2, <1>3 DEF AtWork, Size
<1>6. CountsKeys'
  BY <1>1, <1>2, <1>3, CountsStay DEF CInv
<1>7. Inserting'
  BY <1>1 DEF Inserting
<1> QED
  BY <1>1, <1>3, <1>4, <1>5, <1>6, <1>7 DEF CInv

\* A call takes its segment off the list: there are the same segments.
LEMMA CallSpans ==
  ASSUME IInv, AInv, Call
  PROVE  Spans' = Spans
<1> DEFINE n == Len(frames)
           s == Head(top.calls)
           N == frames'[n]
           M == frames'[n + 1]
<1>1. pc # "done" /\ top.calls # <<>>
  BY DEF Call
<1>2. n \in Nat \ {0} /\ n \in DOMAIN frames /\ top = frames[n] /\ top \in Frames
      /\ DOMAIN frames = 1 .. n
  BY <1>1, TopFacts DEF IInv, SortTypeOK, top
<1>3. /\ DOMAIN frames' = 1 .. n + 1
      /\ \A f \in 1 .. n - 1 : frames'[f] = frames[f]
      /\ N = [top EXCEPT !.calls = Tail(@)] /\ M = Frame(s)
  BY <1>2, CallFrames
<1>4. /\ top.calls \in Seq(Segments) /\ Len(top.calls) \in Nat \ {0}
      /\ s = top.calls[1] /\ Len(Tail(top.calls)) = Len(top.calls) - 1
      /\ \A c \in 1 .. Len(top.calls) - 1 : Tail(top.calls)[c] = top.calls[c + 1]
  BY <1>1, <1>2 DEF Frames
<1>5. /\ Span(N) = Span(top) /\ N.calls = Tail(top.calls)
      /\ Span(M) = Span(s) /\ M.calls = <<>>
  BY <1>2, <1>3 DEF Frame, Frames, Span
<1> HIDE DEF n, s, N, M
<1>6. DOMAIN N.calls = 1 .. Len(top.calls) - 1 /\ DOMAIN top.calls = 1 .. Len(top.calls)
      /\ DOMAIN M.calls = {}
  BY <1>1, <1>2, <1>4, <1>5 DEF Frames
<1>7. {Span(top.calls[c]) : c \in DOMAIN top.calls} =
      {Span(N.calls[c]) : c \in DOMAIN N.calls} \cup {Span(s)}
  <2>1. ASSUME NEW c \in DOMAIN top.calls
        PROVE  c = 1 \/ (c - 1 \in DOMAIN N.calls /\ N.calls[c - 1] = top.calls[c])
    <3>1. CASE c # 1
      <4>1. c - 1 \in 1 .. Len(top.calls) - 1 /\ c - 1 + 1 = c
        BY <1>4, <1>6, <3>1
      <4> QED
        BY <1>4, <1>5, <1>6, <4>1
    <3> QED
      BY <3>1
  <2>2. ASSUME NEW c \in DOMAIN N.calls
        PROVE  c + 1 \in DOMAIN top.calls /\ N.calls[c] = top.calls[c + 1]
    BY <1>4, <1>5, <1>6
  <2>3. 1 \in DOMAIN top.calls
    BY <1>4, <1>6
  <2> QED
    BY <1>4, <2>1, <2>2, <2>3
<1>8. SpansOf(top) = SpansOf(N) \cup SpansOf(M)
  <2>1. {Span(M.calls[c]) : c \in DOMAIN M.calls} = {}
    BY <1>6
  <2> QED
    BY <1>5, <1>7, <2>1 DEF SpansOf
<1>9. /\ \A f \in 1 .. n + 1 : f \in 1 .. n - 1 \/ f = n \/ f = n + 1
      /\ \A f \in 1 .. n : f \in 1 .. n - 1 \/ f = n
      /\ 1 .. n - 1 \subseteq 1 .. n + 1 /\ n \in 1 .. n + 1 /\ n + 1 \in 1 .. n + 1
      /\ 1 .. n - 1 \subseteq 1 .. n /\ n \in 1 .. n
  BY <1>2
<1> DEFINE low == UNION {SpansOf(frames[f]) : f \in 1 .. n - 1}
<1>10. Spans = low \cup SpansOf(top)
  BY <1>2, <1>9 DEF Spans
<1>11. Spans' = low \cup SpansOf(N) \cup SpansOf(M)
  <2>1. Spans' = UNION {SpansOf(frames'[f]) : f \in 1 .. n + 1}
    BY <1>3 DEF Spans
  <2>2. \A f \in 1 .. n - 1 : SpansOf(frames'[f]) = SpansOf(frames[f])
    BY <1>3
  <2> QED
    BY <1>9, <2>1, <2>2 DEF N, M
<1> QED
  BY <1>8, <1>10, <1>11

LEMMA CallKeepsCounts ==
  ASSUME IInv, AInv, CInv, Call
  PROVE  CInv'
<1>1. pc = "loop" /\ pc' = "loop" /\ arr' = arr /\ given' = given /\ count' = count
  BY DEF Call
<1>2. Len(arr) \in Nat
  BY DEF IInv, SortTypeOK
<1>3. Spans' = Spans
  BY CallSpans
<1>4. CountsKeys'
  BY <1>1, <1>2, <1>3, CountsStay DEF CInv
<1> QED
  BY <1>1, <1>3, <1>4 DEF CInv, PivotThere, AtWork, Inserting

\* A return leaves the spans of the frames below.
LEMMA ReturnSpans ==
  ASSUME IInv, AInv, CInv, Return
  PROVE  /\ Spans' = Below
         /\ pc = "loop" => Spans = Below
<1>1. DOMAIN frames' = 1 .. Len(frames) - 1
      /\ \A f \in 1 .. Len(frames) - 1 : frames'[f] = frames[f]
  BY ReturnFrames
<1>2. Spans' = Below
  BY <1>1 DEF Spans, Below
<1>3. CASE pc = "loop"
  <2>1. top.calls = <<>> /\ Size(top) <= 1
    BY <1>3 DEF Return
  <2>2. top.l \in Nat /\ top.r \in Nat
    BY <1>3, TopFacts DEF IInv
  <2>3. DOMAIN top.calls = {}
    BY <2>1
  <2>4. SpansOf(top) = {}
    BY <2>1, <2>2, <2>3 DEF SpansOf, Span, Size
  <2> QED
    BY <1>2, <1>3, <2>4, SpansSplit
<1> QED
  BY <1>2, <1>3
-----------------------------------------------------------------------------
(* The insertion sort.                                                     *)

\* The keys of the segment that is sorted.
LEMMA TopAlike ==
  ASSUME IInv, AInv, pc # "done",
         NEW i \in top.l .. top.r - 1, NEW j \in top.l .. top.r - 1
  PROVE  /\ arr[i] \in Seq(Nat) /\ arr[j] \in Seq(Nat) /\ top.depth \in Nat
         /\ AlikeTo(arr[i], arr[j], top.depth)
         /\ i \in 1 .. Len(arr) /\ i \in Nat
<1>1. /\ top.l \in Nat /\ top.r \in Nat /\ top.depth \in Nat /\ 1 <= top.l
      /\ top.r <= Len(arr) + 1 /\ Len(arr) \in Nat /\ Len(frames) \in DOMAIN frames
      /\ arr \in Seq(Texts)
  BY TopFacts DEF IInv, SortTypeOK
<1>2. i \in 1 .. Len(arr) /\ j \in 1 .. Len(arr) /\ i \in Nat
  BY <1>1
<1>3. arr[i] \in Seq(Nat) /\ arr[j] \in Seq(Nat)
  <2>1. arr[i] \in Texts /\ arr[j] \in Texts
    BY <1>1, <1>2
  <2> QED
    BY <2>1, SortAssumption
<1>4. Alike(arr, top)
  BY <1>1 DEF AInv, AllAlike, top
<1> QED
  BY <1>1, <1>2, <1>3, <1>4 DEF Alike, AlikeTo

LEMMA NotOne ==
  ASSUME NEW n \in Nat, n > 1
  PROVE  n # 1
OBVIOUS

\* What a step of the insertion sort may rely on.
LEMMA InsertFacts ==
  ASSUME IInv, AInv, CInv, pc = "insert"
  PROVE  /\ top.l \in Nat /\ top.r \in Nat /\ Len(arr) \in Nat /\ at \in Nat /\ down \in Nat
         /\ 1 <= top.l /\ top.r <= Len(arr) + 1 /\ top.r - top.l > 1 /\ Len(arr) > 1
         /\ top.l < at /\ at <= top.r /\ top.l <= down /\ down <= at
         /\ arr \in Seq(Texts) /\ count = Cardinality(KeysAt(arr, CountedPlaces))
<1>1. /\ top.l \in Nat /\ top.r \in Nat /\ Len(arr) \in Nat /\ 1 <= top.l
      /\ top.r <= Len(arr) + 1 /\ arr \in Seq(Texts) /\ at \in Nat /\ down \in Nat
  BY TopFacts DEF IInv, SortTypeOK
<1>2. top.r - top.l > 1
  BY DEF CInv, AtWork, Size
<1>3. top.l < at /\ at <= top.r /\ top.l <= down /\ down <= at
  BY DEF IInv, ScanFits
<1>4. Len(arr) > 1
  BY <1>1, <1>2
<1>5. count = Cardinality(KeysAt(arr, CountedPlaces))
  <2>1. Len(arr) # 1
    BY <1>1, <1>4, NotOne
  <2> QED
    BY <2>1 DEF CInv, CountsKeys
<1> QED
  BY <1>1, <1>2, <1>3, <1>4, <1>5

\* The keys at some places are finitely many.
LEMMA KeysFinite ==
  ASSUME NEW a, NEW n \in Nat, NEW C \in SUBSET (1 .. n)
  PROVE  IsFiniteSet(KeysAt(a, C)) /\ Cardinality(KeysAt(a, C)) \in Nat
<1> DEFINE K == {a[i] : i \in C}
           f == [i \in C |-> a[i]]
<1>1. IsFiniteSet(C)
  <2>1. IsFiniteSet(1 .. n)
    BY FS_Interval
  <2> QED
    BY <2>1, FS_Subset
<1>2. f \in [C -> K] /\ \A k \in K : \E i \in C : f[i] = k
  OBVIOUS
<1> HIDE DEF f, K
<1>3. f \in Surjection(C, K)
  BY <1>2 DEF Surjection
<1>4. IsFiniteSet(K)
  BY <1>1, <1>3, FS_Surjection
<1>5. IsFiniteSet(K) /\ Cardinality(K) \in Nat
  BY <1>4, FS_CardinalityType
<1> QED
  BY <1>5 DEF K, KeysAt

\* One more key is counted, if it is another one.
LEMMA OneMoreKey ==
  ASSUME NEW a, NEW n \in Nat, NEW C \in SUBSET (1 .. n), NEW i \in 1 .. n
  PROVE  Cardinality(KeysAt(a, C \cup {i})) =
           Cardinality(KeysAt(a, C)) + (IF a[i] \in KeysAt(a, C) THEN 0 ELSE 1)
<1> DEFINE K == KeysAt(a, C)
<1>1. IsFiniteSet(K) /\ Cardinality(K) \in Nat
  BY KeysFinite
<1>2. KeysAt(a, C \cup {i}) = K \cup {a[i]}
  BY DEF KeysAt
<1> HIDE DEF K
<1>3. Cardinality(K \cup {a[i]}) = IF a[i] \in K THEN Cardinality(K) ELSE Cardinality(K) + 1
  BY <1>1, FS_AddElement
<1>4. Cardinality(KeysAt(a, C \cup {i})) = Cardinality(K) + (IF a[i] \in K THEN 0 ELSE 1)
  <2>1. CASE a[i] \in K
    <3>1. Cardinality(KeysAt(a, C \cup {i})) = Cardinality(K)
      BY <1>2, <1>3, <2>1
    <3> QED
      BY <1>1, <2>1, <3>1
  <2>2. CASE a[i] \notin K
    <3>1. Cardinality(KeysAt(a, C \cup {i})) = Cardinality(K) + 1
      BY <1>2, <1>3, <2>2
    <3> QED
      BY <2>2, <3>1
  <2> QED
    BY <2>1, <2>2
<1> QED
  BY <1>4 DEF K

\* The places that are counted while nothing is inserted.
Counted0 == {i \in 1 .. Len(arr) : Free(Spans, i)}

\* When it begins its first key is counted.
LEMMA InsertionKeepsCounts ==
  ASSUME IInv, AInv, CInv, Insertion
  PROVE  CInv'
<1>1. /\ pc = "loop" /\ pc' = "insert" /\ top.calls = <<>> /\ Size(top) > 1
      /\ arr' = arr /\ given' = given /\ frames' = frames /\ count' = count + 1
      /\ at' = top.l + 1 /\ down' = top.l + 1
  <2>1. Size(top) \in 2 .. Threshold
    BY DEF Insertion
  <2>2. Size(top) > 1
    BY <2>1, SortAssumption
  <2> QED
    BY <2>2 DEF Insertion
<1>2. /\ top.l \in Nat /\ top.r \in Nat /\ 1 <= top.l /\ top.r <= Len(arr) + 1
      /\ Len(arr) \in Nat /\ arr \in Seq(Texts) /\ top.r - top.l > 1
  BY <1>1, TopFacts DEF IInv, SortTypeOK, Size
<1>3. Spans' = Spans /\ top' = top
  BY <1>1, SpansStay
<1>4. AtWork' /\ PivotThere'
  BY <1>1, <1>3 DEF AtWork, PivotThere, Size
<1>5. Inserting'
  BY <1>1, <1>2, <1>3 DEF Inserting, Le
<1>6. Span(top) \in Spans /\ Span(top).l = top.l /\ Span(top).r = top.r
  BY <1>1, <1>2, SpansSplit DEF SpansOf, Span
<1>7. CountsKeys'
  <2>1. top.l \in 1 .. Len(arr) /\ Inside(Span(top), top.l) /\ Len(arr) # 1
    <3>1. top.l \in 1 .. Len(arr) /\ Len(arr) # 1 /\ top.l < top.r
      <4>1. top.l \in 1 .. Len(arr) /\ top.l < top.r /\ Len(arr) > 1
        BY <1>2
      <4> QED
        BY <1>2, <4>1, NotOne
    <3> QED
      BY <1>2, <1>6, <3>1 DEF Inside
  <2>2. CountedPlaces = Counted0
    BY <1>1 DEF CountedPlaces, Counted0
  <2>3. CountedPlaces' = Counted0 \cup {top.l}
    <3>1. (top.l .. top.l + 1) \ {top.l + 1} = {top.l}
      BY <1>2
    <3> QED
      BY <1>1, <1>3, <3>1 DEF CountedPlaces, Counted0
  <2>4. \A k \in Counted0 : arr[k] # arr[top.l]
    BY <1>2, <1>6, <2>1, FreeKeysDiffer DEF CInv, Counted0
  <2>5. Counted0 \in SUBSET (1 .. Len(arr))
    BY DEF Counted0
  <2>6. Cardinality(KeysAt(arr, Counted0 \cup {top.l})) =
          Cardinality(KeysAt(arr, Counted0)) + 1
    <3> HIDE DEF Counted0
    <3>1. arr[top.l] \notin KeysAt(arr, Counted0)
      BY <2>4 DEF KeysAt
    <3>2. top.l \in 1 .. Len(arr) /\ Len(arr) \in Nat
      BY <1>2, <2>1
    <3> QED
      BY <2>5, <3>1, <3>2, OneMoreKey
  <2>7. count = Cardinality(KeysAt(arr, Counted0))
    BY <2>1, <2>2 DEF CInv, CountsKeys
  <2> QED
    BY <1>1, <2>1, <2>3, <2>6, <2>7 DEF CountsKeys
<1> QED
  BY <1>1, <1>3, <1>4, <1>5, <1>7 DEF CInv

\* A key that is greater changes places with the one that is inserted.
LEMMA MoveDownKeepsCounts ==
  ASSUME IInv, AInv, CInv, MoveDown
  PROVE  CInv'
<1>1. /\ pc = "insert" /\ pc' = "insert" /\ frames' = frames /\ given' = given
      /\ count' = count /\ at' = at /\ down' = down - 1 /\ at < top.r /\ down > top.l
      /\ arr' = Swapped(arr, down - 1, down)
      /\ Compare(arr[down - 1], arr[down], top.depth) > 0
  BY DEF MoveDown, MustMove
<1>2. /\ top.l \in Nat /\ top.r \in Nat /\ Len(arr) \in Nat /\ at \in Nat /\ down \in Nat
      /\ 1 <= top.l /\ top.r <= Len(arr) + 1 /\ top.r - top.l > 1 /\ Len(arr) > 1
      /\ top.l < at /\ at <= top.r /\ top.l <= down /\ down <= at
      /\ arr \in Seq(Texts) /\ count = Cardinality(KeysAt(arr, CountedPlaces))
  BY <1>1, InsertFacts
<1>3. Spans' = Spans /\ top' = top
  BY <1>1, SpansStay
<1>4. down - 1 \in top.l .. top.r - 1 /\ down \in top.l .. top.r - 1
  BY <1>1, <1>2
<1>5. /\ Ordered(arr', Spans) /\ SameKeys(arr', given') /\ Len(arr') = Len(arr)
      /\ \A k \in 1 .. Len(arr) : Free(Spans, k) => arr'[k] = arr[k]
  BY <1>1, <1>4, SwapInTop
<1>6. \A k \in 1 .. Len(arr) :
        arr'[k] = IF k = down THEN arr[down - 1] ELSE IF k = down - 1 THEN arr[down] ELSE arr[k]
  <2>1. down - 1 \in 1 .. Len(arr) /\ down \in 1 .. Len(arr)
    BY <1>2, <1>4
  <2>2. \A k \in 1 .. Len(arr) : Swapped(arr, down - 1, down)[k] =
         IF k = down THEN arr[down - 1] ELSE IF k = down - 1 THEN arr[down] ELSE arr[k]
    <3>1. ASSUME NEW k \in 1 .. Len(arr)
          PROVE  Swapped(arr, down - 1, down)[k] =
                   IF k = down THEN arr[down - 1] ELSE IF k = down - 1 THEN arr[down] ELSE arr[k]
      <4>1. arr \in Seq(Texts)
        BY <1>2
      <4> QED
        BY ONLY <2>1, <3>1, <4>1, SwappedAt
    <3> QED
      BY <3>1
  <2> QED
    BY <1>1, <2>2
<1>7. Lt(arr[down], arr[down - 1])
  <2>1. /\ arr[down - 1] \in Seq(Nat) /\ arr[down] \in Seq(Nat) /\ top.depth \in Nat
        /\ AlikeTo(arr[down - 1], arr[down], top.depth)
    BY <1>1, <1>4, TopAlike
  <2> QED
    BY <1>1, <2>1, CompareSays
<1>8. \A k \in top.l .. at : k \in 1 .. Len(arr) /\ k \in Nat
  BY <1>1, <1>2
<1>9. Inserting'
  <2>1. /\ \A i, j \in (top.l .. at) \ {down} : i < j => Le(arr[i], arr[j])
        /\ \A j \in down + 1 .. at : Lt(arr[down], arr[j])
    BY <1>1 DEF CInv, Inserting
  <2>2. ASSUME NEW i \in (top.l .. at) \ {down - 1}, NEW j \in (top.l .. at) \ {down - 1}, i < j
        PROVE  Le(arr'[i], arr'[j])
    <3> DEFINE From(k) == IF k = down THEN down - 1 ELSE k
    <3>1. arr'[i] = arr[From(i)] /\ arr'[j] = arr[From(j)]
      BY <1>6, <1>8
    <3>2. From(i) \in (top.l .. at) \ {down} /\ From(j) \in (top.l .. at) \ {down}
      BY <1>2, <1>4
    <3>3. From(i) < From(j)
      BY <1>2, <1>8, <2>2
    <3> HIDE DEF From
    <3> QED
      BY <2>1, <3>1, <3>2, <3>3
  <2>3. ASSUME NEW j \in down - 1 + 1 .. at
        PROVE  Lt(arr'[down - 1], arr'[j])
    <3>1. arr'[down - 1] = arr[down]
      <4>1. down - 1 \in 1 .. Len(arr) /\ down - 1 # down
        BY <1>2, <1>4
      <4> QED
        BY <1>6, <4>1
    <3>2. CASE j = down
      <4>1. arr'[j] = arr[down - 1]
        BY <1>2, <1>4, <1>6, <3>2
      <4> QED
        BY <1>7, <3>1, <4>1
    <3>3. CASE j # down
      <4>1. j \in down + 1 .. at /\ j \in 1 .. Len(arr) /\ j # down - 1
        BY <1>1, <1>2, <3>3
      <4>2. arr'[j] = arr[j]
        BY <1>6, <3>3, <4>1
      <4> QED
        BY <2>1, <3>1, <4>1, <4>2
    <3> QED
      BY <3>2, <3>3
  <2>4. at # top.r
    BY <1>1, <1>2
  <2> QED
    BY <1>1, <1>3, <2>2, <2>3, <2>4 DEF Inserting
<1>10. CountsKeys'
  <2>1. CountedPlaces = Counted0 \cup ((top.l .. at) \ {down})
    BY <1>1 DEF CountedPlaces, Counted0
  <2>2. CountedPlaces' = Counted0 \cup ((top.l .. at) \ {down - 1})
    BY <1>1, <1>3, <1>5 DEF CountedPlaces, Counted0
  <2>3. \A k \in Counted0 : arr'[k] = arr[k]
    BY <1>5 DEF Counted0
  <2>4. ASSUME NEW k \in (top.l .. at) \ {down}
        PROVE  \E m \in (top.l .. at) \ {down - 1} : arr'[m] = arr[k]
    <3>1. CASE k = down - 1
      <4>1. down \in (top.l .. at) \ {down - 1} /\ arr'[down] = arr[k]
        BY <1>2, <1>6, <1>8, <3>1
      <4> QED
        BY <4>1
    <3>2. CASE k # down - 1
      <4>1. k \in (top.l .. at) \ {down - 1} /\ arr'[k] = arr[k]
        BY <1>6, <1>8, <3>2
      <4> QED
        BY <4>1
    <3> QED
      BY <3>1, <3>2
  <2>5. ASSUME NEW m \in (top.l .. at) \ {down - 1}
        PROVE  \E k \in (top.l .. at) \ {down} : arr'[m] = arr[k]
    <3>1. CASE m = down
      <4>1. down - 1 \in (top.l .. at) \ {down} /\ arr'[m] = arr[down - 1]
        BY <1>1, <1>2, <1>6, <1>8, <3>1
      <4> QED
        BY <4>1
    <3>2. CASE m # down
      <4>1. m \in (top.l .. at) \ {down} /\ arr'[m] = arr[m]
        BY <1>6, <1>8, <3>2
      <4> QED
        BY <4>1
    <3> QED
      BY <3>1, <3>2
  <2> HIDE DEF Counted0
  <2>6. KeysAt(arr', Counted0 \cup ((top.l .. at) \ {down - 1})) =
        KeysAt(arr, Counted0 \cup ((top.l .. at) \ {down}))
    BY <2>3, <2>4, <2>5 DEF KeysAt
  <2>7. Len(arr) # 1
    BY <1>2, NotOne
  <2>8. count' = Cardinality(KeysAt(arr', CountedPlaces'))
    BY <1>1, <1>2, <2>1, <2>2, <2>6
  <2> QED
    BY <1>5, <2>7, <2>8 DEF CountsKeys
<1>11. AtWork' /\ PivotThere'
  BY <1>1, <1>3 DEF CInv, AtWork, PivotThere, Size
<1> QED
  BY <1>1, <1>3, <1>5, <1>9, <1>10, <1>11 DEF CInv
\* A key that is in its place counts, unless it is the one before it.
LEMMA InsertKeepsCounts ==
  ASSUME IInv, AInv, CInv, Insert
  PROVE  CInv'
<1>1. /\ pc = "insert" /\ pc' = "insert" /\ frames' = frames /\ given' = given /\ arr' = arr
      /\ at < top.r /\ at' = at + 1 /\ down' = at + 1
      /\ ~(down > top.l /\ Compare(arr[down - 1], arr[down], top.depth) > 0)
      /\ count' = IF down = top.l \/ Compare(arr[down - 1], arr[down], top.depth) # 0
                  THEN count + 1 ELSE count
  BY DEF Insert, MustMove
<1>2. /\ top.l \in Nat /\ top.r \in Nat /\ Len(arr) \in Nat /\ at \in Nat /\ down \in Nat
      /\ 1 <= top.l /\ top.r <= Len(arr) + 1 /\ top.r - top.l > 1 /\ Len(arr) > 1
      /\ top.l < at /\ at <= top.r /\ top.l <= down /\ down <= at
      /\ arr \in Seq(Texts) /\ count = Cardinality(KeysAt(arr, CountedPlaces))
  BY <1>1, InsertFacts
<1>3. Spans' = Spans /\ top' = top
  BY <1>1, SpansStay
<1>4. \A k \in top.l .. at : k \in top.l .. top.r - 1 /\ k \in Nat
  BY <1>1, <1>2
<1>5. \A k \in top.l .. at : arr[k] \in Seq(Nat) /\ k \in 1 .. Len(arr)
  BY <1>1, <1>4, TopAlike
<1>6. down \in top.l .. at /\ (down # top.l => down - 1 \in (top.l .. at) \ {down})
  BY <1>2
<1>7. ASSUME down # top.l
      PROVE  /\ Le(arr[down - 1], arr[down])
             /\ Compare(arr[down - 1], arr[down], top.depth) = 0 <=> arr[down - 1] = arr[down]
  <2>1. down > top.l /\ down - 1 \in top.l .. at
    BY <1>2, <1>7
  <2>2. /\ arr[down - 1] \in Seq(Nat) /\ arr[down] \in Seq(Nat) /\ top.depth \in Nat
        /\ AlikeTo(arr[down - 1], arr[down], top.depth)
    BY <1>1, <1>4, <1>6, <2>1, TopAlike
  <2>3. ~Lt(arr[down], arr[down - 1])
    BY <1>1, <2>1, <2>2, CompareSays
  <2> QED
    BY <2>2, <2>3, CompareSays, LeFacts
<1>8. /\ \A i, j \in (top.l .. at) \ {down} : i < j => Le(arr[i], arr[j])
      /\ \A j \in down + 1 .. at : Lt(arr[down], arr[j])
  BY <1>1 DEF CInv, Inserting
<1>9. ASSUME NEW i \in top.l .. at, i < down
      PROVE  Le(arr[i], arr[down - 1]) /\ Le(arr[i], arr[down]) /\ down # top.l
  <2>1. down # top.l /\ down - 1 \in top.l .. at
    BY <1>2, <1>4, <1>9
  <2>2. Le(arr[i], arr[down - 1])
    <3>1. CASE i = down - 1
      BY <3>1 DEF Le
    <3>2. CASE i # down - 1
      <4>1. i < down - 1 /\ i # down
        BY <1>2, <1>4, <1>9, <3>2
      <4> QED
        BY <1>6, <1>8, <2>1, <4>1
    <3> QED
      BY <3>1, <3>2
  <2>3. Le(arr[i], arr[down])
    BY <1>5, <1>6, <1>7, <2>1, <2>2, LeFacts
  <2> QED
    BY <2>1, <2>2, <2>3
<1>10. Inserting'
  <2>1. ASSUME NEW i \in top.l .. at, NEW j \in top.l .. at, i < j
        PROVE  Le(arr[i], arr[j])
    <3>1. CASE j = down
      BY <1>9, <2>1, <3>1
    <3>2. CASE i = down
      <4>1. j \in down + 1 .. at
        BY <1>2, <1>4, <2>1, <3>2
      <4> QED
        BY <1>8, <3>2, <4>1 DEF Le
    <3>3. CASE i # down /\ j # down
      BY <1>8, <2>1, <3>3
    <3> QED
      BY <3>1, <3>2, <3>3
  <2>2. (top.l .. at + 1) \ {at + 1} = top.l .. at /\ at + 1 + 1 .. at + 1 = {}
    BY <1>2
  <2> QED
    BY <1>1, <1>3, <2>1, <2>2 DEF Inserting
<1>11. CountsKeys'
  <2> DEFINE C == Counted0 \cup ((top.l .. at) \ {down})
  <2>1. CountedPlaces = C /\ C \in SUBSET (1 .. Len(arr))
    BY <1>1, <1>5 DEF CountedPlaces, Counted0
  <2>2. CountedPlaces' = C \cup {down}
    <3>1. (top.l .. at + 1) \ {at + 1} = ((top.l .. at) \ {down}) \cup {down}
      BY <1>2, <1>6
    <3> QED
      BY <1>1, <1>3, <3>1 DEF CountedPlaces, Counted0
  <2>3. arr[down] \in KeysAt(arr, C) <=> (down # top.l /\ arr[down - 1] = arr[down])
    <3>1. ASSUME down # top.l, arr[down - 1] = arr[down]
          PROVE  arr[down] \in KeysAt(arr, C)
      BY <1>6, <3>1 DEF KeysAt
    <3>2. ASSUME NEW k \in Counted0
          PROVE  arr[k] # arr[down]
      <4>1. Span(top) \in Spans /\ Span(top).l = top.l /\ Span(top).r = top.r
        BY <1>1, TopSpan DEF CInv
      <4>2. Inside(Span(top), down) /\ down \in 1 .. Len(arr)
        BY <1>1, <1>2, <1>5, <1>6, <4>1 DEF Inside
      <4>3. Ordered(arr, Spans) /\ k \in 1 .. Len(arr) /\ Free(Spans, k)
        BY DEF CInv, Counted0
      <4> HIDE DEF Spans
      <4> QED
        BY <1>2, <4>1, <4>2, <4>3, FreeKeysDiffer
    <3>3. ASSUME NEW k \in (top.l .. at) \ {down}, arr[k] = arr[down]
          PROVE  down # top.l /\ arr[down - 1] = arr[down]
      <4>1. CASE k < down
        <5>1. Le(arr[down], arr[down - 1]) /\ down # top.l
          BY <1>9, <3>3, <4>1
        <5>2. Le(arr[down - 1], arr[down])
          BY <1>7, <5>1
        <5>3. arr[down] \in Seq(Nat) /\ arr[down - 1] \in Seq(Nat)
          BY <1>5, <1>6, <5>1
        <5> QED
          BY <5>1, <5>2, <5>3, LeFacts DEF Le
      <4>2. CASE ~(k < down)
        <5>1. k \in down + 1 .. at
          BY <1>2, <1>4, <4>2
        <5>2. Lt(arr[down], arr[down])
          BY <1>8, <3>3, <5>1
        <5> QED
          BY <1>5, <1>6, <5>2, LtIrreflexive
      <4> QED
        BY <4>1, <4>2
    <3> QED
      BY <3>1, <3>2, <3>3 DEF KeysAt
  <2>4. down \in 1 .. Len(arr)
    BY <1>5, <1>6
  <2> HIDE DEF C
  <2>5. Cardinality(KeysAt(arr, C \cup {down})) =
          Cardinality(KeysAt(arr, C)) + (IF arr[down] \in KeysAt(arr, C) THEN 0 ELSE 1)
    <3>1. Len(arr) \in Nat /\ C \in SUBSET (1 .. Len(arr)) /\ down \in 1 .. Len(arr)
      BY <1>2, <2>1, <2>4
    <3> QED
      BY ONLY <3>1, OneMoreKey
  <2>6. Cardinality(KeysAt(arr, C)) \in Nat
    BY <1>2, <2>1, KeysFinite
  <2>7. count' = Cardinality(KeysAt(arr, C \cup {down}))
    <3>1. CASE down # top.l /\ arr[down - 1] = arr[down]
      <4>1. count' = count
        BY <1>1, <1>7, <3>1
      <4> QED
        BY <1>2, <2>1, <2>3, <2>5, <2>6, <3>1, <4>1
    <3>2. CASE ~(down # top.l /\ arr[down - 1] = arr[down])
      <4>1. count' = count + 1
        BY <1>1, <1>7, <3>2
      <4> QED
        BY <1>2, <2>1, <2>3, <2>5, <2>6, <3>2, <4>1
    <3> QED
      BY <3>1, <3>2
  <2>8. Len(arr) # 1
    BY <1>2, NotOne
  <2> QED
    BY <1>1, <2>2, <2>7, <2>8 DEF CountsKeys
<1>12. AtWork' /\ PivotThere'
  BY <1>1, <1>3 DEF CInv, AtWork, PivotThere, Size
<1> QED
  BY <1>1, <1>3, <1>10, <1>11, <1>12 DEF CInv

\* A segment of more than one key that is left has been sorted.
LEMMA ReturnKeepsCounts ==
  ASSUME IInv, AInv, CInv, Return
  PROVE  CInv'
<1>1. /\ arr' = arr /\ given' = given /\ count' = count /\ pc' \in {"loop", "done"}
      /\ pc \in {"loop", "insert"}
  BY DEF Return
<1>2. Len(arr) \in Nat /\ arr \in Seq(Texts)
  BY DEF IInv, SortTypeOK
<1>3. Spans' = Below /\ (pc = "loop" => Spans = Below)
  BY ReturnSpans
<1>4. pc' = "done" => frames' = <<>>
  <2> SUFFICES ASSUME pc' = "done"
               PROVE  frames' = <<>>
    OBVIOUS
  <2>1. Len(frames) = 1
    BY DEF Return
  <2>2. frames' \in Seq(Frames) /\ Len(frames') = 0
    BY <2>1, ReturnFrames
  <2> QED
    BY <2>2
<1>5. CASE pc = "loop"
  <2>1. Spans' = Spans
    BY <1>3, <1>5
  <2>2. CountsKeys'
    BY <1>1, <1>2, <1>5, <2>1, CountsStay DEF CInv
  <2> QED
    BY <1>1, <1>4, <2>1, <2>2 DEF CInv, PivotThere, AtWork, Inserting
<1>6. CASE pc = "insert"
  <2> DEFINE t == Span(top)
  <2>1. /\ top.l \in Nat /\ top.r \in Nat /\ Len(arr) \in Nat /\ at \in Nat /\ down \in Nat
        /\ 1 <= top.l /\ top.r <= Len(arr) + 1 /\ top.r - top.l > 1 /\ Len(arr) > 1
        /\ top.l < at /\ at <= top.r /\ top.l <= down /\ down <= at
        /\ arr \in Seq(Texts) /\ count = Cardinality(KeysAt(arr, CountedPlaces))
    BY <1>6, InsertFacts
  <2>2. at = top.r /\ down = top.r
    <3>1. at >= top.r
      BY <1>6 DEF Return
    <3>2. at = top.r
      BY <2>1, <3>1
    <3> QED
      BY <1>6, <3>2 DEF CInv, Inserting
  <2>3. t \in Spans /\ Below = Spans \ {t} /\ t.l = top.l /\ t.r = top.r
    BY <1>6, TopSpan DEF CInv
  <2>4. SpansApart(Spans) /\ Ordered(arr, Spans) /\ \A p \in Spans : p.l \in Nat /\ p.r \in Nat
    BY SpansAreApart, SpansTyped DEF CInv
  <2>5. \A k \in 1 .. Len(arr) : Inside(t, k) <=> k \in (top.l .. at) \ {down}
    BY <2>1, <2>2, <2>3 DEF Inside
  <2>6. \A i, j \in 1 .. Len(arr) : i < j /\ Inside(t, i) /\ Inside(t, j) => Le(arr[i], arr[j])
    BY <1>6, <2>5 DEF CInv, Inserting
  <2> HIDE DEF t
  <2>7. Ordered(arr, Below)
    <3>1. \A q \in {} : \A k \in 1 .. Len(arr) : Inside(q, k) => Inside(t, k)
      OBVIOUS
    <3>2. \A i, j \in 1 .. Len(arr) : i < j /\ Inside(t, i) /\ Inside(t, j) =>
            \/ \E q \in {} : Inside(q, i) /\ Inside(q, j)
            \/ Lt(arr[i], arr[j])
            \/ arr[i] = arr[j] /\ Free({}, i) /\ Free({}, j)
      BY <2>6 DEF Le, Free
    <3>3. Ordered(arr, (Spans \ {t}) \cup {})
      BY <1>2, <2>3, <2>4, <3>1, <3>2, OrderedSplit
    <3> QED
      BY <2>3, <3>3
  <2>8. \A k \in 1 .. Len(arr) : Free(Below, k) <=> Free(Spans, k) \/ Inside(t, k)
    <3>1. ASSUME NEW k \in 1 .. Len(arr)
          PROVE  Free(Below, k) <=> Free(Spans, k) \/ Inside(t, k)
      <4>1. \A p \in Spans : Inside(p, k) /\ Inside(t, k) => p = t
        BY <2>3, <2>4 DEF SpansApart, Disjoint, Inside
      <4> QED
        BY <2>3, <4>1 DEF Free
    <3> QED
      BY <3>1
  <2>9. CountedPlaces' = CountedPlaces
    <3>1. \A k \in (top.l .. at) \ {down} : k \in 1 .. Len(arr)
      BY <2>1, <2>2
    <3>2. CountedPlaces' = {k \in 1 .. Len(arr) : Free(Below, k)}
      BY <1>1, <1>3 DEF CountedPlaces
    <3>3. CountedPlaces = {k \in 1 .. Len(arr) : Free(Spans, k)} \cup ((top.l .. at) \ {down})
      BY <1>6 DEF CountedPlaces
    <3> QED
      BY <2>5, <2>8, <3>1, <3>2, <3>3
  <2>10. CountsKeys'
    BY <1>1, <2>9 DEF CInv, CountsKeys
  <2> QED
    BY <1>1, <1>3, <1>4, <2>7, <2>10 DEF CInv, PivotThere, AtWork, Inserting
<1> QED
  BY <1>1, <1>5, <1>6
-----------------------------------------------------------------------------
(* What is counted when a segment is divided.                              *)

\* Divide puts a part on the list of calls if it has something to sort.
CallsOf(first, second, p, q) ==
  (IF p THEN <<first>> ELSE <<>>) \o (IF q THEN <<second>> ELSE <<>>)

Listed(calls, s) == \E c \in DOMAIN calls : calls[c] = s

LEMMA TwoCallsAll ==
  ASSUME NEW first, NEW second, NEW p \in BOOLEAN, NEW q \in BOOLEAN
  PROVE  /\ p => Listed(CallsOf(first, second, p, q), first)
         /\ q => Listed(CallsOf(first, second, p, q), second)
<1> DEFINE S == {first, second}
           a == IF p THEN <<first>> ELSE <<>>
           b == IF q THEN <<second>> ELSE <<>>
           calls == a \o b
<1>1. a \in Seq(S) /\ b \in Seq(S)
  <2>1. <<first>> \in Seq(S) /\ <<second>> \in Seq(S) /\ <<>> \in Seq(S)
    OBVIOUS
  <2> HIDE DEF S
  <2> QED
    BY <2>1
<1>2. /\ Len(a) = IF p THEN 1 ELSE 0
      /\ Len(b) = IF q THEN 1 ELSE 0
      /\ p => a[1] = first
      /\ q => b[1] = second
  OBVIOUS
<1> HIDE DEF S, a, b
<1>3. /\ calls \in Seq(S) /\ Len(calls) = Len(a) + Len(b)
      /\ \A c \in 1 .. Len(a) + Len(b) :
           calls[c] = IF c <= Len(a) THEN a[c] ELSE b[c - Len(a)]
  BY <1>1
<1> HIDE DEF calls
<1>4. DOMAIN calls = 1 .. Len(a) + Len(b)
  BY <1>3
<1>5. ASSUME p
      PROVE  \E c \in DOMAIN calls : calls[c] = first
  <2>1. 1 \in DOMAIN calls /\ calls[1] = first
    BY <1>2, <1>3, <1>4, <1>5
  <2> QED
    BY <2>1
<1>6. ASSUME q
      PROVE  \E c \in DOMAIN calls : calls[c] = second
  <2>1. CASE p
    <3>1. 2 \in DOMAIN calls /\ calls[2] = second
      BY <1>2, <1>3, <1>4, <1>6, <2>1
    <3> QED
      BY <3>1
  <2>2. CASE ~p
    <3>1. 1 \in DOMAIN calls /\ calls[1] = second
      BY <1>2, <1>3, <1>4, <1>6, <2>2
    <3> QED
      BY <3>1
  <2> QED
    BY <2>1, <2>2
<1> QED
  BY <1>5, <1>6 DEF calls, a, b, Listed, CallsOf

Parts == {Less, Equal, Greater}

\* A part that is still to be sorted.
ToSort(q) == Size(q) > 1 /\ ~OneKey(q)

PartSpans == {Span(q) : q \in {u \in Parts : ToSort(u)}}

\* The labels of the three parts.
LEMMA PartLabels ==
  ASSUME IInv, AInv, CInv, pc = "back", pivotL = top.l, pivotR = top.r
  PROVE  /\ top.l \in Nat /\ top.r \in Nat /\ pl \in Nat /\ pr \in Nat /\ pivot \in Int
         /\ top.l <= pl /\ pl < pr /\ pr <= top.r
         /\ Less.l = top.l /\ Less.r = pl /\ Equal.l = pl /\ Equal.r = pr
         /\ Greater.l = pr /\ Greater.r = top.r
         /\ Less.depth = top.depth /\ Greater.depth = top.depth
         /\ Equal.depth = top.depth + 1 /\ top.depth \in Nat
         /\ \A i \in top.l .. top.r - 1 :
              /\ Label(arr[i], top.depth) \in Int
              /\ i < pl => Label(arr[i], top.depth) < pivot
              /\ pl <= i /\ i < pr => Label(arr[i], top.depth) = pivot
              /\ pr <= i => Label(arr[i], top.depth) > pivot
<1>1. /\ top.l \in Nat /\ top.r \in Nat /\ pl \in Nat /\ pr \in Nat /\ pivot \in Int
      /\ top.l <= pl /\ pl <= pr /\ pr <= top.r /\ top.depth \in Nat
      /\ \A i \in top.l .. top.r - 1 : Label(arr[i], top.depth) \in Int
  BY ScanFacts
<1>2. /\ \A i \in pivotL .. pl - 1 : Label(arr[i], top.depth) < pivot
      /\ \A i \in pl .. pr - 1 : Label(arr[i], top.depth) = pivot
      /\ \A i \in pr .. pivotR - 1 : Label(arr[i], top.depth) > pivot
  BY DEF IInv, Partitioned
<1>3. \A i \in top.l .. top.r - 1 :
        /\ i < pl => Label(arr[i], top.depth) < pivot
        /\ pl <= i /\ i < pr => Label(arr[i], top.depth) = pivot
        /\ pr <= i => Label(arr[i], top.depth) > pivot
  BY <1>1, <1>2
<1>4. pl < pr
  <2>1. PICK i \in top.l .. top.r - 1 : Label(arr[i], top.depth) = pivot
    BY DEF CInv, PivotThere
  <2>2. ~(i < pl) /\ ~(pr <= i)
    BY <1>1, <1>3, <2>1
  <2> QED
    BY <1>1, <2>2
<1>5. /\ Less.l = top.l /\ Less.r = pl /\ Equal.l = pl /\ Equal.r = pr
      /\ Greater.l = pr /\ Greater.r = top.r
      /\ Less.depth = top.depth /\ Greater.depth = top.depth
      /\ Equal.depth = top.depth + 1
  BY DEF Less, Equal, Greater, Segment
<1> QED
  BY <1>1, <1>3, <1>4, <1>5

\* The part that is kept has more than one key, if there are calls to count the
\* one in the middle: nothing of it is left out of the count.
LEMMA CountedOfThree ==
  ASSUME IInv, AInv, CInv, pc = "back", pivotL = top.l, pivotR = top.r
  PROVE  /\ Counted = One(Less) + One(Equal) + One(Greater)
         /\ {Kept, Others[1], Others[2]} = Parts
<1>1. /\ top.l \in Nat /\ top.r \in Nat /\ pl \in Nat /\ pr \in Nat
      /\ top.l <= pl /\ pl < pr /\ pr <= top.r
      /\ Less.l = top.l /\ Less.r = pl /\ Equal.l = pl /\ Equal.r = pr
      /\ Greater.l = pr /\ Greater.r = top.r
      /\ Less.depth = top.depth /\ Greater.depth = top.depth
      /\ Equal.depth = top.depth + 1 /\ top.depth \in Nat
  BY PartLabels
<1>2. Size(Less) = pl - top.l /\ Size(Equal) = pr - pl /\ Size(Greater) = top.r - pr
  BY <1>1 DEF Size
<1>3. Less # Equal /\ Greater # Equal
  BY <1>1
<1>4. Less # Greater
  BY <1>1
<1>5. One(Less) \in Nat /\ One(Equal) \in Nat /\ One(Greater) \in Nat
  BY DEF One
<1>6. CASE ~OuterBigger
  <2>1. Others[1] = Less /\ Others[2] = Greater /\ Kept = Equal
    BY <1>6 DEF Others, Kept
  <2> QED
    BY <1>5, <1>6, <2>1 DEF Counted, Parts
<1>7. CASE OuterBigger /\ Size(Less) < Size(Greater)
  <2>1. SmallerOuter = Less
    BY <1>7 DEF SmallerOuter
  <2>2. Others[1] = Equal /\ Others[2] = Less /\ Kept = Greater
    BY <1>7, <2>1 DEF Others, Kept
  <2>3. Size(Greater) > 1
    BY <1>1, <1>2, <1>7 DEF OuterBigger
  <2>4. One(Greater) = 0
    BY <1>2, <1>3, <2>3, <1>1 DEF One, OneKey
  <2> QED
    BY <1>5, <1>7, <2>2, <2>4 DEF Counted, Parts
<1>8. CASE OuterBigger /\ ~(Size(Less) < Size(Greater))
  <2>1. SmallerOuter = Greater
    BY <1>8 DEF SmallerOuter
  <2>2. Others[1] = Equal /\ Others[2] = Greater /\ Kept = Less
    BY <1>4, <1>8, <2>1 DEF Others, Kept
  <2>3. Size(Less) > 1
    BY <1>1, <1>2, <1>8 DEF OuterBigger
  <2>4. One(Less) = 0
    BY <1>2, <1>3, <2>3, <1>1 DEF One, OneKey
  <2> QED
    BY <1>5, <1>8, <2>2, <2>4 DEF Counted, Parts
<1> QED
  BY <1>6, <1>7, <1>8

\* The segments that take the place of the one divided.
LEMMA DivideSpans ==
  ASSUME IInv, AInv, CInv, Divide
  PROVE  Spans' = (Spans \ {Span(top)}) \cup PartSpans
<1> DEFINE n == Len(frames)
           left == LeftOf(Kept)
           first == Others[1]
           second == Others[2]
           N == frames'[n]
<1>1. pc = "back" /\ pivotL = top.l /\ pivotR = top.r
  BY DEF Divide
<1>2. n \in Nat \ {0} /\ n \in DOMAIN frames /\ top = frames[n] /\ DOMAIN frames = 1 .. n
  BY <1>1, TopFacts DEF IInv, SortTypeOK, top
<1>3. /\ DOMAIN frames' = 1 .. n
      /\ \A f \in 1 .. n - 1 : frames'[f] = frames[f]
      /\ N.l = left.l /\ N.r = left.r
      /\ N.calls = (IF ToSort(first) THEN <<first>> ELSE <<>>) \o
                   (IF ToSort(second) THEN <<second>> ELSE <<>>)
  BY <1>2 DEF Divide, ToSort
<1>4. {Kept, first, second} = Parts
  BY <1>1, CountedOfThree
<1>5. \A q \in Parts : q.l \in Nat /\ q.r \in Nat
  BY <1>1, PartLabels DEF Parts
<1> HIDE DEF n, first, second, N
<1>6. /\ \A c \in DOMAIN N.calls :
           (N.calls[c] = first /\ ToSort(first)) \/ (N.calls[c] = second /\ ToSort(second))
      /\ ToSort(first) => \E c \in DOMAIN N.calls : N.calls[c] = first
      /\ ToSort(second) => \E c \in DOMAIN N.calls : N.calls[c] = second
  <2> DEFINE p == ToSort(first)
             q == ToSort(second)
             todo == (IF p THEN <<first>> ELSE <<>>) \o (IF q THEN <<second>> ELSE <<>>)
  <2>1. p \in BOOLEAN /\ q \in BOOLEAN
    BY DEF ToSort
  <2>2. N.calls = todo
    BY <1>3
  <2> HIDE DEF p, q
  <2>3. \A c \in DOMAIN todo : (todo[c] = first /\ p) \/ (todo[c] = second /\ q)
    BY <2>1, TwoCalls
  <2>4. (p => Listed(todo, first)) /\ (q => Listed(todo, second))
    <3>1. todo = CallsOf(first, second, p, q)
      BY DEF CallsOf
    <3> HIDE DEF todo
    <3> QED
      BY <2>1, <3>1, TwoCallsAll
  <2> HIDE DEF todo
  <2> QED
    BY <2>2, <2>3, <2>4 DEF p, q, Listed
<1>7. \A q \in Parts : ToSort(q) => Span(q).r - Span(q).l > 1
  BY DEF ToSort, Size, Span
<1>8. /\ left.r - left.l > 1 => ToSort(Kept) /\ left = Kept
      /\ ToSort(Kept) => left = Kept
  <2>1. Kept.l \in Nat /\ Kept.r \in Nat
    BY <1>4, <1>5
  <2>2. CASE OneKey(Kept)
    <3>1. left = Segment(IF Size(Kept) = 1 THEN Kept.l ELSE Kept.r, Kept.r, top.depth)
      BY <2>2 DEF LeftOf
    <3>2. left.r = Kept.r /\ left.l = IF Size(Kept) = 1 THEN Kept.l ELSE Kept.r
      BY <3>1 DEF Segment
    <3>3. ~(left.r - left.l > 1)
      <4> HIDE DEF left
      <4> QED
        BY <2>1, <3>2 DEF Size
    <3> QED
      BY <2>2, <3>3 DEF ToSort
  <2>3. CASE ~OneKey(Kept)
    BY <2>3 DEF LeftOf, ToSort, Size
  <2> QED
    BY <2>2, <2>3
<1> HIDE DEF left
<1>9. SpansOf(N) = PartSpans
  <2>1. Span(N) = Span(left) /\ Span(N).r - Span(N).l = left.r - left.l
    BY <1>3 DEF Span
  <2>2. ASSUME NEW p \in SpansOf(N)
        PROVE  p \in PartSpans
    <3>1. CASE p = Span(N)
      <4>1. ToSort(Kept) /\ p = Span(Kept)
        BY <1>8, <2>1, <3>1 DEF SpansOf
      <4> QED
        BY <1>4, <4>1 DEF PartSpans
    <3>2. ASSUME NEW c \in DOMAIN N.calls, p = Span(N.calls[c])
          PROVE  p \in PartSpans
      BY <1>4, <1>6, <3>2 DEF PartSpans
    <3> QED
      BY <3>1, <3>2 DEF SpansOf
  <2>3. ASSUME NEW q \in Parts, ToSort(q)
        PROVE  Span(q) \in SpansOf(N)
    <3>1. CASE q = Kept
      <4>1. Span(q) = Span(N)
        BY <1>8, <2>1, <2>3, <3>1
      <4> QED
        BY <1>7, <2>3, <4>1 DEF SpansOf
    <3>2. CASE q = first \/ q = second
      <4>1. \E c \in DOMAIN N.calls : N.calls[c] = q
        BY <1>6, <2>3, <3>2
      <4> QED
        BY <1>7, <2>3, <4>1 DEF SpansOf
    <3> QED
      BY <1>4, <3>1, <3>2
  <2> QED
    BY <2>2, <2>3 DEF PartSpans
<1>10. Below = Spans \ {Span(top)}
  BY <1>1, TopSpan DEF CInv
<1>11. Spans' = Below \cup SpansOf(N)
  <2>1. Spans' = UNION {SpansOf(frames'[f]) : f \in 1 .. n}
    BY <1>3 DEF Spans
  <2>2. Below = UNION {SpansOf(frames[f]) : f \in 1 .. n - 1}
    BY DEF Below, n
  <2>3. \A f \in 1 .. n - 1 : SpansOf(frames'[f]) = SpansOf(frames[f])
    BY <1>3
  <2>4. (\A f \in 1 .. n : f \in 1 .. n - 1 \/ f = n) /\ 1 .. n - 1 \subseteq 1 .. n /\ n \in 1 .. n
    BY <1>2
  <2> QED
    BY <2>1, <2>2, <2>3, <2>4 DEF N
<1> QED
  BY <1>9, <1>10, <1>11
\* A place of the segment is in one of the parts.
InPart(q, k) == q.l <= k /\ k < q.r

\* Of a part that is not to be sorted all keys are the same.
LEMMA PartFacts ==
  ASSUME IInv, AInv, CInv, pc = "back", pivotL = top.l, pivotR = top.r
  PROVE  /\ \A q \in Parts : q.l \in Nat /\ q.r \in Nat /\ top.l <= q.l /\ q.r <= top.r
         /\ \A k \in top.l .. top.r - 1 : \E q \in Parts : InPart(q, k)
         /\ \A q, u \in Parts, i, j \in top.l .. top.r - 1 :
              InPart(q, i) /\ InPart(u, j) /\ i < j /\ q # u => Lt(arr[i], arr[j])
         /\ \A q, u \in Parts, k \in top.l .. top.r - 1 :
              InPart(q, k) /\ InPart(u, k) => q = u
         /\ \A q \in Parts, i, j \in top.l .. top.r - 1 :
              OneKey(q) /\ InPart(q, i) /\ InPart(q, j) => arr[i] = arr[j]
         /\ \A q \in Parts, k \in top.l .. top.r - 1 :
              InPart(q, k) => (ToSort(q) <=> ~OneKey(q))
<1>1. /\ top.l \in Nat /\ top.r \in Nat /\ pl \in Nat /\ pr \in Nat /\ pivot \in Int
      /\ top.l <= pl /\ pl < pr /\ pr <= top.r
      /\ Less.l = top.l /\ Less.r = pl /\ Equal.l = pl /\ Equal.r = pr
      /\ Greater.l = pr /\ Greater.r = top.r
  BY PartLabels
<1>2. \A i \in top.l .. top.r - 1 :
        /\ Label(arr[i], top.depth) \in Int
        /\ i < pl => Label(arr[i], top.depth) < pivot
        /\ pl <= i /\ i < pr => Label(arr[i], top.depth) = pivot
        /\ pr <= i => Label(arr[i], top.depth) > pivot
  BY PartLabels
<1>3. ASSUME NEW q \in Parts
      PROVE  q.l \in Nat /\ q.r \in Nat /\ top.l <= q.l /\ q.r <= top.r
  BY <1>1 DEF Parts
<1>4. ASSUME NEW k \in top.l .. top.r - 1
      PROVE  \E q \in Parts : InPart(q, k)
  <2>1. InPart(Less, k) \/ InPart(Equal, k) \/ InPart(Greater, k)
    BY <1>1 DEF InPart
  <2> QED
    BY <2>1 DEF Parts
<1>5. \A k \in top.l .. top.r - 1 :
        /\ InPart(Less, k) <=> k < pl
        /\ InPart(Equal, k) <=> pl <= k /\ k < pr
        /\ InPart(Greater, k) <=> pr <= k
  BY <1>1 DEF InPart
<1>6. ASSUME NEW i \in top.l .. top.r - 1, NEW j \in top.l .. top.r - 1,
             Label(arr[i], top.depth) < Label(arr[j], top.depth)
      PROVE  Lt(arr[i], arr[j])
  <2>1. /\ arr[i] \in Seq(Nat) /\ arr[j] \in Seq(Nat) /\ top.depth \in Nat
        /\ AlikeTo(arr[i], arr[j], top.depth)
    BY TopAlike
  <2> QED
    BY <1>6, <2>1, LabelsOrder
<1>7. ASSUME NEW q \in Parts, NEW u \in Parts,
             NEW i \in top.l .. top.r - 1, NEW j \in top.l .. top.r - 1,
             InPart(q, i), InPart(u, j), i < j, q # u
      PROVE  Lt(arr[i], arr[j])
  <2>1. \/ i < pl /\ pl <= j /\ j < pr
        \/ i < pl /\ pr <= j
        \/ pl <= i /\ i < pr /\ pr <= j
    BY <1>1, <1>5, <1>7 DEF Parts
  <2>2. Label(arr[i], top.depth) < Label(arr[j], top.depth)
    BY <1>1, <1>2, <2>1
  <2> QED
    BY <1>6, <2>2
<1>8. ASSUME NEW q \in Parts, NEW u \in Parts, NEW k \in top.l .. top.r - 1,
             InPart(q, k), InPart(u, k)
      PROVE  q = u
  BY <1>1, <1>5, <1>8 DEF Parts
<1>9. ASSUME NEW q \in Parts, NEW i \in top.l .. top.r - 1, NEW j \in top.l .. top.r - 1,
             OneKey(q), InPart(q, i), InPart(q, j)
      PROVE  arr[i] = arr[j]
  <2>1. CASE q.r - q.l = 1
    <3>1. i = j
      BY <1>3, <1>9, <2>1 DEF InPart
    <3> QED
      BY <3>1
  <2>2. CASE q = Equal /\ pivot = -1
    <3>1. Label(arr[i], top.depth) = -1 /\ Label(arr[j], top.depth) = -1
      BY <1>2, <1>5, <1>9, <2>2
    <3>2. /\ arr[i] \in Seq(Nat) /\ arr[j] \in Seq(Nat) /\ top.depth \in Nat
          /\ AlikeTo(arr[i], arr[j], top.depth)
      BY TopAlike
    <3> QED
      BY <3>1, <3>2, EndsAlike
  <2> QED
    BY <1>9, <2>1, <2>2 DEF OneKey, Size
<1>10. ASSUME NEW q \in Parts, NEW k \in top.l .. top.r - 1, InPart(q, k)
       PROVE  ToSort(q) <=> ~OneKey(q)
  <2>1. Size(q) > 1 \/ Size(q) = 1
    BY <1>3, <1>10 DEF InPart, Size
  <2> QED
    BY <2>1 DEF ToSort, OneKey
<1> QED
  BY <1>3, <1>4, <1>7, <1>8, <1>9, <1>10

\* The keys of a part that is counted at once are one more.
WithPlace(C, b, i) == C \cup (IF b THEN {i} ELSE {})

LEMMA OneMorePart ==
  ASSUME NEW a, NEW n \in Nat, NEW C \in SUBSET (1 .. n), NEW i, NEW b \in BOOLEAN,
         b => i \in 1 .. n /\ a[i] \notin KeysAt(a, C)
  PROVE  /\ Cardinality(KeysAt(a, WithPlace(C, b, i))) =
              Cardinality(KeysAt(a, C)) + (IF b THEN 1 ELSE 0)
         /\ WithPlace(C, b, i) \in SUBSET (1 .. n)
         /\ Cardinality(KeysAt(a, C)) \in Nat
<1>1. Cardinality(KeysAt(a, C)) \in Nat
  BY KeysFinite
<1>2. CASE b
  <2>1. i \in 1 .. n /\ a[i] \notin KeysAt(a, C)
    BY <1>2
  <2>2. Cardinality(KeysAt(a, C \cup {i})) = Cardinality(KeysAt(a, C)) + 1
    BY <2>1, OneMoreKey
  <2> QED
    BY <1>1, <1>2, <2>1, <2>2 DEF WithPlace
<1>3. CASE ~b
  <2>1. C \cup {} = C
    OBVIOUS
  <2> QED
    BY <1>1, <1>3, <2>1 DEF WithPlace
<1> QED
  BY <1>2, <1>3

\* Its three parts are in order, and those without anything to sort counted.
LEMMA DivideKeepsCounts ==
  ASSUME IInv, AInv, CInv, Divide
  PROVE  CInv'
<1> DEFINE t == Span(top)
           n == Len(arr)
           P(q) == IF OneKey(q) THEN {q.l} ELSE {}
<1>1. /\ pc = "back" /\ pivotL = top.l /\ pivotR = top.r /\ pc' = "loop" /\ arr' = arr
      /\ given' = given /\ count' = count + Counted
  BY DEF Divide
<1>2. /\ top.l \in Nat /\ top.r \in Nat /\ 1 <= top.l /\ top.r <= n + 1 /\ n \in Nat
      /\ arr \in Seq(Texts) /\ top.r - top.l > 1
  BY <1>1, TopFacts DEF IInv, SortTypeOK, CInv, AtWork, Size
<1>3. t \in Spans /\ t.l = top.l /\ t.r = top.r
  BY <1>1, TopSpan DEF CInv
<1>4. Spans' = (Spans \ {t}) \cup PartSpans
  BY DivideSpans
<1>5. SpansApart(Spans) /\ Ordered(arr, Spans) /\ \A p \in Spans : p.l \in Nat /\ p.r \in Nat
  BY SpansAreApart, SpansTyped DEF CInv
<1>6. \A k \in 1 .. n : Inside(t, k) <=> k \in top.l .. top.r - 1
  BY <1>2, <1>3 DEF Inside
<1>7. /\ \A q \in Parts : q.l \in Nat /\ q.r \in Nat /\ top.l <= q.l /\ q.r <= top.r
      /\ \A k \in top.l .. top.r - 1 : \E q \in Parts : InPart(q, k)
      /\ \A q, u \in Parts, i, j \in top.l .. top.r - 1 :
           InPart(q, i) /\ InPart(u, j) /\ i < j /\ q # u => Lt(arr[i], arr[j])
      /\ \A q, u \in Parts, k \in top.l .. top.r - 1 :
           InPart(q, k) /\ InPart(u, k) => q = u
      /\ \A q \in Parts, i, j \in top.l .. top.r - 1 :
           OneKey(q) /\ InPart(q, i) /\ InPart(q, j) => arr[i] = arr[j]
      /\ \A q \in Parts, k \in top.l .. top.r - 1 :
           InPart(q, k) => (ToSort(q) <=> ~OneKey(q))
  BY <1>1, PartFacts
<1>8. \A k \in top.l .. top.r - 1 : k \in 1 .. n
  BY <1>2
<1>9. Counted = One(Less) + One(Equal) + One(Greater)
  BY <1>1, CountedOfThree
<1> HIDE DEF t, n, P
<1>10. \A q \in Parts, k \in 1 .. n : Inside(Span(q), k) <=> InPart(q, k)
  BY DEF Inside, Span, InPart
<1>11. \A p \in PartSpans : \A k \in 1 .. n : Inside(p, k) => Inside(t, k)
  <2>1. ASSUME NEW q \in Parts, NEW k \in 1 .. n, InPart(q, k)
        PROVE  Inside(t, k)
    <3>1. top.l <= k /\ k < top.r
      BY <1>2, <1>7, <2>1 DEF InPart
    <3> QED
      BY <1>3, <3>1 DEF Inside
  <2> QED
    BY <1>10, <2>1 DEF PartSpans
<1>12. ASSUME NEW q \in Parts, NEW k \in top.l .. top.r - 1, InPart(q, k)
       PROVE  Free(PartSpans, k) <=> OneKey(q)
  <2>1. ASSUME OneKey(q), NEW u \in Parts, ToSort(u)
        PROVE  ~Inside(Span(u), k)
    <3>1. u # q
      BY <2>1 DEF ToSort
    <3> QED
      BY <1>7, <1>8, <1>10, <1>12, <3>1
  <2>2. ASSUME ~OneKey(q)
        PROVE  ~Free(PartSpans, k)
    <3>1. ToSort(q) /\ Inside(Span(q), k)
      BY <1>7, <1>8, <1>10, <1>12, <2>2
    <3> QED
      BY <3>1 DEF Free, PartSpans
  <2> QED
    BY <2>1, <2>2 DEF Free, PartSpans
<1>13. Ordered(arr, (Spans \ {t}) \cup PartSpans)
  <2>1. ASSUME NEW i \in 1 .. Len(arr), NEW j \in 1 .. Len(arr),
               i < j, Inside(t, i), Inside(t, j)
        PROVE  \/ \E q \in PartSpans : Inside(q, i) /\ Inside(q, j)
               \/ Lt(arr[i], arr[j])
               \/ arr[i] = arr[j] /\ Free(PartSpans, i) /\ Free(PartSpans, j)
    <3>1. i \in top.l .. top.r - 1 /\ j \in top.l .. top.r - 1
      BY <1>6, <2>1 DEF n
    <3>2. PICK q \in Parts : InPart(q, i)
      BY <1>7, <3>1
    <3>3. PICK u \in Parts : InPart(u, j)
      BY <1>7, <3>1
    <3>4. CASE q # u
      BY <1>7, <2>1, <3>1, <3>2, <3>3, <3>4
    <3>5. CASE q = u /\ OneKey(q)
      <4>1. arr[i] = arr[j]
        BY <1>7, <3>1, <3>2, <3>3, <3>5
      <4>2. Free(PartSpans, i) /\ Free(PartSpans, j)
        BY <1>12, <3>1, <3>2, <3>3, <3>5
      <4> QED
        BY <4>1, <4>2
    <3>6. CASE q = u /\ ~OneKey(q)
      <4>1. ToSort(q)
        BY <1>7, <3>1, <3>2, <3>6
      <4>2. Inside(Span(q), i) /\ Inside(Span(q), j) /\ Span(q) \in PartSpans
        BY <1>8, <1>10, <3>1, <3>2, <3>3, <3>6, <4>1 DEF PartSpans
      <4> QED
        BY <4>2
    <3> QED
      BY <3>4, <3>5, <3>6
  <2>2. Len(arr) \in Nat /\ \A q \in PartSpans : \A k \in 1 .. Len(arr) : Inside(q, k) => Inside(t, k)
    BY <1>2, <1>11 DEF n
  <2>3. \A i, j \in 1 .. Len(arr) : i < j /\ Inside(t, i) /\ Inside(t, j) =>
          \/ \E q \in PartSpans : Inside(q, i) /\ Inside(q, j)
          \/ Lt(arr[i], arr[j])
          \/ arr[i] = arr[j] /\ Free(PartSpans, i) /\ Free(PartSpans, j)
    BY <2>1
  <2> HIDE DEF Spans, PartSpans
  <2> QED
    BY <1>3, <1>5, <2>2, <2>3, OrderedSplit
<1>14. \A k \in 1 .. n : Free(Spans', k) <=>
         Free(Spans, k) \/ (k \in top.l .. top.r - 1 /\ Free(PartSpans, k))
  <2>1. ASSUME NEW k \in 1 .. n
        PROVE  Free((Spans \ {t}) \cup PartSpans, k) <=>
                 Free(Spans, k) \/ (Inside(t, k) /\ Free(PartSpans, k))
    <3> HIDE DEF Spans, PartSpans
    <3> QED
      BY <1>2, <1>3, <1>5, <1>11, FreeSplit
  <2> QED
    BY <1>4, <1>6, <2>1
<1>15. ASSUME NEW q \in Parts, OneKey(q)
       PROVE  q.l \in top.l .. top.r - 1 /\ InPart(q, q.l)
  <2>1. q.r - q.l >= 1
    BY <1>7, <1>15 DEF OneKey, Size
  <2> QED
    BY <1>2, <1>7, <2>1 DEF InPart
<1> DEFINE C1 == Counted0 \cup P(Less)
           C2 == C1 \cup P(Equal)
           C3 == C2 \cup P(Greater)
<1>16. KeysAt(arr, CountedPlaces') = KeysAt(arr, C3)
  <2>1. CountedPlaces' = {k \in 1 .. n : Free(Spans', k)}
    BY <1>1 DEF CountedPlaces, n
  <2>2. ASSUME NEW k \in CountedPlaces'
        PROVE  \E m \in C3 : arr[m] = arr[k]
    <3>1. CASE Free(Spans, k)
      BY <2>1, <3>1 DEF Counted0, n
    <3>2. CASE k \in top.l .. top.r - 1 /\ Free(PartSpans, k)
      <4>1. PICK q \in Parts : InPart(q, k)
        BY <1>7, <3>2
      <4>2. OneKey(q)
        BY <1>12, <3>2, <4>1
      <4>3. arr[q.l] = arr[k] /\ q.l \in P(q)
        BY <1>7, <1>15, <3>2, <4>1, <4>2 DEF P
      <4> QED
        BY <4>3 DEF Parts
    <3> QED
      BY <1>14, <2>1, <3>1, <3>2
  <2>3. ASSUME NEW m \in C3
        PROVE  m \in CountedPlaces'
    <3>1. CASE m \in Counted0
      BY <1>14, <2>1, <3>1 DEF Counted0, n
    <3>2. ASSUME NEW q \in Parts, m \in P(q)
          PROVE  m \in CountedPlaces'
      <4>1. OneKey(q) /\ m = q.l
        BY <3>2 DEF P
      <4>2. m \in top.l .. top.r - 1 /\ InPart(q, m)
        BY <1>15, <4>1
      <4>3. Free(PartSpans, m)
        BY <1>12, <4>1, <4>2
      <4> QED
        BY <1>8, <1>14, <2>1, <4>2, <4>3
    <3> QED
      BY <3>1, <3>2 DEF Parts
  <2> QED
    BY <2>2, <2>3 DEF KeysAt
<1>17. \A q \in Parts, k \in Counted0 : OneKey(q) => arr[k] # arr[q.l]
  <2> SUFFICES ASSUME NEW q \in Parts, NEW k \in Counted0, OneKey(q)
               PROVE  arr[k] # arr[q.l]
    OBVIOUS
  <2>1. q.l \in 1 .. Len(arr) /\ Inside(t, q.l)
    BY <1>6, <1>8, <1>15 DEF n
  <2>2. k \in 1 .. Len(arr) /\ Free(Spans, k)
    BY DEF Counted0
  <2> HIDE DEF Spans
  <2> QED
    BY <1>2, <1>3, <1>5, <2>1, <2>2, FreeKeysDiffer
<1>18. \A q, u \in Parts : OneKey(q) /\ OneKey(u) /\ q # u => arr[q.l] # arr[u.l]
  <2> SUFFICES ASSUME NEW q \in Parts, NEW u \in Parts, OneKey(q), OneKey(u), q # u
               PROVE  arr[q.l] # arr[u.l]
    OBVIOUS
  <2>1. /\ q.l \in top.l .. top.r - 1 /\ InPart(q, q.l)
        /\ u.l \in top.l .. top.r - 1 /\ InPart(u, u.l)
    BY <1>15
  <2>2. q.l # u.l
    BY <1>7, <2>1
  <2>3. q.l < u.l \/ u.l < q.l
    BY <1>7, <2>2
  <2>4. Lt(arr[q.l], arr[u.l]) \/ Lt(arr[u.l], arr[q.l])
    BY <1>7, <2>1, <2>3
  <2>5. arr[q.l] \in Seq(Nat)
    BY <1>1, <2>1, TopAlike
  <2> QED
    BY <2>4, <2>5, LtIrreflexive
<1>19. Cardinality(KeysAt(arr, C3)) = Cardinality(KeysAt(arr, Counted0)) + Counted
  <2> DEFINE bl == OneKey(Less)
             be == OneKey(Equal)
             bg == OneKey(Greater)
             K0 == Cardinality(KeysAt(arr, Counted0))
             K1 == Cardinality(KeysAt(arr, C1))
             K2 == Cardinality(KeysAt(arr, C2))
             K3 == Cardinality(KeysAt(arr, C3))
  <2>1. /\ C1 = WithPlace(Counted0, bl, Less.l)
        /\ C2 = WithPlace(C1, be, Equal.l)
        /\ C3 = WithPlace(C2, bg, Greater.l)
    BY DEF P, WithPlace
  <2>2. /\ One(Less) = IF bl THEN 1 ELSE 0
        /\ One(Equal) = IF be THEN 1 ELSE 0
        /\ One(Greater) = IF bg THEN 1 ELSE 0
    BY DEF One
  <2>3. bl \in BOOLEAN /\ be \in BOOLEAN /\ bg \in BOOLEAN
    BY DEF OneKey
  <2>4. Less \in Parts /\ Equal \in Parts /\ Greater \in Parts
    BY DEF Parts
  <2>5. Less # Equal /\ Equal # Greater /\ Less # Greater
    BY <1>1, <1>2, PartLabels
  <2>6. Counted0 \in SUBSET (1 .. n)
    BY DEF Counted0, n
  <2> HIDE DEF bl, be, bg, Counted0
  <2>7. bl => Less.l \in 1 .. n /\ arr[Less.l] \notin KeysAt(arr, Counted0)
    BY <1>8, <1>15, <1>17, <2>4 DEF KeysAt, bl
  <2>8. be => Equal.l \in 1 .. n /\ arr[Equal.l] \notin KeysAt(arr, C1)
    BY <1>8, <1>15, <1>17, <1>18, <2>1, <2>4, <2>5 DEF KeysAt, WithPlace, bl, be
  <2>9. bg => Greater.l \in 1 .. n /\ arr[Greater.l] \notin KeysAt(arr, C2)
    BY <1>8, <1>15, <1>17, <1>18, <2>1, <2>4, <2>5 DEF KeysAt, WithPlace, bl, be, bg
  <2>10. n \in Nat
    BY <1>2
  <2> HIDE DEF C1, C2, C3
  <2>11. /\ K1 = K0 + (IF bl THEN 1 ELSE 0)
         /\ C1 \in SUBSET (1 .. n) /\ K0 \in Nat
    <3>1. /\ n \in Nat /\ Counted0 \in SUBSET (1 .. n) /\ bl \in BOOLEAN
          /\ bl => Less.l \in 1 .. n /\ arr[Less.l] \notin KeysAt(arr, Counted0)
      BY <2>3, <2>6, <2>7, <2>10
    <3>2. /\ Cardinality(KeysAt(arr, WithPlace(Counted0, bl, Less.l))) =
               Cardinality(KeysAt(arr, Counted0)) + (IF bl THEN 1 ELSE 0)
          /\ WithPlace(Counted0, bl, Less.l) \in SUBSET (1 .. n)
          /\ Cardinality(KeysAt(arr, Counted0)) \in Nat
      BY ONLY <3>1, OneMorePart
    <3> QED
      BY <2>1, <3>2
  <2>12. /\ K2 = K1 + (IF be THEN 1 ELSE 0)
         /\ C2 \in SUBSET (1 .. n)
    <3>1. /\ n \in Nat /\ C1 \in SUBSET (1 .. n) /\ be \in BOOLEAN
          /\ be => Equal.l \in 1 .. n /\ arr[Equal.l] \notin KeysAt(arr, C1)
      BY <2>3, <2>8, <2>10, <2>11
    <3>2. /\ Cardinality(KeysAt(arr, WithPlace(C1, be, Equal.l))) =
               Cardinality(KeysAt(arr, C1)) + (IF be THEN 1 ELSE 0)
          /\ WithPlace(C1, be, Equal.l) \in SUBSET (1 .. n)
      BY ONLY <3>1, OneMorePart
    <3> QED
      BY <2>1, <3>2
  <2>13. K3 = K2 + (IF bg THEN 1 ELSE 0)
    <3>1. /\ n \in Nat /\ C2 \in SUBSET (1 .. n) /\ bg \in BOOLEAN
          /\ bg => Greater.l \in 1 .. n /\ arr[Greater.l] \notin KeysAt(arr, C2)
      BY <2>3, <2>9, <2>10, <2>12
    <3>2. Cardinality(KeysAt(arr, WithPlace(C2, bg, Greater.l))) =
            Cardinality(KeysAt(arr, C2)) + (IF bg THEN 1 ELSE 0)
      BY ONLY <3>1, OneMorePart
    <3> QED
      BY <2>1, <3>2
  <2> HIDE DEF K0, K1, K2, K3
  <2>14. K3 = K0 + Counted
    BY <1>9, <2>2, <2>3, <2>11, <2>12, <2>13
  <2> QED
    BY <2>14 DEF K0, K3
<1>20. CountsKeys'
  <2>1. n # 1 /\ n = Len(arr)
    <3>1. n > 1
      BY <1>2
    <3> QED
      BY <1>2, <3>1, NotOne DEF n
  <2>2. CountedPlaces = Counted0
    BY <1>1 DEF CountedPlaces, Counted0
  <2>3. count = Cardinality(KeysAt(arr, Counted0))
    BY <2>1, <2>2 DEF CInv, CountsKeys
  <2>4. count' = Cardinality(KeysAt(arr', CountedPlaces'))
    <3> HIDE DEF C3
    <3> QED
      BY <1>1, <1>16, <1>19, <2>3
  <2> QED
    BY <1>1, <2>1, <2>4 DEF CountsKeys
<1>21. Ordered(arr', Spans')
  BY <1>1, <1>4, <1>13
<1> QED
  BY <1>1, <1>20, <1>21 DEF CInv, PivotThere, AtWork, Inserting
-----------------------------------------------------------------------------
(* The theorem.                                                            *)

\* At first all keys are together, or there is nothing to be sorted.
LEMMA InitCounts ==
  ASSUME Init
  PROVE  CInv
<1>1. IInv
  BY InitOK
<1>2. /\ DOMAIN frames = {1} /\ frames[1].l = 1 /\ frames[1].r = Len(arr) + 1
      /\ frames[1].calls = <<>> /\ pc = "loop" /\ count = 0 /\ given = arr
  BY DEF Init, Frame, Segment
<1>3. Len(arr) \in Nat
  BY <1>1 DEF IInv, SortTypeOK
<1> DEFINE n == Len(arr)
           t == [l |-> 1, r |-> n + 1]
<1>4. Spans = {p \in {t} : p.r - p.l > 1}
  <2>1. Spans = SpansOf(frames[1])
    BY <1>2 DEF Spans
  <2>2. Span(frames[1]) = t /\ DOMAIN frames[1].calls = {}
    BY <1>2 DEF Span
  <2> QED
    BY <2>1, <2>2 DEF SpansOf
<1>5. n > 1 => t \in Spans
  <2>1. n > 1 => t.r - t.l > 1
    BY <1>3
  <2> HIDE DEF n, t
  <2> QED
    BY <1>4, <2>1
<1>6. \A k \in 1 .. n : Inside(t, k)
  BY <1>3 DEF Inside
<1>7. Ordered(arr, Spans)
  <2>1. ASSUME NEW i \in 1 .. n, NEW j \in 1 .. n, i < j
        PROVE  t \in Spans
    <3>1. n > 1
      BY <1>3, <2>1
    <3> QED
      BY <1>5, <3>1
  <2> HIDE DEF t
  <2> QED
    BY <1>6, <2>1 DEF Ordered
<1>8. CountsKeys
  <2>1. CASE n = 1
    BY <1>2, <2>1 DEF CountsKeys
  <2>2. CASE n # 1
    <3>1. CountedPlaces = {}
      <4>1. CountedPlaces = {i \in 1 .. n : Free(Spans, i)}
        BY <1>2 DEF CountedPlaces
      <4>2. ASSUME NEW i \in 1 .. n
            PROVE  ~Free(Spans, i)
        <5>1. n > 1
          <6>1. n \in Nat
            BY <1>3
          <6> HIDE DEF n
          <6> QED
            BY <2>2, <6>1
        <5> QED
          BY <1>5, <1>6, <5>1 DEF Free
      <4> QED
        BY <4>1, <4>2
    <3>2. KeysAt(arr, {}) = {}
      BY DEF KeysAt
    <3>3. Cardinality(KeysAt(arr, CountedPlaces)) = 0
      BY <3>1, <3>2, FS_EmptySet
    <3> QED
      BY <1>2, <2>2, <3>3 DEF CountsKeys
  <2> QED
    BY <2>1, <2>2
<1> QED
  BY <1>2, <1>7, <1>8 DEF CInv, PivotThere, AtWork, Inserting, SameKeys

\* Every step keeps what is in order, and counts what it puts in order.
LEMMA NextKeepsCounts ==
  ASSUME IInv, AInv, CInv, [Next]_vars
  PROVE  CInv'
<1>1. CASE UNCHANGED vars
  <2>1. /\ arr' = arr /\ given' = given /\ frames' = frames /\ count' = count /\ pc' = pc
        /\ pivot' = pivot /\ at' = at /\ down' = down
    BY <1>1 DEF vars
  <2>2. Spans' = Spans /\ top' = top
    BY <2>1, SpansStay
  <2> QED
    BY <2>1, <2>2
       DEF CInv, PivotThere, AtWork, Inserting, CountsKeys, CountedPlaces, Size
<1> QED
  BY <1>1, CallKeepsCounts, PartitionKeepsCounts, ScansKeepCounts, DivideKeepsCounts,
     InsertionKeepsCounts, MoveDownKeepsCounts, InsertKeepsCounts, ReturnKeepsCounts
     DEF Next

\* Sorting sorts: the keys that come out are in order, they are those that came
\* in, each as often, and the count is that of the different ones, but for a
\* single key, which sort() does not count.
THEOREM SortsAndCountsAlways == Spec => []SortsAndCounts
<1>1. IInv /\ CInv => SortsAndCounts
  <2> SUFFICES ASSUME IInv, CInv, pc = "done"
               PROVE  /\ \A i, j \in DOMAIN arr : i < j => Compare(arr[i], arr[j], 0) <= 0
                      /\ \A t \in Texts : Cardinality({i \in DOMAIN arr : arr[i] = t}) =
                                          Cardinality({i \in DOMAIN given : given[i] = t})
                      /\ count = IF Len(arr) = 1 THEN 0
                                 ELSE Cardinality({arr[i] : i \in DOMAIN arr})
    BY DEF SortsAndCounts
  <2>1. arr \in Seq(Texts) /\ DOMAIN arr = 1 .. Len(arr)
    BY DEF IInv, SortTypeOK
  <2>2. Spans = {} /\ \A k \in DOMAIN arr : Free(Spans, k)
    <3>1. DOMAIN frames = {}
      BY DEF CInv
    <3> QED
      BY <3>1 DEF Spans, Free
  <2>3. ASSUME NEW i \in DOMAIN arr, NEW j \in DOMAIN arr, i < j
        PROVE  Compare(arr[i], arr[j], 0) <= 0
    <3>1. Le(arr[i], arr[j])
      BY <2>1, <2>2, <2>3 DEF CInv, Ordered, Le
    <3>2. arr[i] \in Seq(Nat) /\ arr[j] \in Seq(Nat)
      BY <2>1, SortAssumption
    <3>3. AlikeTo(arr[i], arr[j], 0)
      BY <3>2 DEF AlikeTo
    <3> QED
      BY <3>1, <3>2, <3>3, CompareSays
  <2>4. \A t \in Texts : Cardinality({i \in DOMAIN arr : arr[i] = t}) =
                         Cardinality({i \in DOMAIN given : given[i] = t})
    BY DEF CInv, SameKeys, PlacesOf
  <2>5. count = IF Len(arr) = 1 THEN 0 ELSE Cardinality({arr[i] : i \in DOMAIN arr})
    <3>1. CountedPlaces = DOMAIN arr
      BY <2>1, <2>2 DEF CountedPlaces
    <3> QED
      BY <3>1 DEF CInv, CountsKeys, KeysAt
  <2> QED
    BY <2>3, <2>4, <2>5
<1>2. Init => CInv /\ AInv
  BY InitAlike, InitCounts
<1>3. IInv /\ AInv /\ CInv /\ [Next]_vars => CInv' /\ AInv'
  BY NextKeepsCounts, NextKeepsAlike
<1> QED
  BY <1>1, <1>2, <1>3, Invariant, PTL DEF Spec
=============================================================================
