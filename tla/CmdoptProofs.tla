---------------------------- MODULE CmdoptProofs ----------------------------
(***************************************************************************)
(* Shifting arguments never loses, repeats or reorders one: ArgvInOrder.   *)
(* And a tool is given the options and operands that were typed:           *)
(* ReadsAsMeant.  Both for every command line and every table of options.  *)
(*                                                                         *)
(* The first invariant needs one fact more: what has been read or moved    *)
(* away was typed before all that has not been read.  Then an argument     *)
(* that is read was typed after those read before, and one that is moved   *)
(* behind all the others was typed after the operands that are there.      *)
(* Both shifts are described by two lemmas about functions of places.      *)
(*                                                                         *)
(* For the second one, what a command line means is read from its last     *)
(* argument on; while the tool reads from the first one on, the meaning is *)
(* what it has been given, the operands that were moved away and what the  *)
(* arguments and letters mean that are left.                               *)
(***************************************************************************)
EXTENDS Cmdopt, FiniteSetTheorems, SequenceTheorems, TLAPS

\* A set of numbers has a least one: all there is to induction over numbers,
\* stated about a set so that the provers can use it.
LEMMA LeastNumber ==
  ASSUME NEW S \in SUBSET Nat, S # {}
  PROVE  \E m \in S : \A k \in S : m <= k
<1> DEFINE less == {pair \in Nat \X Nat : pair[1] < pair[2]}
<1>1. IsWellFoundedOn(OpToRel(<, Nat), Nat)
  BY NatLessThanWellFounded
<1>2. OpToRel(<, Nat) = less
  BY DEF OpToRel
<1>3. IsWellFoundedOn(less, Nat)
  BY <1>1, <1>2
<1>4. \A x, y \in Nat : <<x, y>> \in less <=> x < y
  OBVIOUS
<1> HIDE DEF less
<1>5. PICK m \in S : \A y \in S : ~(<<y, m>> \in less)
  <2>1. \E m \in S : \A y \in S : ~(<<y, m>> \in less)
    BY <1>3, WFMin
  <2> QED
    BY <2>1
<1>6. \A y \in S : ~(y < m)
  BY <1>4, <1>5
<1> QED
  BY <1>6

\* Induction over numbers, from LeastNumber.
LEMMA Induction ==
  ASSUME NEW S, 0 \in S, \A n \in Nat : n \in S => n + 1 \in S
  PROVE  \A n \in Nat : n \in S
<1> SUFFICES ASSUME NEW n \in Nat, n \notin S PROVE FALSE
  OBVIOUS
<1> DEFINE T == Nat \ S
<1>1. T \in SUBSET Nat /\ T # {}
  OBVIOUS
<1>2. PICK m \in T : \A k \in T : m <= k
  BY <1>1, LeastNumber
<1>3. m # 0 /\ m - 1 \in Nat
  OBVIOUS
<1>4. m - 1 \notin T
  BY <1>2, <1>3
<1> QED
  BY <1>3, <1>4

\* f says where what stands in n places was typed: before a what has been read,
\* from b on what was moved away.
Ordered(f, n, a, b) ==
  \A i, j \in 1 .. n :
    /\ i # j => f[i] # f[j]
    /\ i < j /\ (j < a \/ b <= i) => f[i] < f[j]

Unread(f, n, a, b) ==
  /\ \A i \in a .. b - 1 : f[i] = i + (n + 1 - b)
  /\ \A i \in 1 .. n : i < a \/ b <= i => f[i] < a + (n + 1 - b)

IInv ==
  /\ given \in Seq(Arguments)
  /\ argv = [i \in DOMAIN given |-> given[from[i]]]
  /\ from \in [1 .. Len(given) -> 1 .. Len(given)]
  /\ optnum \in 1 .. Len(given) + 1 /\ optind \in 1 .. optnum
  /\ Ordered(from, Len(given), optind, optnum)
  /\ outcome = "reading" => Unread(from, Len(given), optind, optnum)
-----------------------------------------------------------------------------
\* Reading on: cmdopt_next() and the argument of an option.
LEMMA ReadOn ==
  ASSUME NEW n \in Nat, NEW f \in [1 .. n -> 1 .. n],
         NEW b \in 1 .. n + 1, NEW a \in 1 .. b,
         Ordered(f, n, a, b), Unread(f, n, a, b),
         NEW c \in a .. b
  PROVE  Ordered(f, n, c, b) /\ Unread(f, n, c, b)
<1>1. \A i \in a .. b - 1 : i \in 1 .. n /\ f[i] = i + (n + 1 - b)
  BY DEF Unread
<1>2. \A i \in 1 .. n : i < a \/ b <= i => f[i] < a + (n + 1 - b)
  BY DEF Unread
<1>3. ASSUME NEW i \in 1 .. n, NEW j \in 1 .. n, i < j, j < c
      PROVE  f[i] < f[j]
  <2>1. CASE j < a
    BY <1>3, <2>1 DEF Ordered
  <2>2. CASE a <= j /\ i < a
    <3>1. f[i] < a + (n + 1 - b) /\ f[j] = j + (n + 1 - b)
      BY <1>1, <1>2, <1>3, <2>2
    <3> QED
      BY <2>2, <3>1
  <2>3. CASE a <= i
    <3>0. i \in a .. b - 1 /\ j \in a .. b - 1
      BY <1>3, <2>3
    <3>1. f[i] = i + (n + 1 - b) /\ f[j] = j + (n + 1 - b)
      BY <1>1, <3>0
    <3> QED
      BY <1>3, <3>1
  <2> QED
    BY <2>1, <2>2, <2>3
<1>4. Ordered(f, n, c, b)
  BY <1>3 DEF Ordered
<1>5. ASSUME NEW i \in 1 .. n, i < c \/ b <= i
      PROVE  f[i] < c + (n + 1 - b)
  <2>1. CASE i \in a .. b - 1
    BY <1>1, <1>5, <2>1
  <2>2. CASE i \notin a .. b - 1
    BY <1>2, <2>2
  <2> QED
    BY <2>1, <2>2
<1>6. \A i \in c .. b - 1 : f[i] = i + (n + 1 - b)
  BY <1>1
<1> QED
  BY <1>4, <1>5, <1>6 DEF Unread

\* cmdopt_shift(): the argument at a, which was typed after all that was moved
\* away before, goes behind them.
LEMMA ShiftedInOrder ==
  ASSUME NEW n \in Nat, NEW f \in [1 .. n -> 1 .. n],
         NEW b \in 1 .. n + 1, NEW a \in 1 .. b,
         Ordered(f, n, a, b), Unread(f, n, a, b),
         a < b
  PROVE  /\ Shifted(f, a) \in [1 .. n -> 1 .. n]
         /\ Ordered(Shifted(f, a), n, a, b - 1)
         /\ Unread(Shifted(f, a), n, a, b - 1)
<1> DEFINE g == Shifted(f, a)
<1>1. DOMAIN f = 1 .. n /\ Len(f) = n /\ a \in 1 .. n
  OBVIOUS
<1>2. g = [k \in 1 .. n |-> IF k < a THEN f[k] ELSE IF k < n THEN f[k + 1] ELSE f[a]]
  BY <1>1 DEF Shifted
<1>3. ASSUME NEW k \in 1 .. n
      PROVE  /\ k < a => g[k] = f[k]
             /\ a <= k /\ k < n => g[k] = f[k + 1]
             /\ k = n => g[k] = f[a]
  <2> HIDE DEF g
  <2> QED
    BY <1>2, SMTT(20)
<1>4. g \in [1 .. n -> 1 .. n]
  <2> HIDE DEF g
  <2>1. ASSUME NEW k \in 1 .. n PROVE g[k] \in 1 .. n
    <3>1. k < n => k + 1 \in 1 .. n
      OBVIOUS
    <3>2. k < n => f[k + 1] \in 1 .. n
      BY <3>1
    <3>3. f[k] \in 1 .. n /\ f[a] \in 1 .. n
      BY <1>1
    <3>4. k < a \/ (a <= k /\ k < n) \/ k = n
      OBVIOUS
    <3>5. /\ k < a => g[k] = f[k]
          /\ a <= k /\ k < n => g[k] = f[k + 1]
          /\ k = n => g[k] = f[a]
      BY <1>3
    <3> QED
      BY ONLY <3>2, <3>3, <3>4, <3>5
  <2> QED
    BY <1>2, <2>1
<1> HIDE DEF g
<1>5. \A i \in a .. b - 1 : i \in 1 .. n /\ f[i] = i + (n + 1 - b)
  BY SMTT(20) DEF Unread
<1>6. \A i \in 1 .. n : i < a \/ b <= i => f[i] < a + (n + 1 - b)
  BY DEF Unread
<1>7. f[a] = a + (n + 1 - b)
  BY <1>5
<1>8. ASSUME NEW i \in a .. b - 2
      PROVE  g[i] = i + (n + 1 - (b - 1))
  <2>1. i \in 1 .. n /\ a <= i /\ i < n /\ i + 1 \in a .. b - 1
    BY <1>1
  <2>2. g[i] = f[i + 1] /\ f[i + 1] = (i + 1) + (n + 1 - b)
    BY <1>3, <1>5, <2>1
  <2> QED
    BY <2>2
<1>9. ASSUME NEW i \in 1 .. n, i < a \/ b - 1 <= i
      PROVE  g[i] < a + (n + 1 - (b - 1))
  <2>1. CASE i < a
    BY <1>3, <1>4, <1>6, <2>1
  <2>2. CASE a <= i /\ i < n
    <3>1. i + 1 \in 1 .. n /\ b <= i + 1
      BY <1>9, <2>2
    <3> QED
      BY <1>3, <1>6, <2>2, <3>1
  <2>3. CASE i = n
    BY <1>3, <1>7, <2>3
  <2> QED
    BY <2>1, <2>2, <2>3
<1>10. Unread(g, n, a, b - 1)
  <2>1. \A i \in a .. (b - 1) - 1 : g[i] = i + (n + 1 - (b - 1))
    BY <1>8
  <2> QED
    BY <1>9, <2>1 DEF Unread
<1>11. ASSUME NEW i \in 1 .. n, NEW j \in 1 .. n, i < j
       PROVE  g[i] # g[j] /\ (j < a \/ b - 1 <= i => g[i] < g[j])
  <2>1. CASE j < a
    BY <1>3, <1>11, <2>1 DEF Ordered
  <2>2. CASE a <= j /\ j < n /\ i < a
    <3>1. g[i] = f[i] /\ g[j] = f[j + 1] /\ j + 1 \in 1 .. n /\ i # j + 1
      BY <1>3, <1>11, <2>2
    <3> QED
      BY <1>1, <2>2, <1>11, <3>1 DEF Ordered
  <2>3. CASE a <= i /\ j < n
    <3>0. /\ i + 1 \in 1 .. n /\ j + 1 \in 1 .. n /\ i + 1 < j + 1
          /\ i < n /\ a <= j
      BY <1>11, <2>3
    <3>1. g[i] = f[i + 1] /\ g[j] = f[j + 1]
      BY <1>3, <2>3, <3>0
    <3>2. f[i + 1] # f[j + 1] /\ (b <= i + 1 => f[i + 1] < f[j + 1])
      BY <3>0 DEF Ordered
    <3> QED
      BY <1>11, <2>3, <3>1, <3>2
  <2>4. CASE j = n /\ i < a
    BY <1>1, <1>3, <1>11, <2>4, SMTT(20) DEF Ordered
  <2>5. CASE j = n /\ a <= i
    <3>1. g[i] = f[i + 1] /\ g[j] = f[a] /\ i + 1 \in 1 .. n /\ a # i + 1
      BY <1>3, <1>11, <2>5
    <3>2. f[i + 1] # f[a]
      BY <1>1, <3>1 DEF Ordered
    <3>3. b <= i + 1 => f[i + 1] < f[a]
      BY <1>6, <1>7, <3>1
    <3> QED
      BY <1>11, <2>5, <3>1, <3>2, <3>3
  <2> QED
    BY <2>1, <2>2, <2>3, <2>4, <2>5, <1>11
<1>12. Ordered(g, n, a, b - 1)
  <2>1. \A i, j \in 1 .. n : i # j => i < j \/ j < i
    OBVIOUS
  <2> QED
    BY <1>11, <2>1 DEF Ordered
<1> QED
  BY <1>4, <1>10, <1>12 DEF g

\* The loop that shifts all that has not been read.
LEMMA AllShiftedInOrder ==
  ASSUME NEW n \in Nat, NEW f \in [1 .. n -> 1 .. n],
         NEW b \in 1 .. n + 1, NEW a \in 1 .. b,
         Ordered(f, n, a, b), Unread(f, n, a, b)
  PROVE  /\ AllShifted(f, a, b - a) \in [1 .. n -> 1 .. n]
         /\ Ordered(AllShifted(f, a, b - a), n, a, a)
<1> DEFINE m == b - a
           g == AllShifted(f, a, m)
<1>1. /\ DOMAIN f = 1 .. n /\ Len(f) = n
      /\ m \in Nat /\ a \in 1 .. n + 1 /\ a + m \in 1 .. n + 1
  OBVIOUS
<1>2. g = [k \in 1 .. n |->
             IF k < a THEN f[k]
             ELSE IF k + m <= n THEN f[k + m] ELSE f[k + m - n + a - 1]]
  BY <1>1 DEF AllShifted
<1>3. ASSUME NEW k \in 1 .. n
      PROVE  /\ k < a => g[k] = f[k]
             /\ a <= k /\ k + m <= n => g[k] = f[k + m]
             /\ a <= k /\ k + m > n => /\ g[k] = f[k + m - n + a - 1]
                                       /\ k + m - n + a - 1 \in a .. b - 1
  BY <1>1, <1>2, SMTT(20)
<1>4. g \in [1 .. n -> 1 .. n]
  <2> SUFFICES ASSUME NEW k \in 1 .. n PROVE g[k] \in 1 .. n
    BY <1>2
  <2>1. CASE k < a
    BY <1>3, <2>1
  <2>2. CASE a <= k /\ k + m <= n
    BY <1>1, <1>3, <2>2
  <2>3. CASE a <= k /\ k + m > n
    <3>1. k + m - n + a - 1 \in 1 .. n
      BY <1>1, <2>3
    <3> QED
      BY <1>3, <2>3, <3>1
  <2> QED
    BY <1>1, <2>1, <2>2, <2>3
<1>5. \A i \in a .. b - 1 : i \in 1 .. n /\ f[i] = i + (n + 1 - b)
  BY DEF Unread
<1>6. \A i \in 1 .. n : i < a \/ b <= i => f[i] < a + (n + 1 - b)
  BY DEF Unread
<1>7. b = a + m
  OBVIOUS
<1> HIDE DEF g, m
<1>8. ASSUME NEW i \in 1 .. n, NEW j \in 1 .. n, i < j
      PROVE  g[i] # g[j] /\ (j < a \/ a <= i => g[i] < g[j])
  <2>1. CASE j < a
    BY <1>3, <1>8, <2>1 DEF Ordered
  <2>2. CASE i < a /\ a <= j
    <3>1. PICK k \in a .. n : g[j] = f[k]
      <4>1. CASE j + m <= n
        BY <1>1, <1>3, <2>2, <4>1
      <4>2. CASE j + m > n
        <5>1. j + m - n + a - 1 \in a .. n
          BY <1>1, <2>2, <4>2
        <5> QED
          BY <1>3, <2>2, <4>2, <5>1
      <4> QED
        BY <1>1, <4>1, <4>2
    <3>2. g[i] = f[i] /\ k \in 1 .. n /\ i # k
      BY <1>1, <1>3, <2>2
    <3> QED
      BY <1>1, <1>8, <2>2, <3>1, <3>2 DEF Ordered
  <2>3. CASE a <= i /\ j + m <= n
    <3>0. /\ i + m \in 1 .. n /\ j + m \in 1 .. n /\ i + m < j + m /\ b <= i + m
          /\ a <= j
      BY <1>1, <1>7, <1>8, <2>3
    <3>1. g[i] = f[i + m] /\ g[j] = f[j + m]
      BY <1>3, <2>3, <3>0
    <3>2. f[i + m] < f[j + m]
      BY <3>0 DEF Ordered
    <3>3. f[i + m] \in Int /\ f[j + m] \in Int
      BY <3>0
    <3> QED
      BY <3>1, <3>2, <3>3
  <2>4. CASE a <= i /\ i + m <= n /\ j + m > n
    <3> DEFINE k == j + m - n + a - 1
    <3>1. g[i] = f[i + m] /\ i + m \in 1 .. n /\ b <= i + m
      BY <1>1, <1>3, <1>7, <2>4
    <3>2. g[j] = f[k] /\ k \in a .. b - 1
      <4>1. a <= j /\ j + m > n
        BY <1>1, <1>8, <2>4
      <4> QED
        BY <1>3, <4>1
    <3>3. f[i + m] < a + (n + 1 - b)
      BY <1>6, <3>1
    <3>4. f[k] = k + (n + 1 - b)
      BY <1>5, <3>2
    <3>5. f[i + m] \in Int
      BY <3>1
    <3>6. k \in Int /\ a <= k
      BY <3>2
    <3> HIDE DEF k
    <3>7. f[i + m] < k + (n + 1 - b)
      BY <3>3, <3>5, <3>6
    <3> QED
      BY <2>4, <3>1, <3>2, <3>4, <3>5, <3>6, <3>7
  <2>5. CASE a <= i /\ i + m > n
    <3> DEFINE k == i + m - n + a - 1
               l == j + m - n + a - 1
    <3>0. a <= j /\ j + m > n
      BY <1>1, <1>8, <2>5
    <3>1. g[i] = f[k] /\ k \in a .. b - 1 /\ g[j] = f[l] /\ l \in a .. b - 1
      BY <1>3, <2>5, <3>0
    <3>2. k < l
      BY <1>1, <1>8
    <3> HIDE DEF k, l
    <3>3. f[k] = k + (n + 1 - b) /\ f[l] = l + (n + 1 - b)
      BY <1>5, <3>1
    <3> QED
      BY <3>1, <3>2, <3>3
  <2> QED
    BY <1>1, <1>8, <2>1, <2>2, <2>3, <2>4, <2>5
<1>9. Ordered(g, n, a, a)
  <2>1. \A i, j \in 1 .. n : i # j => i < j \/ j < i
    OBVIOUS
  <2> QED
    BY <1>8, <2>1 DEF Ordered
<1> QED
  BY <1>4, <1>9 DEF g, m

\* argv is shifted as the places are.
LEMMA ArgvFollows ==
  ASSUME IInv
  PROVE  /\ \A a \in 1 .. Len(given) :
              Shifted(argv, a) = [i \in DOMAIN given |-> given[Shifted(from, a)[i]]]
         /\ \A a \in 1 .. Len(given) + 1, b \in 0 .. Len(given) :
              a + b <= Len(given) + 1 =>
              AllShifted(argv, a, b)
                = [i \in DOMAIN given |-> given[AllShifted(from, a, b)[i]]]
<1>1. /\ Len(given) \in Nat /\ DOMAIN given = 1 .. Len(given)
      /\ argv = [i \in 1 .. Len(given) |-> given[from[i]]]
      /\ from \in [1 .. Len(given) -> 1 .. Len(given)]
  BY DEF IInv
<1>2. Len(argv) = Len(given) /\ Len(from) = Len(given)
  BY <1>1
<1>3. ASSUME NEW a \in 1 .. Len(given)
      PROVE  Shifted(argv, a) = [i \in DOMAIN given |-> given[Shifted(from, a)[i]]]
  BY <1>1, <1>2 DEF Shifted
<1>4. ASSUME NEW a \in 1 .. Len(given) + 1, NEW b \in 0 .. Len(given),
             a + b <= Len(given) + 1
      PROVE  AllShifted(argv, a, b)
               = [i \in DOMAIN given |-> given[AllShifted(from, a, b)[i]]]
  BY <1>1, <1>2, <1>4, SMTT(20), SMTT(20) DEF AllShifted
<1> QED
  BY <1>3, <1>4
-----------------------------------------------------------------------------
LEMMA InitIInv == Init => IInv
<1> SUFFICES ASSUME Init PROVE IInv
  OBVIOUS
<1>1. PICK n \in 0 .. MaxArguments : given \in [1 .. n -> Arguments]
  BY DEF Init
<1>2. given \in Seq(Arguments) /\ Len(given) = n /\ n \in Nat
  BY <1>1, CmdoptAssumption
<1>3. /\ from \in [1 .. n -> 1 .. n]
      /\ optnum \in 1 .. n + 1 /\ optind \in 1 .. optnum
  BY <1>1, <1>2 DEF Init
<1>4. Ordered(from, n, optind, optnum) /\ Unread(from, n, optind, optnum)
  BY <1>1, <1>2 DEF Init, Ordered, Unread
<1>5. argv = [i \in DOMAIN given |-> given[from[i]]]
  BY <1>1, <1>2 DEF Init
<1> QED
  BY <1>2, <1>3, <1>4, <1>5 DEF IInv

\* A step that leaves argv alone and reads on.
LEMMA ReadingOn ==
  ASSUME IInv, Reading, UNCHANGED <<given, from, argv, optnum>>,
         optind' \in optind .. optnum
  PROVE  IInv'
<1>0. Len(given) \in Nat /\ optnum' = optnum
  BY DEF IInv
<1>1. /\ Ordered(from, Len(given), optind', optnum)
      /\ Unread(from, Len(given), optind', optnum)
  BY <1>0, ReadOn DEF IInv, Reading
<1> QED
  BY <1>0, <1>1 DEF IInv

LEMMA StepIInv == IInv /\ [Next]_vars => IInv'
<1> SUFFICES ASSUME IInv, [Next]_vars PROVE IInv'
  OBVIOUS
<1>0. /\ Len(given) \in Nat /\ optind \in 1 .. optnum /\ optnum \in 1 .. Len(given) + 1
  BY DEF IInv
<1>1. CASE Operand
  <2>1. /\ Shifted(from, optind) \in [1 .. Len(given) -> 1 .. Len(given)]
        /\ Ordered(Shifted(from, optind), Len(given), optind, optnum - 1)
        /\ Unread(Shifted(from, optind), Len(given), optind, optnum - 1)
    BY <1>0, <1>1, ShiftedInOrder DEF Operand, Reading, IInv
  <2>2. argv' = [i \in DOMAIN given |-> given[Shifted(from, optind)[i]]]
    BY <1>0, <1>1, ArgvFollows DEF Operand, Reading
  <2>3. /\ optnum - 1 \in 1 .. Len(given) + 1 /\ optind \in 1 .. optnum - 1
        /\ UNCHANGED <<given, optind, outcome>>
        /\ from' = Shifted(from, optind) /\ optnum' = optnum - 1
    BY <1>0, <1>1 DEF Operand, Reading
  <2> QED
    BY <2>1, <2>2, <2>3 DEF IInv
<1>2. CASE Enter
  BY <1>0, <1>2, ReadingOn DEF Enter, Reading
<1>3. CASE Leave
  BY <1>0, <1>3, ReadingOn DEF Leave, Reading, cmdopt_next
<1>4. CASE Short
  <2>1. CASE Letter(Head(nextchar))
    BY <1>0, <1>4, <2>1, ReadingOn DEF Short, Reading, Letter
  <2>2. CASE LetterWithArgument(Head(nextchar))
    BY <1>0, <1>4, <2>2, ReadingOn
    DEF Short, Reading, LetterWithArgument, cmdopt_next
  <2>3. CASE Dash
    <3>0. /\ optind + 1 \in optind .. optnum /\ optind + 1 \in 1 .. optnum
          /\ optnum \in 1 .. Len(given) + 1 /\ optind + 1 \in 1 .. Len(given) + 1
          /\ from \in [1 .. Len(given) -> 1 .. Len(given)]
          /\ optind + 1 \in 1 .. optind + 1
      BY <1>0, <1>4 DEF Short, Reading, IInv
    <3>1. /\ Ordered(from, Len(given), optind + 1, optnum)
          /\ Unread(from, Len(given), optind + 1, optnum)
      BY <1>0, <1>4, <3>0, ReadOn DEF Short, Reading, IInv
    <3> DEFINE g == AllShifted(from, optind + 1, optnum - (optind + 1))
    <3>2. /\ g \in [1 .. Len(given) -> 1 .. Len(given)]
          /\ Ordered(g, Len(given), optind + 1, optind + 1)
      BY <1>0, <3>0, <3>1, AllShiftedInOrder
    <3>3. optnum - optind - 1 = optnum - (optind + 1)
      BY <1>0
    <3>4. argv' = [i \in DOMAIN given |-> given[g[i]]]
      <4>1. optnum - (optind + 1) \in 0 .. Len(given) /\ optind + 1 \in 1 .. Len(given) + 1
        BY <1>0, <1>4 DEF Short, Reading
      <4>2. (optind + 1) + (optnum - (optind + 1)) <= Len(given) + 1
        BY <1>0
      <4>3. AllShifted(argv, optind + 1, optnum - (optind + 1))
              = [i \in DOMAIN given |-> given[g[i]]]
        BY <4>1, <4>2, ArgvFollows
      <4> QED
        BY <2>3, <3>3, <4>3 DEF Dash
    <3>5. /\ from' = g /\ optind' = optind + 1 /\ optnum' = optind + 1
          /\ outcome' = "done" /\ given' = given
      BY <2>3, <3>3 DEF Dash, cmdopt_next
    <3> HIDE DEF g
    <3> QED
      BY <3>0, <3>2, <3>4, <3>5 DEF IInv
  <2> QED
    BY <1>4, <2>1, <2>2, <2>3 DEF Short
<1>5. CASE Long
  <2>1. optind' \in optind .. optnum
    BY <1>0, <1>5 DEF Long, Reading, cmdopt_next
  <2> QED
    BY <1>5, <2>1, ReadingOn DEF Long
<1>6. CASE Finish
  BY <1>6 DEF Finish, IInv
<1>7. CASE UNCHANGED vars
  BY <1>7 DEF vars, IInv
<1> QED
  BY <1>1, <1>2, <1>3, <1>4, <1>5, <1>6, <1>7 DEF Next

\* Whatever is typed and whatever options a tool has, argv holds what was typed,
\* each argument once, those that were read and the operands that were moved
\* away each in the order they were typed, and what has not been read untouched.
THEOREM ArgvAlwaysInOrder == Spec => []ArgvInOrder
<1>1. IInv => ArgvInOrder
  <2> SUFFICES ASSUME IInv PROVE ArgvInOrder
    OBVIOUS
  <2>1. DOMAIN given = 1 .. Len(given)
    BY DEF IInv
  <2> QED
    BY <2>1 DEF IInv, ArgvInOrder, Ordered, Unread
<1> QED
  BY <1>1, InitIInv, StepIInv, PTL DEF Spec
-----------------------------------------------------------------------------
(***************************************************************************)
(* What a command line means is well defined: the arguments are read from  *)
(* the last one on.                                                        *)
(***************************************************************************)
Got == STRING \X (Seq(STRING) \cup {Null})

Result ==
  [got : Seq(Got), operands : Seq(Seq(STRING)), end : {"done", "failed", "help"}]

\* Elements of sequences that are put together.
LEMMA Joined ==
  ASSUME NEW S, NEW s \in Seq(S), NEW t \in Seq(S)
  PROVE  /\ s \o t \in Seq(S) /\ Len(s \o t) = Len(s) + Len(t)
         /\ \A i \in 1 .. Len(s) : (s \o t)[i] = s[i]
         /\ \A i \in 1 .. Len(t) : (s \o t)[Len(s) + i] = t[i]
<1>1. Len(s) \in Nat /\ Len(t) \in Nat
  BY LenProperties
<1>2. /\ s \o t \in Seq(S) /\ Len(s \o t) = Len(s) + Len(t)
      /\ \A i \in 1 .. Len(s) + Len(t) :
           (s \o t)[i] = IF i <= Len(s) THEN s[i] ELSE t[i - Len(s)]
  BY ConcatProperties
<1> QED
  BY <1>1, <1>2

\* The rest of a sequence from one of its places on.
LEMMA RestOf ==
  ASSUME NEW S, NEW s \in Seq(S), NEW m \in 1 .. Len(s) + 1
  PROVE  /\ SubSeq(s, m, Len(s)) \in Seq(S)
         /\ Len(SubSeq(s, m, Len(s))) = Len(s) + 1 - m
         /\ \A i \in 1 .. Len(s) + 1 - m : SubSeq(s, m, Len(s))[i] = s[m + i - 1]
<1>1. Len(s) \in Nat /\ \A i \in m .. Len(s) : s[i] \in S
  BY LenProperties, ElementOfSeq
<1>2. /\ SubSeq(s, m, Len(s)) \in Seq(S)
      /\ Len(SubSeq(s, m, Len(s))) = IF m <= Len(s) THEN Len(s) - m + 1 ELSE 0
      /\ \A i \in 1 .. Len(s) - m + 1 : SubSeq(s, m, Len(s))[i] = s[m + i - 1]
  BY <1>1, SubSeqProperties
<1> QED
  BY <1>1, <1>2

\* First() finds the least.
LEMMA FirstIsLeast ==
  ASSUME NEW S \in SUBSET Nat, S # {}
  PROVE  First(S) \in S /\ \A k \in S : First(S) <= k
BY LeastNumber DEF First

\* The name of a long option ends in its argument.
LEMMA NameInText ==
  ASSUME NEW s \in Seq(STRING)
  PROVE  NameLength(s) \in 0 .. Len(s)
<1> DEFINE equals == {i \in 1 .. Len(s) : s[i] = "="}
<1>1. Len(s) \in Nat
  BY LenProperties
<1>2. \E n \in 0 .. Len(s) :
        (\A i \in 1 .. n : s[i] # "=") /\ (n < Len(s) => s[n + 1] = "=")
  <2>1. CASE equals = {}
    <3>1. Len(s) \in 0 .. Len(s) /\ \A i \in 1 .. Len(s) : s[i] # "="
      BY <1>1, <2>1
    <3> QED
      BY <1>1, <3>1
  <2>2. CASE equals # {}
    <3>1. equals \in SUBSET Nat
      OBVIOUS
    <3>2. PICK m \in equals : \A k \in equals : m <= k
      BY <2>2, <3>1, LeastNumber
    <3>3. m \in 1 .. Len(s) /\ s[m] = "=" /\ m - 1 \in 0 .. Len(s) /\ (m - 1) + 1 = m
      BY <1>1, <3>2
    <3>4. \A i \in 1 .. m - 1 : s[i] # "="
      BY <1>1, <3>2
    <3> QED
      BY <3>3, <3>4
  <2> QED
    BY <2>1, <2>2
<1> QED
  BY <1>2 DEF NameLength

LEMMA OptionTyped ==
  ASSUME NEW label \in STRING, NEW arg \in Seq(STRING) \cup {Null}, NEW rest \in Result
  PROVE  Option(label, arg, rest) \in Result
<1>1. <<label, arg>> \in Got
  BY DEF Got
<1>2. << <<label, arg>> >> \in Seq(Got)
  BY <1>1
<1>3. Stop("failed") \in Result /\ Stop("help") \in Result
  <2>1. <<>> \in Seq(Got)
    BY EmptySeq
  <2>2. <<>> \in Seq(Seq(STRING))
    BY EmptySeq
  <2> QED
    BY <2>1, <2>2 DEF Stop, Result
<1>4. ASSUME NEW r \in Result PROVE With(<< <<label, arg>> >>, r) \in Result
  BY <1>2, Joined DEF With, Result
<1> QED
  BY <1>3, <1>4 DEF Option

LEMMA StopTyped ==
  ASSUME NEW end \in {"done", "failed", "help"}
  PROVE  Stop(end) \in Result
<1>1. <<>> \in Seq(Got)
  BY EmptySeq
<1>2. <<>> \in Seq(Seq(STRING))
  BY EmptySeq
<1> QED
  BY <1>1, <1>2 DEF Stop, Result

\* What mean has to say of the arguments after i.
KnownAfter(list, mean, i) ==
  /\ mean[i + 1] \in Result
  /\ i < Len(list) => mean[i + 2] \in Result

LEMMA LetterTyped ==
  ASSUME NEW list \in Seq(Seq(STRING)), NEW i \in 1 .. Len(list), NEW mean,
         KnownAfter(list, mean, i), NEW p \in 1 .. Len(list[i])
  PROVE  LetterMeans(list, mean, i, p) \in Result
<1> DEFINE arg == list[i]
<1>1. Len(list) \in Nat /\ i + 1 \in 1 .. Len(list) + 1
  BY LenProperties
<1>2. arg \in Seq(STRING) /\ arg[p] \in STRING
  BY ElementOfSeq
<1>3. p < Len(arg) => SubSeq(arg, p + 1, Len(arg)) \in Seq(STRING)
  <2>1. Len(arg) \in Nat
    BY <1>2, LenProperties
  <2> QED
    BY <1>2, <2>1, RestOf
<1>4. i < Len(list) => list[i + 1] \in Seq(STRING)
  BY <1>1, ElementOfSeq
<1>5. [Stop("done") EXCEPT !.operands = SubSeq(list, i + 1, Len(list))] \in Result
  <2>1. SubSeq(list, i + 1, Len(list)) \in Seq(Seq(STRING))
    BY <1>1, RestOf
  <2>2. Stop("done") \in Result
    BY StopTyped
  <2> QED
    BY <2>1, <2>2 DEF Result
<1>6. Stop("failed") \in Result
  BY StopTyped
<1>7. Option(arg[p], Null, mean[i + 1]) \in Result
  BY <1>2, OptionTyped DEF KnownAfter
<1>8. p < Len(arg) => Option(arg[p], SubSeq(arg, p + 1, Len(arg)), mean[i + 1]) \in Result
  BY <1>2, <1>3, OptionTyped DEF KnownAfter
<1>9. i < Len(list) => Option(arg[p], list[i + 1], mean[i + 2]) \in Result
  BY <1>2, <1>4, OptionTyped DEF KnownAfter
<1> QED
  BY <1>5, <1>6, <1>7, <1>8, <1>9 DEF LetterMeans

\* The flags from letter p to the one before end.
Flags(arg, p, end) == [j \in 1 .. end - p |-> <<arg[j + p - 1], Null>>]

LEMMA FlagsTyped ==
  ASSUME NEW arg \in Seq(STRING), NEW p \in 1 .. Len(arg) + 1, NEW end \in p .. Len(arg) + 1
  PROVE  Flags(arg, p, end) \in Seq(Got) /\ Len(Flags(arg, p, end)) = end - p
<1>1. Len(arg) \in Nat /\ end - p \in Nat
  BY LenProperties
<1>2. ASSUME NEW j \in 1 .. end - p PROVE <<arg[j + p - 1], Null>> \in Got
  <2>1. j + p - 1 \in 1 .. Len(arg)
    BY <1>1
  <2>2. arg[j + p - 1] \in STRING
    BY <2>1, ElementOfSeq
  <2> QED
    BY <2>2 DEF Got
<1>3. Flags(arg, p, end) \in [1 .. end - p -> Got]
  BY <1>2 DEF Flags
<1> QED
  BY <1>1, <1>3

LEMMA WithTyped ==
  ASSUME NEW labels \in Seq(Got), NEW r \in Result
  PROVE  /\ With(labels, r) \in Result
         /\ With(labels, r).got = labels \o r.got
         /\ With(labels, r).operands = r.operands
         /\ With(labels, r).end = r.end
BY Joined DEF With, Result

\* The letters from p on that end the flags.
Stops(arg, p) == {k \in p .. Len(arg) : ~Flag(arg[k])}

LEMMA LettersByStops ==
  ASSUME NEW list, NEW mean, NEW i, NEW p
  PROVE  LettersMean(list, mean, i, p)
           = IF Stops(list[i], p) = {}
             THEN With(Flags(list[i], p, Len(list[i]) + 1), mean[i + 1])
             ELSE With(Flags(list[i], p, First(Stops(list[i], p))),
                       LetterMeans(list, mean, i, First(Stops(list[i], p))))
BY DEF LettersMean, Stops, Flags

LEMMA StopsLeast ==
  ASSUME NEW arg \in Seq(STRING), NEW p \in 1 .. Len(arg) + 1, Stops(arg, p) # {}
  PROVE  /\ First(Stops(arg, p)) \in p .. Len(arg)
         /\ ~Flag(arg[First(Stops(arg, p))])
         /\ \A k \in p .. Len(arg) : k < First(Stops(arg, p)) => Flag(arg[k])
<1>1. Len(arg) \in Nat
  BY LenProperties
<1>2. Stops(arg, p) \in SUBSET Nat
  BY <1>1 DEF Stops
<1>3. PICK k \in Stops(arg, p) : k = First(Stops(arg, p)) /\ \A j \in Stops(arg, p) : k <= j
  BY <1>2, FirstIsLeast
<1>4. \A j \in p .. Len(arg) : j < k => Flag(arg[j])
  BY <1>1, <1>3 DEF Stops
<1> QED
  BY <1>3, <1>4 DEF Stops

LEMMA LettersTyped ==
  ASSUME NEW list \in Seq(Seq(STRING)), NEW i \in 1 .. Len(list), NEW mean,
         KnownAfter(list, mean, i), NEW p \in 1 .. Len(list[i]) + 1
  PROVE  LettersMean(list, mean, i, p) \in Result
<1>1. list[i] \in Seq(STRING)
  BY ElementOfSeq
<1>2. Len(list[i]) \in Nat
  BY <1>1, LenProperties
<1>3. CASE Stops(list[i], p) = {}
  <2>1. Flags(list[i], p, Len(list[i]) + 1) \in Seq(Got)
    <3>1. Len(list[i]) + 1 \in p .. Len(list[i]) + 1
      BY <1>2
    <3> QED
      BY <1>1, <3>1, FlagsTyped
  <2>2. With(Flags(list[i], p, Len(list[i]) + 1), mean[i + 1]) \in Result
    BY <2>1, WithTyped DEF KnownAfter
  <2> QED
    BY <1>3, <2>2, LettersByStops
<1>4. CASE Stops(list[i], p) # {}
  <2>1. PICK k \in p .. Len(list[i]) : k = First(Stops(list[i], p))
    BY <1>1, <1>4, StopsLeast
  <2>2. k \in 1 .. Len(list[i]) /\ k \in p .. Len(list[i]) + 1
    BY <1>2
  <2>3. Flags(list[i], p, k) \in Seq(Got)
    BY <1>1, <2>2, FlagsTyped
  <2>4. LetterMeans(list, mean, i, k) \in Result
    BY <2>2, LetterTyped
  <2>5. With(Flags(list[i], p, k), LetterMeans(list, mean, i, k)) \in Result
    BY <2>3, <2>4, WithTyped
  <2> QED
    BY <1>4, <2>1, <2>5, LettersByStops
<1> QED
  BY <1>3, <1>4

LEMMA MatchesAreOptions ==
  ASSUME NEW text
  PROVE  /\ Matches(text) \in SUBSET Nat
         /\ Matches(text) \subseteq DOMAIN LongOptions
         /\ Matches(text) # {} =>
              /\ First(Matches(text)) \in DOMAIN LongOptions
              /\ LongOptions[First(Matches(text))].has_arg \in {0, 1}
              /\ LongOptions[First(Matches(text))].label \in STRING \ {"?", ":"}
<1>1. Matches(text) \subseteq DOMAIN LongOptions
  BY DEF Matches
<1>2. DOMAIN LongOptions = 1 .. Len(LongOptions) /\ Len(LongOptions) \in Nat
  BY CmdoptAssumption, LenProperties
<1>3. Matches(text) \in SUBSET Nat
  BY <1>1, <1>2
<1>4. ASSUME Matches(text) # {}
      PROVE  First(Matches(text)) \in DOMAIN LongOptions
  BY <1>1, <1>3, <1>4, FirstIsLeast
<1>5. \A m \in DOMAIN LongOptions :
        /\ LongOptions[m].has_arg \in {0, 1}
        /\ LongOptions[m].label \in STRING \ {"?", ":"}
  <2> DEFINE Entry == [name : Seq(STRING), has_arg : {0, 1}, label : STRING \ {"?", ":"}]
  <2>1. LongOptions \in Seq(Entry)
    BY CmdoptAssumption
  <2> HIDE DEF Entry
  <2>2. \A m \in DOMAIN LongOptions : LongOptions[m] \in Entry
    BY <1>2, <2>1, ElementOfSeq
  <2> QED
    BY <2>2 DEF Entry
<1> QED
  BY <1>1, <1>3, <1>4, <1>5

\* What stands behind the two dashes, and the argument after the equals sign.
LEMMA LongParts ==
  ASSUME NEW arg \in Seq(STRING), Type(arg) = 2
  PROVE  LET text == SubSeq(arg, 3, Len(arg))
         IN  /\ text \in Seq(STRING)
             /\ NameLength(text) \in 0 .. Len(text)
             /\ NameLength(text) < Len(text) =>
                  SubSeq(text, NameLength(text) + 2, Len(text)) \in Seq(STRING)
<1> DEFINE text == SubSeq(arg, 3, Len(arg))
<1>1. Len(arg) \in Nat /\ 3 \in 1 .. Len(arg) + 1
  BY LenProperties DEF Type
<1>2. text \in Seq(STRING)
  BY <1>1, RestOf
<1> HIDE DEF text
<1>3. NameLength(text) \in 0 .. Len(text) /\ Len(text) \in Nat
  BY <1>2, NameInText, LenProperties
<1>4. NameLength(text) < Len(text) => SubSeq(text, NameLength(text) + 2, Len(text)) \in Seq(STRING)
  <2>1. NameLength(text) < Len(text) => NameLength(text) + 2 \in 1 .. Len(text) + 1
    BY <1>3
  <2> QED
    BY <1>2, <2>1, RestOf
<1> QED
  BY <1>2, <1>3, <1>4 DEF text

LEMMA LongTyped ==
  ASSUME NEW list \in Seq(Seq(STRING)), NEW i \in 1 .. Len(list), NEW mean,
         KnownAfter(list, mean, i), Type(list[i]) = 2
  PROVE  LongMeans(list, mean, i) \in Result
<1> DEFINE text == SubSeq(list[i], 3, Len(list[i]))
           n == NameLength(text)
           long == LongOptions[First(Matches(text))]
<1>1. Len(list) \in Nat /\ list[i] \in Seq(STRING)
  BY LenProperties, ElementOfSeq
<1>2. n < Len(text) => SubSeq(text, n + 2, Len(text)) \in Seq(STRING)
  BY <1>1, LongParts
<1>3. Matches(text) # {} => long.label \in STRING
  BY MatchesAreOptions
<1>4. i # Len(list) => i < Len(list) /\ list[i + 1] \in Seq(STRING)
  BY <1>1, ElementOfSeq
<1>5. Stop("failed") \in Result
  BY StopTyped
<1> HIDE DEF text, n, long
<1>6. Matches(text) # {} /\ n < Len(text) =>
        Option(long.label, SubSeq(text, n + 2, Len(text)), mean[i + 1]) \in Result
  BY <1>2, <1>3, OptionTyped DEF KnownAfter
<1>7. Matches(text) # {} => Option(long.label, Null, mean[i + 1]) \in Result
  BY <1>3, OptionTyped DEF KnownAfter
<1>8. Matches(text) # {} /\ i # Len(list) =>
        Option(long.label, list[i + 1], mean[i + 2]) \in Result
  BY <1>3, <1>4, OptionTyped DEF KnownAfter
<1>9. LongMeans(list, mean, i)
        = IF Matches(text) = {} THEN Stop("failed")
          ELSE IF n < Len(text) THEN
            IF long.has_arg = 0 THEN Stop("failed")
            ELSE Option(long.label, SubSeq(text, n + 2, Len(text)), mean[i + 1])
          ELSE IF long.has_arg = 0 THEN Option(long.label, Null, mean[i + 1])
          ELSE IF i = Len(list) THEN Stop("failed")
          ELSE Option(long.label, list[i + 1], mean[i + 2])
  BY DEF LongMeans, text, n, long
<1> QED
  BY <1>5, <1>6, <1>7, <1>8, <1>9

LEMMA Types ==
  ASSUME NEW arg \in Seq(STRING)
  PROVE  /\ Type(arg) \in {0, 1, 2}
         /\ Type(arg) # 0 => Len(arg) >= 2
BY LenProperties DEF Type

LEMMA ArgumentTyped ==
  ASSUME NEW list \in Seq(Seq(STRING)), NEW i \in 1 .. Len(list), NEW mean,
         KnownAfter(list, mean, i)
  PROVE  ArgumentMeans(list, mean, i) \in Result
<1>1. list[i] \in Seq(STRING) /\ Len(list[i]) \in Nat
  BY ElementOfSeq, LenProperties
<1>2. CASE Type(list[i]) = 0
  <2>1. [mean[i + 1] EXCEPT !.operands = <<list[i]>> \o @] \in Result
    <3>1. <<list[i]>> \in Seq(Seq(STRING))
      BY <1>1
    <3>2. \A r \in Result : <<list[i]>> \o r.operands \in Seq(Seq(STRING))
      BY <3>1, Joined DEF Result
    <3> QED
      BY <3>2 DEF KnownAfter, Result
  <2> QED
    BY <1>2, <2>1 DEF ArgumentMeans
<1>3. CASE Type(list[i]) = 1
  <2>1. 2 \in 1 .. Len(list[i]) + 1
    <3>1. Len(list[i]) >= 2
      BY <1>1, <1>3, Types
    <3> QED
      BY <1>1, <3>1
  <2>2. LettersMean(list, mean, i, 2) \in Result
    BY <2>1, LettersTyped
  <2> QED
    BY <1>3, <2>2 DEF ArgumentMeans
<1>4. CASE Type(list[i]) = 2
  <2>1. LongMeans(list, mean, i) \in Result
    BY <1>4, LongTyped
  <2> QED
    BY <1>4, <2>1 DEF ArgumentMeans
<1> QED
  BY <1>1, <1>2, <1>3, <1>4, Types

\* An argument means the same whatever is said of those before it.
LEMMA ArgumentLooksAhead ==
  ASSUME NEW list \in Seq(Seq(STRING)), NEW i \in 1 .. Len(list), NEW mean, NEW other,
         mean[i + 1] = other[i + 1], i < Len(list) => mean[i + 2] = other[i + 2]
  PROVE  ArgumentMeans(list, mean, i) = ArgumentMeans(list, other, i)
<1>1. \A p : LetterMeans(list, mean, i, p) = LetterMeans(list, other, i, p)
  BY DEF LetterMeans
<1>2. LettersMean(list, mean, i, 2) = LettersMean(list, other, i, 2)
  BY <1>1, LettersByStops
<1>3. LongMeans(list, mean, i) = LongMeans(list, other, i)
  <2>1. Len(list) \in Nat /\ (i # Len(list) => i < Len(list))
    BY LenProperties
  <2> QED
    BY <2>1 DEF LongMeans
<1> QED
  BY <1>2, <1>3 DEF ArgumentMeans

\* mean says what the arguments from place i on mean.
SaysFrom(list, mean, i) ==
  /\ mean \in [1 .. Len(list) + 1 -> Result]
  /\ \A k \in i .. Len(list) + 1 :
       mean[k] = IF k > Len(list) THEN Stop("done") ELSE ArgumentMeans(list, mean, k)

LEMMA OneMore ==
  ASSUME NEW list \in Seq(Seq(STRING)), NEW i \in 1 .. Len(list), NEW mean,
         SaysFrom(list, mean, i + 1)
  PROVE  \E more : SaysFrom(list, more, i)
<1> DEFINE n == Len(list)
           more == [mean EXCEPT ![i] = ArgumentMeans(list, mean, i)]
<1>1. n \in Nat /\ i \in 1 .. n
  BY LenProperties
<1>2. mean \in [1 .. n + 1 -> Result]
  BY DEF SaysFrom
<1>3. KnownAfter(list, mean, i)
  <2>1. i + 1 \in 1 .. n + 1 /\ (i < n => i + 2 \in 1 .. n + 1)
    BY <1>1
  <2> QED
    BY <1>2, <2>1 DEF KnownAfter
<1>4. ArgumentMeans(list, mean, i) \in Result
  BY <1>3, ArgumentTyped
<1>5. /\ more \in [1 .. n + 1 -> Result]
      /\ more[i] = ArgumentMeans(list, mean, i)
      /\ \A k \in 1 .. n + 1 : k # i => more[k] = mean[k]
  BY <1>1, <1>2, <1>4
<1> HIDE DEF more
<1>6. ASSUME NEW k \in i .. n
      PROVE  ArgumentMeans(list, more, k) = ArgumentMeans(list, mean, k)
  <2>1. k \in 1 .. n /\ more[k + 1] = mean[k + 1] /\ (k < n => more[k + 2] = mean[k + 2])
    BY <1>1, <1>5
  <2> QED
    BY <2>1, ArgumentLooksAhead
<1>7. ASSUME NEW k \in i .. n + 1
      PROVE  more[k] = IF k > n THEN Stop("done") ELSE ArgumentMeans(list, more, k)
  <2>1. CASE k = i
    BY <1>1, <1>5, <1>6, <2>1
  <2>2. CASE k # i
    <3>1. k \in i + 1 .. n + 1 /\ more[k] = mean[k]
      BY <1>1, <1>5, <2>2
    <3>2. mean[k] = IF k > n THEN Stop("done") ELSE ArgumentMeans(list, mean, k)
      BY <3>1 DEF SaysFrom
    <3>3. ~(k > n) => k \in i .. n
      BY <1>1
    <3> QED
      BY <1>6, <3>1, <3>2, <3>3
  <2> QED
    BY <2>1, <2>2
<1> QED
  BY <1>5, <1>7 DEF SaysFrom

\* The recursion is one: it says what every argument of any list means.
LEMMA MeaningsSay ==
  ASSUME NEW list \in Seq(Seq(STRING))
  PROVE  SaysFrom(list, Meanings(list), 1)
<1> DEFINE n == Len(list)
           S == {d \in Nat : d <= n => \E mean : SaysFrom(list, mean, n + 1 - d)}
<1>1. n \in Nat
  BY LenProperties
<1>2. 0 \in S
  <2> DEFINE mean == [k \in 1 .. n + 1 |-> Stop("done")]
  <2>1. mean \in [1 .. n + 1 -> Result]
    BY StopTyped
  <2>2. \A k \in n + 1 .. n + 1 : mean[k] = Stop("done") /\ k > n
    BY <1>1
  <2>3. SaysFrom(list, mean, n + 1 - 0)
    BY <1>1, <2>1, <2>2 DEF SaysFrom
  <2> QED
    BY <2>3
<1>3. ASSUME NEW d \in Nat, d \in S PROVE d + 1 \in S
  <2> SUFFICES ASSUME d + 1 <= n
               PROVE  \E mean : SaysFrom(list, mean, n + 1 - (d + 1))
    OBVIOUS
  <2>1. PICK mean : SaysFrom(list, mean, n + 1 - d)
    BY <1>1, <1>3
  <2>2. n + 1 - (d + 1) \in 1 .. n /\ (n + 1 - (d + 1)) + 1 = n + 1 - d
    BY <1>1
  <2> HIDE DEF n
  <2> QED
    BY <2>1, <2>2, OneMore DEF n
<1>4. n \in S
  <2> HIDE DEF S
  <2> QED
    BY <1>1, <1>2, <1>3, Induction
<1>5. PICK mean : SaysFrom(list, mean, 1)
  BY <1>1, <1>4
<1> DEFINE Body(f, k) == IF k > n THEN Stop("done") ELSE ArgumentMeans(list, f, k)
<1>6. mean = [k \in 1 .. n + 1 |-> Body(mean, k)]
  BY <1>5 DEF SaysFrom
<1>7. Meanings(list) = CHOOSE f : f = [k \in 1 .. n + 1 |-> Body(f, k)]
  BY DEF Meanings
<1> DEFINE f == Meanings(list)
<1>8. f = [k \in 1 .. n + 1 |-> Body(f, k)]
  BY <1>6, <1>7
<1> HIDE DEF f
<1>9. \A k \in 1 .. n + 1 : f[k] = IF k > n THEN Stop("done") ELSE ArgumentMeans(list, f, k)
  BY <1>8
<1> HIDE DEF n, Body
<1> DEFINE T == {d \in Nat : d <= n => \A k \in n + 1 - d .. n + 1 : f[k] \in Result}
<1>10. 0 \in T
  <2>1. f[n + 1] = Stop("done")
    BY <1>1, <1>9
  <2>2. f[n + 1] \in Result
    BY <2>1, StopTyped
  <2>3. \A k \in n + 1 - 0 .. n + 1 : k = n + 1
    BY <1>1
  <2> QED
    BY <2>2, <2>3
<1>11. ASSUME NEW d \in Nat, d \in T PROVE d + 1 \in T
  <2> SUFFICES ASSUME d + 1 <= n, NEW k \in n + 1 - (d + 1) .. n + 1
               PROVE  f[k] \in Result
    OBVIOUS
  <2>1. \A j \in n + 1 - d .. n + 1 : f[j] \in Result
    BY <1>1, <1>11
  <2>2. CASE k # n - d
    <3>1. k \in n + 1 - d .. n + 1
      BY <1>1, <2>2
    <3> QED
      BY <2>1, <3>1
  <2>3. CASE k = n - d
    <3>1. k \in 1 .. n /\ k + 1 \in n + 1 - d .. n + 1
          /\ (k < n => k + 2 \in n + 1 - d .. n + 1)
      BY <1>1, <2>3
    <3>2. KnownAfter(list, f, k)
      BY <2>1, <3>1 DEF KnownAfter, n
    <3>3. ArgumentMeans(list, f, k) \in Result
      BY <3>1, <3>2, ArgumentTyped DEF n
    <3>4. f[k] = ArgumentMeans(list, f, k)
      BY <1>1, <1>9, <3>1
    <3> QED
      BY <3>3, <3>4
  <2> QED
    BY <2>2, <2>3
<1>12. n \in T
  <2> HIDE DEF T
  <2> QED
    BY <1>1, <1>10, <1>11, Induction
<1>13. \A k \in 1 .. n + 1 : f[k] \in Result
  BY <1>1, <1>12
<1>14. f \in [1 .. n + 1 -> Result]
  <2>1. f = [k \in 1 .. n + 1 |-> f[k]]
    BY <1>8
  <2> QED
    BY <1>13, <2>1
<1> QED
  BY <1>9, <1>14 DEF SaysFrom, n, f
-----------------------------------------------------------------------------
(***************************************************************************)
(* Reading the letters of an argument one after the other.                 *)
(***************************************************************************)
LEMMA WithNothing ==
  ASSUME NEW r \in Result
  PROVE  With(<<>>, r) = r
<1>1. <<>> \o r.got = r.got
  BY ConcatEmptySeq DEF Result
<1> QED
  BY <1>1 DEF With, Result

LEMMA WithMore ==
  ASSUME NEW s \in Seq(Got), NEW t \in Seq(Got), NEW r \in Result
  PROVE  With(s \o t, r) = With(s, With(t, r))
<1>1. (s \o t) \o r.got = s \o (t \o r.got)
  BY ConcatAssociative DEF Result
<1> QED
  BY <1>1 DEF With, Result

LEMMA NoFlags ==
  ASSUME NEW arg \in Seq(STRING), NEW p \in 1 .. Len(arg) + 1
  PROVE  Flags(arg, p, p) = <<>>
<1>1. p \in p .. Len(arg) + 1 /\ p - p = 0
  BY LenProperties
<1>2. Flags(arg, p, p) \in Seq(Got) /\ Len(Flags(arg, p, p)) = 0
  BY <1>1, FlagsTyped
<1> QED
  BY <1>2, EmptySeq

LEMMA OneFlagMore ==
  ASSUME NEW arg \in Seq(STRING), NEW p \in 1 .. Len(arg), NEW end \in p + 1 .. Len(arg) + 1
  PROVE  Flags(arg, p, end) = << <<arg[p], Null>> >> \o Flags(arg, p + 1, end)
<1> DEFINE one == << <<arg[p], Null>> >>
           more == Flags(arg, p + 1, end)
           all == Flags(arg, p, end)
<1>1. Len(arg) \in Nat /\ p \in 1 .. Len(arg) + 1 /\ p + 1 \in 1 .. Len(arg) + 1
      /\ end \in p .. Len(arg) + 1
  BY LenProperties
<1>2. all \in Seq(Got) /\ Len(all) = end - p
  BY <1>1, FlagsTyped
<1>3. more \in Seq(Got) /\ Len(more) = end - (p + 1)
  BY <1>1, FlagsTyped
<1>4. one \in Seq(Got) /\ Len(one) = 1 /\ one[1] = <<arg[p], Null>>
  <2>1. arg[p] \in STRING
    BY ElementOfSeq
  <2> QED
    BY <2>1 DEF Got
<1>5. /\ \A j \in 1 .. end - p : all[j] = <<arg[j + p - 1], Null>>
      /\ \A j \in 1 .. end - (p + 1) : more[j] = <<arg[j + (p + 1) - 1], Null>>
  BY DEF Flags
<1> HIDE DEF one, more, all
<1>6. /\ one \o more \in Seq(Got) /\ Len(one \o more) = 1 + Len(more)
      /\ \A j \in 1 .. 1 : (one \o more)[j] = one[j]
      /\ \A j \in 1 .. Len(more) : (one \o more)[1 + j] = more[j]
  <2>1. /\ one \o more \in Seq(Got) /\ Len(one \o more) = Len(one) + Len(more)
        /\ \A j \in 1 .. Len(one) : (one \o more)[j] = one[j]
        /\ \A j \in 1 .. Len(more) : (one \o more)[Len(one) + j] = more[j]
    <3>1. one \in Seq(Got) /\ more \in Seq(Got)
      BY <1>3, <1>4
    <3> QED
      BY ONLY <3>1, Joined
  <2> QED
    BY <1>4, <2>1
<1>7. ASSUME NEW j \in 1 .. Len(all) PROVE all[j] = (one \o more)[j]
  <2>1. CASE j = 1
    <3>1. all[1] = <<arg[p], Null>>
      <4>1. 1 \in 1 .. end - p /\ 1 + p - 1 = p
        BY <1>1
      <4> QED
        BY <1>5, <4>1
    <3> QED
      BY <1>4, <1>6, <2>1, <3>1
  <2>2. CASE j # 1
    <3>1. PICK k \in 1 .. Len(more) : j = 1 + k
      <4>1. j - 1 \in 1 .. Len(more) /\ j = 1 + (j - 1)
        BY <1>1, <1>2, <1>3, <2>2
      <4> QED
        BY <4>1
    <3>2. k \in 1 .. end - (p + 1) /\ k + (p + 1) - 1 = (1 + k) + p - 1 /\ 1 + k \in 1 .. end - p
      BY <1>1, <1>3, <3>1
    <3>3. more[k] = <<arg[k + (p + 1) - 1], Null>> /\ all[1 + k] = <<arg[(1 + k) + p - 1], Null>>
      BY <1>5, <3>2
    <3> QED
      BY <1>6, <3>1, <3>2, <3>3
  <2> QED
    BY <2>1, <2>2
<1>8. Len(all) = Len(one \o more)
  BY <1>1, <1>2, <1>3, <1>6
<1>9. all = one \o more
  BY <1>2, <1>6, <1>7, <1>8, SeqEqual
<1> QED
  BY <1>9 DEF all, one, more

\* No letter is left.
LEMMA NoLetters ==
  ASSUME NEW list \in Seq(Seq(STRING)), NEW i \in 1 .. Len(list), NEW mean,
         KnownAfter(list, mean, i)
  PROVE  LettersMean(list, mean, i, Len(list[i]) + 1) = mean[i + 1]
<1>1. list[i] \in Seq(STRING)
  BY ElementOfSeq
<1>2. Len(list[i]) \in Nat
  BY <1>1, LenProperties
<1>3. Stops(list[i], Len(list[i]) + 1) = {}
  BY <1>2 DEF Stops
<1>4. Flags(list[i], Len(list[i]) + 1, Len(list[i]) + 1) = <<>>
  BY <1>1, <1>2, NoFlags
<1>5. With(<<>>, mean[i + 1]) = mean[i + 1]
  BY WithNothing DEF KnownAfter
<1> QED
  BY <1>3, <1>4, <1>5, LettersByStops

\* A flag, and then the letters behind it.
LEMMA FlagFirst ==
  ASSUME NEW list \in Seq(Seq(STRING)), NEW i \in 1 .. Len(list), NEW mean,
         KnownAfter(list, mean, i), NEW p \in 1 .. Len(list[i]), Flag(list[i][p])
  PROVE  LettersMean(list, mean, i, p)
           = With(<< <<list[i][p], Null>> >>, LettersMean(list, mean, i, p + 1))
<1> DEFINE arg == list[i]
           one == << <<arg[p], Null>> >>
<1>1. arg \in Seq(STRING)
  BY ElementOfSeq
<1>2. Len(arg) \in Nat /\ p \in 1 .. Len(arg) + 1 /\ p + 1 \in 1 .. Len(arg) + 1
  BY <1>1, LenProperties
<1>3. Stops(arg, p) = Stops(arg, p + 1)
  BY <1>2 DEF Stops
<1>4. one \in Seq(Got)
  <2>1. arg[p] \in STRING
    BY <1>1, ElementOfSeq
  <2> QED
    BY <2>1 DEF Got
<1>5. ASSUME NEW end \in p + 1 .. Len(arg) + 1, NEW r \in Result
      PROVE  With(Flags(arg, p, end), r) = With(one, With(Flags(arg, p + 1, end), r))
  <2>1. Flags(arg, p, end) = one \o Flags(arg, p + 1, end)
    BY <1>1, OneFlagMore
  <2>2. Flags(arg, p + 1, end) \in Seq(Got)
    BY <1>1, <1>2, FlagsTyped
  <2> HIDE DEF one
  <2> QED
    BY <1>4, <2>1, <2>2, WithMore
<1> HIDE DEF arg, one
<1>6. CASE Stops(arg, p) = {}
  <2>1. Len(arg) + 1 \in p + 1 .. Len(arg) + 1 /\ mean[i + 1] \in Result
    BY <1>2 DEF KnownAfter
  <2>2. With(Flags(arg, p, Len(arg) + 1), mean[i + 1])
          = With(one, With(Flags(arg, p + 1, Len(arg) + 1), mean[i + 1]))
    BY <1>5, <2>1
  <2>3. /\ LettersMean(list, mean, i, p) = With(Flags(arg, p, Len(arg) + 1), mean[i + 1])
        /\ LettersMean(list, mean, i, p + 1)
             = With(Flags(arg, p + 1, Len(arg) + 1), mean[i + 1])
    BY <1>3, <1>6, LettersByStops DEF arg
  <2> QED
    BY <2>2, <2>3 DEF one, arg
<1>7. CASE Stops(arg, p) # {}
  <2>1. PICK k \in p + 1 .. Len(arg) : k = First(Stops(arg, p + 1))
    BY <1>1, <1>2, <1>3, <1>7, StopsLeast
  <2>2. k \in p + 1 .. Len(arg) + 1 /\ k \in 1 .. Len(arg)
    BY <1>2, <2>1
  <2>3. LetterMeans(list, mean, i, k) \in Result
    BY <2>2, LetterTyped DEF arg
  <2>4. With(Flags(arg, p, k), LetterMeans(list, mean, i, k))
          = With(one, With(Flags(arg, p + 1, k), LetterMeans(list, mean, i, k)))
    BY <1>5, <2>2, <2>3
  <2>5. /\ LettersMean(list, mean, i, p)
             = With(Flags(arg, p, k), LetterMeans(list, mean, i, k))
        /\ LettersMean(list, mean, i, p + 1)
             = With(Flags(arg, p + 1, k), LetterMeans(list, mean, i, k))
    BY <1>3, <1>7, <2>1, LettersByStops DEF arg
  <2> QED
    BY <2>4, <2>5 DEF one, arg
<1> QED
  BY <1>6, <1>7

\* A letter that is not a flag.
LEMMA OtherFirst ==
  ASSUME NEW list \in Seq(Seq(STRING)), NEW i \in 1 .. Len(list), NEW mean,
         KnownAfter(list, mean, i), NEW p \in 1 .. Len(list[i]), ~Flag(list[i][p])
  PROVE  LettersMean(list, mean, i, p) = LetterMeans(list, mean, i, p)
<1>1. list[i] \in Seq(STRING)
  BY ElementOfSeq
<1>2. Len(list[i]) \in Nat /\ p \in 1 .. Len(list[i]) + 1
  BY <1>1, LenProperties
<1>3. Stops(list[i], p) # {} /\ p \in Stops(list[i], p) /\ Stops(list[i], p) \in SUBSET Nat
  <2>1. p \in p .. Len(list[i])
    BY <1>2
  <2>2. p \in Stops(list[i], p)
    BY <2>1 DEF Stops
  <2>3. Stops(list[i], p) \in SUBSET Nat
    BY <1>2 DEF Stops
  <2> QED
    BY <2>2, <2>3
<1>4. PICK k \in Stops(list[i], p) : k = First(Stops(list[i], p)) /\ k <= p
  BY <1>3, FirstIsLeast
<1>5. k = p
  BY <1>2, <1>4 DEF Stops
<1>6. Flags(list[i], p, p) = <<>>
  BY <1>1, <1>2, NoFlags
<1>7. LetterMeans(list, mean, i, p) \in Result
  BY LetterTyped
<1> QED
  BY <1>3, <1>4, <1>5, <1>6, <1>7, LettersByStops, WithNothing
-----------------------------------------------------------------------------
(***************************************************************************)
(* While the tool reads, the command line means what it has been given so  *)
(* far, the operands that were moved away and what is still to be read.    *)
(***************************************************************************)
Meant(whole, labels, operands, rest) ==
  /\ whole.got = labels \o rest.got
  /\ whole.operands = operands \o rest.operands
  /\ whole.end = rest.end

\* The loop of main() has ended as the command line says.
Told(whole, labels, end, operands) ==
  /\ whole.got = labels
  /\ whole.end = end
  /\ end = "done" => whole.operands = operands

\* The place in given of the argument that is read next.
At == optind + (Len(given) + 1 - optnum)

\* What stands in argv from a place on.
RestFrom(list, i) == SubSeq(list, i, Len(list))

\* s is what is left of an argument from its letter p on.
Suffix(s, arg, p) ==
  /\ s \in Seq(STRING) /\ Len(s) = Len(arg) + 1 - p
  /\ \A j \in 1 .. Len(s) : s[j] = arg[p + j - 1]

BetweenArguments == nextchar = Null \/ optind = optnum

LettersLeft(p) ==
  /\ Suffix(nextchar, given[At], p)
  /\ Meant(Meaning(given), got, RestFrom(argv, optnum),
           LettersMean(given, Meanings(given), At, p))

MeantInv ==
  /\ got \in Seq(Got)
  /\ nextchar \in Seq(STRING) \cup {Null}
  /\ outcome = "reading" /\ BetweenArguments =>
       Meant(Meaning(given), got, RestFrom(argv, optnum), Meanings(given)[At])
  /\ outcome = "reading" /\ ~BetweenArguments =>
       \E p \in 2 .. Len(given[At]) + 1 : LettersLeft(p)
  /\ outcome # "reading" =>
       Told(Meaning(given), got, outcome, RestFrom(argv, optind))

LEMMA MeantWith ==
  ASSUME NEW whole, NEW g \in Seq(Got), NEW ops, NEW labels \in Seq(Got), NEW r \in Result,
         Meant(whole, g, ops, With(labels, r))
  PROVE  Meant(whole, g \o labels, ops, r)
<1>1. g \o (labels \o r.got) = (g \o labels) \o r.got
  BY ConcatAssociative, SMTT(20) DEF Result
<1> QED
  BY <1>1, WithTyped DEF Meant

LEMMA MeantStop ==
  ASSUME NEW whole, NEW g \in Seq(Got), NEW ops \in Seq(Seq(STRING)),
         NEW end \in {"done", "failed", "help"}, Meant(whole, g, ops, Stop(end))
  PROVE  whole.got = g /\ whole.operands = ops /\ whole.end = end
<1>1. g \o <<>> = g
  BY ConcatEmptySeq
<1>2. ops \o <<>> = ops
  BY ConcatEmptySeq
<1> QED
  BY <1>1, <1>2 DEF Meant, Stop

\* main() is given an option the command line has.
LEMMA ReturnMeant ==
  ASSUME NEW label \in STRING \ {"?", ":"}, NEW optarg \in Seq(STRING) \cup {Null},
         NEW r \in Result, NEW whole, NEW ops \in Seq(Seq(STRING)), got \in Seq(Got),
         Meant(whole, got, ops, Option(label, optarg, r)), Return(label, optarg)
  PROVE  /\ got' \in Seq(Got)
         /\ outcome' = "reading" => Meant(whole, got', ops, r)
         /\ outcome' # "reading" => \A rest : Told(whole, got', outcome', rest)
         /\ <<label, optarg>> \in Refused \/ label = "h" => outcome' # "reading"
<1> DEFINE option == <<label, optarg>>
           more == Append(got, option)
<1>1. option \in Got
  BY DEF Got
<1>2. got' = more /\ more = got \o <<option>> /\ <<option>> \in Seq(Got)
  <2>1. got' = more
    BY DEF Return
  <2> HIDE DEF option
  <2>2. more = got \o <<option>>
    BY <1>1, AppendIsConcat
  <2>3. <<option>> \in Seq(Got)
    BY <1>1
  <2> QED
    BY <2>1, <2>2, <2>3
<1>3. more \in Seq(Got)
  BY <1>1
<1> HIDE DEF more
<1>4. CASE option \in Refused
  <2>1. outcome' = "failed"
    BY <1>4 DEF Return
  <2>2. Meant(whole, got, ops, With(<<option>>, Stop("failed")))
    BY <1>4 DEF Option
  <2>3. Stop("failed") \in Result
    BY StopTyped
  <2>4. Meant(whole, more, ops, Stop("failed"))
    BY <1>2, <2>2, <2>3, MeantWith
  <2>5. whole.got = more /\ whole.end = "failed"
    BY <1>3, <2>4, MeantStop
  <2> QED
    BY <1>2, <1>3, <2>1, <2>5 DEF Told
<1>5. CASE option \notin Refused /\ label = "h"
  <2>1. outcome' = "help"
    BY <1>5 DEF Return
  <2>2. Meant(whole, got, ops, With(<<option>>, Stop("help")))
    BY <1>5 DEF Option
  <2>3. Stop("help") \in Result
    BY StopTyped
  <2>4. Meant(whole, more, ops, Stop("help"))
    BY <1>2, <2>2, <2>3, MeantWith
  <2>5. whole.got = more /\ whole.end = "help"
    BY <1>3, <2>4, MeantStop
  <2> QED
    BY <1>2, <1>3, <2>1, <2>5 DEF Told
<1>6. CASE option \notin Refused /\ label # "h"
  <2>1. outcome' = "reading"
    BY <1>6 DEF Return
  <2>2. Meant(whole, got, ops, With(<<option>>, r))
    BY <1>6 DEF Option
  <2>3. Meant(whole, more, ops, r)
    BY <1>2, <2>2, MeantWith
  <2> QED
    BY <1>2, <1>3, <1>6, <2>1, <2>3
<1> QED
  BY <1>4, <1>5, <1>6

\* main() is given '?' or ':'.
LEMMA ReturnFailed ==
  ASSUME NEW label \in {"?", ":"}, NEW optarg, NEW whole, NEW ops \in Seq(Seq(STRING)),
         got \in Seq(Got), Meant(whole, got, ops, Stop("failed")), Return(label, optarg)
  PROVE  /\ got' = got /\ outcome' = "failed"
         /\ \A rest : Told(whole, got', outcome', rest)
<1>1. got' = got /\ outcome' = "failed"
  BY DEF Return
<1>2. whole.got = got /\ whole.end = "failed"
  BY MeantStop
<1> QED
  BY <1>1, <1>2 DEF Told
-----------------------------------------------------------------------------
\* The arguments as they stand while the loop runs.
LEMMA Standing ==
  ASSUME IInv
  PROVE  /\ given \in Seq(Seq(STRING)) /\ Len(given) \in Nat
         /\ argv \in Seq(Seq(STRING)) /\ Len(argv) = Len(given)
         /\ RestFrom(argv, optnum) \in Seq(Seq(STRING))
         /\ At \in 1 .. Len(given) + 1
         /\ optind = optnum => At = Len(given) + 1
         /\ SaysFrom(given, Meanings(given), 1)
<1>1. given \in Seq(Seq(STRING))
  BY CmdoptAssumption, SeqMonotonic DEF IInv
<1>2. Len(given) \in Nat /\ DOMAIN given = 1 .. Len(given)
  BY <1>1, LenProperties
<1>3. argv \in [1 .. Len(given) -> Seq(STRING)]
  <2>1. \A i \in 1 .. Len(given) : given[i] \in Seq(STRING)
    BY <1>1, ElementOfSeq
  <2> QED
    BY <1>2, <2>1 DEF IInv
<1>4. argv \in Seq(Seq(STRING)) /\ Len(argv) = Len(given)
  BY <1>2, <1>3
<1>5. optnum \in 1 .. Len(argv) + 1 /\ optind \in 1 .. optnum
  BY <1>4 DEF IInv
<1>6. RestFrom(argv, optnum) \in Seq(Seq(STRING))
  BY <1>4, <1>5, RestOf DEF RestFrom
<1>7. At \in 1 .. Len(given) + 1 /\ (optind = optnum => At = Len(given) + 1)
  <2>1. /\ Len(given) \in Nat /\ optnum \in 1 .. Len(given) + 1
        /\ optind \in 1 .. optnum
    BY <1>2, <1>4, <1>5
  <2> QED
    BY ONLY <2>1 DEF At
<1> QED
  BY <1>1, <1>2, <1>4, <1>6, <1>7, MeaningsSay

LEMMA StandingNext ==
  ASSUME IInv, Reading
  PROVE  /\ optind \in 1 .. Len(given) /\ At \in 1 .. Len(given)
         /\ argv[optind] = given[At] /\ given[At] \in Seq(STRING) /\ Len(given[At]) \in Nat
         /\ optind + 1 < optnum => /\ At < Len(given)
                                   /\ argv[optind + 1] = given[At + 1]
                                   /\ given[At + 1] \in Seq(STRING)
         /\ optind + 1 = optnum => At = Len(given)
         /\ KnownAfter(given, Meanings(given), At)
         /\ Meanings(given)[At] = ArgumentMeans(given, Meanings(given), At)
         /\ Meanings(given)[At + 1] \in Result
<1> DEFINE n == Len(given)
           M == Meanings(given)
<1>1. /\ n \in Nat /\ DOMAIN given = 1 .. n /\ SaysFrom(given, M, 1)
      /\ given \in Seq(Seq(STRING))
  BY Standing, LenProperties
<1>2. /\ optnum \in 1 .. n + 1 /\ optind \in 1 .. optnum - 1 /\ Unread(from, n, optind, optnum)
      /\ argv = [i \in DOMAIN given |-> given[from[i]]]
  BY <1>1 DEF IInv, Reading
<1>3. optind \in 1 .. n /\ At \in 1 .. n
  BY <1>1, <1>2 DEF At
<1>4. \A i \in optind .. optnum - 1 : from[i] = i + (n + 1 - optnum)
  BY <1>2 DEF Unread
<1>5. argv[optind] = given[At]
  <2>1. from[optind] = At
    BY <1>1, <1>2, <1>4 DEF At
  <2> QED
    BY <1>1, <1>2, <1>3, <2>1
<1>6. ASSUME optind + 1 < optnum PROVE At < n /\ argv[optind + 1] = given[At + 1]
  <2>1. optind + 1 \in optind .. optnum - 1 /\ optind + 1 \in 1 .. n
    BY <1>1, <1>2, <1>6
  <2>2. from[optind + 1] = At + 1
    BY <1>1, <1>2, <1>4, <2>1 DEF At
  <2>3. At < n
    BY <1>1, <1>2, <1>6 DEF At
  <2> QED
    BY <1>1, <1>2, <2>1, <2>2, <2>3
<1>7. optind + 1 = optnum => At = n
  <2>1. n \in Nat /\ optnum \in 1 .. n + 1 /\ optind \in 1 .. optnum - 1
    BY <1>1, <1>2
  <2> HIDE DEF n
  <2>2. optind + 1 = optnum => optind + (n + 1 - optnum) = n
    BY ONLY <2>1
  <2> QED
    BY <2>2 DEF At, n
<1>8. given[At] \in Seq(STRING) /\ (At < n => given[At + 1] \in Seq(STRING))
  BY <1>1, <1>3, ElementOfSeq
<1>9. Len(given[At]) \in Nat
  BY <1>8, LenProperties
<1>10. M[At + 1] \in Result /\ (At < n => M[At + 2] \in Result)
  <2>1. At + 1 \in 1 .. n + 1 /\ (At < n => At + 2 \in 1 .. n + 1)
    BY <1>1, <1>3
  <2> QED
    BY <1>1, <2>1 DEF SaysFrom
<1>11. M[At] = ArgumentMeans(given, M, At)
  <2>1. At \in 1 .. n + 1 /\ ~(At > n)
    BY <1>1, <1>3
  <2> QED
    BY <1>1, <2>1 DEF SaysFrom
<1> QED
  BY <1>3, <1>5, <1>6, <1>7, <1>8, <1>9, <1>10, <1>11 DEF KnownAfter

\* A step of an argument that is read leaves the arguments as they stand, and
\* what main() got is what the command line means.
Onward ==
  /\ UNCHANGED <<given, argv, optnum>>
  /\ got' \in Seq(Got)
  /\ nextchar' \in Seq(STRING) \cup {Null}
  /\ outcome' # "reading" => \A rest : Told(Meaning(given), got', outcome', rest)

\* ... up to the next argument.
LEMMA ReadTo ==
  ASSUME Onward, BetweenArguments',
         outcome' = "reading" =>
           Meant(Meaning(given), got', RestFrom(argv, optnum),
                 Meanings(given)[optind' + (Len(given) + 1 - optnum)])
  PROVE  MeantInv'
<1>1. At' = optind' + (Len(given) + 1 - optnum)
  BY DEF At, Onward
<1>2. outcome' = "reading" =>
        Meant(Meaning(given), got', RestFrom(argv, optnum), Meanings(given)[At'])
  BY <1>1
<1>3. /\ Meaning(given)' = Meaning(given) /\ Meanings(given)' = Meanings(given)
      /\ RestFrom(argv, optnum)' = RestFrom(argv, optnum)
  BY DEF Onward
<1>4. got' \in Seq(Got) /\ nextchar' \in Seq(STRING) \cup {Null}
  BY DEF Onward
<1>5. outcome' # "reading" => Told(Meaning(given), got', outcome', RestFrom(argv, optind)')
  BY DEF Onward
<1> QED
  BY <1>2, <1>3, <1>4, <1>5 DEF MeantInv

\* ... or up to a letter of the same argument.
LEMMA ReadInside ==
  ASSUME Onward, ~BetweenArguments', optind' = optind,
         NEW p \in 2 .. Len(given[At]) + 1,
         outcome' = "reading" =>
           /\ Suffix(nextchar', given[At], p)
           /\ Meant(Meaning(given), got', RestFrom(argv, optnum),
                    LettersMean(given, Meanings(given), At, p))
  PROVE  MeantInv'
<1>1. At' = At /\ given[At]' = given[At]
  BY DEF At, Onward
<1>2. /\ Meaning(given)' = Meaning(given) /\ Meanings(given)' = Meanings(given)
      /\ RestFrom(argv, optnum)' = RestFrom(argv, optnum) /\ given' = given
  BY DEF Onward
<1>3. outcome' = "reading" => LettersLeft(p)'
  BY <1>1, <1>2 DEF LettersLeft
<1>4. outcome' = "reading" => \E q \in 2 .. Len(given[At]') + 1 : LettersLeft(q)'
  BY <1>1, <1>3
<1>5. got' \in Seq(Got) /\ nextchar' \in Seq(STRING) \cup {Null}
  BY DEF Onward
<1>6. outcome' # "reading" => Told(Meaning(given), got', outcome', RestFrom(argv, optind)')
  BY DEF Onward
<1> QED
  BY <1>2, <1>4, <1>5, <1>6 DEF MeantInv

\* Where an argument begins.
LEMMA AtArgument ==
  ASSUME IInv, MeantInv, Reading, nextchar = Null
  PROVE  Meant(Meaning(given), got, RestFrom(argv, optnum),
               ArgumentMeans(given, Meanings(given), At))
<1>1. Meant(Meaning(given), got, RestFrom(argv, optnum), Meanings(given)[At])
  BY DEF MeantInv, Reading, BetweenArguments
<1>2. Meanings(given)[At] = ArgumentMeans(given, Meanings(given), At)
  BY StandingNext
<1> QED
  BY <1>1, <1>2

LEMMA AtLetter ==
  ASSUME IInv, MeantInv, Reading, nextchar # Null
  PROVE  /\ nextchar \in Seq(STRING)
         /\ \E p \in 2 .. Len(given[At]) + 1 : LettersLeft(p)
<1>1. optind # optnum
  BY DEF IInv, Reading
<1> QED
  BY <1>1 DEF MeantInv, BetweenArguments, Reading

LEMMA TailSuffix ==
  ASSUME NEW s \in Seq(STRING), s # <<>>, NEW arg \in Seq(STRING), NEW p \in 1 .. Len(arg) + 1,
         Suffix(s, arg, p)
  PROVE  /\ p \in 1 .. Len(arg) /\ Head(s) = arg[p]
         /\ Suffix(Tail(s), arg, p + 1)
         /\ Tail(s) = <<>> <=> p = Len(arg)
         /\ Tail(s) # <<>> => Tail(s) = SubSeq(arg, p + 1, Len(arg))
<1>1. Len(s) \in Nat \ {0} /\ Len(arg) \in Nat
  BY EmptySeq, LenProperties
<1>2. /\ Tail(s) \in Seq(STRING) /\ Len(Tail(s)) = Len(s) - 1
      /\ \A j \in 1 .. Len(Tail(s)) : Tail(s)[j] = s[j + 1]
  BY HeadTailProperties
<1>3. p \in 1 .. Len(arg) /\ Head(s) = arg[p]
  <2>1. p \in 1 .. Len(arg) /\ 1 \in 1 .. Len(s) /\ p + 1 - 1 = p
    BY <1>1 DEF Suffix
  <2>2. s[1] = arg[p + 1 - 1]
    BY <2>1 DEF Suffix
  <2> QED
    BY <1>1, <2>1, <2>2
<1>4. Suffix(Tail(s), arg, p + 1)
  <2>1. Len(Tail(s)) = Len(arg) + 1 - (p + 1)
    BY <1>1, <1>2 DEF Suffix
  <2>2. ASSUME NEW j \in 1 .. Len(Tail(s)) PROVE Tail(s)[j] = arg[(p + 1) + j - 1]
    <3>1. j + 1 \in 1 .. Len(s) /\ p + (j + 1) - 1 = (p + 1) + j - 1
      BY <1>1, <1>2
    <3>2. s[j + 1] = arg[p + (j + 1) - 1]
      BY <3>1 DEF Suffix
    <3> QED
      BY <1>2, <3>1, <3>2
  <2> QED
    BY <1>2, <2>1, <2>2 DEF Suffix
<1>5. Tail(s) = <<>> <=> p = Len(arg)
  <2>1. Len(Tail(s)) = Len(arg) - p
    BY <1>1, <1>2 DEF Suffix
  <2>2. Tail(s) = <<>> <=> Len(Tail(s)) = 0
    BY <1>2, EmptySeq
  <2>3. Len(arg) - p = 0 <=> p = Len(arg)
    BY <1>1, <1>3
  <2> QED
    BY ONLY <2>1, <2>2, <2>3, Zenon
<1>6. Tail(s) = SubSeq(arg, p + 1, Len(arg))
  <2> DEFINE t == Tail(s)
             u == SubSeq(arg, p + 1, Len(arg))
  <2>1. p + 1 \in 1 .. Len(arg) + 1
    BY <1>1, <1>3
  <2>2. /\ u \in Seq(STRING) /\ Len(u) = Len(arg) + 1 - (p + 1)
        /\ \A j \in 1 .. Len(arg) + 1 - (p + 1) : u[j] = arg[(p + 1) + j - 1]
    BY <2>1, RestOf
  <2>3. /\ t \in Seq(STRING) /\ Len(t) = Len(arg) + 1 - (p + 1)
        /\ \A j \in 1 .. Len(t) : t[j] = arg[(p + 1) + j - 1]
    BY <1>4 DEF Suffix
  <2> HIDE DEF t, u
  <2>4. Len(t) = Len(u) /\ \A j \in 1 .. Len(t) : t[j] = u[j]
    BY <2>2, <2>3
  <2>5. t = u
    BY <2>2, <2>3, <2>4, SeqEqual
  <2> QED
    BY <2>5 DEF t, u
<1> QED
  BY <1>3, <1>4, <1>5, <1>6

LEMMA WholeSuffix ==
  ASSUME NEW arg \in Seq(STRING), Len(arg) >= 1
  PROVE  Tail(arg) \in Seq(STRING) /\ Suffix(Tail(arg), arg, 2)
<1>1. Len(arg) \in Nat
  BY LenProperties
<1>2. arg # <<>>
  BY <1>1, EmptySeq
<1>3. Suffix(arg, arg, 1)
  <2>1. \A j \in 1 .. Len(arg) : 1 + j - 1 = j
    BY <1>1
  <2> QED
    BY <1>1, <2>1 DEF Suffix
<1>4. 1 \in 1 .. Len(arg) + 1
  BY <1>1
<1>5. Suffix(Tail(arg), arg, 1 + 1)
  BY <1>2, <1>3, <1>4, TailSuffix
<1> QED
  BY <1>5 DEF Suffix
-----------------------------------------------------------------------------
LEMMA InitMeantInv == Init => MeantInv
<1> SUFFICES ASSUME Init PROVE MeantInv
  OBVIOUS
<1>1. IInv
  BY InitIInv
<1>2. /\ got = <<>> /\ nextchar = Null /\ outcome = "reading"
      /\ optind = 1 /\ optnum = Len(given) + 1 /\ argv = given
  BY DEF Init
<1>3. /\ given \in Seq(Seq(STRING)) /\ Len(given) \in Nat
      /\ SaysFrom(given, Meanings(given), 1)
  BY <1>1, Standing
<1>4. At = 1
  BY <1>2, <1>3 DEF At
<1>5. RestFrom(argv, optnum) = <<>>
  BY <1>2, <1>3, SubSeqEmpty DEF RestFrom
<1>6. Meanings(given)[1] \in Result
  BY <1>3 DEF SaysFrom
<1>7. Meant(Meaning(given), <<>>, <<>>, Meanings(given)[1])
  <2> DEFINE r == Meanings(given)[1]
  <2> HIDE DEF r
  <2>1. r \in Result
    BY <1>6 DEF r
  <2>2. <<>> \o r.got = r.got
    BY <2>1, ConcatEmptySeq DEF Result
  <2>3. <<>> \o r.operands = r.operands
    BY <2>1, ConcatEmptySeq DEF Result
  <2> QED
    BY <2>2, <2>3 DEF Meant, Meaning, r
<1>8. <<>> \in Seq(Got)
  BY EmptySeq
<1> QED
  BY <1>2, <1>4, <1>5, <1>7, <1>8 DEF MeantInv, BetweenArguments

\* An argument more at the end of some, and others behind it.
LEMMA OneBehind ==
  ASSUME NEW moved \in Seq(Seq(STRING)), NEW arg \in Seq(STRING),
         NEW rest \in Seq(Seq(STRING))
  PROVE  moved \o (<<arg>> \o rest) = (moved \o <<arg>>) \o rest
<1> DEFINE T == Seq(STRING)
           one == <<arg>>
<1>1. moved \in Seq(T) /\ rest \in Seq(T) /\ one \in Seq(T)
  OBVIOUS
<1> HIDE DEF T, one
<1>2. moved \o (one \o rest) = (moved \o one) \o rest
  BY <1>1, ConcatAssociative, SMTT(20)
<1> QED
  BY <1>2 DEF one

\* An operand that is moved away.
LEMMA OperandMeant ==
  ASSUME IInv, MeantInv, Operand
  PROVE  MeantInv'
<1> DEFINE n == Len(given)
           arg == given[At]
           M == Meanings(given)
           moved == RestFrom(argv, optnum)
<1>1. Reading /\ nextchar = Null /\ Type(argv[optind]) = 0
  BY DEF Operand
<1>2. /\ n \in Nat /\ Len(argv) = n /\ argv \in Seq(Seq(STRING)) /\ moved \in Seq(Seq(STRING))
  BY Standing
<1>3. /\ optind \in 1 .. n /\ argv[optind] = arg /\ arg \in Seq(STRING)
      /\ M[At + 1] \in Result /\ At \in 1 .. n
  BY <1>1, StandingNext
<1>4. optnum \in 1 .. n + 1 /\ optind < optnum
  BY <1>1 DEF IInv, Reading
<1>5. Meant(Meaning(given), got, moved, [M[At + 1] EXCEPT !.operands = <<arg>> \o @])
  BY <1>1, <1>3, AtArgument DEF ArgumentMeans
<1>6. Meant(Meaning(given), got, moved \o <<arg>>, M[At + 1])
  <2> DEFINE r == M[At + 1]
  <2> HIDE DEF r, moved, arg
  <2>1. r \in Result /\ <<arg>> \in Seq(Seq(STRING)) /\ moved \in Seq(Seq(STRING))
    BY <1>2, <1>3 DEF r
  <2>2. moved \o (<<arg>> \o r.operands) = (moved \o <<arg>>) \o r.operands
    <3>1. r.operands \in Seq(Seq(STRING)) /\ arg \in Seq(STRING)
      BY <1>3, <2>1 DEF Result
    <3> QED
      BY <2>1, <3>1, OneBehind
  <2>3. LET s == [r EXCEPT !.operands = <<arg>> \o @]
        IN  s.got = r.got /\ s.end = r.end /\ s.operands = <<arg>> \o r.operands
    BY <2>1 DEF Result
  <2> QED
    BY <1>5, <2>2, <2>3 DEF Meant, r
<1>7. /\ argv' = Shifted(argv, optind) /\ optnum' = optnum - 1
      /\ UNCHANGED <<given, optind, nextchar, got, outcome>>
  BY DEF Operand
<1>8. RestFrom(argv', optnum') = moved \o <<arg>>
  <2> DEFINE more == Shifted(argv, optind)
             b == optnum - 1
  <2>1. /\ more \in Seq(Seq(STRING)) /\ Len(more) = n
        /\ \A k \in 1 .. n : more[k] = IF k < optind THEN argv[k]
                                       ELSE IF k < n THEN argv[k + 1] ELSE argv[optind]
    <3>1. DOMAIN argv = 1 .. n /\ \A k \in 1 .. n : argv[k] \in Seq(STRING)
      BY <1>2, LenProperties, ElementOfSeq
    <3>2. more = [k \in 1 .. n |-> IF k < optind THEN argv[k]
                                   ELSE IF k < n THEN argv[k + 1] ELSE argv[optind]]
      BY <1>2, <3>1 DEF Shifted
    <3>3. ASSUME NEW k \in 1 .. n
          PROVE  (IF k < optind THEN argv[k] ELSE IF k < n THEN argv[k + 1] ELSE argv[optind])
                   \in Seq(STRING)
      <4>1. k < n => k + 1 \in 1 .. n
        BY <1>2
      <4> QED
        BY <1>3, <3>1, <4>1
    <3>4. more \in [1 .. n -> Seq(STRING)]
      BY <3>2, <3>3
    <3>5. \A k \in 1 .. n : more[k] = IF k < optind THEN argv[k]
                                       ELSE IF k < n THEN argv[k + 1] ELSE argv[optind]
      BY <3>2
    <3> HIDE DEF more, n
    <3>6. more \in Seq(Seq(STRING)) /\ Len(more) = n
      BY ONLY <1>2, <3>4
    <3> QED
      BY <3>5, <3>6
  <2>2. b \in 1 .. n /\ b \in 1 .. n + 1 /\ optind <= b /\ optnum = b + 1
    BY <1>2, <1>3, <1>4
  <2> HIDE DEF more, n, b
  <2>3. /\ RestFrom(more, b) \in Seq(Seq(STRING)) /\ Len(RestFrom(more, b)) = n + 1 - b
        /\ \A i \in 1 .. n + 1 - b : RestFrom(more, b)[i] = more[b + i - 1]
    BY <2>1, <2>2, RestOf DEF RestFrom
  <2>4. /\ Len(moved) = n + 1 - optnum
        /\ \A i \in 1 .. n + 1 - optnum : moved[i] = argv[optnum + i - 1]
    BY <1>2, <1>4, RestOf DEF RestFrom
  <2> HIDE DEF moved, arg
  <2>5. /\ moved \o <<arg>> \in Seq(Seq(STRING)) /\ Len(moved \o <<arg>>) = Len(moved) + 1
        /\ \A i \in 1 .. Len(moved) : (moved \o <<arg>>)[i] = moved[i]
        /\ (moved \o <<arg>>)[Len(moved) + 1] = arg
    <3>1. moved \in Seq(Seq(STRING)) /\ arg \in Seq(STRING)
      BY <1>2, <1>3
    <3>2. moved \o <<arg>> = Append(moved, arg)
      BY ONLY <3>1, AppendIsConcat
    <3> QED
      BY ONLY <3>1, <3>2, AppendProperties
  <2>6. ASSUME NEW i \in 1 .. n + 1 - b
        PROVE  RestFrom(more, b)[i] = (moved \o <<arg>>)[i]
    <3>1. RestFrom(more, b)[i] = more[b + i - 1] /\ b + i - 1 \in 1 .. n /\ ~(b + i - 1 < optind)
      <4>1. n \in Nat /\ optind \in 1 .. n /\ b \in 1 .. n /\ optind <= b
        BY <1>2, <1>3, <2>2
      <4>2. b + i - 1 \in 1 .. n /\ ~(b + i - 1 < optind)
        BY ONLY <4>1, i \in 1 .. n + 1 - b
      <4> QED
        BY <2>3, <4>2
    <3>2. CASE i <= Len(moved)
      <4>1. b + i - 1 < n /\ (b + i - 1) + 1 = optnum + i - 1 /\ i \in 1 .. n + 1 - optnum
        BY <1>2, <2>2, <2>4, <3>2
      <4>2. more[b + i - 1] = argv[optnum + i - 1]
        BY <2>1, <3>1, <4>1
      <4> QED
        BY <2>4, <2>5, <3>1, <4>1, <4>2
    <3>3. CASE i > Len(moved)
      <4>1. b + i - 1 = n /\ i = Len(moved) + 1
        BY <1>2, <2>2, <2>4, <3>3
      <4>2. more[b + i - 1] = argv[optind]
        BY <2>1, <3>1, <4>1
      <4> QED
        BY <1>3, <2>5, <3>1, <4>1, <4>2
    <3> QED
      BY <1>2, <2>2, <2>4, <3>2, <3>3
  <2>7. Len(RestFrom(more, b)) = Len(moved \o <<arg>>)
    BY <1>2, <2>2, <2>3, <2>4, <2>5
  <2>8. RestFrom(more, b) = moved \o <<arg>>
    BY <2>3, <2>5, <2>6, <2>7, SeqEqual
  <2> QED
    BY <1>7, <2>8 DEF more, b
<1>9. At' = At + 1
  BY <1>2, <1>3, <1>4, <1>7 DEF At
<1>10. Meant(Meaning(given'), got', RestFrom(argv', optnum'), Meanings(given')[At'])
  BY <1>6, <1>7, <1>8, <1>9
<1>11. BetweenArguments' /\ outcome' = "reading"
  BY <1>1, <1>7 DEF BetweenArguments, Reading
<1> QED
  BY <1>7, <1>10, <1>11 DEF MeantInv

\* The first letter of an argument of letters.
LEMMA EnterMeant ==
  ASSUME IInv, MeantInv, Enter
  PROVE  MeantInv'
<1>1. Reading /\ nextchar = Null /\ Type(argv[optind]) = 1
  BY DEF Enter
<1>2. /\ argv[optind] = given[At] /\ given[At] \in Seq(STRING) /\ Len(given[At]) \in Nat
  BY <1>1, StandingNext
<1>3. Len(given[At]) >= 2
  BY <1>1, <1>2, Types
<1>4. Meant(Meaning(given), got, RestFrom(argv, optnum), LettersMean(given, Meanings(given), At, 2))
  BY <1>1, <1>2, AtArgument DEF ArgumentMeans
<1>5. nextchar' = Tail(given[At]) /\ UNCHANGED <<given, argv, optind, optnum, got, outcome>>
  BY <1>2 DEF Enter
<1>6. nextchar' \in Seq(STRING) /\ Suffix(nextchar', given[At], 2)
  <2>1. Len(given[At]) >= 1
    BY <1>2, <1>3
  <2>2. Tail(given[At]) \in Seq(STRING) /\ Suffix(Tail(given[At]), given[At], 2)
    BY <1>2, <2>1, WholeSuffix
  <2> QED
    BY <1>5, <2>2
<1>7. nextchar' # Null /\ optind' # optnum'
  <2>1. nextchar' # Null
    BY <1>6, CmdoptAssumption
  <2>2. optind # optnum
    BY <1>1 DEF IInv, Reading
  <2> QED
    BY <1>5, <2>1, <2>2
<1>8. Onward /\ ~BetweenArguments' /\ optind' = optind
  BY <1>1, <1>5, <1>6, <1>7 DEF Onward, BetweenArguments, Reading, MeantInv
<1>9. 2 \in 2 .. Len(given[At]) + 1
  BY <1>2, <1>3
<1> QED
  BY <1>4, <1>5, <1>6, <1>8, <1>9, ReadInside

\* Behind the last letter.
LEMMA LeaveMeant ==
  ASSUME IInv, MeantInv, Leave
  PROVE  MeantInv'
<1> DEFINE M == Meanings(given)
           arg == given[At]
<1>1. Reading /\ nextchar = <<>> /\ <<>> \in Seq(STRING)
  BY EmptySeq DEF Leave
<1>2. nextchar # Null
  BY <1>1, CmdoptAssumption
<1>3. PICK p \in 2 .. Len(arg) + 1 : LettersLeft(p)
  BY <1>1, <1>2, AtLetter
<1>4. /\ given \in Seq(Seq(STRING)) /\ At \in 1 .. Len(given) /\ KnownAfter(given, M, At)
      /\ Len(arg) \in Nat
  BY <1>1, Standing, StandingNext
<1>5. p = Len(arg) + 1
  <2>1. Len(nextchar) = 0
    BY <1>1, EmptySeq
  <2>2. Len(nextchar) = Len(arg) + 1 - p
    BY <1>3 DEF LettersLeft, Suffix
  <2> HIDE DEF arg
  <2> QED
    BY <1>3, <1>4, <2>1, <2>2
<1>6. Meant(Meaning(given), got, RestFrom(argv, optnum), M[At + 1])
  BY <1>3, <1>4, <1>5, NoLetters DEF LettersLeft
<1>7. /\ optind' = optind + 1 /\ nextchar' = Null
      /\ UNCHANGED <<given, from, argv, optnum, got, outcome>>
  BY DEF Leave, cmdopt_next
<1>8. Onward /\ BetweenArguments'
  BY <1>1, <1>7 DEF Onward, BetweenArguments, Reading, MeantInv
<1>9. optind' + (Len(given) + 1 - optnum) = At + 1
  <2>1. Len(given) \in Nat /\ optind \in Int /\ optnum \in Int
    BY Standing DEF IInv
  <2> QED
    BY <1>7, <2>1 DEF At
<1> QED
  BY <1>6, <1>7, <1>8, <1>9, ReadTo

\* What is left to read at a letter, and what comes behind the letter.
LetterAt(p) ==
  /\ p \in 2 .. Len(given[At]) /\ p \in 1 .. Len(given[At])
  /\ p + 1 \in 2 .. Len(given[At]) + 1
  /\ Head(nextchar) = given[At][p] /\ given[At][p] \in STRING
  /\ Suffix(Tail(nextchar), given[At], p + 1)
  /\ Tail(nextchar) = <<>> <=> p = Len(given[At])
  /\ Tail(nextchar) # <<>> =>
       Tail(nextchar) = SubSeq(given[At], p + 1, Len(given[At]))

LEMMA AtShort ==
  ASSUME IInv, MeantInv, Reading, nextchar \notin {Null, <<>>}
  PROVE  \E p \in 2 .. Len(given[At]) :
           /\ LetterAt(p)
           /\ Flag(given[At][p]) =>
                Meant(Meaning(given), got, RestFrom(argv, optnum),
                      With(<< <<given[At][p], Null>> >>,
                           LettersMean(given, Meanings(given), At, p + 1)))
           /\ ~Flag(given[At][p]) =>
                Meant(Meaning(given), got, RestFrom(argv, optnum),
                      LetterMeans(given, Meanings(given), At, p))
<1> DEFINE M == Meanings(given)
           arg == given[At]
<1>1. PICK p \in 2 .. Len(arg) + 1 : LettersLeft(p)
  BY AtLetter
<1>2. /\ given \in Seq(Seq(STRING)) /\ At \in 1 .. Len(given) /\ KnownAfter(given, M, At)
      /\ arg \in Seq(STRING) /\ Len(arg) \in Nat
  BY Standing, StandingNext
<1>3. nextchar \in Seq(STRING) /\ nextchar # <<>>
  BY AtLetter
<1>4. p \in 1 .. Len(arg) + 1 /\ Suffix(nextchar, arg, p)
  BY <1>1, <1>2 DEF LettersLeft
<1>5. /\ p \in 1 .. Len(arg) /\ Head(nextchar) = arg[p]
      /\ Suffix(Tail(nextchar), arg, p + 1)
      /\ Tail(nextchar) = <<>> <=> p = Len(arg)
      /\ Tail(nextchar) # <<>> => Tail(nextchar) = SubSeq(arg, p + 1, Len(arg))
  BY <1>2, <1>3, <1>4, TailSuffix
<1>6. arg[p] \in STRING
  BY <1>2, <1>5, ElementOfSeq
<1>7. p \in 2 .. Len(arg) /\ p + 1 \in 2 .. Len(arg) + 1
  BY <1>1, <1>2, <1>5
<1>8. LetterAt(p)
  BY <1>5, <1>6, <1>7 DEF LetterAt
<1>9. Meant(Meaning(given), got, RestFrom(argv, optnum), LettersMean(given, M, At, p))
  BY <1>1 DEF LettersLeft
<1>10. Flag(arg[p]) => LettersMean(given, M, At, p)
                         = With(<< <<arg[p], Null>> >>, LettersMean(given, M, At, p + 1))
  BY <1>2, <1>5, FlagFirst
<1>11. ~Flag(arg[p]) => LettersMean(given, M, At, p) = LetterMeans(given, M, At, p)
  BY <1>2, <1>5, OtherFirst
<1> QED
  BY <1>7, <1>8, <1>9, <1>10, <1>11

\* A letter that takes no argument, or that is no option.
LEMMA LetterMeant ==
  ASSUME IInv, MeantInv, Reading, nextchar \notin {Null, <<>>}, Letter(Head(nextchar))
  PROVE  MeantInv'
<1> DEFINE M == Meanings(given)
           moved == RestFrom(argv, optnum)
<1>1. PICK p \in 2 .. Len(given[At]) :
        /\ LetterAt(p)
        /\ Flag(given[At][p]) =>
             Meant(Meaning(given), got, moved,
                   With(<< <<given[At][p], Null>> >>, LettersMean(given, M, At, p + 1)))
        /\ ~Flag(given[At][p]) =>
             Meant(Meaning(given), got, moved, LetterMeans(given, M, At, p))
  BY AtShort
<1> DEFINE label == given[At][p]
<1>2. /\ given \in Seq(Seq(STRING)) /\ At \in 1 .. Len(given) /\ KnownAfter(given, M, At)
      /\ moved \in Seq(Seq(STRING)) /\ M[At + 1] \in Result /\ got \in Seq(Got)
  BY Standing, StandingNext DEF MeantInv
<1>3. /\ nextchar' = Tail(nextchar) /\ UNCHANGED <<given, from, argv, optind, optnum>>
      /\ \/ label \in Letters /\ ShortOptions[label] = 0 /\ Return(label, Null)
         \/ label \notin Letters \cup {"-"} /\ Return("?", Null)
  <2>1. Head(nextchar) = label
    BY <1>1 DEF LetterAt
  <2> HIDE DEF label
  <2> QED
    BY <2>1 DEF Letter
<1>4. nextchar' \in Seq(STRING) /\ Suffix(nextchar', given[At], p + 1) /\ label \in STRING
      /\ p + 1 \in 2 .. Len(given[At]) + 1 /\ p + 1 \in 1 .. Len(given[At]) + 1
  <2>1. /\ Suffix(Tail(nextchar), given[At], p + 1) /\ label \in STRING
        /\ p + 1 \in 2 .. Len(given[At]) + 1
    BY <1>1 DEF LetterAt
  <2>2. p + 1 \in 1 .. Len(given[At]) + 1
    BY <2>1
  <2> QED
    BY <1>3, <2>1, <2>2 DEF Suffix
<1>5. ~BetweenArguments' /\ optind' = optind
  <2>1. optind # optnum
    BY DEF IInv, Reading
  <2>2. nextchar' # Null
    BY <1>4, CmdoptAssumption
  <2> QED
    BY <1>3, <2>1, <2>2 DEF BetweenArguments
<1>6. ASSUME got' \in Seq(Got),
             outcome' = "reading" =>
               Meant(Meaning(given), got', moved, LettersMean(given, M, At, p + 1)),
             outcome' # "reading" => \A rest : Told(Meaning(given), got', outcome', rest)
      PROVE  MeantInv'
  <2>1. Onward
    BY <1>3, <1>4, <1>6 DEF Onward
  <2> QED
    BY <1>4, <1>5, <1>6, <2>1, ReadInside
<1>7. CASE label \in Letters /\ ShortOptions[label] = 0 /\ Return(label, Null)
  <2>1. label \in STRING \ {"?", ":"} /\ Null \in Seq(STRING) \cup {Null} /\ label # "-"
    BY <1>4, <1>7, CmdoptAssumption
  <2>2. CASE Flag(label)
    <3>1. LettersMean(given, M, At, p + 1) \in Result
      BY <1>2, <1>4, LettersTyped
    <3> DEFINE r == LettersMean(given, M, At, p + 1)
    <3>2. Meant(Meaning(given), got, moved, Option(label, Null, r))
      BY <1>1, <2>2 DEF Option, Flag
    <3> HIDE DEF r, label, moved
    <3>3. /\ got' \in Seq(Got)
          /\ outcome' = "reading" => Meant(Meaning(given), got', moved, r)
          /\ outcome' # "reading" => \A rest : Told(Meaning(given), got', outcome', rest)
      BY <1>2, <1>7, <2>1, <3>1, <3>2, ReturnMeant DEF r
    <3> QED
      BY <1>6, <3>3 DEF r
  <2>3. CASE ~Flag(label)
    <3>1. Meant(Meaning(given), got, moved, Option(label, Null, M[At + 1]))
      BY <1>1, <1>7, <2>1, <2>3 DEF LetterMeans
    <3>2. <<label, Null>> \in Refused \/ label = "h"
      BY <1>7, <2>3 DEF Flag
    <3> DEFINE r == M[At + 1]
    <3>3. r \in Result
      BY <1>2
    <3> HIDE DEF r, label, moved
    <3>4. /\ got' \in Seq(Got)
          /\ outcome' # "reading" => \A rest : Told(Meaning(given), got', outcome', rest)
          /\ <<label, Null>> \in Refused \/ label = "h" => outcome' # "reading"
      BY <1>2, <1>7, <2>1, <3>1, <3>3, ReturnMeant DEF r
    <3> QED
      BY <1>6, <3>2, <3>4
  <2> QED
    BY <2>2, <2>3
<1>8. CASE label \notin Letters \cup {"-"} /\ Return("?", Null)
  <2>1. ~Flag(label)
    BY <1>8 DEF Flag
  <2>2. Meant(Meaning(given), got, moved, Stop("failed"))
    BY <1>1, <1>8, <2>1 DEF LetterMeans
  <2> HIDE DEF label, moved
  <2>3. /\ got' = got /\ outcome' = "failed"
        /\ \A rest : Told(Meaning(given), got', outcome', rest)
    BY <1>2, <1>8, <2>2, ReturnFailed
  <2> QED
    BY <1>2, <1>6, <2>3
<1> QED
  BY <1>3, <1>7, <1>8

\* An option that main() is given before the next argument is read.
LEMMA OptionMeant ==
  ASSUME IInv, MeantInv, Reading, UNCHANGED <<given, argv, optnum>>, BetweenArguments',
         nextchar' \in Seq(STRING) \cup {Null},
         NEW label \in STRING \ {"?", ":"}, NEW optarg \in Seq(STRING) \cup {Null},
         Return(label, optarg), NEW k \in 1 .. Len(given) + 1,
         optind' + (Len(given) + 1 - optnum) = k,
         Meant(Meaning(given), got, RestFrom(argv, optnum),
               Option(label, optarg, Meanings(given)[k]))
  PROVE  MeantInv'
<1> DEFINE r == Meanings(given)[k]
           moved == RestFrom(argv, optnum)
<1>1. moved \in Seq(Seq(STRING)) /\ got \in Seq(Got) /\ r \in Result
  BY Standing DEF SaysFrom, MeantInv
<1> HIDE DEF moved, r
<1>2. /\ got' \in Seq(Got)
      /\ outcome' = "reading" => Meant(Meaning(given), got', moved, r)
      /\ outcome' # "reading" => \A rest : Told(Meaning(given), got', outcome', rest)
  BY <1>1, ReturnMeant DEF moved, r
<1>3. Onward
  BY <1>2 DEF Onward
<1> QED
  BY <1>2, <1>3, ReadTo DEF moved, r

LEMMA FailureMeant ==
  ASSUME IInv, MeantInv, Reading, UNCHANGED <<given, argv, optnum>>, BetweenArguments',
         nextchar' \in Seq(STRING) \cup {Null},
         NEW label \in {"?", ":"}, NEW optarg, Return(label, optarg),
         Meant(Meaning(given), got, RestFrom(argv, optnum), Stop("failed"))
  PROVE  MeantInv'
<1> DEFINE moved == RestFrom(argv, optnum)
<1>1. moved \in Seq(Seq(STRING)) /\ got \in Seq(Got)
  BY Standing DEF MeantInv
<1> HIDE DEF moved
<1>2. /\ got' = got /\ outcome' = "failed"
      /\ \A rest : Told(Meaning(given), got', outcome', rest)
  BY <1>1, ReturnFailed DEF moved
<1>3. Onward
  BY <1>1, <1>2 DEF Onward
<1> QED
  BY <1>2, <1>3, ReadTo

\* A letter that takes an argument: the rest of its own, or the next one.
LEMMA WithArgumentMeant ==
  ASSUME IInv, MeantInv, Reading, nextchar \notin {Null, <<>>},
         LetterWithArgument(Head(nextchar))
  PROVE  MeantInv'
<1> DEFINE M == Meanings(given)
           moved == RestFrom(argv, optnum)
           n == Len(given)
<1>1. PICK p \in 2 .. Len(given[At]) :
        /\ LetterAt(p)
        /\ ~Flag(given[At][p]) => Meant(Meaning(given), got, moved, LetterMeans(given, M, At, p))
  BY AtShort
<1> DEFINE label == given[At][p]
           rest == Tail(nextchar)
<1>2. /\ n \in Nat /\ Len(argv) = n /\ argv \in Seq(Seq(STRING)) /\ At \in 1 .. n
      /\ optind + 1 < optnum => /\ At < n /\ argv[optind + 1] = given[At + 1]
                                /\ given[At + 1] \in Seq(STRING)
      /\ optind + 1 = optnum => At = n
      /\ optnum \in 1 .. n + 1 /\ optind \in 1 .. n
  BY Standing, StandingNext DEF IInv
<1>3. /\ Head(nextchar) = label /\ label \in STRING /\ rest \in Seq(STRING)
      /\ rest = <<>> <=> p = Len(given[At])
      /\ rest # <<>> => rest = SubSeq(given[At], p + 1, Len(given[At]))
      /\ p \in 2 .. Len(given[At])
  BY <1>1 DEF LetterAt, Suffix
<1> HIDE DEF rest
<1>4. /\ UNCHANGED <<given, argv, optnum>>
      /\ label \in Letters /\ ShortOptions[label] > 0
      /\ \/ rest # <<>> /\ cmdopt_next /\ Return(label, rest)
         \/ /\ rest = <<>> /\ optind + 1 < optnum
            /\ Return(label, argv[optind + 1])
            /\ optind' = optind + 2 /\ nextchar' = Null
         \/ /\ rest = <<>> /\ optind + 1 = optnum
            /\ Return(IF ShortOptions[label] = 2 THEN label ELSE ":", Null)
            /\ optind' = optind + 1
            /\ nextchar' = IF optnum <= Len(argv) THEN argv[optnum] ELSE Null
  <2> HIDE DEF label
  <2> QED
    BY <1>3 DEF LetterWithArgument, rest
<1>5. /\ label \in STRING \ {"?", ":"} /\ label # "-" /\ label \in Letters
      /\ ShortOptions[label] \in 1 .. 2 /\ ShortOptions[label] # 0 /\ ~Flag(label)
  <2>1. ShortOptions[label] \in 0 .. 2 /\ label \in STRING \ {"-", "?", ":"}
    BY <1>4, CmdoptAssumption
  <2> HIDE DEF label
  <2> QED
    BY <1>4, <2>1 DEF Flag
<1>6. Meant(Meaning(given), got, moved, LetterMeans(given, M, At, p))
  BY <1>1, <1>5
<1>7. LetterMeans(given, M, At, p)
        = IF p < Len(given[At])
          THEN Option(label, SubSeq(given[At], p + 1, Len(given[At])), M[At + 1])
          ELSE IF At < n THEN Option(label, given[At + 1], M[At + 2])
          ELSE IF ShortOptions[label] = 2 THEN Option(label, Null, M[At + 1])
          ELSE Stop("failed")
  BY <1>5 DEF LetterMeans
<1>8. p < Len(given[At]) <=> p # Len(given[At])
  BY <1>3
<1>9. optind + 1 + (n + 1 - optnum) = At + 1 /\ optind + 2 + (n + 1 - optnum) = At + 2
  BY <1>2 DEF At
<1> HIDE DEF label, n, moved, M
<1>10. CASE rest # <<>> /\ cmdopt_next /\ Return(label, rest)
  <2>1. /\ optind' = optind + 1 /\ nextchar' = Null /\ BetweenArguments'
    BY <1>10 DEF cmdopt_next, BetweenArguments
  <2>2. Meant(Meaning(given), got, moved, Option(label, rest, M[At + 1]))
    BY <1>3, <1>6, <1>7, <1>8, <1>10
  <2>3. At + 1 \in 1 .. n + 1 /\ optind' + (n + 1 - optnum) = At + 1
    BY <1>2, <1>9, <2>1
  <2> QED
    BY <1>3, <1>4, <1>5, <1>10, <2>1, <2>2, <2>3, OptionMeant DEF moved, n, M
<1>11. CASE /\ rest = <<>> /\ optind + 1 < optnum
            /\ Return(label, argv[optind + 1])
            /\ optind' = optind + 2 /\ nextchar' = Null
  <2>1. BetweenArguments'
    BY <1>11 DEF BetweenArguments
  <2>2. At < n /\ argv[optind + 1] = given[At + 1] /\ given[At + 1] \in Seq(STRING)
    BY <1>2, <1>11
  <2>3. Meant(Meaning(given), got, moved, Option(label, given[At + 1], M[At + 2]))
    BY <1>3, <1>6, <1>7, <1>8, <1>11, <2>2
  <2>4. At + 2 \in 1 .. n + 1 /\ optind' + (n + 1 - optnum) = At + 2
    <3>1. At + 2 \in 1 .. n + 1
      <4>1. n \in Nat /\ At \in 1 .. n /\ At < n
        BY <1>2, <2>2
      <4> QED
        BY ONLY <4>1
    <3> QED
      BY <1>9, <1>11, <3>1
  <2>5. Return(label, given[At + 1])
    BY <1>11, <2>2
  <2> QED
    BY <1>4, <1>5, <1>11, <2>1, <2>2, <2>3, <2>4, <2>5, OptionMeant DEF moved, n, M
<1>12. CASE /\ rest = <<>> /\ optind + 1 = optnum
            /\ Return(IF ShortOptions[label] = 2 THEN label ELSE ":", Null)
            /\ optind' = optind + 1
            /\ nextchar' = IF optnum <= Len(argv) THEN argv[optnum] ELSE Null
  <2>1. BetweenArguments'
    BY <1>4, <1>12 DEF BetweenArguments
  <2>2. nextchar' \in Seq(STRING) \cup {Null}
    <3>1. optnum <= Len(argv) => argv[optnum] \in Seq(STRING)
      <4>1. optnum <= Len(argv) => optnum \in 1 .. Len(argv)
        BY <1>2
      <4> QED
        BY <1>2, <4>1, ElementOfSeq
    <3> QED
      BY <1>12, <3>1
  <2>3. At = n /\ ~(At < n)
    BY <1>2, <1>12
  <2>4. CASE ShortOptions[label] = 2
    <3>1. Meant(Meaning(given), got, moved, Option(label, Null, M[At + 1]))
      BY <1>3, <1>6, <1>7, <1>8, <1>12, <2>3, <2>4
    <3>2. At + 1 \in 1 .. n + 1 /\ optind' + (n + 1 - optnum) = At + 1
      BY <1>2, <1>9, <1>12
    <3>3. Return(label, Null)
      BY <1>12, <2>4
    <3> QED
      BY <1>4, <1>5, <2>1, <2>2, <3>1, <3>2, <3>3, OptionMeant DEF moved, n, M
  <2>5. CASE ShortOptions[label] # 2
    <3>1. Meant(Meaning(given), got, moved, Stop("failed"))
      BY <1>3, <1>6, <1>7, <1>8, <1>12, <2>3, <2>5
    <3>2. Return(":", Null)
      BY <1>12, <2>5
    <3> QED
      BY <1>4, <2>1, <2>2, <3>1, <3>2, FailureMeant DEF moved
  <2> QED
    BY <2>4, <2>5
<1> QED
  BY <1>4, <1>10, <1>11, <1>12

\* Where the arguments that were not read stand after "--": behind the operands
\* that were moved away before.
LEMMA DashMoves ==
  ASSUME NEW n \in Nat, NEW list \in Seq(Seq(STRING)), Len(list) = n,
         NEW b \in 1 .. n + 1, NEW a \in 1 .. b
  PROVE  LET all == AllShifted(list, a, b - a)
         IN  /\ all \in Seq(Seq(STRING)) /\ Len(all) = n
             /\ \A i \in 1 .. n + 1 - a :
                  RestFrom(all, a)[i] =
                    IF i <= n + 1 - b THEN list[b + i - 1] ELSE list[a + i - (n + 1 - b) - 1]
             /\ RestFrom(all, a) \in Seq(Seq(STRING))
             /\ Len(RestFrom(all, a)) = n + 1 - a
<1> DEFINE m == b - a
           all == AllShifted(list, a, m)
           At1(k) == IF k < a THEN list[k]
                     ELSE IF k + m <= n THEN list[k + m] ELSE list[k + m - n + a - 1]
<1>1. m \in Nat /\ a + m = b /\ m <= n
  OBVIOUS
<1>2. DOMAIN list = 1 .. n /\ \A k \in 1 .. n : list[k] \in Seq(STRING)
  BY LenProperties, ElementOfSeq
<1>3. all = [k \in 1 .. n |-> At1(k)]
  BY <1>2 DEF AllShifted
<1> HIDE DEF m, all
<1>4. ASSUME NEW k \in 1 .. n PROVE At1(k) \in Seq(STRING)
  <2>1. CASE k < a
    BY <1>2, <2>1
  <2>2. CASE ~(k < a) /\ k + m <= n
    <3>1. k + m \in 1 .. n
      BY <1>1, <2>2
    <3> QED
      BY <1>2, <2>2, <3>1
  <2>3. CASE ~(k < a) /\ ~(k + m <= n)
    <3>1. k + m - n + a - 1 \in 1 .. n
      BY <1>1, <2>3
    <3> QED
      BY <1>2, <2>3, <3>1
  <2> QED
    BY <2>1, <2>2, <2>3
<1> HIDE DEF At1
<1>5. all \in [1 .. n -> Seq(STRING)] /\ \A k \in 1 .. n : all[k] = At1(k)
  BY <1>3, <1>4
<1>6. all \in Seq(Seq(STRING)) /\ Len(all) = n
  BY ONLY <1>5, n \in Nat
<1>7. a \in 1 .. n + 1
  OBVIOUS
<1>8. /\ RestFrom(all, a) \in Seq(Seq(STRING)) /\ Len(RestFrom(all, a)) = n + 1 - a
      /\ \A i \in 1 .. n + 1 - a : RestFrom(all, a)[i] = all[a + i - 1]
  BY <1>6, <1>7, RestOf DEF RestFrom
<1>9. ASSUME NEW i \in 1 .. n + 1 - a
      PROVE  RestFrom(all, a)[i] =
               IF i <= n + 1 - b THEN list[b + i - 1] ELSE list[a + i - (n + 1 - b) - 1]
  <2>1. PICK k \in 1 .. n : k = a + i - 1
    BY <1>7
  <2>2. RestFrom(all, a)[i] = At1(k)
    BY <1>5, <1>8, <2>1
  <2>3. ~(k < a) /\ (k + m <= n <=> i <= n + 1 - b) /\ k + m = b + i - 1
        /\ k + m - n + a - 1 = a + i - (n + 1 - b) - 1
    BY <1>1, <2>1
  <2> QED
    BY <2>2, <2>3 DEF At1
<1> QED
  BY <1>6, <1>8, <1>9 DEF all, m

\* "--", or a dash among letters.
LEMMA DashMeant ==
  ASSUME IInv, MeantInv, Reading, nextchar \notin {Null, <<>>}, Head(nextchar) = "-", Dash
  PROVE  MeantInv'
<1> DEFINE M == Meanings(given)
           moved == RestFrom(argv, optnum)
           n == Len(given)
           others == SubSeq(given, At + 1, n)
<1>1. PICK p \in 2 .. Len(given[At]) :
        /\ LetterAt(p)
        /\ ~Flag(given[At][p]) => Meant(Meaning(given), got, moved, LetterMeans(given, M, At, p))
  BY AtShort
<1>2. /\ n \in Nat /\ Len(argv) = n /\ argv \in Seq(Seq(STRING)) /\ At \in 1 .. n
      /\ given \in Seq(Seq(STRING)) /\ moved \in Seq(Seq(STRING))
      /\ argv = [i \in DOMAIN given |-> given[from[i]]]
      /\ Unread(from, n, optind, optnum)
      /\ optnum \in 1 .. n + 1 /\ optind \in 1 .. n /\ optind + 1 \in 1 .. optnum
  BY Standing, StandingNext, SMTT(20) DEF IInv, Reading
<1>3. given[At][p] = "-" /\ ~Flag(given[At][p])
  BY <1>1, CmdoptAssumption DEF LetterAt, Flag
<1>4. Meant(Meaning(given), got, moved, [Stop("done") EXCEPT !.operands = others])
  BY <1>1, <1>3 DEF LetterMeans
<1>5. Meaning(given).got = got /\ Meaning(given).end = "done"
      /\ Meaning(given).operands = moved \o others
  <2>1. got \o <<>> = got
    BY ConcatEmptySeq DEF MeantInv
  <2> HIDE DEF others, moved
  <2> QED
    BY <1>4, <2>1 DEF Meant, Stop
<1> DEFINE a == optind + 1
           all == AllShifted(argv, a, optnum - a)
<1>6. /\ argv' = all /\ optind' = a /\ outcome' = "done" /\ nextchar' = Null
      /\ given' = given /\ got' = got
  <2>1. optnum - optind - 1 = optnum - a
    BY <1>2
  <2> QED
    BY <2>1 DEF Dash, cmdopt_next
<1>7. RestFrom(all, a) = moved \o others
  <2>1. /\ \A i \in 1 .. n + 1 - a :
             RestFrom(all, a)[i] =
               IF i <= n + 1 - optnum THEN argv[optnum + i - 1]
               ELSE argv[a + i - (n + 1 - optnum) - 1]
        /\ RestFrom(all, a) \in Seq(Seq(STRING))
        /\ Len(RestFrom(all, a)) = n + 1 - a
    <3> HIDE DEF n, a
    <3>1. /\ n \in Nat /\ Len(argv) = n /\ argv \in Seq(Seq(STRING))
          /\ optnum \in 1 .. n + 1 /\ a \in 1 .. optnum
      BY <1>2 DEF a
    <3> QED
      BY ONLY <3>1, DashMoves DEF all
  <2>2. /\ Len(moved) = n + 1 - optnum
        /\ \A i \in 1 .. n + 1 - optnum : moved[i] = argv[optnum + i - 1]
    <3> HIDE DEF n
    <3>1. n \in Nat /\ Len(argv) = n /\ argv \in Seq(Seq(STRING)) /\ optnum \in 1 .. n + 1
      BY <1>2
    <3> QED
      BY ONLY <3>1, RestOf DEF RestFrom
  <2>3. /\ others \in Seq(Seq(STRING)) /\ Len(others) = n - At
        /\ \A i \in 1 .. n - At : others[i] = given[At + i]
    <3>1. At + 1 \in 1 .. n + 1
      BY <1>2, SMTT(20)
    <3>2. /\ others \in Seq(Seq(STRING)) /\ Len(others) = n + 1 - (At + 1)
          /\ \A i \in 1 .. n + 1 - (At + 1) : others[i] = given[(At + 1) + i - 1]
      <4>1. n \in Nat /\ Len(given) = n /\ given \in Seq(Seq(STRING))
        BY <1>2
      <4> HIDE DEF n
      <4>2. SubSeq(given, At + 1, Len(given)) = others
        BY <4>1
      <4>3. At + 1 \in 1 .. Len(given) + 1
        BY <3>1, <4>1
      <4> HIDE DEF others
      <4> QED
        BY ONLY <4>1, <4>2, <4>3, RestOf
    <3> HIDE DEF others
    <3>3. n + 1 - (At + 1) = n - At /\ \A i \in 1 .. n - At : (At + 1) + i - 1 = At + i
      <4>1. n \in Nat /\ At \in 1 .. n
        BY <1>2
      <4> HIDE DEF n
      <4> QED
        BY ONLY <4>1
    <3> QED
      BY <3>2, <3>3
  <2>4. /\ n \in Nat /\ optnum \in 1 .. n + 1 /\ optind \in 1 .. n /\ a \in 1 .. optnum
        /\ At = optind + (n + 1 - optnum) /\ a = optind + 1 /\ At \in 1 .. n
    BY <1>2 DEF At
  <2>5. ASSUME NEW j \in a .. optnum - 1 PROVE argv[j] = given[j + (n + 1 - optnum)]
    <3>1. j \in 1 .. n /\ j \in optind .. optnum - 1 /\ DOMAIN given = 1 .. n
      BY <1>2, LenProperties
    <3>2. from[j] = j + (n + 1 - optnum)
      BY <1>2, <3>1 DEF Unread
    <3> QED
      BY <1>2, <3>1, <3>2
  <2> HIDE DEF n, a, all, moved, others
  <2>6. /\ moved \o others \in Seq(Seq(STRING))
        /\ Len(moved \o others) = Len(moved) + Len(others)
        /\ \A i \in 1 .. Len(moved) : (moved \o others)[i] = moved[i]
        /\ \A i \in 1 .. Len(others) : (moved \o others)[Len(moved) + i] = others[i]
    <3>1. moved \in Seq(Seq(STRING)) /\ others \in Seq(Seq(STRING))
      BY <1>2, <2>3
    <3> DEFINE T == Seq(STRING)
    <3> HIDE DEF T
    <3>2. moved \in Seq(T) /\ others \in Seq(T)
      BY <3>1 DEF T
    <3>3. /\ moved \o others \in Seq(T)
          /\ Len(moved \o others) = Len(moved) + Len(others)
          /\ \A i \in 1 .. Len(moved) : (moved \o others)[i] = moved[i]
          /\ \A i \in 1 .. Len(others) : (moved \o others)[Len(moved) + i] = others[i]
      BY ONLY <3>2, Joined
    <3> QED
      BY <3>3 DEF T
  <2>7. ASSUME NEW i \in 1 .. n + 1 - a
        PROVE  RestFrom(all, a)[i] = (moved \o others)[i]
    <3>1. CASE i <= n + 1 - optnum
      <4>1. i \in 1 .. n + 1 - optnum
        BY <2>4, <3>1
      <4> QED
        BY <2>1, <2>2, <2>6, <3>1, <4>1
    <3>2. CASE ~(i <= n + 1 - optnum)
      <4>1. PICK k \in 1 .. n - At : i = (n + 1 - optnum) + k
        <5>1. i - (n + 1 - optnum) \in 1 .. n - At
          BY ONLY <2>4, <3>2, i \in 1 .. n + 1 - a
        <5>2. i = (n + 1 - optnum) + (i - (n + 1 - optnum))
          BY <2>4
        <5> QED
          BY <5>1, <5>2
      <4>2. PICK j \in a .. optnum - 1 : j = a + i - (n + 1 - optnum) - 1
        BY ONLY <2>4, <4>1
      <4>3. j + (n + 1 - optnum) = At + k
        BY ONLY <2>4, <4>1, <4>2
      <4>4. RestFrom(all, a)[i] = argv[j]
        BY <2>1, <3>2, <4>2
      <4>5. argv[j] = given[At + k]
        BY <2>5, <4>3
      <4>6. (moved \o others)[i] = others[k]
        BY <2>2, <2>3, <2>6, <4>1
      <4> QED
        BY <2>3, <4>4, <4>5, <4>6
    <3> QED
      BY <3>1, <3>2
  <2>8. Len(RestFrom(all, a)) = Len(moved \o others)
    <3>1. n + 1 - a = (n + 1 - optnum) + (n - At)
      BY ONLY <2>4
    <3> QED
      BY <2>1, <2>2, <2>3, <2>6, <3>1
  <2> QED
    BY <2>1, <2>6, <2>7, <2>8, SeqEqual
<1>8. Told(Meaning(given), got, "done", RestFrom(all, a))
  BY <1>5, <1>7 DEF Told
<1> QED
  BY <1>6, <1>8 DEF MeantInv

\* A long option, whose name may be given in part.
LEMMA LongMeant ==
  ASSUME IInv, MeantInv, Long
  PROVE  MeantInv'
<1> DEFINE M == Meanings(given)
           moved == RestFrom(argv, optnum)
           n == Len(given)
           text == SubSeq(given[At], 3, Len(given[At]))
           name == NameLength(text)
           value == SubSeq(text, name + 2, Len(text))
           option == LongOptions[First(Matches(text))]
<1>1. Reading /\ nextchar = Null /\ Type(argv[optind]) = 2 /\ UNCHANGED <<given, argv, optnum>>
  BY DEF Long
<1>2. /\ n \in Nat /\ At \in 1 .. n
      /\ optind + 1 < optnum => /\ At < n /\ argv[optind + 1] = given[At + 1]
                                /\ given[At + 1] \in Seq(STRING)
      /\ optind + 1 = optnum => At = n
      /\ optnum \in 1 .. n + 1 /\ optind \in 1 .. n /\ optind < optnum
      /\ argv[optind] = given[At] /\ given[At] \in Seq(STRING)
  BY <1>1, Standing, StandingNext DEF IInv, Reading
<1>3. /\ text \in Seq(STRING) /\ name \in 0 .. Len(text)
      /\ name < Len(text) => value \in Seq(STRING)
  BY <1>1, <1>2, LongParts
<1>4. Matches(text) # {} => option.has_arg \in {0, 1} /\ option.label \in STRING \ {"?", ":"}
  BY MatchesAreOptions
<1>5. \/ Matches(text) = {} /\ Return("?", Null) /\ cmdopt_next
      \/ /\ Matches(text) # {} /\ name < Len(text)
         /\ Return(IF option.has_arg = 1 THEN option.label ELSE "?", value)
         /\ cmdopt_next
      \/ /\ Matches(text) # {} /\ name = Len(text) /\ option.has_arg = 0
         /\ Return(option.label, Null)
         /\ nextchar' = <<>> /\ optind' = optind
      \/ /\ Matches(text) # {} /\ name = Len(text) /\ option.has_arg = 1
         /\ IF optind + 1 < optnum
            THEN Return(option.label, argv[optind + 1]) /\ optind' = optind + 2
            ELSE Return(":", Null) /\ optind' = optind + 1
         /\ nextchar' = Null
  BY <1>2 DEF Long
<1>6. Meant(Meaning(given), got, moved, LongMeans(given, M, At))
  BY <1>1, <1>2, AtArgument DEF ArgumentMeans
<1>7. LongMeans(given, M, At)
        = IF Matches(text) = {} THEN Stop("failed")
          ELSE IF name < Len(text) THEN
            IF option.has_arg = 0 THEN Stop("failed")
            ELSE Option(option.label, value, M[At + 1])
          ELSE IF option.has_arg = 0 THEN Option(option.label, Null, M[At + 1])
          ELSE IF At = n THEN Stop("failed")
          ELSE Option(option.label, given[At + 1], M[At + 2])
  BY DEF LongMeans
<1>8. optind + 1 + (n + 1 - optnum) = At + 1 /\ optind + 2 + (n + 1 - optnum) = At + 2
  BY <1>2 DEF At
<1>9. At + 1 \in 1 .. n + 1
  BY <1>2
<1>10. cmdopt_next => optind' = optind + 1 /\ nextchar' = Null
  BY DEF cmdopt_next
<1>11. ~(name < Len(text)) <=> name = Len(text)
  <2>1. Len(text) \in Nat
    BY <1>3, LenProperties
  <2> HIDE DEF name, text
  <2> QED
    BY <1>3, <2>1
<1> HIDE DEF M, moved, n, text, name, value, option
<1>12. ASSUME NEW label \in {"?", ":"}, NEW optarg, Return(label, optarg), nextchar' = Null,
              LongMeans(given, M, At) = Stop("failed")
       PROVE  MeantInv'
  <2>1. BetweenArguments' /\ nextchar' \in Seq(STRING) \cup {Null}
    BY <1>12 DEF BetweenArguments
  <2>2. Meant(Meaning(given), got, moved, Stop("failed"))
    BY <1>6, <1>12
  <2> QED
    BY <1>1, <1>12, <2>1, <2>2, FailureMeant DEF moved
<1>13. ASSUME Matches(text) # {}, NEW optarg \in Seq(STRING) \cup {Null},
              Return(option.label, optarg), nextchar' = Null, NEW k \in 1 .. n + 1,
              optind' + (n + 1 - optnum) = k,
              LongMeans(given, M, At) = Option(option.label, optarg, M[k])
       PROVE  MeantInv'
  <2>1. BetweenArguments' /\ nextchar' \in Seq(STRING) \cup {Null}
    BY <1>13 DEF BetweenArguments
  <2>2. Meant(Meaning(given), got, moved, Option(option.label, optarg, M[k]))
    BY <1>6, <1>13
  <2>3. option.label \in STRING \ {"?", ":"}
    BY <1>4, <1>13
  <2> QED
    BY <1>1, <1>13, <2>1, <2>2, <2>3, OptionMeant DEF moved, n, M
<1>14. CASE Matches(text) = {} /\ Return("?", Null) /\ cmdopt_next
  BY <1>7, <1>10, <1>12, <1>14
<1>15. CASE /\ Matches(text) # {} /\ name < Len(text)
            /\ Return(IF option.has_arg = 1 THEN option.label ELSE "?", value)
            /\ cmdopt_next
  <2>1. CASE option.has_arg = 1
    <3>1. LongMeans(given, M, At) = Option(option.label, value, M[At + 1])
      BY <1>7, <1>15, <2>1
    <3>2. Return(option.label, value) /\ value \in Seq(STRING) \cup {Null}
      BY <1>3, <1>15, <2>1
    <3>3. optind' + (n + 1 - optnum) = At + 1 /\ nextchar' = Null
      BY <1>8, <1>10, <1>15
    <3> QED
      BY <1>9, <1>13, <1>15, <3>1, <3>2, <3>3
  <2>2. CASE option.has_arg = 0
    <3>1. LongMeans(given, M, At) = Stop("failed") /\ Return("?", value) /\ nextchar' = Null
      BY <1>7, <1>10, <1>15, <2>2
    <3> QED
      BY <1>12, <3>1
  <2> QED
    BY <1>4, <1>15, <2>1, <2>2
<1>16. CASE /\ Matches(text) # {} /\ name = Len(text) /\ option.has_arg = 0
            /\ Return(option.label, Null)
            /\ nextchar' = <<>> /\ optind' = optind
  <2> DEFINE r == M[At + 1]
             arg == given[At]
  <2>1. Meant(Meaning(given), got, moved, Option(option.label, Null, r))
    BY <1>6, <1>7, <1>11, <1>16
  <2>2. /\ KnownAfter(given, M, At) /\ given \in Seq(Seq(STRING)) /\ r \in Result
        /\ moved \in Seq(Seq(STRING)) /\ got \in Seq(Got) /\ Len(arg) \in Nat
    BY <1>1, Standing, StandingNext DEF MeantInv, M, moved
  <2>3. option.label \in STRING \ {"?", ":"}
    BY <1>4, <1>16
  <2>4. LettersMean(given, M, At, Len(arg) + 1) = r
    BY <1>2, <2>2, NoLetters DEF n
  <2>5. <<>> \in Seq(STRING) /\ Len(<<>>) = 0
    BY EmptySeq
  <2>6. Suffix(nextchar', arg, Len(arg) + 1)
    <3>1. Len(arg) + 1 - (Len(arg) + 1) = 0
      BY <2>2
    <3>2. \A j \in 1 .. 0 : <<>>[j] = arg[Len(arg) + 1 + j - 1]
      OBVIOUS
    <3> QED
      BY <1>16, <2>5, <3>1, <3>2 DEF Suffix
  <2> HIDE DEF r
  <2>7. /\ got' \in Seq(Got)
        /\ outcome' = "reading" => Meant(Meaning(given), got', moved, r)
        /\ outcome' # "reading" => \A rest : Told(Meaning(given), got', outcome', rest)
    <3> DEFINE label == option.label
    <3>1. label \in STRING \ {"?", ":"} /\ Return(label, Null)
          /\ Meant(Meaning(given), got, moved, Option(label, Null, r))
      BY <1>16, <2>1, <2>3
    <3> HIDE DEF label
    <3> QED
      BY <2>2, <3>1, ReturnMeant
  <2>8. ~BetweenArguments' /\ Onward
    <3>1. <<>> # Null
      BY <2>5, CmdoptAssumption
    <3>2. optind # optnum
      BY <1>2
    <3> QED
      BY <1>1, <1>16, <2>5, <2>7, <3>1, <3>2 DEF BetweenArguments, Onward
  <2>9. Len(arg) + 1 \in 2 .. Len(arg) + 1
    <3>1. Len(arg) >= 2
      BY <1>1, <1>2, Types
    <3> QED
      BY <2>2, <3>1
  <2> QED
    BY <1>16, <2>4, <2>6, <2>7, <2>8, <2>9, ReadInside DEF M, moved
<1>17. CASE /\ Matches(text) # {} /\ name = Len(text) /\ option.has_arg = 1
            /\ IF optind + 1 < optnum
               THEN Return(option.label, argv[optind + 1]) /\ optind' = optind + 2
               ELSE Return(":", Null) /\ optind' = optind + 1
            /\ nextchar' = Null
  <2>1. CASE optind + 1 < optnum
    <3>1. /\ At < n /\ argv[optind + 1] = given[At + 1] /\ given[At + 1] \in Seq(STRING)
          /\ At # n
      BY <1>2, <2>1
    <3>2. LongMeans(given, M, At) = Option(option.label, given[At + 1], M[At + 2])
      BY <1>7, <1>11, <1>17, <3>1
    <3>3. At + 2 \in 1 .. n + 1
      <4>1. n \in Nat /\ At \in 1 .. n
        BY <1>2
      <4> QED
        BY ONLY <3>1, <4>1
    <3>4. optind' + (n + 1 - optnum) = At + 2 /\ Return(option.label, given[At + 1])
      BY <1>8, <1>17, <2>1, <3>1
    <3> QED
      BY <1>13, <1>17, <3>1, <3>2, <3>3, <3>4
  <2>2. CASE ~(optind + 1 < optnum)
    <3>1. At = n
      <4>1. optind + 1 = optnum
        BY <1>2, <2>2
      <4> QED
        BY <1>2, <4>1
    <3>2. LongMeans(given, M, At) = Stop("failed") /\ Return(":", Null)
      BY <1>7, <1>11, <1>17, <2>2, <3>1
    <3> QED
      BY <1>12, <1>17, <3>2
  <2> QED
    BY <2>1, <2>2
<1> QED
  BY <1>5, <1>14, <1>15, <1>16, <1>17

LEMMA FinishMeant ==
  ASSUME IInv, MeantInv, Finish
  PROVE  MeantInv'
<1>1. /\ outcome = "reading" /\ optind >= optnum /\ outcome' = "done"
      /\ UNCHANGED <<given, from, argv, optind, optnum, nextchar, got>>
  BY DEF Finish
<1>2. optind = optnum
  BY <1>1 DEF IInv
<1>3. /\ At = Len(given) + 1 /\ SaysFrom(given, Meanings(given), 1) /\ Len(given) \in Nat
      /\ RestFrom(argv, optnum) \in Seq(Seq(STRING))
  BY <1>2, Standing
<1>4. Meanings(given)[At] = Stop("done")
  <2>1. Len(given) + 1 \in 1 .. Len(given) + 1 /\ Len(given) + 1 > Len(given)
    BY <1>3
  <2> QED
    BY <1>3, <2>1 DEF SaysFrom
<1>5. Meant(Meaning(given), got, RestFrom(argv, optnum), Stop("done")) /\ got \in Seq(Got)
  BY <1>1, <1>2, <1>4 DEF MeantInv, BetweenArguments
<1>6. /\ Meaning(given).got = got /\ Meaning(given).operands = RestFrom(argv, optnum)
      /\ Meaning(given).end = "done"
  BY <1>3, <1>5, MeantStop
<1>7. Told(Meaning(given), got, "done", RestFrom(argv, optind))
  BY <1>2, <1>6 DEF Told
<1>8. Told(Meaning(given), got, outcome, RestFrom(argv, optind))'
  BY <1>1, <1>7
<1> QED
  BY <1>1, <1>5, <1>8 DEF MeantInv

LEMMA StepMeantInv == IInv /\ MeantInv /\ [Next]_vars => MeantInv'
<1> SUFFICES ASSUME IInv, MeantInv, [Next]_vars PROVE MeantInv'
  OBVIOUS
<1>1. CASE Operand
  BY <1>1, OperandMeant
<1>2. CASE Enter
  BY <1>2, EnterMeant
<1>3. CASE Leave
  BY <1>3, LeaveMeant
<1>4. CASE Short
  <2>1. Reading /\ nextchar \notin {Null, <<>>}
    BY <1>4 DEF Short
  <2> QED
    BY <1>4, <2>1, LetterMeant, WithArgumentMeant, DashMeant DEF Short
<1>5. CASE Long
  BY <1>5, LongMeant
<1>6. CASE Finish
  BY <1>6, FinishMeant
<1>7. CASE UNCHANGED vars
  BY <1>7 DEF vars, MeantInv, BetweenArguments, LettersLeft, At
<1> QED
  BY <1>1, <1>2, <1>3, <1>4, <1>5, <1>6, <1>7 DEF Next

\* A tool is given exactly the options that were typed, with their arguments and
\* in their order, and ends with exactly the operands behind them, whatever was
\* typed and whatever options it has (cmdopt_get() under the loop of main()).
THEOREM AlwaysReadsAsMeant == Spec => []ReadsAsMeant
<1>1. MeantInv => ReadsAsMeant
  BY DEF MeantInv, ReadsAsMeant, Told, RestFrom
<1> QED
  BY <1>1, InitIInv, StepIInv, InitMeantInv, StepMeantInv, PTL DEF Spec
=============================================================================
