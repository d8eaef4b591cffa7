----------------------------- MODULE MCBitIndex -----------------------------
(***************************************************************************)
(* Units of two bits and blocks of sixteen: all vectors that end in the    *)
(* first block, all ways to cross the end of it, and long ones - sparse,   *)
(* dense, periodic and with a long run - so that the samples are up to     *)
(* eight blocks apart and select has to bisect.                            *)
(***************************************************************************)
EXTENDS BitIndex

ShortVectors == UNION {[1 .. n -> BOOLEAN] : n \in 0 .. 9}

EdgeVectors ==
  {[i \in 1 .. n |-> IF i <= 12 THEN i % period = 0 ELSE edge[i - 12]] :
     n \in 13 .. 19, period \in {1, 3, 17}, edge \in [1 .. 7 -> BOOLEAN]}

Long(n, Is1(_)) == [i \in 1 .. n |-> Is1(i)]

LongVectors ==
  UNION {{Long(n, LAMBDA i : TRUE), Long(n, LAMBDA i : FALSE),
          Long(n, LAMBDA i : i % 3 = 0), Long(n, LAMBDA i : i % 7 # 3),
          Long(n, LAMBDA i : i \in {1, 17, n \div 2, n - 1, n}),
          Long(n, LAMBDA i : i < 21 \/ i > n - 8),
          Long(n, LAMBDA i : ~(i < 21 \/ i > n - 8))} : n \in 94 .. 130}

MCVectors == ShortVectors \cup EdgeVectors \cup LongVectors
=============================================================================
