------------------------------ MODULE MCKeyset ------------------------------
(***************************************************************************)
(* Two keysets with blocks of three bytes and of two keys: a few keys fill *)
(* and outgrow every array of the first, and a key and a block of each     *)
(* kind are enough for what happens between two.                           *)
(***************************************************************************)
EXTENDS KeysetBlocks

CONSTANTS s1, s2

MCOwners == {s1, s2}
MCTexts == { <<>>, <<1>>, <<1, 0, 2>> }
MCWords == {0}
MCLengths == {-1, 2}

\* Has a keyset a key and a block of each kind at most?
Small(ks) ==
  ks.size <= 1 /\ Len(ks.base) <= 1 /\ Len(ks.extra) <= 1 /\ Len(ks.keyBlocks) <= 1

\* Bound: the second keyset is in use only as long as both are small.
Bounded == keysets[s2] = EmptyKeyset \/ \A s \in Owners : Small(keysets[s])

BoundedSpec == Init /\ [][Next /\ Bounded']_vars
=============================================================================
