---------------------------- MODULE KeySequence ----------------------------
(***************************************************************************)
(* What a Keyset is to its users: a sequence of keys that grows at its end *)
(* or is emptied, whose keys stay as they were given.  Nothing here knows  *)
(* of blocks.                                                              *)
(***************************************************************************)
EXTENDS Sequences

CONSTANT Owners     \* the keysets of a program

VARIABLES
  contents,         \* the keys of each: text and word (a weight or an id)
  given             \* the key the last push_back() was asked to add

Init == contents = [s \in Owners |-> <<>>]

PushBack(s) == contents' = [contents EXCEPT ![s] = Append(@, given')]

\* reset() or clear()
Empty(s) == contents' = [contents EXCEPT ![s] = <<>>] /\ UNCHANGED given

Swap(s, t) ==
  /\ contents' = [contents EXCEPT ![s] = contents[t], ![t] = contents[s]]
  /\ UNCHANGED given

\* There was no memory: nothing has happened.
Refuse == UNCHANGED contents

Next ==
  \/ \E s \in Owners : PushBack(s) \/ Empty(s)
  \/ \E s, t \in Owners : Swap(s, t)
  \/ Refuse

Spec == Init /\ [][Next]_<<contents, given>>
=============================================================================
