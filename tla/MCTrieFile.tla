---------------------------- MODULE MCTrieFile ----------------------------
(***************************************************************************)
(* TrieFile with two Trie objects and one file, for a trie with a text     *)
(* tail, which takes less than a page, and a chain of two tries with a     *)
(* binary tail, which takes more.                                          *)
(***************************************************************************)
EXTENDS TrieFile, Bitwise, TLC

CONSTANTS t1, t2, f1

MCTries == {t1, t2}
MCFiles == {f1}

Symmetry == Permutations(MCTries)

\* Everything but the report, on which no step depends, what build() has
\* finished with, and what is left to be written, which follows from how much
\* it is.
View ==
  <<IF phase = "done" THEN <<>> ELSE vars, built, held, disk, fd,
    IF op = Idle THEN op ELSE [op EXCEPT !.left = Len(@)], complete, emptied>>

\* The hash of get_cache_id(node_id, label).
MCCacheId(n, label, size) == ((n ^^ (n * 32)) ^^ label) & (size - 1)

Texts(set) == [k \in DOMAIN set |-> [text |-> set[k], weight |-> 1]]

MCKeysets ==
  {Texts(<< <<1, 2, 3, 1, 2>>, <<2, 2, 3, 1, 2>>, <<3, 1, 3, 1, 2>>, <<1, 2, 2>> >>)}

MCSetting(numTries, tailMode) ==
  [numTries |-> numTries, nodeOrder |-> "label", cacheLevel |-> 1,
   tailMode |-> tailMode]

MCSettings == {MCSetting(1, "text"), MCSetting(2, "binary")}

\* One object that saves one trie.
MCOneTrie == {t1}
MCOneSetting == {MCSetting(2, "text")}
=============================================================================
