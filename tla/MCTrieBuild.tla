---------------------------- MODULE MCTrieBuild ----------------------------
(***************************************************************************)
(* TrieBuild over all keysets of up to two keys of up to three bytes, and  *)
(* over a few larger ones whose segments meet again in later tries and in  *)
(* the tail.                                                               *)
(***************************************************************************)
EXTENDS TrieContents, Bitwise

\* The hash of get_cache_id(node_id, label).
MCCacheId(n, label, size) == ((n ^^ (n * 32)) ^^ label) & (size - 1)

\* It keeps to the cache, and tells the labels of a node apart.
ASSUME MCHashKeepsApart ==
  \A size \in {Base, 2 * Base, 8 * Base}, n \in 0 .. 40, b \in Byte :
    /\ MCCacheId(n, b, size) \in 0 .. size - 1
    /\ \A c \in Byte : MCCacheId(n, b, size) = MCCacheId(n, c, size) => b = c

SmallTexts == UNION {[1 .. len -> {0, 1}] : len \in 0 .. 3}

SmallKeysets ==
  UNION {[1 .. len -> [text : SmallTexts, weight : {0, 1}]] : len \in 0 .. 2}

Weighted(texts, weights) ==
  [k \in DOMAIN texts |-> [text |-> texts[k], weight |-> weights[k]]]

DeepKeysets ==
  { \* one segment is a suffix of another: shared bytes in the tail
    Weighted(<< <<1, 2, 3, 1>>, <<2, 2, 3, 1>>, <<3, 3, 1>>, <<1>>, <<1>> >>,
             <<1, 0, 2, 1, 3>>),
    \* the same segment under two nodes
    Weighted(<< <<2, 2, 3>>, <<1>>, <<1, 2, 3>>, <<2>>, <<2, 3>> >>,
             <<2, 1, 1, 0, 1>>),
    \* links in all three tries, segments met from both ends
    Weighted(<< <<1, 2, 3, 1, 2>>, <<2, 2, 3, 1, 2>>, <<3, 1, 3, 1, 2>>,
                <<1, 2, 2>>, <<>> >>, <<1, 2, 1, 3, 1>>),
    \* a NUL in a segment
    Weighted(<< <<1, 2, 0, 2>>, <<2, 2, 0, 2>>, <<2, 1, 2>>, <<1, 2, 3>> >>,
             <<1, 1, 2, 0>>),
    \* a tail longer than one base byte can address: extras are used
    Weighted(<< <<1, 1, 1>>, <<2, 2, 2>>, <<3, 3, 3>>, <<0, 2, 1>>, <<0, 3, 2>>,
                <<1, 1, 2, 2>> >>, <<1, 2, 3, 4, 5, 6>>) }

MCKeysets == SmallKeysets \cup DeepKeysets

With(tries, order, caches, mode) ==
  [numTries |-> tries, nodeOrder |-> order, cacheLevel |-> caches, tailMode |-> mode]

\* Every two values of different settings come together.
MCSettings ==
  { With(1, "label", 1, "text"), With(1, "weight", 4, "binary"),
    With(2, "label", 4, "binary"), With(2, "weight", 1, "text"),
    With(3, "label", 1, "binary"), With(3, "weight", 4, "text"),
    With(4, "label", 4, "text"), With(4, "weight", 1, "binary") }
=============================================================================
