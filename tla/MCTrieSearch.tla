---------------------------- MODULE MCTrieSearch ----------------------------
(***************************************************************************)
(* TrieSearch on a few keysets, chosen so that edges are links, links lead *)
(* through three tries into the tail, siblings share bytes further down,   *)
(* keys are prefixes of other keys, and one is empty.                      *)
(***************************************************************************)
EXTENDS TrieSearch, Bitwise

\* The hash of get_cache_id(node_id, label).
MCCacheId(n, label, size) == ((n ^^ (n * 32)) ^^ label) & (size - 1)

\* It keeps to the caches there are, and tells the labels of a node apart.
ASSUME MCHashKeepsApart ==
  \A size \in {Base, 2 * Base}, n \in 0 .. 40, b \in Byte :
    /\ MCCacheId(n, b, size) \in 0 .. size - 1
    /\ \A c \in Byte : MCCacheId(n, b, size) = MCCacheId(n, c, size) => b = c

Weighted(texts, weights) ==
  [k \in DOMAIN texts |-> [text |-> texts[k], weight |-> weights[k]]]

MCKeysets ==
  { Weighted(<< <<1, 2, 3, 1, 2>>, <<1, 2, 3>>, <<2, 2, 3, 1, 2>>, <<>> >>,
             <<1, 0, 2, 1>>),
    Weighted(<< <<3, 1, 2, 1>>, <<3, 1, 0, 2>>, <<2>>, <<1, 2, 1>> >>,
             <<1, 1, 3, 1>>),
    Weighted(<< <<1, 2>>, <<1, 3>>, <<2, 2, 1>>, <<2, 2, 3>>, <<1, 2>> >>,
             <<1, 1, 1, 1, 1>>),
    Weighted(<< <<1>>, <<1, 2, 3, 1, 2, 2>>, <<1, 2, 3, 1, 2, 2, 3>> >>,
             <<2, 1, 0>>),
    <<>> }

MCSettings ==
  { [numTries |-> 1, nodeOrder |-> "weight", cacheLevel |-> 1, tailMode |-> "binary"],
    [numTries |-> 2, nodeOrder |-> "label", cacheLevel |-> 1, tailMode |-> "text"],
    [numTries |-> 3, nodeOrder |-> "weight", cacheLevel |-> 4, tailMode |-> "text"] }

MCQueries == { <<>>, <<1, 2>>, <<3, 1, 2, 1>>, <<1, 2, 3, 1, 2, 2>> }
MCQueryIds == {0, 3, 4}

\* For the run that checks that every call returns.
FewKeysets ==
  { Weighted(<< <<3, 1, 2, 1>>, <<3, 1, 0, 2>>, <<>> >>, <<1, 1, 0>>),
    Weighted(<< <<1>>, <<1, 2, 3>>, <<2, 2, 3>> >>, <<0, 1, 1>>) }
FewSettings == {s \in MCSettings : s.numTries = 2}
FewQueries == { <<1, 2>>, <<3, 1, 0, 2, 1>> }
FewQueryIds == {0, 4}
=============================================================================
