----------------------------- MODULE Dictionary -----------------------------
(***************************************************************************)
(* What a trie promises to one agent.  A dictionary numbers the different  *)
(* keys of a keyset; an agent asks it one call at a time.  A call of a     *)
(* search goes on where the last call of the same search stopped, unless   *)
(* the query was set or another operation was called in between.  Nothing  *)
(* here knows of nodes, links, caches or cursors.                          *)
(***************************************************************************)
EXTENDS Integers, Sequences
Seqs == INSTANCE SequencesExt

VARIABLES
  keyset,           \* what the dictionary is built from
  sorted,           \* whether it is built in label order
  built, dict,      \* whether it is there; from ids to texts
  query, queryId,   \* the agent's query: a text and an id
  mode,             \* which search is under way or has ended
  given,            \* ids the search under way has returned
  key, result       \* the agent's key, and what the last call returned

dictVars == <<keyset, sorted, built, dict>>
vars == <<dictVars, query, queryId, mode, given, key, result>>

\* The key is the agent's own only after a call that returned true.
NoKey == [text |-> <<>>, id |-> -1]

\* Lexicographic order, a prefix before what it is a prefix of.
Before(s, t) ==
  \E i \in 1 .. Len(t) :
    /\ i <= Len(s) + 1
    /\ SubSeq(s, 1, i - 1) = SubSeq(t, 1, i - 1)
    /\ i > Len(s) \/ s[i] < t[i]

Init ==
  /\ ~built
  /\ dict = <<>>
  /\ mode = "all"
  /\ given = {}
  /\ result = "none" /\ key = NoKey
  /\ query = <<>> /\ queryId = 0

\* Equal keys share an id; the ids are the numbers below the number of keys.
Build ==
  /\ ~built
  /\ built'
  /\ LET texts == {keyset[k].text : k \in DOMAIN keyset}
         ids == DOMAIN dict'
     IN  /\ {dict'[i] : i \in ids} = texts
         /\ \A i, j \in ids : dict'[i] = dict'[j] => i = j
         /\ \A i \in ids : i = 0 \/ i - 1 \in ids
  /\ UNCHANGED <<keyset, sorted, query, queryId, mode, given, key, result>>

\* A new query, a text or an id, ends every search and leaves the other be.
SetQuery ==
  /\ query' \in Seq(Nat) /\ queryId' \in Nat
  /\ query' = query \/ queryId' = queryId
  /\ mode' = "all"
  /\ given' = {}
  /\ result' = "none" /\ key' = NoKey
  /\ UNCHANGED dictVars

\* From the moment the next call begins the key of the last one is void.
Begin ==
  /\ built
  /\ result' = "none" /\ key' = NoKey
  /\ UNCHANGED <<dictVars, query, queryId, mode, given>>

Answer(i) == key' = [text |-> dict[i], id |-> i] /\ result' = "true"

Refuse(why) == key' = NoKey /\ result' = why

Lookup ==
  /\ built
  /\ mode' = "all"
  /\ given' = {}
  /\ \/ \E i \in DOMAIN dict : dict[i] = query /\ Answer(i)
     \/ /\ \A i \in DOMAIN dict : dict[i] # query
        /\ Refuse("false")
  /\ UNCHANGED <<dictVars, query, queryId>>

\* An id that is no key's is refused, and a search under way goes on.
ReverseLookup ==
  /\ built
  /\ \/ /\ queryId \in DOMAIN dict
        /\ Answer(queryId)
        /\ mode' = "all"
        /\ given' = {}
     \/ /\ queryId \notin DOMAIN dict
        /\ Refuse("throw")
        /\ UNCHANGED <<mode, given>>
  /\ UNCHANGED <<dictVars, query, queryId>>

\* One call of a search for the keys in wanted: the next one the search has
\* not given yet, or none, now and on every later call.
Search(going, over, wanted, First(_, _)) ==
  /\ built
  /\ LET before == IF mode = going THEN given ELSE {}
         left == IF mode = over THEN {} ELSE wanted \ before
     IN  \/ \E i \in left :
              /\ \A j \in left \ {i} : First(dict[i], dict[j])
              /\ Answer(i)
              /\ given' = before \cup {i}
              /\ mode' = going
         \/ /\ left = {}
            /\ Refuse("false")
            /\ given' = {}
            /\ mode' = over
  /\ UNCHANGED <<dictVars, query, queryId>>

\* The keys that are prefixes of the query, the shortest first.
CommonPrefixSearch ==
  Search("common", "endOfCommon", {i \in DOMAIN dict : Seqs!IsPrefix(dict[i], query)},
         LAMBDA s, t : Len(s) < Len(t))

\* The keys the query is a prefix of: in lexicographic order if the trie is in
\* label order, else in any.
PredictiveSearch ==
  Search("predictive", "endOfPredictive",
         {i \in DOMAIN dict : Seqs!IsPrefix(query, dict[i])},
         LAMBDA s, t : sorted => Before(s, t))

Next ==
  \/ Build \/ SetQuery \/ Begin \/ Lookup \/ ReverseLookup
  \/ CommonPrefixSearch \/ PredictiveSearch

Spec == Init /\ [][Next]_vars
=============================================================================
