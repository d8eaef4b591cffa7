-------------------------- MODULE TrieSearchProofs --------------------------
(***************************************************************************)
(* The searches answer what a dictionary of the keyset would, for every    *)
(* keyset, setting, radix and query, if the hash keeps labels apart.       *)
(*                                                                         *)
(* CursorInv says where the cursor of each kind of search is, GivenInv     *)
(* which ids a search has given so far; from the two and what              *)
(* TrieReadingProofs says of restore(), match() and find_child(), every    *)
(* step is one of the dictionary's or none (Answers).                      *)
(***************************************************************************)
EXTENDS TrieReadingProofs

ModesOK ==
  /\ phase # "done" => call = "none" /\ status = "all"
  /\ call \in {"lookup", "reverse"} => status = "all"
  /\ call = "common" => status = "common" /\ from # "endOfCommon"
  /\ call = "predictive" =>
       /\ status = "predictive" /\ from \notin {"predictive", "endOfPredictive"}
       /\ history = <<>> /\ historyPos = 0
  /\ call = "enumerate" => status = "predictive" /\ from # "endOfPredictive"
  /\ call \in {"none", "enumerate"} /\ status = "predictive" => historyPos > 0

CursorOK ==
  /\ status = "common" \/ call = "lookup" => Led(Top, query, nodeId, queryPos)
  /\ call = "predictive" => Leads(Top, query, nodeId, queryPos, keyBuf)
  /\ call = "reverse" =>
       /\ queryId < Ones(terminalFlags)
       /\ Climbs(Top, Select1(terminalFlags, queryId), nodeId, keyBuf)

WalkOK ==
  status = "predictive" /\ historyPos > 0 =>
    /\ PathOK(Top, history, historyPos)
    /\ \A i \in 2 .. Len(history) : LevelOK(Top, terminalFlags, history, historyPos, i)
    /\ RootOf(Top, query, history[1].nodeId)
    /\ keyBuf = Text(Top, history[historyPos].nodeId)

CursorInv == SearchTypeOK /\ ModesOK /\ (phase = "done" => CursorOK /\ WalkOK)

\* The search that is under way, or over.
Mode == IF call = "none" THEN status ELSE from

\* The ids it has given.
GivenBy(going) == IF Mode = going THEN given ELSE {}

\* The node whose key has an id, and its text.
NodeOf(id) == Select1(terminalFlags, id)
IdText(id) == Text(Top, NodeOf(id))

\* A common prefix search has given the keys on its way to the node it is on,
\* a predictive search those the walk has left behind.
StartIds(n) == {i \in Ids(terminalFlags) : Begins(IdText(i), Text(Top, n))}
VisitedIds == {i \in Ids(terminalFlags) : Visited(Top, history, historyPos, NodeOf(i))}

GivenOK ==
  phase = "done" =>
  /\ status = "common" => GivenBy("common") = StartIds(nodeId)
  /\ status = "predictive" /\ historyPos > 0 => GivenBy("predictive") = VisitedIds

\* Until a call returns it has no result.
GivenInv == GivenOK /\ (call # "none" => result = "none")

-----------------------------------------------------------------------------
(* Where the cursor is, action by action.                                *)

\* Everything is known of the trie that is searched.
Ready == phase = "done" => Finished

LEMMA FlagsAre ==
  ASSUME Finished
  PROVE  /\ terminalFlags \in Seq(BOOLEAN)
         /\ Len(terminalFlags) = Len(Top.parentOf) + 2
         /\ \A n \in Nodes(Top) :
              /\ KeyIdOf(terminalFlags, n) \in Nat
              /\ Terminal(n) => /\ KeyIdOf(terminalFlags, n) \in Ids(terminalFlags)
                                /\ Select1(terminalFlags, KeyIdOf(terminalFlags, n)) = n
         /\ \A i \in Ids(terminalFlags) :
              /\ Select1(terminalFlags, i) \in Nodes(Top)
              /\ Terminal(Select1(terminalFlags, i))
              /\ KeyIdOf(terminalFlags, Select1(terminalFlags, i)) = i
         /\ Ones(terminalFlags) \in Nat
<1> DEFINE flags == terminalFlags
           n == Len(Top.parentOf)
<1>1. /\ n \in Nat /\ Len(Top.bases) = n + 1 /\ Len(Top.linkFlags) = n + 1
  BY TopIsTree
<1>2. /\ flags \in Seq(BOOLEAN)
      /\ \A k \in DOMAIN keyset :
           /\ links[k] \in 0 .. Len(trie[1].linkFlags) - 1
           /\ ids[k] \in 0 .. Ones(flags) - 1
           /\ Select1(flags, ids[k]) = links[k]
      /\ \A id \in 0 .. Ones(flags) - 1 : \E k \in DOMAIN keyset : ids[k] = id
  BY IdsLeadBack DEF Finished
<1>3. Len(flags) = n + 2
  <2>1. flags = [i \in 1 .. Len(Top.bases) + 1 |-> \E k \in DOMAIN links : links[k] = i - 1]
    BY DEF Finished, IdsGiven, Top
  <2>2. DOMAIN flags = 1 .. n + 2
    <3>1. Len(Top.bases) + 1 = n + 2
      BY <1>1
    <3> QED
      BY <2>1, <3>1
  <2>3. Len(flags) \in Nat /\ DOMAIN flags = 1 .. Len(flags)
    BY <1>2, LenProperties
  <2> HIDE DEF flags, n
  <2> QED
    BY <1>1, <2>2, <2>3
<1> HIDE DEF flags, n
<1>4. Ones(flags) \in Nat
  BY <1>1, <1>2, <1>3, RankType DEF Ones
<1>5. ASSUME NEW m \in Nodes(Top)
      PROVE  /\ KeyIdOf(flags, m) \in Nat
             /\ Bit(flags, m) => /\ KeyIdOf(flags, m) \in Ids(flags)
                                 /\ Select1(flags, KeyIdOf(flags, m)) = m
  <2>1. m \in 0 .. Len(flags) /\ m \in 0 .. Len(flags) - 1
    BY <1>1, <1>3 DEF Nodes, n
  <2>2. Rank1(flags, m) \in Nat
    BY <1>2, <2>1, RankType
  <2>3. Bit(flags, m) => Rank1(flags, m) < Ones(flags) /\ Select1(flags, Rank1(flags, m)) = m
    BY <1>2, <2>1, RankOfOne, SelectOfRank
  <2> QED
    BY <1>4, <2>2, <2>3 DEF KeyIdOf, Ids
<1>6. ASSUME NEW i \in Ids(flags)
      PROVE  /\ Select1(flags, i) \in Nodes(Top)
             /\ Bit(flags, Select1(flags, i))
             /\ KeyIdOf(flags, Select1(flags, i)) = i
  <2>1. PICK k \in DOMAIN keyset : ids[k] = i
    BY <1>2 DEF Ids
  <2>2. Select1(flags, i) = links[k] /\ links[k] \in 0 .. Len(trie[1].linkFlags) - 1
    BY <1>2, <2>1
  <2>3. Select1(flags, i) \in Nodes(Top)
    <3>1. Len(trie[1].linkFlags) - 1 = n
      BY <1>1 DEF Top
    <3> QED
      BY <2>2, <3>1 DEF Nodes, n
  <2>4. Bit(flags, Select1(flags, i)) /\ Rank1(flags, Select1(flags, i)) = i
    BY <1>2, Select1Finds DEF Ids
  <2> QED
    BY <2>3, <2>4 DEF KeyIdOf
<1> QED
  BY <1>2, <1>3, <1>4, <1>5, <1>6 DEF flags, n, Terminal

LEMMA WalkHere ==
  ASSUME Finished, SearchTypeOK, WalkOK, status = "predictive", historyPos > 0
  PROVE  /\ Walk(Top, terminalFlags, history, historyPos)
         /\ keyBuf = Text(Top, history[historyPos].nodeId)
         /\ RootOf(Top, query, history[1].nodeId)
<1>1. /\ history \in Seq(LevelType) /\ historyPos \in 0 .. Len(history) /\ Len(history) \in Nat
  BY LenProperties DEF SearchTypeOK, LevelType
<1>2. historyPos \in 1 .. Len(history)
  BY <1>1
<1> QED
  BY <1>1, <1>2, TopIsTree, FlagsAre DEF WalkOK, Walk

-----------------------------------------------------------------------------
\* One lemma for each action: it keeps the cursor right.
LEMMA BuildNotDone ==
  ASSUME Next
  PROVE  phase # "done"
<1>1. BeginTrie => phase # "done"
  BY DEF BeginTrie
<1>2. OpenNode => phase # "done"
  BY DEF OpenNode
<1>3. GroupKey => phase # "done"
  BY DEF GroupKey
<1>4. Grouped => phase # "done"
  BY DEF Grouped
<1>5. AddChild => phase # "done"
  BY DEF AddChild
<1>6. CloseNode => phase # "done"
  BY DEF CloseNode
<1>7. NoNextLevel => phase # "done"
  BY DEF NoNextLevel, CloseTrie
<1>8. NextTrie => phase # "done"
  BY DEF NextTrie, CloseTrie
<1>9. NextTail => phase # "done"
  BY DEF NextTail, CloseTrie
<1>10. AddEntry => phase # "done"
  BY DEF AddEntry
<1>11. TailDone => phase # "done"
  BY DEF TailDone
<1>12. LinkTrie => phase # "done"
  BY DEF LinkTrie
<1>13. NumberKeys => phase # "done"
  BY DEF NumberKeys
<1> QED
  BY <1>1, <1>2, <1>3, <1>4, <1>5, <1>6, <1>7, <1>8, <1>9, <1>10, <1>11, <1>12,
     <1>13 DEF Next

LEMMA CursorBuild ==
  ASSUME CursorInv, BuildStep
  PROVE  CursorInv'
<1>1. phase # "done" /\ status = "all" /\ call = "none"
  BY BuildNotDone DEF BuildStep, CursorInv, ModesOK
<1>2. UNCHANGED agentVars
  BY DEF BuildStep
<1>3. SearchTypeOK'
  BY <1>2 DEF CursorInv, SearchTypeOK, agentVars, cursorVars
<1>4. status' = "all" /\ call' = "none"
  BY <1>1, <1>2 DEF agentVars
<1>5. ModesOK'
  BY <1>4 DEF ModesOK
<1>6. CursorOK' /\ WalkOK'
  BY <1>4 DEF CursorOK, WalkOK
<1> QED
  BY <1>3, <1>5, <1>6 DEF CursorInv

LEMMA CursorSetQuery ==
  ASSUME CursorInv, SetQuery
  PROVE  CursorInv'
<1>1. /\ query' \in Seq(Byte) /\ queryId' \in Nat
  BY QueriesAssumption DEF SetQuery, CursorInv, SearchTypeOK
<1>2. status' = "all" /\ call' = "none" /\ result' = "none"
  BY DEF SetQuery, ResetStatus, Idle
<1>3. SearchTypeOK'
  BY <1>1, <1>2 DEF SetQuery, CursorInv, SearchTypeOK, cursorVars
<1>4. ModesOK'
  BY <1>2 DEF ModesOK
<1>5. CursorOK' /\ WalkOK'
  BY <1>2 DEF CursorOK, WalkOK
<1> QED
  BY <1>3, <1>4, <1>5 DEF CursorInv

\* A root, a text it has, and a query of which nothing is read yet.
LEMMA LedFromRoot ==
  ASSUME Finished, query \in Seq(Byte)
  PROVE  /\ Led(Top, query, 0, 0) /\ Leads(Top, query, 0, 0, <<>>)
         /\ 0 \in Nodes(Top) /\ Text(Top, 0) = <<>>
<1>1. Text(Top, 0) = <<>> /\ Len(Top.parentOf) \in Nat /\ Len(query) \in Nat
  BY TopIsTree, LenProperties DEF Tree
<1>2. SubSeq(query, 1, 0) = <<>> /\ Len(<<>>) = 0
  BY SubSeqEmpty
<1>3. 0 \in Nodes(Top) /\ 0 \in 0 .. Len(query)
  BY <1>1 DEF Nodes
<1>4. Led(Top, query, 0, 0)
  BY <1>1, <1>2, <1>3 DEF Led
<1>5. Leads(Top, query, 0, 0, <<>>)
  BY <1>1, <1>2, <1>3 DEF Leads
<1> QED
  BY <1>1, <1>3, <1>4, <1>5

LEMMA CursorLookupCall ==
  ASSUME Ready, CursorInv, LookupCall
  PROVE  CursorInv'
<1>1. /\ status' = "all" /\ call' = "lookup" /\ nodeId' = 0 /\ queryPos' = 0
      /\ phase = "done" /\ phase' = "done" /\ UNCHANGED <<trie, terminalFlags, query, queryId>>
  BY DEF LookupCall, Enter, Idle, vars, linkVars
<1>2. SearchTypeOK'
  BY <1>1 DEF LookupCall, Enter, CursorInv, SearchTypeOK
<1>3. ModesOK' /\ WalkOK'
  BY <1>1 DEF ModesOK, WalkOK
<1>4. Led(Top, query, 0, 0)
  BY <1>1, LedFromRoot DEF Ready, CursorInv, SearchTypeOK
<1>5. CursorOK'
  BY <1>1, <1>4 DEF CursorOK, Top
<1> QED
  BY <1>2, <1>3, <1>5 DEF CursorInv

LEMMA CursorLookupStep ==
  ASSUME Ready, CursorInv, LookupStep
  PROVE  CursorInv'
<1>0. call = "lookup" /\ status = "all" /\ phase = "done"
  BY DEF LookupStep, CursorInv, ModesOK
<1>1. Finished /\ SearchTypeOK /\ query \in Seq(Byte) /\ Led(Top, query, nodeId, queryPos)
  BY <1>0 DEF Ready, CursorInv, CursorOK, SearchTypeOK
<1> DEFINE child == FindChild(FALSE)
<1>2. /\ HasMoreQuery /\ nodeId' = child.node /\ queryPos' = child.pos
      /\ IF child.ok THEN UNCHANGED <<call, from, given, key, result, status>>
                     ELSE Fail(status)
      /\ UNCHANGED <<vars, query, queryId, keyBuf, history, historyPos>>
  BY DEF LookupStep, Descended
<1>3. nodeId \in Nodes(Top) /\ queryPos \in Starts
  BY <1>1, <1>2, LenProperties DEF Led, HasMoreQuery, Starts
<1>4. FoundAs(child, FALSE)
  BY <1>1, <1>3, FindChildIs
<1> HIDE DEF child
<1>5. nodeId' \in Nat /\ queryPos' \in Nat
  BY <1>2, <1>4 DEF FoundAs
<1>6. UNCHANGED <<phase, trie, terminalFlags, query, queryId, keyBuf, history, historyPos>>
  BY <1>2 DEF vars, linkVars
<1>7. CASE child.ok
  <2>1. UNCHANGED <<call, from, given, key, result, status>>
    BY <1>2, <1>7
  <2>2. Led(Top, query, child.node, child.pos)
    BY <1>1, <1>2, <1>4, <1>7, LedOn
  <2>3. SearchTypeOK'
    BY <1>1, <1>5, <1>6, <2>1 DEF SearchTypeOK
  <2>4. ModesOK' /\ WalkOK'
    BY <1>0, <1>6, <2>1 DEF ModesOK, WalkOK
  <2>5. CursorOK'
    BY <1>0, <1>2, <1>6, <2>1, <2>2 DEF CursorOK, Top
  <2> QED
    BY <2>3, <2>4, <2>5 DEF CursorInv
<1>8. CASE ~child.ok
  <2>1. status' = "all" /\ call' = "none" /\ result' = "false" /\ key' = key
    BY <1>0, <1>2, <1>8 DEF Fail
  <2>2. SearchTypeOK'
    BY <1>1, <1>5, <1>6, <2>1 DEF SearchTypeOK
  <2>3. ModesOK' /\ WalkOK' /\ CursorOK'
    BY <1>6, <2>1 DEF ModesOK, WalkOK, CursorOK
  <2> QED
    BY <2>2, <2>3 DEF CursorInv
<1> QED
  BY <1>7, <1>8

LEMMA CursorLookupEnd ==
  ASSUME Ready, CursorInv, LookupEnd
  PROVE  CursorInv'
<1>0. call = "lookup" /\ status = "all" /\ phase = "done"
  BY DEF LookupEnd, CursorInv, ModesOK
<1>1. /\ Finished /\ SearchTypeOK /\ query \in Seq(Byte) /\ Len(query) \in Nat
      /\ nodeId \in Nodes(Top)
  BY <1>0, LenProperties DEF Ready, CursorInv, CursorOK, SearchTypeOK, Led
<1>2. KeyIdOf(terminalFlags, nodeId) \in Nat
  BY <1>1, FlagsAre
<1>3. /\ status' = "all" /\ call' = "none" /\ result' \in {"true", "false"}
      /\ key' \in {key, [in |-> "query", len |-> Len(query),
                         id |-> KeyIdOf(terminalFlags, nodeId)]}
      /\ UNCHANGED <<query, queryId, nodeId, queryPos, keyBuf, history, historyPos>>
  BY <1>0 DEF LookupEnd, Found, Fail, cursorVars
<1>4. SearchTypeOK'
  BY <1>1, <1>2, <1>3 DEF SearchTypeOK
<1>5. ModesOK' /\ WalkOK' /\ CursorOK'
  BY <1>3 DEF ModesOK, WalkOK, CursorOK
<1> QED
  BY <1>4, <1>5 DEF CursorInv

LEMMA CursorReverseThrow ==
  ASSUME CursorInv, ReverseThrow
  PROVE  CursorInv'
<1>1. /\ UNCHANGED <<vars, query, queryId, cursorVars, status, key, call, from, given>>
      /\ result' = "throw"
  BY DEF ReverseThrow
<1>2. SearchTypeOK' /\ ModesOK'
  BY <1>1 DEF CursorInv, SearchTypeOK, ModesOK, cursorVars, vars
<1>3. phase = "done" => CursorOK' /\ WalkOK'
  BY <1>1 DEF CursorInv, CursorOK, WalkOK, cursorVars, vars, linkVars, Top
<1>4. phase' = phase
  BY <1>1 DEF vars
<1> QED
  BY <1>2, <1>3, <1>4 DEF CursorInv

LEMMA CursorReverseCall ==
  ASSUME Ready, CursorInv, ReverseCall
  PROVE  CursorInv'
<1> DEFINE z == Select1(terminalFlags, queryId)
<1>0. phase = "done" /\ Finished /\ SearchTypeOK /\ queryId < Ones(terminalFlags)
      /\ queryId \in Nat /\ query \in Seq(Byte)
  BY DEF ReverseCall, Idle, Ready, CursorInv, SearchTypeOK
<1>1. /\ keyBuf' = <<>> /\ status' = "all" /\ nodeId' = z
      /\ IF z = 0 THEN Found("keyBuf", 0, queryId, {})
         ELSE Enter("reverse") /\ UNCHANGED <<key, given>>
      /\ UNCHANGED <<vars, query, queryId, queryPos, history, historyPos>>
  BY DEF ReverseCall
<1>2. queryId \in Ids(terminalFlags) /\ z \in Nodes(Top)
  BY <1>0, FlagsAre DEF Ids
<1>3. z \in Nat /\ (z = 0 \/ z \in DOMAIN Top.parentOf) /\ Text(Top, z) \in Seq(Byte)
  BY <1>0, <1>2, TopIsTree, TreeNode
<1>4. UNCHANGED <<phase, trie, terminalFlags, query, queryId, queryPos, history, historyPos>>
  BY <1>1 DEF vars, linkVars
<1> HIDE DEF z
<1>5. /\ z = 0 => call' = "none" /\ result' = "true"
                  /\ key' = [in |-> "keyBuf", len |-> 0, id |-> queryId]
      /\ z # 0 => call' = "reverse" /\ result' = "none" /\ key' = key
  BY <1>1 DEF Found, Enter
<1>6. /\ call' \in {"none", "reverse"} /\ result' \in {"none", "true"}
      /\ key' \in {key, [in |-> "keyBuf", len |-> 0, id |-> queryId]}
      /\ <<>> \in Seq(Byte)
  BY <1>5
<1>7. SearchTypeOK'
  BY <1>0, <1>1, <1>3, <1>4, <1>6 DEF SearchTypeOK
<1>8. ModesOK' /\ WalkOK'
  BY <1>0, <1>1, <1>4, <1>6 DEF ModesOK, WalkOK
<1>9. z # 0 => Climbs(Top, z, z, <<>>)
  <2>1. Seqs!Reverse(<<>>) = <<>>
    <3>1. <<>> \in Seq(Byte) /\ Len(<<>>) = 0
      OBVIOUS
    <3>2. Seqs!Reverse(<<>>) \in Seq(Byte) /\ Len(Seqs!Reverse(<<>>)) = 0
      BY <3>1, ReverseOf
    <3> QED
      BY <3>2, EmptySeq
  <2>2. Text(Top, z) \o <<>> = Text(Top, z)
    BY <1>3, ConcatEmptySeq
  <2> QED
    BY <1>3, <2>1, <2>2 DEF Climbs
<1>10. CursorOK'
  <2>1. CASE z = 0
    BY <1>1, <1>5, <2>1 DEF CursorOK
  <2>2. CASE z # 0
    BY <1>0, <1>1, <1>4, <1>5, <1>9, <2>2 DEF CursorOK, Top, z
  <2> QED
    BY <2>1, <2>2
<1> QED
  BY <1>7, <1>8, <1>10 DEF CursorInv

LEMMA CursorReverseStep ==
  ASSUME Ready, CursorInv, ReverseStep
  PROVE  CursorInv'
<1> DEFINE z == Select1(terminalFlags, queryId)
           more == keyBuf \o ReadAt(nodeId)
           up == Select1(Top.louds, nodeId) - nodeId - 1
<1>0. call = "reverse" /\ status = "all" /\ phase = "done"
  BY DEF ReverseStep, CursorInv, ModesOK
<1>1. /\ Finished /\ SearchTypeOK /\ queryId < Ones(terminalFlags)
      /\ queryId \in Nat /\ keyBuf \in Seq(Byte)
      /\ Climbs(Top, z, nodeId, keyBuf)
  BY <1>0 DEF Ready, CursorInv, SearchTypeOK, CursorOK
<1>2. /\ IF nodeId <= Top.numL1
         THEN /\ keyBuf' = Seqs!Reverse(more)
              /\ Found("keyBuf", Len(keyBuf'), queryId, {})
              /\ UNCHANGED nodeId
         ELSE /\ keyBuf' = more
              /\ nodeId' = up
              /\ UNCHANGED <<call, from, given, key, result>>
      /\ UNCHANGED <<vars, query, queryId, queryPos, history, historyPos, status>>
  BY DEF ReverseStep, ReadAt
<1>3. /\ more \in Seq(Byte)
      /\ nodeId <= Top.numL1 => Text(Top, z) = Seqs!Reverse(more)
      /\ ~(nodeId <= Top.numL1) => Climbs(Top, z, up, more)
  BY <1>1, ClimbsOn
<1>4. UNCHANGED <<phase, trie, terminalFlags, query, queryId, queryPos, history,
                  historyPos, status>>
  BY <1>2 DEF vars, linkVars
<1> HIDE DEF more, up, z
<1>5. CASE nodeId <= Top.numL1
  <2>1. keyBuf' = Seqs!Reverse(more) /\ Found("keyBuf", Len(keyBuf'), queryId, {})
        /\ UNCHANGED nodeId
    BY <1>2, <1>5
  <2>2. keyBuf' \in Seq(Byte) /\ Len(keyBuf') \in Nat
    BY <1>3, <2>1, ReverseOf, LenProperties
  <2>3. /\ call' = "none" /\ result' = "true"
        /\ key' = [in |-> "keyBuf", len |-> Len(keyBuf'), id |-> queryId]
    BY <2>1 DEF Found
  <2>4. SearchTypeOK'
    BY <1>1, <1>4, <2>1, <2>2, <2>3 DEF SearchTypeOK
  <2>5. ModesOK' /\ WalkOK' /\ CursorOK'
    BY <1>0, <1>4, <2>3 DEF ModesOK, WalkOK, CursorOK
  <2> QED
    BY <2>4, <2>5 DEF CursorInv
<1>6. CASE ~(nodeId <= Top.numL1)
  <2>1. /\ keyBuf' = more /\ nodeId' = up /\ UNCHANGED <<call, from, given, key, result>>
    BY <1>2, <1>6
  <2>2. Climbs(Top, z, up, more) /\ up \in Nat
    <3>1. Climbs(Top, z, up, more)
      BY <1>3, <1>6
    <3>2. up \in DOMAIN Top.parentOf
      BY <3>1 DEF Climbs
    <3> QED
      BY <1>1, <3>1, <3>2, TopIsTree
  <2>3. SearchTypeOK'
    BY <1>1, <1>3, <1>4, <2>1, <2>2 DEF SearchTypeOK
  <2>4. ModesOK' /\ WalkOK'
    BY <1>0, <1>4, <2>1 DEF ModesOK, WalkOK
  <2>5. CursorOK'
    BY <1>0, <1>1, <1>4, <2>1, <2>2 DEF CursorOK, Top, z
  <2> QED
    BY <2>3, <2>4, <2>5 DEF CursorInv
<1> QED
  BY <1>5, <1>6

LEMMA CursorCommonCall ==
  ASSUME Ready, CursorInv, CommonCall
  PROVE  CursorInv'
<1>0. /\ phase = "done" /\ call = "none" /\ Finished /\ SearchTypeOK /\ ModesOK
      /\ CursorOK /\ WalkOK /\ query \in Seq(Byte)
  BY DEF CommonCall, Idle, Ready, CursorInv, SearchTypeOK
<1>1. UNCHANGED <<phase, trie, terminalFlags, query, queryId>>
  BY DEF CommonCall, vars, linkVars
<1>2. CASE status = "endOfCommon" /\ Fail(status) /\ UNCHANGED cursorVars
  <2>1. status' = "endOfCommon" /\ call' = "none" /\ result' = "false" /\ key' = key
        /\ UNCHANGED <<nodeId, queryPos, keyBuf, history, historyPos>>
    BY <1>2 DEF Fail, cursorVars
  <2>2. SearchTypeOK'
    BY <1>0, <1>1, <2>1 DEF SearchTypeOK
  <2>3. ModesOK' /\ WalkOK' /\ CursorOK'
    BY <1>0, <1>1, <2>1 DEF ModesOK, WalkOK, CursorOK
  <2> QED
    BY <2>2, <2>3 DEF CursorInv
<1>3. CASE /\ status = "common" /\ Enter("common")
           /\ UNCHANGED <<cursorVars, status, key, given>>
  <2>1. status' = "common" /\ call' = "common" /\ result' = "none" /\ key' = key
        /\ from' = "common" /\ UNCHANGED <<nodeId, queryPos, keyBuf, history, historyPos>>
    BY <1>3 DEF Enter, cursorVars
  <2>2. SearchTypeOK'
    BY <1>0, <1>1, <2>1 DEF SearchTypeOK
  <2>3. ModesOK' /\ WalkOK'
    BY <1>0, <1>1, <2>1 DEF ModesOK, WalkOK
  <2>4. CursorOK'
    BY <1>0, <1>1, <1>3, <2>1 DEF CursorOK, Top
  <2> QED
    BY <2>2, <2>3, <2>4 DEF CursorInv
<1>4. CASE /\ status \notin {"common", "endOfCommon"}
           /\ CommonInit
           /\ IF Terminal(0)
              THEN LET id == KeyIdOf(terminalFlags, 0)
                   IN  Found("query", 0, id, {id})
              ELSE Enter("common") /\ UNCHANGED <<key, given>>
           /\ UNCHANGED <<keyBuf, history, historyPos>>
  <2> DEFINE id == KeyIdOf(terminalFlags, 0)
  <2>1. id \in Nat /\ Led(Top, query, 0, 0)
    BY <1>0, LedFromRoot, FlagsAre
  <2>2. /\ status' = "common" /\ nodeId' = 0 /\ queryPos' = 0
        /\ UNCHANGED <<keyBuf, history, historyPos>>
    BY <1>4 DEF CommonInit
  <2>3. /\ call' = "none" \/ (call' = "common" /\ from' # "endOfCommon")
        /\ result' \in {"true", "none"}
        /\ key' \in {key, [in |-> "query", len |-> 0, id |-> id]}
    BY <1>4 DEF Found, Enter
  <2> HIDE DEF id
  <2>4. SearchTypeOK'
    BY <1>0, <1>1, <2>1, <2>2, <2>3 DEF SearchTypeOK
  <2>5. ModesOK' /\ WalkOK'
    BY <1>0, <1>1, <2>2, <2>3 DEF ModesOK, WalkOK
  <2>6. CursorOK'
    BY <1>1, <2>1, <2>2, <2>3 DEF CursorOK, Top
  <2> QED
    BY <2>4, <2>5, <2>6 DEF CursorInv
<1> QED
  BY <1>2, <1>3, <1>4 DEF CommonCall

LEMMA CursorCommonStep ==
  ASSUME Ready, CursorInv, CommonStep
  PROVE  CursorInv'
<1>0. call = "common" /\ status = "common" /\ from # "endOfCommon" /\ phase = "done"
  BY DEF CommonStep, CursorInv, ModesOK
<1>1. Finished /\ SearchTypeOK /\ query \in Seq(Byte) /\ Led(Top, query, nodeId, queryPos)
  BY <1>0 DEF Ready, CursorInv, CursorOK, SearchTypeOK
<1> DEFINE child == FindChild(FALSE)
           id == KeyIdOf(terminalFlags, child.node)
<1>2. /\ HasMoreQuery /\ nodeId' = child.node /\ queryPos' = child.pos
      /\ IF ~child.ok THEN Fail("endOfCommon")
         ELSE IF Terminal(child.node)
         THEN Found("query", child.pos, id, Given(id, "common")) /\ UNCHANGED status
         ELSE UNCHANGED <<status, key, result, call, from, given>>
      /\ UNCHANGED <<vars, query, queryId, keyBuf, history, historyPos>>
  BY DEF CommonStep, Descended
<1>3. nodeId \in Nodes(Top) /\ queryPos \in Starts
  BY <1>1, <1>2, LenProperties DEF Led, HasMoreQuery, Starts
<1>4. FoundAs(child, FALSE)
  BY <1>1, <1>3, FindChildIs
<1> HIDE DEF child
<1>5. nodeId' \in Nat /\ queryPos' \in Nat /\ child.pos \in Nat
  BY <1>2, <1>4 DEF FoundAs
<1>6. UNCHANGED <<phase, trie, terminalFlags, query, queryId, keyBuf, history, historyPos>>
  BY <1>2 DEF vars, linkVars
<1>7. CASE child.ok
  <2>1. Led(Top, query, child.node, child.pos)
    BY <1>1, <1>2, <1>4, <1>7, LedOn
  <2>2. id \in Nat
    BY <1>1, <2>1, FlagsAre DEF Led
  <2> HIDE DEF id
  <2>3. /\ status' = "common"
        /\ call' = "none" \/ (call' = "common" /\ from' = from)
        /\ result' \in {result, "true"}
        /\ key' \in {key, [in |-> "query", len |-> child.pos, id |-> id]}
    BY <1>0, <1>2, <1>7 DEF Found
  <2>4. SearchTypeOK'
    BY <1>1, <1>5, <1>6, <2>2, <2>3 DEF SearchTypeOK
  <2>5. ModesOK' /\ WalkOK'
    BY <1>0, <1>6, <2>3 DEF ModesOK, WalkOK
  <2>6. CursorOK'
    BY <1>0, <1>2, <1>6, <2>1, <2>3 DEF CursorOK, Top
  <2> QED
    BY <2>4, <2>5, <2>6 DEF CursorInv
<1>8. CASE ~child.ok
  <2>1. status' = "endOfCommon" /\ call' = "none" /\ result' = "false" /\ key' = key
    BY <1>0, <1>2, <1>8 DEF Fail
  <2>2. SearchTypeOK'
    BY <1>1, <1>5, <1>6, <2>1 DEF SearchTypeOK
  <2>3. ModesOK' /\ WalkOK' /\ CursorOK'
    BY <1>0, <1>6, <2>1 DEF ModesOK, WalkOK, CursorOK
  <2> QED
    BY <2>2, <2>3 DEF CursorInv
<1> QED
  BY <1>7, <1>8

LEMMA CursorCommonEnd ==
  ASSUME CursorInv, CommonEnd
  PROVE  CursorInv'
<1>1. /\ status' = "endOfCommon" /\ call' = "none" /\ result' = "false" /\ key' = key
      /\ UNCHANGED <<query, queryId, nodeId, queryPos, keyBuf, history, historyPos>>
      /\ phase' = phase /\ phase = "done"
  BY DEF CommonEnd, Fail, cursorVars, vars, CursorInv, ModesOK
<1>2. SearchTypeOK'
  BY <1>1 DEF CursorInv, SearchTypeOK
<1>3. ModesOK' /\ WalkOK' /\ CursorOK'
  BY <1>1 DEF ModesOK, WalkOK, CursorOK
<1> QED
  BY <1>2, <1>3 DEF CursorInv

LEMMA CursorPredictiveCall ==
  ASSUME Ready, CursorInv, PredictiveCall
  PROVE  CursorInv'
<1>0. /\ phase = "done" /\ call = "none" /\ Finished /\ SearchTypeOK /\ ModesOK
      /\ CursorOK /\ WalkOK /\ query \in Seq(Byte)
  BY DEF PredictiveCall, Idle, Ready, CursorInv, SearchTypeOK
<1>1. UNCHANGED <<phase, trie, terminalFlags, query, queryId>>
  BY DEF PredictiveCall, vars, linkVars
<1>2. CASE status = "endOfPredictive" /\ Fail(status) /\ UNCHANGED cursorVars
  <2>1. status' = "endOfPredictive" /\ call' = "none" /\ result' = "false" /\ key' = key
        /\ UNCHANGED <<nodeId, queryPos, keyBuf, history, historyPos>>
    BY <1>2 DEF Fail, cursorVars
  <2>2. SearchTypeOK'
    BY <1>0, <1>1, <2>1 DEF SearchTypeOK
  <2>3. ModesOK' /\ WalkOK' /\ CursorOK'
    BY <1>0, <1>1, <2>1 DEF ModesOK, WalkOK, CursorOK
  <2> QED
    BY <2>2, <2>3 DEF CursorInv
<1>3. CASE /\ status = "predictive" /\ Enter("enumerate")
           /\ UNCHANGED <<cursorVars, status, key, given>>
  <2>1. status' = "predictive" /\ call' = "enumerate" /\ result' = "none" /\ key' = key
        /\ from' = "predictive" /\ UNCHANGED <<nodeId, queryPos, keyBuf, history, historyPos>>
    BY <1>3 DEF Enter, cursorVars
  <2>2. SearchTypeOK'
    BY <1>0, <1>1, <2>1 DEF SearchTypeOK
  <2>3. ModesOK'
    BY <1>0, <1>1, <1>3, <2>1 DEF ModesOK
  <2>4. CursorOK'
    BY <2>1 DEF CursorOK
  <2>5. WalkOK'
    BY <1>0, <1>1, <1>3, <2>1 DEF WalkOK, Top
  <2> QED
    BY <2>2, <2>3, <2>4, <2>5 DEF CursorInv
<1>4. CASE /\ status \notin {"predictive", "endOfPredictive"}
           /\ Enter("predictive")
           /\ PredictiveInit
           /\ UNCHANGED <<key, given>>
  <2>1. Leads(Top, query, 0, 0, <<>>)
    BY <1>0, LedFromRoot
  <2>2. /\ status' = "predictive" /\ nodeId' = 0 /\ queryPos' = 0 /\ keyBuf' = <<>>
        /\ history' = <<>> /\ historyPos' = 0
        /\ call' = "predictive" /\ from' = status /\ result' = "none" /\ key' = key
    BY <1>4 DEF PredictiveInit, Enter
  <2>3. SearchTypeOK'
    <3>1. <<>> \in Seq(Byte) /\ Len(<<>>) = 0
          /\ <<>> \in Seq([nodeId : Nat, loudsPos : Nat, keyPos : Nat,
                           linkId : Nat \cup {Invalid}, keyId : Nat \cup {Invalid}])
      OBVIOUS
    <3> QED
      BY <1>0, <1>1, <2>2, <3>1 DEF SearchTypeOK
  <2>4. ModesOK' /\ WalkOK'
    BY <1>0, <1>1, <1>4, <2>2 DEF ModesOK, WalkOK
  <2>5. CursorOK'
    BY <1>1, <2>1, <2>2 DEF CursorOK, Top
  <2> QED
    BY <2>3, <2>4, <2>5 DEF CursorInv
<1> QED
  BY <1>2, <1>3, <1>4 DEF PredictiveCall

LEMMA CursorPredictiveStep ==
  ASSUME Ready, CursorInv, PredictiveStep
  PROVE  CursorInv'
<1>0. call = "predictive" /\ status = "predictive" /\ phase = "done"
      /\ from \notin {"predictive", "endOfPredictive"} /\ history = <<>> /\ historyPos = 0
  BY DEF PredictiveStep, CursorInv, ModesOK
<1>1. /\ Finished /\ SearchTypeOK /\ query \in Seq(Byte) /\ keyBuf \in Seq(Byte)
      /\ Leads(Top, query, nodeId, queryPos, keyBuf)
  BY <1>0 DEF Ready, CursorInv, CursorOK, SearchTypeOK
<1> DEFINE child == FindChild(TRUE)
<1>2. /\ HasMoreQuery /\ nodeId' = child.node /\ queryPos' = child.pos
      /\ keyBuf' = keyBuf \o child.text
      /\ IF child.ok THEN UNCHANGED <<call, from, given, key, result, status>>
                     ELSE Fail("endOfPredictive")
      /\ UNCHANGED <<vars, query, queryId, history, historyPos>>
  BY DEF PredictiveStep, Descended
<1>3. nodeId \in Nodes(Top) /\ queryPos \in Starts
  BY <1>1, <1>2, LenProperties DEF Leads, HasMoreQuery, Starts
<1>4. FoundAs(child, TRUE)
  BY <1>1, <1>3, FindChildIs
<1> HIDE DEF child
<1>5. nodeId' \in Nat /\ queryPos' \in Nat /\ keyBuf' \in Seq(Byte)
  <2>1. child.text \in Seq(Byte)
    BY <1>4 DEF FoundAs
  <2> QED
    BY <1>1, <1>2, <1>4, <2>1, ConcatProperties DEF FoundAs
<1>6. UNCHANGED <<phase, trie, terminalFlags, query, queryId, history, historyPos>>
  BY <1>2 DEF vars, linkVars
<1>7. CASE child.ok
  <2>1. UNCHANGED <<call, from, given, key, result, status>>
    BY <1>2, <1>7
  <2>2. Leads(Top, query, child.node, child.pos, keyBuf \o child.text)
    BY <1>1, <1>2, <1>4, <1>7, LeadsOn
  <2>3. SearchTypeOK'
    BY <1>1, <1>5, <1>6, <2>1 DEF SearchTypeOK
  <2>4. ModesOK' /\ WalkOK'
    BY <1>0, <1>6, <2>1 DEF ModesOK, WalkOK
  <2>5. CursorOK'
    BY <1>0, <1>2, <1>6, <2>1, <2>2 DEF CursorOK, Top
  <2> QED
    BY <2>3, <2>4, <2>5 DEF CursorInv
<1>8. CASE ~child.ok
  <2>1. status' = "endOfPredictive" /\ call' = "none" /\ result' = "false" /\ key' = key
    BY <1>0, <1>2, <1>8 DEF Fail
  <2>2. SearchTypeOK'
    BY <1>1, <1>5, <1>6, <2>1 DEF SearchTypeOK
  <2>3. ModesOK' /\ WalkOK' /\ CursorOK'
    BY <1>0, <1>6, <2>1 DEF ModesOK, WalkOK, CursorOK
  <2> QED
    BY <2>2, <2>3 DEF CursorInv
<1> QED
  BY <1>7, <1>8

LEMMA CursorPredictiveRoot ==
  ASSUME Ready, CursorInv, PredictiveRoot
  PROVE  CursorInv'
<1> DEFINE root == [nodeId |-> nodeId, loudsPos |-> 0, keyPos |-> Len(keyBuf),
                    linkId |-> Invalid, keyId |-> Invalid]
           h == <<root>>
           id == KeyIdOf(terminalFlags, nodeId)
<1>0. call = "predictive" /\ status = "predictive" /\ phase = "done"
      /\ from \notin {"predictive", "endOfPredictive"} /\ history = <<>> /\ historyPos = 0
  BY DEF PredictiveRoot, CursorInv, ModesOK
<1>1. /\ Finished /\ SearchTypeOK /\ query \in Seq(Byte) /\ keyBuf \in Seq(Byte)
      /\ Leads(Top, query, nodeId, queryPos, keyBuf)
  BY <1>0 DEF Ready, CursorInv, CursorOK, SearchTypeOK
<1>2. queryPos = Len(query)
  BY <1>1, LenProperties DEF PredictiveRoot, HasMoreQuery, Leads
<1>3. RootOf(Top, query, nodeId)
  BY <1>1, <1>2, TopIsTree, LeadsToRoot
<1>4. /\ history' = h /\ historyPos' = 1
      /\ IF Terminal(nodeId)
         THEN Found("keyBuf", Len(keyBuf), id, Given(id, "predictive"))
         ELSE call' = "enumerate" /\ UNCHANGED <<from, given, key, result>>
      /\ UNCHANGED <<phase, trie, terminalFlags, query, queryId, nodeId, queryPos, keyBuf, status>>
  BY <1>0 DEF PredictiveRoot, vars, linkVars
<1>5. nodeId \in Nodes(Top) /\ keyBuf = Text(Top, nodeId) /\ nodeId \in Nat
      /\ Len(keyBuf) \in Nat /\ id \in Nat
  BY <1>1, FlagsAre, LenProperties DEF Leads, SearchTypeOK
<1>6. root \in LevelType
  BY <1>5 DEF LevelType
<1>7. root.nodeId = nodeId /\ root.keyPos = Len(keyBuf)
  OBVIOUS
<1> HIDE DEF root, id
<1>8. h \in Seq(LevelType) /\ Len(h) = 1 /\ h[1] = root
  BY <1>6
<1> HIDE DEF h
<1>9. /\ call' = "none" \/ (call' = "enumerate" /\ from' = from)
      /\ result' \in {result, "true"}
      /\ key' \in {key, [in |-> "keyBuf", len |-> Len(keyBuf), id |-> id]}
  BY <1>4 DEF Found
<1>10. SearchTypeOK'
  BY <1>1, <1>4, <1>5, <1>8, <1>9 DEF SearchTypeOK, LevelType
<1>11. ModesOK'
  BY <1>0, <1>4, <1>9 DEF ModesOK
<1>12. CursorOK'
  BY <1>0, <1>4, <1>9 DEF CursorOK
<1>13. Begins(Text(Top, nodeId), Text(Top, nodeId))
  BY <1>1, <1>5, BeginsItself
<1>14. PathOK(Top, h, 1)
  <2>1. \A i \in 1 .. 1 : i = 1 /\ h[i] = root /\ \A j \in i .. 1 : h[j] = root
    BY <1>8
  <2> QED
    BY <1>5, <1>7, <1>13, <2>1 DEF PathOK
<1>15. WalkOK'
  <2>1. Top' = Top
    BY <1>4 DEF Top
  <2>2. 2 .. Len(h) = {}
    BY <1>8
  <2> QED
    BY <1>3, <1>4, <1>5, <1>7, <1>8, <1>14, <2>1, <2>2 DEF WalkOK
<1> QED
  BY <1>10, <1>11, <1>12, <1>15 DEF CursorInv

\* Where an enumeration is when it makes its next step.
LEMMA StepAt ==
  ASSUME Ready, CursorInv, call = "enumerate"
  PROVE  /\ phase = "done" /\ status = "predictive" /\ historyPos > 0
         /\ from # "endOfPredictive"
         /\ Finished /\ SearchTypeOK /\ query \in Seq(Byte) /\ keyBuf \in Seq(Byte)
         /\ Levels = LevelsOn(Top, history, historyPos)
         /\ Walk(Top, terminalFlags, history, historyPos)
         /\ Walk(Top, terminalFlags, Levels, historyPos)
         /\ historyPos + 1 \in 2 .. Len(Levels)
         /\ \A i \in 1 .. Len(history) : Levels[i] = history[i]
         /\ historyPos < Len(history) \/ ~Bit(Top.louds, NextLevel.loudsPos - 1)
         /\ historyPos \in 1 .. Len(history)
         /\ keyBuf = Text(Top, history[historyPos].nodeId)
         /\ RootOf(Top, query, history[1].nodeId)
         /\ NextLevel = Levels[historyPos + 1]
<1>1. phase = "done" /\ status = "predictive" /\ historyPos > 0 /\ from # "endOfPredictive"
  BY DEF CursorInv, ModesOK
<1>2. Finished /\ SearchTypeOK /\ WalkOK /\ query \in Seq(Byte) /\ keyBuf \in Seq(Byte)
  BY <1>1 DEF Ready, CursorInv, SearchTypeOK
<1>3. /\ Walk(Top, terminalFlags, history, historyPos)
      /\ keyBuf = Text(Top, history[historyPos].nodeId)
      /\ RootOf(Top, query, history[1].nodeId)
  BY <1>1, <1>2, WalkHere
<1>4. Levels = LevelsOn(Top, history, historyPos)
  BY DEF Levels, LevelsOn
<1>5. /\ Walk(Top, terminalFlags, Levels, historyPos) /\ historyPos + 1 \in 2 .. Len(Levels)
      /\ \A i \in 1 .. Len(history) : Levels[i] = history[i]
      /\ historyPos < Len(history) \/ ~Bit(Top.louds, Levels[historyPos + 1].loudsPos - 1)
  <2> DEFINE more == LevelsOn(Top, history, historyPos)
  <2>1. /\ Walk(Top, terminalFlags, more, historyPos) /\ historyPos + 1 \in 2 .. Len(more)
        /\ \A i \in 1 .. Len(history) : more[i] = history[i]
        /\ historyPos < Len(history) \/ ~Bit(Top.louds, more[historyPos + 1].loudsPos - 1)
    BY <1>3, LevelsAre
  <2> HIDE DEF more
  <2>2. Levels = more
    BY <1>4 DEF more
  <2> QED
    BY <2>1, <2>2
<1>6. historyPos \in 1 .. Len(history)
  BY <1>3 DEF Walk
<1> QED
  BY <1>1, <1>2, <1>3, <1>4, <1>5, <1>6 DEF NextLevel

\* What a step of the enumeration adds to the key.
LEMMA VisitReads ==
  ASSUME Finished, NEW n \in DOMAIN Top.parentOf, NEW linkId,
         Bit(Top.linkFlags, n) => linkId = Rank1(Top.linkFlags, n)
  PROVE  (IF Bit(Top.linkFlags, n)
          THEN RestoredLink(Top.bases[n + 1] + Base * Top.extras[linkId + 1])
          ELSE <<Top.bases[n + 1]>>) = Own(1, n)
<1>1. 1 \in DOMAIN trie /\ n \in DOMAIN trie[1].parentOf
  BY TopIsTree DEF Top
<1>2. ~Bit(Top.linkFlags, n) => Own(1, n) = <<Top.bases[n + 1]>>
  BY <1>1, EdgeText DEF Top
<1>3. Bit(Top.linkFlags, n) =>
        Top.bases[n + 1] + Base * Top.extras[linkId + 1] = LinkOf(Top, n)
  BY DEF LinkOf, Extra
<1>4. Bit(Top.linkFlags, n) => RestoredLink(LinkOf(Top, n)) = Own(1, n)
  BY RestoredLinkIs
<1> QED
  BY <1>2, <1>3, <1>4

\* The step in one piece: which node it goes to, and what it leaves behind.
VisitMakes ==
  LET n == NextLevel.nodeId
      keyId == Counted(terminalFlags, NextLevel.keyId, n)
  IN  /\ n \in DOMAIN Top.parentOf /\ Top.parentOf[n] = history[historyPos].nodeId
      /\ keyBuf' = Text(Top, n)
      /\ history' = [Levels EXCEPT ![historyPos + 1] =
                       VisitedLevel(Top, terminalFlags, NextLevel)]
      /\ historyPos' = historyPos + 1
      /\ Walk(Top, terminalFlags, history', historyPos')
      /\ Len(history') = Len(Levels)
      /\ history'[historyPos + 1] = VisitedLevel(Top, terminalFlags, NextLevel)
      /\ \A i \in 1 .. Len(Levels) : i # historyPos + 1 => history'[i] = Levels[i]
      /\ Terminal(n) => keyId = KeyIdOf(terminalFlags, n) /\ keyId \in Nat
      /\ IF Terminal(n)
         THEN Found("keyBuf", Len(keyBuf'), KeyIdOf(terminalFlags, n),
                    Given(KeyIdOf(terminalFlags, n), "predictive"))
         ELSE UNCHANGED <<call, from, given, key, result>>
      /\ UNCHANGED <<phase, trie, terminalFlags, query, queryId, nodeId, queryPos, status>>

LEMMA VisitIs ==
  ASSUME Ready, CursorInv, Visit
  PROVE  VisitMakes
<1> DEFINE n == NextLevel.nodeId
           isLink == Bit(Top.linkFlags, n)
           linkId == Counted(Top.linkFlags, NextLevel.linkId, n)
           keyId == Counted(terminalFlags, NextLevel.keyId, n)
           new == VisitedLevel(Top, terminalFlags, NextLevel)
           next == [Levels EXCEPT ![historyPos + 1] = new]
<1>1. call = "enumerate" /\ Bit(Top.louds, NextLevel.loudsPos)
  BY DEF Visit
<1>2. /\ Finished /\ Walk(Top, terminalFlags, Levels, historyPos)
      /\ historyPos + 1 \in 2 .. Len(Levels) /\ NextLevel = Levels[historyPos + 1]
      /\ Levels[historyPos] = history[historyPos]
      /\ keyBuf = Text(Top, history[historyPos].nodeId)
  BY <1>1, StepAt
<1>3. /\ Walk(Top, terminalFlags, next, historyPos + 1)
      /\ n \in DOMAIN Top.parentOf /\ Top.parentOf[n] = history[historyPos].nodeId
      /\ Bit(Top.linkFlags, n) => linkId = Rank1(Top.linkFlags, n)
      /\ Terminal(n) => keyId = KeyIdOf(terminalFlags, n) /\ keyId \in Nat
      /\ Len(next) = Len(Levels) /\ next[historyPos + 1] = new
      /\ \A i \in 1 .. Len(Levels) : i # historyPos + 1 => next[i] = Levels[i]
  <2>1. SteppedOn(Top, terminalFlags, Levels, historyPos)
    BY <1>1, <1>2, WalkVisit
  <2> QED
    BY <1>2, <2>1, Zenon DEF SteppedOn, NextLevel, Terminal, KeyIdOf
<1>4. /\ keyBuf' = keyBuf \o (IF isLink
                              THEN RestoredLink(Top.bases[n + 1] + Base * Top.extras[linkId + 1])
                              ELSE <<Top.bases[n + 1]>>)
      /\ history' = [Levels EXCEPT ![historyPos + 1] =
           [nodeId |-> n, loudsPos |-> NextLevel.loudsPos + 1,
            keyPos |-> Len(keyBuf'), linkId |-> linkId, keyId |-> keyId]]
      /\ historyPos' = historyPos + 1
      /\ IF Terminal(n)
         THEN Found("keyBuf", Len(keyBuf'), keyId, Given(keyId, "predictive"))
         ELSE UNCHANGED <<call, from, given, key, result>>
      /\ UNCHANGED <<vars, query, queryId, nodeId, queryPos, status>>
  <2>1. linkId = IF ~isLink THEN NextLevel.linkId
                 ELSE IF NextLevel.linkId = Invalid THEN Rank1(Top.linkFlags, n)
                 ELSE NextLevel.linkId + 1
    BY DEF Counted
  <2>2. keyId = IF ~Terminal(n) THEN NextLevel.keyId
                ELSE IF NextLevel.keyId = Invalid THEN KeyIdOf(terminalFlags, n)
                ELSE NextLevel.keyId + 1
    BY DEF Counted, Terminal, KeyIdOf
  <2> HIDE DEF linkId, keyId
  <2> QED
    BY <2>1, <2>2, Zenon DEF Visit
<1> HIDE DEF linkId, keyId, n
<1>5. keyBuf' = Text(Top, n)
  <2>1. keyBuf' = keyBuf \o Own(1, n)
    BY <1>2, <1>3, <1>4, VisitReads
  <2>2. Text(Top, n) = Text(Top, Top.parentOf[n]) \o Own(1, n)
    BY <1>2, <1>3, KidText DEF Kids
  <2> QED
    BY <1>2, <1>3, <2>1, <2>2
<1>6. history' = next
  <2>1. Len(keyBuf') = Len(Text(Top, n))
    BY <1>5
  <2> QED
    BY <1>4, <2>1 DEF VisitedLevel, n, linkId, keyId
<1>7. UNCHANGED <<phase, trie, terminalFlags, query, queryId, nodeId, queryPos, status>>
  BY <1>4 DEF vars, linkVars
<1>8. IF Terminal(n)
      THEN Found("keyBuf", Len(keyBuf'), KeyIdOf(terminalFlags, n),
                 Given(KeyIdOf(terminalFlags, n), "predictive"))
      ELSE UNCHANGED <<call, from, given, key, result>>
  BY <1>3, <1>4
<1> HIDE DEF next, new
<1>9. historyPos' = historyPos + 1 /\ Walk(Top, terminalFlags, history', historyPos')
  BY <1>3, <1>4, <1>6
<1> QED
  BY <1>3, <1>4, <1>5, <1>6, <1>7, <1>8, <1>9 DEF VisitMakes, n, keyId, next, new

\* WalkOK where the cursor goes, from the walk there.
LEMMA WalkThere ==
  ASSUME NEW t, NEW flags, NEW h, NEW hp, NEW q, NEW buf, Walk(t, flags, h, hp),
         RootOf(t, q, h[1].nodeId), buf = Text(t, h[hp].nodeId)
  PROVE  /\ PathOK(t, h, hp)
         /\ \A i \in 2 .. Len(h) : LevelOK(t, flags, h, hp, i)
         /\ RootOf(t, q, h[1].nodeId)
         /\ buf = Text(t, h[hp].nodeId)
         /\ h \in Seq(LevelType) /\ hp \in 0 .. Len(h) /\ hp > 0
BY DEF Walk

LEMMA CursorVisit ==
  ASSUME Ready, CursorInv, Visit
  PROVE  CursorInv'
<1> DEFINE n == NextLevel.nodeId
           id == KeyIdOf(terminalFlags, n)
<1>0. call = "enumerate"
  BY DEF Visit
<1>1. /\ phase = "done" /\ status = "predictive" /\ from # "endOfPredictive"
      /\ Finished /\ SearchTypeOK /\ historyPos \in 1 .. Len(history)
      /\ historyPos + 1 \in 2 .. Len(Levels)
      /\ \A i \in 1 .. Len(history) : Levels[i] = history[i]
      /\ RootOf(Top, query, history[1].nodeId)
      /\ Walk(Top, terminalFlags, Levels, historyPos)
  BY <1>0, StepAt
<1>2. /\ n \in DOMAIN Top.parentOf
      /\ keyBuf' = Text(Top, n)
      /\ historyPos' = historyPos + 1
      /\ Walk(Top, terminalFlags, history', historyPos')
      /\ Len(history') = Len(Levels)
      /\ history'[historyPos + 1] = VisitedLevel(Top, terminalFlags, NextLevel)
      /\ \A i \in 1 .. Len(Levels) : i # historyPos + 1 => history'[i] = Levels[i]
      /\ Terminal(n) => id \in Nat
      /\ IF Terminal(n)
         THEN Found("keyBuf", Len(keyBuf'), id, Given(id, "predictive"))
         ELSE UNCHANGED <<call, from, given, key, result>>
      /\ UNCHANGED <<phase, trie, terminalFlags, query, queryId, nodeId, queryPos, status>>
  BY VisitIs, Zenon DEF VisitMakes
<1>3. VisitedLevel(Top, terminalFlags, NextLevel).nodeId = n
  BY DEF VisitedLevel
<1> HIDE DEF n, id
<1>4. keyBuf' = Text(Top, history'[historyPos'].nodeId)
  BY <1>2, <1>3
<1>5. history'[1] = history[1]
  <2>1. 1 \in 1 .. Len(Levels) /\ 1 # historyPos + 1 /\ 1 \in 1 .. Len(history)
    <3>1. Len(Levels) \in Nat
      BY <1>1 DEF Walk
    <3> QED
      BY <1>1, <3>1
  <2> QED
    BY <1>1, <1>2, <2>1
<1>6. /\ PathOK(Top, history', historyPos')
      /\ \A i \in 2 .. Len(history') : LevelOK(Top, terminalFlags, history', historyPos', i)
      /\ RootOf(Top, query, history'[1].nodeId)
      /\ history' \in Seq(LevelType) /\ historyPos' \in 0 .. Len(history')
      /\ historyPos' > 0
  BY <1>1, <1>2, <1>4, <1>5, WalkThere
<1>7. /\ call' = "none" \/ (call' = "enumerate" /\ from' = from)
      /\ result' \in {result, "true"}
      /\ key' \in {key, [in |-> "keyBuf", len |-> Len(keyBuf'), id |-> id]}
      /\ key' # key => Terminal(n)
  BY <1>0, <1>2 DEF Found
<1>8. keyBuf' \in Seq(Byte) /\ Len(keyBuf') \in Nat
  <2>1. Tree(Top) /\ n \in Nodes(Top)
    BY <1>1, <1>2, TopIsTree DEF Nodes
  <2> QED
    BY <1>2, <2>1, TreeNode
<1>9. key' \in [in : {"query", "keyBuf"}, len : Nat, id : Nat]
  BY <1>1, <1>2, <1>7, <1>8, SMTT(30) DEF SearchTypeOK
<1>10. SearchTypeOK'
  BY <1>1, <1>2, <1>6, <1>7, <1>8, <1>9 DEF SearchTypeOK, LevelType
<1>11. ModesOK'
  BY <1>1, <1>2, <1>6, <1>7 DEF ModesOK
<1>12. CursorOK'
  BY <1>1, <1>2, <1>7 DEF CursorOK
<1>13. WalkOK'
  <2>1. Top' = Top
    BY <1>2 DEF Top
  <2> QED
    BY <1>2, <1>4, <1>6, <2>1 DEF WalkOK
<1> QED
  BY <1>10, <1>11, <1>12, <1>13 DEF CursorInv

\* Going back up takes the text of the last node off the key.
LEMMA CursorGoUp ==
  ASSUME Ready, CursorInv, GoUp
  PROVE  CursorInv'
<1>0. /\ call = "enumerate" /\ ~Bit(Top.louds, NextLevel.loudsPos) /\ historyPos # 1
      /\ history' = PassedOn(Levels, historyPos) /\ historyPos' = historyPos - 1
      /\ keyBuf' = SubSeq(keyBuf, 1, history[historyPos - 1].keyPos)
      /\ UNCHANGED <<phase, trie, terminalFlags, query, queryId, nodeId, queryPos,
                     status, key, result, call, from, given>>
  BY DEF GoUp, Passed, PassedOn, vars, linkVars
<1>1. /\ phase = "done" /\ status = "predictive" /\ from # "endOfPredictive"
      /\ Finished /\ SearchTypeOK /\ historyPos \in 1 .. Len(history)
      /\ historyPos + 1 \in 2 .. Len(Levels)
      /\ \A i \in 1 .. Len(history) : Levels[i] = history[i]
      /\ RootOf(Top, query, history[1].nodeId)
      /\ Walk(Top, terminalFlags, Levels, historyPos)
      /\ Walk(Top, terminalFlags, history, historyPos)
      /\ NextLevel = Levels[historyPos + 1]
      /\ keyBuf = Text(Top, history[historyPos].nodeId)
  BY <1>0, StepAt
<1>2. GoneUp(Top, terminalFlags, Levels, historyPos)
  BY <1>0, <1>1, WalkUp
<1>3. /\ Walk(Top, terminalFlags, history', historyPos - 1)
      /\ Len(history') = Len(Levels)
      /\ \A i \in 1 .. Len(Levels) :
           i # historyPos + 1 /\ i # historyPos => history'[i] = Levels[i]
  BY <1>0, <1>2 DEF GoneUp
<1>4. Len(history) \in Nat /\ Len(Levels) \in Nat
  BY <1>1 DEF Walk
<1>5. /\ historyPos - 1 \in 1 .. Len(history) /\ historyPos - 1 \in 1 .. Len(Levels)
      /\ 1 \in 1 .. Len(history) /\ 1 \in 1 .. Len(Levels)
      /\ historyPos - 1 # historyPos + 1 /\ historyPos - 1 # historyPos
      /\ 1 # historyPos + 1 /\ 1 # historyPos
      /\ historyPos - 1 \in 1 .. historyPos /\ historyPos \in historyPos - 1 .. historyPos
  BY <1>0, <1>1, <1>4
<1>6. history'[historyPos - 1] = history[historyPos - 1] /\ history'[1] = history[1]
  BY <1>1, <1>3, <1>5
<1>7. keyBuf' = Text(Top, history'[historyPos - 1].nodeId)
  <2> DEFINE above == Text(Top, history[historyPos - 1].nodeId)
  <2>1. PathOK(Top, history, historyPos) /\ Tree(Top)
    BY <1>1 DEF Walk
  <2>2. /\ Begins(above, keyBuf) /\ history[historyPos - 1].keyPos = Len(above)
        /\ history[historyPos - 1].nodeId \in Nodes(Top)
    BY <1>1, <1>5, <2>1 DEF PathOK
  <2>3. above \in Seq(Byte) /\ keyBuf \in Seq(Byte)
    BY <1>1, <2>1, <2>2, TreeNode DEF SearchTypeOK
  <2> HIDE DEF above
  <2>4. SubSeq(keyBuf, 1, Len(above)) = above
    BY <2>2, <2>3, Z3 DEF Begins
  <2> QED
    BY <1>0, <1>6, <2>2, <2>4 DEF above
<1>8. /\ PathOK(Top, history', historyPos - 1)
      /\ \A i \in 2 .. Len(history') : LevelOK(Top, terminalFlags, history', historyPos - 1, i)
      /\ RootOf(Top, query, history'[1].nodeId)
      /\ history' \in Seq(LevelType) /\ historyPos - 1 \in 0 .. Len(history')
      /\ historyPos - 1 > 0
  BY <1>1, <1>3, <1>6, <1>7, WalkThere
<1>9. keyBuf' \in Seq(Byte)
  <2>1. Tree(Top) /\ history'[historyPos - 1].nodeId \in Nodes(Top)
    BY <1>3, <1>5, <1>8 DEF Walk, PathOK
  <2> QED
    BY <1>7, <2>1, TreeNode
<1>10. SearchTypeOK'
  BY <1>0, <1>1, <1>8, <1>9 DEF SearchTypeOK, LevelType
<1>11. ModesOK'
  BY <1>0, <1>1, <1>8 DEF ModesOK
<1>12. CursorOK'
  BY <1>0, <1>1 DEF CursorOK
<1>13. WalkOK'
  <2>1. Top' = Top
    BY <1>0 DEF Top
  <2> QED
    BY <1>0, <1>7, <1>8, <2>1 DEF WalkOK
<1> QED
  BY <1>10, <1>11, <1>12, <1>13 DEF CursorInv

\* The end of the enumeration.
LEMMA CursorEnumerateEnd ==
  ASSUME Ready, CursorInv, EnumerateEnd
  PROVE  CursorInv'
<1>0. /\ call = "enumerate"
      /\ history' = [Levels EXCEPT ![historyPos + 1].loudsPos = @ + 1]
      /\ status' = "endOfPredictive" /\ call' = "none" /\ result' = "false" /\ key' = key
      /\ UNCHANGED <<phase, trie, terminalFlags, query, queryId, nodeId, queryPos,
                     keyBuf, historyPos>>
  BY DEF EnumerateEnd, Fail, vars, linkVars
<1>1. /\ SearchTypeOK /\ phase = "done" /\ historyPos \in 1 .. Len(history)
      /\ historyPos + 1 \in 2 .. Len(Levels)
      /\ Walk(Top, terminalFlags, Levels, historyPos)
  BY <1>0, StepAt
<1>2. Levels \in Seq(LevelType) /\ Len(Levels) \in Nat /\ historyPos + 1 \in 1 .. Len(Levels)
      /\ historyPos \in 0 .. Len(Levels)
  BY <1>1 DEF Walk
<1> DEFINE new == [Levels[historyPos + 1] EXCEPT !.loudsPos = @ + 1]
<1>3. new \in LevelType
  <2>1. Levels[historyPos + 1] \in LevelType
    BY <1>2, ElementOfSeq
  <2> QED
    BY <2>1 DEF LevelType
<1>4. history' = [Levels EXCEPT ![historyPos + 1] = new]
  BY <1>0, Zenon
<1> HIDE DEF new
<1>5. history' \in Seq(LevelType) /\ Len(history') = Len(Levels)
  BY <1>2, <1>3, <1>4, ExceptSeq
<1>6. SearchTypeOK'
  BY <1>0, <1>1, <1>2, <1>5 DEF SearchTypeOK, LevelType
<1>7. ModesOK' /\ CursorOK' /\ WalkOK'
  BY <1>0, <1>1 DEF ModesOK, CursorOK, WalkOK
<1> QED
  BY <1>6, <1>7 DEF CursorInv

LEMMA CursorStutter ==
  ASSUME CursorInv, UNCHANGED searchVars
  PROVE  CursorInv'
<1>1. UNCHANGED <<phase, trie, terminalFlags, query, queryId, nodeId, queryPos, keyBuf,
                  history, historyPos, status, key, result, call, from>>
  BY DEF searchVars, agentVars, cursorVars, vars, linkVars
<1>2. SearchTypeOK' /\ ModesOK'
  BY <1>1 DEF CursorInv, SearchTypeOK, ModesOK
<1>3. CursorOK' <=> CursorOK
  BY <1>1 DEF CursorOK, Top
<1>4. WalkOK' <=> WalkOK
  BY <1>1 DEF WalkOK, Top
<1> QED
  BY <1>1, <1>2, <1>3, <1>4 DEF CursorInv

LEMMA CursorStep ==
  ASSUME Ready, CursorInv, [SearchNext]_searchVars
  PROVE  CursorInv'
<1>1. CASE BuildStep
  BY <1>1, CursorBuild
<1>2. CASE Call
  BY <1>2, CursorSetQuery, CursorLookupCall, CursorReverseThrow, CursorReverseCall,
     CursorCommonCall, CursorPredictiveCall DEF Call
<1>3. CASE Run
  BY <1>3, CursorLookupStep, CursorLookupEnd, CursorReverseStep, CursorCommonStep,
     CursorCommonEnd, CursorPredictiveStep, CursorPredictiveRoot, CursorVisit,
     CursorGoUp, CursorEnumerateEnd DEF Run
<1>4. CASE UNCHANGED searchVars
  BY <1>4, CursorStutter
<1> QED
  BY <1>1, <1>2, <1>3, <1>4 DEF SearchNext

LEMMA CursorStart ==
  ASSUME SearchInit
  PROVE  CursorInv
<1>1. /\ phase # "done" /\ call = "none" /\ status = "all"
      /\ query = <<>> /\ queryId = 0 /\ nodeId = 0 /\ queryPos = 0 /\ keyBuf = <<>>
      /\ history = <<>> /\ historyPos = 0 /\ result = "none"
      /\ key = [in |-> "query", len |-> 0, id |-> 0]
  BY DEF SearchInit, Init
<1>2. SearchTypeOK
  <2>1. \A S : <<>> \in Seq(S)
    OBVIOUS
  <2>2. 0 \in 0 .. Len(<<>>)
    OBVIOUS
  <2> QED
    BY <1>1, <2>1, <2>2 DEF SearchTypeOK
<1> QED
  BY <1>1, <1>2 DEF CursorInv, ModesOK

\* Searches leave the trie alone: the trie is built as it is without them.
LEMMA SearchBuilds == [SearchNext]_searchVars => [Next]_vars
<1> SUFFICES ASSUME [SearchNext]_searchVars PROVE [Next]_vars
  OBVIOUS
<1>1. CASE BuildStep
  BY <1>1 DEF BuildStep
<1>2. CASE Call
  BY <1>2 DEF Call, SetQuery, LookupCall, ReverseThrow, ReverseCall, CommonCall,
              PredictiveCall
<1>3. CASE Run
  <2>1. CASE LookupStep \/ LookupEnd \/ ReverseStep \/ CommonStep \/ CommonEnd
    BY <2>1 DEF LookupStep, LookupEnd, ReverseStep, CommonStep, CommonEnd
  <2>2. CASE PredictiveStep \/ PredictiveRoot
    BY <2>2 DEF PredictiveStep, PredictiveRoot
  <2>3. CASE Visit
    BY <2>3, Zenon DEF Visit
  <2>4. CASE GoUp \/ EnumerateEnd
    BY <2>4 DEF GoUp, EnumerateEnd
  <2> QED
    BY <1>3, <2>1, <2>2, <2>3, <2>4 DEF Run
<1>4. CASE UNCHANGED searchVars
  BY <1>4 DEF searchVars
<1> QED
  BY <1>1, <1>2, <1>3, <1>4 DEF SearchNext

LEMMA SearchIsBuild == SearchSpec => Spec
<1>1. SearchInit => Init
  BY DEF SearchInit
<1> QED
  BY <1>1, SearchBuilds, PTL DEF SearchSpec, Spec

LEMMA ReadyAlways ==
  ASSUME HashKeepsApart
  PROVE  SearchSpec => []Ready
<1>1. Spec => []CachedInv
  BY CachedAlways
<1>2. /\ Inv /\ NumberedInv /\ NamedInv /\ SpelledInv /\ CachedInv /\ SiblingsInv
      /\ IdsGiven /\ ShapedInv /\ TailReadInv /\ RootsPlain
      => Ready
  BY DEF Ready, Finished
<1> QED
  BY <1>1, <1>2, SearchIsBuild, Invariance, NumberedAlways, NamedAlways, SpelledAlways,
     SiblingsAlways, IdsGivenAlways, ShapedAlways, TailReadAlways, RootsPlainAlways, PTL

LEMMA CursorAlways ==
  ASSUME HashKeepsApart
  PROVE  SearchSpec => [](Ready /\ CursorInv)
<1>1. SearchInit => CursorInv
  BY CursorStart
<1>2. SearchSpec => []Ready
  BY ReadyAlways
<1>3. Ready /\ CursorInv /\ [SearchNext]_searchVars => CursorInv'
  BY CursorStep
<1> QED
  BY <1>1, <1>2, <1>3, PTL DEF SearchSpec

\* The text of a node of the first trie is what its path spells.
LEMMA SpelledText ==
  ASSUME Finished
  PROVE  \A n \in Nodes(Top) : PathTexts[1, n] = Text(Top, n)
<1>1. PathTexts = GivenTexts
  BY PathsAreGiven DEF Finished
<1>2. 1 \in DOMAIN trie /\ Inv /\ Len(Top.parentOf) \in Nat
      /\ Len(Top.bases) = Len(Top.parentOf) + 1
  BY TopIsTree DEF Finished
<1> TAKE n \in Nodes(Top)
<1>3. n \in 0 .. Len(trie[1].bases) - 1
  BY <1>2 DEF Nodes, Top
<1>4. <<1, n>> \in Places
  BY <1>2, <1>3, PlacesAre
<1>5. GivenTexts[<<1, n>>] = trie[1].textOf[n + 1]
  BY <1>4 DEF GivenTexts
<1> QED
  BY <1>1, <1>5, Zenon DEF Text, Top

\* While an enumeration can go on, within a call of predictive_search() or between two,
\* key_buf is the text of the node the cursor is on, every level of the history below
\* holds an ancestor, in order, and its key_pos is where that text ends: what the code
\* needs that cuts key_buf when it goes up a level.
THEOREM HistoryIsPathThm ==
  ASSUME HashKeepsApart
  PROVE  SearchSpec => []HistoryIsPath
<1>1. Ready /\ CursorInv => HistoryIsPath
  <2> SUFFICES ASSUME Ready, CursorInv, Walking
               PROVE  /\ keyBuf = PathTexts[1, history[historyPos].nodeId]
                      /\ \A i \in 1 .. historyPos :
                           /\ Len(PathTexts[1, history[i].nodeId]) = history[i].keyPos
                           /\ i > 1 => Top.parentOf[history[i].nodeId] = history[i - 1].nodeId
    BY DEF HistoryIsPath
  <2>1. Finished /\ WalkOK /\ SearchTypeOK /\ status = "predictive" /\ historyPos > 0
    BY DEF Ready, CursorInv, Walking
  <2>2. /\ PathOK(Top, history, historyPos)
        /\ keyBuf = Text(Top, history[historyPos].nodeId)
    BY <2>1 DEF WalkOK
  <2>3. historyPos \in 1 .. historyPos
    BY <2>1 DEF SearchTypeOK
  <2>4. \A i \in 1 .. historyPos :
          /\ history[i].nodeId \in Nodes(Top)
          /\ history[i].keyPos = Len(Text(Top, history[i].nodeId))
          /\ i > 1 => Top.parentOf[history[i].nodeId] = history[i - 1].nodeId
    BY <2>2 DEF PathOK
  <2>5. \A n \in Nodes(Top) : PathTexts[1, n] = Text(Top, n)
    BY <2>1, SpelledText
  <2>6. \A i \in 1 .. historyPos :
          PathTexts[1, history[i].nodeId] = Text(Top, history[i].nodeId)
    BY <2>4, <2>5, Zenon
  <2>7. keyBuf = PathTexts[1, history[historyPos].nodeId]
    BY <2>2, <2>3, <2>6, Zenon
  <2> QED
    BY <2>4, <2>6, <2>7, Zenon
<1>2. SearchSpec => [](Ready /\ CursorInv)
  BY CursorAlways
<1> QED
  BY <1>1, <1>2, PTL

\* A level of the history that predictive_search() comes back to is used again without a
\* new select0 or rank1: its louds_pos, its node number and, where it has them, its
\* link_id and key_id have advanced together, over all the nodes in between.
THEOREM LevelsAlignedThm ==
  ASSUME HashKeepsApart
  PROVE  SearchSpec => []LevelsAligned
<1>1. CursorInv => LevelsAligned
  BY DEF CursorInv, LevelsAligned, Walking, WalkOK, LevelOK, Upto
<1>2. SearchSpec => [](Ready /\ CursorInv)
  BY CursorAlways
<1> QED
  BY <1>1, <1>2, PTL

\* A common_prefix_search() that is resumed stands on the node whose text is the query's
\* first query_pos bytes, whatever other calls the agent made in between.
THEOREM CursorOnQueryThm ==
  ASSUME HashKeepsApart
  PROVE  SearchSpec => []CursorOnQuery
<1>1. Ready /\ CursorInv => CursorOnQuery
  <2> SUFFICES ASSUME Ready, CursorInv, phase = "done", status = "common"
               PROVE  queryPos <= Len(query) /\ PathTexts[1, nodeId] = SubSeq(query, 1, queryPos)
    BY DEF CursorOnQuery
  <2>1. Finished /\ Led(Top, query, nodeId, queryPos) /\ SearchTypeOK
    BY DEF Ready, CursorInv, CursorOK
  <2>2. Text(Top, nodeId) = SubSeq(query, 1, queryPos) /\ nodeId \in Nodes(Top)
        /\ queryPos <= Len(query)
    BY <2>1 DEF Led
  <2>3. PathTexts[1, nodeId] = Text(Top, nodeId)
    BY <2>1, <2>2, SpelledText, Zenon
  <2> QED
    BY <2>2, <2>3
<1>2. SearchSpec => [](Ready /\ CursorInv)
  BY CursorAlways
<1> QED
  BY <1>1, <1>2, PTL

\* The agent's state keeps its types: history_pos stays within the history, positions and
\* ids stay natural numbers, key_buf is made of bytes.
THEOREM SearchTypeCorrect ==
  ASSUME HashKeepsApart
  PROVE  SearchSpec => []SearchTypeOK
<1>1. CursorInv => SearchTypeOK
  BY DEF CursorInv
<1>2. SearchSpec => [](Ready /\ CursorInv)
  BY CursorAlways
<1> QED
  BY <1>1, <1>2, PTL

-----------------------------------------------------------------------------
(* Which nodes a walk has passed.                                        *)

\* The 1 of a node lies among those of its siblings.
LEMMA KidAt ==
  ASSUME NEW t, WellFormed(t), Numbered(t.louds, t.parentOf),
         NEW m \in DOMAIN t.parentOf, NEW u \in Nat, t.parentOf[m] = u
  PROVE  /\ m + u + 1 \in 0 .. Len(t.louds) - 1 /\ m \in Nat
         /\ Bit(t.louds, m + u + 1) /\ Rank0(t.louds, m + u + 1) = u + 1
<1>1. /\ t.louds \in Seq(BOOLEAN) /\ Len(t.louds) \in Nat /\ Len(t.parentOf) \in Nat
      /\ DOMAIN t.parentOf = 1 .. Len(t.parentOf)
  BY BitsOf
<1>2. m \in Nat /\ m # 0
  BY <1>1
<1>3. PICK i \in 0 .. Len(t.louds) - 1 : Bit(t.louds, i) /\ Rank1(t.louds, i) = m
  BY DEF Numbered
<1>4. t.parentOf[m] = i - m - 1
  BY <1>2, <1>3 DEF Numbered
<1>5. i \in Nat /\ i = m + u + 1
  BY <1>1, <1>2, <1>3, <1>4
<1>6. i \in 0 .. Len(t.louds)
  BY <1>1, <1>3
<1>7. Rank0(t.louds, i) = u + 1
  <2>1. Rank1(t.louds, i) + Rank0(t.louds, i) = i /\ Rank0(t.louds, i) \in Nat
    BY <1>1, <1>6, RankType
  <2> QED
    BY <1>2, <1>3, <1>5, <2>1
<1> QED
  BY <1>2, <1>3, <1>5, <1>7

\* The children of u on either side of a position among them.
LEMMA KidsAround ==
  ASSUME NEW t, WellFormed(t), Numbered(t.louds, t.parentOf),
         NEW m \in DOMAIN t.parentOf, NEW u \in Nat, t.parentOf[m] = u,
         NEW n \in Nat, NEW p \in 1 .. Len(t.louds) - 1,
         Rank1(t.louds, p) = n, Rank0(t.louds, p) = u + 1
  PROVE  /\ ~Bit(t.louds, p - 1) => n <= m
         /\ ~Bit(t.louds, p) => m < n
<1> DEFINE q == m + u + 1
<1>1. /\ q \in 0 .. Len(t.louds) - 1 /\ m \in Nat
      /\ Bit(t.louds, q) /\ Rank0(t.louds, q) = u + 1
  BY KidAt
<1>2. t.louds \in Seq(BOOLEAN) /\ Len(t.louds) \in Nat
  BY BitsOf
<1>3. p = n + (u + 1) /\ p \in Nat
  <2>1. p \in 0 .. Len(t.louds)
    BY <1>2
  <2> QED
    BY <1>2, <2>1, RankType, SMTT(30)
<1>4. ASSUME ~Bit(t.louds, p - 1), m < n
      PROVE  FALSE
  <2>1. /\ p - 1 \in 0 .. Len(t.louds) - 1 /\ p - 1 + 1 = p /\ p - 1 \in 0 .. Len(t.louds)
        /\ q \in 0 .. Len(t.louds) /\ p - 1 \in q .. Len(t.louds)
    BY <1>1, <1>2, <1>3, <1>4
  <2>2. Rank0(t.louds, p) = Rank0(t.louds, p - 1) + 1 /\ Rank0(t.louds, p - 1) \in Nat
    BY <1>2, <1>4, <2>1, RankStep, RankType
  <2>3. Rank0(t.louds, q) <= Rank0(t.louds, p - 1)
    BY <1>2, <2>1, RankMonotone
  <2> HIDE DEF q
  <2> QED
    BY <1>1, <2>2, <2>3
<1>5. ASSUME ~Bit(t.louds, p), ~(m < n)
      PROVE  FALSE
  <2>1. q # p
    BY <1>1, <1>5
  <2>2. /\ p \in 0 .. Len(t.louds) - 1 /\ p + 1 \in 0 .. Len(t.louds)
        /\ q \in p + 1 .. Len(t.louds)
    BY <1>1, <1>2, <1>3, <1>5, <2>1
  <2>3. Rank0(t.louds, p + 1) = (u + 1) + 1
    BY <1>2, <1>5, <2>2, RankStep
  <2>4. Rank0(t.louds, p + 1) <= Rank0(t.louds, q)
    BY <1>2, <2>2, RankMonotone
  <2> HIDE DEF q
  <2> QED
    BY <1>1, <2>3, <2>4
<1> QED
  BY <1>1, <1>4, <1>5

\* What the next level says of the children of the node the walk is on.
LEMMA KidsNext ==
  ASSUME NEW t, NEW flags, NEW h, NEW hp, Walk(t, flags, h, hp), hp + 1 \in 2 .. Len(h),
         NEW m \in DOMAIN t.parentOf, t.parentOf[m] = h[hp].nodeId
  PROVE  /\ ~Bit(t.louds, h[hp + 1].loudsPos - 1) => h[hp + 1].nodeId <= m
         /\ ~Bit(t.louds, h[hp + 1].loudsPos) => m < h[hp + 1].nodeId
         /\ m \in Nat /\ h[hp + 1].nodeId \in Nat
<1> DEFINE p == h[hp + 1].loudsPos
           n == h[hp + 1].nodeId
           u == h[hp].nodeId
<1>1. /\ u \in Nat /\ n \in Nat /\ p \in 1 .. Len(t.louds) - 1
      /\ Rank1(t.louds, p) = n /\ Rank0(t.louds, p) = u + 1
  BY LevelNode
<1>2. WellFormed(t) /\ Numbered(t.louds, t.parentOf) /\ t.parentOf[m] = u
  BY DEF Walk
<1> HIDE DEF p, n, u
<1>3. (~Bit(t.louds, p - 1) => n <= m) /\ (~Bit(t.louds, p) => m < n) /\ m \in Nat
  BY <1>1, <1>2, KidsAround, KidAt
<1> QED
  BY <1>1, <1>3 DEF p, n, u

\* A level begun anew has nothing behind it yet.
LEMMA LevelsSee ==
  ASSUME NEW t, NEW flags, NEW h, NEW hp, Walk(t, flags, h, hp), NEW z
  PROVE  Visited(t, LevelsOn(t, h, hp), hp, z) <=> Visited(t, h, hp, z)
<1> DEFINE more == LevelsOn(t, h, hp)
<1>1. /\ Walk(t, flags, more, hp) /\ hp + 1 \in 2 .. Len(more)
      /\ \A i \in 1 .. Len(h) : more[i] = h[i]
      /\ hp < Len(h) \/ ~Bit(t.louds, more[hp + 1].loudsPos - 1)
  BY LevelsAre
<1>2. hp < Len(h) => more = h
  BY DEF LevelsOn
<1> HIDE DEF more
<1>3. hp \in 1 .. Len(h) /\ Len(h) \in Nat /\ Len(more) \in Nat
  BY <1>1 DEF Walk
<1>4. CASE hp < Len(h)
  BY <1>2, <1>4 DEF more
<1>5. CASE ~(hp < Len(h))
  <2>1. hp = Len(h)
    BY <1>3, <1>5
  <2>2. ~Below(t, h[hp].nodeId, more[hp + 1].nodeId, z)
    <3> SUFFICES ASSUME NEW m \in DOMAIN t.parentOf, t.parentOf[m] = h[hp].nodeId,
                        m < more[hp + 1].nodeId
                 PROVE  FALSE
      BY DEF Below
    <3>1. more[hp].nodeId = h[hp].nodeId
      BY <1>1, <1>3
    <3>2. more[hp + 1].nodeId <= m /\ m \in Nat /\ more[hp + 1].nodeId \in Nat
      BY <1>1, <1>5, <3>1, KidsNext
    <3> QED
      BY <3>2
  <2>3. ASSUME NEW i \in 1 .. hp
        PROVE  (z = more[i].nodeId \/ (i < Len(more) /\ Below(t, more[i].nodeId, more[i + 1].nodeId, z)))
               <=> (z = h[i].nodeId \/ (i < Len(h) /\ Below(t, h[i].nodeId, h[i + 1].nodeId, z)))
    <3>1. i \in 1 .. Len(h) /\ more[i] = h[i] /\ i < Len(more)
      BY <1>1, <1>3, <2>1
    <3>2. CASE i = hp
      BY <2>1, <2>2, <3>1, <3>2
    <3>3. CASE i # hp
      <4>1. i + 1 \in 1 .. Len(h) /\ i < Len(h)
        BY <1>3, <2>1, <3>1, <3>3
      <4>2. more[i + 1] = h[i + 1]
        BY <1>1, <4>1
      <4> QED
        BY <3>1, <4>1, <4>2
    <3> QED
      BY <3>2, <3>3
  <2> QED
    BY <2>3, Zenon DEF Visited, more
<1> QED
  BY <1>4, <1>5

\* A step of the walk leaves behind the node it goes to, and nothing else.
LEMMA StepSees ==
  ASSUME NEW t, NEW flags, NEW h, NEW hp, Walk(t, flags, h, hp), hp + 1 \in 2 .. Len(h),
         NEW next, SteppedOn(t, flags, h, hp),
         next = [h EXCEPT ![hp + 1] = VisitedLevel(t, flags, h[hp + 1])], NEW z
  PROVE  Visited(t, next, hp + 1, z) <=> Visited(t, h, hp, z) \/ z = h[hp + 1].nodeId
<1>1. /\ Walk(t, flags, next, hp + 1) /\ Len(next) = Len(h)
      /\ next[hp + 1] = VisitedLevel(t, flags, h[hp + 1])
      /\ \A i \in 1 .. Len(h) : i # hp + 1 => next[i] = h[i]
  BY Zenon DEF SteppedOn
<1>2. hp \in 1 .. Len(h) /\ Len(h) \in Nat
  BY DEF Walk
<1>3. next[hp + 1].nodeId = h[hp + 1].nodeId
  BY <1>1 DEF VisitedLevel
<1>4. \A i \in 1 .. Len(h) : next[i].nodeId = h[i].nodeId
  BY <1>1, <1>3
<1>5. ASSUME hp + 1 < Len(h)
      PROVE  ~Below(t, next[hp + 1].nodeId, next[hp + 1 + 1].nodeId, z)
  <2> SUFFICES ASSUME NEW m \in DOMAIN t.parentOf, t.parentOf[m] = next[hp + 1].nodeId,
                      m < next[hp + 1 + 1].nodeId
               PROVE  FALSE
    BY DEF Below
  <2>1. hp + 2 \in 2 .. Len(h) /\ hp + 1 + 1 \in 2 .. Len(next) /\ hp + 1 + 1 = hp + 2
        /\ hp + 2 # hp + 1 /\ hp + 2 > hp + 1 /\ hp + 2 \in 1 .. Len(h)
    BY <1>1, <1>2, <1>5
  <2>2. ~Bit(t.louds, h[hp + 2].loudsPos - 1)
    BY <2>1 DEF Walk, LevelOK
  <2>3. next[hp + 1 + 1] = h[hp + 2]
    BY <1>1, <2>1
  <2>4. ~Bit(t.louds, next[hp + 1 + 1].loudsPos - 1)
    BY <2>2, <2>3
  <2> DEFINE at == hp + 1
  <2>5. /\ Walk(t, flags, next, at) /\ at + 1 \in 2 .. Len(next)
        /\ t.parentOf[m] = next[at].nodeId /\ ~Bit(t.louds, next[at + 1].loudsPos - 1)
        /\ m < next[at + 1].nodeId
    BY <1>1, <2>1, <2>4
  <2> HIDE DEF at
  <2>6. next[at + 1].nodeId <= m /\ m \in Nat /\ next[at + 1].nodeId \in Nat
    BY <2>5, KidsNext
  <2> QED
    BY <2>5, <2>6
<1>6. ASSUME NEW i \in 1 .. hp
      PROVE  /\ (z = next[i].nodeId
                 \/ (i < Len(next) /\ Below(t, next[i].nodeId, next[i + 1].nodeId, z)))
                <=> (z = h[i].nodeId \/ (i < Len(h) /\ Below(t, h[i].nodeId, h[i + 1].nodeId, z)))
             /\ i \in 1 .. hp + 1
  <2>1. i \in 1 .. Len(h) /\ i + 1 \in 1 .. Len(h) /\ i \in 1 .. hp + 1
    BY <1>2
  <2> QED
    BY <1>1, <1>4, <2>1
<1>7. /\ hp + 1 \in 1 .. hp + 1
      /\ \A i \in 1 .. hp + 1 : i = hp + 1 \/ i \in 1 .. hp
  BY <1>2
<1>8. (z = next[hp + 1].nodeId
       \/ (hp + 1 < Len(next) /\ Below(t, next[hp + 1].nodeId, next[hp + 1 + 1].nodeId, z)))
      <=> z = h[hp + 1].nodeId
  BY <1>1, <1>3, <1>5
<1> QED
  BY <1>6, <1>7, <1>8, Zenon DEF Visited

\* Going back up leaves behind what was visited below.
LEMMA UpSees ==
  ASSUME NEW t, NEW flags, NEW h, NEW hp, Walk(t, flags, h, hp), hp + 1 \in 2 .. Len(h),
         ~Bit(t.louds, h[hp + 1].loudsPos), hp # 1, GoneUp(t, flags, h, hp),
         NEW z \in Nodes(t)
  PROVE  Visited(t, PassedOn(h, hp), hp - 1, z) <=> Visited(t, h, hp, z)
<1> DEFINE next == PassedOn(h, hp)
           u == h[hp].nodeId
           up == h[hp - 1].nodeId
           n == h[hp + 1].nodeId
<1>1. /\ Len(next) = Len(h)
      /\ next[hp] = [h[hp] EXCEPT !.nodeId = @ + 1]
      /\ \A i \in 1 .. Len(h) : i # hp + 1 /\ i # hp => next[i] = h[i]
  BY Zenon DEF GoneUp
<1>2. hp \in 1 .. Len(h) /\ Len(h) \in Nat /\ hp # 1 /\ Tree(t) /\ PathOK(t, h, hp)
  BY DEF Walk
<1>3. h[hp] \in LevelType /\ u \in Nat /\ u \in Nodes(t)
  BY LevelNode
<1>4. next[hp].nodeId = u + 1
  BY <1>1, <1>3 DEF LevelType
<1>5. u \in DOMAIN t.parentOf /\ t.parentOf[u] = up
  <2>1. hp \in 1 .. hp /\ hp > 1
    BY <1>2
  <2>2. u # 0 /\ t.parentOf[u] = up
    BY <1>2, <2>1 DEF PathOK
  <2> QED
    BY <1>2, <1>3, <2>2, TreeNode
<1>6. next[hp - 1].nodeId = up
  BY <1>1, <1>2
<1> HIDE DEF next, u, up, n
<1>7. Begins(Text(t, u), Text(t, z)) <=> z = u \/ Below(t, u, n, z)
  <2>1. Text(t, z) \in Seq(Byte) /\ Text(t, u) \in Seq(Byte)
    BY <1>2, <1>3, TreeNode
  <2>2. Begins(Text(t, u), Text(t, u))
    BY <2>1, BeginsItself
  <2>3. ASSUME Below(t, u, n, z) PROVE Begins(Text(t, u), Text(t, z))
    <3>1. PICK m \in DOMAIN t.parentOf : t.parentOf[m] = u /\ Begins(Text(t, m), Text(t, z))
      BY <2>3 DEF Below
    <3>2. m \in Nodes(t) /\ m # 0
      BY <1>2, TreeChild
    <3>3. Begins(Text(t, u), Text(t, m)) /\ Text(t, m) \in Seq(Byte)
      BY <1>2, <3>1, <3>2, TreeNode
    <3> QED
      BY <2>1, <3>1, <3>3, BeginsOn
  <2>4. ASSUME Begins(Text(t, u), Text(t, z)), z # u PROVE Below(t, u, n, z)
    <3>1. PICK m \in DOMAIN t.parentOf : t.parentOf[m] = u /\ Begins(Text(t, m), Text(t, z))
      BY <1>2, <1>3, <2>4, NextWay
    <3>2. m < n
      BY <3>1, KidsNext DEF u, n
    <3> QED
      BY <3>1, <3>2 DEF Below
  <2> QED
    BY <2>2, <2>3, <2>4
<1>8. Below(t, up, u + 1, z) <=> Below(t, up, u, z) \/ Begins(Text(t, u), Text(t, z))
  <2>1. \A m \in DOMAIN t.parentOf : m \in Nat
    BY <1>2, TreeChild
  <2>2. \A m \in DOMAIN t.parentOf : m < u + 1 <=> (m < u \/ m = u)
    BY <1>3, <2>1
  <2> QED
    BY <1>5, <2>2, Zenon DEF Below
<1>9. ASSUME NEW i \in 1 .. hp - 1, i # hp - 1
      PROVE  (z = next[i].nodeId
              \/ (i < Len(next) /\ Below(t, next[i].nodeId, next[i + 1].nodeId, z)))
             <=> (z = h[i].nodeId \/ (i < Len(h) /\ Below(t, h[i].nodeId, h[i + 1].nodeId, z)))
  <2>1. /\ i \in 1 .. Len(h) /\ i # hp /\ i # hp + 1
        /\ i + 1 \in 1 .. Len(h) /\ i + 1 # hp /\ i + 1 # hp + 1
    BY <1>2, <1>9
  <2>2. next[i] = h[i] /\ next[i + 1] = h[i + 1]
    BY <1>1, <2>1
  <2> QED
    BY <1>1, <2>2
<1>10. /\ hp - 1 \in 1 .. hp - 1 /\ hp - 1 < Len(next) /\ hp - 1 < Len(h) /\ hp < Len(h)
       /\ hp - 1 + 1 = hp /\ hp \in 1 .. hp
       /\ \A i : i \in 1 .. hp <=> (i \in 1 .. hp - 1 \/ i = hp)
  BY <1>1, <1>2
<1>11. (z = next[hp - 1].nodeId
        \/ (hp - 1 < Len(next) /\ Below(t, next[hp - 1].nodeId, next[hp - 1 + 1].nodeId, z)))
       <=> z = up \/ Below(t, up, u, z) \/ z = u \/ Below(t, u, n, z)
  BY <1>4, <1>6, <1>7, <1>8, <1>10
<1>12. /\ (z = h[hp - 1].nodeId
           \/ (hp - 1 < Len(h) /\ Below(t, h[hp - 1].nodeId, h[hp - 1 + 1].nodeId, z)))
          <=> z = up \/ Below(t, up, u, z)
       /\ (z = h[hp].nodeId \/ (hp < Len(h) /\ Below(t, h[hp].nodeId, h[hp + 1].nodeId, z)))
          <=> z = u \/ Below(t, u, n, z)
  BY <1>10 DEF up, u, n
<1> QED
  BY <1>9, <1>10, <1>11, <1>12, Zenon DEF Visited, next

\* When the last child of the root is passed, all below the root is visited.
LEMMA AllSeen ==
  ASSUME NEW t, NEW flags, NEW h, Walk(t, flags, h, 1), 2 \in 2 .. Len(h),
         ~Bit(t.louds, h[2].loudsPos), NEW z \in Nodes(t),
         Begins(Text(t, h[1].nodeId), Text(t, z))
  PROVE  Visited(t, h, 1, z)
<1>1. Tree(t) /\ PathOK(t, h, 1) /\ Len(h) \in Nat
  BY DEF Walk
<1>2. 1 \in 1 .. 1 /\ 1 + 1 = 2 /\ 1 + 1 \in 2 .. Len(h) /\ 1 < Len(h)
  BY <1>1
<1>3. h[1].nodeId \in Nodes(t)
  BY <1>1, <1>2 DEF PathOK
<1>4. CASE z = h[1].nodeId
  BY <1>2, <1>4 DEF Visited
<1>5. CASE z # h[1].nodeId
  <2>1. PICK m \in DOMAIN t.parentOf :
          t.parentOf[m] = h[1].nodeId /\ Begins(Text(t, m), Text(t, z))
    BY <1>1, <1>3, <1>5, NextWay
  <2>2. m < h[1 + 1].nodeId
    <3>1. ~Bit(t.louds, h[1 + 1].loudsPos)
      BY <1>2
    <3> QED
      BY <1>2, <2>1, <3>1, KidsNext
  <2>3. Below(t, h[1].nodeId, h[1 + 1].nodeId, z)
    BY <2>1, <2>2 DEF Below
  <2> QED
    BY <1>2, <2>3 DEF Visited
<1> QED
  BY <1>4, <1>5

\* The node the walk goes to next was not visited before.
LEMMA NotSeen ==
  ASSUME NEW t, NEW flags, NEW h, NEW hp, Walk(t, flags, h, hp), hp + 1 \in 2 .. Len(h),
         Bit(t.louds, h[hp + 1].loudsPos)
  PROVE  ~Visited(t, h, hp, h[hp + 1].nodeId)
<1> DEFINE u == h[hp].nodeId
           n == h[hp + 1].nodeId
<1>1. /\ hp \in 1 .. Len(h) /\ Len(h) \in Nat /\ Tree(t) /\ PathOK(t, h, hp)
  BY DEF Walk
<1>2. u \in Nodes(t) /\ n \in DOMAIN t.parentOf /\ t.parentOf[n] = u
  BY LevelNode
<1>3. n \in Nodes(t) /\ n # 0 /\ Text(t, n) \in Seq(Byte) /\ Text(t, u) \in Seq(Byte)
      /\ Begins(Text(t, u), Text(t, n)) /\ Len(Text(t, u)) < Len(Text(t, n))
      /\ Len(Text(t, n)) \in Nat /\ Len(Text(t, u)) \in Nat
  BY <1>1, <1>2, TreeChild, TreeNode
<1>4. ASSUME NEW i \in 1 .. hp
      PROVE  /\ h[i].nodeId \in Nodes(t)
             /\ Begins(Text(t, h[i].nodeId), Text(t, n)) /\ h[i].nodeId # n
  <2>1. hp \in i .. hp
    BY <1>1
  <2>2. h[i].nodeId \in Nodes(t) /\ Begins(Text(t, h[i].nodeId), Text(t, u))
    BY <1>1, <2>1 DEF PathOK
  <2>3. Text(t, h[i].nodeId) \in Seq(Byte) /\ Len(Text(t, h[i].nodeId)) \in Nat
    BY <1>1, <2>2, TreeNode
  <2>4. Begins(Text(t, h[i].nodeId), Text(t, n))
    BY <1>3, <2>2, <2>3, BeginsOn
  <2>5. Len(Text(t, h[i].nodeId)) <= Len(Text(t, u))
    BY <2>2 DEF Begins
  <2> HIDE DEF u, n
  <2> QED
    BY <1>3, <2>2, <2>3, <2>4, <2>5
<1>5. ASSUME NEW i \in 1 .. hp, i < Len(h)
      PROVE  ~Below(t, h[i].nodeId, h[i + 1].nodeId, n)
  <2> SUFFICES ASSUME NEW m \in DOMAIN t.parentOf, t.parentOf[m] = h[i].nodeId,
                      m < h[i + 1].nodeId, Begins(Text(t, m), Text(t, n))
               PROVE  FALSE
    BY DEF Below
  <2>1. m \in Nat
    BY <1>1, TreeChild
  <2>2. CASE i = hp
    <3>1. t.parentOf[m] = t.parentOf[n]
      BY <1>2, <2>2
    <3>2. Begins(Text(t, m), Text(t, n))
      OBVIOUS
    <3> HIDE DEF u, n
    <3>3. m = n
      BY <1>1, <1>2, <1>3, <3>1, <3>2, BeginsItself, OneFork
    <3> QED
      BY <2>1, <2>2, <3>3 DEF n
  <2>3. CASE i # hp
    <3>1. i + 1 \in 1 .. hp /\ i + 1 > 1 /\ i + 1 - 1 = i
      BY <1>1, <2>3
    <3>2. h[i + 1].nodeId # 0 /\ t.parentOf[h[i + 1].nodeId] = h[i].nodeId
      BY <1>1, <3>1 DEF PathOK
    <3>3. h[i + 1].nodeId \in Nodes(t) /\ Begins(Text(t, h[i + 1].nodeId), Text(t, n))
      BY <1>4, <3>1
    <3>4. h[i + 1].nodeId \in DOMAIN t.parentOf
      BY <1>1, <3>2, <3>3, TreeNode
    <3>5. m = h[i + 1].nodeId
      BY <1>1, <1>3, <3>2, <3>3, <3>4, OneFork
    <3> QED
      BY <2>1, <3>5
  <2> QED
    BY <2>2, <2>3
<1> HIDE DEF u, n
<1>6. ~Visited(t, h, hp, n)
  BY <1>4, <1>5, Zenon DEF Visited
<1> QED
  BY <1>6 DEF n

\* A text comes before those it is the start of.
LEMMA BeforeLonger ==
  ASSUME NEW s \in Seq(Byte), NEW z \in Seq(Byte), Begins(s, z), s # z
  PROVE  Promise!Before(s, z)
<1>1. Len(s) \in Nat /\ Len(z) \in Nat /\ Len(s) <= Len(z)
  BY LenProperties DEF Begins
<1>2. Len(s) < Len(z)
  BY <1>1, BeginsSame
<1> DEFINE at == Len(s) + 1
<1>3. at \in 1 .. Len(z) /\ at <= Len(s) + 1 /\ at > Len(s) /\ at - 1 = Len(s)
  BY <1>1, <1>2
<1>4. SubSeq(s, 1, Len(s)) = SubSeq(z, 1, Len(s))
  BY <1>1 DEF Begins
<1>5. SubSeq(s, 1, at - 1) = SubSeq(z, 1, at - 1)
  BY <1>3, <1>4
<1> HIDE DEF at
<1> QED
  BY <1>3, <1>5, Zenon DEF Promise!Before

\* Texts that part at two siblings are in the order of the siblings' labels.
LEMMA ForkBefore ==
  ASSUME NEW t, Tree(t), NEW a \in DOMAIN t.parentOf, NEW b \in DOMAIN t.parentOf,
         t.parentOf[a] = t.parentOf[b],
         LabelIn(t.parentOf, t.textOf, a) < LabelIn(t.parentOf, t.textOf, b),
         NEW s \in Seq(Byte), NEW z \in Seq(Byte),
         Begins(Text(t, a), s), Begins(Text(t, b), z)
  PROVE  Promise!Before(s, z)
<1> DEFINE up == Text(t, t.parentOf[a])
           at == Len(up) + 1
<1>1. /\ a \in Nodes(t) /\ a # 0 /\ b \in Nodes(t) /\ b # 0
      /\ t.parentOf[a] \in Nodes(t)
  BY TreeChild, TreeNode
<1>2. /\ up \in Seq(Byte) /\ Text(t, a) \in Seq(Byte) /\ Text(t, b) \in Seq(Byte)
      /\ Len(up) < Len(Text(t, a)) /\ Len(up) < Len(Text(t, b))
      /\ Begins(up, Text(t, a)) /\ Begins(up, Text(t, b))
      /\ Len(up) \in Nat /\ Len(Text(t, a)) \in Nat /\ Len(Text(t, b)) \in Nat
  BY <1>1, TreeNode
<1>3. Text(t, a)[at] < Text(t, b)[at]
  BY DEF LabelIn, Text
<1> HIDE DEF up
<1>4. Len(s) \in Nat /\ Len(z) \in Nat /\ Len(Text(t, a)) <= Len(s) /\ Len(Text(t, b)) <= Len(z)
  BY LenProperties DEF Begins
<1>5. /\ at \in 1 .. Len(Text(t, a)) /\ at \in 1 .. Len(Text(t, b))
      /\ at \in 1 .. Len(z) /\ at <= Len(s) + 1 /\ at - 1 = Len(up)
  BY <1>2, <1>4
<1>6. s[at] = Text(t, a)[at] /\ z[at] = Text(t, b)[at]
  BY <1>5 DEF Begins
<1>7. Begins(up, s) /\ Begins(up, z)
  BY <1>2, BeginsOn
<1>8. SubSeq(s, 1, Len(up)) = SubSeq(z, 1, Len(up))
  BY <1>2, <1>4, <1>7 DEF Begins
<1>9. SubSeq(s, 1, at - 1) = SubSeq(z, 1, at - 1)
  BY <1>5, <1>8
<1>10. s[at] < z[at]
  BY <1>3, <1>6
<1> HIDE DEF at
<1> QED
  BY <1>5, <1>9, <1>10, Zenon DEF Promise!Before

\* The greatest of some numbers.
LEMMA GreatestOf ==
  ASSUME NEW n \in Nat, NEW S \in SUBSET (1 .. n), S # {}
  PROVE  \E m \in S : \A k \in S : k <= m
<1> DEFINE R == {d \in Nat : n - d \in S}
<1>1. R \in SUBSET Nat /\ R # {}
  <2>1. PICK k \in S : TRUE
    OBVIOUS
  <2>2. n - k \in Nat /\ n - (n - k) = k
    BY <2>1
  <2> QED
    BY <2>1, <2>2
<1>2. PICK d \in R : \A e \in R : d <= e
  BY <1>1, LeastNumber
<1>3. n - d \in S /\ d \in Nat
  BY <1>2
<1>4. ASSUME NEW k \in S PROVE k <= n - d
  <2>1. n - k \in Nat /\ n - (n - k) = k
    OBVIOUS
  <2>2. n - k \in R
    BY <2>1, <1>4
  <2> QED
    BY <1>2, <1>3, <2>1, <2>2
<1> QED
  BY <1>3, <1>4

\* In a trie in label order the walk goes to the texts below its root in
\* lexicographic order.
LEMMA NextBefore ==
  ASSUME NEW t, NEW flags, NEW h, NEW hp, Walk(t, flags, h, hp), hp + 1 \in 2 .. Len(h),
         Bit(t.louds, h[hp + 1].loudsPos),
         NEW ks, InOrder("label", ks, t.parentOf, t.textOf),
         NEW z \in Nodes(t), Begins(Text(t, h[1].nodeId), Text(t, z)),
         ~Visited(t, h, hp, z), z # h[hp + 1].nodeId
  PROVE  Promise!Before(Text(t, h[hp + 1].nodeId), Text(t, z))
<1> DEFINE n == h[hp + 1].nodeId
           On == {i \in 1 .. hp : Begins(Text(t, h[i].nodeId), Text(t, z))}
<1>1. /\ hp \in 1 .. Len(h) /\ hp \in Nat /\ Len(h) \in Nat /\ Tree(t) /\ PathOK(t, h, hp)
  BY DEF Walk
<1>2. n \in DOMAIN t.parentOf /\ t.parentOf[n] = h[hp].nodeId
  BY LevelNode
<1>3. /\ n \in Nodes(t) /\ n # 0 /\ n \in Nat
      /\ Text(t, n) \in Seq(Byte) /\ Text(t, z) \in Seq(Byte)
      /\ Begins(Text(t, h[hp].nodeId), Text(t, n))
  BY <1>1, <1>2, TreeChild, TreeNode
<1>4. PICK i \in On : \A j \in On : j <= i
  <2>1. 1 \in 1 .. hp
    BY <1>1
  <2>2. 1 \in On /\ On \in SUBSET (1 .. hp)
    BY <2>1
  <2> QED
    BY <1>1, <2>2, GreatestOf
<1>5. i \in 1 .. hp /\ i \in Nat /\ i < Len(h)
      /\ Begins(Text(t, h[i].nodeId), Text(t, z)) /\ h[i].nodeId \in Nodes(t)
  <2>1. i \in 1 .. hp /\ Begins(Text(t, h[i].nodeId), Text(t, z))
    OBVIOUS
  <2>2. i \in Nat /\ i < Len(h)
    BY <1>1, <2>1
  <2> QED
    BY <1>1, <2>1, <2>2 DEF PathOK
<1>6. z # h[i].nodeId /\ ~Below(t, h[i].nodeId, h[i + 1].nodeId, z)
  BY <1>5 DEF Visited
<1>7. PICK m \in DOMAIN t.parentOf :
        t.parentOf[m] = h[i].nodeId /\ Begins(Text(t, m), Text(t, z))
  BY <1>1, <1>5, <1>6, NextWay
<1>8. ~(m < h[i + 1].nodeId) /\ m \in Nat
  BY <1>1, <1>6, <1>7, TreeChild DEF Below
<1>9. CASE m = h[i + 1].nodeId
  <2>1. i = hp
    <3> SUFFICES ASSUME i # hp PROVE FALSE
      OBVIOUS
    <3>1. i + 1 \in 1 .. hp
      BY <1>1, <1>5
    <3>2. i + 1 \in On
      BY <1>7, <1>9, <3>1
    <3> QED
      BY <1>4, <1>5, <3>2
  <2>2. m = n
    BY <1>9, <2>1
  <2>3. Text(t, n) # Text(t, z)
    BY <1>1, <1>3, OneNode
  <2> HIDE DEF n
  <2>4. Promise!Before(Text(t, n), Text(t, z))
    BY <1>3, <1>7, <2>2, <2>3, BeforeLonger
  <2> QED
    BY <2>4 DEF n
<1>10. CASE m # h[i + 1].nodeId
  <2> DEFINE v == h[i + 1].nodeId
  <2>1. v \in DOMAIN t.parentOf /\ t.parentOf[v] = h[i].nodeId /\ Begins(Text(t, v), Text(t, n))
    <3>1. CASE i = hp
      <4>1. v = n
        BY <3>1
      <4> QED
        BY <1>2, <1>3, <3>1, <4>1, BeginsItself
    <3>2. CASE i # hp
      <4>1. i + 1 \in 1 .. hp /\ i + 1 > 1 /\ i + 1 - 1 = i /\ hp \in i + 1 .. hp
        BY <1>1, <1>5, <3>2
      <4>2. /\ v \in Nodes(t) /\ v # 0 /\ t.parentOf[v] = h[i].nodeId
            /\ Begins(Text(t, v), Text(t, h[hp].nodeId))
            /\ h[hp].nodeId \in Nodes(t)
        BY <1>1, <4>1 DEF PathOK
      <4>3. v \in DOMAIN t.parentOf /\ Text(t, v) \in Seq(Byte)
            /\ Text(t, h[hp].nodeId) \in Seq(Byte)
        BY <1>1, <4>2, TreeNode
      <4> QED
        BY <1>3, <4>2, <4>3, BeginsOn
    <3> QED
      BY <3>1, <3>2
  <2>2. v \in Nat
    BY <1>1, <2>1, TreeChild
  <2>3. v < m
    <3> HIDE DEF v
    <3>1. ~(m < v) /\ m # v
      BY <1>8, <1>10 DEF v
    <3> QED
      BY <1>8, <2>2, <3>1
  <2> HIDE DEF v, n
  <2>4. LabelIn(t.parentOf, t.textOf, v) < LabelIn(t.parentOf, t.textOf, m)
    BY <1>7, <2>1, <2>3 DEF InOrder, Before
  <2>5. Promise!Before(Text(t, n), Text(t, z))
    BY <1>1, <1>3, <1>7, <2>1, <2>4, ForkBefore
  <2> QED
    BY <2>5 DEF n
<1> QED
  BY <1>9, <1>10

-----------------------------------------------------------------------------
(* What the dictionary sees.                                             *)

\* What the searches' state means to the dictionary.
Dict ==
  IF phase # "done" THEN <<>>
  ELSE [i \in 0 .. Ones(terminalFlags) - 1 |->
          keyset[CHOOSE k \in DOMAIN keyset : ids[k] = i].text]
Answered ==
  IF result = "true" THEN [text |-> KeyText, id |-> key.id] ELSE [text |-> <<>>, id |-> -1]

LEMMA DictIs ==
  ASSUME Finished
  PROVE  Dict = [i \in Ids(terminalFlags) |-> IdText(i)]
<1>1. /\ phase = "done"
      /\ Names(links, trie[1].textOf)
      /\ \A k \in DOMAIN keyset : Select1(terminalFlags, ids[k]) = links[k]
      /\ \A i \in Ids(terminalFlags) : \E k \in DOMAIN keyset : ids[k] = i
  BY IdsLeadBack DEF Finished, Ids
<1>2. ASSUME NEW i \in Ids(terminalFlags)
      PROVE  keyset[CHOOSE k \in DOMAIN keyset : ids[k] = i].text = IdText(i)
  <2> DEFINE k == CHOOSE k1 \in DOMAIN keyset : ids[k1] = i
  <2>1. k \in DOMAIN keyset /\ ids[k] = i
    BY <1>1, Zenon
  <2> HIDE DEF k
  <2>2. NodeOf(i) = links[k] /\ trie[1].textOf[links[k] + 1] = keyset[k].text
    BY <1>1, <2>1 DEF Names, NodeOf
  <2>3. IdText(i) = keyset[k].text
    BY <2>2 DEF IdText, Text, Top
  <2> QED
    BY <2>3 DEF k
<1> QED
  BY <1>1, <1>2, Zenon DEF Dict, Ids

LEMMA IdTexts ==
  ASSUME Finished
  PROVE  /\ \A i \in Ids(terminalFlags) :
              /\ i \in Nat /\ NodeOf(i) \in Nodes(Top) /\ Terminal(NodeOf(i))
              /\ IdText(i) \in Seq(Byte) /\ Len(IdText(i)) \in Nat
              /\ KeyIdOf(terminalFlags, NodeOf(i)) = i
         /\ \A i, j \in Ids(terminalFlags) :
              NodeOf(i) = NodeOf(j) \/ IdText(i) = IdText(j) => i = j
         /\ \A n \in Nodes(Top) : Terminal(n) =>
              /\ KeyIdOf(terminalFlags, n) \in Ids(terminalFlags)
              /\ NodeOf(KeyIdOf(terminalFlags, n)) = n
              /\ IdText(KeyIdOf(terminalFlags, n)) = Text(Top, n)
<1>1. Tree(Top)
  BY TopIsTree
<1>2. /\ Ones(terminalFlags) \in Nat
      /\ \A n \in Nodes(Top) : Terminal(n) =>
           /\ KeyIdOf(terminalFlags, n) \in Ids(terminalFlags)
           /\ Select1(terminalFlags, KeyIdOf(terminalFlags, n)) = n
      /\ \A i \in Ids(terminalFlags) :
           /\ Select1(terminalFlags, i) \in Nodes(Top)
           /\ Terminal(Select1(terminalFlags, i))
           /\ KeyIdOf(terminalFlags, Select1(terminalFlags, i)) = i
  BY FlagsAre
<1>3. \A i \in Ids(terminalFlags) : i \in Nat
  BY <1>2 DEF Ids
<1>4. ASSUME NEW i \in Ids(terminalFlags)
      PROVE  /\ NodeOf(i) \in Nodes(Top) /\ Terminal(NodeOf(i))
             /\ IdText(i) \in Seq(Byte) /\ Len(IdText(i)) \in Nat
             /\ KeyIdOf(terminalFlags, NodeOf(i)) = i
  BY <1>1, <1>2, TreeNode DEF NodeOf, IdText
<1>5. ASSUME NEW i \in Ids(terminalFlags), NEW j \in Ids(terminalFlags),
             NodeOf(i) = NodeOf(j) \/ IdText(i) = IdText(j)
      PROVE  i = j
  <2>1. NodeOf(i) = NodeOf(j)
    BY <1>1, <1>4, <1>5, OneNode DEF IdText
  <2> QED
    BY <1>4, <2>1
<1>6. ASSUME NEW n \in Nodes(Top), Terminal(n)
      PROVE  /\ KeyIdOf(terminalFlags, n) \in Ids(terminalFlags)
             /\ NodeOf(KeyIdOf(terminalFlags, n)) = n
             /\ IdText(KeyIdOf(terminalFlags, n)) = Text(Top, n)
  BY <1>2, <1>6 DEF NodeOf, IdText
<1> QED
  BY <1>3, <1>4, <1>5, <1>6

\* A step of a search leaves the dictionary alone.
Still == UNCHANGED <<vars, query, queryId>>

LEMMA DictStill ==
  ASSUME Still
  PROVE  /\ Dict' = Dict /\ Top' = Top
         /\ UNCHANGED <<keyset, setting, phase, trie, terminalFlags, query, queryId>>
         /\ \A i : NodeOf(i)' = NodeOf(i) /\ IdText(i)' = IdText(i)
         /\ Ids(terminalFlags)' = Ids(terminalFlags)
<1>1. UNCHANGED <<keyset, setting, phase, trie, terminalFlags, ids, query, queryId>>
  BY DEF Still, vars, inputVars, linkVars
<1>2. Dict' = Dict
  BY <1>1 DEF Dict
<1>3. Top' = Top
  BY <1>1 DEF Top
<1> QED
  BY <1>1, <1>2, <1>3 DEF NodeOf, IdText

LEMMA PromiseStutter ==
  ASSUME Still, Mode' = Mode, given' = given, Answered' = Answered, result' = result
  PROVE  UNCHANGED Promise!vars
BY DictStill, Zenon DEF Promise!vars, Promise!dictVars, Dict, Mode, Answered

LEMMA PromiseBegin ==
  ASSUME Still, phase = "done", Mode' = Mode, given' = given, result' = "none"
  PROVE  Promise!Begin
<1>1. Answered' = [text |-> <<>>, id |-> -1]
  BY DEF Answered
<1> QED
  BY <1>1, DictStill, Zenon DEF Promise!Begin, Promise!dictVars, Promise!NoKey,
     Dict, Mode, Answered

Gives(i) == result' = "true" /\ Answered' = [text |-> IdText(i), id |-> i]

LEMMA PromiseLookup ==
  ASSUME Finished, Still, Mode' = "all", given' = {},
         NEW i \in Ids(terminalFlags), IdText(i) = query, Gives(i)
  PROVE  Promise!Lookup
<1>1. phase = "done"
  BY DEF Finished
<1>2. i \in DOMAIN Dict /\ Dict[i] = IdText(i)
  BY DictIs
<1> QED
  BY <1>1, <1>2, DictStill, Zenon DEF Gives, Promise!Lookup, Promise!Answer,
     Promise!dictVars, Dict, Mode, Answered

LEMMA PromiseNoLookup ==
  ASSUME Finished, Still, Mode' = "all", given' = {}, result' = "false",
         \A i \in Ids(terminalFlags) : IdText(i) # query
  PROVE  Promise!Lookup
<1>1. phase = "done"
  BY DEF Finished
<1>2. \A i \in DOMAIN Dict : Dict[i] # query
  BY DictIs
<1>3. Answered' = [text |-> <<>>, id |-> -1]
  BY DEF Answered
<1> QED
  BY <1>1, <1>2, <1>3, DictStill, Zenon DEF Promise!Lookup, Promise!Refuse,
     Promise!NoKey, Promise!dictVars, Dict, Mode, Answered

LEMMA PromiseReverse ==
  ASSUME Finished, Still, Mode' = "all", given' = {},
         queryId \in Ids(terminalFlags), Gives(queryId)
  PROVE  Promise!ReverseLookup
<1>1. phase = "done"
  BY DEF Finished
<1>2. queryId \in DOMAIN Dict /\ Dict[queryId] = IdText(queryId)
  BY DictIs
<1> QED
  BY <1>1, <1>2, DictStill, Zenon DEF Gives, Promise!ReverseLookup, Promise!Answer,
     Promise!dictVars, Dict, Mode, Answered

LEMMA PromiseThrow ==
  ASSUME Finished, Still, Mode' = Mode, given' = given, result' = "throw",
         queryId \notin Ids(terminalFlags)
  PROVE  Promise!ReverseLookup
<1>1. phase = "done"
  BY DEF Finished
<1>2. queryId \notin DOMAIN Dict
  BY DictIs
<1>3. Answered' = [text |-> <<>>, id |-> -1]
  BY DEF Answered
<1> QED
  BY <1>1, <1>2, <1>3, DictStill, Zenon DEF Promise!ReverseLookup, Promise!Refuse,
     Promise!NoKey, Promise!dictVars, Dict, Mode, Answered

LEMMA PrefixIs ==
  ASSUME NEW s \in Seq(Byte), NEW t \in Seq(Byte)
  PROVE  Promise!Seqs!IsPrefix(s, t) <=> Begins(s, t)
BY DEF Promise!Seqs!IsPrefix, Begins

\* What the two searches are to find, and what is left of it.
PrefixIds == {i \in Ids(terminalFlags) : Begins(IdText(i), query)}
PrefixedIds == {i \in Ids(terminalFlags) : Begins(query, IdText(i))}

LEMMA WantedIs ==
  ASSUME Finished, query \in Seq(Byte)
  PROVE  /\ {i \in DOMAIN Dict : Promise!Seqs!IsPrefix(Dict[i], query)} = PrefixIds
         /\ {i \in DOMAIN Dict : Promise!Seqs!IsPrefix(query, Dict[i])} = PrefixedIds
<1>1. DOMAIN Dict = Ids(terminalFlags) /\ \A i \in Ids(terminalFlags) : Dict[i] = IdText(i)
  BY DictIs
<1>2. \A i \in Ids(terminalFlags) :
        /\ Promise!Seqs!IsPrefix(IdText(i), query) <=> Begins(IdText(i), query)
        /\ Promise!Seqs!IsPrefix(query, IdText(i)) <=> Begins(query, IdText(i))
  BY IdTexts, PrefixIs
<1>3. \A i \in Ids(terminalFlags) :
        /\ Promise!Seqs!IsPrefix(Dict[i], query) <=> Begins(IdText(i), query)
        /\ Promise!Seqs!IsPrefix(query, Dict[i]) <=> Begins(query, IdText(i))
  BY <1>1, <1>2, Zenon
<1> QED
  BY <1>1, <1>3, Zenon DEF PrefixIds, PrefixedIds

LEMMA PromiseCommon ==
  ASSUME Finished, query \in Seq(Byte), Still, Mode # "endOfCommon", Mode' = "common",
         NEW i \in PrefixIds \ GivenBy("common"),
         \A j \in (PrefixIds \ GivenBy("common")) \ {i} : Len(IdText(i)) < Len(IdText(j)),
         given' = GivenBy("common") \cup {i}, Gives(i)
  PROVE  Promise!CommonPrefixSearch
<1>1. phase = "done"
  BY DEF Finished
<1>2. i \in Ids(terminalFlags) /\ PrefixIds \subseteq Ids(terminalFlags)
  BY DEF PrefixIds
<1>3. \A j \in Ids(terminalFlags) : Dict[j] = IdText(j)
  BY DictIs
<1>4. \A j \in (PrefixIds \ GivenBy("common")) \ {i} : Len(Dict[i]) < Len(Dict[j])
  BY <1>2, <1>3
<1>5. Dict[i] = IdText(i)
  BY <1>2, <1>3
<1>6. {j \in DOMAIN Dict : Promise!Seqs!IsPrefix(Dict[j], query)} = PrefixIds
  BY WantedIs
<1> QED
  BY <1>1, <1>4, <1>5, <1>6, DictStill, Zenon DEF Gives, Promise!CommonPrefixSearch,
     Promise!Search, Promise!Answer, Promise!dictVars, Dict, Mode, Answered, GivenBy

LEMMA PromiseNoCommon ==
  ASSUME Finished, query \in Seq(Byte), Still, Mode' = "endOfCommon",
         Mode = "endOfCommon" \/ PrefixIds \subseteq GivenBy("common"),
         given' = {}, result' = "false"
  PROVE  Promise!CommonPrefixSearch
<1>1. phase = "done"
  BY DEF Finished
<1>2. Answered' = [text |-> <<>>, id |-> -1]
  BY DEF Answered
<1>3. {j \in DOMAIN Dict : Promise!Seqs!IsPrefix(Dict[j], query)} = PrefixIds
  BY WantedIs
<1>4. (IF Mode = "endOfCommon" THEN {} ELSE PrefixIds \ GivenBy("common")) = {}
  OBVIOUS
<1> QED
  BY <1>1, <1>2, <1>3, <1>4, DictStill, Zenon DEF Promise!CommonPrefixSearch,
     Promise!Search, Promise!Refuse, Promise!NoKey, Promise!dictVars, Dict, Mode,
     Answered, GivenBy

LEMMA PromisePredictive ==
  ASSUME Finished, query \in Seq(Byte), Still, Mode # "endOfPredictive",
         Mode' = "predictive",
         NEW i \in PrefixedIds \ GivenBy("predictive"),
         \A j \in (PrefixedIds \ GivenBy("predictive")) \ {i} :
           setting.nodeOrder = "label" => Promise!Before(IdText(i), IdText(j)),
         given' = GivenBy("predictive") \cup {i}, Gives(i)
  PROVE  Promise!PredictiveSearch
<1>1. phase = "done"
  BY DEF Finished
<1>2. i \in Ids(terminalFlags) /\ PrefixedIds \subseteq Ids(terminalFlags)
  BY DEF PrefixedIds
<1>3. \A j \in Ids(terminalFlags) : Dict[j] = IdText(j)
  BY DictIs
<1>4. \A j \in (PrefixedIds \ GivenBy("predictive")) \ {i} :
        setting.nodeOrder = "label" => Promise!Before(Dict[i], Dict[j])
  BY <1>2, <1>3, Zenon
<1>5. Dict[i] = IdText(i)
  BY <1>2, <1>3
<1>6. {j \in DOMAIN Dict : Promise!Seqs!IsPrefix(query, Dict[j])} = PrefixedIds
  BY WantedIs
<1> QED
  BY <1>1, <1>4, <1>5, <1>6, DictStill, Zenon DEF Gives, Promise!PredictiveSearch,
     Promise!Search, Promise!Answer, Promise!dictVars, Dict, Mode, Answered, GivenBy

LEMMA PromiseNoPredictive ==
  ASSUME Finished, query \in Seq(Byte), Still, Mode' = "endOfPredictive",
         Mode = "endOfPredictive" \/ PrefixedIds \subseteq GivenBy("predictive"),
         given' = {}, result' = "false"
  PROVE  Promise!PredictiveSearch
<1>1. phase = "done"
  BY DEF Finished
<1>2. Answered' = [text |-> <<>>, id |-> -1]
  BY DEF Answered
<1>3. {j \in DOMAIN Dict : Promise!Seqs!IsPrefix(query, Dict[j])} = PrefixedIds
  BY WantedIs
<1>4. (IF Mode = "endOfPredictive" THEN {} ELSE PrefixedIds \ GivenBy("predictive")) = {}
  OBVIOUS
<1> QED
  BY <1>1, <1>2, <1>3, <1>4, DictStill, Zenon DEF Promise!PredictiveSearch,
     Promise!Search, Promise!Refuse, Promise!NoKey, Promise!dictVars, Dict, Mode,
     Answered, GivenBy

-----------------------------------------------------------------------------
(* Every step is one of the dictionary, action by action.                *)

\* What a step of the searches must do: keep what is known of the ids given, and be
\* a step of the dictionary or none.
Answers == Promise!Next \/ UNCHANGED Promise!vars

LEMMA GivenElsewhere ==
  ASSUME status' # "common", status' # "predictive" \/ ~(historyPos' > 0),
         call' = "none" \/ result' = "none"
  PROVE  GivenInv'
BY DEF GivenInv, GivenOK

LEMMA GivenSame ==
  ASSUME GivenInv, Still, Mode' = Mode, given' = given,
         UNCHANGED <<status, nodeId, history, historyPos>>,
         call' = "none" \/ result' = "none"
  PROVE  GivenInv'
<1>1. GivenOK'
  <2>1. phase' = phase /\ GivenBy("common")' = GivenBy("common")
        /\ GivenBy("predictive")' = GivenBy("predictive")
    BY DictStill DEF GivenBy
  <2>2. StartIds(nodeId)' = StartIds(nodeId) /\ VisitedIds' = VisitedIds
    BY DictStill DEF StartIds, VisitedIds
  <2> QED
    BY <2>1, <2>2 DEF GivenInv, GivenOK
<1> QED
  BY <1>1 DEF GivenInv

LEMMA FoundInQuery ==
  ASSUME query \in Seq(Byte), query' = query, NEW i, NEW len \in 0 .. Len(query), NEW ids1,
         Found("query", len, i, ids1), IdText(i) = SubSeq(query, 1, len)
  PROVE  Gives(i)
BY DEF Gives, Answered, KeyText, Found

LEMMA FoundInKeyBuf ==
  ASSUME NEW i, NEW ids1, Found("keyBuf", Len(keyBuf'), i, ids1),
         keyBuf' \in Seq(Byte), IdText(i) = keyBuf'
  PROVE  Gives(i)
<1>1. SubSeq(keyBuf', 1, Len(keyBuf')) = keyBuf'
  BY SubSeqFull
<1>2. /\ result' = "true" /\ key' = [in |-> "keyBuf", len |-> Len(keyBuf'), id |-> i]
  BY DEF Found
<1>3. KeyText' = keyBuf'
  BY <1>1, <1>2 DEF KeyText
<1> QED
  BY <1>2, <1>3 DEF Gives, Answered

LEMMA AnswersSetQuery ==
  ASSUME CursorInv, SetQuery
  PROVE  GivenInv' /\ Answers
<1>1. /\ call = "none" /\ call' = "none" /\ status' = "all" /\ given' = {}
      /\ result' = "none" /\ UNCHANGED vars
      /\ \/ query' \in Queries /\ queryId' = queryId
         \/ queryId' \in QueryIds /\ query' = query
  BY DEF SetQuery, Idle, ResetStatus
<1>2. query' \in Seq(Nat) /\ queryId' \in Nat
  <2>1. query \in Seq(Byte) /\ queryId \in Nat
    BY DEF CursorInv, SearchTypeOK
  <2>2. Byte \subseteq Nat
    BY BaseAssumption DEF Byte
  <2>3. query' \in Seq(Byte) /\ queryId' \in Nat
    BY <1>1, <2>1, QueriesAssumption
  <2>4. query' \in Seq(Nat)
    BY <2>2, <2>3, SeqMonotonic
  <2> QED
    BY <2>3, <2>4
<1>3. UNCHANGED <<keyset, setting, phase, terminalFlags, ids>>
  BY <1>1 DEF vars, inputVars, linkVars
<1>4. Dict' = Dict
  BY <1>3 DEF Dict
<1>5. Mode' = "all" /\ Answered' = [text |-> <<>>, id |-> -1]
  BY <1>1 DEF Mode, Answered
<1>6. Promise!SetQuery
  BY <1>1, <1>2, <1>3, <1>4, <1>5, Zenon DEF Promise!SetQuery, Promise!dictVars,
     Promise!NoKey, Dict, Mode, Answered
<1> QED
  BY <1>1, <1>6, GivenElsewhere DEF Answers, Promise!Next

LEMMA AnswersLookupCall ==
  ASSUME Ready, CursorInv, LookupCall
  PROVE  GivenInv' /\ Answers
<1>1. /\ phase = "done" /\ call = "none" /\ call' = "lookup" /\ from' = status
      /\ result' = "none" /\ status' = "all" /\ given' = given /\ Still
  BY DEF LookupCall, Idle, Enter, Still
<1>2. Mode' = Mode
  BY <1>1 DEF Mode
<1> QED
  BY <1>1, <1>2, PromiseBegin, GivenElsewhere DEF Answers, Promise!Next

\* The first bytes of the query.
LEMMA FirstBytes ==
  ASSUME NEW q \in Seq(Byte), NEW p \in 0 .. Len(q)
  PROVE  /\ SubSeq(q, 1, p) \in Seq(Byte) /\ Len(SubSeq(q, 1, p)) = p
         /\ Begins(SubSeq(q, 1, p), q) /\ p \in Nat
         /\ \A i \in 1 .. p : SubSeq(q, 1, p)[i] = q[i]
<1>1. Len(q) \in Nat
  BY LenProperties
<1> QED
  BY <1>1 DEF Begins

\* A child whose text agrees with the query is the one find_child() takes.
LEMMA KidTested ==
  ASSUME Finished, query \in Seq(Byte), queryPos \in Starts,
         nodeId \in Nodes(Top), Len(Text(Top, nodeId)) = queryPos,
         NEW m \in Kids(Top, nodeId),
         \A j \in 1 .. Len(query) : j <= Len(Text(Top, m)) => Text(Top, m)[j] = query[j]
  PROVE  /\ Tested(m, TRUE).ok
         /\ Len(Text(Top, m)) <= Len(query) => Tested(m, FALSE).ok
<1> DEFINE own == Own(1, m)
           up == Text(Top, nodeId)
           p == queryPos
<1>1. /\ m \in DOMAIN Top.parentOf /\ Text(Top, m) = up \o own
      /\ own \in Seq(Byte) /\ up \in Seq(Byte)
  BY KidText
<1>2. /\ p \in Nat /\ Len(own) \in Nat /\ Len(up) = p /\ Len(query) \in Nat
  BY <1>1, LenProperties DEF Starts
<1>3. Len(Text(Top, m)) = p + Len(own)
      /\ \A i \in 1 .. Len(own) : Text(Top, m)[p + i] = own[i]
  <2> HIDE DEF own, up, p
  <2>1. /\ Len(up \o own) = Len(up) + Len(own)
        /\ \A i \in Len(up) + 1 .. Len(up) + Len(own) : (up \o own)[i] = own[i - Len(up)]
    BY <1>1, ConcatProperties
  <2>2. ASSUME NEW i \in 1 .. Len(own) PROVE (up \o own)[p + i] = own[i]
    <3>1. p + i \in Len(up) + 1 .. Len(up) + Len(own)
      BY <1>2
    <3> DEFINE k == p + i
    <3>2. (up \o own)[k] = own[k - Len(up)]
      <4>1. k \in Len(up) + 1 .. Len(up) + Len(own)
        BY <3>1
      <4> HIDE DEF k
      <4> QED
        BY <2>1, <4>1
    <3>3. k - Len(up) = i
      BY <1>2
    <3> HIDE DEF k
    <3>4. (up \o own)[k] = own[i]
      BY <3>2, <3>3
    <3> QED
      BY <3>4 DEF k
  <2> QED
    BY <1>1, <1>2, <2>1, <2>2
<1>4. Fits(own, query, p)
  <2> SUFFICES ASSUME NEW i \in 1 .. Len(own), p + i <= Len(query)
               PROVE  own[i] = query[p + i]
    BY DEF Fits
  <2> HIDE DEF own, p
  <2>1. p + i \in 1 .. Len(query) /\ p + i <= Len(Text(Top, m))
    BY <1>2, <1>3
  <2> QED
    BY <1>3, <2>1
<1>5. /\ Outcome(own, query, p, TRUE, Tested(m, TRUE))
      /\ Outcome(own, query, p, FALSE, Tested(m, FALSE))
  BY <1>1, TriedIs
<1> HIDE DEF own, p
<1> QED
  BY <1>3, <1>4, <1>5 DEF Outcome

\* A key that is the start of the query is on the way to the node the search is on,
\* or behind the child find_child() takes.
LEMMA CommonNext ==
  ASSUME Finished, query \in Seq(Byte), Led(Top, query, nodeId, queryPos),
         NEW z \in Nodes(Top), Begins(Text(Top, z), query)
  PROVE  \/ Begins(Text(Top, z), Text(Top, nodeId))
         \/ \E m \in Kids(Top, nodeId) :
              Begins(Text(Top, m), Text(Top, z)) /\ Begins(Text(Top, m), query)
<1> DEFINE here == Text(Top, nodeId)
           there == Text(Top, z)
<1>1. Tree(Top) /\ nodeId \in Nodes(Top) /\ queryPos \in 0 .. Len(query)
      /\ here = SubSeq(query, 1, queryPos)
  BY TopIsTree DEF Led
<1>2. /\ here \in Seq(Byte) /\ Begins(here, query) /\ Begins(there, query) /\ there \in Seq(Byte)
      /\ Len(here) \in Nat /\ Len(there) \in Nat
  BY <1>1, FirstBytes, TreeNode
<1>3. CASE Len(there) <= Len(here)
  <2>1. Begins(there, here)
    BY <1>2, <1>3, BothBegin
  <2> QED
    BY <2>1
<1>4. CASE ~(Len(there) <= Len(here))
  <2>1. Begins(here, there) /\ z # nodeId
    <3> HIDE DEF here, there
    <3>1. Len(here) <= Len(there)
      BY <1>2, <1>4
    <3>2. Begins(here, there)
      BY <1>2, <3>1, BothBegin
    <3>3. here # there
      BY <1>2, <1>4
    <3> QED
      BY <3>2, <3>3 DEF here, there
  <2>2. PICK m \in DOMAIN Top.parentOf :
          Top.parentOf[m] = nodeId /\ Begins(Text(Top, m), there)
    BY <1>1, <2>1, NextWay
  <2>3. m \in Nodes(Top) /\ Text(Top, m) \in Seq(Byte)
    BY <1>1, TreeChild, TreeNode
  <2>4. Begins(Text(Top, m), query)
    BY <1>2, <2>2, <2>3, BeginsOn
  <2> QED
    BY <2>2, <2>4 DEF Kids
<1> QED
  BY <1>3, <1>4

\* Without a child to take, the way ends here.
LEMMA CommonStops ==
  ASSUME Finished, query \in Seq(Byte), Led(Top, query, nodeId, queryPos),
         ~HasMoreQuery \/ \A m \in Kids(Top, nodeId) : ~Tested(m, FALSE).ok,
         NEW z \in Nodes(Top), Begins(Text(Top, z), query)
  PROVE  Begins(Text(Top, z), Text(Top, nodeId)) /\ Len(Text(Top, z)) <= queryPos
<1>1. /\ Tree(Top) /\ nodeId \in Nodes(Top) /\ queryPos \in 0 .. Len(query)
      /\ Text(Top, nodeId) = SubSeq(query, 1, queryPos) /\ Len(query) \in Nat
  BY TopIsTree, LenProperties DEF Led
<1>2. Len(Text(Top, nodeId)) = queryPos /\ queryPos \in Nat
  BY <1>1, FirstBytes
<1>3. ASSUME NEW m \in Kids(Top, nodeId), Begins(Text(Top, m), query)
      PROVE  FALSE
  <2>1. /\ m \in Nodes(Top) /\ m # 0 /\ Top.parentOf[m] = nodeId
    BY KidText
  <2>2. Len(Text(Top, m)) \in Nat /\ queryPos < Len(Text(Top, m))
    BY <1>1, <1>2, <2>1, TreeNode
  <2>3. Len(Text(Top, m)) <= Len(query)
        /\ \A j \in 1 .. Len(query) : j <= Len(Text(Top, m)) => Text(Top, m)[j] = query[j]
    BY <1>1, <1>3, <2>2 DEF Begins
  <2>4. HasMoreQuery /\ queryPos \in Starts
    BY <1>1, <1>2, <2>2, <2>3 DEF HasMoreQuery, Starts
  <2>5. Tested(m, FALSE).ok
    BY <1>1, <1>2, <2>3, <2>4, KidTested
  <2> QED
    BY <2>4, <2>5
<1>4. Begins(Text(Top, z), Text(Top, nodeId))
  BY <1>3, CommonNext
<1> QED
  BY <1>2, <1>4 DEF Begins

\* What is known while a search runs.
LEMMA Known ==
  ASSUME Ready, CursorInv, phase = "done"
  PROVE  /\ Finished /\ SearchTypeOK /\ ModesOK /\ CursorOK /\ WalkOK /\ query \in Seq(Byte)
         /\ Tree(Top) /\ queryId \in Nat /\ keyBuf \in Seq(Byte)
BY TopIsTree DEF Ready, CursorInv, SearchTypeOK

LEMMA AnswersLookupStep ==
  ASSUME Ready, CursorInv, GivenInv, LookupStep
  PROVE  GivenInv' /\ Answers
<1>0. call = "lookup" /\ status = "all" /\ phase = "done" /\ result = "none"
  BY DEF LookupStep, CursorInv, ModesOK, GivenInv
<1>1. Finished /\ query \in Seq(Byte) /\ Led(Top, query, nodeId, queryPos)
  BY <1>0, Known DEF CursorOK
<1> DEFINE child == FindChild(FALSE)
<1>2. /\ HasMoreQuery
      /\ IF child.ok THEN UNCHANGED <<call, from, given, key, result, status>> ELSE Fail(status)
      /\ UNCHANGED <<vars, query, queryId, keyBuf, history, historyPos>>
  BY DEF LookupStep
<1>3. nodeId \in Nodes(Top) /\ queryPos \in Starts
  BY <1>1, <1>2, LenProperties DEF Led, HasMoreQuery, Starts
<1>4. FoundAs(child, FALSE)
  BY <1>1, <1>3, FindChildIs
<1> HIDE DEF child
<1>5. Still
  BY <1>2 DEF Still
<1>6. CASE child.ok
  <2>1. Mode' = Mode /\ Answered' = Answered /\ given' = given /\ result' = result
        /\ status' = "all"
    BY <1>0, <1>2, <1>6 DEF Mode, Answered, KeyText
  <2> QED
    BY <1>0, <1>5, <2>1, PromiseStutter, GivenElsewhere DEF Answers
<1>7. CASE ~child.ok
  <2>1. call' = "none" /\ result' = "false" /\ status' = "all" /\ given' = {}
    BY <1>0, <1>2, <1>7 DEF Fail
  <2>2. ASSUME NEW i \in Ids(terminalFlags), IdText(i) = query
        PROVE  FALSE
    <3>1. NodeOf(i) \in Nodes(Top) /\ Begins(IdText(i), query)
      BY <1>1, <2>2, IdTexts, BeginsItself
    <3>2. Len(IdText(i)) <= queryPos
      BY <1>1, <1>4, <1>7, <3>1, CommonStops DEF FoundAs, IdText
    <3> QED
      BY <1>1, <1>2, <2>2, <3>2, LenProperties DEF HasMoreQuery, Led
  <2>3. Mode' = "all"
    BY <2>1 DEF Mode
  <2>4. Promise!Lookup
    BY <1>1, <1>5, <2>1, <2>2, <2>3, PromiseNoLookup
  <2> QED
    BY <2>1, <2>4, GivenElsewhere DEF Answers, Promise!Next
<1> QED
  BY <1>6, <1>7

\* Where a query has led to, if all of it is read.
LEMMA LedToEnd ==
  ASSUME Finished, query \in Seq(Byte), Led(Top, query, nodeId, queryPos), ~HasMoreQuery
  PROVE  Text(Top, nodeId) = query /\ nodeId \in Nodes(Top) /\ queryPos = Len(query)
BY LenProperties, SubSeqFull DEF Led, HasMoreQuery

LEMMA AnswersLookupEnd ==
  ASSUME Ready, CursorInv, GivenInv, LookupEnd
  PROVE  GivenInv' /\ Answers
<1>0. call = "lookup" /\ status = "all" /\ phase = "done" /\ ~HasMoreQuery
  BY DEF LookupEnd, CursorInv, ModesOK
<1>1. Finished /\ query \in Seq(Byte) /\ Led(Top, query, nodeId, queryPos) /\ Tree(Top)
  BY <1>0, Known DEF CursorOK
<1>2. Text(Top, nodeId) = query /\ nodeId \in Nodes(Top)
  BY <1>0, <1>1, LedToEnd
<1> DEFINE id == KeyIdOf(terminalFlags, nodeId)
<1>3. /\ IF Terminal(nodeId)
         THEN Found("query", Len(query), id, {}) /\ UNCHANGED status
         ELSE Fail(status)
      /\ Still
  BY DEF LookupEnd, Still
<1>4. Terminal(nodeId) => id \in Ids(terminalFlags) /\ IdText(id) = query
  BY <1>1, <1>2, IdTexts
<1> HIDE DEF id
<1>5. call' = "none" /\ status' = "all" /\ given' = {}
  BY <1>0, <1>3 DEF Found, Fail
<1>6. Mode' = "all"
  BY <1>5 DEF Mode
<1>7. CASE Terminal(nodeId)
  <2>1. Gives(id)
    <3>1. Found("query", Len(query), id, {})
      BY <1>3, <1>7
    <3>2. Len(query) \in 0 .. Len(query) /\ SubSeq(query, 1, Len(query)) = query
      BY <1>1, LenProperties, SubSeqFull
    <3>3. query' = query
      BY <1>3 DEF Still
    <3> QED
      BY <1>1, <1>4, <1>7, <3>1, <3>2, <3>3, FoundInQuery
  <2> QED
    BY <1>1, <1>3, <1>4, <1>5, <1>6, <1>7, <2>1, PromiseLookup, GivenElsewhere
       DEF Answers, Promise!Next
<1>8. CASE ~Terminal(nodeId)
  <2>1. result' = "false"
    BY <1>3, <1>8 DEF Fail
  <2>2. ASSUME NEW i \in Ids(terminalFlags), IdText(i) = query
        PROVE  FALSE
    <3>1. NodeOf(i) \in Nodes(Top) /\ Terminal(NodeOf(i))
      BY <1>1, IdTexts
    <3>2. NodeOf(i) = nodeId
      BY <1>1, <1>2, <2>2, <3>1, OneNode DEF IdText
    <3> QED
      BY <1>8, <3>1, <3>2
  <2>3. Promise!Lookup
    BY <1>1, <1>3, <1>5, <1>6, <2>1, <2>2, PromiseNoLookup
  <2> QED
    BY <1>5, <2>3, GivenElsewhere DEF Answers, Promise!Next
<1> QED
  BY <1>7, <1>8

LEMMA AnswersReverseThrow ==
  ASSUME Ready, CursorInv, GivenInv, ReverseThrow
  PROVE  GivenInv' /\ Answers
<1>1. /\ phase = "done" /\ call = "none" /\ call' = "none" /\ result' = "throw"
      /\ queryId >= Ones(terminalFlags) /\ Still
      /\ UNCHANGED <<status, from, given, nodeId, history, historyPos>>
  BY DEF ReverseThrow, Idle, Still, cursorVars
<1>2. Finished /\ queryId \in Nat
  BY <1>1, Known
<1>3. queryId \notin Ids(terminalFlags)
  <2>1. Ones(terminalFlags) \in Nat
    BY <1>2, FlagsAre
  <2> QED
    BY <1>1, <1>2, <2>1 DEF Ids
<1>4. Mode' = Mode
  BY <1>1 DEF Mode
<1>5. Promise!ReverseLookup
  BY <1>1, <1>2, <1>3, <1>4, PromiseThrow
<1> QED
  BY <1>1, <1>4, <1>5, GivenSame DEF Answers, Promise!Next

LEMMA AnswersReverseCall ==
  ASSUME Ready, CursorInv, GivenInv, ReverseCall
  PROVE  GivenInv' /\ Answers
<1>1. /\ phase = "done" /\ call = "none" /\ queryId < Ones(terminalFlags)
      /\ keyBuf' = <<>> /\ status' = "all" /\ nodeId' = NodeOf(queryId)
      /\ IF nodeId' = 0 THEN Found("keyBuf", 0, queryId, {})
         ELSE Enter("reverse") /\ UNCHANGED <<key, given>>
      /\ Still
  BY DEF ReverseCall, Idle, Still, NodeOf
<1>2. Finished /\ queryId \in Nat
  BY <1>1, Known
<1>3. queryId \in Ids(terminalFlags)
  <2>1. Ones(terminalFlags) \in Nat
    BY <1>2, FlagsAre
  <2> QED
    BY <1>1, <1>2, <2>1 DEF Ids
<1>4. CASE nodeId' = 0
  <2>1. Found("keyBuf", Len(keyBuf'), queryId, {})
    <3>1. Len(keyBuf') = 0
      BY <1>1
    <3> QED
      BY <1>1, <1>4, <3>1
  <2>2. call' = "none" /\ given' = {}
    BY <2>1 DEF Found
  <2>3. IdText(queryId) = keyBuf' /\ keyBuf' \in Seq(Byte)
    <3>1. Text(Top, 0) = <<>> /\ <<>> \in Seq(Byte)
      BY <1>2, TopIsTree DEF Tree
    <3> QED
      BY <1>1, <1>4, <3>1 DEF IdText
  <2>4. Gives(queryId)
    BY <2>1, <2>3, FoundInKeyBuf
  <2>5. Mode' = "all"
    BY <1>1, <2>2 DEF Mode
  <2>6. Promise!ReverseLookup
    BY <1>1, <1>2, <1>3, <2>2, <2>4, <2>5, PromiseReverse
  <2> QED
    BY <1>1, <2>2, <2>6, GivenElsewhere DEF Answers, Promise!Next
<1>5. CASE nodeId' # 0
  <2>1. call' = "reverse" /\ from' = status /\ result' = "none" /\ given' = given
    BY <1>1, <1>5 DEF Enter
  <2>2. Mode' = Mode
    BY <1>1, <2>1 DEF Mode
  <2> QED
    BY <1>1, <2>1, <2>2, PromiseBegin, GivenElsewhere DEF Answers, Promise!Next
<1> QED
  BY <1>4, <1>5

LEMMA AnswersReverseStep ==
  ASSUME Ready, CursorInv, GivenInv, ReverseStep
  PROVE  GivenInv' /\ Answers
<1>0. call = "reverse" /\ status = "all" /\ phase = "done" /\ result = "none"
  BY DEF ReverseStep, CursorInv, ModesOK, GivenInv
<1>1. Finished /\ queryId \in Nat /\ keyBuf \in Seq(Byte)
      /\ queryId < Ones(terminalFlags)
      /\ Climbs(Top, NodeOf(queryId), nodeId, keyBuf)
  BY <1>0, Known DEF CursorOK, NodeOf
<1> DEFINE more == keyBuf \o ReadAt(nodeId)
<1>2. /\ Still /\ status' = "all"
      /\ IF nodeId <= Top.numL1
         THEN keyBuf' = Seqs!Reverse(more) /\ Found("keyBuf", Len(keyBuf'), queryId, {})
         ELSE UNCHANGED <<call, from, given, key, result>>
  BY <1>0, Zenon DEF ReverseStep, ReadAt, Still
<1>3. more \in Seq(Byte) /\ (nodeId <= Top.numL1 => IdText(queryId) = Seqs!Reverse(more))
  <2>1. /\ keyBuf \o ReadAt(nodeId) \in Seq(Byte)
        /\ nodeId <= Top.numL1 =>
             Text(Top, NodeOf(queryId)) = Seqs!Reverse(keyBuf \o ReadAt(nodeId))
    BY <1>1, ClimbsOn
  <2> QED
    BY <2>1 DEF IdText
<1> HIDE DEF more
<1>4. CASE nodeId <= Top.numL1
  <2>1. keyBuf' = IdText(queryId) /\ Found("keyBuf", Len(keyBuf'), queryId, {})
    BY <1>2, <1>3, <1>4
  <2>2. queryId \in Ids(terminalFlags)
    <3>1. Ones(terminalFlags) \in Nat
      BY <1>1, FlagsAre
    <3> QED
      BY <1>1, <3>1 DEF Ids
  <2>3. keyBuf' \in Seq(Byte)
    BY <1>1, <2>1, <2>2, IdTexts
  <2>4. Gives(queryId)
    BY <2>1, <2>3, FoundInKeyBuf
  <2>5. call' = "none" /\ given' = {} /\ Mode' = "all"
    BY <1>2, <2>1 DEF Found, Mode
  <2>6. Promise!ReverseLookup
    BY <1>1, <1>2, <2>2, <2>4, <2>5, PromiseReverse
  <2> QED
    BY <1>2, <2>5, <2>6, GivenElsewhere DEF Answers, Promise!Next
<1>5. CASE ~(nodeId <= Top.numL1)
  <2>1. UNCHANGED <<call, from, given, key, result>>
    BY <1>2, <1>5
  <2>2. Mode' = Mode /\ Answered' = Answered
    BY <1>0, <1>2, <2>1 DEF Mode, Answered
  <2> QED
    BY <1>0, <1>2, <2>1, <2>2, PromiseStutter, GivenElsewhere DEF Answers
<1> QED
  BY <1>4, <1>5


\* At the end of the way no key is left that is the start of the query.
LEMMA NoneLeft ==
  ASSUME Finished, query \in Seq(Byte), Led(Top, query, nodeId, queryPos),
         ~HasMoreQuery \/ \A m \in Kids(Top, nodeId) : ~Tested(m, FALSE).ok
  PROVE  PrefixIds \subseteq StartIds(nodeId)
<1> SUFFICES ASSUME NEW i \in PrefixIds PROVE i \in StartIds(nodeId)
  OBVIOUS
<1>1. i \in Ids(terminalFlags) /\ Begins(IdText(i), query)
  BY DEF PrefixIds
<1>2. NodeOf(i) \in Nodes(Top)
  BY <1>1, IdTexts
<1>3. Begins(IdText(i), Text(Top, nodeId))
  BY <1>1, <1>2, CommonStops DEF IdText
<1> QED
  BY <1>1, <1>3 DEF StartIds

\* One node further on, there may be one key more, and it is the shortest.
LEMMA OneMore ==
  ASSUME Finished, query \in Seq(Byte), Led(Top, query, nodeId, queryPos),
         NEW c \in Kids(Top, nodeId), NEW p, Led(Top, query, c, p)
  PROVE  /\ c \in Nodes(Top)
         /\ StartIds(c) = StartIds(nodeId) \cup {i \in Ids(terminalFlags) : NodeOf(i) = c}
         /\ \A i \in Ids(terminalFlags) : NodeOf(i) = c =>
              /\ i \in PrefixIds \ StartIds(nodeId)
              /\ \A j \in (PrefixIds \ StartIds(nodeId)) \ {i} :
                   Len(IdText(i)) < Len(IdText(j))
<1> DEFINE here == Text(Top, nodeId)
           there == Text(Top, c)
<1>1. Tree(Top) /\ nodeId \in Nodes(Top) /\ c \in Nodes(Top)
  BY TopIsTree DEF Led
<1>2. /\ c \in DOMAIN Top.parentOf /\ Top.parentOf[c] = nodeId /\ c # 0
  BY KidText
<1>3. /\ here \in Seq(Byte) /\ there \in Seq(Byte)
      /\ Begins(here, query) /\ Begins(there, query) /\ Begins(here, there)
      /\ Len(here) < Len(there) /\ Len(here) \in Nat /\ Len(there) \in Nat
  BY <1>1, <1>2, TreeNode, FirstBytes DEF Led
<1>4. ASSUME NEW i \in PrefixIds \ StartIds(nodeId)
      PROVE  Begins(there, IdText(i)) /\ i \in Ids(terminalFlags) /\ NodeOf(i) \in Nodes(Top)
             /\ IdText(i) \in Seq(Byte) /\ Len(IdText(i)) \in Nat
  <2>1. i \in Ids(terminalFlags) /\ Begins(IdText(i), query)
    BY DEF PrefixIds
  <2>2. NodeOf(i) \in Nodes(Top) /\ IdText(i) \in Seq(Byte) /\ Len(IdText(i)) \in Nat
    BY <2>1, IdTexts
  <2>3. ~Begins(IdText(i), here)
    BY <2>1 DEF StartIds
  <2>4. PICK m \in Kids(Top, nodeId) :
          Begins(Text(Top, m), IdText(i)) /\ Begins(Text(Top, m), query)
    BY <2>1, <2>2, <2>3, CommonNext DEF IdText
  <2>5. m \in DOMAIN Top.parentOf /\ Top.parentOf[m] = nodeId
    BY DEF Kids
  <2>6. m = c
    BY <1>1, <1>2, <1>3, <2>4, <2>5, OneFork
  <2> QED
    BY <2>1, <2>2, <2>4, <2>6
<1>5. ASSUME NEW i \in Ids(terminalFlags), NodeOf(i) = c
      PROVE  /\ IdText(i) = there /\ i \in PrefixIds \ StartIds(nodeId) /\ i \in StartIds(c)
  <2>1. IdText(i) = there
    BY <1>5 DEF IdText
  <2>2. ~Begins(there, here) /\ Begins(there, there)
    BY <1>3, BeginsItself DEF Begins
  <2> QED
    BY <1>3, <2>1, <2>2 DEF PrefixIds, StartIds
<1>6. ASSUME NEW i \in Ids(terminalFlags), NodeOf(i) = c,
             NEW j \in (PrefixIds \ StartIds(nodeId)) \ {i}
      PROVE  Len(IdText(i)) < Len(IdText(j))
  <2>1. /\ Begins(there, IdText(j)) /\ j \in Ids(terminalFlags) /\ i # j
        /\ IdText(j) \in Seq(Byte) /\ Len(IdText(j)) \in Nat
    BY <1>4
  <2>2. IdText(i) = there
    BY <1>5, <1>6
  <2>3. IdText(i) # IdText(j)
    BY <2>1, IdTexts
  <2> HIDE DEF here, there
  <2>4. ~(Len(IdText(j)) <= Len(there))
    BY <1>3, <2>1, <2>2, <2>3, BeginsSame
  <2> QED
    BY <1>3, <2>1, <2>2, <2>4
<1>7. ASSUME NEW i \in StartIds(c), i \notin StartIds(nodeId)
      PROVE  i \in Ids(terminalFlags) /\ NodeOf(i) = c
  <2>1. i \in Ids(terminalFlags) /\ Begins(IdText(i), there)
    BY <1>7 DEF StartIds
  <2>2. IdText(i) \in Seq(Byte) /\ NodeOf(i) \in Nodes(Top) /\ Len(IdText(i)) \in Nat
    BY <2>1, IdTexts
  <2>3. Begins(IdText(i), query)
    BY <1>3, <2>1, <2>2, BeginsOn
  <2>4. i \in PrefixIds \ StartIds(nodeId)
    BY <1>7, <2>1, <2>3 DEF PrefixIds
  <2>5. Begins(there, IdText(i))
    BY <1>4, <2>4
  <2> HIDE DEF here, there
  <2>6. Len(there) <= Len(IdText(i))
    BY <2>5 DEF Begins
  <2>7. IdText(i) = there
    BY <1>3, <2>1, <2>2, <2>6, BeginsSame
  <2>8. Text(Top, NodeOf(i)) = Text(Top, c)
    BY <2>7 DEF IdText, there
  <2> QED
    BY <1>1, <2>1, <2>2, <2>8, OneNode
<1>8. ASSUME NEW i \in StartIds(nodeId)
      PROVE  i \in StartIds(c)
  <2>1. i \in Ids(terminalFlags) /\ Begins(IdText(i), here)
    BY DEF StartIds
  <2>2. IdText(i) \in Seq(Byte)
    BY <2>1, IdTexts
  <2>3. Begins(IdText(i), there)
    BY <1>3, <2>1, <2>2, BeginsOn
  <2> QED
    BY <2>1, <2>3 DEF StartIds
<1>9. StartIds(c) = StartIds(nodeId) \cup {i \in Ids(terminalFlags) : NodeOf(i) = c}
  BY <1>5, <1>7, <1>8
<1> QED
  BY <1>1, <1>5, <1>6, <1>9

\* No key but the empty one is the start of the empty text.
LEMMA FirstGiven ==
  ASSUME Finished, query \in Seq(Byte)
  PROVE  /\ StartIds(0) = {i \in Ids(terminalFlags) : NodeOf(i) = 0}
         /\ \A i \in Ids(terminalFlags) : NodeOf(i) = 0 =>
              /\ i \in PrefixIds /\ IdText(i) = <<>>
              /\ \A j \in PrefixIds \ {i} : Len(IdText(i)) < Len(IdText(j))
<1>1. Tree(Top) /\ 0 \in Nodes(Top) /\ Text(Top, 0) = <<>>
  BY TopIsTree, LedFromRoot
<1>2. ASSUME NEW i \in Ids(terminalFlags), Begins(IdText(i), <<>>)
      PROVE  NodeOf(i) = 0
  <2>1. NodeOf(i) \in Nodes(Top) /\ IdText(i) \in Seq(Byte) /\ Len(IdText(i)) \in Nat
    BY IdTexts
  <2>2. Len(IdText(i)) = 0
    BY <1>2, <2>1 DEF Begins
  <2>3. IdText(i) = <<>>
    BY <2>1, <2>2
  <2> QED
    BY <1>1, <2>1, <2>3, OneNode DEF IdText
<1>3. ASSUME NEW i \in Ids(terminalFlags), NodeOf(i) = 0
      PROVE  IdText(i) = <<>> /\ Begins(IdText(i), <<>>) /\ Begins(IdText(i), query)
  <2>1. IdText(i) = <<>>
    BY <1>1, <1>3 DEF IdText
  <2>2. <<>> \in Seq(Byte)
    OBVIOUS
  <2> QED
    BY <2>1, <2>2, BeginsItself
<1>4. StartIds(0) = {i \in Ids(terminalFlags) : NodeOf(i) = 0}
  BY <1>1, <1>2, <1>3 DEF StartIds
<1>5. ASSUME NEW i \in Ids(terminalFlags), NodeOf(i) = 0, NEW j \in PrefixIds \ {i}
      PROVE  Len(IdText(i)) < Len(IdText(j))
  <2>1. j \in Ids(terminalFlags) /\ j # i
    BY DEF PrefixIds
  <2>2. IdText(j) \in Seq(Byte) /\ IdText(j) # IdText(i) /\ Len(IdText(j)) \in Nat
    BY <2>1, IdTexts
  <2>3. IdText(i) = <<>>
    BY <1>3, <1>5
  <2> QED
    BY <2>2, <2>3
<1> QED
  BY <1>3, <1>4, <1>5 DEF PrefixIds

\* The keys given, after one call of a common prefix search or in the midst of it.
LEMMA GivenCommon ==
  ASSUME status' = "common", GivenBy("common")' = StartIds(nodeId)',
         call' = "none" \/ result' = "none"
  PROVE  GivenInv'
BY DEF GivenInv, GivenOK

LEMMA AnswersCommonCall ==
  ASSUME Ready, CursorInv, GivenInv, CommonCall
  PROVE  GivenInv' /\ Answers
<1>0. /\ phase = "done" /\ call = "none" /\ Finished /\ query \in Seq(Byte) /\ Still
  BY Known DEF CommonCall, Idle, Still
<1>1. CASE status = "endOfCommon" /\ Fail(status) /\ UNCHANGED cursorVars
  <2>1. call' = "none" /\ result' = "false" /\ status' = "endOfCommon" /\ given' = {}
    BY <1>1 DEF Fail
  <2>2. Mode = "endOfCommon" /\ Mode' = "endOfCommon"
    BY <1>0, <1>1, <2>1 DEF Mode
  <2>3. Promise!CommonPrefixSearch
    BY <1>0, <2>1, <2>2, PromiseNoCommon
  <2> QED
    BY <2>1, <2>3, GivenElsewhere DEF Answers, Promise!Next
<1>2. CASE /\ status = "common" /\ Enter("common")
           /\ UNCHANGED <<cursorVars, status, key, given>>
  <2>1. /\ call' = "common" /\ from' = status /\ result' = "none"
        /\ UNCHANGED <<status, nodeId, history, historyPos, given>>
    BY <1>2 DEF Enter, cursorVars
  <2>2. Mode' = Mode
    BY <1>0, <2>1 DEF Mode
  <2> QED
    BY <1>0, <2>1, <2>2, PromiseBegin, GivenSame DEF Answers, Promise!Next
<1>3. CASE /\ status \notin {"common", "endOfCommon"}
           /\ CommonInit
           /\ IF Terminal(0)
              THEN LET id == KeyIdOf(terminalFlags, 0) IN Found("query", 0, id, {id})
              ELSE Enter("common") /\ UNCHANGED <<key, given>>
           /\ UNCHANGED <<keyBuf, history, historyPos>>
  <2> DEFINE id == KeyIdOf(terminalFlags, 0)
  <2>1. /\ nodeId' = 0 /\ status' = "common"
        /\ IF Terminal(0) THEN Found("query", 0, id, {id})
           ELSE Enter("common") /\ UNCHANGED <<key, given>>
    BY <1>3 DEF CommonInit
  <2>2. Mode # "endOfCommon" /\ GivenBy("common") = {}
    BY <1>0, <1>3 DEF Mode, GivenBy
  <2>3. StartIds(nodeId)' = StartIds(0)
    <3>1. StartIds(nodeId)' = {i \in Ids(terminalFlags) : Begins(IdText(i), Text(Top, 0))}
      BY <1>0, <2>1, DictStill DEF StartIds
    <3> QED
      BY <3>1 DEF StartIds
  <2>4. 0 \in Nodes(Top)
    BY <1>0, LedFromRoot
  <2>5. Terminal(0) => id \in Ids(terminalFlags) /\ NodeOf(id) = 0
    BY <1>0, <2>4, IdTexts
  <2>6. \A i \in Ids(terminalFlags) : NodeOf(i) = 0 => Terminal(0) /\ i = id
    BY <1>0, IdTexts
  <2> HIDE DEF id
  <2>7. CASE Terminal(0)
    <3>1. Found("query", 0, id, {id})
      BY <2>1, <2>7
    <3>2. call' = "none" /\ given' = {id} /\ result' = "true"
      BY <3>1 DEF Found
    <3>3. Mode' = "common"
      BY <2>1, <3>2 DEF Mode
    <3>4. /\ id \in PrefixIds /\ IdText(id) = <<>> /\ id \in Ids(terminalFlags)
          /\ \A j \in PrefixIds \ {id} : Len(IdText(id)) < Len(IdText(j))
      BY <1>0, <2>5, <2>7, FirstGiven
    <3>5. Gives(id)
      <4>1. 0 \in 0 .. Len(query) /\ SubSeq(query, 1, 0) = <<>> /\ query' = query
        BY <1>0, LenProperties, SubSeqEmpty, DictStill
      <4> QED
        BY <1>0, <3>1, <3>4, <4>1, FoundInQuery
    <3>6. Promise!CommonPrefixSearch
      BY <1>0, <2>2, <3>2, <3>3, <3>4, <3>5, PromiseCommon
    <3>7. GivenBy("common")' = StartIds(nodeId)'
      <4>1. StartIds(0) = {id}
        BY <1>0, <2>5, <2>6, <2>7, FirstGiven
      <4> QED
        BY <2>3, <3>2, <3>3, <4>1 DEF GivenBy
    <3> QED
      BY <2>1, <3>2, <3>6, <3>7, GivenCommon DEF Answers, Promise!Next
  <2>8. CASE ~Terminal(0)
    <3>1. call' = "common" /\ from' = status /\ result' = "none" /\ given' = given
      BY <2>1, <2>8 DEF Enter
    <3>2. Mode' = Mode
      BY <1>0, <3>1 DEF Mode
    <3>3. GivenBy("common")' = StartIds(nodeId)'
      <4>1. StartIds(0) = {}
        BY <1>0, <2>6, <2>8, FirstGiven
      <4>2. GivenBy("common")' = GivenBy("common")
        BY <3>1, <3>2 DEF GivenBy
      <4> QED
        BY <2>2, <2>3, <4>1, <4>2
    <3> QED
      BY <1>0, <2>1, <3>1, <3>2, <3>3, PromiseBegin, GivenCommon DEF Answers, Promise!Next
  <2> QED
    BY <2>7, <2>8
<1> QED
  BY <1>1, <1>2, <1>3 DEF CommonCall

LEMMA AnswersCommonStep ==
  ASSUME Ready, CursorInv, GivenInv, CommonStep
  PROVE  GivenInv' /\ Answers
<1>0. /\ call = "common" /\ status = "common" /\ from # "endOfCommon" /\ phase = "done"
      /\ result = "none" /\ Mode = from
  BY DEF CommonStep, CursorInv, ModesOK, GivenInv, Mode
<1>1. Finished /\ query \in Seq(Byte) /\ Led(Top, query, nodeId, queryPos)
      /\ GivenBy("common") = StartIds(nodeId)
  BY <1>0, Known DEF CursorOK, GivenInv, GivenOK
<1> DEFINE child == FindChild(FALSE)
           id == KeyIdOf(terminalFlags, child.node)
<1>2. /\ HasMoreQuery /\ nodeId' = child.node
      /\ IF ~child.ok THEN Fail("endOfCommon")
         ELSE IF Terminal(child.node)
         THEN Found("query", child.pos, id, Given(id, "common")) /\ UNCHANGED status
         ELSE UNCHANGED <<status, key, result, call, from, given>>
      /\ UNCHANGED <<vars, query, queryId, keyBuf, history, historyPos>>
  BY DEF CommonStep, Descended
<1>3. nodeId \in Nodes(Top) /\ queryPos \in Starts
  BY <1>1, <1>2, LenProperties DEF Led, HasMoreQuery, Starts
<1>4. FoundAs(child, FALSE)
  BY <1>1, <1>3, FindChildIs
<1> HIDE DEF child
<1>5. Still
  BY <1>2 DEF Still
<1>6. CASE ~child.ok
  <2>1. call' = "none" /\ result' = "false" /\ status' = "endOfCommon" /\ given' = {}
    BY <1>2, <1>6 DEF Fail
  <2>2. PrefixIds \subseteq GivenBy("common")
    BY <1>1, <1>4, <1>6, NoneLeft DEF FoundAs
  <2>3. Mode' = "endOfCommon"
    BY <2>1 DEF Mode
  <2>4. Promise!CommonPrefixSearch
    BY <1>1, <1>5, <2>1, <2>2, <2>3, PromiseNoCommon
  <2> QED
    BY <2>1, <2>4, GivenElsewhere DEF Answers, Promise!Next
<1>7. CASE child.ok
  <2> DEFINE c == child.node
  <2>1. c \in Kids(Top, nodeId) /\ Led(Top, query, c, child.pos)
    BY <1>1, <1>2, <1>4, <1>7, LedOn DEF FoundAs
  <2>2. /\ c \in Nodes(Top)
        /\ StartIds(c) = StartIds(nodeId) \cup {i \in Ids(terminalFlags) : NodeOf(i) = c}
        /\ \A i \in Ids(terminalFlags) : NodeOf(i) = c =>
             /\ i \in PrefixIds \ StartIds(nodeId)
             /\ \A j \in (PrefixIds \ StartIds(nodeId)) \ {i} :
                  Len(IdText(i)) < Len(IdText(j))
    BY <1>1, <2>1, OneMore
  <2>3. /\ Terminal(c) => id \in Ids(terminalFlags) /\ NodeOf(id) = c
        /\ \A i \in Ids(terminalFlags) : NodeOf(i) = c => Terminal(c) /\ i = id
    BY <1>1, <2>2, IdTexts
  <2>4. StartIds(nodeId)' = StartIds(c)
    <3>1. StartIds(nodeId)' = {i \in Ids(terminalFlags) : Begins(IdText(i), Text(Top, c))}
      BY <1>2, <1>5, DictStill DEF StartIds
    <3> QED
      BY <3>1 DEF StartIds
  <2> HIDE DEF c, id
  <2>5. CASE Terminal(c)
    <3>1. Found("query", child.pos, id, Given(id, "common")) /\ status' = status
      BY <1>2, <1>7, <2>5 DEF c
    <3>2. call' = "none" /\ result' = "true" /\ given' = GivenBy("common") \cup {id}
          /\ status' = "common"
      BY <1>0, <3>1 DEF Found, Given, GivenBy
    <3>3. Mode' = "common"
      BY <3>2 DEF Mode
    <3>4. Gives(id)
      <4>1. IdText(id) = SubSeq(query, 1, child.pos) /\ child.pos \in 0 .. Len(query)
        BY <2>1, <2>3, <2>5 DEF IdText, Led
      <4>2. query' = query
        BY <1>2
      <4> QED
        BY <1>1, <3>1, <4>1, <4>2, FoundInQuery
    <3>5. Promise!CommonPrefixSearch
      <4>1. Mode # "endOfCommon"
        BY <1>0
      <4>2. /\ id \in PrefixIds \ GivenBy("common")
            /\ \A j \in (PrefixIds \ GivenBy("common")) \ {id} :
                 Len(IdText(id)) < Len(IdText(j))
        BY <1>1, <2>2, <2>3, <2>5
      <4> QED
        BY <1>1, <1>5, <3>2, <3>3, <3>4, <4>1, <4>2, PromiseCommon
    <3>6. GivenBy("common")' = StartIds(nodeId)'
      <4>1. {i \in Ids(terminalFlags) : NodeOf(i) = c} = {id}
        BY <2>3, <2>5
      <4>2. GivenBy("common")' = given'
        BY <3>3 DEF GivenBy
      <4> QED
        BY <1>1, <2>2, <2>4, <3>2, <4>1, <4>2
    <3> QED
      BY <3>2, <3>5, <3>6, GivenCommon DEF Answers, Promise!Next
  <2>6. CASE ~Terminal(c)
    <3>1. UNCHANGED <<status, key, result, call, from, given>>
      BY <1>2, <1>7, <2>6 DEF c
    <3>2. Mode' = Mode /\ Answered' = Answered /\ GivenBy("common")' = GivenBy("common")
      BY <1>0, <1>2, <3>1 DEF Mode, Answered, GivenBy
    <3>3. {i \in Ids(terminalFlags) : NodeOf(i) = c} = {}
      BY <2>3, <2>6
    <3>4. GivenBy("common")' = StartIds(nodeId)'
      BY <1>1, <2>2, <2>4, <3>2, <3>3
    <3> QED
      BY <1>0, <1>5, <3>1, <3>2, <3>4, PromiseStutter, GivenCommon DEF Answers
  <2> QED
    BY <2>5, <2>6
<1> QED
  BY <1>6, <1>7

LEMMA AnswersCommonEnd ==
  ASSUME Ready, CursorInv, GivenInv, CommonEnd
  PROVE  GivenInv' /\ Answers
<1>0. call = "common" /\ status = "common" /\ phase = "done" /\ ~HasMoreQuery
  BY DEF CommonEnd, CursorInv, ModesOK
<1>1. Finished /\ query \in Seq(Byte) /\ Led(Top, query, nodeId, queryPos)
      /\ GivenBy("common") = StartIds(nodeId)
  BY <1>0, Known DEF CursorOK, GivenInv, GivenOK
<1>2. call' = "none" /\ result' = "false" /\ status' = "endOfCommon" /\ given' = {} /\ Still
  BY DEF CommonEnd, Fail, Still
<1>3. PrefixIds \subseteq GivenBy("common")
  BY <1>0, <1>1, NoneLeft
<1>4. Mode' = "endOfCommon"
  BY <1>2 DEF Mode
<1>5. Promise!CommonPrefixSearch
  BY <1>1, <1>2, <1>3, <1>4, PromiseNoCommon
<1> QED
  BY <1>2, <1>5, GivenElsewhere DEF Answers, Promise!Next

\* The keys given, after one call of a predictive search or in the midst of it.
LEMMA GivenPredictive ==
  ASSUME status' = "predictive", GivenBy("predictive")' = VisitedIds',
         call' = "none" \/ result' = "none"
  PROVE  GivenInv'
BY DEF GivenInv, GivenOK

LEMMA VisitedThen ==
  ASSUME Still
  PROVE  VisitedIds' = {i \in Ids(terminalFlags) :
                          Visited(Top, history', historyPos', NodeOf(i))}
<1>1. Ids(terminalFlags)' = Ids(terminalFlags) /\ Top' = Top
      /\ \A i : NodeOf(i)' = NodeOf(i)
  BY DictStill
<1>2. \A i : Visited(Top, history, historyPos, NodeOf(i))'
               <=> Visited(Top, history', historyPos', NodeOf(i))
  BY <1>1
<1> QED
  BY <1>1, <1>2 DEF VisitedIds

LEMMA AnswersPredictiveCall ==
  ASSUME Ready, CursorInv, GivenInv, PredictiveCall
  PROVE  GivenInv' /\ Answers
<1>0. /\ phase = "done" /\ call = "none" /\ Finished /\ query \in Seq(Byte) /\ Still
  BY Known DEF PredictiveCall, Idle, Still
<1>1. CASE status = "endOfPredictive" /\ Fail(status) /\ UNCHANGED cursorVars
  <2>1. call' = "none" /\ result' = "false" /\ status' = "endOfPredictive" /\ given' = {}
    BY <1>1 DEF Fail
  <2>2. Mode = "endOfPredictive" /\ Mode' = "endOfPredictive"
    BY <1>0, <1>1, <2>1 DEF Mode
  <2>3. Promise!PredictiveSearch
    BY <1>0, <2>1, <2>2, PromiseNoPredictive
  <2> QED
    BY <2>1, <2>3, GivenElsewhere DEF Answers, Promise!Next
<1>2. CASE /\ status = "predictive" /\ Enter("enumerate")
           /\ UNCHANGED <<cursorVars, status, key, given>>
  <2>1. /\ call' = "enumerate" /\ from' = status /\ result' = "none"
        /\ UNCHANGED <<status, nodeId, history, historyPos, given>>
    BY <1>2 DEF Enter, cursorVars
  <2>2. Mode' = Mode
    BY <1>0, <2>1 DEF Mode
  <2> QED
    BY <1>0, <2>1, <2>2, PromiseBegin, GivenSame DEF Answers, Promise!Next
<1>3. CASE /\ status \notin {"predictive", "endOfPredictive"}
           /\ Enter("predictive") /\ PredictiveInit /\ UNCHANGED <<key, given>>
  <2>1. /\ call' = "predictive" /\ from' = status /\ result' = "none" /\ given' = given
        /\ historyPos' = 0 /\ status' = "predictive"
    BY <1>3 DEF Enter, PredictiveInit
  <2>2. Mode' = Mode
    BY <1>0, <2>1 DEF Mode
  <2> QED
    BY <1>0, <2>1, <2>2, PromiseBegin, GivenElsewhere DEF Answers, Promise!Next
<1> QED
  BY <1>1, <1>2, <1>3 DEF PredictiveCall

\* Where find_child() takes no child no key begins with the query.
LEMMA NothingBegins ==
  ASSUME Finished, query \in Seq(Byte), Leads(Top, query, nodeId, queryPos, keyBuf),
         HasMoreQuery, \A m \in Kids(Top, nodeId) : ~Tested(m, TRUE).ok
  PROVE  PrefixedIds = {}
<1> SUFFICES ASSUME NEW i \in PrefixedIds PROVE FALSE
  OBVIOUS
<1> DEFINE z == NodeOf(i)
<1>1. i \in Ids(terminalFlags) /\ Begins(query, IdText(i)) /\ Finished
  BY DEF PrefixedIds
<1>2. z \in Nodes(Top) /\ IdText(i) = Text(Top, z) /\ IdText(i) \in Seq(Byte)
  BY <1>1, IdTexts DEF IdText
<1>3. /\ Tree(Top) /\ nodeId \in Nodes(Top) /\ queryPos \in 0 .. Len(query)
      /\ Len(query) \in Nat /\ queryPos < Len(query)
      /\ Len(Text(Top, nodeId)) = queryPos
      /\ \A j \in 1 .. queryPos : Text(Top, nodeId)[j] = query[j]
  BY TopIsTree, LenProperties DEF Leads, HasMoreQuery
<1> HIDE DEF z
<1>4. Len(Text(Top, z)) \in Nat /\ Text(Top, z) \in Seq(Byte)
  BY <1>2, <1>3, TreeNode
<1>5. Begins(Text(Top, nodeId), Text(Top, z)) /\ nodeId # z
  BY <1>1, <1>2, <1>3, <1>4 DEF Begins
<1>6. PICK m \in DOMAIN Top.parentOf :
        Top.parentOf[m] = nodeId /\ Begins(Text(Top, m), Text(Top, z))
  BY <1>2, <1>3, <1>5, NextWay
<1>7. m \in Kids(Top, nodeId) /\ Len(Text(Top, m)) \in Nat
  BY <1>3, <1>6, TreeChild, TreeNode DEF Kids
<1>8. \A j \in 1 .. Len(query) : j <= Len(Text(Top, m)) => Text(Top, m)[j] = query[j]
  BY <1>1, <1>2, <1>3, <1>4, <1>6, <1>7 DEF Begins
<1>9. queryPos \in Starts
  BY <1>3 DEF Starts
<1>10. Tested(m, TRUE).ok
  BY <1>3, <1>7, <1>8, <1>9, KidTested
<1> QED
  BY <1>7, <1>10

LEMMA AnswersPredictiveStep ==
  ASSUME Ready, CursorInv, GivenInv, PredictiveStep
  PROVE  GivenInv' /\ Answers
<1>0. /\ call = "predictive" /\ status = "predictive" /\ phase = "done"
      /\ from \notin {"predictive", "endOfPredictive"} /\ historyPos = 0
      /\ result = "none" /\ Mode = from
  BY DEF PredictiveStep, CursorInv, ModesOK, GivenInv, Mode
<1>1. Finished /\ query \in Seq(Byte) /\ Leads(Top, query, nodeId, queryPos, keyBuf)
  BY <1>0, Known DEF CursorOK
<1> DEFINE child == FindChild(TRUE)
<1>2. /\ HasMoreQuery
      /\ IF child.ok THEN UNCHANGED <<call, from, given, key, result, status>>
                     ELSE Fail("endOfPredictive")
      /\ UNCHANGED <<vars, query, queryId, history, historyPos>>
  BY DEF PredictiveStep
<1>3. nodeId \in Nodes(Top) /\ queryPos \in Starts
  BY <1>1, <1>2, LenProperties DEF Leads, HasMoreQuery, Starts
<1>4. FoundAs(child, TRUE)
  BY <1>1, <1>3, FindChildIs
<1> HIDE DEF child
<1>5. Still
  BY <1>2 DEF Still
<1>6. CASE ~child.ok
  <2>1. call' = "none" /\ result' = "false" /\ status' = "endOfPredictive" /\ given' = {}
    BY <1>2, <1>6 DEF Fail
  <2>2. PrefixedIds \subseteq GivenBy("predictive")
    BY <1>1, <1>2, <1>4, <1>6, NothingBegins DEF FoundAs
  <2>3. Mode' = "endOfPredictive"
    BY <2>1 DEF Mode
  <2>4. Promise!PredictiveSearch
    BY <1>1, <1>5, <2>1, <2>2, <2>3, PromiseNoPredictive
  <2> QED
    BY <2>1, <2>4, GivenElsewhere DEF Answers, Promise!Next
<1>7. CASE child.ok
  <2>1. UNCHANGED <<call, from, given, key, result, status, historyPos>>
    BY <1>2, <1>7
  <2>2. Mode' = Mode /\ Answered' = Answered
    BY <1>0, <2>1 DEF Mode, Answered
  <2>3. ~(historyPos' > 0)
    BY <1>0, <2>1
  <2>4. GivenInv'
    BY <1>0, <2>1, <2>3, GivenElsewhere
  <2> QED
    BY <1>5, <2>1, <2>2, <2>4, PromiseStutter DEF Answers
<1> QED
  BY <1>6, <1>7

\* Where the query has led is the first node of the walk, and of what begins with
\* the query its key is first.
LEMMA RootAnswers ==
  ASSUME Finished, query \in Seq(Byte), RootOf(Top, query, nodeId)
  PROVE  \A i \in Ids(terminalFlags) : NodeOf(i) = nodeId =>
           /\ i \in PrefixedIds
           /\ \A j \in PrefixedIds \ {i} : Promise!Before(IdText(i), IdText(j))
<1> SUFFICES ASSUME NEW i \in Ids(terminalFlags), NodeOf(i) = nodeId
             PROVE  /\ i \in PrefixedIds
                    /\ \A j \in PrefixedIds \ {i} : Promise!Before(IdText(i), IdText(j))
  OBVIOUS
<1>1. i \in PrefixedIds
  BY DEF RootOf, PrefixedIds, IdText
<1>2. ASSUME NEW j \in PrefixedIds \ {i} PROVE Promise!Before(IdText(i), IdText(j))
  <2>1. j \in Ids(terminalFlags) /\ Begins(query, IdText(j)) /\ i # j
    BY DEF PrefixedIds
  <2>2. /\ NodeOf(j) \in Nodes(Top) /\ IdText(i) \in Seq(Byte) /\ IdText(j) \in Seq(Byte)
        /\ IdText(i) # IdText(j)
    BY <2>1, IdTexts
  <2>3. Begins(IdText(i), IdText(j))
    BY <2>1, <2>2 DEF RootOf, IdText
  <2> QED
    BY <2>2, <2>3, BeforeLonger
<1> QED
  BY <1>1, <1>2

LEMMA AnswersPredictiveRoot ==
  ASSUME Ready, CursorInv, GivenInv, PredictiveRoot
  PROVE  GivenInv' /\ Answers
<1>0. /\ call = "predictive" /\ status = "predictive" /\ phase = "done" /\ ~HasMoreQuery
      /\ from \notin {"predictive", "endOfPredictive"} /\ history = <<>>
      /\ result = "none" /\ Mode = from
  BY DEF PredictiveRoot, CursorInv, ModesOK, GivenInv, Mode
<1>1. Finished /\ query \in Seq(Byte) /\ Leads(Top, query, nodeId, queryPos, keyBuf)
      /\ Tree(Top) /\ keyBuf \in Seq(Byte)
  BY <1>0, Known DEF CursorOK
<1> DEFINE id == KeyIdOf(terminalFlags, nodeId)
           root == [nodeId |-> nodeId, loudsPos |-> 0, keyPos |-> Len(keyBuf),
                    linkId |-> Invalid, keyId |-> Invalid]
<1>2. /\ history' = Append(history, root) /\ historyPos' = 1
      /\ IF Terminal(nodeId)
         THEN Found("keyBuf", Len(keyBuf), id, Given(id, "predictive"))
         ELSE call' = "enumerate" /\ UNCHANGED <<from, given, key, result>>
      /\ UNCHANGED <<vars, query, queryId, nodeId, queryPos, keyBuf, status>>
  BY Zenon DEF PredictiveRoot
<1>3. Still
  BY <1>2 DEF Still
<1>4. nodeId \in Nodes(Top) /\ queryPos = Len(query) /\ keyBuf = Text(Top, nodeId)
  BY <1>0, <1>1, LenProperties DEF Leads, HasMoreQuery
<1>5. RootOf(Top, query, nodeId)
  BY <1>1, <1>4, LeadsToRoot
<1>6. \A z : Visited(Top, history', historyPos', z) <=> z = nodeId
  <2>1. history' = <<root>> /\ historyPos' = 1
    BY <1>0, <1>2
  <2>2. root.nodeId = nodeId
    OBVIOUS
  <2> HIDE DEF root
  <2>3. Len(history') = 1 /\ history'[1].nodeId = nodeId
    BY <2>1, <2>2
  <2> QED
    BY <2>1, <2>3 DEF Visited
<1>7. VisitedIds' = {i \in Ids(terminalFlags) : NodeOf(i) = nodeId}
  BY <1>3, <1>6, VisitedThen
<1>8. /\ Terminal(nodeId) => id \in Ids(terminalFlags) /\ NodeOf(id) = nodeId
                             /\ IdText(id) = Text(Top, nodeId)
      /\ \A i \in Ids(terminalFlags) : NodeOf(i) = nodeId => Terminal(nodeId) /\ i = id
  BY <1>1, <1>4, IdTexts
<1>9. GivenBy("predictive") = {}
  BY <1>0 DEF GivenBy
<1> HIDE DEF id, root
<1>10. CASE Terminal(nodeId)
  <2>1. Found("keyBuf", Len(keyBuf'), id, Given(id, "predictive"))
        /\ status' = "predictive" /\ keyBuf' = keyBuf
    BY <1>0, <1>2, <1>10
  <2>2. call' = "none" /\ result' = "true" /\ given' = GivenBy("predictive") \cup {id}
    BY <1>0, <1>9, <2>1 DEF Found, Given
  <2>3. Mode' = "predictive"
    BY <2>1, <2>2 DEF Mode
  <2>4. Gives(id)
    BY <1>1, <1>4, <1>8, <1>10, <2>1, FoundInKeyBuf
  <2>5. /\ id \in PrefixedIds \ GivenBy("predictive")
        /\ \A j \in (PrefixedIds \ GivenBy("predictive")) \ {id} :
             Promise!Before(IdText(id), IdText(j))
    BY <1>1, <1>5, <1>8, <1>9, <1>10, RootAnswers
  <2>6. Promise!PredictiveSearch
    BY <1>0, <1>1, <1>3, <2>2, <2>3, <2>4, <2>5, PromisePredictive
  <2>7. GivenBy("predictive")' = VisitedIds'
    <3>1. {i \in Ids(terminalFlags) : NodeOf(i) = nodeId} = {id}
      BY <1>8, <1>10
    <3> QED
      BY <1>7, <1>9, <2>2, <2>3, <3>1 DEF GivenBy
  <2> QED
    BY <2>1, <2>2, <2>6, <2>7, GivenPredictive DEF Answers, Promise!Next
<1>11. CASE ~Terminal(nodeId)
  <2>1. /\ call' = "enumerate" /\ status' = "predictive"
        /\ UNCHANGED <<from, given, key, result>>
    BY <1>0, <1>2, <1>11
  <2>2. Mode' = Mode /\ Answered' = Answered
    BY <1>0, <2>1 DEF Mode, Answered
  <2>3. GivenBy("predictive")' = VisitedIds'
    <3>1. {i \in Ids(terminalFlags) : NodeOf(i) = nodeId} = {}
      BY <1>8, <1>11
    <3>2. GivenBy("predictive")' = {}
      BY <1>0, <2>2 DEF GivenBy
    <3> QED
      BY <1>7, <3>1, <3>2
  <2> QED
    BY <1>0, <1>3, <2>1, <2>2, <2>3, PromiseStutter, GivenPredictive DEF Answers
<1> QED
  BY <1>10, <1>11

\* What the first trie promises in label order.
LEMMA LabelOrder ==
  ASSUME Finished, setting.nodeOrder = "label"
  PROVE  InOrder("label", keyset, Top.parentOf, Top.textOf)
<1>1. stack = <<>> /\ Linking
  BY DEF Finished, Linking, NamedInv, LevelsOK
<1> QED
  BY <1>1 DEF Finished, SiblingsInv, OrderOK, Top

\* The node visited has not been passed before, and of the keys not given yet the one
\* it ends, if it ends one, is first.
LEMMA VisitAnswers ==
  ASSUME Ready, CursorInv, Visit
  PROVE  LET n == NextLevel.nodeId
         IN  /\ \A z : Visited(Top, history', historyPos', z)
                         <=> Visited(Top, history, historyPos, z) \/ z = n
             /\ \A i \in Ids(terminalFlags) : NodeOf(i) = n =>
                  /\ i \in PrefixedIds \ VisitedIds
                  /\ \A j \in (PrefixedIds \ VisitedIds) \ {i} :
                       setting.nodeOrder = "label" =>
                         Promise!Before(IdText(i), IdText(j))
<1> DEFINE n == NextLevel.nodeId
<1>0. call = "enumerate" /\ Bit(Top.louds, NextLevel.loudsPos)
  BY DEF Visit
<1>1. /\ Finished /\ historyPos \in 1 .. Len(history) /\ query \in Seq(Byte)
      /\ Levels = LevelsOn(Top, history, historyPos)
      /\ Walk(Top, terminalFlags, history, historyPos)
      /\ Walk(Top, terminalFlags, Levels, historyPos)
      /\ historyPos + 1 \in 2 .. Len(Levels)
      /\ \A i \in 1 .. Len(history) : Levels[i] = history[i]
      /\ RootOf(Top, query, history[1].nodeId)
      /\ NextLevel = Levels[historyPos + 1]
  BY <1>0, StepAt
<1>2. /\ n \in DOMAIN Top.parentOf /\ Top.parentOf[n] = history[historyPos].nodeId
      /\ history' = [Levels EXCEPT ![historyPos + 1] =
                       VisitedLevel(Top, terminalFlags, Levels[historyPos + 1])]
      /\ historyPos' = historyPos + 1
      /\ Top' = Top
  BY <1>1, VisitIs, Zenon DEF VisitMakes, Top
<1>3. SteppedOn(Top, terminalFlags, Levels, historyPos)
  BY <1>0, <1>1, WalkVisit
<1>4. \A z : Visited(Top, Levels, historyPos, z) <=> Visited(Top, history, historyPos, z)
  BY <1>1, LevelsSee
<1>5. \A z : Visited(Top, history', historyPos', z)
               <=> Visited(Top, history, historyPos, z) \/ z = n
  <2> TAKE z
  <2> DEFINE next == [Levels EXCEPT ![historyPos + 1] =
                        VisitedLevel(Top, terminalFlags, Levels[historyPos + 1])]
  <2>1. next = [Levels EXCEPT ![historyPos + 1] =
                        VisitedLevel(Top, terminalFlags, Levels[historyPos + 1])]
    OBVIOUS
  <2>2. history' = next
    BY <1>2
  <2> HIDE DEF next
  <2>3. Visited(Top, next, historyPos + 1, z)
          <=> Visited(Top, Levels, historyPos, z) \/ z = Levels[historyPos + 1].nodeId
    <3>1. /\ Walk(Top, terminalFlags, Levels, historyPos)
          /\ historyPos + 1 \in 2 .. Len(Levels)
      BY <1>1
    <3> QED
      BY ONLY <1>3, <2>1, <3>1, StepSees, Zenon
  <2> QED
    BY <1>1, <1>2, <1>4, <2>2, <2>3
<1>6. ~Visited(Top, history, historyPos, n)
  BY <1>0, <1>1, <1>4, NotSeen
<1>7. Tree(Top) /\ n \in Nodes(Top) /\ Text(Top, n) \in Seq(Byte)
  BY <1>1, <1>2, TopIsTree, TreeChild, TreeNode
<1>8. Begins(query, Text(Top, n))
  <2>1. historyPos \in 1 .. historyPos /\ 1 \in 1 .. historyPos /\ historyPos \in 1 .. historyPos
    BY <1>1
  <2>2. PathOK(Top, history, historyPos)
    BY <1>1 DEF Walk
  <2>3. /\ history[1].nodeId \in Nodes(Top) /\ history[historyPos].nodeId \in Nodes(Top)
        /\ Begins(Text(Top, history[1].nodeId), Text(Top, history[historyPos].nodeId))
    BY <2>1, <2>2 DEF PathOK
  <2>4. Begins(Text(Top, history[historyPos].nodeId), Text(Top, n))
    BY <1>2, <1>7, TreeChild, TreeNode
  <2>5. Begins(query, Text(Top, history[1].nodeId))
    BY <1>1 DEF RootOf
  <2>6. Text(Top, history[1].nodeId) \in Seq(Byte)
        /\ Text(Top, history[historyPos].nodeId) \in Seq(Byte)
    BY <1>7, <2>3, TreeNode
  <2>7. Begins(query, Text(Top, history[historyPos].nodeId))
    BY <1>1, <2>3, <2>5, <2>6, BeginsOn
  <2> QED
    BY <1>1, <1>7, <2>4, <2>6, <2>7, BeginsOn
<1> HIDE DEF n
<1>9. ASSUME NEW i \in Ids(terminalFlags), NodeOf(i) = n
      PROVE  i \in PrefixedIds \ VisitedIds
  BY <1>6, <1>8, <1>9 DEF PrefixedIds, VisitedIds, IdText
<1>10. ASSUME NEW i \in Ids(terminalFlags), NodeOf(i) = n,
              NEW j \in (PrefixedIds \ VisitedIds) \ {i}, setting.nodeOrder = "label"
       PROVE  Promise!Before(IdText(i), IdText(j))
  <2> DEFINE z == NodeOf(j)
  <2>1. j \in Ids(terminalFlags) /\ Begins(query, IdText(j)) /\ i # j
        /\ ~Visited(Top, history, historyPos, z)
    BY DEF PrefixedIds, VisitedIds
  <2>2. z \in Nodes(Top) /\ z # n
    BY <1>1, <1>10, <2>1, IdTexts
  <2>3. IdText(i) = Text(Top, n) /\ IdText(j) = Text(Top, z)
    BY <1>10 DEF IdText
  <2> HIDE DEF z
  <2>4. Begins(Text(Top, history[1].nodeId), Text(Top, z))
    BY <1>1, <2>1, <2>2, <2>3 DEF RootOf
  <2>5. Levels[1] = history[1]
    <3>1. 1 \in 1 .. Len(history)
      BY <1>1
    <3> QED
      BY <1>1, <3>1
  <2>6. InOrder("label", keyset, Top.parentOf, Top.textOf)
    BY <1>1, <1>10, LabelOrder
  <2>7. n = Levels[historyPos + 1].nodeId
    BY <1>1 DEF n
  <2>8. ~Visited(Top, Levels, historyPos, z)
    BY <1>4, <2>1
  <2> DEFINE h == Levels
  <2>9. /\ Walk(Top, terminalFlags, h, historyPos) /\ historyPos + 1 \in 2 .. Len(h)
        /\ Bit(Top.louds, h[historyPos + 1].loudsPos)
        /\ Begins(Text(Top, h[1].nodeId), Text(Top, z))
        /\ ~Visited(Top, h, historyPos, z) /\ z # h[historyPos + 1].nodeId
    BY <1>0, <1>1, <2>2, <2>4, <2>5, <2>7, <2>8
  <2>10. Promise!Before(Text(Top, h[historyPos + 1].nodeId), Text(Top, z))
    <3> HIDE DEF h
    <3> QED
      BY <2>2, <2>6, <2>9, NextBefore
  <2> QED
    BY <2>3, <2>7, <2>10
<1> QED
  BY <1>5, <1>9, <1>10 DEF n

LEMMA AnswersVisit ==
  ASSUME Ready, CursorInv, GivenInv, Visit
  PROVE  GivenInv' /\ Answers
<1> DEFINE n == NextLevel.nodeId
           id == KeyIdOf(terminalFlags, n)
<1>0. call = "enumerate" /\ Still
  BY Zenon DEF Visit, Still
<1>1. /\ phase = "done" /\ status = "predictive" /\ from # "endOfPredictive"
      /\ Finished /\ query \in Seq(Byte) /\ historyPos > 0 /\ Tree(Top)
  BY <1>0, StepAt, Known
<1>2. /\ n \in DOMAIN Top.parentOf /\ keyBuf' = Text(Top, n)
      /\ IF Terminal(n)
         THEN Found("keyBuf", Len(keyBuf'), id, Given(id, "predictive"))
         ELSE UNCHANGED <<call, from, given, key, result>>
      /\ status' = status
  BY VisitIs, Zenon DEF VisitMakes
<1>3. n \in Nodes(Top) /\ keyBuf' \in Seq(Byte)
  BY <1>1, <1>2, TreeChild, TreeNode
<1>4. /\ \A z : Visited(Top, history', historyPos', z)
                  <=> Visited(Top, history, historyPos, z) \/ z = n
      /\ \A i \in Ids(terminalFlags) : NodeOf(i) = n =>
           /\ i \in PrefixedIds \ VisitedIds
           /\ \A j \in (PrefixedIds \ VisitedIds) \ {i} :
                setting.nodeOrder = "label" => Promise!Before(IdText(i), IdText(j))
  BY VisitAnswers
<1>5. /\ Terminal(n) => id \in Ids(terminalFlags) /\ NodeOf(id) = n
                        /\ IdText(id) = Text(Top, n)
      /\ \A i \in Ids(terminalFlags) : NodeOf(i) = n => Terminal(n) /\ i = id
  BY <1>1, <1>3, IdTexts
<1> HIDE DEF n, id
<1>6. VisitedIds' = VisitedIds \cup {i \in Ids(terminalFlags) : NodeOf(i) = n}
  <2>1. VisitedIds' = {i \in Ids(terminalFlags) :
                         Visited(Top, history', historyPos', NodeOf(i))}
    BY <1>0, VisitedThen
  <2> QED
    BY <1>4, <2>1 DEF VisitedIds
<1>7. GivenBy("predictive") = VisitedIds /\ result = "none" /\ Mode = from
  BY <1>0, <1>1 DEF GivenInv, GivenOK, Mode
<1>8. CASE Terminal(n)
  <2>1. Found("keyBuf", Len(keyBuf'), id, Given(id, "predictive")) /\ status' = "predictive"
    BY <1>1, <1>2, <1>8
  <2>2. call' = "none" /\ result' = "true" /\ given' = VisitedIds \cup {id}
    BY <1>7, <2>1 DEF Found, Given, GivenBy
  <2>3. Mode' = "predictive"
    BY <2>1, <2>2 DEF Mode
  <2>4. Gives(id)
    BY <1>2, <1>3, <1>5, <1>8, <2>1, FoundInKeyBuf
  <2>5. /\ id \in PrefixedIds \ VisitedIds
        /\ \A j \in (PrefixedIds \ VisitedIds) \ {id} :
             setting.nodeOrder = "label" => Promise!Before(IdText(id), IdText(j))
    BY <1>4, <1>5, <1>8
  <2>6. Promise!PredictiveSearch
    BY <1>0, <1>1, <1>7, <2>2, <2>3, <2>4, <2>5, PromisePredictive
  <2>7. GivenBy("predictive")' = VisitedIds'
    <3>1. {i \in Ids(terminalFlags) : NodeOf(i) = n} = {id}
      BY <1>5, <1>8
    <3> QED
      BY <1>6, <2>2, <2>3, <3>1 DEF GivenBy
  <2> QED
    BY <2>1, <2>2, <2>6, <2>7, GivenPredictive DEF Answers, Promise!Next
<1>9. CASE ~Terminal(n)
  <2>1. UNCHANGED <<call, from, given, key, result, status>>
    BY <1>2, <1>9
  <2>2. Mode' = Mode /\ Answered' = Answered /\ GivenBy("predictive")' = GivenBy("predictive")
    BY <1>7, <2>1 DEF Mode, Answered, GivenBy
  <2>3. GivenBy("predictive")' = VisitedIds'
    <3>1. {i \in Ids(terminalFlags) : NodeOf(i) = n} = {}
      BY <1>5, <1>9
    <3> QED
      BY <1>6, <1>7, <2>2, <3>1
  <2> QED
    BY <1>0, <1>1, <1>7, <2>1, <2>2, <2>3, PromiseStutter, GivenPredictive DEF Answers
<1> QED
  BY <1>8, <1>9

LEMMA AnswersGoUp ==
  ASSUME Ready, CursorInv, GivenInv, GoUp
  PROVE  GivenInv' /\ Answers
<1>0. /\ call = "enumerate" /\ ~Bit(Top.louds, NextLevel.loudsPos) /\ historyPos # 1
      /\ history' = PassedOn(Levels, historyPos) /\ historyPos' = historyPos - 1
      /\ Still /\ UNCHANGED <<status, key, result, call, from, given>>
  BY DEF GoUp, Passed, PassedOn, Still
<1>1. /\ phase = "done" /\ status = "predictive" /\ historyPos > 0
      /\ Finished
      /\ historyPos + 1 \in 2 .. Len(Levels)
      /\ Levels = LevelsOn(Top, history, historyPos)
      /\ Walk(Top, terminalFlags, history, historyPos)
      /\ Walk(Top, terminalFlags, Levels, historyPos)
      /\ NextLevel = Levels[historyPos + 1]
  BY <1>0, StepAt
<1>2. GoneUp(Top, terminalFlags, Levels, historyPos)
  BY <1>0, <1>1, WalkUp
<1>3. \A z \in Nodes(Top) : Visited(Top, history', historyPos', z)
                              <=> Visited(Top, history, historyPos, z)
  <2>1. \A z : Visited(Top, Levels, historyPos, z) <=> Visited(Top, history, historyPos, z)
    BY <1>1, LevelsSee
  <2>2. ~Bit(Top.louds, Levels[historyPos + 1].loudsPos)
    BY <1>0, <1>1
  <2>3. \A z \in Nodes(Top) :
          Visited(Top, PassedOn(Levels, historyPos), historyPos - 1, z)
            <=> Visited(Top, Levels, historyPos, z)
    BY <1>0, <1>1, <1>2, <2>2, UpSees, Zenon
  <2> QED
    BY <1>0, <2>1, <2>3
<1>4. VisitedIds' = VisitedIds
  <2>1. VisitedIds' = {i \in Ids(terminalFlags) :
                         Visited(Top, history', historyPos', NodeOf(i))}
    BY <1>0, VisitedThen
  <2>2. \A i \in Ids(terminalFlags) : NodeOf(i) \in Nodes(Top)
    BY <1>1, IdTexts
  <2> QED
    BY <1>3, <2>1, <2>2 DEF VisitedIds
<1>5. GivenBy("predictive") = VisitedIds /\ result = "none"
  BY <1>0, <1>1 DEF GivenInv, GivenOK
<1>6. Mode' = Mode /\ Answered' = Answered /\ GivenBy("predictive")' = GivenBy("predictive")
  BY <1>0, <1>5 DEF Mode, Answered, GivenBy
<1> QED
  BY <1>0, <1>1, <1>4, <1>5, <1>6, PromiseStutter, GivenPredictive DEF Answers

\* When the children of the first node are passed, nothing that begins with the
\* query is left.
LEMMA AnswersEnumerateEnd ==
  ASSUME Ready, CursorInv, GivenInv, EnumerateEnd
  PROVE  GivenInv' /\ Answers
<1>0. /\ call = "enumerate" /\ ~Bit(Top.louds, NextLevel.loudsPos) /\ historyPos = 1
      /\ Fail("endOfPredictive") /\ Still
  BY DEF EnumerateEnd, Still
<1>1. /\ phase = "done" /\ status = "predictive" /\ historyPos > 0
      /\ Finished /\ query \in Seq(Byte) /\ historyPos \in 1 .. Len(history)
      /\ historyPos + 1 \in 2 .. Len(Levels)
      /\ Levels = LevelsOn(Top, history, historyPos)
      /\ Walk(Top, terminalFlags, history, historyPos)
      /\ Walk(Top, terminalFlags, Levels, historyPos)
      /\ \A i \in 1 .. Len(history) : Levels[i] = history[i]
      /\ RootOf(Top, query, history[1].nodeId)
      /\ NextLevel = Levels[historyPos + 1]
  BY <1>0, StepAt
<1>2. call' = "none" /\ result' = "false" /\ status' = "endOfPredictive" /\ given' = {}
  BY <1>0 DEF Fail
<1>3. GivenBy("predictive") = VisitedIds
  BY <1>0, <1>1 DEF GivenInv, GivenOK
<1>4. ASSUME NEW i \in PrefixedIds PROVE i \in VisitedIds
  <2> DEFINE z == NodeOf(i)
  <2>1. i \in Ids(terminalFlags) /\ Begins(query, Text(Top, z))
    BY DEF PrefixedIds, IdText
  <2>2. z \in Nodes(Top)
    BY <1>1, <2>1, IdTexts
  <2> HIDE DEF z
  <2>3. Levels[1] = history[1]
    BY <1>0, <1>1
  <2>4. Begins(Text(Top, Levels[1].nodeId), Text(Top, z))
    BY <1>1, <2>1, <2>2, <2>3 DEF RootOf
  <2>5. Walk(Top, terminalFlags, Levels, 1) /\ 2 \in 2 .. Len(Levels)
        /\ ~Bit(Top.louds, Levels[2].loudsPos)
    <3>1. historyPos + 1 = 2
      BY <1>0
    <3> QED
      BY <1>0, <1>1, <3>1
  <2>6. Visited(Top, Levels, 1, z)
    BY <2>2, <2>4, <2>5, AllSeen
  <2>7. Visited(Top, history, historyPos, z)
    BY <1>0, <1>1, <2>6, LevelsSee
  <2> QED
    BY <2>1, <2>7 DEF VisitedIds, z
<1>5. Mode' = "endOfPredictive"
  BY <1>2 DEF Mode
<1>6. Promise!PredictiveSearch
  BY <1>0, <1>1, <1>2, <1>3, <1>4, <1>5, PromiseNoPredictive
<1> QED
  BY <1>2, <1>6, GivenElsewhere DEF Answers, Promise!Next

\* The keys of a keyset under the numbers is, all below n.
Under(n, ks, is) == [i \in 0 .. n - 1 |-> ks[CHOOSE k \in DOMAIN ks : is[k] = i].text]
Dense(n, ks, is) ==
  /\ \A k, l \in DOMAIN ks : is[k] = is[l] <=> ks[k].text = ks[l].text
  /\ {is[k] : k \in DOMAIN ks} = 0 .. n - 1
Numbers(d, ks) ==
  /\ {d[i] : i \in DOMAIN d} = {ks[k].text : k \in DOMAIN ks}
  /\ \A i, j \in DOMAIN d : d[i] = d[j] => i = j
  /\ \A i \in DOMAIN d : i = 0 \/ i - 1 \in DOMAIN d

\* Dense ids make a dictionary.
LEMMA NumbersTexts ==
  ASSUME NEW n \in Nat, NEW ks, NEW is, Dense(n, ks, is)
  PROVE  Numbers(Under(n, ks, is), ks)
<1> DEFINE d == Under(n, ks, is)
<1>0. /\ \A k, l \in DOMAIN ks : is[k] = is[l] <=> ks[k].text = ks[l].text
      /\ {is[k] : k \in DOMAIN ks} = 0 .. n - 1
  BY DEF Dense
<1>1. DOMAIN d = 0 .. n - 1
  BY DEF Under
<1>2. ASSUME NEW i \in 0 .. n - 1
      PROVE  \E k \in DOMAIN ks : is[k] = i /\ d[i] = ks[k].text
  <2> DEFINE c == CHOOSE k \in DOMAIN ks : is[k] = i
  <2>1. \E k \in DOMAIN ks : is[k] = i
    BY <1>0, <1>2
  <2>2. c \in DOMAIN ks /\ is[c] = i
    BY <2>1, Zenon
  <2>3. d[i] = ks[c].text
    BY <1>2 DEF Under
  <2> QED
    BY <2>2, <2>3
<1>3. \A k \in DOMAIN ks : is[k] \in 0 .. n - 1 /\ d[is[k]] = ks[k].text
  <2> TAKE k \in DOMAIN ks
  <2>1. is[k] \in 0 .. n - 1
    BY <1>0
  <2>2. PICK l \in DOMAIN ks : is[l] = is[k] /\ d[is[k]] = ks[l].text
    BY <1>2, <2>1
  <2>3. ks[l].text = ks[k].text
    BY <1>0, <2>2
  <2> QED
    BY <2>1, <2>2, <2>3
<1> HIDE DEF d
<1>4. {d[i] : i \in DOMAIN d} = {ks[k].text : k \in DOMAIN ks}
  BY <1>1, <1>2, <1>3
<1>5. ASSUME NEW i \in DOMAIN d, NEW j \in DOMAIN d, d[i] = d[j]
      PROVE  i = j
  <2>1. PICK k \in DOMAIN ks : is[k] = i /\ d[i] = ks[k].text
    BY <1>1, <1>2
  <2>2. PICK l \in DOMAIN ks : is[l] = j /\ d[j] = ks[l].text
    BY <1>1, <1>2
  <2> QED
    BY <1>0, <1>5, <2>1, <2>2
<1>6. \A i \in DOMAIN d : i = 0 \/ i - 1 \in DOMAIN d
  BY <1>1
<1> QED
  BY <1>4, <1>5, <1>6 DEF Numbers, d

FlagCount == phase = "done" => Ones(terminalFlags) \in Nat

\* The step that numbers the keys makes the dictionary; until then there is none.
LEMMA AnswersBuild ==
  ASSUME CursorInv, GivenInv, IdsDense', FlagCount', BuildStep
  PROVE  GivenInv' /\ Answers
<1>1. phase # "done" /\ status = "all" /\ call = "none"
  BY BuildNotDone DEF BuildStep, CursorInv, ModesOK
<1>2. UNCHANGED <<query, queryId, status, key, result, call, from, given, keyBuf>>
  BY DEF BuildStep, agentVars, cursorVars
<1>3. UNCHANGED <<keyset, setting>>
  <2>1. BeginTrie \/ OpenNode \/ GroupKey \/ Grouped \/ AddChild \/ CloseNode
        => UNCHANGED <<keyset, setting>>
    BY Zenon DEF BeginTrie, OpenNode, GroupKey, Grouped, AddChild, CloseNode, inputVars
  <2>2. NoNextLevel \/ NextTrie \/ NextTail \/ AddEntry \/ TailDone \/ LinkTrie \/ NumberKeys
        => UNCHANGED <<keyset, setting>>
    BY Zenon DEF NoNextLevel, NextTrie, NextTail, CloseTrie, AddEntry, TailDone, LinkTrie,
           NumberKeys, inputVars
  <2> QED
    BY <2>1, <2>2 DEF BuildStep, Next
<1>4. Mode' = Mode /\ Answered' = Answered
  BY <1>2 DEF Mode, Answered, KeyText
<1>5. GivenInv'
  BY <1>1, <1>2, GivenElsewhere
<1>6. Dict = <<>>
  BY <1>1 DEF Dict
<1>7. CASE phase' # "done"
  <2>1. Dict' = Dict
    BY <1>6, <1>7 DEF Dict
  <2>2. UNCHANGED Promise!vars
    BY <1>1, <1>2, <1>3, <1>4, <1>7, <2>1, Zenon
       DEF Promise!vars, Promise!dictVars, Dict, Mode, Answered
  <2> QED
    BY <1>5, <2>2 DEF Answers
<1>8. CASE phase' = "done"
  <2> DEFINE n == Ones(terminalFlags')
  <2>1. n \in Nat
    BY <1>8 DEF FlagCount
  <2>2. Dense(n, keyset', ids')
    BY <1>8 DEF IdsDense, Dense
  <2>3. Dict' = Under(n, keyset', ids')
    BY <1>8, Zenon DEF Dict, Under
  <2> HIDE DEF n
  <2>4. Numbers(Dict', keyset)
    BY <1>3, <2>1, <2>2, <2>3, NumbersTexts, Zenon
  <2>5. /\ {Dict'[i] : i \in DOMAIN Dict'} = {keyset[k].text : k \in DOMAIN keyset}
        /\ \A i, j \in DOMAIN Dict' : Dict'[i] = Dict'[j] => i = j
        /\ \A i \in DOMAIN Dict' : i = 0 \/ i - 1 \in DOMAIN Dict'
    BY <2>4, Zenon DEF Numbers
  <2>6. Promise!Build
    BY <1>1, <1>2, <1>3, <1>4, <1>8, <2>5, Zenon
       DEF Promise!Build, Promise!dictVars, Dict, Mode, Answered
  <2> QED
    BY <1>5, <2>6 DEF Answers, Promise!Next
<1> QED
  BY <1>7, <1>8

LEMMA AnswersNothing ==
  ASSUME GivenInv, UNCHANGED searchVars
  PROVE  GivenInv' /\ Answers
<1>1. Still /\ UNCHANGED <<status, key, result, call, from, given, keyBuf, nodeId,
                           history, historyPos>>
  BY DEF searchVars, agentVars, cursorVars, Still
<1>2. Mode' = Mode /\ Answered' = Answered
  BY <1>1 DEF Mode, Answered, KeyText, Still
<1>3. call' = "none" \/ result' = "none"
  BY <1>1 DEF GivenInv
<1> QED
  BY <1>1, <1>2, <1>3, PromiseStutter, GivenSame DEF Answers

LEMMA AnswersStep ==
  ASSUME Ready, CursorInv, GivenInv, IdsDense', FlagCount', [SearchNext]_searchVars
  PROVE  GivenInv' /\ Answers
<1>1. CASE BuildStep
  BY <1>1, AnswersBuild
<1>2. CASE Call
  <2>1. SetQuery => GivenInv' /\ Answers
    BY AnswersSetQuery
  <2>2. LookupCall => GivenInv' /\ Answers
    BY AnswersLookupCall
  <2>3. ReverseThrow => GivenInv' /\ Answers
    BY AnswersReverseThrow
  <2>4. ReverseCall => GivenInv' /\ Answers
    BY AnswersReverseCall
  <2>5. CommonCall => GivenInv' /\ Answers
    BY AnswersCommonCall
  <2>6. PredictiveCall => GivenInv' /\ Answers
    BY AnswersPredictiveCall
  <2> QED
    BY <1>2, <2>1, <2>2, <2>3, <2>4, <2>5, <2>6 DEF Call
<1>3. CASE Run
  <2>1. LookupStep => GivenInv' /\ Answers
    BY AnswersLookupStep
  <2>2. LookupEnd => GivenInv' /\ Answers
    BY AnswersLookupEnd
  <2>3. ReverseStep => GivenInv' /\ Answers
    BY AnswersReverseStep
  <2>4. CommonStep => GivenInv' /\ Answers
    BY AnswersCommonStep
  <2>5. CommonEnd => GivenInv' /\ Answers
    BY AnswersCommonEnd
  <2>6. PredictiveStep => GivenInv' /\ Answers
    BY AnswersPredictiveStep
  <2>7. PredictiveRoot => GivenInv' /\ Answers
    BY AnswersPredictiveRoot
  <2>8. Visit => GivenInv' /\ Answers
    BY AnswersVisit
  <2>9. GoUp => GivenInv' /\ Answers
    BY AnswersGoUp
  <2>10. EnumerateEnd => GivenInv' /\ Answers
    BY AnswersEnumerateEnd
  <2> QED
    BY <1>3, <2>1, <2>2, <2>3, <2>4, <2>5, <2>6, <2>7, <2>8, <2>9, <2>10 DEF Run
<1>4. CASE UNCHANGED searchVars
  BY <1>4, AnswersNothing
<1> QED
  BY <1>1, <1>2, <1>3, <1>4 DEF SearchNext

LEMMA AnswersStart ==
  ASSUME SearchInit
  PROVE  GivenInv /\ Promise!Init
<1>1. /\ phase # "done" /\ query = <<>> /\ queryId = 0 /\ status = "all"
      /\ result = "none" /\ call = "none" /\ given = {}
  BY DEF SearchInit, Init
<1>2. GivenInv
  BY <1>1 DEF GivenInv, GivenOK
<1>3. Dict = <<>> /\ Mode = "all" /\ Answered = [text |-> <<>>, id |-> -1]
  BY <1>1 DEF Dict, Mode, Answered
<1>4. Promise!Init
  BY <1>1, <1>3, Zenon DEF Promise!Init, Promise!NoKey, Dict, Mode, Answered
<1> QED
  BY <1>2, <1>4

\* What the four searches return is what a dictionary of the keyset's keys would, call
\* by call: lookup() finds a key or says that there is none, reverse_lookup() gives the
\* key of an id, and a common prefix or a predictive search gives every key it should
\* and no other, each once and in the order promised, over any number of calls between
\* which other searches of the agent may be called.
THEOREM KeepsPromiseThm ==
  ASSUME HashKeepsApart
  PROVE  SearchSpec => KeepsPromise
<1>1. SearchInit => GivenInv /\ Promise!Init
  BY AnswersStart
<1>2. SearchSpec => [](Ready /\ CursorInv)
  BY CursorAlways
<1>3. SearchSpec => []IdsDense
  BY SearchIsBuild, IdsDenseThm, PTL
<1>4. Ready => FlagCount
  BY FlagsAre DEF Ready, FlagCount
<1>5. Ready /\ CursorInv /\ GivenInv /\ IdsDense' /\ FlagCount' /\ [SearchNext]_searchVars
      => GivenInv' /\ [Promise!Next]_(Promise!vars)
  BY AnswersStep DEF Answers
<1> QED
  BY <1>1, <1>2, <1>3, <1>4, <1>5, PTL DEF SearchSpec, KeepsPromise, Promise!Spec
=============================================================================
