----------------------------- MODULE TrieSearch -----------------------------
(***************************************************************************)
(* The four searches of LoudsTrie, called by one agent on the trie that    *)
(* TrieBuild built.                                                        *)
(*                                                                         *)
(* A search is resumed from call to call, so it keeps its cursor in the    *)
(* agent's State, and all searches share that one State: node_id,          *)
(* query_pos, key_buf, the history and the status code that says whose     *)
(* cursor it is.  One action is one iteration of the search's outer loop;  *)
(* what lookups and later tries do inside it (match, prefix_match,         *)
(* restore) changes nothing but the cursor and is an operator.             *)
(*                                                                         *)
(* Any number of agents may search one trie: a search changes its agent    *)
(* only, so one agent shows all there is.                                  *)
(***************************************************************************)
EXTENDS TrieContents
Sets == INSTANCE FiniteSetsExt

CONSTANTS Queries, QueryIds   \* what set_query() may be called with

ASSUME QueriesAssumption == Queries \subseteq Seq(Byte) /\ QueryIds \subseteq Nat

VARIABLES
  query, queryId,                      \* agent.query(): str and id share no word
  nodeId, queryPos, keyBuf,            \* State
  history, historyPos, status,         \* State
  key, result,                         \* agent.key() and what the call returned
  call,                                \* the loop the call is in, or "none"
  from, given                          \* history: status at the start of the
                                       \* call, ids the search has returned

cursorVars == <<nodeId, queryPos, keyBuf, history, historyPos>>
agentVars == <<query, queryId, cursorVars, status, key, result, call, from, given>>
searchVars == <<vars, agentVars>>

\* MARISA_INVALID_LINK_ID, MARISA_INVALID_KEY_ID
Invalid == -1

\* The LoudsTrie the search is called on.
Top == trie[1]
Query(p) == query[p + 1]
Terminal(n) == Bit(terminalFlags, n)
HasMoreQuery == queryPos < Len(query)
-----------------------------------------------------------------------------
\* One step of a walk from node n of a later trie towards its root: from the
\* cache if the slot of n holds n, else from the vectors.
Edge(l, n) ==
  LET t == trie[l]
      c == t.cache[n % Cardinality(DOMAIN t.cache)]
      link == Bit(t.linkFlags, n)
  IN  IF c.used /\ c.child = n
      THEN [link |-> c.link, label |-> c.base, target |-> c.base + Base * c.extra,
            parent |-> c.parent]
      ELSE [link |-> link, label |-> t.bases[n + 1],
            target |-> IF link THEN LinkOf(t, n) ELSE 0,
            parent |-> IF n <= t.numL1 THEN 0
                       ELSE Select1(t.louds, n) - n - 1]

\* The nodes of the later tries.
Later == {place \in Places : place[1] > 1}

\* restore(): the text from a node of a later trie up to its root.
Restored ==
  LET text[place \in Later] ==
        LET l == place[1]
            e == Edge(l, place[2])
            own == IF ~e.link THEN <<e.label>>
                   ELSE IF l < Len(trie) THEN text[<<l + 1, e.target>>]
                   ELSE TailText(e.target)
        IN  IF e.parent = 0 THEN own ELSE own \o text[<<l, e.parent>>]
  IN  text

\* The text behind a link of the first trie, in the next one or in the tail.
RestoredLink(link) ==
  IF Len(trie) = 1 THEN TailText(link) ELSE Restored[<<2, link>>]

\* Compare text with the query from p on.  The comparison ends at the first
\* difference, at the end of the text, or at the end of the query: then
\* prefix_match() succeeds, taking the rest of the text, and match() fails.
Compared(text, p, partial) ==
  LET n == Len(Seqs!LongestCommonPrefix({text, SubSeq(query, p + 1, Len(query))}))
      rest1 == partial /\ p + n = Len(query)
      ok == n = Len(text) \/ rest1
  IN  [ok |-> ok, pos |-> p + n, text |-> IF ok THEN text ELSE SubSeq(text, 1, n)]

\* match() and, if partial, prefix_match(): compare the text of a node of a
\* later trie with the query from a position on.
Matched(partial) ==
  LET match[at \in Later \X (0 .. Len(query) - 1)] ==
        LET l == at[1][1]
            p == at[2]
            e == Edge(l, at[1][2])
            own == IF e.link
                   THEN IF l < Len(trie) THEN match[<< <<l + 1, e.target>>, p >>]
                        ELSE Compared(TailText(e.target), p, partial)
                   ELSE IF Query(p) = e.label
                   THEN [ok |-> TRUE, pos |-> p + 1, text |-> <<e.label>>]
                   ELSE [ok |-> FALSE, pos |-> p, text |-> <<>>]
            up == <<l, e.parent>>
        IN  IF ~own.ok \/ e.parent = 0 THEN own
            ELSE IF own.pos < Len(query)
            THEN LET more == match[<<up, own.pos>>]
                 IN  [more EXCEPT !.text = own.text \o @]
            ELSE [ok |-> partial, pos |-> own.pos,
                  text |-> IF partial THEN own.text \o Restored[up] ELSE own.text]
  IN  match

\* The same for what is behind a link of the first trie.
MatchedLink(link, partial) ==
  IF Len(trie) = 1 THEN Compared(TailText(link), queryPos, partial)
  ELSE Matched(partial)[<< <<2, link>>, queryPos >>]

\* find_child() and, if partial, predictive_find_child(): the cache is asked
\* first, then the children are tried in turn.  A link that matches in part
\* ends the scan as well: no sibling starts with the same byte.
FindChild(partial) ==
  LET t == Top
      slot == t.cache[CacheId(nodeId, Query(queryPos), Cardinality(DOMAIN t.cache))]
      Follow(link) == MatchedLink(link, partial)
      Take(label) == [ok |-> TRUE, pos |-> queryPos + 1, text |-> <<label>>]
      Leave == [ok |-> FALSE, pos |-> queryPos, text |-> <<>>]
      Hit == IF slot.link THEN Follow(slot.base + Base * slot.extra)
                          ELSE Take(slot.base)
      Tried(m) == IF Bit(t.linkFlags, m) THEN Follow(LinkOf(t, m))
                  ELSE IF t.bases[m + 1] = Query(queryPos) THEN Take(t.bases[m + 1])
                  ELSE Leave
      first == Select0(t.louds, nodeId) + 1
      children == {m \in first - nodeId - 1 .. Len(t.bases) - 1 :
                     \A i \in first .. m + nodeId + 1 : Bit(t.louds, i)}
      stops == {m \in children : Tried(m).ok \/ Tried(m).pos # queryPos}
      At(n, found) == [node |-> n, ok |-> found.ok, pos |-> found.pos,
                       text |-> found.text]
  IN  IF slot.used /\ slot.parent = nodeId
      THEN At(IF Hit.ok THEN slot.child ELSE nodeId, Hit)
      ELSE IF stops # {} THEN At(Sets!Min(stops), Tried(Sets!Min(stops)))
      ELSE IF children # {} THEN At(Sets!Max(children) + 1, Leave)
      ELSE At(nodeId, Leave)

\* What find_child() does to the cursor.  (The steps below bind its result
\* with \E over one value: TLC then computes it once.)
Descended(found) == nodeId' = found.node /\ queryPos' = found.pos
-----------------------------------------------------------------------------
SearchInit ==
  /\ Init
  /\ query = <<>> /\ queryId = 0
  /\ nodeId = 0 /\ queryPos = 0 /\ keyBuf = <<>>
  /\ history = <<>> /\ historyPos = 0 /\ status = "all"
  /\ key = [in |-> "query", len |-> 0, id |-> 0] /\ result = "none"
  /\ call = "none" /\ from = "all" /\ given = {}

Idle == phase = "done" /\ call = "none"

Enter(loop) == call' = loop /\ from' = status /\ result' = "none"

Found(where, len, id, ids1) ==
  /\ call' = "none"
  /\ result' = "true"
  /\ key' = [in |-> where, len |-> len, id |-> id]
  /\ given' = ids1
  /\ from' = "all"

Fail(code) ==
  /\ call' = "none"
  /\ result' = "false"
  /\ status' = code
  /\ given' = {}
  /\ from' = "all"
  /\ UNCHANGED key

\* Mutant: set_query() only stores the query.
KeepStatus == UNCHANGED status

\* State::reset()
ResetStatus == status' = "all"

\* Agent::set_query() resets the status only; the cursor stays.
SetQuery ==
  /\ Idle
  /\ \/ query' \in Queries /\ UNCHANGED queryId
     \/ queryId' \in QueryIds /\ UNCHANGED query
  /\ ResetStatus
  /\ given' = {} /\ result' = "none"
  /\ UNCHANGED <<vars, cursorVars, key, call, from>>
-----------------------------------------------------------------------------
LookupCall ==
  /\ Idle
  /\ Enter("lookup")
  /\ nodeId' = 0 /\ queryPos' = 0 /\ status' = "all"
  /\ UNCHANGED <<vars, query, queryId, keyBuf, history, historyPos, key, given>>

\* Mutant: goes on although there is no child.
LookupOnAndOn ==
  /\ call = "lookup"
  /\ HasMoreQuery
  /\ Descended(FindChild(FALSE))
  /\ UNCHANGED <<vars, query, queryId, keyBuf, history, historyPos, status, key,
                 result, call, from, given>>

LookupStep ==
  /\ call = "lookup"
  /\ HasMoreQuery
  /\ \E child \in {FindChild(FALSE)} :
         /\ Descended(child)
         /\ IF child.ok THEN UNCHANGED <<call, from, given, key, result, status>>
                        ELSE Fail(status)
  /\ UNCHANGED <<vars, query, queryId, keyBuf, history, historyPos>>

LookupEnd ==
  /\ call = "lookup"
  /\ ~HasMoreQuery
  /\ IF Terminal(nodeId)
     THEN Found("query", Len(query), KeyIdOf(terminalFlags, nodeId), {}) /\ UNCHANGED status
     ELSE Fail(status)
  /\ UNCHANGED <<vars, query, queryId, cursorVars>>
-----------------------------------------------------------------------------
\* An id that is out of bounds throws before anything is reset.
ReverseThrow ==
  /\ Idle
  /\ queryId >= Ones(terminalFlags)
  /\ result' = "throw"
  /\ UNCHANGED <<vars, query, queryId, cursorVars, status, key, call, from, given>>

ReverseCall ==
  /\ Idle
  /\ queryId < Ones(terminalFlags)
  /\ keyBuf' = <<>> /\ status' = "all"
  /\ nodeId' = Select1(terminalFlags, queryId)
  /\ IF nodeId' = 0 THEN Found("keyBuf", 0, queryId, {})
     ELSE Enter("reverse") /\ UNCHANGED <<key, given>>
  /\ UNCHANGED <<vars, query, queryId, queryPos, history, historyPos>>

\* The key is collected backwards, so the text of a link is turned around, and
\* all of it at the end.
ReverseStep ==
  /\ call = "reverse"
  /\ LET t == Top
         own == IF Bit(t.linkFlags, nodeId)
                THEN Seqs!Reverse(RestoredLink(LinkOf(t, nodeId)))
                ELSE <<t.bases[nodeId + 1]>>
     IN  IF nodeId <= t.numL1
         THEN /\ keyBuf' = Seqs!Reverse(keyBuf \o own)
              /\ Found("keyBuf", Len(keyBuf'), queryId, {})
              /\ UNCHANGED nodeId
         ELSE /\ keyBuf' = keyBuf \o own
              /\ nodeId' = Select1(t.louds, nodeId) - nodeId - 1
              /\ UNCHANGED <<call, from, given, key, result>>
  /\ UNCHANGED <<vars, query, queryId, queryPos, history, historyPos, status>>
-----------------------------------------------------------------------------
\* The ids a search has given when it returns one more.
Given(id, going) == {id} \cup IF from = going THEN given ELSE {}

\* Mutant: forgets the position in the query.
CommonInitKeepsPos ==
  nodeId' = 0 /\ status' = "common" /\ UNCHANGED queryPos

\* State::common_prefix_search_init()
CommonInit == nodeId' = 0 /\ queryPos' = 0 /\ status' = "common"

CommonCall ==
  /\ Idle
  /\ \/ /\ status = "endOfCommon"
        /\ Fail(status)
        /\ UNCHANGED cursorVars
     \/ /\ status = "common"
        /\ Enter("common")
        /\ UNCHANGED <<cursorVars, status, key, given>>
     \/ /\ status \notin {"common", "endOfCommon"}
        /\ CommonInit
        /\ IF Terminal(0)
           THEN LET id == KeyIdOf(terminalFlags, 0)
                IN  Found("query", 0, id, {id})
           ELSE Enter("common") /\ UNCHANGED <<key, given>>
        /\ UNCHANGED <<keyBuf, history, historyPos>>
  /\ UNCHANGED <<vars, query, queryId>>

CommonStep ==
  /\ call = "common"
  /\ HasMoreQuery
  /\ \E child \in {FindChild(FALSE)} :
         /\ Descended(child)
         /\ IF ~child.ok THEN Fail("endOfCommon")
            ELSE IF Terminal(child.node)
            THEN LET id == KeyIdOf(terminalFlags, child.node)
                 IN  Found("query", child.pos, id, Given(id, "common"))
                     /\ UNCHANGED status
            ELSE UNCHANGED <<status, key, result, call, from, given>>
  /\ UNCHANGED <<vars, query, queryId, keyBuf, history, historyPos>>

CommonEnd ==
  /\ call = "common"
  /\ ~HasMoreQuery
  /\ Fail("endOfCommon")
  /\ UNCHANGED <<vars, query, queryId, cursorVars>>
-----------------------------------------------------------------------------
\* Mutants: leave one field of the last search behind.
PredictiveInitKeepsKeyBuf ==
  /\ nodeId' = 0 /\ queryPos' = 0
  /\ history' = <<>> /\ historyPos' = 0 /\ status' = "predictive"
  /\ UNCHANGED keyBuf

PredictiveInitKeepsHistoryPos ==
  /\ nodeId' = 0 /\ queryPos' = 0 /\ keyBuf' = <<>>
  /\ history' = <<>> /\ status' = "predictive"
  /\ UNCHANGED historyPos

\* State::predictive_search_init()
PredictiveInit ==
  /\ nodeId' = 0 /\ queryPos' = 0 /\ keyBuf' = <<>>
  /\ history' = <<>> /\ historyPos' = 0 /\ status' = "predictive"

PredictiveCall ==
  /\ Idle
  /\ \/ /\ status = "endOfPredictive"
        /\ Fail(status)
        /\ UNCHANGED cursorVars
     \/ /\ status = "predictive"
        /\ Enter("enumerate")
        /\ UNCHANGED <<cursorVars, status, key, given>>
     \/ /\ status \notin {"predictive", "endOfPredictive"}
        /\ Enter("predictive")
        /\ PredictiveInit
        /\ UNCHANGED <<key, given>>
  /\ UNCHANGED <<vars, query, queryId>>

PredictiveStep ==
  /\ call = "predictive"
  /\ HasMoreQuery
  /\ \E child \in {FindChild(TRUE)} :
         /\ Descended(child)
         /\ keyBuf' = keyBuf \o child.text
         /\ IF child.ok THEN UNCHANGED <<call, from, given, key, result, status>>
                        ELSE Fail("endOfPredictive")
  /\ UNCHANGED <<vars, query, queryId, history, historyPos>>

\* The node the query led to is the root of the enumeration.
PredictiveRoot ==
  /\ call = "predictive"
  /\ ~HasMoreQuery
  /\ history' = Append(history,
       [nodeId |-> nodeId, loudsPos |-> 0, keyPos |-> Len(keyBuf),
        linkId |-> Invalid, keyId |-> Invalid])
  /\ historyPos' = 1
  /\ IF Terminal(nodeId)
     THEN LET id == KeyIdOf(terminalFlags, nodeId)
          IN  Found("keyBuf", Len(keyBuf), id, Given(id, "predictive"))
     ELSE call' = "enumerate" /\ UNCHANGED <<from, given, key, result>>
  /\ UNCHANGED <<vars, query, queryId, nodeId, queryPos, keyBuf, status>>

\* One iteration of the depth-first walk.  Level historyPos of the history
\* is the next node to visit; on the way back up it is kept, moved on by one,
\* because the children of the next node of the level above follow in the
\* bits right behind (so do their links and key ids).
Levels ==
  LET current == history[Len(history)]
      pos0 == Select0(Top.louds, current.nodeId) + 1
  IN  IF historyPos < Len(history) THEN history
      ELSE Append(history,
             [nodeId |-> pos0 - current.nodeId - 1, loudsPos |-> pos0,
              keyPos |-> 0, linkId |-> Invalid, keyId |-> Invalid])

NextLevel == Levels[historyPos + 1]

Visit ==
  LET t == Top
      n == NextLevel.nodeId
      isLink == Bit(t.linkFlags, n)
      linkId == IF ~isLink THEN NextLevel.linkId
                ELSE IF NextLevel.linkId = Invalid THEN Rank1(t.linkFlags, n)
                ELSE NextLevel.linkId + 1
      keyId == IF ~Terminal(n) THEN NextLevel.keyId
               ELSE IF NextLevel.keyId = Invalid THEN KeyIdOf(terminalFlags, n)
               ELSE NextLevel.keyId + 1
      link == t.bases[n + 1] + Base * t.extras[linkId + 1]
  IN  /\ call = "enumerate"
      /\ Bit(t.louds, NextLevel.loudsPos)
      /\ keyBuf' = keyBuf \o IF isLink THEN RestoredLink(link)
                                       ELSE <<t.bases[n + 1]>>
      /\ history' = [Levels EXCEPT ![historyPos + 1] =
           [nodeId |-> n, loudsPos |-> NextLevel.loudsPos + 1,
            keyPos |-> Len(keyBuf'), linkId |-> linkId, keyId |-> keyId]]
      /\ historyPos' = historyPos + 1
      /\ IF Terminal(n)
         THEN Found("keyBuf", Len(keyBuf'), keyId, Given(keyId, "predictive"))
         ELSE UNCHANGED <<call, from, given, key, result>>
      /\ UNCHANGED <<vars, query, queryId, nodeId, queryPos, status>>

\* Mutant: the node is not moved on.
PassedSameNode == [Levels EXCEPT ![historyPos + 1].loudsPos = @ + 1]

\* The 0 behind the last child is passed, and its parent with it.
Passed == [Levels EXCEPT ![historyPos + 1].loudsPos = @ + 1,
                         ![historyPos].nodeId = @ + 1]

\* The level above has no more children: go back to the level before it.
GoUp ==
  /\ call = "enumerate"
  /\ ~Bit(Top.louds, NextLevel.loudsPos)
  /\ historyPos # 1
  /\ history' = Passed
  /\ keyBuf' = SubSeq(keyBuf, 1, history[historyPos - 1].keyPos)
  /\ historyPos' = historyPos - 1
  /\ UNCHANGED <<vars, query, queryId, nodeId, queryPos, status, key, result, call,
                 from, given>>

EnumerateEnd ==
  /\ call = "enumerate"
  /\ ~Bit(Top.louds, NextLevel.loudsPos)
  /\ historyPos = 1
  /\ history' = [Levels EXCEPT ![historyPos + 1].loudsPos = @ + 1]
  /\ Fail("endOfPredictive")
  /\ UNCHANGED <<vars, query, queryId, nodeId, queryPos, keyBuf, historyPos>>
-----------------------------------------------------------------------------
\* What the code of a call does until it returns.
Run ==
  \/ LookupStep \/ LookupEnd \/ ReverseStep \/ CommonStep \/ CommonEnd
  \/ PredictiveStep \/ PredictiveRoot \/ Visit \/ GoUp \/ EnumerateEnd

Call ==
  \/ SetQuery \/ LookupCall \/ ReverseThrow \/ ReverseCall \/ CommonCall
  \/ PredictiveCall

BuildStep == Next /\ UNCHANGED agentVars

SearchNext == BuildStep \/ Call \/ Run

\* build() and every call run on until they return; nobody has to call.
SearchSpec ==
  /\ SearchInit /\ [][SearchNext]_searchVars
  /\ WF_searchVars(BuildStep)
  /\ WF_searchVars(Run)
-----------------------------------------------------------------------------
\* Type invariant of the agent.
SearchTypeOK ==
  /\ query \in Seq(Byte) /\ queryId \in Nat
  /\ nodeId \in Nat /\ queryPos \in Nat
  /\ keyBuf \in Seq(Byte)
  /\ history \in Seq([nodeId : Nat, loudsPos : Nat, keyPos : Nat,
                      linkId : Nat \cup {Invalid}, keyId : Nat \cup {Invalid}])
  /\ historyPos \in 0 .. Len(history)
  /\ status \in {"all", "common", "predictive", "endOfCommon", "endOfPredictive"}
  /\ key \in [in : {"query", "keyBuf"}, len : Nat, id : Nat]
  /\ result \in {"none", "true", "false", "throw"}
  /\ call \in {"none", "lookup", "reverse", "common", "predictive", "enumerate"}

Walking == phase = "done" /\ status = "predictive" /\ historyPos > 0

\* While an enumeration goes on (also between two calls), key_buf is the text
\* of the node the cursor is on, and every level of the history below it holds
\* an ancestor, in order, and where its text ends in key_buf.  Resuming and
\* going up depend on nothing else.
HistoryIsPath ==
  Walking =>
    /\ keyBuf = PathTexts[1, history[historyPos].nodeId]
    /\ \A i \in 1 .. historyPos :
         /\ Len(PathTexts[1, history[i].nodeId]) = history[i].keyPos
         /\ i > 1 => Top.parentOf[history[i].nodeId] = history[i - 1].nodeId

\* A level of the history is reused without a new select0, and without a new
\* rank1 of a link or a terminal: its louds_pos, its node number, link_id and
\* key_id must have advanced together, over all the nodes between, so that one
\* more is right for the next node, link and key.  A level the cursor is on
\* has passed its own 1 already.  (The first level has none of these.)
LevelsAligned ==
  Walking => \A i \in 2 .. Len(history) :
    LET at == history[i]
        next == at.nodeId + IF i <= historyPos THEN 1 ELSE 0
    IN  /\ Rank1(Top.louds, at.loudsPos) = next
        /\ at.linkId # Invalid => at.linkId + 1 = Rank1(Top.linkFlags, next)
        /\ at.keyId # Invalid => at.keyId + 1 = Rank1(terminalFlags, next)

\* A common prefix search that is resumed stands where its query led it.
CursorOnQuery ==
  phase = "done" /\ status = "common" =>
    queryPos <= Len(query) /\ PathTexts[1, nodeId] = SubSeq(query, 1, queryPos)

\* No call runs for ever, on any trie, from any state another call left.
CallReturns == [](call # "none" => <>(call = "none"))
-----------------------------------------------------------------------------
\* What the agent sees: its key is a pointer and a length, so its text is what
\* is there now.
KeyText == SubSeq(IF key.in = "query" THEN query ELSE keyBuf, 1, key.len)

Promise == INSTANCE Dictionary WITH
  sorted <- setting.nodeOrder = "label",
  built <- phase = "done",
  dict <- IF phase # "done" THEN <<>>
          ELSE [i \in 0 .. Ones(terminalFlags) - 1 |->
                 keyset[CHOOSE k \in DOMAIN keyset : ids[k] = i].text],
  mode <- IF call = "none" THEN status ELSE from,
  key <- IF result = "true" THEN [text |-> KeyText, id |-> key.id]
         ELSE [text |-> <<>>, id |-> -1]

\* The searches answer what the dictionary promises, call by call.
KeepsPromise == Promise!Spec
=============================================================================
