--------------------------- MODULE AgentWrapProofs ---------------------------
(***************************************************************************)
(* Proofs about AgentWrap, for any agents, texts, lengths and ids: what an *)
(* agent's query is, and that a search goes on with the one it began with. *)
(***************************************************************************)
EXTENDS AgentWrap, FiniteSetTheorems, TLAPS

\* An agent that was never swapped is of one of two kinds: it has no text, or
\* its query is in its own wrapper's string, which is as it was asked for.
PointsToOwn(w) ==
  \/ agent[w].len = 0 /\ asked[w] = <<>>
  \/ /\ agent[w].of = w
     /\ agent[w].len = Len(CString(queryStr[w]))
     /\ CString(queryStr[w]) = CString(asked[w])

\* What a search that goes on was begun with.
BegunWithOwn(w) == agent[w].state = "going" => sought[w] = CString(asked[w])

IInv ==
  /\ TypeOK
  /\ asked \in [Wrappers -> Seq(Nat)] /\ DOMAIN sought = Wrappers
  /\ \A w \in Wrappers \ mixed : PointsToOwn(w) /\ BegunWithOwn(w)
-----------------------------------------------------------------------------
(* C strings.                                                              *)

\* Every text ends somewhere: the places that no NUL comes before are as many
\* as there are, so the last of them is one behind the others.
LEMMA Ends ==
  ASSUME NEW text \in Seq(Nat)
  PROVE  \E n \in 0 .. Len(text) : EndsAt(text, n)
<1> DEFINE K == {n \in 0 .. Len(text) : \A i \in 1 .. n : text[i] # NUL}
           c == Cardinality(K)
<1>1. Len(text) \in Nat
  OBVIOUS
<1>2. IsFiniteSet(K) /\ c \in Nat /\ 0 \in K
  <2>1. IsFiniteSet(0 .. Len(text))
    BY <1>1, FS_Interval
  <2> QED
    BY <1>1, <2>1, FS_Subset, FS_CardinalityType
<1>3. \A n \in K : 0 .. n \subseteq K
  BY <1>1
<1>4. \A n \in Nat : IsFiniteSet(0 .. n) /\ Cardinality(0 .. n) = n + 1
  <2> SUFFICES ASSUME NEW n \in Nat
               PROVE  IsFiniteSet(0 .. n) /\ Cardinality(0 .. n) = n + 1
    OBVIOUS
  <2>1. IsFiniteSet(0 .. n) /\ Cardinality(0 .. n) = IF 0 > n THEN 0 ELSE n - 0 + 1
    BY FS_Interval
  <2> QED
    BY <2>1
<1>5. c # 0
  BY <1>2, FS_EmptySet
<1>6. K \subseteq 0 .. Len(text)
  OBVIOUS
<1>7. \A n \in 0 .. Len(text) :
        n \in K /\ ~EndsAt(text, n) => n + 1 \in K
  <2> SUFFICES ASSUME NEW n \in K, ~EndsAt(text, n)
               PROVE  n + 1 \in K
    OBVIOUS
  <2>1. n # Len(text) /\ text[n + 1] # NUL
    BY DEF EndsAt
  <2>2. \A i \in 1 .. n + 1 : i \in 1 .. n \/ i = n + 1
    OBVIOUS
  <2> QED
    BY <1>1, <2>1, <2>2
<1> HIDE DEF K
<1>8. c - 1 \in K
  <2> SUFFICES ASSUME c - 1 \notin K
               PROVE  FALSE
    OBVIOUS
  <2>1. c \in Nat \ {0} /\ c - 1 # 0
    BY <1>2, <1>5
  <2>2. K \subseteq 0 .. c - 2
    <3> SUFFICES ASSUME NEW n \in K
                 PROVE  n \in 0 .. c - 2
      OBVIOUS
    <3>1. n \in Nat
      BY <1>6
    <3>2. c - 1 \notin 0 .. n
      BY <1>3
    <3> QED
      BY <2>1, <3>1, <3>2
  <2>3. c - 2 \in Nat
    BY <2>1
  <2>4. c <= c - 2 + 1
    <3>1. IsFiniteSet(0 .. c - 2) /\ Cardinality(0 .. c - 2) = c - 2 + 1
      BY <1>4, <2>3
    <3>2. Cardinality(K) <= Cardinality(0 .. c - 2)
      BY <2>2, <3>1, FS_Subset, Zenon
    <3> QED
      BY <3>1, <3>2
  <2> QED
    BY <2>1, <2>4
<1>9. c \notin K
  <2> SUFFICES ASSUME c \in K
               PROVE  FALSE
    OBVIOUS
  <2>1. Cardinality(0 .. c) <= c
    BY <1>2, <1>3, FS_Subset
  <2> QED
    BY <1>2, <1>4, <2>1
<1>10. c - 1 + 1 = c
  BY <1>2
<1> QED
  BY <1>6, <1>7, <1>8, <1>9, <1>10

\* A C string is all of a text up to some place, and has no NUL.
LEMMA CStringFacts ==
  ASSUME NEW text \in Seq(Nat)
  PROVE  \E n \in 0 .. Len(text) : EndsAt(text, n) /\ CString(text) = SubSeq(text, 1, n)
<1>1. (CHOOSE n \in 0 .. Len(text) : EndsAt(text, n)) \in 0 .. Len(text)
  BY Ends
<1>2. EndsAt(text, CHOOSE n \in 0 .. Len(text) : EndsAt(text, n))
  BY Ends
<1> QED
  BY <1>1, <1>2 DEF CString

\* It is a text, no longer than the one it is made of, and its bytes are those.
LEMMA CStringPrefix ==
  ASSUME NEW text \in Seq(Nat)
  PROVE  /\ CString(text) \in Seq(Nat)
         /\ Len(CString(text)) \in Nat /\ Len(CString(text)) <= Len(text)
         /\ \A i \in 1 .. Len(CString(text)) :
              CString(text)[i] = text[i] /\ text[i] # NUL
<1>1. PICK n \in 0 .. Len(text) : EndsAt(text, n) /\ CString(text) = SubSeq(text, 1, n)
  BY CStringFacts
<1>2. SubSeq(text, 1, n) \in Seq(Nat) /\ Len(SubSeq(text, 1, n)) = n
  OBVIOUS
<1>3. \A i \in 1 .. n : SubSeq(text, 1, n)[i] = text[i]
  OBVIOUS
<1> QED
  BY <1>1, <1>2, <1>3 DEF EndsAt

\* The C string of a C string is the same.
LEMMA CStringTwice ==
  ASSUME NEW text \in Seq(Nat)
  PROVE  CString(CString(text)) = CString(text)
<1> DEFINE c == CString(text)
<1>1. c \in Seq(Nat) /\ \A i \in 1 .. Len(c) : c[i] # NUL
  BY CStringPrefix
<1> HIDE DEF c
<1>2. PICK n \in 0 .. Len(c) : EndsAt(c, n) /\ CString(c) = SubSeq(c, 1, n)
  BY <1>1, CStringFacts
<1>3. n = Len(c)
  BY <1>1, <1>2 DEF EndsAt
<1>4. SubSeq(c, 1, Len(c)) = c
  BY <1>1
<1> QED
  BY <1>2, <1>3, <1>4 DEF c

\* Nothing is its own C string.
LEMMA CStringEmpty == CString(<<>>) = <<>>
<1>1. <<>> \in Seq(Nat) /\ Len(<<>>) = 0
  OBVIOUS
<1>2. Len(CString(<<>>)) <= 0 /\ Len(CString(<<>>)) \in Nat /\ CString(<<>>) \in Seq(Nat)
  BY <1>1, CStringPrefix
<1> QED
  BY <1>2

\* What an agent that points to a string of its own has for a query.
LEMMA OwnQuery ==
  ASSUME IInv, NEW w \in Wrappers \ mixed
  PROVE  QueryText(agent[w]) = CString(asked[w])
<1>1. PointsToOwn(w) /\ queryStr[w] \in Seq(Nat)
  BY DEF IInv, TypeOK
<1>2. CASE agent[w].len = 0 /\ asked[w] = <<>>
  BY <1>2, CStringEmpty DEF QueryText
<1>3. CASE /\ agent[w].of = w
           /\ agent[w].len = Len(CString(queryStr[w]))
           /\ CString(queryStr[w]) = CString(asked[w])
  <2> DEFINE q == queryStr[w]
             c == CString(q)
  <2>1. c \in Seq(Nat) /\ Len(c) <= Len(q) /\ \A i \in 1 .. Len(c) : c[i] = q[i]
    BY <1>1, CStringPrefix
  <2>2. QueryText(agent[w]) = [i \in 1 .. Len(c) |-> IF i <= Len(q) THEN q[i] ELSE Junk]
    BY <1>3 DEF QueryText
  <2> HIDE DEF c, q
  <2>3. [i \in 1 .. Len(c) |-> IF i <= Len(q) THEN q[i] ELSE Junk] = [i \in 1 .. Len(c) |-> c[i]]
    <3>1. q \in Seq(Nat)
      BY <1>1 DEF q
    <3>2. \A i \in 1 .. Len(c) : i <= Len(q)
      BY <2>1, <3>1
    <3> QED
      BY <2>1, <3>2
  <2>4. [i \in 1 .. Len(c) |-> c[i]] = c
    BY <2>1
  <2> QED
    BY <1>3, <2>2, <2>3, <2>4 DEF c, q
<1> QED
  BY <1>1, <1>2, <1>3 DEF PointsToOwn
-----------------------------------------------------------------------------
(* The actions.                                                            *)

\* Agent::Agent() and State::reset() give agents.
Agents == [of : Wrappers \cup {"null"}, len : Nat, id : 0 .. IdRange - 1,
           state : {"none", "all", "going"}]

\* The constructor and a reset give agents, and a reset keeps the query.
LEMMA AgentTypes ==
  /\ NewAgent \in Agents
  /\ \A a \in Agents : /\ WasReset(a) \in Agents /\ WasReset(a).state # "going"
                       /\ WasReset(a).of = a.of /\ WasReset(a).len = a.len
BY InputsAssumption DEF NewAgent, Agents, WasReset

\* set_que with a text keeps the invariant: the agent points to its own string.
LEMMA SetTextKeeps ==
  ASSUME IInv, NEW w \in Wrappers, NEW text \in Seq(Nat), NEW meant \in Seq(Nat),
         CString(text) = CString(meant), SetText(w, text, meant)
  PROVE  IInv'
<1> DEFINE a == [WasReset(agent[w]) EXCEPT !.of = w, !.len = Len(CString(text))]
<1>1. agent[w] \in Agents /\ Len(CString(text)) \in Nat
  BY CStringPrefix DEF IInv, TypeOK, Agents
<1>2. a \in Agents /\ a.of = w /\ a.len = Len(CString(text)) /\ a.state # "going"
  BY <1>1, AgentTypes DEF Agents
<1>3. /\ queryStr' = [queryStr EXCEPT ![w] = text]
      /\ agent' = [agent EXCEPT ![w] = a]
      /\ asked' = [asked EXCEPT ![w] = meant]
      /\ sought' = sought /\ mixed' = mixed
  BY DEF SetText
<1> HIDE DEF a
<1>4. TypeOK' /\ asked' \in [Wrappers -> Seq(Nat)] /\ DOMAIN sought' = Wrappers
  BY <1>2, <1>3 DEF IInv, TypeOK, Agents
<1>5. ASSUME NEW v \in Wrappers \ mixed
      PROVE  PointsToOwn(v)' /\ BegunWithOwn(v)'
  <2>1. CASE v = w
    <3>1. agent'[w] = a /\ queryStr'[w] = text /\ asked'[w] = meant
      BY <1>3 DEF IInv, TypeOK
    <3> QED
      BY <1>2, <2>1, <3>1 DEF PointsToOwn, BegunWithOwn
  <2>2. CASE v # w
    <3>1. agent'[v] = agent[v] /\ queryStr'[v] = queryStr[v] /\ asked'[v] = asked[v]
      BY <1>3, <2>2 DEF IInv, TypeOK
    <3> QED
      BY <1>3, <3>1 DEF IInv, PointsToOwn, BegunWithOwn
  <2> QED
    BY <2>1, <2>2
<1> QED
  BY <1>3, <1>4, <1>5 DEF IInv

\* Steps that change one agent and what it was asked, but no string.
LEMMA OneAgentKeeps ==
  ASSUME IInv, NEW w \in Wrappers, NEW a \in Agents, NEW text \in Seq(Nat),
         agent' = [agent EXCEPT ![w] = a], asked' = [asked EXCEPT ![w] = text],
         UNCHANGED <<queryStr, mixed>>, DOMAIN sought' = Wrappers,
         \A v \in Wrappers : v # w => sought'[v] = sought[v],
         w \notin mixed => PointsToOwn(w)' /\ BegunWithOwn(w)'
  PROVE  IInv'
<1>1. TypeOK' /\ asked' \in [Wrappers -> Seq(Nat)]
  BY DEF IInv, TypeOK, Agents
<1>2. ASSUME NEW v \in Wrappers \ mixed, v # w
      PROVE  PointsToOwn(v)' /\ BegunWithOwn(v)'
  <2>1. /\ agent'[v] = agent[v] /\ queryStr' = queryStr /\ asked'[v] = asked[v]
        /\ sought'[v] = sought[v]
    BY <1>2 DEF IInv, TypeOK
  <2> QED
    BY <2>1 DEF IInv, PointsToOwn, BegunWithOwn
<1> QED
  BY <1>1, <1>2 DEF IInv

\* set_que with a number keeps it: the query's text stays.
LEMMA SetQueryIdKeeps ==
  ASSUME IInv, NEW w \in Wrappers, SetQueryId(w)
  PROVE  IInv'
<1>1. PICK id \in Ids : agent' = [agent EXCEPT ![w] = [WasReset(@) EXCEPT !.id = IdOf(id)]]
  BY DEF SetQueryId
<1> DEFINE a == [WasReset(agent[w]) EXCEPT !.id = IdOf(id)]
<1>2. agent[w] \in Agents /\ asked[w] \in Seq(Nat) /\ asked' = asked /\ sought' = sought
      /\ queryStr' = queryStr /\ mixed' = mixed
  BY DEF IInv, TypeOK, Agents, SetQueryId
<1>3. IdOf(id) \in 0 .. IdRange - 1
  BY InputsAssumption DEF IdOf
<1>4. /\ a \in Agents /\ a.of = agent[w].of /\ a.len = agent[w].len
      /\ a.state # "going"
  BY <1>2, <1>3, AgentTypes DEF Agents
<1>5. agent' = [agent EXCEPT ![w] = a] /\ agent'[w] = a
  BY <1>1 DEF IInv, TypeOK
<1> HIDE DEF a
<1>6. w \notin mixed => PointsToOwn(w)' /\ BegunWithOwn(w)'
  BY <1>2, <1>4, <1>5 DEF IInv, PointsToOwn, BegunWithOwn
<1>7. asked' = [asked EXCEPT ![w] = asked[w]]
  BY <1>2 DEF IInv
<1> QED
  BY <1>2, <1>4, <1>5, <1>6, <1>7, OneAgentKeeps DEF IInv

\* clear() keeps it.
LEMMA ClearKeeps ==
  ASSUME IInv, NEW w \in Wrappers, Clear(w)
  PROVE  IInv'
<1>1. /\ agent' = [agent EXCEPT ![w] = NewAgent] /\ asked' = [asked EXCEPT ![w] = <<>>]
      /\ sought' = sought /\ queryStr' = queryStr /\ mixed' = mixed
  BY DEF Clear
<1>2. agent'[w] = NewAgent /\ asked'[w] = <<>>
  BY <1>1 DEF IInv, TypeOK
<1>3. PointsToOwn(w)' /\ BegunWithOwn(w)'
  BY <1>2 DEF PointsToOwn, BegunWithOwn, NewAgent
<1>4. <<>> \in Seq(Nat)
  OBVIOUS
<1> QED
  BY <1>1, <1>3, <1>4, AgentTypes, OneAgentKeeps DEF IInv

\* A search keeps it: it begins with the query the agent has.
LEMMA SearchKeeps ==
  ASSUME IInv, NEW w \in Wrappers, Search(w)
  PROVE  IInv'
<1> DEFINE a == [agent[w] EXCEPT !.state = "going"]
<1>1. /\ agent[w] \in Agents /\ asked[w] \in Seq(Nat) /\ DOMAIN sought = Wrappers
      /\ agent' = [agent EXCEPT ![w] = a]
      /\ sought' = IF agent[w].state = "going" THEN sought
                   ELSE [sought EXCEPT ![w] = QueryText(agent[w])]
      /\ queryStr' = queryStr /\ asked' = asked /\ mixed' = mixed
  BY DEF IInv, TypeOK, Agents, Search
<1>2. a \in Agents /\ a.of = agent[w].of /\ a.len = agent[w].len
  BY <1>1 DEF Agents
<1>3. agent'[w] = a
  BY <1>1 DEF IInv, TypeOK
<1> HIDE DEF a
<1>4. w \notin mixed => PointsToOwn(w)' /\ BegunWithOwn(w)'
  <2> SUFFICES ASSUME w \notin mixed
               PROVE  PointsToOwn(w)' /\ BegunWithOwn(w)'
    OBVIOUS
  <2>1. PointsToOwn(w)'
    BY <1>1, <1>2, <1>3 DEF IInv, PointsToOwn
  <2>2. sought'[w] = CString(asked[w])
    <3>1. CASE agent[w].state = "going"
      BY <1>1, <3>1 DEF IInv, BegunWithOwn
    <3>2. CASE agent[w].state # "going"
      BY <1>1, <3>2, OwnQuery
    <3> QED
      BY <3>1, <3>2
  <2> QED
    BY <1>1, <2>1, <2>2 DEF BegunWithOwn
<1>5. asked' = [asked EXCEPT ![w] = asked[w]]
  BY <1>1 DEF IInv
<1>6. DOMAIN sought' = Wrappers /\ \A v \in Wrappers : v # w => sought'[v] = sought[v]
  BY <1>1
<1> QED
  BY <1>1, <1>2, <1>4, <1>5, <1>6, OneAgentKeeps DEF IInv

\* swap() keeps it for the agents that were never swapped.
LEMMA SwapKeeps ==
  ASSUME IInv, NEW w \in Wrappers, NEW v \in Wrappers, Swap(w, v)
  PROVE  IInv'
<1>1. /\ agent' = [agent EXCEPT ![w] = agent[v], ![v] = agent[w]]
      /\ asked' = [asked EXCEPT ![w] = asked[v], ![v] = asked[w]]
      /\ sought' = [sought EXCEPT ![w] = sought[v], ![v] = sought[w]]
      /\ mixed' = mixed \cup IF w = v THEN {} ELSE {w, v}
      /\ queryStr' = queryStr
  BY DEF Swap
<1>2. TypeOK' /\ asked' \in [Wrappers -> Seq(Nat)] /\ DOMAIN sought' = Wrappers
  BY <1>1 DEF IInv, TypeOK
<1>3. ASSUME NEW u \in Wrappers \ mixed'
      PROVE  PointsToOwn(u)' /\ BegunWithOwn(u)'
  <2>1. u \notin mixed /\ (u \in {w, v} => w = v)
    BY <1>1, <1>3
  <2>2. agent'[u] = agent[u] /\ asked'[u] = asked[u] /\ sought'[u] = sought[u]
    BY <1>1, <2>1 DEF IInv, TypeOK
  <2> QED
    BY <1>1, <2>1, <2>2 DEF IInv, PointsToOwn, BegunWithOwn
<1> QED
  BY <1>2, <1>3 DEF IInv
-----------------------------------------------------------------------------
(* The theorems.                                                           *)

\* New agents have no text, and the invariant holds of them.
LEMMA InitOK ==
  ASSUME Init
  PROVE  IInv
<1>1. /\ \A w \in Wrappers : agent[w] = NewAgent /\ asked[w] = <<>>
      /\ queryStr = [w \in Wrappers |-> <<>>] /\ agent = [w \in Wrappers |-> NewAgent]
      /\ asked = [w \in Wrappers |-> <<>>] /\ DOMAIN sought = Wrappers
  BY DEF Init
<1>2. <<>> \in Seq(Nat)
  OBVIOUS
<1>3. TypeOK /\ asked \in [Wrappers -> Seq(Nat)]
  BY <1>1, <1>2, AgentTypes DEF TypeOK, Agents
<1>4. \A w \in Wrappers : PointsToOwn(w) /\ BegunWithOwn(w)
  BY <1>1 DEF PointsToOwn, BegunWithOwn, NewAgent
<1> QED
  BY <1>1, <1>3, <1>4 DEF IInv

\* Every step keeps it, by the lemmas above.
LEMMA NextKeeps ==
  ASSUME IInv, [Next]_vars
  PROVE  IInv'
<1>1. ASSUME NEW w \in Wrappers, SetQuery(w)
      PROVE  IInv'
  <2>1. PICK text \in Texts : SetText(w, text, CString(text))
    BY <1>1 DEF SetQuery
  <2>2. text \in Seq(Nat) /\ CString(text) \in Seq(Nat)
    BY InputsAssumption, CStringPrefix
  <2>3. CString(text) = CString(CString(text))
    BY <2>2, CStringTwice
  <2> QED
    BY <2>1, <2>2, <2>3, SetTextKeeps
<1>2. ASSUME NEW w \in Wrappers, SetQuerySlice(w)
      PROVE  IInv'
  <2>1. PICK text \in Texts, length \in Lengths :
          SetText(w, SubSeq(text, 1, Clamped(text, length)),
                  SubSeq(text, 1, Clamped(text, length)))
    BY <1>2 DEF SetQuerySlice
  <2>2. SubSeq(text, 1, Clamped(text, length)) \in Seq(Nat)
    <3>1. text \in Seq(Nat) /\ length \in Int
      BY InputsAssumption
    <3>2. Clamped(text, length) \in 0 .. Len(text)
      BY <3>1 DEF Clamped
    <3> QED
      BY <3>1, <3>2
  <2> QED
    BY <2>1, <2>2, SetTextKeeps
<1>3. CASE UNCHANGED vars
  BY <1>3 DEF vars, IInv, TypeOK, PointsToOwn, BegunWithOwn
<1>4. ASSUME NEW w \in Wrappers, SetQueryThrows(w)
      PROVE  IInv'
  BY <1>3, <1>4 DEF SetQueryThrows
<1>5. CASE Next
  BY <1>1, <1>2, <1>4, <1>5, SetQueryIdKeeps, ClearKeeps, SearchKeeps, SwapKeeps DEF Next
<1> QED
  BY <1>3, <1>5

\* The strengthening of the three invariants below is inductive.
THEOREM Invariant == Spec => []IInv
<1>1. Init => IInv
  BY InitOK
<1>2. IInv /\ [Next]_vars => IInv'
  BY NextKeeps
<1> QED
  BY <1>1, <1>2, PTL DEF Spec

\* TypeOK is invariant: whatever number a script passes, an id is a size_t.
THEOREM TypeCorrect == Spec => []TypeOK
<1>1. IInv => TypeOK
  BY DEF IInv
<1> QED
  BY <1>1, Invariant, PTL

\* The query of an agent that was not swapped is what it was last asked for,
\* up to a NUL.
THEOREM QueryStaysFresh == Spec => []QueryFresh
<1>1. IInv => QueryFresh
  BY OwnQuery DEF QueryFresh
<1> QED
  BY <1>1, Invariant, PTL

\* A search never goes on with another query than it was begun with.
THEOREM SearchKeepsQuery == Spec => []SearchOnOwnQuery
<1>1. IInv => SearchOnOwnQuery
  BY OwnQuery DEF SearchOnOwnQuery, IInv, BegunWithOwn
<1> QED
  BY <1>1, Invariant, PTL
=============================================================================
