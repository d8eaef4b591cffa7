----------------------------- MODULE AgentWrap -----------------------------
(***************************************************************************)
(* The JavaScript agent: a library agent and the string its query points   *)
(* to.  The library copies no query; it keeps a pointer and a length, and  *)
(* the wrapper's query_str_ is what they refer to.  clear() and swap()     *)
(* move the library agent, never the string.                               *)
(***************************************************************************)
EXTENDS Integers, Sequences

CONSTANTS
  Wrappers,        \* the agents a script has made
  Texts, Lengths,  \* what set_query() may be called with
  Ids,
  IdRange          \* 2^64, the number of values of a size_t

NUL == 0

ASSUME InputsAssumption ==
  /\ Texts \subseteq Seq(Nat) /\ Lengths \subseteq Int /\ Ids \subseteq Int
  /\ IdRange \in Nat \ {0}

VARIABLES
  queryStr,        \* query_str_ of each wrapper
  agent,           \* its agent_: the query's pointer and length, the id, and
                   \* the State: none yet, "all", or a search "going"
  asked,           \* history: the text each agent was last asked to look for
  sought,          \* history: what its query said when the search began
  mixed            \* history: the wrappers that were ever swapped

vars == <<queryStr, agent, asked, sought, mixed>>

\* Agent::Agent()
NewAgent == [of |-> "null", len |-> 0, id |-> 0, state |-> "none"]

\* What query().ptr() says of agent a: the bytes that are there now.  Behind
\* the end of the string there is only Junk.
Junk == -1
QueryText(a) ==
  [i \in 1 .. a.len |->
    IF i <= Len(queryStr[a.of]) THEN queryStr[a.of][i] ELSE Junk]

\* Are the first n bytes of a text all there is before a NUL or the end?
EndsAt(text, n) ==
  /\ n = Len(text) \/ text[n + 1] = NUL
  /\ \A i \in 1 .. n : text[i] # NUL

\* What a C string holds: everything before the first NUL.
CString(text) == SubSeq(text, 1, CHOOSE n \in 0 .. Len(text) : EndsAt(text, n))

\* A length that makes no sense is all.
Clamped(text, length) ==
  IF length < 0 \/ length > Len(text) THEN Len(text) ELSE length

\* Mutant: a negative number stays one.
IdUncast(n) == n

\* The cast of an int64_t to size_t.
IdOf(n) == n % IdRange

\* Mutant: the state is left as it is.
NoReset(a) == a

\* State::reset(), if there is a State.
WasReset(a) == IF a.state = "none" THEN a ELSE [a EXCEPT !.state = "all"]
-----------------------------------------------------------------------------
Init ==
  /\ queryStr = [w \in Wrappers |-> <<>>]
  /\ agent = [w \in Wrappers |-> NewAgent]
  /\ asked = [w \in Wrappers |-> <<>>]
  /\ sought = [w \in Wrappers |-> <<>>]
  /\ mixed = {}

\* Both forms of set_query() with a string end here: the string is stored,
\* then handed on as a C string.
SetText(w, text, meant) ==
  /\ queryStr' = [queryStr EXCEPT ![w] = text]
  /\ agent' = [agent EXCEPT ![w] =
       [WasReset(@) EXCEPT !.of = w, !.len = Len(CString(text))]]
  /\ asked' = [asked EXCEPT ![w] = meant]
  /\ UNCHANGED <<sought, mixed>>

\* README.md:265 promises to keep NULs only if a length is given.
SetQuery(w) == \E text \in Texts : SetText(w, text, CString(text))

SetQuerySlice(w) ==
  \E text \in Texts, length \in Lengths :
    LET slice == SubSeq(text, 1, Clamped(text, length))
    IN  SetText(w, slice, slice)

SetQueryId(w) ==
  /\ \E id \in Ids : agent' = [agent EXCEPT ![w] = [WasReset(@) EXCEPT !.id = IdOf(id)]]
  /\ UNCHANGED <<queryStr, asked, sought, mixed>>

\* Mutant: stores the string before it looks at the second argument.
StoresFirst(w) ==
  /\ \E text \in Texts : queryStr' = [queryStr EXCEPT ![w] = text]
  /\ UNCHANGED <<agent, asked, sought, mixed>>

\* A second argument that is not a number: TypeError, before anything is
\* stored.
SetQueryThrows(w) == w \in Wrappers /\ UNCHANGED vars

\* clear(): the string stays.
Clear(w) ==
  /\ agent' = [agent EXCEPT ![w] = NewAgent]
  /\ asked' = [asked EXCEPT ![w] = <<>>]
  /\ UNCHANGED <<queryStr, sought, mixed>>

\* swap(): the strings stay where they are.
Swap(w, v) ==
  /\ agent' = [agent EXCEPT ![w] = agent[v], ![v] = agent[w]]
  /\ asked' = [asked EXCEPT ![w] = asked[v], ![v] = asked[w]]
  /\ sought' = [sought EXCEPT ![w] = sought[v], ![v] = sought[w]]
  /\ mixed' = mixed \cup IF w = v THEN {} ELSE {w, v}
  /\ UNCHANGED queryStr

\* A call of a resumable search: the State is made on demand, and a search
\* that was reset begins on the query as it is.
Search(w) ==
  /\ agent' = [agent EXCEPT ![w].state = "going"]
  /\ sought' = IF agent[w].state = "going" THEN sought
               ELSE [sought EXCEPT ![w] = QueryText(agent[w])]
  /\ UNCHANGED <<queryStr, asked, mixed>>

Next ==
  \/ \E w \in Wrappers :
       \/ SetQuery(w) \/ SetQuerySlice(w) \/ SetQueryId(w) \/ SetQueryThrows(w)
       \/ Clear(w) \/ Search(w)
  \/ \E w, v \in Wrappers : Swap(w, v)

Spec == Init /\ [][Next]_vars
-----------------------------------------------------------------------------
\* Type invariant.  An id is a size_t, whatever number a script passes.
TypeOK ==
  /\ queryStr \in [Wrappers -> Seq(Nat)]
  /\ agent \in [Wrappers -> [of : Wrappers \cup {"null"}, len : Nat,
                             id : 0 .. IdRange - 1,
                             state : {"none", "all", "going"}]]

\* As long as an agent is not swapped its query is the C string it was last
\* given, whatever was thrown, cleared or searched in between.
QueryFresh ==
  \A w \in Wrappers \ mixed : QueryText(agent[w]) = CString(asked[w])

\* A search that goes on does so on the query it was begun with: State and
\* query are reset, cleared and moved together.
SearchOnOwnQuery ==
  \A w \in Wrappers \ mixed :
    agent[w].state = "going" => QueryText(agent[w]) = sought[w]

\* README.md:265 of set_query(string, length): "If the query string contains
\* NUL (0x00) characters, please specify the length explicitly so as to keep
\* the NULs."
NulsKept ==
  \A w \in Wrappers \ mixed : QueryText(agent[w]) = asked[w]
=============================================================================
