# iojs-marisa-trie in TLA+

`iojs-marisa-trie` is a Node.js binding (`src/binding`) around the C++ library
marisa-trie (`src/marisa-trie/lib/marisa`, below `lib/`).  The library stores a
set of byte strings as a chain of LOUDS tries: paths of one trie that are longer
than a byte become keys of the next one, and what the last trie does not hold is
kept in a *tail*.  Each different key has an id.  The tries are built once from a
`Keyset`, can be written and read back, and are searched through an `Agent`,
which keeps a resumable cursor.

Everything runs on the JavaScript thread and every call is synchronous, so there
are no threads to interleave.  What is hard here is different:

* bit-level arithmetic that is right only while several vectors keep step;
* one word used for two things (weight or terminal, weight or id);
* a cache that is trusted without being compared to what it caches;
* a cursor that five operations share, that only some of them reset, and that a
  caller may drive in any order;
* pointers into memory another object owns (queries, results, mapped buffers);
* files whose order of parts is known only to two functions.

## Inventory

| Part | State | Operations | Hard part | What makes it correct |
| --- | --- | --- | --- | --- |
| `LoudsTrie`: build (`grimoire/trie/louds-trie.cc` 247-531) | `louds_`, `link_flags_`, `bases_`, `extras_`, `terminal_flags_`, `cache_`, `next_trie_` | `build` | computed node numbers, links split in two parts, shared words, recursion over tries | every key restorable from its id, ids dense, siblings in order, nodes found from both sides, cache truthful |
| `LoudsTrie`: searches (53-209, 600-857) | the agent's `State`, nothing of its own | `lookup`, `reverse_lookup`, `common_prefix_search`, `predictive_search` | resumption from call to call, history counted on, cache hits | each call answers as an abstract dictionary does; each call returns |
| `State`, `Agent` (`grimoire/trie/state.h`, `agent.cc`) | query, key, cursor, status code | `set_query`, `*_init`, `init_state`, `clear`, `swap` | partial resets; pointers | a cursor is only used by the search that left it, and on the query it was left for |
| `Tail` (`grimoire/trie/tail.cc`) | `buf_`, `end_flags_` | `build`, `restore`, `match`, `prefix_match` | shared suffixes; NUL forces binary mode | every entry comes back from its offset |
| `BitVector`, `RankIndex` (`grimoire/vector/bit-vector.*`) | `units_`, `ranks_`, `select0s_`, `select1s_` | `push_back`, `build`, `rank*`, `select*` | block boundaries, partial last block, table look-up in a byte | rank and select by their definitions |
| `FlatVector`, `Vector` (`grimoire/vector`) | `units_`, `value_size_`, `mask_`; `buf_`, `size_`, `capacity_`, `fixed_` | `build`, `[]`, `push_back`, `resize`, `map`, `read`, `write` | values across two words, width 0 and 32, fixed vectors | what is put in comes out |
| Sort (`grimoire/algorithm/sort.h`) | none | `sort` | ternary radix quicksort, insertion sort below ten | sorted, a permutation, number of different keys |
| `Config`, `Header` (`grimoire/trie/config.h`, `header.h`) | flags | `parse`, `map`, `read`, `write` | defaults, masks, errors | what was asked for is what is reported |
| Persistence (`grimoire/io/*`, `LoudsTrie::map_`, `read_`, `write_`) | file position | `save`, `write`, `load`, `read`, `mmap`, `map` | order of parts over all levels, next level recomputed, failure half way | reading gives what was written, or an error and the old trie |
| `Trie` (`trie.cc`) | `trie_` | all of the above | build into a temporary and swap | a failed operation leaves the trie as it was |
| `Keyset`, `Key`, `Query` (`keyset.cc`, `key.h`, `query.h`) | blocks of keys and of text | `push_back`, `reset`, `clear`, `swap`, `[]` | blocks kept and reused over `reset` | keys stay where they are and what they are until `reset` |
| Node.js binding (`src/binding/*-wrap.cpp`) | `query_str_` and the wrapped objects | the JavaScript API | lifetimes, argument checks that do not return, NUL in queries | no object refers to memory that is gone; README's promises |
| Command line tools (`tools/*.cc`) | `argv`, `optind`, `optnum`, `nextchar` of `cmdopt_t` | `cmdopt_get`, the loops of `main` | operands moved behind the options while `argv` is read | what was typed is what is done |
| Other bindings, build files, benchmark | | | generated code | not modelled |

**Interaction.** The binding checks arguments and that there is a trie, and calls
`Trie`.  `Trie` gives a new agent its `State` and calls `LoudsTrie`.
`LoudsTrie::build` takes weights from the `Keyset`, puts ids in their place, and
hands segments from trie to trie to `Tail`.  Searches read only the tries; they
write the agent's `State` and point its key at the query's text or at `key_buf`.

## Modules

| Module | Models | State |
| --- | --- | --- |
| `LoudsBits` | the contract of `BitVector`: `Rank1`, `Rank0`, `Select1`, `Select0` by definition | none |
| `TrieBuild` | `LoudsTrie::build` with `Tail::build`: one action per iteration of each loop | the vectors being built, the queue of ranges, the recursion over tries as `stack` and `links` |
| `TrieContents` | what the bits of a finished chain mean (`get_link`, `Tail::restore`) and the properties of a finished build | `TrieBuild`'s |
| `TrieSearch` | the four searches and `Agent::set_query`: one action per iteration of each outer loop | `TrieBuild`'s, the agent's query and key, its `State`, the loop the call is in |
| `Dictionary` | the abstract specification of what a trie promises an agent | ids to texts, query, which search is under way and which ids it has given |
| `BitIndex` | `BitVector::push_back`, `build_index`, `rank1`, `select0`, `select1`: the index behind that contract | units, counts per block and unit, select samples |
| `VectorLayout` | how many units a `FlatVector` takes and how many bytes a vector takes in a file | none |
| `FlatVector` | `FlatVector::build_`, `set`, `operator[]`: one action per value stored | units of new memory, the next value |
| `TrieImage` | a finished trie as the items `LoudsTrie::write_` writes, and what `read_` and `map_` make of any items | none |
| `TrieFile` | `Trie` objects, files and a descriptor: build, save, write, load, read, mmap, map, clear, swap, writes that fail, processes that die | what each object holds, what is in the files, the write under way |
| `Sort` | `sort.h`: one action per round of a loop, the recursion as a stack of frames | the keys, the frames, the locals of the running call |
| `KeysetBlocks` | `Keyset`: one action per operation, each with a failing allocation in the middle of it | the three arrays of blocks, the pointer and what is left behind it, keys as pointers |
| `KeySequence` | the abstract specification of a keyset | a sequence of keys per keyset |
| `AgentWrap` | the JavaScript agent: a library agent and the string its query points to | the strings, the agents, where each query points |
| `Cmdopt` | `cmdopt.cc` and the loop of `main`: one action per round of `cmdopt_main` | `argv` and the places in it, what `main` was given |
| `TrieContentsProofs` | lemmas on ranks, selects, counts and induction; theorems on the builder and on the tries it leaves | |
| `TrieReadingProofs` | theorems on what `restore()`, `match()` and `find_child()` return, and lemmas on each move of a cursor | |
| `TrieSearchProofs` | theorems on the cursor through any sequence of calls, and the refinement of `Dictionary` | |
| `BitIndexProofs`, `SortProofs`, `KeysetBlocksProofs`, `AgentWrapProofs`, `CmdoptProofs` | theorems on the index, the sort, the keysets, the agents and the command line | |
| `MCTrieBuild`, `MCTrieSearch`, `MCBitIndex`, `MCFlatVector`, `MCTrieFile`, `MCSort`, `MCKeyset`, `MCAgentWrap`, `MCCmdopt` | constants for TLC | |

`TrieSearch` extends `TrieBuild` through `TrieContents`: a behaviour first builds
a trie, action by action, and then searches it.  No search ever runs on a trie
that was made up.  `TrieFile` likewise extends `TrieBuild`, through `TrieImage`: the
trie its objects hold and its files contain is one the builder has built.
`FlatVector` and `TrieImage` share `VectorLayout`, because the packing, the writing
and the `io_size()` of a vector compute its size each for themselves.

### TrieBuild against the code

The variables carry the names of the members (`louds`, `linkFlags`, `bases`,
`cache`, `numL1` for `num_l1_nodes_`).  `phase` is the loop the builder is in:

| Action | Code (louds-trie.cc) |
| --- | --- |
| `BeginTrie` | `build_current_trie`, up to its loop: super-root, root, cache, range of all keys |
| `OpenNode` | one range leaves the queue; keys that end here get the node as terminal |
| `GroupKey`, `Grouped` | the second half of the range is cut into groups by label, weights added up |
| `AddChild`, `CloseNode` | one child per group, by weight or label; its edge, its link flag, its cache slot; the 0 that closes the node |
| `NoNextLevel`, `NextTrie`, `NextTail` | `build_terminals`, and `build_trie` deciding on the next level |
| `AddEntry`, `TailDone` | `Tail::build_` |
| `LinkTrie` | back in `build_trie`: links into `bases_` and `extras_`, then `fill_cache` |
| `NumberKeys` | `build_`: terminal flags, and ids for the caller's keys |

The recursion of `build_trie` over the levels is unrolled: `stack` holds the tries
whose next level is being built, `links` the terminals the level below returned.

Abstractions: the slice of the sorted key vector a range stands for is the set of
its keys, so the sort leaves no trace (`Sort` models it on its own; equal keys are adjacent in the code, in one
set here; the order of children comes from their labels, as a stable sort of sorted
groups gives it).  A byte is a number below `Base`, and a link is split by `Base`
as the code splits it by 256; node numbers and offsets are not bounded (32 bits in
the code, and the code throws before it exceeds them).  `get_cache_id` is the
constant `CacheId`; TLC takes the code's formula.  `CacheSize` doubles (`Doubled`) as
`reserve_cache` does.  Weights are natural numbers;
in the code they are floats, and rounding of their sums is not modelled.
`parentOf` and `textOf` are history variables: the node each node was put under, and
the text that leads to it, for properties and proofs to compare with what the bits say.

In `TrieContents` a text is read from the bits (`PathTexts`, a recursive function on the
nodes of all tries), and the weight of some keys is the number of their `Units`.

### TrieSearch against the code

`nodeId`, `queryPos`, `keyBuf`, `history`, `historyPos` and `status` are the
members of `State`; `call` is the loop the call is in.  `from` and `given` are
history variables: the status a resumed call started from, and the ids the search
has returned so far.  `find_child`, `match`, `prefix_match` and `restore` change
nothing but the cursor.  `Restored` and `Matched` are recursive functions on the nodes of
the later tries (`Later`), as `restore_` and `match_` only ever run there, and `Matched` on
the positions before the end of the query too; the functions without the underscore, which
choose between the next trie and the tail, are `RestoredLink` and `MatchedLink`.
`FindChild` tries the children in turn.  The cache is asked first, as in the code.
The agent's key is a pointer and a length, so its text (`KeyText`) is read from
`query` or `keyBuf` at the time of looking.

What `set_query` and each `*_init` does *not* reset is left alone, which is the
point: the next search starts on the cursor the last one left.

`reverse_lookup` throws on an id out of range before it resets anything, and a
search that was under way goes on; `Dictionary` says so too.

### BitIndex against the code

`UnitSize` stands for 64 and a block is eight units, as in the code;
`NearBlocks` is the 10 up to which a select walks.  A table of counts is a record
per block; the bit fields of `RankIndex` appear as the bounds its setters assert
(`TypeOK`).  `Walk` and `Bisect` are the two loops that look for a block, `SelectBit` the
three comparisons in a block and `select_bit` in a unit; `PopCount` and the select in one
unit are taken for what they compute.
`rank1(size())` is left out: no caller asks for it.

### FlatVector against the code

A unit is a sequence of bits.  `NewUnits` are units of memory that was never
written, all `Junk` but the last, which the code clears; `SetValue` clears and
stores the low part and, if the value reaches over the end of the unit, the high
part in the next.  Words are 8 and 4 bits for 64 and 32, and a value takes up to 4
bits for the code's 32.  `pad` is the factor that fills the units of a 32-bit build
up to 64-bit words.

### TrieImage and TrieFile against the code

A level of a trie in memory is a function from the names of its parts (`louds_`'s
units, size, ranks, ...) to their values; a unit is the set of its bits that are 1.  A
file is a sequence of *items*, one for
each call of `Writer::write` or `seek`: a number, the data of a vector, the zeros
behind it, the header.  The sizes are the real ones (64-bit units, blocks of 512,
elements of 1, 4, 8 and 12 bytes), so `Bytes`, `IoSize` and alignment are too.
`Torn` is an item of which only so many bytes were written, `Zeroed` the data of an array
whose memory is zeros.
`FrontWritten`, `FrontRead` and `FrontMapped` are the orders of parts in `write_`,
`read_` and `map_`, which the code states three times; so does the model.
`HasNext` is the question the file does not answer: whether there is a next level
is inferred from links and tail, here as in the code.  A read that is out of step
with the items would interpret other bytes; the model has it refused, which is the
outcome `ReadsTell` then rejects.

`TrieFile` is a script with two `Trie` objects, a file and one descriptor, opened
as "w" or "r".  A write (`Save`, `Write`) goes on item by item (`WriteItem`), and may
break off before any of them or a byte before its end (`WriteFails`), or with the process
(`Killed`).  A read is one step: nothing else
happens before it returns.  `Filled` is the temporary that `load`, `read`, `mmap` and
`map` fill and swap in at the end.  `BuildThrows` and `MapThrows` are a wrong second
argument, which is reported by an exception *after* which the method goes on: the
trie is replaced.  (`Build` uses the default settings then, which are taken to be
those of the trie at hand.)  `WriteThrows` is a call without a trie, or one whose
`fopen` fails.

The elements of the vectors of a trie that was mapped from a file lie in the pages of that
file (`mapper.cc:148`, `MAP_SHARED`); the header is static, and sizes and counts are members.
So `held` has a mapped trie as it was when it was mapped, and what it *is* depends on
the file: `Whole` looks there too.  `fopen(f, "wb")` and opening as "w" take the pages
away, and every item that is written and flushed may bring one back, with zeros behind
the end of the file.  `Readable` is how much of the next item lies in pages the file
reaches into, `PagesEnd` where these end, and `ItemNow` the item as it is read then: what the
file has in this place, or zeros.  When a write needs elements that are not there, `save`
dies in `fwrite()` (`Fault`, SIGBUS), and `write` gets EFAULT, behind as much as could be
read (`WriteFails`).  A file with items in front of the first array is therefore never
left empty, and a trie of less than a page never faults.  An item that lies partly in
the file and partly behind its end is taken as zeros.  All tries of a behaviour are the same trie, so
item *i* of a file is in the place of item *i* of a trie mapped from it.
`emptied` is history: some file was emptied under a trie.  Calls that *read* a mapped
trie (searches, `io_size()`) are not in this module.

The script closes a descriptor on which a call failed, does not save by name to the
file it has open, and keeps a Buffer as long as the trie that is mapped from it.
`cache_level` is not among the flags a trie keeps, and `Tail::mode()` reports an
empty tail as text; `Flags` and `Level` say so.

### Sort against the code

`frames` is the stack of calls of `sort`, each with the segment that is left to its
outer loop and the calls it still has to make; `pl`, `pr`, `pivotL`, `pivotR` and
`pivot` are the locals, and `pc` the loop that runs.  The six branches at the end of a
round are `Others` (dealt with by calls) and `Kept` (left to the loop).  A key's
iterator is a place, so "outside of the array" can be said.  `Threshold` is 10 in the
code.  A segment of one key counts only where the code counts it: `sort` of a single
key returns 0, which only `reserve_cache` sees.

### KeysetBlocks against the code

A block of bytes is the sequence of its bytes and a key is a place in a block, so
`Said` reads what the bytes say *now*: a key whose bytes were written over says
something else.  `WithKeyBlock`, `WithExtraBlock` and `WithBaseBlock` are the
`append_*_block` functions, `Reserved` and `Place` are `reserve`, and `Failures` is
every state an allocation that fails in it can leave.  `Reset` fills the blocks it
keeps with `Junk`; the code leaves the old bytes, so a key that reads a byte before
it was written is wrong in the model even where the program would be lucky.

### AgentWrap against the code

A query is the wrapper whose string it points to and a length.  `CString` is what
`set_query(const char *)` takes of a string, up to its first NUL.  A `Search` here
is only that a `State` exists and has begun on a query; what it finds is
`TrieSearch`.  `mixed` remembers the wrappers that were ever swapped: `Agent.swap`
exchanges the library agents but not the strings, so afterwards `set_query` on one
changes the text under the other.  No document says what a swap means for a query;
the properties speak of agents that were not swapped.

### Cmdopt against the code

An argument is the sequence of its characters, and `nextchar` what is left of the one
being read.  A step is a round of the loop of `cmdopt_main`; one that returns also does
what `main` does with the label (`Return`): go on, stop, or print the help.  The labels
and arguments `main` gives up on are the constant `Refused` (a number of tries that is
no number).  `from` is a history variable: where each element of `argv` was typed.  `Meaning`
is no part of the code: it says what a command line means, argument by argument, and moves
nothing.  The assumptions keep the letters of options apart from `-` and `:` and from the
labels `cmdopt_get` uses for itself, as the tools' tables do.

Three remarks in the source do not fit the code, and the model follows the code:

* `cmdopt_match_len` (cmdopt.cc:111) calls a match perfect as soon as the name that was
  *typed* is at its end.  So any beginning of a name is one, the first entry wins, and
  that there are other candidates (`--p` of `marisa-benchmark`) is not noticed (140).
* `has_arg` 2, "may have an argument" (cmdopt.h:16), still requires one.
* The help of `marisa-build` (marisa-build.cc:27) names `--num-tries`, which its table
  (129) does not have.

A colon typed as a letter would match the colons of `optstring`; for the tools' options
that fails like any unknown letter, and it is not among the inputs.

## Runs

| Run | Question | Bounds |
| --- | --- | --- |
| `build` | Do the vectors keep step, are parents and children found, do ids and keys come back, do links fit, are siblings in order and cache slots right, does the build end? | every keyset of up to two keys of up to three bytes out of {NUL, 1}, weights 0 and 1; five larger keysets chosen for shared suffixes, equal keys, segments met from both ends, a NUL in a segment, offsets above one base byte; one to four tries, both orders, two cache sizes, both tails, in eight settings in which every two values meet; `Base` 4 |
| `search` | Does an agent that may call anything at any time always see what the dictionary promises, and does its cursor stay right? | five keysets (one empty) under three settings, four queries, three ids, any sequence of calls |
| `search_returns` | Does every call return? | two keysets, two queries, any sequence of calls |
| `bit_index` | Do ranks and selects answer as `LoudsBits` says? | units of 2 bits, blocks of 16; all vectors of up to 9 bits, all ways to cross the first block's end, seven long patterns at 37 lengths with samples up to eight blocks apart |
| `flat_vector` | Do packed numbers come back, and does no uninitialised bit get into a file? | lists of up to five of the values 0, 1, 2, 5, 15, in words of 8 and of 4 bits |
| `trie_file` | Does a file give back what was written, and nothing else; does every object hold a whole trie, and every file that was written to the end a whole copy, unless a script empties a file under a mapped trie; are mapped vectors aligned; is `io_size()` the size of the file? | a keyset of four keys, as one trie with a text tail (432 bytes, under a page) and as a chain of two with a binary tail (784 bytes, over a page), `Page` 512; two `Trie` objects, one file, one descriptor, up to two tries written to one stream; any write may break off at any item, the process may die at any time |
| `trie_file_self` | Does `save` leave the trie in the file, as README.md:126 says? **Not if the trie is mapped from it** | one object, a chain of two tries with a text tail, `Page` 4096, no stream |
| `sort` | Does `sort` sort and count, keep its partition and its depth of recursion, and return? | every sequence of up to six of five texts (empty, prefixes of each other, differing in the first or second byte), `Threshold` 2 |
| `keyset` | Does a keyset keep the keys it was given, where it put them, also if keysets swap and push each other's keys? | two keysets of up to 3 keys, the second in use only while both have a key and a block of each kind at most (`Bounded`); base blocks of 3 bytes, key blocks of 2 keys, texts of 0, 1 and 3 bytes (one with a NUL), any allocation may fail |
| `agent` | Does an agent look for what it was last asked for, also in a search that goes on? | two wrappers, two texts, three lengths (none, short, too long), a negative id modulo 8 |
| `cmdopt` | Does `main` get the options and operands that were typed? | every command line of up to four of eighteen arguments: operands, `-`, `--`, letters alone and in clusters with and without arguments, long names in full and in part, unknown ones |
| `agent_nul` | Does `set_query(string, length)` keep NULs, as README.md:265 says? **It does not** | as `agent` |

Why the bounds are enough.  Two keys of three bytes give every shape of a node
with two children, links of two and three bytes, a key that is a prefix of the
other, equal keys and empty keys; the second trie then meets a single segment, two
different ones and two equal ones.  What needs more (a third trie, two entries that
share a suffix, cache slots with several candidates) is in the five larger keysets.
Each pair of values of different settings occurs with every keyset.
`MCTrieBuild` and `MCTrieSearch` assume of their hash, which is the code's formula, what
the theorems assume of it (`HashKeepsApart`), for the sizes their caches have; TLC
evaluates the assumption.
The search state is finite without any bound: the agent's cursor is a function of
trie, query and calls so far, so TLC visits every state any sequence of calls can
lead to.

In `bit_index` a unit of two bits is the least in which the count inside a unit
matters, and lengths from 94 to 130 put the last block at every state of being
full.  In `keyset` base blocks hold three bytes and key blocks two keys, so three keys
fill, double and outgrow each array, and after a reset the kept blocks are
used again with other contents.  What happens between two keysets (a swap, a key of the
other one) takes no more than a key in each.  `BoundedSpec` keeps this bound as a conjunct
of the next-state relation, so that `KeepsKeys` is checked on all behaviours it has.
In `cmdopt` four arguments give an operand before, between and behind options, an option
whose argument would be an operand that was moved, and `--` with operands on both sides.

In `flat_vector` a list is as wide as its largest value, so widths 0, 1, 2, 3 and 4
occur; with words of 8 and of 4 bits, five values then fill a unit exactly, straddle
two, and leave one to be padded.  In `trie_file` the chain of two tries is the least
with a front inside a front and two backs, and one trie and two make the inference
of `HasNext` matter.  A page of 512 bytes is between the sizes of the two tries, so a trie that
is mapped from the file a write has emptied is met both whole in one page, where nothing
faults, and reaching into a second, where a write finds some arrays and misses others;
the pages of `trie_file_self` have the size of real ones.  A second object is what a failed read could spoil, and two tries
in a stream put a read behind another.  More files would only repeat one file.  TLC's
view leaves out `report`, on which no step depends, and the builder's
variables once it has ended.  In `sort` six keys and a threshold
of 2 give segments that are partitioned, called for, looped over and inserted at
three depths.

`build`, `bit_index`, `flat_vector`, `sort` and `cmdopt` say `CHECK_DEADLOCK FALSE`: what they run
ends.  The other runs do check for deadlock, as an agent, a keyset or a trie can always
be called again.

**Disagreements.**  `agent_nul` checks README.md:265, "If the query string
contains NUL (0x00) characters, please specify the length explicitly so as to keep
the NULs."  `agent-wrap.cpp:74-75` stores that many bytes, then hands the library
`query_str_.c_str()`, which it measures up to the first NUL: after
`set_query("\u0001\u0000\u0002", 3)` the query is one byte long.

`trie_file_self` checks README.md:126 of `save`, "Dump the trie data into a file."
`writer.cc:93` opens the file with `fopen(filename, "wb")`, which empties it, before
anything is written.  After `mmap(f)`, `save(f)` writes the header and the first size
(`writer.cc:134-135` flushes each), which are not in mapped memory, and with them the first
page of the file is back, all zeros where the arrays were.  A trie of less than a page is
then written to its end, with the right sizes and zeros for its arrays, and `save` reports success: this is the
trace TLC finds, and `load` accepts the file.  The process dies of
SIGBUS in a larger one, at the first array behind the pages that are back.

**Properties.**  `Balanced`, `ParentsFound` and `ChildrenFound` are what the
computed node numbers rest on; `LinksFit` is what keeps `build_trie` inside
`link_flags_` while it stores links.  `KeysRestored` and `IdsDense` are the
builder's promise; `SiblingsInOrder` and `CacheTruthful` are what its clients rely
on.  `LevelsAligned` says that the bit position, link number and key number of each level a search
keeps are those of its node.  `HistoryIsPath`, `LevelsAligned` and `CursorOnQuery` say that a search that
may be resumed stands where its query led it.  `KeepsPromise` is refinement:
`TrieSearch` implements `Dictionary` under a mapping that reads the dictionary off
the built trie.  It covers common prefix search (shortest first), predictive
search (each key once, in label order where the trie is), lookups, and what
happens when one search interrupts another.

`ValuesKept` reads every value back after each store, so a store that disturbs a
neighbour shows; `NothingLeftUnset` says that what is saved does not depend on what the
memory held (in a 32-bit build the padding unit may); `UnitsFit` ties the number of
units to the places `set` and `operator[]` compute.  `ReadsTell` is the contract of files:
a read succeeds if and only if a write from there on came to its end, whatever failed
or died in between; it then gives just what lies there, and else leaves the object alone.
`WholeTries` is its counterpart for objects: as long as no script empties a file
under a trie that is mapped from it, each object holds the whole trie, those that are
mapped in a file that still has it, and each write that came to its end has left a whole copy.
What is lost otherwise is what `SaveDumps` is about.  `MappedAligned` and `IoSizeExact` relate the layout to what the C++ types and
`io_size()` need of it.  `SortsAndCounts` is what the builder needs of the sort;
`SegmentsAlike` is why labels are never read behind the end of a key; `Partitioned` is
the three-way partition during the scans; `CallsHalve` bounds the stack.

`SpaceAccounted` relates the counters of `reserve()` that `push_back()` relies on;
`KeysApart` and `KeysStay` say that keys share no bytes and neither move nor change
while keys are added (JavaScript's `Key` objects point at them).  `KeepsKeys` is
refinement again: `KeysetBlocks` implements `KeySequence`.  `QueryFresh` and
`SearchOnOwnQuery` tie pointer, length, string and search of an agent together
through rejected arguments, clears and the lazily made `State`.

`ReadsAsMeant` compares what `main` was given with `Meaning`, which reads the command line
from left to right and moves nothing.  `ArgvInOrder` is why they agree.

**Fairness.**  `Terminates` assumes weak fairness of the builder's next step, and in
`Sort` of the sort's; `CallReturns` assumes weak fairness of the next step of a call under way.  A build or a
call runs on the one thread to its end without yielding, so a step that can be
taken is taken.  Nothing assumes that a call is made.

## Proofs

### The builder

For all keysets, settings, radices above one and hashes (assumptions
`BaseAssumption`, `KeysetsAssumption`, `SettingsAssumption`, on the constants'
types only; of the hash `CacheId` only the theorem on the cache assumes anything):

* `TypeCorrect`: `Spec => []TypeOK`, with links cut to bytes;
* `BalancedThm`: `Spec => []Balanced`;
* `LinksFitThm`: `Spec => []LinksFit`;
* `ParentsFoundThm`, `ChildrenFoundThm`: `Spec => []ParentsFound`, `Spec => []ChildrenFound`;
* `IdsDenseThm`, `KeysRestoredThm`: `Spec => []IdsDense`, `Spec => []KeysRestored`;
* `SiblingsInOrderThm`: `Spec => []SiblingsInOrder`;
* `CacheTruthfulThm`: `Spec => []CacheTruthful`, if `HashKeepsApart`.

The first four follow from `Invariance`: the strengthening `Inv` holds always.  `Balanced` is
not inductive alone: `OpenNode` numbers the node by the length of the queue, so
the induction carries the type of every vector, the ranges of the queue (sets of
keys, none longer than what was read), that groups are not empty, the count of
link nodes against the keys handed to the next level, and the same for every trie
on `stack` and in `trie`.  `ParentsFound` needs in addition (`Numbered`) that the
number of zeros before the 1 of each child is its parent's number plus two, which
holds when the 1 is appended because zeros = node + 1 while a node is open, and
stays because a vector only grows (counts and selects are unchanged by appending).  `ChildrenFound` goes the other way: the zeros before a
node's first child are its own number plus two, and from there on the children are a
run of ones.  The step of the induction has one lemma per action.

What the bits mean is proved on top of `Inv`, by a chain of
invariants each of which uses those before it.  `PlacedInv`: every node has a text
(`textOf`); the keys of a range have been read as the text of the range's node, all
keys of one text are in the same range, and a key that has left the queue has the node
of its text as its terminal.  `NamedInv`: the same of the tries on `stack`, whose
terminals are the nodes of their keys' texts.  `StoredInv`: an entry that has been added to the tail
is read back at its offset, also when it shares the end of a later one; this is where a
text without a NUL, or an end bit for each byte, is needed.  `SpelledInv`: the text of
each node is that of its parent and what its edge spells, where the edge is a base
byte, a text in the next trie or one in the tail.  Then `PathTexts`, which reads the
texts from the bits, has to be `textOf`: both satisfy its recursive equation, and an induction
over node numbers and tries shows that there is only one such function.  `KeysRestored`
and `IdsDense` follow from that and from the terminal flags being the terminals of the
first trie.

`CachedInv` says of every slot that is used that its child is a node whose parent is
the slot's, and in the first trie that the slot is the hash of that parent and the
child's label.  A search asks for a parent and a label, and would be misled by a
slot of another label of the same parent.  `HashKeepsApart` is that two labels of one node
have two slots, in a cache of any size the builder gives it.  The code's formula has this
property as its sizes are powers of two from 256 on and the label is xor-ed in before the
hash is cut to that size; the provers have no theory of `^` or xor, so it is a hypothesis
of the theorem, and TLC evaluates it for the formula and sizes of the `build` run.

`SiblingsInv` has what makes the order of children more than the order in one loop:
no key waits in two places, waiting keys still have the weight they came with, a
range holds all the keys that begin with the text of its node, and so the weight a group
adds up is the number of `Units` of the keys that begin with its child's text; and
children that have been added come before all the groups still to come.

### Searches

For all keysets, settings, radices, queries and ids, and every sequence of calls, if
`HashKeepsApart`:

* `SearchTypeCorrect`, `HistoryIsPathThm`, `LevelsAlignedThm`, `CursorOnQueryThm`: the
  four invariants of the run, as `SearchSpec => []...` (`LevelsAlignedThm`: in every level
  below the first, and where they are known, bit position, link number and key number count what is in front of the
  level's node);
* `KeepsPromiseThm`: `SearchSpec => KeepsPromise`: the searches implement `Dictionary`.

It goes up in four steps.  The first is about the builder again.  The searches need three more
things of the tries: `ShapedInv` (a node's text is longer than its parent's, children of
one node of the first trie begin with different bytes, the children of a root are the nodes
up to `num_l1_nodes_`, a cache has a slot), `TailReadInv` (the links of the last trie lead
to texts that the tail reads back), `RootsPlain` (no root is a link).

The second (`TrieReadingProofs`) is what the pieces of a search return in a finished trie.
`RestoredIs`: `restore()` gives back the text of every node of a later trie.  `MatchedIs`:
`match()` and `prefix_match()`, which compare one edge after the other from a node up to the
root, across links and in the tail, end as one comparison with the node's whole text
would.  Both are inductions over node numbers and tries, upwards in a trie and from the last
one back; a step is the same from the cache as from the vectors because `CachedInv` says
what a slot holds.  `FindChildIs`: the child `find_child()` goes to is the only one
whose text the query goes on with.  Two facts carry it: a
slot that answers names a child with the label that was asked for (so `HashKeepsApart` is
needed), and a link that matches in part ends the loop because its siblings begin with other
bytes.

The first trie is a `Tree` of texts: a text below a node is below exactly one of its
children.  So a lookup or a common prefix search that has read `p` bytes is on the node they
lead to (`Led`), a predictive search finds the node at and below which all keys are that
begin with the query (`RootOf`), and a reverse lookup has in its buffer, backwards, what is
between a node and the terminal it came from (`Climbs`).  Of an enumeration, `PathOK` says that its levels
are a path, and `LevelOK` that the bit position, link number and key number of each
level belong to its node; a level below the cursor has been left with the position of the
node to come next.

The third is `CursorInv`: the types, which cursor can be there in which status
(`ModesOK`: which loop runs, what a resumed search started from), and the above, `CursorOK`
and `WalkOK`, for the status at hand.  It has one lemma for each action.  That it survives any
sequence of calls is the point: each `*_init` resets some members and leaves others, and
`ModesOK` is what is left.  The four invariants follow from it.

The last is the refinement.  `GivenInv` says which ids a search has given so far: a common
prefix search those of the keys its node's text begins with, an enumeration those of the
nodes `Visited`, which are the ancestors the cursor stands on and everything below a child it has left behind.
When the enumeration goes up nothing new is visited, when it goes down one node is, and at the end
all nodes below the root of the search have been.  With that every step of a search is a step
of `Dictionary` or leaves it as it is (`Answers`, again action by action), and labels in order
in the trie (`SiblingsInv`) give keys in order in the answers.

### Sort

For all texts, numbers of keys and thresholds: `StaysInArray` (no scan, exchange or
insertion leaves its segment, and no call the array), `PartitionedAlways` and
`CallsHalveAlways`, all from `Invariant`.  Its induction carries the types, that frames
and calls to come lie in the array and each call is at most half of its caller
(`FramesFit`), the order of the five places of a scan (`ScanFits`), and `StoppedAt`: the
label the left scan stopped at is still greater, and the one the right scan stopped at
less, when the two are exchanged.  Without `StoppedAt` the exchange would not keep
`Partitioned`; without `FramesFit` nothing would be known of the segment a return or a
call goes to.  `CallsHalve` holds because `Divide` calls only for the smaller outer part
and the middle, when one outer part is bigger than the middle, and for two outer parts
none of which is bigger than the middle otherwise.

`SegmentsAlikeAlways` has an invariant of its own, on top of that one.
The segments left in all frames and in all their lists of calls do not overlap
(`AllApart`), and the keys of each have their first `depth` bytes in common (`AllAlike`).
Neither would hold alone: a swap moves two keys of the running segment, which is no harm
to that segment, and none to another because it shares no place with it.  Dividing a
segment is where both are made: the three parts do not overlap, and the middle one, whose
labels `Partitioned` says are all the pivot, may go one byte on unless the pivot is the
end of the key.

`SortsAndCountsAlways` has a third one, `CInv`.  Two keys that no pending segment holds
both of are in order, and may be equal only if no pending segment holds either
(`Ordered`); the counter is the number of different keys that are in no pending segment
or have been inserted (`CountsKeys`); insertion has one key out of place, which is less than
all it passed (`Inserting`); and keys are neither lost nor doubled (`SameKeys`).  Dividing
a segment keeps these because labels below, at and above the pivot order the keys of the
three parts, and because the pivot is the label of a key, so that the middle part is never empty
(`PivotThere`): an empty one would be counted as a key.  At the end nothing is
pending, so the array is in order and the counter is that of its different keys.  That
`compare()` is a total order is a lemma of its own.

### The index of a vector

For all vectors of bits, units of any size and any bound on the walk over units:
`IndexTypeThm`, `RanksAnswerThm` and `SelectsAnswerThm`.  `IndexInv` is what
`build_index()` has written up to the bit it is at: the units hold the bits, the rank of
every block and of every unit in it is the count up to there, and sample `s` of either
bit is the place before which `BlockSize` times `s - 1` of them stand (`SamplesTo`).
A rank is then the count up to the block, the unit and the bit.  A select is the place
found by bisecting the blocks between two samples, walking over the units of the
block and looking into the last unit; each narrows down an interval that holds the place, and
there is only one place with a given count before it whose bit is set.  Bisection and
walk are recursive functions: that they are defined wherever they are used is proved by
induction, as is what they return.

### Keysets

For all sizes of blocks (an extra block is for keys longer than `ExtraSize`, which is at
most `BaseSize`), all texts and words, and any number of keysets:

* `AlwaysAccounted`, `TypeCorrect`, `KeysStayApart`: the three invariants of the run;
* `KeysStayAlways`: `Spec => KeysStay`, the action property;
* `Refinement`: `Spec => KeepsKeys`: `KeysetBlocks` implements `KeySequence`.

`Invariant` is that every keyset is `Good`: its types, that what is counted as used is
there (`Sized`), `Accounted`, that each key lies behind `ptr_` or in another block
and its bytes have been written (`KeysFit`), and that the keys of a block are in the
order of pushing (`InOrder`).  The argument goes through one relation, `Extends(ks, k)`: `k`
has the blocks, the written bytes and the keys of `ks`, and perhaps more.  Every step of
`reserve()` that makes room extends the keyset, also when the next one fails, `Extends`
is transitive, and `KeysOfExtended` shows that a key means the same in a keyset that
extends its own.  `Pushes` adds the one new key.  `StepReplaces` then sorts all steps: a
keyset is replaced by one with a key more, by one that extends it and has the same keys,
or by an empty one; or two are swapped.  Invariant, action property and refinement are
read off these cases.

### Agents

For all texts, lengths, ids and numbers of wrappers: `TypeCorrect` (which is only proved), `QueryStaysFresh` and
`SearchKeepsQuery`.  The inductive invariant adds to the three that an agent that was not
swapped has no text, or points to its own wrapper's string, which still says what was
asked (`PointsToOwn`), and that a search that goes on was begun with that
(`BegunWithOwn`).  That each text has an end as a C string is proved by counting the
places no NUL comes before, in the place of an induction.

### The command line

For all arguments and tables of options: `ArgvAlwaysInOrder`.  What has been read is in
front, what was moved away behind, each in the order it was typed, and what is left
between them, untouched.  The induction needs that what is left was typed after all the
rest (`Unread`): that is what puts an argument that is moved away behind those that were
moved before it, and one that is read behind those read before.

`AlwaysReadsAsMeant` compares the loop with `Meaning`, which is defined from the last
argument on.  `MeantInv` says at every step that what `main` has been given, the
operands that were moved away and what is meant by the arguments still to be read make up
what the whole line means; inside a cluster of letters what is left of the cluster is
part of that.  With nothing left to read, what `main` was given is what was meant, and
`ArgvInOrder` puts the operands in the order they were typed.  That `Meanings` and
the functions it is made of exist and have the types they should is proved by induction.

### Induction

The provers cannot use a theorem that has an operator as its parameter, which is how
the library states induction.  The proofs therefore have it over sets (`Induction`): a
set of naturals that has 0 and with each number the next is all of them (from
`LeastNumber`).  These two, and in `BitIndexProofs` the lemmas on ranks, are repeated in each
module that needs them and knows nothing of tries.  With it a recursive function is shown to exist by taking the set of
all numbers up to which a partial one does, and equations of the module are then facts
about it.

### Only model-checked

All invariants and action properties of `build`, `search`, `bit_index`, `sort`, `keyset`,
`agent` and `cmdopt` are proved, and both refinements.  What only TLC shows:

* liveness (`Terminates` of `build` and of `sort`, `CallReturns`), which needs `ENABLED`;
* `FlatVector`: the width of a value is found by comparing powers of two, and what is stored
  are the digits of a number; the provers have no theory of `^`, and the library no fact about it
  (that `2 ^ n` is a number included), so not even `UnitsFit` can be reached;
* `TrieFile`: `WholeTries`, `MappedAligned`, `IoSizeExact`, `ReadsTell`, on one trie and a chain of two.  The
  sizes of vectors in a file rest on `ValueSize` again; `WholeTries` and `ReadsTell` would
  take a proof of what `read_` and `map_` make of every file that a torn write leaves,
  which has not been done;
* `HashKeepsApart` for the code's formula, for want of a theory of powers and xor; TLC
  evaluates it for the caches of the runs.

## Not modelled

* *Agents over a trie that was replaced* (`trie.cc:17`): `build`, `load` and `swap` put
  another trie under the cursor of a search that goes on.  What the code then reads
  depends on both tries and nothing defines it; `TrieSearch` has one trie per behaviour.
* *Lifetimes* (`agent-wrap.cpp:41`, `trie-wrap.cpp:98`): `Query` and `Key` objects and
  mapped Buffers outlive, or do not, what they point into.  That needs the garbage
  collector as an actor, and there is nothing in the code to translate it from.
* *A second build of a keyset* (`louds-trie.cc:251`): ids have taken the place of the
  weights, as README.md says they do.
* *Queries of swapped agents* (`agent-wrap.cpp:112`): `AgentWrap` models the swap, but no
  document says what it means for a query, so no property does.
* *`Config`*: defaults and errors of the flags a script passes, a table.
* *`Vector`*: growth and shrinking of a plain array; other modules take it as a sequence.
* `disable_select*`, FILE pointers and C++ streams, getters: not reached from the
  binding, or they hand on a number.
* What the command line tools do after they have read their options: loops that read
  lines, call the library and print.
* The Perl, Python and Ruby bindings.  They are generated by SWIG (15,958 of the
  repository's 26,614 lines of implementation) and hold no logic of this system, which is why the share of lines the models cover stays small.

Also left out: 32-bit limits of sizes (the code throws) and memory exhaustion outside of
`Keyset`.
