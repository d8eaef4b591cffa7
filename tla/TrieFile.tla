------------------------------ MODULE TrieFile ------------------------------
(***************************************************************************)
(* Tries and files: the JavaScript Trie objects of a process, the files it *)
(* saves to and loads from, and what is left of them when a write fails or *)
(* the process dies.  A behaviour first builds a trie (TrieBuild); each    *)
(* Build() here is one from a fresh keyset with these keys.                *)
(*                                                                         *)
(* A write goes on item by item, since it may break off anywhere.  A read  *)
(* is one step: nothing is seen of it until it returns.                    *)
(*                                                                         *)
(* The arrays of a trie that was mapped from a file lie in the pages of    *)
(* the file (MAP_SHARED); its sizes and counts are members.  Who empties   *)
(* the file takes the arrays away, and who fills it puts others in their   *)
(* place.  Since every write starts an empty file and all tries have the   *)
(* same sizes, item i of a file is where item i of a trie mapped from it   *)
(* was.                                                                    *)
(***************************************************************************)
EXTENDS TrieImage

CONSTANTS
  Tries,       \* the Trie objects
  Files,
  Page,        \* bytes of a page, the unit in which a file is mapped
  MaxImages    \* bound: tries written one behind the other to a stream

ASSUME PageAssumption == Page \in Nat \ {0}

VARIABLES
  built,       \* the trie build() makes: its levels, and what write() writes
  held,        \* trie_ of each object: its levels, and where they live; the
               \* arrays of a mapped one as they were when it was mapped
  disk,        \* what is in the files
  fd,          \* the file descriptor the script has open
  op,          \* the write under way: of which object, and the items left
  complete,    \* history: how many writes to each file came to their end
  emptied,     \* history: a file was emptied while a trie was mapped from it
  report       \* history: how the last call ended

fileVars == <<built, held, disk, fd, op, complete, emptied, report>>

None == [levels |-> <<>>, from |-> "nothing"]
Closed == [file |-> "none", mode |-> "closed", at |-> 0]
Idle == [to |-> "nobody"]
Quiet == [call |-> "none"]

Present(t) == held[t] # None

\* The k-th trie in a file is all there.
GoodCopy(f, k) ==
  LET items == Len(built.image)
  IN  /\ k * items <= Len(disk[f])
      /\ SubSeq(disk[f], (k - 1) * items + 1, k * items) = built.image

\* Does the object hold the trie?  One that is mapped, only if its file does.
Whole(t) ==
  /\ held[t].levels = built.levels
  /\ held[t].from \in Files => GoodCopy(held[t].from, 1)

MappedFrom(f) == \E t \in Tries : held[t].from = f

FileInit ==
  /\ Init
  /\ built = <<>>
  /\ held = [t \in Tries |-> None]
  /\ disk = [f \in Files |-> <<>>]
  /\ fd = Closed
  /\ op = Idle
  /\ complete = [f \in Files |-> 0]
  /\ emptied = FALSE
  /\ report = Quiet

BuildStep ==
  /\ Next
  /\ built' = IF phase' = "done" THEN [levels |-> Levels', image |-> Image(Levels')]
              ELSE <<>>
  /\ UNCHANGED <<held, disk, fd, op, complete, emptied, report>>

\* The script may make a call.
Ready == phase = "done" /\ op = Idle
-----------------------------------------------------------------------------
\* TrieWrap::Build, with a second argument that is a number or left out.
Build(t) ==
  /\ held' = [held EXCEPT ![t] = [levels |-> built.levels, from |-> "memory"]]
  /\ report' = Quiet
  /\ UNCHANGED <<disk, fd, op, complete, emptied>>

\* A second argument that is neither: TypeError, but the trie is built, with
\* the default settings, which are taken to be those of Build here.
BuildThrows(t) ==
  /\ held' = [held EXCEPT ![t] = [levels |-> built.levels, from |-> "memory"]]
  /\ report' = [call |-> "build", ok |-> FALSE]
  /\ UNCHANGED <<disk, fd, op, complete, emptied>>

Clear(t) ==
  /\ held' = [held EXCEPT ![t] = None]
  /\ report' = Quiet
  /\ UNCHANGED <<disk, fd, op, complete, emptied>>

Swap(t, u) ==
  /\ t # u
  /\ held' = [held EXCEPT ![t] = held[u], ![u] = held[t]]
  /\ report' = Quiet
  /\ UNCHANGED <<disk, fd, op, complete, emptied>>

Empty(f) ==
  /\ disk' = [disk EXCEPT ![f] = <<>>]
  /\ complete' = [complete EXCEPT ![f] = 0]
  /\ emptied' = (emptied \/ MappedFrom(f))

\* The script opens a file of its own accord; "w" makes it empty.
Open(f, mode) ==
  /\ fd = Closed
  /\ fd' = [file |-> f, mode |-> mode, at |-> 0]
  /\ IF mode = "w" THEN Empty(f) ELSE UNCHANGED <<disk, complete, emptied>>
  /\ report' = Quiet
  /\ UNCHANGED <<held, op>>

Close ==
  /\ fd # Closed
  /\ fd' = Closed
  /\ report' = Quiet
  /\ UNCHANGED <<held, disk, op, complete, emptied>>
-----------------------------------------------------------------------------
\* Trie::save and write on object t; whole is for a property to look back at.
Begin(t, f, via) ==
  /\ op' = [to |-> f, of |-> t, via |-> via, left |-> Image(held[t].levels),
            whole |-> Whole(t)]
  /\ report' = Quiet
  /\ UNCHANGED <<held, fd>>

\* TrieWrap::Save: fopen(filename, "wb") empties the file.  The script does
\* not save to a file it has open.
Save(t, f) ==
  /\ Present(t) /\ fd.file # f
  /\ Empty(f)
  /\ Begin(t, f, "save")

\* TrieWrap::Write
Write(t) ==
  /\ Present(t)
  /\ fd.mode = "w"
  /\ complete[fd.file] < MaxImages
  /\ Begin(t, fd.file, "write")
  /\ UNCHANGED <<disk, complete, emptied>>

\* Without a trie, or if fopen() fails, an error, and no file is touched.
WriteThrows(t) ==
  /\ report' = [call |-> "write", ok |-> FALSE,
                why |-> IF Present(t) THEN "error" ELSE "no trie"]
  /\ UNCHANGED <<held, disk, fd, op, complete, emptied>>

\* The next item of a write, and how many it is from the start of the trie.
NextItem == Head(op.left)
NextPlace == Len(built.image) - Len(op.left) + 1

\* The header is static and a size is a member; only the elements of vectors
\* are mapped.
Source == held[op.of].from
InFile == Source \in Files /\ NextItem.kind = "data"

\* A page is there if the file reaches into it, with zeros behind the end.
PagesEnd(f) == ((Bytes(disk[f]) + Page - 1) \div Page) * Page

\* How many bytes of the next item can be read.
Readable ==
  IF InFile
  THEN PagesEnd(Source) - Bytes(SubSeq(built.image, 1, NextPlace - 1))
  ELSE NextItem.bytes

\* The next item as it is now.  One that is partly in the file is not told
\* from one that is not.
ItemNow ==
  IF ~InFile THEN NextItem
  ELSE LET file == disk[Source]
       IN  IF NextPlace <= Len(file) /\ file[NextPlace].kind = "data"
           THEN file[NextPlace] ELSE Zeroed(NextItem)

\* fwrite() and fflush(), or write(), of one item.
WriteItem ==
  /\ op # Idle /\ Readable >= NextItem.bytes
  /\ LET final == Len(op.left) = 1
     IN  /\ disk' = [disk EXCEPT ![op.to] = Append(@, ItemNow)]
         /\ fd' = IF op.via = "write" THEN [fd EXCEPT !.at = @ + 1] ELSE fd
         /\ op' = IF final THEN Idle ELSE [op EXCEPT !.left = Tail(@)]
         /\ complete' = IF final THEN [complete EXCEPT ![op.to] = @ + 1] ELSE complete
         /\ report' = IF final
                      THEN [call |-> op.via, ok |-> TRUE, file |-> op.to, whole |-> op.whole]
                      ELSE report
  /\ UNCHANGED <<held, emptied>>

\* Of one item nothing, or not all, gets there: MARISA_IO_ERROR.  That is also
\* how write() answers when its data is not there (EFAULT), behind as much of
\* it as is.  The script closes a stream that failed, here and in Read.
WriteFails ==
  /\ op # Idle
  /\ \/ UNCHANGED disk
     \/ \E bytes \in {Readable, NextItem.bytes - 1} :
          /\ 0 < bytes /\ bytes < NextItem.bytes /\ bytes <= Readable
          /\ disk' = [disk EXCEPT ![op.to] = Append(@, Torn(NextItem, bytes))]
  /\ fd' = IF op.via = "write" THEN Closed ELSE fd
  /\ op' = Idle
  /\ report' = [call |-> op.via, ok |-> FALSE, file |-> op.to, why |-> "error"]
  /\ UNCHANGED <<held, complete, emptied>>

\* The process ends and starts again; the files are what is left.
Restart ==
  /\ held' = [t \in Tries |-> None]
  /\ fd' = Closed
  /\ op' = Idle
  /\ UNCHANGED <<disk, complete, emptied>>

\* At any time, and by a Build() whose library exception nothing catches.
Killed == Restart /\ report' = Quiet

\* fwrite() copies data that is not there to its buffer: SIGBUS.
Fault ==
  /\ op # Idle /\ op.via = "save" /\ Readable < NextItem.bytes
  /\ Restart
  /\ report' = [call |-> op.via, ok |-> FALSE, file |-> op.to, why |-> "fault"]
-----------------------------------------------------------------------------
\* Mutant: reads into the trie itself.
InPlace(t, r, from) == [levels |-> r.levels, from |-> from]

\* Trie::load, read, mmap and map all fill a temporary, and swap at the end.
Filled(t, r, from) ==
  IF r.ok THEN [levels |-> r.levels, from |-> from] ELSE held[t]

\* call read into t what lies in f from start on, up to end.
Ended(call, t, start, f, end, ok) ==
  [call |-> call, trie |-> t, start |-> start, file |-> f, end |-> end, ok |-> ok]

\* r and m are what LoudsTrie::read and map make of the file.
Load(t, f, r) ==
  /\ held' = [held EXCEPT ![t] = Filled(t, r, "memory")]
  /\ report' = Ended("load", t, 0, f, Len(disk[f]), r.ok)
  /\ UNCHANGED <<disk, fd, op, complete, emptied>>

Mmap(t, f, m) ==
  /\ held' = [held EXCEPT ![t] = Filled(t, m, f)]
  /\ report' = Ended("mmap", t, 0, f, Len(disk[f]), m.ok)
  /\ UNCHANGED <<disk, fd, op, complete, emptied>>

\* The script reads the file into a Buffer, which it keeps as long as the
\* trie, and passes a length.
Map(t, f, length, m) ==
  /\ held' = [held EXCEPT ![t] = Filled(t, m, "memory")]
  /\ report' = Ended("map", t, 0, f, length, m.ok)
  /\ UNCHANGED <<disk, fd, op, complete, emptied>>

\* A length that is not a number: TypeError, but the buffer is mapped.
MapThrows(t, m) ==
  /\ held' = [held EXCEPT ![t] = Filled(t, m, "memory")]
  /\ report' = [call |-> "badmap", ok |-> FALSE]
  /\ UNCHANGED <<disk, fd, op, complete, emptied>>

ReadFile(f) ==
  LET r == TrieRead(disk[f], 0, FrontRead)
      m == TrieRead(disk[f], 0, FrontMapped)
      cut == Len(disk[f]) - 1
      short == TrieRead(SubSeq(disk[f], 1, cut), 0, FrontMapped)
  IN  \E t \in Tries :
        \/ Load(t, f, r) \/ Mmap(t, f, m) \/ Map(t, f, Len(disk[f]), m)
        \/ cut > 0 /\ Map(t, f, cut, short)
        \/ MapThrows(t, m)

\* TrieWrap::Read, from where the descriptor stands.
Read ==
  /\ fd.mode = "r"
  /\ LET r == TrieRead(disk[fd.file], fd.at, FrontRead)
     IN  \E t \in Tries :
           /\ held' = [held EXCEPT ![t] = Filled(t, r, "memory")]
           /\ report' = Ended("read", t, fd.at, fd.file, Len(disk[fd.file]), r.ok)
           /\ fd' = IF r.ok THEN [fd EXCEPT !.at = r.at] ELSE Closed
           /\ UNCHANGED <<disk, op, complete, emptied>>

Call ==
  \/ \E t \in Tries : Build(t) \/ BuildThrows(t) \/ Clear(t) \/ Write(t)
                        \/ WriteThrows(t)
  \/ \E t, u \in Tries : Swap(t, u)
  \/ \E f \in Files, mode \in {"r", "w"} : Open(f, mode)
  \/ Close
  \/ \E t \in Tries, f \in Files : Save(t, f)
  \/ \E f \in Files : ReadFile(f)
  \/ Read

FileNext ==
  \/ BuildStep
  \/ /\ phase = "done"
     /\ (op = Idle /\ Call) \/ WriteItem \/ WriteFails \/ Killed \/ Fault
     /\ UNCHANGED <<vars, built>>

FileSpec == FileInit /\ [][FileNext]_<<vars, fileVars>>
-----------------------------------------------------------------------------
\* Whatever fails or dies, an object holds all of the trie, seen through the
\* file if it is mapped from one, and so does every file that was written to
\* the end.  Only a script that empties a file under a trie can break that.
WholeTries ==
  ~emptied =>
    /\ \A t \in Tries : Present(t) => Whole(t)
    /\ \A f \in Files : \A k \in 1 .. complete[f] : GoodCopy(f, k)

ReadCalls == {"load", "read", "mmap", "map"}

\* A file gives back exactly what was written to it.  A call that reads
\* succeeds if and only if a write from there on came to its end, however
\* much of one a failed or killed writer has left; it then leaves the object
\* with what a write would write just so, and else with the trie it had.
ReadsTell ==
  [][ report'.call \in ReadCalls =>
        LET items == Len(built.image)
            behind == report'.start + items
            from == report'.file
            there == behind <= complete[from] * items /\ behind <= report'.end
        IN  /\ report'.ok <=> there
            /\ IF there
               THEN Image(held'[report'.trie].levels) =
                      SubSeq(disk[from], report'.start + 1, behind)
               ELSE held' = held
            /\ \A t \in Tries \ {report'.trie} : held'[t] = held[t] ]_fileVars

\* Vectors that are mapped are used where they lie: every number and every
\* array of a file starts at a multiple of what its elements need.
MappedAligned ==
  phase = "done" =>
    LET Need(elem) == IF elem = 12 THEN 4 ELSE elem
        upto[i \in 0 .. Len(built.image)] ==
          IF i = 0 THEN [bytes |-> 0, aligned |-> TRUE]
          ELSE LET front == upto[i - 1]
                   item == built.image[i]
               IN  [bytes |-> front.bytes + item.bytes,
                    aligned |-> front.aligned /\ front.bytes % Need(item.elem) = 0]
    IN  upto[Len(built.image)].aligned

\* README.md:142 of io_size(): "Return the size of trie data in byte."  A file
\* that holds one trie, whole, and nothing else is just as long.
IoSizeExact ==
  \A f \in Files :
    complete[f] = 1 /\ Len(disk[f]) = Len(built.image) =>
      Bytes(disk[f]) = IoSize(built.levels)

\* README.md:126 of save(): "Dump the trie data into a file."  A save() that
\* reports no error has put the trie that the object held into the file.
SaveDumps ==
  report.call = "save" /\ report.ok /\ report.whole => disk[report.file] = built.image
=============================================================================
