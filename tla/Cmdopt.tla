------------------------------- MODULE Cmdopt -------------------------------
(***************************************************************************)
(* tools/cmdopt.cc: how the command line tools read their arguments, with  *)
(* the loop of main() that asks for one option after the other.            *)
(*                                                                         *)
(* cmdopt moves the operands behind the options in argv while it reads it, *)
(* and optnum is where those it has moved begin.  Places are those of C:   *)
(* argv[0] is the command, which nothing looks at.  A step is a round of   *)
(* the loop of cmdopt_main() and, when it returns, what main() does then.  *)
(***************************************************************************)
EXTENDS Integers, Sequences

CONSTANTS
  Null,
  Arguments,      \* the arguments a command line has, sequences of characters
  MaxArguments,   \* bound: how many
  ShortOptions,   \* optstring: has the option of a letter no argument (0), one
                  \* (1, "x:"), or may it have one (2, "x::")?
  LongOptions,    \* longopts: records of a name, has_arg (0 or 1) and a letter
  Refused         \* letters and arguments with which main() gives up

Letters == DOMAIN ShortOptions

ASSUME CmdoptAssumption ==
  /\ Arguments \subseteq Seq(STRING)
  /\ MaxArguments \in Nat
  /\ Null \notin Seq(STRING)
  /\ Letters \subseteq STRING \ {"-", "?", ":"}
  /\ \A c \in Letters : ShortOptions[c] \in 0 .. 2
  /\ LongOptions \in Seq([name : Seq(STRING), has_arg : {0, 1}, label : STRING \ {"?", ":"}])

VARIABLES
  given,      \* history: the command line as it was typed
  from,       \* history: the place in given of every argument in argv
  argv, optind, optnum,
  nextchar,   \* what is left of the argument that is being read, or Null
  got,        \* history: the options main() was given, with their arguments
  outcome     \* "reading", or how the loop of main() ended

vars == <<given, from, argv, optind, optnum, nextchar, got, outcome>>

\* The loop of main(): what it does with the option cmdopt_get() returns.
Return(label, optarg) ==
  /\ got' = IF label \in {"?", ":"} THEN got ELSE Append(got, <<label, optarg>>)
  /\ outcome' = IF label \in {"?", ":"} \/ <<label, optarg>> \in Refused
                THEN "failed" ELSE IF label = "h" THEN "help" ELSE "reading"

\* argv after cmdopt_shift() at optind = i.
Shifted(a, i) ==
  [k \in DOMAIN a |-> IF k < i THEN a[k] ELSE IF k < Len(a) THEN a[k + 1] ELSE a[i]]

\* cmdopt_check()
Type(arg) ==
  IF Len(arg) < 2 \/ arg[1] # "-" THEN 0
  ELSE IF arg[2] = "-" /\ Len(arg) > 2 THEN 2 ELSE 1

\* The length of the name in --name=value.
NameLength(s) ==
  CHOOSE n \in 0 .. Len(s) :
    (\A i \in 1 .. n : s[i] # "=") /\ (n < Len(s) => s[n + 1] = "=")

\* cmdopt_match(): the entries whose name begins with the one given.  A name
\* given in part is as good as a perfect match for cmdopt_match_len().
Matches(s) ==
  { m \in DOMAIN LongOptions :
      /\ NameLength(s) \in 1 .. Len(LongOptions[m].name)
      /\ \A i \in 1 .. NameLength(s) : s[i] = LongOptions[m].name[i] }

First(S) == CHOOSE m \in S : \A k \in S : m <= k
-----------------------------------------------------------------------------
Init ==
  /\ \E n \in 0 .. MaxArguments : given \in [1 .. n -> Arguments]
  /\ argv = given
  /\ from = [i \in DOMAIN given |-> i]
  /\ optind = 1
  /\ optnum = Len(given) + 1
  /\ nextchar = Null
  /\ got = <<>>
  /\ outcome = "reading"

Reading == outcome = "reading" /\ optind < optnum

cmdopt_next ==
  /\ optind' = optind + 1
  /\ nextchar' = Null

\* An operand goes behind the options.
Operand ==
  /\ Reading /\ nextchar = Null
  /\ Type(argv[optind]) = 0
  /\ argv' = Shifted(argv, optind)
  /\ from' = Shifted(from, optind)
  /\ optnum' = optnum - 1
  /\ UNCHANGED <<given, optind, nextchar, got, outcome>>

\* An argument of letters is read from its second character on.
Enter ==
  /\ Reading /\ nextchar = Null
  /\ Type(argv[optind]) = 1
  /\ nextchar' = Tail(argv[optind])
  /\ UNCHANGED <<given, from, argv, optind, optnum, got, outcome>>

Leave ==
  /\ Reading /\ nextchar = <<>>
  /\ cmdopt_next
  /\ UNCHANGED <<given, from, argv, optnum, got, outcome>>

\* cmdopt_search() for a letter that takes no argument or is unknown.
Letter(label) ==
  /\ \/ label \in Letters /\ ShortOptions[label] = 0 /\ Return(label, Null)
     \/ label \notin Letters \cup {"-"} /\ Return("?", Null)
  /\ nextchar' = Tail(nextchar)
  /\ UNCHANGED <<given, from, argv, optind, optnum>>

\* Mutant: takes whatever stands next in argv.
AnythingNext(label) ==
  /\ label \in Letters /\ ShortOptions[label] > 0
  /\ IF Tail(nextchar) # <<>> THEN cmdopt_next /\ Return(label, Tail(nextchar))
     ELSE IF optind < Len(argv)
     THEN Return(label, argv[optind + 1]) /\ optind' = optind + 2 /\ nextchar' = Null
     ELSE cmdopt_next /\ Return(":", Null)
  /\ UNCHANGED <<given, from, argv, optnum>>

\* cmdopt_search() with cmdopt_getopt(): the argument is what follows in this
\* argument of the command line, or the next one that is not an operand moved
\* away.
LetterWithArgument(label) ==
  /\ label \in Letters /\ ShortOptions[label] > 0
  /\ \/ Tail(nextchar) # <<>> /\ cmdopt_next /\ Return(label, Tail(nextchar))
     \/ /\ Tail(nextchar) = <<>> /\ optind + 1 < optnum
        /\ Return(label, argv[optind + 1])
        /\ optind' = optind + 2 /\ nextchar' = Null
     \/ /\ Tail(nextchar) = <<>> /\ optind + 1 = optnum
        /\ Return(IF ShortOptions[label] = 2 THEN label ELSE ":", Null)
        /\ optind' = optind + 1
        /\ nextchar' = IF optnum <= Len(argv) THEN argv[optnum] ELSE Null
  /\ UNCHANGED <<given, from, argv, optnum>>

\* Mutant: leaves the operands after "--" where they are.
LeftInPlace(a, i, n) == a

\* argv after the loop in cmdopt_search() that shifts what is left from i on.
AllShifted(a, i, n) ==
  [k \in DOMAIN a |->
     IF k < i THEN a[k]
     ELSE IF k + n <= Len(a) THEN a[k + n] ELSE a[k + n - Len(a) + i - 1]]

\* "--", or a dash among the letters: the rest are operands.
Dash ==
  /\ argv' = AllShifted(argv, optind + 1, optnum - optind - 1)
  /\ from' = AllShifted(from, optind + 1, optnum - optind - 1)
  /\ cmdopt_next
  /\ optnum' = optind + 1
  /\ outcome' = "done"
  /\ UNCHANGED <<given, got>>

Short ==
  /\ Reading /\ nextchar \notin {Null, <<>>}
  /\ \/ Letter(Head(nextchar))
     \/ LetterWithArgument(Head(nextchar))
     \/ Head(nextchar) = "-" /\ Dash

\* cmdopt_search_long(), with cmdopt_getopt_long() for what the option is given.
Long ==
  /\ Reading /\ nextchar = Null
  /\ Type(argv[optind]) = 2
  /\ LET text == SubSeq(argv[optind], 3, Len(argv[optind]))
         n == NameLength(text)
         value == SubSeq(text, n + 2, Len(text))
         option == LongOptions[First(Matches(text))]
     IN  \/ Matches(text) = {} /\ Return("?", Null) /\ cmdopt_next
         \/ /\ Matches(text) # {} /\ n < Len(text)
            /\ Return(IF option.has_arg = 1 THEN option.label ELSE "?", value)
            /\ cmdopt_next
         \/ /\ Matches(text) # {} /\ n = Len(text) /\ option.has_arg = 0
            /\ Return(option.label, Null)
            /\ nextchar' = <<>> /\ optind' = optind
         \/ /\ Matches(text) # {} /\ n = Len(text) /\ option.has_arg = 1
            /\ IF optind + 1 < optnum
               THEN Return(option.label, argv[optind + 1]) /\ optind' = optind + 2
               ELSE Return(":", Null) /\ optind' = optind + 1
            /\ nextchar' = Null
  /\ UNCHANGED <<given, from, argv, optnum>>

\* cmdopt_main() returns -1.
Finish ==
  /\ outcome = "reading" /\ optind >= optnum
  /\ outcome' = "done"
  /\ UNCHANGED <<given, from, argv, optind, optnum, nextchar, got>>

Next == Operand \/ Enter \/ Leave \/ Short \/ Long \/ Finish

Spec == Init /\ [][Next]_vars
-----------------------------------------------------------------------------
(***************************************************************************)
(* What a command line means, without argv being changed.                  *)
(***************************************************************************)
Stop(end) == [got |-> <<>>, operands |-> <<>>, end |-> end]

With(labels, rest) == [rest EXCEPT !.got = labels \o @]

\* An option with its argument, and then what the rest means.
Option(label, arg, rest) ==
  With(<< <<label, arg>> >>,
       IF <<label, arg>> \in Refused THEN Stop("failed")
       ELSE IF label = "h" THEN Stop("help") ELSE rest)

\* The letters after which reading goes on with the next letter.
Flag(c) ==
  c \in Letters /\ ShortOptions[c] = 0 /\ c # "h" /\ <<c, Null>> \notin Refused

\* What argument i of list means from its letter p on, if it is not a flag, and
\* all that follows it, when mean says what the later arguments mean.
LetterMeans(list, mean, i, p) ==
  LET arg == list[i]
  IN  IF arg[p] = "-" THEN
        [Stop("done") EXCEPT !.operands = SubSeq(list, i + 1, Len(list))]
      ELSE IF arg[p] \notin Letters THEN Stop("failed")
      ELSE IF ShortOptions[arg[p]] = 0 THEN Option(arg[p], Null, mean[i + 1])
      ELSE IF p < Len(arg) THEN Option(arg[p], SubSeq(arg, p + 1, Len(arg)), mean[i + 1])
      ELSE IF i < Len(list) THEN Option(arg[p], list[i + 1], mean[i + 2])
      ELSE IF ShortOptions[arg[p]] = 2 THEN Option(arg[p], Null, mean[i + 1])
      ELSE Stop("failed")

\* The same from letter p on, whatever it is: the flags up to the first letter
\* that is not a flag, and that one.
LettersMean(list, mean, i, p) ==
  LET arg == list[i]
      stops == { k \in p .. Len(arg) : ~Flag(arg[k]) }
      Flags(end) == [j \in 1 .. end - p |-> <<arg[j + p - 1], Null>>]
  IN  IF stops = {} THEN With(Flags(Len(arg) + 1), mean[i + 1])
      ELSE With(Flags(First(stops)), LetterMeans(list, mean, i, First(stops)))

LongMeans(list, mean, i) ==
  LET text == SubSeq(list[i], 3, Len(list[i]))
      n == NameLength(text)
      long == LongOptions[First(Matches(text))]
  IN  IF Matches(text) = {} THEN Stop("failed")
      ELSE IF n < Len(text) THEN
        IF long.has_arg = 0 THEN Stop("failed")
        ELSE Option(long.label, SubSeq(text, n + 2, Len(text)), mean[i + 1])
      ELSE IF long.has_arg = 0 THEN Option(long.label, Null, mean[i + 1])
      ELSE IF i = Len(list) THEN Stop("failed")
      ELSE Option(long.label, list[i + 1], mean[i + 2])

ArgumentMeans(list, mean, i) ==
  CASE Type(list[i]) = 0 -> [mean[i + 1] EXCEPT !.operands = <<list[i]>> \o @]
    [] Type(list[i]) = 1 -> LettersMean(list, mean, i, 2)
    [] Type(list[i]) = 2 -> LongMeans(list, mean, i)

Meanings(list) ==
  LET mean[i \in 1 .. Len(list) + 1] ==
        IF i > Len(list) THEN Stop("done") ELSE ArgumentMeans(list, mean, i)
  IN  mean

Meaning(list) == Meanings(list)[1]

\* The tool is given the options that were typed with their arguments, in the
\* order they were typed, and the operands, in their order, follow them in argv,
\* wherever they were typed: shifting loses, repeats or reorders nothing, and an
\* operand that was moved away is never read as an option or as its argument.
ReadsAsMeant ==
  outcome # "reading" =>
    LET meant == Meaning(given)
    IN  /\ outcome = meant.end /\ got = meant.got
        /\ outcome = "done" => SubSeq(argv, optind, Len(argv)) = meant.operands

\* argv is always what was typed in another order: what has been read is in
\* front in the order it was typed, the operands moved away are behind in the
\* order they were typed, and what has not been read stands between as it was
\* typed and was typed after all of those.
ArgvInOrder ==
  /\ argv = [i \in DOMAIN given |-> given[from[i]]]
  /\ \A i, j \in DOMAIN given :
       /\ i # j => from[i] # from[j]
       /\ i < j /\ (j < optind \/ optnum <= i) => from[i] < from[j]
  /\ outcome = "reading" =>
       \A i \in optind .. optnum - 1 : from[i] = i + (Len(given) + 1 - optnum)
=============================================================================
