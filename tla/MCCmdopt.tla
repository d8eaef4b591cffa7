------------------------------ MODULE MCCmdopt ------------------------------
(***************************************************************************)
(* The options of marisa-build, with short names and without those that    *)
(* are like the ones kept, and an option -x that may have an argument,     *)
(* which no tool has.                                                      *)
(***************************************************************************)
EXTENDS Cmdopt

Word == <<"1">>

MCShortOptions == [c \in {"n", "t", "o", "h", "x"} |->
  CASE c \in {"n", "o"} -> 1 [] c \in {"t", "h"} -> 0 [] c = "x" -> 2]

Entry(name, has_arg, label) == [name |-> name, has_arg |-> has_arg, label |-> label]

MCLongOptions ==
  << Entry(<<"m", "x">>, 1, "n"), Entry(<<"t", "x">>, 0, "t"),
     Entry(<<"o", "t">>, 1, "o"), Entry(<<"h", "p">>, 0, "h") >>

MCArguments ==
  { Word, <<>>, <<"-">>, <<"-", "-">>, <<"-", "t">>, <<"-", "t", "o">>, <<"-", "o", "t">>,
    <<"-", "n", "1">>, <<"-", "n">>, <<"-", "t", "-">>, <<"-", "x">>, <<"-", "h">>,
    <<"-", "-", "o">>, <<"-", "-", "o", "t", "=", "1">>, <<"-", "-", "t">>,
    <<"-", "-", "t", "=">>, <<"-", "-", "=">>, <<"-", "q">> }

\* The only number there is to limit the tries by is one.
MCRefused == {"n"} \X (MCArguments \ {Word})
=============================================================================
