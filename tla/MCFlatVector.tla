---------------------------- MODULE MCFlatVector ----------------------------
(***************************************************************************)
(* Short lists of small numbers in words of eight bits (a 64-bit build,    *)
(* with UInt32 as four bits) and of four bits (a 32-bit build).            *)
(***************************************************************************)
EXTENDS FlatVector

MCValues == {0, 1, 2, 5, 15}

MCLists == UNION {[1 .. len -> MCValues] : len \in 0 .. 5}

MCBuilds == {[word |-> 8, pad |-> 1], [word |-> 4, pad |-> 2]}
=============================================================================
