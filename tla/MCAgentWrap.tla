---------------------------- MODULE MCAgentWrap ----------------------------
(***************************************************************************)
(* Two agents, queries with and without a NUL.                             *)
(***************************************************************************)
EXTENDS AgentWrap

CONSTANTS w1, w2

MCWrappers == {w1, w2}
MCTexts == { <<1, 2>>, <<1, 0, 2>> }
MCLengths == {-1, 1, 9}
MCIds == {-1, 2}
=============================================================================
