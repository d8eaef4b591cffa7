------------------------------- MODULE MCSort -------------------------------
(***************************************************************************)
(* Sort on all sequences of up to six of five texts, with a threshold so   *)
(* low that segments are partitioned again.                                *)
(***************************************************************************)
EXTENDS Sort

MCTexts == { <<>>, <<1>>, <<1, 1>>, <<1, 2>>, <<2>> }
=============================================================================
