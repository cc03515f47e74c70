------------------------------ MODULE MCStream ------------------------------
(***************************************************************************)
(* Stream with one call and every handler of up to MaxFrames responses.    *)
(***************************************************************************)
EXTENDS Stream, TLC

CONSTANT s1

\* Every handler of up to MaxFrames responses.
AllPlans == [n : 0..MaxFrames, ok : BOOLEAN]
=============================================================================
