---------------------------- MODULE MCLosSignal -----------------------------
(***************************************************************************)
(* Small instances of LosSignal for TLC.                                   *)
(***************************************************************************)
EXTENDS LosSignal

MCFreeOrder == SetToSeq(Task \ {Idle})
=============================================================================
