----------------------------- MODULE MCLosEvent -----------------------------
(***************************************************************************)
(* Small instances of LosEvent for TLC.                                    *)
(***************************************************************************)
EXTENDS LosEvent

MCFreeOrder == SetToSeq(Task \ {Idle})
=============================================================================
