------------------------------ MODULE MCLosSem ------------------------------
(***************************************************************************)
(* Small instances of LosSem for TLC.                                      *)
(***************************************************************************)
EXTENDS LosSem

MCFreeOrder   == SetToSeq(Task \ {Idle})
MCUnusedOrder == SetToSeq(Sem)
=============================================================================
