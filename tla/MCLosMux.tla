------------------------------ MODULE MCLosMux ------------------------------
(***************************************************************************)
(* Small instances of LosMux for TLC.                                      *)
(***************************************************************************)
EXTENDS LosMux

MCFreeOrder   == SetToSeq(Task \ {Idle})
MCUnusedOrder == SetToSeq(Mux)
=============================================================================
