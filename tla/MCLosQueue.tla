----------------------------- MODULE MCLosQueue -----------------------------
(***************************************************************************)
(* Small instances of LosQueue for TLC.                                    *)
(***************************************************************************)
EXTENDS LosQueue

CONSTANTS MCBlock    (* the blocks of the memory box *)

MCFreeOrder == SetToSeq(Task \ {Idle})
MCPoolOrder == SetToSeq(MCBlock)
MCWaitObj   == Queue \X {"read", "write", "mem"}
=============================================================================
