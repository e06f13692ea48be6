------------------------------ MODULE MCLosTask ------------------------------
(***************************************************************************)
(* Small instances of LosTask for TLC.                                     *)
(***************************************************************************)
EXTENDS LosTask

(* g_stLosFreeTask: the TCBs in index order. *)
MCFreeOrder == SetToSeq(Task \ {Idle})

(* Between two rounds of osTaskScan every task is ready or has a reason not to be.  A
   LOS_TaskResume that nests in a round of a suspended task is lost: it finds the
   task delayed, and line 222 finds it suspended (v_resume.cfg).           *)
NoneStranded ==
  Round.at = "none" => \A t \in Task : k.status[t] \ {"TIMEOUT"} # {}
=============================================================================
