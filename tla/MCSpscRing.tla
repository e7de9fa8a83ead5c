----------------------------- MODULE MCSpscRing -----------------------------
(***************************************************************************)
(* The instance of SpscRing that TLC checks: its constants are given in    *)
(* MCSpscRing.cfg.                                                         *)
(***************************************************************************)
EXTENDS SpscRing
=============================================================================
