----------------------------- MODULE MCExaminer -----------------------------
(* Instances of Examiner for TLC.                                          *)
EXTENDS Examiner, TLC
CONSTANTS r1, r2
=============================================================================
