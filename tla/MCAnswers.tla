------------------------------ MODULE MCAnswers ------------------------------
(* Instances of AnswerStream for TLC.                                      *)
EXTENDS AnswerStream, TLC
CONSTANTS q1, q2
=============================================================================
