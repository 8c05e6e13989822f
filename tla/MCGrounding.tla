----------------------------- MODULE MCGrounding -----------------------------
(* The instance of Grounding for TLC.                                      *)
EXTENDS Grounding, TLC

MCTargetPages == {-1, 1, 3, 6}
MCHeadingCounts == {<<0, 0, 0, 0, 0, 0>>, <<2, 0, 1, 0, 0, 0>>, <<0, 0, 0, 0, 0, 1>>}
MCReplies == {<<>>, <<1>>, <<2, 1>>, <<4, 4, 3>>, <<9, 2>>, <<1, 3, 4>>}
MCPageTexts == {<<900, 900, 900, 900, 900, 900>>, <<0, 900, 0, 900, 900, 900>>,
                <<0, 0, 0, 0, 0, 300>>, <<0, 0, 0, 0, 0, 0>>}
MCEvidence == {<<>>, <<300>>, <<900, 600>>, <<900, 950, 300>>, <<2500>>}
MCHistories == {<<>>, <<200, 0, 300, 100>>, <<200, 300, 100>>, <<500, 0, 900>>, <<900, 800, 700>>, <<900, 2500>>}
=============================================================================
