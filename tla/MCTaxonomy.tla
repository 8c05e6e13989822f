----------------------------- MODULE MCTaxonomy -----------------------------
(* Instances of Taxonomy for TLC.  Ids, names and papers are only compared *)
(* for equality and no id is handed out twice, so each set is symmetric.   *)
EXTENDS TopicWalks, TLC

Symmetry == Permutations(Topics) \cup Permutations(Names)
            \cup Permutations(Papers) \cup Permutations(Editors)
=============================================================================
