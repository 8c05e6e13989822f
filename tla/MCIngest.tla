------------------------------ MODULE MCIngest ------------------------------
(* Instances of Ingest for TLC.                                            *)
EXTENDS Ingest

CONSTANTS j1, j2, p1

\* An upload and a URL submission of the same PDF.
MixedKind == [j \in Jobs |-> IF j = j1 THEN "upload" ELSE "url"]

\* URL submissions only.
UrlKind == [j \in Jobs |-> "url"]

OnePdf == [j \in Jobs |-> p1]
=============================================================================
