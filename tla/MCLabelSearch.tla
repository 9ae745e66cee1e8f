--------------------------- MODULE MCLabelSearch ---------------------------
(* Instances of LabelSearch for TLC: the crawls of MCCatalogCrawl with a   *)
(* search beside them.                                                     *)
EXTENDS LabelSearch, MCCatalogCrawl

\* f0 < f1 < f2, then by chunk.
RowIdBefore(a, b) ==
    \/ <<a[1], b[1]>> \in {<<f0, f1>>, <<f0, f2>>, <<f1, f2>>}
    \/ a[1] = b[1] /\ a[2] < b[2]

\* c2 keeps f2 and has f0 for f1: until the cleanup the label has one row more
\* than the candidate window takes.
OneRowEach == [f \in {f0, f1, f2} |-> 1]
TwoTrees == [c \in {c1, c2} |-> IF c = c1 THEN {f1, f2} ELSE {f0, f2}]
=============================================================================
