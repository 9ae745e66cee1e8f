------------------------- MODULE MCFtsIndexFolders -------------------------
(* Instances of FtsIndexFolders for TLC. *)
EXTENDS FtsIndexFolders

CONSTANTS main, feature, r1, r2, v1, v2

Flat == [l \in Labels |-> {}]

(* The folder of `main` lies in that of `feature`, as feature/x lies in     *)
(* feature.                                                                 *)
Nested == [l \in Labels |-> IF l = feature THEN {main} ELSE {}]

OneUpgrade == {<<v1, v2>>}

NoCrash == {}
=============================================================================
