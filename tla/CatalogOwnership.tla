-------------------------- MODULE CatalogOwnership --------------------------
(***************************************************************************)
(* What the writer locks promise (docs/design/concurrency.md, "writers are *)
(* serialized"): an operation owns a catalog, or all of them, from its     *)
(* first write to its last; nobody else writes to a catalog that is owned; *)
(* and a write builds on everything written before it.                     *)
(***************************************************************************)
EXTENDS Naturals

CONSTANTS Procs, Catalogs, NULL

VARIABLES owner,    \* the operation that may write to each catalog
          content   \* number of writes each catalog has taken

Init ==
    /\ owner = [c \in Catalogs |-> NULL]
    /\ content = [c \in Catalogs |-> 0]

Begin(p, S) ==
    /\ \A c \in S : owner[c] = NULL
    /\ owner' = [c \in Catalogs |-> IF c \in S THEN p ELSE owner[c]]
    /\ UNCHANGED content

Write(p) ==
    /\ \E c \in Catalogs : owner[c] = p
    /\ content' = [c \in Catalogs |-> IF owner[c] = p THEN content[c] + 1 ELSE content[c]]
    /\ UNCHANGED owner

End(p) ==
    /\ owner' = [c \in Catalogs |-> IF owner[c] = p THEN NULL ELSE owner[c]]
    /\ UNCHANGED content

Next == \E p \in Procs :
    \/ \E S \in {{c} : c \in Catalogs} \cup {Catalogs} : Begin(p, S)
    \/ Write(p)
    \/ End(p)

Spec == Init /\ [][Next]_<<owner, content>>
=============================================================================
