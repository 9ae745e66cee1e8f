---------------------------- MODULE UploadPhase -----------------------------
(***************************************************************************)
(* What a crawl expects of its upload phase, whichever method it runs      *)
(* (docs/design/crawl.md; CatalogCrawl takes it as TakeUpload, UpsertBatch,*)
(* MarkComplete and EmbedFails): a chunk is stored or dropped, a file is   *)
(* marked once all its chunks are stored, and the phase succeeds only when *)
(* nothing is left.                                                        *)
(***************************************************************************)
CONSTANTS Chunks, Files, ChunksOf(_)

VARIABLES stored, dropped, marked, result

Init == stored = {} /\ dropped = {} /\ marked = {} /\ result = "running"

Drop(c) ==
    /\ result = "running"
    /\ c \in Chunks \ stored
    /\ dropped' = dropped \cup {c}
    /\ UNCHANGED <<stored, marked, result>>

Store(S) ==
    /\ result = "running"
    /\ S \cap dropped = {}
    /\ stored' = stored \cup S
    /\ UNCHANGED <<dropped, marked, result>>

Mark(S) ==
    /\ result = "running"
    /\ \A f \in S : ChunksOf(f) \subseteq stored
    /\ marked' = marked \cup S
    /\ UNCHANGED <<stored, dropped, result>>

Succeed ==
    /\ result = "running"
    /\ stored \cup dropped = Chunks
    /\ marked = {f \in Files : ChunksOf(f) \subseteq stored}
    /\ result' = "ok"
    /\ UNCHANGED <<stored, dropped, marked>>

Fail ==
    /\ result = "running"
    /\ result' = "error"
    /\ UNCHANGED <<stored, dropped, marked>>

Next ==
    \/ \E c \in Chunks : Drop(c)
    \/ \E S \in SUBSET Chunks : Store(S)
    \/ \E S \in SUBSET Files : Mark(S)
    \/ Succeed
    \/ Fail

Spec == Init /\ [][Next]_<<stored, dropped, marked, result>>
=============================================================================
