--------------------------- MODULE MCCatalogCrawl ---------------------------
(* Instances of CatalogCrawl for TLC. *)
EXTENDS CatalogCrawl

CONSTANTS main, feature, f0, f1, f2, c1, c2, c3

(* f1 has two chunks, so that a step can take one without the other; f2 has *)
(* one; f0 is an empty file.  c2 replaces f1 and c3 keeps both.             *)
TwoChunks == [f \in {f0, f1, f2} |-> CASE f = f0 -> 0 [] f = f1 -> 2 [] f = f2 -> 1]
Trees == [c \in Commits |->
             CASE c = c1 -> {f1} [] c = c2 -> {f0, f2} [] c = c3 -> {f1, f2}]
NoSearchableText == {<<f2, 1>>}

AllSelections == (SUBSET Methods) \ {{}}
VectorOnly == {{"vector"}}

Everywhere == CrawlPhases \cup PurgePhases
AnyError == {"sentinel_read", "file_read", "label_add", "embed", "upload",
             "cleanup", "fts"}

(* Faults that leave no file with some of its rows edited and others not.   *)
BetweenRowEdits == {"classify", "reassign", "fts", "fts_manifest", "finalize", "purge_fts"}
BetweenRowErrors == {"sentinel_read", "fts"}

(* The one fault of the violation run.                                      *)
OnlyUpload == {"upload"}
NoFault == {}
=============================================================================
