--------------------------- MODULE FtsIndexFolders ---------------------------
(***************************************************************************)
(* The Tantivy folders of one catalog's labels: the manifest that tells    *)
(* with which schema and tokenizer an index was built, the index's own     *)
(* meta.json and segment files, and the completion flag in label_metadata  *)
(* that vouches for them.  None of these is written together with another. *)
(*                                                                         *)
(* One writer at a time (WriterLocks) crawls a label or purges the         *)
(* catalog, unlinking a folder file by file; a search reads without any    *)
(* lock, one file after the other.                                         *)
(*                                                                         *)
(* Labels may contain `/`, so the folder of one label can lie inside the   *)
(* folder of another: feature/x inside feature.                            *)
(***************************************************************************)
EXTENDS Naturals, FiniteSets

CONSTANTS Labels,
          Inner,        \* labels whose folders lie inside the folder of each label
          Rows,         \* rows with at least one searchable token
          Ids,          \* FTS_SCHEMA_ID and FTS_TOKENIZER_ID of the versions of the binary
          FirstIds,     \* of the version first installed
          Upgrades,     \* pairs of versions: the second can replace the first
          CrashPoints,  \* steps of a writer before which it may stop
          MaxCommands,  \* bound: crawls and purges started
          MaxFaults,    \* bound: writers stopped
          NULL

WriterSteps == {"open", "remove", "create", "manifest", "manifest_text",
                "reconcile", "publish", "purge"}
ReaderSteps == {"state", "manifest", "open", "reader"}
Answers == {"none", "no_index", "stale", "error", "found"}

ASSUME FoldersAssumption ==
    /\ Inner \in [Labels -> SUBSET Labels]
    /\ FirstIds \in Ids
    /\ {"missing", "truncated"} \cap Ids = {}
    /\ Upgrades \subseteq Ids \X Ids
    /\ CrashPoints \subseteq WriterSteps
    /\ MaxCommands \in Nat /\ MaxFaults \in Nat
    /\ NULL \notin Labels

VARIABLES
    (* on disk *)
    manifest,   \* manifest.json of each label: ids, "missing" or "truncated"
    metaJson,   \* labels whose folder has a meta.json
    indexed,    \* rows of the last commit, which meta.json lists
    segments,   \* rows in the segment files
    builtWith,  \* ids of the binary that created the index
    flag,       \* label_metadata: "none", "incomplete" or "complete" for FTS
    live,       \* the label's rows in the chunks table
    installed,  \* ids compiled into the binary in use
    (* the writer *)
    pc, label,
    doomed,     \* files remove_dir_all has found and not unlinked yet
    committed,  \* this crawl has committed its reconciliation
    (* the search *)
    rpc, rlabel, answer,
    (* bounds *)
    commands, faults

index  == <<manifest, metaJson, indexed, segments, builtWith>>
writer == <<pc, label, doomed, committed>>
reader == <<rpc, rlabel, answer>>
bounds == <<commands, faults>>
vars   == <<index, flag, live, installed, writer, reader, bounds>>

TypeOK ==
    /\ manifest \in [Labels -> Ids \cup {"missing", "truncated"}]
    /\ metaJson \subseteq Labels
    /\ indexed \in [Labels -> SUBSET Rows]
    /\ segments \in [Labels -> SUBSET Rows]
    /\ builtWith \in [Labels -> Ids]
    /\ flag \in [Labels -> {"none", "incomplete", "complete"}]
    /\ live \in [Labels -> SUBSET Rows]
    /\ installed \in Ids
    /\ pc \in WriterSteps \cup {"idle"}
    /\ label \in Labels \cup {NULL}
    /\ label = NULL <=> pc \in {"idle", "purge"}
    /\ doomed \subseteq Labels \X {"manifest", "meta", "segments"}
    /\ doomed # {} => pc \in {"remove", "purge"}
    /\ committed \in BOOLEAN
    /\ rpc \in ReaderSteps \cup {"idle"}
    /\ rlabel \in Labels \cup {NULL}
    /\ rpc # "idle" => rlabel \in Labels /\ answer = "none"
    /\ answer \in Answers
    /\ commands \in Nat /\ faults \in Nat

Init ==
    /\ manifest = [l \in Labels |-> "missing"]
    /\ metaJson = {}
    /\ indexed = [l \in Labels |-> {}]
    /\ segments = [l \in Labels |-> {}]
    /\ builtWith = [l \in Labels |-> FirstIds]
    /\ flag = [l \in Labels |-> "none"]
    /\ live = [l \in Labels |-> {}]
    /\ installed = FirstIds
    /\ pc = "idle" /\ label = NULL /\ doomed = {} /\ committed = FALSE
    /\ rpc = "idle" /\ rlabel = NULL /\ answer = "none"
    /\ commands = 0 /\ faults = 0

-----------------------------------------------------------------------------
(* What the folder of a label looks like *)

HasTantivyState(l) == l \in metaJson \/ segments[l] # {}

(* Mutant: ids are not compared. *)
AnyIds(l) ==
    CASE manifest[l] = "missing"   -> "missing"
      [] manifest[l] = "truncated" -> "unreadable"
      [] OTHER                     -> "present"

ManifestRead(l) ==
    CASE manifest[l] = "missing"   -> "missing"
      [] manifest[l] = "truncated" -> "unreadable"
      [] manifest[l] = installed   -> "present"
      [] OTHER                     -> "id_mismatch"

(* Tantivy opens an index by its meta.json, and a reader the segments that  *)
(* meta.json lists.                                                         *)
Opens(l)   == l \in metaJson
Healthy(l) == Opens(l) /\ indexed[l] \subseteq segments[l]

Exists(file) ==
    CASE file[2] = "manifest" -> manifest[file[1]] # "missing"
      [] file[2] = "meta"     -> file[1] \in metaJson
      [] file[2] = "segments" -> segments[file[1]] # {}

FilesOf(ls) == {file \in ls \X {"manifest", "meta", "segments"} : Exists(file)}

-----------------------------------------------------------------------------
(* The writer: crawls with FTS in their selection, and purge --catalog *)

WriterStops ==
    /\ pc' = "idle"
    /\ label' = NULL
    /\ doomed' = {}
    /\ committed' = FALSE

(* The crawl has flagged the label incomplete and changed its rows; the FTS *)
(* phase begins.                                                            *)
StartCrawl(l, contents) ==
    /\ pc = "idle"
    /\ commands < MaxCommands
    /\ commands' = commands + 1
    /\ flag' = [flag EXCEPT ![l] = "incomplete"]
    /\ live' = [live EXCEPT ![l] = contents]
    /\ pc' = "open"
    /\ label' = l
    /\ UNCHANGED <<index, installed, doomed, committed, reader, faults>>

(* Mutants: only one of the two cases is seen. *)
RebuildOnMismatch(l) == ManifestRead(l) = "id_mismatch"
RebuildOnMissing(l) == ManifestRead(l) = "missing" /\ HasTantivyState(l)

(* open_or_create goes by the manifest first. *)
MustRebuild(l) ==
    \/ ManifestRead(l) = "id_mismatch"
    \/ ManifestRead(l) = "missing" /\ HasTantivyState(l)

RemoveForRebuild ==
    /\ pc = "open"
    /\ MustRebuild(label)
    /\ doomed' = FilesOf({label} \cup Inner[label])
    /\ pc' = "remove"
    /\ UNCHANGED <<index, flag, live, installed, label, committed, reader, bounds>>

(* remove_dir_all unlinks in the order the directory lists.                 *)
RemoveFile(file) ==
    /\ pc \in {"remove", "purge"}
    /\ file \in doomed
    /\ doomed' = doomed \ {file}
    /\ LET l == file[1] IN
       CASE file[2] = "manifest" ->
                /\ manifest' = [manifest EXCEPT ![l] = "missing"]
                /\ UNCHANGED <<metaJson, indexed, segments>>
         [] file[2] = "meta" ->
                /\ metaJson' = metaJson \ {l}
                /\ indexed' = [indexed EXCEPT ![l] = {}]
                /\ UNCHANGED <<manifest, segments>>
         [] file[2] = "segments" ->
                /\ segments' = [segments EXCEPT ![l] = {}]
                /\ UNCHANGED <<manifest, metaJson, indexed>>
    /\ UNCHANGED <<builtWith, flag, live, installed, pc, label, committed, reader, bounds>>

FolderRemoved ==
    /\ pc = "remove"
    /\ doomed = {}
    /\ pc' = "create"
    /\ UNCHANGED <<index, flag, live, installed, label, doomed, committed, reader, bounds>>

CreateIndex ==
    /\ \/ pc = "create"
       \/ pc = "open" /\ ~MustRebuild(label) /\ ~HasTantivyState(label)
    /\ metaJson' = metaJson \cup {label}
    /\ indexed' = [indexed EXCEPT ![label] = {}]
    /\ builtWith' = [builtWith EXCEPT ![label] = installed]
    /\ pc' = "manifest"
    /\ UNCHANGED <<manifest, segments, flag, live, installed, label, doomed, committed,
                   reader, bounds>>

OpenIndex ==
    /\ pc = "open"
    /\ ~MustRebuild(label) /\ ManifestRead(label) # "unreadable"
    /\ Opens(label)
    /\ pc' = "reconcile"
    /\ UNCHANGED <<index, flag, live, installed, label, doomed, committed, reader, bounds>>

(* The phase ends in an error and the label stays incomplete: a manifest    *)
(* that cannot be read, an index that does not open, segments that are gone.*)
Refused(l) ==
    /\ HasTantivyState(l)
    /\ \/ ManifestRead(l) = "unreadable"
       \/ ~MustRebuild(l) /\ ~Opens(l)

Refuse ==
    /\ \/ pc = "open" /\ Refused(label)
       \/ pc = "reconcile" /\ ~Healthy(label)
    /\ WriterStops
    /\ UNCHANGED <<index, flag, live, installed, reader, bounds>>

(* std::fs::write truncates the file and then writes the text.              *)
TruncateManifest ==
    /\ pc = "manifest"
    /\ manifest' = [manifest EXCEPT ![label] = "truncated"]
    /\ pc' = "manifest_text"
    /\ UNCHANGED <<metaJson, indexed, segments, builtWith, flag, live, installed, label, doomed,
                   committed, reader, bounds>>

WriteManifestText ==
    /\ pc = "manifest_text"
    /\ manifest' = [manifest EXCEPT ![label] = installed]
    /\ pc' = IF committed THEN "publish" ELSE "reconcile"
    /\ UNCHANGED <<metaJson, indexed, segments, builtWith, flag, live, installed, label, doomed,
                   committed, reader, bounds>>

(* Mutant: rows the label lost stay in the index. *)
WithoutRemovals(found, rows) == found \cup rows

(* The indexed rows, less those the label lost, with those it gained.       *)
Reconciled(found, rows) == (found \ (found \ rows)) \cup (rows \ found)

ReconcileAndCommit ==
    /\ pc = "reconcile"
    /\ Healthy(label)
    /\ indexed' = [indexed EXCEPT ![label] = Reconciled(indexed[label], live[label])]
    /\ segments' = [segments EXCEPT ![label] = Reconciled(indexed[label], live[label])]
    /\ committed' = TRUE
    /\ pc' = "manifest"
    /\ UNCHANGED <<manifest, metaJson, builtWith, flag, live, installed, label, doomed,
                   reader, bounds>>

(* update_final_metadata *)
Publish ==
    /\ pc = "publish"
    /\ flag' = [flag EXCEPT ![label] = "complete"]
    /\ WriterStops
    /\ UNCHANGED <<index, live, installed, reader, bounds>>

(* The rows and the metadata of the catalog go first, then its folder.      *)
StartPurge ==
    /\ pc = "idle"
    /\ commands < MaxCommands
    /\ commands' = commands + 1
    /\ flag' = [l \in Labels |-> "none"]
    /\ live' = [l \in Labels |-> {}]
    /\ doomed' = FilesOf(Labels)
    /\ pc' = "purge"
    /\ UNCHANGED <<index, installed, label, committed, reader, faults>>

EndPurge ==
    /\ pc = "purge"
    /\ doomed = {}
    /\ WriterStops
    /\ UNCHANGED <<index, flag, live, installed, reader, bounds>>

(* The process dies, or an operation fails and the command returns.         *)
Interrupted ==
    /\ pc \in CrashPoints
    /\ faults < MaxFaults
    /\ faults' = faults + 1
    /\ WriterStops
    /\ UNCHANGED <<index, flag, live, installed, reader, commands>>

(* Another version of the binary is installed while no command runs.        *)
Upgrade(ids) ==
    /\ pc = "idle" /\ rpc = "idle"
    /\ <<installed, ids>> \in Upgrades
    /\ installed' = ids
    /\ UNCHANGED <<index, flag, live, writer, reader, bounds>>

-----------------------------------------------------------------------------
(* The search: no locks, one file after the other *)

(* An incomplete method is queried only when --retrieval names it.          *)
StartSearch(l, requested) ==
    /\ rpc = "idle"
    /\ flag[l] = "complete" \/ (flag[l] = "incomplete" /\ requested)
    /\ rpc' = "state"
    /\ rlabel' = l
    /\ answer' = "none"
    /\ UNCHANGED <<index, flag, live, installed, writer, bounds>>

Goes(step) == rpc' = step /\ UNCHANGED <<rlabel, answer>>
Ends(a) == rpc' = "idle" /\ answer' = a /\ UNCHANGED rlabel

CheckState ==
    /\ rpc = "state"
    /\ IF HasTantivyState(rlabel) THEN Goes("manifest") ELSE Ends("no_index")
    /\ UNCHANGED <<index, flag, live, installed, writer, bounds>>

CheckManifest ==
    /\ rpc = "manifest"
    /\ IF ManifestRead(rlabel) = "present" THEN Goes("open") ELSE Ends("stale")
    /\ UNCHANGED <<index, flag, live, installed, writer, bounds>>

(* A missing meta.json is NotFound, which open_existing takes for no index. *)
OpenForSearch ==
    /\ rpc = "open"
    /\ IF Opens(rlabel) THEN Goes("reader") ELSE Ends("no_index")
    /\ UNCHANGED <<index, flag, live, installed, writer, bounds>>

(* A missing segment is NotFound too, but reader() is not asked why it      *)
(* failed.  Once the segments are mapped nothing can disturb the search.    *)
CreateReader ==
    /\ rpc = "reader"
    /\ IF Healthy(rlabel) THEN Ends("found") ELSE Ends("error")
    /\ UNCHANGED <<index, flag, live, installed, writer, bounds>>

-----------------------------------------------------------------------------

WriterStep ==
    \/ RemoveForRebuild \/ FolderRemoved \/ CreateIndex \/ OpenIndex \/ Refuse
    \/ TruncateManifest \/ WriteManifestText \/ ReconcileAndCommit \/ Publish
    \/ EndPurge
    \/ \E file \in doomed : RemoveFile(file)

ReaderStep == CheckState \/ CheckManifest \/ OpenForSearch \/ CreateReader

Next ==
    \/ \E l \in Labels, contents \in SUBSET Rows : StartCrawl(l, contents)
    \/ StartPurge
    \/ WriterStep
    \/ Interrupted
    \/ \E ids \in Ids : Upgrade(ids)
    \/ \E l \in Labels, requested \in BOOLEAN : StartSearch(l, requested)
    \/ ReaderStep

Spec == Init /\ [][Next]_vars

(* A command that runs keeps running; none has to be given.                 *)
FairSpec == Spec /\ WF_vars(WriterStep) /\ WF_vars(ReaderStep)

-----------------------------------------------------------------------------
(* Properties *)

(* Manifest and index are created, rebuilt and removed in separate steps;   *)
(* still a readable manifest never names other ids than the index beside it *)
(* was built with, so that comparing ids is enough to tell a stale index.   *)
ManifestTellsIndex ==
    \A l \in Labels : manifest[l] \in Ids /\ HasTantivyState(l) => manifest[l] = builtWith[l]

(* A label whose FTS method is complete has an index that opens, holds      *)
(* exactly the label's rows, and can be told by its manifest.               *)
CompleteHasIndex ==
    \A l \in Labels : flag[l] = "complete" =>
        /\ Healthy(l)
        /\ indexed[l] = live[l]
        /\ manifest[l] = builtWith[l]

(* A search never queries an index of other ids than its own, although an   *)
(* index may be removed and rebuilt between its reads of the folder.        *)
FoundIsCompatibleStep ==
    answer # "found" /\ answer' = "found" => builtWith[rlabel] = installed
FoundIsCompatible == [][FoundIsCompatibleStep]_vars

(* What docs/design/crawl.md:92 calls corruption that should reach a human. *)
Corrupt(l) ==
    /\ HasTantivyState(l)
    /\ \/ ManifestRead(l) = "unreadable"
       \/ ManifestRead(l) = "present" /\ ~Healthy(l)

(* Whatever else an interrupted crawl or purge left in a folder, and        *)
(* whichever version left it, the next crawl of the label completes it.     *)
CrawlRecovers ==
    \A l \in Labels :
        (pc = "open" /\ label = l /\ faults = MaxFaults /\ ~Corrupt(l))
            ~> flag[l] = "complete"

=============================================================================
