---------------------------- MODULE CatalogCrawl ----------------------------
(***************************************************************************)
(* The crawl of one catalog, step by step, against the three stores it     *)
(* writes: the `chunks` table, the `label_metadata` table and the Tantivy  *)
(* index of each label.  `purge --catalog` is the other writer.            *)
(*                                                                         *)
(* Writers of one catalog exclude each other (module WriterLocks), so one  *)
(* command runs at a time; what makes the crawl hard is that its steps are *)
(* separate commits, that labels share rows, and that the process may stop *)
(* or a step fail between any two of them.                                 *)
(*                                                                         *)
(* A file here is a file_id: path, blob and catalog hashed together, so    *)
(* two versions of a path are two files.  Its chunks are the rows          *)
(* <<file, ordinal>>, and the first one is the sentinel.                   *)
(***************************************************************************)
EXTENDS Naturals, FiniteSets

CONSTANTS Labels,       \* label_ids of the catalog
          Files,        \* file_ids
          ChunkCount,   \* chunks the chunker makes of each file (0: empty file)
          Commits,      \* source values: resolved commits, working-dir sentinels
          Tree,         \* files of each source that pass the crawl configuration
          ZeroToken,    \* rows whose text has no searchable token
          Selections,   \* the --retrieval selections in use
          BatchSize,    \* UPSERT_BATCH_SIZE
          CrashPhases,  \* phases in which the process may be interrupted
          Errors,       \* operations that may return an error
          MaxCommands,  \* bound: commands started
          MaxFaults,    \* bound: crashes and errors
          NULL

Methods == {"vector", "fts"}

RowsOf(f) == {<<f, i>> : i \in 1..ChunkCount[f]}
Rows == UNION {RowsOf(f) : f \in Files}
FileOf(r) == r[1]
Sentinel(f) == <<f, 1>>

ASSUME ConstantsAssumption ==
    /\ ChunkCount \in [Files -> Nat]
    /\ Tree \in [Commits -> SUBSET Files]
    /\ ZeroToken \subseteq Rows
    /\ Selections \subseteq (SUBSET Methods) \ {{}}
    /\ BatchSize \in Nat \ {0}
    /\ MaxCommands \in Nat
    /\ MaxFaults \in Nat
    /\ NULL \notin Labels
    /\ NULL \notin Commits

VARIABLES
    (* the chunks table *)
    rows,         \* row_ids present
    labels,       \* active_label_ids of each row ({} for an absent row)
    vectors,      \* rows whose vector column is not NULL
    complete,     \* files whose sentinel row has file_complete = true
    (* the other stores *)
    meta,         \* label_metadata: the row of each label, or NULL
    ftsDocs,      \* rows in the last committed Tantivy index of each label
    (* the running command *)
    phase,        \* where it is; "idle" when none runs
    job,          \* its label, source and selection
    existing,     \* files taken by the sentinel fast path
    newFiles,     \* files to chunk and store
    touched,      \* touched_file_ids
    addFiles,     \* existing files whose chunks have not been read yet
    addRows,      \* rows of the file being labelled still without the label
    pending,      \* chunks not handed to storage yet
    batch,        \* chunks of the upload in progress
    queue,        \* those of them not upserted yet
    uploaded,     \* chunks of finished uploads
    marks,        \* files whose sentinel is to be marked complete
    cleanRows,    \* rows the label cleanup still has to visit
    failures,     \* kinds of per-item failure met: "label_add", "embed"
    succeeded,    \* methods whose phase succeeded
    reassigned,   \* label_reassignment_succeeded
    (* bounds *)
    commands, faults

table    == <<rows, labels, vectors, complete>>
stores   == <<table, meta, ftsDocs>>
labelAdd == <<addFiles, addRows>>
upload   == <<pending, batch, queue, uploaded, marks>>
results  == <<failures, succeeded, reassigned>>
locals   == <<job, existing, newFiles, touched, labelAdd, upload, cleanRows, results>>
bounds   == <<commands, faults>>
vars     == <<stores, phase, locals, bounds>>

CrawlPhases == {"classify", "label_add", "upload", "reassign", "cleanup",
                "fts", "fts_manifest", "finalize"}
PurgePhases == {"purge_labels", "purge_fts"}
Phases == {"idle"} \cup CrawlPhases \cup PurgePhases

Job == [label : Labels \cup {NULL}, source : Commits \cup {NULL},
        selection : SUBSET Methods]
NoJob == [label |-> NULL, source |-> NULL, selection |-> {}]

MetaRow == [vectorSource : Commits \cup {NULL}, vectorComplete : BOOLEAN,
            ftsSource : Commits \cup {NULL}, ftsComplete : BOOLEAN]

InVector == "vector" \in job.selection
InFts    == "fts" \in job.selection

LabelRows(l) == {r \in rows : l \in labels[r]}

ASSUME FaultsAssumption ==
    /\ CrashPhases \subseteq CrawlPhases \cup PurgePhases
    /\ Errors \subseteq {"sentinel_read", "file_read", "label_add", "embed",
                         "upload", "cleanup", "fts"}

-----------------------------------------------------------------------------

TypeOK ==
    /\ rows \subseteq Rows
    /\ labels \in [Rows -> SUBSET Labels]
    /\ \A r \in Rows \ rows : labels[r] = {}
    /\ vectors \subseteq rows
    /\ complete \subseteq {f \in Files : Sentinel(f) \in rows}
    /\ meta \in [Labels -> MetaRow \cup {NULL}]
    /\ ftsDocs \in [Labels -> SUBSET Rows]
    /\ phase \in Phases
    /\ job \in Job
    /\ phase \in CrawlPhases => job.label \in Labels /\ job.source \in Commits
    /\ existing \subseteq Files
    /\ newFiles \subseteq Files
    /\ touched \subseteq Files
    /\ addFiles \subseteq Files
    /\ addRows \subseteq rows
    /\ pending \subseteq Rows
    /\ batch \subseteq Rows
    /\ queue \subseteq batch
    /\ uploaded \subseteq Rows
    /\ marks \subseteq Files
    /\ cleanRows \subseteq rows
    /\ failures \subseteq {"label_add", "embed"}
    /\ succeeded \subseteq Methods
    /\ reassigned \in BOOLEAN
    /\ commands \in Nat
    /\ faults \in Nat

ProcessStart ==
    /\ existing = {} /\ newFiles = {} /\ touched = {}
    /\ addFiles = {} /\ addRows = {}
    /\ pending = {} /\ batch = {} /\ queue = {} /\ uploaded = {} /\ marks = {}
    /\ cleanRows = {}
    /\ failures = {} /\ succeeded = {} /\ reassigned = FALSE

Init ==
    /\ rows = {} /\ vectors = {} /\ complete = {}
    /\ labels = [r \in Rows |-> {}]
    /\ meta = [l \in Labels |-> NULL]
    /\ ftsDocs = [l \in Labels |-> {}]
    /\ phase = "idle"
    /\ job = NoJob
    /\ ProcessStart
    /\ commands = 0
    /\ faults = 0

(* The process ends, or dies: nothing of its memory survives. *)
EndProcess ==
    /\ phase' = "idle"
    /\ job' = NoJob
    /\ existing' = {} /\ newFiles' = {} /\ touched' = {}
    /\ addFiles' = {} /\ addRows' = {}
    /\ pending' = {} /\ batch' = {} /\ queue' = {} /\ uploaded' = {} /\ marks' = {}
    /\ cleanRows' = {}
    /\ failures' = {} /\ succeeded' = {} /\ reassigned' = FALSE

Fault(op) ==
    /\ op \in Errors
    /\ faults < MaxFaults
    /\ faults' = faults + 1

-----------------------------------------------------------------------------
(* Steps 1 to 3: publish the selection as unfinished, then classify.        *)

Unfinished(c, sel) ==
    [vectorSource   |-> IF "vector" \in sel THEN c ELSE NULL,
     vectorComplete |-> FALSE,
     ftsSource      |-> IF "fts" \in sel THEN c ELSE NULL,
     ftsComplete    |-> FALSE]

(* The preamble and write_in_progress_metadata: one upsert of the label.    *)
StartCrawl(l, c, sel) ==
    /\ phase = "idle"
    /\ commands < MaxCommands
    /\ commands' = commands + 1
    /\ meta' = [meta EXCEPT ![l] = Unfinished(c, sel)]
    /\ job' = [label |-> l, source |-> c, selection |-> sel]
    /\ phase' = "classify"
    /\ UNCHANGED <<table, ftsDocs, existing, newFiles, touched, labelAdd,
                   upload, cleanRows, results, faults>>

(* Mutant: a vector crawl does not ask whether the sentinel has a vector. *)
FastPathWithoutVector(f) == f \in complete

(* The fast path trusts the sentinel row alone. *)
FastPath(f) ==
    /\ f \in complete
    /\ InVector => Sentinel(f) \in vectors

(* A sentinel that cannot be read makes its file a new one. *)
ClassifyFiles ==
    /\ phase = "classify"
    /\ \E unread \in SUBSET Tree[job.source] :
          /\ \/ unread = {} /\ UNCHANGED faults
             \/ unread # {} /\ Fault("sentinel_read")
          /\ existing' = {f \in Tree[job.source] \ unread : FastPath(f)}
          /\ newFiles' = Tree[job.source] \ existing'
          /\ addFiles' = existing'
    /\ phase' = "label_add"
    /\ UNCHANGED <<stores, job, touched, addRows, upload, cleanRows, results, commands>>

-----------------------------------------------------------------------------
(* Step 4, fast path: add_label_to_existing_files, one update per row in    *)
(* ordinal order.  Failures are recorded and the loop goes on.              *)

(* Mutant: the label goes to the sentinel only. *)
SentinelToLabel(f) == {Sentinel(f)} \cap rows

RowsToLabel(f) == {r \in rows : FileOf(r) = f /\ job.label \notin labels[r]}

OpenExistingFile(f) ==
    /\ phase = "label_add"
    /\ addRows = {}
    /\ f \in addFiles
    /\ addFiles' = addFiles \ {f}
    /\ addRows' = RowsToLabel(f)
    /\ UNCHANGED <<stores, phase, job, existing, newFiles, touched, upload,
                   cleanRows, results, bounds>>

OpenExistingFileFails(f) ==
    /\ phase = "label_add"
    /\ addRows = {}
    /\ f \in addFiles
    /\ Fault("label_add")
    /\ addFiles' = addFiles \ {f}
    /\ failures' = failures \cup {"label_add"}
    /\ UNCHANGED <<stores, phase, job, existing, newFiles, touched, addRows,
                   upload, cleanRows, succeeded, reassigned, commands>>

NextAddRow(r) == r \in addRows /\ \A q \in addRows : r[2] <= q[2]

AddLabel(r) ==
    /\ phase = "label_add"
    /\ NextAddRow(r)
    /\ labels' = [labels EXCEPT ![r] = @ \cup {job.label}]
    /\ addRows' = addRows \ {r}
    /\ UNCHANGED <<rows, vectors, complete, meta, ftsDocs, phase, job, existing,
                   newFiles, touched, addFiles, upload, cleanRows, results, bounds>>

AddLabelFails(r) ==
    /\ phase = "label_add"
    /\ NextAddRow(r)
    /\ Fault("label_add")
    /\ addRows' = addRows \ {r}
    /\ failures' = failures \cup {"label_add"}
    /\ UNCHANGED <<stores, phase, job, existing, newFiles, touched, addFiles,
                   upload, cleanRows, succeeded, reassigned, commands>>

-----------------------------------------------------------------------------
(* Step 4, slow path: chunk the new files, then store their chunks.         *)

(* Mutant: only the files chunked by this crawl count as touched. *)
TouchedNewOnly(chunked) == {f \in chunked : RowsOf(f) # {}}

(* The files whose rows carry the label when the upload is over: those of   *)
(* the fast path and those that gave at least one chunk.                    *)
Touched(chunked) == existing \cup {f \in chunked : RowsOf(f) # {}}

(* A file that cannot be read, is not UTF-8 or cannot be chunked is warned  *)
(* about and left out: it is not touched and is no failure.                 *)
ChunkNewFiles ==
    /\ phase = "label_add"
    /\ addFiles = {} /\ addRows = {}
    /\ \E skipped \in SUBSET newFiles :
          /\ \/ skipped = {} /\ UNCHANGED faults
             \/ skipped # {} /\ Fault("file_read")
          /\ pending' = UNION {RowsOf(f) : f \in newFiles \ skipped}
          /\ touched' = Touched(newFiles \ skipped)
    /\ phase' = "upload"
    /\ UNCHANGED <<stores, job, existing, newFiles, labelAdd, batch, queue,
                   uploaded, marks, cleanRows, results, commands>>

(* A chunk the model cannot embed is dropped and counted. *)
EmbedFails(r) ==
    /\ phase = "upload"
    /\ InVector
    /\ r \in pending
    /\ Fault("embed")
    /\ pending' = pending \ {r}
    /\ failures' = failures \cup {"embed"}
    /\ UNCHANGED <<stores, phase, job, existing, newFiles, touched, labelAdd, batch,
                   queue, uploaded, marks, cleanRows, succeeded, reassigned, commands>>

(* A vector crawl uploads what the embedder has finished, at each           *)
(* checkpoint and once more at the end; an FTS-only crawl uploads the lot.  *)
TakeUpload(S) ==
    /\ phase = "upload"
    /\ queue = {} /\ marks = {}
    /\ S # {}
    /\ IF InVector THEN S \subseteq pending ELSE S = pending
    /\ batch' = S
    /\ queue' = S
    /\ pending' = pending \ S
    /\ UNCHANGED <<stores, phase, job, existing, newFiles, touched, labelAdd,
                   uploaded, marks, cleanRows, results, bounds>>

FullBatch(B, S) == Cardinality(B) = BatchSize \/ (B = S /\ Cardinality(S) < BatchSize)

(* Mutant: the upsert writes its own label over those of the row. *)
ReplacedLabels(r) == {job.label}

MergedLabels(r) == labels[r] \cup {job.label}

(* Mutant: an upserted sentinel keeps its file_complete. *)
CompleteUnchanged(B) == complete

CompleteAfterUpsert(B) == {f \in complete : Sentinel(f) \notin B}

(* The files of an upload whose chunks are all stored once it is over.      *)
FilesToMark(stored) ==
    {f \in Files : RowsOf(f) \cap batch # {} /\ RowsOf(f) \subseteq stored}

(* One merge_insert.  Labels are merged with those of a matched row, the    *)
(* vector column is written or left alone, and file_complete is written as  *)
(* false.  After the last one the files now stored in full are to be marked.*)
UpsertBatch(B) ==
    /\ phase = "upload"
    /\ B \subseteq queue /\ B # {}
    /\ FullBatch(B, queue)
    /\ rows' = rows \cup B
    /\ labels' = [r \in Rows |-> IF r \in B THEN MergedLabels(r) ELSE labels[r]]
    /\ vectors' = IF InVector THEN vectors \cup B ELSE vectors
    /\ complete' = CompleteAfterUpsert(B)
    /\ queue' = queue \ B
    /\ IF queue' = {}
       THEN /\ uploaded' = uploaded \cup batch
            /\ marks' = FilesToMark(uploaded \cup batch)
       ELSE UNCHANGED <<uploaded, marks>>
    /\ UNCHANGED <<meta, ftsDocs, phase, job, existing, newFiles, touched, labelAdd,
                   pending, batch, cleanRows, results, bounds>>

(* update_file_complete per file, or one update over a batch of sentinels.  *)
MarkComplete(S) ==
    /\ phase = "upload"
    /\ queue = {}
    /\ S \subseteq marks /\ S # {}
    /\ IF InVector THEN Cardinality(S) = 1 ELSE FullBatch(S, marks)
    /\ complete' = complete \cup {f \in S : Sentinel(f) \in rows}
    /\ marks' = marks \ S
    /\ UNCHANGED <<rows, labels, vectors, meta, ftsDocs, phase, job, existing, newFiles,
                   touched, labelAdd, pending, batch, queue, uploaded, cleanRows,
                   results, bounds>>

(* A storage error ends the phase; the final metadata is still written.     *)
UploadFails ==
    /\ phase = "upload"
    /\ pending \cup queue # {} \/ marks # {}
    /\ Fault("upload")
    /\ phase' = "finalize"
    /\ UNCHANGED <<stores, job, existing, newFiles, touched, labelAdd, upload,
                   cleanRows, results, commands>>

UploadDone ==
    /\ phase = "upload"
    /\ pending = {} /\ queue = {} /\ marks = {}
    /\ succeeded' = IF InVector /\ "embed" \notin failures THEN {"vector"} ELSE {}
    /\ phase' = "reassign"
    /\ UNCHANGED <<stores, job, existing, newFiles, touched, labelAdd, upload,
                   cleanRows, failures, reassigned, bounds>>

-----------------------------------------------------------------------------
(* Step 5: label reassignment, skipped after any per-item failure.          *)

SkipCleanup ==
    /\ phase = "reassign"
    /\ failures # {}
    /\ phase' = "finalize"
    /\ UNCHANGED <<stores, locals, bounds>>

(* Mutant: nothing counts as stale. *)
NothingStale == {}

StaleRows == {r \in LabelRows(job.label) : FileOf(r) \notin touched}

BeginCleanup ==
    /\ phase = "reassign"
    /\ failures = {}
    /\ cleanRows' = StaleRows
    /\ phase' = "cleanup"
    /\ UNCHANGED <<stores, job, existing, newFiles, touched, labelAdd, upload,
                   results, bounds>>

(* Mutant: rows are never deleted. *)
NeverLastLabel(r) == FALSE
LastLabel(r) == labels[r] = {job.label}

(* One row at a time: delete it if this was its last label. *)
CleanRow(r) ==
    /\ phase = "cleanup"
    /\ r \in cleanRows
    /\ labels' = [labels EXCEPT ![r] = @ \ {job.label}]
    /\ IF LastLabel(r)
       THEN /\ rows' = rows \ {r}
            /\ vectors' = vectors \ {r}
            /\ complete' = {f \in complete : Sentinel(f) # r}
       ELSE UNCHANGED <<rows, vectors, complete>>
    /\ cleanRows' = cleanRows \ {r}
    /\ UNCHANGED <<meta, ftsDocs, phase, job, existing, newFiles, touched, labelAdd,
                   upload, results, bounds>>

CleanupFails ==
    /\ phase = "cleanup"
    /\ Fault("cleanup")
    /\ phase' = "finalize"
    /\ UNCHANGED <<stores, locals, commands>>

CleanupDone ==
    /\ phase = "cleanup"
    /\ cleanRows = {}
    /\ reassigned' = TRUE
    /\ phase' = IF InFts THEN "fts" ELSE "finalize"
    /\ UNCHANGED <<stores, job, existing, newFiles, touched, labelAdd, upload,
                   cleanRows, failures, succeeded, bounds>>

-----------------------------------------------------------------------------
(* Step 6: reconcile the label's Tantivy index with its rows, one commit.   *)

(* Mutant: documents of rows that are gone stay in the index. *)
WithoutRemovals(indexed, live) == indexed \cup ((live \ indexed) \ ZeroToken)

(* Removals are deleted and additions with a searchable token are added.    *)
Reconciled(indexed, live) ==
    LET additions == live \ indexed
        removals  == indexed \ live
    IN  (indexed \ removals) \cup (additions \ ZeroToken)

FtsCommit ==
    /\ phase = "fts"
    /\ ftsDocs' = [ftsDocs EXCEPT ![job.label] = Reconciled(@, LabelRows(job.label))]
    /\ phase' = "fts_manifest"
    /\ UNCHANGED <<table, meta, locals, bounds>>

(* The manifest goes to disk after the commit. *)
FtsManifest ==
    /\ phase = "fts_manifest"
    /\ succeeded' = succeeded \cup {"fts"}
    /\ phase' = "finalize"
    /\ UNCHANGED <<stores, job, existing, newFiles, touched, labelAdd, upload,
                   cleanRows, failures, reassigned, bounds>>

FtsFails ==
    /\ phase \in {"fts", "fts_manifest"}
    /\ Fault("fts")
    /\ phase' = "finalize"
    /\ UNCHANGED <<stores, locals, commands>>

-----------------------------------------------------------------------------
(* Step 7: update_final_metadata, whatever the phases returned.             *)

(* Mutant: a method whose own phase succeeded is complete, cleaned up or not. *)
CompleteWithoutReassignment(m) == m \in succeeded

MethodComplete(m) == m \in succeeded /\ reassigned

Finalize ==
    /\ phase = "finalize"
    /\ meta' = [meta EXCEPT ![job.label] =
                  [Unfinished(job.source, job.selection) EXCEPT
                     !.vectorComplete = MethodComplete("vector"),
                     !.ftsComplete    = MethodComplete("fts")]]
    /\ EndProcess
    /\ UNCHANGED <<table, ftsDocs, bounds>>

-----------------------------------------------------------------------------
(* purge --catalog: chunks, then label rows, then the FTS folders.          *)

PurgeChunks ==
    /\ phase = "idle"
    /\ commands < MaxCommands
    /\ commands' = commands + 1
    /\ rows' = {} /\ vectors' = {} /\ complete' = {}
    /\ labels' = [r \in Rows |-> {}]
    /\ phase' = "purge_labels"
    /\ UNCHANGED <<meta, ftsDocs, locals, faults>>

PurgeLabels ==
    /\ phase = "purge_labels"
    /\ meta' = [l \in Labels |-> NULL]
    /\ phase' = "purge_fts"
    /\ UNCHANGED <<table, ftsDocs, locals, bounds>>

(* remove_dir_all takes the label folders one after the other. *)
PurgeFtsFolder(l) ==
    /\ phase = "purge_fts"
    /\ ftsDocs[l] # {}
    /\ ftsDocs' = [ftsDocs EXCEPT ![l] = {}]
    /\ UNCHANGED <<table, meta, phase, locals, bounds>>

PurgeDone ==
    /\ phase = "purge_fts"
    /\ \A l \in Labels : ftsDocs[l] = {}
    /\ EndProcess
    /\ UNCHANGED <<stores, bounds>>

(* Ctrl+C, a kill, or an error that returns before the phases of            *)
(* run_post_chunking_phases: the stores stay as they are.                   *)
Crash ==
    /\ phase \in CrashPhases
    /\ faults < MaxFaults
    /\ faults' = faults + 1
    /\ EndProcess
    /\ UNCHANGED <<stores, commands>>

-----------------------------------------------------------------------------

CrawlStep ==
    \/ ClassifyFiles
    \/ \E f \in Files : OpenExistingFile(f)
    \/ \E r \in Rows : AddLabel(r)
    \/ ChunkNewFiles
    \/ \E S \in SUBSET pending : TakeUpload(S)
    \/ \E B \in SUBSET queue : UpsertBatch(B)
    \/ \E S \in SUBSET marks : MarkComplete(S)
    \/ UploadDone
    \/ SkipCleanup
    \/ BeginCleanup
    \/ \E r \in Rows : CleanRow(r)
    \/ CleanupDone
    \/ FtsCommit
    \/ FtsManifest
    \/ Finalize

PurgeStep ==
    \/ PurgeLabels
    \/ \E l \in Labels : PurgeFtsFolder(l)
    \/ PurgeDone

ErrorStep ==
    \/ \E f \in Files : OpenExistingFileFails(f)
    \/ \E r \in Rows : AddLabelFails(r)
    \/ \E r \in Rows : EmbedFails(r)
    \/ UploadFails
    \/ CleanupFails
    \/ FtsFails
    \/ Crash

Command ==
    \/ \E l \in Labels, c \in Commits, sel \in Selections : StartCrawl(l, c, sel)
    \/ PurgeChunks

Next == Command \/ CrawlStep \/ PurgeStep \/ ErrorStep

Spec == Init /\ [][Next]_vars

(* A command that runs keeps running: nothing in it waits for a user.  No   *)
(* command has to be given and no fault has to happen.                      *)
FairSpec == Spec /\ WF_vars(CrawlStep) /\ WF_vars(PurgeStep)

-----------------------------------------------------------------------------
(* Properties *)

TreeRows(c) == UNION {RowsOf(f) : f \in Tree[c]}

Published(l) == meta[l] # NULL /\ (meta[l].vectorComplete \/ meta[l].ftsComplete)
SourceOf(l)  == IF meta[l].vectorComplete THEN meta[l].vectorSource ELSE meta[l].ftsSource

(* No row is left without a label: nothing could reach or remove it.        *)
(* docs/design/crawl.md:151 thinks an interrupted crawl can leave one.      *)
NoOrphanRows == \A r \in rows : labels[r] # {}

(* A label with a complete method holds no row of a file outside the tree   *)
(* that method was crawled from: reassignment has taken every stale row,    *)
(* whatever was interrupted before and whoever else shares the rows.        *)
NoStaleRows ==
    \A l \in Labels : Published(l) =>
        \A r \in LabelRows(l) : FileOf(r) \in Tree[SourceOf(l)]

(* A label with a complete method holds every chunk of every file of its    *)
(* tree, except while a purge is taking the stores down one after another.  *)
WholeTree ==
    \A l \in Labels : Published(l) /\ phase \notin PurgePhases =>
        TreeRows(SourceOf(l)) \subseteq LabelRows(l)

(* file_complete = true means all chunks of the file exist                  *)
(* (src/app/crawl/pipeline.rs:309) whenever a crawl is about to trust the   *)
(* sentinel: the fast path never looks further.                             *)
CompleteFileHasAllChunks ==
    phase \in {"idle", "classify"} => \A f \in complete : RowsOf(f) \subseteq rows

(* When the sentinel of a complete file has a vector, all chunks of the     *)
(* file have one (src/engine/storage/chunks/storage.rs:58).                 *)
SentinelVectorCoversFile ==
    \A f \in complete : Sentinel(f) \in vectors => RowsOf(f) \cap rows \subseteq vectors

(* A label whose vector method is complete has a vector in every row, so    *)
(* vector search reaches all of it.                                         *)
VectorCompleteHasVectors ==
    \A l \in Labels : meta[l] # NULL /\ meta[l].vectorComplete => LabelRows(l) \subseteq vectors

(* A label whose FTS method is complete has exactly its searchable rows in  *)
(* the Tantivy index, whatever other labels did to the shared rows since    *)
(* (and except while a purge is taking the stores down).                    *)
FtsMatchesRows ==
    \A l \in Labels : meta[l] # NULL /\ meta[l].ftsComplete /\ phase \notin PurgePhases =>
        ftsDocs[l] = LabelRows(l) \ ZeroToken

(* A crawl never disturbs a peer label: its rows, their vectors, its        *)
(* metadata and its index stay, although rows and vectors are shared.       *)
PeersUntouchedStep ==
    phase \notin PurgePhases /\ phase' \notin PurgePhases =>
        \A l \in Labels \ {job.label, job'.label} :
            /\ LabelRows(l)' = LabelRows(l)
            /\ LabelRows(l) \cap vectors \subseteq vectors'
            /\ meta'[l] = meta[l]
            /\ ftsDocs'[l] = ftsDocs[l]
PeersUntouched == [][PeersUntouchedStep]_vars

(* Re-running the crawl is the recovery procedure (crawl.md:149): a crawl   *)
(* that meets no fault of its own publishes every selected method, with     *)
(* exactly the rows of its tree, whatever earlier faults left behind.       *)
Recovered(l, c) ==
    /\ meta[l] # NULL
    /\ meta[l].vectorSource \in {c, NULL} /\ meta[l].ftsSource \in {c, NULL}
    /\ (meta[l].vectorSource = c) = meta[l].vectorComplete
    /\ (meta[l].ftsSource = c) = meta[l].ftsComplete
    /\ LabelRows(l) = TreeRows(c)
RerunRecovers ==
    \A l \in Labels, c \in Commits :
        (phase = "classify" /\ job.label = l /\ job.source = c /\ faults = MaxFaults)
            ~> Recovered(l, c)
=============================================================================
