------------------------- MODULE CatalogCrawlProofs -------------------------
(***************************************************************************)
(* Theorems about CatalogCrawl for every set of labels, files, sources and *)
(* every pattern of crashes and errors.                                    *)
(***************************************************************************)
EXTENDS CatalogCrawl, TLAPS

USE DEF table, stores, labelAdd, upload, results, locals, bounds

(* Outside a crawl the process has nothing in memory; rows wait for a label *)
(* in the label_add phase only.                                             *)
LocalsOK ==
    /\ phase \notin CrawlPhases => ProcessStart
    /\ phase # "label_add" => addRows = {}

TypeInv == TypeOK /\ LocalsOK

LEMMA RowsOfType == \A f \in Files : RowsOf(f) \subseteq Rows
BY DEF RowsOf, Rows

LEMMA UnfinishedType ==
    \A c \in Commits, sel \in SUBSET Methods : Unfinished(c, sel) \in MetaRow
BY DEF Unfinished, MetaRow

LEMMA TreeType == \A c \in Commits : Tree[c] \subseteq Files
BY ConstantsAssumption

LEMMA NoJobType == NoJob \in Job
BY DEF NoJob, Job

LEMMA InitTypeInv == Init => TypeInv
<1> SUFFICES ASSUME Init PROVE TypeInv
  OBVIOUS
<1>1. /\ rows = {} /\ vectors = {} /\ complete = {}
      /\ labels \in [Rows -> SUBSET Labels]
      /\ \A r \in Rows : labels[r] = {}
  BY DEF Init
<1>2. meta \in [Labels -> MetaRow \cup {NULL}] /\ ftsDocs \in [Labels -> SUBSET Rows]
  BY DEF Init
<1>3. /\ phase = "idle" /\ job \in Job
      /\ commands = 0 /\ faults = 0 /\ ProcessStart
  BY NoJobType DEF Init
<1>4. TypeOK
  BY <1>1, <1>2, <1>3 DEF TypeOK, ProcessStart, Phases, CrawlPhases
<1>5. LocalsOK
  BY <1>3 DEF LocalsOK, ProcessStart
<1> QED
  BY <1>4, <1>5 DEF TypeInv

LEMMA NextTypeInv == TypeInv /\ [Next]_vars => TypeInv'
<1> SUFFICES ASSUME TypeInv, [Next]_vars PROVE TypeInv'
  OBVIOUS
<1> USE ConstantsAssumption, RowsOfType, UnfinishedType, TreeType
    DEF TypeInv, TypeOK, LocalsOK
<1>1. ASSUME NEW l \in Labels, NEW c \in Commits, NEW sel \in Selections,
             StartCrawl(l, c, sel)
      PROVE  TypeInv'
  BY <1>1 DEF StartCrawl, Job, Phases, CrawlPhases, PurgePhases, ProcessStart
<1>2. CASE ClassifyFiles
  BY <1>2 DEF ClassifyFiles, Phases, CrawlPhases, PurgePhases, ProcessStart, Fault
<1>3. ASSUME NEW f \in Files, OpenExistingFile(f) PROVE TypeInv'
  BY <1>3 DEF OpenExistingFile, RowsToLabel, Phases, CrawlPhases, PurgePhases, ProcessStart
<1>4. ASSUME NEW f \in Files, OpenExistingFileFails(f) PROVE TypeInv'
  BY <1>4 DEF OpenExistingFileFails, Fault, Phases, CrawlPhases, PurgePhases, ProcessStart
<1>5. ASSUME NEW r \in Rows, AddLabel(r) PROVE TypeInv'
  BY <1>5 DEF AddLabel, NextAddRow, Phases, CrawlPhases, PurgePhases, ProcessStart
<1>6. ASSUME NEW r \in Rows, AddLabelFails(r) PROVE TypeInv'
  BY <1>6 DEF AddLabelFails, NextAddRow, Fault, Phases, CrawlPhases, PurgePhases, ProcessStart
<1>7. CASE ChunkNewFiles
  BY <1>7 DEF ChunkNewFiles, Touched, Fault, Phases, CrawlPhases, PurgePhases, ProcessStart
<1>8. ASSUME NEW r \in Rows, EmbedFails(r) PROVE TypeInv'
  BY <1>8 DEF EmbedFails, Fault, Phases, CrawlPhases, PurgePhases, ProcessStart
<1>9. ASSUME NEW S \in SUBSET pending, TakeUpload(S) PROVE TypeInv'
  BY <1>9 DEF TakeUpload, Phases, CrawlPhases, PurgePhases, ProcessStart
<1>10. ASSUME NEW B \in SUBSET queue, UpsertBatch(B) PROVE TypeInv'
  BY <1>10 DEF UpsertBatch, MergedLabels, CompleteAfterUpsert, FilesToMark,
               Phases, CrawlPhases, PurgePhases, ProcessStart
<1>11. ASSUME NEW S \in SUBSET marks, MarkComplete(S) PROVE TypeInv'
  BY <1>11 DEF MarkComplete, Phases, CrawlPhases, PurgePhases, ProcessStart
<1>12. CASE UploadFails
  BY <1>12 DEF UploadFails, Fault, Phases, CrawlPhases, PurgePhases, ProcessStart
<1>13. CASE UploadDone
  BY <1>13 DEF UploadDone, Methods, Phases, CrawlPhases, PurgePhases, ProcessStart
<1>14. CASE SkipCleanup
  BY <1>14 DEF SkipCleanup, Phases, CrawlPhases, PurgePhases, ProcessStart
<1>15. CASE BeginCleanup
  BY <1>15 DEF BeginCleanup, StaleRows, LabelRows, Phases, CrawlPhases, PurgePhases,
               ProcessStart
<1>16. ASSUME NEW r \in Rows, CleanRow(r) PROVE TypeInv'
  BY <1>16 DEF CleanRow, LastLabel, Phases, CrawlPhases, PurgePhases, ProcessStart
<1>17. CASE CleanupFails
  BY <1>17 DEF CleanupFails, Fault, Phases, CrawlPhases, PurgePhases, ProcessStart
<1>18. CASE CleanupDone
  BY <1>18 DEF CleanupDone, Phases, CrawlPhases, PurgePhases, ProcessStart
<1>19. CASE FtsCommit
  BY <1>19 DEF FtsCommit, Reconciled, LabelRows, Phases, CrawlPhases, PurgePhases,
               ProcessStart
<1>20. CASE FtsManifest
  BY <1>20 DEF FtsManifest, Methods, Phases, CrawlPhases, PurgePhases, ProcessStart
<1>21. CASE FtsFails
  BY <1>21 DEF FtsFails, Fault, Phases, CrawlPhases, PurgePhases, ProcessStart
<1>22. CASE Finalize
  <2>1. job.label \in Labels /\ job.source \in Commits /\ job.selection \in SUBSET Methods
    BY <1>22 DEF Finalize, CrawlPhases, Job
  <2>2. Unfinished(job.source, job.selection) \in MetaRow
    BY <2>1
  <2>3. [Unfinished(job.source, job.selection) EXCEPT
            !.vectorComplete = MethodComplete("vector"),
            !.ftsComplete    = MethodComplete("fts")] \in MetaRow
    BY <2>2 DEF MethodComplete, MetaRow
  <2>4. meta' \in [Labels -> MetaRow \cup {NULL}]
    BY <1>22, <2>1, <2>3 DEF Finalize
  <2> QED
    BY <1>22, <2>4, NoJobType DEF Finalize, EndProcess, Phases, CrawlPhases, ProcessStart
<1>23. CASE PurgeChunks
  BY <1>23 DEF PurgeChunks, Phases, CrawlPhases, PurgePhases, ProcessStart
<1>24. CASE PurgeLabels
  BY <1>24 DEF PurgeLabels, Phases, CrawlPhases, PurgePhases, ProcessStart
<1>25. ASSUME NEW l \in Labels, PurgeFtsFolder(l) PROVE TypeInv'
  BY <1>25 DEF PurgeFtsFolder, Phases, CrawlPhases, PurgePhases, ProcessStart
<1>26. CASE PurgeDone
  BY <1>26, NoJobType DEF PurgeDone, EndProcess, Phases, CrawlPhases, PurgePhases,
               ProcessStart
<1>27. CASE Crash
  <2>1. faults' \in Nat /\ UNCHANGED <<stores, commands>> /\ EndProcess
    BY <1>27 DEF Crash
  <2>2. phase' \in Phases /\ phase' \notin CrawlPhases /\ phase' # "label_add"
    BY <2>1 DEF EndProcess, Phases, CrawlPhases
  <2> QED
    BY <2>1, <2>2, NoJobType DEF EndProcess, ProcessStart
<1>28. CASE UNCHANGED vars
  BY <1>28 DEF vars, ProcessStart
<1> QED
  BY <1>1, <1>2, <1>3, <1>4, <1>5, <1>6, <1>7, <1>8, <1>9, <1>10, <1>11, <1>12, <1>13,
     <1>14, <1>15, <1>16, <1>17, <1>18, <1>19, <1>20, <1>21, <1>22, <1>23, <1>24, <1>25,
     <1>26, <1>27, <1>28
     DEF Next, Command, CrawlStep, PurgeStep, ErrorStep

(* Every reachable state is well typed: in particular a row that is not in  *)
(* the table has no label left over, and a vector or a complete mark never  *)
(* outlives its row.                                                        *)
THEOREM TypeCorrect == Spec => []TypeOK
<1>1. TypeInv => TypeOK
  BY DEF TypeInv
<1> QED
  BY <1>1, InitTypeInv, NextTypeInv, PTL DEF Spec

-----------------------------------------------------------------------------
(* What one step of a crawl does to the labels of the rows.                 *)

(* Only four actions edit the set of rows or the labels. *)
LEMMA LabelEdits ==
    ASSUME TypeInv, [Next]_vars
    PROVE  \/ UNCHANGED <<rows, labels>>
           \/ \E r \in Rows : AddLabel(r)
           \/ \E B \in SUBSET queue : UpsertBatch(B)
           \/ \E r \in Rows : CleanRow(r)
           \/ PurgeChunks
BY DEF Next, Command, CrawlStep, PurgeStep, ErrorStep, vars, StartCrawl, ClassifyFiles,
       OpenExistingFile, OpenExistingFileFails, AddLabelFails, ChunkNewFiles, EmbedFails,
       TakeUpload, MarkComplete, UploadFails, UploadDone, SkipCleanup, BeginCleanup,
       CleanupFails, CleanupDone, FtsCommit, FtsManifest, FtsFails, Finalize,
       PurgeLabels, PurgeFtsFolder, PurgeDone, Crash

(* No row is ever without a label: an upsert brings the label of its crawl, *)
(* and the cleanup deletes the row whose last label it takes.               *)
THEOREM NoOrphans == Spec => []NoOrphanRows
<1>1. Init => NoOrphanRows
  BY DEF Init, NoOrphanRows
<1>2. ASSUME TypeInv, NoOrphanRows, [Next]_vars
      PROVE  NoOrphanRows'
  <2>1. ASSUME UNCHANGED <<rows, labels>> PROVE NoOrphanRows'
    BY <1>2, <2>1 DEF NoOrphanRows
  <2>2. ASSUME NEW r \in Rows, AddLabel(r) PROVE NoOrphanRows'
    BY <1>2, <2>2 DEF AddLabel, NoOrphanRows, TypeInv, TypeOK
  <2>3. ASSUME NEW B \in SUBSET queue, UpsertBatch(B) PROVE NoOrphanRows'
    BY <1>2, <2>3 DEF UpsertBatch, MergedLabels, NoOrphanRows, TypeInv, TypeOK
  <2>4. ASSUME NEW r \in Rows, CleanRow(r) PROVE NoOrphanRows'
    <3>1. labels'[r] # {} \/ r \notin rows'
      BY <1>2, <2>4 DEF CleanRow, LastLabel, NoOrphanRows, TypeInv, TypeOK
    <3>2. \A q \in rows' \ {r} : q \in rows /\ labels'[q] = labels[q]
      BY <1>2, <2>4 DEF CleanRow, TypeInv, TypeOK
    <3> QED
      BY <1>2, <3>1, <3>2 DEF NoOrphanRows
  <2>5. ASSUME PurgeChunks PROVE NoOrphanRows'
    BY <2>5 DEF PurgeChunks, NoOrphanRows
  <2> QED
    BY <1>2, <2>1, <2>2, <2>3, <2>4, <2>5, LabelEdits
<1> QED
  BY <1>1, <1>2, InitTypeInv, NextTypeInv, PTL DEF Spec

-----------------------------------------------------------------------------
(* Peer labels *)

(* The only actions that write a vector away, a label row or an index.      *)
LEMMA StoreEdits ==
    ASSUME TypeInv, [Next]_vars
    PROVE  /\ \/ vectors \subseteq vectors'
              \/ \E r \in Rows : CleanRow(r)
              \/ PurgeChunks
           /\ \/ UNCHANGED meta
              \/ \E l \in Labels, c \in Commits, sel \in Selections : StartCrawl(l, c, sel)
              \/ Finalize
              \/ PurgeLabels
           /\ \/ UNCHANGED ftsDocs
              \/ FtsCommit
              \/ \E l \in Labels : PurgeFtsFolder(l)
BY DEF Next, Command, CrawlStep, PurgeStep, ErrorStep, vars, ClassifyFiles,
       OpenExistingFile, OpenExistingFileFails, AddLabel, AddLabelFails, ChunkNewFiles,
       EmbedFails, TakeUpload, UpsertBatch, MarkComplete, UploadFails, UploadDone,
       SkipCleanup, BeginCleanup, CleanRow, CleanupFails, CleanupDone, FtsCommit,
       FtsManifest, FtsFails, StartCrawl, Finalize, PurgeChunks, PurgeLabels,
       PurgeFtsFolder, PurgeDone, Crash

(* A row that carries another label keeps it, and keeps its vector.         *)
LEMMA PeerRows ==
    ASSUME TypeInv, [Next]_vars, ~PurgeChunks, NEW l \in Labels, l # job.label
    PROVE  LabelRows(l)' = LabelRows(l) /\ LabelRows(l) \cap vectors \subseteq vectors'
<1> USE DEF TypeInv, TypeOK
<1>1. ASSUME NEW r \in Rows, CleanRow(r)
      PROVE  LabelRows(l)' = LabelRows(l) /\ LabelRows(l) \cap vectors \subseteq vectors'
  <2>1. \A q \in Rows : l \in labels'[q] <=> l \in labels[q]
    BY <1>1 DEF CleanRow
  <2>2. r \notin LabelRows(l) \/ (rows' = rows /\ vectors' = vectors)
    BY <1>1 DEF CleanRow, LastLabel, LabelRows
  <2>3. rows \ {r} \subseteq rows' /\ rows' \subseteq rows /\ vectors \ {r} \subseteq vectors'
    BY <1>1 DEF CleanRow
  <2> QED
    BY <2>1, <2>2, <2>3 DEF LabelRows
<1>2. ASSUME NEW B \in SUBSET queue, UpsertBatch(B) PROVE LabelRows(l)' = LabelRows(l)
  <2>1. rows' = rows \cup B /\ B \subseteq Rows
    BY <1>2 DEF UpsertBatch
  <2>2. \A q \in Rows : l \in labels'[q] <=> l \in labels[q]
    BY <1>2 DEF UpsertBatch, MergedLabels
  <2> QED
    BY <2>1, <2>2 DEF LabelRows
<1>3. ASSUME NEW r \in Rows, AddLabel(r) PROVE LabelRows(l)' = LabelRows(l)
  BY <1>3 DEF AddLabel, LabelRows
<1>4. ASSUME UNCHANGED <<rows, labels>> PROVE LabelRows(l)' = LabelRows(l)
  BY <1>4 DEF LabelRows
<1> QED
  BY <1>1, <1>2, <1>3, <1>4, LabelEdits, StoreEdits

LEMMA PeerStep == ASSUME TypeInv, [Next]_vars PROVE PeersUntouchedStep
<1> SUFFICES ASSUME phase \notin PurgePhases, phase' \notin PurgePhases,
                    NEW l \in Labels \ {job.label, job'.label}
             PROVE  /\ LabelRows(l)' = LabelRows(l)
                    /\ LabelRows(l) \cap vectors \subseteq vectors'
                    /\ meta'[l] = meta[l]
                    /\ ftsDocs'[l] = ftsDocs[l]
  BY DEF PeersUntouchedStep
<1>1. ~PurgeChunks /\ ~PurgeLabels /\ \A k \in Labels : ~PurgeFtsFolder(k)
  BY DEF PurgeChunks, PurgeLabels, PurgeFtsFolder, PurgePhases
<1>2. meta'[l] = meta[l]
  <2>1. ASSUME NEW k \in Labels, NEW c \in Commits, NEW sel \in Selections,
               StartCrawl(k, c, sel)
        PROVE  meta'[l] = meta[l]
    BY <2>1 DEF StartCrawl, TypeInv, TypeOK
  <2>2. ASSUME Finalize PROVE meta'[l] = meta[l]
    BY <2>2 DEF Finalize, TypeInv, TypeOK
  <2> QED
    BY <1>1, <2>1, <2>2, StoreEdits
<1>3. ftsDocs'[l] = ftsDocs[l]
  BY <1>1, StoreEdits DEF FtsCommit, TypeInv, TypeOK
<1> QED
  BY <1>1, <1>2, <1>3, PeerRows

(* No step of a crawl takes a row, a vector, the metadata or an indexed     *)
(* document from a label that is not its own, although rows are shared.     *)
THEOREM PeersAreUntouched == Spec => PeersUntouched
BY InitTypeInv, NextTypeInv, PeerStep, PTL DEF Spec, PeersUntouched

-----------------------------------------------------------------------------
(* Stale rows *)

(* What a running crawl knows.  Its label is unpublished until it ends; all *)
(* it touches is in its tree; the rows its cleanup has not reached are in   *)
(* cleanRows; once reassignment has succeeded none is stale.                *)
CrawlInv ==
    phase \in CrawlPhases =>
        /\ meta[job.label] = Unfinished(job.source, job.selection)
        /\ existing \cup newFiles \cup touched \subseteq Tree[job.source]
        /\ succeeded \subseteq job.selection
        /\ phase \in {"fts", "fts_manifest"} => InFts
        /\ phase = "cleanup" => StaleRows \subseteq cleanRows
        /\ reassigned => phase \in {"fts", "fts_manifest", "finalize"} /\ StaleRows = {}

StaleInv == TypeInv /\ CrawlInv /\ NoStaleRows

(* Until the cleanup is over reassignment has not succeeded.                *)
LEMMA BeforeReassignment ==
    ASSUME StaleInv, phase \in {"classify", "label_add", "upload", "reassign", "cleanup"}
    PROVE  reassigned = FALSE
BY DEF StaleInv, TypeInv, TypeOK, CrawlInv, CrawlPhases

LEMMA CrawlInvStep == StaleInv /\ [Next]_vars => CrawlInv'
<1> SUFFICES ASSUME StaleInv, [Next]_vars, phase' \in CrawlPhases PROVE CrawlInv'
  BY DEF CrawlInv
<1> USE BeforeReassignment
    DEF StaleInv, TypeInv, TypeOK, CrawlInv, InFts, InVector, StaleRows, LabelRows,
        CrawlPhases
<1>1. ASSUME NEW l \in Labels, NEW c \in Commits, NEW sel \in Selections,
             StartCrawl(l, c, sel)
      PROVE  CrawlInv'
  BY <1>1 DEF StartCrawl, LocalsOK, ProcessStart
<1>2. CASE ClassifyFiles
  BY <1>2 DEF ClassifyFiles
<1>3. ASSUME NEW f \in Files, OpenExistingFile(f) PROVE CrawlInv'
  BY <1>3 DEF OpenExistingFile
<1>4. ASSUME NEW f \in Files, OpenExistingFileFails(f) PROVE CrawlInv'
  BY <1>4 DEF OpenExistingFileFails
<1>5. ASSUME NEW r \in Rows, AddLabel(r) PROVE CrawlInv'
  BY <1>5 DEF AddLabel
<1>6. ASSUME NEW r \in Rows, AddLabelFails(r) PROVE CrawlInv'
  BY <1>6 DEF AddLabelFails
<1>7. CASE ChunkNewFiles
  BY <1>7 DEF ChunkNewFiles, Touched
<1>8. ASSUME NEW r \in Rows, EmbedFails(r) PROVE CrawlInv'
  BY <1>8 DEF EmbedFails
<1>9. ASSUME NEW S \in SUBSET pending, TakeUpload(S) PROVE CrawlInv'
  BY <1>9 DEF TakeUpload
<1>10. ASSUME NEW B \in SUBSET queue, UpsertBatch(B) PROVE CrawlInv'
  BY <1>10 DEF UpsertBatch
<1>11. ASSUME NEW S \in SUBSET marks, MarkComplete(S) PROVE CrawlInv'
  BY <1>11 DEF MarkComplete
<1>12. CASE UploadFails
  BY <1>12 DEF UploadFails
<1>13. CASE UploadDone
  BY <1>13 DEF UploadDone
<1>14. CASE SkipCleanup
  BY <1>14 DEF SkipCleanup
<1>15. CASE BeginCleanup
  BY <1>15 DEF BeginCleanup
<1>16. ASSUME NEW r \in Rows, CleanRow(r) PROVE CrawlInv'
  BY <1>16 DEF CleanRow
<1>17. CASE CleanupFails
  BY <1>17 DEF CleanupFails
<1>18. CASE CleanupDone
  BY <1>18 DEF CleanupDone
<1>19. CASE FtsCommit
  BY <1>19 DEF FtsCommit
<1>20. CASE FtsManifest
  BY <1>20 DEF FtsManifest
<1>21. CASE FtsFails
  BY <1>21 DEF FtsFails
<1>22. ~Finalize /\ ~PurgeChunks /\ ~PurgeLabels /\ ~PurgeDone /\ ~Crash
       /\ \A l \in Labels : ~PurgeFtsFolder(l)
  BY DEF Finalize, PurgeChunks, PurgeLabels, PurgeFtsFolder, PurgeDone, Crash, EndProcess
<1>23. CASE UNCHANGED vars
  BY <1>23 DEF vars
<1> QED
  BY <1>1, <1>2, <1>3, <1>4, <1>5, <1>6, <1>7, <1>8, <1>9, <1>10, <1>11, <1>12, <1>13,
     <1>14, <1>15, <1>16, <1>17, <1>18, <1>19, <1>20, <1>21, <1>22, <1>23
     DEF Next, Command, CrawlStep, PurgeStep, ErrorStep

(* A label keeps what NoStaleRows says of it when its metadata stays and it *)
(* gains no row.                                                            *)
LEMMA StaleFrame ==
    ASSUME NoStaleRows, NEW l \in Labels, meta'[l] = meta[l],
           LabelRows(l)' \subseteq LabelRows(l), Published(l)'
    PROVE  \A r \in LabelRows(l)' : FileOf(r) \in Tree[SourceOf(l)']
BY DEF NoStaleRows, Published, SourceOf

LEMMA NoStaleStep == StaleInv /\ [Next]_vars => NoStaleRows'
<1> SUFFICES ASSUME StaleInv, [Next]_vars, NEW l \in Labels, Published(l)'
             PROVE  \A r \in LabelRows(l)' : FileOf(r) \in Tree[SourceOf(l)']
  BY DEF NoStaleRows
<1> USE DEF StaleInv
<1>1. CASE PurgeChunks
  BY <1>1 DEF PurgeChunks, LabelRows
<1>2. ~PurgeLabels
  BY DEF PurgeLabels, Published
<1>3. CASE Finalize /\ l = job.label
  <2>1. /\ UNCHANGED <<rows, labels>>
        /\ meta'[l].vectorComplete = MethodComplete("vector")
        /\ meta'[l].ftsComplete = MethodComplete("fts")
        /\ meta'[l].vectorSource = IF InVector THEN job.source ELSE NULL
        /\ meta'[l].ftsSource = IF InFts THEN job.source ELSE NULL
    BY <1>3 DEF Finalize, TypeInv, TypeOK, Unfinished, InVector, InFts
  <2>2. phase \in CrawlPhases
    BY <1>3 DEF Finalize, CrawlPhases
  <2>3. reassigned /\ SourceOf(l)' = job.source
    BY <2>1, <2>2 DEF Published, SourceOf, MethodComplete, CrawlInv, InVector, InFts
  <2>4. StaleRows = {} /\ touched \subseteq Tree[job.source]
    BY <2>2, <2>3 DEF CrawlInv
  <2>5. LabelRows(l)' = LabelRows(l)
    BY <2>1 DEF LabelRows
  <2> QED
    BY <1>3, <2>3, <2>4, <2>5 DEF StaleRows
<1>4. CASE Finalize /\ l # job.label
  <2>1. meta'[l] = meta[l] /\ LabelRows(l)' = LabelRows(l)
    BY <1>4 DEF Finalize, TypeInv, TypeOK, LabelRows
  <2> QED
    BY <2>1, StaleFrame
<1>5. ASSUME NEW k \in Labels, NEW c \in Commits, NEW sel \in Selections,
             StartCrawl(k, c, sel)
      PROVE  \A r \in LabelRows(l)' : FileOf(r) \in Tree[SourceOf(l)']
  <2>1. k # l
    BY <1>5 DEF StartCrawl, Unfinished, Published, TypeInv, TypeOK
  <2>2. meta'[l] = meta[l] /\ LabelRows(l)' = LabelRows(l)
    BY <1>5, <2>1 DEF StartCrawl, TypeInv, TypeOK, LabelRows
  <2> QED
    BY <2>2, StaleFrame
<1>6. CASE UNCHANGED meta /\ ~PurgeChunks
  <2>1. CASE l # job.label
    BY <1>6, <2>1, PeerRows, StaleFrame
  <2>2. CASE l = job.label
    <3>1. phase \notin CrawlPhases
      BY <1>6, <2>2 DEF Published, CrawlInv, Unfinished
    <3>2. UNCHANGED <<rows, labels>>
      BY <1>6, <3>1, LabelEdits DEF AddLabel, UpsertBatch, CleanRow, CrawlPhases
    <3> QED
      BY <1>6, <3>2, StaleFrame DEF LabelRows
  <2> QED
    BY <2>1, <2>2
<1> QED
  BY <1>1, <1>2, <1>3, <1>4, <1>5, <1>6, StoreEdits

(* Once a label has a complete method, no row of a file outside the tree of *)
(* that method carries the label, whatever crashes and errors came before   *)
(* and whatever crawls of other labels do to the rows they share.           *)
THEOREM NoStaleLabels == Spec => []NoStaleRows
<1>1. Init => CrawlInv /\ NoStaleRows
  BY DEF Init, CrawlInv, CrawlPhases, NoStaleRows, Published
<1>2. StaleInv /\ [Next]_vars => StaleInv'
  BY NextTypeInv, CrawlInvStep, NoStaleStep DEF StaleInv
<1>3. Init => StaleInv
  BY <1>1, InitTypeInv DEF StaleInv
<1>4. StaleInv => NoStaleRows
  BY DEF StaleInv
<1> QED
  BY <1>2, <1>3, <1>4, PTL DEF Spec

-----------------------------------------------------------------------------
(* Indexes *)

(* What a crawl in its last steps, and every other label, may count on.     *)
IndexInv ==
    /\ \A l \in Labels : ftsDocs[l] \cap ZeroToken = {}
    /\ phase \notin CrawlPhases => job = NoJob
    /\ phase = "purge_fts" => \A l \in Labels : meta[l] = NULL
    /\ "fts" \in succeeded => phase = "finalize"
    /\ phase = "fts_manifest" \/ (phase = "finalize" /\ "fts" \in succeeded) =>
          ftsDocs[job.label] = LabelRows(job.label) \ ZeroToken

FtsInv == StaleInv /\ IndexInv /\ FtsMatchesRows

(* An index is reconciled to exactly the searchable rows, whatever it held. *)
LEMMA ReconcileYieldsRows ==
    ASSUME NEW indexed, NEW live, indexed \cap ZeroToken = {}
    PROVE  Reconciled(indexed, live) = live \ ZeroToken
BY DEF Reconciled

LEMMA IndexInvStep ==
    ASSUME StaleInv, IndexInv, [Next]_vars
    PROVE  IndexInv'
<1> USE DEF StaleInv, TypeInv, TypeOK, IndexInv
<1>1. \A l \in Labels : ftsDocs'[l] \cap ZeroToken = {}
  <2>1. ASSUME FtsCommit PROVE \A l \in Labels : ftsDocs'[l] \cap ZeroToken = {}
    BY <2>1, ReconcileYieldsRows DEF FtsCommit
  <2>2. ASSUME NEW k \in Labels, PurgeFtsFolder(k)
        PROVE  \A l \in Labels : ftsDocs'[l] \cap ZeroToken = {}
    BY <2>2 DEF PurgeFtsFolder
  <2> QED
    BY <2>1, <2>2, StoreEdits
<1>2. phase' \notin CrawlPhases => job' = NoJob
  BY DEF Next, Command, CrawlStep, PurgeStep, ErrorStep, vars, StartCrawl, ClassifyFiles,
         OpenExistingFile, OpenExistingFileFails, AddLabel, AddLabelFails, ChunkNewFiles,
         EmbedFails, TakeUpload, UpsertBatch, MarkComplete, UploadFails, UploadDone,
         SkipCleanup, BeginCleanup, CleanRow, CleanupFails, CleanupDone, FtsCommit,
         FtsManifest, FtsFails, Finalize, PurgeChunks, PurgeLabels, PurgeFtsFolder,
         PurgeDone, Crash, EndProcess, CrawlPhases
<1>3. phase' = "purge_fts" => \A l \in Labels : meta'[l] = NULL
  BY DEF Next, Command, CrawlStep, PurgeStep, ErrorStep, vars, StartCrawl, ClassifyFiles,
         OpenExistingFile, OpenExistingFileFails, AddLabel, AddLabelFails, ChunkNewFiles,
         EmbedFails, TakeUpload, UpsertBatch, MarkComplete, UploadFails, UploadDone,
         SkipCleanup, BeginCleanup, CleanRow, CleanupFails, CleanupDone, FtsCommit,
         FtsManifest, FtsFails, Finalize, PurgeChunks, PurgeLabels, PurgeFtsFolder,
         PurgeDone, Crash, EndProcess
<1>4. "fts" \in succeeded' => phase' = "finalize"
  BY DEF Next, Command, CrawlStep, PurgeStep, ErrorStep, vars, StartCrawl, ClassifyFiles,
         OpenExistingFile, OpenExistingFileFails, AddLabel, AddLabelFails, ChunkNewFiles,
         EmbedFails, TakeUpload, UpsertBatch, MarkComplete, UploadFails, UploadDone,
         SkipCleanup, BeginCleanup, CleanRow, CleanupFails, CleanupDone, FtsCommit,
         FtsManifest, FtsFails, Finalize, PurgeChunks, PurgeLabels, PurgeFtsFolder,
         PurgeDone, Crash, EndProcess
<1>5. phase' = "fts_manifest" \/ (phase' = "finalize" /\ "fts" \in succeeded') =>
          ftsDocs'[job'.label] = LabelRows(job.label)' \ ZeroToken
  <2> SUFFICES ASSUME phase' = "fts_manifest" \/ (phase' = "finalize" /\ "fts" \in succeeded')
               PROVE  ftsDocs'[job'.label] = LabelRows(job.label)' \ ZeroToken
    OBVIOUS
  <2>1. FtsCommit \/ FtsManifest \/ UNCHANGED vars
    BY DEF Next, Command, CrawlStep, PurgeStep, ErrorStep, vars, StartCrawl, ClassifyFiles,
           OpenExistingFile, OpenExistingFileFails, AddLabel, AddLabelFails, ChunkNewFiles,
           EmbedFails, TakeUpload, UpsertBatch, MarkComplete, UploadFails, UploadDone,
           SkipCleanup, BeginCleanup, CleanRow, CleanupFails, CleanupDone,
           FtsFails, Finalize, PurgeChunks, PurgeLabels, PurgeFtsFolder,
           PurgeDone, Crash, EndProcess
  <2>2. CASE FtsCommit
    <3>1. job.label \in Labels /\ UNCHANGED <<rows, labels, job>>
      BY <2>2 DEF FtsCommit, CrawlPhases
    <3>2. ftsDocs'[job.label] = LabelRows(job.label) \ ZeroToken
      BY <2>2, <3>1, ReconcileYieldsRows DEF FtsCommit
    <3> QED
      BY <3>1, <3>2 DEF LabelRows
  <2>3. CASE FtsManifest
    BY <2>3 DEF FtsManifest, LabelRows
  <2>4. CASE UNCHANGED vars
    BY <2>4 DEF vars, LabelRows
  <2> QED
    BY <2>1, <2>2, <2>3, <2>4
<1> QED
  BY <1>1, <1>2, <1>3, <1>4, <1>5

(* Between crawls of other labels nothing of a label changes; its own crawl *)
(* completes FTS only on an index it has just reconciled.                   *)
LEMMA FtsOfOneLabel ==
    ASSUME StaleInv, IndexInv, [Next]_vars,
           phase \notin PurgePhases, phase' \notin PurgePhases,
           NEW l \in Labels, meta'[l] # NULL, meta'[l].ftsComplete
    PROVE  \/ ftsDocs'[l] = LabelRows(l)' \ ZeroToken
           \/ LabelRows(l)' = LabelRows(l) /\ meta'[l] = meta[l] /\ ftsDocs'[l] = ftsDocs[l]
<1> USE DEF StaleInv
<1>1. CASE l \notin {job.label, job'.label}
  BY <1>1, PeerStep DEF PeersUntouchedStep, StaleInv
<1>2. CASE phase \in CrawlPhases /\ l = job.label
  <2>1. meta[l].ftsComplete = FALSE
    BY <1>2 DEF CrawlInv, Unfinished
  <2>2. Finalize
    BY <1>2, <2>1, StoreEdits DEF StartCrawl, CrawlPhases, PurgeLabels
  <2>3. meta'[l].ftsComplete = MethodComplete("fts")
    BY <1>2, <2>2 DEF Finalize, TypeInv, TypeOK, Unfinished
  <2>4. ftsDocs[l] = LabelRows(l) \ ZeroToken
    BY <1>2, <2>2, <2>3 DEF Finalize, MethodComplete, IndexInv
  <2> QED
    BY <2>2, <2>4 DEF Finalize, LabelRows
<1>3. CASE phase \in CrawlPhases /\ l = job'.label /\ l # job.label
  <2>1. job' = NoJob
    BY <1>3 DEF Next, Command, CrawlStep, PurgeStep, ErrorStep, vars, StartCrawl, ClassifyFiles,
         OpenExistingFile, OpenExistingFileFails, AddLabel, AddLabelFails, ChunkNewFiles,
         EmbedFails, TakeUpload, UpsertBatch, MarkComplete, UploadFails, UploadDone,
         SkipCleanup, BeginCleanup, CleanRow, CleanupFails, CleanupDone, FtsCommit,
         FtsManifest, FtsFails, Finalize, PurgeChunks, PurgeLabels, PurgeFtsFolder,
         PurgeDone, Crash, EndProcess, CrawlPhases
  <2> QED
    BY <1>3, <2>1, ConstantsAssumption DEF NoJob
<1>4. CASE phase = "idle" /\ l \in {job.label, job'.label}
  <2>1. job = NoJob /\ l # job.label /\ l = job'.label
    BY <1>4, ConstantsAssumption DEF IndexInv, NoJob, CrawlPhases
  <2>2. PICK k \in Labels, c \in Commits, sel \in Selections : StartCrawl(k, c, sel)
    BY <1>4, <2>1 DEF Next, Command, CrawlStep, PurgeStep, ErrorStep, vars, ClassifyFiles,
         OpenExistingFile, OpenExistingFileFails, AddLabel, AddLabelFails, ChunkNewFiles,
         EmbedFails, TakeUpload, UpsertBatch, MarkComplete, UploadFails, UploadDone,
         SkipCleanup, BeginCleanup, CleanRow, CleanupFails, CleanupDone, FtsCommit,
         FtsManifest, FtsFails, Finalize, PurgeChunks, PurgeLabels, PurgeFtsFolder,
         PurgeDone, Crash, EndProcess
  <2>3. meta'[l] = Unfinished(c, sel)
    BY <2>1, <2>2 DEF StartCrawl, TypeInv, TypeOK
  <2> QED
    BY <2>3 DEF Unfinished
<1> QED
  BY <1>1, <1>2, <1>3, <1>4 DEF TypeInv, TypeOK, Phases

LEMMA FtsMatchesStep ==
    ASSUME FtsInv, [Next]_vars, "purge_labels" \notin CrashPhases
    PROVE  FtsMatchesRows'
<1> SUFFICES ASSUME NEW l \in Labels, meta'[l] # NULL, meta'[l].ftsComplete,
                    phase' \notin PurgePhases
             PROVE  ftsDocs'[l] = LabelRows(l)' \ ZeroToken
  BY DEF FtsMatchesRows
<1> USE DEF FtsInv, StaleInv
<1>1. CASE phase \in PurgePhases
  <2>1. ((PurgeDone \/ Crash) /\ phase = "purge_fts") \/ UNCHANGED vars
    BY <1>1 DEF Next, Command, CrawlStep, PurgeStep, ErrorStep, vars, StartCrawl, ClassifyFiles,
           OpenExistingFile, OpenExistingFileFails, AddLabel, AddLabelFails, ChunkNewFiles,
           EmbedFails, TakeUpload, UpsertBatch, MarkComplete, UploadFails, UploadDone,
           SkipCleanup, BeginCleanup, CleanRow, CleanupFails, CleanupDone, FtsCommit, FtsManifest,
           FtsFails, Finalize, PurgeChunks, PurgeLabels, PurgeFtsFolder, PurgeDone, Crash,
           PurgePhases
  <2> QED
    BY <1>1, <2>1 DEF PurgeDone, Crash, IndexInv, vars
<1>2. CASE phase \notin PurgePhases
  BY <1>2, FtsOfOneLabel DEF FtsMatchesRows
<1> QED
  BY <1>1, <1>2

(* A label whose FTS method is complete has exactly its searchable rows in  *)
(* its index, whatever other labels did to the shared rows since.  A purge  *)
(* that dies between the rows and the metadata would break it: it leaves    *)
(* complete labels without rows.                                            *)
THEOREM IndexesMatchRows ==
    ASSUME "purge_labels" \notin CrashPhases
    PROVE  Spec => []FtsMatchesRows
<1>1. Init => FtsInv
  <2>1. Init => StaleInv
    BY InitTypeInv DEF StaleInv, Init, CrawlInv, CrawlPhases, NoStaleRows, Published
  <2>2. Init => IndexInv /\ FtsMatchesRows
    BY DEF Init, IndexInv, FtsMatchesRows, ProcessStart
  <2> QED
    BY <2>1, <2>2 DEF FtsInv
<1>2. FtsInv /\ [Next]_vars => FtsInv'
  BY NextTypeInv, CrawlInvStep, NoStaleStep, IndexInvStep, FtsMatchesStep DEF FtsInv, StaleInv
<1>3. FtsInv => FtsMatchesRows
  BY DEF FtsInv
<1> QED
  BY <1>1, <1>2, <1>3, PTL DEF Spec

(* Whatever stops a purge: the index of a complete FTS method offers no row *)
(* that is not the label's, unless the label has no row left at all.        *)
FtsOrPurged ==
    \A l \in Labels : meta[l] # NULL /\ meta[l].ftsComplete =>
        ftsDocs[l] = LabelRows(l) \ ZeroToken \/ LabelRows(l) = {}

PurgeInv ==
    /\ StaleInv /\ IndexInv
    /\ phase = "purge_labels" => rows = {}
    /\ FtsOrPurged

LEMMA PurgeInvStep == PurgeInv /\ [Next]_vars => PurgeInv'
<1> SUFFICES ASSUME PurgeInv, [Next]_vars PROVE PurgeInv'
  OBVIOUS
<1> USE DEF PurgeInv
<1>1. StaleInv' /\ IndexInv'
  BY NextTypeInv, CrawlInvStep, NoStaleStep, IndexInvStep DEF StaleInv
<1>2. ASSUME phase \in PurgePhases \/ phase' \in PurgePhases
      PROVE  \/ PurgeChunks \/ PurgeLabels \/ PurgeDone \/ Crash \/ UNCHANGED vars
             \/ \E l \in Labels : PurgeFtsFolder(l)
  <2>1. CrawlStep => phase \notin PurgePhases /\ phase' \notin PurgePhases
    BY DEF CrawlStep, ClassifyFiles, OpenExistingFile, AddLabel, ChunkNewFiles, TakeUpload,
           UpsertBatch, MarkComplete, UploadDone, SkipCleanup, BeginCleanup, CleanRow,
           CleanupDone, FtsCommit, FtsManifest, Finalize, EndProcess, PurgePhases
  <2>2. ErrorStep => (phase \notin PurgePhases /\ phase' \notin PurgePhases) \/ Crash
    BY DEF ErrorStep, OpenExistingFileFails, AddLabelFails, EmbedFails, UploadFails,
           CleanupFails, FtsFails, PurgePhases
  <2>3. Command => (phase \notin PurgePhases /\ phase' \notin PurgePhases) \/ PurgeChunks
    BY DEF Command, StartCrawl, PurgePhases
  <2> QED
    BY <1>2, <2>1, <2>2, <2>3 DEF Next, PurgeStep
<1>3. phase' = "purge_labels" => rows' = {}
  BY <1>2 DEF PurgeChunks, PurgeLabels, PurgeDone, PurgeFtsFolder, Crash, EndProcess, vars,
              PurgePhases
<1>4. ASSUME NEW l \in Labels, meta'[l] # NULL, meta'[l].ftsComplete
      PROVE  ftsDocs'[l] = LabelRows(l)' \ ZeroToken \/ LabelRows(l)' = {}
  <2>1. CASE phase \in PurgePhases
    <3>1. phase = "purge_fts" => meta[l] = NULL
      BY DEF IndexInv
    <3>2. CASE PurgeLabels
      BY <1>4, <3>2 DEF PurgeLabels
    <3>3. CASE Crash \/ PurgeDone \/ UNCHANGED vars
      BY <1>4, <2>1, <3>1, <3>3 DEF Crash, PurgeDone, PurgePhases, vars, LabelRows
    <3>4. ASSUME NEW k \in Labels, PurgeFtsFolder(k) PROVE FALSE
      BY <1>4, <3>1, <3>4 DEF PurgeFtsFolder
    <3>5. ~PurgeChunks
      BY <2>1 DEF PurgeChunks, PurgePhases
    <3> QED
      BY <1>2, <2>1, <3>2, <3>3, <3>4, <3>5
  <2>2. CASE phase \notin PurgePhases /\ phase' \in PurgePhases
    <3>1. PurgeChunks
      BY <1>2, <2>2 DEF PurgeLabels, PurgeDone, PurgeFtsFolder, Crash, EndProcess, vars, PurgePhases
    <3> QED
      BY <3>1 DEF PurgeChunks, LabelRows
  <2>3. CASE phase \notin PurgePhases /\ phase' \notin PurgePhases
    BY <1>4, <2>3, FtsOfOneLabel DEF FtsOrPurged
  <2> QED
    BY <2>1, <2>2, <2>3
<1> QED
  BY <1>1, <1>3, <1>4 DEF FtsOrPurged

LEMMA InitPurgeInv == Init => PurgeInv
<1>1. Init => StaleInv
  BY InitTypeInv DEF StaleInv, Init, CrawlInv, CrawlPhases, NoStaleRows, Published
<1>2. Init => IndexInv /\ FtsOrPurged
  BY DEF Init, IndexInv, FtsOrPurged, ProcessStart
<1> QED
  BY <1>1, <1>2 DEF PurgeInv, Init

THEOREM IndexesOfferOwnRows == Spec => []FtsOrPurged
<1>1. PurgeInv => FtsOrPurged
  BY DEF PurgeInv
<1> QED
  BY <1>1, InitPurgeInv, PurgeInvStep, PTL DEF Spec
-----------------------------------------------------------------------------
(* The rows, sentinels and vectors, as long as no fault comes between the   *)
(* edits of one file's rows.  (Some of what follows fails with such faults: *)
(* run crawl_interrupted_peer.)                                             *)

(* The faults that leave every file with all of its rows edited or none.    *)
FaultsBetweenEdits ==
    /\ CrashPhases \subseteq {"classify", "reassign", "fts", "fts_manifest", "finalize",
                              "purge_fts"}
    /\ Errors \subseteq {"sentinel_read", "fts"}

(* The process holds nothing that is not of its phase.                      *)
MemoryInv ==
    /\ phase \notin CrawlPhases => job = NoJob
    /\ failures = {}
    /\ phase # "upload" => pending = {} /\ queue = {} /\ marks = {}
    /\ phase # "cleanup" => cleanRows = {}
    /\ phase \in {"classify", "label_add"} => batch = {} /\ uploaded = {}

(* The label of the crawl is on a row, or is going to be, and stays.        *)
Claimed(r) ==
    /\ job.label \in labels[r] \/ r \in addRows \/ r \in pending \/ r \in queue
    /\ r \notin cleanRows

(* The rows of a file carry the same labels, but for what the crawl is      *)
(* doing to them.                                                           *)
UniformInv ==
    \A f \in Files : \A r, q \in RowsOf(f) :
        /\ Claimed(r) => Claimed(q)
        /\ labels[r] \ {job.label} = labels[q] \ {job.label}

(* How far the crawl has come with the files of its tree.                   *)
ProgressInv ==
    /\ phase = "label_add" =>
          /\ existing \cup newFiles = Tree[job.source]
          /\ addFiles \subseteq existing
          /\ \A f \in existing : RowsOf(f) \subseteq rows
          /\ \A f \in existing \ addFiles : \A r \in RowsOf(f) :
                job.label \in labels[r] \/ r \in addRows
    /\ phase = "upload" =>
          \A r \in TreeRows(job.source) : job.label \in labels[r] \/ r \in pending \/ r \in queue
    /\ phase \in {"reassign", "cleanup", "fts", "fts_manifest", "finalize"} =>
          \A r \in TreeRows(job.source) : job.label \in labels[r]
    /\ phase \in {"upload", "reassign", "cleanup"} =>
          \A r \in TreeRows(job.source) : FileOf(r) \in touched
    /\ \A r \in cleanRows : FileOf(r) \notin touched

(* A row has a vector, or is going to.                                      *)
Embedded(r) == r \in vectors \/ (InVector /\ (r \in pending \/ r \in queue))

(* A file's rows have vectors all together, and so do the files of the      *)
(* crawl's tree when it is a vector crawl.                                  *)
VectorInv ==
    /\ \A f \in Files : \A r, q \in RowsOf(f) : Embedded(r) /\ q \in rows => Embedded(q)
    /\ phase = "upload" /\ ~InVector =>
          \A f \in Files : \A r \in RowsOf(f) : r \in vectors => RowsOf(f) \subseteq rows
    /\ phase = "upload" /\ InVector =>
          /\ uploaded \subseteq vectors /\ batch \subseteq vectors \cup queue
          /\ \A f \in marks : RowsOf(f) \subseteq vectors
          /\ \A r \in TreeRows(job.source) : Embedded(r)
    /\ phase = "label_add" /\ InVector => \A f \in existing : RowsOf(f) \subseteq vectors
    /\ phase \in {"reassign", "cleanup", "fts", "fts_manifest", "finalize"} /\ InVector =>
          TreeRows(job.source) \subseteq vectors

TableInv ==
    /\ MemoryInv /\ UniformInv /\ ProgressInv /\ VectorInv
    /\ SentinelVectorCoversFile

(* Proved above to hold throughout.                                         *)
KnownInv == StaleInv /\ NoOrphanRows

-----------------------------------------------------------------------------

LEMMA RowsOfFile ==
    /\ \A f \in Files : \A r \in RowsOf(f) : r \in Rows /\ FileOf(r) = f
    /\ \A r \in Rows : FileOf(r) \in Files /\ r \in RowsOf(FileOf(r))
    /\ \A f \in Files : Sentinel(f) \in Rows => Sentinel(f) \in RowsOf(f)
BY DEF RowsOf, Rows, FileOf, Sentinel

LEMMA RowsOfTree ==
    ASSUME NEW c \in Commits
    PROVE  \A r : r \in TreeRows(c) <=> r \in Rows /\ FileOf(r) \in Tree[c]
BY RowsOfFile, TreeType DEF TreeRows

(* Without faults between edits the errors of the row loops never come.     *)
LEMMA QuietSteps ==
    ASSUME FaultsBetweenEdits, [Next]_vars
    PROVE  \/ \E l \in Labels, c \in Commits, sel \in Selections : StartCrawl(l, c, sel)
           \/ ClassifyFiles
           \/ \E f \in Files : OpenExistingFile(f)
           \/ \E r \in Rows : AddLabel(r)
           \/ ChunkNewFiles
           \/ \E S \in SUBSET pending : TakeUpload(S)
           \/ \E B \in SUBSET queue : UpsertBatch(B)
           \/ \E S \in SUBSET marks : MarkComplete(S)
           \/ UploadDone \/ SkipCleanup \/ BeginCleanup
           \/ \E r \in Rows : CleanRow(r)
           \/ CleanupDone \/ FtsCommit \/ FtsManifest \/ FtsFails \/ Finalize
           \/ PurgeChunks \/ PurgeLabels
           \/ \E l \in Labels : PurgeFtsFolder(l)
           \/ PurgeDone
           \/ Crash /\ phase \notin {"label_add", "upload", "cleanup", "purge_labels"}
           \/ UNCHANGED vars
BY DEF FaultsBetweenEdits, Next, Command, CrawlStep, PurgeStep, ErrorStep, Fault,
       OpenExistingFileFails, AddLabelFails, EmbedFails, UploadFails, CleanupFails, Crash

(* Between two loops over rows a file is in the table with all of its rows  *)
(* or with none.                                                            *)
LEMMA WholeFiles ==
    ASSUME KnownInv, MemoryInv, UniformInv, phase \notin {"upload", "cleanup"},
           NEW f \in Files, NEW r \in RowsOf(f), r \in rows
    PROVE  RowsOf(f) \subseteq rows
<1> USE DEF KnownInv, StaleInv, TypeInv, TypeOK
<1> SUFFICES ASSUME NEW q \in RowsOf(f) PROVE q \in rows
  OBVIOUS
<1>0. r \in Rows /\ q \in Rows
  BY RowsOfFile
<1>1. labels[r] # {} /\ (labels[q] # {} => q \in rows)
  BY <1>0 DEF NoOrphanRows
<1>2. CASE labels[r] \ {job.label} # {}
  BY <1>1, <1>2 DEF UniformInv
<1>3. CASE job.label \in labels[r]
  <2>1. Claimed(q)
    BY <1>3 DEF UniformInv, Claimed, MemoryInv
  <2> QED
    BY <1>1, <2>1 DEF Claimed, MemoryInv
<1> QED
  BY <1>1, <1>2, <1>3

LEMMA MemoryStep ==
    ASSUME KnownInv, TableInv, FaultsBetweenEdits, [Next]_vars
    PROVE  MemoryInv'
BY QuietSteps
   DEF KnownInv, StaleInv, TypeInv, LocalsOK, TableInv, MemoryInv, vars, StartCrawl, ClassifyFiles,
       OpenExistingFile, AddLabel, ChunkNewFiles, TakeUpload, UpsertBatch, MarkComplete,
       UploadDone, SkipCleanup, BeginCleanup, CleanRow, CleanupDone, FtsCommit, FtsManifest,
       FtsFails, Finalize, PurgeChunks, PurgeLabels, PurgeFtsFolder, PurgeDone, Crash,
       EndProcess, ProcessStart, CrawlPhases, PurgePhases

-----------------------------------------------------------------------------
(* Steps that neither edit a label nor take a row up to edit it.            *)

LEMMA UniformFrame ==
    ASSUME UniformInv, UNCHANGED <<labels, addRows, cleanRows>>, job'.label = job.label,
           pending' \cup queue' = pending \cup queue
    PROVE  UniformInv'
BY DEF UniformInv, Claimed

(* Between the loops a crawl may begin and end.                             *)
LEMMA UniformBetweenCrawls ==
    ASSUME KnownInv, UniformInv, labels' = labels,
           addRows = {}, cleanRows = {}, pending = {}, queue = {},
           addRows' = {}, cleanRows' = {}, pending' = {}, queue' = {}
    PROVE  UniformInv'
<1> SUFFICES ASSUME NEW f \in Files, NEW r \in RowsOf(f), NEW q \in RowsOf(f)
             PROVE  (Claimed(r)' => Claimed(q)') /\ labels[r] \ {job'.label} = labels[q] \ {job'.label}
  BY DEF UniformInv
<1>1. labels[r] = labels[q]
  <2>1. /\ job.label \in labels[r] <=> job.label \in labels[q]
        /\ labels[r] \ {job.label} = labels[q] \ {job.label}
    BY DEF UniformInv, Claimed
  <2> QED
    BY <2>1
<1> QED
  BY <1>1 DEF Claimed

LEMMA UniformStep ==
    ASSUME KnownInv, TableInv, FaultsBetweenEdits, [Next]_vars
    PROVE  UniformInv'
<1> USE DEF KnownInv, StaleInv, TypeInv, TypeOK, LocalsOK, TableInv
<1>1. ASSUME NEW l \in Labels, NEW c \in Commits, NEW sel \in Selections,
             StartCrawl(l, c, sel)
      PROVE  UniformInv'
  BY <1>1, UniformBetweenCrawls DEF StartCrawl, MemoryInv
<1>2. ASSUME NEW f \in Files, OpenExistingFile(f) PROVE UniformInv'
  <2>1. /\ phase = "label_add" /\ addRows = {} /\ f \in addFiles /\ addRows' = RowsToLabel(f)
        /\ UNCHANGED <<labels, job, pending, queue, cleanRows>>
        /\ cleanRows = {} /\ pending = {} /\ queue = {}
    BY <1>2 DEF OpenExistingFile, MemoryInv
  <2>2. \A r \in RowsOf(f) : job.label \in labels[r] \/ r \in addRows'
    BY <2>1, RowsOfFile DEF ProgressInv, RowsToLabel
  <2>3. \A g \in Files \ {f} : \A r \in RowsOf(g) : r \notin addRows'
    BY <2>1, RowsOfFile DEF RowsToLabel
  <2>4. ASSUME NEW g \in Files, NEW r \in RowsOf(g), NEW q \in RowsOf(g)
        PROVE  Claimed(r)' => Claimed(q)'
    <3>1. CASE g = f
      BY <2>1, <2>2, <3>1 DEF Claimed
    <3>2. CASE g # f
      BY <2>1, <2>3, <3>2 DEF Claimed, UniformInv
    <3> QED
      BY <3>1, <3>2
  <2> QED
    BY <2>1, <2>4 DEF UniformInv
<1>3. ASSUME NEW x \in Rows, AddLabel(x) PROVE UniformInv'
  <2>1. /\ \A r \in Rows : labels'[r] = IF r = x THEN labels[r] \cup {job.label} ELSE labels[r]
        /\ x \in addRows /\ addRows' = addRows \ {x}
        /\ UNCHANGED <<job, pending, queue, cleanRows>>
    BY <1>3 DEF AddLabel, NextAddRow
  <2>2. \A r \in Rows : /\ Claimed(r)' <=> Claimed(r)
                        /\ labels'[r] \ {job.label} = labels[r] \ {job.label}
    BY <2>1 DEF Claimed
  <2> QED
    BY <2>1, <2>2, RowsOfFile DEF UniformInv
<1>4. CASE ChunkNewFiles
  <2>1. /\ phase = "label_add" /\ addRows = {} /\ pending = {} /\ queue = {} /\ cleanRows = {}
        /\ UNCHANGED <<labels, job, addRows, queue, cleanRows>>
        /\ \E skipped \in SUBSET newFiles :
              pending' = UNION {RowsOf(f) : f \in newFiles \ skipped}
    BY <1>4 DEF ChunkNewFiles, MemoryInv
  <2>2. \A g \in Files : \A r, q \in RowsOf(g) : r \in pending' => q \in pending'
    BY <2>1, RowsOfFile
  <2> QED
    BY <2>1, <2>2 DEF UniformInv, Claimed
<1>5. ASSUME NEW S \in SUBSET pending, TakeUpload(S) PROVE UniformInv'
  BY <1>5, UniformFrame DEF TakeUpload
<1>6. ASSUME NEW B \in SUBSET queue, UpsertBatch(B) PROVE UniformInv'
  <2>1. /\ \A r \in Rows : labels'[r] = IF r \in B THEN labels[r] \cup {job.label} ELSE labels[r]
        /\ queue' = queue \ B
        /\ UNCHANGED <<job, pending, addRows, cleanRows>>
        /\ cleanRows = {}
    BY <1>6 DEF UpsertBatch, MergedLabels, MemoryInv
  <2>2. \A r \in Rows : /\ Claimed(r)' <=> Claimed(r)
                        /\ labels'[r] \ {job.label} = labels[r] \ {job.label}
    BY <2>1 DEF Claimed
  <2> QED
    BY <2>1, <2>2, RowsOfFile DEF UniformInv
<1>7. CASE BeginCleanup
  <2>1. /\ cleanRows = {} /\ cleanRows' = StaleRows /\ addRows = {} /\ pending = {} /\ queue = {}
        /\ UNCHANGED <<labels, job, addRows, pending, queue>>
    BY <1>7 DEF BeginCleanup, MemoryInv
  <2>2. ASSUME NEW g \in Files, NEW r \in RowsOf(g), NEW q \in RowsOf(g)
        PROVE  Claimed(r)' => Claimed(q)'
    <3>1. job.label \in labels[r] => job.label \in labels[q]
      BY <2>1 DEF UniformInv, Claimed
    <3>2. r \in Rows /\ q \in Rows /\ FileOf(r) = g /\ FileOf(q) = g
      BY RowsOfFile
    <3>3. job.label \in labels[r] => r \in rows /\ (r \in StaleRows <=> g \notin touched)
      BY <3>2 DEF StaleRows, LabelRows
    <3>4. q \in StaleRows => g \notin touched
      BY <3>2 DEF StaleRows
    <3> QED
      BY <2>1, <3>1, <3>3, <3>4 DEF Claimed
  <2> QED
    BY <2>1, <2>2 DEF UniformInv
<1>8. ASSUME NEW x \in Rows, CleanRow(x) PROVE UniformInv'
  <2>1. /\ \A r \in Rows : labels'[r] = IF r = x THEN labels[r] \ {job.label} ELSE labels[r]
        /\ x \in cleanRows /\ cleanRows' = cleanRows \ {x}
        /\ UNCHANGED <<job, pending, queue, addRows>>
        /\ addRows = {} /\ pending = {} /\ queue = {}
    BY <1>8 DEF CleanRow, MemoryInv
  <2>2. \A r \in Rows : /\ Claimed(r)' <=> Claimed(r)
                        /\ labels'[r] \ {job.label} = labels[r] \ {job.label}
    BY <2>1 DEF Claimed
  <2> QED
    BY <2>1, <2>2, RowsOfFile DEF UniformInv
<1>9. CASE PurgeChunks
  <2>1. /\ \A r \in Rows : labels'[r] = {}
        /\ addRows' = {} /\ pending' = {} /\ queue' = {} /\ cleanRows' = {}
    BY <1>9 DEF PurgeChunks, MemoryInv
  <2> QED
    BY <2>1, RowsOfFile DEF UniformInv, Claimed
<1>10. ASSUME Finalize \/ PurgeDone
              \/ (Crash /\ phase \notin {"label_add", "upload", "cleanup", "purge_labels"})
       PROVE  UniformInv'
  BY <1>10, UniformBetweenCrawls DEF Finalize, PurgeDone, Crash, EndProcess, MemoryInv
<1>11. ASSUME \/ ClassifyFiles \/ \E S \in SUBSET marks : MarkComplete(S)
              \/ UploadDone \/ SkipCleanup \/ CleanupDone \/ FtsCommit \/ FtsManifest \/ FtsFails
              \/ PurgeLabels \/ \E l \in Labels : PurgeFtsFolder(l)
              \/ UNCHANGED vars
       PROVE  UniformInv'
  <2>1. UNCHANGED <<labels, job, addRows, cleanRows, pending, queue>>
    BY <1>11 DEF ClassifyFiles, MarkComplete, UploadDone, SkipCleanup, CleanupDone, FtsCommit,
                 FtsManifest, FtsFails, PurgeLabels, PurgeFtsFolder, vars
  <2> QED
    BY <2>1, UniformFrame
<1> QED
  BY QuietSteps, <1>1, <1>2, <1>3, <1>4, <1>5, <1>6, <1>7, <1>8, <1>9, <1>10, <1>11

-----------------------------------------------------------------------------
(* How far the crawl has come.                                              *)

(* What the fast path takes is in the table with all of its rows, and in a  *)
(* vector crawl with all of its vectors.                                    *)
LEMMA FastPathIsWhole ==
    ASSUME KnownInv, TableInv, phase = "classify", NEW f \in Files, FastPath(f)
    PROVE  RowsOf(f) \subseteq rows /\ (InVector => RowsOf(f) \subseteq vectors)
<1>1. f \in complete /\ Sentinel(f) \in rows /\ Sentinel(f) \in Rows
  BY DEF FastPath, KnownInv, StaleInv, TypeInv, TypeOK
<1>2. Sentinel(f) \in RowsOf(f)
  BY <1>1, RowsOfFile
<1>3. RowsOf(f) \subseteq rows
  BY <1>1, <1>2, WholeFiles DEF TableInv
<1> QED
  BY <1>1, <1>3 DEF FastPath, TableInv, SentinelVectorCoversFile

LEMMA ProgressStep ==
    ASSUME KnownInv, TableInv, FaultsBetweenEdits, [Next]_vars
    PROVE  ProgressInv'
<1> USE DEF KnownInv, StaleInv, TypeInv, TypeOK, LocalsOK, TableInv
<1>c. phase \in CrawlPhases => /\ job.label \in Labels /\ job.source \in Commits
                               /\ \A r : r \in TreeRows(job.source) <=>
                                           r \in Rows /\ FileOf(r) \in Tree[job.source]
  BY RowsOfTree
<1>0. ASSUME phase' \notin {"label_add", "upload", "reassign", "cleanup", "fts", "fts_manifest",
                            "finalize"},
             cleanRows' = {}
      PROVE  ProgressInv'
  BY <1>0 DEF ProgressInv
<1>1. ASSUME NEW l \in Labels, NEW c \in Commits, NEW sel \in Selections,
             StartCrawl(l, c, sel)
      PROVE  ProgressInv'
  BY <1>0, <1>1 DEF StartCrawl, MemoryInv
<1>2. CASE ClassifyFiles
  <2>1. PICK unread \in SUBSET Tree[job.source] :
           /\ existing' = {f \in Tree[job.source] \ unread : FastPath(f)}
           /\ newFiles' = Tree[job.source] \ existing'
           /\ addFiles' = existing'
    BY <1>2 DEF ClassifyFiles
  <2>2. /\ phase = "classify" /\ phase' = "label_add" /\ cleanRows' = {}
        /\ UNCHANGED <<rows, labels, job>>
    BY <1>2 DEF ClassifyFiles, MemoryInv
  <2>3. Tree[job.source] \subseteq Files
    BY <1>c, <2>2, TreeType DEF CrawlPhases
  <2>4. \A f \in existing' : RowsOf(f) \subseteq rows
    BY <2>1, <2>2, <2>3, FastPathIsWhole
  <2> QED
    BY <2>1, <2>2, <2>4 DEF ProgressInv
<1>3. ASSUME NEW f \in Files, OpenExistingFile(f) PROVE ProgressInv'
  <2>1. /\ phase = "label_add" /\ phase' = phase /\ addRows = {} /\ f \in addFiles
        /\ addRows' = RowsToLabel(f) /\ addFiles' = addFiles \ {f}
        /\ UNCHANGED <<rows, labels, job, existing, newFiles, cleanRows>> /\ cleanRows = {}
    BY <1>3 DEF OpenExistingFile, MemoryInv
  <2>2. \A r \in RowsOf(f) : job.label \in labels[r] \/ r \in addRows'
    BY <2>1, RowsOfFile DEF ProgressInv, RowsToLabel
  <2> QED
    BY <2>1, <2>2 DEF ProgressInv
<1>4. ASSUME NEW x \in Rows, AddLabel(x) PROVE ProgressInv'
  <2>1. /\ phase = "label_add" /\ phase' = phase
        /\ \A r \in Rows : labels'[r] = IF r = x THEN labels[r] \cup {job.label} ELSE labels[r]
        /\ addRows' = addRows \ {x}
        /\ UNCHANGED <<rows, job, existing, newFiles, addFiles, cleanRows>> /\ cleanRows = {}
    BY <1>4 DEF AddLabel, MemoryInv
  <2>2. \A r \in Rows : job.label \in labels[r] \/ r \in addRows =>
                            job.label \in labels'[r] \/ r \in addRows'
    BY <2>1
  <2>3. \A f \in existing \ addFiles : \A r \in RowsOf(f) : job.label \in labels'[r] \/ r \in addRows'
    BY <2>1, <2>2, RowsOfFile DEF ProgressInv
  <2> QED
    BY <2>1, <2>3 DEF ProgressInv
<1>5. CASE ChunkNewFiles
  <2>1. /\ phase = "label_add" /\ phase' = "upload" /\ addFiles = {} /\ addRows = {}
        /\ cleanRows' = {}
        /\ UNCHANGED <<labels, job, queue>>
    BY <1>5 DEF ChunkNewFiles, MemoryInv
  <2>2. /\ pending' = UNION {RowsOf(f) : f \in newFiles}
        /\ touched' = Touched(newFiles)
    <3>1. PICK skipped \in SUBSET newFiles :
             /\ skipped = {} \/ Fault("file_read")
             /\ pending' = UNION {RowsOf(f) : f \in newFiles \ skipped}
             /\ touched' = Touched(newFiles \ skipped)
      BY <1>5 DEF ChunkNewFiles
    <3>2. skipped = {}
      BY <3>1 DEF Fault, FaultsBetweenEdits
    <3>3. newFiles \ skipped = newFiles
      BY <3>2
    <3> QED
      BY <3>1, <3>3
  <2>3. existing \cup newFiles = Tree[job.source]
        /\ \A f \in existing : \A r \in RowsOf(f) : job.label \in labels[r]
    BY <2>1 DEF ProgressInv
  <2>4. ASSUME NEW r \in TreeRows(job.source)
        PROVE  (job.label \in labels[r] \/ r \in pending') /\ FileOf(r) \in touched'
    <3>1. r \in Rows /\ FileOf(r) \in Tree[job.source]
      BY <1>c, <2>1 DEF CrawlPhases
    <3>2. r \in RowsOf(FileOf(r))
      BY <3>1, RowsOfFile
    <3> QED
      BY <2>2, <2>3, <3>1, <3>2 DEF Touched
  <2> QED
    BY <2>1, <2>4 DEF ProgressInv, TreeRows
<1>6. ASSUME NEW S \in SUBSET pending, TakeUpload(S) PROVE ProgressInv'
  <2>1. /\ phase = "upload" /\ phase' = phase /\ queue = {} /\ queue' = S
        /\ pending' = pending \ S /\ UNCHANGED <<labels, job, touched, cleanRows>>
    BY <1>6 DEF TakeUpload
  <2> QED
    BY <2>1 DEF ProgressInv, TreeRows
<1>7. ASSUME NEW B \in SUBSET queue, UpsertBatch(B) PROVE ProgressInv'
  <2>1. /\ phase = "upload" /\ phase' = phase
        /\ \A r \in Rows : labels'[r] = IF r \in B THEN labels[r] \cup {job.label} ELSE labels[r]
        /\ queue' = queue \ B /\ UNCHANGED <<pending, job, touched, cleanRows>>
    BY <1>7 DEF UpsertBatch, MergedLabels
  <2>2. \A r \in TreeRows(job.source) : r \in Rows
    BY <1>c, <2>1 DEF CrawlPhases
  <2>3. \A r \in TreeRows(job.source) :
           /\ job.label \in labels'[r] \/ r \in pending \/ r \in queue'
           /\ FileOf(r) \in touched
    BY <2>1, <2>2 DEF ProgressInv
  <2> QED
    BY <2>1, <2>3 DEF ProgressInv, TreeRows
<1>8. ASSUME NEW S \in SUBSET marks, MarkComplete(S) PROVE ProgressInv'
  BY <1>8 DEF MarkComplete, ProgressInv, TreeRows
<1>9. CASE UploadDone
  <2>1. /\ phase = "upload" /\ phase' = "reassign" /\ pending = {} /\ queue = {}
        /\ UNCHANGED <<labels, job, touched, cleanRows>>
    BY <1>9 DEF UploadDone
  <2> QED
    BY <2>1 DEF ProgressInv, TreeRows
<1>10. CASE BeginCleanup
  <2>1. /\ phase = "reassign" /\ phase' = "cleanup" /\ cleanRows' = StaleRows
        /\ UNCHANGED <<labels, job, touched>>
    BY <1>10 DEF BeginCleanup
  <2> QED
    BY <2>1 DEF ProgressInv, TreeRows, StaleRows
<1>11. ASSUME NEW x \in Rows, CleanRow(x) PROVE ProgressInv'
  <2>1. /\ phase = "cleanup" /\ phase' = phase /\ x \in cleanRows
        /\ \A r \in Rows : labels'[r] = IF r = x THEN labels[r] \ {job.label} ELSE labels[r]
        /\ cleanRows' = cleanRows \ {x} /\ UNCHANGED <<job, touched>>
    BY <1>11 DEF CleanRow
  <2>2. \A r \in TreeRows(job.source) : r \in Rows /\ r # x
    BY <1>c, <2>1 DEF CrawlPhases, ProgressInv
  <2> QED
    BY <2>1, <2>2 DEF ProgressInv, TreeRows
<1>12. ASSUME \/ SkipCleanup \/ CleanupDone \/ FtsCommit \/ FtsManifest \/ FtsFails
       PROVE  ProgressInv'
  <2>1. /\ phase \in {"reassign", "cleanup", "fts", "fts_manifest"}
        /\ phase' \in {"fts", "fts_manifest", "finalize"}
        /\ UNCHANGED <<labels, job, touched, cleanRows>>
    BY <1>12 DEF SkipCleanup, CleanupDone, FtsCommit, FtsManifest, FtsFails
  <2> QED
    BY <2>1 DEF ProgressInv, TreeRows
<1>13. ASSUME \/ Finalize \/ PurgeDone \/ PurgeChunks \/ PurgeLabels
              \/ \E l \in Labels : PurgeFtsFolder(l)
              \/ (Crash /\ phase \notin {"label_add", "upload", "cleanup", "purge_labels"})
       PROVE  ProgressInv'
  BY <1>0, <1>13 DEF Finalize, PurgeDone, PurgeChunks, PurgeLabels, PurgeFtsFolder, Crash,
                     EndProcess, MemoryInv
<1>14. CASE UNCHANGED vars
  BY <1>14 DEF vars, ProgressInv, TreeRows
<1> QED
  BY QuietSteps, <1>1, <1>2, <1>3, <1>4, <1>5, <1>6, <1>7, <1>8, <1>9, <1>10, <1>11, <1>12,
     <1>13, <1>14

-----------------------------------------------------------------------------
(* Vectors.                                                                 *)

(* Outside the upload the vectors of a file do not depend on who asks.      *)
LEMMA EmbeddedOutsideUpload ==
    ASSUME TableInv, UNCHANGED <<rows, vectors>>, phase # "upload",
           pending' = {}, queue' = {}
    PROVE  \A f \in Files : \A r, q \in RowsOf(f) : Embedded(r)' /\ q \in rows' => Embedded(q)'
BY DEF TableInv, MemoryInv, VectorInv, Embedded

LEMMA VectorStep ==
    ASSUME KnownInv, TableInv, FaultsBetweenEdits, [Next]_vars
    PROVE  VectorInv'
<1> USE DEF KnownInv, StaleInv, TypeInv, TypeOK, LocalsOK, TableInv
<1>c. phase \in CrawlPhases => /\ job.source \in Commits
                               /\ \A r : r \in TreeRows(job.source) <=>
                                           r \in Rows /\ FileOf(r) \in Tree[job.source]
  BY RowsOfTree
<1>0. ASSUME phase' \notin {"label_add", "upload", "reassign", "cleanup", "fts", "fts_manifest",
                            "finalize"},
             UNCHANGED <<rows, vectors>>, phase # "upload", pending' = {}, queue' = {}
      PROVE  VectorInv'
  BY <1>0, EmbeddedOutsideUpload DEF VectorInv
<1>1. ASSUME \/ \E l \in Labels, c \in Commits, sel \in Selections : StartCrawl(l, c, sel)
             \/ Finalize \/ PurgeDone \/ PurgeLabels
             \/ \E l \in Labels : PurgeFtsFolder(l)
             \/ (Crash /\ phase \notin {"label_add", "upload", "cleanup", "purge_labels"})
      PROVE  VectorInv'
  BY <1>0, <1>1 DEF StartCrawl, Finalize, PurgeDone, PurgeLabels, PurgeFtsFolder, Crash,
                    EndProcess, MemoryInv
<1>2. CASE ClassifyFiles
  <2>1. PICK unread \in SUBSET Tree[job.source] :
           existing' = {f \in Tree[job.source] \ unread : FastPath(f)}
    BY <1>2 DEF ClassifyFiles
  <2>2. /\ phase = "classify" /\ phase' = "label_add"
        /\ UNCHANGED <<rows, vectors, job, pending, queue>> /\ pending = {} /\ queue = {}
    BY <1>2 DEF ClassifyFiles, MemoryInv
  <2>3. Tree[job.source] \subseteq Files
    BY <1>c, <2>2, TreeType DEF CrawlPhases
  <2>4. InVector => \A f \in existing' : RowsOf(f) \subseteq vectors
    BY <2>1, <2>2, <2>3, FastPathIsWhole
  <2> QED
    BY <2>2, <2>4, EmbeddedOutsideUpload DEF VectorInv, InVector
<1>3. ASSUME (\E f \in Files : OpenExistingFile(f)) \/ (\E x \in Rows : AddLabel(x))
      PROVE  VectorInv'
  <2>1. /\ phase = "label_add" /\ phase' = phase
        /\ UNCHANGED <<rows, vectors, job, existing, pending, queue>> /\ pending = {} /\ queue = {}
    BY <1>3 DEF OpenExistingFile, AddLabel, MemoryInv
  <2> QED
    BY <2>1, EmbeddedOutsideUpload DEF VectorInv, InVector
<1>4. CASE ChunkNewFiles
  <2>1. /\ phase = "label_add" /\ phase' = "upload"
        /\ UNCHANGED <<rows, vectors, job, queue, batch, uploaded, marks>>
        /\ pending = {} /\ queue = {} /\ marks = {} /\ uploaded = {} /\ batch = {}
    BY <1>4 DEF ChunkNewFiles, MemoryInv
  <2>2. pending' = UNION {RowsOf(f) : f \in newFiles}
    <3>1. PICK skipped \in SUBSET newFiles :
             /\ skipped = {} \/ Fault("file_read")
             /\ pending' = UNION {RowsOf(f) : f \in newFiles \ skipped}
      BY <1>4 DEF ChunkNewFiles
    <3>2. skipped = {}
      BY <3>1 DEF Fault, FaultsBetweenEdits
    <3>3. newFiles \ skipped = newFiles
      BY <3>2
    <3> QED
      BY <3>1, <3>3
  <2>3. \A f \in Files : \A r, q \in RowsOf(f) : Embedded(r)' /\ q \in rows' => Embedded(q)'
    <3> SUFFICES ASSUME NEW f \in Files, NEW r \in RowsOf(f), NEW q \in RowsOf(f),
                        Embedded(r)', q \in rows
                 PROVE  Embedded(q)'
      BY <2>1
    <3>1. CASE r \in vectors
      BY <2>1, <3>1 DEF VectorInv, Embedded
    <3>2. CASE InVector /\ r \in pending'
      <4>1. q \in pending'
        BY <2>2, <3>2, RowsOfFile
      <4> QED
        BY <2>1, <3>2, <4>1 DEF Embedded, InVector
    <3> QED
      BY <2>1, <3>1, <3>2 DEF Embedded, InVector
  <2>4. \A f \in Files : \A r \in RowsOf(f) : r \in vectors => RowsOf(f) \subseteq rows
    BY <2>1, WholeFiles
  <2>5. ASSUME InVector, NEW r \in TreeRows(job.source) PROVE Embedded(r)'
    <3>1. r \in Rows /\ FileOf(r) \in Tree[job.source] /\ r \in RowsOf(FileOf(r))
      BY <1>c, <2>1, <2>5, RowsOfFile DEF CrawlPhases
    <3>2. FileOf(r) \in existing \/ FileOf(r) \in newFiles
      BY <2>1, <3>1 DEF ProgressInv
    <3>3. r \in vectors \/ r \in pending'
      BY <2>1, <2>2, <2>5, <3>1, <3>2 DEF VectorInv
    <3> QED
      BY <2>1, <2>5, <3>3 DEF Embedded, InVector
  <2> QED
    BY <2>1, <2>3, <2>4, <2>5 DEF VectorInv, InVector, TreeRows
<1>5. ASSUME NEW S \in SUBSET pending, TakeUpload(S) PROVE VectorInv'
  <2>1. /\ phase = "upload" /\ phase' = phase /\ queue = {} /\ queue' = S /\ batch' = S
        /\ pending' = pending \ S /\ UNCHANGED <<rows, vectors, job, uploaded, marks>>
    BY <1>5 DEF TakeUpload
  <2>2. \A r : Embedded(r)' <=> Embedded(r)
    BY <2>1 DEF Embedded, InVector
  <2> QED
    BY <2>1, <2>2 DEF VectorInv, InVector, TreeRows
<1>6. ASSUME NEW B \in SUBSET queue, UpsertBatch(B) PROVE VectorInv'
  <2>1. /\ phase = "upload" /\ phase' = phase
        /\ rows' = rows \cup B /\ vectors' = IF InVector THEN vectors \cup B ELSE vectors
        /\ queue' = queue \ B /\ UNCHANGED <<pending, job, batch>>
        /\ IF queue' = {}
           THEN uploaded' = uploaded \cup batch /\ marks' = FilesToMark(uploaded \cup batch)
           ELSE UNCHANGED <<uploaded, marks>>
        /\ InVector' = InVector
    BY <1>6 DEF UpsertBatch, InVector
  <2>2. CASE InVector
    <3>1. \A r : Embedded(r)' <=> Embedded(r)
      BY <2>1, <2>2 DEF Embedded
    <3>2. batch \subseteq vectors' \cup queue' /\ uploaded \subseteq vectors'
      BY <2>1, <2>2 DEF VectorInv
    <3>3. uploaded' \subseteq vectors' /\ \A f \in marks' : RowsOf(f) \subseteq vectors'
      BY <2>1, <2>2, <3>2 DEF VectorInv, FilesToMark
    <3>4. \A f \in Files : \A r, q \in RowsOf(f) : Embedded(r) /\ q \in rows' => Embedded(q)
      BY <2>1, <2>2 DEF VectorInv, Embedded
    <3>5. \A r \in TreeRows(job.source) : Embedded(r)
      BY <2>1, <2>2 DEF VectorInv
    <3> QED
      BY <2>1, <2>2, <3>1, <3>2, <3>3, <3>4, <3>5 DEF VectorInv, TreeRows
  <2>3. CASE ~InVector
    <3>1. \A f \in Files : \A r \in RowsOf(f) : r \in vectors => RowsOf(f) \subseteq rows
      BY <2>1, <2>3 DEF VectorInv
    <3>2. \A f \in Files : \A r, q \in RowsOf(f) : r \in vectors /\ q \in rows => q \in vectors
      BY <2>3 DEF VectorInv, Embedded
    <3> QED
      BY <2>1, <2>3, <3>1, <3>2 DEF VectorInv, Embedded
  <2> QED
    BY <2>2, <2>3
<1>7. ASSUME NEW S \in SUBSET marks, MarkComplete(S) PROVE VectorInv'
  <2>1. /\ phase = "upload" /\ phase' = phase /\ marks' \subseteq marks
        /\ UNCHANGED <<rows, vectors, job, pending, queue, uploaded, batch>>
    BY <1>7 DEF MarkComplete
  <2> QED
    BY <2>1 DEF VectorInv, Embedded, InVector, TreeRows
<1>8. CASE UploadDone
  <2>1. /\ phase = "upload" /\ phase' = "reassign" /\ pending = {} /\ queue = {}
        /\ UNCHANGED <<rows, vectors, job, pending, queue>>
    BY <1>8 DEF UploadDone
  <2> QED
    BY <2>1 DEF VectorInv, Embedded, InVector, TreeRows
<1>9. ASSUME NEW x \in Rows, CleanRow(x) PROVE VectorInv'
  <2>1. /\ phase = "cleanup" /\ phase' = phase /\ x \in cleanRows
        /\ \/ rows' = rows \ {x} /\ vectors' = vectors \ {x}
           \/ rows' = rows /\ vectors' = vectors
        /\ UNCHANGED <<job, pending, queue>> /\ pending = {} /\ queue = {}
    BY <1>9 DEF CleanRow, MemoryInv
  <2>2. x \notin TreeRows(job.source)
    BY <2>1 DEF ProgressInv
  <2>3. \A f \in Files : \A r, q \in RowsOf(f) : r \in vectors /\ q \in rows => q \in vectors
    BY <2>1 DEF VectorInv, Embedded
  <2> QED
    BY <2>1, <2>2, <2>3 DEF VectorInv, Embedded, InVector, TreeRows
<1>10. ASSUME \/ SkipCleanup \/ BeginCleanup \/ CleanupDone \/ FtsCommit \/ FtsManifest
              \/ FtsFails
       PROVE  VectorInv'
  <2>1. /\ phase \in {"reassign", "cleanup", "fts", "fts_manifest"}
        /\ phase' \in {"cleanup", "fts", "fts_manifest", "finalize"}
        /\ UNCHANGED <<rows, vectors, job, pending, queue>>
    BY <1>10 DEF SkipCleanup, BeginCleanup, CleanupDone, FtsCommit, FtsManifest, FtsFails
  <2> QED
    BY <2>1 DEF VectorInv, Embedded, InVector, TreeRows
<1>11. CASE PurgeChunks
  <2>1. phase' = "purge_labels" /\ rows' = {}
    BY <1>11 DEF PurgeChunks
  <2> QED
    BY <2>1 DEF VectorInv
<1>12. CASE UNCHANGED vars
  BY <1>12 DEF vars, VectorInv, Embedded, InVector, TreeRows
<1> QED
  BY QuietSteps, <1>1, <1>2, <1>3, <1>4, <1>5, <1>6, <1>7, <1>8, <1>9, <1>10, <1>11, <1>12

LEMMA SentinelStep ==
    ASSUME KnownInv, TableInv, FaultsBetweenEdits, [Next]_vars
    PROVE  SentinelVectorCoversFile'
<1> USE DEF KnownInv, StaleInv, TypeInv, TypeOK, TableInv
<1> SUFFICES ASSUME NEW f \in complete', Sentinel(f) \in vectors',
                    NEW q \in RowsOf(f), q \in rows'
             PROVE  q \in vectors'
  BY DEF SentinelVectorCoversFile
<1>1. ASSUME NEW B \in SUBSET queue, UpsertBatch(B) PROVE q \in vectors'
  <2>1. /\ f \in complete /\ Sentinel(f) \notin B /\ phase = "upload"
        /\ rows' = rows \cup B /\ vectors' = IF InVector THEN vectors \cup B ELSE vectors
    BY <1>1 DEF UpsertBatch, CompleteAfterUpsert
  <2>2. f \in Files /\ Sentinel(f) \in vectors /\ Sentinel(f) \in Rows
    BY <2>1
  <2>3. RowsOf(f) \cap rows \subseteq vectors
    BY <2>1, <2>2 DEF SentinelVectorCoversFile
  <2>4. ~InVector => RowsOf(f) \subseteq rows
    BY <2>1, <2>2, RowsOfFile DEF VectorInv
  <2> QED
    BY <2>1, <2>3, <2>4
<1>2. ASSUME NEW S \in SUBSET marks, MarkComplete(S) PROVE q \in vectors'
  <2>1. /\ f \in complete \/ f \in marks
        /\ UNCHANGED <<rows, vectors>> /\ phase = "upload" /\ queue = {}
    BY <1>2 DEF MarkComplete
  <2>2. CASE f \in complete
    BY <2>1, <2>2 DEF SentinelVectorCoversFile
  <2>3. CASE f \in marks /\ InVector
    BY <2>1, <2>3 DEF VectorInv
  <2>4. CASE f \in marks /\ ~InVector
    <3>1. f \in Files /\ Sentinel(f) \in RowsOf(f)
      BY <2>1, <2>4, RowsOfFile
    <3> QED
      BY <2>1, <2>4, <3>1 DEF VectorInv, Embedded
  <2> QED
    BY <2>1, <2>2, <2>3, <2>4
<1>3. ASSUME NEW x \in Rows, CleanRow(x) PROVE q \in vectors'
  <2>1. /\ f \in complete /\ Sentinel(f) \in vectors /\ q \in rows
        /\ q # x \/ vectors' = vectors
        /\ vectors \ {x} \subseteq vectors'
    BY <1>3 DEF CleanRow
  <2> QED
    BY <2>1 DEF SentinelVectorCoversFile
<1>4. ~PurgeChunks
  BY DEF PurgeChunks
<1>5. ASSUME UNCHANGED <<rows, vectors, complete>> PROVE q \in vectors'
  BY <1>5 DEF SentinelVectorCoversFile
<1> QED
  BY QuietSteps, <1>1, <1>2, <1>3, <1>4, <1>5
     DEF StartCrawl, ClassifyFiles, OpenExistingFile, AddLabel, ChunkNewFiles, TakeUpload,
         UploadDone, SkipCleanup, BeginCleanup, CleanupDone, FtsCommit, FtsManifest, FtsFails,
         Finalize, PurgeLabels, PurgeFtsFolder, PurgeDone, Crash, vars

-----------------------------------------------------------------------------
(* Published labels.                                                        *)

PurgedInv == phase \in PurgePhases => rows = {}

FullInv == KnownInv /\ IndexInv /\ TableInv /\ PurgedInv

LEMMA PurgedStep ==
    ASSUME FullInv, [Next]_vars
    PROVE  PurgedInv'
BY DEF FullInv, PurgedInv, Next, Command, CrawlStep, PurgeStep, ErrorStep, vars, StartCrawl,
       ClassifyFiles, OpenExistingFile, OpenExistingFileFails, AddLabel, AddLabelFails,
       ChunkNewFiles, EmbedFails, TakeUpload, UpsertBatch, MarkComplete, UploadFails,
       UploadDone, SkipCleanup, BeginCleanup, CleanRow, CleanupFails, CleanupDone, FtsCommit,
       FtsManifest, FtsFails, Finalize, PurgeChunks, PurgeLabels, PurgeFtsFolder, PurgeDone,
       Crash, EndProcess, PurgePhases

(* A label that is published after a step was so before, with the same      *)
(* rows, or this step is the end of its crawl.                              *)
LEMMA PublishedStep ==
    ASSUME FullInv, FaultsBetweenEdits, [Next]_vars,
           NEW l \in Labels, Published(l)', phase' \notin PurgePhases
    PROVE  \/ /\ phase \notin PurgePhases
              /\ meta'[l] = meta[l] /\ LabelRows(l)' = LabelRows(l)
              /\ LabelRows(l) \cap vectors \subseteq vectors'
           \/ Finalize /\ l = job.label
<1> USE DEF FullInv, KnownInv, StaleInv
<1>1. CASE phase \in PurgePhases
  <2>1. phase = "purge_fts" /\ UNCHANGED meta
    BY <1>1 DEF FaultsBetweenEdits, Next, Command, CrawlStep, PurgeStep, ErrorStep, vars,
           StartCrawl, ClassifyFiles,
           OpenExistingFile, OpenExistingFileFails, AddLabel, AddLabelFails, ChunkNewFiles,
           EmbedFails, TakeUpload, UpsertBatch, MarkComplete, UploadFails, UploadDone,
           SkipCleanup, BeginCleanup, CleanRow, CleanupFails, CleanupDone, FtsCommit, FtsManifest,
           FtsFails, Finalize, PurgeChunks, PurgeLabels, PurgeFtsFolder, PurgeDone, Crash,
           PurgePhases
  <2> QED
    BY <2>1 DEF IndexInv, Published
<1>2. CASE phase \notin PurgePhases /\ l \notin {job.label, job'.label}
  BY <1>2, PeerStep DEF PeersUntouchedStep
<1>3. CASE phase \in CrawlPhases /\ l = job.label
  <2>1. ~Published(l)
    BY <1>3 DEF CrawlInv, Unfinished, Published
  <2> QED
    BY <1>3, <2>1, StoreEdits DEF StartCrawl, CrawlPhases, PurgeLabels, Published
<1>4. CASE phase \in CrawlPhases /\ l = job'.label /\ l # job.label
  <2>1. job' = NoJob
    BY <1>4 DEF Next, Command, CrawlStep, PurgeStep, ErrorStep, vars, StartCrawl, ClassifyFiles,
         OpenExistingFile, OpenExistingFileFails, AddLabel, AddLabelFails, ChunkNewFiles,
         EmbedFails, TakeUpload, UpsertBatch, MarkComplete, UploadFails, UploadDone,
         SkipCleanup, BeginCleanup, CleanRow, CleanupFails, CleanupDone, FtsCommit,
         FtsManifest, FtsFails, Finalize, PurgeChunks, PurgeLabels, PurgeFtsFolder,
         PurgeDone, Crash, EndProcess, CrawlPhases
  <2> QED
    BY <1>4, <2>1, ConstantsAssumption DEF NoJob
<1>5. CASE phase = "idle" /\ l \in {job.label, job'.label}
  <2>1. job = NoJob /\ l # job.label /\ l = job'.label
    BY <1>5, ConstantsAssumption DEF IndexInv, NoJob, CrawlPhases
  <2>2. PICK k \in Labels, c \in Commits, sel \in Selections : StartCrawl(k, c, sel)
    BY <1>5, <2>1 DEF Next, Command, CrawlStep, PurgeStep, ErrorStep, vars, ClassifyFiles,
         OpenExistingFile, OpenExistingFileFails, AddLabel, AddLabelFails, ChunkNewFiles,
         EmbedFails, TakeUpload, UpsertBatch, MarkComplete, UploadFails, UploadDone,
         SkipCleanup, BeginCleanup, CleanRow, CleanupFails, CleanupDone, FtsCommit,
         FtsManifest, FtsFails, Finalize, PurgeChunks, PurgeLabels, PurgeFtsFolder,
         PurgeDone, Crash, EndProcess
  <2>3. meta'[l] = Unfinished(c, sel)
    BY <2>1, <2>2 DEF StartCrawl, TypeInv, TypeOK
  <2> QED
    BY <2>3 DEF Unfinished, Published
<1> QED
  BY <1>1, <1>2, <1>3, <1>4, <1>5 DEF TypeInv, TypeOK, Phases

(* What the end of a crawl publishes.                                       *)
LEMMA PublishedByFinalize ==
    ASSUME FullInv, Finalize, NEW l \in Labels, l = job.label, Published(l)'
    PROVE  /\ SourceOf(l)' = job.source /\ job.source \in Commits
           /\ LabelRows(l)' = LabelRows(l) /\ vectors' = vectors
           /\ LabelRows(l) = TreeRows(job.source)
           /\ meta'[l].vectorComplete => TreeRows(job.source) \subseteq vectors
<1> USE DEF FullInv, KnownInv, StaleInv, TypeInv, TypeOK
<1>1. /\ phase = "finalize" /\ phase \in CrawlPhases
      /\ UNCHANGED <<rows, labels, vectors>>
      /\ meta'[l].vectorComplete = MethodComplete("vector")
      /\ meta'[l].ftsComplete = MethodComplete("fts")
      /\ meta'[l].vectorSource = IF InVector THEN job.source ELSE NULL
      /\ meta'[l].ftsSource = IF InFts THEN job.source ELSE NULL
  BY DEF Finalize, Unfinished, InVector, InFts, CrawlPhases
<1>2. reassigned /\ SourceOf(l)' = job.source /\ job.source \in Commits
      /\ (meta'[l].vectorComplete => InVector)
  BY <1>1 DEF Published, SourceOf, MethodComplete, CrawlInv, InVector, InFts
<1>3. \A r : r \in TreeRows(job.source) <=> r \in Rows /\ FileOf(r) \in Tree[job.source]
  BY <1>2, RowsOfTree
<1>4. StaleRows = {} /\ touched \subseteq Tree[job.source]
  BY <1>1, <1>2 DEF CrawlInv
<1>5. LabelRows(l) \subseteq TreeRows(job.source)
  BY <1>3, <1>4 DEF StaleRows, LabelRows
<1>6. TreeRows(job.source) \subseteq LabelRows(l)
  BY <1>1, <1>3 DEF TableInv, ProgressInv, LabelRows
<1>7. LabelRows(l)' = LabelRows(l)
  BY <1>1 DEF LabelRows
<1>8. InVector => TreeRows(job.source) \subseteq vectors
  BY <1>1 DEF TableInv, VectorInv
<1> QED
  BY <1>1, <1>2, <1>5, <1>6, <1>7, <1>8

LEMMA WholeTreeStep ==
    ASSUME FullInv, FaultsBetweenEdits, WholeTree, [Next]_vars
    PROVE  WholeTree'
<1> SUFFICES ASSUME NEW l \in Labels, Published(l)', phase' \notin PurgePhases
             PROVE  TreeRows(SourceOf(l)') \subseteq LabelRows(l)'
  BY DEF WholeTree, TreeRows
<1>1. CASE Finalize /\ l = job.label
  BY <1>1, PublishedByFinalize
<1>2. CASE /\ phase \notin PurgePhases
           /\ meta'[l] = meta[l] /\ LabelRows(l)' = LabelRows(l)
  BY <1>2 DEF WholeTree, Published, SourceOf
<1> QED
  BY <1>1, <1>2, PublishedStep

LEMMA VectorCompleteStep ==
    ASSUME FullInv, FaultsBetweenEdits, VectorCompleteHasVectors, [Next]_vars
    PROVE  VectorCompleteHasVectors'
<1> SUFFICES ASSUME NEW l \in Labels, meta'[l] # NULL, meta'[l].vectorComplete
             PROVE  LabelRows(l)' \subseteq vectors'
  BY DEF VectorCompleteHasVectors
<1>0. Published(l)'
  BY DEF Published
<1>1. CASE phase' \in PurgePhases
  BY <1>1, PurgedStep DEF PurgedInv, LabelRows
<1>2. CASE phase' \notin PurgePhases /\ Finalize /\ l = job.label
  BY <1>0, <1>2, PublishedByFinalize
<1>3. CASE /\ meta'[l] = meta[l] /\ LabelRows(l)' = LabelRows(l)
           /\ LabelRows(l) \cap vectors \subseteq vectors'
  BY <1>3 DEF VectorCompleteHasVectors
<1> QED
  BY <1>0, <1>1, <1>2, <1>3, PublishedStep

-----------------------------------------------------------------------------

LEMMA InitTable == Init => TableInv /\ PurgedInv /\ WholeTree /\ VectorCompleteHasVectors
<1> SUFFICES ASSUME Init
             PROVE  TableInv /\ PurgedInv /\ WholeTree /\ VectorCompleteHasVectors
  OBVIOUS
<1>1. MemoryInv /\ PurgedInv /\ WholeTree /\ VectorCompleteHasVectors /\ SentinelVectorCoversFile
  BY DEF Init, ProcessStart, MemoryInv, PurgedInv, WholeTree, VectorCompleteHasVectors,
         SentinelVectorCoversFile, CrawlPhases, PurgePhases, Published
<1>2. UniformInv
  BY RowsOfFile DEF Init, ProcessStart, UniformInv, Claimed
<1>3. ProgressInv /\ VectorInv
  BY DEF Init, ProcessStart, ProgressInv, VectorInv
<1> QED
  BY <1>1, <1>2, <1>3 DEF TableInv

(* Everything of this module, at every state.                               *)
LEMMA TableInvariant ==
    ASSUME FaultsBetweenEdits
    PROVE  Spec => [](FullInv /\ WholeTree /\ VectorCompleteHasVectors)
<1>1. "purge_labels" \notin CrashPhases
  BY DEF FaultsBetweenEdits
<1>2. Init => FtsInv
  <2>1. Init => StaleInv
    BY InitTypeInv DEF StaleInv, Init, CrawlInv, CrawlPhases, NoStaleRows, Published
  <2>2. Init => IndexInv /\ FtsMatchesRows
    BY DEF Init, IndexInv, FtsMatchesRows, ProcessStart
  <2> QED
    BY <2>1, <2>2 DEF FtsInv
<1>3. FtsInv /\ [Next]_vars => FtsInv'
  BY <1>1, NextTypeInv, CrawlInvStep, NoStaleStep, IndexInvStep, FtsMatchesStep
     DEF FtsInv, StaleInv
<1>4. FtsInv => StaleInv /\ IndexInv
  BY DEF FtsInv
<1>5. /\ KnownInv <=> StaleInv /\ NoOrphanRows
      /\ FullInv <=> KnownInv /\ IndexInv /\ TableInv /\ PurgedInv
  BY DEF KnownInv, FullInv
<1>6. (StaleInv /\ NoOrphanRows => KnownInv)' /\ (KnownInv /\ IndexInv /\ TableInv /\ PurgedInv => FullInv)'
  BY DEF KnownInv, FullInv
<1>7. FullInv /\ [Next]_vars => TableInv' /\ PurgedInv'
  BY MemoryStep, UniformStep, ProgressStep, VectorStep, SentinelStep, PurgedStep
     DEF FullInv, TableInv
<1>8. FullInv /\ WholeTree /\ VectorCompleteHasVectors /\ [Next]_vars
        => WholeTree' /\ VectorCompleteHasVectors'
  BY WholeTreeStep, VectorCompleteStep
<1> QED
  BY <1>2, <1>3, <1>4, <1>5, <1>6, <1>7, <1>8, InitTable, NoOrphans, PTL DEF Spec

(* A complete file has all of its rows in the table whenever a crawl could  *)
(* trust its sentinel.                                                      *)
THEOREM SentinelsAreTrue ==
    ASSUME FaultsBetweenEdits
    PROVE  Spec => []CompleteFileHasAllChunks
<1>1. FullInv => CompleteFileHasAllChunks
  <2> SUFFICES ASSUME FullInv, phase \in {"idle", "classify"}, NEW f \in complete
               PROVE  RowsOf(f) \subseteq rows
    BY DEF CompleteFileHasAllChunks
  <2>1. f \in Files /\ Sentinel(f) \in rows /\ Sentinel(f) \in RowsOf(f)
    BY RowsOfFile DEF FullInv, KnownInv, StaleInv, TypeInv, TypeOK
  <2> QED
    BY <2>1, WholeFiles DEF FullInv, TableInv
<1> QED
  BY <1>1, TableInvariant, PTL

(* A label with a complete method holds every chunk of every file of the    *)
(* tree that method was crawled from, whatever was interrupted before and   *)
(* whatever the crawls of other labels did to the rows they share.          *)
THEOREM CompleteLabelsAreWhole ==
    ASSUME FaultsBetweenEdits
    PROVE  Spec => []WholeTree
BY TableInvariant, PTL

(* A sentinel with a vector in a complete file speaks for all of its rows.  *)
THEOREM SentinelVectorsAreTrue ==
    ASSUME FaultsBetweenEdits
    PROVE  Spec => []SentinelVectorCoversFile
<1>1. FullInv => SentinelVectorCoversFile
  BY DEF FullInv, TableInv
<1> QED
  BY <1>1, TableInvariant, PTL

(* Every row of a label whose vector method is complete has a vector.       *)
THEOREM VectorLabelsHaveVectors ==
    ASSUME FaultsBetweenEdits
    PROVE  Spec => []VectorCompleteHasVectors
BY TableInvariant, PTL
=============================================================================
