# Monodex in TLA+

Monodex keeps a searchable database of the files of monorepos: `monodex crawl`
takes the files of a commit or of a working directory, cuts them into chunks,
embeds them and writes them to a LanceDB table; labels name what was crawled;
each label has a Tantivy full-text index; `monodex search` queries both. This
directory holds TLA+ modules of the parts of it that fail in ways tests hardly
reach, the TLC runs that check them on small instances, and theorems about them
checked by TLAPS. Paths below are relative to the repository root.

`PROJECT.json` lists components, runs, the mutants that show each property can
fail, the lines each definition stands for, findings, hazards and theorems.

    tlc -workers 2 -config CrawlTwoLabels.cfg MCCatalogCrawl.tla
    tlapm CatalogCrawlProofs.tla

## 1. Inventory

| Component | State it keeps | Operations | What is hard | What makes it correct |
|---|---|---|---|---|
| Crawl pipeline and chunk store (`src/app/crawl/`, `src/engine/storage/chunks/`) | `chunks` rows with `active_label_ids`, `vector`, `file_complete`; `label_metadata`; in memory the touched set, failures, phase results | metadata in progress, classify, add label, chunk, embed and upload, mark complete, reassign, FTS phase, finalize | a dozen separate commits; rows shared by labels; per-item failures that let the crawl go on; Ctrl+C anywhere | a published label has exactly the rows of its tree; a peer is not disturbed; re-running recovers |
| Writer locks (`storage/locks.rs`) | kernel file locks: database (shared or exclusive), per catalog, commit mutex | acquire in order, drop, die | interleavings of processes, death holding locks, writers with different subsets of the locks | one writer per catalog, no lost update, no commit conflict, no deadlock |
| FTS index folders (`src/engine/fts/`) | per label: `manifest.json`, Tantivy's `meta.json` and segments, the completion flag | open or create, rebuild, reconcile and commit, write manifest, purge; lock-free open and search | three files and a flag written in separate steps; upgrades of the binary; readers in between | manifests tell the truth; complete labels have whole indexes; searches are compatible; crawls recover |
| Embed and upload pipeline (`crawl/pipeline.rs`, `parallel_embedder.rs`) | channel, stop flag, per-file counters | embed in workers, checkpoint, drain | the writer's stop test races the last results; drop order | every embedded chunk is uploaded; files marked once whole |
| init-db and opening (`commands/init_db/`, `storage/database.rs`) | tables, `fts/`, meta file | read state, create, delete everything, open | checks before the lock; crash before the meta file | a half-created database is never taken for a good one, and `--delete-everything` gets out of every state |
| Purge (`commands/purge.rs`) | none of its own | `--catalog`, `--all` | several commits; readers meanwhile | nothing of the catalog is left published |
| Search, decision, fusion (`commands/search.rs`, `search_decision.rs`, `fusion.rs`) | none | decide, query, fuse, hydrate | reads several stores without locks | compatible index; what is missing or stale is told; agreement of the methods decides the order |
| Identifiers, identity (`identifier.rs`, `identity.rs`) | version constants | validate, hash | labels may contain `/` | distinct names never collide on disk |
| Package index, blob sources (`git_ops/`) | list of files and packages of a source | nearest ancestor, enumerate, hash, read | the user edits, stages and merges in between | a row's text is the blob's its id names; each file gets its nearest package |
| Crawl configuration (`crawl_config.rs`) | patterns, read once per crawl | which files, which strategy | order of rules; three places it is read from | the files and strategies the configuration spells out |
| Chunkers, partitioner (`chunker.rs`, `markdown_partitioner.rs`, `partitioner/`) | the ranges of a file | split, search for a split point, number the chunks | split points at size limits; trees without usable nodes | every line in one chunk; splitting ends |
| FTS tokenizer (`fts/tokenizer.rs`) | none | tokens of a text | boundaries of character classes | index and query agree |
| Configuration, inspection commands, progress output, Arrow encoding | files, none | parse, print, convert | - | - |

How they interact: `crawl` and `purge` take the locks, then call the storage
methods, which take the commit mutex for themselves; the crawl hands
`label_metadata` to later crawls and searches as the only word on what is
finished; the sentinel row of a file (its first chunk) is the only word on
whether a file is complete; the manifest is the only word on what an index was
built with. All three words are kept apart from what they vouch for, which is
where many properties of this project aim. Searches take no lock. A crawl itself is
a chain: a blob source lists the files, the configuration filters them, the chunkers
cut them, the upload phase stores them and the tokenizer feeds the index; each link
trusts what the one before it found earlier.

The list of hazards, each at its line, is in `PROJECT.json`.

## 2. Modules

| Module | Models | Extends or instantiates |
|---|---|---|
| `CatalogCrawl` | one catalog: a crawl step by step, `purge --catalog`, crashes and errors | |
| `CatalogOwnership` | abstract: catalogs are owned by one writer, writes build on all before | |
| `WriterLocks` | the locks, the commands that take them, death, the kernel | `CatalogOwnership` |
| `FtsIndexFolders` | the index folders of a catalog's labels, file by file; crawls, purges, upgrades, searches | |
| `DatabaseLife` | abstract: a database is good or not, and stays good while somebody is inside | |
| `InitDatabase` | creating, deleting and opening the database folder, entry by entry | `DatabaseLife` |
| `UploadPhase` | abstract: chunks are stored or dropped, whole files marked, the phase succeeds or fails | |
| `EmbedPipeline` | the threads, channels and guards of the upload phase | `UploadPhase` |
| `RankFusion` | reciprocal rank fusion as operators | |
| `LabelSearch` | `monodex search` beside the writer of the catalog | `CatalogCrawl`, `RankFusion` |
| `AstSplitSearch` | the search for a split point in a syntax tree, as operators | |
| `LineSplitter` | line-based chunking and the Markdown partitioner, as operators | `AstSplitSearch` |
| `Chunker` | how a file becomes chunks, range by range | `LineSplitter` |
| `FtsTokenizer` | the token stream of a text | |
| `Identifiers` | validators of catalog and label names | |
| `CrawlFilter` | `monodex-crawl.json`: which files, which strategy | |
| `WorkingTree` | the two blob sources, a git working tree and its user | `CrawlFilter` |
| `TextPipeline` | `Chunker`, `FtsTokenizer` and `Identifiers` side by side | the three |
| `MC...` | instances for TLC: small sets, texts and trees for the constants | |
| `...Proofs` | theorems about the module they are named after | |

The modules meet at their boundaries. `WriterLocks` shows that writers of one
catalog exclude each other, from which `CatalogCrawl`, `FtsIndexFolders` and
`LabelSearch` take one running command. `InitDatabase` shows that a command which
opens a database under its lock finds a whole one, which all of these start from.
`CatalogCrawl` takes the upload phase as steps that take any embedded chunk;
`EmbedPipeline` shows that the real threads do nothing else. `CatalogCrawl` keeps of
an index only its committed documents; `FtsIndexFolders` opens that up into files,
and keeps of the label's rows only the set the reconciliation reads. That other
labels do not change this set is `PeersUntouched` of `CatalogCrawl`. A file of
`CatalogCrawl` is a `file_id`; `WorkingTree` shows when the content stored under it
is one that git stores under that name.

### CatalogCrawl

| Model | Code |
|---|---|
| `rows`, `labels`, `vectors`, `complete` | the `chunks` table: `row_id`, `active_label_ids`, `vector` not NULL, `file_complete` of the sentinel |
| `meta` | `label_metadata`: source and completion flag of each method |
| `ftsDocs` | live documents of each label's last Tantivy commit |
| `StartCrawl` | preamble and `write_in_progress_metadata` |
| `ClassifyFiles`, `FastPath` | `classify_files`; the sentinel status of each file |
| `OpenExistingFile`, `AddLabel`, `...Fails` | `add_label_to_existing_files`, a row at a time |
| `ChunkNewFiles` | `chunk_new_files`; unreadable files are warned about and left out |
| `TakeUpload`, `UpsertBatch`, `MarkComplete`, `EmbedFails`, `UploadFails` | both embed-and-upload paths: a checkpoint takes any of the embedded chunks, a `merge_insert` per batch, then `file_complete` of the files now whole |
| `SkipCleanup`, `BeginCleanup`, `CleanRow` | the cleanup predicate, `remove_label_from_chunks`, a row at a time |
| `FtsCommit`, `FtsManifest` | the FTS phase |
| `Finalize` | `update_final_metadata`, on the error paths too |
| `PurgeChunks` ... `PurgeDone` | `run_purge_catalog_async` |
| `Crash` | Ctrl+C, a kill, or an error that returns early |

A file is a `file_id`, so a changed file is another file. Which set an upload
takes depends on timing and is left open. Text, embeddings and chunk boundaries
are abstracted to how many chunks a file has and which have no searchable token.

### WriterLocks

A process runs one command. `crawl` and `purge --catalog` take the database lock
shared, then the catalog lock; `purge --all` and `init-db` take it exclusive.
`ReadRows` stands for rows read outside the mutex and written back later, as
`add_label_to_existing_files` and the label-merging upsert do. `BeginWrite` and
`CommitWrite` are one LanceDB write against the version it started from. A dead
process keeps its locks until the kernel closes its files, in any order. `owner`
is the refinement mapping: a catalog is owned by the command that is inside its
locks. `content` counts the writes a catalog has taken, so a lost update shows
as a count that does not grow. `docs/design/concurrency.md:29` says the mutex is
held for one write per acquisition; `remove_label_from_chunks` and the batched
upserts hold it over a loop, which the model allows (`held`).

### FtsIndexFolders

`manifest`, `metaJson` with `indexed`, and `segments` are the files; `builtWith`
remembers which ids the index was really created with; `flag` and `live` are the
label's completion flag and rows. `RemoveForRebuild`, `RemoveFile`,
`FolderRemoved`, `CreateIndex`, `OpenIndex` and `Refuse` are the branches of
`open_or_create`, with `remove_dir_all` unlinking in any order;
`TruncateManifest` and `WriteManifestText` are `std::fs::write`, used twice in a
crawl; `ReconcileAndCommit` is `index_chunks_for_fts` up to the commit. A search
is `StartSearch` (label metadata and `decide`), `CheckState`, `CheckManifest`,
`OpenForSearch`, `CreateReader`. `Inner` says which label folders lie inside
which. Tantivy is external: its commit replaces `meta.json` atomically, opening
an index reads `meta.json`, creating a reader opens its segments, and mapped
segments survive their removal. Segment merging and Tantivy's own locks are left out.

### InitDatabase and DatabaseLife

A process runs one command: `init-db`, `init-db --delete-everything`, a writer that
opens the database under the shared lock (`crawl`, `purge --catalog`), `purge --all`
under the exclusive one, or a reader under none. `parent`, `root`, `entries`, `whole`
and `meta` are what is on disk. `LookForMeta` ... `ListFolder` are
`read_existing_database_state` one look at a time, which an `init-db` runs before the
lock and again under it; `Verdict` is what it makes of the answer each time. `MakeTable`,
`FillTable`, `MakeFts`, `MakeMeta` and `WriteMeta` are `create_database` in its order,
`WipeEntry` is `delete_database_contents` with the entries in any order, which spares
`locks/`. `OpenTables` is `Database::open`; `Use` stands for all that a writer does.
`Crash` drops the guards at any place in `CrashSpots`. `DatabaseLife` maps `good` to
"meta file of this version and both tables whole" and `users` to the commands using it.

### EmbedPipeline and UploadPhase

| Model | Code |
|---|---|
| `TakeChunk`, `LockSession`, `ChunkEmbedded`, `ChunkFails` | the rayon pool over `all_chunks`, `ParallelEmbedder::encode` behind one mutex per session, the send |
| `WriterTop` ... `CheckEmpty` | the writer task's loop: is a checkpoint due, drain the channel, upload, mark, test the stop flag, then test that the channel is empty |
| `WriterFails` | a storage error in the middle of a batch, which drops the receiver |
| `RaiseStop`, `PrinterEnds`, `JoinPrinter`, `AwaitWriter` | what the crawl's thread does after `for_each` |
| `StoreBatch`, `MarkBatch`, `StoreReturns` | `upsert_without_vectors_with_progress` |
| `DropGuardSender`, `JoinReporter` | `ProgressGuard::drop` |
| `ReceiveEvents`, `Disconnected`, `DecidePrints` | the reporter thread |

The channel is a set: nothing depends on its order. `ImplementsUploadPhase` maps
`stored`, `marked`, the failures and the result to `UploadPhase`, whose `Succeed`
needs every chunk stored or dropped and exactly the whole files marked. The
stop flag is read and written sequentially consistent here; the code uses relaxed
atomics, for which the join of the pool and the channel's own synchronization stand in.

### LabelSearch and RankFusion

A search is `ReadMetadata` (with `decide` as the operators `Candidates`,
`Incomplete`, `ActiveSubset`, `Refusal`), `OpenChunks`, the FTS outcomes
(`CollectFts`, `FtsNoIndex`, `FtsStale`, `FtsParseError`), `CollectVector` or
`VectorFails`, and `HydrateAndRender`, with any step of `CatalogCrawl` between two of
them. What a query matches is any ranking: Tantivy's is of any documents of the
index, LanceDB's of the rows with a vector. `view` is what the handle on the table
shows; whether it follows later versions is left open (`Refreshed`). `Fuse` adds
`1 / (60 + rank)` per method as exact fractions, where the code adds `f32`.
Three variables are history: `disturbed` (a command has run since the metadata was
read), `since` (the sources crawled for the label since then) and `matched`.

### Chunker, AstSplitSearch, LineSplitter

A file is its lines, each with a length and whether it is blank, and the nodes that
tree-sitter reports, each with its kind, lines and bytes: the partitioners look at
nothing else. `KeepRange`, `StartSplit`, `SplitAtScope`, `DescendScope`,
`SplitAtLeastBad`, `SplitInMiddle`, `CannotSplit`, `EndPass` are the loop of
`partition_typescript` with one step per range and one per scope of
`find_best_split`; `Finalize` and `AssignOrdinals` number and mark the chunks.
`AstSplitSearch` has the analysis of nodes and the choice among candidates.
`ChunkMarkdown` and `ChunkLines` take one step each: `Cuts` is the greedy loop over
the lines, `Pieces` what lies between the cuts, `WithText` which pieces become chunks.
Sorting and selecting are `InOrder` and `At`, by counting, so that proofs can follow.

### FtsTokenizer, Identifiers

Texts are over an alphabet with two letters in both cases where they differ, a
digit, a joint, a blank and a Chinese character: one member of every class the code
distinguishes. `SplitStep` is one character of `split_identifier`; `TokenizeText`
cuts at CJK, words and joints; `Advance` hands the tokens out with their positions.
Names go through `ValidCatalog`, `ValidLabel` and `ParsesAsLabelId`.

### WorkingTree and CrawlFilter

`head`, `index`, `intent` and `work` are the repository: the commit, the index with
its conflict stages, files added by intent, and the disk. The user edits, stages,
commits, starts a merge that stops at a conflict, and edits either configuration file.
A crawl is `BeginCrawl` (which reads and validates the configuration), then for a
working directory `ListTracked` (`git ls-files -s`), `ListDirty` (`git status`),
`HashDirty` (`git hash-object`), once for the files and once more for the manifests,
`ReadManifests`, `Classify`, `ReadNew` file by file, `Upsert` and `Publish`; for a
commit `WalkCommit` replaces the listing. `raced` remembers the rows stored while the
user was changing their path, had it in a conflict or had a link there.
`IterationOrders` is any order, as `fileTypes` is a hash map that is iterated until a
suffix fits.

What a file holds and what git stores of it are two things. `Clean` is, for each path,
what the clean filters and the end-of-line conversion make of a content, and a blob id
is the content it names: `Blob` is what `git add` would store. `ReadFile` is the
`fs::read` of the crawl, which converts nothing and follows symbolic links. So
`HashDirty` files a path under the cleaned content, as `git hash-object` does, and
`ReadNew` stores the raw one. `git ls-files` lists a link under the id of the path it
holds, `git hash-object` hashes the file it points to, a change between file and link is
a letter of `git status` that the crawl passes over (`TypeChanged`), and a commit crawl
leaves links out (`Files`). `shown` records, for each finished crawl, the blobs and the
texts of its source and the paths it cannot be held to.

## 3. Runs

Passing runs:

| Run | Instance | Faults | Asks |
|---|---|---|---|
| `crawl_any_fault` | 2 labels, 3 files, 3 commands | 2, any kind, anywhere | what can faults never do |
| `crawl_two_labels` | 2 labels, 3 files, 4 commands | 1 that leaves no file half edited | does every crawl recover what is left, and do sentinels, vectors, indexes and published labels agree |
| `label_search` | 1 label, 3 files of one row, 2 commands, 1 search, limits 1 and 2 | 1, any kind, anywhere | does a search say what it shows |
| `locks` | 2 processes, 2 catalogs, 2 writes each | death anywhere, failed writes | who may write, and does everyone get a turn |
| `fts_folders` | 2 labels, 2 versions, 3 commands, a search | 1 stop, anywhere | do manifests, flags and folders agree |
| `init_database` | 2 commands of any kind, 4 folders to start from | 2 stops, while looking, creating or using | who finds a database, and how one comes and goes |
| `embed_pipeline` | 2 files of 2 chunks, 2 threads, 2 sessions | 2 failures of chunks or storage | does everything embedded arrive, and does the phase end |
| `text_pipeline` | TypeScript files of up to 5 lines in 3 lengths with 6 kinds of tree, Markdown and line files of up to 4, texts and names of up to 5 characters | - | is every line in a chunk and every word a token |
| `working_tree` | 1 source file that may be a link or hold converted line ends, 2 manifests, 2 edits, 2 crawls | the user, at any time | does a label show its source |

The properties of each run are stated above their definitions in the modules.
Violation runs, each with the one case it is about, against a statement of the documents:

| Run | What happens |
|---|---|
| `crawl_interrupted_peer` | An upload interrupted between two chunks of a file, then complete crawls by a peer that takes the file and leaves it again: the peer's cleanup deletes the rows the first label never reached and keeps the sentinel, complete. Re-running the first crawl trusts it and publishes the label with chunks missing. A cleanup interrupted between the rows of a file leaves the same state with one label. |
| `fts_nested_labels` | After an upgrade, rebuilding `feature` removes the index of `feature/x`, which stays flagged complete. |
| `worktree_shared_rows` | A working-directory crawl during a merge conflict stores the text with conflict markers under the blob id of one side; the label of a commit that has this blob then shows it. |

Bounds.

- Crawls: three files (of two chunks, one, and none) and three sources (one file
  alone, its replacement with an empty file, both together) are the smallest data in
  which a step takes part of a file, a label moves on to and off a file, and an empty
  file is in the way. Two labels share rows; a third would stand to each as the second
  does. Four commands are a crawl, a fault, and what a peer and a re-run make of it.
  `BatchSize` 1 makes every upsert of a two-chunk file several commits. The faults
  that `crawl_two_labels` leaves out are those of `crawl_interrupted_peer` and of
  section 5; `crawl_any_fault` has them all.
- Search: `CandidateFloor` is 2 where the code has 50; two trees of two rows share one,
  so that the label has three, more than the candidate window takes, until its cleanup.
  Limits 1 and 2 are below and at the window. Two commands are what the
  search finds and what disturbs it; they select either method or both. A search of one
  label sees others only through `PeersUntouched`, and `ShownRowsAreCrawled` is proved
  for any number of labels.
- Locks: two processes show every pairwise conflict between catalogs and inside one;
  `WriteInv` lifts it to any number. A waiter overtaken by two others was checked
  aside, with three processes.
- Folders: three commands are an old index, an interrupted crawl, and the next one;
  two rows make a reconciliation add and remove at once.
- init-db: two processes show every pair of commands; a death inside a
  `--delete-everything` is left out of the run and of the theorems, see section 5.
- Upload phase: one file is whole only after two uploads, the other can be whole in
  one; two threads share and contend for sessions; two faults are a dropped chunk and
  a storage error.
- Text: five lines are two cuts and a remainder at a target of two to three lines;
  the trees have no node, one scope, nested scopes, a transparent conduit, a scope
  that overlaps, and one with children of a single line. Five characters are two words
  and what separates them, or an acronym, a word and a joint.
- Working tree: two edits are the two sides of a race between listing, hashing and
  reading; two crawls are the one that stores a row and the one that trusts it. One
  content has two forms on disk, with either line end; the link points to the manifest
  of the root, a file that changes by itself. Filters stay as they are during a run,
  links do not point to links, merges are of files, and submodules are left out.

The theorems lift the safety results below from these bounds.

Fairness. `WF_vars(CrawlStep)` and `WF_vars(PurgeStep)`, `WF_vars(WriterStep)` and
`WF_vars(ReaderStep)`, `WF_vars(Proceed(p))`: a running command is a process that
never waits for a user, and something in it can always go on. In the upload phase
each thread has its own: the pool's, the writer task, the printer, the reporter and
the crawl's thread are scheduled apart. In `WriterLocks` weak fairness for each process
and for the kernel's cleanup after it; each process runs one command, so a waiter is
overtaken finitely often and strong fairness is not needed. In a system with endless new
commands a waiter could starve: file locks do not queue. `PartitionTypeScript` is a
loop in one thread. No fairness on starting commands, on faults, on the user, or on
which choice is taken. `LabelSearch` and `WorkingTree` have safety properties only.
Deadlock checking is off because the bounds let the system stop with all commands done.

## 4. Theorems

For all values of the constants, under the assumptions named in the modules:

- `TypeCorrect`, `NoOrphans`, `PeersAreUntouched`, `NoStaleLabels` (CatalogCrawl).
  `TypeInv` adds to the type invariant that an idle process holds nothing and
  that rows wait for a label in one phase only. `NoOrphanRows` is inductive with it,
  as each step that takes a label off a row deletes the row with its last label.
  `NoStaleRows` needs `CrawlInv`: what a crawl touches lies in its tree, its label
  is flagged unfinished until `Finalize`, and in the cleanup every row outside the
  touched set is still to be visited, so that `reassigned` implies none is left.
- `IndexesMatchRows` (CatalogCrawlProofs): if no purge dies between the rows and the
  metadata; `IndexesOfferOwnRows`: whoever dies where, an index offers rows of its
  label, but for what a purge has taken out and not yet told. The invariant says that an index holds no row without a token, so that
  reconciling yields exactly the searchable rows, and that nothing touches the
  label's rows from the commit to the end of the crawl.
- `SentinelsAreTrue`, `CompleteLabelsAreWhole`, `SentinelVectorsAreTrue`,
  `VectorLabelsHaveVectors` (CatalogCrawlProofs), under `FaultsBetweenEdits`: crashes
  and errors come between the loops over rows (and a sentinel may be unreadable), as
  in `crawl_two_labels`; with faults inside those loops some of them are false, see
  `crawl_interrupted_peer`.
  `UniformInv` is the heart: the rows of a file carry the same labels, if those the
  crawl is about to add are counted and those it is about to take are not. So a
  sentinel in the table means all of its file is, also when another label's cleanup
  deletes rows. `ProgressInv` follows the tree through the phases, `VectorInv` says
  the same of vectors as `UniformInv` of labels.
- `MutualExclusion`, `WritesAreSerial`, `LocksImplementOwnership`,
  `CommitsNeverConflict` (WriterLocks). `LockInv` ties every program counter to the
  locks it holds. `WriteInv` adds that what was read is current and that the version
  a write started from is. The refinement maps a step that ends acquisition to
  `Begin`, a commit to `Write`, the first release or death inside to `End`, and the
  rest to stuttering.
- `ManifestIsTrue`, `SearchesAreCompatible`, `FoldersTypeCorrect`,
  `CompleteLabelsHaveIndexes` (FtsIndexFolders). `FolderInv` adds to
  `ManifestTellsIndex` that a crawl past `open_or_create` works on an index of its
  own version, that a folder being rebuilt keeps its manifest only while it is
  still to be unlinked, and that a search past `CheckManifest` finds an index of
  its own ids or none. The last theorem assumes that no label folder lies inside
  another, and fails without (`fts_nested_labels`).
- `WritersFindADatabase`, `CreationMeetsNothing`, `FolderImplementsLife`,
  `OnlyDeleteEverythingUnmakes` (InitDatabase). The inductive invariant says for
  every place of a command what it has seen or made of the folder and that no one
  else can have changed it since, which is so because all changes are made under the
  exclusive lock. It needs that a meta file of this version is never on disk without
  both tables, which a death inside `--delete-everything` can break: the first three
  theorems assume `"wipe" \notin CrashSpots`, for any number of commands and deaths elsewhere.
- `NoLineIsLost`, `LeastBadSplitsAreDegraded` (Chunker). For every file and every
  tree, whatever tree-sitter reports: each cut replaces a range by two that tile it,
  so the ranges tile the file at every step. The split search enters only by the fact
  that a split line lies inside its range.
- `ChunksHoldTheText`, `OnlyTheUncuttableIsOversized`, `PartsAreNumbered` (Chunker).
  For every file the chunks are what the three strategies promise, when it is done.
  `PassInv` adds to the tiling that a range left over the target could not be cut, once
  a pass changes nothing. For lines and Markdown the recursive functions are followed
  line by line: `ScanInv` says that the size a greedy cut compares is the text since
  the last cut, so a piece between two cuts is within the target or one line
  (`CutsFit`); `PiecesInARow` that the pieces tile their lines; `TextIsKept` that
  dropping the blank ones loses no text and no order. A section is named by its heading
  and the number of equal headings above it, so two sections share no name
  (`NamesDiffer`), and the chunks of the sections are joined in their order
  (`NextSection`). `ChunksAreSorted`: the final sort moves nothing. Assumed of a file:
  lengths and the target are natural numbers (`ChunkerAssumption`).
- `NamesFollowTheGrammar` (TextPipeline). For every text, not only short ones, the scan
  of the validators and the parser decide what the grammar in their comments says: the
  scan's state tells after each character whether the segment is empty and whether
  anything before was wrong (`Seen`), and a catalog holds no colon, so the first one is
  the only place to divide. Assumed: hyphen, colon and the letters differ
  (`AlphabetAssumption`).
- `PhrasesAreRuns`, `NamedWordsAreFound` (FtsTokenizer, as TextPipeline runs it). The
  tokens of a text are gathered run by run, so what is gathered up to a position is
  what the beginning alone gives (`GatheringsAgree`, `PrefixIsAlike`). From this follows
  that a blank divides the tokens of a text (`BlanksDivideTexts`), also inside a segment
  of other scripts, and that the tokens of each word survive in the whole
  (`WordsAreTokens`). Inside a word `PartFrom` is the invariant of the loop of
  `split_identifier`: the current part begins at a border and has none inside, except
  before the last letter of an acronym, which the next character decides, and all words
  before it are among the parts. Assumed: texts are sequences (`TextsAssumption`) and a
  character is in one class at most (`ClassAssumption`): digits, joints and blanks are
  ASCII, and the CJK ranges of `is_cjk_char` hold no upper-case letter.
- `PipelineImplementsPhase` (EmbedPipeline). The inductive invariant places every
  chunk (untaken, held by one thread, in the channel, accumulated, a row, or a failure), equates the writer's counts with the rows of each file, and says that
  the flag is up only when no thread holds a chunk, so that a channel found empty
  after the flag stays empty. The counts decide that a file is whole because a
  subset of its chunks as large as the file is the file.
- `CompletionsReachTheUser` (EmbedPipeline). `ShownInv` says of the reporter that a
  batch it has announced is complete only with all that was sent before it, and that the
  events still under way begin with a completion or hold none that waits. The batch
  itself is a fold of `Walk`, one event of `decide_prints` each: by induction over the
  prefixes of the batch the last completion in it is among the prints.
- `RowsFitTheirBlobs` (WorkingTree). The invariant follows a path through a crawl:
  unless the file was changed while the crawl looked at it, or was in a state in which
  `git status`, `git hash-object` and `fs::read` do not speak of the same thing (a
  conflict, an intent to add, a symbolic link), what the list, the status and the hash
  said of it agree, and git stores the bytes that are read as that blob. That the bytes
  *are* the blob is false of a converted file and not claimed. Assumed of filters: they
  change neither a link nor an empty file, and make nothing else into one
  (`CleanAssumption`).
- `LabelsListTheirSources`, `FreshRowsAreNamed` (WorkingTree). Where the one above says
  that what a crawl lists is harmless, these need every list to be exact: `WatchInv`
  follows both passes, files and manifests, `ChosenInv` says that the files chosen are
  those the rule of the configuration keeps (`FilterFollowsRule`, for any order in which
  the file types are iterated), and `ShownInv` that a finished label shows a key of every
  such file and beside them only what raced, path by path: what the user did to one
  path, or a link there, takes nothing from what holds of the others. A fresh row carries the package of the
  nearest folder with a manifest, which the walk over the ancestors finds
  (`SearchFindsGovernor`). Assumed: manifests lie in distinct folders, folders are
  prefixes of their files (`PathAssumption`, `FolderAssumption`), configurations are
  ones that pass validation (`ConfigAssumption`).
- `SearchesOnlyRead`, `DegradedSearchesAreTold`,
  `UndisturbedSearchesAreCurrent`, `ShownRowsAreCrawled`, `SentinelIsTheEnd`, `AgreementComesFirst`
  (LabelSearch). The first maps a search beside a writer to the writer alone, so that
  every theorem of `CatalogCrawl` holds beside searches. `SourcesInv` and `DecisionInv`
  say what a search has read of the metadata when it holds a source and a handle,
  `ToldInv` that a missing source is told of. `ResultsInv` relates what it has
  collected, hydrated and printed to the rows and the index it saw; as long as nothing
  was committed since the metadata was read, that is the present. `ShownInv` says what
  of it holds beside running commands: the rows of the label, and those of any view the
  search takes, are of the tree the metadata names or of one crawled for the label since
  (`RowsGained`, from `MemoryWithinTree`: a crawl labels and stores rows of its tree
  only). The fusion part is
  arithmetic: scores are positive fractions, `Precedes` orders finite sets of rows
  totally, a listing in that order exists, and a row that two methods place above
  another is listed above it (`LimitsAssumption`, `RowsAssumption`).

A word on induction over data. The library's induction theorems take an operator and
cannot be used here, but `FS_StrictSubsetOrderingWellFounded` and `WFMin` do not:
from them the proofs derive that a set of naturals with 0 and closed under successor
has all of them (`SetInduction`), and with it that folds and recursive functions over
finite data exist and what they compute.

`docs/design/crawl.md:151` fears that an interrupted crawl can leave chunks without
a label; `NoOrphans` shows it cannot.

Model-checked only: everything under fairness (`RerunRecovers`, `CrawlRecovers`,
`EveryCommandEnds`, `WipeRecovers`, `PhaseEnds`, `SplittingEnds`), which this prover
does not reach.

## 5. What the modelling met

Differences between code and documents that no run is about, or that the runs leave
out on purpose, and behaviours a maintainer may want to know of. All were read off
the source while it was translated.

Crawl and index:

- A chunk that fails to embed is dropped (`src/app/crawl/pipeline.rs:195`); a later
  FTS-only crawl completes its file, and from then on vector crawls take the
  sentinel for embedded, against the invariant at `storage.rs:57`.
- A file that cannot be read is warned about and left out of the touched set
  (`phases.rs:351`); reassignment still runs and takes the label off its rows,
  where `docs/design/crawl.md:69` wants it skipped.
- A crawl stopped while it writes the manifest (`manifest.rs:120`) leaves one that
  every later crawl refuses, against `crawl.md:149`; so does a purge stopped between
  `meta.json` and the manifest.
- `docs/design/concurrency.md:29` says the commit mutex is held for one write per
  acquisition; `remove_label_from_chunks` (`storage.rs:687`) and the batched upserts
  hold it over a loop.
- A purge between opening an index and creating its reader makes a search fail
  (`fts/search.rs:86`), where `docs/design/search.md:214` promises no index.
- The writer task's error surfaces when the phase has embedded everything, where the
  comment at `pipeline.rs:30` says it is returned immediately.

Database:

- An `init-db` that looks at the folder while another creates it takes a passing
  state for a terminal one and refuses (`run.rs:53`), which
  `docs/design/concurrency.md:105` does not expect.
- A `--delete-everything` that dies after a table and before the meta file leaves a
  meta file of this version over half a table, which a command may open. Running
  `--delete-everything` again recovers.

Working tree:

- The package name and the chunking strategy are not part of a `file_id`
  (`identity.rs:57`): rows of an unchanged file keep those of the crawl that first
  stored them after a package is renamed or the configuration changes, where
  `crawl.md:46` has the nearest `package.json` govern the file.
- `fileTypes` is a hash map: with two suffixes that fit a file (`.ts`, `.d.ts`) the
  strategy is whichever comes first in a random order (`crawl_config.rs:225`).
- The blob ids respect `.gitattributes` and clean filters (`working_dir.rs:1`,
  `crawl.md:25`), the text does not: `read_working_file_content` is a plain `fs::read`
  (`working_dir.rs:356`). Under `core.autocrlf`, a clean filter or Git LFS, a
  working-directory crawl stores the converted form on disk under the id of the blob git
  keeps. As rows are shared by `file_id`, the label of a later commit crawl shows that
  form, and a working-directory label shows the blob where a commit crawl came first.
  `RowsLieOnlyAfterRace` claims no more than that git stores the text as that blob.
- A symbolic link is listed by `git ls-files` under the id of its own text, but read
  through: the row holds the target's content under the link's id, and as that id stays
  when the target changes, the row goes stale without a race. An untracked link is hashed
  by its target instead, and one that points nowhere fails the whole crawl, as any file
  does that goes between `git status` and `git hash-object`. Commit crawls leave links
  out (`commit.rs:69`), so the two modes list different files. A submodule's entry is
  listed too, but cannot be read and is skipped with a warning.
- A file replaced by a link, or a link by a file, has status `T`, which
  `working_dir.rs:226` passes over: the path keeps the staged id while the new text is
  read, against "at their current working-tree contents" (`working_dir.rs:6`).
- Patterns that end in `/` are compared literally, glob characters included.
- The configuration is read from the working folder, for commits too, and before the
  locks are taken (`preamble.rs:94`).

Text:

- In `MAX_SIZE` the tokenizer's acronym rule also gives `ma` and `x_`, and `_a` gives
  only `_a`: an identifier with an underscore next to upper-case letters is not split
  as `docs/design/search.md:135` describes.
- The branch of `split_search.rs:187` for a healthy least bad split is dead
  (`LeastBadSplitsAreDegraded`).
- A Markdown file without headings is never cut, and a section is cut only before
  blank lines, fences, quotes and list items outside of code blocks: parts may stay
  above the target, where `docs/design/chunker.md:126` names code blocks only.
- The text above the first heading of a Markdown file is in no chunk
  (`markdown_partitioner.rs:83`), so viewing all chunks does not reconstruct the file,
  which `README.md:79` promises; `LinesInOneChunk` leaves those lines out.
- Breadcrumbs of Markdown sections hold one heading, not the hierarchy of `chunker.md:122`.

Search:

- FTS alone can show a document twice around a commit; a stale row is told of as "in
  FTS index" where only vector search found it; with a limit of 50 or more "End of
  results" may appear although fusion cut its list; after a purge stopped early a
  complete label has no rows.
- `docs/design/search.md:61` calls the "sources disagree" error unreachable and then says
  that two selective working-directory crawls, `--retrieval fts` and later `--retrieval
  vector`, hit it. They do not: `write_in_progress_metadata` writes the label's row as a
  whole, with no source for the method that is not selected, so the second crawl takes
  the first method out of the selection. `Refusal` keeps the error; with the
  sources written by one record, that it never occurs is no property worth a run.

## 6. Not modelled

- Configuration files, flags and the default context; the read-only inspection
  commands; progress, warnings and summaries apart from the reporter thread; Arrow
  encoding and predicate strings; the watchdog that reports a long wait for a lock.
  They keep no state the rest depends on, see the notes in `PROJECT.json`.
- Of the chunkers the quality score, breadcrumb texts and chunk types: they change no range.
- Git, the filesystem, LanceDB and Tantivy inside, tree-sitter, jieba, the matching of
  one glob, the embedding model: external, modelled from how the code uses them.
- Weak memory: the stop flag and the counters of the upload phase are relaxed atomics.
- Two versions of the binary running at once: `Upgrade` waits for the running
  commands. With both, a search could find an index rebuilt after it read the manifest.
- Deletion on Windows, which waits for readers; collisions of hashes.

## 7. What is left

1. Searches of several labels, and a search beside two writers of other catalogs.
2. `purge --all` file by file beside searches.
