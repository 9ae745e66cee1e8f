------------------------------ MODULE WorkingTree ------------------------------
(* Where a crawl gets its files: a commit, or the working tree as git reports it.  *)
(* A working-directory crawl runs `git ls-files`, `git status` and `git            *)
(* hash-object` one after the other, twice (files, then packages), and reads the   *)
(* contents later still, while the user edits, stages and commits.  The rows it    *)
(* writes are filed under the blob ids found first; labels of one catalog share    *)
(* them, whatever mode they were crawled in.                                       *)
(*                                                                                 *)
(* A blob id is the content it names.  That need not be what the file holds: git   *)
(* stores a file as its clean filters and end-of-line conversion leave it, and a   *)
(* symbolic link as the path it points to, while the crawl reads the file itself   *)
(* and follows links.  How a crawl stores rows step by step is CatalogCrawl's      *)
(* subject: here they are stored whole.                                            *)
EXTENDS CrawlFilter, FiniteSets, FiniteSetsExt, Functions

CONSTANTS
    Sources,        \* paths of files that a crawl configuration may let through
    Manifests,      \* paths of package.json files, which no file type covers
    Contents,       \* what a file, or a blob, can hold
    MayHold,        \* what the user gives the file at a path to hold
    Clean,          \* what git stores when the file at a path holds a content
    Link,           \* not a file but a symbolic link
    Target,         \* for the paths that may be links, the file each points to
    Markers,        \* a file with the conflict markers of a merge
    Empty,          \* the content of an empty file: no chunks, no package name
    Absent,         \* no such file, or no such index entry
    NoJob,          \* no crawl is running
    CatalogName,    \* the name used where no package governs a file
    Labels,
    LocalConfigs,   \* what monodex-crawl.json in the repository can be
    GlobalConfigs,  \* what monodex-crawl-config.json of the user can be
    Checkouts,      \* the repositories to begin with: commit, staged files, files on disk
    UserMidCrawl,   \* may the user act while a crawl runs?
    MergesHappen,   \* may a merge stop at a conflict, and may files be added by intent?
    MaxEdits, MaxCrawls

Paths == Sources \cup Manifests
Ids == Contents \cup {Absent}

ASSUME ContentAssumption ==
    /\ Empty \in Contents /\ Absent \notin Contents
    /\ Link \in Contents \ {Empty} /\ Markers \in Contents \ {Empty, Link}
    /\ MayHold \in [Paths -> SUBSET Contents]
    /\ \A p \in Paths : Link \in MayHold[p] => p \in DOMAIN Target
ASSUME TargetAssumption ==      \* no link points to a link
    DOMAIN Target \subseteq Paths /\ \A p \in DOMAIN Target : Target[p] \in Paths \ DOMAIN Target

\* A filter changes neither a link nor an empty file, and makes nothing else into one.
ASSUME CleanAssumption ==
    /\ Clean \in [Paths -> [Ids -> Ids]]
    /\ \A p \in Paths : \A c \in Ids : \A plain \in {Absent, Empty, Link} :
          Clean[p][c] = plain <=> c = plain
ASSUME CheckoutAssumption ==
    /\ Checkouts \subseteq [head : [Paths -> Ids], staged : [Paths -> Ids], work : [Paths -> Ids]]
    /\ \A c \in Checkouts : \A p \in Paths : c.work[p] = Link => p \in DOMAIN Target
ASSUME PathAssumption ==
    /\ Sources \cap Manifests = {}
    /\ DOMAIN FolderOf = Paths /\ DOMAIN SuffixesOf = Sources
    /\ \A m, n \in Manifests : FolderOf[m] = FolderOf[n] => m = n    \* all have one name
ASSUME ConfigAssumption ==
    /\ \A config \in (LocalConfigs \cup GlobalConfigs) \ {Missing} : IsConfig(config)
    /\ IsConfig(DefaultConfig)

VARIABLES
    head,       \* the current commit: a content or Absent for every path
    index,      \* git's index: for every path its entries, pairs of stage and blob id
    intent,     \* paths entered with `git add --intent-to-add`
    work,       \* the files on disk
    config,     \* the crawl configurations of the repository and of the user
    job,        \* the crawl that holds the catalog lock, or NoJob
    rows,       \* (path, blob id) -> the stored content and package name
    view,       \* label -> the keys of the rows that carry it
    shown,      \* history: what each label's last finished crawl ought to show
    touched,    \* history: paths git could not answer for while the job looked at them,
                \* none for a commit crawl; a symbolic link is always one
    raced,      \* history: rows stored for a touched path
    edits, crawls

user == <<head, index, intent, work, config>>
store == <<rows, view, shown, raced>>
vars == <<head, index, intent, work, config, job, rows, view, shown, touched, raced,
          edits, crawls>>

Entry(id) == IF id = Absent THEN {} ELSE {<<0, id>>}

\* What `git add` would store of p.
Blob(p) == Clean[p][work[p]]

\* fs::read: the bytes on disk, of a link those of the file it points to.
ReadFile(p) == IF work[p] = Link THEN work[Target[p]] ELSE work[p]

\* An index entry that a commit can be made of.
Settled(p) == p \notin intent /\ \A e \in index[p] : e[1] = 0

\* `git ls-files`, `git status`, `git hash-object` and fs::read can agree on p only if
\* its index entry is settled and it is no link, there or on disk.
Ordinary(p) == Settled(p) /\ <<0, Link>> \notin index[p] /\ work[p] # Link

Crawlable(paths, tree) == {p \in paths : tree[p] \notin {Absent, Empty}}
Keys(paths, tree) == {<<p, tree[p]>> : p \in paths}

--------------------------------------------------------------------------------
(* The package index.                                                             *)

\* build_package_index_*: the folders of the package.json files that were listed,
\* could be read and have a name.
PackageIndex(listed, contents) ==
    LET named == {m \in Manifests : listed[m] # Absent /\ contents[m] \notin {Absent, Empty}}
    IN  [dir \in {FolderOf[m] : m \in named} |->
            contents[CHOOSE m \in named : FolderOf[m] = dir]]

\* The bug a lookup from the root down would be.
OutermostName(packages, p) ==
    LET known == {n \in 0..Len(FolderOf[p]) : SubSeq(FolderOf[p], 1, n) \in DOMAIN packages}
    IN  IF known = {} THEN CatalogName ELSE packages[SubSeq(FolderOf[p], 1, Min(known))]

\* find_package_name: from the file's folder upwards, the first that has a package.
PackageName(packages, p) ==
    LET up[n \in 0..Len(FolderOf[p])] ==
            LET dir == SubSeq(FolderOf[p], 1, n)
            IN  IF dir \in DOMAIN packages THEN packages[dir]
                ELSE IF n = 0 THEN CatalogName ELSE up[n - 1]
    IN  up[Len(FolderOf[p])]

--------------------------------------------------------------------------------
(* git, as the crawl asks it.                                                     *)

\* `git ls-files`: every entry of the index; of several stages the last one listed
\* stays in the map.
TrackedBlobIds ==
    [p \in Paths |-> IF index[p] = {} THEN Absent
                     ELSE (CHOOSE e \in index[p] : \A f \in index[p] : f[1] <= e[1])[2]]

\* What `git status` reports of p.  A file in a conflict is not modified, and deleted
\* if their side deleted it; a file added by intent is not modified.  A file in the
\* place of a link, or a link in that of a file, is reported by a letter of its own,
\* which the crawl passes over.
Stages(p) == {e[1] : e \in index[p]}
Untracked(p) == index[p] = {} /\ work[p] # Absent
Conflicted(p) == ~(Stages(p) \subseteq {0})
TypeChanged(p) == (<<0, Link>> \in index[p]) # (work[p] = Link)
Modified(p) ==
    /\ index[p] # {} /\ ~Conflicted(p) /\ p \notin intent
    /\ work[p] # Absent /\ <<0, Blob(p)>> \notin index[p] /\ ~TypeChanged(p)
DeletedThere(p) ==
    IF Conflicted(p) THEN 1 \in Stages(p) /\ 3 \notin Stages(p)
    ELSE index[p] # {} /\ work[p] = Absent

\* The bugs the list of dirty paths could have: files never added are forgotten, an
\* edited file keeps its staged blob id.
TrackedOnly == {p \in Paths : Modified(p)}
UntrackedOnly == {p \in Paths : Untracked(p)}

\* git_list_dirty_paths: what is to be hashed again, and what is gone.
ToHash == {p \in Paths : Untracked(p) \/ Modified(p)}
Deleted == {p \in Paths : DeletedThere(p)}

--------------------------------------------------------------------------------
(* The user.                                                                      *)

MayAct == edits < MaxEdits /\ (UserMidCrawl \/ job = NoJob)

\* A commit crawl has no use for the index or the files on disk.
LooksAtWork == job # NoJob /\ job.mode = "working"

Acted(paths) ==
    /\ edits' = edits + 1
    /\ touched' = IF LooksAtWork THEN touched \cup paths ELSE touched
    /\ UNCHANGED <<job, rows, view, shown, raced, crawls>>

Edit(p, content) ==
    /\ MayAct /\ content # work[p]
    /\ work' = [work EXCEPT ![p] = content]
    /\ Acted({p}) /\ UNCHANGED <<head, index, intent, config>>

\* `git add p`, which also resolves a conflict.
Add(p) ==
    /\ MayAct /\ index[p] # Entry(Blob(p))
    /\ index' = [index EXCEPT ![p] = Entry(Blob(p))]
    /\ intent' = intent \ {p}
    /\ Acted({p}) /\ UNCHANGED <<head, work, config>>

Commit ==
    /\ MayAct /\ \A p \in Paths : Settled(p)
    /\ head' = TrackedBlobIds /\ head' # head
    /\ Acted({}) /\ UNCHANGED <<index, intent, work, config>>

IntentToAdd(p) ==
    /\ MayAct /\ MergesHappen /\ index[p] = {} /\ work[p] # Absent
    /\ index' = [index EXCEPT ![p] = Entry(Empty)]
    /\ intent' = intent \cup {p}
    /\ Acted({p}) /\ UNCHANGED <<head, work, config>>

\* A merge of files stops at p: the index holds the three sides that exist, the file
\* on disk the one side that is left of two, or the markers of both.
Sides(p) == ({Clean[p][c] : c \in MayHold[p]} \cup {Absent}) \ {Empty, Link}
Merged(p, theirs) ==
    CASE theirs = Absent -> {work[p]}
      [] head[p] = Absent -> {c \in MayHold[p] : Clean[p][c] = theirs}
      [] OTHER -> {Markers}
StopMerge(p, base, theirs, merged) ==
    LET side(stage, id) == IF id = Absent THEN {} ELSE {<<stage, id>>}
    IN  /\ MayAct /\ MergesHappen
        /\ index[p] = Entry(head[p]) /\ Blob(p) = head[p] /\ head[p] # Link /\ p \notin intent
        /\ base # head[p] /\ theirs # head[p] /\ base # theirs
        /\ index' = [index EXCEPT ![p] = side(1, base) \cup side(2, head[p]) \cup side(3, theirs)]
        /\ work' = [work EXCEPT ![p] = merged]
        /\ Acted({p}) /\ UNCHANGED <<head, intent, config>>

EditConfig(place, new) ==
    /\ MayAct /\ new # config[place]
    /\ config' = [config EXCEPT ![place] = new]
    /\ Acted({}) /\ UNCHANGED <<head, index, intent, work>>

UserActs ==
    \/ \E p \in Paths : \E content \in MayHold[p] \cup {Absent} : Edit(p, content)
    \/ \E p \in Paths : Add(p) \/ IntentToAdd(p)
    \/ \E p \in Paths : \E base, theirs \in Sides(p) : \E merged \in Merged(p, theirs) :
          StopMerge(p, base, theirs, merged)
    \/ \E new \in LocalConfigs : EditConfig("repository", new)
    \/ \E new \in GlobalConfigs : EditConfig("user", new)
    \/ Commit

--------------------------------------------------------------------------------
(* The crawl.                                                                     *)

\* A label whose last crawl did not end.
Nothing == [mode |-> "none"]

NoTree == [p \in Paths |-> Absent]

\* The files of a tree: its links and submodules are left out.
Files(tree) == [p \in Paths |-> IF tree[p] = Link THEN Absent ELSE tree[p]]

\* What is on disk, by its blob ids and by what reading it gives.
BlobsOnDisk == [p \in Paths |-> Blob(p)]
TextsOnDisk == [p \in Paths |-> ReadFile(p)]

At(pc) == job # NoJob /\ job.pc = pc
Goto(pc) == job' = [job EXCEPT !.pc = pc]

\* prepare_crawl_preamble: the crawl configuration is read from the repository's
\* folder, for a commit crawl too, and before the locks are waited for.  If it is not
\* valid there is no crawl.
BeginCrawl(l, mode) ==
    LET loaded == LoadCrawlConfig(config["repository"], config["user"])
    IN  /\ job = NoJob /\ crawls < MaxCrawls
        /\ ValidConfig(loaded)
        /\ crawls' = crawls + 1
        /\ \E order \in IterationOrders(loaded) :
              job' = [pc |-> "lock", label |-> l, mode |-> mode, config |-> loaded,
                      order |-> order, tree |-> NoTree, map |-> NoTree, hash |-> {},
                      files |-> NoTree, packages |-> <<>>, known |-> {}, todo |-> {},
                      read |-> <<>>]
        /\ UNCHANGED <<user, store, touched, edits>>

\* With the locks the crawl names its source; write_in_progress_metadata takes the
\* label's last result back.
TakeSource ==
    /\ At("lock")
    /\ job' = [job EXCEPT !.pc = IF job.mode = "commit" THEN "tree" ELSE "list_files",
                          !.tree = head]
    /\ shown' = [shown EXCEPT ![job.label] = Nothing]
    /\ touched' = IF job.mode = "commit" THEN {} ELSE {p \in Paths : ~Ordinary(p)}
    /\ UNCHANGED <<user, rows, view, raced, edits, crawls>>

\* A commit is immutable: enumerate_commit_tree and build_package_index_for_commit.
WalkCommit ==
    /\ At("tree")
    /\ job' = [job EXCEPT !.pc = "classify", !.files = Files(job.tree),
                          !.packages = PackageIndex(Files(job.tree), Files(job.tree))]
    /\ UNCHANGED <<user, store, touched, edits, crawls>>

\* build_working_tree_blob_map, once for the files and once for the packages.
ListAt   == [files |-> "list_files", packages |-> "list_packages"]
StatusAt == [files |-> "status_files", packages |-> "status_packages"]
HashAt   == [files |-> "hash_files", packages |-> "hash_packages"]

ListTracked(pass) ==
    /\ At(ListAt[pass])
    /\ job' = [job EXCEPT !.pc = StatusAt[pass], !.map = TrackedBlobIds]
    /\ UNCHANGED <<user, store, touched, edits, crawls>>

ListDirty(pass) ==
    /\ At(StatusAt[pass])
    /\ job' = [job EXCEPT !.pc = HashAt[pass], !.hash = ToHash,
                          !.map = [p \in Paths |-> IF p \in Deleted THEN Absent ELSE job.map[p]]]
    /\ UNCHANGED <<user, store, touched, edits, crawls>>

\* git_hash_object_batch: `git hash-object` follows links; one missing file fails the
\* whole batch, and the crawl.
HashDirty(pass) ==
    LET hashed == [p \in Paths |->
                      IF p \in job.hash THEN Clean[p][ReadFile(p)] ELSE job.map[p]]
    IN  /\ At(HashAt[pass])
        /\ \A p \in job.hash : ReadFile(p) # Absent
        /\ job' = IF pass = "files"
                  THEN [job EXCEPT !.pc = "list_packages", !.files = hashed]
                  ELSE [job EXCEPT !.pc = "manifests", !.map = hashed]
        /\ UNCHANGED <<user, store, touched, edits, crawls>>

HashFails(pass) ==
    /\ At(HashAt[pass])
    /\ \E p \in job.hash : ReadFile(p) = Absent
    /\ job' = NoJob
    /\ UNCHANGED <<user, store, touched, edits, crawls>>

ReadManifests ==
    /\ At("manifests")
    /\ job' = [job EXCEPT !.pc = "classify", !.packages = PackageIndex(job.map, TextsOnDisk)]
    /\ UNCHANGED <<user, store, touched, edits, crawls>>

\* filter_files and classify_files: a file whose key is stored is labelled and not
\* read again (add_label_to_existing_files).
Classify ==
    LET chosen == {p \in Sources : /\ job.files[p] # Absent
                                  /\ ShouldCrawl(job.config, job.order, p)}
        known == {p \in chosen : <<p, job.files[p]>> \in DOMAIN rows}
    IN  /\ At("classify")
        /\ job' = [job EXCEPT !.pc = "read", !.known = known, !.todo = chosen \ known]
        /\ view' = [view EXCEPT ![job.label] = @ \cup Keys(known, job.files)]
        /\ UNCHANGED <<user, rows, shown, raced, touched, edits, crawls>>

\* chunk_new_files: the content is read now, the blob from the object store or the
\* bytes on disk as they are; a file that cannot be read is skipped, an empty one has
\* no chunks.
ReadNew(p) ==
    LET content == IF job.mode = "commit" THEN job.files[p] ELSE ReadFile(p)
        row == [content |-> content, package |-> PackageName(job.packages, p),
                strategy |-> GetStrategy(job.config, job.order, p)]
    IN  /\ At("read") /\ p \in job.todo
        /\ job' = [job EXCEPT !.todo = @ \ {p},
                              !.read = IF content \in {Absent, Empty} THEN @
                                       ELSE [q \in DOMAIN @ \cup {p} |->
                                                IF q = p THEN row ELSE @[q]]]
        /\ UNCHANGED <<user, store, touched, edits, crawls>>

\* The rows of the files in `files`, under the keys the enumeration gave them.
Upsert(files) ==
    LET new == Keys(files, job.files)
    IN  [k \in DOMAIN rows \cup new |-> IF k \in new THEN job.read[k[1]] ELSE rows[k]]

Referenced(labels) == UNION {labels[l] : l \in Labels}

\* The upload, run_label_cleanup, which takes the label off every other row, and the
\* final metadata.
Publish ==
    LET l == job.label
        new == Keys(DOMAIN job.read, job.files)
    IN  /\ At("read") /\ job.todo = {}
        /\ view' = [view EXCEPT ![l] = Keys(job.known, job.files) \cup new]
        /\ rows' = Restrict(Upsert(DOMAIN job.read), Referenced(view'))
        /\ raced' = {k \in raced \cup {n \in new : n[1] \in touched} : k \in DOMAIN rows'}
        /\ shown' = [shown EXCEPT ![l] =
                        [mode |-> job.mode, config |-> job.config, unsure |-> touched,
                         blobs |-> IF job.mode = "commit" THEN Files(job.tree) ELSE BlobsOnDisk,
                         texts |-> IF job.mode = "commit" THEN Files(job.tree) ELSE TextsOnDisk]]
        /\ job' = NoJob
        /\ UNCHANGED <<user, touched, edits, crawls>>

\* The process stops, or a git command fails; of the new files any may be stored.
\* Only an interruption that leaves room for another crawl is worth exploring.
Interrupt(stored) ==
    /\ job # NoJob /\ crawls < MaxCrawls
    /\ stored # {} => At("read") /\ job.todo = {}
    /\ rows' = Upsert(stored)
    /\ view' = [view EXCEPT ![job.label] = @ \cup Keys(stored, job.files)]
    /\ raced' = raced \cup {k \in Keys(stored, job.files) : k[1] \in touched}
    /\ job' = NoJob
    /\ UNCHANGED <<user, shown, touched, edits, crawls>>

CrawlStep ==
    \/ \E l \in Labels, mode \in {"commit", "working"} : BeginCrawl(l, mode)
    \/ TakeSource \/ WalkCommit
    \/ \E pass \in {"files", "packages"} :
         ListTracked(pass) \/ ListDirty(pass) \/ HashDirty(pass) \/ HashFails(pass)
    \/ ReadManifests \/ Classify
    \/ \E p \in Sources : ReadNew(p)
    \/ Publish
    \/ \E stored \in SUBSET (IF job = NoJob THEN {} ELSE DOMAIN job.read) : Interrupt(stored)

--------------------------------------------------------------------------------

\* A repository with ordinary staged and unstaged changes, and an empty catalog.
Init ==
    /\ \E checkout \in Checkouts :
          /\ head = checkout.head /\ work = checkout.work
          /\ index = [p \in Paths |-> Entry(checkout.staged[p])]
    /\ intent = {} /\ config = [repository |-> Missing, user |-> Missing]
    /\ job = NoJob
    /\ rows = <<>> /\ view = [l \in Labels |-> {}] /\ shown = [l \in Labels |-> Nothing]
    /\ touched = {} /\ raced = {} /\ edits = 0 /\ crawls = 0

Next == UserActs \/ CrawlStep

Spec == Init /\ [][Next]_vars

--------------------------------------------------------------------------------
(* Properties.                                                                    *)

\* The rule of README.md for a path: a known file type, and not excluded or kept all
\* the same, where a folder pattern names one of the folders above the path.
Covers(patterns, p) ==
    \E pattern \in patterns :
        IF pattern[1] = "glob" THEN p \in pattern[2]
        ELSE \E n \in 0..Len(FolderOf[p]) :
                IsSuffix(pattern[2], SubSeq(FolderOf[p], 1, n))
StrategiesFor(c, p) == {c.fileTypes[suffix] : suffix \in DOMAIN c.fileTypes \cap SuffixesOf[p]}
LetThrough(c) ==
    {p \in Sources : StrategiesFor(c, p) # {} /\ (Covers(c.exclude, p) => Covers(c.keep, p))}

\* A finished crawl lists exactly the files of its source that the configuration of
\* its repository, or else of its user, let through, under the ids of the blobs git
\* stores them as: files edited, deleted, staged or never added are all where `git
\* status` says they are.  Of a working-directory crawl this holds for every path that
\* is no link and that the user left alone meanwhile, whatever befell the others; of a
\* commit crawl for all (build_working_tree_blob_map, enumerate_commit_tree,
\* run_label_cleanup).
LabelListsItsSource ==
    \A l \in Labels : shown[l] # Nothing =>
        LET source == shown[l]
            Sure(keys) == {k \in keys : k \notin raced /\ k[1] \notin source.unsure}
        IN  Sure(view[l])
              = Sure(Keys(Crawlable(LetThrough(source.config), source.texts), source.blobs))

\* A row holds the blob its id names or a file that git stores as that blob, or it was
\* stored while the user was changing that very path, had it in a conflict or had a
\* link there: the three git commands and the later read, of bytes no filter has seen,
\* never mix up files by themselves.
RowsLieOnlyAfterRace ==
    \A k \in DOMAIN rows :
        rows[k].content = k[2] \/ Clean[k[1]][rows[k].content] = k[2] \/ k \in raced

\* The name of p's package in a tree: that of the named package.json whose folder
\* holds p most closely.
Holds(m, p) ==
    /\ Len(FolderOf[m]) <= Len(FolderOf[p])
    /\ FolderOf[m] = SubSeq(FolderOf[p], 1, Len(FolderOf[m]))
GoverningName(tree, p) ==
    LET candidates == {m \in Crawlable(Manifests, tree) : Holds(m, p)}
        closest == {m \in candidates :
                       \A n \in candidates : Len(FolderOf[n]) <= Len(FolderOf[m])}
    IN  IF candidates = {} THEN CatalogName ELSE tree[CHOOSE m \in closest : TRUE]

\* Rows chunked by a crawl whose package.json files were left alone carry the name of
\* the nearest one that has a name in the very tree the label shows, and were split by
\* a strategy its configuration gives to the file.
FreshRowsNameTheirPackage ==
    [][\A l \in Labels : \A k \in view'[l] \ DOMAIN rows :
          shown'[l] # Nothing /\ shown'[l] # shown[l] /\ shown'[l].unsure \cap Manifests = {} =>
             /\ rows'[k].package = GoverningName(shown'[l].texts, k[1])
             /\ rows'[k].strategy \in StrategiesFor(shown'[l].config, k[1])]_vars

\* What README.md says of commit labels, "deterministic, reproducible indexing": the
\* label of a commit shows the contents of that commit.
CommitLabelShowsItsCommit ==
    \A l \in Labels : \A k \in view[l] :
        shown[l] # Nothing /\ shown[l].mode = "commit" => rows[k].content = shown[l].texts[k[1]]

================================================================================
