------------------------- MODULE WorkingTreeProofs -------------------------
(* Theorems about WorkingTree: for any paths, contents and configurations, any     *)
(* number of crawls, any filters and any acts of the user, a row holds the blob its *)
(* id names or a file git stores as that blob, unless it was stored in a race with  *)
(* the user or of a link, and a crawl's label lists the rest of its source, under   *)
(* the names of the packages that govern the files.                                *)
EXTENDS WorkingTree, FiniteSetTheorems, WellFoundedInduction, TLAPS

JobFields == {"pc", "label", "mode", "config", "order", "tree", "map", "hash", "files",
              "packages", "known", "todo", "read"}

\* From here on job.files holds the blob ids of the files.
Listed == {"list_packages", "status_packages", "hash_packages", "manifests", "classify",
           "read"}

\* An index entry without stages is one blob id or none.
TreeInv ==
    /\ work \in [Paths -> Ids]
    /\ DOMAIN index = Paths
    /\ \A p \in Paths : Settled(p) => \E id \in Ids : index[p] = Entry(id)

JobInv ==
    job # NoJob =>
        /\ DOMAIN job = JobFields
        /\ job.label \in Labels
        /\ job.mode \in {"commit", "working"}
        /\ job.pc = "tree" => job.mode = "commit"

\* What the crawl has learnt of a path that git can answer for still holds.
WatchInv ==
    LooksAtWork /\ job.pc # "lock" =>
        \A p \in Paths \ touched :
            /\ Ordinary(p)
            /\ job.pc \in {"status_files", "status_packages"} =>
                  job.map[p] \in Ids /\ index[p] = Entry(job.map[p])
            /\ job.pc \in {"hash_files", "hash_packages"} =>
                  p \in job.hash \/ job.map[p] = Blob(p)
            /\ job.pc = "manifests" => job.map[p] = Blob(p)
            /\ job.pc \in Listed => job.files[p] = Blob(p)

\* The content is the blob, or a file of p that git stores as it.
Fits(p, content, id) == content = id \/ (p \in Paths /\ content \in Ids /\ Clean[p][content] = id)

ReadInv ==
    job # NoJob =>
        /\ job.pc # "read" => DOMAIN job.read = {}
        /\ job.pc = "read" => Keys(job.known, job.files) \subseteq DOMAIN rows
        /\ \A p \in DOMAIN job.read :
              Fits(p, job.read[p].content, job.files[p]) \/ p \in touched

RowInv ==
    /\ \A k \in DOMAIN rows : Fits(k[1], rows[k].content, k[2]) \/ k \in raced
    /\ DOMAIN view = Labels
    /\ \A l \in Labels : view[l] \subseteq DOMAIN rows

\* A crawl goes by one of the configurations there are.
ConfigInv ==
    /\ DOMAIN config = {"repository", "user"}
    /\ \A place \in DOMAIN config : config[place] # Missing => IsConfig(config[place])
    /\ job # NoJob => /\ IsConfig(job.config) /\ ValidConfig(job.config)
                      /\ job.order \in IterationOrders(job.config)

\* The files of the enumeration that the rule lets through.
Chosen == {p \in Sources : job.files[p] # Absent /\ p \in LetThrough(job.config)}

\* What the job's source holds when it is read.
Texts == IF job.mode = "commit" THEN Files(job.tree) ELSE TextsOnDisk

\* Of the chosen files none is forgotten but the empty ones, and what is read of them
\* comes from the crawl's source and its packages.
ChosenInv ==
    job # NoJob /\ job.pc # "lock" =>
        /\ shown[job.label] = Nothing
        /\ job.mode = "commit" =>
              /\ touched = {}
              /\ job.pc \in {"tree", "classify", "read"}
              /\ job.pc # "tree" => job.files = Files(job.tree)
        /\ job.pc \in {"classify", "read"} /\ touched \cap Manifests = {} =>
              job.packages = PackageIndex(Texts, Texts)
        /\ job.pc = "read" =>
              /\ job.known \cup job.todo \cup DOMAIN job.read \subseteq Chosen
              /\ \A p \in Chosen : \/ p \in job.known \cup job.todo \cup DOMAIN job.read
                                   \/ p \in touched \/ job.files[p] = Empty
              /\ \A p \in DOMAIN job.read :
                    /\ job.read[p].content # Empty
                    /\ job.read[p].package = PackageName(job.packages, p)
                    /\ job.read[p].strategy = GetStrategy(job.config, job.order, p)

SourceKeys(source) == Keys(Crawlable(LetThrough(source.config), source.texts), source.blobs)

\* Of the paths the crawl could be sure of a label shows every key of its source, and
\* besides these only raced ones.
Lists(keys, source) ==
    /\ \A k \in SourceKeys(source) : k \in keys \/ k[1] \in source.unsure
    /\ \A k \in keys : k \in SourceKeys(source) \/ k \in raced \/ k[1] \in source.unsure
ShownInv ==
    /\ DOMAIN shown = Labels
    /\ \A k \in DOMAIN rows : rows[k].content # Empty
    /\ \A l \in Labels : shown[l] # Nothing => Lists(view[l], shown[l])

ListInv == ConfigInv /\ ChosenInv /\ ShownInv

Inv == TreeInv /\ JobInv /\ WatchInv /\ ReadInv /\ RowInv

--------------------------------------------------------------------------------
(* What git answers for an ordinary path.                                         *)

LEMMA EntryIsOrdinary ==
    ASSUME NEW id \in Ids, NEW p \in Paths
    PROVE  \A e \in Entry(id) : e = <<0, id>> /\ e[1] = 0
BY DEF Entry

LEMMA TrackedEntry ==
    ASSUME NEW p \in Paths, NEW id \in Ids, index[p] = Entry(id)
    PROVE  TrackedBlobIds[p] = id
<1>1. CASE id = Absent
  BY <1>1 DEF TrackedBlobIds, Entry
<1>2. CASE id # Absent
  <2>1. index[p] = {<<0, id>>}
    BY <1>2 DEF Entry
  <2>2. \A e \in index[p] : e = <<0, id>> /\ e[1] = 0 /\ e[2] = id
    BY <2>1
  <2>3. \E e \in index[p] : \A f \in index[p] : f[1] <= e[1]
    BY <2>1, <2>2
  <2>4. (CHOOSE e \in index[p] : \A f \in index[p] : f[1] <= e[1]) = <<0, id>>
    BY <2>2, <2>3
  <2> QED
    BY <2>1, <2>4 DEF TrackedBlobIds
<1> QED
  BY <1>1, <1>2

LEMMA LetterOfOrdinary ==
    ASSUME NEW p \in Paths, NEW id \in Ids, index[p] = Entry(id), Ordinary(p),
           work[p] \in Ids
    PROVE  /\ p \in Deleted => Blob(p) = Absent
           /\ p \notin ToHash /\ p \notin Deleted => Blob(p) = id
<1>0. Blob(p) = Absent <=> work[p] = Absent
  BY CleanAssumption DEF Blob
<1>1. p \notin intent /\ ~TypeChanged(p)
  BY DEF Ordinary, Settled, TypeChanged
<1>2. CASE id = Absent
  <2>1. index[p] = {}
    BY <1>2 DEF Entry
  <2> QED
    BY <2>1, <1>0, <1>2 DEF ToHash, Deleted, Untracked, DeletedThere, Conflicted, Stages
<1>3. CASE id # Absent
  <2>1. index[p] = {<<0, id>>} /\ index[p] # {}
    BY <1>3 DEF Entry
  <2>2. Stages(p) = {0}
    BY <2>1 DEF Stages
  <2>3. <<0, Blob(p)>> \notin index[p] <=> Blob(p) # id
    BY <2>1
  <2> QED
    BY <2>1, <2>2, <2>3, <1>0, <1>1 DEF ToHash, Deleted, Modified, DeletedThere, Conflicted
<1> QED
  BY <1>2, <1>3

\* What is read of an ordinary path is what git would make its blob of.
LEMMA OrdinaryIsRead ==
    ASSUME NEW p \in Paths, Ordinary(p), work[p] \in Ids
    PROVE  /\ ReadFile(p) = work[p] /\ Blob(p) = Clean[p][ReadFile(p)]
           /\ Fits(p, ReadFile(p), Blob(p))
           /\ Blob(p) = Absent <=> ReadFile(p) = Absent
           /\ Blob(p) = Empty <=> ReadFile(p) = Empty
<1>1. ReadFile(p) = work[p]
  BY DEF Ordinary, ReadFile
<1>2. Blob(p) = Clean[p][ReadFile(p)]
  BY <1>1 DEF Blob
<1> QED
  BY <1>1, <1>2, CleanAssumption DEF Fits

--------------------------------------------------------------------------------
(* The user.                                                                      *)

\* Whatever the user does to some paths, the crawl's knowledge of the others lasts.
LEMMA ActsOnTouchedPaths ==
    ASSUME Inv, NEW S, Acted(S), TreeInv',
           \A p \in Paths \ S : /\ work'[p] = work[p]
                                /\ index'[p] = index[p]
                                /\ p \in intent' <=> p \in intent
    PROVE  Inv'
<1> USE DEF Acted
<1>1. JobInv' /\ RowInv'
  BY DEF Inv, JobInv, RowInv, Fits
<1>2. ReadInv'
  BY DEF Inv, ReadInv, LooksAtWork, Keys
<1>3. WatchInv'
  <2> SUFFICES ASSUME LooksAtWork', job'.pc # "lock", NEW p \in Paths \ touched'
               PROVE  /\ Ordinary(p)'
                      /\ job'.pc \in {"status_files", "status_packages"} =>
                            job'.map[p] \in Ids /\ index'[p] = Entry(job'.map[p])
                      /\ job'.pc \in {"hash_files", "hash_packages"} =>
                            p \in job'.hash \/ job'.map[p] = Blob(p)'
                      /\ job'.pc = "manifests" => job'.map[p] = Blob(p)'
                      /\ job'.pc \in Listed => job'.files[p] = Blob(p)'
    BY DEF WatchInv, Entry
  <2>1. LooksAtWork /\ job' = job /\ p \in Paths \ touched /\ p \in Paths \ S
    BY DEF LooksAtWork
  <2>2. (Ordinary(p)' <=> Ordinary(p)) /\ Blob(p)' = Blob(p)
    BY <2>1 DEF Ordinary, Settled, Blob
  <2> QED
    BY <2>1, <2>2 DEF Inv, WatchInv
<1> QED
  BY <1>1, <1>2, <1>3 DEF Inv

LEMMA UserActsKeepInv ==
    ASSUME Inv, UserActs
    PROVE  Inv'
<1>0. Empty \in Ids /\ Absent \in Ids /\ Contents \subseteq Ids /\ Markers \in Ids
      /\ \A p \in Paths : MayHold[p] \subseteq Ids
  BY ContentAssumption DEF Ids
<1>tree. TreeInv
  BY DEF Inv
<1>1. ASSUME NEW p \in Paths, NEW content \in MayHold[p] \cup {Absent}, Edit(p, content)
      PROVE  Inv'
  <2>1. work' = [work EXCEPT ![p] = content] /\ UNCHANGED <<index, intent>> /\ Acted({p})
    BY <1>1 DEF Edit
  <2>2. TreeInv'
    BY <2>1, <1>0, <1>tree DEF TreeInv, Settled, Entry
  <2> QED
    BY <2>1, <2>2, <1>tree, ActsOnTouchedPaths DEF TreeInv
<1>2. ASSUME NEW p \in Paths, Add(p) PROVE Inv'
  <2>1. /\ index' = [index EXCEPT ![p] = Entry(Blob(p))]
        /\ intent' = intent \ {p} /\ UNCHANGED work /\ Acted({p})
    BY <1>2 DEF Add
  <2>b. Blob(p) \in Ids
    BY <1>tree, CleanAssumption DEF TreeInv, Blob
  <2>2. TreeInv'
    BY <2>1, <2>b, <1>tree DEF TreeInv, Settled, Entry
  <2> QED
    BY <2>1, <2>2, <1>tree, ActsOnTouchedPaths DEF TreeInv
<1>3. ASSUME NEW p \in Paths, IntentToAdd(p) PROVE Inv'
  <2>1. /\ index' = [index EXCEPT ![p] = Entry(Empty)]
        /\ intent' = intent \cup {p} /\ UNCHANGED work /\ Acted({p})
    BY <1>3 DEF IntentToAdd
  <2>2. TreeInv'
    BY <2>1, <1>tree, <1>0 DEF TreeInv, Settled, Entry
  <2> QED
    BY <2>1, <2>2, <1>tree, ActsOnTouchedPaths DEF TreeInv
<1>4. ASSUME NEW p \in Paths, NEW base \in Sides(p), NEW theirs \in Sides(p),
             NEW merged \in Merged(p, theirs), StopMerge(p, base, theirs, merged)
      PROVE  Inv'
  <2>m. merged \in Ids
    BY <1>0, <1>tree DEF Merged, TreeInv
  <2> DEFINE side(stage, id) == IF id = Absent THEN {} ELSE {<<stage, id>>}
             sides == side(1, base) \cup side(2, head[p]) \cup side(3, theirs)
  <2>1. /\ index' = [index EXCEPT ![p] = sides]
        /\ work' = [work EXCEPT ![p] = merged] /\ UNCHANGED intent /\ Acted({p})
    BY <1>4 DEF StopMerge
  <2>2. (\A e \in sides : e[1] = 0) => sides = Entry(Absent)
    <3>1. \A id : side(1, id) = {} \/ (\E e \in side(1, id) : e[1] # 0)
      OBVIOUS
    <3>2. \A id : side(2, id) = {} \/ (\E e \in side(2, id) : e[1] # 0)
      OBVIOUS
    <3>3. \A id : side(3, id) = {} \/ (\E e \in side(3, id) : e[1] # 0)
      OBVIOUS
    <3> QED
      BY <3>1, <3>2, <3>3 DEF Entry
  <2> HIDE DEF sides
  <2>3. TreeInv'
    <3>1. work' \in [Paths -> Ids] /\ DOMAIN index' = Paths
      BY <2>1, <2>m, <1>tree DEF TreeInv
    <3>2. ASSUME NEW q \in Paths, Settled(q)' PROVE \E id \in Ids : index'[q] = Entry(id)
      <4>1. CASE q = p
        BY <4>1, <3>2, <2>1, <2>2, <1>tree, <1>0 DEF TreeInv, Settled
      <4>2. CASE q # p
        BY <4>2, <3>2, <2>1, <1>tree DEF TreeInv, Settled
      <4> QED
        BY <4>1, <4>2
    <3> QED
      BY <3>1, <3>2 DEF TreeInv, Entry
  <2> QED
    BY <2>1, <2>3, <1>tree, ActsOnTouchedPaths DEF TreeInv
<1>5. ASSUME NEW S, Acted(S), UNCHANGED <<index, intent, work>> PROVE Inv'
  <2>1. TreeInv'
    BY <1>5, <1>tree DEF TreeInv, Settled, Entry
  <2> QED
    BY <1>5, <2>1, ActsOnTouchedPaths
<1>6. ASSUME NEW place, NEW new, EditConfig(place, new) PROVE Inv'
  BY <1>5, <1>6 DEF EditConfig
<1>7. ASSUME Commit PROVE Inv'
  BY <1>5, <1>7 DEF Commit
<1> QED
  BY <1>1, <1>2, <1>3, <1>4, <1>6, <1>7 DEF UserActs
--------------------------------------------------------------------------------
(* The crawl.                                                                     *)

\* Steps of a working-directory crawl that only learn more about the files.
LEMMA Enumerating ==
    ASSUME Inv, NEW pass \in {"files", "packages"},
           ListTracked(pass) \/ ListDirty(pass) \/ HashDirty(pass)
    PROVE  Inv'
<1>0. UNCHANGED <<user, store, touched>>
  BY DEF ListTracked, ListDirty, HashDirty
<1>1. TreeInv' /\ RowInv'
  BY <1>0 DEF Inv, TreeInv, RowInv, Fits, Ordinary, Settled, Entry, user, store
<1>2. job # NoJob /\ DOMAIN job = JobFields /\ job.label \in Labels
      /\ job.mode \in {"commit", "working"}
  BY DEF Inv, JobInv, ListTracked, ListDirty, HashDirty, At
<1>at. /\ ListAt[pass] \in {"list_files", "list_packages"}
       /\ StatusAt[pass] \in {"status_files", "status_packages"}
       /\ HashAt[pass] \in {"hash_files", "hash_packages"}
       /\ pass = "files" <=> ListAt[pass] = "list_files"
       /\ pass = "files" <=> StatusAt[pass] = "status_files"
       /\ pass = "files" <=> HashAt[pass] = "hash_files"
  BY DEF ListAt, StatusAt, HashAt
<1>3. ASSUME NEW p \in Paths \ touched, LooksAtWork, job.pc # "lock"
      PROVE  /\ Ordinary(p) /\ Ordinary(p)' /\ work[p] \in Ids
             /\ \E id \in Ids : index[p] = Entry(id)
  BY <1>3, <1>0 DEF Inv, WatchInv, TreeInv, Ordinary, Settled, user
<1>4. CASE ListTracked(pass)
  <2>1. /\ job' = [job EXCEPT !.pc = StatusAt[pass], !.map = TrackedBlobIds]
        /\ job.pc = ListAt[pass]
    BY <1>4 DEF ListTracked, At
  <2>2. /\ DOMAIN job' = JobFields /\ job'.pc = StatusAt[pass] /\ job'.map = TrackedBlobIds
        /\ job'.mode = job.mode /\ job'.label = job.label /\ job'.files = job.files
        /\ job'.read = job.read /\ job'.hash = job.hash
    BY <2>1, <1>2 DEF JobFields
  <2>3. JobInv' /\ ReadInv'
    BY <2>1, <2>2, <1>2, <1>at, <1>0 DEF JobInv, ReadInv, Inv, Keys, JobFields
  <2>4. WatchInv'
    <3> SUFFICES ASSUME LooksAtWork', NEW p \in Paths \ touched
                 PROVE  /\ Ordinary(p)'
                        /\ job'.map[p] \in Ids /\ index[p] = Entry(job'.map[p])
                        /\ job'.pc \in Listed => job'.files[p] = Blob(p)
      BY <1>0, <2>2, <1>at DEF WatchInv, Blob, user, Entry
    <3>1. LooksAtWork /\ job.pc # "lock"
      BY <2>1, <2>2, <1>2, <1>at DEF LooksAtWork
    <3>2. TrackedBlobIds[p] \in Ids /\ index[p] = Entry(TrackedBlobIds[p])
      BY <3>1, <1>3, TrackedEntry
    <3>3. job'.pc \in Listed => job.pc \in Listed
      BY <2>1, <2>2, <1>at DEF Listed
    <3> QED
      BY <3>1, <3>2, <3>3, <1>3, <2>2 DEF Inv, WatchInv
  <2> QED
    BY <1>1, <2>3, <2>4 DEF Inv
<1>5. CASE ListDirty(pass)
  <2> DEFINE kept == [p \in Paths |-> IF p \in Deleted THEN Absent ELSE job.map[p]]
  <2>1. /\ job' = [job EXCEPT !.pc = HashAt[pass], !.hash = ToHash, !.map = kept]
        /\ job.pc = StatusAt[pass]
    BY <1>5 DEF ListDirty, At
  <2> HIDE DEF kept
  <2>2. /\ DOMAIN job' = JobFields /\ job'.pc = HashAt[pass] /\ job'.map = kept
        /\ job'.mode = job.mode /\ job'.label = job.label /\ job'.files = job.files
        /\ job'.read = job.read /\ job'.hash = ToHash
    BY <2>1, <1>2 DEF JobFields
  <2>3. JobInv' /\ ReadInv'
    BY <2>1, <2>2, <1>2, <1>at, <1>0 DEF JobInv, ReadInv, Inv, Keys, JobFields
  <2>4. WatchInv'
    <3> SUFFICES ASSUME LooksAtWork', NEW p \in Paths \ touched
                 PROVE  /\ Ordinary(p)'
                        /\ p \in job'.hash \/ job'.map[p] = Blob(p)
                        /\ job'.pc \in Listed => job'.files[p] = Blob(p)
      BY <1>0, <2>2, <1>at DEF WatchInv, Blob, user
    <3>1. LooksAtWork /\ job.pc # "lock"
      BY <2>1, <2>2, <1>2, <1>at DEF LooksAtWork
    <3>2. p \in ToHash \/ kept[p] = Blob(p)
      <4> SUFFICES ASSUME p \notin ToHash PROVE kept[p] = Blob(p)
        OBVIOUS
      <4>1. job.map[p] \in Ids /\ index[p] = Entry(job.map[p])
        BY <3>1, <2>1, <1>at DEF Inv, WatchInv
      <4>2. (p \in Deleted => Blob(p) = Absent) /\ (p \notin Deleted => Blob(p) = job.map[p])
        BY <4>1, <3>1, <1>3, LetterOfOrdinary
      <4> QED
        BY <4>2 DEF kept
    <3>3. job'.pc \in Listed => job.pc \in Listed
      BY <2>1, <2>2, <1>at DEF Listed
    <3> QED
      BY <3>1, <3>2, <3>3, <1>3, <2>2 DEF Inv, WatchInv
  <2> QED
    BY <1>1, <2>3, <2>4 DEF Inv
<1>6. CASE HashDirty(pass)
  <2> DEFINE hashed == [p \in Paths |-> IF p \in job.hash THEN Clean[p][ReadFile(p)] ELSE job.map[p]]
  <2>1. /\ job.pc = HashAt[pass]
        /\ pass = "files" =>
              job' = [job EXCEPT !.pc = "list_packages", !.files = hashed]
        /\ pass # "files" => job' = [job EXCEPT !.pc = "manifests", !.map = hashed]
    BY <1>6 DEF HashDirty, At
  <2>h. \A p \in Paths : hashed[p] = IF p \in job.hash THEN Clean[p][ReadFile(p)] ELSE job.map[p]
    OBVIOUS
  <2> HIDE DEF hashed
  <2>2. /\ DOMAIN job' = JobFields
        /\ job'.pc = IF pass = "files" THEN "list_packages" ELSE "manifests"
        /\ job'.files = IF pass = "files" THEN hashed ELSE job.files
        /\ pass # "files" => job'.map = hashed
        /\ job'.mode = job.mode /\ job'.label = job.label /\ job'.read = job.read
    BY <2>1, <1>2 DEF JobFields
  <2>3. JobInv'
    BY <2>2, <1>2 DEF JobInv
  <2>4. ReadInv'
    BY <2>1, <2>2, <1>2, <1>at, <1>0 DEF ReadInv, Inv
  <2>5. WatchInv'
    <3> SUFFICES ASSUME LooksAtWork', NEW p \in Paths \ touched
                 PROVE  /\ Ordinary(p)' /\ job'.files[p] = Blob(p)
                        /\ pass # "files" => job'.map[p] = Blob(p)
      BY <1>0, <2>2, <1>at DEF WatchInv, Blob, user, Entry
    <3>1. LooksAtWork /\ job.pc # "lock"
      BY <2>1, <2>2, <1>2, <1>at DEF LooksAtWork
    <3>h. Blob(p) = Clean[p][ReadFile(p)]
      BY <3>1, <1>3, OrdinaryIsRead
    <3>2. CASE pass = "files"
      BY <3>1, <3>2, <3>h, <2>1, <2>2, <2>h, <1>3, <1>at DEF Inv, WatchInv
    <3>3. CASE pass # "files"
      <4>1. job.pc \in Listed
        BY <3>3, <2>1, <1>at DEF Listed
      <4>2. p \in job.hash \/ job.map[p] = Blob(p)
        BY <3>1, <2>1, <1>at DEF Inv, WatchInv
      <4> QED
        BY <4>1, <4>2, <3>1, <3>3, <3>h, <2>2, <2>h, <1>3 DEF Inv, WatchInv
    <3> QED
      BY <3>2, <3>3
  <2> QED
    BY <1>1, <2>3, <2>4, <2>5 DEF Inv
<1> QED
  BY <1>4, <1>5, <1>6
\* A crawl that begins, ends early or takes its source.
LEMMA BeginningAndFailing ==
    ASSUME Inv,
           \/ \E l \in Labels, mode \in {"commit", "working"} : BeginCrawl(l, mode)
           \/ TakeSource
           \/ \E pass \in {"files", "packages"} : HashFails(pass)
    PROVE  Inv'
<1>1. ASSUME NEW l \in Labels, NEW mode \in {"commit", "working"}, BeginCrawl(l, mode)
      PROVE  Inv'
  <2>0. UNCHANGED <<user, store, touched>>
    BY <1>1 DEF BeginCrawl
  <2>1. TreeInv' /\ RowInv'
    BY <2>0 DEF Inv, TreeInv, RowInv, Fits, Ordinary, Settled, Entry, user, store
  <2>2. /\ DOMAIN job' = JobFields /\ job'.pc = "lock" /\ job'.label = l
        /\ job'.mode = mode /\ job'.read = <<>>
    BY <1>1 DEF BeginCrawl, JobFields
  <2>3. DOMAIN job'.read = {}
    BY <2>2
  <2> QED
    BY <2>1, <2>2, <2>3 DEF Inv, JobInv, WatchInv, ReadInv
<1>2. ASSUME TakeSource PROVE Inv'
  <2>1. /\ UNCHANGED <<user, rows, view, raced>> /\ job # NoJob /\ job.pc = "lock"
        /\ job' = [job EXCEPT !.pc = IF job.mode = "commit" THEN "tree" ELSE "list_files",
                              !.tree = head]
        /\ touched' = IF job.mode = "commit" THEN {} ELSE {p \in Paths : ~Ordinary(p)}
    BY <1>2 DEF TakeSource, At
  <2>2. TreeInv' /\ RowInv'
    BY <2>1 DEF Inv, TreeInv, RowInv, Fits, Ordinary, Settled, Entry, user
  <2>3. /\ DOMAIN job' = JobFields /\ job'.label = job.label /\ job'.mode = job.mode
        /\ job'.pc = IF job.mode = "commit" THEN "tree" ELSE "list_files"
        /\ job'.read = job.read
    BY <2>1 DEF Inv, JobInv, JobFields
  <2>4. JobInv' /\ ReadInv'
    BY <2>1, <2>3 DEF Inv, JobInv, ReadInv
  <2>5. WatchInv'
    <3> SUFFICES ASSUME LooksAtWork', NEW p \in Paths \ touched'
                 PROVE  Ordinary(p)' /\ job'.pc = "list_files"
      BY DEF WatchInv, Listed
    <3>1. job.mode = "working"
      BY <2>3 DEF LooksAtWork
    <3> QED
      BY <3>1, <2>1, <2>3 DEF Ordinary, Settled, Blob, user
  <2> QED
    BY <2>2, <2>4, <2>5 DEF Inv
<1>3. ASSUME NEW pass \in {"files", "packages"}, HashFails(pass) PROVE Inv'
  <2>1. UNCHANGED <<user, store, touched>> /\ job' = NoJob
    BY <1>3 DEF HashFails
  <2> QED
    BY <2>1 DEF Inv, TreeInv, JobInv, WatchInv, LooksAtWork, ReadInv, RowInv,
                Fits, Ordinary, Settled, Entry, user, store
<1> QED
  BY <1>1, <1>2, <1>3

\* The files of a commit are the commit's; the packages do not matter here.
LEMMA Listing ==
    ASSUME Inv, WalkCommit \/ ReadManifests
    PROVE  Inv'
<1>0. UNCHANGED <<user, store, touched>> /\ job # NoJob
  BY DEF WalkCommit, ReadManifests, At
<1>1. TreeInv' /\ RowInv'
  BY <1>0 DEF Inv, TreeInv, RowInv, Fits, Ordinary, Settled, Entry, user, store
<1>2. /\ DOMAIN job' = JobFields /\ job'.pc = "classify" /\ job'.label = job.label
      /\ job'.mode = job.mode /\ job'.read = job.read
      /\ job.mode = "working" => job.pc = "manifests" /\ job'.files = job.files
      /\ job.pc # "read"
  BY <1>0 DEF WalkCommit, ReadManifests, At, Inv, JobInv, JobFields
<1>3. JobInv' /\ ReadInv'
  BY <1>0, <1>2 DEF Inv, JobInv, ReadInv
<1>4. WatchInv'
  <2> SUFFICES ASSUME LooksAtWork', NEW p \in Paths \ touched
               PROVE  Ordinary(p)' /\ job'.files[p] = Blob(p)
    BY <1>0, <1>2 DEF WatchInv, Blob, user
  <2>1. LooksAtWork /\ job.pc = "manifests" /\ job.pc \in Listed /\ job.pc # "lock"
    BY <1>0, <1>2 DEF LooksAtWork, Listed
  <2>2. Ordinary(p) /\ job.files[p] = Blob(p)
    BY <2>1 DEF Inv, WatchInv
  <2>3. job'.files = job.files
    BY <2>1, <1>2 DEF LooksAtWork
  <2> QED
    BY <2>2, <2>3, <1>0 DEF Ordinary, Settled, Blob, user
<1> QED
  BY <1>1, <1>3, <1>4 DEF Inv

LEMMA ClassifyKeepsInv ==
    ASSUME Inv, Classify
    PROVE  Inv'
<1> DEFINE chosen == {p \in Sources : /\ job.files[p] # Absent
                                      /\ ShouldCrawl(job.config, job.order, p)}
           known == {p \in chosen : <<p, job.files[p]>> \in DOMAIN rows}
<1>0. /\ UNCHANGED <<user, rows, shown, raced, touched>> /\ job # NoJob /\ job.pc = "classify"
      /\ job' = [job EXCEPT !.pc = "read", !.known = known, !.todo = chosen \ known]
      /\ view' = [view EXCEPT ![job.label] = @ \cup Keys(known, job.files)]
  BY DEF Classify, At
<1>1. Keys(known, job.files) \subseteq DOMAIN rows
  BY DEF Keys
<1> HIDE DEF chosen, known
<1>2. TreeInv'
  BY <1>0 DEF Inv, TreeInv, Ordinary, Settled, Entry, user
<1>3. RowInv'
  BY <1>0, <1>1 DEF Inv, RowInv, Fits, JobInv
<1>4. /\ DOMAIN job' = JobFields /\ job'.pc = "read" /\ job'.label = job.label
      /\ job'.mode = job.mode /\ job'.read = job.read /\ job'.known = known
      /\ job'.files = job.files
  BY <1>0 DEF Inv, JobInv, JobFields
<1>5. JobInv' /\ ReadInv'
  BY <1>0, <1>1, <1>4 DEF Inv, JobInv, ReadInv
<1>6. WatchInv'
  <2> SUFFICES ASSUME LooksAtWork', NEW p \in Paths \ touched
               PROVE  Ordinary(p)' /\ job'.files[p] = Blob(p)
    BY <1>0, <1>4 DEF WatchInv, Blob, user
  <2>1. LooksAtWork /\ job.pc \in Listed /\ job.pc # "lock"
    BY <1>0, <1>4 DEF LooksAtWork, Listed
  <2> QED
    BY <2>1, <1>0, <1>4 DEF Inv, WatchInv, Ordinary, Settled, Blob, user
<1> QED
  BY <1>2, <1>3, <1>5, <1>6 DEF Inv

\* What is read of a path that git can answer for is what was hashed.
LEMMA ReadNewKeepsInv ==
    ASSUME Inv, NEW p \in Sources, ReadNew(p)
    PROVE  Inv'
<1> DEFINE content == IF job.mode = "commit" THEN job.files[p] ELSE ReadFile(p)
           row == [content |-> content, package |-> PackageName(job.packages, p),
                   strategy |-> GetStrategy(job.config, job.order, p)]
<1>0. /\ UNCHANGED <<user, store, touched>> /\ job # NoJob /\ job.pc = "read"
      /\ job' = [job EXCEPT !.todo = @ \ {p},
                            !.read = IF content \in {Absent, Empty} THEN @
                                     ELSE [q \in DOMAIN @ \cup {p} |->
                                              IF q = p THEN row ELSE @[q]]]
  BY DEF ReadNew, At
<1>1. row.content = content
  OBVIOUS
<1>2. Fits(p, content, job.files[p]) \/ p \in touched
  <2>1. CASE job.mode = "commit"
    BY <2>1 DEF Fits
  <2>2. CASE job.mode = "working" /\ p \notin touched
    <3>1. Ordinary(p) /\ job.files[p] = Blob(p) /\ p \in Paths /\ work[p] \in Ids
      BY <1>0, <2>2 DEF Inv, WatchInv, LooksAtWork, Listed, Paths, TreeInv
    <3>2. content = ReadFile(p)
      BY <2>2
    <3> HIDE DEF content, row
    <3> QED
      BY <3>1, <3>2, OrdinaryIsRead
  <2> QED
    BY <1>0, <2>1, <2>2 DEF Inv, JobInv
<1> HIDE DEF content, row
<1>3. /\ DOMAIN job' = JobFields /\ job'.pc = "read" /\ job'.label = job.label
      /\ job'.mode = job.mode /\ job'.known = job.known /\ job'.files = job.files
      /\ job'.read = IF content \in {Absent, Empty} THEN job.read
                     ELSE [q \in DOMAIN job.read \cup {p} |->
                              IF q = p THEN row ELSE job.read[q]]
  BY <1>0 DEF Inv, JobInv, JobFields
<1>4. TreeInv' /\ RowInv'
  BY <1>0 DEF Inv, TreeInv, RowInv, Fits, Ordinary, Settled, Entry, user, store
<1>5. \A q \in DOMAIN job'.read : Fits(q, job'.read[q].content, job.files[q]) \/ q \in touched
  <2>1. ASSUME NEW q \in DOMAIN job.read
        PROVE  Fits(q, job.read[q].content, job.files[q]) \/ q \in touched
    BY <1>0, <2>1 DEF Inv, ReadInv
  <2>2. CASE content \in {Absent, Empty}
    BY <2>1, <2>2, <1>3
  <2>3. CASE content \notin {Absent, Empty}
    BY <2>1, <2>3, <1>1, <1>2, <1>3
  <2> QED
    BY <2>2, <2>3
<1>6. JobInv' /\ ReadInv'
  BY <1>0, <1>3, <1>5 DEF Inv, JobInv, ReadInv, store, Keys
<1>7. WatchInv'
  BY <1>0, <1>3 DEF Inv, WatchInv, LooksAtWork, Listed, Ordinary, Settled, Blob, Entry, user
<1> QED
  BY <1>4, <1>6, <1>7 DEF Inv

\* Rows stored under the keys of the enumeration hold what these name, or are raced.
LEMMA UpsertLies ==
    ASSUME Inv, job # NoJob, NEW stored \in SUBSET DOMAIN job.read
    PROVE  /\ DOMAIN Upsert(stored) = DOMAIN rows \cup Keys(stored, job.files)
           /\ \A k \in DOMAIN Upsert(stored) :
                 \/ Fits(k[1], Upsert(stored)[k].content, k[2])
                 \/ k \in raced
                 \/ k \in Keys(stored, job.files) /\ k[1] \in touched
<1> DEFINE new == Keys(stored, job.files)
<1>1. \A k \in new : k[1] \in stored /\ k[2] = job.files[k[1]]
  BY DEF Keys
<1>2. \A k \in new : Fits(k[1], job.read[k[1]].content, k[2]) \/ k[1] \in touched
  BY <1>1 DEF Inv, ReadInv
<1>3. \A k \in DOMAIN rows : Fits(k[1], rows[k].content, k[2]) \/ k \in raced
  BY DEF Inv, RowInv, Fits
<1> HIDE DEF new
<1>4. Upsert(stored) = [k \in DOMAIN rows \cup new |->
                           IF k \in new THEN job.read[k[1]] ELSE rows[k]]
  BY DEF Upsert, new
<1>5. \A k \in DOMAIN Upsert(stored) :
         Fits(k[1], Upsert(stored)[k].content, k[2]) \/ k \in raced \/ (k \in new /\ k[1] \in touched)
  BY <1>2, <1>3, <1>4
<1> QED
  BY <1>4, <1>5 DEF new

LEMMA PublishKeepsInv ==
    ASSUME Inv, Publish
    PROVE  Inv'
<1> DEFINE l == job.label
           new == Keys(DOMAIN job.read, job.files)
<1>0. /\ UNCHANGED <<user, touched>> /\ job # NoJob /\ job.pc = "read" /\ job' = NoJob
      /\ view' = [view EXCEPT ![l] = Keys(job.known, job.files) \cup new]
      /\ rows' = Restrict(Upsert(DOMAIN job.read), Referenced(view'))
      /\ raced' = {k \in raced \cup {n \in new : n[1] \in touched} : k \in DOMAIN rows'}
  BY DEF Publish, At
<1>1. l \in Labels /\ DOMAIN view = Labels /\ \A m \in Labels : view[m] \subseteq DOMAIN rows
  BY <1>0 DEF Inv, JobInv, RowInv
<1>2. Keys(job.known, job.files) \subseteq DOMAIN rows
  BY <1>0 DEF Inv, ReadInv
<1>3. /\ DOMAIN Upsert(DOMAIN job.read) = DOMAIN rows \cup new
      /\ \A k \in DOMAIN Upsert(DOMAIN job.read) :
            \/ Fits(k[1], Upsert(DOMAIN job.read)[k].content, k[2])
            \/ k \in raced
            \/ k \in new /\ k[1] \in touched
  BY <1>0, UpsertLies
<1> HIDE DEF new, l
<1>4. DOMAIN view' = Labels /\ \A m \in Labels : view'[m] \subseteq DOMAIN rows \cup new
  BY <1>0, <1>1, <1>2
<1>5. /\ DOMAIN rows' = Referenced(view')
      /\ \A k \in DOMAIN rows' : rows'[k] = Upsert(DOMAIN job.read)[k]
  BY <1>0 DEF Restrict
<1>6. /\ Referenced(view') \subseteq DOMAIN rows \cup new
      /\ \A m \in Labels : view'[m] \subseteq Referenced(view')
  BY <1>4 DEF Referenced
<1>7. RowInv'
  BY <1>0, <1>3, <1>4, <1>5, <1>6 DEF RowInv, Fits
<1>8. TreeInv'
  BY <1>0 DEF Inv, TreeInv, Ordinary, Settled, Entry, user
<1> QED
  BY <1>0, <1>7, <1>8 DEF Inv, JobInv, WatchInv, LooksAtWork, ReadInv

LEMMA InterruptKeepsInv ==
    ASSUME Inv, job # NoJob, NEW stored \in SUBSET DOMAIN job.read, Interrupt(stored)
    PROVE  Inv'
<1> DEFINE new == Keys(stored, job.files)
<1>0. /\ UNCHANGED <<user, touched>> /\ job' = NoJob
      /\ rows' = Upsert(stored)
      /\ view' = [view EXCEPT ![job.label] = @ \cup new]
      /\ raced' = raced \cup {k \in new : k[1] \in touched}
  BY DEF Interrupt
<1>1. /\ DOMAIN rows' = DOMAIN rows \cup new
      /\ \A k \in DOMAIN rows' :
            Fits(k[1], rows'[k].content, k[2]) \/ k \in raced \/ (k \in new /\ k[1] \in touched)
  BY <1>0, UpsertLies
<1> HIDE DEF new
<1>2. RowInv'
  BY <1>0, <1>1 DEF Inv, JobInv, RowInv, Fits
<1>3. TreeInv'
  BY <1>0 DEF Inv, TreeInv, Ordinary, Settled, Entry, user
<1> QED
  BY <1>0, <1>2, <1>3 DEF Inv, JobInv, WatchInv, LooksAtWork, ReadInv

--------------------------------------------------------------------------------

LEMMA InitEstablishesInv == Init => Inv
<1> SUFFICES ASSUME Init PROVE Inv
  OBVIOUS
<1>1. PICK checkout \in Checkouts :
         /\ work = checkout.work
         /\ index = [p \in Paths |-> Entry(checkout.staged[p])]
  BY DEF Init
<1>2. checkout.work \in [Paths -> Ids] /\ checkout.staged \in [Paths -> Ids]
  BY CheckoutAssumption
<1>3. TreeInv
  BY <1>1, <1>2 DEF TreeInv
<1>4. RowInv
  <2>1. rows = <<>> /\ view = [l \in Labels |-> {}]
    BY DEF Init
  <2>2. DOMAIN rows = {}
    BY <2>1
  <2> QED
    BY <2>1, <2>2 DEF RowInv, Fits
<1> QED
  BY <1>3, <1>4 DEF Init, Inv, JobInv, WatchInv, LooksAtWork, ReadInv

LEMMA StepKeepsInv == Inv /\ [Next]_vars => Inv'
<1> SUFFICES ASSUME Inv, [Next]_vars PROVE Inv'
  OBVIOUS
<1>1. CASE UserActs
  BY <1>1, UserActsKeepInv
<1>2. CASE CrawlStep
  <2>1. ASSUME NEW stored \in SUBSET (IF job = NoJob THEN {} ELSE DOMAIN job.read),
               Interrupt(stored)
        PROVE  Inv'
    <3>1. job # NoJob /\ stored \in SUBSET DOMAIN job.read
      BY <2>1 DEF Interrupt
    <3> QED
      BY <2>1, <3>1, InterruptKeepsInv
  <2> QED
    BY <1>2, <2>1, BeginningAndFailing, Enumerating, Listing, ClassifyKeepsInv,
       ReadNewKeepsInv, PublishKeepsInv DEF CrawlStep
<1>3. CASE UNCHANGED vars
  BY <1>3 DEF vars, Inv, TreeInv, JobInv, WatchInv, LooksAtWork, ReadInv, RowInv,
              Fits, Ordinary, Settled, Blob, Entry, Keys
<1> QED
  BY <1>1, <1>2, <1>3 DEF Next

\* For any paths, contents, filters and configurations, and whatever the user does in
\* the middle of a crawl: a row holds the blob its id names or a file that git stores as
\* that blob, unless it was stored while git could not answer for its path, as it never
\* can for a symbolic link (build_working_tree_blob_map and the reading after it).
THEOREM RowsFitTheirBlobs == Spec => []RowsLieOnlyAfterRace
<1>1. Inv => RowsLieOnlyAfterRace
  BY DEF Inv, RowInv, Fits, RowsLieOnlyAfterRace
<1> QED
  BY InitEstablishesInv, StepKeepsInv, <1>1, PTL DEF Spec

--------------------------------------------------------------------------------
(* Sets of naturals.                                                              *)

\* A set of naturals that has an element has a least one.
LEMMA LeastNatural ==
    ASSUME NEW S \in SUBSET Nat, S # {}
    PROVE  Min(S) \in S /\ \A y \in S : Min(S) <= y
<1> DEFINE T == {0 .. m : m \in S}
<1>1. T # {} /\ T \subseteq FiniteSubsetsOf(Nat)
  <2>1. \A m \in Nat : IsFiniteSet(0 .. m)
    <3>1. \A m \in Nat : 0 \in Int /\ m \in Int
      OBVIOUS
    <3> QED
      BY <3>1, FS_Interval
  <2>2. \A m \in Nat : 0 .. m \in FiniteSubsetsOf(Nat)
    BY <2>1 DEF FiniteSubsetsOf
  <2> QED
    BY <2>2
<1>2. IsWellFoundedOn(StrictSubsetOrdering(Nat), FiniteSubsetsOf(Nat))
  BY FS_StrictSubsetOrderingWellFounded
<1>3. PICK x \in T : \A y \in T : ~ (<<y, x>> \in StrictSubsetOrdering(Nat))
  <2> HIDE DEF T
  <2> QED
    BY <1>1, <1>2, WFMin
<1>4. PICK m \in S : x = 0 .. m
  BY <1>3
<1>5. ASSUME NEW n \in S PROVE m <= n
  <2>1. 0 .. n \in T /\ n \in Nat /\ m \in Nat
    OBVIOUS
  <2>2. n < m => <<0 .. n, x>> \in StrictSubsetOrdering(Nat)
    BY <1>4, <2>1 DEF StrictSubsetOrdering
  <2>3. ~(n < m)
    BY <1>3, <2>1, <2>2
  <2> QED
    BY ONLY <2>1, <2>3
<1> QED
  BY <1>5 DEF Min

\* What holds of zero and passes to the next number holds of all.
LEMMA SetInduction ==
    ASSUME NEW A, 0 \in A, \A n \in Nat : n \in A => n + 1 \in A
    PROVE  Nat \subseteq A
<1> SUFFICES ASSUME Nat \ A # {} PROVE FALSE
  OBVIOUS
<1> DEFINE m == Min(Nat \ A)
<1>1. m \in Nat \ A /\ \A y \in Nat \ A : m <= y
  BY LeastNatural
<1> HIDE DEF m
<1>2. m # 0 /\ m - 1 \in Nat /\ (m - 1) + 1 = m /\ ~(m <= m - 1)
  BY <1>1
<1> QED
  BY <1>1, <1>2

--------------------------------------------------------------------------------
(* What the crawl configuration says of a path.                                   *)

LEMMA PrefixByItems ==
    ASSUME NEW s \in Seq(STRING), NEW t \in Seq(STRING)
    PROVE  IsPrefix(s, t) <=> Len(s) <= Len(t) /\ \A i \in 1 .. Len(s) : s[i] = t[i]
<1>1. CASE ~(Len(s) <= Len(t))
  BY <1>1 DEF IsPrefix
<1>2. CASE Len(s) <= Len(t)
  <2>1. /\ DOMAIN SubSeq(s, 1, Len(s)) = 1 .. Len(s) /\ DOMAIN SubSeq(t, 1, Len(s)) = 1 .. Len(s)
        /\ SubSeq(s, 1, Len(s)) \in Seq(STRING) /\ SubSeq(t, 1, Len(s)) \in Seq(STRING)
        /\ Len(SubSeq(s, 1, Len(s))) = Len(s) /\ Len(SubSeq(t, 1, Len(s))) = Len(s)
    BY <1>2
  <2>2. \A i \in 1 .. Len(s) : SubSeq(s, 1, Len(s))[i] = s[i] /\ SubSeq(t, 1, Len(s))[i] = t[i]
    BY <1>2
  <2>3. SubSeq(s, 1, Len(s)) = SubSeq(t, 1, Len(s))
           <=> \A i \in 1 .. Len(s) : SubSeq(s, 1, Len(s))[i] = SubSeq(t, 1, Len(s))[i]
    BY <2>1
  <2> QED
    BY <1>2, <2>2, <2>3 DEF IsPrefix
<1> QED
  BY <1>1, <1>2

LEMMA ReverseItems ==
    ASSUME NEW s \in Seq(STRING)
    PROVE  /\ Reverse(s) \in Seq(STRING) /\ Len(Reverse(s)) = Len(s)
           /\ \A i \in 1 .. Len(s) : Reverse(s)[i] = s[(Len(s) - i) + 1]
<1>1. Len(s) \in Nat /\ \A i \in 1 .. Len(s) : (Len(s) - i) + 1 \in 1 .. Len(s)
  OBVIOUS
<1>2. \A i \in 1 .. Len(s) : s[(Len(s) - i) + 1] \in STRING
  BY <1>1
<1> QED
  BY <1>1, <1>2 DEF Reverse

LEMMA SuffixByItems ==
    ASSUME NEW s \in Seq(STRING), NEW t \in Seq(STRING)
    PROVE  IsSuffix(s, t) <=>
               /\ Len(s) <= Len(t)
               /\ \A i \in 1 .. Len(s) : s[i] = t[(Len(t) - Len(s)) + i]
<1> DEFINE a == Len(s)
           b == Len(t)
<1>1. a \in Nat /\ b \in Nat
  OBVIOUS
<1>2. IsSuffix(s, t) <=> a <= b /\ \A i \in 1 .. a : Reverse(s)[i] = Reverse(t)[i]
  BY ReverseItems, PrefixByItems DEF IsSuffix
<1> HIDE DEF a, b
<1>3. ASSUME a <= b
      PROVE  (\A i \in 1 .. a : Reverse(s)[i] = Reverse(t)[i])
                <=> \A i \in 1 .. a : s[i] = t[(b - a) + i]
  <2>1. \A i \in 1 .. a : i \in 1 .. b /\ (a - i) + 1 \in 1 .. a
    BY <1>1, <1>3
  <2>2. \A i \in 1 .. a : Reverse(s)[i] = s[(a - i) + 1] /\ Reverse(t)[i] = t[(b - i) + 1]
    BY <2>1, ReverseItems DEF a, b
  <2>3. ASSUME \A i \in 1 .. a : s[(a - i) + 1] = t[(b - i) + 1], NEW i \in 1 .. a
        PROVE  s[i] = t[(b - a) + i]
    <3>1. (a - i) + 1 \in 1 .. a
      BY <2>1
    <3>2. (a - ((a - i) + 1)) + 1 = i /\ (b - ((a - i) + 1)) + 1 = (b - a) + i
      BY <1>1
    <3>3. s[(a - ((a - i) + 1)) + 1] = t[(b - ((a - i) + 1)) + 1]
      BY ONLY <2>3, <3>1
    <3> QED
      BY ONLY <3>2, <3>3
  <2>4. ASSUME \A i \in 1 .. a : s[i] = t[(b - a) + i], NEW i \in 1 .. a
        PROVE  s[(a - i) + 1] = t[(b - i) + 1]
    <3>1. (a - i) + 1 \in 1 .. a
      BY <2>1
    <3>2. (b - a) + ((a - i) + 1) = (b - i) + 1
      BY <1>1
    <3>3. s[(a - i) + 1] = t[(b - a) + ((a - i) + 1)]
      BY ONLY <2>4, <3>1
    <3> QED
      BY ONLY <3>2, <3>3
  <2> QED
    BY <2>2, <2>3, <2>4
<1> QED
  BY <1>2, <1>3 DEF a, b

\* A path starts with "dir/" or contains "/dir/" when a folder above it ends in dir.
LEMMA FolderPatterns ==
    ASSUME NEW p \in Paths, NEW dir \in Seq(STRING)
    PROVE  InFolder(dir, p) <=>
              \E n \in 0 .. Len(FolderOf[p]) : IsSuffix(dir, SubSeq(FolderOf[p], 1, n))
<1> DEFINE F == FolderOf[p]
           L == Len(F)
           d == Len(dir)
<1>1. F \in Seq(STRING) /\ L \in Nat /\ d \in Nat
  BY FolderAssumption, PathAssumption
<1> HIDE DEF F
<1>2. ASSUME NEW before \in 0 .. L
      PROVE  /\ SubSeq(F, before + 1, L) \in Seq(STRING)
             /\ Len(SubSeq(F, before + 1, L)) = L - before
             /\ \A i \in 1 .. (L - before) : SubSeq(F, before + 1, L)[i] = F[before + i]
  <2>1. /\ SubSeq(F, before + 1, L) \in Seq(STRING)
        /\ Len(SubSeq(F, before + 1, L)) = L - before
    BY <1>1
  <2>2. \A i \in 1 .. (L - before) : SubSeq(F, before + 1, L)[i] = F[((before + 1) + i) - 1]
    BY <1>1
  <2>3. \A i \in 1 .. (L - before) : ((before + 1) + i) - 1 = before + i
    OBVIOUS
  <2> QED
    BY <2>1, <2>2, <2>3
<1>3. ASSUME NEW n \in 0 .. L
      PROVE  /\ SubSeq(F, 1, n) \in Seq(STRING) /\ Len(SubSeq(F, 1, n)) = n
             /\ \A i \in 1 .. n : SubSeq(F, 1, n)[i] = F[i]
  BY <1>1
<1>4. ASSUME NEW before \in 0 .. L, IsPrefix(dir, SubSeq(F, before + 1, L))
      PROVE  \E n \in 0 .. L : IsSuffix(dir, SubSeq(F, 1, n))
  <2>1. d <= L - before /\ \A i \in 1 .. d : dir[i] = SubSeq(F, before + 1, L)[i]
    BY <1>2, <1>4, PrefixByItems
  <2>2. before + d \in 0 .. L /\ d <= before + d
    BY <1>1, <2>1
  <2>3. \A i \in 1 .. d : dir[i] = F[before + i]
    <3> SUFFICES ASSUME NEW i \in 1 .. d PROVE dir[i] = F[before + i]
      OBVIOUS
    <3>1. i \in 1 .. (L - before)
      BY <1>1, <2>1
    <3> QED
      BY <1>2, <2>1, <3>1
  <2>4. \A i \in 1 .. d : dir[i] = SubSeq(F, 1, before + d)[((before + d) - d) + i]
    <3> SUFFICES ASSUME NEW i \in 1 .. d PROVE dir[i] = SubSeq(F, 1, before + d)[((before + d) - d) + i]
      OBVIOUS
    <3>1. ((before + d) - d) + i = before + i /\ before + i \in 1 .. (before + d)
      BY <1>1
    <3> QED
      BY <1>3, <2>2, <2>3, <3>1
  <2>5. IsSuffix(dir, SubSeq(F, 1, before + d))
    BY <1>3, <2>2, <2>4, SuffixByItems
  <2> QED
    BY <2>2, <2>5
<1>5. ASSUME NEW n \in 0 .. L, IsSuffix(dir, SubSeq(F, 1, n))
      PROVE  \E before \in 0 .. L : IsPrefix(dir, SubSeq(F, before + 1, L))
  <2>1. d <= n /\ \A i \in 1 .. d : dir[i] = SubSeq(F, 1, n)[(n - d) + i]
    BY <1>3, <1>5, SuffixByItems
  <2>2. n - d \in 0 .. L /\ d <= L - (n - d)
    BY <1>1, <2>1
  <2>3. \A i \in 1 .. d : dir[i] = SubSeq(F, (n - d) + 1, L)[i]
    <3> SUFFICES ASSUME NEW i \in 1 .. d PROVE dir[i] = SubSeq(F, (n - d) + 1, L)[i]
      OBVIOUS
    <3>1. i \in 1 .. (L - (n - d)) /\ (n - d) + i \in 1 .. n
      BY <1>1, <2>1, <2>2
    <3> QED
      BY <1>2, <1>3, <2>1, <2>2, <3>1
  <2>4. IsPrefix(dir, SubSeq(F, (n - d) + 1, L))
    BY <1>2, <2>2, <2>3, PrefixByItems
  <2> QED
    BY <2>2, <2>4
<1> QED
  BY <1>4, <1>5 DEF InFolder, F

LEMMA PatternsCover ==
    ASSUME NEW p \in Paths, NEW patterns,
           \A q \in patterns : q[1] = "glob" \/ (q[1] = "folder" /\ q[2] \in Seq(STRING))
    PROVE  MatchesPatterns(patterns, p) <=> Covers(patterns, p)
<1>1. p \in GlobSet(patterns) <=> \E q \in patterns : q[1] = "glob" /\ p \in q[2]
  BY DEF GlobSet
<1>2. (\E dir \in Dirs(patterns) : InFolder(dir, p))
         <=> \E q \in patterns : q[1] = "folder" /\ InFolder(q[2], p)
  BY DEF Dirs
<1>3. \A q \in patterns : q[1] = "folder" =>
         (InFolder(q[2], p) <=> \E n \in 0 .. Len(FolderOf[p]) : IsSuffix(q[2], SubSeq(FolderOf[p], 1, n)))
  BY FolderPatterns
<1>4. \A q \in patterns : q[1] = "folder" <=> ~(q[1] = "glob")
  OBVIOUS
<1> QED
  BY <1>1, <1>2, <1>3, <1>4 DEF MatchesPatterns, Covers

\* Whatever the order the suffixes are tried in, a file gets one of the strategies that
\* its suffixes name, and none only if they name none.
LEMMA StrategyIsGiven ==
    ASSUME NEW p \in Paths, NEW c, IsConfig(c), ValidConfig(c), NEW order \in IterationOrders(c)
    PROVE  /\ GetStrategy(c, order, p) # "skip" => GetStrategy(c, order, p) \in StrategiesFor(c, p)
           /\ GetStrategy(c, order, p) = "skip" => StrategiesFor(c, p) = {}
<1> DEFINE S == DOMAIN c.fileTypes
           n == Cardinality(S)
           I == {i \in 1 .. Len(order) : order[i] \in SuffixesOf[p]}
<1>1. IsFiniteSet(S) /\ n \in Nat
  BY FS_CardinalityType DEF IsConfig
<1>2. order \in [1 .. n -> S] /\ \A i, j \in 1 .. n : i # j => order[i] # order[j]
  BY DEF IterationOrders, SetToSeqs
<1>3. Len(order) = n
  <2> HIDE DEF n, S
  <2> QED
    BY <1>1, <1>2
<1>4. \A suffix \in S : \E i \in 1 .. n : order[i] = suffix
  <2>1. order \in Injection(1 .. n, S)
    <3> HIDE DEF n, S
    <3> QED
      BY <1>2 DEF Injection, IsInjective
  <2>2. Cardinality(1 .. n) = n
    <3> HIDE DEF n
    <3> QED
      BY <1>1, FS_Interval
  <2>3. order \in Surjection(1 .. n, S)
    <3> HIDE DEF S
    <3> QED
      BY <1>1, <2>1, <2>2, FS_Injection
  <2> QED
    BY <2>3 DEF Surjection
<1>5. GetStrategy(c, order, p) =
         IF (IF I # {} THEN Min(I) ELSE 0) = 0 THEN "skip"
         ELSE c.fileTypes[order[IF I # {} THEN Min(I) ELSE 0]]
  BY DEF GetStrategy, SelectInSeq
<1> HIDE DEF n
<1>6. CASE I = {}
  <2>1. S \cap SuffixesOf[p] = {}
    BY <1>3, <1>4, <1>6
  <2>2. StrategiesFor(c, p) = {}
    BY <2>1 DEF StrategiesFor
  <2>3. GetStrategy(c, order, p) = "skip"
    BY <1>5, <1>6
  <2> QED
    BY <2>2, <2>3
<1>7. CASE I # {}
  <2>1. I \in SUBSET Nat
    BY <1>1, <1>3
  <2>2. Min(I) \in I
    <3> HIDE DEF I
    <3> QED
      BY <1>7, <2>1, LeastNatural
  <2>3. Min(I) \in 1 .. n /\ order[Min(I)] \in SuffixesOf[p] /\ Min(I) # 0
    BY <1>1, <1>3, <2>2
  <2>4. order[Min(I)] \in S
    BY <1>2, <2>3
  <2>5. c.fileTypes[order[Min(I)]] \in StrategiesFor(c, p)
    BY <2>3, <2>4 DEF StrategiesFor
  <2>6. c.fileTypes[order[Min(I)]] \in ValidStrategies
    BY <2>4 DEF ValidConfig
  <2>7. GetStrategy(c, order, p) = c.fileTypes[order[Min(I)]]
    <3> HIDE DEF I
    <3> QED
      BY <1>5, <1>7, <2>3
  <2> QED
    BY <2>5, <2>6, <2>7 DEF ValidStrategies
<1> QED
  BY <1>6, <1>7

\* The filter lets through what the rule of README.md does.
LEMMA FilterFollowsRule ==
    ASSUME NEW p \in Sources, NEW c, IsConfig(c), ValidConfig(c), NEW order \in IterationOrders(c)
    PROVE  ShouldCrawl(c, order, p) <=> p \in LetThrough(c)
<1>1. p \in Paths
  BY DEF Paths
<1>2. /\ MatchesPatterns(c.keep, p) <=> Covers(c.keep, p)
      /\ MatchesPatterns(c.exclude, p) <=> Covers(c.exclude, p)
  BY <1>1, PatternsCover DEF IsConfig
<1>3. GetStrategy(c, order, p) # "skip" <=> StrategiesFor(c, p) # {}
  BY <1>1, StrategyIsGiven
<1> QED
  BY <1>2, <1>3 DEF ShouldCrawl, LetThrough

--------------------------------------------------------------------------------
(* What a label shows.                                                            *)

\* The packages of undisturbed contents are those of the tree they come from.
LEMMA SamePackages ==
    ASSUME NEW listed, NEW contents, NEW tree,
           \A m \in Manifests : /\ listed[m] = Absent <=> tree[m] = Absent
                                /\ contents[m] = tree[m]
    PROVE  PackageIndex(listed, contents) = PackageIndex(tree, tree)
<1> DEFINE named == {m \in Manifests : tree[m] # Absent /\ tree[m] \notin {Absent, Empty}}
<1>1. {m \in Manifests : listed[m] # Absent /\ contents[m] \notin {Absent, Empty}} = named
  OBVIOUS
<1> HIDE DEF named
<1>2. \A dir \in {FolderOf[m] : m \in named} : (CHOOSE m \in named : FolderOf[m] = dir) \in named
  OBVIOUS
<1>3. named \subseteq Manifests
  BY DEF named
<1>4. \A dir \in {FolderOf[m] : m \in named} :
         contents[CHOOSE m \in named : FolderOf[m] = dir] = tree[CHOOSE m \in named : FolderOf[m] = dir]
  BY <1>2, <1>3
<1>5. PackageIndex(listed, contents)
         = [dir \in {FolderOf[m] : m \in named} |-> contents[CHOOSE m \in named : FolderOf[m] = dir]]
  BY <1>1 DEF PackageIndex
<1>6. PackageIndex(tree, tree)
         = [dir \in {FolderOf[m] : m \in named} |-> tree[CHOOSE m \in named : FolderOf[m] = dir]]
  BY DEF PackageIndex, named
<1> QED
  BY <1>4, <1>5, <1>6

\* An act of the user that disturbs a crawl of the working tree is noticed.
LEMMA ActsKeepList ==
    ASSUME Inv, Inv', ListInv, NEW S, Acted(S), ConfigInv',
           \A p \in Paths \ S : work'[p] = work[p]
    PROVE  ListInv'
<1>1. UNCHANGED <<job, rows, view, shown, raced>>
      /\ touched' = IF LooksAtWork THEN touched \cup S ELSE touched
  BY DEF Acted
<1>2. ShownInv'
  BY <1>1 DEF ListInv, ShownInv, Lists, SourceKeys, Keys, Crawlable
<1>3. ChosenInv'
  <2> SUFFICES ASSUME job # NoJob, job.pc # "lock" PROVE ChosenInv'
    BY <1>1 DEF ChosenInv
  <2>1. job.mode = "commit" => touched' = touched
    BY <1>1 DEF LooksAtWork
  <2>2. ASSUME touched' \cap Manifests = {}
        PROVE  /\ touched \cap Manifests = {}
               /\ PackageIndex(Texts', Texts') = PackageIndex(Texts, Texts)
    <3>1. touched \cap Manifests = {}
      BY <1>1, <2>2
    <3>2. CASE job.mode = "commit"
      BY <1>1, <3>1, <3>2 DEF Texts, Files
    <3>3. CASE job.mode = "working"
      <4> SUFFICES ASSUME NEW m \in Manifests PROVE Texts'[m] = Texts[m]
        BY <3>1, SamePackages
      <4>1. m \in Paths \ touched /\ m \in Paths \ S /\ LooksAtWork
        BY <1>1, <2>2, <3>3 DEF LooksAtWork, Paths
      <4>2. Ordinary(m) /\ work'[m] = work[m]
        BY <4>1 DEF Inv, WatchInv
      <4>3. ReadFile(m) = work[m] /\ ReadFile(m)' = work[m]
        BY <4>2 DEF Ordinary, ReadFile
      <4> QED
        BY <1>1, <3>3, <4>1, <4>3 DEF Texts, TextsOnDisk
    <3> QED
      BY <3>1, <3>2, <3>3 DEF Inv, JobInv
  <2>3. touched \subseteq touched'
    BY <1>1
  <2>4. Chosen' = Chosen
    BY <1>1 DEF Chosen
  <2>5. /\ shown[job.label] = Nothing
        /\ job.mode = "commit" =>
              /\ touched = {}
              /\ job.pc \in {"tree", "classify", "read"}
              /\ job.pc # "tree" => job.files = Files(job.tree)
        /\ job.pc \in {"classify", "read"} /\ touched \cap Manifests = {} =>
              job.packages = PackageIndex(Texts, Texts)
        /\ job.pc = "read" =>
              /\ job.known \cup job.todo \cup DOMAIN job.read \subseteq Chosen
              /\ \A p \in Chosen : \/ p \in job.known \cup job.todo \cup DOMAIN job.read
                                   \/ p \in touched \/ job.files[p] = Empty
              /\ \A p \in DOMAIN job.read :
                    /\ job.read[p].content # Empty
                    /\ job.read[p].package = PackageName(job.packages, p)
                    /\ job.read[p].strategy = GetStrategy(job.config, job.order, p)
    BY DEF ListInv, ChosenInv
  <2>6. touched' \cap Manifests = {} => PackageIndex(Texts, Texts)' = PackageIndex(Texts, Texts)
    BY <2>2 DEF PackageIndex
  <2>7. \A p : PackageName(job.packages, p)' = PackageName(job.packages, p)
    BY <1>1
  <2> QED
    BY <1>1, <2>1, <2>2, <2>3, <2>4, <2>5, <2>6, <2>7 DEF ChosenInv
<1> QED
  BY <1>2, <1>3 DEF ListInv

LEMMA UserActsKeepList ==
    ASSUME Inv, Inv', ListInv, UserActs
    PROVE  ListInv'
<1>0. job' = job
  BY DEF UserActs, Edit, Add, IntentToAdd, StopMerge, EditConfig, Commit, Acted
<1>1. ASSUME NEW S, Acted(S), config' = config, \A p \in Paths \ S : work'[p] = work[p]
      PROVE  ListInv'
  <2>1. ConfigInv'
    BY <1>0, <1>1 DEF ListInv, ConfigInv
  <2> QED
    BY <1>1, <2>1, ActsKeepList
<1>2. DOMAIN work = Paths
  BY DEF Inv, TreeInv
<1>3. ASSUME NEW p \in Paths, NEW content, Edit(p, content) PROVE ListInv'
  <2>1. work' = [work EXCEPT ![p] = content] /\ Acted({p}) /\ config' = config
    BY <1>3 DEF Edit
  <2>2. \A q \in Paths \ {p} : work'[q] = work[q]
    BY <1>2, <2>1
  <2> QED
    BY <1>1, <2>1, <2>2
<1>4. ASSUME NEW p \in Paths, Add(p) \/ IntentToAdd(p) PROVE ListInv'
  <2>1. work' = work /\ Acted({p}) /\ config' = config
    BY <1>4 DEF Add, IntentToAdd
  <2> QED
    BY <1>1, <2>1
<1>5. ASSUME NEW p \in Paths, NEW base, NEW theirs, NEW merged, StopMerge(p, base, theirs, merged)
      PROVE  ListInv'
  <2>1. work' = [work EXCEPT ![p] = merged] /\ Acted({p}) /\ config' = config
    BY <1>5 DEF StopMerge
  <2>2. \A q \in Paths \ {p} : work'[q] = work[q]
    BY <1>2, <2>1
  <2> QED
    BY <1>1, <2>1, <2>2
<1>6. ASSUME NEW place \in {"repository", "user"}, NEW new \in LocalConfigs \cup GlobalConfigs,
             EditConfig(place, new)
      PROVE  ListInv'
  <2>1. config' = [config EXCEPT ![place] = new] /\ Acted({}) /\ work' = work
    BY <1>6 DEF EditConfig
  <2>2. new # Missing => IsConfig(new)
    BY ConfigAssumption
  <2>3. ConfigInv'
    BY <1>0, <2>1, <2>2 DEF ListInv, ConfigInv
  <2> QED
    BY <2>1, <2>3, ActsKeepList
<1>7. ASSUME Commit PROVE ListInv'
  BY <1>1, <1>7 DEF Commit
<1> QED
  BY <1>3, <1>4, <1>5, <1>6, <1>7 DEF UserActs

\* A crawl that begins, ends early or takes its source.
LEMMA BeginningKeepsList ==
    ASSUME Inv, ListInv,
           \/ \E l \in Labels, mode \in {"commit", "working"} : BeginCrawl(l, mode)
           \/ TakeSource
           \/ \E pass \in {"files", "packages"} : HashFails(pass)
    PROVE  ListInv'
<1>1. ASSUME NEW l \in Labels, NEW mode \in {"commit", "working"}, BeginCrawl(l, mode)
      PROVE  ListInv'
  <2> DEFINE loaded == LoadCrawlConfig(config["repository"], config["user"])
  <2>1. /\ UNCHANGED <<user, store>> /\ ValidConfig(loaded) /\ job'.pc = "lock"
        /\ job'.config = loaded /\ job'.order \in IterationOrders(loaded)
    <3>1. UNCHANGED <<user, store>> /\ ValidConfig(loaded)
      BY <1>1 DEF BeginCrawl
    <3>2. PICK order \in IterationOrders(loaded) :
              job' = [pc |-> "lock", label |-> l, mode |-> mode, config |-> loaded,
                      order |-> order, tree |-> NoTree, map |-> NoTree, hash |-> {},
                      files |-> NoTree, packages |-> <<>>, known |-> {}, todo |-> {},
                      read |-> <<>>]
      BY <1>1 DEF BeginCrawl
    <3> HIDE DEF loaded
    <3> QED
      BY <3>1, <3>2
  <2>2. IsConfig(loaded)
    BY ConfigAssumption DEF ListInv, ConfigInv, LoadCrawlConfig
  <2> HIDE DEF loaded
  <2>3. ConfigInv'
    BY <2>1, <2>2 DEF ListInv, ConfigInv, user
  <2>4. ChosenInv' /\ ShownInv'
    BY <2>1 DEF ListInv, ChosenInv, ShownInv, Lists, SourceKeys, Keys, Crawlable, store
  <2> QED
    BY <2>3, <2>4 DEF ListInv
<1>2. ASSUME TakeSource PROVE ListInv'
  <2>1. /\ UNCHANGED <<user, rows, view, raced>> /\ job # NoJob /\ job.pc = "lock"
        /\ job' = [job EXCEPT !.pc = IF job.mode = "commit" THEN "tree" ELSE "list_files",
                              !.tree = head]
        /\ touched' = IF job.mode = "commit" THEN {} ELSE {p \in Paths : ~Ordinary(p)}
        /\ shown' = [shown EXCEPT ![job.label] = Nothing]
    BY <1>2 DEF TakeSource, At
  <2>2. /\ job'.label = job.label /\ job'.mode = job.mode
        /\ job'.pc = IF job.mode = "commit" THEN "tree" ELSE "list_files"
        /\ job'.config = job.config /\ job'.order = job.order
        /\ job.label \in Labels
    BY <2>1 DEF Inv, JobInv, JobFields
  <2>3. ConfigInv'
    BY <2>1, <2>2 DEF ListInv, ConfigInv, user
  <2>4. /\ DOMAIN shown' = Labels /\ shown'[job.label] = Nothing
        /\ \A l \in Labels : shown'[l] # Nothing => shown'[l] = shown[l]
    BY <2>1, <2>2 DEF ListInv, ShownInv
  <2>5. ChosenInv'
    BY <2>1, <2>2, <2>4 DEF ChosenInv
  <2>6. ShownInv'
    BY <2>1, <2>4 DEF ListInv, ShownInv, Lists, SourceKeys, Keys, Crawlable
  <2> QED
    BY <2>3, <2>5, <2>6 DEF ListInv
<1>3. ASSUME NEW pass \in {"files", "packages"}, HashFails(pass) PROVE ListInv'
  <2>1. UNCHANGED <<user, store>> /\ job' = NoJob
    BY <1>3 DEF HashFails
  <2> QED
    BY <2>1 DEF ListInv, ConfigInv, ChosenInv, ShownInv, Lists, SourceKeys, Keys, Crawlable, user, store
<1> QED
  BY <1>1, <1>2, <1>3

\* The steps that enumerate files and packages.
LEMMA EnumeratingKeepsList ==
    ASSUME Inv, ListInv,
           \/ \E pass \in {"files", "packages"} : ListTracked(pass) \/ ListDirty(pass) \/ HashDirty(pass)
           \/ WalkCommit \/ ReadManifests
    PROVE  ListInv'
<1>1. UNCHANGED <<user, store, touched>> /\ job # NoJob
  BY DEF ListTracked, ListDirty, HashDirty, WalkCommit, ReadManifests, At
<1>2. /\ DOMAIN job = JobFields /\ job.label \in Labels /\ job.mode \in {"commit", "working"}
      /\ job.pc = "tree" => job.mode = "commit"
  BY <1>1 DEF Inv, JobInv
<1> DEFINE Same == /\ job'.label = job.label /\ job'.mode = job.mode /\ job'.config = job.config
                   /\ job'.order = job.order /\ job'.tree = job.tree
<1>git. ASSUME NEW pass \in {"files", "packages"},
               ListTracked(pass) \/ ListDirty(pass) \/ HashDirty(pass)
        PROVE  /\ Same
               /\ job.pc \notin {"lock", "tree", "classify", "read"}
               /\ job'.pc \notin {"lock", "tree", "classify", "read"}
  <2>1. /\ ListAt[pass] \in {"list_files", "list_packages"}
        /\ StatusAt[pass] \in {"status_files", "status_packages"}
        /\ HashAt[pass] \in {"hash_files", "hash_packages"}
    BY DEF ListAt, StatusAt, HashAt
  <2>2. CASE ListTracked(pass)
    <3>1. job.pc = ListAt[pass] /\ job'.pc = StatusAt[pass] /\ Same
      BY <1>1, <1>2, <2>2 DEF ListTracked, At, JobFields
    <3> QED
      BY <2>1, <3>1
  <2>3. CASE ListDirty(pass)
    <3>1. job.pc = StatusAt[pass] /\ job'.pc = HashAt[pass] /\ Same
      BY <1>1, <1>2, <2>3 DEF ListDirty, At, JobFields
    <3> QED
      BY <2>1, <3>1
  <2>4. CASE HashDirty(pass)
    <3>1. job.pc = HashAt[pass] /\ job'.pc \in {"list_packages", "manifests"} /\ Same
      BY <1>1, <1>2, <2>4 DEF HashDirty, At, JobFields
    <3> QED
      BY <2>1, <3>1
  <2> QED
    BY <1>git, <2>2, <2>3, <2>4
<1>3. Same /\ job.pc # "lock" /\ job'.pc # "read"
  <2>1. CASE WalkCommit
    BY <1>1, <1>2, <2>1 DEF WalkCommit, At, JobFields
  <2>2. CASE ReadManifests
    BY <1>1, <1>2, <2>2 DEF ReadManifests, At, JobFields
  <2> HIDE DEF Same
  <2> QED
    BY <1>git, <2>1, <2>2
<1>4. ConfigInv' /\ ShownInv'
  BY <1>1, <1>3 DEF ListInv, ConfigInv, ShownInv, Lists, SourceKeys, Keys, Crawlable, user, store
<1>5. /\ shown'[job'.label] = Nothing
      /\ job.mode = "commit" => touched' = {} /\ job.pc \in {"tree", "classify", "read"}
  BY <1>1, <1>3 DEF ListInv, ChosenInv, store
<1>6. CASE WalkCommit
  <2>1. job.pc = "tree" /\ job.mode = "commit" /\ job'.pc = "classify" /\ job'.files = Files(job.tree)
        /\ job'.packages = PackageIndex(Files(job.tree), Files(job.tree))
    BY <1>1, <1>2, <1>6 DEF WalkCommit, At, JobFields
  <2>2. job'.packages = PackageIndex(Texts', Texts')
    BY <1>3, <2>1 DEF Texts, Files
  <2>3. /\ job'.mode = "commit" /\ job'.files = Files(job'.tree)
        /\ job'.pc = "classify" /\ job'.pc # "read"
    BY <1>3, <2>1
  <2>4. ChosenInv'
    BY <1>5, <2>1, <2>2, <2>3 DEF ChosenInv, PackageIndex, Files
  <2> QED
    BY <1>4, <2>4 DEF ListInv
<1>7. CASE ReadManifests
  <2>1. /\ job.pc = "manifests" /\ job'.pc = "classify"
        /\ job'.packages = PackageIndex(job.map, TextsOnDisk)
    BY <1>1, <1>2, <1>7 DEF ReadManifests, At, JobFields
  <2>2. job.mode = "working"
    BY <1>2, <1>5, <2>1
  <2>3. touched \cap Manifests = {} => job'.packages = PackageIndex(TextsOnDisk, TextsOnDisk)
    <3> SUFFICES ASSUME touched \cap Manifests = {}, NEW m \in Manifests
                 PROVE  job.map[m] = Absent <=> TextsOnDisk[m] = Absent
      BY <2>1, SamePackages
    <3>1. m \in Paths \ touched
      BY DEF Paths
    <3>2. job.map[m] = Blob(m) /\ Ordinary(m) /\ work[m] \in Ids
      BY <1>1, <2>1, <2>2, <3>1 DEF Inv, WatchInv, LooksAtWork, TreeInv
    <3> QED
      BY <3>1, <3>2, OrdinaryIsRead DEF TextsOnDisk
  <2>4. touched' \cap Manifests = {} => job'.packages = PackageIndex(Texts', Texts')
    BY <1>1, <1>3, <2>2, <2>3 DEF Texts, TextsOnDisk, ReadFile, user
  <2>5. ChosenInv'
    BY <1>3, <1>5, <2>1, <2>2, <2>4 DEF ChosenInv, PackageIndex
  <2> QED
    BY <1>4, <2>5 DEF ListInv
<1>8. CASE \E pass \in {"files", "packages"} : ListTracked(pass) \/ ListDirty(pass) \/ HashDirty(pass)
  <2>1. /\ job.pc \notin {"tree", "classify", "read"}
        /\ job'.pc \notin {"classify", "read"}
    BY <1>8, <1>git
  <2>2. job'.mode # "commit"
    BY <1>3, <1>5, <2>1
  <2>3. ChosenInv'
    BY <1>3, <1>5, <2>1, <2>2 DEF ChosenInv
  <2> QED
    BY <1>4, <2>3 DEF ListInv
<1> QED
  BY <1>6, <1>7, <1>8

LEMMA ClassifyKeepsList ==
    ASSUME Inv, ListInv, Classify
    PROVE  ListInv'
<1> DEFINE chosen == {p \in Sources : /\ job.files[p] # Absent
                                      /\ ShouldCrawl(job.config, job.order, p)}
           known == {p \in chosen : <<p, job.files[p]>> \in DOMAIN rows}
<1>1. /\ UNCHANGED <<user, rows, shown, raced, touched>> /\ job # NoJob /\ job.pc = "classify"
      /\ job' = [job EXCEPT !.pc = "read", !.known = known, !.todo = chosen \ known]
      /\ view' = [view EXCEPT ![job.label] = @ \cup Keys(known, job.files)]
  BY DEF Classify, At
<1>2. chosen = Chosen
  BY <1>1, FilterFollowsRule DEF Chosen, ListInv, ConfigInv
<1>3. known \subseteq chosen
  OBVIOUS
<1> HIDE DEF chosen, known
<1>4. /\ job'.label = job.label /\ job'.mode = job.mode /\ job'.config = job.config
      /\ job'.order = job.order /\ job'.tree = job.tree /\ job'.files = job.files
      /\ job'.packages = job.packages /\ job'.read = job.read
      /\ job'.known = known /\ job'.todo = chosen \ known /\ job'.pc = "read"
      /\ job.label \in Labels /\ DOMAIN job.read = {}
  BY <1>1 DEF Inv, JobInv, ReadInv, JobFields
<1>5. ConfigInv'
  BY <1>1, <1>4 DEF ListInv, ConfigInv, user
<1>6. shown[job.label] = Nothing
  BY <1>1 DEF ListInv, ChosenInv
<1>7. ShownInv'
  <2>1. DOMAIN view = Labels
    BY DEF Inv, RowInv
  <2>2. \A l \in Labels : shown[l] # Nothing => view'[l] = view[l]
    BY <1>1, <1>4, <1>6, <2>1
  <2>3. /\ DOMAIN shown' = Labels /\ \A k \in DOMAIN rows' : rows'[k].content # Empty
        /\ \A l \in Labels : shown'[l] # Nothing =>
              /\ \A k \in SourceKeys(shown'[l]) : k \in view'[l] \/ k[1] \in shown'[l].unsure
              /\ \A k \in view'[l] :
                    k \in SourceKeys(shown'[l]) \/ k \in raced' \/ k[1] \in shown'[l].unsure
    BY <1>1, <2>2 DEF ListInv, ShownInv, Lists
  <2> QED
    BY <2>3 DEF ShownInv, Lists, SourceKeys, Keys, Crawlable
<1>8. ChosenInv'
  <2>1. Chosen' = Chosen
    BY <1>4 DEF Chosen
  <2>2. Texts' = Texts
    BY <1>1, <1>4 DEF Texts, Files, TextsOnDisk, ReadFile, user
  <2>3. /\ job.mode = "commit" => touched = {} /\ job.files = Files(job.tree)
        /\ touched \cap Manifests = {} => job.packages = PackageIndex(Texts, Texts)
    BY <1>1 DEF ListInv, ChosenInv
  <2>4. /\ job'.known \cup job'.todo \cup DOMAIN job'.read \subseteq Chosen
        /\ \A p \in Chosen : p \in job'.known \cup job'.todo
        /\ \A p \in DOMAIN job'.read : FALSE
    BY <1>2, <1>3, <1>4
  <2>5. PackageIndex(Texts, Texts)' = PackageIndex(Texts, Texts)
    BY <2>2 DEF PackageIndex
  <2> QED
    BY <1>1, <1>4, <1>6, <2>1, <2>3, <2>4, <2>5 DEF ChosenInv, Files
<1> QED
  BY <1>5, <1>7, <1>8 DEF ListInv

LEMMA ReadNewKeepsList ==
    ASSUME Inv, ListInv, NEW p \in Sources, ReadNew(p)
    PROVE  ListInv'
<1> DEFINE content == IF job.mode = "commit" THEN job.files[p] ELSE ReadFile(p)
           row == [content |-> content, package |-> PackageName(job.packages, p),
                   strategy |-> GetStrategy(job.config, job.order, p)]
<1>1. /\ UNCHANGED <<user, store, touched>> /\ job # NoJob /\ job.pc = "read" /\ p \in job.todo
      /\ job' = [job EXCEPT !.todo = @ \ {p},
                            !.read = IF content \in {Absent, Empty} THEN @
                                     ELSE [q \in DOMAIN @ \cup {p} |->
                                              IF q = p THEN row ELSE @[q]]]
  BY DEF ReadNew, At
<1>2. /\ row.content = content /\ row.package = PackageName(job.packages, p)
      /\ row.strategy = GetStrategy(job.config, job.order, p)
  OBVIOUS
<1>3. \/ p \in touched
      \/ /\ content = Absent => job.files[p] = Absent
         /\ content = Empty => job.files[p] = Empty
  <2>1. CASE job.mode = "commit"
    BY <2>1
  <2>2. CASE job.mode = "working" /\ p \notin touched
    <3>1. Ordinary(p) /\ job.files[p] = Blob(p) /\ p \in Paths /\ work[p] \in Ids
      BY <1>1, <2>2 DEF Inv, WatchInv, LooksAtWork, Listed, Paths, TreeInv
    <3>2. content = ReadFile(p)
      BY <2>2
    <3> HIDE DEF content, row
    <3> QED
      BY <3>1, <3>2, OrdinaryIsRead
  <2> QED
    BY <1>1, <2>1, <2>2 DEF Inv, JobInv
<1> HIDE DEF content, row
<1>4. /\ job'.label = job.label /\ job'.mode = job.mode /\ job'.config = job.config
      /\ job'.order = job.order /\ job'.tree = job.tree /\ job'.files = job.files
      /\ job'.packages = job.packages /\ job'.known = job.known
      /\ job'.todo = job.todo \ {p} /\ job'.pc = "read"
      /\ job'.read = IF content \in {Absent, Empty} THEN job.read
                     ELSE [q \in DOMAIN job.read \cup {p} |->
                              IF q = p THEN row ELSE job.read[q]]
  BY <1>1 DEF Inv, JobInv, JobFields
<1>5. ConfigInv' /\ ShownInv'
  BY <1>1, <1>4 DEF ListInv, ConfigInv, ShownInv, Lists, SourceKeys, Keys, Crawlable, user, store
<1>6. /\ shown[job.label] = Nothing
      /\ job.mode = "commit" => touched = {} /\ job.files = Files(job.tree)
      /\ touched \cap Manifests = {} => job.packages = PackageIndex(Texts, Texts)
      /\ job.known \cup job.todo \cup DOMAIN job.read \subseteq Chosen
      /\ \A q \in Chosen : \/ q \in job.known \cup job.todo \cup DOMAIN job.read
                           \/ q \in touched \/ job.files[q] = Empty
      /\ \A q \in DOMAIN job.read :
            /\ job.read[q].content # Empty
            /\ job.read[q].package = PackageName(job.packages, q)
            /\ job.read[q].strategy = GetStrategy(job.config, job.order, q)
  BY <1>1 DEF ListInv, ChosenInv
<1>7. Chosen' = Chosen
  BY <1>4 DEF Chosen
<1>8. PackageIndex(Texts, Texts)' = PackageIndex(Texts, Texts)
  <2>1. Texts' = Texts
    BY <1>1, <1>4 DEF Texts, Files, TextsOnDisk, ReadFile, user
  <2> QED
    BY <2>1 DEF PackageIndex
<1>9. job'.known \cup job'.todo \cup DOMAIN job'.read \subseteq Chosen
  BY <1>1, <1>4, <1>6
<1>10. ASSUME NEW q \in Chosen
       PROVE  \/ q \in job'.known \cup job'.todo \cup DOMAIN job'.read
              \/ q \in touched \/ job.files[q] = Empty
  <2>1. CASE q = p
    <3>1. content \in {Absent, Empty} => p \in touched \/ job.files[p] = Empty
      BY <1>3, <1>10, <2>1 DEF Chosen
    <3>2. content \notin {Absent, Empty} => p \in DOMAIN job'.read
      BY <1>4
    <3> QED
      BY <2>1, <3>1, <3>2
  <2>2. CASE q # p
    BY <1>4, <1>6, <2>2
  <2> QED
    BY <2>1, <2>2
<1>11. ASSUME NEW q \in DOMAIN job'.read
       PROVE  /\ job'.read[q].content # Empty
              /\ job'.read[q].package = PackageName(job.packages, q)
              /\ job'.read[q].strategy = GetStrategy(job.config, job.order, q)
  <2>1. CASE content \in {Absent, Empty}
    BY <1>4, <1>6, <1>11, <2>1
  <2>2. CASE content \notin {Absent, Empty} /\ q = p
    BY <1>2, <1>4, <1>11, <2>2
  <2>3. CASE content \notin {Absent, Empty} /\ q # p
    BY <1>4, <1>6, <1>11, <2>3
  <2> QED
    BY <2>1, <2>2, <2>3
<1>12. /\ \A q : PackageName(job.packages, q)' = PackageName(job.packages, q)
       /\ \A q : GetStrategy(job.config, job.order, q)' = GetStrategy(job.config, job.order, q)
  BY <1>4
<1>13. ChosenInv'
  BY <1>1, <1>4, <1>6, <1>7, <1>8, <1>9, <1>10, <1>11, <1>12 DEF ChosenInv, Files, store
<1> QED
  BY <1>5, <1>13 DEF ListInv

Blobs == IF job.mode = "commit" THEN Files(job.tree) ELSE BlobsOnDisk

\* Where the crawl could be sure, its files are those of its source.
LEMMA SureOfSource ==
    ASSUME Inv, ListInv, job # NoJob, job.pc = "read", NEW p \in Paths \ touched
    PROVE  /\ job.files[p] = Blobs[p]
           /\ Texts[p] \in {Absent, Empty} <=> job.files[p] \in {Absent, Empty}
<1>1. CASE job.mode = "commit"
  BY <1>1 DEF ListInv, ChosenInv, Blobs, Texts
<1>2. CASE job.mode = "working"
  <2>1. job.files[p] = Blob(p) /\ Ordinary(p) /\ work[p] \in Ids
    BY <1>2 DEF Inv, WatchInv, LooksAtWork, Listed, TreeInv
  <2>2. Blobs[p] = Blob(p) /\ Texts[p] = ReadFile(p)
    BY <1>2 DEF Blobs, Texts, BlobsOnDisk, TextsOnDisk
  <2> QED
    BY <2>1, <2>2, OrdinaryIsRead
<1> QED
  BY <1>1, <1>2 DEF Inv, JobInv

LEMMA UpsertHoldsSomething ==
    ASSUME Inv, ListInv, job # NoJob, NEW stored \in SUBSET DOMAIN job.read
    PROVE  /\ DOMAIN Upsert(stored) = DOMAIN rows \cup Keys(stored, job.files)
           /\ \A k \in DOMAIN Upsert(stored) : Upsert(stored)[k].content # Empty
           /\ \A k \in Keys(stored, job.files) : Upsert(stored)[k] = job.read[k[1]]
<1> DEFINE new == Keys(stored, job.files)
<1>1. \A k \in new : k[1] \in stored
  BY DEF Keys
<1>2. \A p \in DOMAIN job.read : job.read[p].content # Empty
  <2>1. CASE job.pc = "read"
    BY <2>1 DEF ListInv, ChosenInv
  <2>2. CASE job.pc # "read"
    BY <2>2 DEF Inv, ReadInv
  <2> QED
    BY <2>1, <2>2
<1>3. \A k \in DOMAIN rows : rows[k].content # Empty
  BY DEF ListInv, ShownInv
<1> HIDE DEF new
<1>4. Upsert(stored) = [k \in DOMAIN rows \cup new |->
                           IF k \in new THEN job.read[k[1]] ELSE rows[k]]
  BY DEF Upsert, new
<1>5. /\ DOMAIN Upsert(stored) = DOMAIN rows \cup new
      /\ \A k \in DOMAIN Upsert(stored) : Upsert(stored)[k].content # Empty
      /\ \A k \in new : Upsert(stored)[k] = job.read[k[1]]
  BY <1>1, <1>2, <1>3, <1>4
<1> QED
  BY <1>5 DEF new

LEMMA PublishKeepsList ==
    ASSUME Inv, Inv', ListInv, Publish
    PROVE  ListInv'
<1> DEFINE l == job.label
           new == Keys(DOMAIN job.read, job.files)
           entry == [mode |-> job.mode, config |-> job.config, unsure |-> touched,
                     blobs |-> IF job.mode = "commit" THEN Files(job.tree) ELSE BlobsOnDisk,
                     texts |-> IF job.mode = "commit" THEN Files(job.tree) ELSE TextsOnDisk]
<1>1. /\ UNCHANGED <<user, touched>> /\ job # NoJob /\ job.pc = "read" /\ job' = NoJob
      /\ job.todo = {}
      /\ view' = [view EXCEPT ![l] = Keys(job.known, job.files) \cup new]
      /\ rows' = Restrict(Upsert(DOMAIN job.read), Referenced(view'))
      /\ raced' = {k \in raced \cup {n \in new : n[1] \in touched} : k \in DOMAIN rows'}
      /\ shown' = [shown EXCEPT ![l] = entry]
  BY DEF Publish, At
<1>2. l \in Labels /\ DOMAIN view = Labels /\ DOMAIN shown = Labels
  BY <1>1 DEF Inv, JobInv, RowInv, ListInv, ShownInv
<1>3. /\ entry.config = job.config /\ entry.unsure = touched
      /\ entry.blobs = Blobs /\ entry.texts = Texts
  BY DEF Blobs, Texts
<1>new. \A k \in new : k[1] \in DOMAIN job.read /\ k = <<k[1], job.files[k[1]]>>
  BY DEF Keys
<1> HIDE DEF l, new, entry
<1>4. ConfigInv' /\ ChosenInv'
  BY <1>1 DEF ListInv, ConfigInv, ChosenInv, user
<1>5. /\ DOMAIN rows' = Referenced(view')
      /\ \A k \in DOMAIN rows' : rows'[k] = Upsert(DOMAIN job.read)[k]
  BY <1>1 DEF Restrict
<1>6. \A k \in DOMAIN rows' : rows'[k].content # Empty
  <2>1. DOMAIN rows' \subseteq DOMAIN Upsert(DOMAIN job.read)
    <3>1. DOMAIN Upsert(DOMAIN job.read) = DOMAIN rows \cup new
      BY <1>1, UpsertHoldsSomething DEF new
    <3>2. \A m \in Labels : view'[m] \subseteq DOMAIN rows \cup new
      BY <1>1, <1>2 DEF Inv, RowInv, ReadInv, l
    <3> QED
      BY <1>5, <3>1, <3>2 DEF Referenced
  <2>2. \A k \in DOMAIN Upsert(DOMAIN job.read) : Upsert(DOMAIN job.read)[k].content # Empty
    BY <1>1, UpsertHoldsSomething
  <2> QED
    BY <1>5, <2>1, <2>2
<1>7. \A m \in Labels : view'[m] \subseteq DOMAIN rows'
  BY DEF Inv, RowInv
<1>8. raced \cap DOMAIN rows' \subseteq raced'
  BY <1>1
<1>9. ASSUME NEW m \in Labels, shown'[m] # Nothing
      PROVE  /\ \A k \in SourceKeys(shown'[m]) : k \in view'[m] \/ k[1] \in shown'[m].unsure
             /\ \A k \in view'[m] :
                   k \in SourceKeys(shown'[m]) \/ k \in raced' \/ k[1] \in shown'[m].unsure
  <2>1. CASE m # l
    <3>1. shown'[m] = shown[m] /\ view'[m] = view[m]
      BY <1>1, <1>2, <2>1
    <3>2. Lists(view[m], shown[m])
      BY <1>9, <3>1 DEF ListInv, ShownInv
    <3> QED
      BY <1>7, <1>8, <3>1, <3>2 DEF Lists
  <2>2. CASE m = l
    <3>1. shown'[l] = entry /\ view'[l] = Keys(job.known, job.files) \cup new
      BY <1>1, <1>2, <2>2
    <3>2. ASSUME NEW p \in Paths, p \notin touched
          PROVE  /\ job.files[p] = Blobs[p]
                 /\ Texts[p] \in {Absent, Empty} <=> job.files[p] \in {Absent, Empty}
      BY <1>1, <3>2, SureOfSource
    <3>3. \A k : k \in SourceKeys(entry) <=>
                   \E p \in LetThrough(job.config) :
                      Texts[p] \notin {Absent, Empty} /\ k = <<p, Blobs[p]>>
      BY <1>3 DEF SourceKeys, Keys, Crawlable
    <3>4. /\ job.known \cup DOMAIN job.read \subseteq Chosen
          /\ \A p \in Chosen : \/ p \in job.known \cup DOMAIN job.read
                               \/ p \in touched \/ job.files[p] = Empty
      BY <1>1 DEF ListInv, ChosenInv
    <3>5. /\ LetThrough(job.config) \subseteq Sources /\ Sources \subseteq Paths
          /\ \A p : p \in Chosen <=> p \in LetThrough(job.config) /\ job.files[p] # Absent
      BY DEF Chosen, LetThrough, Paths
    <3>6. \A k : k \in view'[l] <=> \E p \in job.known \cup DOMAIN job.read : k = <<p, job.files[p]>>
      BY <3>1 DEF Keys, new
    <3>7. ASSUME NEW k \in SourceKeys(entry), k[1] \notin touched
          PROVE  k \in view'[l]
      <4>1. PICK p \in LetThrough(job.config) :
                    Texts[p] \notin {Absent, Empty} /\ k = <<p, Blobs[p]>>
        BY <3>3
      <4>2. p \in Paths /\ p \notin touched
        BY <3>5, <3>7, <4>1
      <4>3. job.files[p] = Blobs[p] /\ job.files[p] \notin {Absent, Empty}
        BY <3>2, <4>1, <4>2
      <4> QED
        BY <3>4, <3>5, <3>6, <4>1, <4>2, <4>3
    <3>8. ASSUME NEW k \in view'[l], k \notin SourceKeys(entry), k[1] \notin touched
          PROVE  k \in raced'
      <4>1. PICK p \in job.known \cup DOMAIN job.read : k = <<p, job.files[p]>>
        BY <3>6
      <4>2. /\ p \in LetThrough(job.config) /\ p \in Paths /\ p \notin touched
            /\ job.files[p] # Absent
        BY <3>4, <3>5, <3>8, <4>1
      <4>3. job.files[p] = Empty
        BY <3>2, <3>3, <3>8, <4>1, <4>2
      <4>4. \A content : Fits(p, content, Empty) => content = Empty
        BY <4>2, CleanAssumption DEF Fits
      <4>5. p \notin DOMAIN job.read
        BY <1>1, <4>2, <4>3, <4>4 DEF Inv, ReadInv, ListInv, ChosenInv
      <4>6. k \in DOMAIN rows
        BY <1>1, <4>1, <4>5 DEF Inv, ReadInv, Keys
      <4>7. rows[k].content # Empty /\ k[1] = p /\ k[2] = Empty
        BY <4>1, <4>3, <4>6 DEF ListInv, ShownInv
      <4>8. k \in raced
        BY <4>4, <4>6, <4>7 DEF Inv, RowInv
      <4> QED
        BY <1>2, <1>7, <1>8, <4>8
    <3> QED
      BY <1>3, <2>2, <3>1, <3>7, <3>8
  <2> QED
    BY <2>1, <2>2
<1>10. DOMAIN shown' = Labels
  BY <1>1, <1>2
<1>11. ShownInv'
  BY <1>6, <1>9, <1>10 DEF ShownInv, Lists, SourceKeys, Keys, Crawlable
<1> QED
  BY <1>4, <1>11 DEF ListInv

LEMMA InterruptKeepsList ==
    ASSUME Inv, ListInv, job # NoJob, NEW stored \in SUBSET DOMAIN job.read, Interrupt(stored)
    PROVE  ListInv'
<1> DEFINE new == Keys(stored, job.files)
<1>1. /\ UNCHANGED <<user, touched, shown>> /\ job' = NoJob
      /\ rows' = Upsert(stored)
      /\ view' = [view EXCEPT ![job.label] = @ \cup new]
      /\ raced' = raced \cup {k \in new : k[1] \in touched}
      /\ stored # {} => job.pc = "read"
  BY DEF Interrupt, At
<1>2. stored = {} => new = {}
  BY DEF Keys
<1> HIDE DEF new
<1>3. ConfigInv' /\ ChosenInv'
  BY <1>1 DEF ListInv, ConfigInv, ChosenInv, user
<1>4. \A k \in DOMAIN rows' : rows'[k].content # Empty
  BY <1>1, UpsertHoldsSomething
<1>5. DOMAIN view = Labels /\ job.label \in Labels
  BY DEF Inv, JobInv, RowInv
<1>6. \A l \in Labels : shown[l] # Nothing => view'[l] = view[l]
  <2>1. CASE stored = {}
    BY <1>1, <1>2, <1>5, <2>1
  <2>2. CASE stored # {}
    <3>1. shown[job.label] = Nothing
      BY <1>1, <2>2 DEF ListInv, ChosenInv
    <3> QED
      BY <1>1, <1>5, <3>1
  <2> QED
    BY <2>1, <2>2
<1>7. raced \subseteq raced'
  BY <1>1
<1>8. ShownInv'
  <2>1. /\ DOMAIN shown' = Labels
        /\ \A l \in Labels : shown'[l] # Nothing =>
              /\ \A k \in SourceKeys(shown'[l]) : k \in view'[l] \/ k[1] \in shown'[l].unsure
              /\ \A k \in view'[l] :
                    k \in SourceKeys(shown'[l]) \/ k \in raced' \/ k[1] \in shown'[l].unsure
    BY <1>1, <1>6, <1>7 DEF ListInv, ShownInv, Lists
  <2> QED
    BY <1>4, <2>1 DEF ShownInv, Lists, SourceKeys, Keys, Crawlable
<1> QED
  BY <1>3, <1>8 DEF ListInv

LEMMA InitEstablishesList == Init => ListInv
<1> SUFFICES ASSUME Init PROVE ListInv
  OBVIOUS
<1>1. ConfigInv
  <2>1. config = [repository |-> Missing, user |-> Missing] /\ job = NoJob
    BY DEF Init
  <2> QED
    BY <2>1 DEF ConfigInv
<1>2. ShownInv
  <2>1. rows = <<>> /\ shown = [l \in Labels |-> Nothing]
    BY DEF Init
  <2>2. DOMAIN rows = {}
    BY <2>1
  <2> QED
    BY <2>1, <2>2 DEF ShownInv
<1> QED
  BY <1>1, <1>2 DEF Init, ListInv, ChosenInv

LEMMA StepKeepsList == Inv /\ Inv' /\ ListInv /\ [Next]_vars => ListInv'
<1> SUFFICES ASSUME Inv, Inv', ListInv, [Next]_vars PROVE ListInv'
  OBVIOUS
<1>1. CASE UserActs
  BY <1>1, UserActsKeepList
<1>2. CASE CrawlStep
  <2>1. ASSUME NEW stored \in SUBSET (IF job = NoJob THEN {} ELSE DOMAIN job.read),
               Interrupt(stored)
        PROVE  ListInv'
    <3>1. job # NoJob /\ stored \in SUBSET DOMAIN job.read
      BY <2>1 DEF Interrupt
    <3> QED
      BY <2>1, <3>1, InterruptKeepsList
  <2> QED
    BY <1>2, <2>1, BeginningKeepsList, EnumeratingKeepsList, ClassifyKeepsList,
       ReadNewKeepsList, PublishKeepsList DEF CrawlStep
<1>3. CASE UNCHANGED vars
  <2>1. ChosenInv'
    <3>1. Chosen' = Chosen /\ Texts' = Texts
      BY <1>3 DEF vars, Chosen, Texts, Files, TextsOnDisk, ReadFile
    <3>2. PackageIndex(Texts, Texts)' = PackageIndex(Texts, Texts)
      BY <3>1 DEF PackageIndex
    <3> QED
      BY <1>3, <3>1, <3>2 DEF vars, ListInv, ChosenInv, Files
  <2>2. ConfigInv' /\ ShownInv'
    BY <1>3 DEF vars, ListInv, ConfigInv, ShownInv, Lists, SourceKeys, Keys, Crawlable
  <2> QED
    BY <2>1, <2>2 DEF ListInv
<1> QED
  BY <1>1, <1>2, <1>3 DEF Next

\* For any paths, contents, filters, configurations and suffix orders: of the paths that
\* git could answer for, a finished crawl lists exactly the files of its source that the
\* rule lets through, under the ids of the blobs git stores them as, whatever other
\* labels, interrupted crawls and races left in the shared rows (run_incremental_crawl,
\* run_label_cleanup).
THEOREM LabelsListTheirSources == Spec => []LabelListsItsSource
<1>1. Inv /\ ListInv => LabelListsItsSource
  <2> SUFFICES ASSUME ListInv, NEW l \in Labels, shown[l] # Nothing
               PROVE  {k \in view[l] : k \notin raced /\ k[1] \notin shown[l].unsure}
                        = {k \in SourceKeys(shown[l]) :
                              k \notin raced /\ k[1] \notin shown[l].unsure}
    BY DEF LabelListsItsSource, SourceKeys
  <2> QED
    BY DEF ListInv, ShownInv, Lists
<1> QED
  BY InitEstablishesInv, StepKeepsInv, InitEstablishesList, StepKeepsList, <1>1, PTL DEF Spec

--------------------------------------------------------------------------------
(* The package of a file.                                                         *)

\* Some of the first numbers have a greatest one.
LEMMA GreatestOf ==
    ASSUME NEW n \in Nat, NEW S \in SUBSET (0 .. n), S # {}
    PROVE  Max(S) \in S /\ \A y \in S : Max(S) >= y
<1> DEFINE T == {n - k : k \in S}
<1>1. T \in SUBSET Nat /\ T # {}
  <2>1. \A k \in S : k \in 0 .. n
    OBVIOUS
  <2>2. \A k \in S : n - k \in Nat
    BY <2>1
  <2> QED
    BY <2>2
<1>2. Min(T) \in T /\ \A y \in T : Min(T) <= y
  <2> HIDE DEF T
  <2> QED
    BY <1>1, LeastNatural
<1>3. PICK k \in S : Min(T) = n - k
  BY <1>2
<1>4. ASSUME NEW y \in S PROVE k >= y
  <2>1. n - y \in T
    OBVIOUS
  <2>2. n - k <= n - y
    BY <1>2, <1>3, <2>1
  <2>3. k \in Nat /\ y \in Nat
    OBVIOUS
  <2> QED
    BY ONLY <2>2, <2>3, n \in Nat
<1> QED
  BY <1>4 DEF Max

Above(p, n) == SubSeq(FolderOf[p], 1, n)

\* The folders above p, down to the nth, that have a package.
Known(packages, p, n) == {k \in 0 .. n : Above(p, k) \in DOMAIN packages}

\* The upward search finds the closest package, of whatever depth p is.
LEMMA ClosestPackage ==
    ASSUME NEW packages, NEW p \in Paths
    PROVE  PackageName(packages, p) =
              LET known == Known(packages, p, Len(FolderOf[p]))
              IN  IF known = {} THEN CatalogName ELSE packages[Above(p, Max(known))]
<1> DEFINE L == Len(FolderOf[p])
           Step(g, n) == IF Above(p, n) \in DOMAIN packages THEN packages[Above(p, n)]
                         ELSE IF n = 0 THEN CatalogName ELSE g[n - 1]
           closest(n) == IF Known(packages, p, n) = {} THEN CatalogName
                         ELSE packages[Above(p, Max(Known(packages, p, n)))]
           up == CHOOSE g : g = [n \in 0 .. L |-> Step(g, n)]
<1>1. L \in Nat
  BY FolderAssumption, PathAssumption
<1>2. PackageName(packages, p) = up[L]
  BY DEF PackageName, Above
<1> HIDE DEF L
<1>3. ASSUME NEW n \in Nat
      PROVE  closest(n) = IF Above(p, n) \in DOMAIN packages THEN packages[Above(p, n)]
                          ELSE IF n = 0 THEN CatalogName ELSE closest(n - 1)
  <2> DEFINE K == Known(packages, p, n)
  <2>0. K \in SUBSET (0 .. n) /\ n \in 0 .. n
    BY DEF Known
  <2>1. CASE Above(p, n) \in DOMAIN packages
    <3>1. n \in K
      BY <2>0, <2>1 DEF Known
    <3>2. Max(K) \in K /\ \A y \in K : Max(K) >= y
      <4> HIDE DEF K
      <4> QED
        BY <2>0, <3>1, GreatestOf
    <3>3. Max(K) \in 0 .. n /\ Max(K) >= n
      <4> HIDE DEF K
      <4> QED
        BY <2>0, <3>1, <3>2
    <3>4. Max(K) = n
      BY ONLY <3>3, n \in Nat
    <3> QED
      BY <2>1, <3>1, <3>4
  <2>2. CASE Above(p, n) \notin DOMAIN packages /\ n = 0
    <3>1. K = {}
      BY <2>2 DEF Known
    <3> QED
      BY <2>2, <3>1
  <2>3. CASE Above(p, n) \notin DOMAIN packages /\ n # 0
    <3>1. K = Known(packages, p, n - 1)
      <4>1. \A k : k \in 0 .. n /\ k # n <=> k \in 0 .. (n - 1)
        BY <2>3
      <4> QED
        BY <2>3, <4>1 DEF Known
    <3> QED
      BY <2>3, <3>1
  <2> QED
    BY <2>1, <2>2, <2>3
<1>4. up = [n \in 0 .. L |-> Step(up, n)]
  <2> DEFINE g == [n \in 0 .. L |-> closest(n)]
  <2>1. \A n \in 0 .. L : g[n] = Step(g, n)
    <3> SUFFICES ASSUME NEW n \in 0 .. L PROVE g[n] = Step(g, n)
      OBVIOUS
    <3>1. n \in Nat /\ (n # 0 => n - 1 \in 0 .. L)
      BY <1>1
    <3>2. g[n] = closest(n) /\ (n # 0 => g[n - 1] = closest(n - 1))
      BY <3>1
    <3>3. closest(n) = IF Above(p, n) \in DOMAIN packages THEN packages[Above(p, n)]
                       ELSE IF n = 0 THEN CatalogName ELSE closest(n - 1)
      BY <1>3, <3>1
    <3> HIDE DEF g, closest
    <3> QED
      BY <3>2, <3>3
  <2>2. g = [n \in 0 .. L |-> g[n]]
    OBVIOUS
  <2> HIDE DEF g, closest
  <2>3. g = [n \in 0 .. L |-> Step(g, n)]
    BY <2>1, <2>2
  <2> QED
    BY <2>3, Zenon
<1> HIDE DEF up
<1>5. \A n \in 0 .. L : up[n] = closest(n)
  <2> DEFINE A == {n \in Nat : n <= L => up[n] = closest(n)}
  <2>1. ASSUME NEW n \in Nat, n <= L
        PROVE  up[n] = Step(up, n)
    <3>1. n \in 0 .. L
      BY <2>1, <1>1
    <3> QED
      BY ONLY <1>4, <3>1
  <2>2. 0 \in A
    <3>1. up[0] = Step(up, 0)
      BY <1>1, <2>1
    <3>2. closest(0) = IF Above(p, 0) \in DOMAIN packages THEN packages[Above(p, 0)]
                       ELSE CatalogName
      BY <1>3
    <3> HIDE DEF closest
    <3> QED
      BY <3>1, <3>2
  <2>3. ASSUME NEW n \in Nat, n \in A PROVE n + 1 \in A
    <3> SUFFICES ASSUME n + 1 <= L PROVE up[n + 1] = closest(n + 1)
      OBVIOUS
    <3>1. n + 1 \in Nat /\ n + 1 # 0 /\ (n + 1) - 1 = n /\ n <= L
      BY <1>1
    <3>2. up[n] = closest(n)
      BY <2>3, <3>1
    <3>3. up[n + 1] = IF Above(p, n + 1) \in DOMAIN packages THEN packages[Above(p, n + 1)] ELSE up[n]
      BY <2>1, <3>1
    <3>4. closest(n + 1) = IF Above(p, n + 1) \in DOMAIN packages THEN packages[Above(p, n + 1)]
                           ELSE closest(n)
      <4> HIDE DEF closest
      <4>1. closest(n + 1) = IF Above(p, n + 1) \in DOMAIN packages THEN packages[Above(p, n + 1)]
                             ELSE IF n + 1 = 0 THEN CatalogName ELSE closest((n + 1) - 1)
        BY <1>3, <3>1
      <4> QED
        BY <3>1, <4>1
    <3> HIDE DEF closest
    <3> QED
      BY <3>2, <3>3, <3>4
  <2>4. Nat \subseteq A
    <3> HIDE DEF A
    <3> QED
      BY <2>2, <2>3, SetInduction
  <2> QED
    BY <1>1, <2>4
<1> QED
  <2>1. up[L] = closest(L)
    BY <1>1, <1>5
  <2> QED
    BY <1>2, <2>1 DEF L

\* The search in the package index finds the package.json that governs the file.
LEMMA SearchFindsGovernor ==
    ASSUME NEW tree, NEW p \in Paths
    PROVE  PackageName(PackageIndex(tree, tree), p) = GoverningName(tree, p)
<1> DEFINE named == Crawlable(Manifests, tree)
           packages == PackageIndex(tree, tree)
           L == Len(FolderOf[p])
           K == Known(packages, p, L)
           candidates == {m \in named : Holds(m, p)}
           closest == {m \in candidates :
                          \A n \in candidates : Len(FolderOf[n]) <= Len(FolderOf[m])}
           at(dir) == CHOOSE m \in named : FolderOf[m] = dir
<1>1. packages = [dir \in {FolderOf[m] : m \in named} |-> tree[at(dir)]]
  <2> DEFINE E == {m \in Manifests : tree[m] # Absent /\ tree[m] \notin {Absent, Empty}}
             Names(S) == [dir \in {FolderOf[m] : m \in S} |->
                             tree[CHOOSE m \in S : FolderOf[m] = dir]]
  <2>1. packages = Names(E)
    BY DEF PackageIndex
  <2>2. E = named
    BY DEF Crawlable
  <2>3. packages = Names(named)
    <3> HIDE DEF E, named, packages, Names
    <3> QED
      BY <2>1, <2>2
  <2> HIDE DEF named, packages
  <2> QED
    BY <2>3
<1>2. L \in Nat /\ FolderOf[p] \in Seq(STRING)
  BY FolderAssumption, PathAssumption
<1>3. \A m \in named : m \in Manifests /\ FolderOf[m] \in Seq(STRING) /\ Len(FolderOf[m]) \in Nat
  <2>1. named \subseteq Manifests /\ Manifests \subseteq Paths
    BY DEF Crawlable, Paths
  <2>2. \A m \in Paths : FolderOf[m] \in Seq(STRING)
    BY FolderAssumption, PathAssumption
  <2> HIDE DEF named
  <2> QED
    BY <2>1, <2>2
<1>4. \A m, n \in named : FolderOf[m] = FolderOf[n] => m = n
  BY <1>3, PathAssumption
<1> HIDE DEF named, packages
<1>5. \A k \in 0 .. L : Len(Above(p, k)) = k
  BY <1>2 DEF Above
<1>6. \A k : k \in K <=> k \in 0 .. L /\ \E m \in named : FolderOf[m] = Above(p, k)
  BY <1>1 DEF Known
<1>7. \A m : m \in candidates <=>
         m \in named /\ Len(FolderOf[m]) \in 0 .. L /\ FolderOf[m] = Above(p, Len(FolderOf[m]))
  BY <1>2, <1>3 DEF Holds, Above
<1>8. \A m \in candidates : Len(FolderOf[m]) \in K
  BY <1>6, <1>7
<1>9. ASSUME NEW k \in K
      PROVE  \E m \in candidates : Len(FolderOf[m]) = k /\ FolderOf[m] = Above(p, k)
  <2>1. PICK m \in named : FolderOf[m] = Above(p, k)
    BY <1>6
  <2>2. Len(FolderOf[m]) = k /\ k \in 0 .. L
    BY <1>5, <1>6, <2>1
  <2> QED
    BY <1>7, <2>1, <2>2
<1>10. PackageName(packages, p) = IF K = {} THEN CatalogName ELSE packages[Above(p, Max(K))]
  BY ClosestPackage
<1>11. GoverningName(tree, p) = IF candidates = {} THEN CatalogName ELSE tree[CHOOSE m \in closest : TRUE]
  BY DEF GoverningName, named
<1>12. K \in SUBSET (0 .. L)
  BY DEF Known
<1> HIDE DEF K, candidates, at
<1>13. CASE K = {}
  <2>1. candidates = {}
    BY <1>8, <1>13
  <2> QED
    BY <1>10, <1>11, <1>13, <2>1 DEF packages
<1>14. CASE K # {}
  <2>1. Max(K) \in K /\ \A k \in K : Max(K) >= k
    BY <1>2, <1>12, <1>14, GreatestOf
  <2>2. PICK m \in candidates : Len(FolderOf[m]) = Max(K) /\ FolderOf[m] = Above(p, Max(K))
    BY <1>9, <2>1
  <2>3. m \in named
    BY <1>7, <2>2
  <2>4. m \in closest
    <3>1. \A n \in candidates : Len(FolderOf[n]) <= Len(FolderOf[m])
      <4> SUFFICES ASSUME NEW n \in candidates PROVE Len(FolderOf[n]) <= Len(FolderOf[m])
        OBVIOUS
      <4>1. Len(FolderOf[n]) \in K /\ Max(K) >= Len(FolderOf[n])
        BY <1>8, <2>1
      <4>2. Len(FolderOf[n]) \in Nat /\ Max(K) \in Nat
        <5>1. K \subseteq Nat
          BY <1>12
        <5> QED
          BY <2>1, <4>1, <5>1
      <4> QED
        BY ONLY <2>2, <4>1, <4>2
    <3> QED
      BY <2>2, <3>1
  <2>5. ASSUME NEW n \in closest PROVE n = m
    <3>1. n \in candidates /\ n \in named /\ Len(FolderOf[m]) <= Len(FolderOf[n])
      BY <1>7, <2>2
    <3>2. Len(FolderOf[n]) <= Len(FolderOf[m])
      BY <2>4, <3>1
    <3>3. Len(FolderOf[n]) \in Nat /\ Len(FolderOf[m]) \in Nat
      BY <1>3, <2>3, <3>1
    <3>4. Len(FolderOf[n]) = Len(FolderOf[m])
      BY ONLY <3>1, <3>2, <3>3
    <3>5. FolderOf[n] = FolderOf[m]
      BY <1>7, <2>2, <3>1, <3>4
    <3> QED
      BY <1>4, <2>3, <3>1, <3>5
  <2>6. (CHOOSE x \in closest : TRUE) = m
    <3> HIDE DEF closest
    <3> QED
      BY <2>4, <2>5
  <2>7. at(Above(p, Max(K))) = m
    <3>1. at(FolderOf[m]) \in named /\ FolderOf[at(FolderOf[m])] = FolderOf[m]
      BY <2>3 DEF at
    <3> QED
      BY <1>4, <2>2, <2>3, <3>1
  <2>8. packages[Above(p, Max(K))] = tree[m]
    <3>1. Above(p, Max(K)) \in {FolderOf[x] : x \in named}
      BY <2>2, <2>3
    <3>2. packages[Above(p, Max(K))] = tree[at(Above(p, Max(K)))]
      BY <1>1, <3>1
    <3> QED
      BY <2>7, <3>2
  <2>9. candidates # {}
    BY <2>2
  <2> HIDE DEF closest
  <2> QED
    BY <1>10, <1>11, <1>14, <2>6, <2>8, <2>9 DEF packages
<1> QED
  BY <1>13, <1>14

NamesItsPackages ==
    \A l \in Labels : \A k \in view'[l] \ DOMAIN rows :
          shown'[l] # Nothing /\ shown'[l] # shown[l] /\ shown'[l].unsure \cap Manifests = {} =>
             /\ rows'[k].package = GoverningName(shown'[l].texts, k[1])
             /\ rows'[k].strategy \in StrategiesFor(shown'[l].config, k[1])

LEMMA OnlyPublishShows ==
    ASSUME Inv, ListInv, Next, ~Publish, NEW l \in Labels, shown'[l] # Nothing
    PROVE  shown'[l] = shown[l]
<1>1. CASE TakeSource
  BY <1>1 DEF TakeSource, ListInv, ShownInv
<1>2. CASE ~TakeSource
  <2>1. shown' = shown
    BY <1>2 DEF Next, UserActs, Edit, Add, IntentToAdd, StopMerge, EditConfig, Commit, Acted,
                CrawlStep, BeginCrawl, WalkCommit, ListTracked, ListDirty, HashDirty, HashFails,
                ReadManifests, Classify, ReadNew, Interrupt, store
  <2> QED
    BY <2>1
<1> QED
  BY <1>1, <1>2

LEMMA PublishNamesPackages ==
    ASSUME Inv, Inv', ListInv, Publish
    PROVE  NamesItsPackages
<1> DEFINE new == Keys(DOMAIN job.read, job.files)
           entry == [mode |-> job.mode, config |-> job.config, unsure |-> touched,
                     blobs |-> IF job.mode = "commit" THEN Files(job.tree) ELSE BlobsOnDisk,
                     texts |-> IF job.mode = "commit" THEN Files(job.tree) ELSE TextsOnDisk]
<1>1. /\ job # NoJob /\ job.pc = "read"
      /\ view' = [view EXCEPT ![job.label] = Keys(job.known, job.files) \cup new]
      /\ rows' = Restrict(Upsert(DOMAIN job.read), Referenced(view'))
      /\ shown' = [shown EXCEPT ![job.label] = entry]
  BY DEF Publish, At
<1>2. DOMAIN view = Labels /\ DOMAIN shown = Labels
  BY DEF Inv, RowInv, ListInv, ShownInv
<1>3. /\ entry.config = job.config /\ entry.unsure = touched
      /\ entry.blobs = Blobs /\ entry.texts = Texts
  BY DEF Blobs, Texts
<1>4. \A k \in new : k[1] \in DOMAIN job.read
  BY DEF Keys
<1> HIDE DEF new, entry
<1> SUFFICES ASSUME NEW l \in Labels, NEW k \in view'[l] \ DOMAIN rows,
                    shown'[l] # Nothing, shown'[l] # shown[l],
                    shown'[l].unsure \cap Manifests = {}
             PROVE  /\ rows'[k].package = GoverningName(shown'[l].texts, k[1])
                    /\ rows'[k].strategy \in StrategiesFor(shown'[l].config, k[1])
  BY DEF NamesItsPackages
<1>5. l = job.label /\ touched \cap Manifests = {} /\ shown'[l] = entry
  BY <1>1, <1>2, <1>3
<1>6. k \in new
  <2>1. Keys(job.known, job.files) \subseteq DOMAIN rows
    BY <1>1 DEF Inv, ReadInv
  <2> QED
    BY <1>1, <1>2, <1>5, <2>1
<1> DEFINE p == k[1]
<1>7. p \in DOMAIN job.read /\ p \in Chosen /\ p \in Sources /\ p \in Paths
  <2>1. p \in DOMAIN job.read
    BY <1>4, <1>6
  <2>2. DOMAIN job.read \subseteq Chosen
    BY <1>1 DEF ListInv, ChosenInv
  <2> QED
    BY <2>1, <2>2 DEF Chosen, Paths
<1>8. rows'[k] = job.read[p]
  <2>1. k \in DOMAIN rows'
    BY DEF Inv, RowInv
  <2>2. rows'[k] = Upsert(DOMAIN job.read)[k]
    BY <1>1, <2>1 DEF Restrict
  <2>3. Upsert(DOMAIN job.read)[k] = job.read[k[1]]
    BY <1>1, <1>6, UpsertHoldsSomething DEF new
  <2> QED
    BY <2>2, <2>3
<1> HIDE DEF p
<1>9. /\ job.read[p].package = PackageName(job.packages, p)
      /\ job.read[p].strategy = GetStrategy(job.config, job.order, p)
      /\ job.packages = PackageIndex(Texts, Texts)
  BY <1>1, <1>5, <1>7 DEF ListInv, ChosenInv
<1>10. PackageName(job.packages, p) = GoverningName(Texts, p)
  BY <1>7, <1>9, SearchFindsGovernor
<1>11. GetStrategy(job.config, job.order, p) \in StrategiesFor(job.config, p)
  <2>1. StrategiesFor(job.config, p) # {}
    BY <1>7 DEF Chosen, LetThrough
  <2> QED
    BY <1>1, <1>7, <2>1, StrategyIsGiven DEF ListInv, ConfigInv
<1> QED
  BY <1>3, <1>5, <1>8, <1>9, <1>10, <1>11 DEF p

\* The rows that such a crawl chunks name the package.json that governs the file in the
\* tree the label shows, found by the upward search from a folder of any depth, and were
\* split by a strategy that the configuration gives one of the file's suffixes
\* (find_package_name, get_strategy).
THEOREM FreshRowsAreNamed == Spec => FreshRowsNameTheirPackage
<1>1. Inv /\ Inv' /\ ListInv /\ [Next]_vars => [NamesItsPackages]_vars
  <2> SUFFICES ASSUME Inv, Inv', ListInv, Next PROVE NamesItsPackages
    OBVIOUS
  <2>1. CASE Publish
    BY <2>1, PublishNamesPackages
  <2>2. CASE ~Publish
    BY <2>2, OnlyPublishShows DEF NamesItsPackages
  <2> QED
    BY <2>1, <2>2
<1> QED
  BY InitEstablishesInv, StepKeepsInv, InitEstablishesList, StepKeepsList, <1>1, PTL
     DEF Spec, FreshRowsNameTheirPackage, NamesItsPackages
=============================================================================
