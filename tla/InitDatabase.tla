---------------------------- MODULE InitDatabase ----------------------------
(***************************************************************************)
(* The life of a database folder: init-db with and without                 *)
(* --delete-everything (src/app/commands/init_db/run.rs), Database::open   *)
(* (src/engine/storage/database.rs), and the commands that open: crawl and *)
(* purge under the shared lock, purge --all under the exclusive one,       *)
(* search and view under none.                                             *)
(*                                                                         *)
(* A process runs one command.  The folder is read and written one entry   *)
(* at a time; the files inside a table folder are abstracted to whether    *)
(* all of them are there.                                                  *)
(***************************************************************************)
EXTENDS Naturals, FiniteSets

CONSTANTS Procs,
          NULL,
          Commands,    \* what a process may be asked to run
          Starts,      \* the folders to start from, by name
          MaxCrashes,  \* bound: commands that are interrupted or fail
          CrashSpots   \* where that may happen: "look", "wipe", "make", "use"

AllCommands == {"init", "wipe", "write", "purge_all", "read"}
Tables      == {"chunks", "labels"}
Entries     == Tables \cup {"fts", "locks", "old_lock", "other"}

(* Folders a user may have: none; one of his own; a database of another     *)
(* version, with the lock file versions before locks/ used; a good one.     *)
Folder(name) ==
    CASE name = "absent"  -> [root |-> FALSE, entries |-> {}, meta |-> "none"]
      [] name = "foreign" -> [root |-> TRUE, entries |-> {"other"}, meta |-> "none"]
      [] name = "old"     -> [root |-> TRUE, entries |-> Tables \cup {"fts", "old_lock"}, meta |-> "old"]
      [] name = "good"    -> [root |-> TRUE, entries |-> Tables \cup {"fts", "locks"}, meta |-> "current"]

ASSUME InitDatabaseAssumption ==
    /\ NULL \notin Procs
    /\ Commands \subseteq AllCommands
    /\ Starts \subseteq {"absent", "foreign", "old", "good"}
    /\ MaxCrashes \in Nat
    /\ CrashSpots \subseteq {"look", "wipe", "make", "use"}

VARIABLES
    custom,      \* the path is configured, not <config>/default-db
    parent,      \* its parent folder exists
    root,        \* the database folder exists
    entries,     \* what is in it, the meta file apart
    whole,       \* tables with all their files
    meta,        \* monodex-meta.json: none, torn, or the schema version it records
    shared, exclusive,   \* holders of locks/database.lock
    cmd, pc, outcome,    \* of each process
    crashes

folder == <<custom, parent, root, entries, whole, meta>>
locks  == <<shared, exclusive>>
vars   == <<folder, locks, cmd, pc, outcome, crashes>>

PCs == {"begin", "meta", "load", "chunks", "labels", "bare_chunks", "bare_labels", "list",
        "lockfile", "wait", "wipe", "make_chunks", "fill_chunks", "make_labels", "fill_labels",
        "make_fts", "make_meta", "write_meta", "open_tables", "using", "remove_fts",
        "remake_fts", "release", "end"}

TypeOK ==
    /\ custom \in BOOLEAN /\ parent \in BOOLEAN /\ root \in BOOLEAN
    /\ entries \subseteq Entries
    /\ whole \subseteq (entries \cap Tables)
    /\ meta \in {"none", "torn", "old", "current"}
    /\ shared \subseteq Procs
    /\ exclusive \in Procs \cup {NULL}
    /\ exclusive # NULL => shared = {}
    /\ cmd \in [Procs -> Commands]
    /\ pc \in [Procs -> PCs]
    /\ outcome \in [Procs -> {"none", "created", "already", "used", "refused", "no_parent", "crashed"}]
    /\ crashes \in 0..MaxCrashes

Init ==
    /\ \E name \in Starts :
         /\ custom \in IF Folder(name).root THEN {TRUE} ELSE BOOLEAN
         /\ parent \in IF Folder(name).root \/ ~custom THEN {TRUE} ELSE BOOLEAN
         /\ root = Folder(name).root
         /\ entries = Folder(name).entries
         /\ whole = Folder(name).entries \cap Tables
         /\ meta = Folder(name).meta
    /\ shared = {} /\ exclusive = NULL
    /\ cmd \in [Procs -> Commands]
    /\ pc = [p \in Procs |-> "begin"]
    /\ outcome = [p \in Procs |-> "none"]
    /\ crashes = 0

Initializes(p) == cmd[p] \in {"init", "wipe"}
Locked(p)      == exclusive = p \/ p \in shared

Goto(p, l)   == pc' = [pc EXCEPT ![p] = l] /\ UNCHANGED outcome
Finish(p, o) == /\ outcome' = [outcome EXCEPT ![p] = o]
                /\ pc' = [pc EXCEPT ![p] = IF Locked(p) THEN "release" ELSE "end"]

-----------------------------------------------------------------------------
(* run_init_db up to the first look; the others start with the lock, and    *)
(* readers with Database::open.                                             *)

BeginInit(p) ==
    /\ pc[p] = "begin"
    /\ Initializes(p)
    /\ IF custom /\ ~parent
       THEN Finish(p, "no_parent") /\ UNCHANGED <<parent, root>>
       ELSE /\ parent' = TRUE /\ root' = TRUE
            /\ Goto(p, IF cmd[p] = "wipe" THEN "lockfile" ELSE "meta")
    /\ UNCHANGED <<custom, entries, whole, meta, locks, cmd, crashes>>

BeginOpen(p) ==
    /\ pc[p] = "begin"
    /\ ~Initializes(p)
    /\ IF cmd[p] = "read"
       THEN IF root THEN Goto(p, "meta") ELSE Finish(p, "refused")
       ELSE Goto(p, "lockfile")
    /\ UNCHANGED <<folder, locks, cmd, crashes>>

(* ensure_lock_dir: create_dir_all makes whatever is missing on the way.    *)
OpenLockFile(p) ==
    /\ pc[p] = "lockfile"
    /\ parent' = TRUE /\ root' = TRUE
    /\ entries' = entries \cup {"locks"}
    /\ Goto(p, "wait")
    /\ UNCHANGED <<custom, whole, meta, locks, cmd, crashes>>

(* Mutant: init-db and purge --all wait for each other only. *)
WaitsForExclusive(p) == exclusive = NULL

LockFree(p) == exclusive = NULL /\ (cmd[p] = "write" \/ shared = {})

AcquireDatabase(p) ==
    /\ pc[p] = "wait"
    /\ LockFree(p)
    /\ IF cmd[p] = "write"
       THEN shared' = shared \cup {p} /\ UNCHANGED exclusive
       ELSE exclusive' = p /\ UNCHANGED shared
    /\ Goto(p, IF cmd[p] = "wipe" THEN "wipe" ELSE "meta")
    /\ UNCHANGED <<folder, cmd, crashes>>

-----------------------------------------------------------------------------
(* read_existing_database_state, entry by entry, and the two policies on    *)
(* what it says; Database::open makes the same looks but the bare ones.     *)

(* check_existing_database_pre_lock tolerates tables without a meta file,   *)
(* check_existing_database does not.                                        *)
Verdict(p, state) ==
    CASE state = "complete"            -> Finish(p, "already")
      [] state = "empty"               -> Goto(p, IF Locked(p) THEN "make_chunks" ELSE "lockfile")
      [] state = "tables_without_meta" -> IF Locked(p) THEN Finish(p, "refused")
                                                       ELSE Goto(p, "lockfile")
      [] OTHER                         -> Finish(p, "refused")

Looks(p, at) == pc[p] = at /\ UNCHANGED <<folder, locks, cmd, crashes>>

LookForMeta(p) ==
    /\ Looks(p, "meta")
    /\ IF meta # "none" THEN Goto(p, "load")
       ELSE IF Initializes(p) THEN Goto(p, "bare_chunks") ELSE Finish(p, "refused")

(* Mutant: a meta file that is there is one that is good. *)
TrustsMeta(p) ==
    /\ Looks(p, "load")
    /\ IF meta # "none" THEN Goto(p, "chunks") ELSE Finish(p, "refused")

(* A file that is torn, or gone since it was seen, does not load. *)
LoadMeta(p) ==
    /\ Looks(p, "load")
    /\ IF meta = "current" THEN Goto(p, "chunks") ELSE Finish(p, "refused")

LookForChunks(p) ==
    /\ Looks(p, "chunks")
    /\ IF "chunks" \in entries THEN Goto(p, "labels") ELSE Finish(p, "refused")

LookForLabels(p) ==
    /\ Looks(p, "labels")
    /\ IF "labels" \notin entries THEN Finish(p, "refused")
       ELSE IF Initializes(p) THEN Verdict(p, "complete") ELSE Goto(p, "open_tables")

LookForBareChunks(p) ==
    /\ Looks(p, "bare_chunks")
    /\ IF "chunks" \in entries THEN Verdict(p, "tables_without_meta") ELSE Goto(p, "bare_labels")

LookForBareLabels(p) ==
    /\ Looks(p, "bare_labels")
    /\ IF "labels" \in entries THEN Verdict(p, "tables_without_meta") ELSE Goto(p, "list")

Detritus == {"old_lock", "locks", "fts"}

ListFolder(p) ==
    /\ Looks(p, "list")
    /\ Verdict(p, IF meta = "none" /\ entries \subseteq Detritus THEN "empty" ELSE "foreign")

-----------------------------------------------------------------------------
(* delete_database_contents: every entry but the locks, in the order the    *)
(* file system lists them; a table folder loses files before it goes.       *)

WipeStarted(p) == pc[p] = "wipe" /\ UNCHANGED <<custom, parent, root, locks, cmd, crashes>>

Wiped == entries \subseteq {"locks"} /\ meta = "none"

WipeEntry(p) ==
    /\ WipeStarted(p)
    /\ ~Wiped
    /\ \/ \E t \in whole : whole' = whole \ {t} /\ UNCHANGED <<entries, meta>>
       \/ \E e \in entries \ (whole \cup {"locks"}) : entries' = entries \ {e} /\ UNCHANGED <<whole, meta>>
       \/ meta # "none" /\ meta' = "none" /\ UNCHANGED <<whole, entries>>
    /\ UNCHANGED <<pc, outcome>>

WipeDone(p) ==
    /\ WipeStarted(p)
    /\ Wiped
    /\ Goto(p, "make_chunks")
    /\ UNCHANGED <<entries, whole, meta>>

(* create_database: the tables, fts/, then the meta file, which exists      *)
(* empty before it is written.  create_empty_table fails on a table that    *)
(* is there.                                                                *)
Makes(p, at) == pc[p] = at /\ UNCHANGED <<custom, parent, root, locks, cmd, crashes>>

MakeAt == [chunks |-> "make_chunks", labels |-> "make_labels"]
FillAt == [chunks |-> "fill_chunks", labels |-> "fill_labels"]

MakeTable(p, t) ==
    /\ Makes(p, MakeAt[t])
    /\ IF t \in entries
       THEN Finish(p, "refused") /\ UNCHANGED entries
       ELSE Goto(p, FillAt[t]) /\ entries' = entries \cup {t}
    /\ UNCHANGED <<whole, meta>>

FillTable(p, t) ==
    /\ Makes(p, FillAt[t])
    /\ whole' = whole \cup {t}
    /\ Goto(p, IF t = "chunks" THEN "make_labels" ELSE "make_fts")
    /\ UNCHANGED <<entries, meta>>

MakeFts(p) ==
    /\ Makes(p, "make_fts")
    /\ entries' = entries \cup {"fts"}
    /\ Goto(p, "make_meta")
    /\ UNCHANGED <<whole, meta>>

MakeMeta(p) ==
    /\ Makes(p, "make_meta")
    /\ meta' = "torn"
    /\ Goto(p, "write_meta")
    /\ UNCHANGED <<entries, whole>>

WriteMeta(p) ==
    /\ Makes(p, "write_meta")
    /\ meta' = "current"
    /\ Finish(p, "created")
    /\ UNCHANGED <<entries, whole>>

-----------------------------------------------------------------------------
(* Opening the tables, and using them.  A table that lacks files may open.  *)

OpenTables(p) ==
    /\ Looks(p, "open_tables")
    /\ \/ Tables \subseteq entries /\ Goto(p, "using")
       \/ ~(Tables \subseteq whole) /\ Finish(p, "refused")

Use(p) ==
    /\ Looks(p, "using")
    /\ IF cmd[p] = "purge_all" THEN Goto(p, "remove_fts") ELSE Finish(p, "used")

(* Mutant: purge --all removes a table where it should truncate it. *)
RemoveFtsAndChunks(p) ==
    /\ Makes(p, "remove_fts")
    /\ entries' = entries \ {"fts", "chunks"}
    /\ whole' = whole \ {"chunks"}
    /\ Goto(p, "remake_fts")
    /\ UNCHANGED meta

(* run_purge_all_async: the tables are truncated in place, fts/ is removed  *)
(* and made again.                                                          *)
RemoveFts(p) ==
    /\ Makes(p, "remove_fts")
    /\ entries' = entries \ {"fts"}
    /\ Goto(p, "remake_fts")
    /\ UNCHANGED <<whole, meta>>

RemakeFts(p) ==
    /\ Makes(p, "remake_fts")
    /\ entries' = entries \cup {"fts"}
    /\ Finish(p, "used")
    /\ UNCHANGED <<whole, meta>>

(* Mutant: the guard of an exclusive lock is leaked. *)
DropSharedGuard(p) == shared' = shared \ {p} /\ UNCHANGED exclusive

DropGuard(p) ==
    /\ shared' = shared \ {p}
    /\ exclusive' = IF exclusive = p THEN NULL ELSE exclusive

Release(p) ==
    /\ pc[p] = "release"
    /\ DropGuard(p)
    /\ Goto(p, "end")
    /\ UNCHANGED <<folder, cmd, crashes>>

(* Ctrl+C, a kill, or an error of the file system.  What was written stays. *)
Spot(p) ==
    CASE pc[p] = "wipe" -> "wipe"
      [] pc[p] \in {"make_chunks", "fill_chunks", "make_labels", "fill_labels",
                    "make_fts", "make_meta", "write_meta"} -> "make"
      [] pc[p] \in {"using", "remove_fts", "remake_fts"} -> "use"
      [] OTHER -> "look"

Crash(p) ==
    /\ pc[p] \notin {"begin", "end"}
    /\ Spot(p) \in CrashSpots
    /\ crashes < MaxCrashes
    /\ crashes' = crashes + 1
    /\ DropGuard(p)
    /\ pc' = [pc EXCEPT ![p] = "end"]
    /\ outcome' = [outcome EXCEPT ![p] = "crashed"]
    /\ UNCHANGED <<folder, cmd>>

-----------------------------------------------------------------------------

Look(p) ==
    \/ LookForMeta(p)
    \/ LoadMeta(p)
    \/ LookForChunks(p)
    \/ LookForLabels(p)
    \/ LookForBareChunks(p)
    \/ LookForBareLabels(p)
    \/ ListFolder(p)
    \/ OpenTables(p)

Make(p) ==
    \/ \E t \in Tables : MakeTable(p, t) \/ FillTable(p, t)
    \/ MakeFts(p)
    \/ MakeMeta(p)
    \/ WriteMeta(p)

Proceed(p) ==
    \/ BeginInit(p)
    \/ BeginOpen(p)
    \/ OpenLockFile(p)
    \/ AcquireDatabase(p)
    \/ Look(p)
    \/ WipeEntry(p)
    \/ WipeDone(p)
    \/ Make(p)
    \/ Use(p)
    \/ RemoveFts(p)
    \/ RemakeFts(p)
    \/ Release(p)

Next == \E p \in Procs : Proceed(p) \/ Crash(p)

Spec == Init /\ [][Next]_vars

(* A command waits for nothing but the lock, which its holder drops.        *)
FairSpec == Spec /\ \A p \in Procs : WF_vars(Proceed(p))

-----------------------------------------------------------------------------
(* Properties *)

Good == meta = "current" /\ Tables \subseteq whole

(* A command that opened the database under a lock works on a complete one. *)
OpenedUnderLockIsGood ==
    \A p \in Procs : pc[p] \in {"using", "remove_fts", "remake_fts"} /\ Locked(p) => Good

(* create_database never meets a table, a meta file or a user of either:    *)
(* create_empty_table cannot fail for what another command left behind.     *)
MakesOnEmptyFolder ==
    \A p \in Procs : pc[p] = "make_chunks" =>
        /\ entries \cap Tables = {} /\ meta = "none"
        /\ exclusive = p

(* A database is unmade by init-db --delete-everything and by nothing else, *)
(* however the other commands interleave and wherever they are interrupted. *)
OnlyWipeUnmakes ==
    [][Good /\ ~Good' => exclusive # NULL /\ cmd[exclusive] = "wipe"]_vars

(* The remedy every error message names works from any folder: init-db      *)
(* --delete-everything ends with a created database unless it is interrupted*)
(* or the parent folder is missing.                                         *)
WipeRecovers ==
    \A p \in Procs : cmd[p] = "wipe" ~> outcome[p] \in {"created", "crashed", "no_parent"}

(* A folder holds a good database or not; who opened it keeps it good.      *)
Life == INSTANCE DatabaseLife
            WITH good <- Good,
                 users <- {p \in shared : pc[p] = "using"}
ImplementsLife == Life!Spec

=============================================================================
