---------------------------- MODULE WriterLocks ----------------------------
(***************************************************************************)
(* The locks that coordinate the writers of one database                   *)
(* (src/engine/storage/locks.rs): the database lock, shared or exclusive,  *)
(* one lock per catalog, and the commit mutex around LanceDB writes.  They *)
(* are kernel file locks: acquisition blocks, and the kernel releases what *)
(* a dead process held, one file at a time.                                *)
(*                                                                         *)
(* A process runs one command, and one that starts late is one that comes  *)
(* late to its first lock.  crawl and purge --catalog write to one         *)
(* catalog; purge --all and init-db write to all of them.                  *)
(***************************************************************************)
EXTENDS Naturals, FiniteSets

CONSTANTS Procs,       \* processes, one command each
          Catalogs,
          NULL,
          MaxWrites    \* bound: LanceDB writes of a command

Spanning == {"purge_all", "init_db"}
Jobs == Catalogs \cup Spanning

ASSUME LocksAssumption ==
    /\ NULL \notin Procs
    /\ Catalogs # {} /\ Catalogs \cap Spanning = {}
    /\ MaxWrites \in Nat

VARIABLES
    pc, job,       \* of each process: where it is, what it was asked for
    dbShared,      \* holders of locks/database.lock in shared mode
    dbExclusive,   \* its exclusive holder, or NULL
    catalogLock,   \* holder of each locks/per-catalog/<catalog>.lock, or NULL
    commitMutex,   \* holder of locks/commit.lock, or NULL
    content,       \* writes each catalog has taken: its logical contents
    seen,          \* contents as each process last read them
    version,       \* commits of the LanceDB datasets
    base,          \* version the write of each process started from
    writes, held   \* writes of each command; those under its current mutex hold

locks == <<dbShared, dbExclusive, catalogLock, commitMutex>>
data  == <<content, version>>
vars  == <<pc, job, locks, data, seen, base, writes, held>>

PCs == {"database", "catalog", "running", "commit", "locked", "writing",
        "release_catalog", "release_database", "done", "dead"}

(* Holding its locks, from acquisition to the drop of the first guard.      *)
Inside(p) == pc[p] \in {"running", "commit", "locked", "writing"}
Scope(p)  == IF job[p] \in Catalogs THEN {job[p]} ELSE Catalogs

(* The database lock has one exclusive holder or any number of shared ones. *)
TypeOK ==
    /\ pc \in [Procs -> PCs]
    /\ job \in [Procs -> Jobs]
    /\ dbShared \subseteq Procs
    /\ dbExclusive \in Procs \cup {NULL}
    /\ dbExclusive # NULL => dbShared = {}
    /\ catalogLock \in [Catalogs -> Procs \cup {NULL}]
    /\ commitMutex \in Procs \cup {NULL}
    /\ content \in [Catalogs -> Nat]
    /\ seen \in [Procs -> [Catalogs -> Nat]]
    /\ version \in Nat
    /\ base \in [Procs -> Nat]
    /\ writes \in [Procs -> Nat]
    /\ held \in [Procs -> Nat]

Init ==
    /\ pc = [p \in Procs |-> "database"]
    /\ job \in [Procs -> Jobs]
    /\ dbShared = {} /\ dbExclusive = NULL
    /\ catalogLock = [c \in Catalogs |-> NULL]
    /\ commitMutex = NULL
    /\ content = [c \in Catalogs |-> 0]
    /\ seen = [p \in Procs |-> content]
    /\ version = 0
    /\ base = [p \in Procs |-> 0]
    /\ writes = [p \in Procs |-> 0]
    /\ held = [p \in Procs |-> 0]

Goto(p, l) == pc' = [pc EXCEPT ![p] = l]

-----------------------------------------------------------------------------
(* Acquisition: database, then catalog.                                     *)

(* Mutant: only other exclusive holders are waited for. *)
ExclusiveFreeOfExclusive == dbExclusive = NULL

ExclusiveFree == dbExclusive = NULL /\ dbShared = {}

AcquireDatabaseShared(p) ==
    /\ pc[p] = "database"
    /\ job[p] \in Catalogs
    /\ dbExclusive = NULL
    /\ dbShared' = dbShared \cup {p}
    /\ Goto(p, "catalog")
    /\ UNCHANGED <<job, dbExclusive, catalogLock, commitMutex, data, seen, base, writes, held>>

AcquireDatabaseExclusive(p) ==
    /\ pc[p] = "database"
    /\ job[p] \in Spanning
    /\ ExclusiveFree
    /\ dbExclusive' = p
    /\ Goto(p, "running")
    /\ UNCHANGED <<job, dbShared, catalogLock, commitMutex, data, seen, base, writes, held>>

(* Mutant: the lock is keyed by nothing that tells two holders apart. *)
CatalogAlwaysFree(c) == TRUE

CatalogFree(c) == catalogLock[c] = NULL

AcquireCatalog(p) ==
    /\ pc[p] = "catalog"
    /\ CatalogFree(job[p])
    /\ catalogLock' = [catalogLock EXCEPT ![job[p]] = p]
    /\ Goto(p, "running")
    /\ UNCHANGED <<job, dbShared, dbExclusive, commitMutex, data, seen, base, writes, held>>

-----------------------------------------------------------------------------
(* Writing.  A storage method takes the commit mutex for itself; callers    *)
(* compute what they write from rows they read before, without it.          *)

ReadRows(p) ==
    /\ pc[p] = "running"
    /\ writes[p] < MaxWrites
    /\ seen' = [seen EXCEPT ![p] = content]
    /\ Goto(p, "commit")
    /\ UNCHANGED <<job, locks, data, base, writes, held>>

(* Mutant: a storage method that forgets the mutex. *)
NobodyTakesMutex(p) == FALSE

(* init-db creates its tables through the connection, without the mutex.    *)
TakesMutex(p) == job[p] # "init_db"

AcquireCommitMutex(p) ==
    /\ pc[p] = "commit"
    /\ IF TakesMutex(p)
       THEN commitMutex = NULL /\ commitMutex' = p
       ELSE UNCHANGED commitMutex
    /\ held' = [held EXCEPT ![p] = 0]
    /\ Goto(p, "locked")
    /\ UNCHANGED <<job, dbShared, dbExclusive, catalogLock, data, seen, base, writes>>

(* A LanceDB write is built on the newest version of the dataset ...        *)
BeginWrite(p) ==
    /\ pc[p] = "locked"
    /\ writes[p] < MaxWrites
    /\ base' = [base EXCEPT ![p] = version]
    /\ writes' = [writes EXCEPT ![p] = @ + 1]
    /\ Goto(p, "writing")
    /\ UNCHANGED <<job, locks, data, seen, held>>

(* ... and commits against that version; another commit in between is a     *)
(* CommitConflict, and is not enabled here.  The rows get the values the    *)
(* caller computed from what it had read.                                   *)
CommitWrite(p) ==
    /\ pc[p] = "writing"
    /\ base[p] = version
    /\ version' = version + 1
    /\ content' = [c \in Catalogs |-> IF c \in Scope(p) THEN seen[p][c] + 1 ELSE content[c]]
    /\ seen' = [seen EXCEPT ![p] = content']
    /\ held' = [held EXCEPT ![p] = @ + 1]
    /\ Goto(p, "locked")
    /\ UNCHANGED <<job, locks, base, writes>>

(* The method returns and its guard is dropped: after one write, or after   *)
(* the whole loop in remove_label_from_chunks and the batched upserts.      *)
ReleaseCommitMutex(p) ==
    /\ pc[p] = "locked"
    /\ held[p] > 0
    /\ commitMutex' = IF TakesMutex(p) THEN NULL ELSE commitMutex
    /\ Goto(p, "running")
    /\ UNCHANGED <<job, dbShared, dbExclusive, catalogLock, data, seen, base, writes, held>>

(* A write that returns an error has changed nothing; the guard is dropped. *)
WriteFails(p) ==
    /\ pc[p] = "writing"
    /\ commitMutex' = IF TakesMutex(p) THEN NULL ELSE commitMutex
    /\ Goto(p, "running")
    /\ UNCHANGED <<job, dbShared, dbExclusive, catalogLock, data, seen, base, writes, held>>

-----------------------------------------------------------------------------
(* Release: the guards drop in reverse order when the command returns.      *)

Return(p) ==
    /\ pc[p] = "running"
    /\ Goto(p, IF job[p] \in Catalogs THEN "release_catalog" ELSE "release_database")
    /\ UNCHANGED <<job, locks, data, seen, base, writes, held>>

ReleaseCatalog(p) ==
    /\ pc[p] = "release_catalog"
    /\ catalogLock' = [catalogLock EXCEPT ![job[p]] = NULL]
    /\ Goto(p, "release_database")
    /\ UNCHANGED <<job, dbShared, dbExclusive, commitMutex, data, seen, base, writes, held>>

(* Mutant: the guard of the database lock is leaked. *)
DatabaseGuardLeaked(p) == UNCHANGED <<dbShared, dbExclusive>>

DropDatabaseGuard(p) ==
    /\ dbShared' = dbShared \ {p}
    /\ dbExclusive' = IF dbExclusive = p THEN NULL ELSE dbExclusive

ReleaseDatabase(p) ==
    /\ pc[p] = "release_database"
    /\ DropDatabaseGuard(p)
    /\ Goto(p, "done")
    /\ UNCHANGED <<job, catalogLock, commitMutex, data, seen, base, writes, held>>

(* Ctrl+C, kill -9 or a panic: an uncommitted write is lost, and the locks  *)
(* stay until the kernel closes the file handles, in no particular order.   *)
Die(p) ==
    /\ pc[p] \notin {"done", "dead"}
    /\ Goto(p, "dead")
    /\ UNCHANGED <<job, locks, data, seen, base, writes, held>>

KernelReleasesDatabase(p) ==
    /\ pc[p] = "dead"
    /\ p \in dbShared \/ dbExclusive = p
    /\ dbShared' = dbShared \ {p}
    /\ dbExclusive' = IF dbExclusive = p THEN NULL ELSE dbExclusive
    /\ UNCHANGED <<pc, job, catalogLock, commitMutex, data, seen, base, writes, held>>

KernelReleasesCatalog(p, c) ==
    /\ pc[p] = "dead"
    /\ catalogLock[c] = p
    /\ catalogLock' = [catalogLock EXCEPT ![c] = NULL]
    /\ UNCHANGED <<pc, job, dbShared, dbExclusive, commitMutex, data, seen, base, writes, held>>

KernelReleasesMutex(p) ==
    /\ pc[p] = "dead"
    /\ commitMutex = p
    /\ commitMutex' = NULL
    /\ UNCHANGED <<pc, job, dbShared, dbExclusive, catalogLock, data, seen, base, writes, held>>

-----------------------------------------------------------------------------

Kernel(p) ==
    \/ KernelReleasesDatabase(p)
    \/ \E c \in Catalogs : KernelReleasesCatalog(p, c)
    \/ KernelReleasesMutex(p)

Proceed(p) ==
    \/ AcquireDatabaseShared(p)
    \/ AcquireDatabaseExclusive(p)
    \/ AcquireCatalog(p)
    \/ ReadRows(p)
    \/ AcquireCommitMutex(p)
    \/ BeginWrite(p)
    \/ CommitWrite(p)
    \/ ReleaseCommitMutex(p)
    \/ Return(p)
    \/ ReleaseCatalog(p)
    \/ ReleaseDatabase(p)

Next == \E p \in Procs : Proceed(p) \/ WriteFails(p) \/ Die(p) \/ Kernel(p)

Spec == Init /\ [][Next]_vars

(* A command that can run does, and the kernel cleans up after a dead one.  *)
(* Nothing is assumed of the order in which the kernel wakes the waiting.   *)
FairSpec == Spec /\ \A p \in Procs : WF_vars(Proceed(p)) /\ WF_vars(Kernel(p))

-----------------------------------------------------------------------------
(* Properties *)

(* Two commands that hold their locks at once write to different catalogs.  *)
OneWriterPerCatalog ==
    \A p, q \in Procs : p # q /\ Inside(p) /\ Inside(q) => Scope(p) \cap Scope(q) = {}

(* What a command read before it waited for the commit mutex is still what  *)
(* the catalog holds when it writes (label_add reads and rewrites label     *)
(* lists that way): only the catalog lock makes this true.                  *)
ReadsStayCurrent ==
    \A p \in Procs : pc[p] \in {"commit", "locked", "writing"} =>
        \A c \in Scope(p) : seen[p][c] = content[c]

(* No LanceDB write can meet a CommitConflict.                              *)
NoCommitConflict == \A p \in Procs : pc[p] = "writing" => base[p] = version

(* A catalog is owned by the command that holds its locks.                  *)
owner == [c \in Catalogs |->
             IF \E p \in Procs : Inside(p) /\ c \in Scope(p)
             THEN CHOOSE p \in Procs : Inside(p) /\ c \in Scope(p)
             ELSE NULL]
Ownership == INSTANCE CatalogOwnership WITH owner <- owner, content <- content

(* The locks implement exclusive ownership with no lost write.              *)
ImplementsOwnership == Ownership!Spec

(* Nobody waits for ever: acquisition in the order database, catalog, mutex *)
(* cannot deadlock, and a death anywhere frees what others wait for.        *)
EveryCommandEnds == \A p \in Procs : pc[p] = "database" ~> pc[p] \in {"done", "dead"}
=============================================================================
