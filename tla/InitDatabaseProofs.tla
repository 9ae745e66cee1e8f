------------------------- MODULE InitDatabaseProofs -------------------------
(***************************************************************************)
(* Theorems about InitDatabase for any number of commands: what keeps a    *)
(* database good while init-db, --delete-everything, crawls and purges     *)
(* look at its folder, wait for its lock and are interrupted.  They assume *)
(* that no --delete-everything is interrupted in its deletion: it removes  *)
(* tables and meta file in any order, and the README says what can follow. *)
(***************************************************************************)
EXTENDS InitDatabase, TLAPS

USE DEF folder, locks

Making  == {"make_chunks", "fill_chunks", "make_labels", "fill_labels",
            "make_fts", "make_meta", "write_meta"}
Looking == {"meta", "load", "chunks", "labels", "bare_chunks", "bare_labels", "list",
            "open_tables"}

(* What a command holds follows from what it is and where it is.            *)
HoldsLock(p) ==
    /\ p \in shared => cmd[p] = "write"
    /\ exclusive = p => cmd[p] \in {"init", "wipe", "purge_all"}
    /\ pc[p] \in Making \cup {"wipe", "remove_fts", "remake_fts"} => exclusive = p
    /\ pc[p] = "wipe" => cmd[p] = "wipe"
    /\ pc[p] \in {"lockfile", "wait"} => cmd[p] # "read"
    /\ pc[p] \in {"begin", "lockfile", "wait", "end"} => ~Locked(p)
    /\ pc[p] \in {"bare_chunks", "bare_labels", "list"} => Initializes(p)
    /\ pc[p] \in Looking \cup {"using"} /\ cmd[p] \in {"write", "purge_all"} => Locked(p)
    /\ pc[p] \in {"remove_fts", "remake_fts"} => cmd[p] = "purge_all"

LocksType ==
    /\ shared \subseteq Procs
    /\ exclusive \in Procs \cup {NULL}
    /\ exclusive # NULL => shared = {}
    /\ cmd \in [Procs -> Commands]
    /\ pc \in [Procs -> PCs]

LockInv == LocksType /\ \A p \in Procs : HoldsLock(p)

LEMMA InitLockInv == Init => LockInv
BY InitDatabaseAssumption
   DEF Init, LockInv, LocksType, HoldsLock, Locked, Making, Looking, PCs

LEMMA NextLockInv == LockInv /\ [Next]_vars => LockInv'
<1> SUFFICES ASSUME LockInv, [Next]_vars PROVE LockInv'
  OBVIOUS
<1> USE InitDatabaseAssumption
    DEF LockInv, LocksType, HoldsLock, Locked, Initializes, Making, Looking, PCs, Goto,
        Finish, AllCommands
<1>1. ASSUME NEW p \in Procs, BeginInit(p) PROVE LockInv'
  BY <1>1 DEF BeginInit
<1>2. ASSUME NEW p \in Procs, BeginOpen(p) PROVE LockInv'
  BY <1>2 DEF BeginOpen
<1>3. ASSUME NEW p \in Procs, OpenLockFile(p) PROVE LockInv'
  BY <1>3 DEF OpenLockFile
<1>4. ASSUME NEW p \in Procs, AcquireDatabase(p) PROVE LockInv'
  <2>1. CASE cmd[p] = "write"
    BY <1>4, <2>1 DEF AcquireDatabase, LockFree
  <2>2. CASE cmd[p] # "write"
    <3>1. cmd[p] \in {"init", "wipe", "purge_all"}
      BY <1>4, <2>2 DEF AcquireDatabase
    <3> QED
      BY <1>4, <2>2, <3>1 DEF AcquireDatabase, LockFree
  <2> QED
    BY <2>1, <2>2
<1>5. ASSUME NEW p \in Procs, Look(p) PROVE LockInv'
  <2> USE DEF Looks
  <2>1. CASE LookForMeta(p)
    BY <2>1 DEF LookForMeta
  <2>2. CASE LoadMeta(p)
    BY <2>2 DEF LoadMeta
  <2>3. CASE LookForChunks(p)
    BY <2>3 DEF LookForChunks
  <2>4. CASE LookForLabels(p)
    BY <2>4 DEF LookForLabels, Verdict
  <2>5. CASE LookForBareChunks(p)
    BY <2>5 DEF LookForBareChunks, Verdict
  <2>6. CASE LookForBareLabels(p)
    BY <2>6 DEF LookForBareLabels, Verdict
  <2>7. CASE ListFolder(p)
    BY <2>7 DEF ListFolder, Verdict
  <2>8. CASE OpenTables(p)
    BY <2>8 DEF OpenTables
  <2> QED
    BY <1>5, <2>1, <2>2, <2>3, <2>4, <2>5, <2>6, <2>7, <2>8 DEF Look
<1>6. ASSUME NEW p \in Procs, WipeEntry(p) \/ WipeDone(p) PROVE LockInv'
  BY <1>6 DEF WipeEntry, WipeDone, WipeStarted
<1>7. ASSUME NEW p \in Procs, NEW t \in Tables, MakeTable(p, t) \/ FillTable(p, t)
      PROVE  LockInv'
  BY <1>7 DEF MakeTable, FillTable, Makes, MakeAt, FillAt, Tables
<1>8. ASSUME NEW p \in Procs, MakeFts(p) \/ MakeMeta(p) \/ WriteMeta(p) PROVE LockInv'
  BY <1>8 DEF MakeFts, MakeMeta, WriteMeta, Makes
<1>9. ASSUME NEW p \in Procs, Use(p) PROVE LockInv'
  BY <1>9 DEF Use, Looks
<1>10. ASSUME NEW p \in Procs, RemoveFts(p) \/ RemakeFts(p) PROVE LockInv'
  BY <1>10 DEF RemoveFts, RemakeFts, Makes
<1>11. ASSUME NEW p \in Procs, Release(p) PROVE LockInv'
  BY <1>11 DEF Release, DropGuard
<1>12. ASSUME NEW p \in Procs, Crash(p) PROVE LockInv'
  BY <1>12 DEF Crash, DropGuard
<1>13. CASE UNCHANGED vars
  BY <1>13 DEF vars
<1> QED
  BY <1>1, <1>2, <1>3, <1>4, <1>5, <1>6, <1>7, <1>8, <1>9, <1>10, <1>11, <1>12, <1>13
     DEF Next, Proceed, Make

-----------------------------------------------------------------------------

(* A meta file of this version vouches for the tables unless somebody is    *)
(* deleting; who makes a database made everything so far and has not yet    *)
(* written the meta file; who looked under the lock still sees what it saw. *)
NobodyWipes == \A p \in Procs : pc[p] # "wipe"

MetaVouches == NobodyWipes /\ meta = "current" => Tables \subseteq whole

MadeSoFar(p) ==
    /\ pc[p] \in Making \ {"write_meta"} => meta = "none"
    /\ pc[p] = "write_meta" => meta = "torn"
    /\ pc[p] = "make_chunks" => entries \cap Tables = {}
    /\ pc[p] \in {"make_labels", "fill_labels"} => "chunks" \in whole
    /\ pc[p] \in {"make_fts", "make_meta", "write_meta"} => Tables \subseteq whole

SeenUnderLock(p) ==
    Locked(p) =>
        /\ pc[p] \in {"chunks", "labels", "open_tables", "using", "remove_fts", "remake_fts"} =>
              meta = "current"
        /\ pc[p] \in {"bare_labels", "list"} => "chunks" \notin entries
        /\ pc[p] = "list" => "labels" \notin entries

FolderInv ==
    /\ LockInv
    /\ MetaVouches
    /\ \A p \in Procs : MadeSoFar(p) /\ SeenUnderLock(p)

LEMMA InitFolderInv == Init => FolderInv
<1> SUFFICES ASSUME Init PROVE MetaVouches /\ \A p \in Procs : MadeSoFar(p) /\ SeenUnderLock(p)
  BY InitLockInv DEF FolderInv
<1>1. PICK name \in Starts : /\ whole = Folder(name).entries \cap Tables
                             /\ meta = Folder(name).meta
  BY DEF Init
<1>2. MetaVouches
  BY <1>1, InitDatabaseAssumption DEF MetaVouches, Folder, Tables
<1> QED
  BY <1>2 DEF Init, MadeSoFar, SeenUnderLock, Making

(* The exclusive lock keeps every other command away from what it guards.   *)
LEMMA Alone ==
    ASSUME LockInv, NEW p \in Procs, exclusive = p, NEW q \in Procs, q # p
    PROVE  /\ ~Locked(q)
           /\ pc[q] \notin Making \cup {"wipe", "remove_fts", "remake_fts"}
BY InitDatabaseAssumption DEF LockInv, LocksType, HoldsLock, Locked

LEMMA NextFolderInv ==
    ASSUME "wipe" \notin CrashSpots
    PROVE  FolderInv /\ [Next]_vars => FolderInv'
<1> SUFFICES ASSUME FolderInv, [Next]_vars
             PROVE  MetaVouches' /\ \A q \in Procs : MadeSoFar(q)' /\ SeenUnderLock(q)'
  BY NextLockInv DEF FolderInv
<1> DEFINE Keeps == MetaVouches' /\ \A q \in Procs : MadeSoFar(q)' /\ SeenUnderLock(q)'
<1> USE InitDatabaseAssumption
    DEF FolderInv, LockInv, LocksType, HoldsLock, Tables, Locked, Initializes, Making, Looking,
        PCs, Goto, Finish, MetaVouches, NobodyWipes, MadeSoFar, SeenUnderLock
<1>1. ASSUME NEW p \in Procs, BeginInit(p) PROVE Keeps
  BY <1>1 DEF BeginInit
<1>2. ASSUME NEW p \in Procs, BeginOpen(p) PROVE Keeps
  BY <1>2 DEF BeginOpen
<1>3. ASSUME NEW p \in Procs, OpenLockFile(p) PROVE Keeps
  BY <1>3 DEF OpenLockFile
<1>4. ASSUME NEW p \in Procs, AcquireDatabase(p) PROVE Keeps
  BY <1>4 DEF AcquireDatabase, LockFree
<1>5. ASSUME NEW p \in Procs, Look(p) PROVE Keeps
  <2> USE DEF Looks
  <2>1. CASE LookForMeta(p)
    BY <2>1 DEF LookForMeta
  <2>2. CASE LoadMeta(p)
    BY <2>2 DEF LoadMeta
  <2>3. CASE LookForChunks(p)
    BY <2>3 DEF LookForChunks
  <2>4. CASE LookForLabels(p)
    BY <2>4 DEF LookForLabels, Verdict
  <2>5. CASE LookForBareChunks(p)
    BY <2>5 DEF LookForBareChunks, Verdict
  <2>6. CASE LookForBareLabels(p)
    BY <2>6 DEF LookForBareLabels, Verdict
  <2>7. CASE ListFolder(p)
    BY <2>7 DEF ListFolder, Verdict, Detritus
  <2>8. CASE OpenTables(p)
    BY <2>8 DEF OpenTables
  <2> QED
    BY <1>5, <2>1, <2>2, <2>3, <2>4, <2>5, <2>6, <2>7, <2>8 DEF Look
<1>6. ASSUME NEW p \in Procs, WipeEntry(p) PROVE Keeps
  <2>1. /\ pc[p] = "wipe" /\ exclusive = p
        /\ UNCHANGED <<pc, shared, exclusive>>
    BY <1>6 DEF WipeEntry, WipeStarted
  <2>2. ~NobodyWipes'
    BY <2>1
  <2> QED
    BY <2>1, <2>2, Alone
<1>7. ASSUME NEW p \in Procs, WipeDone(p) PROVE Keeps
  <2>1. /\ pc[p] = "wipe" /\ exclusive = p /\ meta = "none" /\ entries \cap Tables = {}
        /\ pc' = [pc EXCEPT ![p] = "make_chunks"]
        /\ UNCHANGED <<shared, exclusive, entries, whole, meta>>
    BY <1>7 DEF WipeDone, WipeStarted, Wiped
  <2> QED
    BY <2>1, Alone
<1>8. ASSUME NEW p \in Procs, NEW t \in Tables, MakeTable(p, t) \/ FillTable(p, t) PROVE Keeps
  <2>1. /\ exclusive = p /\ pc[p] \in Making \ {"write_meta"} /\ UNCHANGED <<shared, exclusive, meta>>
        /\ meta = "none"
    BY <1>8 DEF MakeTable, FillTable, Makes, MakeAt, FillAt
  <2>2. \A q \in Procs \ {p} : pc'[q] = pc[q]
    BY <1>8 DEF MakeTable, FillTable, Makes
  <2>3. \A q \in Procs \ {p} : MadeSoFar(q)' /\ SeenUnderLock(q)'
    BY <2>1, <2>2, Alone
  <2>4. MadeSoFar(p)' /\ SeenUnderLock(p)'
    BY <1>8, <2>1 DEF MakeTable, FillTable, Makes, MakeAt, FillAt
  <2> QED
    BY <2>1, <2>3, <2>4
<1>9. ASSUME NEW p \in Procs, MakeFts(p) \/ MakeMeta(p) \/ WriteMeta(p) PROVE Keeps
  <2>1. /\ exclusive = p /\ pc[p] \in Making /\ Tables \subseteq whole
        /\ UNCHANGED <<shared, exclusive, whole>>
        /\ \A q \in Procs \ {p} : pc'[q] = pc[q]
    BY <1>9 DEF MakeFts, MakeMeta, WriteMeta, Makes
  <2>2. \A q \in Procs \ {p} : MadeSoFar(q)' /\ SeenUnderLock(q)'
    BY <2>1, Alone
  <2>3. MadeSoFar(p)' /\ SeenUnderLock(p)'
    BY <1>9, <2>1 DEF MakeFts, MakeMeta, WriteMeta, Makes
  <2> QED
    BY <2>1, <2>2, <2>3
<1>10. ASSUME NEW p \in Procs, Use(p) PROVE Keeps
  BY <1>10 DEF Use, Looks
<1>11. ASSUME NEW p \in Procs, RemoveFts(p) \/ RemakeFts(p) PROVE Keeps
  <2>1. /\ exclusive = p /\ pc[p] \in {"remove_fts", "remake_fts"}
        /\ UNCHANGED <<shared, exclusive, whole, meta>>
        /\ \A q \in Procs \ {p} : pc'[q] = pc[q]
        /\ pc'[p] \in {"remake_fts", "release", "end"}
    BY <1>11 DEF RemoveFts, RemakeFts, Makes
  <2>2. \A q \in Procs \ {p} : MadeSoFar(q)' /\ SeenUnderLock(q)'
    BY <2>1, Alone
  <2> QED
    BY <2>1, <2>2
<1>12. ASSUME NEW p \in Procs, Release(p) PROVE Keeps
  BY <1>12 DEF Release, DropGuard
<1>13. ASSUME NEW p \in Procs, Crash(p) PROVE Keeps
  <2>1. pc[p] # "wipe"
    BY <1>13 DEF Crash, Spot
  <2> QED
    BY <1>13, <2>1 DEF Crash, DropGuard
<1>14. CASE UNCHANGED vars
  BY <1>14 DEF vars
<1> QED
  BY <1>1, <1>2, <1>3, <1>4, <1>5, <1>6, <1>7, <1>8, <1>9, <1>10, <1>11, <1>12, <1>13, <1>14
     DEF Next, Proceed, Make
-----------------------------------------------------------------------------

LEMMA UsersFindItGood ==
    ASSUME FolderInv, NEW p \in Procs, Locked(p),
           pc[p] \in {"open_tables", "using", "remove_fts", "remake_fts"}
    PROVE  Good
<1>1. NobodyWipes
  BY InitDatabaseAssumption
     DEF FolderInv, LockInv, LocksType, HoldsLock, Locked, NobodyWipes
<1> QED
  BY <1>1 DEF FolderInv, MetaVouches, SeenUnderLock, Good

LEMMA FolderInvariant == ASSUME "wipe" \notin CrashSpots PROVE Spec => []FolderInv
<1>1. FolderInv /\ [Next]_vars => FolderInv'
  BY NextFolderInv
<1> QED
  BY <1>1, InitFolderInv, PTL DEF Spec

(* Whoever opened the database under the lock, shared or exclusive, works   *)
(* on a complete database of its own version for as long as it holds it.    *)
THEOREM WritersFindADatabase ==
    ASSUME "wipe" \notin CrashSpots
    PROVE  Spec => []OpenedUnderLockIsGood
<1>1. FolderInv => OpenedUnderLockIsGood
  BY UsersFindItGood DEF OpenedUnderLockIsGood
<1> QED
  BY <1>1, FolderInvariant, PTL

(* create_database runs alone and on a folder without tables or meta file:  *)
(* the checks made under the lock cannot be overtaken.                      *)
THEOREM CreationMeetsNothing ==
    ASSUME "wipe" \notin CrashSpots
    PROVE  Spec => []MakesOnEmptyFolder
<1>1. FolderInv => MakesOnEmptyFolder
  BY DEF FolderInv, LockInv, HoldsLock, MadeSoFar, MakesOnEmptyFolder, Making
<1> QED
  BY <1>1, FolderInvariant, PTL

-----------------------------------------------------------------------------
(* What a step does to a good database and to its users. *)

Users == {p \in shared : pc[p] = "using"}

Deletes == Good /\ ~Good' /\ exclusive # NULL /\ cmd[exclusive] = "wipe"
Creates == ~Good /\ Good' /\ exclusive # NULL

LifeStep ==
    \/ (Deletes \/ Creates) /\ Users = {} /\ UNCHANGED Users
    \/ UNCHANGED Good /\ UNCHANGED Users
    \/ UNCHANGED Good /\ \E p \in Procs : Users' = Users \ {p}
    \/ UNCHANGED Good /\ Good /\ \E p \in Procs : Users' = Users \cup {p}

LEMMA StepOnLife == ASSUME FolderInv, [Next]_vars PROVE LifeStep
<1> USE DEF LockInv, LocksType, Goto, Finish, Users, LifeStep
<1>1. ASSUME NEW p \in Procs, BeginInit(p) \/ BeginOpen(p) \/ OpenLockFile(p) PROVE LifeStep
  BY <1>1 DEF BeginInit, BeginOpen, OpenLockFile, Good, FolderInv
<1>2. ASSUME NEW p \in Procs, AcquireDatabase(p) PROVE LifeStep
  BY <1>2 DEF AcquireDatabase, Good, FolderInv
<1>3. ASSUME NEW p \in Procs, Look(p) PROVE LifeStep
  <2>1. UNCHANGED <<shared, exclusive, whole, meta>> /\ UNCHANGED Good
    BY <1>3 DEF Look, Looks, LookForMeta, LoadMeta, LookForChunks, LookForLabels,
                LookForBareChunks, LookForBareLabels, ListFolder, OpenTables, Good
  <2>2. CASE OpenTables(p) /\ pc'[p] = "using" /\ p \in shared
    <3>1. Good
      BY <2>2, UsersFindItGood DEF OpenTables, Looks, Locked
    <3>2. Users' = Users \cup {p}
      BY <2>1, <2>2 DEF OpenTables, Looks, FolderInv
    <3> QED
      BY <2>1, <3>1, <3>2
  <2>3. CASE ~(OpenTables(p) /\ pc'[p] = "using" /\ p \in shared)
    <3>1. /\ pc[p] # "using"
          /\ p \in shared => pc'[p] # "using"
          /\ \A q \in Procs \ {p} : pc'[q] = pc[q]
      BY <1>3, <2>3 DEF Look, Looks, LookForMeta, LoadMeta, LookForChunks, LookForLabels,
                LookForBareChunks, LookForBareLabels, ListFolder, OpenTables, FolderInv, Verdict
    <3>2. UNCHANGED Users
      BY <2>1, <3>1 DEF FolderInv
    <3> QED
      BY <2>1, <3>2
  <2> QED
    BY <2>2, <2>3
<1>4. ASSUME NEW p \in Procs, WipeEntry(p) PROVE LifeStep
  <2>1. /\ exclusive = p /\ cmd[p] = "wipe" /\ shared = {}
        /\ UNCHANGED <<pc, shared>>
    BY <1>4, InitDatabaseAssumption DEF WipeEntry, WipeStarted, FolderInv, HoldsLock
  <2>2. ~Good => ~Good'
    BY <1>4 DEF WipeEntry, Good, Tables
  <2>3. Users = {} /\ UNCHANGED Users
    BY <2>1
  <2> HIDE DEF Users
  <2>4. CASE Good /\ ~Good'
    BY <2>1, <2>3, <2>4, InitDatabaseAssumption DEF Deletes
  <2>5. CASE ~(Good /\ ~Good')
    <3>1. UNCHANGED Good
      BY <2>2, <2>5, Zenon DEF Good
    <3> QED
      BY <2>3, <3>1
  <2> QED
    BY <2>4, <2>5
<1>5. ASSUME NEW p \in Procs, WipeDone(p) \/ Use(p) \/ Release(p) \/ Crash(p) PROVE LifeStep
  <2>1. UNCHANGED Good
    BY <1>5 DEF WipeDone, WipeStarted, Use, Looks, Release, Crash, Good
  <2>2. Users' = Users \/ Users' = Users \ {p}
    BY <1>5 DEF WipeDone, WipeStarted, Use, Looks, Release, Crash, DropGuard, FolderInv
  <2> QED
    BY <2>1, <2>2
<1>6. ASSUME NEW p \in Procs, Make(p) PROVE LifeStep
  <2>1. /\ pc[p] \in Making
        /\ UNCHANGED <<shared, exclusive>>
    BY <1>6 DEF Make, MakeTable, FillTable, MakeFts, MakeMeta, WriteMeta, Makes, MakeAt, FillAt,
                Making, Tables
  <2>2. exclusive = p /\ shared = {} /\ ~Good
    BY <2>1, InitDatabaseAssumption DEF FolderInv, HoldsLock, MadeSoFar, Making, Good
  <2>3. Users = {} /\ UNCHANGED Users
    BY <2>1, <2>2
  <2> HIDE DEF Users
  <2>4. CASE Good'
    BY <2>1, <2>2, <2>3, <2>4, InitDatabaseAssumption DEF Creates
  <2>5. CASE ~Good'
    <3>1. UNCHANGED Good
      BY <2>2, <2>5, Zenon DEF Good
    <3> QED
      BY <2>3, <3>1
  <2> QED
    BY <2>4, <2>5
<1>7. ASSUME NEW p \in Procs, RemoveFts(p) \/ RemakeFts(p) PROVE LifeStep
  <2>1. UNCHANGED Good /\ UNCHANGED shared
    BY <1>7 DEF RemoveFts, RemakeFts, Makes, Good
  <2>2. shared = {}
    BY <1>7, InitDatabaseAssumption DEF RemoveFts, RemakeFts, Makes, FolderInv, HoldsLock
  <2> QED
    BY <2>1, <2>2
<1>8. CASE UNCHANGED vars
  BY <1>8 DEF vars, Good
<1> QED
  BY <1>1, <1>2, <1>3, <1>4, <1>5, <1>6, <1>7, <1>8 DEF Next, Proceed

(* Nothing but a --delete-everything under its exclusive lock takes a good  *)
(* database apart, however the other commands interleave and stop.          *)
THEOREM OnlyDeleteEverythingUnmakes ==
    ASSUME "wipe" \notin CrashSpots
    PROVE  Spec => OnlyWipeUnmakes
<1>1. FolderInv /\ [Next]_vars => [Good /\ ~Good' => exclusive # NULL /\ cmd[exclusive] = "wipe"]_vars
  BY StepOnLife DEF LifeStep, Deletes, Creates
<1> QED
  BY <1>1, FolderInvariant, PTL DEF Spec, OnlyWipeUnmakes

(* The folder and its lock implement the abstract life of a database.       *)
THEOREM FolderImplementsLife ==
    ASSUME "wipe" \notin CrashSpots
    PROVE  Spec => ImplementsLife
<1>1. Init => Life!Init
  BY DEF Init, Life!Init, Good
<1>2. FolderInv /\ [Next]_vars => [Life!Next]_<<Good, Users>>
  BY StepOnLife DEF LifeStep, Deletes, Creates, Users, Life!Next, Life!Make, Life!Unmake, Life!Enter, Life!Leave
<1> QED
  BY <1>1, <1>2, FolderInvariant, PTL DEF Spec, ImplementsLife, Life!Spec, Users
=============================================================================
