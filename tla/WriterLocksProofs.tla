------------------------- MODULE WriterLocksProofs -------------------------
(***************************************************************************)
(* Theorems about WriterLocks for any number of processes and catalogs.    *)
(***************************************************************************)
EXTENDS WriterLocks, TLAPS

USE DEF locks, data

(* What a process has locked follows from where it is.                      *)
Holds(p) ==
    /\ pc[p] \in {"catalog", "running", "commit", "locked", "writing", "release_catalog"} =>
         (job[p] \in Catalogs => p \in dbShared)
    /\ Inside(p) /\ job[p] \in Spanning => dbExclusive = p
    /\ Inside(p) \/ pc[p] = "release_catalog" =>
         (job[p] \in Catalogs => catalogLock[job[p]] = p)
    /\ pc[p] \in {"catalog", "release_catalog"} => job[p] \in Catalogs
    /\ pc[p] \in {"locked", "writing"} /\ TakesMutex(p) => commitMutex = p

LockInv == TypeOK /\ \A p \in Procs : Holds(p)

LEMMA InitLockInv == Init => LockInv
BY LocksAssumption DEF Init, LockInv, TypeOK, Holds, Inside, PCs, Jobs, Spanning

LEMMA NextLockInv == LockInv /\ [Next]_vars => LockInv'
<1> SUFFICES ASSUME LockInv, [Next]_vars PROVE LockInv'
  OBVIOUS
<1> USE LocksAssumption
    DEF LockInv, TypeOK, Holds, Inside, Goto, PCs, Jobs, Spanning, TakesMutex
<1>1. ASSUME NEW p \in Procs, AcquireDatabaseShared(p) PROVE LockInv'
  BY <1>1 DEF AcquireDatabaseShared
<1>2. ASSUME NEW p \in Procs, AcquireDatabaseExclusive(p) PROVE LockInv'
  BY <1>2 DEF AcquireDatabaseExclusive, ExclusiveFree
<1>3. ASSUME NEW p \in Procs, AcquireCatalog(p) PROVE LockInv'
  BY <1>3 DEF AcquireCatalog, CatalogFree
<1>4. ASSUME NEW p \in Procs, ReadRows(p) PROVE LockInv'
  BY <1>4 DEF ReadRows
<1>5. ASSUME NEW p \in Procs, AcquireCommitMutex(p) PROVE LockInv'
  BY <1>5 DEF AcquireCommitMutex
<1>6. ASSUME NEW p \in Procs, BeginWrite(p) PROVE LockInv'
  BY <1>6 DEF BeginWrite
<1>7. ASSUME NEW p \in Procs, CommitWrite(p) PROVE LockInv'
  BY <1>7 DEF CommitWrite
<1>8. ASSUME NEW p \in Procs, ReleaseCommitMutex(p) PROVE LockInv'
  BY <1>8 DEF ReleaseCommitMutex
<1>9. ASSUME NEW p \in Procs, WriteFails(p) PROVE LockInv'
  BY <1>9 DEF WriteFails
<1>10. ASSUME NEW p \in Procs, Return(p) PROVE LockInv'
  BY <1>10 DEF Return
<1>11. ASSUME NEW p \in Procs, ReleaseCatalog(p) PROVE LockInv'
  BY <1>11 DEF ReleaseCatalog
<1>12. ASSUME NEW p \in Procs, ReleaseDatabase(p) PROVE LockInv'
  BY <1>12 DEF ReleaseDatabase, DropDatabaseGuard
<1>13. ASSUME NEW p \in Procs, Die(p) PROVE LockInv'
  BY <1>13 DEF Die
<1>14. ASSUME NEW p \in Procs, KernelReleasesDatabase(p) PROVE LockInv'
  BY <1>14 DEF KernelReleasesDatabase
<1>15. ASSUME NEW p \in Procs, NEW c \in Catalogs, KernelReleasesCatalog(p, c) PROVE LockInv'
  BY <1>15 DEF KernelReleasesCatalog
<1>16. ASSUME NEW p \in Procs, KernelReleasesMutex(p) PROVE LockInv'
  BY <1>16 DEF KernelReleasesMutex
<1>17. CASE UNCHANGED vars
  BY <1>17 DEF vars
<1> QED
  BY <1>1, <1>2, <1>3, <1>4, <1>5, <1>6, <1>7, <1>8, <1>9, <1>10, <1>11, <1>12, <1>13,
     <1>14, <1>15, <1>16, <1>17 DEF Next, Proceed, Kernel

-----------------------------------------------------------------------------

LEMMA Exclusion == ASSUME LockInv PROVE OneWriterPerCatalog
<1> SUFFICES ASSUME NEW p \in Procs, NEW q \in Procs, p # q, Inside(p), Inside(q)
             PROVE  Scope(p) \cap Scope(q) = {}
  BY DEF OneWriterPerCatalog
<1> USE LocksAssumption DEF LockInv, TypeOK, Holds, Jobs, Scope
<1>1. CASE job[p] \in Catalogs /\ job[q] \in Catalogs
  BY <1>1
<1>2. CASE job[p] \in Spanning \/ job[q] \in Spanning
  BY <1>2 DEF Inside
<1> QED
  BY <1>1, <1>2

(* The locks keep two commands from writing to one catalog at a time, for   *)
(* any number of processes and whatever dies where.                         *)
THEOREM MutualExclusion == Spec => []OneWriterPerCatalog
BY InitLockInv, NextLockInv, Exclusion, PTL DEF Spec

LEMMA ScopeType == ASSUME LockInv, NEW p \in Procs
                   PROVE  Scope(p) \subseteq Catalogs /\ Scope(p) # {}
BY LocksAssumption DEF LockInv, TypeOK, Jobs, Scope

(* Only a commit changes the contents, and only those of its scope.         *)
LEMMA ContentEdits ==
    ASSUME LockInv, [Next]_vars
    PROVE  /\ UNCHANGED job
           /\ UNCHANGED data \/ \E p \in Procs : CommitWrite(p)
BY DEF Next, Proceed, Kernel, vars, AcquireDatabaseShared, AcquireDatabaseExclusive,
       AcquireCatalog, ReadRows, AcquireCommitMutex, BeginWrite, CommitWrite,
       ReleaseCommitMutex, WriteFails, Return, ReleaseCatalog, ReleaseDatabase, Die,
       KernelReleasesDatabase, KernelReleasesCatalog, KernelReleasesMutex

(* A process that is about to write, or writing, after a step either was so *)
(* before and kept its read and base, or has just taken them.               *)
LEMMA ReadEdits ==
    ASSUME LockInv, [Next]_vars, NEW p \in Procs
    PROVE  /\ pc'[p] \in {"commit", "locked", "writing"} =>
                \/ seen'[p] = content'
                \/ seen'[p] = seen[p] /\ pc[p] \in {"commit", "locked", "writing"}
           /\ pc'[p] = "writing" =>
                \/ base'[p] = version'
                \/ base'[p] = base[p] /\ pc[p] = "writing"
<1> USE DEF LockInv, TypeOK, Goto
<1>1. ASSUME NEW q \in Procs, Proceed(q)
      PROVE  /\ pc'[p] \in {"commit", "locked", "writing"} =>
                  \/ seen'[p] = content'
                  \/ seen'[p] = seen[p] /\ pc[p] \in {"commit", "locked", "writing"}
             /\ pc'[p] = "writing" =>
                  \/ base'[p] = version'
                  \/ base'[p] = base[p] /\ pc[p] = "writing"
  BY <1>1 DEF Proceed, AcquireDatabaseShared, AcquireDatabaseExclusive, AcquireCatalog,
              ReadRows, AcquireCommitMutex, BeginWrite, CommitWrite, ReleaseCommitMutex,
              Return, ReleaseCatalog, ReleaseDatabase
<1>2. ASSUME NEW q \in Procs, WriteFails(q) \/ Die(q) \/ Kernel(q) \/ UNCHANGED vars
      PROVE  /\ seen'[p] = seen[p] /\ base'[p] = base[p]
             /\ pc'[p] \in {"commit", "locked", "writing"} => pc'[p] = pc[p]
  BY <1>2 DEF WriteFails, Die, Kernel, KernelReleasesDatabase, KernelReleasesCatalog,
              KernelReleasesMutex, vars
<1> QED
  BY <1>1, <1>2 DEF Next

WriteInv == LockInv /\ ReadsStayCurrent /\ NoCommitConflict

LEMMA WriteInvStep == WriteInv /\ [Next]_vars => ReadsStayCurrent' /\ NoCommitConflict'
<1> SUFFICES ASSUME WriteInv, [Next]_vars PROVE ReadsStayCurrent' /\ NoCommitConflict'
  OBVIOUS
<1>1. ASSUME UNCHANGED data PROVE ReadsStayCurrent' /\ NoCommitConflict'
  BY <1>1, ReadEdits, ContentEdits DEF WriteInv, ReadsStayCurrent, NoCommitConflict, Scope
<1>2. ASSUME NEW q \in Procs, CommitWrite(q) PROVE ReadsStayCurrent' /\ NoCommitConflict'
  <2>1. /\ pc[q] = "writing" /\ Inside(q)
        /\ UNCHANGED <<job, base>>
        /\ \A p \in Procs \ {q} : pc'[p] = pc[p]
        /\ pc'[q] = "locked"
    BY <1>2 DEF CommitWrite, Goto, Inside, WriteInv, LockInv, TypeOK
  <2>2. /\ seen'[q] = content'
        /\ \A p \in Procs \ {q} : seen'[p] = seen[p]
    BY <1>2 DEF CommitWrite, WriteInv, LockInv, TypeOK
  <2>3. \A c \in Catalogs \ Scope(q) : content'[c] = content[c]
    BY <1>2 DEF CommitWrite
  <2>4. ASSUME NEW p \in Procs, p # q, pc[p] \in {"commit", "locked", "writing"},
               NEW c \in Scope(p)
        PROVE  seen'[p][c] = content'[c]
    <3>1. c \notin Scope(q) /\ c \in Catalogs
      BY <2>1, <2>4, Exclusion, ScopeType DEF WriteInv, OneWriterPerCatalog, Inside
    <3> QED
      BY <2>2, <2>3, <2>4, <3>1 DEF WriteInv, ReadsStayCurrent
  <2>5. ReadsStayCurrent'
    BY <2>1, <2>2, <2>4 DEF ReadsStayCurrent, Scope
  <2>6. ASSUME NEW p \in Procs, p # q PROVE pc[p] # "writing"
    <3> SUFFICES ASSUME pc[p] = "writing" PROVE FALSE
      OBVIOUS
    <3>1. CASE TakesMutex(p) /\ TakesMutex(q)
      BY <2>1, <2>6, <3>1 DEF WriteInv, LockInv, Holds
    <3>2. CASE job[p] = "init_db" \/ job[q] = "init_db"
      <4>1. Scope(p) = Catalogs \/ Scope(q) = Catalogs
        BY <3>2, LocksAssumption DEF Scope, Spanning
      <4> QED
        BY <2>1, <2>6, <4>1, Exclusion, ScopeType DEF WriteInv, OneWriterPerCatalog, Inside
    <3> QED
      BY <3>1, <3>2 DEF TakesMutex
  <2>7. NoCommitConflict'
    BY <2>1, <2>6 DEF NoCommitConflict
  <2> QED
    BY <2>5, <2>7
<1> QED
  BY <1>1, <1>2, ContentEdits DEF WriteInv

LEMMA WriteInvInit == Init => ReadsStayCurrent /\ NoCommitConflict
BY DEF Init, ReadsStayCurrent, NoCommitConflict

LEMMA WriteInvariant == Spec => []WriteInv
<1>1. WriteInv /\ [Next]_vars => WriteInv'
  BY WriteInvStep, NextLockInv DEF WriteInv
<1>2. Init => WriteInv
  BY WriteInvInit, InitLockInv DEF WriteInv
<1> QED
  BY <1>1, <1>2, PTL DEF Spec

(* What a command read of its catalog is still true when it writes: the     *)
(* catalog lock, kept from the read to the write, makes the                 *)
(* read-modify-write of label lists safe.                                   *)
THEOREM WritesAreSerial == Spec => []ReadsStayCurrent
<1>1. WriteInv => ReadsStayCurrent
  BY DEF WriteInv
<1> QED
  BY <1>1, WriteInvariant, PTL

(* No write ever meets another commit, although crawls of different         *)
(* catalogs write to one dataset: the mutex covers every write of a crawl   *)
(* or purge, and init-db, which does not take it, is alone.                 *)
THEOREM CommitsNeverConflict == Spec => []NoCommitConflict
<1>1. WriteInv => NoCommitConflict
  BY DEF WriteInv
<1> QED
  BY <1>1, WriteInvariant, PTL

-----------------------------------------------------------------------------
(* The refinement *)

OwnerFacts ==
    /\ owner = [c \in Catalogs |-> owner[c]]
    /\ \A c \in Catalogs, p \in Procs : owner[c] = p <=> Inside(p) /\ c \in Scope(p)
    /\ \A c \in Catalogs : owner[c] \in Procs \cup {NULL}

LEMMA OwnerIs == LockInv => OwnerFacts
<1> SUFFICES ASSUME LockInv PROVE OwnerFacts
  OBVIOUS
<1>1. owner = [c \in Catalogs |-> owner[c]]
  BY DEF owner
<1>2. ASSUME NEW c \in Catalogs, NEW p \in Procs
      PROVE  owner[c] = p <=> Inside(p) /\ c \in Scope(p)
  <2>1. ASSUME Inside(p), c \in Scope(p) PROVE owner[c] = p
    BY <2>1, Exclusion DEF owner, OneWriterPerCatalog
  <2>2. ASSUME owner[c] = p PROVE Inside(p) /\ c \in Scope(p)
    BY <2>2, LocksAssumption DEF owner
  <2> QED
    BY <2>1, <2>2
<1>3. \A c \in Catalogs : owner[c] \in Procs \cup {NULL}
  BY DEF owner
<1> QED
  BY <1>1, <1>2, <1>3 DEF OwnerFacts

(* Two ownerships are one when the same commands are inside.                *)
LEMMA SameOwner ==
    ASSUME UNCHANGED job, \A p \in Procs : Inside(p)' = Inside(p)
    PROVE  owner' = owner
BY DEF owner, Scope

LEMMA BeginStep ==
    ASSUME LockInv, LockInv', UNCHANGED <<job, content>>, NEW p \in Procs,
           ~Inside(p), Inside(p)', \A q \in Procs \ {p} : Inside(q)' = Inside(q)
    PROVE  Ownership!Begin(p, Scope(p))
<1>1. \A c \in Scope(p) : owner[c] = NULL
  <2> SUFFICES ASSUME NEW c \in Scope(p), owner[c] # NULL PROVE FALSE
    OBVIOUS
  <2>1. c \in Catalogs
    BY ScopeType
  <2>2. PICK q \in Procs : Inside(q) /\ c \in Scope(q)
    BY <2>1, OwnerIs DEF OwnerFacts
  <2>3. q # p /\ Inside(q)' /\ c \in Scope(q)' /\ c \in Scope(p)'
    BY <2>2 DEF Scope
  <2>4. OneWriterPerCatalog'
    BY Exclusion, PTL
  <2> QED
    BY <2>3, <2>4 DEF OneWriterPerCatalog
<1>2. OwnerFacts /\ OwnerFacts'
  BY OwnerIs, PTL
<1>3. ASSUME NEW c \in Catalogs
      PROVE  owner'[c] = IF c \in Scope(p) THEN p ELSE owner[c]
  <2>1. CASE c \in Scope(p)
    BY <1>2, <2>1 DEF Scope, OwnerFacts
  <2>2. CASE c \notin Scope(p)
    <3>1. \A q \in Procs : owner'[c] = q <=> owner[c] = q
      BY <1>2, <2>2, OwnerIs DEF Scope, OwnerFacts
    <3> QED
      BY <1>2, <2>2, <3>1, OwnerIs DEF OwnerFacts
  <2> QED
    BY <2>1, <2>2
<1>4. owner' = [c \in Catalogs |-> IF c \in Scope(p) THEN p ELSE owner[c]]
  BY <1>2, <1>3 DEF OwnerFacts
<1> QED
  BY <1>1, <1>4 DEF Ownership!Begin

LEMMA EndStep ==
    ASSUME LockInv, LockInv', UNCHANGED <<job, content>>, NEW p \in Procs,
           ~Inside(p)', \A q \in Procs \ {p} : Inside(q)' = Inside(q)
    PROVE  Ownership!End(p)
<1>1. OwnerFacts /\ OwnerFacts'
  BY OwnerIs, PTL
<1>2. ASSUME NEW c \in Catalogs
      PROVE  owner'[c] = IF owner[c] = p THEN NULL ELSE owner[c]
  <2>1. \A q \in Procs \ {p} : owner'[c] = q <=> owner[c] = q
    BY <1>1, OwnerIs DEF Scope, OwnerFacts
  <2>2. owner'[c] # p
    BY <1>1, OwnerIs DEF OwnerFacts
  <2> QED
    BY <1>1, <2>1, <2>2, OwnerIs, LocksAssumption DEF OwnerFacts
<1>3. owner' = [c \in Catalogs |-> IF owner[c] = p THEN NULL ELSE owner[c]]
  BY <1>1, <1>2 DEF OwnerFacts
<1> QED
  BY <1>3 DEF Ownership!End

LEMMA WriteStep ==
    ASSUME WriteInv, NEW p \in Procs, CommitWrite(p)
    PROVE  Ownership!Write(p)
<1> USE DEF WriteInv
<1>1. Inside(p) /\ \A c \in Scope(p) : seen[p][c] = content[c]
  BY DEF CommitWrite, Inside, ReadsStayCurrent
<1>2. owner' = owner
  <2>1. UNCHANGED job /\ \A q \in Procs : Inside(q)' = Inside(q)
    BY DEF CommitWrite, Goto, Inside, LockInv, TypeOK
  <2> QED
    BY <2>1, SameOwner
<1>3. \E c \in Catalogs : owner[c] = p
  BY <1>1, OwnerIs, ScopeType DEF OwnerFacts
<1>4. \A c \in Catalogs : owner[c] = p <=> c \in Scope(p)
  BY <1>1, OwnerIs DEF OwnerFacts
<1>5. content' = [c \in Catalogs |-> IF owner[c] = p THEN content[c] + 1 ELSE content[c]]
  BY <1>1, <1>4 DEF CommitWrite
<1> QED
  BY <1>2, <1>3, <1>5 DEF Ownership!Write

LEMMA RefinementStep ==
    ASSUME WriteInv, LockInv', [Next]_vars
    PROVE  [Ownership!Next]_<<owner, content>>
<1> USE DEF WriteInv
<1> DEFINE Same == \A q \in Procs : Inside(q)' = Inside(q)
           Only(p) == \A q \in Procs \ {p} : Inside(q)' = Inside(q)
<1>1. ASSUME NEW p \in Procs, Ownership!Begin(p, Scope(p)) PROVE Ownership!Next
  BY <1>1, LocksAssumption DEF Ownership!Next, Scope
<1>2. ASSUME NEW p \in Procs, AcquireDatabaseExclusive(p) \/ AcquireCatalog(p)
      PROVE  Ownership!Next
  <2>1. UNCHANGED <<job, content>> /\ ~Inside(p) /\ Inside(p)' /\ Only(p)
    BY <1>2 DEF AcquireDatabaseExclusive, AcquireCatalog, Goto, Inside, LockInv, TypeOK
  <2> QED
    BY <1>1, <2>1, BeginStep
<1>3. ASSUME NEW p \in Procs, Return(p) \/ Die(p) PROVE Ownership!Next
  <2>1. UNCHANGED <<job, content>> /\ ~Inside(p)' /\ Only(p)
    BY <1>3 DEF Return, Die, Goto, Inside, LockInv, TypeOK
  <2> QED
    BY <2>1, EndStep DEF Ownership!Next
<1>4. ASSUME NEW p \in Procs, CommitWrite(p) PROVE Ownership!Next
  BY <1>4, WriteStep DEF Ownership!Next
<1>5. ASSUME NEW p \in Procs,
             \/ AcquireDatabaseShared(p) \/ ReadRows(p) \/ AcquireCommitMutex(p)
             \/ BeginWrite(p) \/ ReleaseCommitMutex(p) \/ WriteFails(p)
             \/ ReleaseCatalog(p) \/ ReleaseDatabase(p) \/ Kernel(p)
      PROVE  UNCHANGED <<owner, content>>
  <2>1. UNCHANGED <<job, content>> /\ Same
    BY <1>5 DEF AcquireDatabaseShared, ReadRows, AcquireCommitMutex, BeginWrite,
                ReleaseCommitMutex, WriteFails, ReleaseCatalog, ReleaseDatabase, Kernel,
                KernelReleasesDatabase, KernelReleasesCatalog, KernelReleasesMutex,
                Goto, Inside, LockInv, TypeOK
  <2> QED
    BY <2>1, SameOwner
<1>6. CASE UNCHANGED vars
  BY <1>6, SameOwner DEF vars, Inside
<1> QED
  BY <1>2, <1>3, <1>4, <1>5, <1>6 DEF Next, Proceed

(* The locks implement exclusive ownership of catalogs: commands enter and  *)
(* leave one at a time per catalog, and every write builds on the last.     *)
THEOREM LocksImplementOwnership == Spec => ImplementsOwnership
<1>1. Init => Ownership!Init
  BY DEF Init, Ownership!Init, owner, Inside
<1>2. WriteInv /\ [Next]_vars => WriteInv'
  BY WriteInvStep, NextLockInv DEF WriteInv
<1>3. Init => WriteInv
  BY WriteInvInit, InitLockInv DEF WriteInv
<1>4. WriteInv /\ WriteInv' /\ [Next]_vars => [Ownership!Next]_<<owner, content>>
  BY RefinementStep DEF WriteInv
<1> QED
  BY <1>1, <1>2, <1>3, <1>4, PTL DEF Spec, ImplementsOwnership, Ownership!Spec
=============================================================================
