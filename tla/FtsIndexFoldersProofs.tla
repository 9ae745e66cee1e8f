------------------------ MODULE FtsIndexFoldersProofs ------------------------
(***************************************************************************)
(* Theorems about FtsIndexFolders for every set of labels, rows and        *)
(* versions of the binary, and every pattern of interruptions.             *)
(***************************************************************************)
EXTENDS FtsIndexFolders, TLAPS

USE DEF index, writer, reader, bounds

(* The index a crawl goes on with is of its own version: it created it, or  *)
(* the manifest said so.  Nothing of a folder that is rebuilt survives the  *)
(* removal with a manifest.                                                 *)
WriterKnowsIndex ==
    /\ pc \in {"manifest", "manifest_text", "reconcile", "publish"} =>
           builtWith[label] = installed
    /\ pc = "remove" => manifest[label] = "missing" \/ <<label, "manifest">> \in doomed
    /\ pc = "create" => manifest[label] = "missing"

(* A search that has seen its own ids keeps to an index of those ids.       *)
ReaderKnowsIndex ==
    rpc \in {"open", "reader"} /\ HasTantivyState(rlabel) => builtWith[rlabel] = installed

FolderInv == TypeOK /\ ManifestTellsIndex /\ WriterKnowsIndex /\ ReaderKnowsIndex

LEMMA FilesType == \A ls \in SUBSET Labels :
    FilesOf(ls) \subseteq ls \X {"manifest", "meta", "segments"}
BY DEF FilesOf

LEMMA InitFolderInv == Init => FolderInv
<1> SUFFICES ASSUME Init PROVE FolderInv
  OBVIOUS
<1>1. TypeOK
  BY FoldersAssumption DEF Init, TypeOK, Answers
<1>2. ManifestTellsIndex /\ WriterKnowsIndex /\ ReaderKnowsIndex
  BY DEF Init, ManifestTellsIndex, WriterKnowsIndex, ReaderKnowsIndex, HasTantivyState
<1> QED
  BY <1>1, <1>2 DEF FolderInv

LEMMA NextTypeOK == TypeOK /\ [Next]_vars => TypeOK'
<1> SUFFICES ASSUME TypeOK, [Next]_vars PROVE TypeOK'
  OBVIOUS
<1> USE FoldersAssumption DEF TypeOK, WriterSteps, ReaderSteps, Answers
<1>1. ASSUME NEW l \in Labels, NEW contents \in SUBSET Rows, StartCrawl(l, contents)
      PROVE  TypeOK'
  BY <1>1 DEF StartCrawl
<1>2. CASE StartPurge
  BY <1>2, FilesType DEF StartPurge
<1>3. CASE RemoveForRebuild
  BY <1>3, FilesType DEF RemoveForRebuild
<1>4. CASE FolderRemoved
  BY <1>4 DEF FolderRemoved
<1>5. CASE CreateIndex
  BY <1>5 DEF CreateIndex
<1>6. CASE OpenIndex
  BY <1>6 DEF OpenIndex
<1>7. CASE Refuse
  BY <1>7 DEF Refuse, WriterStops
<1>8. CASE TruncateManifest
  BY <1>8 DEF TruncateManifest
<1>9. CASE WriteManifestText
  BY <1>9 DEF WriteManifestText
<1>10. CASE ReconcileAndCommit
  BY <1>10 DEF ReconcileAndCommit, Reconciled
<1>11. CASE Publish
  BY <1>11 DEF Publish, WriterStops
<1>12. CASE EndPurge
  BY <1>12 DEF EndPurge, WriterStops
<1>13. ASSUME NEW file \in doomed, RemoveFile(file)
       PROVE  TypeOK'
  BY <1>13 DEF RemoveFile
<1>14. CASE Interrupted
  <2>1. faults' \in Nat /\ commands' \in Nat
    BY <1>14 DEF Interrupted
  <2>2. WriterStops /\ UNCHANGED <<index, flag, live, installed, reader>>
    BY <1>14 DEF Interrupted
  <2> QED
    BY <2>1, <2>2 DEF WriterStops
<1>15. ASSUME NEW ids \in Ids, Upgrade(ids)
       PROVE  TypeOK'
  BY <1>15 DEF Upgrade
<1>16. ASSUME NEW l \in Labels, NEW requested \in BOOLEAN, StartSearch(l, requested)
       PROVE  TypeOK'
  BY <1>16 DEF StartSearch
<1>17. CASE ReaderStep
  BY <1>17 DEF ReaderStep, CheckState, CheckManifest, OpenForSearch, CreateReader,
               Goes, Ends
<1>18. CASE UNCHANGED vars
  BY <1>18 DEF vars
<1> QED
  BY <1>1, <1>2, <1>3, <1>4, <1>5, <1>6, <1>7, <1>8, <1>9, <1>10, <1>11, <1>12, <1>13,
     <1>14, <1>15, <1>16, <1>17, <1>18 DEF Next, WriterStep

LEMMA NextFolderInv == FolderInv /\ [Next]_vars => FolderInv'
<1> SUFFICES ASSUME FolderInv, [Next]_vars PROVE FolderInv'
  OBVIOUS
<1>t. TypeOK'
  BY NextTypeOK DEF FolderInv
<1> DEFINE Rest == ManifestTellsIndex /\ WriterKnowsIndex /\ ReaderKnowsIndex
<1> SUFFICES Rest'
  BY <1>t DEF FolderInv
<1> USE FoldersAssumption DEF FolderInv, TypeOK, ManifestTellsIndex, WriterKnowsIndex,
        ReaderKnowsIndex, HasTantivyState
<1>1. ASSUME NEW l \in Labels, NEW contents \in SUBSET Rows, StartCrawl(l, contents)
      PROVE  Rest'
  BY <1>1 DEF StartCrawl
<1>2. CASE StartPurge
  BY <1>2 DEF StartPurge
<1>3. CASE RemoveForRebuild
  <2>1. <<label, "manifest">> \in doomed' \/ manifest[label] = "missing"
    BY <1>3 DEF RemoveForRebuild, FilesOf, Exists
  <2> QED
    BY <1>3, <2>1 DEF RemoveForRebuild
<1>4. CASE FolderRemoved
  BY <1>4 DEF FolderRemoved
<1>5. CASE CreateIndex
  <2>1. manifest[label] \in Ids => manifest[label] = installed
    BY <1>5 DEF CreateIndex, MustRebuild, ManifestRead
  <2> QED
    BY <1>5, <2>1 DEF CreateIndex
<1>6. CASE OpenIndex
  <2>1. manifest[label] = installed
    BY <1>6 DEF OpenIndex, MustRebuild, ManifestRead, Opens
  <2> QED
    BY <1>6, <2>1 DEF OpenIndex, Opens
<1>7. CASE Refuse
  BY <1>7 DEF Refuse, WriterStops
<1>8. CASE TruncateManifest
  BY <1>8 DEF TruncateManifest
<1>9. CASE WriteManifestText
  BY <1>9 DEF WriteManifestText
<1>10. CASE ReconcileAndCommit
  <2>1. \A l \in Labels : HasTantivyState(l)' => HasTantivyState(l)
    BY <1>10 DEF ReconcileAndCommit, Healthy, Opens
  <2> QED
    BY <1>10, <2>1 DEF ReconcileAndCommit
<1>11. CASE Publish
  BY <1>11 DEF Publish, WriterStops
<1>12. CASE EndPurge
  BY <1>12 DEF EndPurge, WriterStops
<1>13. ASSUME NEW file \in doomed, RemoveFile(file)
       PROVE  Rest'
  <2>1. \A l \in Labels : HasTantivyState(l)' => HasTantivyState(l)
    BY <1>13 DEF RemoveFile
  <2>2. \A l \in Labels : manifest'[l] = manifest[l] \/ manifest'[l] = "missing"
    BY <1>13 DEF RemoveFile
  <2>3. UNCHANGED <<builtWith, installed, pc, label, rpc, rlabel>>
    BY <1>13 DEF RemoveFile
  <2>4. pc = "remove" =>
            (manifest[label] = "missing" \/ <<label, "manifest">> \in doomed)'
    <3>1. CASE file = <<label, "manifest">>
      BY <1>13, <3>1 DEF RemoveFile
    <3>2. CASE file # <<label, "manifest">>
      <4>1. <<label, "manifest">> \in doomed => <<label, "manifest">> \in doomed'
        BY <1>13, <3>2 DEF RemoveFile
      <4> QED
        BY <4>1, <2>2, <2>3
    <3> QED
      BY <3>1, <3>2
  <2>5. pc # "create"
    BY <1>13 DEF RemoveFile
  <2> QED
    BY <2>1, <2>2, <2>3, <2>4, <2>5
<1>14. CASE Interrupted
  BY <1>14 DEF Interrupted, WriterStops
<1>15. ASSUME NEW ids \in Ids, Upgrade(ids)
       PROVE  Rest'
  BY <1>15 DEF Upgrade
<1>16. ASSUME NEW l \in Labels, NEW requested \in BOOLEAN, StartSearch(l, requested)
       PROVE  Rest'
  BY <1>16 DEF StartSearch
<1>17. CASE ReaderStep
  <2>1. CASE CheckState
    BY <2>1 DEF CheckState, Goes, Ends
  <2>2. CASE CheckManifest
    <3>1. rpc' = "open" => manifest[rlabel] = installed
      BY <2>2 DEF CheckManifest, Goes, Ends, ManifestRead
    <3> QED
      BY <2>2, <3>1 DEF CheckManifest, Goes, Ends
  <2>3. CASE OpenForSearch
    BY <2>3 DEF OpenForSearch, Goes, Ends
  <2>4. CASE CreateReader
    BY <2>4 DEF CreateReader, Goes, Ends
  <2> QED
    BY <1>17, <2>1, <2>2, <2>3, <2>4 DEF ReaderStep
<1>18. CASE UNCHANGED vars
  BY <1>18 DEF vars
<1> QED
  BY <1>1, <1>2, <1>3, <1>4, <1>5, <1>6, <1>7, <1>8, <1>9, <1>10, <1>11, <1>12, <1>13,
     <1>14, <1>15, <1>16, <1>17, <1>18 DEF Next, WriterStep

LEMMA FolderInvariant == Spec => []FolderInv
<1>1. Init => FolderInv
  BY InitFolderInv
<1>2. FolderInv /\ [Next]_vars => FolderInv'
  BY NextFolderInv
<1> QED
  BY <1>1, <1>2, PTL DEF Spec

(* The folders, the crawl and the search stay well formed: only a removal   *)
(* has files to unlink, and a crawl always has its label.                   *)
THEOREM FoldersTypeCorrect == Spec => []TypeOK
<1>1. FolderInv => TypeOK
  BY DEF FolderInv
<1> QED
  BY <1>1, FolderInvariant, PTL

(* A readable manifest never names other ids than those of the index beside *)
(* it, however often versions change and wherever crawls, rebuilds and      *)
(* purges are interrupted.                                                  *)
THEOREM ManifestIsTrue == Spec => []ManifestTellsIndex
<1>1. FolderInv => ManifestTellsIndex
  BY DEF FolderInv
<1> QED
  BY <1>1, FolderInvariant, PTL

(* No search, whatever the writer does between its reads, queries an index  *)
(* built with other ids than its own.                                       *)
THEOREM SearchesAreCompatible == Spec => FoundIsCompatible
<1>1. FolderInv /\ [Next]_vars => [FoundIsCompatibleStep]_vars
  <2> SUFFICES ASSUME FolderInv, Next, answer # "found", answer' = "found"
               PROVE  builtWith[rlabel] = installed
    BY DEF FoundIsCompatibleStep
  <2>1. CreateReader
    BY DEF Next, WriterStep, ReaderStep, StartCrawl, StartPurge, RemoveForRebuild,
           FolderRemoved, CreateIndex, OpenIndex, Refuse, TruncateManifest,
           WriteManifestText, ReconcileAndCommit, Publish, EndPurge, RemoveFile,
           Interrupted, Upgrade, StartSearch, CheckState, CheckManifest, OpenForSearch,
           Goes, Ends
  <2>2. Healthy(rlabel) /\ rpc = "reader"
    BY <2>1 DEF CreateReader, Ends
  <2> QED
    BY <2>2 DEF FolderInv, ReaderKnowsIndex, HasTantivyState, Healthy, Opens
<1> QED
  BY <1>1, FolderInvariant, PTL DEF Spec, FoundIsCompatible

-----------------------------------------------------------------------------
(* Where no folder lies inside another, a crawl disturbs its own label only,*)
(* which is not complete while the crawl runs.                              *)
FlatLabels == \A l \in Labels : Inner[l] = {}

CrawlOwnsLabel ==
    /\ pc \notin {"idle", "purge"} => flag[label] # "complete"
    /\ pc = "purge" => \A l \in Labels : flag[l] # "complete"
    /\ pc = "remove" => \A file \in doomed : file[1] = label

(* What a crawl has committed stays until it publishes it.                  *)
CommitStands ==
    /\ committed => pc \in {"manifest", "manifest_text", "publish"}
    /\ pc \in {"manifest", "manifest_text", "publish"} /\ committed =>
           Healthy(label) /\ indexed[label] = live[label]
    /\ pc = "publish" => committed /\ manifest[label] = builtWith[label]

CompleteInv == FolderInv /\ CompleteHasIndex /\ CrawlOwnsLabel /\ CommitStands

LEMMA ReconciledIsLive == \A found, rows : Reconciled(found, rows) = rows
BY DEF Reconciled

LEMMA NextCompleteInv ==
    ASSUME FlatLabels, CompleteInv, [Next]_vars
    PROVE  CompleteInv'
<1>t. FolderInv'
  BY NextFolderInv DEF CompleteInv
<1> DEFINE Rest == CompleteHasIndex /\ CrawlOwnsLabel /\ CommitStands
<1> SUFFICES Rest'
  BY <1>t DEF CompleteInv
<1> USE DEF CompleteInv, FolderInv, TypeOK, CompleteHasIndex, CrawlOwnsLabel, CommitStands,
        Healthy, Opens
<1>1. ASSUME NEW l \in Labels, NEW contents \in SUBSET Rows, StartCrawl(l, contents)
      PROVE  Rest'
  BY <1>1 DEF StartCrawl
<1>2. CASE StartPurge
  BY <1>2 DEF StartPurge
<1>3. CASE RemoveForRebuild
  <2>1. \A file \in doomed' : file[1] = label
    <3>1. {label} \cup Inner[label] = {label}
      BY <1>3 DEF RemoveForRebuild, FlatLabels
    <3> QED
      BY <1>3, <3>1 DEF RemoveForRebuild, FilesOf
  <2> QED
    BY <1>3, <2>1 DEF RemoveForRebuild
<1>4. CASE FolderRemoved
  BY <1>4 DEF FolderRemoved
<1>5. CASE CreateIndex
  <2>1. committed' = committed /\ pc' = "manifest" /\ pc \in {"open", "create"}
    BY <1>5 DEF CreateIndex
  <2>2. ~committed
    BY <2>1
  <2> QED
    BY <1>5, <2>1, <2>2 DEF CreateIndex
<1>6. CASE OpenIndex
  BY <1>6 DEF OpenIndex
<1>7. CASE Refuse
  BY <1>7 DEF Refuse, WriterStops
<1>8. CASE TruncateManifest
  BY <1>8 DEF TruncateManifest
<1>9. CASE WriteManifestText
  BY <1>9 DEF WriteManifestText, WriterKnowsIndex
<1>10. CASE ReconcileAndCommit
  BY <1>10, ReconciledIsLive DEF ReconcileAndCommit
<1>11. CASE Publish
  BY <1>11 DEF Publish, WriterStops
<1>12. CASE EndPurge
  BY <1>12 DEF EndPurge, WriterStops
<1>13. ASSUME NEW file \in doomed, RemoveFile(file)
       PROVE  Rest'
  <2>1. \A l \in Labels : flag[l] = "complete" => l # file[1]
    BY <1>13 DEF RemoveFile
  <2>2. \A l \in Labels \ {file[1]} :
            /\ Healthy(l) => Healthy(l)'
            /\ indexed'[l] = indexed[l] /\ manifest'[l] = manifest[l]
    <3>1. PICK m \in Labels, kind \in {"manifest", "meta", "segments"} : file = <<m, kind>>
      OBVIOUS
    <3>2. CASE kind = "manifest"
      BY <1>13, <3>1, <3>2 DEF RemoveFile
    <3>3. CASE kind = "meta"
      BY <1>13, <3>1, <3>3 DEF RemoveFile
    <3>4. CASE kind = "segments"
      BY <1>13, <3>1, <3>4 DEF RemoveFile
    <3> QED
      BY <3>2, <3>3, <3>4
  <2>3. /\ UNCHANGED <<builtWith, flag, live, installed, pc, label, committed>>
        /\ doomed' \subseteq doomed
        /\ pc \in {"remove", "purge"}
    BY <1>13 DEF RemoveFile
  <2> QED
    BY <2>1, <2>2, <2>3
<1>14. CASE Interrupted
  BY <1>14 DEF Interrupted, WriterStops
<1>15. ASSUME NEW ids \in Ids, Upgrade(ids)
       PROVE  Rest'
  BY <1>15 DEF Upgrade
<1>16. ASSUME NEW l \in Labels, NEW requested \in BOOLEAN, StartSearch(l, requested)
       PROVE  Rest'
  BY <1>16 DEF StartSearch
<1>17. CASE ReaderStep
  BY <1>17 DEF ReaderStep, CheckState, CheckManifest, OpenForSearch, CreateReader
<1>18. CASE UNCHANGED vars
  BY <1>18 DEF vars
<1> QED
  BY <1>1, <1>2, <1>3, <1>4, <1>5, <1>6, <1>7, <1>8, <1>9, <1>10, <1>11, <1>12, <1>13,
     <1>14, <1>15, <1>16, <1>17, <1>18 DEF CompleteInv, Next, WriterStep

(* Where no label's folder lies inside another's, a label flagged complete  *)
(* has a whole index of exactly its rows, however its crawls, those of its  *)
(* peers and purges were interrupted.  Without the assumption the run       *)
(* fts_nested_labels finds a counterexample.                                *)
THEOREM CompleteLabelsHaveIndexes ==
    ASSUME FlatLabels
    PROVE  Spec => []CompleteHasIndex
<1>1. Init => CompleteInv
  <2> SUFFICES ASSUME Init PROVE CompleteInv
    OBVIOUS
  <2>1. CompleteHasIndex /\ CrawlOwnsLabel /\ CommitStands
    BY DEF Init, CompleteHasIndex, CrawlOwnsLabel, CommitStands
  <2> QED
    BY <2>1, InitFolderInv DEF CompleteInv
<1>2. CompleteInv /\ [Next]_vars => CompleteInv'
  BY NextCompleteInv
<1>3. CompleteInv => CompleteHasIndex
  BY DEF CompleteInv
<1> QED
  BY <1>1, <1>2, <1>3, PTL DEF Spec
=============================================================================
