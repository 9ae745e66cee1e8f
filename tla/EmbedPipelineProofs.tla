------------------------ MODULE EmbedPipelineProofs -------------------------
(***************************************************************************)
(* Theorems about EmbedPipeline, for any chunks, any number of threads,    *)
(* sessions and failures: the threads of the upload phase together do what *)
(* UploadPhase says.                                                       *)
(***************************************************************************)
EXTENDS EmbedPipeline, FiniteSetsExt, Folds, FiniteSetTheorems, WellFoundedInduction, TLAPS

Result == IF main \in {"ok", "error"} THEN main ELSE "running"

Held(i) == \E t \in Threads : thread[t] = i

TypeInv ==
    /\ method \in {"vector", "fts"}
    /\ main \in Mains
    /\ todo \subseteq Indices
    /\ thread \in [Threads -> Indices \cup {NULL}]
    /\ \A t \in Threads : encoding[t] => thread[t] # NULL
    /\ encoding \in [Threads -> BOOLEAN]
    /\ channel \subseteq Indices /\ accumulated \subseteq Indices
    /\ stored \subseteq Indices /\ failures \subseteq Indices
    /\ stop \in BOOLEAN /\ final \in BOOLEAN
    /\ writer \in {"top", "drain", "upload", "mark", "check", "check_empty", "done", "failed"}
    /\ expected \in [Files -> Nat] /\ uploaded \in [Files -> Nat]
    /\ marks \subseteq Files /\ marked \subseteq Files

(* A chunk is in one place; none is lost unless the writer task failed.     *)
PlaceInv ==
    /\ writer # "failed" =>
          \A i \in Indices : \/ i \in todo \/ Held(i) \/ i \in channel
                             \/ i \in accumulated \/ i \in stored \/ i \in failures
    /\ \A t, u \in Threads : thread[t] = thread[u] /\ thread[t] # NULL => t = u
    /\ \A i \in Indices :
          /\ i \in todo => ~Held(i)
          /\ i \in todo \/ Held(i) =>
                i \notin channel /\ i \notin accumulated /\ i \notin stored /\ i \notin failures
          /\ i \in channel => i \notin accumulated /\ i \notin stored /\ i \notin failures
          /\ i \in failures => i \notin accumulated /\ i \notin stored
          /\ writer \notin {"mark", "failed"} => i \notin accumulated \/ i \notin stored
          /\ writer = "mark" /\ i \in accumulated => i \in stored

(* The counts the writer keeps are those of the rows.                       *)
CountInv ==
    writer # "failed" =>
        \A f \in Files :
            /\ uploaded[f] = Cardinality(stored \cap ChunksOf(f))
            /\ expected[f] = IF (accumulated \cup stored) \cap ChunksOf(f) = {} THEN 0
                             ELSE Cardinality(ChunksOf(f))

Whole == {f \in Files : ChunksOf(f) \subseteq stored}

MarkInv ==
    writer # "failed" =>
        /\ writer # "mark" => marks = {}
        /\ marked \cup marks = Whole

(* The writer's last look at the channel comes after the last send.         *)
EndInv ==
    /\ main \in {"running", "joining", "waiting", "ok", "error"}
    /\ stop <=> main # "running"
    /\ stop => todo = {} /\ \A t \in Threads : thread[t] = NULL
    /\ writer = "check_empty" => stop
    /\ final => stop /\ channel = {} /\ writer \in {"upload", "mark", "done", "failed"}
    /\ writer = "done" => final /\ accumulated = {}
    /\ main \in {"ok", "error"} => writer \in {"done", "failed"}

VectorInv == method = "vector" => PlaceInv /\ CountInv /\ MarkInv /\ EndInv

FtsInv ==
    method = "fts" =>
        /\ failures = {}
        /\ \E n \in 0..Len(AllChunks) : stored = 1..n
        /\ marks # {} \/ marked # {} => stored = Indices
        /\ main \in {"stored", "join_stored", "ok"} => marked = Files

Inv == TypeInv /\ VectorInv /\ FtsInv

PhaseStep == [Phase!Next]_<<stored, failures, marked, Result>>

-----------------------------------------------------------------------------

LEMMA FilesAreFinite ==
    /\ IsFiniteSet(Indices) /\ Files # {}
    /\ \A f \in Files : /\ IsFiniteSet(ChunksOf(f)) /\ ChunksOf(f) # {}
                        /\ ChunksOf(f) \subseteq Indices
                        /\ Cardinality(ChunksOf(f)) \in Nat \ {0}
<1>1. Indices = 1..Len(AllChunks) /\ Len(AllChunks) \in Nat \ {0}
  BY EmbedPipelineAssumption DEF Indices
<1>2. IsFiniteSet(Indices)
  BY <1>1, FS_Interval
<1>3. Files # {}
  BY <1>1 DEF Files
<1>4. ASSUME NEW f \in Files
      PROVE  /\ IsFiniteSet(ChunksOf(f)) /\ ChunksOf(f) # {}
             /\ ChunksOf(f) \subseteq Indices
             /\ Cardinality(ChunksOf(f)) \in Nat \ {0}
  <2>1. ChunksOf(f) # {} /\ ChunksOf(f) \in SUBSET Indices
    BY DEF Files, ChunksOf
  <2>2. IsFiniteSet(ChunksOf(f))
    BY <1>2, <2>1, FS_Subset
  <2> QED
    BY <2>1, <2>2, FS_CardinalityType, FS_EmptySet
<1> QED
  BY <1>2, <1>3, <1>4

(* A set of a file's chunks as large as the file is the file.               *)
LEMMA SubsetsOfFiles ==
    ASSUME NEW f \in Files, NEW S
    PROVE  /\ IsFiniteSet(S \cap ChunksOf(f))
           /\ Cardinality(S \cap ChunksOf(f)) \in Nat
           /\ Cardinality(S \cap ChunksOf(f)) = Cardinality(ChunksOf(f))
                 <=> ChunksOf(f) \subseteq S
<1>1. S \cap ChunksOf(f) \in SUBSET ChunksOf(f)
  OBVIOUS
<1>2. IsFiniteSet(ChunksOf(f))
  BY FilesAreFinite
<1>3. /\ IsFiniteSet(S \cap ChunksOf(f))
      /\ Cardinality(ChunksOf(f)) = Cardinality(S \cap ChunksOf(f)) =>
            ChunksOf(f) = S \cap ChunksOf(f)
  BY <1>1, <1>2, FS_Subset
<1>4. Cardinality(S \cap ChunksOf(f)) \in Nat
  BY <1>3, FS_CardinalityType
<1>5. ChunksOf(f) \subseteq S => S \cap ChunksOf(f) = ChunksOf(f)
  OBVIOUS
<1> QED
  BY <1>3, <1>4, <1>5

LEMMA DisjointCounts ==
    ASSUME NEW f \in Files, NEW S, NEW T, S \cap T = {}
    PROVE  Cardinality((S \cup T) \cap ChunksOf(f))
             = Cardinality(S \cap ChunksOf(f)) + Cardinality(T \cap ChunksOf(f))
<1> DEFINE A == S \cap ChunksOf(f)
           B == T \cap ChunksOf(f)
<1>1. IsFiniteSet(A) /\ IsFiniteSet(B) /\ Cardinality(A) \in Nat /\ Cardinality(B) \in Nat
  BY SubsetsOfFiles
<1>2. (S \cup T) \cap ChunksOf(f) = A \cup B /\ A \cap B = {}
  OBVIOUS
<1> HIDE DEF A, B
<1>3. Cardinality(A \cup B) = Cardinality(A) + Cardinality(B) - Cardinality(A \cap B)
  BY <1>1, FS_Union
<1>4. Cardinality(A \cap B) = 0
  BY <1>2, FS_EmptySet
<1> QED
  BY <1>1, <1>2, <1>3, <1>4 DEF A, B

LEMMA InitSatisfiesInv == Init => Inv /\ Phase!Init
<1> SUFFICES ASSUME Init
             PROVE  Inv /\ Phase!Init
  OBVIOUS
<1>1. TypeInv
  BY EmbedPipelineAssumption DEF Init, TypeInv, Mains
<1>2. PlaceInv
  BY EmbedPipelineAssumption DEF Init, PlaceInv, Held
<1>3. CountInv
  <2> SUFFICES ASSUME NEW f \in Files
               PROVE  /\ uploaded[f] = Cardinality(stored \cap ChunksOf(f))
                      /\ (accumulated \cup stored) \cap ChunksOf(f) = {}
                      /\ expected[f] = 0
    BY DEF CountInv
  <2> QED
    BY FS_EmptySet DEF Init
<1>4. MarkInv
  BY FilesAreFinite DEF Init, MarkInv, Whole
<1>5. EndInv
  BY DEF Init, EndInv
<1>6. FtsInv
  <2>1. stored = 1..0 /\ 0 \in 0..Len(AllChunks)
    BY EmbedPipelineAssumption DEF Init
  <2> QED
    BY <2>1 DEF Init, FtsInv
<1>7. Phase!Init
  BY DEF Init, Phase!Init
<1> QED
  BY <1>1, <1>2, <1>3, <1>4, <1>5, <1>6, <1>7 DEF Inv, VectorInv

(* Steps that leave the rows, the sentinels and the result alone.           *)
LEMMA Stutter ==
    ASSUME UNCHANGED <<stored, failures, marked, main>>
    PROVE  PhaseStep
  BY DEF PhaseStep, Result

-----------------------------------------------------------------------------
(* The embedding threads.                                                   *)

LEMMA TakeChunkStep ==
    ASSUME Inv, NEW t \in Threads, TakeChunk(t)
    PROVE  Inv' /\ PhaseStep
<1> USE DEF TakeChunk, Embeds, embedding, writing, store, reporting
<1>0. TypeInv /\ PlaceInv /\ CountInv /\ MarkInv /\ EndInv /\ method = "vector"
  BY DEF Inv, VectorInv
<1>1. PICK i \in todo : todo' = todo \ {i} /\ thread' = [thread EXCEPT ![t] = i]
  OBVIOUS
<1>2. i \in Indices /\ i # NULL /\ thread[t] = NULL
  BY <1>0, <1>1, EmbedPipelineAssumption DEF TypeInv
<1>3. TypeInv'
  BY <1>0, <1>1, <1>2 DEF TypeInv
<1>4. \A j \in Indices : Held(j)' <=> Held(j) \/ j = i
  <2>1. \A u \in Threads : thread'[u] = IF u = t THEN i ELSE thread[u]
    BY <1>0, <1>1 DEF TypeInv
  <2> QED
    BY <2>1, <1>2, EmbedPipelineAssumption DEF Held
<1>5. PlaceInv'
  <2>1. \A u, v \in Threads : thread'[u] = thread'[v] /\ thread'[u] # NULL => u = v
    BY <1>0, <1>1, <1>2 DEF TypeInv, PlaceInv, Held
  <2> QED
    BY <1>0, <1>1, <1>2, <1>4, <2>1 DEF PlaceInv
<1>6. CountInv' /\ MarkInv'
  BY <1>0 DEF CountInv, MarkInv, Whole
<1>7. EndInv'
  BY <1>0, <1>1 DEF EndInv
<1> QED
  BY <1>0, <1>3, <1>5, <1>6, <1>7, Stutter DEF Inv, VectorInv, FtsInv

LEMMA LockSessionStep ==
    ASSUME Inv, NEW t \in Threads, LockSession(t)
    PROVE  Inv' /\ PhaseStep
<1> USE DEF LockSession, Embeds, embedding, writing, store, reporting
<1>0. TypeInv /\ PlaceInv /\ CountInv /\ MarkInv /\ EndInv /\ method = "vector"
  BY DEF Inv, VectorInv
<1>1. TypeInv'
  BY <1>0 DEF TypeInv
<1>2. PlaceInv' /\ CountInv' /\ MarkInv' /\ EndInv'
  BY <1>0 DEF PlaceInv, Held, CountInv, MarkInv, Whole, EndInv
<1> QED
  BY <1>0, <1>1, <1>2, Stutter DEF Inv, VectorInv, FtsInv

LEMMA ChunkLeaves ==
    ASSUME Inv, NEW t \in Threads, LeaveSession(t)
    PROVE  /\ thread[t] \in Indices /\ Held(thread[t])
           /\ ~stop /\ main = "running" /\ stop' = stop
           /\ \A j \in Indices : Held(j)' <=> Held(j) /\ j # thread[t]
           /\ \A u, v \in Threads : thread'[u] = thread'[v] /\ thread'[u] # NULL => u = v
<1> USE DEF LeaveSession, Embeds, embedding, writing, store, reporting
<1>0. TypeInv /\ PlaceInv /\ EndInv /\ method = "vector"
  BY DEF Inv, VectorInv
<1>1. thread[t] # NULL /\ thread[t] \in Indices /\ Held(thread[t])
  BY <1>0 DEF TypeInv, Held
<1>2. ~stop /\ main = "running" /\ stop' = stop
  BY <1>0, <1>1 DEF EndInv
<1>3. \A u \in Threads : thread'[u] = IF u = t THEN NULL ELSE thread[u]
  BY <1>0 DEF TypeInv
<1>4. \A j \in Indices : Held(j)' <=> Held(j) /\ j # thread[t]
  BY <1>0, <1>1, <1>3, EmbedPipelineAssumption DEF Held, PlaceInv
<1>5. \A u, v \in Threads : thread'[u] = thread'[v] /\ thread'[u] # NULL => u = v
  BY <1>0, <1>3 DEF PlaceInv
<1> QED
  BY <1>1, <1>2, <1>4, <1>5

LEMMA ChunkEmbeddedStep ==
    ASSUME Inv, NEW t \in Threads, ChunkEmbedded(t)
    PROVE  Inv' /\ PhaseStep
<1> USE DEF ChunkEmbedded, LeaveSession, Embeds, embedding, writing, store, reporting
<1>0. TypeInv /\ PlaceInv /\ CountInv /\ MarkInv /\ EndInv /\ method = "vector"
  BY DEF Inv, VectorInv
<1>1. /\ thread[t] \in Indices /\ Held(thread[t])
      /\ ~stop /\ main = "running" /\ stop' = stop
      /\ \A j \in Indices : Held(j)' <=> Held(j) /\ j # thread[t]
      /\ \A u, v \in Threads : thread'[u] = thread'[v] /\ thread'[u] # NULL => u = v
  BY ChunkLeaves
<1>2. TypeInv'
  BY <1>0, <1>1 DEF TypeInv
<1>3. PlaceInv'
  BY <1>0, <1>1 DEF PlaceInv
<1>4. CountInv' /\ MarkInv'
  BY <1>0 DEF CountInv, MarkInv, Whole
<1>5. EndInv'
  BY <1>0, <1>1 DEF EndInv
<1> QED
  BY <1>0, <1>2, <1>3, <1>4, <1>5, Stutter DEF Inv, VectorInv, FtsInv

LEMMA ChunkFailsStep ==
    ASSUME Inv, NEW t \in Threads, ChunkFails(t)
    PROVE  Inv' /\ PhaseStep
<1> USE DEF ChunkFails, LeaveSession, Embeds, embedding, writing, store, reporting
<1>0. TypeInv /\ PlaceInv /\ CountInv /\ MarkInv /\ EndInv /\ method = "vector"
  BY DEF Inv, VectorInv
<1>1. /\ thread[t] \in Indices /\ Held(thread[t])
      /\ ~stop /\ main = "running" /\ stop' = stop
      /\ \A j \in Indices : Held(j)' <=> Held(j) /\ j # thread[t]
      /\ \A u, v \in Threads : thread'[u] = thread'[v] /\ thread'[u] # NULL => u = v
  BY ChunkLeaves
<1>2. TypeInv'
  BY <1>0, <1>1 DEF TypeInv
<1>3. PlaceInv'
  BY <1>0, <1>1 DEF PlaceInv
<1>4. CountInv' /\ MarkInv'
  BY <1>0 DEF CountInv, MarkInv, Whole
<1>5. EndInv'
  BY <1>0, <1>1 DEF EndInv
<1>6. Phase!Drop(thread[t])
  BY <1>0, <1>1 DEF Phase!Drop, PlaceInv
<1>7. PhaseStep
  BY <1>1, <1>6 DEF PhaseStep, Phase!Next
<1> QED
  BY <1>0, <1>2, <1>3, <1>4, <1>5, <1>7 DEF Inv, VectorInv, FtsInv

-----------------------------------------------------------------------------
(* The writer task.                                                         *)

(* What no step of the writer touches.                                      *)
LEMMA WriterKeeps ==
    ASSUME Inv, NEW at, Writes(at)
    PROVE  /\ method = "vector" /\ method' = method /\ writer = at
           /\ TypeInv /\ PlaceInv /\ CountInv /\ MarkInv /\ EndInv
           /\ UNCHANGED <<main, todo, thread, encoding, stop, failures>>
           /\ \A i \in Indices : Held(i)' <=> Held(i)
           /\ at \notin {"done", "failed"} => main \in {"running", "joining", "waiting"}
  BY DEF Inv, VectorInv, Writes, Held, EndInv

LEMMA WriterTopStep ==
    ASSUME Inv, WriterTop
    PROVE  Inv' /\ PhaseStep
<1> USE DEF WriterTop, store
<1>0. /\ method = "vector" /\ method' = method /\ writer = "top"
      /\ TypeInv /\ PlaceInv /\ CountInv /\ MarkInv /\ EndInv
      /\ UNCHANGED <<main, todo, thread, encoding, stop, failures>>
      /\ \A i \in Indices : Held(i)' <=> Held(i)
  BY WriterKeeps
<1>1. TypeInv' /\ PlaceInv' /\ CountInv' /\ MarkInv' /\ EndInv'
  BY <1>0 DEF TypeInv, PlaceInv, CountInv, MarkInv, Whole, EndInv
<1> QED
  BY <1>0, <1>1, Stutter DEF Inv, VectorInv, FtsInv

LEMMA DrainOneStep ==
    ASSUME Inv, DrainOne
    PROVE  Inv' /\ PhaseStep
<1> USE DEF DrainOne, store
<1>0. /\ method = "vector" /\ method' = method /\ writer = "drain"
      /\ TypeInv /\ PlaceInv /\ CountInv /\ MarkInv /\ EndInv
      /\ UNCHANGED <<main, todo, thread, encoding, stop, failures>>
      /\ \A i \in Indices : Held(i)' <=> Held(i)
  BY WriterKeeps
<1>1. PICK i \in channel :
         /\ channel' = channel \ {i}
         /\ accumulated' = accumulated \cup {i}
         /\ expected' = [expected EXCEPT ![AllChunks[i]] = Cardinality(ChunksOf(AllChunks[i]))]
  OBVIOUS
<1>2. /\ i \in Indices /\ AllChunks[i] \in Files
      /\ \A f \in Files : i \in ChunksOf(f) <=> f = AllChunks[i]
  BY <1>0 DEF TypeInv, Files, ChunksOf
<1>3. TypeInv'
  BY <1>0, <1>1, <1>2, FilesAreFinite DEF TypeInv
<1>4. PlaceInv'
  BY <1>0, <1>1, <1>2 DEF PlaceInv
<1>5. CountInv'
  <2>1. ASSUME NEW f \in Files, f = AllChunks[i]
        PROVE  /\ expected'[f] = Cardinality(ChunksOf(f))
               /\ (accumulated' \cup stored') \cap ChunksOf(f) # {}
    BY <1>0, <1>1, <1>2, <2>1 DEF TypeInv
  <2>2. ASSUME NEW f \in Files, f # AllChunks[i]
        PROVE  /\ expected'[f] = expected[f]
               /\ (accumulated' \cup stored') \cap ChunksOf(f)
                    = (accumulated \cup stored) \cap ChunksOf(f)
    BY <1>0, <1>1, <1>2, <2>2 DEF TypeInv
  <2> QED
    BY <1>0, <2>1, <2>2 DEF CountInv
<1>6. MarkInv' /\ EndInv'
  BY <1>0 DEF MarkInv, Whole, EndInv
<1> QED
  BY <1>0, <1>3, <1>4, <1>5, <1>6, Stutter DEF Inv, VectorInv, FtsInv

LEMMA DrainEndStep ==
    ASSUME Inv, DrainEnd
    PROVE  Inv' /\ PhaseStep
<1> USE DEF DrainEnd, store
<1>0. /\ method = "vector" /\ method' = method /\ writer = "drain"
      /\ TypeInv /\ PlaceInv /\ CountInv /\ MarkInv /\ EndInv
      /\ UNCHANGED <<main, todo, thread, encoding, stop, failures>>
      /\ \A i \in Indices : Held(i)' <=> Held(i)
  BY WriterKeeps
<1>1. TypeInv' /\ PlaceInv' /\ CountInv' /\ MarkInv' /\ EndInv'
  BY <1>0 DEF TypeInv, PlaceInv, CountInv, MarkInv, Whole, EndInv
<1> QED
  BY <1>0, <1>1, Stutter DEF Inv, VectorInv, FtsInv

LEMMA UploadStep ==
    ASSUME Inv, Upload
    PROVE  Inv' /\ PhaseStep
<1> USE DEF Upload
<1>0. /\ method = "vector" /\ method' = method /\ writer = "upload"
      /\ TypeInv /\ PlaceInv /\ CountInv /\ MarkInv /\ EndInv
      /\ UNCHANGED <<main, todo, thread, encoding, stop, failures>>
      /\ \A i \in Indices : Held(i)' <=> Held(i)
      /\ main \in {"running", "joining", "waiting"}
  BY WriterKeeps
<1>1. accumulated \cap stored = {} /\ accumulated \cap failures = {}
  BY <1>0 DEF PlaceInv, TypeInv
<1>2. \A f \in Files :
         /\ uploaded'[f] = Cardinality(stored' \cap ChunksOf(f))
         /\ uploaded'[f] \in Nat
  <2> TAKE f \in Files
  <2>1. uploaded'[f] = uploaded[f] + Cardinality(accumulated \cap ChunksOf(f))
    BY DEF CountUploaded
  <2>2. Cardinality((stored \cup accumulated) \cap ChunksOf(f))
          = Cardinality(stored \cap ChunksOf(f)) + Cardinality(accumulated \cap ChunksOf(f))
    BY <1>1, DisjointCounts
  <2>3. uploaded[f] = Cardinality(stored \cap ChunksOf(f))
    BY <1>0 DEF CountInv
  <2>4. stored' \cap ChunksOf(f) = (stored \cup accumulated) \cap ChunksOf(f)
    OBVIOUS
  <2>5. Cardinality(stored' \cap ChunksOf(f)) \in Nat
    BY SubsetsOfFiles
  <2> QED
    BY ONLY <2>1, <2>2, <2>3, <2>4, <2>5
<1>3. TypeInv'
  BY <1>0, <1>2 DEF TypeInv, CountUploaded
<1>4. PlaceInv'
  BY <1>0, <1>1 DEF PlaceInv
<1>5. CountInv'
  <2>1. accumulated' \cup stored' = accumulated \cup stored
    OBVIOUS
  <2> QED
    BY <1>0, <1>2, <2>1 DEF CountInv
<1>6. MarkInv'
  <2>1. ASSUME NEW f \in Files, accumulated \cap ChunksOf(f) # {}
        PROVE  f \in marks' <=> ChunksOf(f) \subseteq stored'
    <3>1. (accumulated \cup stored) \cap ChunksOf(f) # {}
      BY <2>1
    <3>2. expected[f] = Cardinality(ChunksOf(f))
      BY <1>0, <3>1 DEF CountInv
    <3>3. Cardinality(ChunksOf(f)) \in Nat \ {0}
      BY FilesAreFinite
    <3>4. f \in marks' <=> uploaded'[f] = Cardinality(ChunksOf(f))
      BY <2>1, <3>2, <3>3
    <3> QED
      BY <1>2, <3>4, SubsetsOfFiles
  <2>2. ASSUME NEW f \in Files, accumulated \cap ChunksOf(f) = {}
        PROVE  f \notin marks' /\ (ChunksOf(f) \subseteq stored' <=> ChunksOf(f) \subseteq stored)
    BY <2>2
  <2>3. marked = Whole /\ marks' \subseteq Files
    BY <1>0 DEF MarkInv
  <2>4. Whole \subseteq Whole'
    BY DEF Whole
  <2> QED
    BY <2>1, <2>2, <2>3, <2>4 DEF MarkInv, Whole
<1>7. EndInv'
  BY <1>0 DEF EndInv
<1>8. Phase!Store(accumulated)
  BY <1>0, <1>1 DEF Phase!Store
<1>9. PhaseStep
  BY <1>0, <1>8 DEF PhaseStep, Phase!Next, TypeInv
<1> QED
  BY <1>0, <1>3, <1>4, <1>5, <1>6, <1>7, <1>9 DEF Inv, VectorInv, FtsInv

LEMMA MarkFileStep ==
    ASSUME Inv, MarkFile
    PROVE  Inv' /\ PhaseStep
<1> USE DEF MarkFile
<1>0. /\ method = "vector" /\ method' = method /\ writer = "mark"
      /\ TypeInv /\ PlaceInv /\ CountInv /\ MarkInv /\ EndInv
      /\ UNCHANGED <<main, todo, thread, encoding, stop, failures>>
      /\ \A i \in Indices : Held(i)' <=> Held(i)
      /\ main \in {"running", "joining", "waiting"}
  BY WriterKeeps
<1>1. PICK f \in marks : marked' = marked \cup {f} /\ marks' = marks \ {f}
  OBVIOUS
<1>2. TypeInv'
  BY <1>0, <1>1 DEF TypeInv
<1>3. PlaceInv' /\ CountInv' /\ EndInv'
  BY <1>0 DEF PlaceInv, CountInv, EndInv
<1>4. MarkInv'
  BY <1>0, <1>1 DEF MarkInv, Whole
<1>5. f \in Files /\ ChunksOf(f) \subseteq stored
  BY <1>0 DEF MarkInv, Whole
<1>6. Phase!Mark({f})
  BY <1>0, <1>1, <1>5 DEF Phase!Mark
<1>7. PhaseStep
  BY <1>5, <1>6 DEF PhaseStep, Phase!Next
<1> QED
  BY <1>0, <1>2, <1>3, <1>4, <1>7 DEF Inv, VectorInv, FtsInv

LEMMA MarkEndStep ==
    ASSUME Inv, MarkEnd
    PROVE  Inv' /\ PhaseStep
<1> USE DEF MarkEnd, store
<1>0. /\ method = "vector" /\ method' = method /\ writer = "mark"
      /\ TypeInv /\ PlaceInv /\ CountInv /\ MarkInv /\ EndInv
      /\ UNCHANGED <<main, todo, thread, encoding, stop, failures>>
      /\ \A i \in Indices : Held(i)' <=> Held(i)
      /\ main \in {"running", "joining", "waiting"}
  BY WriterKeeps
<1>1. accumulated \subseteq stored
  BY <1>0 DEF TypeInv, PlaceInv
<1>2. TypeInv'
  BY <1>0 DEF TypeInv
<1>3. PlaceInv'
  BY <1>0, <1>1 DEF PlaceInv
<1>4. CountInv'
  <2>1. accumulated' \cup stored' = accumulated \cup stored
    BY <1>1
  <2> QED
    BY <1>0, <2>1 DEF CountInv
<1>5. MarkInv' /\ EndInv'
  BY <1>0 DEF MarkInv, Whole, EndInv
<1> QED
  BY <1>0, <1>2, <1>3, <1>4, <1>5, Stutter DEF Inv, VectorInv, FtsInv

LEMMA CheckStopStep ==
    ASSUME Inv, CheckStop
    PROVE  Inv' /\ PhaseStep
<1> USE DEF CheckStop, store
<1>0. /\ method = "vector" /\ method' = method /\ writer = "check"
      /\ TypeInv /\ PlaceInv /\ CountInv /\ MarkInv /\ EndInv
      /\ UNCHANGED <<main, todo, thread, encoding, stop, failures>>
      /\ \A i \in Indices : Held(i)' <=> Held(i)
      /\ main \in {"running", "joining", "waiting"}
  BY WriterKeeps
<1>1. TypeInv' /\ PlaceInv' /\ CountInv' /\ MarkInv' /\ EndInv'
  BY <1>0 DEF TypeInv, PlaceInv, CountInv, MarkInv, Whole, EndInv
<1> QED
  BY <1>0, <1>1, Stutter DEF Inv, VectorInv, FtsInv

(* The flag was up before the channel was looked at, so that an empty       *)
(* channel stays empty.                                                     *)
LEMMA CheckEmptyStep ==
    ASSUME Inv, CheckEmpty
    PROVE  Inv' /\ PhaseStep
<1> USE DEF CheckEmpty, store
<1>0. /\ method = "vector" /\ method' = method /\ writer = "check_empty"
      /\ TypeInv /\ PlaceInv /\ CountInv /\ MarkInv /\ EndInv
      /\ UNCHANGED <<main, todo, thread, encoding, stop, failures>>
      /\ \A i \in Indices : Held(i)' <=> Held(i)
      /\ main \in {"running", "joining", "waiting"}
  BY WriterKeeps
<1>1. TypeInv' /\ PlaceInv' /\ CountInv' /\ MarkInv'
  BY <1>0 DEF TypeInv, PlaceInv, CountInv, MarkInv, Whole
<1>2. EndInv'
  BY <1>0 DEF EndInv
<1> QED
  BY <1>0, <1>1, <1>2, Stutter DEF Inv, VectorInv, FtsInv

LEMMA WriterFailsStep ==
    ASSUME Inv, WriterFails
    PROVE  Inv' /\ PhaseStep
<1> USE DEF WriterFails
<1>1. CASE Writes("upload") /\ \E S \in SUBSET accumulated : stored' = stored \cup S
  <2> USE <1>1
  <2>0. /\ method = "vector" /\ method' = method /\ writer = "upload"
        /\ TypeInv /\ PlaceInv /\ CountInv /\ MarkInv /\ EndInv
        /\ UNCHANGED <<main, todo, thread, encoding, stop, failures>>
        /\ \A i \in Indices : Held(i)' <=> Held(i)
        /\ main \in {"running", "joining", "waiting"}
    BY WriterKeeps
  <2>1. PICK S \in SUBSET accumulated : stored' = stored \cup S
    OBVIOUS
  <2>2. TypeInv' /\ EndInv' /\ CountInv' /\ MarkInv'
    BY <2>0 DEF TypeInv, EndInv, CountInv, MarkInv
  <2>3. PlaceInv'
    BY <2>0, <2>1 DEF PlaceInv
  <2>4. Phase!Store(S)
    BY <2>0, <2>1 DEF Phase!Store, PlaceInv, TypeInv
  <2>5. PhaseStep
    BY <2>0, <2>1, <2>4 DEF PhaseStep, Phase!Next, TypeInv
  <2> QED
    BY <2>0, <2>2, <2>3, <2>5 DEF Inv, VectorInv, FtsInv
<1>2. CASE Writes("mark") /\ marks # {} /\ UNCHANGED stored
  <2> USE <1>2
  <2>0. /\ method = "vector" /\ method' = method /\ writer = "mark"
        /\ TypeInv /\ PlaceInv /\ CountInv /\ MarkInv /\ EndInv
        /\ UNCHANGED <<main, todo, thread, encoding, stop, failures>>
        /\ \A i \in Indices : Held(i)' <=> Held(i)
        /\ main \in {"running", "joining", "waiting"}
    BY WriterKeeps
  <2>1. TypeInv' /\ EndInv' /\ CountInv' /\ MarkInv'
    BY <2>0 DEF TypeInv, EndInv, CountInv, MarkInv
  <2>2. PlaceInv'
    BY <2>0 DEF PlaceInv
  <2> QED
    BY <2>0, <2>1, <2>2, Stutter DEF Inv, VectorInv, FtsInv
<1> QED
  BY <1>1, <1>2

-----------------------------------------------------------------------------
(* The crawl's own thread around both.                                      *)

LEMMA PrinterEndsStep ==
    ASSUME Inv, PrinterEnds
    PROVE  Inv' /\ PhaseStep
<1> USE DEF PrinterEnds, writing, store, reporting
<1>0. TypeInv /\ PlaceInv /\ CountInv /\ MarkInv /\ EndInv /\ method = "vector"
  BY DEF Inv, VectorInv
<1>1. TypeInv' /\ PlaceInv' /\ CountInv' /\ MarkInv' /\ EndInv'
  BY <1>0 DEF TypeInv, PlaceInv, Held, CountInv, MarkInv, Whole, EndInv
<1> QED
  BY <1>0, <1>1, Stutter DEF Inv, VectorInv, FtsInv

(* What no step of the crawl's thread touches in a vector crawl.            *)
LEMMA JoinKeeps ==
    ASSUME Inv, NEW at, Joins(at)
    PROVE  /\ method = "vector" /\ method' = method /\ main = at /\ writer' = writer
           /\ TypeInv /\ PlaceInv /\ CountInv /\ MarkInv /\ EndInv
           /\ PlaceInv' /\ CountInv' /\ MarkInv'
           /\ UNCHANGED <<todo, thread, encoding, channel, accumulated, stored, failures, marked,
                          marks, final, expected, uploaded>>
  BY DEF Inv, VectorInv, Joins, writing, store, reporting, PlaceInv, Held, CountInv, MarkInv, Whole

LEMMA RaiseStopStep ==
    ASSUME Inv, RaiseStop
    PROVE  Inv' /\ PhaseStep
<1> USE DEF RaiseStop
<1>0. /\ method = "vector" /\ method' = method /\ main = "running" /\ writer' = writer
      /\ TypeInv /\ PlaceInv /\ CountInv /\ MarkInv /\ EndInv
      /\ PlaceInv' /\ CountInv' /\ MarkInv'
      /\ UNCHANGED <<todo, thread, encoding, channel, accumulated, stored, failures, marked,
                     marks, final, expected, uploaded>>
  BY JoinKeeps
<1>1. TypeInv' /\ EndInv'
  BY <1>0 DEF TypeInv, Mains, EndInv
<1>2. PhaseStep
  BY <1>0 DEF PhaseStep, Result
<1> QED
  BY <1>0, <1>1, <1>2 DEF Inv, VectorInv, FtsInv

LEMMA JoinPrinterStep ==
    ASSUME Inv, JoinPrinter
    PROVE  Inv' /\ PhaseStep
<1> USE DEF JoinPrinter
<1>0. /\ method = "vector" /\ method' = method /\ main = "joining" /\ writer' = writer
      /\ TypeInv /\ PlaceInv /\ CountInv /\ MarkInv /\ EndInv
      /\ PlaceInv' /\ CountInv' /\ MarkInv'
      /\ UNCHANGED <<todo, thread, encoding, channel, accumulated, stored, failures, marked,
                     marks, final, expected, uploaded>>
  BY JoinKeeps
<1>1. TypeInv' /\ EndInv'
  BY <1>0 DEF TypeInv, Mains, EndInv
<1>2. PhaseStep
  BY <1>0 DEF PhaseStep, Result
<1> QED
  BY <1>0, <1>1, <1>2 DEF Inv, VectorInv, FtsInv

(* When the writer is done, every chunk is a row or a failure.              *)
LEMMA AwaitWriterStep ==
    ASSUME Inv, AwaitWriter
    PROVE  Inv' /\ PhaseStep
<1> USE DEF AwaitWriter
<1>0. /\ method = "vector" /\ method' = method /\ main = "waiting" /\ writer' = writer
      /\ TypeInv /\ PlaceInv /\ CountInv /\ MarkInv /\ EndInv
      /\ PlaceInv' /\ CountInv' /\ MarkInv'
      /\ UNCHANGED <<todo, thread, encoding, channel, accumulated, stored, failures, marked,
                     marks, final, expected, uploaded>>
  BY JoinKeeps
<1>1. TypeInv' /\ EndInv'
  BY <1>0 DEF TypeInv, Mains, EndInv
<1>2. ASSUME writer = "done"
      PROVE  PhaseStep
  <2>1. /\ todo = {} /\ channel = {} /\ accumulated = {}
        /\ \A i \in Indices : ~Held(i)
    BY <1>0, <1>2, EmbedPipelineAssumption DEF EndInv, Held
  <2>2. stored \cup failures = Indices
    BY <1>0, <1>2, <2>1 DEF PlaceInv, TypeInv
  <2>3. marked = Whole
    BY <1>0, <1>2 DEF MarkInv
  <2>4. Phase!Succeed
    BY <1>0, <1>2, <2>2, <2>3 DEF Phase!Succeed, Whole
  <2> QED
    BY <2>4 DEF PhaseStep, Phase!Next
<1>3. ASSUME writer = "failed"
      PROVE  PhaseStep
  <2>1. Phase!Fail
    BY <1>0, <1>3 DEF Phase!Fail
  <2> QED
    BY <2>1 DEF PhaseStep, Phase!Next
<1> QED
  BY <1>0, <1>1, <1>2, <1>3 DEF Inv, VectorInv, FtsInv

-----------------------------------------------------------------------------
(* The FTS-only path.                                                       *)

(* What no step of this path touches.                                       *)
LEMMA StoreKeeps ==
    ASSUME Inv, NEW at, Stores(at)
    PROVE  /\ method = "fts" /\ method' = method /\ main = at
           /\ TypeInv /\ FtsInv
           /\ UNCHANGED <<todo, thread, encoding, channel, stop, failures, writer, final,
                          accumulated, expected, uploaded>>
  BY DEF Inv, Stores, embedding, writing

LEMMA StoreBatchStep ==
    ASSUME Inv, StoreBatch
    PROVE  Inv' /\ PhaseStep
<1> DEFINE end == Smaller(Cardinality(stored) + BatchSize, Len(AllChunks))
<1>0. /\ method = "fts" /\ method' = method /\ main = "running" /\ main' = main
      /\ TypeInv /\ FtsInv
      /\ UNCHANGED <<todo, thread, encoding, channel, stop, failures, writer, final,
                     accumulated, expected, uploaded, marked>>
  BY StoreKeeps DEF StoreBatch
<1>1. /\ stored # Indices /\ stored' = 1..end
      /\ marks' = IF end = Len(AllChunks) THEN Files ELSE {}
  BY DEF StoreBatch
<1>2. Indices = 1..Len(AllChunks) /\ Len(AllChunks) \in Nat
  BY EmbedPipelineAssumption DEF Indices
<1>3. PICK n \in 0..Len(AllChunks) : stored = 1..n
  BY <1>0 DEF FtsInv
<1>4. Cardinality(stored) = n
  BY <1>3, <1>2, FS_Interval
<1>5. end \in Nat /\ end <= Len(AllChunks) /\ n <= end
  BY <1>2, <1>3, <1>4, EmbedPipelineAssumption DEF Smaller
<1>6. marks = {} /\ marked = {} /\ failures = {}
  BY <1>0, <1>1 DEF FtsInv
<1> HIDE DEF end
<1>7. stored \subseteq stored' /\ stored' \subseteq Indices /\ end \in 0..Len(AllChunks)
  BY <1>1, <1>2, <1>3, <1>5
<1>8. TypeInv'
  BY <1>0, <1>1, <1>7 DEF TypeInv
<1>9. FtsInv'
  BY <1>0, <1>1, <1>2, <1>6, <1>7 DEF FtsInv
<1>10. Phase!Store(stored')
  BY <1>0, <1>6, <1>7 DEF Phase!Store
<1>11. PhaseStep
  BY <1>7, <1>10 DEF PhaseStep, Phase!Next
<1> QED
  BY <1>0, <1>8, <1>9, <1>11 DEF Inv, VectorInv

LEMMA MarkBatchStep ==
    ASSUME Inv, MarkBatch
    PROVE  Inv' /\ PhaseStep
<1>0. /\ method = "fts" /\ method' = method /\ main = "running" /\ main' = main
      /\ TypeInv /\ FtsInv /\ stored' = stored
      /\ UNCHANGED <<todo, thread, encoding, channel, stop, failures, writer, final,
                     accumulated, expected, uploaded>>
  BY StoreKeeps DEF MarkBatch
<1>1. PICK S \in SUBSET marks : S # {} /\ marked' = marked \cup S /\ marks' = marks \ S
  BY DEF MarkBatch
<1>2. S \subseteq Files /\ marks # {} /\ stored = Indices
  BY <1>0, <1>1 DEF TypeInv, FtsInv
<1>3. TypeInv'
  BY <1>0, <1>1, <1>2 DEF TypeInv
<1>4. FtsInv'
  BY <1>0, <1>1, <1>2 DEF FtsInv
<1>5. Phase!Mark(S)
  BY <1>0, <1>1, <1>2, FilesAreFinite DEF Phase!Mark
<1>6. PhaseStep
  BY <1>2, <1>5 DEF PhaseStep, Phase!Next
<1> QED
  BY <1>0, <1>3, <1>4, <1>6 DEF Inv, VectorInv

LEMMA StoreReturnsStep ==
    ASSUME Inv, StoreReturns
    PROVE  Inv' /\ PhaseStep
<1>0. /\ method = "fts" /\ method' = method /\ main = "running"
      /\ TypeInv /\ FtsInv
      /\ UNCHANGED <<todo, thread, encoding, channel, stop, failures, writer, final,
                     accumulated, expected, uploaded, stored, marked, marks>>
  BY StoreKeeps DEF StoreReturns, store
<1>1. (marked = Files /\ main' = "stored") \/ main' = "not_stored"
  BY DEF StoreReturns
<1>2. TypeInv'
  BY <1>0, <1>1 DEF TypeInv, Mains
<1>3. FtsInv'
  BY <1>0, <1>1 DEF FtsInv
<1>4. PhaseStep
  BY <1>0, <1>1 DEF PhaseStep, Result
<1> QED
  BY <1>0, <1>2, <1>3, <1>4 DEF Inv, VectorInv

LEMMA DropGuardSenderStep ==
    ASSUME Inv, DropGuardSender
    PROVE  Inv' /\ PhaseStep
<1>0. /\ method = "fts" /\ method' = method /\ main \in {"stored", "not_stored"}
      /\ TypeInv /\ FtsInv
      /\ UNCHANGED <<todo, thread, encoding, channel, stop, failures, writer, final,
                     accumulated, expected, uploaded, stored, marked, marks>>
  BY StoreKeeps DEF DropGuardSender, store
<1>1. main' = IF main = "stored" THEN "join_stored" ELSE "join_not_stored"
  BY DEF DropGuardSender
<1>2. TypeInv'
  BY <1>0, <1>1 DEF TypeInv, Mains
<1>3. FtsInv'
  BY <1>0, <1>1 DEF FtsInv
<1>4. PhaseStep
  BY <1>0, <1>1 DEF PhaseStep, Result
<1> QED
  BY <1>0, <1>2, <1>3, <1>4 DEF Inv, VectorInv

LEMMA JoinReporterStep ==
    ASSUME Inv, JoinReporter
    PROVE  Inv' /\ PhaseStep
<1>0. /\ method = "fts" /\ method' = method /\ main \in {"join_stored", "join_not_stored"}
      /\ TypeInv /\ FtsInv
      /\ UNCHANGED <<todo, thread, encoding, channel, stop, failures, writer, final,
                     accumulated, expected, uploaded, stored, marked, marks>>
  BY StoreKeeps DEF JoinReporter, store
<1>1. main' = IF main = "join_stored" THEN "ok" ELSE "error"
  BY DEF JoinReporter
<1>2. TypeInv'
  BY <1>0, <1>1 DEF TypeInv, Mains
<1>3. FtsInv'
  BY <1>0, <1>1 DEF FtsInv
<1>4. ASSUME main = "join_stored"
      PROVE  PhaseStep
  <2>1. marked = Files /\ stored = Indices /\ failures = {}
    BY <1>0, <1>4, FilesAreFinite DEF FtsInv
  <2>2. Phase!Succeed
    BY <1>0, <1>1, <1>4, <2>1, FilesAreFinite DEF Phase!Succeed
  <2> QED
    BY <2>2 DEF PhaseStep, Phase!Next
<1>5. ASSUME main = "join_not_stored"
      PROVE  PhaseStep
  <2>1. Phase!Fail
    BY <1>0, <1>1, <1>5 DEF Phase!Fail
  <2> QED
    BY <2>1 DEF PhaseStep, Phase!Next
<1> QED
  BY <1>0, <1>2, <1>3, <1>4, <1>5 DEF Inv, VectorInv

LEMMA ReporterStep ==
    ASSUME Inv, ReceiveEvents \/ Disconnected
    PROVE  Inv' /\ PhaseStep
<1>1. UNCHANGED <<method, main, embedding, writing, marks, store>>
  BY DEF ReceiveEvents, Disconnected, Reports
<1> QED
  BY <1>1, Stutter DEF Inv, TypeInv, VectorInv, PlaceInv, Held, CountInv, MarkInv, Whole, EndInv,
                       FtsInv, embedding, writing, store

-----------------------------------------------------------------------------

LEMMA StepOnPhase ==
    ASSUME Inv, [Next]_vars
    PROVE  Inv' /\ PhaseStep
<1>1. CASE UNCHANGED vars
  BY <1>1, Stutter DEF Inv, TypeInv, VectorInv, PlaceInv, Held, CountInv, MarkInv, Whole, EndInv,
                       FtsInv, embedding, writing, store, vars
<1>2. CASE \E t \in Threads : Embed(t) \/ ChunkFails(t)
  BY <1>2, TakeChunkStep, LockSessionStep, ChunkEmbeddedStep, ChunkFailsStep DEF Embed
<1>3. CASE Writer
  BY <1>3, WriterTopStep, DrainOneStep, DrainEndStep, UploadStep, MarkFileStep, MarkEndStep,
     CheckStopStep, CheckEmptyStep DEF Writer
<1>4. CASE WriterFails
  BY <1>4, WriterFailsStep
<1>5. CASE PrinterEnds
  BY <1>5, PrinterEndsStep
<1>6. CASE Main
  BY <1>6, RaiseStopStep, JoinPrinterStep, AwaitWriterStep, StoreBatchStep, MarkBatchStep,
     StoreReturnsStep, DropGuardSenderStep, JoinReporterStep DEF Main
<1>7. CASE Reporter
  BY <1>7, ReporterStep DEF Reporter
<1> QED
  BY <1>1, <1>2, <1>3, <1>4, <1>5, <1>6, <1>7 DEF Next

(* Whatever the threads do and whichever of them fail, no chunk is lost     *)
(* between them, a file is marked only once all of its chunks are rows, and *)
(* the phase returns without an error only when every chunk is a row or a   *)
(* reported failure and every whole file is marked.                         *)
THEOREM PipelineImplementsPhase == Spec => ImplementsUploadPhase
<1>1. Init => Inv /\ Phase!Init
  BY InitSatisfiesInv
<1>2. Inv /\ [Next]_vars => Inv' /\ [Phase!Next]_<<stored, failures, marked, Result>>
  BY StepOnPhase DEF PhaseStep
<1> QED
  BY <1>1, <1>2, PTL DEF Spec, ImplementsUploadPhase, Phase!Spec, Result

-----------------------------------------------------------------------------
(* What the reporter prints.  A fold is a recursion over subsets, which the *)
(* library's induction theorems reach only as far as they take no operator. *)

(* Whatever holds of zero and passes to the next number holds of all.       *)
LEMMA SetInduction ==
    ASSUME NEW A, 0 \in A, \A n \in Nat : n \in A => n + 1 \in A
    PROVE  Nat \subseteq A
<1> SUFFICES ASSUME NEW k \in Nat, k \notin A PROVE FALSE
  OBVIOUS
<1> DEFINE T == {0 .. m : m \in Nat \ A}
<1>1. T # {} /\ T \subseteq FiniteSubsetsOf(Nat)
  <2>1. \A m \in Nat : IsFiniteSet(0 .. m)
    <3>1. \A m \in Nat : 0 \in Int /\ m \in Int
      OBVIOUS
    <3> QED BY <3>1, FS_Interval
  <2>2. 0 .. k \in T
    OBVIOUS
  <2> QED BY <2>1, <2>2 DEF FiniteSubsetsOf
<1>2. IsWellFoundedOn(StrictSubsetOrdering(Nat), FiniteSubsetsOf(Nat))
  BY FS_StrictSubsetOrderingWellFounded
<1>3. PICK x \in T : \A y \in T : ~ (<<y, x>> \in StrictSubsetOrdering(Nat))
  <2> HIDE DEF T
  <2> QED BY <1>1, <1>2, WFMin
<1>4. PICK m \in Nat \ A : x = 0 .. m
  BY <1>3
<1>5. m # 0 /\ m - 1 \in Nat /\ m - 1 \notin A
  BY <1>4
<1>6. 0 .. (m - 1) \in T
  BY <1>5
<1>7. <<0 .. (m-1), x>> \in StrictSubsetOrdering(Nat)
  BY <1>4, <1>5 DEF StrictSubsetOrdering
<1> QED
  BY <1>3, <1>6, <1>7

(* The greatest of some of the first naturals.                              *)
LEMMA GreatestIndex ==
    ASSUME NEW n \in Nat, NEW s \in SUBSET (1 .. n), s # {}
    PROVE  Max(s) \in s /\ \A y \in s : Max(s) >= y
<1> DEFINE A == {k \in Nat : \A t \in SUBSET (1 .. k) : t # {} => \E x \in t : \A y \in t : x >= y}
<1>1. 0 \in A
  <2>1. \A t \in SUBSET (1 .. 0) : t = {}
    OBVIOUS
  <2> QED
    BY <2>1
<1>2. ASSUME NEW k \in Nat, k \in A PROVE k + 1 \in A
  <2> SUFFICES ASSUME NEW t \in SUBSET (1 .. (k + 1)), t # {} PROVE \E x \in t : \A y \in t : x >= y
    OBVIOUS
  <2>1. CASE k + 1 \in t
    <3>1. \A y \in t : y \in 1 .. (k + 1)
      OBVIOUS
    <3>2. \A y \in t : k + 1 >= y
      BY <3>1
    <3> QED
      BY <2>1, <3>2
  <2>2. CASE k + 1 \notin t
    <3>1. \A y \in t : y \in 1 .. (k + 1) /\ y # k + 1
      BY <2>2
    <3>2. t \in SUBSET (1 .. k)
      BY <3>1
    <3> QED
      BY <1>2, <3>2
  <2> QED
    BY <2>1, <2>2
<1>3. n \in A
  <2> HIDE DEF A
  <2> QED
    BY <1>1, <1>2, SetInduction
<1> QED
  BY <1>3 DEF Max

(* A fold from the left over the indices up to n, by the subsets it takes.  *)
IsFold(g, n, base, op, seq) ==
    \A s \in SUBSET (1 .. n) :
        g[s] = IF s = {} THEN base ELSE op[<<g[s \ {Max(s)}], seq[Max(s)]>>]

LEMMA FoldExists ==
    ASSUME NEW V, NEW E, NEW base \in V, NEW op \in [V \X E -> V],
           NEW n \in Nat, NEW seq \in [1 .. n -> E]
    PROVE  \E g \in [SUBSET (1 .. n) -> V] : IsFold(g, n, base, op, seq)
<1> DEFINE Ok(k) == \E g \in [SUBSET (1 .. k) -> V] : \A s \in SUBSET (1 .. k) :
                        g[s] = IF s = {} THEN base ELSE op[<<g[s \ {Max(s)}], seq[Max(s)]>>]
           A == {k \in Nat : k <= n => Ok(k)}
<1>1. 0 \in A
  <2> DEFINE g == [s \in SUBSET (1 .. 0) |-> base]
  <2>1. \A s \in SUBSET (1 .. 0) : s = {}
    OBVIOUS
  <2>2. g \in [SUBSET (1 .. 0) -> V] /\ \A s \in SUBSET (1 .. 0) : g[s] = base
    OBVIOUS
  <2> HIDE DEF g
  <2>3. Ok(0)
    BY <2>1, <2>2
  <2> QED
    BY <2>3
<1>2. ASSUME NEW k \in Nat, k \in A PROVE k + 1 \in A
  <2>s. SUFFICES ASSUME k + 1 <= n PROVE Ok(k + 1)
    <3> HIDE DEF Ok
    <3> QED OBVIOUS
  <2>0. Ok(k)
    <3>1. k <= n
      BY <2>s
    <3> HIDE DEF Ok
    <3> QED BY <1>2, <3>1
  <2>1. PICK g \in [SUBSET (1 .. k) -> V] : \A s \in SUBSET (1 .. k) :
                        g[s] = IF s = {} THEN base ELSE op[<<g[s \ {Max(s)}], seq[Max(s)]>>]
    BY <2>0
  <2> DEFINE h == [s \in SUBSET (1 .. (k + 1)) |->
                     IF k + 1 \in s THEN op[<<g[s \ {k + 1}], seq[k + 1]>>] ELSE g[s]]
  <2>2. seq[k + 1] \in E
    <3>1. k + 1 \in 1 .. n
      BY <2>s
    <3> QED
      BY <3>1
  <2>3. \A s \in SUBSET (1 .. (k + 1)) :
          /\ s \ {k + 1} \in SUBSET (1 .. k)
          /\ k + 1 \notin s => s \in SUBSET (1 .. k)
          /\ s \in SUBSET (1 .. k) => k + 1 \notin s
    OBVIOUS
  <2>4. h \in [SUBSET (1 .. (k + 1)) -> V]
    <3> SUFFICES ASSUME NEW s \in SUBSET (1 .. (k + 1))
                 PROVE  (IF k + 1 \in s THEN op[<<g[s \ {k + 1}], seq[k + 1]>>] ELSE g[s]) \in V
      OBVIOUS
    <3> QED
      BY <2>1, <2>2, <2>3
  <2>5. ASSUME NEW s \in SUBSET (1 .. (k + 1))
        PROVE  h[s] = IF s = {} THEN base ELSE op[<<h[s \ {Max(s)}], seq[Max(s)]>>]
    <3>1. CASE k + 1 \in s
      <4>1. Max(s) = k + 1
        <5>0. k + 1 \in Nat /\ s \in SUBSET (1 .. (k + 1)) /\ s # {}
          BY <3>1
        <5>1. Max(s) \in s /\ \A y \in s : Max(s) >= y
          BY ONLY <5>0, GreatestIndex
        <5>2. Max(s) \in 1 .. (k + 1) /\ Max(s) >= k + 1
          BY <3>1, <5>1
        <5> QED
          BY ONLY <5>2, k \in Nat
      <4>2. h[s \ {k + 1}] = g[s \ {k + 1}]
        BY <2>3
      <4>3. h[s] = op[<<g[s \ {k + 1}], seq[k + 1]>>]
        BY <3>1
      <4> QED
        BY <3>1, <4>1, <4>2, <4>3, Zenon
    <3>2. CASE k + 1 \notin s
      <4>1. s \in SUBSET (1 .. k) /\ h[s] = g[s]
        BY <2>3, <3>2
      <4>2. s # {} => h[s \ {Max(s)}] = g[s \ {Max(s)}]
        BY <2>3, <3>2
      <4>3. g[s] = IF s = {} THEN base ELSE op[<<g[s \ {Max(s)}], seq[Max(s)]>>]
        BY <2>1, <4>1
      <4> HIDE DEF h
      <4> QED
        BY <4>1, <4>2, <4>3, Zenon
    <3> QED
      BY <3>1, <3>2
  <2> HIDE DEF h
  <2> QED
    BY <2>4, <2>5, Zenon
<1>3. n \in A
  <2> HIDE DEF A
  <2> QED
    BY <1>1, <1>2, SetInduction
<1>4. Ok(n)
  <2>1. n <= n
    OBVIOUS
  <2> HIDE DEF Ok
  <2> QED
    BY <1>3, <2>1
<1> QED
  BY <1>4 DEF IsFold

Phases == {"none", "upserting", "marking"}
States == [phase : Phases, out : Seq(Event)]

(* The reporter's state after a batch.                                      *)
Walked(batch, phase) == FoldLeft(Walk, [phase |-> phase, out |-> <<>>], batch)

LEMMA WalkType ==
    ASSUME NEW acc \in States, NEW e \in Event
    PROVE  /\ Walk(acc, e) \in States
           /\ \E n \in Nat : n = Len(acc.out) /\ 
                /\ Walk(acc, e).out = acc.out \/ Walk(acc, e).out = Append(acc.out, e)
                /\ IsComplete(e) => Walk(acc, e).out = Append(acc.out, e)
<1>1. acc.out \in Seq(Event) /\ Append(acc.out, e) \in Seq(Event) /\ Len(acc.out) \in Nat /\ e.phase \in Phases
  BY DEF States, Event, Phases
<1>2. [phase |-> e.phase, out |-> Append(acc.out, e)] \in States
  BY <1>1 DEF States
<1> QED
  BY <1>1, <1>2 DEF Walk

LEMMA WalkPrefixes ==
    ASSUME NEW batch \in Seq(Event), NEW phase \in Phases
    PROVE  \E st : /\ st \in [0 .. Len(batch) -> States]
                   /\ st[0] = [phase |-> phase, out |-> <<>>]
                   /\ \A k \in 1 .. Len(batch) : st[k] = Walk(st[k - 1], batch[k])
                   /\ Walked(batch, phase) = st[Len(batch)]
<1> DEFINE n == Len(batch)
           base == [phase |-> phase, out |-> <<>>]
           op == [p \in States \X Event |-> Walk(p[1], p[2])]
           iter == CHOOSE g : g = [s \in SUBSET DOMAIN batch |->
                       IF s = {} THEN base ELSE Walk(g[s \ {Max(s)}], batch[Max(s)])]
<1>1. Walked(batch, phase) = iter[DOMAIN batch]
  BY DEF Walked, FoldLeft, MapThenFoldSet
<1>2. n \in Nat /\ DOMAIN batch = 1 .. n /\ batch \in [1 .. n -> Event]
  OBVIOUS
<1>3. base \in States /\ op \in [States \X Event -> States]
  <2>1. base \in States
    BY DEF States
  <2> QED
    BY <2>1, WalkType
<1>4. PICK g \in [SUBSET (1 .. n) -> States] : IsFold(g, n, base, op, batch)
  <2> HIDE DEF n, base, op
  <2> QED
    BY ONLY <1>2, <1>3, FoldExists
<1>5. ASSUME NEW s \in SUBSET (1 .. n), s # {}
      PROVE  op[<<g[s \ {Max(s)}], batch[Max(s)]>>] = Walk(g[s \ {Max(s)}], batch[Max(s)])
  <2>1. Max(s) \in s
    BY <1>2, <1>5, GreatestIndex
  <2>2. batch[Max(s)] \in Event /\ g[s \ {Max(s)}] \in States
    BY <1>2, <1>4, <2>1
  <2> QED
    BY <2>2
<1>6. g = [s \in SUBSET DOMAIN batch |->
                       IF s = {} THEN base ELSE Walk(g[s \ {Max(s)}], batch[Max(s)])]
  <2>1. \A s \in SUBSET (1 .. n) : g[s] = IF s = {} THEN base ELSE Walk(g[s \ {Max(s)}], batch[Max(s)])
    <3> HIDE DEF n, base, op
    <3> QED BY <1>4, <1>5, Zenon DEF IsFold
  <2> HIDE DEF n, base, op
  <2> QED
    BY <1>2, <1>4, <2>1
<1>7. iter = [s \in SUBSET DOMAIN batch |->
                       IF s = {} THEN base ELSE Walk(iter[s \ {Max(s)}], batch[Max(s)])]
  <2> HIDE DEF base
  <2> QED
    BY <1>6, Zenon
<1> DEFINE st == [k \in 0 .. n |-> iter[1 .. k]]
<1> HIDE DEF iter, base
<1>8. \A k \in 0 .. n : 1 .. k \in SUBSET (1 .. n)
  BY <1>2
<1>9. iter[{}] = base
  <2>1. {} \in SUBSET DOMAIN batch
    OBVIOUS
  <2> QED
    BY ONLY <1>7, <2>1
<1>10. ASSUME NEW k \in 1 .. n
       PROVE  iter[1 .. k] = Walk(iter[1 .. (k - 1)], batch[k])
  <2>0. k \in Nat /\ k \in 1 .. k /\ k \in 0 .. n
    BY <1>2
  <2>1. k \in Nat /\ 1 .. k \in SUBSET (1 .. k) /\ 1 .. k # {} /\ k \in 1 .. k /\ k \in 0 .. n
    BY <2>0
  <2>2. Max(1 .. k) \in 1 .. k /\ \A y \in 1 .. k : Max(1 .. k) >= y
    BY ONLY <2>1, GreatestIndex
  <2>3. Max(1 .. k) = k
    BY <2>1, <2>2
  <2>4. (1 .. k) \ {k} = 1 .. (k - 1)
    BY <2>1
  <2>5. 1 .. k \in SUBSET DOMAIN batch
    BY <1>2, <1>8, <2>1
  <2>6. iter[1 .. k] = Walk(iter[(1 .. k) \ {Max(1 .. k)}], batch[Max(1 .. k)])
    BY ONLY <1>7, <2>1, <2>5
  <2> QED
    BY ONLY <2>3, <2>4, <2>6
<1>11. \A k \in 0 .. n : iter[1 .. k] \in States
  <2> DEFINE A == {k \in Nat : k <= n => iter[1 .. k] \in States}
  <2>1. 0 \in A
    <3>1. 1 .. 0 = {}
      OBVIOUS
    <3> QED
      BY <1>3, <1>9, <3>1
  <2>2. ASSUME NEW k \in Nat, k \in A PROVE k + 1 \in A
    <3>1. CASE k + 1 <= n
      <4>1. k + 1 \in 1 .. n /\ (k + 1) - 1 = k /\ k <= n
        BY <1>2, <3>1
      <4>2. iter[1 .. k] \in States /\ batch[k + 1] \in Event
        BY <1>2, <2>2, <4>1
      <4>3. iter[1 .. (k + 1)] = Walk(iter[1 .. k], batch[k + 1])
        BY <1>10, <4>1
      <4> QED
        BY <4>2, <4>3, WalkType
    <3>2. CASE ~(k + 1 <= n)
      BY <3>2
    <3> QED
      BY <3>1, <3>2
  <2>3. Nat \subseteq A
    <3> HIDE DEF A
    <3> QED
      BY <2>1, <2>2, SetInduction
  <2> QED
    BY <1>2, <2>3
<1>12. st \in [0 .. n -> States]
  BY <1>11
<1>13. st[0] = base
  <2>1. 1 .. 0 = {} /\ 0 \in 0 .. n
    BY <1>2
  <2> QED
    BY <1>9, <2>1
<1>14. ASSUME NEW k \in 1 .. n PROVE st[k] = Walk(st[k - 1], batch[k])
  <2>1. k \in 0 .. n /\ k - 1 \in 0 .. n
    BY <1>2
  <2> QED
    BY <1>10, <2>1
<1>15. Walked(batch, phase) = st[n]
  <2>1. n \in 0 .. n
    BY <1>2
  <2> QED
    BY <1>1, <1>2, <2>1
<1> HIDE DEF st
<1> QED
  BY <1>12, <1>13, <1>14, <1>15 DEF base

(* Every completion in a batch of events is printed.                        *)
LEMMA CompletionsArePrinted ==
    ASSUME NEW batch \in Seq(Event), batch # <<>>, NEW phase \in Phases, NEW elapsed \in BOOLEAN
    PROVE  /\ DecidePrints(batch, phase, elapsed) \in Seq(Event)
           /\ \A k \in DOMAIN batch : IsComplete(batch[k]) =>
                 \E j \in DOMAIN DecidePrints(batch, phase, elapsed) :
                    DecidePrints(batch, phase, elapsed)[j] = batch[k]
<1> DEFINE n == Len(batch)
           out == Walked(batch, phase).out
<1>1. DecidePrints(batch, phase, elapsed) = IF out = <<>> /\ elapsed THEN <<batch[n]>> ELSE out
  BY DEF DecidePrints, Walked
<1>2. PICK st \in [0 .. n -> States] :
         /\ \A k \in 1 .. n : st[k] = Walk(st[k - 1], batch[k])
         /\ Walked(batch, phase) = st[n]
  BY WalkPrefixes
<1>3. n \in Nat /\ DOMAIN batch = 1 .. n /\ n \in 1 .. n /\ batch[n] \in Event
  OBVIOUS
<1>4. out \in Seq(Event)
  <2>1. st[n] \in States
    BY <1>2, <1>3
  <2> QED
    BY <1>2, <2>1 DEF States
<1>5. ASSUME NEW k \in 1 .. n, IsComplete(batch[k])
      PROVE  \E j \in DOMAIN out : out[j] = batch[k]
  <2> DEFINE Has(m) == \E j \in DOMAIN st[m].out : st[m].out[j] = batch[k]
             A == {d \in Nat : k + d <= n => Has(k + d)}
  <2>1. ASSUME NEW m \in 1 .. n
        PROVE  /\ st[m - 1].out \in Seq(Event)
               /\ batch[m] \in Event
               /\ st[m].out = st[m - 1].out \/ st[m].out = Append(st[m - 1].out, batch[m])
               /\ IsComplete(batch[m]) => st[m].out = Append(st[m - 1].out, batch[m])
    <3>1. m - 1 \in 0 .. n /\ st[m - 1] \in States /\ batch[m] \in Event
      BY <1>2, <1>3
    <3>2. st[m - 1].out \in Seq(Event)
      BY <3>1 DEF States
    <3> QED
      BY <1>2, <3>1, <3>2, WalkType
  <2>2. Has(k)
    <3>1. st[k].out = Append(st[k - 1].out, batch[k]) /\ st[k - 1].out \in Seq(Event) /\ batch[k] \in Event
      BY <1>5, <2>1
    <3>2. Len(st[k].out) \in DOMAIN st[k].out /\ st[k].out[Len(st[k].out)] = batch[k]
      BY <3>1
    <3> QED
      BY <3>2
  <2>3. ASSUME NEW m \in 1 .. n, m - 1 \in 1 .. n, Has(m - 1)
        PROVE  Has(m)
    <3>1. PICK j \in DOMAIN st[m - 1].out : st[m - 1].out[j] = batch[k]
      BY <2>3
    <3>2. st[m - 1].out \in Seq(Event) /\ batch[m] \in Event
      BY <2>1
    <3>3. CASE st[m].out = st[m - 1].out
      BY <3>1, <3>3
    <3>4. CASE st[m].out = Append(st[m - 1].out, batch[m])
      <4>1. j \in DOMAIN st[m].out /\ st[m].out[j] = st[m - 1].out[j]
        BY <3>2, <3>4
      <4> QED
        BY <3>1, <4>1
    <3> QED
      BY <2>1, <3>3, <3>4
  <2> HIDE DEF Has
  <2>4. 0 \in A
    <3>1. k + 0 = k
      OBVIOUS
    <3> QED
      BY <2>2, <3>1
  <2>5. ASSUME NEW d \in Nat, d \in A PROVE d + 1 \in A
    <3>1. CASE k + (d + 1) <= n
      <4>1. /\ k + (d + 1) \in 1 .. n /\ (k + (d + 1)) - 1 = k + d
            /\ k + d \in 1 .. n /\ k + d <= n
        BY <1>3, <3>1
      <4>2. Has(k + d)
        BY <2>5, <4>1
      <4>3. Has(k + (d + 1))
        BY <2>3, <4>1, <4>2
      <4> QED
        BY <4>3
    <3>2. CASE ~(k + (d + 1) <= n)
      BY <3>2
    <3> QED
      BY <3>1, <3>2
  <2>6. Nat \subseteq A
    <3> HIDE DEF A
    <3> QED
      BY <2>4, <2>5, SetInduction
  <2>7. n - k \in Nat /\ k + (n - k) = n /\ n <= n
    BY <1>3
  <2>8. Has(n)
    BY <2>6, <2>7
  <2> QED
    BY <1>2, <2>8 DEF Has
<1> HIDE DEF out
<1>6. CASE out = <<>>
  <2>1. \A k \in 1 .. n : ~IsComplete(batch[k])
    BY <1>5, <1>6
  <2>2. <<batch[n]>> \in Seq(Event) /\ <<>> \in Seq(Event)
    BY <1>3
  <2>3. DecidePrints(batch, phase, elapsed) \in {<<batch[n]>>, <<>>}
    BY <1>1, <1>6
  <2> QED
    BY <1>3, <2>1, <2>2, <2>3
<1>7. CASE out # <<>>
  BY <1>1, <1>3, <1>4, <1>5, <1>7
<1> QED
  BY <1>6, <1>7

Announces(seq, phase) ==
    \E k \in DOMAIN seq : seq[k].phase = phase /\ IsComplete(seq[k])

Announced(phase) == Announces(events, phase) \/ Announces(printed, phase)

(* The end of each phase has been sent by the time it is stored, and the    *)
(* reporter leaves only after the last sender and the last event.           *)
ShownInv ==
    method = "fts" =>
        /\ events \in Seq(Event) /\ printed \in Seq(Event) /\ lastPhase \in Phases
        /\ stored = Indices => Announced("upserting")
        /\ marked = Files => Announced("marking")
        /\ "guard" \in senders \/ main \in {"join_stored", "join_not_stored", "ok", "error"}
        /\ reporter = "ended" =>
              events = <<>> /\ main \in {"join_stored", "join_not_stored", "ok", "error"}
        /\ main \in {"ok", "error"} => reporter = "ended"

LEMMA FilesAreCounted == IsFiniteSet(Files) /\ Cardinality(Files) \in Nat
<1> DEFINE file == [i \in Indices |-> AllChunks[i]]
<1>1. file \in Surjection(Indices, Files)
  BY DEF Surjection, Files
<1>2. IsFiniteSet(Files)
  <2> HIDE DEF file
  <2> QED
    BY <1>1, FilesAreFinite, FS_Surjection
<1> QED
  BY <1>2, FS_CardinalityType

LEMMA AppendAnnounces ==
    ASSUME NEW seq \in Seq(Event), NEW e \in Event, NEW phase
    PROVE  /\ Append(seq, e) \in Seq(Event)
           /\ Announces(seq, phase) => Announces(Append(seq, e), phase)
           /\ e.phase = phase /\ IsComplete(e) => Announces(Append(seq, e), phase)
<1>1. /\ Append(seq, e) \in Seq(Event)
      /\ Len(seq) + 1 \in DOMAIN Append(seq, e) /\ Append(seq, e)[Len(seq) + 1] = e
      /\ \A k \in DOMAIN seq : k \in DOMAIN Append(seq, e) /\ Append(seq, e)[k] = seq[k]
  OBVIOUS
<1> QED
  BY <1>1 DEF Announces

LEMMA ConcatAnnounces ==
    ASSUME NEW s \in Seq(Event), NEW t \in Seq(Event), NEW phase
    PROVE  /\ s \o t \in Seq(Event)
           /\ Announces(s, phase) \/ Announces(t, phase) => Announces(s \o t, phase)
<1>1. /\ s \o t \in Seq(Event) /\ Len(s) \in Nat /\ Len(t) \in Nat
      /\ DOMAIN s = 1 .. Len(s) /\ DOMAIN t = 1 .. Len(t)
      /\ DOMAIN (s \o t) = 1 .. (Len(s) + Len(t))
  OBVIOUS
<1>2. \A k \in DOMAIN s : k \in DOMAIN (s \o t) /\ (s \o t)[k] = s[k]
  BY <1>1
<1>3. \A k \in DOMAIN t : Len(s) + k \in DOMAIN (s \o t) /\ (s \o t)[Len(s) + k] = t[k]
  BY <1>1
<1>4. Announces(s, phase) => Announces(s \o t, phase)
  BY <1>2 DEF Announces
<1>5. Announces(t, phase) => Announces(s \o t, phase)
  BY <1>3 DEF Announces
<1> QED
  BY <1>1, <1>4, <1>5

LEMMA StoreBatchShows ==
    ASSUME Inv, ShownInv, StoreBatch
    PROVE  ShownInv'
<1> DEFINE end == Smaller(Cardinality(stored) + BatchSize, Len(AllChunks))
           e == [phase |-> "upserting", completed |-> end, total |-> Len(AllChunks)]
<1>1. /\ method = "fts" /\ method' = "fts" /\ main = "running" /\ TypeInv /\ FtsInv
      /\ UNCHANGED <<main, marked, senders, reporter, lastPhase, printed>>
      /\ stored # Indices /\ stored' = 1 .. end /\ events' = Append(events, e)
  BY StoreKeeps DEF StoreBatch, Stores
<1>2. Len(AllChunks) \in Nat /\ Indices = 1 .. Len(AllChunks) /\ BatchSize \in Nat
  BY EmbedPipelineAssumption DEF Indices
<1>3. Cardinality(stored) \in Nat
  <2>1. IsFiniteSet(stored)
    BY <1>1, FilesAreFinite, FS_Subset DEF TypeInv
  <2> QED
    BY <2>1, FS_CardinalityType
<1>4. end \in Nat /\ end <= Len(AllChunks)
  BY <1>2, <1>3 DEF Smaller
<1>5. e \in Event
  BY <1>2, <1>4 DEF Event
<1>6. stored' = Indices => e.phase = "upserting" /\ IsComplete(e)
  <2>1. stored' = Indices => end = Len(AllChunks)
    BY <1>1, <1>2, <1>4
  <2> QED
    BY <2>1 DEF IsComplete
<1> HIDE DEF e, end
<1>7. \A phase : Announces(events, phase) => Announces(events', phase)
  BY <1>1, <1>5, AppendAnnounces DEF ShownInv
<1>8. events' \in Seq(Event) /\ (stored' = Indices => Announces(events', "upserting"))
  BY <1>1, <1>5, <1>6, AppendAnnounces DEF ShownInv
<1>9. reporter # "ended"
  BY <1>1 DEF ShownInv
<1>10. marked' = Files => Announced("marking")'
  <2>1. \A phase : Announces(printed, phase)' = Announces(printed, phase)
    BY <1>1 DEF Announces
  <2>2. marked = Files => Announces(events, "marking") \/ Announces(printed, "marking")
    BY <1>1 DEF ShownInv, Announced
  <2> QED
    BY <1>1, <1>7, <2>1, <2>2 DEF Announced, Announces
<1>11. stored' = Indices => Announced("upserting")'
  BY <1>8 DEF Announced, Announces
<1> QED
  BY <1>1, <1>8, <1>9, <1>10, <1>11 DEF ShownInv

LEMMA MarkBatchShows ==
    ASSUME Inv, ShownInv, MarkBatch
    PROVE  ShownInv'
<1> DEFINE e == [phase |-> "marking", completed |-> Cardinality(marked'), total |-> Cardinality(Files)]
<1>1. /\ method = "fts" /\ method' = "fts" /\ main = "running" /\ TypeInv /\ FtsInv
      /\ UNCHANGED <<main, stored, senders, reporter, lastPhase, printed>>
      /\ events' = Append(events, e)
  BY StoreKeeps DEF MarkBatch, Stores
<1>2. PICK S \in SUBSET marks : S # {} /\ marked' = marked \cup S
  BY DEF MarkBatch
<1>3. marked' \subseteq Files
  BY <1>1, <1>2 DEF TypeInv
<1>4. Cardinality(marked') \in Nat /\ Cardinality(Files) \in Nat
  <2>1. IsFiniteSet(marked')
    BY <1>3, FilesAreCounted, FS_Subset
  <2> QED
    BY <2>1, FilesAreCounted, FS_CardinalityType
<1>5. e \in Event
  BY <1>4 DEF Event
<1>6. e.phase = "marking" /\ (marked' = Files => IsComplete(e))
  BY DEF IsComplete
<1> HIDE DEF e
<1>7. \A phase : Announces(events, phase) => Announces(events', phase)
  BY <1>1, <1>5, AppendAnnounces DEF ShownInv
<1>8. events' \in Seq(Event) /\ (marked' = Files => Announces(events', "marking"))
  BY <1>1, <1>5, <1>6, AppendAnnounces DEF ShownInv
<1>9. reporter # "ended"
  BY <1>1 DEF ShownInv
<1>10. stored' = Indices => Announced("upserting")'
  <2>1. stored = Indices => Announces(events, "upserting") \/ Announces(printed, "upserting")
    BY <1>1 DEF ShownInv, Announced
  <2> QED
    BY <1>1, <1>7, <2>1 DEF Announced, Announces
<1>11. marked' = Files => Announced("marking")'
  BY <1>8 DEF Announced, Announces
<1> QED
  BY <1>1, <1>8, <1>9, <1>10, <1>11 DEF ShownInv

LEMMA ReceiveEventsShows ==
    ASSUME Inv, ShownInv, ReceiveEvents
    PROVE  ShownInv'
<1>1. /\ method = "fts" /\ method' = "fts"
      /\ UNCHANGED <<main, stored, marked, senders>>
      /\ events # <<>> /\ events' = <<>> /\ reporter # "ended" /\ reporter' = "loop"
  BY DEF ReceiveEvents, Reports, store
<1>2. PICK elapsed \in BOOLEAN :
         LET out == DecidePrints(events, lastPhase, elapsed \/ printed = <<>>) IN
         /\ printed' = printed \o out
         /\ lastPhase' = IF out = <<>> THEN lastPhase ELSE out[Len(out)].phase
  BY DEF ReceiveEvents
<1> DEFINE out == DecidePrints(events, lastPhase, elapsed \/ printed = <<>>)
<1>3. events \in Seq(Event) /\ printed \in Seq(Event) /\ lastPhase \in Phases
  BY <1>1 DEF ShownInv
<1>4. /\ out \in Seq(Event)
      /\ \A k \in DOMAIN events : IsComplete(events[k]) =>
            \E j \in DOMAIN out : out[j] = events[k]
  <2>1. (elapsed \/ printed = <<>>) \in BOOLEAN
    OBVIOUS
  <2> QED
    BY <1>1, <1>3, <2>1, CompletionsArePrinted
<1>5. /\ printed' = printed \o out
      /\ lastPhase' = IF out = <<>> THEN lastPhase ELSE out[Len(out)].phase
  BY <1>2
<1> HIDE DEF out
<1>6. lastPhase' \in Phases
  <2>1. CASE out = <<>>
    BY <1>3, <1>5, <2>1
  <2>2. CASE out # <<>>
    <3>1. out[Len(out)] \in Event
      BY <1>4, <2>2
    <3> QED
      BY <1>5, <2>2, <3>1 DEF Event, Phases
  <2> QED
    BY <2>1, <2>2
<1>7. \A phase : Announces(events, phase) => Announces(out, phase)
  BY <1>4 DEF Announces
<1>8. printed' \in Seq(Event) /\ \A phase : Announced(phase) => Announced(phase)'
  <2>1. /\ printed \o out \in Seq(Event)
        /\ \A phase : Announces(printed, phase) \/ Announces(out, phase) => Announces(printed \o out, phase)
    BY <1>3, <1>4, ConcatAnnounces
  <2>2. \A phase : Announced(phase) => Announces(printed', phase)
    BY <1>5, <1>7, <2>1 DEF Announced
  <2> QED
    BY <1>5, <2>1, <2>2 DEF Announced, Announces
<1>9. events' \in Seq(Event)
  BY <1>1
<1> QED
  BY <1>1, <1>6, <1>8, <1>9 DEF ShownInv

LEMMA StepShows ==
    ASSUME Inv, ShownInv, [Next]_vars
    PROVE  ShownInv'
<1>1. CASE method = "vector"
  <2>1. method' = method
    BY <1>1 DEF Next, Embed, TakeChunk, LockSession, ChunkEmbedded, ChunkFails, LeaveSession, Embeds,
                Writer, WriterTop, DrainOne, DrainEnd, Upload, MarkFile, MarkEnd, CheckStop,
                CheckEmpty, WriterFails, Writes, PrinterEnds, Main, RaiseStop, JoinPrinter,
                AwaitWriter, Joins, StoreBatch, MarkBatch, StoreReturns, DropGuardSender,
                JoinReporter, Stores, Reporter, ReceiveEvents, Disconnected, Reports, vars
  <2> QED
    BY <1>1, <2>1 DEF ShownInv
<1>2. CASE method = "fts"
  <2>1. \/ UNCHANGED vars
        \/ StoreBatch \/ MarkBatch \/ StoreReturns \/ DropGuardSender \/ JoinReporter
        \/ ReceiveEvents \/ Disconnected
    BY <1>2 DEF Next, Embed, TakeChunk, LockSession, ChunkEmbedded, ChunkFails, LeaveSession, Embeds,
                Writer, WriterTop, DrainOne, DrainEnd, Upload, MarkFile, MarkEnd, CheckStop,
                CheckEmpty, WriterFails, Writes, PrinterEnds, Main, RaiseStop, JoinPrinter,
                AwaitWriter, Joins, Reporter
  <2>2. CASE UNCHANGED vars
    BY <2>2 DEF ShownInv, Announced, Announces, vars, store, reporting
  <2>3. CASE StoreReturns
    <3>1. /\ UNCHANGED <<method, stored, marked, events, reporter, lastPhase, printed>>
          /\ main = "running" /\ main' \in {"stored", "not_stored"}
          /\ senders' = senders \ {"callback"}
      BY <2>3 DEF StoreReturns, Stores, store
    <3> QED
      BY <1>2, <3>1 DEF ShownInv, Announced, Announces
  <2>4. CASE DropGuardSender
    <3>1. /\ UNCHANGED <<method, stored, marked, events, reporter, lastPhase, printed>>
          /\ main \in {"stored", "not_stored"} /\ main' \in {"join_stored", "join_not_stored"}
      BY <2>4 DEF DropGuardSender, Stores, store
    <3> QED
      BY <1>2, <3>1 DEF ShownInv, Announced, Announces
  <2>5. CASE JoinReporter
    <3>1. /\ UNCHANGED <<method, stored, marked, events, reporter, lastPhase, printed, senders>>
          /\ main' \in {"ok", "error"} /\ reporter = "ended"
      BY <2>5 DEF JoinReporter, Stores, store
    <3> QED
      BY <1>2, <3>1 DEF ShownInv, Announced, Announces
  <2>6. CASE Disconnected
    <3>1. /\ UNCHANGED <<method, main, stored, marked, events, lastPhase, printed, senders>>
          /\ reporter' = "ended" /\ events = <<>> /\ senders = {}
      BY <2>6 DEF Disconnected, Reports, store
    <3> QED
      BY <1>2, <3>1 DEF ShownInv, Announced, Announces
  <2> QED
    BY <2>1, <2>2, <2>3, <2>4, <2>5, <2>6, StoreBatchShows, MarkBatchShows, ReceiveEventsShows
<1> QED
  BY <1>1, <1>2 DEF Inv, TypeInv

(* When an FTS-only crawl's store returns without an error, the user has    *)
(* been shown both phases at 100%: no batching of the reporter's events     *)
(* hides a completion, and the reporter is joined only after it has drained *)
(* the last one.                                                            *)
THEOREM CompletionsReachTheUser == Spec => []CompletionIsShown
<1>1. Init => Inv /\ ShownInv
  <2> SUFFICES ASSUME Init PROVE ShownInv
    BY InitSatisfiesInv
  <2>1. Indices # {} /\ Files # {}
    BY FilesAreFinite, EmbedPipelineAssumption DEF Indices
  <2>2. <<>> \in Seq(Event)
    OBVIOUS
  <2> QED
    BY <2>1, <2>2 DEF Init, ShownInv, Phases
<1>2. Inv /\ ShownInv /\ [Next]_vars => Inv' /\ ShownInv'
  BY StepOnPhase, StepShows
<1>3. Inv /\ ShownInv => CompletionIsShown
  <2> SUFFICES ASSUME Inv, ShownInv, method = "fts", main = "ok",
                      NEW phase \in {"upserting", "marking"}
               PROVE  Announces(printed, phase)
    BY DEF CompletionIsShown, Announces
  <2>1. marked = Files /\ stored = Indices /\ events = <<>>
    BY FilesAreFinite DEF Inv, FtsInv, ShownInv
  <2>2. ~Announces(events, phase)
    BY <2>1 DEF Announces
  <2> QED
    BY <2>1, <2>2 DEF ShownInv, Announced
<1> QED
  BY <1>1, <1>2, <1>3, PTL DEF Spec
=============================================================================
