--------------------------- MODULE EmbedPipeline ----------------------------
(***************************************************************************)
(* The threads of the upload phase (src/app/crawl/pipeline.rs).            *)
(*                                                                         *)
(* A vector crawl embeds on a pool of threads that share a few sessions    *)
(* (src/engine/parallel_embedder.rs) and send what they finish over a      *)
(* channel to a writer task, which stores it at checkpoints and once more  *)
(* when a stop flag is up and the channel empty; a third thread prints.    *)
(* An FTS-only crawl stores its chunks itself and sends progress events to *)
(* a reporter thread, which it joins through a guard.                      *)
(*                                                                         *)
(* A chunk is its index in all_chunks.  The channel is a set, as nothing   *)
(* depends on the order of the results.                                    *)
(***************************************************************************)
EXTENDS Naturals, FiniteSets, Sequences, SequencesExt

CONSTANTS AllChunks,    \* all_chunks: the file of each chunk
          Methods,      \* subset of {"vector", "fts"}: what the crawl may ask for
          Threads,      \* of the rayon pool
          NumWorkers,   \* sessions, each behind a mutex
          BatchSize,    \* UPSERT_BATCH_SIZE
          MaxFaults,    \* bound: chunks that fail to embed, storage errors
          NULL

Indices   == DOMAIN AllChunks
Files     == {AllChunks[i] : i \in Indices}
ChunksOf(f) == {i \in Indices : AllChunks[i] = f}
Workers   == 0..(NumWorkers - 1)
WorkerOf(i) == (i - 1) % NumWorkers

ASSUME EmbedPipelineAssumption ==
    /\ Len(AllChunks) \in Nat \ {0}      \* both functions return at once when it is empty
    /\ DOMAIN AllChunks = 1..Len(AllChunks)
    /\ Methods \subseteq {"vector", "fts"}
    /\ NULL \notin Threads /\ NULL \notin Indices
    /\ NumWorkers \in Nat \ {0} /\ BatchSize \in Nat \ {0} /\ MaxFaults \in Nat

VARIABLES
    method,
    main,                  \* where the crawl's own thread is
    todo,                  \* chunks no thread has taken
    thread, encoding,      \* the chunk of each thread; whether it holds a session
    session,               \* the thread inside each session's mutex, or NULL
    channel,               \* embedded chunks sent and not received
    stop,                  \* stop_flag
    printer,               \* the progress thread runs
    writer, due, final,    \* the writer task; is a checkpoint due; is this the last upload
    accumulated,           \* received and not stored
    expected, uploaded,    \* expected_count, uploaded_count of each file
    marks,                 \* files of the current upload to mark complete
    stored, marked,        \* rows and complete sentinels in the chunks table
    failures,              \* embedding_failures
    senders, events,       \* live senders of the event channel; events in it
    reporter, lastPhase, printed,   \* the reporter thread, its state, what it printed
    faults

embedding == <<todo, thread, encoding, session, channel, stop, printer, failures>>
writing   == <<writer, due, final, accumulated, expected, uploaded>>
store     == <<stored, marked>>
reporting == <<senders, events, reporter, lastPhase, printed>>
vars == <<method, main, embedding, writing, marks, store, reporting, faults>>

Mains == {"running", "joining", "waiting", "stored", "not_stored", "join_stored",
          "join_not_stored", "ok", "error"}
Event == [phase : {"upserting", "marking"}, completed : Nat, total : Nat]

TypeOK ==
    /\ method \in Methods
    /\ main \in Mains
    /\ todo \subseteq Indices
    /\ thread \in [Threads -> Indices \cup {NULL}]
    /\ encoding \in [Threads -> BOOLEAN]
    /\ session \in [Workers -> Threads \cup {NULL}]
    /\ \A t \in Threads : encoding[t] <=> thread[t] # NULL /\ session[WorkerOf(thread[t])] = t
    /\ channel \subseteq Indices
    /\ stop \in BOOLEAN /\ printer \in BOOLEAN
    /\ writer \in {"top", "drain", "upload", "mark", "check", "check_empty", "done", "failed"}
    /\ due \in BOOLEAN /\ final \in BOOLEAN
    /\ accumulated \subseteq Indices
    /\ expected \in [Files -> 0..Len(AllChunks)]
    /\ uploaded \in [Files -> 0..Len(AllChunks)]
    /\ marks \subseteq Files
    /\ stored \subseteq Indices /\ marked \subseteq Files
    /\ failures \subseteq Indices
    /\ senders \subseteq {"guard", "callback"}
    /\ \A k \in DOMAIN events : events[k] \in Event
    /\ reporter \in {"first", "loop", "ended"}
    /\ lastPhase \in {"none", "upserting", "marking"}
    /\ \A k \in DOMAIN printed : printed[k] \in Event
    /\ faults \in 0..MaxFaults

Init ==
    /\ method \in Methods
    /\ main = "running"
    /\ todo = Indices
    /\ thread = [t \in Threads |-> NULL] /\ encoding = [t \in Threads |-> FALSE]
    /\ session = [w \in Workers |-> NULL]
    /\ channel = {} /\ stop = FALSE /\ printer = TRUE
    /\ writer = "top" /\ due = FALSE /\ final = FALSE
    /\ accumulated = {}
    /\ expected = [f \in Files |-> 0] /\ uploaded = [f \in Files |-> 0]
    /\ marks = {}
    /\ stored = {} /\ marked = {} /\ failures = {}
    /\ senders = {"guard", "callback"} /\ events = <<>>
    /\ reporter = "first" /\ lastPhase = "none" /\ printed = <<>>
    /\ faults = 0

Fault == faults < MaxFaults /\ faults' = faults + 1

-----------------------------------------------------------------------------
(* The embedding threads: into_par_iter over all_chunks, and encode, which  *)
(* holds the session of the chunk's index.                                  *)

Embeds == method = "vector" /\ UNCHANGED <<method, marks, store, reporting, writing>>

TakeChunk(t) ==
    /\ Embeds
    /\ thread[t] = NULL
    /\ \E i \in todo :
          /\ todo' = todo \ {i}
          /\ thread' = [thread EXCEPT ![t] = i]
    /\ UNCHANGED <<main, encoding, session, channel, stop, printer, failures, faults>>

LockSession(t) ==
    /\ Embeds
    /\ thread[t] # NULL /\ ~encoding[t]
    /\ session[WorkerOf(thread[t])] = NULL
    /\ session' = [session EXCEPT ![WorkerOf(thread[t])] = t]
    /\ encoding' = [encoding EXCEPT ![t] = TRUE]
    /\ UNCHANGED <<main, todo, thread, channel, stop, printer, failures, faults>>

LeaveSession(t) ==
    /\ Embeds
    /\ encoding[t]
    /\ session' = [session EXCEPT ![WorkerOf(thread[t])] = NULL]
    /\ encoding' = [encoding EXCEPT ![t] = FALSE]
    /\ thread' = [thread EXCEPT ![t] = NULL]
    /\ UNCHANGED <<main, todo, stop, printer>>

(* Sending to a writer that is gone is ignored. *)
ChunkEmbedded(t) ==
    /\ LeaveSession(t)
    /\ channel' = IF writer = "failed" THEN channel ELSE channel \cup {thread[t]}
    /\ UNCHANGED <<failures, faults>>

ChunkFails(t) ==
    /\ LeaveSession(t)
    /\ Fault
    /\ failures' = failures \cup {thread[t]}
    /\ UNCHANGED channel

-----------------------------------------------------------------------------
(* The writer task.                                                         *)

Writes(at) ==
    /\ method = "vector"
    /\ writer = at
    /\ UNCHANGED <<method, main, todo, thread, encoding, session, stop, printer, failures, reporting>>

WriterTop ==
    /\ Writes("top")
    /\ due' \in BOOLEAN
    /\ writer' = "drain"
    /\ UNCHANGED <<channel, final, accumulated, expected, uploaded, marks, store, faults>>

DrainOne ==
    /\ Writes("drain")
    /\ \E i \in channel :
          /\ channel' = channel \ {i}
          /\ accumulated' = accumulated \cup {i}
          /\ expected' = [expected EXCEPT ![AllChunks[i]] = Cardinality(ChunksOf(AllChunks[i]))]
    /\ UNCHANGED <<writer, due, final, uploaded, marks, store, faults>>

DrainEnd ==
    /\ Writes("drain")
    /\ channel = {}
    /\ writer' = IF due /\ accumulated # {} THEN "upload" ELSE "check"
    /\ UNCHANGED <<channel, due, final, accumulated, expected, uploaded, marks, store, faults>>

CountUploaded(S) == [f \in Files |-> uploaded[f] + Cardinality(S \cap ChunksOf(f))]

(* upload_and_mark_complete: one upsert_with_vectors, then the counts, then *)
(* an update_file_complete per file that is whole.                          *)
Upload ==
    /\ Writes("upload")
    /\ stored' = stored \cup accumulated
    /\ uploaded' = CountUploaded(accumulated)
    /\ marks' = {f \in Files : /\ accumulated \cap ChunksOf(f) # {}
                               /\ uploaded'[f] = expected[f] /\ expected[f] > 0}
    /\ writer' = "mark"
    /\ UNCHANGED <<channel, due, final, accumulated, expected, marked, faults>>

MarkFile ==
    /\ Writes("mark")
    /\ \E f \in marks : marked' = marked \cup {f} /\ marks' = marks \ {f}
    /\ UNCHANGED <<channel, writer, due, final, accumulated, expected, uploaded, stored, faults>>

MarkEnd ==
    /\ Writes("mark")
    /\ marks = {}
    /\ accumulated' = {}
    /\ writer' = IF final THEN "done" ELSE "check"
    /\ UNCHANGED <<channel, due, final, expected, uploaded, marks, store, faults>>

(* Storage errors: batches before the failing one stay.  The task returns   *)
(* and drops the receiver with what is in it.                               *)
WriterFails ==
    /\ \/ Writes("upload") /\ \E S \in SUBSET accumulated : stored' = stored \cup S
       \/ Writes("mark") /\ marks # {} /\ UNCHANGED stored
    /\ Fault
    /\ writer' = "failed"
    /\ channel' = {}
    /\ UNCHANGED <<due, final, accumulated, expected, uploaded, marks, marked>>

(* Mutant: the flag alone ends the task. *)
StopEndsWriter ==
    /\ Writes("check")
    /\ final' = stop
    /\ writer' = IF ~stop THEN "top" ELSE IF accumulated # {} THEN "upload" ELSE "done"
    /\ UNCHANGED <<channel, due, accumulated, expected, uploaded, marks, store, faults>>

CheckStop ==
    /\ Writes("check")
    /\ writer' = IF stop THEN "check_empty" ELSE "top"
    /\ UNCHANGED <<channel, due, final, accumulated, expected, uploaded, marks, store, faults>>

CheckEmpty ==
    /\ Writes("check_empty")
    /\ final' = (channel = {})
    /\ writer' = IF channel # {} THEN "top" ELSE IF accumulated # {} THEN "upload" ELSE "done"
    /\ UNCHANGED <<channel, due, accumulated, expected, uploaded, marks, store, faults>>

-----------------------------------------------------------------------------
(* The crawl's own thread around both, and the thread that prints progress. *)

Joins(at) ==
    /\ method = "vector"
    /\ main = at
    /\ UNCHANGED <<method, todo, thread, encoding, session, channel, failures, writing, marks,
                   store, reporting, faults>>

(* for_each returns when every chunk has been through. *)
RaiseStop ==
    /\ Joins("running")
    /\ todo = {} /\ \A t \in Threads : thread[t] = NULL
    /\ stop' = TRUE
    /\ main' = "joining"
    /\ UNCHANGED printer

PrinterEnds ==
    /\ method = "vector"
    /\ printer /\ stop
    /\ printer' = FALSE
    /\ UNCHANGED <<method, main, todo, thread, encoding, session, channel, stop, failures,
                   writing, marks, store, reporting, faults>>

JoinPrinter ==
    /\ Joins("joining")
    /\ ~printer
    /\ main' = "waiting"
    /\ UNCHANGED <<stop, printer>>

AwaitWriter ==
    /\ Joins("waiting")
    /\ writer \in {"done", "failed"}
    /\ main' = IF writer = "done" THEN "ok" ELSE "error"
    /\ UNCHANGED <<stop, printer>>

-----------------------------------------------------------------------------
(* The FTS-only path: run_upsert_without_vectors around                     *)
(* upsert_without_vectors_with_progress.                                    *)

Stores(at) ==
    /\ method = "fts"
    /\ main = at
    /\ UNCHANGED <<method, embedding, writing, reporter, lastPhase, printed>>

Smaller(a, b) == IF a < b THEN a ELSE b

(* Rows in the order of all_chunks, an event after each batch. *)
StoreBatch ==
    /\ Stores("running")
    /\ stored # Indices
    /\ LET end == Smaller(Cardinality(stored) + BatchSize, Len(AllChunks)) IN
       /\ stored' = 1..end
       /\ events' = Append(events, [phase |-> "upserting", completed |-> end, total |-> Len(AllChunks)])
       /\ marks' = IF end = Len(AllChunks) THEN Files ELSE {}
    /\ UNCHANGED <<main, marked, senders, faults>>

(* Sentinels in the order of a hash map. *)
MarkBatch ==
    /\ Stores("running")
    /\ \E S \in SUBSET marks :
          /\ Cardinality(S) = Smaller(BatchSize, Cardinality(marks)) /\ S # {}
          /\ marked' = marked \cup S
          /\ marks' = marks \ S
    /\ events' = Append(events, [phase |-> "marking", completed |-> Cardinality(marked'),
                                 total |-> Cardinality(Files)])
    /\ UNCHANGED <<main, stored, senders, faults>>

(* The call returns, with an error or without, and drops its callback.      *)
StoreReturns ==
    /\ Stores("running")
    /\ \/ marked = Files /\ UNCHANGED <<failures, faults>> /\ main' = "stored"
       \/ marked # Files /\ Fault /\ main' = "not_stored"
    /\ senders' = senders \ {"callback"}
    /\ UNCHANGED <<marks, store, events>>

(* Mutant: the guard joins the reporter before it drops its sender. *)
JoinFirst ==
    /\ Stores("stored") \/ Stores("not_stored")
    /\ reporter = "ended"
    /\ senders' = senders \ {"guard"}
    /\ main' = IF main = "stored" THEN "join_stored" ELSE "join_not_stored"
    /\ UNCHANGED <<marks, store, events, faults>>

(* ProgressGuard::drop: the sender first, then the join.                    *)
DropGuardSender ==
    /\ Stores("stored") \/ Stores("not_stored")
    /\ senders' = senders \ {"guard"}
    /\ main' = IF main = "stored" THEN "join_stored" ELSE "join_not_stored"
    /\ UNCHANGED <<marks, store, events, faults>>

JoinReporter ==
    /\ Stores("join_stored") \/ Stores("join_not_stored")
    /\ reporter = "ended"
    /\ main' = IF main = "join_stored" THEN "ok" ELSE "error"
    /\ UNCHANGED <<marks, store, senders, events, faults>>

-----------------------------------------------------------------------------
(* The reporter thread.                                                     *)

IsComplete(e) == e.completed = e.total

(* Mutant: a batch is folded into its last event. *)
PrintLast(batch, phase, elapsed) == <<batch[Len(batch)]>>

(* Phase changes and 100% ticks print.                                      *)
Walk(acc, e) == IF acc.phase # e.phase \/ IsComplete(e)
                THEN [phase |-> e.phase, out |-> Append(acc.out, e)]
                ELSE acc

(* decide_prints: if nothing in the batch did, its last event prints once   *)
(* ten seconds have passed.                                                 *)
DecidePrints(batch, phase, elapsed) ==
    LET out == FoldLeft(Walk, [phase |-> phase, out |-> <<>>], batch).out
    IN  IF out = <<>> /\ elapsed THEN <<batch[Len(batch)]>> ELSE out

Reports == method = "fts"
           /\ UNCHANGED <<method, main, embedding, writing, marks, store, senders, faults>>

ReceiveEvents ==
    /\ Reports
    /\ reporter # "ended"
    /\ events # <<>>
    /\ \E elapsed \in BOOLEAN :
         LET out == DecidePrints(events, lastPhase, elapsed \/ printed = <<>>) IN
         /\ printed' = printed \o out
         /\ lastPhase' = IF out = <<>> THEN lastPhase ELSE out[Len(out)].phase
    /\ events' = <<>>
    /\ reporter' = "loop"

Disconnected ==
    /\ Reports
    /\ reporter # "ended"
    /\ events = <<>> /\ senders = {}
    /\ reporter' = "ended"
    /\ UNCHANGED <<events, lastPhase, printed>>

-----------------------------------------------------------------------------

Embed(t) == TakeChunk(t) \/ LockSession(t) \/ ChunkEmbedded(t)

Writer ==
    \/ WriterTop \/ DrainOne \/ DrainEnd
    \/ Upload \/ MarkFile \/ MarkEnd
    \/ CheckStop \/ CheckEmpty

Main ==
    \/ RaiseStop \/ JoinPrinter \/ AwaitWriter
    \/ StoreBatch \/ MarkBatch \/ StoreReturns \/ DropGuardSender \/ JoinReporter

Reporter == ReceiveEvents \/ Disconnected

Next ==
    \/ \E t \in Threads : Embed(t) \/ ChunkFails(t)
    \/ Writer \/ WriterFails
    \/ PrinterEnds
    \/ Main
    \/ Reporter

Spec == Init /\ [][Next]_vars

(* Threads that can run do.                                                 *)
FairSpec ==
    /\ Spec
    /\ \A t \in Threads : WF_vars(Embed(t))
    /\ WF_vars(Writer) /\ WF_vars(PrinterEnds) /\ WF_vars(Main) /\ WF_vars(Reporter)

-----------------------------------------------------------------------------
(* Properties *)

(* What the pipeline returns is what CatalogCrawl takes it for: no embedded *)
(* chunk is lost between threads, and exactly the whole files are marked.   *)
Phase == INSTANCE UploadPhase
             WITH Chunks <- Indices,
                  dropped <- failures,
                  result <- IF main \in {"ok", "error"} THEN main ELSE "running"
ImplementsUploadPhase == Phase!Spec

(* The phase ends, and every thread it started has ended by then: none      *)
(* waits for a session, a flag, a receiver or a sender that never comes.    *)
ThreadsEnded ==
    IF method = "vector"
    THEN ~printer /\ writer \in {"done", "failed"} /\ \A t \in Threads : thread[t] = NULL
    ELSE reporter = "ended"
PhaseEnds == <>(main \in {"ok", "error"} /\ ThreadsEnded)

(* When a store has succeeded, the user has seen each phase begin and end:  *)
(* events drained in one batch do not hide a transition or a 100% tick.     *)
CompletionIsShown ==
    method = "fts" /\ main = "ok" =>
        \A phase \in {"upserting", "marking"} :
            \E k \in DOMAIN printed : printed[k].phase = phase /\ IsComplete(printed[k])
=============================================================================
