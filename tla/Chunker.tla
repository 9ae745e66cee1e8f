------------------------------ MODULE Chunker ------------------------------
(***************************************************************************)
(* How one file becomes chunks (src/engine/chunker.rs): chunk_content      *)
(* dispatches on the chunking strategy.  TypeScript goes through the       *)
(* iterative splitting of partition_typescript                             *)
(* (src/engine/partitioner/partition.rs), one action per range visited and *)
(* one per scope tried in find_best_split; Markdown and line-based         *)
(* chunking are computed in one step.                                      *)
(***************************************************************************)
EXTENDS TLC, LineSplitter

CONSTANT
    Files      \* the files that may be chunked: see AstSplitSearch, with
               \* strategy, target_size and allow_fallback as well

ASSUME ChunkerAssumption ==
    \A f \in Files :
        /\ Len(f.lines) \in Nat
        /\ \A i \in 1 .. Len(f.lines) : f.lines[i].len \in Nat
        /\ f.target_size \in Nat

VARIABLES
    file,        \* the file being chunked
    pc,          \* "start", "pass", "descend", "finalize", "assign" or "done"
    chunks,      \* the ranges this pass has not visited yet, in order
    new_chunks,  \* the ranges this pass has produced, in order
    changed,     \* has this pass split a range?
    scope,       \* find_best_split: the scope to try next, or None
    least_bad,   \* find_best_split: [line, badness] of the least bad split, or
                 \* None before there is a candidate
    result       \* the chunks of the file

vars == <<file, pc, chunks, new_chunks, changed, scope, least_bad, result>>

NoSplit == [line |-> None, badness |-> None]

FileLines == 1 .. Len(file.lines)

ChunkRange(a, b, mark) == [start_line |-> a, end_line |-> b, mark |-> mark]

\* The range at the head of the pass, with the size of its text.
Current ==
    [start_line |-> Head(chunks).start_line,
     end_line   |-> Head(chunks).end_line,
     size       |-> TextSize(file, Head(chunks).start_line, Head(chunks).end_line)]

Init ==
    /\ file \in Files
    /\ pc = "start"
    /\ chunks = <<>>
    /\ new_chunks = <<>>
    /\ changed = FALSE
    /\ scope = None
    /\ least_bad = NoSplit
    /\ result = <<>>

-----------------------------------------------------------------------------
(* chunk_content: the dispatch, and the strategies that are one step. *)

StartTypeScript ==
    /\ pc = "start"
    /\ file.strategy = "typescript"
    /\ chunks' = <<ChunkRange(1, Len(file.lines), "content")>>
    /\ pc' = "pass"
    /\ UNCHANGED <<file, new_chunks, changed, scope, least_bad, result>>

ChunkMarkdown ==
    /\ pc = "start"
    /\ file.strategy = "markdown"
    /\ result' = PartitionMarkdown(file)
    /\ pc' = "assign"
    /\ UNCHANGED <<file, chunks, new_chunks, changed, scope, least_bad>>

ChunkLines ==
    /\ pc = "start"
    /\ file.strategy = "lineBased"
    /\ result' = ChunkByLines(file)
    /\ pc' = "assign"
    /\ UNCHANGED <<file, chunks, new_chunks, changed, scope, least_bad>>

SkipFile ==
    /\ pc = "start"
    /\ file.strategy = "skip"
    /\ pc' = "done"
    /\ UNCHANGED <<file, chunks, new_chunks, changed, scope, least_bad, result>>

-----------------------------------------------------------------------------
(* partition_typescript: one pass over the ranges after the other, until a  *)
(* pass splits none.                                                        *)

\* The range is within the target: it stays.
KeepRange ==
    /\ pc = "pass"
    /\ chunks # <<>>
    /\ Current.size <= file.target_size
    /\ chunks' = Tail(chunks)
    /\ new_chunks' = Append(new_chunks, Head(chunks))
    /\ UNCHANGED <<file, pc, changed, scope, least_bad, result>>

\* The range is too big: find_best_split starts from the shallowest scope.
StartSplit ==
    /\ pc = "pass"
    /\ chunks # <<>>
    /\ Current.size > file.target_size
    /\ scope' = ShallowestScope(file, Current)
    /\ least_bad' = NoSplit
    /\ pc' = "descend"
    /\ UNCHANGED <<file, chunks, new_chunks, changed, result>>

\* The bug of a second half that begins with the line the first one ends with.
SplitOverlapping(line, mark) ==
    /\ chunks' = Tail(chunks)
    /\ new_chunks' = new_chunks
          \o <<ChunkRange(Current.start_line, line, mark),
               ChunkRange(line, Current.end_line, mark)>>
    /\ changed' = TRUE
    /\ pc' = "pass"
    /\ scope' = None
    /\ least_bad' = NoSplit

\* The current range is replaced by its two halves, which the next pass visits.
SplitAt(line, mark) ==
    /\ chunks' = Tail(chunks)
    /\ new_chunks' = new_chunks
          \o <<ChunkRange(Current.start_line, line, mark),
               ChunkRange(line + 1, Current.end_line, mark)>>
    /\ changed' = TRUE
    /\ pc' = "pass"
    /\ scope' = None
    /\ least_bad' = NoSplit

\* The bug of a pass that counts as changed although it left the range alone.
RetryOversized ==
    /\ chunks' = Tail(chunks)
    /\ new_chunks' = Append(new_chunks, Head(chunks))
    /\ changed' = TRUE
    /\ pc' = "pass"
    /\ scope' = None
    /\ least_bad' = NoSplit

\* The current range cannot be split: it stays as it is.
LeaveOversized ==
    /\ chunks' = Tail(chunks)
    /\ new_chunks' = Append(new_chunks, Head(chunks))
    /\ changed' = changed
    /\ pc' = "pass"
    /\ scope' = None
    /\ least_bad' = NoSplit

Candidates == ScopeCandidates(file, scope, Current)

\* The scope has a split with two healthy halves.
SplitAtScope ==
    /\ pc = "descend"
    /\ scope # None
    /\ \E line \in UsableSplit(file, Current, Candidates) : SplitAt(line, "content")
    /\ UNCHANGED <<file, result>>

\* The least bad split after this scope: the first of the smallest badness.
LeastBad ==
    LET Better(line) ==
            /\ least_bad # NoSplit => Badness(Current, line) < least_bad.badness
            /\ \A other \in Candidates :
                  \/ Badness(Current, line) < Badness(Current, other)
                  \/ Badness(Current, line) = Badness(Current, other) /\ line <= other
        better == {line \in Candidates : Better(line)}
    IN  IF better = {} THEN least_bad
        ELSE LET line == CHOOSE l \in better : TRUE
             IN  [line |-> line, badness |-> Badness(Current, line)]

\* The scope has no usable split: remember the least bad and go deeper.
DescendScope ==
    /\ pc = "descend"
    /\ scope # None
    /\ \A line \in Candidates : ~IsHealthy(file, Current, line)
    /\ least_bad' = LeastBad
    /\ scope' = NestedScope(file, Current, scope)
    /\ UNCHANGED <<file, pc, chunks, new_chunks, changed, result>>

\* The descent has ended with a least bad split, degraded when a half is tiny.
SplitAtLeastBad ==
    /\ pc = "descend"
    /\ scope = None
    /\ least_bad # NoSplit
    /\ SplitAt(least_bad.line,
               IF IsHealthy(file, Current, least_bad.line) THEN "content"
               ELSE "degraded-ast-split")
    /\ UNCHANGED <<file, result>>

MiddleLine ==
    Current.start_line + (Current.end_line - Current.start_line) \div 2

\* The middle line leaves a line on each side of it.
HasMiddle ==
    MiddleLine > Current.start_line /\ MiddleLine < Current.end_line

\* No scope had a candidate: a cut in the middle, if there is a middle and
\* cuts without a boundary are allowed.
SplitInMiddle ==
    /\ pc = "descend"
    /\ scope = None
    /\ least_bad = NoSplit
    /\ HasMiddle
    /\ file.allow_fallback
    /\ SplitAt(MiddleLine, "fallback-split")
    /\ UNCHANGED <<file, result>>

CannotSplit ==
    /\ pc = "descend"
    /\ scope = None
    /\ least_bad = NoSplit
    /\ ~HasMiddle \/ ~file.allow_fallback
    /\ LeaveOversized
    /\ UNCHANGED <<file, result>>

\* The bug of splitting every range once only.
EndAfterOnePass ==
    /\ pc = "pass"
    /\ chunks = <<>>
    /\ pc' = "finalize"
    /\ UNCHANGED <<file, chunks, new_chunks, changed, scope, least_bad, result>>

EndPass ==
    /\ pc = "pass"
    /\ chunks = <<>>
    /\ IF changed
       THEN /\ chunks' = new_chunks
            /\ new_chunks' = <<>>
            /\ changed' = FALSE
            /\ pc' = "pass"
       ELSE /\ pc' = "finalize"
            /\ UNCHANGED <<chunks, new_chunks, changed>>
    /\ UNCHANGED <<file, scope, least_bad, result>>

\* The marks win over the imports at the top of the file.
ChunkKind(range) ==
    IF range.mark # "content" THEN range.mark
    ELSE IF ImportsEndLine(file) > 0 /\ range.end_line <= ImportsEndLine(file)
    THEN "imports" ELSE "content"

\* The ranges with text become chunks, named after the node around them.
Finalize ==
    /\ pc = "finalize"
    /\ LET all == [k \in DOMAIN new_chunks |->
                      LET r == new_chunks[k]
                      IN  Chunk(r, ChunkKind(r),
                                BestNode(file, r.start_line, r.end_line),
                                NoSection, None, None)]
       IN  result' = At(all, WithText(file, new_chunks))
    /\ pc' = "assign"
    /\ UNCHANGED <<file, chunks, new_chunks, changed, scope, least_bad>>

-----------------------------------------------------------------------------
(* chunk_with_partitioner, chunk_by_lines: the chunks are sorted by their   *)
(* first line and numbered.                                                 *)

AssignOrdinals ==
    /\ pc = "assign"
    /\ LET order == InOrder(DOMAIN result,
                            [k \in DOMAIN result |-> result[k].start_line])
       IN  result' = [k \in DOMAIN result |->
              [result[order[k]] EXCEPT !.chunk_ordinal = k,
                                       !.chunk_count = Len(result)]]
    /\ pc' = "done"
    /\ UNCHANGED <<file, chunks, new_chunks, changed, scope, least_bad>>

PartitionTypeScript ==
    \/ StartTypeScript
    \/ KeepRange
    \/ StartSplit
    \/ SplitAtScope
    \/ DescendScope
    \/ SplitAtLeastBad
    \/ SplitInMiddle
    \/ CannotSplit
    \/ EndPass
    \/ Finalize

Next ==
    \/ PartitionTypeScript
    \/ ChunkMarkdown
    \/ ChunkLines
    \/ SkipFile
    \/ AssignOrdinals

Spec == Init /\ [][Next]_vars

\* partition_typescript is sequential code: a step that can be taken is taken.
FairSpec == Spec /\ WF_vars(PartitionTypeScript)

-----------------------------------------------------------------------------
(* Properties *)

Marks == {"content", "degraded-ast-split", "fallback-split"}

LineRanges ==
    {r \in [start_line : 1 .. Len(file.lines) + 1,
            end_line : 0 .. Len(file.lines), mark : Marks] :
        r.start_line <= r.end_line + 1}

\* The variables stay in their ranges: a range is within the file, a split
\* line is a line of the range being split.
TypeOK ==
    /\ pc \in {"start", "pass", "descend", "finalize", "assign", "done"}
    /\ chunks \in Seq(LineRanges)
    /\ new_chunks \in Seq(LineRanges)
    /\ changed \in BOOLEAN
    /\ scope \in Nodes(file) \cup {None}
    /\ pc = "descend" =>
          /\ chunks # <<>>
          /\ least_bad # NoSplit =>
                least_bad.line \in Current.start_line .. (Current.end_line - 1)

\* The ranges follow one another from the first line to the last, and none is
\* empty unless there is no line at all.
Tiles(ranges, first, last) ==
    /\ ranges # <<>>
    /\ first <= last =>
          \A k \in DOMAIN ranges : ranges[k].start_line <= ranges[k].end_line
    /\ ranges[1].start_line = first
    /\ ranges[Len(ranges)].end_line = last
    /\ \A k \in 1 .. (Len(ranges) - 1) :
          ranges[k + 1].start_line = ranges[k].end_line + 1

\* However often ranges are cut, and wherever the scopes put the cuts, the
\* ranges produced and the ranges still to visit are the whole file: no line
\* is lost, repeated or moved (src/engine/partitioner/partition.rs).
RangesTileFile ==
    file.strategy = "typescript" /\ pc \in {"pass", "descend", "finalize"} =>
        Tiles(new_chunks \o chunks, 1, Len(file.lines))

Covers(c, line) == c.start_line <= line /\ line <= c.end_line

ChunkAt(line) == {k \in DOMAIN result : Covers(result[k], line)}

\* The lines the Markdown partitioner leaves out: those above the first heading
\* of a file that has one.
AboveFirstHeading(line) ==
    /\ file.strategy = "markdown"
    /\ SectionStarts(file) # {}
    /\ line < Min(SectionStarts(file))

\* When a file is chunked, a line with text is in exactly one chunk, whatever
\* the strategy; the text above the first heading of a Markdown file is in
\* none.  A chunk is never empty and never two chunks overlap, not even on
\* blank lines.
LinesInOneChunk ==
    pc = "done" /\ file.strategy # "skip" =>
        \A line \in FileLines :
            /\ Cardinality(ChunkAt(line)) <= 1
            /\ ~file.lines[line].blank /\ ~AboveFirstHeading(line) =>
                  ChunkAt(line) # {}

OverTarget(c) == TextSize(file, c.start_line, c.end_line) > file.target_size

\* A chunk is over the target only where nothing could be cut: a single line,
\* or two lines of TypeScript; in Markdown a part of a section that was cut
\* elsewhere; without the fallback, a range whose scopes have no boundary.
OversizedIsUncuttable ==
    pc = "done" /\ file.strategy # "skip" =>
        \A k \in DOMAIN result : OverTarget(result[k]) =>
            \/ result[k].start_line = result[k].end_line
            \/ /\ file.strategy = "typescript"
               /\ \/ result[k].end_line = result[k].start_line + 1
                  \/ ~file.allow_fallback
            \/ /\ file.strategy = "markdown"
               /\ \/ result[k].parts # None /\ result[k].parts > 1
                  \/ SectionStarts(file) = {}

\* The least bad split the descent remembers always has a half below the
\* minimum: a chunk cut there is marked, and an unmarked cut is healthy in the
\* estimate of the moment.
LeastBadIsDegraded ==
    pc = "descend" /\ least_bad # NoSplit =>
        ~IsHealthy(file, Current, least_bad.line)

\* The parts of a section that was cut carry one name, increasing numbers and
\* one count, and no other section carries that name unless its heading is
\* empty.
PartsNameTheirSection ==
    pc = "done" /\ file.strategy = "markdown" =>
        \A j, k \in DOMAIN result :
            /\ result[j].section = result[k].section
            /\ j < k
            /\ result[j].section # NoSection
            /\ result[j].section[1] # NoTitle
            => /\ result[j].part # None
               /\ result[j].part < result[k].part
               /\ result[k].part <= result[k].parts
               /\ result[j].parts = result[k].parts

\* The splitting of a TypeScript file ends: every cut leaves two shorter ranges,
\* a range that cannot be cut is left alone, and the descent goes down the tree.
SplittingEnds == pc = "pass" ~> pc = "assign"

=============================================================================
