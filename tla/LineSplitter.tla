---------------------------- MODULE LineSplitter ----------------------------
(***************************************************************************)
(* The two chunkers that work on lines alone: line-based chunking          *)
(* (src/engine/chunker.rs, chunk_by_lines) and the Markdown partitioner    *)
(* (src/engine/markdown_partitioner.rs), as operators from a file to the   *)
(* sequence of its chunks.                                                 *)
(*                                                                         *)
(* Sorting and filtering are written with InOrder and At rather than with  *)
(* SortSeq and SelectSeq, whose operator arguments the proofs about this   *)
(* module could not reason with.                                           *)
(*                                                                         *)
(* A line is a record: len, its length in bytes; blank; indent, hashes and *)
(* next, its leading spaces, the '#' after them and what follows those;    *)
(* title, the heading text or NoTitle; mark, what the trimmed line starts  *)
(* with: "fence" for ```, "item" for one of > - *, "other".                *)
(***************************************************************************)
EXTENDS Integers, Sequences, FiniteSetsExt, SequencesExt, AstSplitSearch

CONSTANT NoTitle

(* Order *)

\* The members of S, a finite set of naturals: those with the lower key first,
\* of two with the same key the lower.
InOrder(S, key) ==
    LET UpTo(y) == {x \in S : key[x] < key[y] \/ (key[x] = key[y] /\ x <= y)}
    IN  [n \in 1 .. Cardinality(S) |-> CHOOSE y \in S : Cardinality(UpTo(y)) = n]

Ascending(S) == InOrder(S, [x \in S |-> x])

\* The items of s at the given positions, in the order they have in s.
At(s, positions) ==
    [n \in 1 .. Cardinality(positions) |-> s[Ascending(positions)[n]]]

(* Greedy cuts *)

\* What the loop over the lines holds after line i: the size of the piece so
\* far and this line, each with its newline, exceed the target, and a cut is
\* allowed before it.
ScanLine(f, allowed, s, i) ==
    LET size == f.lines[i].len + 1
        cut  == s.size + size > f.target_size /\ s.size > 0 /\ i \in allowed
    IN  [size |-> IF cut THEN size ELSE s.size + size,
         cuts |-> IF cut THEN s.cuts \cup {i} ELSE s.cuts]

\* The lines of start_line .. end_line before which a piece ends.
Cuts(f, start_line, end_line, allowed) ==
    LET scan[i \in (start_line - 1) .. end_line] ==
            IF i = start_line - 1 THEN [size |-> 0, cuts |-> {}]
            ELSE ScanLine(f, allowed, scan[i - 1], i)
    IN  scan[end_line].cuts

\* The chunk belongs to no section of a document.
NoSection == <<>>

\* A chunk of these lines, not numbered yet.
Chunk(range, kind, symbol, section, part, parts) ==
    [start_line |-> range.start_line, end_line |-> range.end_line,
     chunk_kind |-> kind, symbol |-> symbol,
     section |-> section, part |-> part, parts |-> parts,
     chunk_ordinal |-> 0, chunk_count |-> 0]

\* The bug of a piece that keeps the line it was cut before.
PiecesOverlap(start_line, end_line, cuts) ==
    LET n      == Cardinality({start_line} \cup cuts)
        starts == Ascending({start_line} \cup cuts)
    IN  [k \in 1 .. n |->
            [start_line |-> starts[k],
             end_line   |-> IF k = n THEN end_line ELSE starts[k + 1]]]

\* The pieces between the cuts.
Pieces(start_line, end_line, cuts) ==
    LET n      == Cardinality({start_line} \cup cuts)
        starts == Ascending({start_line} \cup cuts)
    IN  [k \in 1 .. n |->
            [start_line |-> starts[k],
             end_line   |-> IF k = n THEN end_line ELSE starts[k + 1] - 1]]

HasText(f, piece) == ~IsBlankText(f, piece.start_line, piece.end_line)

\* The positions of the pieces that have text.
WithText(f, pieces) == {k \in DOMAIN pieces : HasText(f, pieces[k])}

(* Line-based chunking *)

\* chunk_by_lines: pieces without text are skipped.
ChunkByLines(f) ==
    LET n      == Len(f.lines)
        pieces == Pieces(1, n, Cuts(f, 1, n, 1 .. n))
        chunks_of == [k \in DOMAIN pieces |->
                        Chunk(pieces[k], "content", None, NoSection, None, None)]
    IN  IF n = 0 THEN <<>> ELSE At(chunks_of, WithText(f, pieces))

(* Markdown *)

IsAtxHeading(line) ==
    /\ line.indent <= 3
    /\ line.hashes \in 1 .. 6
    /\ line.next \in {"end", "space", "tab"}

\* The fences at or above line i, from line first on: an odd number of them
\* puts the line in a code block.
InCodeBlock(f, first, i) ==
    Cardinality({j \in first .. i : f.lines[j].mark = "fence"}) % 2 = 1

SectionStarts(f) ==
    {i \in 1 .. Len(f.lines) :
        ~InCodeBlock(f, 1, i) /\ IsAtxHeading(f.lines[i])}

\* One section per heading, up to the next one.
Sections(f) ==
    IF SectionStarts(f) = {} THEN <<>>
    ELSE LET first == Min(SectionStarts(f))
         IN  Pieces(first, Len(f.lines), SectionStarts(f) \ {first})

\* The bug of sections named by their heading alone.
HeadingOnly(f, section) == <<f.lines[section.start_line].title, 0>>

\* The breadcrumb of a section: its heading and how many sections before it
\* have the same one, which the slugger turns into a suffix.
SectionName(f, section) ==
    LET title == f.lines[section.start_line].title
    IN  IF title = NoTitle THEN <<NoTitle, 0>>
        ELSE <<title, Cardinality({i \in SectionStarts(f) :
                          i < section.start_line /\ f.lines[i].title = title})>>

\* split_oversized_section cuts before a blank line, a fence, a quote or a list
\* item outside of a code block.
MayCutSection(f, section) ==
    {i \in section.start_line .. section.end_line :
        /\ ~InCodeBlock(f, section.start_line, i)
        /\ f.lines[i].blank \/ f.lines[i].mark \in {"fence", "item"}}

\* split_oversized_section, and split_by_lines_fallback when it finds no cut.
SectionPieces(f, section) ==
    LET a == section.start_line
        b == section.end_line
        cuts == Cuts(f, a, b, MayCutSection(f, section))
    IN  IF cuts = {} THEN Pieces(a, b, Cuts(f, a, b, a .. b))
        ELSE Pieces(a, b, cuts)

\* The chunks of one section: the section, or its parts, numbered before those
\* without text are left out.
SectionChunks(f, section) ==
    LET name   == SectionName(f, section)
        whole  == Chunk(section, "content", f.lines[section.start_line].title,
                        name, None, None)
        pieces == SectionPieces(f, section)
        all    == [k \in DOMAIN pieces |->
                    Chunk(pieces[k], "content", None, name, k, Len(pieces))]
    IN  IF TextSize(f, section.start_line, section.end_line) <= f.target_size
        THEN <<whole>> ELSE At(all, WithText(f, pieces))

\* partition_markdown: without a heading the file is one chunk.
PartitionMarkdown(f) ==
    LET n        == Len(f.lines)
        sections == Sections(f)
        whole    == Chunk([start_line |-> 1, end_line |-> n],
                          "content", None, NoSection, None, None)
    IN  IF sections = <<>>
        THEN IF IsBlankText(f, 1, n) THEN <<>> ELSE <<whole>>
        ELSE FlattenSeq([k \in DOMAIN sections |-> SectionChunks(f, sections[k])])

=============================================================================
