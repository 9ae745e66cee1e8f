-------------------------- MODULE TextPipelineProofs --------------------------
(***************************************************************************)
(* Theorems about TextPipeline: about Chunker, for files of any length,    *)
(* syntax trees of any shape and any target, the ranges of a TypeScript    *)
(* file while it is split and the chunks of a finished file, whatever its  *)
(* strategy; about Identifiers, for names over any alphabet, that the      *)
(* validators follow the grammar; about FtsTokenizer, for texts of any     *)
(* length, that phrases and words are found as the documents say.          *)
(*                                                                         *)
(* The first part is about the passes over the ranges.  The lemmas of the  *)
(* second are about the operators of LineSplitter: what the recursive      *)
(* functions compute (by induction over an interval), what sorting and     *)
(* selecting keep, where the greedy cuts fall, and from these what each    *)
(* strategy makes of a file.  The third carries that to the state in which *)
(* the chunks have been numbered, the fourth is about names.  The last is  *)
(* about tokens: what is gathered from a beginning of a text does not      *)
(* depend on what follows, so a text can be followed position by position. *)
(***************************************************************************)
EXTENDS TextPipeline, FiniteSetTheorems, FunctionTheorems, SequenceTheorems,
        WellFoundedInduction, TLAPS

LineRange == [start_line : Int, end_line : Int, mark : Marks]

NonEmpty(r) == r.start_line <= r.end_line

(* Two ranges in place of the one at the head of the second sequence, cut   *)
(* after one of its lines but the last, tile what it tiled.                 *)
LEMMA CutTiles ==
    ASSUME NEW s \in Seq(LineRange), NEW t \in Seq(LineRange), t # <<>>,
           NEW first \in Int, NEW last \in Int, Tiles(s \o t, first, last),
           NEW line \in Int, t[1].start_line <= line, line < t[1].end_line,
           NEW a \in LineRange, a.start_line = t[1].start_line, a.end_line = line,
           NEW b \in LineRange, b.start_line = line + 1, b.end_line = t[1].end_line
    PROVE  Tiles((s \o <<a, b>>) \o Tail(t), first, last)
<1> DEFINE before == s \o t
           after  == (s \o <<a, b>>) \o Tail(t)
           n      == Len(s)
           m      == Len(t)
<1>1. /\ n \in Nat /\ m \in Nat /\ m > 0
      /\ \A k \in 1 .. n : s[k] \in LineRange
      /\ \A k \in 1 .. m : t[k] \in LineRange
  BY LenProperties, EmptySeq, ElementOfSeq
<1>2. /\ before \in Seq(LineRange) /\ Len(before) = n + m
      /\ \A k \in 1 .. n : before[k] = s[k]
      /\ \A k \in 1 .. m : before[n + k] = t[k]
  BY <1>1
<1>3. Tail(t) \in Seq(LineRange) /\ Len(Tail(t)) = m - 1
      /\ \A k \in 1 .. (m - 1) : Tail(t)[k] = t[k + 1]
  BY <1>1, HeadTailProperties
<1>4. /\ after \in Seq(LineRange) /\ Len(after) = n + m + 1
      /\ \A k \in 1 .. n : after[k] = s[k]
      /\ after[n + 1] = a /\ after[n + 2] = b
      /\ \A k \in 1 .. (m - 1) : after[n + 2 + k] = t[k + 1]
  BY <1>1, <1>3
<1>sizes. n \in Nat /\ m \in Nat /\ m > 0
  BY <1>1
<1>halves. /\ NonEmpty(a) /\ NonEmpty(b)
      /\ b.start_line = a.end_line + 1
      /\ t[1] \in LineRange
  <2>1. t[1] \in LineRange
    BY <1>1
  <2> QED
    BY <2>1 DEF NonEmpty, LineRange
<1>tiles. Tiles(before, first, last) /\ DOMAIN before = 1 .. (n + m)
  BY <1>2, LenProperties
<1> HIDE DEF before, after, n, m
<1>5. /\ \A k \in 1 .. n : after[k] = before[k]
      /\ \A k \in (n + 3) .. (n + m + 1) : after[k] = before[k - 1]
      /\ before[n + 1] = t[1]
  <2>1. ASSUME NEW k \in (n + 3) .. (n + m + 1) PROVE after[k] = before[k - 1]
    <3>1. k - n - 2 \in 1 .. (m - 1) /\ k - n - 1 \in 1 .. m
      BY <1>sizes
    <3>2. after[k] = t[k - n - 1]
      <4>1. n + 2 + (k - n - 2) = k /\ (k - n - 2) + 1 = k - n - 1
        BY <1>sizes
      <4>2. after[n + 2 + (k - n - 2)] = t[(k - n - 2) + 1]
        BY <1>4, <3>1
      <4> QED
        BY <4>1, <4>2
    <3>3. before[k - 1] = t[k - n - 1]
      BY <1>1, <1>2, <3>1
    <3> QED
      BY <3>2, <3>3
  <2> QED
    BY <1>1, <1>2, <1>4, <2>1
<1>6. /\ before[1].start_line = first
      /\ before[n + m].end_line = last
      /\ first <= last => \A k \in 1 .. (n + m) : NonEmpty(before[k])
      /\ \A k \in 1 .. (n + m - 1) : before[k + 1].start_line = before[k].end_line + 1
  <2>1. Len(before) = n + m
    BY <1>2
  <2>2. /\ before[1].start_line = first
        /\ before[Len(before)].end_line = last
        /\ first <= last => \A k \in DOMAIN before : NonEmpty(before[k])
    BY <1>tiles, Zenon DEF Tiles, NonEmpty
  <2>3. \A k \in 1 .. (Len(before) - 1) :
           before[k + 1].start_line = before[k].end_line + 1
    BY <1>tiles, Zenon DEF Tiles
  <2>4. before[n + m].end_line = last
    BY <2>1, <2>2
  <2>5. ASSUME NEW k \in 1 .. (n + m - 1)
        PROVE  before[k + 1].start_line = before[k].end_line + 1
    <3>1. Len(before) - 1 = n + m - 1
      BY <2>1, <1>sizes
    <3>2. k \in 1 .. (Len(before) - 1)
      BY <3>1, Zenon
    <3> QED
      BY <2>3, <3>2
  <2>6. first <= last => \A k \in 1 .. (n + m) : NonEmpty(before[k])
    BY <2>2, <1>tiles, Zenon
  <2> QED
    BY <2>2, <2>4, <2>5, <2>6
<1>7. after # <<>> /\ after[1].start_line = first
  <2>1. after # <<>>
    BY <1>sizes, <1>4, LenProperties
  <2>2. CASE n = 0
    <3>1. n + 1 = 1
      BY <2>2
    <3>2. after[1] = a /\ before[1] = t[1]
      BY <1>4, <1>5, <3>1
    <3> QED
      BY <1>6, <2>1, <3>2
  <2>3. CASE n > 0
    <3>1. 1 \in 1 .. n
      BY <1>sizes, <2>3
    <3> QED
      BY <1>5, <1>6, <2>1, <3>1
  <2> QED
    BY <1>sizes, <2>2, <2>3
<1>8. after[n + m + 1].end_line = last
  <2>1. CASE m = 1
    <3>1. n + m + 1 = n + 2 /\ n + m = n + 1
      BY <1>sizes, <2>1
    <3> QED
      BY <1>4, <1>5, <1>6, <3>1
  <2>2. CASE m > 1
    <3>1. n + m + 1 \in (n + 3) .. (n + m + 1) /\ (n + m + 1) - 1 = n + m
      BY <1>sizes, <2>2
    <3> QED
      BY <1>5, <1>6, <3>1
  <2> QED
    BY <1>sizes, <2>1, <2>2
<1>9. ASSUME first <= last, NEW k \in 1 .. (n + m + 1) PROVE NonEmpty(after[k])
  <2>1. CASE k \in 1 .. n
    <3>1. k \in 1 .. (n + m) /\ after[k] = before[k]
      BY <1>sizes, <1>5, <2>1
    <3> QED
      BY <1>6, <1>9, <3>1
  <2>2. CASE k \in {n + 1, n + 2}
    BY <1>4, <1>halves, <2>2
  <2>3. CASE k \in (n + 3) .. (n + m + 1)
    <3>1. k - 1 \in 1 .. (n + m)
      BY <1>sizes, <2>3
    <3> QED
      BY <1>5, <1>6, <1>9, <2>3, <3>1
  <2>4. k \in 1 .. n \/ k \in {n + 1, n + 2} \/ k \in (n + 3) .. (n + m + 1)
    BY <1>sizes, <1>9
  <2> QED
    BY <2>1, <2>2, <2>3, <2>4, Zenon
<1>10. ASSUME NEW k \in 1 .. (n + m) PROVE after[k + 1].start_line = after[k].end_line + 1
  <2>1. CASE k \in 1 .. n /\ k + 1 \in 1 .. n
    <3>1. k \in 1 .. (n + m - 1)
      BY <1>sizes, <2>1
    <3> QED
      BY <1>5, <1>6, <2>1, <3>1
  <2>2. CASE k = n
    <3>1. n \in 1 .. (n + m - 1) /\ n \in 1 .. n
      BY <1>sizes, <1>10, <2>2
    <3>2. before[n + 1].start_line = before[n].end_line + 1
      BY <1>6, <3>1
    <3>3. after[n] = before[n] /\ after[n + 1] = a
      BY <1>4, <1>5, <3>1
    <3> QED
      BY <1>5, <2>2, <3>2, <3>3
  <2>3. CASE k = n + 1
    <3>1. k + 1 = n + 2
      BY <1>sizes, <2>3
    <3> QED
      BY <1>4, <1>halves, <2>3, <3>1
  <2>4. CASE k = n + 2
    <3>1. /\ n + 1 \in 1 .. (n + m - 1)
          /\ n + 3 \in (n + 3) .. (n + m + 1)
      BY <1>sizes, <1>10, <2>4
    <3>2. (n + 3) - 1 = n + 2 /\ (n + 1) + 1 = n + 2 /\ (n + 2) + 1 = n + 3
      BY <1>sizes
    <3>3. after[n + 3] = before[n + 2]
      BY <1>5, <3>1, <3>2
    <3>4. before[n + 2].start_line = before[n + 1].end_line + 1
      BY <1>6, <3>1, <3>2
    <3> QED
      BY <1>4, <1>5, <1>halves, <2>4, <3>2, <3>3, <3>4
  <2>5. CASE k \in (n + 3) .. (n + m)
    <3>1. /\ k - 1 \in 1 .. (n + m - 1)
          /\ k \in (n + 3) .. (n + m + 1) /\ k + 1 \in (n + 3) .. (n + m + 1)
      BY <1>sizes, <2>5
    <3>2. before[(k - 1) + 1].start_line = before[k - 1].end_line + 1
      BY <1>6, <3>1
    <3>3. after[k] = before[k - 1] /\ after[k + 1] = before[(k + 1) - 1]
      BY <1>5, <3>1
    <3>4. (k - 1) + 1 = k /\ (k + 1) - 1 = k
      BY <1>sizes, <2>5
    <3> QED
      BY <3>2, <3>3, <3>4
  <2>6. \/ k \in 1 .. n /\ k + 1 \in 1 .. n
        \/ k = n \/ k = n + 1 \/ k = n + 2 \/ k \in (n + 3) .. (n + m)
    BY <1>sizes, <1>10
  <2> QED
    BY <2>1, <2>2, <2>3, <2>4, <2>5, <2>6, Zenon
<1>11. Len(after) - 1 = n + m /\ DOMAIN after = 1 .. (n + m + 1)
  BY <1>1, <1>4, LenProperties
<1> QED
  BY <1>4, <1>7, <1>8, <1>9, <1>10, <1>11 DEF Tiles, after, NonEmpty

-----------------------------------------------------------------------------

(* A pass is well formed when its ranges are, and the cut the descent       *)
(* remembers lies between two lines of the range being cut and leaves one   *)
(* of its halves small.                                                     *)
Splitting == file.strategy = "typescript" /\ pc \in {"pass", "descend", "finalize"}

SplitInv ==
    /\ file \in Files
    /\ chunks \in Seq(LineRange) /\ new_chunks \in Seq(LineRange)
    /\ pc \in {"pass", "descend"} => file.strategy = "typescript"
    /\ pc = "descend" =>
          /\ chunks # <<>>
          /\ least_bad # NoSplit =>
                /\ least_bad.line \in Current.start_line .. (Current.end_line - 1)
                /\ ~IsHealthy(file, Current, least_bad.line)
    /\ pc = "finalize" => chunks = <<>>
    /\ pc = "start" => new_chunks = <<>>
    /\ Splitting => Tiles(new_chunks \o chunks, 1, Len(file.lines))

LEMMA WholeFileTiles ==
    ASSUME NEW r \in LineRange, NEW last \in Nat, r.start_line = 1, r.end_line = last
    PROVE  Tiles(<<>> \o <<r>>, 1, last)
<1>1. <<r>> \in Seq(LineRange) /\ <<>> \o <<r>> = <<r>>
  BY ConcatEmptySeq
<1>2. Len(<<r>>) = 1 /\ DOMAIN <<r>> = {1} /\ <<r>>[1] = r
  OBVIOUS
<1> QED
  BY <1>1, <1>2 DEF Tiles

LEMMA InitSplitInv == Init => SplitInv
BY EmptySeq DEF Init, SplitInv, Splitting

(* Cutting the range at the head of the pass keeps everything in place.     *)
LEMMA CutKeepsInv ==
    ASSUME SplitInv, pc = "descend", NEW mark \in Marks,
           NEW line \in Current.start_line .. (Current.end_line - 1),
           SplitAt(line, mark), UNCHANGED file
    PROVE  SplitInv'
<1> DEFINE a == ChunkRange(Current.start_line, line, mark)
           b == ChunkRange(line + 1, Current.end_line, mark)
<1>1. /\ chunks \in Seq(LineRange) /\ new_chunks \in Seq(LineRange) /\ chunks # <<>>
      /\ Tiles(new_chunks \o chunks, 1, Len(file.lines))
      /\ file.strategy = "typescript" /\ file \in Files
  BY DEF SplitInv, Splitting
<1>2. /\ Head(chunks) = chunks[1] /\ chunks[1] \in LineRange
      /\ Tail(chunks) \in Seq(LineRange)
  BY <1>1, HeadTailProperties
<1>3. /\ Current.start_line = chunks[1].start_line /\ Current.start_line \in Int
      /\ Current.end_line = chunks[1].end_line /\ Current.end_line \in Int
  BY <1>2 DEF Current, LineRange
<1>4. line \in Int /\ chunks[1].start_line <= line /\ line < chunks[1].end_line
  BY <1>3
<1>5. /\ a \in LineRange /\ a.start_line = chunks[1].start_line /\ a.end_line = line
      /\ b \in LineRange /\ b.start_line = line + 1 /\ b.end_line = chunks[1].end_line
  BY <1>3, <1>4 DEF ChunkRange, LineRange
<1>6. chunks' = Tail(chunks) /\ new_chunks' = new_chunks \o <<a, b>> /\ pc' = "pass"
  BY DEF SplitAt
<1> HIDE DEF a, b
<1>7. Tiles((new_chunks \o <<a, b>>) \o Tail(chunks), 1, Len(file.lines))
  <2>1. Len(file.lines) \in Int /\ 1 \in Int
    BY <1>1, ChunkerAssumption
  <2>2. \A first, last \in Int :
           Tiles(new_chunks \o chunks, first, last) =>
              Tiles((new_chunks \o <<a, b>>) \o Tail(chunks), first, last)
    BY <1>1, <1>4, <1>5, CutTiles, Zenon
  <2> QED
    BY <1>1, <2>1, <2>2
<1>8. new_chunks' \in Seq(LineRange)
  BY <1>1, <1>5, <1>6
<1> QED
  BY <1>1, <1>2, <1>6, <1>7, <1>8 DEF SplitInv, Splitting

LEMMA PassOn ==
    ASSUME NEW s \in Seq(LineRange), NEW t \in Seq(LineRange), t # <<>>
    PROVE  Append(s, Head(t)) \o Tail(t) = s \o t
<1>1. Head(t) \in LineRange /\ Tail(t) \in Seq(LineRange) /\ <<Head(t)>> \in Seq(LineRange)
  BY HeadTailProperties
<1>2. <<Head(t)>> \o Tail(t) = t
  <2>1. /\ Len(t) \in Nat /\ Len(t) > 0
        /\ Len(Tail(t)) = Len(t) - 1
        /\ \A i \in 1 .. (Len(t) - 1) : Tail(t)[i] = t[i + 1]
    BY HeadTailProperties, LenProperties, EmptySeq
  <2> DEFINE u == <<Head(t)>> \o Tail(t)
  <2>2. /\ u \in Seq(LineRange) /\ Len(u) = Len(t)
        /\ \A i \in 1 .. Len(t) : u[i] = t[i]
    BY <1>1, <2>1
  <2> HIDE DEF u
  <2> QED
    BY <2>2, SeqEqual DEF u
<1>3. Append(s, Head(t)) = s \o <<Head(t)>>
  BY <1>1, AppendIsConcat
<1> QED
  BY <1>1, <1>2, <1>3, ConcatAssociative

(* Visiting the range at the head of the pass without cutting it.           *)
LEMMA PassKeepsInv ==
    ASSUME SplitInv, pc \in {"pass", "descend"}, chunks # <<>>,
           chunks' = Tail(chunks), new_chunks' = Append(new_chunks, Head(chunks)),
           pc' = "pass", UNCHANGED file
    PROVE  SplitInv'
<1>1. /\ chunks \in Seq(LineRange) /\ new_chunks \in Seq(LineRange)
      /\ Tiles(new_chunks \o chunks, 1, Len(file.lines))
      /\ file.strategy = "typescript" /\ file \in Files
  BY DEF SplitInv, Splitting
<1>2. Head(chunks) \in LineRange /\ Tail(chunks) \in Seq(LineRange)
  BY <1>1, HeadTailProperties
<1>3. new_chunks' \in Seq(LineRange)
  BY <1>1, <1>2
<1>4. Append(new_chunks, Head(chunks)) \o Tail(chunks) = new_chunks \o chunks
  BY <1>1, PassOn
<1> QED
  BY <1>1, <1>2, <1>3, <1>4 DEF SplitInv, Splitting

LEMMA NextSplitInv == SplitInv /\ [Next]_vars => SplitInv'
<1> SUFFICES ASSUME SplitInv, [Next]_vars PROVE SplitInv'
  OBVIOUS
<1>1. CASE StartTypeScript
  <2> DEFINE r == ChunkRange(1, Len(file.lines), "content")
  <2>1. /\ chunks' = <<r>> /\ new_chunks' = <<>> /\ pc' = "pass"
        /\ UNCHANGED file /\ file \in Files /\ file.strategy = "typescript"
    BY <1>1 DEF StartTypeScript, SplitInv
  <2>2. Len(file.lines) \in Nat
    BY <2>1, ChunkerAssumption
  <2>3. r \in LineRange /\ r.start_line = 1 /\ r.end_line = Len(file.lines)
    BY <2>2 DEF ChunkRange, LineRange, Marks
  <2> HIDE DEF r
  <2>4. Tiles(<<>> \o <<r>>, 1, Len(file.lines))
    BY <2>2, <2>3, WholeFileTiles
  <2> QED
    BY <2>1, <2>3, <2>4 DEF SplitInv, Splitting
<1>2. CASE KeepRange
  BY <1>2, PassKeepsInv DEF KeepRange
<1>3. CASE StartSplit
  BY <1>3 DEF StartSplit, SplitInv, Splitting
<1>4. CASE SplitAtScope
  <2>1. PICK line \in UsableSplit(file, Current, Candidates) : SplitAt(line, "content")
    BY <1>4 DEF SplitAtScope
  <2>2. line \in Current.start_line .. (Current.end_line - 1)
    BY DEF UsableSplit, Candidates, ScopeCandidates
  <2> QED
    BY <1>4, <2>1, <2>2, CutKeepsInv DEF SplitAtScope, Marks
<1>5. CASE DescendScope
  <2>1. /\ UNCHANGED <<file, pc, chunks, new_chunks>> /\ UNCHANGED Current
        /\ pc = "descend" /\ least_bad' = LeastBad
        /\ \A line \in Candidates : ~IsHealthy(file, Current, line)
    BY <1>5 DEF DescendScope, Current
  <2>2. \/ LeastBad = least_bad
        \/ LeastBad.line \in Candidates
    BY DEF LeastBad
  <2>3. Candidates \subseteq Current.start_line .. (Current.end_line - 1)
    BY DEF Candidates, ScopeCandidates
  <2>4. LeastBad # NoSplit =>
           /\ LeastBad.line \in Current.start_line .. (Current.end_line - 1)
           /\ ~IsHealthy(file, Current, LeastBad.line)
    BY <2>1, <2>2, <2>3 DEF SplitInv
  <2> QED
    BY <2>1, <2>4 DEF SplitInv, Splitting
<1>6. CASE SplitAtLeastBad
  <2>1. least_bad.line \in Current.start_line .. (Current.end_line - 1)
    BY <1>6 DEF SplitAtLeastBad, SplitInv
  <2>2. \E mark \in Marks : SplitAt(least_bad.line, mark)
    BY <1>6 DEF SplitAtLeastBad, Marks
  <2> QED
    BY <1>6, <2>1, <2>2, CutKeepsInv DEF SplitAtLeastBad
<1>7. CASE SplitInMiddle
  <2>1. chunks[1] \in LineRange /\ Head(chunks) = chunks[1]
    BY <1>7, LenProperties, EmptySeq DEF SplitInMiddle, SplitInv
  <2>2. Current.start_line \in Int /\ Current.end_line \in Int
    BY <2>1 DEF Current, LineRange
  <2>3. MiddleLine \in Current.start_line .. (Current.end_line - 1)
    BY <1>7, <2>2 DEF SplitInMiddle, HasMiddle, MiddleLine
  <2> QED
    BY <1>7, <2>3, CutKeepsInv DEF SplitInMiddle, Marks
<1>8. CASE CannotSplit
  BY <1>8, PassKeepsInv DEF CannotSplit, LeaveOversized, SplitInv
<1>9. CASE EndPass
  <2>1. /\ chunks = <<>> /\ pc = "pass" /\ UNCHANGED file /\ new_chunks \in Seq(LineRange)
        /\ file.strategy = "typescript" /\ file \in Files
        /\ Tiles(new_chunks \o chunks, 1, Len(file.lines))
    BY <1>9 DEF EndPass, SplitInv, Splitting
  <2>2. new_chunks \o <<>> = new_chunks /\ <<>> \o new_chunks = new_chunks
    BY <2>1, ConcatEmptySeq
  <2>3. CASE changed
    BY <1>9, <2>1, <2>2, <2>3 DEF EndPass, SplitInv, Splitting
  <2>4. CASE ~changed
    BY <1>9, <2>1, <2>2, <2>4 DEF EndPass, SplitInv, Splitting
  <2> QED
    BY <2>3, <2>4
<1>10. CASE ChunkMarkdown \/ ChunkLines \/ SkipFile \/ Finalize \/ AssignOrdinals
  BY <1>10 DEF ChunkMarkdown, ChunkLines, SkipFile, Finalize, AssignOrdinals, SplitInv, Splitting
<1>11. CASE UNCHANGED vars
  BY <1>11 DEF vars, SplitInv, Splitting, Current
<1> QED
  BY <1>1, <1>2, <1>3, <1>4, <1>5, <1>6, <1>7, <1>8, <1>9, <1>10, <1>11
     DEF Next, PartitionTypeScript

LEMMA SplitInvariant == Spec => []SplitInv
BY InitSplitInv, NextSplitInv, PTL DEF Spec

(* However often a TypeScript file is cut, and wherever its syntax tree     *)
(* puts the cuts, the ranges produced and the ranges still to visit are the *)
(* whole file: no line is lost, repeated or moved and no range is empty.    *)
THEOREM NoLineIsLost == Spec => []RangesTileFile
<1>1. SplitInv => RangesTileFile
  BY DEF SplitInv, Splitting, RangesTileFile
<1> QED
  BY <1>1, SplitInvariant, PTL

(* find_best_split has a branch for a least bad split with two healthy      *)
(* halves (src/engine/partitioner/split_search.rs): it cannot be reached.   *)
THEOREM LeastBadSplitsAreDegraded == Spec => []LeastBadIsDegraded
<1>1. SplitInv => LeastBadIsDegraded
  BY DEF SplitInv, LeastBadIsDegraded
<1> QED
  BY <1>1, SplitInvariant, PTL

-----------------------------------------------------------------------------
(* What holds of the least of the numbers from a on and passes to the next. *)
LEMMA LeastNatural ==
    ASSUME NEW S \in SUBSET Nat, S # {}
    PROVE  Min(S) \in S /\ \A y \in S : Min(S) <= y
<1> DEFINE T == {0 .. m : m \in S}
<1>1. T # {} /\ T \subseteq FiniteSubsetsOf(Nat)
  <2>1. \A m \in Nat : IsFiniteSet(0 .. m)
    <3>1. \A m \in Nat : 0 \in Int /\ m \in Int
      OBVIOUS
    <3> QED
      BY <3>1, FS_Interval
  <2>2. \A m \in Nat : 0 .. m \in FiniteSubsetsOf(Nat)
    BY <2>1 DEF FiniteSubsetsOf
  <2> QED
    BY <2>2
<1>2. IsWellFoundedOn(StrictSubsetOrdering(Nat), FiniteSubsetsOf(Nat))
  BY FS_StrictSubsetOrderingWellFounded
<1>3. PICK x \in T : \A y \in T : ~ (<<y, x>> \in StrictSubsetOrdering(Nat))
  <2> HIDE DEF T
  <2> QED
    BY <1>1, <1>2, WFMin
<1>4. PICK m \in S : x = 0 .. m
  BY <1>3
<1>5. ASSUME NEW n \in S PROVE m <= n
  <2>1. 0 .. n \in T /\ n \in Nat /\ m \in Nat
    OBVIOUS
  <2>2. n < m => <<0 .. n, x>> \in StrictSubsetOrdering(Nat)
    BY <1>4, <2>1 DEF StrictSubsetOrdering
  <2>3. ~(n < m)
    BY <1>3, <2>1, <2>2
  <2> QED
    BY ONLY <2>1, <2>3
<1> QED
  BY <1>5 DEF Min

(* What holds of the first number and passes to the next holds of all.      *)
LEMMA IntervalInduction ==
    ASSUME NEW a \in Int, NEW b \in Int, NEW A,
           a \in A, \A i \in a .. (b - 1) : i \in A => i + 1 \in A
    PROVE  a .. b \subseteq A
<1> SUFFICES ASSUME NEW i \in a .. b, i \notin A PROVE FALSE
  OBVIOUS
<1> DEFINE S == {n \in Nat : a + n \in a .. b /\ a + n \notin A}
<1>1. S \in SUBSET Nat /\ i - a \in S
  OBVIOUS
<1>2. Min(S) \in S /\ \A y \in S : Min(S) <= y
  <2> HIDE DEF S
  <2> QED
    BY <1>1, LeastNatural
<1>3. PICK m \in Nat : m = Min(S) /\ a + m \in a .. b /\ a + m \notin A
  BY <1>2
<1>4. m # 0
  <2>1. a + 0 = a
    OBVIOUS
  <2> QED
    BY <1>3, <2>1
<1>5. m - 1 \in Nat /\ a + (m - 1) \in a .. (b - 1) /\ a + (m - 1) \in a .. b
      /\ (a + (m - 1)) + 1 = a + m
  BY <1>3, <1>4
<1>6. a + (m - 1) \notin A
  BY <1>3, <1>5
<1>7. m - 1 \in S
  BY <1>5, <1>6
<1>8. m <= m - 1
  <2> HIDE DEF S
  <2> QED
    BY <1>2, <1>3, <1>7
<1> QED
  BY <1>8

(* A function g on a .. b made from its value at a, one argument after the  *)
(* other.                                                                   *)
IsRecursion(g, a, b, base, op) ==
    g = [i \in a .. b |-> IF i = a THEN base ELSE op[<<g[i - 1], i>>]]

LEMMA RecursionExists ==
    ASSUME NEW V, NEW a \in Int, NEW b \in Int, NEW base \in V,
           NEW op \in [V \X ((a + 1) .. b) -> V]
    PROVE  \E g \in [a .. b -> V] : IsRecursion(g, a, b, base, op)
<1> DEFINE Ok(i) == \E g \in [a .. i -> V] : IsRecursion(g, a, i, base, op)
           A == {i \in a .. b : Ok(i)}
<1>1. CASE b < a
  <2> DEFINE g == [i \in a .. b |-> base]
  <2>1. a .. b = {}
    BY <1>1
  <2>2. g \in [a .. b -> V] /\ IsRecursion(g, a, b, base, op)
    BY <2>1 DEF IsRecursion
  <2> QED
    BY <2>2
<1>2. CASE a <= b
  <2>1. a \in A
    <3> DEFINE g == [i \in a .. a |-> base]
    <3>1. \A i \in a .. a : i = a
      OBVIOUS
    <3>2. g \in [a .. a -> V] /\ IsRecursion(g, a, a, base, op)
      BY <3>1 DEF IsRecursion
    <3>3. a \in a .. b
      BY <1>2
    <3> QED
      BY <3>2, <3>3
  <2>2. ASSUME NEW i \in a .. (b - 1), i \in A PROVE i + 1 \in A
    <3>1. PICK g \in [a .. i -> V] : IsRecursion(g, a, i, base, op)
      BY <2>2
    <3> DEFINE h == [j \in a .. (i + 1) |->
                       IF j = i + 1 THEN op[<<g[i], i + 1>>] ELSE g[j]]
    <3>2. i + 1 \in (a + 1) .. b /\ i \in a .. i /\ i + 1 \in a .. b /\ i + 1 # a
      OBVIOUS
    <3>3. op[<<g[i], i + 1>>] \in V
      BY <3>2
    <3>4. \A j \in a .. (i + 1) : j # i + 1 => j \in a .. i
      OBVIOUS
    <3>5. h \in [a .. (i + 1) -> V]
      BY <3>3, <3>4
    <3>6. ASSUME NEW j \in a .. (i + 1)
          PROVE  h[j] = IF j = a THEN base ELSE op[<<h[j - 1], j>>]
      <4>1. CASE j = i + 1
        <5>1. h[j] = op[<<g[i], i + 1>>] /\ j - 1 = i
          BY <4>1
        <5>2. h[i] = g[i]
          BY <3>2
        <5> QED
          BY <3>2, <4>1, <5>1, <5>2
      <4>2. CASE j # i + 1
        <5>1. j \in a .. i /\ h[j] = g[j]
          BY <3>4, <4>2
        <5>2. g[j] = IF j = a THEN base ELSE op[<<g[j - 1], j>>]
          BY <3>1, <5>1 DEF IsRecursion
        <5>3. j # a => h[j - 1] = g[j - 1]
          <6>1. j # a => j - 1 \in a .. (i + 1) /\ j - 1 # i + 1
            BY <5>1
          <6> QED
            BY <6>1
        <5> HIDE DEF h
        <5> QED
          BY <5>1, <5>2, <5>3
      <4> QED
        BY <4>1, <4>2
    <3>7. IsRecursion(h, a, i + 1, base, op)
      <4> HIDE DEF h
      <4> QED
        BY <3>5, <3>6 DEF IsRecursion
    <3> HIDE DEF h
    <3> QED
      BY <3>2, <3>5, <3>7
  <2>3. a .. b \subseteq A
    <3> HIDE DEF A
    <3> QED
      BY <2>1, <2>2, IntervalInduction
  <2>4. b \in a .. b
    BY <1>2
  <2> QED
    BY <2>3, <2>4
<1> QED
  BY <1>1, <1>2

(* The number of members of S up to y.                                      *)
RankOf(S, y) == Cardinality({x \in S : x <= y})

LEMMA RanksIncrease ==
    ASSUME NEW S \in SUBSET Nat, IsFiniteSet(S)
    PROVE  /\ \A y \in S : RankOf(S, y) \in 1 .. Cardinality(S)
           /\ \A y, z \in S : y < z => RankOf(S, y) < RankOf(S, z)
<1> DEFINE U(y) == {x \in S : x <= y}
<1>1. Cardinality(S) \in Nat
  BY FS_CardinalityType
<1>2. \A y : /\ U(y) \in SUBSET S /\ IsFiniteSet(U(y)) /\ Cardinality(U(y)) <= Cardinality(S)
             /\ Cardinality(U(y)) \in Nat
  BY FS_Subset, FS_CardinalityType
<1>3. ASSUME NEW y \in S PROVE RankOf(S, y) \in 1 .. Cardinality(S)
  <2>1. y \in U(y) /\ y \in Nat
    OBVIOUS
  <2>2. Cardinality(U(y)) # 0
    <3>1. IsFiniteSet(U(y)) /\ U(y) # {}
      BY <1>2, <2>1
    <3> HIDE DEF U
    <3> QED
      BY <3>1, FS_EmptySet
  <2> QED
    BY <1>1, <1>2, <2>2 DEF RankOf
<1>4. ASSUME NEW y \in S, NEW z \in S, y < z PROVE RankOf(S, y) < RankOf(S, z)
  <2>1. U(y) \in SUBSET U(z) /\ z \in U(z) /\ z \notin U(y)
    <3>1. y \in Nat /\ z \in Nat /\ \A x \in S : x \in Nat
      OBVIOUS
    <3>2. \A x \in S : x <= y => x <= z
      BY <1>4, <3>1
    <3>3. z <= z /\ ~(z <= y)
      BY <1>4, <3>1
    <3> QED
      BY <3>2, <3>3
  <2>2. IsFiniteSet(U(z)) /\ Cardinality(U(y)) \in Nat /\ Cardinality(U(z)) \in Nat
    BY <1>2
  <2>3. Cardinality(U(y)) <= Cardinality(U(z)) /\ Cardinality(U(y)) # Cardinality(U(z))
    <3> HIDE DEF U
    <3> QED
      BY <2>1, <2>2, FS_Subset
  <2> QED
    BY <2>2, <2>3 DEF RankOf
<1> QED
  BY <1>3, <1>4

(* Ascending lists the members of a finite set, each once, in ascending     *)
(* order.                                                                   *)
Lists(A, S) ==
    /\ A \in [1 .. Cardinality(S) -> S]
    /\ \A i, j \in 1 .. Cardinality(S) : i < j => A[i] < A[j]
    /\ \A x \in S : \E k \in 1 .. Cardinality(S) : A[k] = x

LEMMA AscendingLists ==
    ASSUME NEW S \in SUBSET Nat, IsFiniteSet(S)
    PROVE  Lists(Ascending(S), S)
<1> DEFINE n == Cardinality(S)
           rank == [y \in S |-> RankOf(S, y)]
           A == Ascending(S)
<1>1. n \in Nat
  BY FS_CardinalityType
<1>2. /\ \A y \in S : RankOf(S, y) \in 1 .. n
      /\ \A y, z \in S : y < z => RankOf(S, y) < RankOf(S, z)
  BY RanksIncrease
<1>3. rank \in Injection(S, 1 .. n)
  <2>1. rank \in [S -> 1 .. n]
    BY <1>2
  <2>2. ASSUME NEW y \in S, NEW z \in S, rank[y] = rank[z] PROVE y = z
    <3>1. y \in Nat /\ z \in Nat /\ rank[y] \in 1 .. n /\ rank[z] \in 1 .. n
      BY <2>1
    <3>2. ~(y < z) /\ ~(z < y)
      BY <1>2, <2>2, <3>1
    <3> QED
      BY <3>1, <3>2
  <2> HIDE DEF rank
  <2> QED
    BY <2>1, <2>2 DEF Injection, IsInjective
<1>4. rank \in Surjection(S, 1 .. n)
  <2>1. IsFiniteSet(1 .. n) /\ Cardinality(1 .. n) = n
    <3>1. 1 \in Int /\ n \in Int
      BY <1>1
    <3>2. IsFiniteSet(1 .. n) /\ Cardinality(1 .. n) = IF 1 > n THEN 0 ELSE n - 1 + 1
      BY <3>1, FS_Interval
    <3> QED
      BY <1>1, <3>2
  <2> HIDE DEF rank
  <2> QED
    BY <1>3, <2>1, FS_Injection DEF n
<1>5. \A k \in 1 .. n : \E y \in S : rank[y] = k
  <2> HIDE DEF rank
  <2> QED
    BY <1>4 DEF Surjection
<1>6. \A y \in S : {x \in S : [v \in S |-> v][x] < [v \in S |-> v][y]
                        \/ ([v \in S |-> v][x] = [v \in S |-> v][y] /\ x <= y)}
                   = {x \in S : x <= y}
  <2> SUFFICES ASSUME NEW y \in S, NEW x \in S
               PROVE  ([v \in S |-> v][x] < [v \in S |-> v][y]
                         \/ ([v \in S |-> v][x] = [v \in S |-> v][y] /\ x <= y))
                      <=> x <= y
    OBVIOUS
  <2>1. [v \in S |-> v][x] = x /\ [v \in S |-> v][y] = y
    OBVIOUS
  <2>2. x \in Nat /\ y \in Nat
    OBVIOUS
  <2>3. (x < y \/ (x = y /\ x <= y)) <=> x <= y
    BY <2>2
  <2> QED
    BY <2>1, <2>3, Zenon
<1>7. ASSUME NEW k \in 1 .. n PROVE A[k] = CHOOSE y \in S : rank[y] = k
  <2>1. A[k] = CHOOSE y \in S : Cardinality({x \in S :
                 [v \in S |-> v][x] < [v \in S |-> v][y]
                        \/ ([v \in S |-> v][x] = [v \in S |-> v][y] /\ x <= y)}) = k
    BY DEF Ascending, InOrder
  <2>2. \A y \in S : Cardinality({x \in S :
                 [v \in S |-> v][x] < [v \in S |-> v][y]
                        \/ ([v \in S |-> v][x] = [v \in S |-> v][y] /\ x <= y)}) = rank[y]
    BY <1>6 DEF RankOf
  <2> QED
    BY <2>1, <2>2
<1>8. \A k \in 1 .. n : A[k] \in S /\ rank[A[k]] = k
  <2> HIDE DEF A, rank
  <2> QED
    BY <1>5, <1>7
<1>9. A \in [1 .. n -> S]
  <2> DEFINE key == [x \in S |-> x]
             pick(k) == CHOOSE y \in S :
                Cardinality({x \in S : key[x] < key[y] \/ (key[x] = key[y] /\ x <= y)}) = k
  <2>0. A = [k \in 1 .. n |-> pick(k)]
    BY DEF Ascending, InOrder
  <2> HIDE DEF pick, A
  <2>1. A = [k \in 1 .. n |-> A[k]]
    BY <2>0
  <2> QED
    BY <1>8, <2>1
<1>10. ASSUME NEW i \in 1 .. n, NEW j \in 1 .. n, i < j PROVE A[i] < A[j]
  <2>1. A[i] \in S /\ A[j] \in S /\ RankOf(S, A[i]) = i /\ RankOf(S, A[j]) = j
    BY <1>8
  <2> HIDE DEF A
  <2>2. A[i] \in Nat /\ A[j] \in Nat
    BY ONLY <2>1, S \in SUBSET Nat
  <2>0. i \in Nat /\ j \in Nat
    OBVIOUS
  <2>3. ~(A[j] < A[i]) /\ A[i] # A[j]
    BY <1>2, <1>10, <2>0, <2>1, <2>2
  <2> QED
    BY ONLY <2>2, <2>3
<1>11. ASSUME NEW x \in S PROVE A[rank[x]] = x
  <2>1. rank[x] \in 1 .. n
    BY <1>2
  <2>2. A[rank[x]] \in S /\ rank[A[rank[x]]] = rank[x]
    <3> HIDE DEF A, rank
    <3> QED
      BY <1>8, <2>1
  <2> HIDE DEF A, rank
  <2> QED
    BY <1>3, <2>2 DEF Injection, IsInjective
<1>12. \A x \in S : rank[x] \in 1 .. n
  BY <1>2
<1> HIDE DEF A, rank
<1> QED
  BY <1>9, <1>10, <1>11, <1>12 DEF Lists, A

-----------------------------------------------------------------------------

(* The first n ranges of s follow one another from first to last.           *)
InARow(s, n, first, last) ==
    /\ n \in Nat \ {0}
    /\ \A k \in 1 .. n : /\ s[k].start_line \in Int /\ s[k].end_line \in Int
                         /\ s[k].start_line <= s[k].end_line
    /\ s[1].start_line = first
    /\ s[n].end_line = last
    /\ \A k \in 1 .. (n - 1) : s[k + 1].start_line = s[k].end_line + 1

(* Each of the ranges of s ends before the later ones begin.                *)
Apart(s, n) ==
    /\ \A k \in 1 .. n : /\ s[k].start_line \in Int /\ s[k].end_line \in Int
                         /\ s[k].start_line <= s[k].end_line
    /\ \A i, j \in 1 .. n : i < j => s[i].end_line < s[j].start_line

LEMMA RowsCover ==
    ASSUME NEW s, NEW n, NEW first \in Int, NEW last \in Int, InARow(s, n, first, last)
    PROVE  /\ Apart(s, n)
           /\ \A k \in 1 .. n : first <= s[k].start_line /\ s[k].end_line <= last
           /\ \A line \in first .. last : \E k \in 1 .. n : Covers(s[k], line)
<1>1. /\ n \in Nat \ {0}
      /\ \A k \in 1 .. n : /\ s[k].start_line \in Int /\ s[k].end_line \in Int
                           /\ s[k].start_line <= s[k].end_line
      /\ s[1].start_line = first /\ s[n].end_line = last
      /\ \A k \in 1 .. (n - 1) : s[k + 1].start_line = s[k].end_line + 1
  BY DEF InARow
<1>2. ASSUME NEW i \in 1 .. n, NEW j \in 1 .. n, i < j
      PROVE  s[i].end_line < s[j].start_line
  <2> DEFINE A == {k \in 1 .. n : s[i].end_line < s[k].start_line}
  <2>1. i + 1 \in A
    <3>1. i \in 1 .. (n - 1) /\ i + 1 \in 1 .. n
      BY <1>1, <1>2
    <3> QED
      BY <1>1, <3>1
  <2>2. ASSUME NEW k \in (i + 1) .. (n - 1), k \in A PROVE k + 1 \in A
    <3>1. k \in 1 .. (n - 1) /\ k + 1 \in 1 .. n /\ k \in 1 .. n
      BY <1>1
    <3>2. s[k + 1].start_line = s[k].end_line + 1 /\ s[k].start_line <= s[k].end_line
      BY <1>1, <3>1
    <3>3. /\ s[i].end_line \in Int /\ s[k].start_line \in Int /\ s[k].end_line \in Int
          /\ s[i].end_line < s[k].start_line
      BY <1>1, <2>2, <3>1
    <3>4. s[i].end_line < s[k + 1].start_line
      BY ONLY <3>2, <3>3
    <3> QED
      BY <3>1, <3>4
  <2>3. i + 1 \in Int /\ n \in Int
    BY <1>1
  <2>4. (i + 1) .. n \subseteq A
    <3> HIDE DEF A
    <3> QED
      BY <2>1, <2>2, <2>3, IntervalInduction
  <2>5. j \in (i + 1) .. n
    BY <1>1, <1>2
  <2> QED
    BY <2>4, <2>5
<1>3. ASSUME NEW k \in 1 .. n PROVE first <= s[k].start_line /\ s[k].end_line <= last
  <2>0. 1 \in 1 .. n /\ n \in 1 .. n /\ k \in Nat /\ n \in Nat
    BY <1>1
  <2>1. CASE k = 1 /\ k = n
    BY <1>1, <2>1
  <2>2. CASE k # 1 \/ k # n
    <3>1. k # 1 => s[1].end_line < s[k].start_line
      BY <1>2, <2>0
    <3>2. k # n => s[k].end_line < s[n].start_line
      BY <1>2, <2>0
    <3> QED
      BY <1>1, <2>0, <3>1, <3>2
  <2> QED
    BY <2>1, <2>2
<1>4. ASSUME NEW line \in first .. last PROVE \E k \in 1 .. n : Covers(s[k], line)
  <2> DEFINE A == {k \in 1 .. n : \A l \in first .. s[k].end_line :
                                    \E i \in 1 .. n : Covers(s[i], l)}
  <2>0. 1 \in 1 .. n /\ n \in 1 .. n /\ 1 \in Int /\ n \in Int
    BY <1>1
  <2>1. 1 \in A
    <3>1. \A l \in first .. s[1].end_line : Covers(s[1], l)
      BY <1>1, <2>0 DEF Covers
    <3> QED
      BY <2>0, <3>1
  <2>2. ASSUME NEW k \in 1 .. (n - 1), k \in A PROVE k + 1 \in A
    <3>1. k \in 1 .. n /\ k + 1 \in 1 .. n
      BY <1>1
    <3>2. s[k + 1].start_line = s[k].end_line + 1 /\ s[k + 1].end_line \in Int
          /\ s[k].end_line \in Int
      BY <1>1, <3>1
    <3>3. ASSUME NEW l \in first .. s[k + 1].end_line
          PROVE  \E i \in 1 .. n : Covers(s[i], l)
      <4>1. CASE l <= s[k].end_line
        <5>1. l \in first .. s[k].end_line
          BY <3>2, <4>1
        <5> QED
          BY <2>2, <5>1
      <4>2. CASE ~(l <= s[k].end_line)
        <5>1. Covers(s[k + 1], l)
          BY <3>2, <4>2 DEF Covers
        <5> QED
          BY <3>1, <5>1
      <4> QED
        BY <4>1, <4>2
    <3> QED
      BY <3>1, <3>3
  <2>3. 1 .. n \subseteq A
    <3> HIDE DEF A
    <3> QED
      BY <2>0, <2>1, <2>2, IntervalInduction
  <2>4. n \in A
    BY <2>0, <2>3
  <2> QED
    BY <1>1, <2>4
<1> QED
  BY <1>1, <1>2, <1>3, <1>4 DEF Apart

LineSpan == [start_line : Int, end_line : Int]

(* The pieces between the cuts follow one another and are not cut.          *)
LEMMA PiecesInARow ==
    ASSUME NEW a \in Nat, NEW b \in Nat, a <= b, NEW cuts \in SUBSET ((a + 1) .. b)
    PROVE  LET P == Pieces(a, b, cuts)
               n == Cardinality({a} \cup cuts)
           IN  /\ DOMAIN P = 1 .. n /\ InARow(P, n, a, b)
               /\ P \in Seq(LineSpan) /\ Len(P) = n
               /\ \A k \in 1 .. n : P[k].start_line \in {a} \cup cuts
               /\ \A k \in 1 .. n : \A c \in cuts :
                     ~(P[k].start_line < c /\ c <= P[k].end_line)
<1> DEFINE S == {a} \cup cuts
           n == Cardinality(S)
           A == Ascending(S)
           P == Pieces(a, b, cuts)
<1>1. S \in SUBSET Nat /\ \A x \in S : a <= x /\ x <= b
  OBVIOUS
<1>2. IsFiniteSet(S)
  <2> HIDE DEF S
  <2> QED
    BY <1>1, FS_BoundedSetOfNaturals
<1>3. Lists(A, S)
  <2> HIDE DEF S
  <2> QED
    BY <1>1, <1>2, AscendingLists
<1>4. /\ A \in [1 .. n -> S]
      /\ \A i, j \in 1 .. n : i < j => A[i] < A[j]
      /\ \A x \in S : \E k \in 1 .. n : A[k] = x
  BY <1>3 DEF Lists
<1>5. n \in Nat
  <2> HIDE DEF S
  <2> QED
    BY <1>2, FS_CardinalityType
<1>6. P = [k \in 1 .. n |-> [start_line |-> A[k],
                             end_line |-> IF k = n THEN b ELSE A[k + 1] - 1]]
  BY DEF Pieces
<1>S. a \in S /\ cuts \subseteq S /\ S = {a} \cup cuts
  OBVIOUS
<1> HIDE DEF S, A, P, n
<1>7. n # 0 /\ A[1] = a
  <2>1. PICK k \in 1 .. n : A[k] = a
    BY <1>4, <1>S
  <2>2. n # 0 /\ 1 \in 1 .. n /\ k \in Nat
    BY <1>5
  <2>3. A[1] \in S /\ A[1] \in Nat
    BY <1>1, <1>4, <2>2
  <2>4. k = 1
    <3>1. k # 1 => A[1] < A[k]
      BY <1>4, <2>2
    <3> QED
      BY <1>1, <2>1, <2>3, <3>1
  <2> QED
    BY <2>1, <2>2, <2>4
<1>8. \A k \in 1 .. n : A[k] \in S /\ A[k] \in Nat /\ a <= A[k] /\ A[k] <= b
  BY <1>1, <1>4
<1>9. \A k \in 1 .. (n - 1) : k \in 1 .. n /\ k # n /\ k + 1 \in 1 .. n /\ k < k + 1
  BY <1>5
<1>10. \A k \in 1 .. n : k # n => k \in 1 .. (n - 1)
  BY <1>5
<1>11. \A k \in 1 .. n :
          /\ P[k].start_line = A[k]
          /\ P[k].end_line = IF k = n THEN b ELSE A[k + 1] - 1
          /\ P[k] \in LineSpan
          /\ P[k].start_line <= P[k].end_line
  <2> SUFFICES ASSUME NEW k \in 1 .. n
               PROVE  /\ P[k].start_line = A[k]
                      /\ P[k].end_line = IF k = n THEN b ELSE A[k + 1] - 1
                      /\ P[k] \in LineSpan
                      /\ P[k].start_line <= P[k].end_line
    OBVIOUS
  <2>1. P[k] = [start_line |-> A[k], end_line |-> IF k = n THEN b ELSE A[k + 1] - 1]
    BY <1>6
  <2>2. A[k] \in Nat /\ A[k] <= b
    BY <1>8
  <2>3. k # n => A[k + 1] \in Nat /\ A[k] < A[k + 1]
    BY <1>4, <1>8, <1>9, <1>10
  <2> QED
    BY <2>1, <2>2, <2>3 DEF LineSpan
<1>12. DOMAIN P = 1 .. n
  BY <1>6
<1>13. P \in Seq(LineSpan) /\ Len(P) = n
  <2>1. P \in [1 .. n -> LineSpan]
    BY <1>6, <1>11
  <2> QED
    BY ONLY <1>5, <2>1
<1>14. InARow(P, n, a, b)
  <2>1. 1 \in 1 .. n /\ n \in 1 .. n
    BY <1>5, <1>7
  <2>2. \A k \in 1 .. (n - 1) : P[k + 1].start_line = P[k].end_line + 1
    <3> SUFFICES ASSUME NEW k \in 1 .. (n - 1) PROVE P[k + 1].start_line = P[k].end_line + 1
      OBVIOUS
    <3>1. k \in 1 .. n /\ k # n /\ k + 1 \in 1 .. n
      BY <1>9
    <3>2. P[k + 1].start_line = A[k + 1] /\ P[k].end_line = A[k + 1] - 1 /\ A[k + 1] \in Nat
      BY <1>8, <1>11, <3>1
    <3> QED
      BY <3>2
  <2> QED
    BY <1>5, <1>7, <1>11, <2>1, <2>2 DEF InARow, LineSpan
<1>15. ASSUME NEW k \in 1 .. n, NEW c \in cuts, P[k].start_line < c, c <= P[k].end_line
       PROVE  FALSE
  <2>1. PICK j \in 1 .. n : A[j] = c
    BY <1>4, <1>S
  <2>2. c \in Nat /\ k \in Nat /\ j \in Nat /\ A[k] \in Nat /\ A[k] < c
    BY <1>8, <1>11, <1>15, <2>1
  <2>3. k < j
    <3>1. ~(j < k) /\ j # k
      <4>1. j < k => A[j] < A[k]
        BY <1>4
      <4> QED
        BY <2>1, <2>2, <4>1
    <3> QED
      BY <2>2, <3>1
  <2>4. k # n /\ k + 1 \in 1 .. n
    BY <2>3, <1>5
  <2>5. A[k + 1] <= A[j]
    <3>1. k + 1 = j \/ k + 1 < j
      BY <2>2, <2>3
    <3>2. k + 1 < j => A[k + 1] < A[j]
      BY <1>4, <2>4
    <3> QED
      BY <1>8, <2>4, <3>1, <3>2
  <2>6. c <= A[k + 1] - 1 /\ A[k + 1] \in Nat
    BY <1>8, <1>11, <1>15, <2>4
  <2> QED
    BY <2>1, <2>2, <2>5, <2>6
<1> QED
  BY <1>8, <1>11, <1>12, <1>13, <1>14, <1>15, <1>S DEF P, n

-----------------------------------------------------------------------------
(* The sizes of texts and the greedy cuts.                                  *)

LEMMA TextGrows ==
    ASSUME NEW f \in Files, NEW p \in 1 .. Len(f.lines)
    PROVE  /\ TextSize(f, p, p) = f.lines[p].len
           /\ \A q \in p .. Len(f.lines) : TextSize(f, p, q) \in Nat
           /\ \A q \in p .. (Len(f.lines) - 1) :
                 TextSize(f, p, q + 1) = TextSize(f, p, q) + 1 + f.lines[q + 1].len
<1> DEFINE N == Len(f.lines)
           len(i) == f.lines[i].len
           upto(q) == CHOOSE g : g = [i \in p .. q |->
                          len(i) + (IF i = p THEN 0 ELSE g[i - 1] + 1)]
<1>1. N \in Nat /\ \A i \in 1 .. N : len(i) \in Nat
  BY ChunkerAssumption
<1>2. \A q \in p .. N : TextSize(f, p, q) = upto(q)[q]
  <2>1. \A q \in p .. N : ~(p > q)
    OBVIOUS
  <2> QED
    BY <2>1 DEF TextSize
<1> HIDE DEF len
<1>3. ASSUME NEW q \in p .. N
      PROVE  /\ upto(q) = [i \in p .. q |-> len(i) + (IF i = p THEN 0 ELSE upto(q)[i - 1] + 1)]
             /\ \A i \in p .. q : upto(q)[i] \in Nat
  <2> DEFINE op == [x \in Nat \X ((p + 1) .. q) |-> len(x[2]) + (x[1] + 1)]
  <2>1. p \in Int /\ q \in Int /\ len(p) \in Nat
    BY <1>1
  <2>2. op \in [Nat \X ((p + 1) .. q) -> Nat]
    <3>1. \A i \in (p + 1) .. q : len(i) \in Nat
      BY <1>1
    <3> QED
      BY <3>1
  <2>3. PICK g \in [p .. q -> Nat] : IsRecursion(g, p, q, len(p), op)
    <3> HIDE DEF op
    <3> QED
      BY <2>1, <2>2, RecursionExists
  <2>4. \A i \in p .. q : g[i] = len(i) + (IF i = p THEN 0 ELSE g[i - 1] + 1)
    <3> SUFFICES ASSUME NEW i \in p .. q
                 PROVE  g[i] = len(i) + (IF i = p THEN 0 ELSE g[i - 1] + 1)
      OBVIOUS
    <3>1. g[i] = IF i = p THEN len(p) ELSE op[<<g[i - 1], i>>]
      <4> HIDE DEF op
      <4> QED
        BY <2>3 DEF IsRecursion
    <3>2. CASE i = p
      BY <2>1, <3>1, <3>2
    <3>3. CASE i # p
      <4>1. i - 1 \in p .. q /\ i \in (p + 1) .. q
        BY <3>3
      <4>2. g[i - 1] \in Nat
        BY <4>1
      <4> QED
        BY <3>1, <3>3, <4>1, <4>2
    <3> QED
      BY <3>2, <3>3
  <2>5. g = [i \in p .. q |-> len(i) + (IF i = p THEN 0 ELSE g[i - 1] + 1)]
    BY <2>4
  <2>6. upto(q) = [i \in p .. q |-> len(i) + (IF i = p THEN 0 ELSE upto(q)[i - 1] + 1)]
    BY <2>5, Zenon
  <2> DEFINE A == {i \in p .. q : upto(q)[i] \in Nat}
  <2> HIDE DEF upto
  <2>7. p .. q \subseteq A
    <3>1. p \in A
      <4>1. p \in p .. q
        OBVIOUS
      <4>2. upto(q)[p] = len(p) + 0
        BY <2>6, <4>1
      <4> QED
        BY <2>1, <4>1, <4>2
    <3>2. ASSUME NEW i \in p .. (q - 1), i \in A PROVE i + 1 \in A
      <4>1. i + 1 \in p .. q /\ i + 1 # p /\ (i + 1) - 1 = i
        OBVIOUS
      <4>2. upto(q)[i + 1] = len(i + 1) + (upto(q)[i] + 1)
        BY <2>6, <4>1
      <4>3. len(i + 1) \in Nat
        BY <1>1
      <4> QED
        BY <3>2, <4>1, <4>2, <4>3
    <3> HIDE DEF A
    <3> QED
      BY <2>1, <3>1, <3>2, IntervalInduction
  <2> QED
    BY <2>6, <2>7
<1> HIDE DEF upto
<1>4. TextSize(f, p, p) = len(p)
  <2>1. p \in p .. N /\ p \in p .. p
    BY <1>1
  <2>2. upto(p)[p] = len(p) + 0
    BY <1>3, <2>1
  <2> QED
    BY <1>1, <1>2, <2>1, <2>2
<1>5. ASSUME NEW q \in p .. N PROVE TextSize(f, p, q) \in Nat
  <2>1. q \in p .. q
    OBVIOUS
  <2> QED
    BY <1>2, <1>3, <2>1
<1>6. ASSUME NEW q \in p .. (N - 1)
      PROVE  TextSize(f, p, q + 1) = TextSize(f, p, q) + 1 + len(q + 1)
  <2>0. q \in p .. N /\ q + 1 \in p .. N /\ p \in Int /\ q \in Int
    BY <1>1
  <2> DEFINE u == upto(q)
             v == upto(q + 1)
             A == {i \in p .. q : u[i] = v[i]}
  <2>1. /\ u = [i \in p .. q |-> len(i) + (IF i = p THEN 0 ELSE u[i - 1] + 1)]
        /\ v = [i \in p .. (q + 1) |-> len(i) + (IF i = p THEN 0 ELSE v[i - 1] + 1)]
        /\ \A i \in p .. q : u[i] \in Nat
    BY <1>3, <2>0
  <2> HIDE DEF u, v
  <2>2. p .. q \subseteq A
    <3>1. p \in A
      <4>1. p \in p .. q /\ p \in p .. (q + 1)
        BY <2>0
      <4> QED
        BY <2>1, <4>1
    <3>2. ASSUME NEW i \in p .. (q - 1), i \in A PROVE i + 1 \in A
      <4>1. i + 1 \in p .. q /\ i + 1 \in p .. (q + 1) /\ i + 1 # p /\ (i + 1) - 1 = i
        BY <2>0
      <4> QED
        BY <2>1, <3>2, <4>1
    <3> HIDE DEF A
    <3> QED
      BY <2>0, <3>1, <3>2, IntervalInduction
  <2>3. q \in p .. q /\ q + 1 \in p .. (q + 1) /\ q + 1 # p /\ (q + 1) - 1 = q
    BY <2>0
  <2>4. v[q + 1] = len(q + 1) + (u[q] + 1)
    BY <2>1, <2>2, <2>3
  <2>5. TextSize(f, p, q) = u[q] /\ TextSize(f, p, q + 1) = v[q + 1]
    BY <1>2, <2>0 DEF u, v
  <2>6. len(q + 1) \in Nat /\ u[q] \in Nat
    <3>1. q + 1 \in 1 .. N
      BY <1>1
    <3> QED
      BY <1>1, <2>1, <2>3, <3>1
  <2> QED
    BY ONLY <2>4, <2>5, <2>6
<1> QED
  BY <1>4, <1>5, <1>6 DEF len

(* A piece between two cuts is within the target or a single line.          *)
Fits(f, a, b, cuts) ==
    \A p \in {a} \cup cuts : \A q \in p .. b :
        (\A c \in cuts : ~(p < c /\ c <= q)) => TextSize(f, p, q) <= f.target_size \/ p = q

(* The size the scan holds is that of the text since the last cut and the   *)
(* newline after it.                                                        *)
Measures(f, a, s, i) ==
    \E p \in {a} \cup s.cuts : /\ \A c \in s.cuts : c <= p
                               /\ s.size = TextSize(f, p, i) + 1

ScanInv(f, a, b, allowed, s, i) ==
    /\ s \in [size : Nat, cuts : SUBSET ((a + 1) .. i)]
    /\ i < a => s.size = 0
    /\ i >= a => s.size > 0
    /\ a .. b \subseteq allowed /\ i >= a => Measures(f, a, s, i) /\ Fits(f, a, i, s.cuts)

LEMMA ScanFirst ==
    ASSUME NEW f \in Files, NEW a \in 1 .. Len(f.lines), NEW b, NEW allowed,
           NEW s, ScanInv(f, a, b, allowed, s, a - 1)
    PROVE  ScanInv(f, a, b, allowed, ScanLine(f, allowed, s, a), a)
<1> DEFINE t == ScanLine(f, allowed, s, a)
<1>1. f.lines[a].len \in Nat /\ a \in Nat /\ f.target_size \in Nat
  BY ChunkerAssumption
<1>2. s.size = 0 /\ s.cuts = {}
  BY <1>1 DEF ScanInv
<1>3. t = [size |-> f.lines[a].len + 1, cuts |-> {}]
  <2>1. ~(s.size > 0) /\ s.size + (f.lines[a].len + 1) = f.lines[a].len + 1
    BY <1>1, <1>2
  <2> QED
    BY <1>2, <2>1, Zenon DEF ScanLine
<1>4. TextSize(f, a, a) = f.lines[a].len
  BY TextGrows
<1> HIDE DEF t
<1>5. Measures(f, a, t, a)
  BY <1>3, <1>4 DEF Measures
<1>6. Fits(f, a, a, t.cuts)
  <2>1. \A q \in a .. a : q = a
    BY <1>1
  <2>2. t.cuts = {}
    BY <1>3
  <2> QED
    BY <2>1, <2>2 DEF Fits
<1> QED
  BY <1>1, <1>3, <1>5, <1>6 DEF ScanInv, t

LEMMA ScanNext ==
    ASSUME NEW f \in Files, NEW a \in 1 .. Len(f.lines), NEW b \in a .. Len(f.lines),
           NEW allowed, NEW i \in a .. (b - 1), NEW s, ScanInv(f, a, b, allowed, s, i)
    PROVE  ScanInv(f, a, b, allowed, ScanLine(f, allowed, s, i + 1), i + 1)
<1> DEFINE j == i + 1
           t == ScanLine(f, allowed, s, j)
           size == f.lines[j].len + 1
           cut == s.size + size > f.target_size /\ j \in allowed
<1>1. /\ f.lines[j].len \in Nat /\ size \in Nat /\ a \in Nat /\ i \in Nat /\ b \in Nat
      /\ f.target_size \in Nat /\ j \in 1 .. Len(f.lines) /\ Len(f.lines) \in Nat
      /\ i \in 1 .. (Len(f.lines) - 1) /\ j \in a .. b
  <2>1. Len(f.lines) \in Nat /\ f.target_size \in Nat
        /\ \A k \in 1 .. Len(f.lines) : f.lines[k].len \in Nat
    BY ChunkerAssumption
  <2>2. j \in 1 .. Len(f.lines) /\ i \in 1 .. (Len(f.lines) - 1) /\ j \in a .. b
        /\ a \in Nat /\ i \in Nat /\ b \in Nat
    BY <2>1
  <2> QED
    BY <2>1, <2>2
<1>2. s.size \in Nat /\ s.size > 0 /\ s.cuts \in SUBSET ((a + 1) .. i)
  BY DEF ScanInv
<1>3. t = [size |-> IF cut THEN size ELSE s.size + size,
           cuts |-> IF cut THEN s.cuts \cup {j} ELSE s.cuts]
  BY <1>2 DEF ScanLine
<1>j. j = i + 1 /\ size = f.lines[j].len + 1
  OBVIOUS
<1>c. cut <=> s.size + size > f.target_size /\ j \in allowed
  OBVIOUS
<1>t. t = ScanLine(f, allowed, s, i + 1)
  OBVIOUS
<1> HIDE DEF j, size, cut, t
<1>4. t \in [size : Nat, cuts : SUBSET ((a + 1) .. j)] /\ t.size > 0
  <2>1. s.cuts \in SUBSET ((a + 1) .. j) /\ j \in (a + 1) .. j
    BY <1>1, <1>2, <1>j
  <2>2. s.size + size \in Nat /\ s.size + size > 0 /\ size > 0
    <3>1. f.lines[j].len \in Nat /\ s.size \in Nat
      BY <1>1, <1>2
    <3>2. size \in Nat /\ size > 0
      BY ONLY <1>j, <3>1
    <3> QED
      BY ONLY <3>1, <3>2
  <2> QED
    BY <1>1, <1>3, <2>1, <2>2
<1>5. ASSUME a .. b \subseteq allowed PROVE Measures(f, a, t, j) /\ Fits(f, a, j, t.cuts)
  <2>0. Measures(f, a, s, i) /\ Fits(f, a, i, s.cuts) /\ j \in allowed
    BY <1>1, <1>5 DEF ScanInv
  <2>1. PICK last \in {a} \cup s.cuts : /\ \A c \in s.cuts : c <= last
                                        /\ s.size = TextSize(f, last, i) + 1
    BY <2>0 DEF Measures
  <2>2. \A p \in {a} \cup s.cuts : p \in Nat /\ a <= p /\ p <= i /\ p \in 1 .. Len(f.lines)
    BY <1>1, <1>2
  <2>3. /\ TextSize(f, last, i) \in Nat
        /\ TextSize(f, last, j) = TextSize(f, last, i) + size
    <3>1. last \in 1 .. Len(f.lines) /\ i \in last .. Len(f.lines)
          /\ i \in last .. (Len(f.lines) - 1)
      <4>1. last \in Nat /\ last <= i /\ last \in 1 .. Len(f.lines)
        BY <2>2
      <4> QED
        BY <1>1, <4>1
    <3>2. /\ \A q \in last .. Len(f.lines) : TextSize(f, last, q) \in Nat
          /\ \A q \in last .. (Len(f.lines) - 1) :
                TextSize(f, last, q + 1) = TextSize(f, last, q) + 1 + f.lines[q + 1].len
      BY <3>1, TextGrows
    <3>3. /\ TextSize(f, last, i) \in Nat
          /\ TextSize(f, last, j) = TextSize(f, last, i) + 1 + f.lines[j].len
      BY <3>1, <3>2, <1>j
    <3>4. f.lines[j].len \in Nat
      BY <1>1
    <3> QED
      BY ONLY <1>j, <3>3, <3>4
  <2>4. CASE cut
    <3>1. t = [size |-> size, cuts |-> s.cuts \cup {j}]
      BY <1>3, <2>4
    <3>2. TextSize(f, j, j) + 1 = size
      BY <1>1, <1>j, TextGrows
    <3>3. Measures(f, a, t, j)
      <4>1. \A c \in t.cuts : c <= j
        <5>1. \A c \in s.cuts : c <= j
          BY <1>1, <1>2, <1>j
        <5> QED
          BY <1>1, <3>1, <5>1
      <4>2. j \in t.cuts /\ t.size = TextSize(f, j, j) + 1
        BY <3>1, <3>2
      <4> QED
        BY <4>1, <4>2 DEF Measures
    <3>4. ASSUME NEW p \in {a} \cup t.cuts, NEW q \in p .. j,
                 \A c \in t.cuts : ~(p < c /\ c <= q)
          PROVE  TextSize(f, p, q) <= f.target_size \/ p = q
      <4>1. CASE p = j
        BY <1>1, <4>1
      <4>2. CASE p # j
        <5>1. p \in {a} \cup s.cuts /\ p <= i /\ p \in Nat
          BY <2>2, <3>1, <4>2
        <5>2. q # j
          <6>1. j \in t.cuts /\ p < j
            BY <1>1, <1>j, <3>1, <5>1
          <6> QED
            BY <1>1, <3>4, <6>1
        <5>3. q \in p .. i
          BY <1>1, <1>j, <5>1, <5>2
        <5>4. \A c \in s.cuts : ~(p < c /\ c <= q)
          BY <3>1, <3>4
        <5> QED
          BY <2>0, <5>1, <5>3, <5>4 DEF Fits
      <4> QED
        BY <4>1, <4>2
    <3> QED
      BY <3>3, <3>4 DEF Fits
  <2>5. CASE ~cut
    <3>1. t = [size |-> s.size + size, cuts |-> s.cuts]
      BY <1>3, <2>5
    <3>2. s.size + size <= f.target_size
      BY <1>1, <1>2, <1>c, <2>0, <2>5
    <3>3. Measures(f, a, t, j)
      <4>1. s.size + size = TextSize(f, last, j) + 1
        <5>1. size \in Nat /\ TextSize(f, last, i) \in Nat
          BY <1>1, <2>3
        <5> QED
          BY ONLY <2>1, <2>3, <5>1
      <4>2. t.cuts = s.cuts /\ t.size = TextSize(f, last, j) + 1
        BY <3>1, <4>1
      <4> QED
        BY <2>1, <4>2 DEF Measures
    <3>4. TextSize(f, last, j) <= f.target_size
      <4>1. size \in Nat /\ TextSize(f, last, i) \in Nat /\ f.target_size \in Nat
        BY <1>1, <2>3
      <4> QED
        BY ONLY <2>1, <2>3, <3>2, <4>1
    <3>5. ASSUME NEW p \in {a} \cup t.cuts, NEW q \in p .. j,
                 \A c \in t.cuts : ~(p < c /\ c <= q)
          PROVE  TextSize(f, p, q) <= f.target_size \/ p = q
      <4>0. p \in {a} \cup s.cuts /\ p \in Nat /\ p <= i /\ t.cuts = s.cuts
        BY <2>2, <3>1
      <4>1. CASE q \in p .. i
        BY <2>0, <3>5, <4>0, <4>1 DEF Fits
      <4>2. CASE q \notin p .. i
        <5>1. q = j
          BY <1>1, <1>j, <4>0, <4>2
        <5>2. p <= last
          <6>1. p \in s.cuts => p <= last
            BY <2>1
          <6>2. a <= last
            BY <2>2
          <6> QED
            BY <4>0, <6>1, <6>2
        <5>3. last <= j
          BY <1>1, <1>j, <2>2
        <5>4. ~(p < last)
          <6>1. last \in s.cuts => ~(p < last /\ last <= q)
            BY <3>5, <4>0
          <6>2. last = a => ~(p < last)
            BY <2>2, <4>0
          <6> QED
            BY <5>1, <5>3, <6>1, <6>2
        <5>5. p = last
          BY <2>2, <4>0, <5>2, <5>4
        <5> QED
          BY <3>4, <5>1, <5>5
      <4> QED
        BY <4>1, <4>2
    <3> QED
      BY <3>3, <3>5 DEF Fits
  <2> QED
    BY <2>4, <2>5
<1>6. ~(j < a) /\ j >= a
  BY <1>1
<1> QED
  BY <1>4, <1>5, <1>6, <1>j, <1>t DEF ScanInv

LEMMA CutsFit ==
    ASSUME NEW f \in Files, NEW a \in 1 .. Len(f.lines), NEW b \in a .. Len(f.lines),
           NEW allowed
    PROVE  LET cuts == Cuts(f, a, b, allowed)
           IN  /\ cuts \in SUBSET ((a + 1) .. b)
               /\ a .. b \subseteq allowed => Fits(f, a, b, cuts)
<1> DEFINE V == [size : Nat, cuts : SUBSET Int]
           base == [size |-> 0, cuts |-> {}]
           first == a - 1
           op == [x \in V \X ((first + 1) .. b) |-> ScanLine(f, allowed, x[1], x[2])]
           scan == CHOOSE g : g = [i \in first .. b |->
                       IF i = first THEN base ELSE ScanLine(f, allowed, g[i - 1], i)]
<1>1. /\ a \in Nat /\ b \in Nat /\ Len(f.lines) \in Nat /\ first \in Int /\ first + 1 = a
      /\ f.target_size \in Nat /\ a <= b
      /\ \A i \in 1 .. Len(f.lines) : f.lines[i].len \in Nat
  BY ChunkerAssumption
<1>2. base \in V
  OBVIOUS
<1>3. ASSUME NEW s \in V, NEW i \in a .. b PROVE ScanLine(f, allowed, s, i) \in V
  <2>1. f.lines[i].len \in Nat /\ i \in Int /\ s.size \in Nat /\ s.cuts \in SUBSET Int
    <3>1. i \in 1 .. Len(f.lines)
      BY <1>1
    <3> QED
      BY <1>1, <3>1
  <2>2. s.size + (f.lines[i].len + 1) \in Nat /\ f.lines[i].len + 1 \in Nat
        /\ s.cuts \cup {i} \in SUBSET Int
    BY <2>1
  <2> QED
    BY <2>1, <2>2 DEF ScanLine
<1>4. op \in [V \X ((first + 1) .. b) -> V]
  <2> HIDE DEF V, first
  <2> QED
    BY <1>1, <1>3
<1> HIDE DEF V, base, first
<1>5. PICK g \in [first .. b -> V] : IsRecursion(g, first, b, base, op)
  <2>1. first \in Int /\ b \in Int
    BY <1>1
  <2> HIDE DEF op
  <2> QED
    BY ONLY <1>2, <1>4, <2>1, RecursionExists
<1>6. \A i \in first .. b :
         g[i] = IF i = first THEN base ELSE ScanLine(f, allowed, g[i - 1], i)
  <2> SUFFICES ASSUME NEW i \in first .. b
               PROVE  g[i] = IF i = first THEN base ELSE ScanLine(f, allowed, g[i - 1], i)
    OBVIOUS
  <2>1. g[i] = IF i = first THEN base ELSE op[<<g[i - 1], i>>]
    <3> HIDE DEF op
    <3> QED
      BY <1>5 DEF IsRecursion
  <2>2. CASE i # first
    <3>1. i - 1 \in first .. b /\ i \in (first + 1) .. b
      BY <1>1, <2>2
    <3>2. g[i - 1] \in V
      BY <3>1
    <3> QED
      BY <2>1, <2>2, <3>1, <3>2
  <2> QED
    BY <2>1, <2>2
<1>7. g = [i \in first .. b |-> IF i = first THEN base ELSE ScanLine(f, allowed, g[i - 1], i)]
  BY <1>6
<1>8. scan = [i \in first .. b |->
                 IF i = first THEN base ELSE ScanLine(f, allowed, scan[i - 1], i)]
  <2> HIDE DEF op
  <2> QED
    BY <1>7, Zenon
<1>9. Cuts(f, a, b, allowed) = scan[b].cuts
  BY DEF Cuts, base, first
<1> HIDE DEF scan, op
<1> DEFINE A == {i \in first .. b : ScanInv(f, a, b, allowed, scan[i], i)}
<1>10. first \in A
  <2>1. first \in first .. b /\ first < a /\ ~(first >= a)
    BY <1>1
  <2>2. scan[first] = base
    BY <1>8, <2>1
  <2> QED
    BY <2>1, <2>2 DEF ScanInv, base
<1>11. ASSUME NEW i \in first .. (b - 1), i \in A PROVE i + 1 \in A
  <2>1. i + 1 \in first .. b /\ i + 1 # first /\ (i + 1) - 1 = i
    BY <1>1
  <2>2. scan[i + 1] = ScanLine(f, allowed, scan[i], i + 1)
    BY <1>8, <2>1
  <2>3. CASE i = first
    <3>1. i = a - 1 /\ i + 1 = a
      BY <2>3 DEF first
    <3>2. ScanInv(f, a, b, allowed, scan[i], a - 1)
      BY <1>11, <3>1
    <3>3. ScanInv(f, a, b, allowed, ScanLine(f, allowed, scan[i], a), a)
      BY <3>2, ScanFirst
    <3> QED
      BY <2>1, <2>2, <3>1, <3>3
  <2>4. CASE i # first
    <3>1. i \in a .. (b - 1)
      BY <1>1, <2>4 DEF first
    <3>2. ScanInv(f, a, b, allowed, ScanLine(f, allowed, scan[i], i + 1), i + 1)
      BY <1>11, <3>1, ScanNext
    <3> QED
      BY <2>1, <2>2, <3>2
  <2> QED
    BY <2>3, <2>4
<1>12. first .. b \subseteq A
  <2>1. first \in Int /\ b \in Int
    BY <1>1
  <2> HIDE DEF A
  <2> QED
    BY ONLY <1>10, <1>11, <2>1, IntervalInduction
<1>13. b \in A /\ b >= a
  BY <1>1, <1>12 DEF first
<1> QED
  BY <1>9, <1>13 DEF ScanInv

-----------------------------------------------------------------------------
(* Chunks and pieces of text.                                               *)

HasFields(c) == {"start_line", "end_line", "section", "part", "parts"} \subseteq DOMAIN c

(* The chunks lie apart within first .. last and hold every line with text. *)
HoldText(f, cs, first, last) ==
    /\ Len(cs) \in Nat /\ DOMAIN cs = 1 .. Len(cs)
    /\ \A k \in 1 .. Len(cs) : HasFields(cs[k])
    /\ Apart(cs, Len(cs))
    /\ \A k \in 1 .. Len(cs) : first <= cs[k].start_line /\ cs[k].end_line <= last
    /\ \A line \in first .. last :
          ~f.lines[line].blank => \E k \in 1 .. Len(cs) : Covers(cs[k], line)

(* cs has some of the first n items of all, in their order.                 *)
Selects(cs, all, n) ==
    /\ cs \in Seq({all[k] : k \in 1 .. n}) /\ Len(cs) \in Nat /\ DOMAIN cs = 1 .. Len(cs)
    /\ \E at \in [1 .. Len(cs) -> 1 .. n] :
          /\ \A i, j \in 1 .. Len(cs) : i < j => at[i] < at[j]
          /\ \A k \in 1 .. Len(cs) : cs[k] = all[at[k]]

LEMMA AtSelects ==
    ASSUME NEW n \in Nat, NEW all, NEW I \in SUBSET (1 .. n)
    PROVE  /\ Selects(At(all, I), all, n)
           /\ \A x \in I : \E k \in 1 .. Len(At(all, I)) : At(all, I)[k] = all[x]
           /\ \A k \in 1 .. Len(At(all, I)) : \E x \in I : At(all, I)[k] = all[x]
<1> DEFINE m == Cardinality(I)
           A == Ascending(I)
           cs == At(all, I)
           X == {all[k] : k \in 1 .. n}
<1>1. I \in SUBSET Nat /\ IsFiniteSet(I)
  <2>1. \A x \in I : x \in Nat /\ x <= n
    OBVIOUS
  <2>2. I \in SUBSET Nat
    BY <2>1
  <2> QED
    BY <2>1, <2>2, FS_BoundedSetOfNaturals
<1>2. Lists(A, I) /\ m \in Nat
  BY <1>1, AscendingLists, FS_CardinalityType
<1>3. /\ A \in [1 .. m -> I]
      /\ \A i, j \in 1 .. m : i < j => A[i] < A[j]
      /\ \A x \in I : \E k \in 1 .. m : A[k] = x
  BY <1>2 DEF Lists
<1>4. cs = [k \in 1 .. m |-> all[A[k]]]
  BY DEF At
<1> HIDE DEF m, A, cs
<1>5. A \in [1 .. m -> 1 .. n]
  BY <1>3
<1>6. cs \in [1 .. m -> X]
  BY <1>4, <1>5
<1>7. cs \in Seq(X) /\ Len(cs) = m /\ DOMAIN cs = 1 .. m
  <2> HIDE DEF X
  <2> QED
    BY ONLY <1>2, <1>6
<1>8. \A k \in 1 .. m : cs[k] = all[A[k]]
  BY <1>4
<1>9. Selects(cs, all, n)
  <2>1. \A i, j \in 1 .. Len(cs) : i < j => A[i] < A[j]
    BY <1>3, <1>7
  <2>2. \A k \in 1 .. Len(cs) : cs[k] = all[A[k]]
    BY <1>7, <1>8
  <2>3. A \in [1 .. Len(cs) -> 1 .. n] /\ Len(cs) \in Nat
    BY <1>2, <1>5, <1>7
  <2> QED
    BY <1>7, <2>1, <2>2, <2>3 DEF Selects
<1>10. ASSUME NEW x \in I PROVE \E k \in 1 .. Len(cs) : cs[k] = all[x]
  <2>1. PICK k \in 1 .. m : A[k] = x
    BY <1>3
  <2> QED
    BY <1>7, <1>8, <2>1
<1>11. ASSUME NEW k \in 1 .. Len(cs) PROVE \E x \in I : cs[k] = all[x]
  BY <1>3, <1>7, <1>8
<1> QED
  BY <1>9, <1>10, <1>11 DEF cs

(* The pieces with text hold the text.                                      *)
LEMMA TextIsKept ==
    ASSUME NEW f, NEW first \in Int, NEW last \in Int, NEW s, NEW n,
           InARow(s, n, first, last), DOMAIN s = 1 .. n,
           NEW all, \A k \in 1 .. n : /\ HasFields(all[k])
                                      /\ all[k].start_line = s[k].start_line
                                      /\ all[k].end_line = s[k].end_line
    PROVE  LET cs == At(all, WithText(f, s))
           IN  HoldText(f, cs, first, last) /\ Selects(cs, all, n)
<1> DEFINE I == WithText(f, s)
           cs == At(all, I)
<1>1. /\ Apart(s, n)
      /\ \A k \in 1 .. n : first <= s[k].start_line /\ s[k].end_line <= last
      /\ \A line \in first .. last : \E k \in 1 .. n : Covers(s[k], line)
  BY RowsCover
<1>2. n \in Nat /\ I \in SUBSET (1 .. n)
  BY DEF InARow, WithText
<1>3. /\ Selects(cs, all, n)
      /\ \A x \in I : \E k \in 1 .. Len(cs) : cs[k] = all[x]
  BY <1>2, AtSelects
<1>I. I = {k \in 1 .. n : HasText(f, s[k])}
  BY DEF WithText
<1> HIDE DEF I, cs
<1>4. Len(cs) \in Nat /\ DOMAIN cs = 1 .. Len(cs)
  BY <1>3 DEF Selects
<1>5. PICK at \in [1 .. Len(cs) -> 1 .. n] :
          /\ \A i, j \in 1 .. Len(cs) : i < j => at[i] < at[j]
          /\ \A k \in 1 .. Len(cs) : cs[k] = all[at[k]]
  BY <1>3 DEF Selects
<1>6. \A k \in 1 .. Len(cs) : /\ at[k] \in 1 .. n
                              /\ cs[k].start_line = s[at[k]].start_line
                              /\ cs[k].end_line = s[at[k]].end_line
                              /\ HasFields(cs[k])
  BY <1>5
<1>7. Apart(cs, Len(cs))
  BY <1>1, <1>5, <1>6 DEF Apart
<1>8. \A k \in 1 .. Len(cs) : first <= cs[k].start_line /\ cs[k].end_line <= last
  BY <1>1, <1>6
<1>9. ASSUME NEW line \in first .. last, ~f.lines[line].blank
      PROVE  \E k \in 1 .. Len(cs) : Covers(cs[k], line)
  <2>1. PICK x \in 1 .. n : Covers(s[x], line)
    BY <1>1
  <2>2. s[x].start_line \in Int /\ s[x].end_line \in Int
    BY <1>1 DEF Apart
  <2>3. line \in s[x].start_line .. s[x].end_line
    BY <2>1, <2>2 DEF Covers
  <2>4. x \in I
    BY <1>9, <1>I, <2>3 DEF HasText, IsBlankText
  <2>5. PICK k \in 1 .. Len(cs) : cs[k] = all[x]
    BY <1>3, <2>4
  <2> QED
    BY <2>1, <2>5 DEF Covers
<1> QED
  BY <1>3, <1>4, <1>6, <1>7, <1>8, <1>9 DEF HoldText, cs, I

LEMMA TextsJoin ==
    ASSUME NEW f, NEW X, NEW s \in Seq(X), NEW t \in Seq(X),
           NEW first \in Int, NEW middle \in Int, NEW last \in Int,
           first <= middle + 1, middle <= last,
           HoldText(f, s, first, middle), HoldText(f, t, middle + 1, last)
    PROVE  HoldText(f, s \o t, first, last)
<1> DEFINE m == Len(s)
           n == Len(t)
           u == s \o t
<1>1. /\ m \in Nat /\ n \in Nat /\ Len(u) = m + n /\ DOMAIN u = 1 .. (m + n)
      /\ \A k \in 1 .. m : u[k] = s[k]
      /\ \A k \in 1 .. n : u[m + k] = t[k]
  OBVIOUS
<1>2. \A k \in 1 .. (m + n) : \/ k \in 1 .. m /\ u[k] = s[k]
                              \/ k - m \in 1 .. n /\ u[k] = t[k - m]
  <2> SUFFICES ASSUME NEW k \in 1 .. (m + n), k \notin 1 .. m
               PROVE  k - m \in 1 .. n /\ u[k] = t[k - m]
    BY <1>1
  <2>1. k - m \in 1 .. n /\ m + (k - m) = k
    BY <1>1
  <2>2. u[m + (k - m)] = t[k - m]
    BY <1>1, <2>1
  <2> QED
    BY <2>1, <2>2
<1>3. /\ Apart(s, m) /\ Apart(t, n)
      /\ \A k \in 1 .. m : first <= s[k].start_line /\ s[k].end_line <= middle
      /\ \A k \in 1 .. n : middle + 1 <= t[k].start_line /\ t[k].end_line <= last
      /\ \A line \in first .. middle :
            ~f.lines[line].blank => \E k \in 1 .. m : Covers(s[k], line)
      /\ \A line \in (middle + 1) .. last :
            ~f.lines[line].blank => \E k \in 1 .. n : Covers(t[k], line)
  BY DEF HoldText
<1>f. /\ \A k \in 1 .. m : HasFields(s[k])
      /\ \A k \in 1 .. n : HasFields(t[k])
  BY DEF HoldText
<1> HIDE DEF u, m, n
<1>4. \A k \in 1 .. m : /\ s[k].start_line \in Int /\ s[k].end_line \in Int
                        /\ s[k].start_line <= s[k].end_line
  BY <1>3 DEF Apart
<1>5. \A k \in 1 .. n : /\ t[k].start_line \in Int /\ t[k].end_line \in Int
                        /\ t[k].start_line <= t[k].end_line
  BY <1>3 DEF Apart
<1>6. \A k \in 1 .. (m + n) : /\ u[k].start_line \in Int /\ u[k].end_line \in Int
                              /\ u[k].start_line <= u[k].end_line
                              /\ first <= u[k].start_line /\ u[k].end_line <= last
  <2> SUFFICES ASSUME NEW k \in 1 .. (m + n)
               PROVE  /\ u[k].start_line \in Int /\ u[k].end_line \in Int
                      /\ u[k].start_line <= u[k].end_line
                      /\ first <= u[k].start_line /\ u[k].end_line <= last
    OBVIOUS
  <2>1. CASE k \in 1 .. m /\ u[k] = s[k]
    BY <1>3, <1>4, <2>1
  <2>2. CASE k - m \in 1 .. n /\ u[k] = t[k - m]
    <3>1. /\ t[k - m].start_line \in Int /\ t[k - m].end_line \in Int
          /\ t[k - m].start_line <= t[k - m].end_line
          /\ middle + 1 <= t[k - m].start_line /\ t[k - m].end_line <= last
      BY <1>3, <1>5, <2>2
    <3> QED
      BY <2>2, <3>1
  <2> QED
    BY <1>2, <2>1, <2>2
<1>7. ASSUME NEW i \in 1 .. (m + n), NEW j \in 1 .. (m + n), i < j
      PROVE  u[i].end_line < u[j].start_line
  <2>1. CASE j \in 1 .. m /\ u[j] = s[j]
    <3>1. i \in 1 .. m
      BY <1>1, <1>7, <2>1
    <3>2. u[i] = s[i]
      BY <1>1, <3>1
    <3> QED
      BY <1>3, <1>7, <2>1, <3>1, <3>2 DEF Apart
  <2>2. CASE j - m \in 1 .. n /\ u[j] = t[j - m]
    <3>1. CASE i \in 1 .. m /\ u[i] = s[i]
      <4>1. s[i].end_line \in Int /\ s[i].end_line <= middle
        BY <1>3, <1>4, <3>1
      <4>2. t[j - m].start_line \in Int /\ middle + 1 <= t[j - m].start_line
        BY <1>3, <1>5, <2>2
      <4> QED
        BY <2>2, <3>1, <4>1, <4>2
    <3>2. CASE i - m \in 1 .. n /\ u[i] = t[i - m]
      <4>1. i - m < j - m
        BY <1>1, <1>7
      <4> QED
        BY <1>3, <2>2, <3>2, <4>1 DEF Apart
    <3> QED
      BY <1>2, <3>1, <3>2
  <2> QED
    BY <1>2, <2>1, <2>2
<1>8. ASSUME NEW line \in first .. last, ~f.lines[line].blank
      PROVE  \E k \in 1 .. (m + n) : Covers(u[k], line)
  <2>1. CASE line <= middle
    <3>1. PICK k \in 1 .. m : Covers(s[k], line)
      BY <1>3, <1>8, <2>1
    <3>2. k \in 1 .. (m + n)
      BY <1>1
    <3> QED
      BY <1>1, <3>1, <3>2
  <2>2. CASE ~(line <= middle)
    <3>1. line \in (middle + 1) .. last
      BY <2>2
    <3>2. PICK k \in 1 .. n : Covers(t[k], line)
      BY <1>3, <1>8, <3>1
    <3>3. m + k \in 1 .. (m + n)
      <4>1. m \in Nat /\ n \in Nat
        BY <1>1
      <4> QED
        BY ONLY <4>1, k \in 1 .. n
    <3>4. u[m + k] = t[k]
      BY <1>1, Zenon
    <3>5. Covers(u[m + k], line)
      BY <3>2, <3>4
    <3> QED
      BY <3>3, <3>5
  <2> QED
    BY <2>1, <2>2
<1>9. Apart(u, m + n)
  BY <1>6, <1>7 DEF Apart
<1>10. Len(u) \in Nat /\ \A k \in 1 .. (m + n) : HasFields(u[k])
  BY <1>1, <1>2, <1>f
<1> QED
  BY <1>1, <1>6, <1>8, <1>9, <1>10 DEF HoldText, u

Joins(F, m, seqs, X) ==
    /\ F \in [1 .. m -> Seq(X)]
    /\ F[1] = seqs[1]
    /\ \A i \in 1 .. (m - 1) : F[i + 1] = F[i] \o seqs[i + 1]
    /\ FlattenSeq(seqs) = F[m]

LEMMA Flattened ==
    ASSUME NEW X, NEW m \in Nat \ {0}, NEW seqs \in [1 .. m -> Seq(X)]
    PROVE  \E F : Joins(F, m, seqs, X)
<1> DEFINE flatten == CHOOSE g : g = [i \in 1 .. Len(seqs) |->
                          IF i = 1 THEN seqs[i] ELSE g[i - 1] \o seqs[i]]
           op == [x \in Seq(X) \X ((1 + 1) .. m) |-> x[1] \o seqs[x[2]]]
<1>1. Len(seqs) = m /\ 1 \in Int /\ m \in Int /\ 1 \in 1 .. m /\ m \in 1 .. m
  <2>1. seqs \in Seq(Seq(X)) /\ Len(seqs) = m
    OBVIOUS
  <2> QED
    BY <2>1
<1>2. FlattenSeq(seqs) = flatten[m]
  <2>1. m # 0
    OBVIOUS
  <2> QED
    BY <1>1, <2>1 DEF FlattenSeq
<1>3. seqs[1] \in Seq(X) /\ op \in [Seq(X) \X ((1 + 1) .. m) -> Seq(X)]
  <2>1. \A s \in Seq(X), i \in (1 + 1) .. m : s \o seqs[i] \in Seq(X)
    <3>1. \A i \in (1 + 1) .. m : seqs[i] \in Seq(X)
      OBVIOUS
    <3> QED
      BY <3>1
  <2> QED
    BY <1>1, <2>1
<1>4. PICK g \in [1 .. m -> Seq(X)] : IsRecursion(g, 1, m, seqs[1], op)
  <2> HIDE DEF op
  <2> QED
    BY ONLY <1>1, <1>3, RecursionExists
<1>5. \A i \in 1 .. m : g[i] = IF i = 1 THEN seqs[i] ELSE g[i - 1] \o seqs[i]
  <2> SUFFICES ASSUME NEW i \in 1 .. m
               PROVE  g[i] = IF i = 1 THEN seqs[i] ELSE g[i - 1] \o seqs[i]
    OBVIOUS
  <2>1. g[i] = IF i = 1 THEN seqs[1] ELSE op[<<g[i - 1], i>>]
    <3> HIDE DEF op
    <3> QED
      BY <1>4 DEF IsRecursion
  <2>2. CASE i # 1
    <3>1. i - 1 \in 1 .. m /\ i \in (1 + 1) .. m
      BY <2>2
    <3>2. g[i - 1] \in Seq(X)
      BY <3>1
    <3> QED
      BY <2>1, <2>2, <3>1, <3>2
  <2> QED
    BY <2>1, <2>2
<1>6. g = [i \in 1 .. Len(seqs) |-> IF i = 1 THEN seqs[i] ELSE g[i - 1] \o seqs[i]]
  BY <1>1, <1>5
<1>7. flatten = [i \in 1 .. Len(seqs) |->
                    IF i = 1 THEN seqs[i] ELSE flatten[i - 1] \o seqs[i]]
  <2> HIDE DEF op
  <2> QED
    BY <1>6, Zenon
<1> HIDE DEF flatten, op
<1> DEFINE A == {i \in 1 .. m : flatten[i] \in Seq(X)}
<1>8. flatten[1] = seqs[1]
  BY <1>1, <1>7
<1>9. ASSUME NEW i \in 1 .. (m - 1)
      PROVE  flatten[i + 1] = flatten[i] \o seqs[i + 1] /\ i + 1 \in 1 .. m
  <2>1. i + 1 \in 1 .. m /\ i + 1 # 1 /\ (i + 1) - 1 = i
    OBVIOUS
  <2> QED
    BY <1>1, <1>7, <2>1
<1>10. 1 .. m \subseteq A
  <2>1. 1 \in A
    BY <1>1, <1>3, <1>8
  <2>2. ASSUME NEW i \in 1 .. (m - 1), i \in A PROVE i + 1 \in A
    <3>1. flatten[i] \in Seq(X) /\ seqs[i + 1] \in Seq(X)
      BY <1>9, <2>2
    <3>2. flatten[i] \o seqs[i + 1] \in Seq(X)
      BY ONLY <3>1
    <3> QED
      BY <1>9, <3>2
  <2> HIDE DEF A
  <2> QED
    BY <1>1, <2>1, <2>2, IntervalInduction
<1>11. flatten \in [1 .. m -> Seq(X)]
  <2>1. flatten = [i \in 1 .. m |-> flatten[i]]
    BY <1>1, <1>7
  <2> QED
    BY <1>10, <2>1
<1> QED
  BY <1>2, <1>8, <1>9, <1>11 DEF Joins

-----------------------------------------------------------------------------
(* What each strategy makes of a file.                                      *)

Oversized(f, c) == TextSize(f, c.start_line, c.end_line) > f.target_size

LEMMA PiecesFit ==
    ASSUME NEW f \in Files, NEW a \in 1 .. Len(f.lines), NEW b \in a .. Len(f.lines),
           NEW cuts \in SUBSET ((a + 1) .. b), Fits(f, a, b, cuts)
    PROVE  \A k \in DOMAIN Pieces(a, b, cuts) :
              Oversized(f, Pieces(a, b, cuts)[k]) =>
                 Pieces(a, b, cuts)[k].start_line = Pieces(a, b, cuts)[k].end_line
<1> DEFINE P == Pieces(a, b, cuts)
           n == Cardinality({a} \cup cuts)
<1>0. a \in Nat /\ b \in Nat /\ a <= b /\ f.target_size \in Nat /\ Len(f.lines) \in Nat
  BY ChunkerAssumption
<1>1. /\ DOMAIN P = 1 .. n /\ InARow(P, n, a, b)
      /\ \A k \in 1 .. n : P[k].start_line \in {a} \cup cuts
      /\ \A k \in 1 .. n : \A c \in cuts : ~(P[k].start_line < c /\ c <= P[k].end_line)
  BY <1>0, PiecesInARow
<1> HIDE DEF P, n
<1>2. /\ Apart(P, n)
      /\ \A k \in 1 .. n : a <= P[k].start_line /\ P[k].end_line <= b
  <2>1. a \in Int /\ b \in Int
    BY <1>0
  <2> QED
    BY ONLY <1>1, <2>1, RowsCover
<1>3. ASSUME NEW k \in 1 .. n, Oversized(f, P[k]) PROVE P[k].start_line = P[k].end_line
  <2> DEFINE p == P[k].start_line
             q == P[k].end_line
  <2>1. p \in Int /\ q \in Int /\ p <= q /\ a <= p /\ q <= b
    BY <1>2 DEF Apart
  <2>2. p \in {a} \cup cuts /\ \A c \in cuts : ~(p < c /\ c <= q)
    BY <1>1
  <2>3. TextSize(f, p, q) > f.target_size
    BY <1>3 DEF Oversized
  <2> HIDE DEF p, q
  <2>4. q \in p .. b
    BY <1>0, <2>1
  <2>5. TextSize(f, p, q) <= f.target_size \/ p = q
    BY <2>2, <2>4 DEF Fits
  <2>6. TextSize(f, p, q) \in Nat
    <3>1. p \in 1 .. Len(f.lines) /\ q \in p .. Len(f.lines)
      BY <1>0, <2>1
    <3> QED
      BY <3>1, TextGrows
  <2>7. p = q
    BY <1>0, <2>3, <2>5, <2>6
  <2> QED
    BY <2>7 DEF p, q
<1> QED
  BY <1>1, <1>3 DEF P

LEMMA NothingHolds ==
    ASSUME NEW f, NEW first, NEW last, \A line \in first .. last : f.lines[line].blank
    PROVE  HoldText(f, <<>>, first, last)
<1>1. Len(<<>>) = 0 /\ DOMAIN <<>> = {} /\ 1 .. 0 = {}
  OBVIOUS
<1> QED
  BY <1>1 DEF HoldText, Apart

LEMMA LinesAreChunked ==
    ASSUME NEW f \in Files
    PROVE  /\ HoldText(f, ChunkByLines(f), 1, Len(f.lines))
           /\ \A k \in DOMAIN ChunkByLines(f) : Oversized(f, ChunkByLines(f)[k]) =>
                 ChunkByLines(f)[k].start_line = ChunkByLines(f)[k].end_line
<1> DEFINE N == Len(f.lines)
           cuts == Cuts(f, 1, N, 1 .. N)
           P == Pieces(1, N, cuts)
           n == Cardinality({1} \cup cuts)
           all == [k \in DOMAIN P |-> Chunk(P[k], "content", None, NoSection, None, None)]
           cs == At(all, WithText(f, P))
<1>0. N \in Nat
  BY ChunkerAssumption
<1>1. CASE N = 0
  <2>1. ChunkByLines(f) = <<>>
    BY <1>1 DEF ChunkByLines
  <2>2. \A line \in 1 .. N : f.lines[line].blank
    BY <1>1
  <2> QED
    BY <2>1, <2>2, NothingHolds
<1>2. CASE N # 0
  <2>1. 1 \in 1 .. N /\ N \in 1 .. N /\ 1 <= N /\ 1 \in Nat
    BY <1>0, <1>2
  <2>2. cuts \in SUBSET ((1 + 1) .. N) /\ Fits(f, 1, N, cuts)
    BY <2>1, CutsFit
  <2>3. ChunkByLines(f) = cs
    BY <1>2 DEF ChunkByLines
  <2> HIDE DEF cuts
  <2>4. DOMAIN P = 1 .. n /\ InARow(P, n, 1, N)
    BY <1>0, <2>1, <2>2, PiecesInARow
  <2>5. \A k \in 1 .. n : Oversized(f, P[k]) => P[k].start_line = P[k].end_line
    BY <2>1, <2>2, <2>4, PiecesFit
  <2> HIDE DEF P, n, N
  <2>6. \A k \in 1 .. n : /\ HasFields(all[k])
                          /\ all[k].start_line = P[k].start_line
                          /\ all[k].end_line = P[k].end_line
    BY <2>4 DEF Chunk, HasFields
  <2> HIDE DEF all
  <2>7. HoldText(f, cs, 1, N) /\ Selects(cs, all, n)
    <3>1. 1 \in Int /\ N \in Int
      BY <1>0
    <3> QED
      BY <2>4, <2>6, <3>1, TextIsKept
  <2> HIDE DEF cs
  <2>8. ASSUME NEW k \in DOMAIN cs, Oversized(f, cs[k])
        PROVE  cs[k].start_line = cs[k].end_line
    <3>1. PICK x \in 1 .. n : cs[k] = all[x]
      BY <2>7 DEF Selects
    <3> QED
      BY <2>5, <2>6, <2>8, <3>1 DEF Oversized
  <2> QED
    BY <2>3, <2>7, <2>8 DEF N
<1> QED
  BY <1>1, <1>2

(* The parts of one section, in order and with one count.                   *)
PartsFollow(c, d) ==
    /\ c.part # None /\ c.part < d.part
    /\ d.part <= d.parts /\ c.parts = d.parts

SmallOrPart(f, c) ==
    Oversized(f, c) => c.start_line = c.end_line \/ (c.parts # None /\ c.parts > 1)

LEMMA SectionPiecesFit ==
    ASSUME NEW f \in Files, NEW section, NEW a \in 1 .. Len(f.lines),
           NEW b \in a .. Len(f.lines), section.start_line = a, section.end_line = b
    PROVE  LET P == SectionPieces(f, section)
           IN  \E n \in Nat : /\ InARow(P, n, a, b) /\ DOMAIN P = 1 .. n /\ Len(P) = n
                              /\ n > 1 \/ \A k \in 1 .. n : Oversized(f, P[k]) =>
                                             P[k].start_line = P[k].end_line
<1> DEFINE cuts == Cuts(f, a, b, MayCutSection(f, section))
           greedy == Cuts(f, a, b, a .. b)
<1>0. a \in Nat /\ b \in Nat /\ a <= b
  BY ChunkerAssumption
<1>1. /\ cuts \in SUBSET ((a + 1) .. b)
      /\ greedy \in SUBSET ((a + 1) .. b) /\ Fits(f, a, b, greedy)
  BY CutsFit
<1>2. SectionPieces(f, section) = IF cuts = {} THEN Pieces(a, b, greedy) ELSE Pieces(a, b, cuts)
  BY DEF SectionPieces
<1> HIDE DEF cuts, greedy
<1>3. CASE cuts = {}
  <2> DEFINE P == Pieces(a, b, greedy)
             n == Cardinality({a} \cup greedy)
  <2>1. DOMAIN P = 1 .. n /\ InARow(P, n, a, b) /\ Len(P) = n
    BY ONLY <1>0, <1>1, PiecesInARow
  <2>2. \A k \in 1 .. n : Oversized(f, P[k]) => P[k].start_line = P[k].end_line
    BY <1>1, <2>1, PiecesFit
  <2>3. n \in Nat
    BY <2>1 DEF InARow
  <2> QED
    BY <1>2, <1>3, <2>1, <2>2, <2>3
<1>4. CASE cuts # {}
  <2> DEFINE P == Pieces(a, b, cuts)
             S == {a} \cup cuts
             n == Cardinality(S)
  <2>1. DOMAIN P = 1 .. n /\ InARow(P, n, a, b) /\ Len(P) = n
    BY ONLY <1>0, <1>1, PiecesInARow
  <2>2. n \in Nat \ {0}
    BY <2>1 DEF InARow
  <2>3. n # 1
    <3>1. PICK c \in cuts : c # a
      <4>1. \A c \in cuts : c \in (a + 1) .. b
        BY <1>1
      <4>2. \A c \in (a + 1) .. b : c # a
        BY ONLY <1>0
      <4> QED
        BY <1>4, <4>1, <4>2
    <3>2. IsFiniteSet(S)
      <4>1. S \in SUBSET Nat /\ \A x \in S : x <= b
        BY <1>0, <1>1
      <4> HIDE DEF S
      <4> QED
        BY <1>0, <4>1, FS_BoundedSetOfNaturals
    <3>3. a \in S /\ c \in S
      OBVIOUS
    <3> HIDE DEF S
    <3> QED
      BY <3>1, <3>2, <3>3, FS_Singleton
  <2>4. n > 1
    BY <2>2, <2>3
  <2> QED
    BY <1>2, <1>4, <2>1, <2>2, <2>4
<1> QED
  BY <1>3, <1>4

LEMMA SectionIsChunked ==
    ASSUME NEW f \in Files, NEW section, NEW a \in 1 .. Len(f.lines),
           NEW b \in a .. Len(f.lines), section.start_line = a, section.end_line = b
    PROVE  LET cs == SectionChunks(f, section)
           IN  /\ HoldText(f, cs, a, b)
               /\ \E X : cs \in Seq(X)
               /\ \A k \in 1 .. Len(cs) : /\ SmallOrPart(f, cs[k])
                                          /\ cs[k].section = SectionName(f, section)
               /\ \A j, k \in 1 .. Len(cs) : j < k => PartsFollow(cs[j], cs[k])
<1> DEFINE name == SectionName(f, section)
           whole == Chunk(section, "content", f.lines[section.start_line].title, name,
                          None, None)
           P == SectionPieces(f, section)
           all == [k \in DOMAIN P |-> Chunk(P[k], "content", None, name, k, Len(P))]
           cs == SectionChunks(f, section)
<1>0. a \in Int /\ b \in Int /\ a <= b /\ f.target_size \in Nat /\ Len(f.lines) \in Nat
  BY ChunkerAssumption
<1>1. CASE TextSize(f, a, b) <= f.target_size
  <2>1. cs = <<whole>>
    BY <1>1 DEF SectionChunks
  <2>2. /\ whole.start_line = a /\ whole.end_line = b /\ whole.section = name
        /\ HasFields(whole)
    BY DEF Chunk, HasFields
  <2>3. TextSize(f, a, b) \in Nat
    BY TextGrows
  <2>4. ~Oversized(f, whole)
    BY <1>0, <1>1, <2>2, <2>3 DEF Oversized
  <2> HIDE DEF cs, whole, name
  <2>5. /\ cs \in Seq({whole}) /\ Len(cs) = 1 /\ DOMAIN cs = 1 .. 1 /\ cs[1] = whole
        /\ \A k \in 1 .. 1 : k = 1
    BY <2>1
  <2>6. HoldText(f, cs, a, b)
    <3>1. Apart(cs, 1)
      BY <1>0, <2>2, <2>5 DEF Apart
    <3>2. \A line \in a .. b : Covers(cs[1], line)
      BY <1>0, <2>2, <2>5 DEF Covers
    <3> QED
      BY <1>0, <2>2, <2>5, <3>1, <3>2 DEF HoldText
  <2>7. \A k \in 1 .. Len(cs) : SmallOrPart(f, cs[k]) /\ cs[k].section = name
    BY <2>2, <2>4, <2>5 DEF SmallOrPart
  <2>8. \A j, k \in 1 .. Len(cs) : j < k => PartsFollow(cs[j], cs[k])
    BY <2>5
  <2> QED
    BY <2>5, <2>6, <2>7, <2>8 DEF cs, name
<1>2. CASE ~(TextSize(f, a, b) <= f.target_size)
  <2>1. cs = At(all, WithText(f, P))
    BY <1>2 DEF SectionChunks
  <2>2. PICK n \in Nat : /\ InARow(P, n, a, b) /\ DOMAIN P = 1 .. n /\ Len(P) = n
                         /\ n > 1 \/ \A k \in 1 .. n : Oversized(f, P[k]) =>
                                             P[k].start_line = P[k].end_line
    BY SectionPiecesFit
  <2> HIDE DEF P, name
  <2>3. \A k \in 1 .. n : /\ all[k].start_line = P[k].start_line
                          /\ all[k].end_line = P[k].end_line
                          /\ all[k].section = name /\ all[k].part = k /\ all[k].parts = n
                          /\ HasFields(all[k])
    BY <2>2 DEF Chunk, HasFields
  <2> HIDE DEF all, cs
  <2>4. HoldText(f, cs, a, b) /\ Selects(cs, all, n)
    BY <1>0, <2>1, <2>2, <2>3, TextIsKept
  <2>5. PICK at \in [1 .. Len(cs) -> 1 .. n] :
           /\ \A i, j \in 1 .. Len(cs) : i < j => at[i] < at[j]
           /\ \A k \in 1 .. Len(cs) : cs[k] = all[at[k]]
    BY <2>4 DEF Selects
  <2>6. cs \in Seq({all[k] : k \in 1 .. n})
    BY <2>4 DEF Selects
  <2>7. ASSUME NEW k \in 1 .. Len(cs) PROVE SmallOrPart(f, cs[k]) /\ cs[k].section = name
    <3>1. cs[k] = all[at[k]] /\ at[k] \in 1 .. n
      BY <2>5
    <3>2. CASE n > 1
      BY <2>3, <3>1, <3>2 DEF SmallOrPart, None
    <3>3. CASE \A j \in 1 .. n : Oversized(f, P[j]) => P[j].start_line = P[j].end_line
      BY <2>3, <3>1, <3>3 DEF SmallOrPart, Oversized
    <3> QED
      BY <2>2, <3>2, <3>3
  <2>8. ASSUME NEW j \in 1 .. Len(cs), NEW k \in 1 .. Len(cs), j < k
        PROVE  PartsFollow(cs[j], cs[k])
    <3>1. /\ cs[j] = all[at[j]] /\ at[j] \in 1 .. n
          /\ cs[k] = all[at[k]] /\ at[k] \in 1 .. n /\ at[j] < at[k]
      BY <2>5, <2>8
    <3>2. cs[j].part = at[j] /\ cs[k].part = at[k] /\ cs[j].parts = n /\ cs[k].parts = n
      BY <2>3, <3>1
    <3> QED
      BY <3>1, <3>2 DEF PartsFollow, None
  <2> QED
    BY <2>4, <2>6, <2>7, <2>8 DEF cs, name
<1> QED
  BY <1>1, <1>2

LEMMA SectionsFollow ==
    ASSUME NEW f \in Files, SectionStarts(f) # {}
    PROVE  /\ Min(SectionStarts(f)) \in 1 .. Len(f.lines)
           /\ \E m \in Nat \ {0} :
                 /\ DOMAIN Sections(f) = 1 .. m /\ Len(Sections(f)) = m
                 /\ InARow(Sections(f), m, Min(SectionStarts(f)), Len(f.lines))
                 /\ \A k \in 1 .. m : Sections(f)[k].start_line \in SectionStarts(f)
<1> DEFINE starts == SectionStarts(f)
           N == Len(f.lines)
           first == Min(starts)
           cuts == starts \ {first}
           P == Pieces(first, N, cuts)
           m == Cardinality({first} \cup cuts)
<1>0. N \in Nat /\ starts \in SUBSET (1 .. N)
  BY ChunkerAssumption DEF SectionStarts
<1>S. Sections(f) = P
  BY DEF Sections
<1>n. starts # {}
  OBVIOUS
<1> HIDE DEF starts
<1>1. first \in starts /\ \A y \in starts : first <= y
  <2>1. starts \in SUBSET Nat
    BY <1>0
  <2> QED
    BY ONLY <1>n, <2>1, LeastNatural
<1> HIDE DEF first
<1>2. first \in 1 .. N /\ first \in Nat /\ first <= N
  BY <1>0, <1>1
<1>3. cuts \in SUBSET ((first + 1) .. N)
  <2> SUFFICES ASSUME NEW c \in starts, c # first PROVE c \in (first + 1) .. N
    OBVIOUS
  <2>1. c \in 1 .. N /\ first <= c
    BY <1>0, <1>1
  <2> QED
    BY <1>2, <2>1
<1>4. {first} \cup cuts = starts
  BY <1>1
<1> HIDE DEF cuts
<1>5. /\ DOMAIN P = 1 .. m /\ InARow(P, m, first, N) /\ Len(P) = m
      /\ \A k \in 1 .. m : P[k].start_line \in {first} \cup cuts
  BY ONLY <1>0, <1>2, <1>3, PiecesInARow
<1>6. m \in Nat \ {0}
  BY <1>5 DEF InARow
<1> HIDE DEF P, m
<1> QED
  BY <1>2, <1>4, <1>5, <1>6, <1>S DEF starts, first, N

(* Two sections under one heading have different names.                     *)
LEMMA NamesDiffer ==
    ASSUME NEW f \in Files, NEW s, NEW t,
           s.start_line \in SectionStarts(f), t.start_line \in SectionStarts(f),
           s.start_line < t.start_line, SectionName(f, s) = SectionName(f, t)
    PROVE  SectionName(f, s)[1] = NoTitle
<1> SUFFICES ASSUME SectionName(f, s)[1] # NoTitle PROVE FALSE
  OBVIOUS
<1> DEFINE title == f.lines[s.start_line].title
           a == s.start_line
           b == t.start_line
           Before(x) == {i \in SectionStarts(f) : i < x /\ f.lines[i].title = title}
<1>1. title # NoTitle /\ SectionName(f, s) = <<title, Cardinality(Before(a))>>
  BY DEF SectionName
<1>2. f.lines[b].title = title /\ SectionName(f, t) = <<title, Cardinality(Before(b))>>
  <2>1. f.lines[b].title # NoTitle
    <3>1. f.lines[b].title = NoTitle => SectionName(f, t)[1] = NoTitle
      BY DEF SectionName
    <3> QED
      BY <1>1, <3>1
  <2>2. SectionName(f, t)[1] = f.lines[b].title
    BY <2>1 DEF SectionName
  <2>3. f.lines[b].title = title
    BY <1>1, <2>2
  <2> QED
    BY <2>1, <2>3 DEF SectionName
<1>3. Cardinality(Before(a)) = Cardinality(Before(b))
  <2> HIDE DEF Before, title
  <2>1. <<title, Cardinality(Before(a))>> = <<title, Cardinality(Before(b))>>
    BY <1>1, <1>2
  <2> QED
    BY ONLY <2>1
<1>4. /\ \A i \in SectionStarts(f) : i \in Nat /\ i <= Len(f.lines)
      /\ Len(f.lines) \in Nat
  BY ChunkerAssumption DEF SectionStarts
<1>5. a \in Nat /\ b \in Nat /\ a < b /\ f.lines[a].title = title
  BY <1>4
<1>6. a \in Before(b) /\ a \notin Before(a) /\ Before(a) \in SUBSET Before(b)
  <2>1. \A i \in SectionStarts(f) : i < a => i < b
    BY <1>4, <1>5
  <2> QED
    BY <1>5, <2>1
<1>7. IsFiniteSet(Before(b))
  <2>1. Before(b) \in SUBSET Nat /\ \A x \in Before(b) : x <= Len(f.lines)
    BY <1>4
  <2> HIDE DEF Before
  <2> QED
    BY <1>4, <2>1, FS_BoundedSetOfNaturals
<1> HIDE DEF Before, title, a, b
<1> QED
  BY <1>3, <1>6, <1>7, FS_Subset

(* The chunks of one section are numbered in order.                         *)
PartsNamed(cs) ==
    \A j, k \in 1 .. Len(cs) :
        j < k /\ cs[j].section = cs[k].section
              /\ cs[j].section # NoSection /\ cs[j].section[1] # NoTitle
        => PartsFollow(cs[j], cs[k])

(* What the first i sections have given.                                    *)
Sectioned(f, sections, first, cs, i) ==
    /\ HoldText(f, cs, first, sections[i].end_line)
    /\ \A k \in 1 .. Len(cs) :
          /\ SmallOrPart(f, cs[k])
          /\ \E x \in 1 .. i : cs[k].section = SectionName(f, sections[x])
    /\ PartsNamed(cs)

LEMMA NextSection ==
    ASSUME NEW f \in Files, NEW sections, NEW m \in Nat, NEW first \in 1 .. Len(f.lines),
           InARow(sections, m, first, Len(f.lines)),
           \A k \in 1 .. m : sections[k].start_line \in SectionStarts(f),
           NEW i \in 1 .. (m - 1), NEW X, NEW cs \in Seq(X),
           SectionChunks(f, sections[i + 1]) \in Seq(X),
           Sectioned(f, sections, first, cs, i)
    PROVE  Sectioned(f, sections, first, cs \o SectionChunks(f, sections[i + 1]), i + 1)
<1> DEFINE N == Len(f.lines)
           a == sections[i + 1].start_line
           b == sections[i + 1].end_line
           t == SectionChunks(f, sections[i + 1])
           u == cs \o t
           name(x) == SectionName(f, sections[x])
<1>0. N \in Nat /\ first \in Int /\ N \in Int
  BY ChunkerAssumption
<1>i. i \in 1 .. m /\ i + 1 \in 1 .. m /\ i \in Nat
  OBVIOUS
<1>1. /\ Apart(sections, m)
      /\ \A k \in 1 .. m : first <= sections[k].start_line /\ sections[k].end_line <= N
  BY <1>0, RowsCover
<1>2. sections[i].end_line \in Int /\ a = sections[i].end_line + 1 /\ first <= a
      /\ a \in Int /\ b \in Int /\ a <= b /\ b <= N
  BY <1>1, <1>i DEF InARow, Apart
<1>3. a \in 1 .. N /\ b \in a .. N
  BY <1>0, <1>2
<1>4. /\ HoldText(f, t, a, b)
      /\ \A k \in 1 .. Len(t) : SmallOrPart(f, t[k]) /\ t[k].section = name(i + 1)
      /\ \A j, k \in 1 .. Len(t) : j < k => PartsFollow(t[j], t[k])
  BY <1>3, SectionIsChunked
<1>5. /\ HoldText(f, cs, first, sections[i].end_line) /\ PartsNamed(cs)
      /\ \A k \in 1 .. Len(cs) : /\ SmallOrPart(f, cs[k])
                                 /\ \E x \in 1 .. i : cs[k].section = name(x)
  BY DEF Sectioned
<1> HIDE DEF t, a, b
<1>6. HoldText(f, u, first, b)
  <2>1. cs \in Seq(X) /\ t \in Seq(X)
    BY DEF t
  <2>2. HoldText(f, t, sections[i].end_line + 1, b)
    BY <1>2, <1>4
  <2>3. first <= sections[i].end_line + 1 /\ sections[i].end_line <= b
    BY <1>2
  <2> QED
    BY ONLY <1>0, <1>2, <1>5, <2>1, <2>2, <2>3, TextsJoin
<1>7. /\ Len(cs) \in Nat /\ Len(t) \in Nat /\ Len(u) = Len(cs) + Len(t)
      /\ \A k \in 1 .. Len(u) : \/ k \in 1 .. Len(cs) /\ u[k] = cs[k]
                                \/ /\ k \notin 1 .. Len(cs)
                                   /\ k - Len(cs) \in 1 .. Len(t)
                                   /\ u[k] = t[k - Len(cs)]
  BY DEF t
<1> HIDE DEF u
<1>8. ASSUME NEW x \in 1 .. i, name(x) = name(i + 1) PROVE name(x)[1] = NoTitle
  <2>1. x \in 1 .. m /\ x < i + 1
    BY <1>i
  <2>2. sections[x].end_line < sections[i + 1].start_line
        /\ sections[x].start_line <= sections[x].end_line
        /\ sections[x].start_line \in Int /\ sections[x].end_line \in Int
        /\ sections[i + 1].start_line \in Int
    BY <1>1, <1>i, <2>1 DEF Apart
  <2>3. sections[x].start_line < sections[i + 1].start_line
    BY ONLY <2>2
  <2> QED
    BY <1>8, <1>i, <2>1, <2>3, NamesDiffer
<1>9. ASSUME NEW k \in 1 .. Len(u)
      PROVE  SmallOrPart(f, u[k]) /\ \E x \in 1 .. (i + 1) : u[k].section = name(x)
  <2>1. CASE k \in 1 .. Len(cs) /\ u[k] = cs[k]
    <3>1. PICK x \in 1 .. i : cs[k].section = name(x)
      BY <1>5, <2>1
    <3>2. x \in 1 .. (i + 1)
      OBVIOUS
    <3> QED
      BY <1>5, <2>1, <3>1, <3>2
  <2>2. CASE k - Len(cs) \in 1 .. Len(t) /\ u[k] = t[k - Len(cs)]
    <3>1. i + 1 \in 1 .. (i + 1)
      OBVIOUS
    <3> QED
      BY <1>4, <2>2, <3>1
  <2> QED
    BY <1>7, <2>1, <2>2
<1>10. PartsNamed(u)
  <2> SUFFICES ASSUME NEW j \in 1 .. Len(u), NEW k \in 1 .. Len(u), j < k,
                      u[j].section = u[k].section, u[j].section # NoSection,
                      u[j].section[1] # NoTitle
               PROVE  PartsFollow(u[j], u[k])
    BY DEF PartsNamed
  <2>1. CASE k \in 1 .. Len(cs) /\ u[k] = cs[k]
    <3>1. j \in 1 .. Len(cs)
      BY <1>7, <2>1
    <3>2. u[j] = cs[j]
      BY <1>7, <3>1
    <3> QED
      BY <1>5, <2>1, <3>1, <3>2 DEF PartsNamed
  <2>2. CASE k - Len(cs) \in 1 .. Len(t) /\ u[k] = t[k - Len(cs)]
    <3>1. CASE j \in 1 .. Len(cs) /\ u[j] = cs[j]
      <4>1. PICK x \in 1 .. i : cs[j].section = name(x)
        BY <1>5, <3>1
      <4>2. t[k - Len(cs)].section = name(i + 1)
        BY <1>4, <2>2
      <4>3. name(x) = name(i + 1)
        BY <2>2, <3>1, <4>1, <4>2
      <4> QED
        BY <1>8, <3>1, <4>1, <4>3
    <3>2. CASE j - Len(cs) \in 1 .. Len(t) /\ u[j] = t[j - Len(cs)]
      <4>1. j - Len(cs) < k - Len(cs)
        BY <1>7
      <4> QED
        BY <1>4, <2>2, <3>2, <4>1
    <3> QED
      BY <1>7, <3>1, <3>2
  <2> QED
    BY <1>7, <2>1, <2>2
<1> QED
  BY <1>6, <1>9, <1>10 DEF Sectioned, u, t, b

LEMMA MarkdownIsChunked ==
    ASSUME NEW f \in Files
    PROVE  LET cs == PartitionMarkdown(f)
               first == IF SectionStarts(f) = {} THEN 1 ELSE Min(SectionStarts(f))
           IN  /\ HoldText(f, cs, first, Len(f.lines)) /\ first \in Nat \ {0}
               /\ SectionStarts(f) # {} => \A k \in 1 .. Len(cs) : SmallOrPart(f, cs[k])
               /\ PartsNamed(cs)
<1> DEFINE N == Len(f.lines)
           cs == PartitionMarkdown(f)
<1>0. N \in Nat
  BY ChunkerAssumption
<1>1. CASE SectionStarts(f) = {}
  <2> DEFINE whole == Chunk([start_line |-> 1, end_line |-> N], "content", None,
                            NoSection, None, None)
  <2>1. cs = IF IsBlankText(f, 1, N) THEN <<>> ELSE <<whole>>
    BY <1>1 DEF PartitionMarkdown, Sections
  <2>2. CASE IsBlankText(f, 1, N)
    <3>1. cs = <<>> /\ \A line \in 1 .. N : f.lines[line].blank
      BY <2>1, <2>2 DEF IsBlankText
    <3>2. HoldText(f, cs, 1, N)
      BY <3>1, NothingHolds
    <3>3. PartsNamed(cs)
      BY <3>1 DEF PartsNamed
    <3> QED
      BY <1>1, <3>2, <3>3
  <2>3. CASE ~IsBlankText(f, 1, N)
    <3>1. 1 <= N
      BY <1>0, <2>3 DEF IsBlankText
    <3>2. whole.start_line = 1 /\ whole.end_line = N /\ HasFields(whole)
      BY DEF Chunk, HasFields
    <3>3. cs = <<whole>>
      BY <2>1, <2>3
    <3> HIDE DEF cs, whole
    <3>4. /\ Len(cs) = 1 /\ DOMAIN cs = 1 .. 1 /\ cs[1] = whole
          /\ \A k \in 1 .. 1 : k = 1
      BY <3>3
    <3>5. Apart(cs, 1)
      BY <1>0, <3>1, <3>2, <3>4 DEF Apart
    <3>6. \A line \in 1 .. N : Covers(cs[1], line)
      BY <1>0, <3>2, <3>4 DEF Covers
    <3>7. HoldText(f, cs, 1, N)
      BY <1>0, <3>2, <3>4, <3>5, <3>6 DEF HoldText
    <3>8. PartsNamed(cs)
      BY <3>4 DEF PartsNamed
    <3> QED
      BY <1>1, <3>7, <3>8 DEF cs
  <2> QED
    BY <2>2, <2>3
<1>2. CASE SectionStarts(f) # {}
  <2> DEFINE first == Min(SectionStarts(f))
             sections == Sections(f)
  <2>1. first \in 1 .. N
    BY <1>2, SectionsFollow
  <2>2. PICK m \in Nat \ {0} : /\ DOMAIN sections = 1 .. m /\ Len(sections) = m
                               /\ InARow(sections, m, first, N)
                               /\ \A k \in 1 .. m : sections[k].start_line \in SectionStarts(f)
    BY <1>2, SectionsFollow
  <2> DEFINE seqs == [k \in 1 .. m |-> SectionChunks(f, sections[k])]
             X == UNION {{SectionChunks(f, sections[k])[j] :
                             j \in 1 .. Len(SectionChunks(f, sections[k]))} : k \in 1 .. m}
  <2>3. cs = FlattenSeq(seqs)
    <3>1. sections # <<>>
      <4>1. 1 \in DOMAIN sections
        BY <2>2
      <4> QED
        BY <4>1
    <3> QED
      BY <2>2, <3>1 DEF PartitionMarkdown
  <2> HIDE DEF sections, first, cs
  <2>4. /\ Apart(sections, m)
        /\ \A k \in 1 .. m : first <= sections[k].start_line /\ sections[k].end_line <= N
    <3>1. first \in Int /\ N \in Int
      BY <1>0, <2>1
    <3> QED
      BY ONLY <2>2, <3>1, RowsCover
  <2>5. \A k \in 1 .. m : /\ sections[k].start_line \in 1 .. N
                          /\ sections[k].end_line \in sections[k].start_line .. N
    BY <1>0, <2>1, <2>4 DEF Apart
  <2>6. \A k \in 1 .. m :
           LET t == SectionChunks(f, sections[k])
           IN  /\ HoldText(f, t, sections[k].start_line, sections[k].end_line)
               /\ \E Y : t \in Seq(Y)
               /\ \A j \in 1 .. Len(t) : /\ SmallOrPart(f, t[j])
                                         /\ t[j].section = SectionName(f, sections[k])
               /\ \A i, j \in 1 .. Len(t) : i < j => PartsFollow(t[i], t[j])
    BY <2>5, SectionIsChunked
  <2>7. ASSUME NEW k \in 1 .. m PROVE SectionChunks(f, sections[k]) \in Seq(X)
    <3> DEFINE t == SectionChunks(f, sections[k])
    <3>1. PICK Y : t \in Seq(Y)
      BY <2>6
    <3>2. \A j \in 1 .. Len(t) : t[j] \in X
      OBVIOUS
    <3> HIDE DEF t, X
    <3>3. Len(t) \in Nat /\ t = [j \in 1 .. Len(t) |-> t[j]]
      BY ONLY <3>1
    <3>4. t \in [1 .. Len(t) -> X]
      BY <3>2, <3>3
    <3>5. t \in Seq(X)
      BY ONLY <3>3, <3>4
    <3> QED
      BY <3>5 DEF t
  <2> HIDE DEF X
  <2>8. seqs \in [1 .. m -> Seq(X)]
    BY <2>7
  <2>9. PICK F \in [1 .. m -> Seq(X)] :
           /\ F[1] = seqs[1]
           /\ \A i \in 1 .. (m - 1) : F[i + 1] = F[i] \o seqs[i + 1]
           /\ FlattenSeq(seqs) = F[m]
    <3> HIDE DEF seqs
    <3>1. m \in Nat \ {0}
      OBVIOUS
    <3>2. \E F : Joins(F, m, seqs, X)
      BY ONLY <2>8, <3>1, Flattened
    <3> QED
      BY ONLY <3>2 DEF Joins
  <2> DEFINE A == {i \in 1 .. m : Sectioned(f, sections, first, F[i], i)}
  <2>m. 1 \in 1 .. m /\ m \in 1 .. m /\ 1 \in Int /\ m \in Int
    OBVIOUS
  <2>10. 1 \in A
    <3> DEFINE t == SectionChunks(f, sections[1])
    <3>1. F[1] = t
      BY <2>9, <2>m
    <3>2. sections[1].start_line = first
      BY <2>2 DEF InARow
    <3>3. /\ HoldText(f, t, first, sections[1].end_line)
          /\ \A j \in 1 .. Len(t) : /\ SmallOrPart(f, t[j])
                                    /\ t[j].section = SectionName(f, sections[1])
          /\ \A i, j \in 1 .. Len(t) : i < j => PartsFollow(t[i], t[j])
      BY <2>6, <2>m, <3>2
    <3>4. 1 \in 1 .. 1
      OBVIOUS
    <3> HIDE DEF t
    <3>5. Sectioned(f, sections, first, t, 1)
      BY <3>3, <3>4 DEF Sectioned, PartsNamed
    <3> QED
      BY <2>m, <3>1, <3>5
  <2>11. ASSUME NEW i \in 1 .. (m - 1), i \in A PROVE i + 1 \in A
    <3>1. i + 1 \in 1 .. m /\ i \in 1 .. m
      OBVIOUS
    <3>2. F[i + 1] = F[i] \o SectionChunks(f, sections[i + 1])
      BY <2>9, <3>1
    <3>3. F[i] \in Seq(X) /\ SectionChunks(f, sections[i + 1]) \in Seq(X)
      BY <2>7, <3>1
    <3>4. Sectioned(f, sections, first, F[i], i)
      BY <2>11
    <3>5. Sectioned(f, sections, first, F[i] \o SectionChunks(f, sections[i + 1]), i + 1)
      BY <2>1, <2>2, <3>3, <3>4, NextSection
    <3> QED
      BY <3>1, <3>2, <3>5
  <2>12. 1 .. m \subseteq A
    <3> HIDE DEF A
    <3> QED
      BY ONLY <2>m, <2>10, <2>11, IntervalInduction
  <2>13. Sectioned(f, sections, first, cs, m)
    <3>1. m \in A
      BY <2>m, <2>12
    <3>2. cs = F[m]
      BY <2>3, <2>9
    <3> QED
      BY <3>1, <3>2
  <2>14. sections[m].end_line = N
    BY <2>2 DEF InARow
  <2>15. /\ HoldText(f, cs, first, N) /\ PartsNamed(cs)
         /\ \A k \in 1 .. Len(cs) : SmallOrPart(f, cs[k])
    BY <2>13, <2>14 DEF Sectioned
  <2> QED
    BY <1>2, <2>1, <2>15 DEF first, cs
<1> QED
  BY <1>1, <1>2

-----------------------------------------------------------------------------
(* What the splitting of a TypeScript file makes of it.                     *)

(* A range that is over the target and stays as it is has no line at which  *)
(* it may be cut, and a file without lines is never cut.                    *)
Stays(f, r) ==
    \/ TextSize(f, r.start_line, r.end_line) <= f.target_size
    \/ r.end_line <= r.start_line + 1
    \/ ~f.allow_fallback

NoLines(r) == r.end_line < r.start_line

PassInv ==
    /\ pc = "start" => new_chunks = <<>> /\ ~changed
    /\ pc = "finalize" => file.strategy = "typescript" /\ ~changed
    /\ Splitting /\ ~changed => \A k \in DOMAIN new_chunks : Stays(file, new_chunks[k])
    /\ Splitting /\ Len(file.lines) = 0 =>
          /\ pc # "descend"
          /\ \A k \in DOMAIN chunks : NoLines(chunks[k])
          /\ \A k \in DOMAIN new_chunks : NoLines(new_chunks[k])

(* The lines of a file that its chunks hold begin here.                     *)
FirstLine(f) ==
    IF f.strategy = "markdown" /\ SectionStarts(f) # {} THEN Min(SectionStarts(f)) ELSE 1

Uncuttable(f, c) ==
    \/ c.start_line = c.end_line
    \/ f.strategy = "typescript" /\ (c.end_line = c.start_line + 1 \/ ~f.allow_fallback)
    \/ f.strategy = "markdown" /\ (SectionStarts(f) = {} \/ (c.parts # None /\ c.parts > 1))

(* What chunk_content promises of the chunks of a file.                     *)
Chunked(f, cs) ==
    /\ HoldText(f, cs, FirstLine(f), Len(f.lines))
    /\ \A k \in 1 .. Len(cs) : Oversized(f, cs[k]) => Uncuttable(f, cs[k])
    /\ f.strategy = "markdown" => PartsNamed(cs)

ChunkedInv ==
    pc \in {"assign", "done"} /\ file.strategy # "skip" => Chunked(file, result)

LEMMA TilesInARow ==
    ASSUME NEW s \in Seq(LineRange), NEW first \in Int, NEW last \in Int,
           first <= last, Tiles(s, first, last)
    PROVE  InARow(s, Len(s), first, last)
<1>1. Len(s) \in Nat \ {0} /\ DOMAIN s = 1 .. Len(s)
  BY LenProperties, EmptySeq DEF Tiles
<1>2. \A k \in 1 .. Len(s) : s[k] \in LineRange
  BY ElementOfSeq
<1>3. \A k \in 1 .. Len(s) : /\ s[k].start_line \in Int /\ s[k].end_line \in Int
                             /\ s[k].start_line <= s[k].end_line
  BY <1>1, <1>2 DEF Tiles, LineRange
<1> QED
  BY <1>1, <1>3 DEF Tiles, InARow

(* The ranges with text are the chunks of the file.                         *)
LEMMA RangesAreChunked ==
    ASSUME NEW f \in Files, f.strategy = "typescript",
           NEW s \in Seq(LineRange), Tiles(s, 1, Len(f.lines)),
           Len(f.lines) = 0 => \A k \in DOMAIN s : NoLines(s[k]),
           \A k \in DOMAIN s : Stays(f, s[k]),
           NEW all, \A k \in DOMAIN s : /\ HasFields(all[k])
                                        /\ all[k].start_line = s[k].start_line
                                        /\ all[k].end_line = s[k].end_line
    PROVE  Chunked(f, At(all, WithText(f, s)))
<1> DEFINE N == Len(f.lines)
           n == Len(s)
           cs == At(all, WithText(f, s))
<1>0. N \in Nat /\ n \in Nat /\ DOMAIN s = 1 .. n /\ FirstLine(f) = 1
  BY ChunkerAssumption, LenProperties DEF FirstLine
<1>r. \A k \in 1 .. n : s[k].start_line \in Int /\ s[k].end_line \in Int
  <2>1. \A k \in 1 .. n : s[k] \in LineRange
    BY ElementOfSeq
  <2> QED
    BY <2>1 DEF LineRange
<1>1. CASE N = 0
  <2>1. WithText(f, s) = {}
    <3>1. \A k \in 1 .. n : IsBlankText(f, s[k].start_line, s[k].end_line)
      BY <1>0, <1>1, <1>r DEF IsBlankText, NoLines
    <3> QED
      BY <1>0, <3>1 DEF WithText, HasText
  <2>2. cs = <<>>
    <3>1. 1 .. Cardinality({}) = {}
      BY FS_EmptySet
    <3> QED
      BY <2>1, <3>1 DEF At
  <2>3. HoldText(f, <<>>, 1, N)
    <3>1. \A line \in 1 .. N : f.lines[line].blank
      BY <1>1
    <3> QED
      BY <3>1, NothingHolds
  <2>4. Len(<<>>) = 0 /\ 1 .. 0 = {}
    OBVIOUS
  <2> HIDE DEF cs
  <2> QED
    BY <1>0, <2>2, <2>3, <2>4 DEF Chunked, cs
<1>2. CASE N # 0
  <2>1. InARow(s, n, 1, N)
    BY <1>0, <1>2, TilesInARow
  <2>2. HoldText(f, cs, 1, N) /\ Selects(cs, all, n)
    <3>1. 1 \in Int /\ N \in Int
      BY <1>0
    <3> HIDE DEF N, n, cs
    <3> QED
      BY <1>0, <2>1, <3>1, TextIsKept DEF cs
  <2> HIDE DEF cs
  <2>3. ASSUME NEW k \in 1 .. Len(cs), Oversized(f, cs[k]) PROVE Uncuttable(f, cs[k])
    <3>1. PICK x \in 1 .. n : cs[k] = all[x]
      BY <2>2 DEF Selects
    <3>2. /\ cs[k].start_line = s[x].start_line /\ cs[k].end_line = s[x].end_line
          /\ s[x].start_line \in Int /\ s[x].end_line \in Int
      BY <1>0, <1>r, <3>1
    <3>3. s[x].start_line <= s[x].end_line /\ 1 <= s[x].start_line /\ s[x].end_line <= N
      <4>1. 1 \in Int /\ N \in Int
        BY <1>0
      <4> HIDE DEF N, n
      <4> QED
        BY <2>1, <4>1, RowsCover DEF InARow
    <3>4. s[x].end_line <= s[x].start_line + 1 \/ ~f.allow_fallback
      <4>1. TextSize(f, s[x].start_line, s[x].end_line) \in Nat
        BY <1>0, <3>2, <3>3, TextGrows
      <4>2. ~(TextSize(f, s[x].start_line, s[x].end_line) <= f.target_size)
        BY <2>3, <3>2, <4>1, ChunkerAssumption DEF Oversized
      <4> QED
        BY <1>0, <4>2 DEF Stays
    <3> QED
      BY <3>2, <3>3, <3>4 DEF Uncuttable
  <2> QED
    BY <1>0, <2>2, <2>3 DEF Chunked, cs
<1> QED
  BY <1>1, <1>2

(* Chunks that lie apart in their order are already sorted by first line.   *)
LEMMA ChunksAreSorted ==
    ASSUME NEW cs, NEW n \in Nat, DOMAIN cs = 1 .. n, Apart(cs, n)
    PROVE  LET order == InOrder(DOMAIN cs, [k \in DOMAIN cs |-> cs[k].start_line])
           IN  \A k \in 1 .. n : order[k] = k
<1> DEFINE key == [k \in DOMAIN cs |-> cs[k].start_line]
           UpTo(y) == {x \in 1 .. n : key[x] < key[y] \/ (key[x] = key[y] /\ x <= y)}
<1>1. \A i, j \in 1 .. n : i < j => key[i] < key[j]
  BY DEF Apart
<1>k. \A i \in 1 .. n : key[i] \in Int
  BY DEF Apart
<1> HIDE DEF key
<1>2. ASSUME NEW y \in 1 .. n PROVE UpTo(y) = 1 .. y
  <2>1. ASSUME NEW x \in 1 .. n
        PROVE  (key[x] < key[y] \/ (key[x] = key[y] /\ x <= y)) <=> x <= y
    <3>1. CASE x < y
      BY <1>1, <3>1
    <3>2. CASE x = y
      BY <3>2
    <3>3. CASE y < x
      <4>1. key[y] < key[x] /\ key[x] \in Int /\ key[y] \in Int
        BY <1>1, <1>k, <3>3
      <4> QED
        BY <3>3, <4>1
    <3> QED
      BY <3>1, <3>2, <3>3
  <2> QED
    BY <2>1
<1>3. \A y \in 1 .. n : Cardinality(UpTo(y)) = y
  <2> SUFFICES ASSUME NEW y \in 1 .. n PROVE Cardinality(UpTo(y)) = y
    OBVIOUS
  <2>1. Cardinality(1 .. y) = y
    BY FS_Interval
  <2> QED
    BY <1>2, <2>1
<1>4. Cardinality(1 .. n) = n
  BY FS_Interval
<1>5. ASSUME NEW k \in 1 .. n
      PROVE  (CHOOSE y \in 1 .. n : Cardinality(UpTo(y)) = k) = k
  <2> HIDE DEF UpTo
  <2> QED
    BY <1>3
<1> QED
  BY <1>4, <1>5 DEF InOrder, key

(* Numbering the chunks leaves their lines and their sections alone.        *)
LEMMA NumberedIsChunked ==
    ASSUME NEW f, NEW cs, Chunked(f, cs), NEW res,
           LET order == InOrder(DOMAIN cs, [k \in DOMAIN cs |-> cs[k].start_line])
           IN  res = [k \in DOMAIN cs |-> [cs[order[k]] EXCEPT !.chunk_ordinal = k,
                                                               !.chunk_count = Len(cs)]]
    PROVE  Chunked(f, res)
<1> DEFINE order == InOrder(DOMAIN cs, [k \in DOMAIN cs |-> cs[k].start_line])
           n == Len(cs)
<1>1. /\ n \in Nat /\ DOMAIN cs = 1 .. n /\ Apart(cs, n)
      /\ \A k \in 1 .. n : HasFields(cs[k])
  BY DEF Chunked, HoldText
<1>2. \A k \in 1 .. n : order[k] = k
  BY <1>1, ChunksAreSorted
<1>3. res = [k \in DOMAIN cs |-> [cs[order[k]] EXCEPT !.chunk_ordinal = k,
                                                      !.chunk_count = n]]
  OBVIOUS
<1> HIDE DEF order, n
<1>4. res = [k \in 1 .. n |-> [cs[k] EXCEPT !.chunk_ordinal = k, !.chunk_count = n]]
  BY <1>1, <1>2, <1>3
<1>5. Len(res) = n /\ DOMAIN res = 1 .. n
  <2>1. DOMAIN res = 1 .. n /\ res = [k \in 1 .. n |-> res[k]]
    BY <1>4
  <2> QED
    BY ONLY <1>1, <2>1
<1>6. \A k \in 1 .. n : /\ HasFields(res[k])
                        /\ res[k].start_line = cs[k].start_line
                        /\ res[k].end_line = cs[k].end_line
                        /\ res[k].section = cs[k].section
                        /\ res[k].part = cs[k].part /\ res[k].parts = cs[k].parts
  BY <1>1, <1>4 DEF HasFields
<1>7. HoldText(f, res, FirstLine(f), Len(f.lines))
  <2>1. HoldText(f, cs, FirstLine(f), Len(f.lines)) /\ n = Len(cs)
    BY DEF Chunked, n
  <2>2. Apart(res, n)
    BY <1>1, <1>6 DEF Apart
  <2>3. \A k \in 1 .. n : /\ FirstLine(f) <= res[k].start_line
                          /\ res[k].end_line <= Len(f.lines)
    BY <1>6, <2>1 DEF HoldText
  <2>4. ASSUME NEW line \in FirstLine(f) .. Len(f.lines), ~f.lines[line].blank
        PROVE  \E k \in 1 .. n : Covers(res[k], line)
    <3>1. PICK k \in 1 .. n : Covers(cs[k], line)
      BY <2>1, <2>4 DEF HoldText
    <3> QED
      BY <1>6, <3>1 DEF Covers
  <2> QED
    BY <1>1, <1>5, <1>6, <2>2, <2>3, <2>4 DEF HoldText
<1>8. \A k \in 1 .. n : Oversized(f, res[k]) => Uncuttable(f, res[k])
  BY <1>6 DEF Chunked, Oversized, Uncuttable, n
<1>9. f.strategy = "markdown" => PartsNamed(res)
  <2>1. f.strategy = "markdown" => PartsNamed(cs)
    BY DEF Chunked
  <2>2. PartsNamed(cs) => PartsNamed(res)
    <3> SUFFICES ASSUME PartsNamed(cs), NEW j \in 1 .. n, NEW k \in 1 .. n, j < k,
                        res[j].section = res[k].section,
                        res[j].section # NoSection, res[j].section[1] # NoTitle
                 PROVE  PartsFollow(res[j], res[k])
      BY <1>5 DEF PartsNamed
    <3>1. PartsFollow(cs[j], cs[k])
      BY <1>6 DEF PartsNamed, n
    <3> QED
      BY <1>6, <3>1 DEF PartsFollow
  <2> QED
    BY <2>1, <2>2
<1> QED
  BY <1>5, <1>7, <1>8, <1>9 DEF Chunked

LEMMA Appended ==
    ASSUME NEW X, NEW s \in Seq(X), NEW e \in X
    PROVE  \A k \in DOMAIN Append(s, e) :
              (k \in DOMAIN s /\ Append(s, e)[k] = s[k]) \/ Append(s, e)[k] = e
<1>1. /\ Len(s) \in Nat /\ DOMAIN s = 1 .. Len(s)
      /\ DOMAIN Append(s, e) = 1 .. (Len(s) + 1)
      /\ \A k \in 1 .. Len(s) : Append(s, e)[k] = s[k]
      /\ Append(s, e)[Len(s) + 1] = e
  OBVIOUS
<1> QED
  BY <1>1

LEMMA TailHasNothingNew ==
    ASSUME NEW X, NEW s \in Seq(X), s # <<>>
    PROVE  /\ 1 \in DOMAIN s /\ Head(s) = s[1] /\ s[1] \in X
           /\ \A k \in DOMAIN Tail(s) : \E j \in DOMAIN s : Tail(s)[k] = s[j]
<1>1. /\ Len(s) \in Nat /\ Len(s) > 0 /\ DOMAIN s = 1 .. Len(s)
      /\ Tail(s) \in Seq(X) /\ Len(Tail(s)) = Len(s) - 1
      /\ \A i \in 1 .. (Len(s) - 1) : Tail(s)[i] = s[i + 1]
  BY HeadTailProperties, LenProperties, EmptySeq
<1>2. DOMAIN Tail(s) = 1 .. (Len(s) - 1)
  BY <1>1, LenProperties
<1>3. \A k \in 1 .. (Len(s) - 1) : k + 1 \in 1 .. Len(s)
  BY <1>1
<1>4. 1 \in DOMAIN s
  BY <1>1
<1> QED
  BY <1>1, <1>2, <1>3, <1>4, ElementOfSeq, HeadTailProperties

-----------------------------------------------------------------------------

(* Visiting a range that stays as it is.                                    *)
LEMMA StayKeepsInv ==
    ASSUME SplitInv, PassInv, pc \in {"pass", "descend"}, chunks # <<>>,
           Stays(file, Head(chunks)),
           chunks' = Tail(chunks), new_chunks' = Append(new_chunks, Head(chunks)),
           pc' = "pass", UNCHANGED <<file, changed>>
    PROVE  PassInv'
<1>1. /\ chunks \in Seq(LineRange) /\ new_chunks \in Seq(LineRange) /\ Splitting
  BY DEF SplitInv, Splitting
<1>2. /\ 1 \in DOMAIN chunks /\ Head(chunks) = chunks[1] /\ chunks[1] \in LineRange
      /\ \A k \in DOMAIN Tail(chunks) : \E j \in DOMAIN chunks : Tail(chunks)[k] = chunks[j]
  BY <1>1, TailHasNothingNew
<1>3. \A k \in DOMAIN new_chunks' :
         \/ k \in DOMAIN new_chunks /\ new_chunks'[k] = new_chunks[k]
         \/ new_chunks'[k] = Head(chunks)
  BY <1>1, <1>2, Appended
<1>4. ~changed => \A k \in DOMAIN new_chunks' : Stays(file, new_chunks'[k])
  BY <1>1, <1>3 DEF PassInv
<1>5. Len(file.lines) = 0 =>
         /\ \A k \in DOMAIN chunks' : NoLines(chunks'[k])
         /\ \A k \in DOMAIN new_chunks' : NoLines(new_chunks'[k])
  BY <1>1, <1>2, <1>3 DEF PassInv
<1> QED
  BY <1>4, <1>5 DEF PassInv, Stays, NoLines

(* Cutting a range.                                                         *)
LEMMA CutKeepsPassInv ==
    ASSUME SplitInv, PassInv, pc = "descend", NEW line, NEW mark,
           SplitAt(line, mark), UNCHANGED file
    PROVE  PassInv'
BY DEF SplitInv, PassInv, Splitting, SplitAt

LEMMA NextPassInv == SplitInv /\ PassInv /\ [Next]_vars => PassInv'
<1> SUFFICES ASSUME SplitInv, PassInv, [Next]_vars PROVE PassInv'
  OBVIOUS
<1>t. file \in Files /\ Len(file.lines) \in Nat /\ file.target_size \in Nat
  BY ChunkerAssumption DEF SplitInv
<1>1. CASE StartTypeScript
  <2>1. /\ new_chunks' = <<>> /\ pc' = "pass" /\ ~changed' /\ UNCHANGED file
        /\ chunks' = <<ChunkRange(1, Len(file.lines), "content")>>
    BY <1>1 DEF StartTypeScript, PassInv
  <2>2. DOMAIN <<>> = {} /\ \A e : DOMAIN <<e>> = {1} /\ <<e>>[1] = e
    OBVIOUS
  <2>3. Len(file.lines) = 0 => NoLines(ChunkRange(1, Len(file.lines), "content"))
    BY DEF NoLines, ChunkRange
  <2> QED
    BY <2>1, <2>2, <2>3 DEF PassInv, Stays, NoLines
<1>2. CASE KeepRange
  <2>1. Stays(file, Head(chunks))
    BY <1>2 DEF KeepRange, Current, Stays
  <2> QED
    BY <1>2, <2>1, StayKeepsInv DEF KeepRange
<1>3. CASE StartSplit
  <2>1. chunks # <<>> /\ pc = "pass" /\ Splitting /\ chunks \in Seq(LineRange)
    BY <1>3 DEF StartSplit, SplitInv, Splitting
  <2>2. Len(file.lines) # 0
    <3> SUFFICES ASSUME Len(file.lines) = 0 PROVE FALSE
      OBVIOUS
    <3>1. 1 \in DOMAIN chunks /\ Head(chunks) = chunks[1] /\ chunks[1] \in LineRange
      BY <2>1, TailHasNothingNew
    <3>2. NoLines(Head(chunks))
      BY <2>1, <3>1 DEF PassInv
    <3>3. Current.size = 0
      BY <3>1, <3>2 DEF Current, TextSize, NoLines, LineRange
    <3> QED
      BY <1>3, <1>t, <3>3 DEF StartSplit
  <2> QED
    BY <1>3, <2>1, <2>2 DEF StartSplit, PassInv, Splitting, Stays, NoLines
<1>4. CASE SplitAtScope
  BY <1>4, CutKeepsPassInv DEF SplitAtScope
<1>5. CASE DescendScope
  BY <1>5 DEF DescendScope, PassInv, Splitting, Stays, NoLines
<1>6. CASE SplitAtLeastBad
  BY <1>6, CutKeepsPassInv DEF SplitAtLeastBad
<1>7. CASE SplitInMiddle
  BY <1>7, CutKeepsPassInv DEF SplitInMiddle
<1>8. CASE CannotSplit
  <2>1. chunks # <<>> /\ chunks \in Seq(LineRange)
    BY <1>8 DEF CannotSplit, SplitInv
  <2>2. Head(chunks) \in LineRange
    BY <2>1, TailHasNothingNew
  <2>3. Current.start_line \in Int /\ Current.end_line \in Int
    BY <2>2 DEF Current, LineRange
  <2>4. ~HasMiddle => Current.end_line <= Current.start_line + 1
    BY <2>3 DEF HasMiddle, MiddleLine
  <2>5. Stays(file, Head(chunks))
    BY <1>8, <2>4 DEF CannotSplit, Stays, Current
  <2> QED
    BY <1>8, <2>1, <2>5, StayKeepsInv DEF CannotSplit, LeaveOversized
<1>9. CASE EndPass
  <2>1. pc = "pass" /\ Splitting /\ UNCHANGED file
    BY <1>9 DEF EndPass, SplitInv, Splitting
  <2>2. CASE changed
    <3>1. /\ chunks' = new_chunks /\ new_chunks' = <<>> /\ ~changed' /\ pc' = "pass"
          /\ DOMAIN <<>> = {}
      BY <1>9, <2>2 DEF EndPass
    <3> QED
      BY <2>1, <3>1 DEF PassInv, Stays, NoLines
  <2>3. CASE ~changed
    <3>1. UNCHANGED <<chunks, new_chunks, changed>> /\ pc' = "finalize"
      BY <1>9, <2>3 DEF EndPass
    <3> QED
      BY <2>1, <2>3, <3>1 DEF PassInv, Splitting, Stays, NoLines
  <2> QED
    BY <2>2, <2>3
<1>10. CASE ChunkMarkdown \/ ChunkLines \/ SkipFile \/ Finalize \/ AssignOrdinals
  BY <1>10 DEF ChunkMarkdown, ChunkLines, SkipFile, Finalize, AssignOrdinals, PassInv, Splitting
<1>11. CASE UNCHANGED vars
  BY <1>11 DEF vars, PassInv, Splitting, Stays, NoLines
<1> QED
  BY <1>1, <1>2, <1>3, <1>4, <1>5, <1>6, <1>7, <1>8, <1>9, <1>10, <1>11
     DEF Next, PartitionTypeScript

LEMMA NextChunkedInv ==
    SplitInv /\ PassInv /\ ChunkedInv /\ [Next]_vars => ChunkedInv'
<1> SUFFICES ASSUME SplitInv, PassInv, ChunkedInv, [Next]_vars PROVE ChunkedInv'
  OBVIOUS
<1>t. file \in Files
  BY DEF SplitInv
<1>1. CASE ChunkMarkdown
  <2>1. file.strategy = "markdown" /\ result' = PartitionMarkdown(file) /\ UNCHANGED file
    BY <1>1 DEF ChunkMarkdown
  <2> DEFINE cs == PartitionMarkdown(file)
  <2>2. /\ HoldText(file, cs, FirstLine(file), Len(file.lines)) /\ PartsNamed(cs)
        /\ SectionStarts(file) # {} => \A k \in 1 .. Len(cs) : SmallOrPart(file, cs[k])
    BY <1>t, <2>1, MarkdownIsChunked DEF FirstLine
  <2> HIDE DEF cs
  <2>3. Chunked(file, cs)
    BY <2>1, <2>2 DEF Chunked, SmallOrPart, Uncuttable
  <2> QED
    BY <2>1, <2>3 DEF ChunkedInv, cs
<1>2. CASE ChunkLines
  <2>1. file.strategy = "lineBased" /\ result' = ChunkByLines(file) /\ UNCHANGED file
    BY <1>2 DEF ChunkLines
  <2> DEFINE cs == ChunkByLines(file)
  <2>2. /\ HoldText(file, cs, FirstLine(file), Len(file.lines))
        /\ \A k \in DOMAIN cs : Oversized(file, cs[k]) => cs[k].start_line = cs[k].end_line
    BY <1>t, <2>1, LinesAreChunked DEF FirstLine
  <2>3. DOMAIN cs = 1 .. Len(cs)
    BY <2>2 DEF HoldText
  <2> HIDE DEF cs
  <2>4. Chunked(file, cs)
    BY <2>1, <2>2, <2>3 DEF Chunked, Uncuttable
  <2> QED
    BY <2>1, <2>4 DEF ChunkedInv, cs
<1>3. CASE SkipFile
  BY <1>3 DEF SkipFile, ChunkedInv
<1>4. CASE Finalize
  <2> DEFINE all == [k \in DOMAIN new_chunks |->
                      LET r == new_chunks[k]
                      IN  Chunk(r, ChunkKind(r),
                                BestNode(file, r.start_line, r.end_line),
                                NoSection, None, None)]
  <2>1. result' = At(all, WithText(file, new_chunks)) /\ pc = "finalize" /\ UNCHANGED file
    BY <1>4 DEF Finalize
  <2>2. \A k \in DOMAIN new_chunks : /\ HasFields(all[k])
                                     /\ all[k].start_line = new_chunks[k].start_line
                                     /\ all[k].end_line = new_chunks[k].end_line
    BY DEF Chunk, HasFields
  <2>3. /\ file.strategy = "typescript" /\ ~changed /\ Splitting
        /\ new_chunks \in Seq(LineRange) /\ chunks = <<>>
    BY <2>1 DEF PassInv, SplitInv, Splitting
  <2>4. Tiles(new_chunks, 1, Len(file.lines))
    <3>1. new_chunks \o <<>> = new_chunks
      BY <2>3, ConcatEmptySeq
    <3> QED
      BY <2>3, <3>1 DEF SplitInv
  <2>5. /\ Len(file.lines) = 0 => \A k \in DOMAIN new_chunks : NoLines(new_chunks[k])
        /\ \A k \in DOMAIN new_chunks : Stays(file, new_chunks[k])
    BY <2>3 DEF PassInv
  <2> HIDE DEF all
  <2>6. Chunked(file, At(all, WithText(file, new_chunks)))
    BY <1>t, <2>2, <2>3, <2>4, <2>5, RangesAreChunked
  <2> QED
    BY <2>1, <2>6 DEF ChunkedInv
<1>5. CASE AssignOrdinals
  <2>1. pc = "assign" /\ UNCHANGED file
    BY <1>5 DEF AssignOrdinals
  <2>2. CASE file.strategy # "skip"
    <3>1. Chunked(file, result)
      BY <2>1, <2>2 DEF ChunkedInv
    <3>2. Chunked(file, result')
      BY <1>5, <3>1, NumberedIsChunked DEF AssignOrdinals
    <3> QED
      BY <2>1, <3>2 DEF ChunkedInv
  <2> QED
    BY <2>1, <2>2 DEF ChunkedInv
<1>6. CASE StartTypeScript \/ EndPass
  BY <1>6 DEF StartTypeScript, EndPass, ChunkedInv
<1>7. CASE KeepRange \/ StartSplit \/ DescendScope \/ CannotSplit
  BY <1>7 DEF KeepRange, StartSplit, DescendScope, CannotSplit, LeaveOversized, ChunkedInv
<1>8. CASE SplitAtScope \/ SplitAtLeastBad \/ SplitInMiddle
  BY <1>8 DEF SplitAtScope, SplitAtLeastBad, SplitInMiddle, SplitAt, ChunkedInv
<1>9. CASE UNCHANGED vars
  BY <1>9 DEF vars, ChunkedInv
<1> QED
  BY <1>1, <1>2, <1>3, <1>4, <1>5, <1>6, <1>7, <1>8, <1>9 DEF Next, PartitionTypeScript

LEMMA ChunkedInvariant == Spec => [](SplitInv /\ PassInv /\ ChunkedInv)
<1>1. Init => PassInv /\ ChunkedInv
  BY DEF Init, PassInv, ChunkedInv, Splitting
<1> QED
  BY <1>1, InitSplitInv, NextSplitInv, NextPassInv, NextChunkedInv, PTL DEF Spec

(* When a file is chunked, a line with text is in exactly one chunk,        *)
(* whatever the strategy; the text above the first heading of a Markdown    *)
(* file is in none, and no two chunks overlap.                              *)
THEOREM ChunksHoldTheText == Spec => []LinesInOneChunk
<1>1. ASSUME SplitInv, ChunkedInv PROVE LinesInOneChunk
  <2> SUFFICES ASSUME pc = "done", file.strategy # "skip", NEW line \in FileLines
               PROVE  /\ Cardinality(ChunkAt(line)) <= 1
                      /\ ~file.lines[line].blank /\ ~AboveFirstHeading(line) =>
                            ChunkAt(line) # {}
    BY DEF LinesInOneChunk
  <2> DEFINE n == Len(result)
  <2>1. /\ n \in Nat /\ DOMAIN result = 1 .. n /\ Apart(result, n)
        /\ \A l \in FirstLine(file) .. Len(file.lines) :
              ~file.lines[l].blank => \E k \in 1 .. n : Covers(result[k], l)
    BY <1>1 DEF ChunkedInv, Chunked, HoldText
  <2>2. Len(file.lines) \in Nat /\ line \in 1 .. Len(file.lines)
    BY <1>1, ChunkerAssumption DEF SplitInv, FileLines
  <2> HIDE DEF n
  <2>3. \A j, k \in ChunkAt(line) : j = k
    <3>1. ASSUME NEW j \in 1 .. n, NEW k \in 1 .. n, j < k,
                 Covers(result[j], line), Covers(result[k], line)
          PROVE  FALSE
      BY <2>1, <2>2, <3>1 DEF Apart, Covers
    <3> QED
      BY <2>1, <3>1 DEF ChunkAt
  <2>4. Cardinality(ChunkAt(line)) <= 1
    <3>1. CASE ChunkAt(line) = {}
      BY <3>1, FS_EmptySet
    <3>2. CASE ChunkAt(line) # {}
      <4>1. PICK k : ChunkAt(line) = {k}
        BY <2>3, <3>2
      <4>2. Cardinality({k}) = 1
        BY FS_Singleton, Zenon
      <4> QED
        BY <4>1, <4>2
    <3> QED
      BY <3>1, <3>2
  <2>5. ASSUME ~file.lines[line].blank, ~AboveFirstHeading(line)
        PROVE  ChunkAt(line) # {}
    <3>1. line \in FirstLine(file) .. Len(file.lines)
      <4>1. CASE file.strategy = "markdown" /\ SectionStarts(file) # {}
        <5>1. Min(SectionStarts(file)) \in 1 .. Len(file.lines)
          BY <1>1, <4>1, SectionsFollow DEF SplitInv
        <5> QED
          BY <2>2, <2>5, <4>1, <5>1 DEF AboveFirstHeading, FirstLine
      <4> QED
        BY <2>2, <4>1 DEF FirstLine
    <3> QED
      BY <2>1, <2>5, <3>1 DEF ChunkAt
  <2> QED
    BY <2>4, <2>5
<1> QED
  BY <1>1, ChunkedInvariant, PTL

(* A chunk is over the target only where nothing could be cut, whatever the *)
(* strategy.                                                                *)
THEOREM OnlyTheUncuttableIsOversized == Spec => []OversizedIsUncuttable
<1>1. ASSUME ChunkedInv PROVE OversizedIsUncuttable
  <2> SUFFICES ASSUME pc = "done", file.strategy # "skip", NEW k \in DOMAIN result,
                      OverTarget(result[k])
               PROVE  Uncuttable(file, result[k])
    BY DEF OversizedIsUncuttable, Uncuttable
  <2>1. Chunked(file, result)
    BY <1>1 DEF ChunkedInv
  <2>2. k \in 1 .. Len(result)
    BY <2>1 DEF Chunked, HoldText
  <2> QED
    BY <2>1, <2>2 DEF Chunked, Oversized, OverTarget
<1> QED
  BY <1>1, ChunkedInvariant, PTL

(* The parts of a Markdown section that was cut carry one name, increasing  *)
(* numbers and one count, and no other section carries that name unless its *)
(* heading is empty.                                                        *)
THEOREM PartsAreNumbered == Spec => []PartsNameTheirSection
<1>1. ASSUME ChunkedInv PROVE PartsNameTheirSection
  <2> SUFFICES ASSUME pc = "done", file.strategy = "markdown",
                      NEW j \in DOMAIN result, NEW k \in DOMAIN result,
                      result[j].section = result[k].section, j < k,
                      result[j].section # NoSection, result[j].section[1] # NoTitle
               PROVE  PartsFollow(result[j], result[k])
    BY DEF PartsNameTheirSection, PartsFollow
  <2>1. Chunked(file, result)
    BY <1>1 DEF ChunkedInv
  <2>2. j \in 1 .. Len(result) /\ k \in 1 .. Len(result) /\ PartsNamed(result)
    BY <2>1 DEF Chunked, HoldText
  <2> QED
    BY <2>2 DEF PartsNamed
<1> QED
  BY <1>1, ChunkedInvariant, PTL

-----------------------------------------------------------------------------

(* A name in the grammar: segments, none of them empty, between separators.       *)
Segmented(name, separators) ==
    /\ Len(name) > 0
    /\ \A i \in 1 .. Len(name) : name[i] \in Alphanumerics \cup separators
    /\ name[1] \notin separators /\ name[Len(name)] \notin separators
    /\ \A i \in 2 .. Len(name) : ~(name[i - 1] \in separators /\ name[i] \in separators)

LEMMA GrammarIsSegments ==
    ASSUME NEW X, NEW name \in Seq(X), NEW separators, NEW maximum
    PROVE  InGrammar(name, separators, maximum) <=>
              Segmented(name, separators) /\ Len(name) <= maximum
<1> DEFINE n == Len(name)
           borders == {0, n + 1} \cup {i \in 1 .. n : name[i] \in separators}
<1>1. n \in Nat /\ DOMAIN name = 1 .. n
  OBVIOUS
<1>2. InGrammar(name, separators, maximum) <=>
         /\ n <= maximum
         /\ \A i \in 1 .. n : name[i] \in Alphanumerics \cup separators
         /\ \A i, j \in borders : i < j => j > i + 1
  BY <1>1 DEF InGrammar
<1>b. /\ 0 \in borders /\ n + 1 \in borders
      /\ \A i \in 1 .. n : i \in borders <=> name[i] \in separators
      /\ \A i \in borders : i \in 0 .. (n + 1)
  BY <1>1
<1> HIDE DEF n, borders
<1>3. ASSUME \A i, j \in borders : i < j => j > i + 1
      PROVE  /\ n > 0 /\ name[1] \notin separators /\ name[n] \notin separators
             /\ \A i \in 2 .. n : ~(name[i - 1] \in separators /\ name[i] \in separators)
  <2>1. n > 0
    <3>1. 0 < n + 1
      BY <1>1
    <3>2. n + 1 > 0 + 1
      BY <1>b, <1>3, <3>1
    <3> QED
      BY <1>1, <3>2
  <2>2. name[1] \notin separators
    <3>1. 1 \notin borders
      BY <1>b, <1>3
    <3> QED
      BY <1>1, <1>b, <2>1, <3>1
  <2>3. name[n] \notin separators
    <3>1. n \in 1 .. n /\ n < n + 1 /\ ~(n + 1 > n + 1)
      BY <1>1, <2>1
    <3>2. n \notin borders
      BY <1>b, <1>3, <3>1
    <3> QED
      BY <1>b, <3>1, <3>2
  <2>4. ASSUME NEW i \in 2 .. n, name[i - 1] \in separators, name[i] \in separators
        PROVE  FALSE
    <3>1. i - 1 \in 1 .. n /\ i \in 1 .. n /\ i - 1 < i /\ ~(i > (i - 1) + 1)
      BY <1>1
    <3>2. i - 1 \in borders /\ i \in borders
      BY <1>b, <2>4, <3>1
    <3> QED
      BY <1>3, <3>1, <3>2
  <2> QED
    BY <2>1, <2>2, <2>3, <2>4
<1>4. ASSUME n > 0, name[1] \notin separators, name[n] \notin separators,
             \A i \in 2 .. n : ~(name[i - 1] \in separators /\ name[i] \in separators),
             NEW i \in borders, NEW j \in borders, i < j
      PROVE  j > i + 1
  <2>1. i \in 0 .. (n + 1) /\ j \in 0 .. (n + 1)
    BY <1>b
  <2>2. ASSUME j = i + 1 PROVE FALSE
    <3>1. CASE i = 0
      <4>1. j = 1 /\ 1 \in 1 .. n
        BY <1>1, <1>4, <2>2, <3>1
      <4> QED
        BY <1>b, <1>4, <4>1
    <3>2. CASE j = n + 1
      <4>1. i = n /\ n \in 1 .. n
        BY <1>1, <1>4, <2>1, <2>2, <3>2
      <4> QED
        BY <1>b, <1>4, <4>1
    <3>3. CASE i # 0 /\ j # n + 1
      <4>1. j \in 2 .. n /\ j - 1 = i /\ i \in 1 .. n /\ j \in 1 .. n
        BY <1>1, <2>1, <2>2, <3>3
      <4> QED
        BY <1>b, <1>4, <4>1
    <3> QED
      BY <3>1, <3>2, <3>3
  <2> QED
    BY <1>1, <1>4, <2>1, <2>2
<1> QED
  BY <1>2, <1>3, <1>4 DEF Segmented, n

LEMMA CatalogsAreSegments ==
    ASSUME NEW X, NEW name \in Seq(X)
    PROVE  ValidCatalog(name) <=>
              Segmented(name, {Hyphen}) /\ Len(name) <= MaxCatalogLength
<1>1. Len(name) \in Nat /\ DOMAIN name = 1 .. Len(name) /\ (name # <<>> <=> Len(name) > 0)
  BY LenProperties, EmptySeq
<1>2. name # <<>> => Head(name) = name[1] /\ Last(name) = name[Len(name)]
  BY <1>1 DEF Last
<1> QED
  BY <1>1, <1>2, Zenon DEF ValidCatalog, Segmented

(* What the validator of labels has seen of the first i characters.               *)
Seen(name, s, i) ==
    /\ s \in [length : Nat, rejected : BOOLEAN]
    /\ s.length = 0 <=> (i = 0 \/ name[i] \notin Alphanumerics)
    /\ s.rejected <=> \E k \in 1 .. i :
          \/ name[k] \notin Alphanumerics \cup LabelSeparators
          \/ name[k] \in LabelSeparators /\ (k = 1 \/ name[k - 1] \notin Alphanumerics)

LEMMA SegmentsAreSeen ==
    ASSUME NEW name, NEW i \in Nat, NEW s, Seen(name, s, i)
    PROVE  Seen(name, SegmentStep(s, name[i + 1]), i + 1)
<1> DEFINE Bad(k) == \/ name[k] \notin Alphanumerics \cup LabelSeparators
                     \/ name[k] \in LabelSeparators /\ (k = 1 \/ name[k - 1] \notin Alphanumerics)
           t == SegmentStep(s, name[i + 1])
<1>1. s.length \in Nat /\ s.rejected \in BOOLEAN
  BY DEF Seen
<1>2. t \in [length : Nat, rejected : BOOLEAN]
  BY <1>1 DEF SegmentStep
<1>3. t.length = 0 <=> name[i + 1] \notin Alphanumerics
  BY <1>1 DEF SegmentStep
<1>4. t.rejected <=> s.rejected \/ Bad(i + 1)
  <2>1. (i + 1 = 1 <=> i = 0) /\ (i + 1) - 1 = i
    OBVIOUS
  <2>2. s.length = 0 <=> (i + 1 = 1 \/ name[(i + 1) - 1] \notin Alphanumerics)
    BY <2>1 DEF Seen
  <2> QED
    BY <2>2, Zenon DEF SegmentStep
<1>5. (\E k \in 1 .. (i + 1) : Bad(k)) <=> (\E k \in 1 .. i : Bad(k)) \/ Bad(i + 1)
  <2>1. 1 .. (i + 1) = (1 .. i) \cup {i + 1}
    OBVIOUS
  <2> HIDE DEF Bad
  <2> QED
    BY <2>1, Zenon
<1>6. s.rejected <=> \E k \in 1 .. i : Bad(k)
  BY DEF Seen
<1>7. i + 1 # 0
  OBVIOUS
<1> HIDE DEF t
<1> QED
  BY <1>2, <1>3, <1>4, <1>5, <1>6, <1>7, Zenon DEF Seen, t

LEMMA LabelsAreSegments ==
    ASSUME NEW X, NEW name \in Seq(X)
    PROVE  ValidLabel(name) <=>
              Segmented(name, LabelSeparators) /\ Len(name) <= MaxLabelLength
<1> DEFINE n == Len(name)
           none == [length |-> 0, rejected |-> FALSE]
           seen == CHOOSE g : g = [i \in 0 .. n |->
                       IF i = 0 THEN none ELSE SegmentStep(g[i - 1], name[i])]
           V == [length : Nat, rejected : BOOLEAN]
           op == [x \in V \X ((0 + 1) .. n) |-> SegmentStep(x[1], name[x[2]])]
<1>1. n \in Nat /\ (name # <<>> <=> n > 0) /\ 0 \in Int /\ n \in Int
  BY LenProperties, EmptySeq
<1>2. ValidLabel(name) <=>
         n > 0 /\ n <= MaxLabelLength /\ ~seen[n].rejected /\ seen[n].length > 0
  BY <1>1 DEF ValidLabel
<1>3. none \in V /\ op \in [V \X ((0 + 1) .. n) -> V]
  <2>1. \A s \in V : \A ch : SegmentStep(s, ch) \in V
    BY DEF SegmentStep
  <2>2. \A x \in V \X ((0 + 1) .. n) : x[1] \in V
    OBVIOUS
  <2> HIDE DEF V
  <2>3. \A x \in V \X ((0 + 1) .. n) : SegmentStep(x[1], name[x[2]]) \in V
    BY <2>1, <2>2
  <2>4. none \in V
    BY DEF V
  <2> QED
    BY <2>3, <2>4
<1>4. PICK g \in [0 .. n -> V] : IsRecursion(g, 0, n, none, op)
  <2> HIDE DEF op, V, none, n
  <2> QED
    BY ONLY <1>1, <1>3, RecursionExists
<1>5. \A i \in 0 .. n : g[i] = IF i = 0 THEN none ELSE SegmentStep(g[i - 1], name[i])
  <2> SUFFICES ASSUME NEW i \in 0 .. n
               PROVE  g[i] = IF i = 0 THEN none ELSE SegmentStep(g[i - 1], name[i])
    OBVIOUS
  <2>1. g[i] = IF i = 0 THEN none ELSE op[<<g[i - 1], i>>]
    <3> HIDE DEF op, none, V
    <3> QED
      BY <1>4 DEF IsRecursion
  <2>2. CASE i # 0
    <3>1. i - 1 \in 0 .. n /\ i \in (0 + 1) .. n
      BY <2>2
    <3> HIDE DEF V, none
    <3>2. g[i - 1] \in V
      BY <3>1
    <3>3. op[<<g[i - 1], i>>] = SegmentStep(g[i - 1], name[i])
      BY <3>1, <3>2
    <3> QED
      BY <2>1, <2>2, <3>3
  <2> QED
    BY <2>1, <2>2
<1>6. seen = [i \in 0 .. n |-> IF i = 0 THEN none ELSE SegmentStep(seen[i - 1], name[i])]
  <2>1. g = [i \in 0 .. n |-> IF i = 0 THEN none ELSE SegmentStep(g[i - 1], name[i])]
    BY <1>5
  <2> HIDE DEF op, V, none, n
  <2> QED
    BY <2>1, Zenon
<1> HIDE DEF seen, op, V
<1> DEFINE A == {i \in 0 .. n : Seen(name, seen[i], i)}
<1>7. 0 .. n \subseteq A
  <2>1. 0 \in A
    <3>1. 0 \in 0 .. n /\ seen[0] = none
      BY <1>1, <1>6
    <3>2. Seen(name, none, 0)
      BY DEF Seen
    <3> QED
      BY <3>1, <3>2
  <2>2. ASSUME NEW i \in 0 .. (n - 1), i \in A PROVE i + 1 \in A
    <3>1. i + 1 \in 0 .. n /\ i \in Nat /\ i + 1 # 0 /\ (i + 1) - 1 = i
      BY <1>1
    <3>2. seen[i + 1] = SegmentStep(seen[i], name[i + 1])
      BY <1>6, <3>1
    <3>3. Seen(name, SegmentStep(seen[i], name[i + 1]), i + 1)
      BY <2>2, <3>1, SegmentsAreSeen
    <3> QED
      BY <3>1, <3>2, <3>3
  <2> HIDE DEF A, n
  <2> QED
    BY ONLY <1>1, <2>1, <2>2, IntervalInduction
<1>8. Seen(name, seen[n], n)
  BY <1>1, <1>7
<1> DEFINE end == seen[n]
<1> HIDE DEF end, n
<1>9. /\ end.length \in Nat
      /\ end.length > 0 <=> (n > 0 /\ name[n] \in Alphanumerics)
      /\ end.rejected <=> \E k \in 1 .. n :
            \/ name[k] \notin Alphanumerics \cup LabelSeparators
            \/ name[k] \in LabelSeparators /\ (k = 1 \/ name[k - 1] \notin Alphanumerics)
  BY <1>1, <1>8 DEF Seen, end
<1>10. ASSUME n > 0, ~end.rejected, end.length > 0
       PROVE  Segmented(name, LabelSeparators)
  <2>1. \A k \in 1 .. n :
           /\ name[k] \in Alphanumerics \cup LabelSeparators
           /\ name[k] \in LabelSeparators => k # 1 /\ name[k - 1] \in Alphanumerics
    BY <1>9, <1>10
  <2>2. 1 \in 1 .. n /\ n \in 1 .. n
    BY <1>1, <1>10
  <2>3. \A k \in 2 .. n : k \in 1 .. n /\ k - 1 \in 1 .. n
    BY <1>1
  <2>4. \A ch : ~(ch \in Alphanumerics /\ ch \in LabelSeparators)
    BY AlphabetAssumption
  <2>5. name[n] \in Alphanumerics
    BY <1>9, <1>10
  <2> QED
    BY <1>10, <2>1, <2>2, <2>3, <2>4, <2>5 DEF Segmented, n
<1>11. ASSUME Segmented(name, LabelSeparators)
       PROVE  n > 0 /\ ~end.rejected /\ end.length > 0
  <2>1. /\ n > 0 /\ name[1] \notin LabelSeparators /\ name[n] \notin LabelSeparators
        /\ \A k \in 1 .. n : name[k] \in Alphanumerics \cup LabelSeparators
        /\ \A k \in 2 .. n : ~(name[k - 1] \in LabelSeparators /\ name[k] \in LabelSeparators)
    BY <1>11 DEF Segmented, n
  <2>2. n \in 1 .. n /\ \A k \in 1 .. n : k # 1 => k \in 2 .. n /\ k - 1 \in 1 .. n
    BY <1>1, <2>1
  <2>3. name[n] \in Alphanumerics
    BY <2>1, <2>2
  <2>4. ASSUME NEW k \in 1 .. n, name[k] \in LabelSeparators
        PROVE  k # 1 /\ name[k - 1] \in Alphanumerics
    BY <2>1, <2>2, <2>4
  <2> QED
    BY <1>9, <2>1, <2>3, <2>4
<1> QED
  BY <1>2, <1>10, <1>11 DEF end, n

(* A stored identifier is accepted exactly if it can be read as a catalog and a    *)
(* label in their grammars, and then in one way: the catalog ends at the first     *)
(* colon, since no catalog name has one.                                           *)
LEMMA IdsFollowTheGrammar ==
    ASSUME NEW X, NEW id \in Seq(X)
    PROVE  IdGrammar(id)
<1> DEFINE n == Len(id)
           colons == {i \in 1 .. n : id[i] = Colon}
           before(i) == SubSeq(id, 1, i - 1)
           after(i) == SubSeq(id, i + 1, n)
           readings == {i \in colons :
                           /\ InGrammar(before(i), {Hyphen}, MaxCatalogLength)
                           /\ InGrammar(after(i), LabelSeparators, MaxLabelLength)}
<1>1. n \in Nat /\ DOMAIN id = 1 .. n
  OBVIOUS
<1>2. ASSUME NEW i \in 1 .. n
      PROVE  /\ before(i) \in Seq(X) /\ Len(before(i)) = i - 1
             /\ \A k \in 1 .. (i - 1) : before(i)[k] = id[k]
             /\ after(i) \in Seq(X)
  <2>1. i \in Int /\ 1 <= i /\ i <= n
    OBVIOUS
  <2>2. \A k \in 1 .. n : id[k] \in X
    BY ElementOfSeq
  <2> QED
    BY <1>1, <2>1, <2>2, SubSeqProperties
<1>3. \A i \in colons : i \in readings <=>
         ValidCatalog(before(i)) /\ ValidLabel(after(i))
  <2> SUFFICES ASSUME NEW i \in colons
               PROVE  i \in readings <=> ValidCatalog(before(i)) /\ ValidLabel(after(i))
    OBVIOUS
  <2>1. before(i) \in Seq(X) /\ after(i) \in Seq(X)
    BY <1>2
  <2> HIDE DEF before, after, colons
  <2>2. InGrammar(before(i), {Hyphen}, MaxCatalogLength) <=> ValidCatalog(before(i))
    BY <2>1, GrammarIsSegments, CatalogsAreSegments
  <2>3. InGrammar(after(i), LabelSeparators, MaxLabelLength) <=> ValidLabel(after(i))
    BY <2>1, GrammarIsSegments, LabelsAreSegments
  <2> QED
    BY <2>2, <2>3
<1>4. ASSUME NEW i \in readings, NEW c \in colons PROVE ~(c < i)
  <2>1. i \in 1 .. n /\ c \in 1 .. n /\ id[c] = Colon
    OBVIOUS
  <2>2. Segmented(before(i), {Hyphen})
    <3>1. before(i) \in Seq(X) /\ InGrammar(before(i), {Hyphen}, MaxCatalogLength)
      BY <1>2, <2>1
    <3> HIDE DEF before
    <3> QED
      BY <3>1, GrammarIsSegments
  <2>3. ASSUME c < i PROVE FALSE
    <3>1. c \in 1 .. (i - 1)
      BY <2>1, <2>3
    <3>2. before(i)[c] \in Alphanumerics \cup {Hyphen}
      BY <1>2, <2>1, <2>2, <3>1 DEF Segmented
    <3>3. before(i)[c] = Colon
      BY <1>2, <2>1, <3>1
    <3> QED
      BY <3>2, <3>3, AlphabetAssumption
  <2> QED
    BY <2>3
<1>5. ParsesAsLabelId(id) <=> colons # {} /\ Min(colons) \in readings
  <2>1. ParsesAsLabelId(id) <=> /\ colons # {}
                                /\ ValidCatalog(before(Min(colons)))
                                /\ ValidLabel(after(Min(colons)))
    BY <1>1 DEF ParsesAsLabelId
  <2>2. colons # {} => Min(colons) \in colons
    <3>1. colons \in SUBSET Nat
      OBVIOUS
    <3> HIDE DEF colons
    <3> QED
      BY <3>1, LeastNatural
  <2> HIDE DEF colons, readings, before, after
  <2> QED
    BY <1>3, <2>1, <2>2
<1>6. IdGrammar(id) <=> ParsesAsLabelId(id) = (\E i \in readings : readings = {i})
  <2>1. readings = {i \in DOMAIN id :
                       /\ id[i] = Colon
                       /\ InGrammar(SubSeq(id, 1, i - 1), {Hyphen}, MaxCatalogLength)
                       /\ InGrammar(SubSeq(id, i + 1, Len(id)), LabelSeparators,
                                    MaxLabelLength)}
    BY <1>1
  <2> HIDE DEF readings
  <2> QED
    BY <2>1, Zenon DEF IdGrammar
<1>7. readings \subseteq colons /\ colons \in SUBSET Nat
  OBVIOUS
<1> HIDE DEF readings, colons, before, after
<1>8. colons # {} => Min(colons) \in colons /\ \A c \in colons : Min(colons) <= c
  BY <1>7, LeastNatural
<1>9. \A i \in readings : colons # {} /\ i = Min(colons)
  <2> SUFFICES ASSUME NEW i \in readings PROVE colons # {} /\ i = Min(colons)
    OBVIOUS
  <2>1. i \in colons /\ i \in Nat
    BY <1>7
  <2>2. Min(colons) \in Nat /\ Min(colons) <= i /\ ~(Min(colons) < i)
    BY <1>4, <1>7, <1>8, <2>1
  <2> QED
    BY <2>1, <2>2
<1>10. (\E i \in readings : readings = {i}) <=> colons # {} /\ Min(colons) \in readings
  BY <1>9
<1>11. ParsesAsLabelId(id) \in BOOLEAN
  BY DEF ParsesAsLabelId
<1> QED
  BY <1>5, <1>6, <1>10, <1>11

(* Any text taken for a stored identifier is accepted exactly if the        *)
(* grammar in the comments of the validators reads it as a catalog and a    *)
(* label, and then in one way (LabelId::parse, src/engine/identifier.rs).   *)
THEOREM NamesFollowTheGrammar == PipelineSpec => []LabelIdsFollowTheGrammar
<1> DEFINE IsText == text \in Seq(ToSet(text))
<1>1. PipelineInit => IsText
  <2>1. <<>> \in Seq(ToSet(<<>>))
    OBVIOUS
  <2> QED
    BY <2>1, TextsAssumption DEF PipelineInit, TokenInit
<1>2. IsText /\ [PipelineNext]_<<vars, tokenVars>> => IsText'
  <2>1. [PipelineNext]_<<vars, tokenVars>> => UNCHANGED text
    BY DEF PipelineNext, TokenNext, NewStream, Advance, tokenVars
  <2> QED
    BY <2>1
<1>3. IsText => LabelIdsFollowTheGrammar
  BY IdsFollowTheGrammar DEF LabelIdsFollowTheGrammar
<1> QED
  BY <1>1, <1>2, <1>3, PTL DEF PipelineSpec

-----------------------------------------------------------------------------
(* The characters from a to b of a sequence, none if b = a - 1.             *)
LEMMA Slice ==
    ASSUME NEW X, NEW t \in Seq(X), NEW a \in 1 .. (Len(t) + 1), NEW b \in (a - 1) .. Len(t)
    PROVE  /\ SubSeq(t, a, b) \in Seq(X)
           /\ Len(SubSeq(t, a, b)) = b - a + 1
           /\ \A k \in 1 .. (b - a + 1) : SubSeq(t, a, b)[k] = t[a + k - 1]
<1>1. Len(t) \in Nat
  BY LenProperties
<1>2. a \in Int /\ b \in Int /\ \A i \in a .. b : i \in 1 .. Len(t)
  BY <1>1
<1>3. \A i \in a .. b : t[i] \in X
  BY <1>2, ElementOfSeq
<1>4. /\ SubSeq(t, a, b) \in Seq(X)
      /\ Len(SubSeq(t, a, b)) = IF a <= b THEN b - a + 1 ELSE 0
      /\ \A k \in 1 .. (b - a + 1) : SubSeq(t, a, b)[k] = t[a + k - 1]
  BY <1>2, <1>3, SubSeqProperties
<1>5. (IF a <= b THEN b - a + 1 ELSE 0) = b - a + 1
  BY <1>1
<1> QED
  BY <1>4, <1>5

LEMMA SliceOfSlice ==
    ASSUME NEW X, NEW t \in Seq(X), NEW a \in 1 .. (Len(t) + 1), NEW b \in (a - 1) .. Len(t),
           NEW c \in 1 .. (b - a + 2), NEW d \in (c - 1) .. (b - a + 1)
    PROVE  SubSeq(SubSeq(t, a, b), c, d) = SubSeq(t, a + c - 1, a + d - 1)
<1> DEFINE s == SubSeq(t, a, b)
           u == SubSeq(s, c, d)
           v == SubSeq(t, a + c - 1, a + d - 1)
<1>1. Len(t) \in Nat /\ a \in Int /\ b \in Int /\ c \in Int /\ d \in Int
  BY LenProperties
<1>2. /\ s \in Seq(X) /\ Len(s) = b - a + 1
      /\ \A k \in 1 .. (b - a + 1) : s[k] = t[a + k - 1]
  BY Slice
<1>3. /\ a + c - 1 \in 1 .. (Len(t) + 1) /\ a + d - 1 \in (a + c - 1) - 1 .. Len(t)
      /\ (a + d - 1) - (a + c - 1) + 1 = d - c + 1
      /\ c \in 1 .. (Len(s) + 1) /\ d \in (c - 1) .. Len(s)
  BY <1>1, <1>2
<1> HIDE DEF s
<1>4. /\ u \in Seq(X) /\ Len(u) = d - c + 1
      /\ \A k \in 1 .. (d - c + 1) : u[k] = s[c + k - 1]
  BY <1>2, <1>3, Slice
<1>5. /\ v \in Seq(X) /\ Len(v) = d - c + 1
      /\ \A k \in 1 .. (d - c + 1) : v[k] = t[(a + c - 1) + k - 1]
  BY <1>3, Slice
<1>6. \A k \in 1 .. (d - c + 1) : /\ c + k - 1 \in 1 .. (b - a + 1)
                                  /\ a + (c + k - 1) - 1 = (a + c - 1) + k - 1
  BY <1>1
<1>7. \A k \in 1 .. Len(u) : u[k] = v[k]
  BY <1>2, <1>4, <1>5, <1>6
<1> HIDE DEF u, v
<1>8. u = v
  BY <1>4, <1>5, <1>7, SeqEqual
<1> QED
  BY <1>8 DEF u, v, s

(* The run a character belongs to begins where the class of the characters  *)
(* last changed.                                                            *)
LEMMA RunStartIs ==
    ASSUME NEW t, NEW class, NEW i \in Nat \ {0}
    PROVE  /\ RunStart(t, class, i) \in 1 .. i
           /\ \A j \in RunStart(t, class, i) .. i : (t[j] \in class) = (t[i] \in class)
           /\ \A s \in 1 .. i :
                 /\ \A j \in s .. i : (t[j] \in class) = (t[i] \in class)
                 /\ s = 1 \/ (t[s - 1] \in class) # (t[i] \in class)
                 => s = RunStart(t, class, i)
           /\ \/ RunStart(t, class, i) = 1
              \/ (t[RunStart(t, class, i) - 1] \in class) # (t[i] \in class)
<1> DEFINE In(j) == t[j] \in class
           S == {k \in 1 .. i : \A j \in k .. i : In(j) = In(i)}
           m == RunStart(t, class, i)
<1>1. S \in SUBSET Nat /\ i \in S
  OBVIOUS
<1>2. m = Min(S)
  BY DEF RunStart
<1>3. m \in S /\ \A k \in S : m <= k
  <2> HIDE DEF S, m
  <2> QED
    BY <1>1, <1>2, LeastNatural
<1> HIDE DEF m
<1>4. m \in 1 .. i /\ \A j \in m .. i : In(j) = In(i)
  BY <1>3
<1>5. m = 1 \/ In(m - 1) # In(i)
  <2> SUFFICES ASSUME m # 1, In(m - 1) = In(i) PROVE FALSE
    OBVIOUS
  <2>1. m - 1 \in 1 .. i /\ \A j \in (m - 1) .. i : j = m - 1 \/ j \in m .. i
    BY <1>4
  <2>2. m - 1 \in S
    BY <1>4, <2>1
  <2> QED
    BY <1>3, <1>4, <2>2
<1>6. ASSUME NEW s \in 1 .. i, \A j \in s .. i : In(j) = In(i), s = 1 \/ In(s - 1) # In(i)
      PROVE  s = m
  <2>1. s \in S
    BY <1>6
  <2>2. m <= s
    BY <1>3, <2>1
  <2>3. ASSUME m < s PROVE FALSE
    <3>1. s - 1 \in m .. i /\ s # 1
      BY <1>4, <2>3
    <3> QED
      BY <1>4, <1>6, <3>1
  <2> QED
    BY <1>4, <2>2, <2>3
<1> QED
  BY <1>4, <1>5, <1>6 DEF m

(* The runs of a text's beginning are the text's own.                       *)
LEMMA PrefixIsAlike ==
    ASSUME NEW X, NEW t \in Seq(X), NEW m \in 0 .. Len(t), NEW class
    PROVE  /\ SubSeq(t, 1, m) \in Seq(X) /\ Len(SubSeq(t, 1, m)) = m
           /\ \A k \in 1 .. m : SubSeq(t, 1, m)[k] = t[k]
           /\ \A i \in 1 .. m :
                 /\ RunStart(SubSeq(t, 1, m), class, i) = RunStart(t, class, i)
                 /\ SubSeq(SubSeq(t, 1, m), RunStart(t, class, i), i)
                       = SubSeq(t, RunStart(t, class, i), i)
<1> DEFINE n == Len(t)
           p == SubSeq(t, 1, m)
<1>1. n \in Nat /\ \A i \in 1 .. m : i \in 1 .. n /\ i \in Nat \ {0}
  BY LenProperties
<1>2. p \in Seq(X) /\ Len(p) = m /\ \A k \in 1 .. m : p[k] = t[k]
  <2>1. 1 \in 1 .. (n + 1) /\ m \in (1 - 1) .. n /\ m - 1 + 1 = m
    BY <1>1
  <2>2. \A k \in 1 .. m : 1 + k - 1 = k
    BY <1>1
  <2> HIDE DEF n
  <2> QED
    BY <2>1, <2>2, Slice DEF n
<1>3. ASSUME NEW i \in 1 .. m
      PROVE  /\ RunStart(p, class, i) = RunStart(t, class, i)
             /\ SubSeq(p, RunStart(t, class, i), i) = SubSeq(t, RunStart(t, class, i), i)
  <2> DEFINE s == RunStart(t, class, i)
  <2>1. s \in 1 .. i /\ \A j \in s .. i : (t[j] \in class) = (t[i] \in class)
    BY <1>1, RunStartIs
  <2>2. s = 1 \/ (t[s - 1] \in class) # (t[i] \in class)
    BY <1>1, RunStartIs
  <2> HIDE DEF s, p
  <2>3. \A j \in s .. i : p[j] = t[j] /\ (s # 1 => p[s - 1] = t[s - 1]) /\ p[i] = t[i]
    BY <1>2, <2>1
  <2>4. s \in s .. i
    BY <2>1
  <2>5. /\ \A j \in s .. i : (p[j] \in class) = (p[i] \in class)
        /\ s = 1 \/ (p[s - 1] \in class) # (p[i] \in class)
    BY <2>1, <2>2, <2>3, <2>4
  <2>6. s = RunStart(p, class, i)
    BY <1>1, <2>1, <2>5, RunStartIs
  <2>7. SubSeq(p, s, i) = SubSeq(t, s, i)
    <3>1. /\ 1 \in 1 .. (n + 1) /\ m \in (1 - 1) .. n
          /\ s \in 1 .. (m - 1 + 2) /\ i \in (s - 1) .. (m - 1 + 1)
          /\ 1 + s - 1 = s /\ 1 + i - 1 = i
      BY <1>1, <2>1
    <3> HIDE DEF n
    <3> QED
      BY <3>1, SliceOfSlice DEF p, n
  <2> QED
    BY <2>6, <2>7 DEF s
<1> QED
  BY <1>2, <1>3

(* A function on 0 .. n that gathers tokens: its value at i is its value at *)
(* an earlier place, and more if i has more to add.                         *)
Gathers(g, n, back, more) ==
    /\ g[0] = <<>>
    /\ \A i \in 1 .. n :
          g[i] = IF i \in DOMAIN more THEN g[back[i]] \o more[i] ELSE g[back[i]]

LooksBack(back, n) == \A i \in 1 .. n : back[i] \in 0 .. n /\ back[i] < i

LEMMA GatheringExists ==
    ASSUME NEW W, NEW n \in Nat, NEW back \in [1 .. n -> 0 .. n],
           \A i \in 1 .. n : back[i] < i,
           NEW D, NEW more \in [D -> Seq(W)]
    PROVE  \E g \in [0 .. n -> Seq(W)] : Gathers(g, n, back, more)
<1> DEFINE A == {k \in 0 .. n : \E g \in [0 .. n -> Seq(W)] : Gathers(g, k, back, more)}
<1>1. 0 \in A
  <2> DEFINE none == [i \in 0 .. n |-> <<>>]
  <2>1. none \in [0 .. n -> Seq(W)] /\ 0 \in 0 .. n
    BY EmptySeq
  <2>2. Gathers(none, 0, back, more)
    BY DEF Gathers
  <2> HIDE DEF none
  <2> QED
    BY <2>1, <2>2
<1>2. ASSUME NEW k \in 0 .. (n - 1), k \in A PROVE k + 1 \in A
  <2>1. PICK g \in [0 .. n -> Seq(W)] : Gathers(g, k, back, more)
    BY <1>2
  <2>2. k + 1 \in 1 .. n /\ k + 1 \in 0 .. n /\ back[k + 1] \in 0 .. n /\ back[k + 1] < k + 1
    OBVIOUS
  <2> DEFINE new == IF k + 1 \in D THEN g[back[k + 1]] \o more[k + 1] ELSE g[back[k + 1]]
             h == [g EXCEPT ![k + 1] = new]
  <2>3. new \in Seq(W)
    <3>1. g[back[k + 1]] \in Seq(W) /\ (k + 1 \in D => more[k + 1] \in Seq(W))
      BY <2>2
    <3> QED
      BY <3>1, ConcatProperties
  <2>4. h \in [0 .. n -> Seq(W)] /\ h[k + 1] = new /\ \A i \in 0 .. k : h[i] = g[i]
    BY <2>2, <2>3
  <2>5. \A i \in 1 .. (k + 1) : back[i] \in 0 .. k /\ (i = k + 1 \/ i \in 1 .. k)
    <3> SUFFICES ASSUME NEW i \in 1 .. (k + 1) PROVE back[i] \in 0 .. k
      OBVIOUS
    <3>1. i \in 1 .. n
      OBVIOUS
    <3>2. back[i] \in 0 .. n /\ back[i] < i
      BY <3>1
    <3> QED
      BY <3>2
  <2>6. g[0] = <<>> /\ \A i \in 1 .. k :
           g[i] = IF i \in D THEN g[back[i]] \o more[i] ELSE g[back[i]]
    BY <2>1 DEF Gathers
  <2> HIDE DEF h
  <2>7. h[0] = <<>>
    BY <2>4, <2>6
  <2>8. ASSUME NEW i \in 1 .. (k + 1)
        PROVE  h[i] = IF i \in D THEN h[back[i]] \o more[i] ELSE h[back[i]]
    <3>1. h[back[i]] = g[back[i]]
      BY <2>4, <2>5
    <3>2. CASE i = k + 1
      BY <2>4, <3>1, <3>2
    <3>3. CASE i \in 1 .. k
      <4>1. h[i] = g[i]
        BY <2>4, <3>3
      <4>2. g[i] = IF i \in D THEN g[back[i]] \o more[i] ELSE g[back[i]]
        BY <2>6, <3>3
      <4> QED
        BY <3>1, <4>1, <4>2
    <3> QED
      BY <2>5, <3>2, <3>3
  <2>9. Gathers(h, k + 1, back, more)
    BY <2>7, <2>8 DEF Gathers
  <2> QED
    BY <2>2, <2>4, <2>9
<1>3. 0 \in Int /\ n \in Int /\ n \in 0 .. n
  OBVIOUS
<1>4. 0 .. n \subseteq A
  <2> HIDE DEF A
  <2> QED
    BY ONLY <1>1, <1>2, <1>3, IntervalInduction
<1> QED
  BY <1>3, <1>4

LEMMA GatheringsAgree ==
    ASSUME NEW n \in Nat, NEW back, NEW more, NEW g, NEW h,
           LooksBack(back, n), Gathers(g, n, back, more), Gathers(h, n, back, more)
    PROVE  \A k \in 0 .. n : g[k] = h[k]
<1> DEFINE A == {k \in 0 .. n : \A i \in 0 .. k : g[i] = h[i]}
<1>1. 0 \in A
  BY DEF Gathers
<1>2. ASSUME NEW k \in 0 .. (n - 1), k \in A PROVE k + 1 \in A
  <2>1. k + 1 \in 1 .. n /\ k + 1 \in 0 .. n /\ \A i \in 0 .. k : g[i] = h[i]
    BY <1>2
  <2>2. back[k + 1] \in 0 .. k
    <3>1. back[k + 1] \in 0 .. n /\ back[k + 1] < k + 1
      BY <2>1 DEF LooksBack
    <3> QED
      BY <3>1
  <2>3. /\ g[k + 1] = IF k + 1 \in DOMAIN more THEN g[back[k + 1]] \o more[k + 1]
                      ELSE g[back[k + 1]]
        /\ h[k + 1] = IF k + 1 \in DOMAIN more THEN h[back[k + 1]] \o more[k + 1]
                      ELSE h[back[k + 1]]
    BY <2>1 DEF Gathers
  <2>4. g[k + 1] = h[k + 1]
    BY <2>1, <2>2, <2>3
  <2>5. \A i \in 0 .. (k + 1) : i \in 0 .. k \/ i = k + 1
    OBVIOUS
  <2> QED
    BY <2>1, <2>4, <2>5
<1>3. 0 \in Int /\ n \in Int /\ \A k \in 0 .. n : k \in 0 .. k
  OBVIOUS
<1>4. 0 .. n \subseteq A
  <2> HIDE DEF A
  <2> QED
    BY ONLY <1>1, <1>2, <1>3, IntervalInduction
<1> QED
  BY <1>3, <1>4

(* The tokens of a text over X: sequences of characters, lower case or as   *)
(* they were.                                                               *)
Word(X) == Seq(X \cup {LowerOf[ch] : ch \in Uppers})

LEMMA LowerIsWord ==
    ASSUME NEW X, NEW w \in Seq(X)
    PROVE  Lower(w) \in Word(X)
<1> DEFINE Y == X \cup {LowerOf[ch] : ch \in Uppers}
           n == Len(w)
           lowered == [i \in 1 .. n |-> IF w[i] \in Uppers THEN LowerOf[w[i]] ELSE w[i]]
<1>1. n \in Nat /\ DOMAIN w = 1 .. n /\ \A i \in 1 .. n : w[i] \in X
  BY LenProperties, ElementOfSeq
<1>2. \A i \in 1 .. n : (IF w[i] \in Uppers THEN LowerOf[w[i]] ELSE w[i]) \in Y
  BY <1>1
<1>3. lowered \in Seq(Y)
  <2> HIDE DEF Y, n
  <2> QED
    BY <1>1, <1>2
<1> QED
  BY <1>1, <1>3 DEF Lower, Word

LEMMA AppendHolds ==
    ASSUME NEW W, NEW s \in Seq(W), NEW e \in W
    PROVE  /\ Append(s, e) \in Seq(W)
           /\ ToSet(s) \subseteq ToSet(Append(s, e)) /\ e \in ToSet(Append(s, e))
<1> DEFINE longer == Append(s, e)
           n == Len(s)
<1>1. n \in Nat /\ DOMAIN s = 1 .. n
  BY LenProperties
<1>2. /\ longer \in Seq(W) /\ Len(longer) = n + 1
      /\ \A i \in 1 .. n : longer[i] = s[i]
      /\ longer[n + 1] = e
  BY AppendProperties
<1>3. DOMAIN longer = 1 .. (n + 1)
  BY <1>2, LenProperties
<1>4. n + 1 \in 1 .. (n + 1) /\ \A i \in 1 .. n : i \in 1 .. (n + 1)
  BY <1>1
<1> HIDE DEF longer, n
<1>5. ToSet(s) \subseteq ToSet(longer) /\ e \in ToSet(longer)
  BY <1>1, <1>2, <1>3, <1>4 DEF ToSet
<1> QED
  BY <1>2, <1>5 DEF longer

LEMMA NewPartAdds ==
    ASSUME NEW X, NEW parts \in Seq(Word(X)), NEW part \in Seq(X)
    PROVE  /\ NewPart(parts, part) \in Seq(Word(X))
           /\ ToSet(parts) \subseteq ToSet(NewPart(parts, part))
           /\ part # <<>> => Lower(part) \in ToSet(NewPart(parts, part))
<1> DEFINE W == Word(X)
           low == Lower(part)
<1>1. low \in W
  BY LowerIsWord
<1>2. Len(parts) \in Nat /\ DOMAIN parts = 1 .. Len(parts)
  BY LenProperties
<1> HIDE DEF low, W
<1>3. parts \in Seq(W)
  BY DEF W
<1>4. CASE part = <<>> \/ Contains(parts, low)
  <2>1. NewPart(parts, part) = parts
    BY <1>4 DEF NewPart, low
  <2>2. Contains(parts, low) => low \in ToSet(parts)
    BY <1>2 DEF Contains, ToSet
  <2> QED
    BY <1>3, <1>4, <2>1, <2>2 DEF W, low
<1>5. CASE ~(part = <<>> \/ Contains(parts, low))
  <2>1. NewPart(parts, part) = Append(parts, low)
    BY <1>5, Zenon DEF NewPart, low
  <2> QED
    BY <1>1, <1>3, <2>1, AppendHolds DEF W, low
<1> QED
  BY <1>4, <1>5

(* What split_identifier holds between two characters of a word over X.     *)
SplitState(X) == [parts : Seq(Word(X)), part : Seq(X), upper : BOOLEAN, digit : BOOLEAN]

NothingSplit == [parts |-> <<>>, part |-> <<>>, upper |-> FALSE, digit |-> FALSE]

(* The three ways a character goes: the acronym before it ends, a part ends *)
(* before it, or it belongs to the part.                                    *)
AcronymEnds(s, ch) == s.upper /\ ch \notin Uppers /\ Len(s.part) > 1

PartEnds(s, ch) ==
    /\ s.part # <<>> /\ ~AcronymEnds(s, ch)
    /\ ch \in Joints \/ (~s.upper /\ ch \in Uppers) \/ s.digit # (ch \in Digits)

LEMMA SplitStepCases ==
    ASSUME NEW X, NEW s \in SplitState(X), NEW ch \in X
    PROVE  /\ SplitStep(s, ch) \in SplitState(X)
           /\ SplitStep(s, ch).upper = (ch \in Uppers)
           /\ SplitStep(s, ch).digit = (ch \in Digits)
           /\ AcronymEnds(s, ch) =>
                 /\ SplitStep(s, ch).parts = NewPart(s.parts, Front(s.part))
                 /\ SplitStep(s, ch).part = <<Last(s.part), ch>>
           /\ PartEnds(s, ch) =>
                 /\ SplitStep(s, ch).parts = NewPart(s.parts, s.part)
                 /\ SplitStep(s, ch).part = IF ch \in Joints THEN <<>> ELSE <<ch>>
           /\ ~AcronymEnds(s, ch) /\ ~PartEnds(s, ch) =>
                 /\ SplitStep(s, ch).parts = s.parts
                 /\ SplitStep(s, ch).part = Append(s.part, ch)
<1> DEFINE W == Word(X)
           t == SplitStep(s, ch)
           upper == ch \in Uppers
           digit == ch \in Digits
<1>1. s = [parts |-> s.parts, part |-> s.part, upper |-> s.upper, digit |-> s.digit]
      /\ s.parts \in Seq(W) /\ s.part \in Seq(X)
  BY DEF SplitState
<1>2. Len(s.part) \in Nat
  BY <1>1, LenProperties
<1>3. CASE AcronymEnds(s, ch)
  <2>1. t = [parts |-> NewPart(s.parts, Front(s.part)), part |-> <<Last(s.part), ch>>,
             upper |-> upper, digit |-> digit]
    BY <1>1, <1>3 DEF SplitStep, AcronymEnds
  <2>2. Front(s.part) \in Seq(X) /\ Last(s.part) \in X
    <3>1. /\ 1 \in 1 .. (Len(s.part) + 1) /\ Len(s.part) - 1 \in (1 - 1) .. Len(s.part)
          /\ Len(s.part) \in 1 .. Len(s.part)
      BY <1>2, <1>3 DEF AcronymEnds
    <3> QED
      BY <1>1, <3>1, Slice, ElementOfSeq DEF Front, Last
  <2>3. NewPart(s.parts, Front(s.part)) \in Seq(W)
    BY <1>1, <2>2, NewPartAdds
  <2>4. <<Last(s.part), ch>> \in Seq(X)
    BY <2>2
  <2>5. ~PartEnds(s, ch)
    BY <1>3 DEF PartEnds
  <2> HIDE DEF t
  <2> QED
    BY <1>3, <2>1, <2>3, <2>4, <2>5 DEF SplitState, t
<1>4. CASE PartEnds(s, ch)
  <2>1. t = [parts |-> NewPart(s.parts, s.part), part |-> IF ch \in Joints THEN <<>> ELSE <<ch>>,
             upper |-> upper, digit |-> digit]
    BY <1>1, <1>4 DEF SplitStep, AcronymEnds, PartEnds
  <2>2. NewPart(s.parts, s.part) \in Seq(W)
    BY <1>1, NewPartAdds
  <2>3. (IF ch \in Joints THEN <<>> ELSE <<ch>>) \in Seq(X)
    OBVIOUS
  <2>4. ~AcronymEnds(s, ch)
    BY <1>4 DEF PartEnds
  <2> HIDE DEF t
  <2> QED
    BY <1>4, <2>1, <2>2, <2>3, <2>4 DEF SplitState, t
<1>5. CASE ~AcronymEnds(s, ch) /\ ~PartEnds(s, ch)
  <2>1. t = [parts |-> s.parts, part |-> Append(s.part, ch), upper |-> upper, digit |-> digit]
    BY <1>1, <1>5 DEF SplitStep, AcronymEnds, PartEnds
  <2>2. Append(s.part, ch) \in Seq(X)
    BY <1>1, AppendProperties
  <2> HIDE DEF t
  <2> QED
    BY <1>1, <1>5, <2>1, <2>2 DEF SplitState, t
<1> QED
  BY <1>3, <1>4, <1>5

(* The loop of split_identifier, state by state.                            *)
LEMMA SplitLoop ==
    ASSUME NEW X, NEW w \in Seq(X)
    PROVE  \E loop \in [0 .. Len(w) -> SplitState(X)] :
              /\ loop[0] = NothingSplit
              /\ \A i \in 1 .. Len(w) : loop[i] = SplitStep(loop[i - 1], w[i])
              /\ SplitIdentifier(w) = NewPart(loop[Len(w)].parts, loop[Len(w)].part)
<1> DEFINE n == Len(w)
           V == SplitState(X)
           none == NothingSplit
           loop == CHOOSE g : g = [i \in 0 .. n |->
                       IF i = 0 THEN [parts |-> <<>>, part |-> <<>>, upper |-> FALSE,
                                      digit |-> FALSE]
                       ELSE SplitStep(g[i - 1], w[i])]
           op == [x \in V \X ((0 + 1) .. n) |-> SplitStep(x[1], w[x[2]])]
<1>1. n \in Nat /\ 0 \in Int /\ n \in Int /\ \A i \in 1 .. n : w[i] \in X
  BY LenProperties, ElementOfSeq
<1>2. SplitIdentifier(w) = NewPart(loop[n].parts, loop[n].part)
  BY DEF SplitIdentifier
<1>3. none \in V
  BY EmptySeq DEF SplitState, NothingSplit
<1>4. op \in [V \X ((0 + 1) .. n) -> V]
  <2>1. \A s \in V, i \in 1 .. n : SplitStep(s, w[i]) \in V
    BY <1>1, SplitStepCases
  <2>2. \A x \in V \X ((0 + 1) .. n) : x[1] \in V /\ x[2] \in 1 .. n
    OBVIOUS
  <2> HIDE DEF V
  <2>3. \A x \in V \X ((0 + 1) .. n) : SplitStep(x[1], w[x[2]]) \in V
    BY <2>1, <2>2
  <2> QED
    BY <2>3
<1>5. PICK g \in [0 .. n -> V] : IsRecursion(g, 0, n, none, op)
  <2> HIDE DEF op, V, none, n
  <2> QED
    BY ONLY <1>1, <1>3, <1>4, RecursionExists
<1>6. \A i \in 0 .. n : g[i] = IF i = 0 THEN none ELSE SplitStep(g[i - 1], w[i])
  <2> SUFFICES ASSUME NEW i \in 0 .. n
               PROVE  g[i] = IF i = 0 THEN none ELSE SplitStep(g[i - 1], w[i])
    OBVIOUS
  <2>1. g[i] = IF i = 0 THEN none ELSE op[<<g[i - 1], i>>]
    <3> HIDE DEF op, none, V
    <3> QED
      BY <1>5 DEF IsRecursion
  <2>2. CASE i # 0
    <3>1. i - 1 \in 0 .. n /\ i \in (0 + 1) .. n
      BY <2>2
    <3> HIDE DEF V, none
    <3>2. g[i - 1] \in V
      BY <3>1
    <3>3. op[<<g[i - 1], i>>] = SplitStep(g[i - 1], w[i])
      BY <3>1, <3>2
    <3> QED
      BY <2>1, <2>2, <3>3
  <2> HIDE DEF op, none, V
  <2> QED
    BY <2>1, <2>2
<1>7. loop = [i \in 0 .. n |-> IF i = 0 THEN none ELSE SplitStep(loop[i - 1], w[i])]
  <2>1. g = [i \in 0 .. n |-> IF i = 0 THEN none ELSE SplitStep(g[i - 1], w[i])]
    BY <1>6
  <2> HIDE DEF op, V, n
  <2> QED
    BY <2>1, Zenon DEF NothingSplit
<1> HIDE DEF loop, op, V, none, n
<1>8. loop[0] = none /\ \A i \in 1 .. n : loop[i] = SplitStep(loop[i - 1], w[i])
  BY <1>1, <1>7
<1> DEFINE A == {i \in 0 .. n : loop[i] \in V}
<1>9. 0 \in A
  BY <1>1, <1>3, <1>8
<1>10. ASSUME NEW i \in 0 .. (n - 1), i \in A PROVE i + 1 \in A
  <2>1. i + 1 \in 1 .. n /\ i + 1 \in 0 .. n /\ (i + 1) - 1 = i
    BY <1>1
  <2>2. loop[i + 1] = SplitStep(loop[i], w[i + 1])
    BY <1>8, <2>1
  <2>3. SplitStep(loop[i], w[i + 1]) \in V
    BY <1>1, <1>10, <2>1, SplitStepCases DEF V
  <2> QED
    BY <2>1, <2>2, <2>3
<1>11. 0 .. n \subseteq A
  <2> HIDE DEF A
  <2> QED
    BY ONLY <1>1, <1>9, <1>10, IntervalInduction
<1>12. loop \in [0 .. n -> V]
  <2>1. loop = [i \in 0 .. n |-> loop[i]]
    BY <1>7
  <2> QED
    BY <1>11, <2>1
<1> QED
  BY <1>2, <1>8, <1>12 DEF V, none, n

(* The tokens of a word: the word itself and its parts.                     *)
LEMMA WordTokensHold ==
    ASSUME NEW X, NEW w \in Seq(X)
    PROVE  /\ SplitIdentifier(w) \in Seq(Word(X))
           /\ WordTokens(w) \in Seq(Word(X))
           /\ ToSet(SplitIdentifier(w)) \cup {Lower(w)} \subseteq ToSet(WordTokens(w))
<1> DEFINE W == Word(X)
           low == Lower(w)
           parts == SplitIdentifier(w)
           n == Len(parts)
           tokens == CHOOSE g : g = [i \in 0 .. n |->
                         IF i = 0 THEN <<low>>
                         ELSE IF parts[i] = low THEN g[i - 1]
                         ELSE Append(g[i - 1], parts[i])]
           V == {s \in Seq(W) : low \in ToSet(s)}
           op == [x \in V \X ((0 + 1) .. n) |->
                     IF parts[x[2]] = low THEN x[1] ELSE Append(x[1], parts[x[2]])]
<1>1. parts \in Seq(W)
  <2>1. PICK loop \in [0 .. Len(w) -> SplitState(X)] :
           parts = NewPart(loop[Len(w)].parts, loop[Len(w)].part)
    BY SplitLoop
  <2>2. Len(w) \in Nat
    BY LenProperties
  <2>3. loop[Len(w)] \in SplitState(X)
    BY <2>2
  <2>4. loop[Len(w)].parts \in Seq(W) /\ loop[Len(w)].part \in Seq(X)
    BY <2>3 DEF SplitState
  <2> QED
    BY <2>1, <2>4, NewPartAdds
<1>2. low \in W /\ <<low>> \in V
  <2>1. low \in W
    BY LowerIsWord
  <2> HIDE DEF low, W
  <2>2. <<low>> \in Seq(W) /\ DOMAIN <<low>> = {1} /\ <<low>>[1] = low
    BY <2>1
  <2> QED
    BY <2>1, <2>2 DEF ToSet
<1>3. WordTokens(w) = tokens[n]
  BY DEF WordTokens
<1> HIDE DEF low, parts, W
<1>4. /\ n \in Nat /\ 0 \in Int /\ n \in Int /\ DOMAIN parts = 1 .. n
      /\ \A i \in 1 .. n : parts[i] \in W
  BY <1>1, LenProperties, ElementOfSeq
<1>5. \A s \in V, i \in 1 .. n :
         /\ Append(s, parts[i]) \in V
         /\ ToSet(s) \subseteq ToSet(Append(s, parts[i]))
         /\ parts[i] \in ToSet(Append(s, parts[i]))
  BY <1>4, AppendHolds
<1> HIDE DEF V, n
<1>6. op \in [V \X ((0 + 1) .. n) -> V]
  <2>1. \A x \in V \X ((0 + 1) .. n) : x[1] \in V /\ x[2] \in 1 .. n
    OBVIOUS
  <2> QED
    BY <1>5, <2>1
<1>7. PICK g \in [0 .. n -> V] : IsRecursion(g, 0, n, <<low>>, op)
  <2> HIDE DEF op
  <2> QED
    BY ONLY <1>2, <1>4, <1>6, RecursionExists
<1>8. \A i \in 0 .. n : g[i] = IF i = 0 THEN <<low>>
                               ELSE IF parts[i] = low THEN g[i - 1]
                               ELSE Append(g[i - 1], parts[i])
  <2> SUFFICES ASSUME NEW i \in 0 .. n
               PROVE  g[i] = IF i = 0 THEN <<low>>
                             ELSE IF parts[i] = low THEN g[i - 1]
                             ELSE Append(g[i - 1], parts[i])
    OBVIOUS
  <2>1. g[i] = IF i = 0 THEN <<low>> ELSE op[<<g[i - 1], i>>]
    <3> HIDE DEF op
    <3> QED
      BY <1>7 DEF IsRecursion
  <2>2. CASE i # 0
    <3>1. i - 1 \in 0 .. n /\ i \in (0 + 1) .. n
      BY <1>4, <2>2
    <3>2. g[i - 1] \in V
      BY <3>1
    <3>3. op[<<g[i - 1], i>>] = IF parts[i] = low THEN g[i - 1] ELSE Append(g[i - 1], parts[i])
      BY <3>1, <3>2
    <3> HIDE DEF op
    <3> QED
      BY <2>1, <2>2, <3>3
  <2> HIDE DEF op
  <2> QED
    BY <2>1, <2>2
<1>9. tokens = [i \in 0 .. n |-> IF i = 0 THEN <<low>>
                                 ELSE IF parts[i] = low THEN tokens[i - 1]
                                 ELSE Append(tokens[i - 1], parts[i])]
  <2>1. g = [i \in 0 .. n |-> IF i = 0 THEN <<low>>
                              ELSE IF parts[i] = low THEN g[i - 1]
                              ELSE Append(g[i - 1], parts[i])]
    BY <1>8
  <2> HIDE DEF op
  <2> QED
    BY <2>1, Zenon
<1> HIDE DEF tokens, op
<1> DEFINE A == {i \in 0 .. n : /\ tokens[i] \in V
                                /\ \A k \in 1 .. i : parts[k] \in ToSet(tokens[i])}
<1>10. 0 \in A
  <2>1. tokens[0] = <<low>> /\ 0 \in 0 .. n /\ 1 .. 0 = {}
    BY <1>4, <1>9
  <2> QED
    BY <1>2, <2>1
<1>11. ASSUME NEW i \in 0 .. (n - 1), i \in A PROVE i + 1 \in A
  <2>1. i + 1 \in 1 .. n /\ i + 1 \in 0 .. n /\ i + 1 # 0 /\ (i + 1) - 1 = i
    BY <1>4
  <2>2. tokens[i + 1] = IF parts[i + 1] = low THEN tokens[i]
                        ELSE Append(tokens[i], parts[i + 1])
    BY <1>9, <2>1
  <2>3. tokens[i] \in V /\ \A k \in 1 .. i : parts[k] \in ToSet(tokens[i])
    BY <1>11
  <2>4. low \in ToSet(tokens[i])
    BY <2>3 DEF V
  <2>5. tokens[i + 1] \in V /\ ToSet(tokens[i]) \subseteq ToSet(tokens[i + 1])
        /\ parts[i + 1] \in ToSet(tokens[i + 1])
    BY <1>5, <2>1, <2>2, <2>3, <2>4
  <2>6. \A k \in 1 .. (i + 1) : k \in 1 .. i \/ k = i + 1
    BY <1>4
  <2> QED
    BY <2>1, <2>3, <2>5, <2>6
<1>12. 0 .. n \subseteq A
  <2> HIDE DEF A
  <2> QED
    BY ONLY <1>4, <1>10, <1>11, IntervalInduction
<1>13. n \in A
  BY <1>4, <1>12
<1>14. ToSet(parts) \subseteq ToSet(tokens[n])
  BY <1>4, <1>13 DEF ToSet
<1>15. tokens[n] \in Seq(W) /\ low \in ToSet(tokens[n])
  BY <1>13 DEF V
<1> QED
  BY <1>1, <1>3, <1>14, <1>15 DEF W, low, parts

(* Where the words of a segment begin, and their tokens, by the position of *)
(* the character they end with.                                             *)
WordsBack(t) ==
    [i \in 1 .. Len(t) |-> IF t[i] \in Blanks THEN i - 1 ELSE RunStart(t, Blanks, i) - 1]

WordsMore(t) ==
    [i \in {k \in 1 .. Len(t) : t[k] \notin Blanks} |->
        WordTokens(SubSeq(t, RunStart(t, Blanks, i), i))]

LEMMA WordsGather ==
    ASSUME NEW X, NEW t \in Seq(X)
    PROVE  /\ \A i \in 1 .. Len(t) : WordsBack(t)[i] \in 0 .. (i - 1)
           /\ \E g \in [0 .. Len(t) -> Seq(Word(X))] :
                 /\ Gathers(g, Len(t), WordsBack(t), WordsMore(t))
                 /\ NonCjkTokens(t) = g[Len(t)]
<1> DEFINE n == Len(t)
           W == Word(X)
           D == {k \in 1 .. n : t[k] \notin Blanks}
           back == WordsBack(t)
           more == WordsMore(t)
           start(i) == RunStart(t, Blanks, i)
           F(g) == [i \in 0 .. n |->
                       IF i = 0 THEN <<>>
                       ELSE IF t[i] \in Blanks THEN g[i - 1]
                       ELSE g[start(i) - 1] \o WordTokens(SubSeq(t, start(i), i))]
           f == CHOOSE g : g = F(g)
<1>1. n \in Nat /\ \A i \in 1 .. n : i \in Nat \ {0} /\ start(i) \in 1 .. i
  BY LenProperties, RunStartIs
<1>2. NonCjkTokens(t) = f[n]
  BY DEF NonCjkTokens
<1> HIDE DEF start
<1>3. /\ \A i \in 1 .. n : back[i] = IF t[i] \in Blanks THEN i - 1 ELSE start(i) - 1
      /\ \A i \in 1 .. n : back[i] \in 0 .. (i - 1) /\ back[i] \in 0 .. n /\ back[i] < i
      /\ back \in [1 .. n -> 0 .. n]
  <2>1. \A i \in 1 .. n : back[i] = IF t[i] \in Blanks THEN i - 1 ELSE start(i) - 1
    BY DEF WordsBack, start
  <2>2. \A i \in 1 .. n : back[i] \in 0 .. (i - 1) /\ back[i] \in 0 .. n /\ back[i] < i
    BY <1>1, <2>1
  <2>3. back = [i \in 1 .. n |-> back[i]]
    BY DEF WordsBack
  <2> HIDE DEF back, n
  <2> QED
    BY <2>1, <2>2, <2>3
<1>4. /\ DOMAIN more = D
      /\ \A i \in D : more[i] = WordTokens(SubSeq(t, start(i), i)) /\ more[i] \in Seq(W)
      /\ more \in [D -> Seq(W)]
  <2>1. DOMAIN more = D /\ \A i \in D : more[i] = WordTokens(SubSeq(t, start(i), i))
    BY DEF WordsMore, start
  <2>2. ASSUME NEW i \in D PROVE more[i] \in Seq(W)
    <3>1. start(i) \in 1 .. (n + 1) /\ i \in (start(i) - 1) .. n
      BY <1>1
    <3>2. SubSeq(t, start(i), i) \in Seq(X)
      BY <3>1, Slice
    <3> QED
      BY <2>1, <3>2, WordTokensHold
  <2>3. more = [i \in D |-> more[i]]
    BY DEF WordsMore
  <2> HIDE DEF more, W, D
  <2> QED
    BY <2>1, <2>2, <2>3
<1> HIDE DEF back, more, W, n
<1>5. PICK g \in [0 .. n -> Seq(W)] : Gathers(g, n, back, more)
  <2> HIDE DEF D
  <2> QED
    BY <1>1, <1>3, <1>4, GatheringExists
<1>6. ASSUME NEW h, h = F(h) PROVE Gathers(h, n, back, more)
  <2>1. \A i \in 0 .. n : h[i] = IF i = 0 THEN <<>>
           ELSE IF t[i] \in Blanks THEN h[i - 1]
           ELSE h[start(i) - 1] \o WordTokens(SubSeq(t, start(i), i))
    BY <1>6, Zenon
  <2>2. 0 \in 0 .. n /\ \A i \in 1 .. n : i \in 0 .. n /\ i # 0
    BY <1>1
  <2>3. h[0] = <<>> /\ \A i \in 1 .. n : h[i] = IF t[i] \in Blanks THEN h[i - 1]
           ELSE h[start(i) - 1] \o WordTokens(SubSeq(t, start(i), i))
    BY <2>1, <2>2, Zenon
  <2> QED
    BY <1>3, <1>4, <2>3 DEF Gathers
<1>7. g = F(g)
  <2>1. \A i \in 1 .. n : g[i] = IF t[i] \in Blanks THEN g[i - 1]
           ELSE g[start(i) - 1] \o WordTokens(SubSeq(t, start(i), i))
    BY <1>3, <1>4, <1>5 DEF Gathers
  <2>2. g[0] = <<>> /\ g = [i \in 0 .. n |-> g[i]]
    BY <1>5 DEF Gathers
  <2>3. \A i \in 0 .. n : i = 0 \/ i \in 1 .. n
    BY <1>1
  <2> HIDE DEF D
  <2> QED
    BY <2>1, <2>2, <2>3
<1>8. f = F(f)
  <2> HIDE DEF F
  <2> QED
    BY <1>7, Zenon
<1> HIDE DEF F, f
<1>9. Gathers(f, n, back, more)
  BY <1>6, <1>8
<1>10. \A k \in 0 .. n : f[k] = g[k]
  <2>1. n \in Nat /\ LooksBack(back, n)
    BY <1>1, <1>3 DEF LooksBack
  <2> QED
    BY <1>5, <1>9, <2>1, GatheringsAgree
<1>11. NonCjkTokens(t) = g[n]
  BY <1>1, <1>2, <1>10
<1> QED
  BY <1>3, <1>5, <1>11 DEF back, more, W, n

(* What tokenize_non_cjk_segment has gathered before a position is what it  *)
(* makes of the characters before it.                                       *)
LEMMA NonCjkUnfolds ==
    ASSUME NEW X, NEW t \in Seq(X)
    PROVE  /\ NonCjkTokens(t) \in Seq(Word(X))
           /\ Len(t) = 0 => NonCjkTokens(t) = <<>>
           /\ Len(t) > 0 /\ t[Len(t)] \in Blanks =>
                 NonCjkTokens(t) = NonCjkTokens(SubSeq(t, 1, Len(t) - 1))
           /\ \A s \in 1 .. Len(t) :
                 /\ \A j \in s .. Len(t) : t[j] \notin Blanks
                 /\ s = 1 \/ t[s - 1] \in Blanks
                 => NonCjkTokens(t) = NonCjkTokens(SubSeq(t, 1, s - 1))
                                      \o WordTokens(SubSeq(t, s, Len(t)))
<1> DEFINE n == Len(t)
           back == WordsBack(t)
           more == WordsMore(t)
<1>1. n \in Nat /\ \A i \in 1 .. n : i \in Nat \ {0} /\ RunStart(t, Blanks, i) \in 1 .. i
  BY LenProperties, RunStartIs
<1>2. PICK g \in [0 .. n -> Seq(Word(X))] :
         Gathers(g, n, back, more) /\ NonCjkTokens(t) = g[n]
  BY WordsGather
<1>3. \A i \in 1 .. n : back[i] \in 0 .. (i - 1)
  BY WordsGather
<1>4. ASSUME NEW m \in 0 .. n PROVE g[m] = NonCjkTokens(SubSeq(t, 1, m))
  <2> DEFINE p == SubSeq(t, 1, m)
  <2>1. p \in Seq(X) /\ Len(p) = m /\ \A k \in 1 .. m : p[k] = t[k]
    BY PrefixIsAlike
  <2>2. \A i \in 1 .. m : i \in 1 .. n /\ i \in Nat \ {0}
    BY <1>1
  <2>3. \A i \in 1 .. m :
           /\ RunStart(p, Blanks, i) = RunStart(t, Blanks, i)
           /\ SubSeq(p, RunStart(t, Blanks, i), i) = SubSeq(t, RunStart(t, Blanks, i), i)
    BY PrefixIsAlike
  <2> HIDE DEF p
  <2>4. PICK h \in [0 .. m -> Seq(Word(X))] :
           Gathers(h, m, WordsBack(p), WordsMore(p)) /\ NonCjkTokens(p) = h[m]
    BY <2>1, WordsGather
  <2>5. \A i \in 1 .. m : /\ WordsBack(p)[i] = back[i]
                          /\ (i \in DOMAIN WordsMore(p)) = (i \in DOMAIN more)
                          /\ i \in DOMAIN more => WordsMore(p)[i] = more[i]
    <3> SUFFICES ASSUME NEW i \in 1 .. m
                 PROVE  /\ WordsBack(p)[i] = back[i]
                        /\ (i \in DOMAIN WordsMore(p)) = (i \in DOMAIN more)
                        /\ i \in DOMAIN more => WordsMore(p)[i] = more[i]
      OBVIOUS
    <3>1. i \in 1 .. n /\ i \in 1 .. Len(p) /\ p[i] = t[i]
      BY <2>1, <2>2
    <3>2. RunStart(p, Blanks, i) = RunStart(t, Blanks, i)
          /\ SubSeq(p, RunStart(t, Blanks, i), i) = SubSeq(t, RunStart(t, Blanks, i), i)
      BY <2>3
    <3>3. WordsBack(p)[i] = back[i]
      BY ONLY <3>1, <3>2 DEF WordsBack, back, n
    <3>4. (i \in DOMAIN WordsMore(p)) = (i \in DOMAIN more)
      BY ONLY <3>1 DEF WordsMore, more, n
    <3>5. i \in DOMAIN more => WordsMore(p)[i] = more[i]
      BY ONLY <3>1, <3>2 DEF WordsMore, more, n
    <3> QED
      BY <3>3, <3>4, <3>5
  <2>6. Gathers(h, m, back, more)
    BY <2>4, <2>5 DEF Gathers
  <2>7. Gathers(g, m, back, more)
    BY <1>2, <2>2 DEF Gathers
  <2>8. LooksBack(back, m)
    BY <1>3, <2>2 DEF LooksBack
  <2>9. m \in Nat /\ m \in 0 .. m
    BY <1>1
  <2>10. g[m] = h[m]
    BY <2>6, <2>7, <2>8, <2>9, GatheringsAgree
  <2> QED
    BY <2>4, <2>10 DEF p
<1>5. NonCjkTokens(t) \in Seq(Word(X))
  BY <1>1, <1>2
<1>6. n = 0 => NonCjkTokens(t) = <<>>
  BY <1>2 DEF Gathers
<1>7. ASSUME n > 0, t[n] \in Blanks
      PROVE  NonCjkTokens(t) = NonCjkTokens(SubSeq(t, 1, n - 1))
  <2>1. n \in 1 .. n /\ n - 1 \in 0 .. n
    BY <1>1, <1>7
  <2>2. back[n] = n - 1 /\ n \notin DOMAIN more
    BY <1>7, <2>1 DEF WordsBack, WordsMore
  <2>3. g[n] = g[n - 1]
    BY <1>2, <2>1, <2>2 DEF Gathers
  <2> QED
    BY <1>2, <1>4, <2>1, <2>3
<1>8. ASSUME NEW s \in 1 .. n, \A j \in s .. n : t[j] \notin Blanks, s = 1 \/ t[s - 1] \in Blanks
      PROVE  NonCjkTokens(t) = NonCjkTokens(SubSeq(t, 1, s - 1)) \o WordTokens(SubSeq(t, s, n))
  <2>1. n \in 1 .. n /\ n \in s .. n /\ s - 1 \in 0 .. n
    BY <1>1
  <2>2. t[n] \notin Blanks
    BY <1>8, <2>1
  <2>3. s = RunStart(t, Blanks, n)
    <3>1. \A j \in s .. n : (t[j] \in Blanks) = (t[n] \in Blanks)
      BY <1>8, <2>2
    <3>2. s = 1 \/ (t[s - 1] \in Blanks) # (t[n] \in Blanks)
      BY <1>8, <2>2
    <3>3. n \in Nat \ {0}
      BY <1>1, <2>1
    <3> HIDE DEF n
    <3> QED
      BY <3>1, <3>2, <3>3, RunStartIs
  <2>4. back[n] = s - 1 /\ n \in DOMAIN more /\ more[n] = WordTokens(SubSeq(t, s, n))
    BY <2>1, <2>2, <2>3 DEF WordsBack, WordsMore
  <2>5. g[n] = g[s - 1] \o WordTokens(SubSeq(t, s, n))
    BY <1>2, <2>1, <2>4 DEF Gathers
  <2> QED
    BY <1>2, <1>4, <2>1, <2>5
<1> QED
  BY <1>5, <1>6, <1>7, <1>8

LEMMA SegmentsAreTokens ==
    ASSUME NEW X, NEW t \in Seq(X)
    PROVE  SegmentTokens(t) \in Seq(Word(X))
<1>1. JiebaCut(t) \in Seq(Word(X))
  <2>1. Len(t) \in Nat /\ DOMAIN t = 1 .. Len(t) /\ \A i \in 1 .. Len(t) : t[i] \in X
    BY LenProperties, ElementOfSeq
  <2>2. \A i \in 1 .. Len(t) : <<t[i]>> \in Word(X)
    BY <2>1 DEF Word
  <2>3. [i \in 1 .. Len(t) |-> <<t[i]>>] \in Seq(Word(X))
    BY <2>1, <2>2
  <2> QED
    BY <2>1, <2>3 DEF JiebaCut
<1>2. NonCjkTokens(t) \in Seq(Word(X))
  BY NonCjkUnfolds
<1> QED
  BY <1>1, <1>2, Zenon DEF SegmentTokens

(* The same for the segments of a text.                                     *)
SegmentsBack(t) == [i \in 1 .. Len(t) |-> RunStart(t, Cjk, i) - 1]

SegmentsMore(t) ==
    [i \in 1 .. Len(t) |-> SegmentTokens(SubSeq(t, RunStart(t, Cjk, i), i))]

LEMMA SegmentsGather ==
    ASSUME NEW X, NEW t \in Seq(X)
    PROVE  /\ \A i \in 1 .. Len(t) : SegmentsBack(t)[i] \in 0 .. (i - 1)
           /\ \E g \in [0 .. Len(t) -> Seq(Word(X))] :
                 /\ Gathers(g, Len(t), SegmentsBack(t), SegmentsMore(t))
                 /\ TokenizeText(t) = g[Len(t)]
<1> DEFINE n == Len(t)
           W == Word(X)
           back == SegmentsBack(t)
           more == SegmentsMore(t)
           start(i) == RunStart(t, Cjk, i)
           F(g) == [i \in 0 .. n |->
                       IF i = 0 THEN <<>>
                       ELSE g[start(i) - 1] \o SegmentTokens(SubSeq(t, start(i), i))]
           f == CHOOSE g : g = F(g)
<1>1. n \in Nat /\ \A i \in 1 .. n : i \in Nat \ {0} /\ start(i) \in 1 .. i
  BY LenProperties, RunStartIs
<1>2. TokenizeText(t) = f[n]
  BY DEF TokenizeText
<1> HIDE DEF start
<1>3. /\ \A i \in 1 .. n : back[i] = start(i) - 1
      /\ \A i \in 1 .. n : back[i] \in 0 .. (i - 1) /\ back[i] \in 0 .. n /\ back[i] < i
      /\ back \in [1 .. n -> 0 .. n]
  <2>1. \A i \in 1 .. n : back[i] = start(i) - 1
    BY DEF SegmentsBack, start
  <2>2. \A i \in 1 .. n : back[i] \in 0 .. (i - 1) /\ back[i] \in 0 .. n /\ back[i] < i
    BY <1>1, <2>1
  <2>3. back = [i \in 1 .. n |-> back[i]]
    BY DEF SegmentsBack
  <2> HIDE DEF back, n
  <2> QED
    BY <2>1, <2>2, <2>3
<1>4. /\ DOMAIN more = 1 .. n
      /\ \A i \in 1 .. n : more[i] = SegmentTokens(SubSeq(t, start(i), i)) /\ more[i] \in Seq(W)
      /\ more \in [1 .. n -> Seq(W)]
  <2>1. DOMAIN more = 1 .. n
        /\ \A i \in 1 .. n : more[i] = SegmentTokens(SubSeq(t, start(i), i))
    BY DEF SegmentsMore, start
  <2>2. ASSUME NEW i \in 1 .. n PROVE more[i] \in Seq(W)
    <3>1. start(i) \in 1 .. (n + 1) /\ i \in (start(i) - 1) .. n
      BY <1>1
    <3>2. SubSeq(t, start(i), i) \in Seq(X)
      BY <3>1, Slice
    <3> QED
      BY <2>1, <3>2, SegmentsAreTokens
  <2>3. more = [i \in 1 .. n |-> more[i]]
    BY DEF SegmentsMore
  <2> HIDE DEF more, W, n
  <2> QED
    BY <2>1, <2>2, <2>3
<1> HIDE DEF back, more, W, n
<1>5. PICK g \in [0 .. n -> Seq(W)] : Gathers(g, n, back, more)
  BY <1>1, <1>3, <1>4, GatheringExists
<1>6. ASSUME NEW h, h = F(h) PROVE Gathers(h, n, back, more)
  <2>1. \A i \in 0 .. n : h[i] = IF i = 0 THEN <<>>
           ELSE h[start(i) - 1] \o SegmentTokens(SubSeq(t, start(i), i))
    BY <1>6, Zenon
  <2>2. 0 \in 0 .. n /\ \A i \in 1 .. n : i \in 0 .. n /\ i # 0
    BY <1>1
  <2>3. h[0] = <<>> /\ \A i \in 1 .. n :
           h[i] = h[start(i) - 1] \o SegmentTokens(SubSeq(t, start(i), i))
    BY <2>1, <2>2, Zenon
  <2> QED
    BY <1>3, <1>4, <2>3 DEF Gathers
<1>7. g = F(g)
  <2>1. \A i \in 1 .. n : g[i] = g[start(i) - 1] \o SegmentTokens(SubSeq(t, start(i), i))
    BY <1>3, <1>4, <1>5 DEF Gathers
  <2>2. g[0] = <<>> /\ g = [i \in 0 .. n |-> g[i]]
    BY <1>5 DEF Gathers
  <2>3. \A i \in 0 .. n : i = 0 \/ i \in 1 .. n
    BY <1>1
  <2> QED
    BY <2>1, <2>2, <2>3
<1>8. f = F(f)
  <2> HIDE DEF F
  <2> QED
    BY <1>7, Zenon
<1> HIDE DEF F, f
<1>9. Gathers(f, n, back, more)
  BY <1>6, <1>8
<1>10. \A k \in 0 .. n : f[k] = g[k]
  <2>1. n \in Nat /\ LooksBack(back, n)
    BY <1>1, <1>3 DEF LooksBack
  <2> QED
    BY <1>5, <1>9, <2>1, GatheringsAgree
<1>11. TokenizeText(t) = g[n]
  BY <1>1, <1>2, <1>10
<1> QED
  BY <1>3, <1>5, <1>11 DEF back, more, W, n

(* What tokenize_text has gathered before a position is what it makes of    *)
(* the characters before it.                                                *)
LEMMA TextUnfolds ==
    ASSUME NEW X, NEW t \in Seq(X)
    PROVE  /\ TokenizeText(t) \in Seq(Word(X))
           /\ Len(t) = 0 => TokenizeText(t) = <<>>
           /\ Len(t) > 0 => TokenizeText(t) =
                 TokenizeText(SubSeq(t, 1, RunStart(t, Cjk, Len(t)) - 1))
                 \o SegmentTokens(SubSeq(t, RunStart(t, Cjk, Len(t)), Len(t)))
<1> DEFINE n == Len(t)
           back == SegmentsBack(t)
           more == SegmentsMore(t)
<1>1. n \in Nat /\ \A i \in 1 .. n : i \in Nat \ {0} /\ RunStart(t, Cjk, i) \in 1 .. i
  BY LenProperties, RunStartIs
<1>2. PICK g \in [0 .. n -> Seq(Word(X))] :
         Gathers(g, n, back, more) /\ TokenizeText(t) = g[n]
  BY SegmentsGather
<1>3. \A i \in 1 .. n : back[i] \in 0 .. (i - 1)
  BY SegmentsGather
<1>4. ASSUME NEW m \in 0 .. n PROVE g[m] = TokenizeText(SubSeq(t, 1, m))
  <2> DEFINE p == SubSeq(t, 1, m)
  <2>1. p \in Seq(X) /\ Len(p) = m /\ \A k \in 1 .. m : p[k] = t[k]
    BY PrefixIsAlike
  <2>2. \A i \in 1 .. m : i \in 1 .. n /\ i \in Nat \ {0}
    BY <1>1
  <2>3. \A i \in 1 .. m :
           /\ RunStart(p, Cjk, i) = RunStart(t, Cjk, i)
           /\ SubSeq(p, RunStart(t, Cjk, i), i) = SubSeq(t, RunStart(t, Cjk, i), i)
    BY PrefixIsAlike
  <2> HIDE DEF p
  <2>4. PICK h \in [0 .. m -> Seq(Word(X))] :
           Gathers(h, m, SegmentsBack(p), SegmentsMore(p)) /\ TokenizeText(p) = h[m]
    BY <2>1, SegmentsGather
  <2>5. \A i \in 1 .. m : /\ SegmentsBack(p)[i] = back[i]
                          /\ (i \in DOMAIN SegmentsMore(p)) = (i \in DOMAIN more)
                          /\ SegmentsMore(p)[i] = more[i]
    <3> SUFFICES ASSUME NEW i \in 1 .. m
                 PROVE  /\ SegmentsBack(p)[i] = back[i]
                        /\ (i \in DOMAIN SegmentsMore(p)) = (i \in DOMAIN more)
                        /\ SegmentsMore(p)[i] = more[i]
      OBVIOUS
    <3>1. i \in 1 .. n /\ i \in 1 .. Len(p) /\ p[i] = t[i]
      BY <2>1, <2>2
    <3>2. RunStart(p, Cjk, i) = RunStart(t, Cjk, i)
          /\ SubSeq(p, RunStart(t, Cjk, i), i) = SubSeq(t, RunStart(t, Cjk, i), i)
      BY <2>3
    <3>3. SegmentsBack(p)[i] = back[i]
      BY ONLY <3>1, <3>2 DEF SegmentsBack, back, n
    <3>4. (i \in DOMAIN SegmentsMore(p)) = (i \in DOMAIN more)
      BY ONLY <3>1 DEF SegmentsMore, more, n
    <3>5. SegmentsMore(p)[i] = more[i]
      BY ONLY <3>1, <3>2 DEF SegmentsMore, more, n
    <3> QED
      BY <3>3, <3>4, <3>5
  <2>6. Gathers(h, m, back, more)
    BY <2>4, <2>5 DEF Gathers
  <2>7. Gathers(g, m, back, more)
    BY <1>2, <2>2 DEF Gathers
  <2>8. LooksBack(back, m)
    BY <1>3, <2>2 DEF LooksBack
  <2>9. m \in Nat /\ m \in 0 .. m
    BY <1>1
  <2>10. g[m] = h[m]
    BY <2>6, <2>7, <2>8, <2>9, GatheringsAgree
  <2> QED
    BY <2>4, <2>10 DEF p
<1>5. TokenizeText(t) \in Seq(Word(X))
  BY <1>1, <1>2
<1>6. n = 0 => TokenizeText(t) = <<>>
  BY <1>2 DEF Gathers
<1>7. ASSUME n > 0
      PROVE  TokenizeText(t) = TokenizeText(SubSeq(t, 1, RunStart(t, Cjk, n) - 1))
                               \o SegmentTokens(SubSeq(t, RunStart(t, Cjk, n), n))
  <2> DEFINE s == RunStart(t, Cjk, n)
  <2>1. n \in 1 .. n /\ s - 1 \in 0 .. n
    <3>1. n \in 1 .. n
      BY <1>1, <1>7
    <3>2. s \in 1 .. n
      BY <1>1, <3>1
    <3> QED
      BY <1>1, <3>1, <3>2
  <2>2. back[n] = s - 1 /\ n \in DOMAIN more /\ more[n] = SegmentTokens(SubSeq(t, s, n))
    BY <2>1 DEF SegmentsBack, SegmentsMore
  <2>3. g[n] = g[s - 1] \o SegmentTokens(SubSeq(t, s, n))
    BY <1>2, <2>1, <2>2 DEF Gathers
  <2> QED
    BY <1>2, <1>4, <2>1, <2>3
<1> QED
  BY <1>5, <1>6, <1>7

(* The two lemmas above for a stretch of a text.                            *)
LEMMA WordsOfSlice ==
    ASSUME NEW X, NEW t \in Seq(X), NEW a \in 1 .. (Len(t) + 1), NEW b \in (a - 1) .. Len(t)
    PROVE  /\ NonCjkTokens(SubSeq(t, a, b)) \in Seq(Word(X))
           /\ b = a - 1 => NonCjkTokens(SubSeq(t, a, b)) = <<>>
           /\ b >= a /\ t[b] \in Blanks =>
                 NonCjkTokens(SubSeq(t, a, b)) = NonCjkTokens(SubSeq(t, a, b - 1))
           /\ \A s \in a .. b :
                 /\ \A j \in s .. b : t[j] \notin Blanks
                 /\ s = a \/ t[s - 1] \in Blanks
                 => NonCjkTokens(SubSeq(t, a, b)) =
                       NonCjkTokens(SubSeq(t, a, s - 1)) \o WordTokens(SubSeq(t, s, b))
<1> DEFINE n == Len(t)
           u == SubSeq(t, a, b)
           m == b - a + 1
<1>1. n \in Nat /\ a \in Int /\ b \in Int /\ m \in Nat
  BY LenProperties
<1>2. u \in Seq(X) /\ Len(u) = m /\ \A k \in 1 .. m : u[k] = t[a + k - 1]
  BY Slice
<1>3. \A c \in 1 .. (m + 1) : \A d \in (c - 1) .. m :
         SubSeq(u, c, d) = SubSeq(t, a + c - 1, a + d - 1)
  <2>1. \A c \in 1 .. (m + 1) : c \in 1 .. (b - a + 2)
    BY <1>1
  <2> QED
    BY <2>1, SliceOfSlice
<1> HIDE DEF u, n
<1>4. NonCjkTokens(u) \in Seq(Word(X))
  BY <1>2, NonCjkUnfolds
<1>5. b = a - 1 => NonCjkTokens(u) = <<>>
  <2>1. b = a - 1 => Len(u) = 0
    BY <1>1, <1>2
  <2> QED
    BY <1>2, <2>1, NonCjkUnfolds
<1>6. ASSUME b >= a, t[b] \in Blanks PROVE NonCjkTokens(u) = NonCjkTokens(SubSeq(t, a, b - 1))
  <2>1. /\ m \in 1 .. m /\ a + m - 1 = b
        /\ 1 \in 1 .. (m + 1) /\ m - 1 \in (1 - 1) .. m
        /\ a + 1 - 1 = a /\ a + (m - 1) - 1 = b - 1
    BY <1>1, <1>6
  <2>2. u[m] \in Blanks /\ SubSeq(u, 1, m - 1) = SubSeq(t, a, b - 1)
    BY <1>2, <1>3, <1>6, <2>1
  <2>3. Len(u) > 0
    BY <1>2, <2>1
  <2> HIDE DEF m
  <2> QED
    BY <1>2, <2>2, <2>3, NonCjkUnfolds
<1>7. ASSUME NEW s \in a .. b, \A j \in s .. b : t[j] \notin Blanks, s = a \/ t[s - 1] \in Blanks
      PROVE  NonCjkTokens(u) = NonCjkTokens(SubSeq(t, a, s - 1)) \o WordTokens(SubSeq(t, s, b))
  <2> DEFINE r == s - a + 1
  <2>1. /\ r \in 1 .. m /\ 1 \in 1 .. (m + 1) /\ r - 1 \in (1 - 1) .. m
        /\ r \in 1 .. (m + 1) /\ m \in (r - 1) .. m
        /\ a + 1 - 1 = a /\ a + (r - 1) - 1 = s - 1 /\ a + r - 1 = s /\ a + m - 1 = b
    BY <1>1
  <2>2. SubSeq(u, 1, r - 1) = SubSeq(t, a, s - 1) /\ SubSeq(u, r, m) = SubSeq(t, s, b)
    <3> HIDE DEF r, m
    <3> QED
      BY <1>3, <2>1
  <2>3. \A j \in r .. m : j \in 1 .. m /\ a + j - 1 \in s .. b
    BY <1>1, <2>1
  <2>4. \A j \in r .. m : u[j] \notin Blanks
    BY <1>2, <1>7, <2>3
  <2>5. r = 1 \/ u[r - 1] \in Blanks
    <3>1. CASE s = a
      BY <1>1, <3>1
    <3>2. CASE s # a
      <4>1. r - 1 \in 1 .. m /\ a + (r - 1) - 1 = s - 1
        BY <1>1, <3>2
      <4> QED
        BY <1>2, <1>7, <3>2, <4>1
    <3> QED
      BY <3>1, <3>2
  <2> HIDE DEF r, m
  <2>6. NonCjkTokens(u) = NonCjkTokens(SubSeq(u, 1, r - 1)) \o WordTokens(SubSeq(u, r, m))
    BY <1>2, <2>1, <2>4, <2>5, NonCjkUnfolds
  <2> QED
    BY <2>2, <2>6
<1> QED
  BY <1>4, <1>5, <1>6, <1>7 DEF u

LEMMA SegmentsOfSlice ==
    ASSUME NEW X, NEW t \in Seq(X), NEW a \in 1 .. (Len(t) + 1), NEW b \in (a - 1) .. Len(t)
    PROVE  /\ TokenizeText(SubSeq(t, a, b)) \in Seq(Word(X))
           /\ b = a - 1 => TokenizeText(SubSeq(t, a, b)) = <<>>
           /\ \A s \in a .. b :
                 /\ \A j \in s .. b : (t[j] \in Cjk) = (t[b] \in Cjk)
                 /\ s = a \/ (t[s - 1] \in Cjk) # (t[b] \in Cjk)
                 => TokenizeText(SubSeq(t, a, b)) =
                       TokenizeText(SubSeq(t, a, s - 1)) \o SegmentTokens(SubSeq(t, s, b))
<1> DEFINE n == Len(t)
           u == SubSeq(t, a, b)
           m == b - a + 1
<1>1. n \in Nat /\ a \in Int /\ b \in Int /\ m \in Nat
  BY LenProperties
<1>2. u \in Seq(X) /\ Len(u) = m /\ \A k \in 1 .. m : u[k] = t[a + k - 1]
  BY Slice
<1>3. \A c \in 1 .. (m + 1) : \A d \in (c - 1) .. m :
         SubSeq(u, c, d) = SubSeq(t, a + c - 1, a + d - 1)
  <2>1. \A c \in 1 .. (m + 1) : c \in 1 .. (b - a + 2)
    BY <1>1
  <2> QED
    BY <2>1, SliceOfSlice
<1> HIDE DEF u, n
<1>4. TokenizeText(u) \in Seq(Word(X))
  BY <1>2, TextUnfolds
<1>5. b = a - 1 => TokenizeText(u) = <<>>
  <2>1. b = a - 1 => Len(u) = 0
    BY <1>1, <1>2
  <2> QED
    BY <1>2, <2>1, TextUnfolds
<1>6. ASSUME NEW s \in a .. b, \A j \in s .. b : (t[j] \in Cjk) = (t[b] \in Cjk),
             s = a \/ (t[s - 1] \in Cjk) # (t[b] \in Cjk)
      PROVE  TokenizeText(u) = TokenizeText(SubSeq(t, a, s - 1)) \o SegmentTokens(SubSeq(t, s, b))
  <2> DEFINE r == s - a + 1
  <2>1. /\ r \in 1 .. m /\ 1 \in 1 .. (m + 1) /\ r - 1 \in (1 - 1) .. m
        /\ r \in 1 .. (m + 1) /\ m \in (r - 1) .. m /\ m \in Nat \ {0} /\ m \in 1 .. m
        /\ a + 1 - 1 = a /\ a + (r - 1) - 1 = s - 1 /\ a + r - 1 = s /\ a + m - 1 = b
    BY <1>1
  <2>2. SubSeq(u, 1, r - 1) = SubSeq(t, a, s - 1) /\ SubSeq(u, r, m) = SubSeq(t, s, b)
    <3> HIDE DEF r, m
    <3> QED
      BY <1>3, <2>1
  <2>3. \A j \in r .. m : j \in 1 .. m /\ a + j - 1 \in s .. b
    BY <1>1, <2>1
  <2>4. u[m] = t[b]
    <3> HIDE DEF m
    <3> QED
      BY <1>2, <2>1
  <2>5. \A j \in r .. m : (u[j] \in Cjk) = (u[m] \in Cjk)
    BY <1>2, <1>6, <2>3, <2>4
  <2>6. r = 1 \/ (u[r - 1] \in Cjk) # (u[m] \in Cjk)
    <3>1. CASE s = a
      BY <1>1, <3>1
    <3>2. CASE s # a
      <4>1. r - 1 \in 1 .. m /\ a + (r - 1) - 1 = s - 1
        BY <1>1, <3>2
      <4>2. u[r - 1] = t[s - 1]
        BY <1>2, <4>1
      <4> QED
        BY <1>6, <2>4, <3>2, <4>2
    <3> QED
      BY <3>1, <3>2
  <2> HIDE DEF r, m
  <2>7. r = RunStart(u, Cjk, m)
    BY <2>1, <2>5, <2>6, RunStartIs
  <2>8. TokenizeText(u) = TokenizeText(SubSeq(u, 1, r - 1)) \o SegmentTokens(SubSeq(u, r, m))
    <3>1. Len(u) > 0 /\ Len(u) = m
      BY <1>2, <2>1
    <3> QED
      BY <1>2, <2>7, <3>1, TextUnfolds
  <2> QED
    BY <2>2, <2>8
<1> QED
  BY <1>4, <1>5, <1>6 DEF u

(* A blank divides what tokenize_non_cjk_segment makes of a segment.        *)
LEMMA BlanksDivideWords ==
    ASSUME NEW X, NEW t \in Seq(X), NEW a \in 1 .. Len(t), NEW i \in a .. Len(t),
           NEW b \in i .. Len(t), t[i] \in Blanks
    PROVE  NonCjkTokens(SubSeq(t, a, b)) =
              NonCjkTokens(SubSeq(t, a, i - 1)) \o NonCjkTokens(SubSeq(t, i + 1, b))
<1> DEFINE n == Len(t)
           W == Word(X)
           N(c, d) == NonCjkTokens(SubSeq(t, c, d))
           T(c, d) == WordTokens(SubSeq(t, c, d))
           A == {k \in i .. b : \A j \in i .. k : N(a, j) = N(a, i - 1) \o N(i + 1, j)}
<1>1. n \in Nat /\ a \in Int /\ i \in Int /\ b \in Int
  BY LenProperties
<1>2. \A c \in 1 .. (n + 1) : \A d \in (c - 1) .. n :
         /\ N(c, d) \in Seq(W)
         /\ d = c - 1 => N(c, d) = <<>>
         /\ d >= c /\ t[d] \in Blanks => N(c, d) = N(c, d - 1)
         /\ \A s \in c .. d :
               (\A j \in s .. d : t[j] \notin Blanks) /\ (s = c \/ t[s - 1] \in Blanks)
               => N(c, d) = N(c, s - 1) \o T(s, d)
  BY WordsOfSlice
<1>3. \A c \in 1 .. n : \A d \in c .. n : T(c, d) \in Seq(W)
  <2> SUFFICES ASSUME NEW c \in 1 .. n, NEW d \in c .. n PROVE T(c, d) \in Seq(W)
    OBVIOUS
  <2>1. c \in 1 .. (n + 1) /\ d \in (c - 1) .. n
    BY <1>1
  <2>2. SubSeq(t, c, d) \in Seq(X)
    BY <2>1, Slice
  <2> QED
    BY <2>2, WordTokensHold
<1>assoc. \A x, y, z \in Seq(W) : (x \o y) \o z = x \o (y \o z)
  <2> HIDE DEF W
  <2> QED
    BY ConcatAssociative
<1> HIDE DEF N, T, n, W
<1>4. /\ a \in 1 .. (n + 1) /\ i + 1 \in 1 .. (n + 1)
      /\ i - 1 \in (a - 1) .. n
      /\ \A k \in i .. b : k \in (a - 1) .. n /\ k >= a /\ k \in ((i + 1) - 1) .. n
  BY <1>1 DEF n
<1>5. i \in A
  <2>1. i \in i .. b /\ i = (i + 1) - 1 /\ \A j \in i .. i : j = i
    BY <1>1
  <2>2. N(a, i) = N(a, i - 1)
    BY <1>2, <1>4, <2>1
  <2>3. N(i + 1, i) = <<>>
    BY <1>2, <1>4, <2>1
  <2>4. N(a, i - 1) \o <<>> = N(a, i - 1)
    BY <1>2, <1>4, ConcatEmptySeq
  <2> QED
    BY <2>1, <2>2, <2>3, <2>4
<1>6. ASSUME NEW k \in i .. (b - 1), k \in A PROVE k + 1 \in A
  <2>1. /\ k + 1 \in i .. b /\ k \in i .. b /\ k \in i .. k /\ k + 1 \in Nat \ {0}
        /\ (k + 1) - 1 = k /\ k + 1 >= a /\ k + 1 >= i + 1
    BY <1>1
  <2>2. \A j \in i .. k : N(a, j) = N(a, i - 1) \o N(i + 1, j)
    BY <1>6
  <2>3. N(a, k + 1) = N(a, i - 1) \o N(i + 1, k + 1)
    <3>1. CASE t[k + 1] \in Blanks
      <4>1. N(a, k + 1) = N(a, k)
        BY <1>2, <1>4, <2>1, <3>1
      <4>2. N(i + 1, k + 1) = N(i + 1, k)
        BY <1>2, <1>4, <2>1, <3>1
      <4> QED
        BY <2>1, <2>2, <4>1, <4>2
    <3>2. CASE t[k + 1] \notin Blanks
      <4> DEFINE s == RunStart(t, Blanks, k + 1)
      <4>1. /\ s \in 1 .. (k + 1)
            /\ \A j \in s .. (k + 1) : (t[j] \in Blanks) = (t[k + 1] \in Blanks)
            /\ s = 1 \/ (t[s - 1] \in Blanks) # (t[k + 1] \in Blanks)
        BY <2>1, RunStartIs
      <4> HIDE DEF s
      <4>2. s > i
        <5>1. i \in s .. (k + 1) => t[i] \notin Blanks
          BY <3>2, <4>1
        <5> QED
          BY <1>1, <4>1, <5>1
      <4>3. /\ s \in a .. (k + 1) /\ s \in (i + 1) .. (k + 1) /\ s # 1
            /\ s - 1 \in i .. k /\ s \in 1 .. n /\ k + 1 \in s .. n
        BY <1>1, <1>4, <2>1, <4>1, <4>2
      <4>4. (\A j \in s .. (k + 1) : t[j] \notin Blanks) /\ t[s - 1] \in Blanks
        BY <3>2, <4>1, <4>3
      <4>5. N(a, k + 1) = N(a, s - 1) \o T(s, k + 1)
        BY <1>2, <1>4, <2>1, <4>3, <4>4
      <4>6. N(i + 1, k + 1) = N(i + 1, s - 1) \o T(s, k + 1)
        BY <1>2, <1>4, <2>1, <4>3, <4>4
      <4>7. N(a, s - 1) = N(a, i - 1) \o N(i + 1, s - 1)
        BY <2>2, <4>3
      <4>8. N(a, i - 1) \in Seq(W) /\ N(i + 1, s - 1) \in Seq(W) /\ T(s, k + 1) \in Seq(W)
        <5>1. s - 1 \in i .. b
          BY <2>1, <4>3
        <5> QED
          BY <1>2, <1>3, <1>4, <4>3, <5>1
      <4>9. (N(a, i - 1) \o N(i + 1, s - 1)) \o T(s, k + 1)
               = N(a, i - 1) \o (N(i + 1, s - 1) \o T(s, k + 1))
        BY ONLY <4>8, <1>assoc
      <4> QED
        BY ONLY <4>5, <4>6, <4>7, <4>9
    <3> QED
      BY <3>1, <3>2
  <2>4. \A j \in i .. (k + 1) : j \in i .. k \/ j = k + 1
    BY <1>1
  <2> QED
    BY <2>1, <2>2, <2>3, <2>4
<1>7. i .. b \subseteq A
  <2> HIDE DEF A
  <2> QED
    BY ONLY <1>1, <1>5, <1>6, IntervalInduction
<1>8. b \in i .. b /\ b \in A
  <2>1. b \in i .. b
    BY <1>1 DEF n
  <2> QED
    BY <1>7, <2>1
<1>9. N(a, b) = N(a, i - 1) \o N(i + 1, b)
  BY <1>8
<1> QED
  BY <1>9 DEF N

(* And it divides what tokenize_text makes of a text, though a segment may  *)
(* reach across it.                                                         *)
LEMMA BlanksDivideTexts ==
    ASSUME NEW X, NEW t \in Seq(X), NEW i \in 1 .. Len(t), t[i] \in Blanks
    PROVE  TokenizeText(t) = TokenizeText(SubSeq(t, 1, i - 1))
                             \o TokenizeText(SubSeq(t, i + 1, Len(t)))
<1> DEFINE n == Len(t)
           W == Word(X)
           N(c, d) == NonCjkTokens(SubSeq(t, c, d))
           S(c, d) == SegmentTokens(SubSeq(t, c, d))
           T(c, d) == TokenizeText(SubSeq(t, c, d))
           A == {k \in i .. n : \A j \in i .. k : T(1, j) = T(1, i - 1) \o T(i + 1, j)}
<1>1. n \in Nat /\ i \in Int
  BY LenProperties
<1>2. \A c \in 1 .. (n + 1) : \A d \in (c - 1) .. n :
         /\ T(c, d) \in Seq(W)
         /\ d = c - 1 => T(c, d) = <<>>
         /\ \A s \in c .. d :
               /\ \A j \in s .. d : (t[j] \in Cjk) = (t[d] \in Cjk)
               /\ s = c \/ (t[s - 1] \in Cjk) # (t[d] \in Cjk)
               => T(c, d) = T(c, s - 1) \o S(s, d)
  BY SegmentsOfSlice
<1>3. \A c \in 1 .. (n + 1) : \A d \in (c - 1) .. n :
         N(c, d) \in Seq(W) /\ (d = c - 1 => N(c, d) = <<>>)
  BY WordsOfSlice
<1>4. \A c \in 1 .. n : \A d \in c .. n :
         S(c, d) \in Seq(W) /\ (t[c] \notin Cjk => S(c, d) = N(c, d))
  <2> SUFFICES ASSUME NEW c \in 1 .. n, NEW d \in c .. n
               PROVE  S(c, d) \in Seq(W) /\ (t[c] \notin Cjk => S(c, d) = N(c, d))
    OBVIOUS
  <2>1. c \in 1 .. (n + 1) /\ d \in (c - 1) .. n
    BY <1>1
  <2>2. SubSeq(t, c, d) \in Seq(X)
    BY <2>1, Slice
  <2>3. Head(SubSeq(t, c, d)) = t[c]
    BY HeadTailOfSubSeq
  <2>4. S(c, d) \in Seq(W)
    BY <2>2, SegmentsAreTokens
  <2> QED
    BY <2>3, <2>4 DEF SegmentTokens
<1>5. \A c \in 1 .. n : \A d \in c .. n : \A j \in c .. d :
         t[j] \in Blanks => N(c, d) = N(c, j - 1) \o N(j + 1, d)
  <2> SUFFICES ASSUME NEW c \in 1 .. n, NEW d \in c .. n, NEW j \in c .. d, t[j] \in Blanks
               PROVE  N(c, d) = N(c, j - 1) \o N(j + 1, d)
    OBVIOUS
  <2>1. j \in c .. n /\ d \in j .. n
    BY <1>1
  <2> QED
    BY <2>1, BlanksDivideWords
<1>6. t[i] \notin Cjk
  BY ClassAssumption
<1>assoc. \A x, y, z \in Seq(W) : (x \o y) \o z = x \o (y \o z)
  <2> HIDE DEF W
  <2> QED
    BY ConcatAssociative
<1> HIDE DEF N, S, T, n, W
<1>7. ASSUME NEW k \in i .. n, \A j \in i .. (k - 1) : T(1, j) = T(1, i - 1) \o T(i + 1, j)
      PROVE  T(1, k) = T(1, i - 1) \o T(i + 1, k)
  <2> DEFINE s == RunStart(t, Cjk, k)
  <2>1. /\ 1 \in 1 .. (n + 1) /\ i + 1 \in 1 .. (n + 1) /\ k \in (1 - 1) .. n
        /\ k \in ((i + 1) - 1) .. n /\ k \in 1 .. n /\ k \in Nat \ {0} /\ k \in 1 .. k
        /\ i - 1 \in (1 - 1) .. n /\ i \in 1 .. n
    BY <1>1 DEF n
  <2>2. /\ s \in 1 .. k
        /\ \A j \in s .. k : (t[j] \in Cjk) = (t[k] \in Cjk)
        /\ s = 1 \/ (t[s - 1] \in Cjk) # (t[k] \in Cjk)
    BY <2>1, RunStartIs
  <2> HIDE DEF s
  <2>3. s \in 1 .. n /\ k \in s .. n /\ s - 1 \in (1 - 1) .. n
    BY <1>1, <2>1, <2>2
  <2>4. T(1, k) = T(1, s - 1) \o S(s, k)
    BY <1>2, <2>1, <2>2
  <2>5. CASE s > i
    <3>1. s \in (i + 1) .. k /\ s - 1 \in i .. (k - 1) /\ s # 1 /\ s - 1 \in ((i + 1) - 1) .. n
      BY <1>1, <2>2, <2>3, <2>5
    <3>2. T(i + 1, k) = T(i + 1, s - 1) \o S(s, k)
      BY <1>2, <2>1, <2>2, <3>1
    <3>3. T(1, s - 1) = T(1, i - 1) \o T(i + 1, s - 1)
      BY <1>7, <3>1
    <3>4. T(1, i - 1) \in Seq(W) /\ T(i + 1, s - 1) \in Seq(W) /\ S(s, k) \in Seq(W)
      BY <1>2, <1>4, <2>1, <2>3, <3>1
    <3>5. (T(1, i - 1) \o T(i + 1, s - 1)) \o S(s, k)
             = T(1, i - 1) \o (T(i + 1, s - 1) \o S(s, k))
      BY ONLY <3>4, <1>assoc
    <3> QED
      BY ONLY <2>4, <3>2, <3>3, <3>5
  <2>6. CASE s <= i
    <3>1. i \in s .. k /\ s \in s .. k /\ s \in 1 .. i
      BY <1>1, <2>2, <2>6
    <3>2. t[k] \notin Cjk /\ \A j \in s .. k : t[j] \notin Cjk
      BY <1>6, <2>2, <3>1
    <3>3. S(s, k) = N(s, i - 1) \o N(i + 1, k)
      BY <1>4, <1>5, <2>3, <3>1, <3>2
    <3>4. T(i + 1, k) = N(i + 1, k)
      <4>1. CASE k = i
        <5>1. k = (i + 1) - 1
          BY <1>1, <4>1
        <5> QED
          BY <1>2, <1>3, <2>1, <5>1
      <4>2. CASE k # i
        <5>1. /\ i + 1 \in (i + 1) .. k /\ i + 1 \in 1 .. n /\ k \in (i + 1) .. n
              /\ (i + 1) - 1 \in ((i + 1) - 1) .. n
              /\ \A j \in (i + 1) .. k : j \in s .. k
          BY <1>1, <2>1, <3>1, <4>2
        <5>2. T(i + 1, k) = T(i + 1, (i + 1) - 1) \o S(i + 1, k)
          <6>1. \A j \in (i + 1) .. k : (t[j] \in Cjk) = (t[k] \in Cjk)
            BY <3>2, <5>1
          <6> QED
            BY <1>2, <2>1, <5>1, <6>1
        <5>3. T(i + 1, (i + 1) - 1) = <<>>
          BY <1>2, <2>1, <5>1
        <5>4. S(i + 1, k) = N(i + 1, k) /\ N(i + 1, k) \in Seq(W)
          BY <1>3, <1>4, <2>1, <3>2, <5>1
        <5> QED
          BY <5>2, <5>3, <5>4, ConcatEmptySeq
      <4> QED
        BY <4>1, <4>2
    <3>5. T(1, i - 1) = T(1, s - 1) \o N(s, i - 1)
      <4>1. CASE s = i
        <5>1. N(s, i - 1) = <<>>
          <6>1. i \in 1 .. (n + 1) /\ i - 1 \in (i - 1) .. n
            BY <1>1, <2>1
          <6> QED
            BY <1>3, <4>1, <6>1
        <5>2. T(1, s - 1) \in Seq(W)
          BY <1>2, <2>1, <2>3
        <5> QED
          BY <4>1, <5>1, <5>2, ConcatEmptySeq
      <4>2. CASE s # i
        <5>1. /\ s \in 1 .. (i - 1) /\ i - 1 \in s .. k /\ i - 1 \in s .. n
              /\ \A j \in s .. (i - 1) : j \in s .. k
          BY <1>1, <2>1, <2>3, <3>1, <4>2
        <5>2. T(1, i - 1) = T(1, s - 1) \o S(s, i - 1)
          BY <1>2, <2>1, <2>2, <3>2, <5>1
        <5>3. S(s, i - 1) = N(s, i - 1)
          BY <1>4, <2>3, <3>1, <3>2, <5>1
        <5> QED
          BY <5>2, <5>3
      <4> QED
        BY <4>1, <4>2
    <3>6. T(1, s - 1) \in Seq(W) /\ N(s, i - 1) \in Seq(W) /\ N(i + 1, k) \in Seq(W)
      <4>1. s \in 1 .. (n + 1) /\ i - 1 \in (s - 1) .. n
        BY <1>1, <2>1, <2>3, <3>1
      <4> QED
        BY <1>2, <1>3, <2>1, <2>3, <4>1
    <3>7. (T(1, s - 1) \o N(s, i - 1)) \o N(i + 1, k)
             = T(1, s - 1) \o (N(s, i - 1) \o N(i + 1, k))
      BY ONLY <3>6, <1>assoc
    <3> QED
      BY ONLY <2>4, <3>3, <3>4, <3>5, <3>7
  <2> QED
    BY <1>1, <2>2, <2>5, <2>6
<1>8. i \in A
  <2>1. i \in i .. n /\ i .. (i - 1) = {} /\ \A j \in i .. i : j = i
    BY <1>1 DEF n
  <2> QED
    BY <1>7, <2>1
<1>9. ASSUME NEW k \in i .. (n - 1), k \in A PROVE k + 1 \in A
  <2>1. k + 1 \in i .. n /\ (k + 1) - 1 = k /\ \A j \in i .. (k + 1) : j \in i .. k \/ j = k + 1
    BY <1>1
  <2>2. \A j \in i .. k : T(1, j) = T(1, i - 1) \o T(i + 1, j)
    BY <1>9
  <2>3. T(1, k + 1) = T(1, i - 1) \o T(i + 1, k + 1)
    BY <1>7, <2>1, <2>2
  <2> QED
    BY <2>1, <2>2, <2>3
<1>10. i .. n \subseteq A
  <2>1. n \in Int
    BY <1>1
  <2> HIDE DEF A
  <2> QED
    BY ONLY <1>1, <1>8, <1>9, <2>1, IntervalInduction
<1>11. n \in i .. n /\ n \in A
  BY <1>1, <1>10 DEF n
<1>12. T(1, n) = T(1, i - 1) \o T(i + 1, n)
  BY <1>11
<1>13. SubSeq(t, 1, n) = t
  BY SubSeqFull DEF n
<1> QED
  BY <1>12, <1>13 DEF T, n

(* The stream holds the tokens of its text, or none yet.                    *)
TokensInv ==
    /\ text \in Seq(ToSet(text))
    /\ Read => pending = TokenizeText(text)

LEMMA TokensInvariant == PipelineSpec => []TokensInv
<1>1. PipelineInit => TokensInv
  <2>1. <<>> \in Seq(ToSet(<<>>)) /\ Len(<<>>) = 0
    OBVIOUS
  <2>2. TokenizeText(<<>>) = <<>>
    BY <2>1, TextUnfolds
  <2>3. TokenInit => TokensInv
    BY TextsAssumption DEF TokenInit, TokensInv, Read
  <2>4. text = <<>> /\ pending = <<>> => TokensInv
    BY <2>1, <2>2 DEF TokensInv
  <2> QED
    BY <2>3, <2>4 DEF PipelineInit
<1>2. TokensInv /\ [PipelineNext]_<<vars, tokenVars>> => TokensInv'
  <2> SUFFICES ASSUME TokensInv, [PipelineNext]_<<vars, tokenVars>> PROVE TokensInv'
    OBVIOUS
  <2>1. CASE NewStream
    BY <2>1 DEF TokensInv, Read, NewStream
  <2>2. CASE Advance
    BY <2>2 DEF TokensInv, Read, Advance
  <2>3. CASE UNCHANGED tokenVars
    BY <2>3 DEF TokensInv, Read, tokenVars
  <2> QED
    BY <2>1, <2>2, <2>3 DEF PipelineNext, TokenNext
<1> QED
  BY <1>1, <1>2, PTL DEF PipelineSpec

(* A text after another one is tokenized as it would be alone, however long *)
(* both are and whatever comes before and after the blank between them:     *)
(* what lets a phrase match at consecutive positions (tokenize_text and     *)
(* MonodexFtsTokenStream, src/engine/fts/tokenizer.rs).                     *)
THEOREM PhrasesAreRuns == PipelineSpec => []TextsStandAlone
<1>1. TokensInv => TextsStandAlone
  <2> SUFFICES ASSUME TokensInv, Read, NEW i \in DOMAIN text, text[i] \in Blanks
               PROVE  pending = TokenizeText(SubSeq(text, 1, i - 1))
                                \o TokenizeText(SubSeq(text, i + 1, Len(text)))
    BY DEF TextsStandAlone
  <2>1. text \in Seq(ToSet(text)) /\ pending = TokenizeText(text)
    BY DEF TokensInv
  <2>2. i \in 1 .. Len(text)
    BY <2>1, LenProperties
  <2> QED
    BY <2>1, <2>2, BlanksDivideTexts
<1> QED
  BY <1>1, TokensInvariant, PTL

(* A word as tokenize_non_cjk_segment cuts it: no blank, nothing Chinese.   *)
IsUncut(w) == \A k \in 1 .. Len(w) : w[k] \notin Blanks \cup Cjk

(* The words named up to e, when a part from p to e has no border inside,   *)
(* are those named before p and the part.                                   *)
LEMMA PartClosed ==
    ASSUME NEW X, NEW w \in Seq(X), IsUncut(w),
           NEW p \in 1 .. (Len(w) + 1), NEW e \in (p - 1) .. Len(w),
           p = 1 \/ BorderBefore(w, p),
           \A m \in (p + 1) .. e : ~BorderBefore(w, m),
           NEW P,
           \A i \in 1 .. (p - 1) : \A j \in i .. (p - 1) :
              IsNamedWord(w, i, j) => Lower(SubSeq(w, i, j)) \in P,
           p <= e => Lower(SubSeq(w, p, e)) \in P
    PROVE  \A i \in 1 .. e : \A j \in i .. e :
              IsNamedWord(w, i, j) => Lower(SubSeq(w, i, j)) \in P
<1> DEFINE n == Len(w)
<1>1. n \in Nat /\ p \in Int /\ e \in Int /\ 1 <= p /\ e <= n
  BY LenProperties
<1> SUFFICES ASSUME NEW i \in 1 .. e, NEW j \in i .. e, IsNamedWord(w, i, j)
             PROVE  Lower(SubSeq(w, i, j)) \in P
  OBVIOUS
<1>2. i \in Int /\ j \in Int /\ 1 <= i /\ i <= j /\ j <= e
  BY <1>1
<1>3. CASE j < p
  <2>1. i \in 1 .. (p - 1) /\ j \in i .. (p - 1)
    BY <1>1, <1>2, <1>3
  <2> QED
    BY <2>1
<1>4. CASE j >= p
  <2>1. i >= p
    <3> SUFFICES ASSUME i < p PROVE FALSE
      BY <1>1, <1>2
    <3>1. p # 1 /\ p \in (i + 1) .. j
      BY <1>1, <1>2, <1>4
    <3> QED
      BY <3>1 DEF IsNamedWord
  <2>2. i = p
    <3> SUFFICES ASSUME i > p PROVE FALSE
      BY <1>1, <1>2, <2>1
    <3>1. i # 1 /\ i \in (p + 1) .. e /\ i - 1 \in 1 .. n
      BY <1>1, <1>2
    <3>2. w[i - 1] \notin Blanks \cup Cjk
      BY <3>1 DEF IsUncut
    <3> QED
      BY <3>1, <3>2 DEF IsNamedWord
  <2>3. j = e
    <3> SUFFICES ASSUME j < e PROVE FALSE
      BY <1>1, <1>2
    <3>1. j # n /\ j + 1 \in (p + 1) .. e /\ j + 1 \in 1 .. n
      BY <1>1, <1>2, <1>4
    <3>2. w[j + 1] \notin Blanks \cup Cjk
      BY <3>1 DEF IsUncut
    <3> QED
      BY <3>1, <3>2 DEF IsNamedWord
  <2> QED
    BY <1>1, <1>2, <2>2, <2>3
<1> QED
  BY <1>1, <1>2, <1>3, <1>4

(* The loop of split_identifier after k characters of a word: the part it   *)
(* is in begins at p, where a word does; whether its last letter begins     *)
(* another is open while only upper-case letters have been seen; and all    *)
(* words that end before p are among the parts.                             *)
PartFrom(w, s, k, p) ==
    /\ s.part = SubSeq(w, p, k)
    /\ p = 1 \/ BorderBefore(w, p)
    /\ p = k + 1 => k = 0 \/ w[k] \in Joints
    /\ \A m \in p .. k : w[m] \notin Joints
    /\ \A m \in (p + 1) .. k :
          BorderBefore(w, m) => m = k /\ w[k - 1] \in Uppers /\ w[k] \in Uppers
    /\ \A i \in 1 .. (p - 1) : \A j \in i .. (p - 1) :
          IsNamedWord(w, i, j) => Lower(SubSeq(w, i, j)) \in ToSet(s.parts)

ScannedTo(w, s, k) ==
    /\ s.upper <=> k > 0 /\ w[k] \in Uppers
    /\ s.digit <=> k > 0 /\ w[k] \in Digits
    /\ \E p \in 1 .. (k + 1) : PartFrom(w, s, k, p)

(* The borders around the next character of a regular word, in the terms of *)
(* split_identifier.                                                        *)
LEMMA BordersAhead ==
    ASSUME NEW X, NEW w \in Seq(X), IsUncut(w), Regular(w), NEW k \in 1 .. (Len(w) - 1)
    PROVE  /\ w[k + 1] \in Joints => w[k] \notin Joints
           /\ w[k] \in Joints => BorderBefore(w, k + 1)
           /\ w[k + 1] \in Joints => BorderBefore(w, k + 2)
           /\ w[k] \notin Joints /\ w[k + 1] \notin Joints =>
                 /\ w[k] \notin Uppers /\ w[k + 1] \in Uppers => BorderBefore(w, k + 1)
                 /\ (w[k] \in Digits) # (w[k + 1] \in Digits) => BorderBefore(w, k + 1)
                 /\ BorderBefore(w, k + 1) =>
                       \/ w[k] \notin Uppers /\ w[k + 1] \in Uppers
                       \/ (w[k] \in Digits) # (w[k + 1] \in Digits)
                       \/ w[k] \in Uppers /\ w[k + 1] \in Uppers
           /\ k > 1 /\ w[k - 1] \in Uppers /\ w[k] \in Uppers =>
                 /\ (BorderBefore(w, k) <=> w[k + 1] \notin Uppers)
                 /\ w[k + 1] \notin Joints \cup Digits
<1> DEFINE n == Len(w)
<1>1. n \in Nat /\ k \in Int /\ 1 <= k /\ k < n /\ DOMAIN w = 1 .. n
  BY LenProperties
<1>2. /\ k + 1 \in 1 .. n /\ k + 1 > 1 /\ (k + 1) - 1 = k /\ (k + 2) - 1 = k + 1
      /\ (k > 1 => k + 1 > 2 /\ (k + 1) - 2 = k - 1)
  BY <1>1
<1>3. w[k + 1] \notin Blanks \cup Cjk
  BY <1>2 DEF IsUncut
<1>4. w[k + 1] \in Joints => w[k] \notin Joints
  BY <1>1, <1>2 DEF Regular
<1>5. ASSUME k > 1, w[k - 1] \in Uppers, w[k] \in Uppers
      PROVE  w[k + 1] \notin Joints \cup Digits
  BY <1>1, <1>2, <1>5 DEF Regular
<1>6. ASSUME k > 1, w[k - 1] \in Uppers, w[k] \in Uppers
      PROVE  (BorderBefore(w, k) <=> w[k + 1] \notin Uppers)
  <2>1. w[k - 1] \notin Joints \cup Digits /\ w[k] \notin Joints \cup Digits
    BY <1>6, ClassAssumption
  <2>2. BorderBefore(w, k) <=>
           k < n /\ w[k + 1] \notin UNION {Uppers, Digits, Joints, Blanks, Cjk}
    <3>1. ~((w[k - 1] \in Digits) # (w[k] \in Digits))
      BY <2>1
    <3> QED
      BY <1>6, <2>1, <3>1 DEF BorderBefore
  <2>3. \A ch : ch \in UNION {Uppers, Digits, Joints, Blanks, Cjk} <=>
           ch \in Uppers \/ ch \in Digits \/ ch \in Joints \/ ch \in Blanks \/ ch \in Cjk
    OBVIOUS
  <2>4. w[k + 1] \notin Digits \cup Joints \cup Blanks \cup Cjk
    BY <1>3, <1>5, <1>6
  <2> QED
    BY <1>1, <2>2, <2>3, <2>4
<1>7. BorderBefore(w, k + 1) =
         \/ w[k] \in Joints \/ w[k + 1] \in Joints
         \/ (w[k] \in Digits) # (w[k + 1] \in Digits)
         \/ w[k] \notin Uppers /\ w[k + 1] \in Uppers
         \/ /\ w[k] \in Uppers /\ w[k + 1] \in Uppers
            /\ k + 1 < n /\ w[(k + 1) + 1] \notin UNION {Uppers, Digits, Joints, Blanks, Cjk}
  BY <1>2 DEF BorderBefore
<1>8. w[k + 1] \in Joints => BorderBefore(w, k + 2)
  BY <1>2 DEF BorderBefore
<1> QED
  BY <1>4, <1>5, <1>6, <1>7, <1>8

(* One character more.                                                      *)
LEMMA ScanOn ==
    ASSUME NEW X, NEW w \in Seq(X), IsUncut(w), Regular(w), NEW k \in 0 .. (Len(w) - 1),
           NEW s \in SplitState(X), ScannedTo(w, s, k)
    PROVE  ScannedTo(w, SplitStep(s, w[k + 1]), k + 1)
<1> DEFINE n == Len(w)
           ch == w[k + 1]
           t == SplitStep(s, ch)
<1>1. n \in Nat /\ k \in Int /\ 0 <= k /\ k < n /\ k + 1 \in 1 .. n /\ DOMAIN w = 1 .. n
  BY LenProperties
<1>2. \A m \in 1 .. n : w[m] \in X
  BY ElementOfSeq
<1>3. PICK p \in 1 .. (k + 1) : PartFrom(w, s, k, p)
  BY DEF ScannedTo
<1>4. p \in Int /\ 1 <= p /\ p <= k + 1
  BY <1>1
<1>5. /\ s.upper <=> k > 0 /\ w[k] \in Uppers
      /\ s.digit # (ch \in Digits) <=> ~(k > 0 /\ w[k] \in Digits <=> ch \in Digits)
  <2>1. s.digit \in BOOLEAN /\ (s.digit <=> k > 0 /\ w[k] \in Digits)
    BY DEF ScannedTo, SplitState
  <2>2. CASE s.digit = TRUE
    <3>1. s.digit # (ch \in Digits) <=> ch \notin Digits
      BY <2>2
    <3> QED
      BY <2>1, <2>2, <3>1 DEF ScannedTo
  <2>3. CASE s.digit = FALSE
    <3>1. s.digit # (ch \in Digits) <=> ch \in Digits
      <4>1. CASE ch \in Digits
        BY <2>3, <4>1
      <4>2. CASE ch \notin Digits
        <5>1. (ch \in Digits) = FALSE
          BY <4>2
        <5> QED
          BY <2>3, <4>2, <5>1
      <4> QED
        BY <4>1, <4>2
    <3> QED
      BY <2>1, <2>3, <3>1 DEF ScannedTo
  <2> QED
    BY <2>1, <2>2, <2>3
<1>6. /\ s.part = SubSeq(w, p, k)
      /\ p = 1 \/ BorderBefore(w, p)
      /\ p = k + 1 => k = 0 \/ w[k] \in Joints
      /\ \A m \in p .. k : w[m] \notin Joints
      /\ \A m \in (p + 1) .. k :
            BorderBefore(w, m) => m = k /\ w[k - 1] \in Uppers /\ w[k] \in Uppers
      /\ \A i \in 1 .. (p - 1) : \A j \in i .. (p - 1) :
            IsNamedWord(w, i, j) => Lower(SubSeq(w, i, j)) \in ToSet(s.parts)
  BY <1>3 DEF PartFrom
<1>7. /\ SubSeq(w, p, k) \in Seq(X) /\ Len(s.part) = k - p + 1
      /\ (s.part # <<>> <=> p <= k)
      /\ s.parts \in Seq(Word(X))
  <2>1. p \in 1 .. (n + 1) /\ k \in (p - 1) .. n
    BY <1>1, <1>4
  <2>2. SubSeq(w, p, k) \in Seq(X) /\ Len(SubSeq(w, p, k)) = k - p + 1
    BY <2>1, Slice
  <2>3. SubSeq(w, p, k) # <<>> <=> k - p + 1 # 0
    BY <2>2, EmptySeq
  <2>4. s.parts \in Seq(Word(X))
    BY DEF SplitState
  <2>5. k - p + 1 # 0 <=> p <= k
    BY <1>1, <1>4
  <2>6. s.part = SubSeq(w, p, k)
    BY <1>6
  <2> QED
    BY ONLY <2>2, <2>3, <2>4, <2>5, <2>6
<1>8. ch \in X /\ ch \notin Blanks \cup Cjk
  BY <1>1, <1>2 DEF IsUncut
<1>9. /\ t \in SplitState(X)
      /\ t.upper = (ch \in Uppers) /\ t.digit = (ch \in Digits)
      /\ AcronymEnds(s, ch) =>
            t.parts = NewPart(s.parts, Front(s.part)) /\ t.part = <<Last(s.part), ch>>
      /\ PartEnds(s, ch) =>
            /\ t.parts = NewPart(s.parts, s.part)
            /\ t.part = IF ch \in Joints THEN <<>> ELSE <<ch>>
      /\ ~AcronymEnds(s, ch) /\ ~PartEnds(s, ch) =>
            t.parts = s.parts /\ t.part = Append(s.part, ch)
  BY <1>8, SplitStepCases
<1>10. k > 0 => /\ ch \in Joints => w[k] \notin Joints
                /\ w[k] \in Joints => BorderBefore(w, k + 1)
                /\ ch \in Joints => BorderBefore(w, k + 2)
                /\ w[k] \notin Joints /\ ch \notin Joints =>
                      /\ w[k] \notin Uppers /\ ch \in Uppers => BorderBefore(w, k + 1)
                      /\ (w[k] \in Digits) # (ch \in Digits) => BorderBefore(w, k + 1)
                      /\ BorderBefore(w, k + 1) =>
                            \/ w[k] \notin Uppers /\ ch \in Uppers
                            \/ (w[k] \in Digits) # (ch \in Digits)
                            \/ w[k] \in Uppers /\ ch \in Uppers
                /\ k > 1 /\ w[k - 1] \in Uppers /\ w[k] \in Uppers =>
                      /\ (BorderBefore(w, k) <=> ch \notin Uppers)
                      /\ ch \notin Joints \cup Digits
  <2> SUFFICES ASSUME k > 0 PROVE k \in 1 .. (n - 1)
    BY BordersAhead
  <2> QED
    BY <1>1
<1>11. k = 0 => ch \notin Joints
  BY <1>1 DEF Regular
<1> HIDE DEF t, ch, n
<1> SUFFICES \E q \in 1 .. (k + 2) : PartFrom(w, t, k + 1, q)
  <2>1. k + 1 > 0 /\ (k + 1) + 1 = k + 2
    BY <1>1
  <2>2. t.upper <=> k + 1 > 0 /\ w[k + 1] \in Uppers
    BY <1>9, <2>1, Zenon DEF ch
  <2>3. t.digit <=> k + 1 > 0 /\ w[k + 1] \in Digits
    BY <1>9, <2>1, Zenon DEF ch
  <2> QED
    BY <2>1, <2>2, <2>3, Zenon DEF ScannedTo, t, ch
<1>12. CASE AcronymEnds(s, ch)
  <2>1. k > 0 /\ w[k] \in Uppers /\ ch \notin Uppers /\ p < k /\ k > 1
    BY <1>1, <1>4, <1>5, <1>7, <1>12 DEF AcronymEnds
  <2>2. w[k - 1] \in Uppers
    <3> SUFFICES ASSUME w[k - 1] \notin Uppers PROVE FALSE
      OBVIOUS
    <3>1. BorderBefore(w, k)
      BY <2>1 DEF BorderBefore
    <3>2. k \in (p + 1) .. k
      BY <1>4, <2>1
    <3> QED
      BY <1>6, <3>1, <3>2
  <2>3. BorderBefore(w, k) /\ ch \notin Joints \cup Digits
    BY <1>10, <2>1, <2>2
  <2>4. w[k] \notin Joints \cup Digits
    BY <2>1, ClassAssumption
  <2>5. ~BorderBefore(w, k + 1)
    BY <1>10, <2>1, <2>3, <2>4
  <2>6. /\ Front(s.part) = SubSeq(w, p, k - 1) /\ Last(s.part) = w[k]
        /\ SubSeq(w, p, k - 1) \in Seq(X) /\ SubSeq(w, p, k - 1) # <<>>
    <3>1. /\ p \in 1 .. (n + 1) /\ k \in (p - 1) .. n /\ k - 1 \in (p - 1) .. n
          /\ 1 \in 1 .. (k - p + 2) /\ (k - p + 1) - 1 \in (1 - 1) .. (k - p + 1)
          /\ p + 1 - 1 = p /\ p + ((k - p + 1) - 1) - 1 = k - 1
          /\ k - p + 1 \in 1 .. (k - p + 1) /\ p + (k - p + 1) - 1 = k
      BY <1>1, <1>4, <2>1
    <3>2. Front(s.part) = SubSeq(SubSeq(w, p, k), 1, (k - p + 1) - 1)
      BY <1>6, <1>7 DEF Front
    <3>3. Front(s.part) = SubSeq(w, p, k - 1)
      BY <3>1, <3>2, SliceOfSlice DEF n
    <3>4. Last(s.part) = w[k]
      <4>1. Last(s.part) = SubSeq(w, p, k)[k - p + 1]
        BY <1>6, <1>7 DEF Last
      <4> QED
        BY <3>1, <4>1, Slice DEF n
    <3>5. SubSeq(w, p, k - 1) \in Seq(X) /\ Len(SubSeq(w, p, k - 1)) = (k - 1) - p + 1
      BY <3>1, Slice DEF n
    <3>6. (k - 1) - p + 1 # 0
      BY <1>4, <2>1
    <3> QED
      BY <3>3, <3>4, <3>5, <3>6, EmptySeq
  <2>7. t.parts = NewPart(s.parts, SubSeq(w, p, k - 1)) /\ t.part = <<w[k], ch>>
    BY <1>9, <1>12, <2>6
  <2>8. ToSet(s.parts) \subseteq ToSet(t.parts) /\ Lower(SubSeq(w, p, k - 1)) \in ToSet(t.parts)
    BY <1>7, <2>6, <2>7, NewPartAdds
  <2>9. t.part = SubSeq(w, k, k + 1)
    <3>1. k \in 1 .. n /\ k + 1 \in k .. n /\ (k + 1) - 1 = k /\ k + 1 \in (k + 1) .. n
      BY <1>1, <2>1
    <3>2. SubSeq(w, k, k + 1) = SubSeq(w, k, k) \o <<w[k + 1]>>
      BY <3>1, SubSeqRecursiveSecond DEF n
    <3>3. SubSeq(w, k, k) = SubSeq(w, k, k - 1) \o <<w[k]>> /\ SubSeq(w, k, k - 1) = <<>>
      <4>1. k \in k .. n /\ k - 1 < k /\ k \in Int /\ k - 1 \in Int
        BY <1>1, <3>1
      <4> QED
        BY <3>1, <4>1, SubSeqRecursiveSecond, SubSeqEmpty DEF n
    <3> QED
      BY <2>7, <3>2, <3>3 DEF ch
  <2>10. \A i \in 1 .. (k - 1) : \A j \in i .. (k - 1) :
            IsNamedWord(w, i, j) => Lower(SubSeq(w, i, j)) \in ToSet(t.parts)
    <3>1. p \in 1 .. (n + 1) /\ k - 1 \in (p - 1) .. n
      BY <1>1, <1>4, <2>1
    <3>2. \A m \in (p + 1) .. (k - 1) : ~BorderBefore(w, m)
      <4>1. \A m \in (p + 1) .. (k - 1) : m \in (p + 1) .. k /\ m # k
        BY <1>1
      <4> QED
        BY <1>6, <4>1
    <3> QED
      BY <1>6, <2>8, <3>1, <3>2, PartClosed DEF n
  <2>11. \A m \in k .. (k + 1) : w[m] \notin Joints
    <3>1. \A m \in k .. (k + 1) : m = k \/ m = k + 1
      BY <1>1
    <3> QED
      BY <2>3, <2>4, <3>1 DEF ch
  <2>12. \A m \in (k + 1) .. (k + 1) : ~BorderBefore(w, m)
    <3>1. \A m \in (k + 1) .. (k + 1) : m = k + 1
      BY <1>1
    <3> QED
      BY <2>5, <3>1
  <2>13. PartFrom(w, t, k + 1, k)
    <3>1. k # (k + 1) + 1
      BY <1>1
    <3> QED
      BY <2>3, <2>9, <2>10, <2>11, <2>12, <3>1 DEF PartFrom
  <2>14. k \in 1 .. (k + 2)
    BY <1>1, <2>1
  <2> QED
    BY <2>13, <2>14
<1>13. CASE PartEnds(s, ch)
  <2>1. /\ p <= k /\ k > 0 /\ ~AcronymEnds(s, ch)
        /\ ch \in Joints \/ (w[k] \notin Uppers /\ ch \in Uppers)
              \/ (w[k] \in Digits) # (ch \in Digits)
    BY <1>1, <1>4, <1>5, <1>7, <1>13 DEF PartEnds
  <2>2. w[k] \notin Joints /\ k \in p .. k
    BY <1>1, <1>4, <1>6, <2>1
  <2>3. ToSet(s.parts) \subseteq ToSet(t.parts) /\ Lower(SubSeq(w, p, k)) \in ToSet(t.parts)
    BY <1>6, <1>7, <1>9, <1>13, <2>1, NewPartAdds
  <2>4. \A m \in (p + 1) .. k : ~BorderBefore(w, m)
    <3> SUFFICES ASSUME NEW m \in (p + 1) .. k, BorderBefore(w, m) PROVE FALSE
      OBVIOUS
    <3>1. m = k /\ w[k - 1] \in Uppers /\ w[k] \in Uppers /\ k > 1
      BY <1>4, <1>6
    <3>2. ch \notin Uppers /\ ch \notin Joints \cup Digits
      BY <1>10, <2>1, <3>1
    <3>3. w[k] \notin Digits
      BY <3>1, ClassAssumption
    <3> QED
      BY <2>1, <3>1, <3>2, <3>3
  <2>5. \A i \in 1 .. k : \A j \in i .. k :
           IsNamedWord(w, i, j) => Lower(SubSeq(w, i, j)) \in ToSet(t.parts)
    <3>1. p \in 1 .. (n + 1) /\ k \in (p - 1) .. n
      BY <1>1, <1>4
    <3> QED
      BY <1>6, <2>3, <2>4, <3>1, PartClosed DEF n
  <2>6. CASE ch \in Joints
    <3>1. t.part = <<>> /\ SubSeq(w, k + 2, k + 1) = <<>>
      <4>1. k + 2 \in Int /\ k + 1 \in Int /\ k + 1 < k + 2
        BY <1>1
      <4> QED
        BY <1>9, <1>13, <2>6, <4>1, SubSeqEmpty
    <3>2. BorderBefore(w, k + 2)
      BY <1>10, <2>1, <2>6
    <3>3. \A i \in 1 .. (k + 1) : \A j \in i .. (k + 1) :
             IsNamedWord(w, i, j) => Lower(SubSeq(w, i, j)) \in ToSet(t.parts)
      <4> SUFFICES ASSUME NEW i \in 1 .. (k + 1), NEW j \in i .. (k + 1), IsNamedWord(w, i, j)
                   PROVE  Lower(SubSeq(w, i, j)) \in ToSet(t.parts)
        OBVIOUS
      <4>1. CASE j = k + 1
        <5>1. k + 1 \in i .. j
          BY <1>1, <4>1
        <5> QED
          BY <2>6, <5>1 DEF IsNamedWord, ch
      <4>2. CASE j # k + 1
        <5>1. i \in 1 .. k /\ j \in i .. k
          BY <1>1, <4>2
        <5> QED
          BY <2>5, <5>1
      <4> QED
        BY <4>1, <4>2
    <3>4. /\ (k + 2) .. (k + 1) = {} /\ ((k + 2) + 1) .. (k + 1) = {} /\ (k + 2) - 1 = k + 1
          /\ k + 2 \in 1 .. (k + 2)
      BY <1>1
    <3>5. PartFrom(w, t, k + 1, k + 2)
      BY <2>6, <3>1, <3>2, <3>3, <3>4 DEF PartFrom, ch
    <3> QED
      BY <3>4, <3>5
  <2>7. CASE ch \notin Joints
    <3>1. t.part = SubSeq(w, k + 1, k + 1)
      <4>1. k + 1 \in 1 .. n /\ k + 1 \in (k + 1) .. n /\ (k + 1) - 1 = k
            /\ k < k + 1 /\ k \in Int /\ k + 1 \in Int
        BY <1>1
      <4>2. SubSeq(w, k + 1, k + 1) = SubSeq(w, k + 1, k) \o <<w[k + 1]>>
            /\ SubSeq(w, k + 1, k) = <<>>
        BY <4>1, SubSeqRecursiveSecond, SubSeqEmpty DEF n
      <4>3. <<>> \o <<w[k + 1]>> = <<w[k + 1]>>
        <5>1. <<w[k + 1]>> \in Seq(X)
          BY <1>8 DEF ch
        <5> QED
          BY <5>1, ConcatEmptySeq
      <4>4. t.part = <<ch>>
        BY <1>9, <1>13, <2>7
      <4> QED
        BY <4>2, <4>3, <4>4 DEF ch
    <3>2. BorderBefore(w, k + 1)
      BY <1>10, <2>1, <2>2, <2>7
    <3>3. /\ \A m \in (k + 1) .. (k + 1) : m = k + 1
          /\ ((k + 1) + 1) .. (k + 1) = {} /\ (k + 1) - 1 = k
          /\ k + 1 \in 1 .. (k + 2) /\ k + 1 # (k + 1) + 1
      BY <1>1
    <3>4. PartFrom(w, t, k + 1, k + 1)
      BY <2>5, <2>7, <3>1, <3>2, <3>3 DEF PartFrom, ch
    <3> QED
      BY <3>3, <3>4
  <2> QED
    BY <2>6, <2>7
<1>14. CASE ~AcronymEnds(s, ch) /\ ~PartEnds(s, ch)
  <2>1. t.parts = s.parts /\ t.part = SubSeq(w, p, k + 1)
    <3>1. /\ p \in 1 .. n /\ k + 1 \in p .. n /\ (k + 1) - 1 = k
      BY <1>1, <1>4
    <3>2. SubSeq(w, p, k + 1) = SubSeq(w, p, k) \o <<w[k + 1]>>
      BY <3>1, SubSeqRecursiveSecond DEF n
    <3>3. Append(SubSeq(w, p, k), ch) = SubSeq(w, p, k) \o <<ch>>
      BY <1>7, <1>8, AppendIsConcat
    <3> QED
      BY <1>6, <1>9, <1>14, <3>2, <3>3 DEF ch
  <2>2. CASE p = k + 1
    <3>1. ch \notin Joints
      <4>1. k = 0 \/ (k > 0 /\ w[k] \in Joints)
        BY <1>1, <1>6, <2>2
      <4> QED
        BY <1>10, <1>11, <4>1
    <3>2. /\ \A m \in p .. (k + 1) : m = k + 1
          /\ (p + 1) .. (k + 1) = {} /\ p \in 1 .. (k + 2) /\ p # (k + 1) + 1
      BY <1>1, <2>2
    <3>3. PartFrom(w, t, k + 1, p)
      BY <1>6, <2>1, <3>1, <3>2 DEF PartFrom, ch
    <3> QED
      BY <3>2, <3>3
  <2>3. CASE p <= k
    <3>1. k > 0 /\ k \in p .. k /\ w[k] \notin Joints
      BY <1>1, <1>4, <1>6, <2>3
    <3>2. /\ ch \notin Joints
          /\ ~(w[k] \notin Uppers /\ ch \in Uppers)
          /\ w[k] \in Digits <=> ch \in Digits
      BY <1>5, <1>7, <1>14, <2>3, <3>1, Zenon DEF PartEnds
    <3>3. BorderBefore(w, k + 1) => w[k] \in Uppers /\ ch \in Uppers
      BY <1>10, <3>1, <3>2
    <3>4. ASSUME NEW m \in (p + 1) .. k PROVE ~BorderBefore(w, m)
      <4> SUFFICES ASSUME BorderBefore(w, m) PROVE FALSE
        OBVIOUS
      <4>1. m = k /\ w[k - 1] \in Uppers /\ w[k] \in Uppers /\ k > 1 /\ p < k
        BY <1>4, <1>6, <3>4
      <4>2. ch \notin Uppers
        BY <1>10, <4>1
      <4>3. AcronymEnds(s, ch)
        BY <1>1, <1>4, <1>5, <1>7, <4>1, <4>2 DEF AcronymEnds
      <4> QED
        BY <1>14, <4>3
    <3>5. /\ \A m \in p .. (k + 1) : m \in p .. k \/ m = k + 1
          /\ \A m \in (p + 1) .. (k + 1) : m \in (p + 1) .. k \/ m = k + 1
          /\ p \in 1 .. (k + 2) /\ p # (k + 1) + 1 /\ (k + 1) - 1 = k
      BY <1>1, <1>4, <2>3
    <3>6. \A m \in (p + 1) .. (k + 1) :
             BorderBefore(w, m) => m = k + 1 /\ w[(k + 1) - 1] \in Uppers /\ w[k + 1] \in Uppers
      BY <3>3, <3>4, <3>5 DEF ch
    <3>7. \A m \in p .. (k + 1) : w[m] \notin Joints
      BY <1>6, <3>2, <3>5 DEF ch
    <3>8. PartFrom(w, t, k + 1, p)
      BY <1>6, <2>1, <3>5, <3>6, <3>7 DEF PartFrom
    <3> QED
      BY <3>5, <3>8
  <2> QED
    BY <1>4, <2>2, <2>3
<1> QED
  BY <1>12, <1>13, <1>14

(* The words that the documented borders cut a regular word into are among  *)
(* its tokens.                                                              *)
LEMMA NamedWordsAreParts ==
    ASSUME NEW X, NEW w \in Seq(X), IsUncut(w), Regular(w)
    PROVE  \A i \in 1 .. Len(w) : \A j \in i .. Len(w) :
              IsNamedWord(w, i, j) => Lower(SubSeq(w, i, j)) \in ToSet(WordTokens(w))
<1> DEFINE n == Len(w)
<1>1. n \in Nat /\ 0 \in Int /\ n \in Int
  BY LenProperties
<1>2. PICK loop \in [0 .. n -> SplitState(X)] :
         /\ loop[0] = NothingSplit
         /\ \A i \in 1 .. n : loop[i] = SplitStep(loop[i - 1], w[i])
         /\ SplitIdentifier(w) = NewPart(loop[n].parts, loop[n].part)
  BY SplitLoop
<1> DEFINE A == {k \in 0 .. n : ScannedTo(w, loop[k], k)}
<1>3. 0 \in A
  <2>1. NothingSplit.upper = FALSE /\ NothingSplit.digit = FALSE /\ NothingSplit.part = <<>>
    BY DEF NothingSplit
  <2>2. /\ 1 .. 0 = {} /\ (1 + 1) .. 0 = {} /\ 1 .. (1 - 1) = {} /\ 1 \in 1 .. (0 + 1)
        /\ SubSeq(w, 1, 0) = <<>>
    BY SubSeqEmpty
  <2>3. PartFrom(w, NothingSplit, 0, 1)
    BY <2>1, <2>2 DEF PartFrom
  <2>4. ScannedTo(w, NothingSplit, 0)
    BY <2>1, <2>2, <2>3 DEF ScannedTo
  <2>5. 0 \in 0 .. n
    BY <1>1
  <2> QED
    BY <1>2, <2>4, <2>5
<1>4. ASSUME NEW k \in 0 .. (n - 1), k \in A PROVE k + 1 \in A
  <2>1. k \in 0 .. n /\ k + 1 \in 0 .. n /\ k + 1 \in 1 .. n /\ (k + 1) - 1 = k
    BY <1>1
  <2>2. loop[k] \in SplitState(X) /\ ScannedTo(w, loop[k], k)
    BY <1>4, <2>1
  <2>3. loop[k + 1] = SplitStep(loop[k], w[k + 1])
    BY <1>2, <2>1
  <2>4. ScannedTo(w, SplitStep(loop[k], w[k + 1]), k + 1)
    BY <2>2, ScanOn
  <2> QED
    BY <2>1, <2>3, <2>4
<1>5. 0 .. n \subseteq A
  <2> HIDE DEF A, n
  <2> QED
    BY ONLY <1>1, <1>3, <1>4, IntervalInduction
<1> DEFINE s == loop[n]
<1>6. s \in SplitState(X) /\ ScannedTo(w, s, n)
  BY <1>1, <1>5
<1> HIDE DEF s
<1>7. PICK p \in 1 .. (n + 1) : PartFrom(w, s, n, p)
  BY <1>6 DEF ScannedTo
<1>8. /\ s.part = SubSeq(w, p, n)
      /\ p = 1 \/ BorderBefore(w, p)
      /\ \A m \in (p + 1) .. n :
            BorderBefore(w, m) => m = n /\ w[n - 1] \in Uppers /\ w[n] \in Uppers
      /\ \A i \in 1 .. (p - 1) : \A j \in i .. (p - 1) :
            IsNamedWord(w, i, j) => Lower(SubSeq(w, i, j)) \in ToSet(s.parts)
  BY <1>7 DEF PartFrom
<1> DEFINE P == ToSet(SplitIdentifier(w))
<1>9. /\ ToSet(s.parts) \subseteq P
      /\ p <= n => Lower(SubSeq(w, p, n)) \in P
  <2>1. s.parts \in Seq(Word(X)) /\ s.part \in Seq(X)
    BY <1>6 DEF SplitState
  <2>2. SplitIdentifier(w) = NewPart(s.parts, s.part)
    BY <1>2 DEF s
  <2>3. p <= n => s.part # <<>>
    <3>1. p \in 1 .. (n + 1) /\ n \in (p - 1) .. n
      BY <1>1
    <3>2. Len(s.part) = n - p + 1
      BY <1>8, <3>1, Slice
    <3>3. p <= n => n - p + 1 # 0
      BY <1>1
    <3> QED
      BY <3>2, <3>3, EmptySeq
  <2> QED
    BY <1>8, <2>1, <2>2, <2>3, NewPartAdds
<1>10. \A m \in (p + 1) .. n : ~BorderBefore(w, m)
  <2> SUFFICES ASSUME NEW m \in (p + 1) .. n, BorderBefore(w, m) PROVE FALSE
    OBVIOUS
  <2>1. m = n /\ w[n - 1] \in Uppers /\ w[n] \in Uppers
    BY <1>8
  <2>2. w[n - 1] \notin Joints \cup Digits /\ w[n] \notin Joints \cup Digits
    BY <2>1, ClassAssumption
  <2>3. ~((w[n - 1] \in Digits) # (w[n] \in Digits)) /\ ~(n < n)
    BY <1>1, <2>2
  <2> QED
    BY <2>1, <2>2, <2>3 DEF BorderBefore
<1>11. n \in (p - 1) .. n
  BY <1>1
<1> HIDE DEF P
<1>12. \A i \in 1 .. n : \A j \in i .. n :
          IsNamedWord(w, i, j) => Lower(SubSeq(w, i, j)) \in P
  BY <1>8, <1>9, <1>10, <1>11, PartClosed
<1>13. P \subseteq ToSet(WordTokens(w))
  BY WordTokensHold DEF P
<1> QED
  BY <1>12, <1>13

LEMMA JoinHolds ==
    ASSUME NEW W, NEW s \in Seq(W), NEW t \in Seq(W)
    PROVE  ToSet(s \o t) = ToSet(s) \cup ToSet(t)
<1> DEFINE n == Len(s)
           m == Len(t)
<1>1. n \in Nat /\ m \in Nat /\ DOMAIN s = 1 .. n /\ DOMAIN t = 1 .. m
  BY LenProperties
<1>2. /\ s \o t \in Seq(W) /\ Len(s \o t) = n + m
      /\ \A i \in 1 .. (n + m) : (s \o t)[i] = IF i <= n THEN s[i] ELSE t[i - n]
  BY ConcatProperties
<1>3. DOMAIN (s \o t) = 1 .. (n + m)
  BY <1>2, LenProperties
<1> HIDE DEF n, m
<1>4. ASSUME NEW i \in 1 .. (n + m) PROVE (s \o t)[i] \in ToSet(s) \cup ToSet(t)
  <2>1. CASE i <= n
    <3>1. i \in 1 .. n /\ (s \o t)[i] = s[i]
      BY <1>1, <1>2, <2>1
    <3> QED
      BY <1>1, <3>1 DEF ToSet
  <2>2. CASE ~(i <= n)
    <3>1. i - n \in 1 .. m /\ (s \o t)[i] = t[i - n]
      BY <1>1, <1>2, <2>2
    <3> QED
      BY <1>1, <3>1 DEF ToSet
  <2> QED
    BY <2>1, <2>2
<1>5. ASSUME NEW i \in 1 .. n PROVE s[i] \in ToSet(s \o t)
  <2>1. i \in 1 .. (n + m) /\ (s \o t)[i] = s[i]
    BY <1>1, <1>2
  <2> QED
    BY <1>3, <2>1 DEF ToSet
<1>6. ASSUME NEW i \in 1 .. m PROVE t[i] \in ToSet(s \o t)
  <2>1. i + n \in 1 .. (n + m) /\ ~(i + n <= n) /\ (i + n) - n = i
    BY <1>1
  <2>2. (s \o t)[i + n] = t[i]
    BY <1>2, <2>1
  <2> QED
    BY <1>3, <2>1, <2>2 DEF ToSet
<1>7. ToSet(s \o t) \subseteq ToSet(s) \cup ToSet(t)
  BY <1>3, <1>4 DEF ToSet
<1>8. ToSet(s) \subseteq ToSet(s \o t) /\ ToSet(t) \subseteq ToSet(s \o t)
  BY <1>1, <1>5, <1>6 DEF ToSet
<1> QED
  BY <1>7, <1>8

(* A border between segments does not take tokens back.                     *)
LEMMA SegmentsKeepTokens ==
    ASSUME NEW X, NEW t \in Seq(X), NEW b \in 1 .. (Len(t) - 1),
           t[b] \notin Cjk, t[b + 1] \in Cjk
    PROVE  ToSet(TokenizeText(SubSeq(t, 1, b))) \subseteq ToSet(TokenizeText(t))
<1> DEFINE n == Len(t)
           W == Word(X)
           S(c, d) == SegmentTokens(SubSeq(t, c, d))
           T(c, d) == TokenizeText(SubSeq(t, c, d))
           A == {k \in b .. n : \A j \in b .. k : ToSet(T(1, b)) \subseteq ToSet(T(1, j))}
<1>1. n \in Nat /\ b \in Int /\ n \in Int /\ b <= n
  BY LenProperties
<1>2. \A d \in 0 .. n :
         /\ T(1, d) \in Seq(W)
         /\ \A s \in 1 .. d :
               /\ \A j \in s .. d : (t[j] \in Cjk) = (t[d] \in Cjk)
               /\ s = 1 \/ (t[s - 1] \in Cjk) # (t[d] \in Cjk)
               => T(1, d) = T(1, s - 1) \o S(s, d)
  <2> SUFFICES ASSUME NEW d \in 0 .. n
               PROVE  /\ T(1, d) \in Seq(W)
                      /\ \A s \in 1 .. d :
                            /\ \A j \in s .. d : (t[j] \in Cjk) = (t[d] \in Cjk)
                            /\ s = 1 \/ (t[s - 1] \in Cjk) # (t[d] \in Cjk)
                            => T(1, d) = T(1, s - 1) \o S(s, d)
    OBVIOUS
  <2>1. 1 \in 1 .. (n + 1) /\ d \in (1 - 1) .. n
    BY <1>1
  <2> QED
    BY <2>1, SegmentsOfSlice
<1>3. \A c \in 1 .. n : \A d \in c .. n : S(c, d) \in Seq(W)
  <2> SUFFICES ASSUME NEW c \in 1 .. n, NEW d \in c .. n PROVE S(c, d) \in Seq(W)
    OBVIOUS
  <2>1. c \in 1 .. (n + 1) /\ d \in (c - 1) .. n
    BY <1>1
  <2> QED
    BY <2>1, Slice, SegmentsAreTokens
<1>4. t[b] \notin Cjk /\ t[b + 1] \in Cjk
  OBVIOUS
<1> HIDE DEF S, T, W, n
<1>5. b \in A
  <2>1. b \in b .. n /\ \A j \in b .. b : j = b
    BY <1>1
  <2> QED
    BY <2>1
<1>6. ASSUME NEW k \in b .. (n - 1), k \in A PROVE k + 1 \in A
  <2> DEFINE s == RunStart(t, Cjk, k + 1)
  <2>1. /\ k + 1 \in b .. n /\ k + 1 \in 0 .. n /\ k + 1 \in Nat \ {0} /\ k + 1 \in 1 .. n
        /\ \A j \in b .. (k + 1) : j \in b .. k \/ j = k + 1
    BY <1>1
  <2>2. /\ s \in 1 .. (k + 1)
        /\ \A j \in s .. (k + 1) : (t[j] \in Cjk) = (t[k + 1] \in Cjk)
        /\ s = 1 \/ (t[s - 1] \in Cjk) # (t[k + 1] \in Cjk)
    BY <2>1, RunStartIs
  <2> HIDE DEF s
  <2>3. s > b
    <3> SUFFICES ASSUME s <= b PROVE FALSE
      BY <1>1, <2>2
    <3>1. b \in s .. (k + 1) /\ b + 1 \in s .. (k + 1)
      BY <1>1, <2>2
    <3> QED
      BY <1>4, <2>2, <3>1
  <2>4. s - 1 \in b .. k /\ s - 1 \in 0 .. n /\ s \in 1 .. n /\ k + 1 \in s .. n
    BY <1>1, <2>1, <2>2, <2>3
  <2>5. T(1, k + 1) = T(1, s - 1) \o S(s, k + 1)
    BY <1>2, <2>1, <2>2
  <2>6. ToSet(T(1, s - 1)) \subseteq ToSet(T(1, k + 1))
    <3>1. T(1, s - 1) \in Seq(W) /\ S(s, k + 1) \in Seq(W)
      BY <1>2, <1>3, <2>4
    <3>2. ToSet(T(1, s - 1) \o S(s, k + 1)) = ToSet(T(1, s - 1)) \cup ToSet(S(s, k + 1))
      BY <3>1, JoinHolds
    <3> QED
      BY <2>5, <3>2
  <2>7. ToSet(T(1, b)) \subseteq ToSet(T(1, s - 1))
    BY <1>6, <2>4
  <2> QED
    BY <1>6, <2>1, <2>6, <2>7
<1>7. b .. n \subseteq A
  <2> HIDE DEF A
  <2> QED
    BY ONLY <1>1, <1>5, <1>6, IntervalInduction
<1>8. n \in b .. n
  BY <1>1
<1>9. ToSet(T(1, b)) \subseteq ToSet(T(1, n))
  BY <1>7, <1>8
<1>10. SubSeq(t, 1, n) = t
  BY SubSeqFull DEF n
<1> QED
  BY <1>9, <1>10 DEF T

(* The characters p to q of a text are one of the words that it is cut into *)
(* at its blanks and Chinese characters.                                    *)
IsWholeWord(t, p, q) ==
    /\ \A k \in p .. q : t[k] \notin Blanks \cup Cjk
    /\ p = 1 \/ t[p - 1] \in Blanks \cup Cjk
    /\ q = Len(t) \/ t[q + 1] \in Blanks \cup Cjk

LEMMA NamedWordsAreInWords ==
    ASSUME NEW X, NEW t \in Seq(X), NEW i \in 1 .. Len(t), NEW j \in i .. Len(t),
           IsNamedWord(t, i, j)
    PROVE  \E p \in 1 .. i : \E q \in j .. Len(t) : IsWholeWord(t, p, q)
<1> DEFINE n == Len(t)
           class == Blanks \cup Cjk
           p == RunStart(t, class, i)
           R == {k \in (j + 1) .. (n + 1) : k = n + 1 \/ t[k] \in class}
           r == Min(R)
<1>1. n \in Nat /\ i \in Int /\ j \in Int /\ i \in Nat \ {0} /\ i <= j /\ j <= n
  BY LenProperties
<1>2. \A k \in i .. j : t[k] \notin class
  BY DEF IsNamedWord
<1>3. i \in i .. j
  BY <1>1
<1> HIDE DEF class
<1>4. /\ p \in 1 .. i
      /\ \A k \in p .. i : t[k] \notin class
      /\ p = 1 \/ t[p - 1] \in class
  <2>1. /\ p \in 1 .. i
        /\ \A k \in p .. i : (t[k] \in class) = (t[i] \in class)
        /\ p = 1 \/ (t[p - 1] \in class) # (t[i] \in class)
    BY <1>1, RunStartIs
  <2> HIDE DEF p
  <2> QED
    BY <1>2, <1>3, <2>1
<1>5. r \in R /\ \A k \in R : r <= k
  <2>1. R \in SUBSET Nat /\ n + 1 \in R
    BY <1>1
  <2> HIDE DEF R
  <2> QED
    BY <2>1, LeastNatural
<1> HIDE DEF p, r
<1>6. r - 1 \in j .. n /\ (r - 1) + 1 = r /\ (r = n + 1 \/ t[r] \in class)
  BY <1>1, <1>5
<1>7. \A k \in (j + 1) .. (r - 1) : t[k] \notin class
  <2> SUFFICES ASSUME NEW k \in (j + 1) .. (r - 1), t[k] \in class PROVE FALSE
    OBVIOUS
  <2>1. k \in R /\ ~(r <= k)
    BY <1>1, <1>6
  <2> QED
    BY <1>5, <2>1
<1>8. \A k \in p .. (r - 1) : t[k] \notin class
  <2>1. \A k \in p .. (r - 1) : k \in p .. i \/ k \in i .. j \/ k \in (j + 1) .. (r - 1)
    BY <1>1, <1>4, <1>6
  <2> QED
    BY <1>2, <1>4, <1>7, <2>1
<1>9. r - 1 = n \/ t[(r - 1) + 1] \in class
  BY <1>1, <1>6
<1>10. IsWholeWord(t, p, r - 1)
  BY <1>4, <1>8, <1>9 DEF IsWholeWord, class
<1> QED
  BY <1>4, <1>6, <1>10

(* What holds of a text holds of a word cut from it: where the borders are, *)
(* which words they make, and that it is regular.                           *)
LEMMA WordsAreAlike ==
    ASSUME NEW X, NEW t \in Seq(X), NEW p \in 1 .. Len(t), NEW q \in p .. Len(t),
           IsWholeWord(t, p, q), Regular(t)
    PROVE  /\ SubSeq(t, p, q) \in Seq(X) /\ Len(SubSeq(t, p, q)) = q - p + 1
           /\ IsUncut(SubSeq(t, p, q)) /\ Regular(SubSeq(t, p, q))
           /\ \A i \in p .. q : \A j \in i .. q :
                 /\ SubSeq(SubSeq(t, p, q), i - p + 1, j - p + 1) = SubSeq(t, i, j)
                 /\ IsNamedWord(t, i, j) =>
                       IsNamedWord(SubSeq(t, p, q), i - p + 1, j - p + 1)
<1> DEFINE n == Len(t)
           w == SubSeq(t, p, q)
           m == q - p + 1
           class == Blanks \cup Cjk
           others == UNION {Uppers, Digits, Joints, Blanks, Cjk}
<1>1. n \in Nat /\ p \in Int /\ q \in Int /\ 1 <= p /\ p <= q /\ q <= n /\ DOMAIN t = 1 .. n
  BY LenProperties
<1>2. w \in Seq(X) /\ Len(w) = m /\ \A k \in 1 .. m : w[k] = t[p + k - 1]
  <2>1. p \in 1 .. (n + 1) /\ q \in (p - 1) .. n
    BY <1>1
  <2> QED
    BY <2>1, Slice
<1>3. m \in Nat /\ DOMAIN w = 1 .. m
  BY <1>1, <1>2, LenProperties
<1>4. /\ \A k \in p .. q : t[k] \notin class
      /\ p = 1 \/ t[p - 1] \in class
      /\ q = n \/ t[q + 1] \in class
  BY DEF IsWholeWord
<1>5. \A k \in 1 .. m : p + k - 1 \in p .. q /\ w[k] \notin class
  <2>1. \A k \in 1 .. m : p + k - 1 \in p .. q
    BY <1>1
  <2> QED
    BY <1>2, <1>4, <2>1
<1>6. class \subseteq others
  OBVIOUS
<1> HIDE DEF w
<1>8. IsUncut(w)
  BY <1>2, <1>5 DEF IsUncut
<1>9. ASSUME NEW k \in 2 .. m PROVE BorderBefore(w, k) <=> BorderBefore(t, p + k - 1)
  <2> DEFINE h == p + k - 1
  <2>1. /\ k \in 1 .. m /\ k - 1 \in 1 .. m /\ p + (k - 1) - 1 = h - 1 /\ h \in p .. q
        /\ k \in Int /\ h \in Int
    BY <1>1
  <2>2. w[k] = t[h] /\ w[k - 1] = t[h - 1]
    BY <1>2, <2>1
  <2>3. k < m /\ w[k + 1] \notin others <=> h < n /\ t[h + 1] \notin others
    <3>1. CASE k < m
      <4>1. k + 1 \in 1 .. m /\ p + (k + 1) - 1 = h + 1 /\ h < n
        BY <1>1, <3>1
      <4>2. w[k + 1] = t[h + 1]
        BY <1>2, <4>1
      <4> QED
        BY <3>1, <4>1, <4>2
    <3>2. CASE ~(k < m)
      <4>1. h = q
        BY <1>1, <3>2
      <4>2. ASSUME h < n PROVE t[h + 1] \in others
        <5>1. q # n
          <6> HIDE DEF h, n, class, others
          <6> QED
            BY <1>1, <4>1, <4>2
        <5>2. t[q + 1] \in class
          BY <1>4, <5>1
        <5> HIDE DEF h, class, others
        <5> QED
          BY <1>6, <4>1, <5>2
      <4> HIDE DEF h, class, others
      <4> QED
        BY <3>2, <4>2
    <3> QED
      BY <3>1, <3>2
  <2> HIDE DEF h, m, n
  <2>4. BorderBefore(w, k) <=>
           \/ t[h - 1] \in Joints \/ t[h] \in Joints
           \/ (t[h - 1] \in Digits) # (t[h] \in Digits)
           \/ t[h - 1] \notin Uppers /\ t[h] \in Uppers
           \/ t[h - 1] \in Uppers /\ t[h] \in Uppers /\ k < m /\ w[k + 1] \notin others
    BY <1>2, <2>2 DEF BorderBefore
  <2>5. BorderBefore(t, h) <=>
           \/ t[h - 1] \in Joints \/ t[h] \in Joints
           \/ (t[h - 1] \in Digits) # (t[h] \in Digits)
           \/ t[h - 1] \notin Uppers /\ t[h] \in Uppers
           \/ t[h - 1] \in Uppers /\ t[h] \in Uppers /\ h < n /\ t[h + 1] \notin others
    BY DEF BorderBefore, n
  <2> HIDE DEF others
  <2>6. BorderBefore(w, k) <=> BorderBefore(t, h)
    BY ONLY <2>3, <2>4, <2>5
  <2> QED
    BY <2>6 DEF h
<1>10. Regular(w)
  <2>1. ASSUME NEW k \in 1 .. m, w[k] \in Joints
        PROVE  k > 1 /\ w[k - 1] \notin Joints \cup Blanks \cup Cjk
    <3> DEFINE h == p + k - 1
    <3>1. h \in 1 .. n /\ t[h] \in Joints /\ h - 1 = p + (k - 1) - 1
      BY <1>1, <1>2, <2>1
    <3>2. h > 1 /\ t[h - 1] \notin Joints \cup Blanks \cup Cjk
      BY <1>1, <3>1 DEF Regular
    <3>3. k > 1
      <4> SUFFICES ASSUME k = 1 PROVE FALSE
        BY <1>1
      <4>1. h = p
        BY <1>1
      <4> QED
        BY <1>4, <3>2, <4>1
    <3>4. k - 1 \in 1 .. m
      BY <1>1, <3>3
    <3>5. w[k - 1] = t[h - 1]
      BY <1>2, <3>1, <3>4
    <3> QED
      BY <3>2, <3>3, <3>5
  <2>2. ASSUME NEW k \in 1 .. m, k > 2, w[k] \in Joints \cup Digits
        PROVE  ~(w[k - 1] \in Uppers /\ w[k - 2] \in Uppers)
    <3> DEFINE h == p + k - 1
    <3>1. /\ h \in 1 .. n /\ t[h] \in Joints \cup Digits /\ h > 2
          /\ h - 1 = p + (k - 1) - 1 /\ h - 2 = p + (k - 2) - 1
          /\ k - 1 \in 1 .. m /\ k - 2 \in 1 .. m
      BY <1>1, <1>2, <2>2
    <3>2. ~(t[h - 1] \in Uppers /\ t[h - 2] \in Uppers)
      BY <1>1, <3>1 DEF Regular
    <3>3. w[k - 1] = t[h - 1] /\ w[k - 2] = t[h - 2]
      BY <1>2, <3>1
    <3> QED
      BY <3>2, <3>3
  <2> QED
    BY <1>3, <2>1, <2>2 DEF Regular
<1>11. ASSUME NEW i \in p .. q, NEW j \in i .. q
       PROVE  /\ SubSeq(w, i - p + 1, j - p + 1) = SubSeq(t, i, j)
              /\ IsNamedWord(t, i, j) => IsNamedWord(w, i - p + 1, j - p + 1)
  <2> DEFINE a == i - p + 1
             b == j - p + 1
  <2>1. /\ i \in Int /\ j \in Int /\ p <= i /\ i <= j /\ j <= q
        /\ a \in 1 .. m /\ b \in a .. m /\ p + a - 1 = i /\ p + b - 1 = j
    BY <1>1
  <2>2. SubSeq(w, a, b) = SubSeq(t, i, j)
    <3>1. /\ p \in 1 .. (n + 1) /\ q \in (p - 1) .. n
          /\ a \in 1 .. (q - p + 2) /\ b \in (a - 1) .. (q - p + 1)
      BY <1>1, <2>1
    <3>2. SubSeq(w, a, b) = SubSeq(t, p + a - 1, p + b - 1)
      <4> HIDE DEF a, b, n
      <4> QED
        BY <3>1, SliceOfSlice DEF w, n
    <3> QED
      BY <2>1, <3>2
  <2>3. ASSUME IsNamedWord(t, i, j) PROVE IsNamedWord(w, a, b)
    <3>1. /\ \A k \in i .. j : t[k] \notin Blanks \cup Joints \cup Cjk
          /\ \A k \in (i + 1) .. j : ~BorderBefore(t, k)
          /\ i = 1 \/ BorderBefore(t, i) \/ t[i - 1] \in class
          /\ j = n \/ BorderBefore(t, j + 1) \/ t[j + 1] \in class
      BY <2>3 DEF IsNamedWord
    <3>2. \A k \in a .. b : w[k] \notin Blanks \cup Joints \cup Cjk
      <4>1. \A k \in a .. b : k \in 1 .. m /\ p + k - 1 \in i .. j
        BY <1>1, <2>1
      <4> QED
        BY <1>2, <3>1, <4>1
    <3>3. \A k \in (a + 1) .. b : ~BorderBefore(w, k)
      <4>1. \A k \in (a + 1) .. b : k \in 2 .. m /\ p + k - 1 \in (i + 1) .. j
        BY <1>1, <2>1
      <4> QED
        BY <1>9, <3>1, <4>1
    <3>4. a = 1 \/ BorderBefore(w, a)
      <4> SUFFICES ASSUME a # 1 PROVE BorderBefore(w, a)
        OBVIOUS
      <4>1. i # 1 /\ i - 1 \in p .. q /\ a \in 2 .. m
        BY <1>1, <2>1
      <4>2. BorderBefore(t, i)
        BY <1>4, <3>1, <4>1
      <4> HIDE DEF a, b
      <4> QED
        BY <1>9, <2>1, <4>1, <4>2
    <3>5. b = m \/ BorderBefore(w, b + 1)
      <4> SUFFICES ASSUME b # m PROVE BorderBefore(w, b + 1)
        OBVIOUS
      <4>1. j < q
        BY <1>1, <2>1
      <4>2. j # n /\ j + 1 \in p .. q
        <5> HIDE DEF n, m, a, b, class
        <5> QED
          BY <1>1, <2>1, <4>1
      <4>3. b + 1 \in 2 .. m
        BY <1>1, <2>1, <4>1
      <4>4. p + (b + 1) - 1 = j + 1
        BY <1>1, <2>1
      <4>5. BorderBefore(t, j + 1)
        BY <1>4, <3>1, <4>2
      <4> HIDE DEF a, b
      <4> QED
        BY <1>9, <4>3, <4>4, <4>5
    <3> HIDE DEF a, b, m
    <3> QED
      BY <1>2, <3>2, <3>3, <3>4, <3>5 DEF IsNamedWord
  <2> QED
    BY <2>2, <2>3
<1> QED
  BY <1>2, <1>8, <1>10, <1>11 DEF w

(* The tokens of its words are tokens of a text.                            *)
LEMMA WordsAreTokens ==
    ASSUME NEW X, NEW t \in Seq(X), NEW p \in 1 .. Len(t), NEW q \in p .. Len(t),
           IsWholeWord(t, p, q)
    PROVE  ToSet(WordTokens(SubSeq(t, p, q))) \subseteq ToSet(TokenizeText(t))
<1> DEFINE n == Len(t)
           W == Word(X)
           N(c, d) == NonCjkTokens(SubSeq(t, c, d))
           S(c, d) == SegmentTokens(SubSeq(t, c, d))
           T(c, d) == TokenizeText(SubSeq(t, c, d))
           own == WordTokens(SubSeq(t, p, q))
           s == RunStart(t, Cjk, q)
<1>1. /\ n \in Nat /\ p \in Int /\ q \in Int /\ 1 <= p /\ p <= q /\ q <= n
      /\ q \in Nat \ {0} /\ q \in p .. q
  BY LenProperties
<1>2. /\ \A k \in p .. q : t[k] \notin Blanks /\ t[k] \notin Cjk
      /\ p = 1 \/ t[p - 1] \in Blanks \cup Cjk
      /\ q = n \/ t[q + 1] \in Blanks \/ t[q + 1] \in Cjk
  BY DEF IsWholeWord
<1>3. /\ s \in 1 .. q
      /\ \A j \in s .. q : (t[j] \in Cjk) = (t[q] \in Cjk)
      /\ s = 1 \/ (t[s - 1] \in Cjk) # (t[q] \in Cjk)
  BY <1>1, RunStartIs
<1> HIDE DEF s
<1>4. t[q] \notin Cjk /\ \A j \in s .. q : t[j] \notin Cjk
  BY <1>1, <1>2, <1>3
<1>5. s <= p
  <2> SUFFICES ASSUME s > p PROVE FALSE
    BY <1>1, <1>3
  <2>1. s # 1 /\ s - 1 \in p .. q
    BY <1>1, <1>3
  <2> QED
    BY <1>2, <1>3, <1>4, <2>1
<1>6. /\ s \in s .. q /\ p \in s .. q /\ s \in 1 .. n /\ q \in s .. n
      /\ 1 \in 1 .. (n + 1) /\ q \in (1 - 1) .. n /\ s - 1 \in (1 - 1) .. n
      /\ s \in 1 .. (n + 1) /\ q \in (s - 1) .. n /\ p - 1 \in (s - 1) .. n
      /\ p \in 1 .. (n + 1) /\ q \in (p - 1) .. n
  BY <1>1, <1>3, <1>5
<1>7. T(1, q) = T(1, s - 1) \o S(s, q)
      /\ T(1, s - 1) \in Seq(W) /\ T(1, q) \in Seq(W)
  BY <1>3, <1>6, SegmentsOfSlice
<1>8. S(s, q) = N(s, q)
  <2>1. Head(SubSeq(t, s, q)) = t[s]
    BY <1>6, HeadTailOfSubSeq
  <2> QED
    BY <1>4, <1>6, <2>1 DEF SegmentTokens
<1>9. N(s, q) = N(s, p - 1) \o own
  <2>1. p = s \/ t[p - 1] \in Blanks
    <3> SUFFICES ASSUME p # s PROVE t[p - 1] \in Blanks
      OBVIOUS
    <3>1. p # 1 /\ p - 1 \in s .. q
      BY <1>1, <1>3, <1>5
    <3> QED
      BY <1>2, <1>4, <3>1
  <2> QED
    BY <1>2, <1>6, <2>1, WordsOfSlice
<1>10. N(s, p - 1) \in Seq(W) /\ N(s, q) \in Seq(W) /\ own \in Seq(W)
  <2>1. SubSeq(t, p, q) \in Seq(X)
    BY <1>6, Slice
  <2> QED
    BY <1>6, <2>1, WordsOfSlice, WordTokensHold
<1> HIDE DEF T, S, N, own, W
<1>11. ToSet(own) \subseteq ToSet(T(1, q))
  <2>1. ToSet(N(s, p - 1) \o own) = ToSet(N(s, p - 1)) \cup ToSet(own)
    BY <1>10, JoinHolds
  <2>2. ToSet(T(1, s - 1) \o N(s, q)) = ToSet(T(1, s - 1)) \cup ToSet(N(s, q))
    BY <1>7, <1>10, JoinHolds
  <2> QED
    BY <1>7, <1>8, <1>9, <2>1, <2>2
<1>12. ToSet(T(1, q)) \subseteq ToSet(TokenizeText(t))
  <2>1. CASE q = n
    <3>1. SubSeq(t, 1, n) = t
      BY SubSeqFull
    <3> QED
      BY <2>1, <3>1 DEF T
  <2>2. CASE q # n /\ t[q + 1] \in Blanks
    <3>1. q + 1 \in 1 .. n /\ (q + 1) - 1 = q
          /\ (q + 1) + 1 \in 1 .. (n + 1) /\ n \in (((q + 1) + 1) - 1) .. n
      BY <1>1, <2>2
    <3>2. TokenizeText(t) = TokenizeText(SubSeq(t, 1, (q + 1) - 1))
                            \o TokenizeText(SubSeq(t, (q + 1) + 1, n))
      BY <2>2, <3>1, BlanksDivideTexts
    <3>3. TokenizeText(SubSeq(t, (q + 1) + 1, n)) \in Seq(W)
      BY <3>1, SegmentsOfSlice DEF W
    <3>4. TokenizeText(t) = T(1, q) \o TokenizeText(SubSeq(t, (q + 1) + 1, n))
      BY <3>1, <3>2 DEF T
    <3> QED
      BY <1>7, <3>3, <3>4, JoinHolds
  <2>3. CASE q # n /\ t[q + 1] \in Cjk
    <3>1. q \in 1 .. (n - 1)
      BY <1>1, <2>3
    <3> QED
      BY <1>4, <2>3, <3>1, SegmentsKeepTokens DEF T
  <2> QED
    BY <1>2, <2>1, <2>2, <2>3
<1> QED
  BY <1>11, <1>12 DEF own

(* Every word that the rules of docs/design/search.md find in a regular     *)
(* text is a token of it, whatever its length and wherever acronyms, digits *)
(* and blanks fall (split_identifier and tokenize_non_cjk_segment,          *)
(* src/engine/fts/tokenizer.rs).                                            *)
THEOREM NamedWordsAreFound == PipelineSpec => []RegularWordsAreTokens
<1>1. TokensInv => RegularWordsAreTokens
  <2> SUFFICES ASSUME TokensInv, Read, Regular(text), NEW i \in DOMAIN text,
                      NEW j \in i .. Len(text), IsNamedWord(text, i, j)
               PROVE  Lower(SubSeq(text, i, j)) \in ToSet(pending)
    BY DEF RegularWordsAreTokens, NamedWords
  <2> DEFINE X == ToSet(text)
             n == Len(text)
  <2>1. text \in Seq(X) /\ pending = TokenizeText(text)
    BY DEF TokensInv
  <2>2. n \in Nat /\ i \in 1 .. n
    BY <2>1, LenProperties
  <2> HIDE DEF X
  <2>3. PICK p \in 1 .. i, q \in j .. n : IsWholeWord(text, p, q)
    BY <2>1, <2>2, NamedWordsAreInWords
  <2> DEFINE w == SubSeq(text, p, q)
             a == i - p + 1
             b == j - p + 1
  <2>4. /\ p \in 1 .. n /\ q \in p .. n /\ i \in p .. q /\ j \in i .. q
        /\ a \in 1 .. (q - p + 1) /\ b \in a .. (q - p + 1)
    BY <2>2
  <2>5. /\ w \in Seq(X) /\ Len(w) = q - p + 1 /\ IsUncut(w) /\ Regular(w)
        /\ SubSeq(w, a, b) = SubSeq(text, i, j) /\ IsNamedWord(w, a, b)
    <3>1. /\ w \in Seq(X) /\ Len(w) = q - p + 1 /\ IsUncut(w) /\ Regular(w)
          /\ \A c \in p .. q : \A d \in c .. q :
                /\ SubSeq(w, c - p + 1, d - p + 1) = SubSeq(text, c, d)
                /\ IsNamedWord(text, c, d) => IsNamedWord(w, c - p + 1, d - p + 1)
      <4> HIDE DEF a, b
      <4> QED
        BY <2>1, <2>3, <2>4, WordsAreAlike
    <3> HIDE DEF w
    <3> QED
      BY <2>4, <3>1
  <2> HIDE DEF w, a, b
  <2>6. Lower(SubSeq(w, a, b)) \in ToSet(WordTokens(w))
    BY <2>4, <2>5, NamedWordsAreParts
  <2>7. ToSet(WordTokens(w)) \subseteq ToSet(TokenizeText(text))
    BY <2>1, <2>3, <2>4, WordsAreTokens DEF w
  <2> QED
    BY <2>1, <2>5, <2>6, <2>7
<1> QED
  BY <1>1, TokensInvariant, PTL
=============================================================================
