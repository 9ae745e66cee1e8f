--------------------------- MODULE AstSplitSearch ---------------------------
(***************************************************************************)
(* The search for a line at which an oversized range of a TypeScript file  *)
(* is cut (src/engine/partitioner/split_search.rs) and the analysis of     *)
(* syntax nodes it rests on (node_analysis.rs), as operators on a file f:  *)
(*                                                                         *)
(*   f.lines  : the lines, each with its length in bytes and whether it is *)
(*              blank;                                                     *)
(*   f.nodes  : the nodes tree-sitter reports, in preorder, so that node 1 *)
(*              is the root and the children of a node are in source       *)
(*              order: kind, parent (0 for the root), first and last line  *)
(*              (1-indexed), first and last byte, and, for a comment,      *)
(*              whether a blank line follows it.                           *)
(*                                                                         *)
(* A node is its position in f.nodes.  None stands for Option::None.       *)
(***************************************************************************)
EXTENDS Integers, Sequences, FiniteSetsExt, SequencesExt

None == 0

(* Lines and text *)

LOCAL Abs(n) == IF n < 0 THEN -n ELSE n

\* chunk_text.len(): the lines joined by one newline each.
TextSize(f, start_line, end_line) ==
    LET upto[i \in start_line .. end_line] ==
            f.lines[i].len + (IF i = start_line THEN 0 ELSE upto[i - 1] + 1)
    IN  IF start_line > end_line THEN 0 ELSE upto[end_line]

IsBlankText(f, start_line, end_line) ==
    \A i \in start_line .. end_line : f.lines[i].blank

(* Nodes *)

SplitScopes ==
    {"program", "source_file", "class_body", "declaration_list",
     "object_type", "interface_body", "statement_block", "switch_body",
     "object", "jsx_element", "jsx_fragment"}

TransparentConduits ==
    {"export_statement", "class_declaration", "abstract_class_declaration",
     "interface_declaration", "type_alias_declaration", "enum_declaration",
     "function_declaration", "generator_function_declaration",
     "method_definition", "arrow_function", "function_expression",
     "if_statement", "try_statement", "catch_clause", "else_clause",
     "for_statement", "for_in_statement", "for_of_statement",
     "while_statement", "do_statement", "switch_statement", "switch_case",
     "return_statement", "throw_statement", "expression_statement",
     "lexical_declaration", "variable_declarator", "await_expression",
     "new_expression", "arguments", "call_expression", "member_expression",
     "as_expression", "pair", "jsx_expression"}

Descends == SplitScopes \cup TransparentConduits

ComplexKinds ==
    {"arrow_function", "function_expression", "function_declaration",
     "object", "array", "jsx_element", "jsx_self_closing_element"}

Kind(f, n) == f.nodes[n].kind

Nodes(f) == DOMAIN f.nodes

Children(f, n) ==
    SetToSortSeq({m \in Nodes(f) : f.nodes[m].parent = n}, <)

Siblings(f, n) == Children(f, f.nodes[n].parent)

\* Some proper descendant of n is of a complex kind.
ContainsComplex(f, n) ==
    LET within[m \in Nodes(f)] ==
            m > n /\ (f.nodes[m].parent = n \/ within[f.nodes[m].parent])
    IN  \E m \in Nodes(f) : within[m] /\ Kind(f, m) \in ComplexKinds

PairHasComplexValue(f, n) ==
    \E m \in Range(Children(f, n)) :
        \/ Kind(f, m) \in ComplexKinds
        \/ /\ Kind(f, m) \in {"parenthesized_expression", "as_expression"}
           /\ ContainsComplex(f, m)

Bytes(f, n) == f.nodes[n].to - f.nodes[n].from

\* The node with the comments above it, up to the first blank line.
EffectiveSize(f, n) ==
    LET siblings == Siblings(f, n)
        i        == CHOOSE j \in DOMAIN siblings : siblings[j] = n
        top      == Min({j \in 1 .. i : \A k \in j .. (i - 1) :
                            /\ Kind(f, siblings[k]) = "comment"
                            /\ ~f.nodes[siblings[k]].gap})
    IN  f.nodes[n].to - f.nodes[siblings[top]].from

AlwaysMeaningful ==
    {"function_declaration", "class_declaration", "interface_declaration",
     "type_alias_declaration", "enum_declaration", "export_statement",
     "method_definition", "lexical_declaration", "variable_declaration",
     "switch_case", "jsx_element"}

\* is_meaningful_split_point: may a chunk end after this node?
IsMeaningful(f, n) ==
    LET kind == Kind(f, n)
    IN  \/ kind \in AlwaysMeaningful
        \/ /\ kind \in {"public_field_definition", "property_declaration"}
           /\ Bytes(f, n) > 50
        \/ /\ kind = "pair"
           /\ EffectiveSize(f, n) > 200 \/ PairHasComplexValue(f, n)
        \/ kind = "property_signature" /\ EffectiveSize(f, n) > 100
        \/ /\ kind = "expression_statement"
           /\ Bytes(f, n) > 500 \/ ContainsComplex(f, n)
        \/ kind = "if_statement" /\ Bytes(f, n) > 400
        \/ /\ kind \in {"for_statement", "for_in_statement", "for_of_statement"}
           /\ Bytes(f, n) > 300

MeaningfulChildren(f, n) ==
    SelectSeq(Children(f, n), LAMBDA m : IsMeaningful(f, m))

Overlaps(f, n, start_line, end_line) ==
    f.nodes[n].last >= start_line /\ f.nodes[n].first <= end_line

Spans(f, n, start_line, end_line) ==
    f.nodes[n].first <= start_line /\ f.nodes[n].last >= end_line

\* The last line of the import statements at the top, 0 if there are none.
ImportsEndLine(f) ==
    LET top     == Children(f, 1)
        imports == {i \in DOMAIN top : Kind(f, top[i]) = "import_statement"}
        block   == {i \in imports :
                      \A j \in Min(imports) .. i : j \in imports}
    IN  IF imports = {} THEN 0 ELSE f.nodes[top[Max(block)]].last

\* find_best_node: the smallest meaningful node that covers the chunk, the
\* outermost of several that take the same number of lines.
BestNode(f, start_line, end_line) ==
    LET covers[n \in Nodes(f)] ==
            /\ Spans(f, n, start_line, end_line)
            /\ n = 1 \/ covers[f.nodes[n].parent]
        found   == {n \in Nodes(f) : covers[n] /\ IsMeaningful(f, n)}
        Span(n) == f.nodes[n].last - f.nodes[n].first
    IN  IF found = {} THEN None
        ELSE CHOOSE n \in found : \A m \in found :
                 Span(n) < Span(m) \/ (Span(n) = Span(m) /\ n <= m)

(* The sizes a split would give *)

FirstSize(size, start_line, split_line, end_line) ==
    (size * (split_line - start_line + 1)) \div (end_line - start_line + 1)

SecondSize(size, start_line, split_line, end_line) ==
    size - FirstSize(size, start_line, split_line, end_line)

\* 20% of the target, rounded down.
MinChunkSize(f) == f.target_size \div 5

\* Both estimated halves reach the minimum chunk size.
IsHealthy(f, c, split_line) ==
    /\ FirstSize(c.size, c.start_line, split_line, c.end_line) >= MinChunkSize(f)
    /\ SecondSize(c.size, c.start_line, split_line, c.end_line) >= MinChunkSize(f)

DistanceFromMiddle(c, split_line) ==
    Abs(FirstSize(c.size, c.start_line, split_line, c.end_line) - c.size \div 2)

\* compute_split_badness
Badness(c, split_line) ==
    LET smallest == Min({FirstSize(c.size, c.start_line, split_line, c.end_line),
                         SecondSize(c.size, c.start_line, split_line, c.end_line)})
    IN  DistanceFromMiddle(c, split_line)
          + (IF smallest < 500 THEN 10000
             ELSE IF smallest < 1000 THEN 5000 ELSE 0)

(***************************************************************************)
(* Scopes.  c is the oversized chunk: start_line, end_line, size.          *)
(***************************************************************************)

\* get_scope_candidates: a line after each meaningful child but the last.
ScopeCandidates(f, scope, c) ==
    LET overlapping == SelectSeq(MeaningfulChildren(f, scope),
                          LAMBDA m : Overlaps(f, m, c.start_line, c.end_line))
    IN  {line \in c.start_line .. (c.end_line - 1) :
            \E i \in 1 .. (Len(overlapping) - 1) :
                line = f.nodes[overlapping[i]].last}

\* find_usable_split: the healthy candidate nearest the middle, the first of
\* two at the same distance; no line when none is healthy.  The candidates are
\* in ascending order, except that equal lines repeat, so the first is the
\* lowest line.
UsableSplit(f, c, candidates) ==
    LET healthy == {line \in candidates : IsHealthy(f, c, line)}
    IN  {line \in healthy : \A other \in healthy :
            LET d == DistanceFromMiddle(c, line)
                e == DistanceFromMiddle(c, other)
            IN  d < e \/ (d = e /\ line <= other)}

\* find_shallowest_split_scope, from node n
ShallowestScope(f, c) ==
    LET Into(n) == {m \in Range(Children(f, n)) :
                        Spans(f, m, c.start_line, c.end_line)}
        Only(n) == {m \in Range(MeaningfulChildren(f, n)) :
                        /\ Len(MeaningfulChildren(f, n)) = 1
                        /\ Spans(f, m, c.start_line, c.end_line)}
        from[n \in Nodes(f)] ==
            IF ~Spans(f, n, c.start_line, c.end_line)
               \/ Kind(f, n) \in SplitScopes THEN n
            ELSE IF Kind(f, n) \in TransparentConduits /\ Into(n) # {}
                 THEN from[Min(Into(n))]
            ELSE IF Only(n) # {} THEN from[Min(Only(n))]
            ELSE n
    IN  from[1]

\* find_deepest_split_scope: the first scope, at or below node n, with a
\* healthy candidate.
DeepestScope(f, c, node) ==
    LET deepest[n \in Nodes(f)] ==
            LET below == {m \in Range(Children(f, n)) :
                             /\ Overlaps(f, m, c.start_line, c.end_line)
                             /\ Kind(f, m) \in Descends
                             /\ deepest[m] # None}
            IN  IF ~Overlaps(f, n, c.start_line, c.end_line) THEN None
                ELSE IF /\ Kind(f, n) \in SplitScopes
                        /\ \E line \in ScopeCandidates(f, n, c) :
                              IsHealthy(f, c, line)
                     THEN n
                ELSE IF below # {} THEN deepest[Min(below)] ELSE None
    IN  deepest[node]

\* find_nested_split_scope: the child to descend into, scopes before conduits,
\* then the longer overlap, then the first.
NestedScope(f, c, scope) ==
    LET inside == {m \in Range(Children(f, scope)) :
                      /\ Overlaps(f, m, c.start_line, c.end_line)
                      /\ Kind(f, m) \in Descends}
        Score(m) == (IF Kind(f, m) \in SplitScopes THEN 1000 ELSE 0)
                      + Min({f.nodes[m].last, c.end_line})
                      - Max({f.nodes[m].first, c.start_line})
        best == CHOOSE m \in inside : \A other \in inside :
                    Score(m) > Score(other)
                    \/ (Score(m) = Score(other) /\ m <= other)
    IN  IF inside = {} THEN None ELSE DeepestScope(f, c, best)

=============================================================================
