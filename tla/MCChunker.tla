----------------------------- MODULE MCChunker -----------------------------
(***************************************************************************)
(* Small files for Chunker: every assignment of three line lengths, or of  *)
(* seven kinds of Markdown line, to a few lines, with the syntax trees     *)
(* that tree-sitter would report for six shapes of TypeScript file.        *)
(***************************************************************************)
EXTENDS Chunker

CONSTANTS intro, usage   \* heading texts

Line(len, blank, mark, hashes, title) ==
    [len |-> len, blank |-> blank, mark |-> mark, indent |-> 0,
     hashes |-> hashes, next |-> IF len > 200 THEN "other" ELSE "space",
     title |-> title]

CodeLine(len) == Line(len, len = 0, "other", 0, NoTitle)

\* A declaration of one line, of part of a target, of more than half a target.
Lengths == {60, 700, 3500}

Offset(lines, line) ==
    MapThenSumSet(LAMBDA i : lines[i].len + 1, 1 .. (line - 1))

\* A node over whole lines.
Node(lines, kind, parent, first, last) ==
    [kind |-> kind, parent |-> parent, first |-> first, last |-> last,
     from |-> Offset(lines, first),
     to |-> IF last > Len(lines) THEN Offset(lines, Len(lines) + 1)
            ELSE Offset(lines, last) + lines[last].len,
     gap |-> FALSE]

\* Three functions, the last two on adjoining lines; line 1 is an import.
ThreeFunctions(l) ==
    <<Node(l, "program", 0, 1, 6), Node(l, "import_statement", 1, 1, 1),
      Node(l, "function_declaration", 1, 2, 3),
      Node(l, "function_declaration", 1, 4, 4),
      Node(l, "function_declaration", 1, 5, 5)>>

\* One exported class with three methods.
Class(l) ==
    <<Node(l, "program", 0, 1, 6), Node(l, "export_statement", 1, 1, 5),
      Node(l, "class_declaration", 2, 1, 5), Node(l, "class_body", 3, 1, 5),
      Node(l, "method_definition", 4, 2, 2), Node(l, "method_definition", 4, 3, 3),
      Node(l, "method_definition", 4, 4, 4)>>

\* A callback: the statements are inside the argument of a call.
Callback(l) ==
    <<Node(l, "program", 0, 1, 6), Node(l, "expression_statement", 1, 1, 5),
      Node(l, "call_expression", 2, 1, 5), Node(l, "arguments", 3, 1, 5),
      Node(l, "arrow_function", 4, 1, 5), Node(l, "statement_block", 5, 1, 5),
      Node(l, "lexical_declaration", 6, 2, 2), Node(l, "if_statement", 6, 3, 3),
      Node(l, "for_statement", 6, 4, 4)>>

\* A template literal: nothing below the root that could be cut.
Template(l) ==
    <<Node(l, "program", 0, 1, 6), Node(l, "lexical_declaration", 1, 1, 5),
      Node(l, "variable_declarator", 2, 1, 5),
      Node(l, "template_string", 3, 1, 5)>>

\* The root starts below the first line; two declarations share line 3.
SharedLine(l) ==
    <<Node(l, "program", 0, 2, 6), Node(l, "class_declaration", 1, 2, 3),
      Node(l, "lexical_declaration", 1, 3, 3),
      Node(l, "enum_declaration", 1, 4, 5)>>

\* An interface of documented members beside an object literal.
Members(l) ==
    <<Node(l, "program", 0, 1, 6), Node(l, "interface_declaration", 1, 1, 4),
      Node(l, "interface_body", 2, 1, 4), Node(l, "comment", 3, 2, 2),
      Node(l, "property_signature", 3, 3, 3),
      Node(l, "property_signature", 3, 4, 4),
      Node(l, "lexical_declaration", 1, 5, 5),
      Node(l, "object", 7, 5, 5), Node(l, "pair", 8, 5, 5)>>

TypeScriptLines == [1 .. 5 -> {CodeLine(n) : n \in Lengths}]

Trees(l) == {ThreeFunctions(l), Class(l), Callback(l), Template(l),
             SharedLine(l), Members(l)}

TypeScriptFile(lines, nodes, fallback) ==
    [strategy |-> "typescript", lines |-> lines, nodes |-> nodes,
     target_size |-> 6000, allow_fallback |-> fallback]

TypeScriptFiles ==
    UNION {{TypeScriptFile(l, t, b) : t \in Trees(l)} :
           l \in TypeScriptLines, b \in BOOLEAN}

\* Text, a blank line, headings with and without a text, "#tag", a list item
\* and a fence.
MarkdownLines ==
    {Line(3500, FALSE, "other", 0, NoTitle), Line(0, TRUE, "other", 0, NoTitle),
     Line(12, FALSE, "other", 2, intro), Line(12, FALSE, "other", 1, usage),
     Line(3, FALSE, "other", 2, NoTitle), Line(900, FALSE, "other", 1, NoTitle),
     Line(3000, FALSE, "item", 0, NoTitle), Line(3, FALSE, "fence", 0, NoTitle)}

LineFile(strategy, lines) ==
    [strategy |-> strategy, lines |-> lines, nodes |-> <<>>,
     target_size |-> 6000, allow_fallback |-> TRUE]

MarkdownFiles ==
    UNION {{LineFile("markdown", l) : l \in [1 .. n -> MarkdownLines]} : n \in 0 .. 4}

TextFiles ==
    UNION {{LineFile(s, l) : l \in [1 .. n -> {CodeLine(k) : k \in {0, 700, 5999, 6000}}]} :
           n \in 0 .. 4, s \in {"lineBased", "skip"}}

AllFiles == TypeScriptFiles \cup MarkdownFiles \cup TextFiles

=============================================================================
