---------------------------- MODULE MCWorkingTree -----------------------------
(* A source file in a folder below one with a package.json, below a root with      *)
(* another.                                                                        *)
EXTENDS WorkingTree

OneSource == {"pkg/lib/a.ts"}
TwoManifests == {"package.json", "pkg/package.json"}
OneManifest == {"package.json"}

\* The source file may be new, edited, deleted or staged; the packages have names.
Checkout(source) ==
    [p \in Paths |-> CASE p = "package.json" -> "c1" [] p = "pkg/package.json" -> "c2"
                       [] OTHER -> source]
AnyCheckout ==
    {[head |-> Checkout(h), staged |-> Checkout(s), work |-> Checkout(w)] :
        h \in {"absent", "c1"}, s \in {"absent", "c1", "c2", "link"},
        w \in {"absent", "c2", "c1 CRLF", "link"}}

\* Nothing staged, nothing edited.
CleanCheckout ==
    {[head |-> Checkout(h), staged |-> Checkout(h), work |-> Checkout(h)] : h \in {"absent", "c1"}}

\* The line ends of source files are converted, those of package.json files are not.
\* The source file may be a link to the package.json of the root.
MayHoldAny == [p \in Paths |-> IF p \in Sources THEN {"c1", "c2", "c1 CRLF", "link", "empty"}
                               ELSE {"c1", "c2", "empty"}]
Converting == [p \in Paths |-> [c \in Ids |-> IF p \in Sources /\ c = "c1 CRLF" THEN "c1" ELSE c]]
TargetOne == [p \in OneSource |-> "package.json"]

\* Neither conversion nor links.
MayHoldPlain == [p \in Paths |-> {"c1", "c2", "empty"}]
NoTarget == [p \in {} |-> p]
AsItIs == [p \in Paths |-> [c \in Ids |-> c]]

Folder(p) == CASE p = "package.json" -> <<>> [] p = "pkg/package.json" -> <<"pkg">>
               [] OTHER -> <<"pkg", "lib">>
FoldersTwo == [p \in OneSource \cup TwoManifests |-> Folder(p)]
FoldersOne == [p \in OneSource \cup OneManifest |-> Folder(p)]

\* Two suffixes fit the source file, of which the usual configuration names one.
SuffixesTwo == [p \in OneSource |-> {".ts", ".a.ts"}]
Usual == [version |-> 1, fileTypes |-> [s \in {".ts", ".md"} |->
                                           IF s = ".ts" THEN "typescript" ELSE "markdown"],
          exclude |-> {}, keep |-> {}]
Excluding == [Usual EXCEPT !.exclude = {<<"folder", <<"lib">>>>}]
KeepingToo == [version |-> 1,
               fileTypes |-> [s \in {".ts", ".a.ts"} |->
                                IF s = ".ts" THEN "typescript" ELSE "lineBased"],
               exclude |-> {<<"folder", <<"lib">>>>},
               keep |-> {<<"glob", OneSource>>}]
Invalid == [Usual EXCEPT !.version = 2]
AnyLocal == {Missing, Excluding, KeepingToo, Invalid}
AnyGlobal == {Missing, Excluding}
NoConfig == {Missing}
===============================================================================
