----------------------------- MODULE CrawlFilter ------------------------------
(* monodex-crawl.json (src/engine/crawl_config.rs): which of the three places it  *)
(* is read from, and what it says of a path.  Paths are known by the folders above *)
(* them and the suffixes of their names; a glob by the paths it matches.           *)
(*                                                                                 *)
(* A configuration is a record of its version, the strategy of each suffix in      *)
(* fileTypes and two sets of patterns, <<"folder", names>> or <<"glob", paths>>.   *)
EXTENDS Naturals, FiniteSets, Sequences, SequencesExt

CONSTANTS
    FolderOf,       \* the folder of each path, a sequence of names
    SuffixesOf,     \* the suffixes, dot included, that each path ends with
    Missing,        \* there is no such file
    DefaultConfig   \* the embedded configuration

ASSUME FolderAssumption == \A p \in DOMAIN FolderOf : FolderOf[p] \in Seq(STRING)

ValidStrategies == {"typescript", "markdown", "lineBased"}

\* Suffixes and globs that do not parse count as a version of their own here.
ValidConfig(config) ==
    /\ config.version = 1
    /\ \A suffix \in DOMAIN config.fileTypes : config.fileTypes[suffix] \in ValidStrategies

\* What a file that parses holds (CrawlConfig), whether or not it validates.
IsConfig(config) ==
    /\ IsFiniteSet(DOMAIN config.fileTypes)
    /\ \A pattern \in config.exclude \cup config.keep :
          pattern[1] = "glob" \/ (pattern[1] = "folder" /\ pattern[2] \in Seq(STRING))

\* The first of the three that exists: a file that does not validate is an error, not
\* a reason to read the next.
LoadCrawlConfig(repoLocal, userGlobal) ==
    IF repoLocal # Missing THEN repoLocal
    ELSE IF userGlobal # Missing THEN userGlobal ELSE DefaultConfig

\* compile_patterns: folder patterns are kept apart from the globs.
Dirs(patterns) == {pattern[2] : pattern \in {q \in patterns : q[1] = "folder"}}
GlobSet(patterns) == UNION {pattern[2] : pattern \in {q \in patterns : q[1] = "glob"}}

\* The path starts with "dir/" or contains "/dir/".
InFolder(dir, path) ==
    \E before \in 0..Len(FolderOf[path]) :
        IsPrefix(dir, SubSeq(FolderOf[path], before + 1, Len(FolderOf[path])))

MatchesPatterns(patterns, path) ==
    \/ path \in GlobSet(patterns)
    \/ \E dir \in Dirs(patterns) : InFolder(dir, path)

\* fileTypes is a HashMap: the suffixes are tried in an order that every process
\* draws for itself.
IterationOrders(config) == SetToSeqs(DOMAIN config.fileTypes)

GetStrategy(config, order, path) ==
    LET i == SelectInSeq(order, LAMBDA suffix : suffix \in SuffixesOf[path])
    IN  IF i = 0 THEN "skip" ELSE config.fileTypes[order[i]]

ShouldCrawl(config, order, path) ==
    /\ GetStrategy(config, order, path) # "skip"
    /\ \/ MatchesPatterns(config.keep, path)
       \/ ~MatchesPatterns(config.exclude, path)
===============================================================================
