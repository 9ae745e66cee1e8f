---------------------------- MODULE LabelSearch ----------------------------
(***************************************************************************)
(* `monodex search` of one label beside the command that writes the        *)
(* catalog (CatalogCrawl).  The search takes no lock: it reads the label's *)
(* metadata, decides from it which retrieval methods to ask, then reads    *)
(* the Tantivy index, the vectors and the chunks one after the other,      *)
(* while a crawl or a purge goes on.                                       *)
(*                                                                         *)
(* A query is what the two methods answer to it: any ranking of any rows   *)
(* of the index for FTS, the rows with a vector in any order for vector    *)
(* search.                                                                 *)
(***************************************************************************)
EXTENDS CatalogCrawl, RankFusion

CONSTANTS Limits,             \* --limit values in use
          CandidateFloor      \* 50: the least candidate_limit

ASSUME LimitsAssumption ==
    /\ Limits \subseteq Nat \ {0}
    /\ CandidateFloor \in Nat \ {0}

\* A repository has finitely many files; row_ids are compared as strings.
ASSUME RowsAssumption ==
    /\ IsFiniteSet(Files)
    /\ \A a, b \in Rows : RowBefore(a, b) => ~RowBefore(b, a)
    /\ \A a, b \in Rows : a # b => RowBefore(a, b) \/ RowBefore(b, a)
    /\ \A a, b, c \in Rows : RowBefore(a, b) /\ RowBefore(b, c) => RowBefore(a, c)

VARIABLES
    spc,          \* idle, open, fts, vector, hydrate or done
    ask,          \* label, --retrieval flags ({} without any) and limit
    metadata,     \* the label_metadata row it has read
    view,         \* the rows of the label its handle on the table shows
    warnings,     \* pre-result warnings
    answers,      \* the ranked rows of each method that has run
    fused,        \* the candidates in the order in which they are shown
    output,       \* what is printed after the preamble and these warnings
    outcome,      \* how it ended: rendered, failed, parse_error or refused
    disturbed,    \* history: a command has run since the metadata was read
    since,        \* history: the sources crawled for the label since then
    matched       \* history: what the methods could have returned without a limit

search == <<spc, ask, metadata, view, warnings, answers, fused, output, outcome>>
history == <<disturbed, since, matched>>
allVars == <<vars, search, history>>

-----------------------------------------------------------------------------
(* decide: which methods to ask, by the metadata and the flags *)

MethodSource(m, method) == IF method = "vector" THEN m.vectorSource ELSE m.ftsSource
MethodDone(m, method) == IF method = "vector" THEN m.vectorComplete ELSE m.ftsComplete

\* read_selection: the methods with a source.
ReadSelection(m) == {method \in Methods : MethodSource(m, method) # NULL}

Candidates(m, requested) ==
    IF requested = {} THEN ReadSelection(m) ELSE requested

Incomplete(m, requested) ==
    {method \in Candidates(m, requested) : ~MethodDone(m, method)}

\* Without flags the incomplete methods are left out, with flags they stay.
ActiveSubset(m, requested) ==
    IF requested = {} THEN Candidates(m, requested) \ Incomplete(m, requested)
    ELSE requested

\* Mutant: a method named by a flag is not warned about.
WarnsWithoutFlagOnly(m, requested) ==
    IF requested = {} THEN {<<"incomplete", method>> : method \in Incomplete(m, requested)}
    ELSE {}

DecisionWarnings(m, requested) ==
    {<<"incomplete", method>> : method \in Incomplete(m, requested)}

\* The error of the decision, "none" if there is one to go by.
Refusal(m, requested) ==
    IF ~(requested \subseteq ReadSelection(m)) THEN "not_in_selection"
    ELSE IF Candidates(m, requested) = {} THEN "empty_selection"
    ELSE IF ActiveSubset(m, requested) = {} THEN "all_incomplete"
    ELSE IF ActiveSubset(m, requested) = Methods /\ m.vectorSource # m.ftsSource
         THEN "sources_disagree"
    ELSE "none"

Active == ActiveSubset(metadata, ask.requested)
IsHybrid == Active = Methods

-----------------------------------------------------------------------------
(* Hydration and rendering *)

CandidateLimit == Max({ask.limit, CandidateFloor})

\* Which of the printed items are results.
ResultsIn(items) == {i \in DOMAIN items : items[i][1] = "result"}

\* hydrate_ranked_hits and the loop of render: the candidates in order, each
\* shown if its chunk was fetched and warned about otherwise, as far as the
\* result that reaches the limit.
HydrateRankedHits(candidates, visible, limit) ==
    LET ResultsUpTo(n) == {i \in 1 .. n : candidates[i] \in visible}
        stop == Min({i \in DOMAIN candidates : Cardinality(ResultsUpTo(i)) >= limit}
                    \cup {Len(candidates)})
    IN  [i \in 1 .. stop |->
            <<IF candidates[i] \in visible THEN "result" ELSE "stale", candidates[i]>>]

\* Mutant: the sentinel goes by the number of results alone.
ShortIsTheEnd(count, limit, saturated) ==
    IF count = 0 THEN "no_results" ELSE IF count < limit THEN "sentinel" ELSE "none"

DecideEndMarker(count, limit, saturated) ==
    IF count = 0 THEN "no_results"
    ELSE IF count < limit /\ ~saturated THEN "sentinel" ELSE "none"

\* Some method that ran filled its candidate window.
Saturated == \E method \in DOMAIN answers : Len(answers[method]) >= CandidateLimit

Marker == DecideEndMarker(Cardinality(ResultsIn(output)), ask.limit, Saturated)

-----------------------------------------------------------------------------

SearchInit ==
    /\ spc = "idle"
    /\ ask = [label |-> NULL, requested |-> {}, limit |-> 0]
    /\ metadata = Unfinished(NULL, {})
    /\ view = [rows |-> {}, vectors |-> {}]
    /\ warnings = {}
    /\ answers = <<>>
    /\ fused = <<>>
    /\ output = <<>>
    /\ outcome = "none"
    /\ disturbed = FALSE
    /\ since = {}
    /\ matched = {}

Finish(how) == spc' = "done" /\ outcome' = how

\* run_search up to the dispatch: the metadata is read and judged.
ReadMetadata(l, requested, limit) ==
    /\ spc = "idle"
    /\ ask' = [label |-> l, requested |-> requested, limit |-> limit]
    /\ disturbed' = (phase # "idle")
    /\ \/ /\ meta[l] = NULL
          /\ Finish("no_metadata")
          /\ UNCHANGED <<metadata, warnings>>
       \/ /\ meta[l] # NULL
          /\ metadata' = meta[l]
          /\ IF Refusal(meta[l], requested) # "none"
             THEN Finish(Refusal(meta[l], requested)) /\ UNCHANGED warnings
             ELSE /\ spc' = "open"
                  /\ warnings' = DecisionWarnings(meta[l], requested)
                  /\ UNCHANGED outcome
    /\ UNCHANGED <<vars, view, answers, fused, output, since, matched>>

CurrentView == [rows    |-> LabelRows(ask.label),
                vectors |-> LabelRows(ask.label) \cap vectors]

\* chunks_storage: LanceDB opens the table at its latest version.
OpenChunks ==
    /\ spc = "open"
    /\ view' = CurrentView
    /\ spc' = IF "fts" \in Active THEN "fts" ELSE "vector"
    /\ UNCHANGED <<vars, ask, metadata, warnings, answers, fused, output, outcome, history>>

AfterFts == IF "vector" \in Active THEN "vector" ELSE "hydrate"

\* Each list of at most n rows that FTS may return, best first: Tantivy can
\* hold a document twice around a commit.
RankedRows(S, n) == UNION {[1 .. k -> S] : k \in 0 .. n}

CollectFts ==
    /\ spc = "fts"
    /\ \E hits \in RankedRows(ftsDocs[ask.label], CandidateLimit) :
          /\ answers' = [method \in {"fts"} |-> hits]
          /\ matched' = IF Len(hits) < CandidateLimit THEN Range(hits)
                        ELSE ftsDocs[ask.label]
    /\ spc' = AfterFts
    /\ UNCHANGED <<vars, ask, metadata, view, warnings, fused, output, outcome, disturbed, since>>

\* FTS has nothing to offer: with vector search left the search goes on
\* without it, and otherwise ends with no results.
WithoutFts(warning) ==
    /\ warnings' = warnings \cup warning
    /\ IF IsHybrid THEN spc' = "vector" /\ UNCHANGED outcome
       ELSE Finish("rendered")
    /\ UNCHANGED <<vars, ask, metadata, view, answers, fused, output, history>>

\* There is no folder, or a purge is unlinking it.  An incomplete method has
\* been warned about already.
FtsNoIndex ==
    /\ spc = "fts"
    /\ ftsDocs[ask.label] = {} \/ phase = "purge_fts"
    /\ WithoutFts(IF metadata.ftsComplete THEN {<<"no_index", "fts">>} ELSE {})

\* The manifest names other ids, is missing or cannot be read (FtsIndexFolders).
FtsStale ==
    /\ spc = "fts"
    /\ \E reason \in {"stale", "unreadable"} : WithoutFts({<<reason, "fts">>})

FtsParseError ==
    /\ spc = "fts"
    /\ Finish("parse_error")
    /\ UNCHANGED <<vars, ask, metadata, view, warnings, answers, fused, output, history>>

\* A handle on a LanceDB table may or may not see later versions.
Refreshed == {view, CurrentView}

\* Every row with a vector is a neighbour; the nearest come first.
CollectVector ==
    /\ spc = "vector"
    /\ view' \in Refreshed
    /\ \E hits \in SetToSeqs(view'.vectors) :
          answers' = [method \in DOMAIN answers \cup {"vector"} |->
                         IF method = "vector" THEN Truncate(hits, CandidateLimit)
                         ELSE answers[method]]
    /\ matched' = matched \cup view'.vectors
    /\ spc' = "hydrate"
    /\ UNCHANGED <<vars, ask, metadata, warnings, fused, output, outcome, disturbed, since>>

\* The embedder or LanceDB fails: a hard error, never a degraded answer.
VectorFails ==
    /\ spc = "vector"
    /\ Finish("failed")
    /\ UNCHANGED <<vars, ask, metadata, view, warnings, answers, fused, output, history>>

\* A single method keeps its ranking; under hybrid even one list is fused.
CandidateRanking ==
    IF IsHybrid THEN Fuse(answers, CandidateLimit)
    ELSE answers[CHOOSE m \in DOMAIN answers : TRUE]

\* One bulk fetch of the candidates that are still rows of the label.
HydrateAndRender ==
    /\ spc = "hydrate"
    /\ view' \in Refreshed
    /\ fused' = CandidateRanking
    /\ output' = HydrateRankedHits(fused', view'.rows, ask.limit)
    /\ Finish("rendered")
    /\ UNCHANGED <<vars, ask, metadata, warnings, answers, history>>

SearchStep ==
    \/ OpenChunks
    \/ CollectFts \/ FtsNoIndex \/ FtsStale \/ FtsParseError
    \/ CollectVector \/ VectorFails
    \/ HydrateAndRender

CrawledFor(l) == IF phase \in CrawlPhases /\ job.label = l THEN {job.source} ELSE {}

\* What the catalog does after the answer is of no concern here.
CatalogStep ==
    /\ spc # "done"
    /\ Next
    /\ UNCHANGED <<search, matched>>
    /\ disturbed' = (disturbed \/ spc # "idle")
    /\ since' = IF spc = "idle" THEN {} ELSE since \cup CrawledFor(ask.label)'

SearchNext ==
    \/ \E l \in Labels, requested \in SUBSET Methods, limit \in Limits :
          ReadMetadata(l, requested, limit)
    \/ SearchStep
    \/ CatalogStep

SearchSpec == Init /\ SearchInit /\ [][SearchNext]_allVars

-----------------------------------------------------------------------------
(* Properties *)

Shown == {output[i][2] : i \in ResultsIn(output)}
Told  == {item[2] : item \in Range(output)}

\* A search that prints no warning and beside which no command ran shows rows
\* of the tree the metadata names and skips none: what earlier commands left,
\* interrupted or not, is either warned about or not in the way.  Only a purge
\* stopped before the metadata leaves a complete method without any row.
UndisturbedSearchIsCurrent ==
    outcome = "rendered" /\ warnings = {} /\ ~disturbed =>
        /\ Told = Shown \/ view.rows = {}
        /\ \A method \in Active :
              Shown \subseteq TreeRows(MethodSource(metadata, method))

\* What a search shows beside running commands is never older than its
\* metadata: with every method it asked complete, each result is a row of the
\* tree the metadata names or of one crawled for the label since.  A row that an
\* earlier crawl, failed or interrupted, left with the label does not come up,
\* nor does one that a crawl of another label stores.
SearchedTrees == {MethodSource(metadata, method) : method \in Active} \cup since

ShownRowsAreOfCrawledTrees ==
    outcome = "rendered" /\ (\A method \in Active : MethodDone(metadata, method)) =>
        Shown \subseteq UNION {TreeRows(c) : c \in SearchedTrees}

\* "End of results" means what it says: every row a method could have returned
\* is on the screen, as a result or in a warning.  (With a limit at the floor or
\* above, two lists that are not full can still be more than the ranking holds.)
EndOfResultsIsTheEnd ==
    outcome = "rendered" /\ Marker = "sentinel"
    /\ Cardinality(FusedRows(answers)) <= CandidateLimit =>
        matched \subseteq Told

\* A hybrid search that goes on without FTS says so, by the warning of the
\* decision or by its own.
DegradedSearchIsTold ==
    outcome = "rendered" /\ "fts" \in Active /\ "fts" \notin DOMAIN answers =>
        warnings # {}

\* Better in one list and worse in none.
Dominates(a, b) ==
    LET RankOr(method, row) == IF row \in Range(answers[method])
                               THEN RankIn(answers[method], row)
                               ELSE Len(answers[method]) + 1
    IN  /\ \A m \in DOMAIN answers : RankOr(m, a) <= RankOr(m, b)
        /\ \E m \in DOMAIN answers : RankOr(m, a) < RankOr(m, b)

PositionOf(row) == Min({i \in DOMAIN fused : fused[i] = row})

\* Fusion respects agreement: a row that one method ranks higher and no method
\* ranks lower comes first, whatever the ties, gaps and duplicates.
FusionRespectsAgreement ==
    outcome = "rendered" /\ IsHybrid /\ fused # <<>> =>
        \A a \in FusedRows(answers), b \in Range(fused) :
            Dominates(a, b) =>
                a \in Range(fused) /\ PositionOf(a) < PositionOf(b)
=============================================================================
