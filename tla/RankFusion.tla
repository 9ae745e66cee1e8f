----------------------------- MODULE RankFusion -----------------------------
(***************************************************************************)
(* Reciprocal rank fusion (src/engine/fusion.rs): the ranked lists of the  *)
(* retrieval methods become one ranking.                                   *)
(*                                                                         *)
(* lists is a function from the methods that ran to what each returned,    *)
(* best first; a list may name a row twice.  Scores are compared as exact  *)
(* fractions <<numerator, denominator>>; the code adds them in f32.        *)
(***************************************************************************)
EXTENDS Naturals, Sequences, FiniteSetsExt, SequencesExt

CONSTANT RowBefore(_, _)    \* lexicographic order of row_ids

RRF_K == 60

\* RetrievalMethod's order: the first of the methods.
FirstMethod(ms) == IF "fts" \in ms THEN "fts" ELSE "vector"

FusedRows(lists) == UNION {Range(lists[m]) : m \in DOMAIN lists}

Contributors(lists, row) == {m \in DOMAIN lists : row \in Range(lists[m])}

\* Duplicates are dropped, but the rest keep the ranks they had.
RankIn(list, row) == Min({i \in DOMAIN list : list[i] = row})

Score(lists, row) ==
    LET Plus(m, s) ==
            LET d == RRF_K + RankIn(lists[m], row)
            IN  <<s[1] * d + s[2], s[2] * d>>
    IN  FoldSet(Plus, <<0, 1>>, Contributors(lists, row))

BestRank(lists, row) ==
    Min({RankIn(lists[m], row) : m \in Contributors(lists, row)})

BestMethod(lists, row) ==
    FirstMethod({m \in Contributors(lists, row) :
                    RankIn(lists[m], row) = BestRank(lists, row)})

\* Mutant: the comparison is not reversed.
LowestFirst(lists, a, b) ==
    LET x == Score(lists, a)[1] * Score(lists, b)[2]
        y == Score(lists, b)[1] * Score(lists, a)[2]
    IN  x < y \/ (x = y /\ RowBefore(a, b))

\* Score, best rank, best method, row_id, in this order.
Precedes(lists, a, b) ==
    LET x == Score(lists, a)[1] * Score(lists, b)[2]
        y == Score(lists, b)[1] * Score(lists, a)[2]
        SameRank == BestRank(lists, a) = BestRank(lists, b)
        SameMethod == BestMethod(lists, a) = BestMethod(lists, b)
    IN  \/ x > y
        \/ x = y /\ BestRank(lists, a) < BestRank(lists, b)
        \/ x = y /\ SameRank /\ ~SameMethod /\ BestMethod(lists, a) = "fts"
        \/ x = y /\ SameRank /\ SameMethod /\ RowBefore(a, b)

Truncate(s, n) == SubSeq(s, 1, Min({n, Len(s)}))

\* All rows, each before those it precedes.
Ranking(lists) ==
    CHOOSE s \in SetToSeqs(FusedRows(lists)) :
        \A i, j \in DOMAIN s : i < j => Precedes(lists, s[i], s[j])

Fuse(lists, max_results) == Truncate(Ranking(lists), max_results)
=============================================================================
