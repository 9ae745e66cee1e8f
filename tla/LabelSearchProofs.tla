-------------------------- MODULE LabelSearchProofs --------------------------
(***************************************************************************)
(* Theorems about LabelSearch: for every set of labels, files and sources, *)
(* every limit, every crash and error of the commands beside the search,   *)
(* and every answer of the two retrieval methods.                          *)
(***************************************************************************)
EXTENDS LabelSearch, CatalogCrawlProofs, FiniteSetTheorems, WellFoundedInduction

USE DEF table, stores, labelAdd, upload, results, locals, bounds

LEMMA SearchStepsOnlyRead == [SearchNext]_allVars => [Next]_vars
BY DEF SearchNext, SearchStep, CatalogStep, ReadMetadata, OpenChunks, CollectFts,
       FtsNoIndex, FtsStale, WithoutFts, FtsParseError, CollectVector, VectorFails,
       HydrateAndRender, allVars, vars

(* A search beside the commands leaves them as they are: without the search *)
(* its behaviours are those of CatalogCrawl, whose theorems hold here too.  *)
THEOREM SearchesOnlyRead == SearchSpec => Spec
BY SearchStepsOnlyRead, PTL DEF SearchSpec, Spec

-----------------------------------------------------------------------------
(* What the metadata of a label says                                        *)

(* Both methods of a label were crawled from one source: what one of them   *)
(* names is the tree of all the rows of the label.                          *)
SourcesAligned ==
    \A l \in Labels :
        meta[l] # NULL /\ meta[l].vectorSource # NULL /\ meta[l].ftsSource # NULL =>
            meta[l].vectorSource = meta[l].ftsSource

LEMMA AlignedStep ==
    ASSUME TypeInv, SourcesAligned, [Next]_vars
    PROVE  SourcesAligned'
<1> SUFFICES ASSUME NEW l \in Labels, meta'[l] # NULL,
                    meta'[l].vectorSource # NULL, meta'[l].ftsSource # NULL
             PROVE  meta'[l].vectorSource = meta'[l].ftsSource
  BY DEF SourcesAligned
<1> USE DEF TypeInv, TypeOK
<1>1. ASSUME NEW k \in Labels, NEW c \in Commits, NEW sel \in Selections,
             StartCrawl(k, c, sel)
      PROVE  meta'[l].vectorSource = meta'[l].ftsSource
  BY <1>1 DEF StartCrawl, Unfinished, SourcesAligned
<1>2. ASSUME Finalize PROVE meta'[l].vectorSource = meta'[l].ftsSource
  BY <1>2 DEF Finalize, Unfinished, SourcesAligned
<1>3. ASSUME PurgeLabels PROVE meta'[l].vectorSource = meta'[l].ftsSource
  BY <1>3 DEF PurgeLabels
<1> QED
  BY <1>1, <1>2, <1>3, StoreEdits DEF SourcesAligned

LEMMA ReadSelectionType ==
    ASSUME NEW m PROVE ReadSelection(m) \subseteq Methods
BY DEF ReadSelection

-----------------------------------------------------------------------------
(* What a search has decided and is told of                                 *)

(* The search has been let past the decision and has not failed.            *)
Accepted == spc \in {"open", "fts", "vector", "hydrate"} \/ outcome = "rendered"

DecisionInv ==
    /\ spc # "done" => outcome = "none"
    /\ spc # "done" => fused = <<>> /\ output = <<>>
    /\ spc \in {"idle", "open", "fts"} => answers = <<>>
    /\ Accepted =>
          /\ ask.label \in Labels /\ ask.requested \subseteq Methods /\ ask.limit \in Limits
          /\ metadata \in MetaRow
          /\ Active # {}
          /\ DecisionWarnings(metadata, ask.requested) \subseteq warnings
    /\ spc = "fts" => "fts" \in Active
    /\ spc = "vector" => "vector" \in Active

(* Past FTS the search has its answer or a warning.                         *)
ToldInv ==
    spc \in {"vector", "hydrate"} \/ outcome = "rendered" =>
        ("fts" \in Active => "fts" \in DOMAIN answers \/ warnings # {})

SearchInv == DecisionInv /\ ToldInv

LEMMA ActiveType ==
    ASSUME NEW m, NEW requested \in SUBSET Methods
    PROVE  ActiveSubset(m, requested) \subseteq Methods
BY ReadSelectionType DEF ActiveSubset, Candidates

(* An incomplete method is only ever asked with a warning.                  *)
LEMMA IncompleteIsWarnedOf ==
    ASSUME NEW m, NEW requested, NEW method \in ActiveSubset(m, requested),
           ~MethodDone(m, method)
    PROVE  <<"incomplete", method>> \in DecisionWarnings(m, requested)
BY DEF ActiveSubset, Incomplete, DecisionWarnings, Candidates

LEMMA SearchInvInit == SearchInit => SearchInv
<1>1. SearchInit => spc = "idle" /\ outcome = "none" /\ answers = <<>>
                    /\ fused = <<>> /\ output = <<>>
  BY DEF SearchInit
<1> QED
  BY <1>1 DEF SearchInv, DecisionInv, ToldInv, Accepted

LEMMA SearchInvFrame == SearchInv /\ UNCHANGED search => SearchInv'
BY DEF SearchInv, DecisionInv, ToldInv, Accepted, Active, search

LEMMA SearchInvStep ==
    ASSUME TypeInv, SearchInv, [SearchNext]_allVars
    PROVE  SearchInv'
<1> USE DEF SearchInv, DecisionInv, Accepted
<1>1. ASSUME NEW l \in Labels, NEW requested \in SUBSET Methods, NEW limit \in Limits,
             ReadMetadata(l, requested, limit)
      PROVE  SearchInv'
  <2>1. /\ spc = "idle" /\ outcome = "none" /\ answers = <<>> /\ fused = <<>> /\ output = <<>>
        /\ ask' = [label |-> l, requested |-> requested, limit |-> limit]
        /\ UNCHANGED <<answers, fused, output>>
    BY <1>1 DEF ReadMetadata
  <2>2. CASE spc' = "done"
    <3>1. outcome' # "rendered"
      BY <1>1, <2>1, <2>2 DEF ReadMetadata, Finish, Refusal
    <3> QED
      BY <2>1, <2>2, <3>1 DEF ToldInv
  <2>3. CASE spc' # "done"
    <3>1. /\ meta[l] # NULL /\ metadata' = meta[l] /\ Refusal(meta[l], requested) = "none"
          /\ spc' = "open" /\ outcome' = outcome
          /\ warnings' = DecisionWarnings(meta[l], requested)
      BY <1>1, <2>3 DEF ReadMetadata, Finish
    <3>2. metadata' \in MetaRow /\ ActiveSubset(metadata', requested) # {}
      BY <3>1 DEF TypeInv, TypeOK, Refusal
    <3> QED
      BY <2>1, <3>1, <3>2 DEF Active, ToldInv
  <2> QED
    BY <2>2, <2>3
<1>2. CASE OpenChunks
  <2>1. Active # {} /\ Active \subseteq Methods
    BY <1>2, ActiveType DEF OpenChunks, Active
  <2> QED
    BY <1>2, <2>1 DEF OpenChunks, Active, ToldInv, Methods
<1>3. CASE CollectFts
  <2>1. /\ spc = "fts" /\ spc' \in {"vector", "hydrate"} /\ (spc' = "vector" => "vector" \in Active)
        /\ UNCHANGED <<ask, metadata, warnings, fused, output, outcome>>
    BY <1>3 DEF CollectFts, AfterFts
  <2>2. "fts" \in DOMAIN answers'
    BY <1>3 DEF CollectFts
  <2> QED
    BY <2>1, <2>2 DEF Active, ToldInv
<1>4. ASSUME NEW w, WithoutFts(w), spc = "fts", warnings \cup w # {} PROVE SearchInv'
  <2>1. /\ UNCHANGED <<ask, metadata, answers, fused, output>>
        /\ warnings' = warnings \cup w
        /\ \/ spc' = "vector" /\ outcome' = outcome /\ IsHybrid
           \/ spc' = "done" /\ outcome' = "rendered"
    BY <1>4 DEF WithoutFts, Finish
  <2>2. IsHybrid => "vector" \in Active
    BY DEF IsHybrid, Methods
  <2> QED
    BY <1>4, <2>1, <2>2 DEF Active, ToldInv
<1>5. CASE FtsNoIndex
  <2>1. spc = "fts" /\ WithoutFts(IF metadata.ftsComplete THEN {<<"no_index", "fts">>} ELSE {})
    BY <1>5 DEF FtsNoIndex
  <2>2. ~metadata.ftsComplete => <<"incomplete", "fts">> \in warnings
    BY <2>1, IncompleteIsWarnedOf DEF Active, MethodDone
  <2> QED
    BY <1>4, <2>1, <2>2
<1>6. CASE FtsStale
  <2>1. PICK reason \in {"stale", "unreadable"} : WithoutFts({<<reason, "fts">>})
    BY <1>6 DEF FtsStale
  <2>2. spc = "fts"
    BY <1>6 DEF FtsStale
  <2> QED
    BY <1>4, <2>1, <2>2
<1>7. CASE FtsParseError
  BY <1>7 DEF FtsParseError, Finish, ToldInv
<1>8. CASE CollectVector
  <2>1. /\ spc = "vector" /\ spc' = "hydrate"
        /\ UNCHANGED <<ask, metadata, warnings, fused, output, outcome>>
        /\ DOMAIN answers' = DOMAIN answers \cup {"vector"}
    BY <1>8 DEF CollectVector
  <2> QED
    BY <2>1 DEF Active, ToldInv
<1>9. CASE VectorFails
  BY <1>9 DEF VectorFails, Finish, ToldInv
<1>10. CASE HydrateAndRender
  <2>1. /\ spc = "hydrate" /\ spc' = "done" /\ outcome' = "rendered"
        /\ UNCHANGED <<ask, metadata, warnings, answers>>
    BY <1>10 DEF HydrateAndRender, Finish
  <2> QED
    BY <2>1 DEF Active, ToldInv
<1>11. CASE CatalogStep \/ UNCHANGED allVars
  BY <1>11, SearchInvFrame DEF CatalogStep, allVars
<1> QED
  BY <1>1, <1>2, <1>3, <1>5, <1>6, <1>7, <1>8, <1>9, <1>10, <1>11 DEF SearchNext, SearchStep

(* The catalog beside a search is typed as without one.                     *)
LEMMA CatalogBesideSearch == SearchSpec => []TypeInv
BY SearchesOnlyRead, InitTypeInv, NextTypeInv, PTL DEF Spec

LEMMA SearchInvariant == SearchSpec => []SearchInv
BY CatalogBesideSearch, SearchInvInit, SearchInvStep, PTL DEF SearchSpec

(* A hybrid search that goes on without full-text results says so: it was   *)
(* warned by the decision, or it warns itself.                              *)
THEOREM DegradedSearchesAreTold == SearchSpec => []DegradedSearchIsTold
<1>1. SearchInv => DegradedSearchIsTold
  BY DEF SearchInv, ToldInv, DegradedSearchIsTold
<1> QED
  BY <1>1, SearchInvariant, PTL
-----------------------------------------------------------------------------
(* Sets of naturals and orderings of finite sets                            *)

(* A set of naturals that has an element has a least one.                   *)
LEMMA LeastNatural ==
    ASSUME NEW S \in SUBSET Nat, S # {}
    PROVE  Min(S) \in S /\ \A y \in S : Min(S) <= y
<1> DEFINE T == {0 .. m : m \in S}
<1>1. T # {} /\ T \subseteq FiniteSubsetsOf(Nat)
  <2>1. \A m \in Nat : IsFiniteSet(0 .. m)
    <3>1. \A m \in Nat : 0 \in Int /\ m \in Int
      OBVIOUS
    <3> QED
      BY <3>1, FS_Interval
  <2>2. \A m \in Nat : 0 .. m \in FiniteSubsetsOf(Nat)
    BY <2>1 DEF FiniteSubsetsOf
  <2> QED
    BY <2>2
<1>2. IsWellFoundedOn(StrictSubsetOrdering(Nat), FiniteSubsetsOf(Nat))
  BY FS_StrictSubsetOrderingWellFounded
<1>3. PICK x \in T : \A y \in T : ~ (<<y, x>> \in StrictSubsetOrdering(Nat))
  <2> HIDE DEF T
  <2> QED
    BY <1>1, <1>2, WFMin
<1>4. PICK m \in S : x = 0 .. m
  BY <1>3
<1>5. ASSUME NEW n \in S PROVE m <= n
  <2>1. 0 .. n \in T /\ n \in Nat /\ m \in Nat
    OBVIOUS
  <2>2. n < m => <<0 .. n, x>> \in StrictSubsetOrdering(Nat)
    BY <1>4, <2>1 DEF StrictSubsetOrdering
  <2>3. ~(n < m)
    BY <1>3, <2>1, <2>2
  <2> QED
    BY ONLY <2>1, <2>3
<1> QED
  BY <1>5 DEF Min

(* A finite set can be listed along any strict total order on it.           *)
LEMMA OrderedListing ==
    ASSUME NEW S, IsFiniteSet(S), NEW R,
           \A a, b \in S : <<a, b>> \in R => <<b, a>> \notin R,
           \A a, b \in S : a # b => <<a, b>> \in R \/ <<b, a>> \in R,
           \A a, b, c \in S : <<a, b>> \in R /\ <<b, c>> \in R => <<a, c>> \in R
    PROVE  \E s \in SetToSeqs(S) : \A i, j \in DOMAIN s : i < j => <<s[i], s[j]>> \in R
<1> DEFINE n == Cardinality(S)
           UpTo(x) == {y \in S : y = x \/ <<y, x>> \in R}
           rank == [x \in S |-> Cardinality(UpTo(x))]
<1>1. n \in Nat
  BY FS_CardinalityType
<1>2. \A x \in S : IsFiniteSet(UpTo(x)) /\ Cardinality(UpTo(x)) \in 1 .. n
  <2> TAKE x \in S
  <2>1. UpTo(x) \in SUBSET S /\ x \in UpTo(x)
    OBVIOUS
  <2>2. IsFiniteSet(UpTo(x)) /\ Cardinality(UpTo(x)) <= n
    BY <2>1, FS_Subset
  <2>3. Cardinality(UpTo(x)) \in Nat /\ Cardinality(UpTo(x)) # 0
    BY <2>1, <2>2, FS_CardinalityType, FS_EmptySet
  <2> QED
    BY ONLY <1>1, <2>2, <2>3
<1>3. ASSUME NEW x \in S, NEW y \in S, <<x, y>> \in R
      PROVE  rank[x] < rank[y]
  <2>1. UpTo(x) \in SUBSET UpTo(y) /\ y \in UpTo(y) /\ y \notin UpTo(x)
    BY <1>3
  <2>2. Cardinality(UpTo(x)) <= Cardinality(UpTo(y))
        /\ Cardinality(UpTo(x)) # Cardinality(UpTo(y))
    BY <1>2, <2>1, FS_Subset
  <2>3. rank[x] = Cardinality(UpTo(x)) /\ rank[y] = Cardinality(UpTo(y))
    OBVIOUS
  <2>4. Cardinality(UpTo(x)) \in 1 .. n /\ Cardinality(UpTo(y)) \in 1 .. n
    BY <1>2
  <2> QED
    BY ONLY <1>1, <2>2, <2>3, <2>4
<1>4. rank \in [S -> 1 .. n]
  BY <1>2
<1>5. \A x \in S : rank[x] \in 1 .. n
  BY <1>4
<1> HIDE DEF rank
<1>6. \A x, y \in S : rank[x] = rank[y] => x = y
  <2> SUFFICES ASSUME NEW x \in S, NEW y \in S, rank[x] = rank[y], x # y PROVE FALSE
    OBVIOUS
  <2>1. rank[x] < rank[y] \/ rank[y] < rank[x]
    BY <1>3
  <2>2. rank[x] \in 1 .. n /\ rank[y] \in 1 .. n
    BY <1>5
  <2> QED
    BY ONLY <1>1, <2>1, <2>2, rank[x] = rank[y]
<1>7. IsFiniteSet(1 .. n) /\ Cardinality(1 .. n) = n
  <2>1. 1 \in Int /\ n \in Int /\ (1 > n => n = 0)
    BY <1>1
  <2>2. IsFiniteSet(1 .. n) /\ Cardinality(1 .. n) = IF 1 > n THEN 0 ELSE n - 1 + 1
    BY <2>1, FS_Interval
  <2> QED
    BY ONLY <1>1, <2>1, <2>2
<1>8. rank \in Surjection(S, 1 .. n)
  <2>1. rank \in Injection(S, 1 .. n)
    BY <1>4, <1>6 DEF Injection, IsInjective
  <2> QED
    BY <1>7, <2>1, FS_Injection
<1>9. \A i \in 1 .. n : \E x \in S : rank[x] = i
  BY <1>8 DEF Surjection
<1> DEFINE s == [i \in 1 .. n |-> CHOOSE x \in S : rank[x] = i]
<1>10. \A i \in 1 .. n : s[i] \in S /\ rank[s[i]] = i
  BY <1>9
<1>11. s \in [1 .. n -> S] /\ DOMAIN s = 1 .. n
  BY <1>10
<1> HIDE DEF s
<1>12. s \in SetToSeqs(S)
  BY <1>10, <1>11 DEF SetToSeqs
<1>13. ASSUME NEW i \in 1 .. n, NEW j \in 1 .. n, i < j
       PROVE  <<s[i], s[j]>> \in R
  <2>1. s[i] \in S /\ s[j] \in S /\ rank[s[i]] = i /\ rank[s[j]] = j
    BY <1>10
  <2>2. s[i] = s[j] \/ <<s[j], s[i]>> \in R => j <= i
    BY <1>3, <2>1
  <2>3. i \in Int /\ j \in Int /\ ~(j <= i)
    BY ONLY <1>13, <1>1
  <2> QED
    BY <2>1, <2>2, <2>3
<1> QED
  BY <1>11, <1>12, <1>13

(* An ordering of a finite set lists all of it.                             *)
LEMMA ListingIsComplete ==
    ASSUME NEW S, IsFiniteSet(S), NEW s \in SetToSeqs(S)
    PROVE  /\ DOMAIN s = 1 .. Cardinality(S) /\ Len(s) = Cardinality(S)
           /\ s \in [1 .. Cardinality(S) -> S]
           /\ Range(s) = S
           /\ \A i, j \in DOMAIN s : s[i] = s[j] => i = j
<1> DEFINE n == Cardinality(S)
<1>1. n \in Nat
  BY FS_CardinalityType
<1>2. s \in [1 .. n -> S] /\ \A i, j \in 1 .. n : i # j => s[i] # s[j]
  BY DEF SetToSeqs
<1>3. DOMAIN s = 1 .. n /\ Len(s) = n
  BY <1>1, <1>2
<1>4. IsFiniteSet(1 .. n) /\ Cardinality(1 .. n) = n
  <2>1. 1 \in Int /\ n \in Int /\ (1 > n => n = 0)
    BY <1>1
  <2>2. IsFiniteSet(1 .. n) /\ Cardinality(1 .. n) = IF 1 > n THEN 0 ELSE n - 1 + 1
    BY <2>1, FS_Interval
  <2> QED
    BY ONLY <1>1, <2>1, <2>2
<1>5. s \in Surjection(1 .. n, S)
  <2>1. s \in Injection(1 .. n, S)
    BY <1>2 DEF Injection, IsInjective
  <2> QED
    BY <1>4, <2>1, FS_Injection
<1>6. Range(s) = S
  BY <1>2, <1>3, <1>5 DEF Surjection, Range
<1> QED
  BY <1>2, <1>3, <1>6

-----------------------------------------------------------------------------
(* Reciprocal rank fusion                                                   *)

(* A row has the score of the one list it is in, or the sum for the two,    *)
(* in whatever order they are added.                                        *)
LEMMA FoldOfPair ==
    ASSUME NEW lists, NEW row, NEW p, NEW q, Contributors(lists, row) = {p, q},
           RankIn(lists[p], row) \in Nat, RankIn(lists[q], row) \in Nat
    PROVE  Score(lists, row) = IF p = q THEN <<1, RRF_K + RankIn(lists[p], row)>>
                               ELSE <<(RRF_K + RankIn(lists[p], row)) + (RRF_K + RankIn(lists[q], row)),
                                      (RRF_K + RankIn(lists[p], row)) * (RRF_K + RankIn(lists[q], row))>>
<1> DEFINE a == RRF_K + RankIn(lists[p], row)
           b == RRF_K + RankIn(lists[q], row)
<1>0. a \in Nat /\ b \in Nat
  BY DEF RRF_K
<1> DEFINE C == {p, q}
           Plus(m, s) == LET d == RRF_K + RankIn(lists[m], row)
                         IN  <<s[1] * d + s[2], s[2] * d>>
           pick(s) == CHOOSE x \in s : TRUE
           E0 == [s \in SUBSET C |-> <<0, 1>>]
           E1 == [s \in SUBSET C |-> IF s = {} THEN <<0, 1>> ELSE Plus(pick(s), E0[s \ {pick(s)}])]
           E2 == [s \in SUBSET C |-> IF s = {} THEN <<0, 1>> ELSE Plus(pick(s), E1[s \ {pick(s)}])]
           Eq(g) == g = [s \in SUBSET C |->
                           IF s = {} THEN <<0, 1>> ELSE Plus(pick(s), g[s \ {pick(s)}])]
           iter == CHOOSE g : Eq(g)
<1>1. Score(lists, row) = iter[C]
  BY DEF Score, FoldSet, MapThenFoldSet
<1>2. Eq(E2)
  <2>1. ASSUME NEW s \in SUBSET C, s # {}
        PROVE  E1[s \ {pick(s)}] = E2[s \ {pick(s)}]
    <3> DEFINE x == pick(s)
               t == s \ {x}
    <3>1. x \in s
      BY <2>1
    <3>2. CASE t = {}
      BY <3>2
    <3>3. CASE t # {}
      <4>1. PICK y \in C : t = {y}
        BY <3>1, <3>3
      <4>2. pick(t) = y /\ t \ {pick(t)} = {}
        BY <4>1
      <4> QED
        BY <4>2, <3>3
    <3> QED
      BY <3>2, <3>3
  <2>2. ASSUME NEW s \in SUBSET C
        PROVE  E2[s] = IF s = {} THEN <<0, 1>> ELSE Plus(pick(s), E2[s \ {pick(s)}])
    <3>1. E2[s] = IF s = {} THEN <<0, 1>> ELSE Plus(pick(s), E1[s \ {pick(s)}])
      OBVIOUS
    <3> HIDE DEF Plus, E1, E2, pick
    <3> QED
      BY <3>1, <2>1
  <2>3. E2 = [s \in SUBSET C |-> E2[s]]
    OBVIOUS
  <2> HIDE DEF Plus, E1, E2, pick
  <2> QED
    BY <2>2, <2>3, Zenon
<1>3. Eq(iter)
  BY <1>2
<1> HIDE DEF iter
<1>4. iter[{}] = <<0, 1>>
  BY <1>3
<1>5. \A x \in C : iter[{x}] = Plus(x, <<0, 1>>)
  BY <1>3, <1>4
<1>6. CASE p = q
  <2>1. iter[C] = Plus(p, <<0, 1>>)
    BY <1>5, <1>6
  <2>2. Plus(p, <<0, 1>>) = <<1, a>>
    <3> HIDE DEF a
    <3> QED
      BY <1>0 DEF a
  <2> QED
    BY <1>1, <1>6, <2>1, <2>2
<1>7. CASE p # q
  <2>1. iter[C] = Plus(pick(C), iter[C \ {pick(C)}])
    BY <1>3
  <2>2. pick(C) \in C
    OBVIOUS
  <2>3. \/ pick(C) = p /\ C \ {pick(C)} = {q}
        \/ pick(C) = q /\ C \ {pick(C)} = {p}
    BY <1>7, <2>2
  <2>4. iter[C] = Plus(p, Plus(q, <<0, 1>>)) \/ iter[C] = Plus(q, Plus(p, <<0, 1>>))
    BY <2>1, <2>3, <1>5
  <2>5. /\ Plus(p, Plus(q, <<0, 1>>)) = <<a + b, a * b>>
        /\ Plus(q, Plus(p, <<0, 1>>)) = <<a + b, a * b>>
    BY <1>0
  <2> QED
    BY <1>1, <1>7, <2>4, <2>5
<1> QED
  BY <1>6, <1>7

(* The rank of a row in a list is the first of its places there.            *)
LEMMA RankOfRow ==
    ASSUME NEW X, NEW list \in Seq(X), NEW row \in Range(list)
    PROVE  /\ RankIn(list, row) \in 1 .. Len(list) /\ list[RankIn(list, row)] = row
           /\ RankIn(list, row) \in Nat \ {0}
<1> DEFINE places == {i \in DOMAIN list : list[i] = row}
<1>1. places \in SUBSET Nat /\ places # {} /\ DOMAIN list = 1 .. Len(list) /\ Len(list) \in Nat
  BY DEF Range
<1>2. Min(places) \in places
  BY <1>1, LeastNatural
<1> QED
  BY <1>1, <1>2 DEF RankIn

(* What a search has of the two methods.                                    *)
RankedLists(lists) ==
    /\ DOMAIN lists \subseteq {"fts", "vector"}
    /\ \A m \in DOMAIN lists : \E X : lists[m] \in Seq(X)

LEMMA ContributorsType ==
    ASSUME NEW lists, RankedLists(lists), NEW row \in FusedRows(lists)
    PROVE  /\ Contributors(lists, row) # {}
           /\ Contributors(lists, row) \subseteq {"fts", "vector"}
           /\ \A m \in Contributors(lists, row) : RankIn(lists[m], row) \in Nat \ {0}
<1>1. \A m \in Contributors(lists, row) : RankIn(lists[m], row) \in Nat \ {0}
  BY RankOfRow DEF Contributors, RankedLists
<1> QED
  BY <1>1 DEF Contributors, RankedLists, FusedRows

(* A score is a positive fraction.                                          *)
LEMMA ScoreType ==
    ASSUME NEW lists, RankedLists(lists), NEW row \in FusedRows(lists)
    PROVE  /\ Score(lists, row) = <<Score(lists, row)[1], Score(lists, row)[2]>>
           /\ Score(lists, row)[1] \in Nat \ {0} /\ Score(lists, row)[2] \in Nat \ {0}
<1>1. PICK p, q : Contributors(lists, row) = {p, q}
  <2>1. \E p \in {"fts", "vector"}, q \in {"fts", "vector"} : Contributors(lists, row) = {p, q}
    BY ContributorsType
  <2> QED
    BY <2>1
<1>2. RankIn(lists[p], row) \in Nat /\ RankIn(lists[q], row) \in Nat
  BY <1>1, ContributorsType
<1>3. Score(lists, row) = IF p = q THEN <<1, RRF_K + RankIn(lists[p], row)>>
                          ELSE <<(RRF_K + RankIn(lists[p], row)) + (RRF_K + RankIn(lists[q], row)),
                                 (RRF_K + RankIn(lists[p], row)) * (RRF_K + RankIn(lists[q], row))>>
  BY <1>1, <1>2, FoldOfPair, Zenon
<1> DEFINE a == RRF_K + RankIn(lists[p], row)
           b == RRF_K + RankIn(lists[q], row)
<1>4. a \in Nat \ {0} /\ b \in Nat \ {0}
  BY <1>2 DEF RRF_K
<1>5. Score(lists, row) = IF p = q THEN <<1, a>> ELSE <<a + b, a * b>>
  BY <1>3, Zenon
<1> HIDE DEF a, b
<1>6. a + b \in Nat \ {0} /\ a * b \in Nat \ {0}
  BY ONLY <1>4
<1> QED
  BY <1>4, <1>5, <1>6

LEMMA BestRankType ==
    ASSUME NEW lists, RankedLists(lists), NEW row \in FusedRows(lists)
    PROVE  BestRank(lists, row) \in Nat
<1> DEFINE ranks == {RankIn(lists[m], row) : m \in Contributors(lists, row)}
<1>1. ranks \in SUBSET Nat /\ ranks # {}
  BY ContributorsType
<1> QED
  BY <1>1, LeastNatural DEF BestRank

(* Fractions are compared transitively.                                     *)
LEMMA FractionOrder ==
    ASSUME NEW a \in Nat, NEW b \in Nat \ {0}, NEW c \in Nat, NEW d \in Nat \ {0},
           NEW e \in Nat, NEW f \in Nat \ {0}
    PROVE  /\ a * d >= c * b /\ c * f >= e * d => a * f >= e * b
           /\ a * d > c * b /\ c * f >= e * d => a * f > e * b
           /\ a * d >= c * b /\ c * f > e * d => a * f > e * b
<1>1. /\ a * d >= c * b => a * d * f >= c * b * f
      /\ a * d > c * b => a * d * f > c * b * f
  OBVIOUS
<1>2. /\ c * f >= e * d => c * f * b >= e * d * b
      /\ c * f > e * d => c * f * b > e * d * b
  OBVIOUS
<1>3. c * f * b = c * b * f /\ a * d * f = (a * f) * d /\ e * d * b = (e * b) * d
  OBVIOUS
<1>4. /\ (a * f) * d >= (e * b) * d => a * f >= e * b
      /\ (a * f) * d > (e * b) * d => a * f > e * b
  OBVIOUS
<1>5. a * f \in Nat /\ e * b \in Nat /\ c * b * f \in Nat /\ (a * f) * d \in Nat /\ (e * b) * d \in Nat
  OBVIOUS
<1> QED
  BY <1>1, <1>2, <1>3, <1>4, <1>5
(* Precedes is a strict total order of the rows of the lists.               *)
LEMMA PrecedesOrders ==
    ASSUME NEW lists, RankedLists(lists), NEW S, FusedRows(lists) = S,
           \A a, b \in S : RowBefore(a, b) => ~RowBefore(b, a),
           \A a, b \in S : a # b => RowBefore(a, b) \/ RowBefore(b, a),
           \A a, b, c \in S : RowBefore(a, b) /\ RowBefore(b, c) => RowBefore(a, c)
    PROVE  /\ \A a, b \in S : Precedes(lists, a, b) => ~Precedes(lists, b, a)
           /\ \A a, b \in S : a # b => Precedes(lists, a, b) \/ Precedes(lists, b, a)
           /\ \A a, b, c \in S : Precedes(lists, a, b) /\ Precedes(lists, b, c)
                                  => Precedes(lists, a, c)
<1> DEFINE x(a, b) == Score(lists, a)[1] * Score(lists, b)[2]
           rank(a) == BestRank(lists, a)
           isFts(a) == BestMethod(lists, a) = "fts"
<1>1. \A a, b \in S : x(a, b) \in Nat
  BY ScoreType
<1>2. \A a \in S : rank(a) \in Nat
  BY BestRankType
<1>3. \A a, b \in S : (BestMethod(lists, a) = BestMethod(lists, b)) <=> (isFts(a) <=> isFts(b))
  BY DEF BestMethod, FirstMethod
<1>4. \A a, b, c \in S :
         /\ x(a, b) >= x(b, a) /\ x(b, c) >= x(c, b) => x(a, c) >= x(c, a)
         /\ x(a, b) > x(b, a) /\ x(b, c) >= x(c, b) => x(a, c) > x(c, a)
         /\ x(a, b) >= x(b, a) /\ x(b, c) > x(c, b) => x(a, c) > x(c, a)
  <2> TAKE a, b, c \in S
  <2> DEFINE a1 == Score(lists, a)[1]  a2 == Score(lists, a)[2]
             b1 == Score(lists, b)[1]  b2 == Score(lists, b)[2]
             c1 == Score(lists, c)[1]  c2 == Score(lists, c)[2]
  <2>1. /\ a1 \in Nat /\ a2 \in Nat \ {0} /\ b1 \in Nat /\ b2 \in Nat \ {0}
        /\ c1 \in Nat /\ c2 \in Nat \ {0}
    BY ScoreType
  <2>2. /\ x(a, b) = a1 * b2 /\ x(b, a) = b1 * a2 /\ x(b, c) = b1 * c2 /\ x(c, b) = c1 * b2
        /\ x(a, c) = a1 * c2 /\ x(c, a) = c1 * a2
    OBVIOUS
  <2> HIDE DEF a1, a2, b1, b2, c1, c2, x
  <2>3. /\ a1 * b2 >= b1 * a2 /\ b1 * c2 >= c1 * b2 => a1 * c2 >= c1 * a2
        /\ a1 * b2 > b1 * a2 /\ b1 * c2 >= c1 * b2 => a1 * c2 > c1 * a2
        /\ a1 * b2 >= b1 * a2 /\ b1 * c2 > c1 * b2 => a1 * c2 > c1 * a2
    BY <2>1, FractionOrder
  <2> QED
    BY <2>2, <2>3
<1>5. \A a, b \in S : Precedes(lists, a, b) <=>
         \/ x(a, b) > x(b, a)
         \/ x(a, b) = x(b, a) /\ rank(a) < rank(b)
         \/ x(a, b) = x(b, a) /\ rank(a) = rank(b) /\ isFts(a) /\ ~isFts(b)
         \/ x(a, b) = x(b, a) /\ rank(a) = rank(b) /\ (isFts(a) <=> isFts(b)) /\ RowBefore(a, b)
  BY <1>3 DEF Precedes
<1> HIDE DEF x, rank, isFts
<1>6. \A a, b \in S : Precedes(lists, a, b) => ~Precedes(lists, b, a)
  <2> SUFFICES ASSUME NEW a \in S, NEW b \in S, Precedes(lists, a, b), Precedes(lists, b, a)
               PROVE  FALSE
    OBVIOUS
  <2>1. x(a, b) \in Nat /\ x(b, a) \in Nat /\ rank(a) \in Nat /\ rank(b) \in Nat
    BY <1>1, <1>2
  <2> QED
    BY <1>5, <2>1
<1>7. \A a, b \in S : a # b => Precedes(lists, a, b) \/ Precedes(lists, b, a)
  <2> SUFFICES ASSUME NEW a \in S, NEW b \in S, a # b
               PROVE  Precedes(lists, a, b) \/ Precedes(lists, b, a)
    OBVIOUS
  <2>1. x(a, b) \in Nat /\ x(b, a) \in Nat /\ rank(a) \in Nat /\ rank(b) \in Nat
    BY <1>1, <1>2
  <2> QED
    BY <1>5, <2>1
<1>8. ASSUME NEW a \in S, NEW b \in S, NEW c \in S,
             Precedes(lists, a, b), Precedes(lists, b, c)
      PROVE  Precedes(lists, a, c)
  <2>1. /\ x(a, b) \in Nat /\ x(b, a) \in Nat /\ x(b, c) \in Nat /\ x(c, b) \in Nat
        /\ x(a, c) \in Nat /\ x(c, a) \in Nat
        /\ rank(a) \in Nat /\ rank(b) \in Nat /\ rank(c) \in Nat
    BY <1>1, <1>2
  <2>2. x(a, b) >= x(b, a) /\ x(b, c) >= x(c, b)
    BY <1>5, <1>8, <2>1
  <2>3. CASE x(a, b) > x(b, a) \/ x(b, c) > x(c, b)
    BY <1>4, <1>5, <2>2, <2>3
  <2>4. CASE x(a, b) = x(b, a) /\ x(b, c) = x(c, b)
    <3>1. x(b, a) >= x(a, b) /\ x(c, b) >= x(b, c)
      BY <2>1, <2>4
    <3>2. x(a, c) >= x(c, a) /\ x(c, a) >= x(a, c)
      BY <1>4, <2>2, <3>1
    <3>3. x(a, c) = x(c, a)
      BY <2>1, <3>2
    <3>4. /\ \/ rank(a) < rank(b)
             \/ rank(a) = rank(b) /\ isFts(a) /\ ~isFts(b)
             \/ rank(a) = rank(b) /\ (isFts(a) <=> isFts(b)) /\ RowBefore(a, b)
          /\ \/ rank(b) < rank(c)
             \/ rank(b) = rank(c) /\ isFts(b) /\ ~isFts(c)
             \/ rank(b) = rank(c) /\ (isFts(b) <=> isFts(c)) /\ RowBefore(b, c)
      BY <1>5, <1>8, <2>1, <2>4
    <3>5. \/ rank(a) < rank(c)
          \/ rank(a) = rank(c) /\ isFts(a) /\ ~isFts(c)
          \/ rank(a) = rank(c) /\ (isFts(a) <=> isFts(c)) /\ RowBefore(a, c)
      BY <2>1, <3>4
    <3> QED
      BY <1>5, <3>3, <3>5
  <2> QED
    BY <2>1, <2>2, <2>3, <2>4
<1> QED
  BY <1>6, <1>7, <1>8

(* Fusion lists every row that a method returned, once, each before those   *)
(* it precedes.                                                             *)
LEMMA RankingOrders ==
    ASSUME NEW lists, RankedLists(lists), NEW S, FusedRows(lists) = S, IsFiniteSet(S),
           \A a, b \in S : RowBefore(a, b) => ~RowBefore(b, a),
           \A a, b \in S : a # b => RowBefore(a, b) \/ RowBefore(b, a),
           \A a, b, c \in S : RowBefore(a, b) /\ RowBefore(b, c) => RowBefore(a, c)
    PROVE  /\ Ranking(lists) \in SetToSeqs(S)
           /\ \A i, j \in DOMAIN Ranking(lists) :
                 i < j => Precedes(lists, Ranking(lists)[i], Ranking(lists)[j])
<1> DEFINE R == {p \in S \X S : Precedes(lists, p[1], p[2])}
<1>1. \A a, b \in S : <<a, b>> \in R <=> Precedes(lists, a, b)
  OBVIOUS
<1>2. PICK s \in SetToSeqs(S) : \A i, j \in DOMAIN s : i < j => <<s[i], s[j]>> \in R
  <2>1. /\ \A a, b \in S : <<a, b>> \in R => <<b, a>> \notin R
        /\ \A a, b \in S : a # b => <<a, b>> \in R \/ <<b, a>> \in R
        /\ \A a, b, c \in S : <<a, b>> \in R /\ <<b, c>> \in R => <<a, c>> \in R
    BY <1>1, PrecedesOrders
  <2> HIDE DEF R
  <2> QED
    BY <2>1, OrderedListing
<1>3. \A i \in DOMAIN s : s[i] \in S
  BY ListingIsComplete
<1>4. \A i, j \in DOMAIN s : i < j => Precedes(lists, s[i], s[j])
  BY <1>1, <1>2, <1>3
<1> QED
  BY <1>4 DEF Ranking
(* A row that one list ranks higher and none lower has the higher score.    *)
LEMMA AgreementPrecedes ==
    ASSUME NEW lists, RankedLists(lists), NEW a \in FusedRows(lists), NEW b \in FusedRows(lists),
           \A m \in Contributors(lists, b) :
              m \in Contributors(lists, a) /\ RankIn(lists[m], a) <= RankIn(lists[m], b),
           \E m \in Contributors(lists, a) :
              m \in Contributors(lists, b) => RankIn(lists[m], a) < RankIn(lists[m], b)
    PROVE  Precedes(lists, a, b)
<1> DEFINE d(row, m) == RRF_K + RankIn(lists[m], row)
<1>1. /\ \A m \in Contributors(lists, a) : d(a, m) \in Nat \ {0}
      /\ \A m \in Contributors(lists, b) : d(b, m) \in Nat \ {0} /\ d(a, m) \in Nat \ {0}
                                           /\ d(a, m) <= d(b, m)
  <2>1. /\ \A m \in Contributors(lists, a) : RankIn(lists[m], a) \in Nat \ {0}
        /\ \A m \in Contributors(lists, b) : RankIn(lists[m], b) \in Nat \ {0}
    BY ContributorsType
  <2> QED
    BY <2>1 DEF RRF_K
<1>2. PICK m \in Contributors(lists, a) : m \in Contributors(lists, b) => d(a, m) < d(b, m)
  <2>1. PICK m \in Contributors(lists, a) :
          m \in Contributors(lists, b) => RankIn(lists[m], a) < RankIn(lists[m], b)
    OBVIOUS
  <2>2. /\ RankIn(lists[m], a) \in Nat \ {0}
        /\ m \in Contributors(lists, b) => RankIn(lists[m], b) \in Nat \ {0}
    BY ContributorsType
  <2> QED
    BY <2>1, <2>2 DEF RRF_K
<1>3. \A row \in FusedRows(lists), p, q \in {"fts", "vector"} :
        Contributors(lists, row) = {p, q} =>
          Score(lists, row) = IF p = q THEN <<1, d(row, p)>>
                              ELSE <<d(row, p) + d(row, q), d(row, p) * d(row, q)>>
  <2> TAKE row \in FusedRows(lists)
  <2>1. \A p, q : Contributors(lists, row) = {p, q} =>
          Score(lists, row) = IF p = q THEN <<1, RRF_K + RankIn(lists[p], row)>>
                          ELSE <<(RRF_K + RankIn(lists[p], row)) + (RRF_K + RankIn(lists[q], row)),
                                 (RRF_K + RankIn(lists[p], row)) * (RRF_K + RankIn(lists[q], row))>>
    <3> TAKE p, q
    <3> HAVE Contributors(lists, row) = {p, q}
    <3>1. RankIn(lists[p], row) \in Nat /\ RankIn(lists[q], row) \in Nat
      BY ContributorsType
    <3> QED
      BY <3>1, FoldOfPair, Zenon
  <2> QED
    BY <2>1, Zenon
<1>4. Contributors(lists, b) # {} /\ Contributors(lists, b) \subseteq Contributors(lists, a)
      /\ Contributors(lists, a) \subseteq {"fts", "vector"}
  BY ContributorsType
<1> HIDE DEF d
<1>5. Score(lists, a)[1] * Score(lists, b)[2] > Score(lists, b)[1] * Score(lists, a)[2]
  <2>1. CASE Contributors(lists, a) = {m}
    <3>1. Contributors(lists, b) = {m}
      BY <1>4, <2>1
    <3>2. /\ Score(lists, a) = <<1, d(a, m)>> /\ Score(lists, b) = <<1, d(b, m)>>
      BY <1>3, <1>4, <2>1, <3>1
    <3>3. d(a, m) < d(b, m) /\ d(a, m) \in Nat /\ d(b, m) \in Nat
      BY <1>1, <1>2, <3>1
    <3> QED
      BY <3>2, <3>3
  <2>2. ASSUME NEW n \in Contributors(lists, a), n # m
        PROVE  Score(lists, a)[1] * Score(lists, b)[2] > Score(lists, b)[1] * Score(lists, a)[2]
    <3>1. Contributors(lists, a) = {m, n}
      BY <1>4, <2>2
    <3> DEFINE x == d(a, m)
               y == d(a, n)
               u == d(b, m)
               v == d(b, n)
    <3>2. Score(lists, a) = <<x + y, x * y>>
      BY <1>3, <1>4, <2>2, <3>1
    <3>3. x \in Nat \ {0} /\ y \in Nat \ {0}
      BY <1>1
    <3>4. CASE Contributors(lists, b) = {m, n}
      <4>1. Score(lists, b) = <<u + v, u * v>>
        BY <1>3, <1>4, <2>2, <3>4
      <4>2. u \in Nat \ {0} /\ v \in Nat \ {0} /\ x < u /\ y <= v
        BY <1>1, <1>2, <3>4
      <4> HIDE DEF x, y, u, v
      <4>3. x * u * v >= x * u * y /\ y * u * v > y * x * v
        BY ONLY <3>3, <4>2
      <4>4. (x + y) * (u * v) = x * u * v + y * u * v
        BY ONLY <3>3, <4>2
      <4>5. (u + v) * (x * y) = x * u * y + y * x * v
        BY ONLY <3>3, <4>2
      <4>6. /\ x * u * v \in Nat /\ x * u * y \in Nat /\ y * u * v \in Nat /\ y * x * v \in Nat
        BY ONLY <3>3, <4>2
      <4>7. (x + y) * (u * v) > (u + v) * (x * y)
        BY ONLY <4>3, <4>4, <4>5, <4>6
      <4> QED
        BY <3>2, <4>1, <4>7
    <3>5. CASE Contributors(lists, b) = {m}
      <4>1. Score(lists, b) = <<1, u>>
        BY <1>3, <1>4, <3>5
      <4>2. u \in Nat \ {0} /\ x <= u
        BY <1>1, <3>5
      <4> HIDE DEF x, y, u, v
      <4>3. (x + y) * u > 1 * (x * y)
        <5>1. y * u >= y * x /\ x * u > 0
          BY ONLY <3>3, <4>2
        <5>2. (x + y) * u = x * u + y * u /\ 1 * (x * y) = y * x
          BY ONLY <3>3, <4>2
        <5>3. x * u \in Nat /\ y * u \in Nat /\ y * x \in Nat
          BY ONLY <3>3, <4>2
        <5> QED
          BY ONLY <5>1, <5>2, <5>3
      <4> QED
        BY <3>2, <4>1, <4>3
    <3>6. CASE Contributors(lists, b) = {n}
      <4>1. Score(lists, b) = <<1, v>>
        BY <1>3, <1>4, <3>6
      <4>2. v \in Nat \ {0} /\ y <= v
        BY <1>1, <3>6
      <4> HIDE DEF x, y, u, v
      <4>3. (x + y) * v > 1 * (x * y)
        <5>1. x * v >= x * y /\ y * v > 0
          BY ONLY <3>3, <4>2
        <5>2. (x + y) * v = x * v + y * v /\ 1 * (x * y) = x * y
          BY ONLY <3>3, <4>2
        <5>3. x * v \in Nat /\ y * v \in Nat /\ x * y \in Nat
          BY ONLY <3>3, <4>2
        <5> QED
          BY ONLY <5>1, <5>2, <5>3
      <4> QED
        BY <3>2, <4>1, <4>3
    <3> QED
      BY <1>4, <3>1, <3>4, <3>5, <3>6
  <2> QED
    BY <2>1, <2>2
<1> QED
  BY <1>5 DEF Precedes

-----------------------------------------------------------------------------
(* What a search shows                                                      *)

(* A method is recorded as complete only with the source it was crawled     *)
(* from.                                                                    *)
CompleteHasSource ==
    \A l \in Labels : meta[l] # NULL =>
        /\ meta[l].vectorComplete => meta[l].vectorSource # NULL
        /\ meta[l].ftsComplete => meta[l].ftsSource # NULL

(* What a search that was accepted has asked for.                           *)
ChoiceInv == Accepted => Active \subseteq ReadSelection(metadata)

(* The table is open.                                                       *)
Opened == spc \in {"fts", "vector", "hydrate"} \/ outcome = "rendered"

AnswersInv ==
    /\ view.rows \subseteq Rows /\ view.vectors \subseteq Rows
    /\ Accepted => DOMAIN answers \subseteq Active
    /\ \A m \in DOMAIN answers : answers[m] \in Seq(Rows)
    /\ spc = "vector" => DOMAIN answers \subseteq {"fts"}
    /\ spc = "hydrate" => DOMAIN answers # {}

(* What was printed is what became of the candidates.                       *)
RenderedInv ==
    outcome = "rendered" =>
        \/ fused = <<>> /\ output = <<>>
        \/ /\ DOMAIN answers # {}
           /\ fused = CandidateRanking
           /\ output = HydrateRankedHits(fused, view.rows, ask.limit)

(* Beside no command the catalog stays what the search has read of it.      *)
UndisturbedInv ==
    ~disturbed =>
        /\ Accepted => phase = "idle" /\ metadata # NULL /\ meta[ask.label] = metadata
        /\ Opened => view = CurrentView
        /\ Opened /\ "fts" \in DOMAIN answers => Range(answers["fts"]) \subseteq ftsDocs[ask.label]
        /\ Opened /\ "vector" \in DOMAIN answers => Range(answers["vector"]) \subseteq view.rows

(* A method whose list is not full has returned all it could.               *)
MatchedInv ==
    /\ spc \in {"idle", "open", "fts"} => matched = {}
    /\ (\A m \in DOMAIN answers : Len(answers[m]) < CandidateLimit) =>
          matched \subseteq FusedRows(answers)

ResultsInv == ChoiceInv /\ AnswersInv /\ RenderedInv /\ UndisturbedInv /\ MatchedInv

LEMMA CompleteHasSourceStep ==
    ASSUME TypeInv, CrawlInv, CompleteHasSource, [Next]_vars
    PROVE  CompleteHasSource'
<1> SUFFICES ASSUME NEW l \in Labels, meta'[l] # NULL
             PROVE  /\ meta'[l].vectorComplete => meta'[l].vectorSource # NULL
                    /\ meta'[l].ftsComplete => meta'[l].ftsSource # NULL
  BY DEF CompleteHasSource
<1> USE DEF TypeInv, TypeOK
<1>1. ASSUME NEW k \in Labels, NEW c \in Commits, NEW sel \in Selections,
             StartCrawl(k, c, sel)
      PROVE  /\ meta'[l].vectorComplete => meta'[l].vectorSource # NULL
             /\ meta'[l].ftsComplete => meta'[l].ftsSource # NULL
  BY <1>1 DEF StartCrawl, Unfinished, CompleteHasSource
<1>2. ASSUME Finalize
      PROVE  /\ meta'[l].vectorComplete => meta'[l].vectorSource # NULL
             /\ meta'[l].ftsComplete => meta'[l].ftsSource # NULL
  <2>1. job.source \in Commits /\ job.label \in Labels /\ succeeded \subseteq job.selection
    BY <1>2 DEF Finalize, CrawlInv, CrawlPhases
  <2> QED
    BY <1>2, <2>1, ConstantsAssumption
       DEF Finalize, Unfinished, CompleteHasSource, MethodComplete
<1>3. ASSUME PurgeLabels
      PROVE  /\ meta'[l].vectorComplete => meta'[l].vectorSource # NULL
             /\ meta'[l].ftsComplete => meta'[l].ftsSource # NULL
  BY <1>3 DEF PurgeLabels
<1> QED
  BY <1>1, <1>2, <1>3, StoreEdits DEF CompleteHasSource

(* Where the hydration stops.                                               *)
LEMMA HydratedItems ==
    ASSUME NEW X, NEW candidates \in Seq(X), NEW visible, NEW limit \in Nat,
           NEW items, items = HydrateRankedHits(candidates, visible, limit)
    PROVE  /\ DOMAIN items \subseteq DOMAIN candidates
           /\ \A i \in DOMAIN items :
                 items[i] = <<IF candidates[i] \in visible THEN "result" ELSE "stale", candidates[i]>>
           /\ Cardinality(ResultsIn(items)) < limit => DOMAIN items = DOMAIN candidates
<1> DEFINE ResultsUpTo(n) == {i \in 1 .. n : candidates[i] \in visible}
           stops == {i \in DOMAIN candidates : Cardinality(ResultsUpTo(i)) >= limit}
                    \cup {Len(candidates)}
           stop == Min(stops)
           out == [i \in 1 .. stop |->
                     <<IF candidates[i] \in visible THEN "result" ELSE "stale", candidates[i]>>]
<1>1. items = out
  BY DEF HydrateRankedHits
<1>2. Len(candidates) \in Nat /\ DOMAIN candidates = 1 .. Len(candidates)
  OBVIOUS
<1>3. stop \in stops /\ \A y \in stops : stop <= y
  <2>1. stops \in SUBSET Nat /\ stops # {}
    BY <1>2
  <2> HIDE DEF stops
  <2> QED
    BY <2>1, LeastNatural
<1>4. stop \in Nat /\ stop <= Len(candidates)
  BY <1>2, <1>3
<1>5. DOMAIN items = 1 .. stop
      /\ \A i \in DOMAIN items :
            items[i] = <<IF candidates[i] \in visible THEN "result" ELSE "stale", candidates[i]>>
  <2> HIDE DEF stop
  <2> QED
    BY <1>1
<1> HIDE DEF out, stop, stops
<1>6. ResultsIn(items) = ResultsUpTo(stop)
  BY <1>5 DEF ResultsIn
<1>7. Cardinality(ResultsIn(items)) < limit => stop = Len(candidates)
  <2> SUFFICES ASSUME Cardinality(ResultsUpTo(stop)) < limit, stop # Len(candidates)
               PROVE  FALSE
    BY <1>6
  <2>1. Cardinality(ResultsUpTo(stop)) >= limit
    BY <1>3 DEF stops
  <2>2. Cardinality(ResultsUpTo(stop)) \in Nat
    <3>1. IsFiniteSet(1 .. stop)
      <4>1. 1 \in Int /\ stop \in Int
        BY <1>4
      <4> QED
        BY <4>1, FS_Interval
    <3>2. ResultsUpTo(stop) \in SUBSET (1 .. stop)
      OBVIOUS
    <3> QED
      BY <3>1, <3>2, FS_Subset, FS_CardinalityType
  <2> HIDE DEF ResultsUpTo
  <2> QED
    BY <2>1, <2>2
<1>8. DOMAIN items \subseteq DOMAIN candidates
  <2>1. stop \in Nat /\ Len(candidates) \in Nat /\ stop <= Len(candidates)
    BY <1>2, <1>4
  <2>2. 1 .. stop \subseteq 1 .. Len(candidates)
    BY ONLY <2>1
  <2> QED
    BY ONLY <1>2, <1>5, <2>2
<1>9. Cardinality(ResultsIn(items)) < limit => DOMAIN items = DOMAIN candidates
  BY ONLY <1>2, <1>5, <1>7
<1> QED
  BY ONLY <1>5, <1>8, <1>9

LEMMA FiniteRows == IsFiniteSet(Rows)
<1>1. \A f \in Files : IsFiniteSet(RowsOf(f))
  <2> TAKE f \in Files
  <2>1. IsFiniteSet(1 .. ChunkCount[f])
    <3>1. 1 \in Int /\ ChunkCount[f] \in Int
      BY ConstantsAssumption
    <3> QED
      BY <3>1, FS_Interval
  <2> DEFINE row == [i \in 1 .. ChunkCount[f] |-> <<f, i>>]
  <2>2. row \in Surjection(1 .. ChunkCount[f], RowsOf(f))
    BY DEF Surjection, RowsOf
  <2> QED
    BY <2>1, <2>2, FS_Surjection
<1> DEFINE rowsOf == [f \in Files |-> RowsOf(f)]
           Groups == {RowsOf(f) : f \in Files}
<1>2. rowsOf \in Surjection(Files, Groups)
  BY DEF Surjection
<1>3. IsFiniteSet(Groups)
  BY <1>2, RowsAssumption, FS_Surjection
<1> QED
  BY <1>1, <1>3, FS_UNION DEF Rows

LEMMA LimitTypes ==
    ASSUME ask.limit \in Limits
    PROVE  CandidateLimit \in Nat /\ CandidateLimit >= ask.limit /\ ask.limit \in Nat \ {0}
<1>1. ask.limit \in Nat \ {0} /\ CandidateFloor \in Nat
  BY LimitsAssumption
<1> DEFINE a == ask.limit
<1>2. \E x \in {a, CandidateFloor} : \A y \in {a, CandidateFloor} : x >= y
  <2> HIDE DEF a
  <2> QED
    BY <1>1 DEF a
<1> QED
  BY <1>1, <1>2 DEF CandidateLimit, Max

(* A ranking cut at the window.                                             *)
LEMMA TruncatedType ==
    ASSUME NEW X, NEW s \in Seq(X), NEW n \in Nat
    PROVE  /\ Truncate(s, n) \in Seq(X)
           /\ Len(Truncate(s, n)) = IF n < Len(s) THEN n ELSE Len(s)
           /\ \A i \in DOMAIN Truncate(s, n) : i \in DOMAIN s /\ Truncate(s, n)[i] = s[i]
<1>1. Min({n, Len(s)}) = IF n < Len(s) THEN n ELSE Len(s)
  BY DEF Min
<1> DEFINE k == IF n < Len(s) THEN n ELSE Len(s)
<1>2. k \in 0 .. Len(s) /\ Truncate(s, n) = SubSeq(s, 1, k)
  <2>1. Len(s) \in Nat
    OBVIOUS
  <2>2. Truncate(s, n) = SubSeq(s, 1, k)
    BY <1>1, Zenon DEF Truncate
  <2>3. k \in 0 .. Len(s)
    BY <2>1
  <2> QED
    BY <2>2, <2>3
<1> HIDE DEF k
<1>3. /\ SubSeq(s, 1, k) \in Seq(X) /\ Len(SubSeq(s, 1, k)) = k
      /\ \A i \in 1 .. k : i \in DOMAIN s /\ SubSeq(s, 1, k)[i] = s[i]
  BY <1>2
<1> QED
  BY <1>2, <1>3 DEF k

LEMMA ResultsInvStep ==
    ASSUME TypeInv, SearchInv, ResultsInv, [SearchNext]_allVars
    PROVE  ResultsInv'
<1> USE DEF ResultsInv, SearchInv, DecisionInv, Accepted, Opened
<1>1. ASSUME NEW l \in Labels, NEW requested \in SUBSET Methods, NEW limit \in Limits,
             ReadMetadata(l, requested, limit)
      PROVE  ResultsInv'
  <2>1. /\ spc = "idle" /\ outcome = "none" /\ answers = <<>> /\ fused = <<>> /\ output = <<>>
        /\ ask' = [label |-> l, requested |-> requested, limit |-> limit]
        /\ disturbed' = (phase # "idle")
        /\ UNCHANGED <<vars, view, answers, fused, output, matched>>
    BY <1>1 DEF ReadMetadata
  <2>2. DOMAIN answers' = {} /\ matched' = {}
    BY <2>1 DEF MatchedInv
  <2>3. AnswersInv' /\ MatchedInv'
    <3>1. spc' \in {"open", "done"}
      BY <1>1 DEF ReadMetadata, Finish
    <3> QED
      BY <2>1, <2>2, <3>1 DEF AnswersInv, MatchedInv
  <2>4. CASE spc' = "done"
    <3>1. outcome' # "rendered"
      BY <1>1, <2>1, <2>4 DEF ReadMetadata, Finish, Refusal
    <3> QED
      BY <2>3, <2>4, <3>1 DEF ChoiceInv, RenderedInv, UndisturbedInv
  <2>5. CASE spc' # "done"
    <3>1. /\ meta[l] # NULL /\ metadata' = meta[l] /\ Refusal(meta[l], requested) = "none"
          /\ spc' = "open" /\ outcome' = outcome
      BY <1>1, <2>5 DEF ReadMetadata, Finish
    <3>2. ActiveSubset(meta[l], requested) \subseteq ReadSelection(meta[l])
      BY <3>1 DEF Refusal, ActiveSubset, Candidates
    <3>3. ChoiceInv'
      BY <2>1, <3>1, <3>2 DEF ChoiceInv, Active
    <3>4. RenderedInv' /\ UndisturbedInv'
      BY <2>1, <3>1 DEF RenderedInv, UndisturbedInv, vars, stores
    <3> QED
      BY <2>3, <3>3, <3>4
  <2> QED
    BY <2>4, <2>5
<1>2. CASE OpenChunks
  <2>1. /\ spc = "open" /\ spc' \in {"fts", "vector"} /\ outcome' = outcome /\ outcome = "none"
        /\ view' = CurrentView /\ answers = <<>>
        /\ UNCHANGED <<vars, ask, metadata, answers, disturbed, matched>>
    BY <1>2 DEF OpenChunks, history
  <2>2. CurrentView' = CurrentView /\ DOMAIN answers' = {} /\ Active' = Active
    BY <2>1 DEF CurrentView, LabelRows, Active, vars, stores
  <2>3. CurrentView.rows \subseteq Rows /\ CurrentView.vectors \subseteq Rows
    BY DEF CurrentView, LabelRows, TypeInv, TypeOK
  <2>4. ChoiceInv'
    BY <2>1, <2>2 DEF ChoiceInv
  <2>5. AnswersInv'
    BY <2>1, <2>2, <2>3 DEF AnswersInv
  <2>6. RenderedInv' /\ UndisturbedInv' /\ MatchedInv'
    BY <2>1, <2>2 DEF RenderedInv, UndisturbedInv, MatchedInv, vars, stores
  <2> QED
    BY <2>4, <2>5, <2>6
<1>3. CASE CollectFts
  <2>1. PICK hits \in RankedRows(ftsDocs[ask.label], CandidateLimit) :
          /\ answers' = [method \in {"fts"} |-> hits]
          /\ matched' = IF Len(hits) < CandidateLimit THEN Range(hits) ELSE ftsDocs[ask.label]
    BY <1>3 DEF CollectFts
  <2>2. /\ spc = "fts" /\ spc' \in {"vector", "hydrate"} /\ outcome' = outcome /\ outcome = "none"
        /\ UNCHANGED <<vars, ask, metadata, view, disturbed>>
    BY <1>3 DEF CollectFts, AfterFts
  <2>3. ftsDocs[ask.label] \subseteq Rows
    BY <2>2 DEF TypeInv, TypeOK
  <2>4. hits \in Seq(ftsDocs[ask.label]) /\ hits \in Seq(Rows) /\ Range(hits) \subseteq ftsDocs[ask.label]
    <3>1. PICK k \in 0 .. CandidateLimit : hits \in [1 .. k -> ftsDocs[ask.label]]
      BY <2>1 DEF RankedRows
    <3>2. k \in Nat
      BY <2>2, LimitTypes
    <3> QED
      BY <2>3, <3>1, <3>2 DEF Range
  <2>5. CurrentView' = CurrentView /\ Active' = Active /\ CandidateLimit' = CandidateLimit
        /\ DOMAIN answers' = {"fts"} /\ answers'["fts"] = hits
    BY <2>1, <2>2 DEF CurrentView, LabelRows, Active, CandidateLimit, vars, stores
  <2>6. ChoiceInv' /\ RenderedInv'
    BY <2>2, <2>5 DEF ChoiceInv, RenderedInv
  <2>7. AnswersInv'
    BY <2>2, <2>4, <2>5 DEF AnswersInv
  <2>8. UndisturbedInv'
    BY <2>2, <2>4, <2>5 DEF UndisturbedInv, vars, stores
  <2>9. MatchedInv'
    BY <2>1, <2>2, <2>5 DEF MatchedInv, FusedRows
  <2> QED
    BY <2>6, <2>7, <2>8, <2>9
<1>4. ASSUME NEW w, WithoutFts(w), spc = "fts" PROVE ResultsInv'
  <2>1. /\ UNCHANGED <<vars, ask, metadata, view, answers, fused, output, history>>
        /\ \/ spc' = "vector" /\ outcome' = outcome
           \/ spc' = "done" /\ outcome' = "rendered"
        /\ answers = <<>> /\ fused = <<>> /\ output = <<>> /\ outcome = "none"
    BY <1>4 DEF WithoutFts, Finish
  <2>2. CurrentView' = CurrentView /\ Active' = Active /\ CandidateLimit' = CandidateLimit
        /\ DOMAIN answers' = {} /\ FusedRows(answers)' = FusedRows(answers)
    BY <2>1 DEF CurrentView, LabelRows, Active, CandidateLimit, vars, stores
  <2>3. ChoiceInv' /\ RenderedInv'
    BY <1>4, <2>1, <2>2 DEF ChoiceInv, RenderedInv
  <2>4. AnswersInv'
    BY <1>4, <2>1, <2>2 DEF AnswersInv
  <2>5. UndisturbedInv'
    BY <1>4, <2>1, <2>2 DEF UndisturbedInv, vars, stores, history
  <2>6. MatchedInv'
    BY <1>4, <2>1, <2>2 DEF MatchedInv, history
  <2> QED
    BY <2>3, <2>4, <2>5, <2>6
<1>5. CASE FtsNoIndex \/ FtsStale
  BY <1>4, <1>5 DEF FtsNoIndex, FtsStale
<1>6. CASE FtsParseError \/ VectorFails
  <2>1. /\ spc' = "done" /\ outcome' \notin {"rendered"}
        /\ UNCHANGED <<vars, ask, metadata, view, answers, fused, output, history>>
    BY <1>6 DEF FtsParseError, VectorFails, Finish
  <2>2. CandidateLimit' = CandidateLimit /\ FusedRows(answers)' = FusedRows(answers)
    BY <2>1 DEF CandidateLimit
  <2> QED
    BY <2>1, <2>2 DEF ChoiceInv, AnswersInv, RenderedInv, UndisturbedInv, MatchedInv, history
<1>7. CASE CollectVector
  <2>1. PICK hits \in SetToSeqs(view'.vectors) :
          answers' = [method \in DOMAIN answers \cup {"vector"} |->
                         IF method = "vector" THEN Truncate(hits, CandidateLimit)
                         ELSE answers[method]]
    BY <1>7 DEF CollectVector
  <2>2. /\ spc = "vector" /\ spc' = "hydrate" /\ outcome' = outcome /\ outcome = "none"
        /\ view' \in {view, CurrentView} /\ matched' = matched \cup view'.vectors
        /\ UNCHANGED <<vars, ask, metadata, disturbed>>
    BY <1>7 DEF CollectVector, Refreshed
  <2>3. view'.rows \subseteq Rows /\ view'.vectors \subseteq Rows
    BY <2>2 DEF AnswersInv, CurrentView, LabelRows, TypeInv, TypeOK
  <2>4. /\ hits \in Seq(view'.vectors) /\ Range(hits) = view'.vectors
        /\ Len(hits) \in Nat /\ DOMAIN hits = 1 .. Len(hits)
    <3>1. IsFiniteSet(view'.vectors)
      BY <2>3, FiniteRows, FS_Subset
    <3>2. Cardinality(view'.vectors) \in Nat
      BY <3>1, FS_CardinalityType
    <3> QED
      BY <3>1, <3>2, ListingIsComplete
  <2> DEFINE list == Truncate(hits, CandidateLimit)
  <2>5. CandidateLimit \in Nat
    BY <2>2, LimitTypes
  <2>6. /\ list \in Seq(view'.vectors) /\ Range(list) \subseteq view'.vectors
        /\ Len(list) < CandidateLimit => Range(list) = view'.vectors
    <3>1. /\ list \in Seq(view'.vectors)
          /\ Len(list) = IF CandidateLimit < Len(hits) THEN CandidateLimit ELSE Len(hits)
          /\ \A i \in DOMAIN list : i \in DOMAIN hits /\ list[i] = hits[i]
      BY <2>4, <2>5, TruncatedType
    <3> HIDE DEF list
    <3>2. DOMAIN list = 1 .. Len(list)
      BY <3>1
    <3>3. Len(list) < CandidateLimit => Len(list) = Len(hits)
      BY <2>4, <2>5, <3>1
    <3> QED
      BY <2>4, <3>1, <3>2, <3>3 DEF Range
  <2>7. /\ CurrentView' = CurrentView /\ Active' = Active /\ CandidateLimit' = CandidateLimit
        /\ DOMAIN answers' = DOMAIN answers \cup {"vector"} /\ answers'["vector"] = list
        /\ DOMAIN answers \subseteq {"fts"}
        /\ \A m \in DOMAIN answers : answers'[m] = answers[m]
    BY <2>1, <2>2 DEF CurrentView, LabelRows, Active, CandidateLimit, vars, stores, AnswersInv
  <2> HIDE DEF list
  <2>8. ChoiceInv' /\ RenderedInv'
    BY <2>2, <2>7 DEF ChoiceInv, RenderedInv
  <2>9. AnswersInv'
    <3>1. list \in Seq(Rows)
      BY <2>3, <2>6
    <3> QED
      BY <2>2, <2>3, <2>7, <3>1 DEF AnswersInv
  <2>10. UndisturbedInv'
    <3> SUFFICES ASSUME ~disturbed PROVE UndisturbedInv'
      BY <2>2 DEF UndisturbedInv
    <3>1. view = CurrentView /\ view' = view
      BY <2>2 DEF UndisturbedInv
    <3>2. CurrentView.vectors \subseteq CurrentView.rows
      BY DEF CurrentView
    <3>3. Range(answers'["vector"]) \subseteq view'.rows
      BY <2>6, <2>7, <3>1, <3>2
    <3> QED
      BY <2>2, <2>7, <3>1, <3>3 DEF UndisturbedInv, vars, stores
  <2>11. MatchedInv'
    <3> SUFFICES ASSUME \A m \in DOMAIN answers' : Len(answers'[m]) < CandidateLimit
                 PROVE  matched' \subseteq FusedRows(answers')
      BY <2>2, <2>7 DEF MatchedInv
    <3>1. matched \subseteq FusedRows(answers)
      BY <2>7 DEF MatchedInv
    <3>2. FusedRows(answers) \subseteq FusedRows(answers')
      BY <2>7 DEF FusedRows
    <3>3. view'.vectors \subseteq FusedRows(answers')
      BY <2>6, <2>7 DEF FusedRows
    <3> QED
      BY <2>2, <3>1, <3>2, <3>3
  <2> QED
    BY <2>8, <2>9, <2>10, <2>11
<1>8. CASE HydrateAndRender
  <2>1. /\ spc = "hydrate" /\ spc' = "done" /\ outcome' = "rendered"
        /\ view' \in {view, CurrentView}
        /\ fused' = CandidateRanking
        /\ output' = HydrateRankedHits(fused', view'.rows, ask.limit)
        /\ UNCHANGED <<vars, ask, metadata, answers, history>>
    BY <1>8 DEF HydrateAndRender, Finish, Refreshed
  <2>2. /\ CurrentView' = CurrentView /\ Active' = Active /\ CandidateLimit' = CandidateLimit
        /\ CandidateRanking' = CandidateRanking /\ FusedRows(answers)' = FusedRows(answers)
        /\ DOMAIN answers # {}
    BY <2>1 DEF CurrentView, LabelRows, Active, CandidateLimit, CandidateRanking, IsHybrid,
                vars, stores, AnswersInv
  <2>3. CurrentView.rows \subseteq Rows /\ CurrentView.vectors \subseteq Rows
    BY DEF CurrentView, LabelRows, TypeInv, TypeOK
  <2>4. ChoiceInv' /\ RenderedInv' /\ AnswersInv'
    BY <2>1, <2>2, <2>3 DEF ChoiceInv, RenderedInv, AnswersInv
  <2>5. UndisturbedInv'
    BY <2>1, <2>2 DEF UndisturbedInv, vars, stores, history
  <2>6. MatchedInv'
    BY <2>1, <2>2 DEF MatchedInv, history
  <2> QED
    BY <2>4, <2>5, <2>6
<1>9. CASE CatalogStep \/ UNCHANGED allVars
  <2>1. UNCHANGED <<search, matched>>
    BY <1>9 DEF CatalogStep, allVars, history
  <2>2. /\ Active' = Active /\ CandidateLimit' = CandidateLimit
        /\ CandidateRanking' = CandidateRanking /\ FusedRows(answers)' = FusedRows(answers)
    BY <2>1 DEF Active, CandidateLimit, CandidateRanking, IsHybrid, search
  <2>3. ChoiceInv' /\ RenderedInv' /\ AnswersInv' /\ MatchedInv'
    BY <2>1, <2>2 DEF ChoiceInv, RenderedInv, AnswersInv, MatchedInv, search
  <2>4. UndisturbedInv'
    <3>1. CASE CatalogStep
      BY <2>1, <3>1 DEF UndisturbedInv, CatalogStep, search
    <3>2. CASE UNCHANGED allVars
      BY <3>2 DEF UndisturbedInv, allVars, search, history, vars, stores, CurrentView, LabelRows
    <3> QED
      BY <1>9, <3>1, <3>2
  <2> QED
    BY <2>3, <2>4
<1> QED
  BY <1>1, <1>2, <1>3, <1>5, <1>6, <1>7, <1>8, <1>9 DEF SearchNext, SearchStep

LEMMA ResultsInvInit == SearchInit => ResultsInv
<1>1. SearchInit => /\ spc = "idle" /\ outcome = "none" /\ DOMAIN answers = {} /\ matched = {}
                    /\ view = [rows |-> {}, vectors |-> {}]
  BY DEF SearchInit
<1> QED
  BY <1>1 DEF ResultsInv, ChoiceInv, AnswersInv, RenderedInv, UndisturbedInv, MatchedInv,
              Accepted, Opened

LEMMA ResultsInvariant == SearchSpec => []ResultsInv
BY CatalogBesideSearch, SearchInvariant, ResultsInvInit, ResultsInvStep, PTL DEF SearchSpec

(* The catalog of the metadata beside a search.                             *)
SourcesInv == PurgeInv /\ SourcesAligned /\ CompleteHasSource

LEMMA SourcesInvariant == SearchSpec => []SourcesInv
<1>1. Init => SourcesInv
  BY InitPurgeInv DEF Init, SourcesInv, SourcesAligned, CompleteHasSource
<1>2. SourcesInv /\ [Next]_vars => SourcesInv'
  BY PurgeInvStep, AlignedStep, CompleteHasSourceStep DEF SourcesInv, PurgeInv, StaleInv
<1> QED
  BY <1>1, <1>2, SearchesOnlyRead, PTL DEF Spec

(* The source of a complete method is the tree of all the rows of the label. *)
LEMMA CompleteMethodNamesItsRows ==
    ASSUME SourcesInv, NEW l \in Labels, meta[l] # NULL, NEW method \in {"fts", "vector"},
           MethodDone(meta[l], method)
    PROVE  LabelRows(l) \subseteq TreeRows(MethodSource(meta[l], method))
<1> DEFINE c == MethodSource(meta[l], method)
<1>1. TypeInv /\ NoStaleRows /\ meta[l] \in MetaRow
  BY DEF SourcesInv, PurgeInv, StaleInv, TypeInv, TypeOK
<1>2. Published(l) /\ SourceOf(l) = c
  BY DEF SourcesInv, SourcesAligned, CompleteHasSource, Published, SourceOf, MethodSource,
         MethodDone
<1>3. ASSUME NEW r \in LabelRows(l) PROVE r \in TreeRows(c)
  <2>1. r \in Rows /\ r \in RowsOf(FileOf(r))
    BY <1>1 DEF LabelRows, TypeInv, TypeOK, Rows, RowsOf, FileOf
  <2>2. FileOf(r) \in Tree[c]
    BY <1>1, <1>2 DEF NoStaleRows
  <2> QED
    BY <2>1, <2>2 DEF TreeRows
<1> QED
  BY <1>3

(* What the candidates are.                                                 *)
LEMMA AnswersAreLists ==
    ASSUME SearchInv, ResultsInv, outcome = "rendered"
    PROVE  RankedLists(answers) /\ FusedRows(answers) \subseteq Rows
           /\ Active \subseteq {"fts", "vector"}
<1>1. Active \subseteq {"fts", "vector"} /\ DOMAIN answers \subseteq Active
  BY ActiveType DEF SearchInv, DecisionInv, ResultsInv, AnswersInv, Accepted, Active, Methods
<1>2. \A m \in DOMAIN answers : answers[m] \in Seq(Rows)
  BY DEF ResultsInv, AnswersInv
<1>3. FusedRows(answers) \subseteq Rows
  BY <1>2 DEF FusedRows, Range
<1> QED
  BY <1>1, <1>2, <1>3 DEF RankedLists

LEMMA RankedAnswers ==
    ASSUME SearchInv, ResultsInv, outcome = "rendered"
    PROVE  /\ Ranking(answers) \in SetToSeqs(FusedRows(answers))
           /\ \A i, j \in DOMAIN Ranking(answers) :
                 i < j => Precedes(answers, Ranking(answers)[i], Ranking(answers)[j])
           /\ IsFiniteSet(FusedRows(answers))
<1> DEFINE S == FusedRows(answers)
<1>1. RankedLists(answers) /\ S \subseteq Rows
  BY AnswersAreLists
<1>2. IsFiniteSet(S)
  BY <1>1, FiniteRows, FS_Subset
<1>3. /\ \A a, b \in S : RowBefore(a, b) => ~RowBefore(b, a)
      /\ \A a, b \in S : a # b => RowBefore(a, b) \/ RowBefore(b, a)
      /\ \A a, b, c \in S : RowBefore(a, b) /\ RowBefore(b, c) => RowBefore(a, c)
  BY <1>1, RowsAssumption
<1> HIDE DEF S
<1>4. S = FusedRows(answers)
  BY DEF S
<1> QED
  BY <1>1, <1>2, <1>3, <1>4, RankingOrders

LEMMA CandidatesType ==
    ASSUME SearchInv, ResultsInv, outcome = "rendered", DOMAIN answers # {}
    PROVE  /\ CandidateRanking \in Seq(Rows)
           /\ Range(CandidateRanking) \subseteq FusedRows(answers)
           /\ Cardinality(FusedRows(answers)) <= CandidateLimit =>
                 Range(CandidateRanking) = FusedRows(answers)
<1> DEFINE S == FusedRows(answers)
<1>1. S \subseteq Rows /\ DOMAIN answers \subseteq Active /\ Active \subseteq {"fts", "vector"}
  BY AnswersAreLists DEF ResultsInv, AnswersInv, Accepted
<1>2. CASE IsHybrid
  <2> DEFINE s == Ranking(answers)
             n == CandidateLimit
  <2>1. /\ IsFiniteSet(S) /\ s \in SetToSeqs(S)
    BY RankedAnswers
  <2>2. /\ Cardinality(S) \in Nat /\ s \in [1 .. Cardinality(S) -> S] /\ Len(s) = Cardinality(S)
        /\ Range(s) = S
    BY <2>1, FS_CardinalityType, ListingIsComplete
  <2>3. s \in Seq(Rows)
    BY <1>1, <2>2
  <2>4. n \in Nat
    BY LimitTypes DEF SearchInv, DecisionInv, Accepted
  <2>5. CandidateRanking = Truncate(s, n)
    BY <1>2 DEF CandidateRanking, Fuse
  <2> HIDE DEF s, n, S
  <2>6. /\ Truncate(s, n) \in Seq(Rows)
        /\ Len(Truncate(s, n)) = IF n < Len(s) THEN n ELSE Len(s)
        /\ \A i \in DOMAIN Truncate(s, n) : i \in DOMAIN s /\ Truncate(s, n)[i] = s[i]
    BY <2>3, <2>4, TruncatedType
  <2>7. Range(Truncate(s, n)) \subseteq S
    BY <2>2, <2>6 DEF Range
  <2>8. Cardinality(S) <= n => Range(Truncate(s, n)) = S
    <3> SUFFICES ASSUME Cardinality(S) <= n PROVE S \subseteq Range(Truncate(s, n))
      BY <2>7
    <3>1. Len(Truncate(s, n)) = Len(s)
      BY <2>2, <2>4, <2>6
    <3>2. DOMAIN Truncate(s, n) = DOMAIN s
      BY <2>3, <2>6, <3>1
    <3> QED
      BY <2>2, <2>6, <3>2 DEF Range
  <2> QED
    BY <2>5, <2>6, <2>7, <2>8 DEF S, n
<1>3. CASE ~IsHybrid
  <2>1. PICK m : DOMAIN answers = {m}
    <3>1. Active # {"fts", "vector"}
      BY <1>3 DEF IsHybrid, Methods
    <3>2. DOMAIN answers = {"fts"} \/ DOMAIN answers = {"vector"}
      BY <1>1, <3>1
    <3> QED
      BY <3>2
  <2>2. CandidateRanking = answers[m]
    BY <1>3, <2>1 DEF CandidateRanking
  <2>3. FusedRows(answers) = Range(answers[m]) /\ answers[m] \in Seq(Rows)
    BY <2>1 DEF FusedRows, ResultsInv, AnswersInv
  <2> QED
    BY <2>2, <2>3
<1> QED
  BY <1>2, <1>3

(* "End of results" means what it says: every row a method could have       *)
(* returned is on the screen, as a result or in a warning.                  *)
THEOREM SentinelIsTheEnd == SearchSpec => []EndOfResultsIsTheEnd
<1>1. ASSUME SearchInv, ResultsInv, outcome = "rendered", Marker = "sentinel",
             Cardinality(FusedRows(answers)) <= CandidateLimit
      PROVE  matched \subseteq Told
  <2> DEFINE count == Cardinality(ResultsIn(output))
  <2>1. count # 0 /\ count < ask.limit /\ ~Saturated
    BY <1>1 DEF Marker, DecideEndMarker
  <2>2. ask.limit \in Nat /\ CandidateLimit \in Nat
    BY <1>1, LimitTypes DEF SearchInv, DecisionInv, Accepted
  <2>3. \A m \in DOMAIN answers : Len(answers[m]) < CandidateLimit
    <3> TAKE m \in DOMAIN answers
    <3>1. answers[m] \in Seq(Rows)
      BY <1>1 DEF ResultsInv, AnswersInv
    <3>2. Len(answers[m]) \in Nat /\ ~(Len(answers[m]) >= CandidateLimit)
      BY <2>1, <3>1 DEF Saturated
    <3> QED
      BY <2>2, <3>2
  <2>4. matched \subseteq FusedRows(answers)
    BY <1>1, <2>3 DEF ResultsInv, MatchedInv
  <2>5. output # <<>>
    <3>1. ResultsIn(<<>>) = {}
      BY DEF ResultsIn
    <3> QED
      BY <2>1, <3>1, FS_EmptySet
  <2>6. /\ DOMAIN answers # {} /\ fused = CandidateRanking
        /\ output = HydrateRankedHits(fused, view.rows, ask.limit)
    BY <1>1, <2>5 DEF ResultsInv, RenderedInv
  <2>7. fused \in Seq(Rows) /\ Range(fused) = FusedRows(answers)
    BY <1>1, <2>6, CandidatesType
  <2>8. /\ DOMAIN output = DOMAIN fused
        /\ \A i \in DOMAIN output : output[i][2] = fused[i]
    BY <2>1, <2>2, <2>6, <2>7, HydratedItems
  <2>9. Told = Range(fused)
    BY <2>8 DEF Told, Range
  <2> QED
    BY <2>4, <2>7, <2>9
<1>2. SearchInv /\ ResultsInv => EndOfResultsIsTheEnd
  BY <1>1 DEF EndOfResultsIsTheEnd
<1> QED
  BY <1>2, SearchInvariant, ResultsInvariant, PTL

(* A result is a row of the view that the search has fetched.               *)
LEMMA ResultsAreVisible ==
    ASSUME SearchInv, ResultsInv, outcome = "rendered"
    PROVE  /\ \A i \in DOMAIN output : output[i][2] \in FusedRows(answers)
           /\ \A i \in DOMAIN output : output[i][1] = "result" <=> output[i][2] \in view.rows
<1>1. CASE output = <<>>
  BY <1>1
<1>2. CASE output # <<>>
  <2>1. /\ DOMAIN answers # {} /\ fused = CandidateRanking
        /\ output = HydrateRankedHits(fused, view.rows, ask.limit)
    BY <1>2 DEF ResultsInv, RenderedInv
  <2>2. fused \in Seq(Rows) /\ Range(fused) \subseteq FusedRows(answers)
    BY <2>1, CandidatesType
  <2>3. ask.limit \in Nat
    BY LimitTypes DEF SearchInv, DecisionInv, Accepted
  <2>4. /\ DOMAIN output \subseteq DOMAIN fused
        /\ \A i \in DOMAIN output :
             output[i] = <<IF fused[i] \in view.rows THEN "result" ELSE "stale", fused[i]>>
    BY <2>1, <2>2, <2>3, HydratedItems
  <2> QED
    BY <2>2, <2>4 DEF Range
<1> QED
  BY <1>1, <1>2

(* A search beside no command that prints no warning shows rows of the tree *)
(* its metadata names and skips none.                                       *)
THEOREM UndisturbedSearchesAreCurrent == SearchSpec => []UndisturbedSearchIsCurrent
<1>1. ASSUME SearchInv, ResultsInv, SourcesInv, outcome = "rendered", warnings = {}, ~disturbed
      PROVE  /\ Told = Shown \/ view.rows = {}
             /\ \A method \in Active : Shown \subseteq TreeRows(MethodSource(metadata, method))
  <2> DEFINE l == ask.label
  <2>1. /\ l \in Labels /\ metadata \in MetaRow /\ Active # {} /\ Active \subseteq {"fts", "vector"}
        /\ ask.limit \in Limits /\ Active \subseteq ReadSelection(metadata)
        /\ DecisionWarnings(metadata, ask.requested) \subseteq warnings
    BY <1>1, AnswersAreLists DEF SearchInv, DecisionInv, Accepted, ResultsInv, ChoiceInv
  <2>2. \A m \in Active : MethodDone(metadata, m)
    BY <1>1, <2>1, IncompleteIsWarnedOf DEF Active
  <2>3. meta[l] = metadata /\ view = CurrentView /\ CurrentView.rows = LabelRows(l)
    BY <1>1 DEF ResultsInv, UndisturbedInv, Accepted, Opened, CurrentView
  <2>4. meta[l] # NULL
    BY <1>1, <2>3 DEF ResultsInv, UndisturbedInv, Accepted
  <2>5. FusedRows(answers) \subseteq view.rows \/ view.rows = {}
    <3>1. DOMAIN answers \subseteq Active
      BY <1>1 DEF ResultsInv, AnswersInv, Accepted
    <3>2. "vector" \in DOMAIN answers => Range(answers["vector"]) \subseteq view.rows
      BY <1>1 DEF ResultsInv, UndisturbedInv, Opened
    <3>3. "fts" \in DOMAIN answers =>
            Range(answers["fts"]) \subseteq view.rows \/ view.rows = {}
      <4> SUFFICES ASSUME "fts" \in DOMAIN answers
                   PROVE  Range(answers["fts"]) \subseteq view.rows \/ view.rows = {}
        OBVIOUS
      <4>1. metadata.ftsComplete
        BY <2>2, <3>1 DEF MethodDone
      <4>2. ftsDocs[l] = LabelRows(l) \ ZeroToken \/ LabelRows(l) = {}
        BY <1>1, <2>1, <2>3, <2>4, <4>1 DEF SourcesInv, PurgeInv, FtsOrPurged
      <4>3. Range(answers["fts"]) \subseteq ftsDocs[l]
        BY <1>1 DEF ResultsInv, UndisturbedInv, Opened
      <4> QED
        BY <2>3, <4>2, <4>3
    <3> QED
      BY <2>1, <3>1, <3>2, <3>3 DEF FusedRows
  <2>6. /\ \A i \in DOMAIN output : output[i][2] \in FusedRows(answers)
        /\ \A i \in DOMAIN output : output[i][1] = "result" <=> output[i][2] \in view.rows
    BY <1>1, ResultsAreVisible
  <2>7. Told = Shown \/ view.rows = {}
    <3> SUFFICES ASSUME FusedRows(answers) \subseteq view.rows PROVE Told = Shown
      BY <2>5
    <3>1. \A i \in DOMAIN output : output[i][1] = "result"
      BY <2>6
    <3>2. ResultsIn(output) = DOMAIN output
      BY <3>1 DEF ResultsIn
    <3> QED
      BY <3>2 DEF Told, Shown, Range
  <2>8. Shown \subseteq LabelRows(l)
    BY <2>3, <2>6 DEF Shown, ResultsIn
  <2>9. ASSUME NEW method \in Active
        PROVE  LabelRows(l) \subseteq TreeRows(MethodSource(metadata, method))
    BY <1>1, <2>1, <2>2, <2>3, <2>4, CompleteMethodNamesItsRows
  <2> QED
    BY <2>7, <2>8, <2>9
<1>2. SearchInv /\ ResultsInv /\ SourcesInv => UndisturbedSearchIsCurrent
  BY <1>1 DEF UndisturbedSearchIsCurrent
<1> QED
  BY <1>2, SearchInvariant, ResultsInvariant, SourcesInvariant, PTL

-----------------------------------------------------------------------------
(* What a search shows beside running commands                              *)

(* What a crawl has taken up to label or to store is of its tree.           *)
MemoryWithinTree ==
    phase \in CrawlPhases =>
        /\ addFiles \subseteq existing
        /\ addRows \cup pending \cup queue \subseteq TreeRows(job.source)

LEMMA MemoryWithinTreeStep ==
    ASSUME StaleInv, MemoryWithinTree, [Next]_vars
    PROVE  MemoryWithinTree'
<1> SUFFICES ASSUME phase' \in CrawlPhases PROVE MemoryWithinTree'
  BY DEF MemoryWithinTree
<1> USE DEF StaleInv, MemoryWithinTree, CrawlPhases, EndProcess, TreeRows
<1>1. ASSUME NEW l \in Labels, NEW c \in Commits, NEW sel \in Selections,
             StartCrawl(l, c, sel)
      PROVE  MemoryWithinTree'
  BY <1>1 DEF StartCrawl, TypeInv, LocalsOK, ProcessStart
<1>2. CASE ClassifyFiles
  BY <1>2 DEF ClassifyFiles
<1>3. ASSUME NEW f \in Files, OpenExistingFile(f) PROVE MemoryWithinTree'
  <2>1. f \in Tree[job.source] /\ RowsToLabel(f) \subseteq RowsOf(f)
    BY <1>3, RowsOfFile DEF OpenExistingFile, CrawlInv, RowsToLabel, TypeInv, TypeOK
  <2> QED
    BY <1>3, <2>1 DEF OpenExistingFile
<1>4. CASE ChunkNewFiles
  <2>1. PICK skipped \in SUBSET newFiles : pending' = UNION {RowsOf(f) : f \in newFiles \ skipped}
    BY <1>4 DEF ChunkNewFiles
  <2>2. newFiles \subseteq Tree[job.source]
    BY <1>4 DEF ChunkNewFiles, CrawlInv
  <2>3. pending' \subseteq TreeRows(job.source)
    BY <2>1, <2>2
  <2> QED
    BY <1>4, <2>3 DEF ChunkNewFiles
<1>5. ASSUME NEW S \in SUBSET pending, TakeUpload(S) PROVE MemoryWithinTree'
  BY <1>5 DEF TakeUpload
<1>6. CASE \/ \E f \in Files : OpenExistingFileFails(f)
           \/ \E r \in Rows : AddLabel(r) \/ AddLabelFails(r) \/ EmbedFails(r) \/ CleanRow(r)
           \/ \E B \in SUBSET queue : UpsertBatch(B)
           \/ \E S \in SUBSET marks : MarkComplete(S)
  BY <1>6 DEF OpenExistingFileFails, AddLabel, AddLabelFails, EmbedFails, CleanRow, UpsertBatch,
              MarkComplete
<1>7. CASE \/ UploadFails \/ UploadDone \/ SkipCleanup \/ BeginCleanup \/ CleanupFails
           \/ CleanupDone \/ FtsCommit \/ FtsManifest \/ FtsFails \/ UNCHANGED vars
  BY <1>7 DEF UploadFails, UploadDone, SkipCleanup, BeginCleanup, CleanupFails, CleanupDone,
              FtsCommit, FtsManifest, FtsFails, vars
<1>8. CASE Finalize \/ PurgeChunks \/ PurgeStep \/ Crash
  BY <1>8 DEF Finalize, PurgeChunks, PurgeStep, PurgeLabels, PurgeFtsFolder, PurgeDone, Crash
<1> QED
  BY <1>1, <1>2, <1>3, <1>4, <1>5, <1>6, <1>7, <1>8
     DEF Next, Command, CrawlStep, ErrorStep

(* A label gets rows from its own crawl alone, and of its tree alone.       *)
LEMMA RowsGained ==
    ASSUME StaleInv, MemoryWithinTree, [Next]_vars, NEW l \in Labels
    PROVE  LabelRows(l)' \subseteq LabelRows(l) \cup UNION {TreeRows(c) : c \in CrawledFor(l)'}
<1> USE DEF StaleInv, TypeInv, TypeOK, LabelRows
<1>1. ASSUME phase' = phase, job' = job, phase \in CrawlPhases,
             NEW S \in SUBSET TreeRows(job.source),
             LabelRows(l)' \subseteq LabelRows(l) \cup S,
             job.label = l \/ LabelRows(l)' \subseteq LabelRows(l)
      PROVE  LabelRows(l)' \subseteq LabelRows(l) \cup UNION {TreeRows(c) : c \in CrawledFor(l)'}
  <2>1. job.label = l => CrawledFor(l)' = {job.source}
    BY <1>1 DEF CrawledFor
  <2> QED
    BY <1>1, <2>1 DEF TreeRows
<1>2. ASSUME NEW r \in Rows, AddLabel(r)
      PROVE  LabelRows(l)' \subseteq LabelRows(l) \cup UNION {TreeRows(c) : c \in CrawledFor(l)'}
  <2>1. phase' = phase /\ job' = job /\ phase \in CrawlPhases /\ {r} \in SUBSET TreeRows(job.source)
    BY <1>2 DEF AddLabel, NextAddRow, MemoryWithinTree, CrawlPhases
  <2>2. LabelRows(l)' \subseteq LabelRows(l) \cup {r}
    BY <1>2 DEF AddLabel
  <2>3. ASSUME job.label # l PROVE LabelRows(l)' \subseteq LabelRows(l)
    <3>1. rows' = rows /\ \A q \in Rows : l \in labels'[q] <=> l \in labels[q]
      BY <1>2, <2>3 DEF AddLabel
    <3> QED
      BY <3>1
  <2> QED
    BY <1>1, <2>1, <2>2, <2>3
<1>3. ASSUME NEW B \in SUBSET queue, UpsertBatch(B)
      PROVE  LabelRows(l)' \subseteq LabelRows(l) \cup UNION {TreeRows(c) : c \in CrawledFor(l)'}
  <2>1. phase' = phase /\ job' = job /\ phase \in CrawlPhases /\ B \in SUBSET TreeRows(job.source)
        /\ B \subseteq Rows
    BY <1>3 DEF UpsertBatch, MemoryWithinTree, CrawlPhases
  <2>2. /\ rows' = rows \cup B
        /\ \A q \in Rows : labels'[q] = IF q \in B THEN labels[q] \cup {job.label} ELSE labels[q]
    BY <1>3 DEF UpsertBatch, MergedLabels
  <2>3. LabelRows(l)' \subseteq LabelRows(l) \cup B
    BY <2>1, <2>2
  <2>4. ASSUME job.label # l PROVE LabelRows(l)' \subseteq LabelRows(l)
    <3> SUFFICES ASSUME NEW q \in rows', l \in labels'[q] PROVE q \in LabelRows(l)
      OBVIOUS
    <3>1. q \in Rows /\ l \in labels[q]
      BY <2>1, <2>2, <2>4
    <3> QED
      BY <3>1
  <2> QED
    BY <1>1, <2>1, <2>3, <2>4
<1>4. ASSUME NEW r \in Rows, CleanRow(r) PROVE LabelRows(l)' \subseteq LabelRows(l)
  BY <1>4 DEF CleanRow
<1>5. CASE PurgeChunks \/ UNCHANGED <<rows, labels>>
  BY <1>5 DEF PurgeChunks
<1> QED
  BY <1>2, <1>3, <1>4, <1>5, LabelEdits

(* With every method it asked complete, the search has seen of the label,   *)
(* and can see, rows of the trees it may show and no others.                *)
AskedComplete == \A method \in Active : MethodDone(metadata, method)

SearchedRows == UNION {TreeRows(c) : c \in SearchedTrees}

ShownInv ==
    Accepted /\ AskedComplete =>
        /\ spc # "done" => LabelRows(ask.label) \subseteq SearchedRows
        /\ Opened => view.rows \subseteq SearchedRows

LEMMA ShownInvStep ==
    ASSUME SourcesInv, MemoryWithinTree, SearchInv, ShownInv, [SearchNext]_allVars
    PROVE  ShownInv'
<1> USE DEF ShownInv, SearchInv, DecisionInv, Accepted, Opened
<1>1. ASSUME NEW l \in Labels, NEW requested \in SUBSET Methods, NEW limit \in Limits,
             ReadMetadata(l, requested, limit)
      PROVE  ShownInv'
  <2>1. CASE spc' = "done"
    BY <1>1, <2>1 DEF ReadMetadata, Finish, Refusal
  <2>2. CASE spc' # "done"
    <3>1. /\ spc' = "open" /\ outcome' = "none" /\ meta[l] # NULL /\ metadata' = meta[l]
          /\ ask'.label = l /\ Active' = ActiveSubset(meta[l], requested)
          /\ Refusal(meta[l], requested) = "none" /\ UNCHANGED vars
      BY <1>1, <2>2 DEF ReadMetadata, Finish, Active
    <3>2. PICK method \in {"fts", "vector"} : method \in Active'
      BY <3>1, ActiveType DEF Refusal, Methods
    <3>3. SUFFICES ASSUME AskedComplete' PROVE LabelRows(l)' \subseteq SearchedRows'
      BY <3>1
    <3>4. LabelRows(l) \subseteq TreeRows(MethodSource(meta[l], method))
      BY <3>1, <3>2, <3>3, CompleteMethodNamesItsRows DEF AskedComplete
    <3>5. LabelRows(l)' = LabelRows(l) /\ MethodSource(meta[l], method) \in SearchedTrees'
      BY <3>1, <3>2 DEF LabelRows, SearchedTrees, vars, stores
    <3> QED
      BY <3>4, <3>5 DEF SearchedRows
  <2> QED
    BY <2>1, <2>2
<1>2. ASSUME SearchStep PROVE ShownInv'
  <2>1. UNCHANGED <<vars, ask, metadata, since>> /\ spc \in {"open", "fts", "vector", "hydrate"}
        /\ \/ view' = view /\ spc # "open"
           \/ view' = CurrentView
    <3>1. CASE OpenChunks
      BY <3>1 DEF OpenChunks, history
    <3>2. CASE CollectFts \/ FtsNoIndex \/ FtsStale
      BY <3>2 DEF CollectFts, FtsNoIndex, FtsStale, WithoutFts, history
    <3>3. CASE FtsParseError \/ VectorFails
      BY <3>3 DEF FtsParseError, VectorFails, history, Finish
    <3>4. CASE CollectVector
      BY <3>4 DEF CollectVector, Refreshed
    <3>5. CASE HydrateAndRender
      BY <3>5 DEF HydrateAndRender, Refreshed, history
    <3> QED
      BY <1>2, <3>1, <3>2, <3>3, <3>4, <3>5 DEF SearchStep
  <2>2. /\ Active' = Active /\ SearchedRows' = SearchedRows /\ AskedComplete' = AskedComplete
        /\ LabelRows(ask.label)' = LabelRows(ask.label) /\ CurrentView.rows = LabelRows(ask.label)
    BY <2>1 DEF Active, SearchedRows, SearchedTrees, AskedComplete, LabelRows, CurrentView, vars,
                stores
  <2> QED
    BY <2>1, <2>2
<1>3. CASE CatalogStep
  <2>1. UNCHANGED search /\ [Next]_vars /\ spc # "done"
        /\ (spc # "idle" => since' = since \cup CrawledFor(ask.label)')
    BY <1>3 DEF CatalogStep
  <2>2. /\ Active' = Active /\ AskedComplete' = AskedComplete /\ ask' = ask /\ spc' = spc
        /\ view' = view /\ outcome' = outcome
    BY <2>1 DEF Active, AskedComplete, search
  <2>3. SUFFICES ASSUME Accepted, AskedComplete
                 PROVE  /\ LabelRows(ask.label)' \subseteq SearchedRows'
                        /\ Opened => view.rows \subseteq SearchedRows'
    BY <2>2
  <2>4. SearchedTrees' = SearchedTrees \cup CrawledFor(ask.label)'
    BY <2>1, <2>2, <2>3 DEF SearchedTrees, search
  <2>5. SearchedRows' = SearchedRows \cup UNION {TreeRows(c) : c \in CrawledFor(ask.label)'}
    BY <2>4 DEF SearchedRows
  <2>6. LabelRows(ask.label)' \subseteq
            LabelRows(ask.label) \cup UNION {TreeRows(c) : c \in CrawledFor(ask.label)'}
    <3>1. PICK l \in Labels : ask.label = l
      BY <2>3
    <3>2. LabelRows(l)' \subseteq LabelRows(l) \cup UNION {TreeRows(c) : c \in CrawledFor(l)'}
      BY <2>1, RowsGained DEF SourcesInv, PurgeInv
    <3>3. /\ LabelRows(ask.label) = LabelRows(l) /\ LabelRows(ask.label)' = LabelRows(l)'
          /\ CrawledFor(ask.label)' = CrawledFor(l)'
      BY <2>2, <3>1 DEF LabelRows, CrawledFor
    <3> QED
      BY <3>2, <3>3
  <2> QED
    BY <2>1, <2>3, <2>5, <2>6
<1>4. CASE UNCHANGED allVars
  BY <1>4 DEF allVars, search, history, vars, stores, Active, AskedComplete, SearchedRows,
              SearchedTrees, LabelRows
<1> QED
  BY <1>1, <1>2, <1>3, <1>4 DEF SearchNext

LEMMA ShownInvariant == SearchSpec => []ShownInv
<1>1. Init /\ SearchInit => MemoryWithinTree /\ ShownInv
  BY DEF Init, SearchInit, MemoryWithinTree, ShownInv, Accepted, CrawlPhases
<1>2. SourcesInv /\ MemoryWithinTree /\ [SearchNext]_allVars => MemoryWithinTree'
  <2>1. [SearchNext]_allVars => [Next]_vars
    BY SearchStepsOnlyRead
  <2> QED
    BY <2>1, MemoryWithinTreeStep DEF SourcesInv, PurgeInv
<1> QED
  BY <1>1, <1>2, ShownInvStep, SourcesInvariant, SearchInvariant, PTL DEF SearchSpec

(* With every method it asked complete, a search shows rows of the tree its *)
(* metadata names or of one crawled for the label since, whatever commands  *)
(* run beside it, for this label or another, and whatever was interrupted   *)
(* before: what an earlier crawl left with the label does not come up.      *)
THEOREM ShownRowsAreCrawled == SearchSpec => []ShownRowsAreOfCrawledTrees
<1>1. ASSUME SearchInv, ResultsInv, ShownInv, outcome = "rendered", AskedComplete
      PROVE  Shown \subseteq SearchedRows
  <2>1. view.rows \subseteq SearchedRows
    BY <1>1 DEF ShownInv, Accepted, Opened
  <2>2. Shown \subseteq view.rows
    BY <1>1, ResultsAreVisible DEF Shown, ResultsIn
  <2> QED
    BY <2>1, <2>2
<1>2. SearchInv /\ ResultsInv /\ ShownInv => ShownRowsAreOfCrawledTrees
  BY <1>1 DEF ShownRowsAreOfCrawledTrees, AskedComplete, SearchedRows
<1> QED
  BY <1>2, SearchInvariant, ResultsInvariant, ShownInvariant, PTL

-----------------------------------------------------------------------------
(* Of two rows the one that a method ranks higher and no method ranks lower *)
(* comes first.                                                             *)
THEOREM AgreementComesFirst == SearchSpec => []FusionRespectsAgreement
<1>1. ASSUME SearchInv, ResultsInv, outcome = "rendered", IsHybrid, fused # <<>>,
             NEW a \in FusedRows(answers), NEW b \in Range(fused), Dominates(a, b)
      PROVE  a \in Range(fused) /\ PositionOf(a) < PositionOf(b)
  <2> DEFINE s == Ranking(answers)
             S == FusedRows(answers)
             n == CandidateLimit
  <2>1. DOMAIN answers # {} /\ fused = Truncate(s, n)
    BY <1>1 DEF ResultsInv, RenderedInv, CandidateRanking, Fuse
  <2>2. /\ s \in SetToSeqs(S) /\ IsFiniteSet(S)
        /\ \A i, j \in DOMAIN s : i < j => Precedes(answers, s[i], s[j])
    BY <1>1, RankedAnswers
  <2>3. /\ Cardinality(S) \in Nat /\ s \in [1 .. Cardinality(S) -> S] /\ Len(s) = Cardinality(S)
        /\ Range(s) = S /\ DOMAIN s = 1 .. Len(s)
        /\ \A i, j \in DOMAIN s : s[i] = s[j] => i = j
    BY <2>2, FS_CardinalityType, ListingIsComplete
  <2>4. n \in Nat
    BY <1>1, LimitTypes DEF SearchInv, DecisionInv, Accepted
  <2>5. /\ fused \in Seq(S) /\ Len(fused) = IF n < Len(s) THEN n ELSE Len(s)
        /\ \A i \in DOMAIN fused : i \in DOMAIN s /\ fused[i] = s[i]
    <3>1. s \in Seq(S)
      BY <2>3
    <3> HIDE DEF s, S, n
    <3> QED
      BY <2>1, <2>4, <3>1, TruncatedType
  <2>6. RankedLists(answers) /\ b \in S /\ S \subseteq Rows
    BY <1>1, <2>5, AnswersAreLists DEF Range
  <2>7. Precedes(answers, a, b)
    <3> DEFINE RankOr(m, row) == IF row \in Range(answers[m]) THEN RankIn(answers[m], row)
                                 ELSE Len(answers[m]) + 1
    <3>1. /\ \A m \in DOMAIN answers : RankOr(m, a) <= RankOr(m, b)
          /\ \E m \in DOMAIN answers : RankOr(m, a) < RankOr(m, b)
      BY <1>1 DEF Dominates
    <3>2. \A m \in DOMAIN answers :
            /\ Len(answers[m]) \in Nat
            /\ \A row \in Range(answers[m]) : RankIn(answers[m], row) \in 1 .. Len(answers[m])
      <4> TAKE m \in DOMAIN answers
      <4>1. answers[m] \in Seq(Rows)
        BY <1>1 DEF ResultsInv, AnswersInv
      <4> QED
        BY <4>1, RankOfRow
    <3>3. ASSUME NEW m \in Contributors(answers, b)
          PROVE  m \in Contributors(answers, a) /\ RankIn(answers[m], a) <= RankIn(answers[m], b)
      <4>1. m \in DOMAIN answers /\ b \in Range(answers[m])
        BY DEF Contributors
      <4>2. RankOr(m, a) <= RankIn(answers[m], b) /\ RankIn(answers[m], b) \in 1 .. Len(answers[m])
        BY <3>1, <3>2, <4>1
      <4>3. a \in Range(answers[m])
        BY <3>2, <4>1, <4>2
      <4> QED
        BY <4>1, <4>2, <4>3 DEF Contributors
    <3>4. PICK m \in DOMAIN answers : RankOr(m, a) < RankOr(m, b)
      BY <3>1
    <3>5. a \in Range(answers[m])
      <4> SUFFICES ASSUME a \notin Range(answers[m]) PROVE FALSE
        OBVIOUS
      <4>1. Len(answers[m]) + 1 < RankOr(m, b)
        BY <3>4
      <4> QED
        BY <3>2, <4>1
    <3>6. m \in Contributors(answers, a)
          /\ (m \in Contributors(answers, b) => RankIn(answers[m], a) < RankIn(answers[m], b))
      BY <3>4, <3>5 DEF Contributors
    <3> QED
      BY <1>1, <2>6, <3>3, <3>6, AgreementPrecedes
  <2>8. ~Precedes(answers, b, a)
    <3>1. /\ \A x, y \in S : RowBefore(x, y) => ~RowBefore(y, x)
          /\ \A x, y \in S : x # y => RowBefore(x, y) \/ RowBefore(y, x)
          /\ \A x, y, z \in S : RowBefore(x, y) /\ RowBefore(y, z) => RowBefore(x, z)
      BY <2>6, RowsAssumption
    <3>2. \A x, y \in S : Precedes(answers, x, y) => ~Precedes(answers, y, x)
      BY <2>6, <3>1, PrecedesOrders
    <3> QED
      BY <1>1, <2>6, <2>7, <3>2
  <2>9. PICK j \in DOMAIN fused : fused[j] = b
    BY DEF Range
  <2>10. PICK i \in DOMAIN s : s[i] = a
    BY <1>1, <2>3 DEF Range
  <2>11. a # b
    BY <2>7, <2>8
  <2>12. i \in Nat /\ j \in Nat /\ j \in DOMAIN s /\ s[j] = b /\ i # j /\ ~(j < i)
    BY <2>2, <2>3, <2>5, <2>8, <2>9, <2>10, <2>11
  <2>13. i < j
    BY ONLY <2>12
  <2> HIDE DEF s, S, n
  <2>14. DOMAIN fused = 1 .. Len(fused) /\ Len(fused) \in Nat
    BY <2>5
  <2>15. i \in DOMAIN fused /\ fused[i] = a
    BY <2>3, <2>5, <2>9, <2>10, <2>12, <2>13, <2>14
  <2>16. {k \in DOMAIN fused : fused[k] = a} = {i} /\ {k \in DOMAIN fused : fused[k] = b} = {j}
    BY <2>3, <2>5, <2>9, <2>12, <2>15
  <2>17. PositionOf(a) = i /\ PositionOf(b) = j
    BY <2>12, <2>16, LeastNatural DEF PositionOf
  <2> QED
    BY <2>13, <2>15, <2>17 DEF Range
<1>2. SearchInv /\ ResultsInv => FusionRespectsAgreement
  BY <1>1 DEF FusionRespectsAgreement
<1> QED
  BY <1>2, SearchInvariant, ResultsInvariant, PTL
=============================================================================
