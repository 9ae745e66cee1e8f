------------------------------ MODULE Identifiers ------------------------------
(* Names of catalogs and labels (src/engine/identifier.rs): the validators, which  *)
(* go through a name once, and the stored form catalog:label.  A name is a          *)
(* sequence of characters.                                                          *)
EXTENDS Integers, Sequences, FiniteSetsExt, SequencesExt

CONSTANTS
    Alphanumerics,      \* lower-case letters and digits
    LabelSeparators,    \* . / - =
    Hyphen, Colon,      \* the hyphen is a separator, the colon neither
    MaxCatalogLength, MaxLabelLength

ASSUME AlphabetAssumption ==
    /\ Hyphen \notin Alphanumerics
    /\ LabelSeparators \cap Alphanumerics = {}
    /\ Colon \notin {Hyphen} \cup LabelSeparators \cup Alphanumerics

\* validate_catalog: length, the two ends, doubled hyphens, then every character.
ValidCatalog(name) ==
    /\ name # <<>> /\ Len(name) <= MaxCatalogLength
    /\ Head(name) # Hyphen /\ Last(name) # Hyphen
    /\ \A i \in 2..Len(name) : ~(name[i - 1] = Hyphen /\ name[i] = Hyphen)
    /\ \A i \in DOMAIN name : name[i] \in Alphanumerics \cup {Hyphen}

\* The bug of a validator that forgets to begin a new segment.
SegmentRunsOn(seen, ch) ==
    [length |-> IF ch \in Alphanumerics THEN seen.length + 1 ELSE seen.length,
     rejected |-> \/ seen.rejected \/ ch \notin Alphanumerics \cup LabelSeparators
                  \/ ch \in LabelSeparators /\ seen.length = 0]

\* validate_label_payload, one character: the length of the segment it belongs to.
SegmentStep(seen, ch) ==
    [length |-> IF ch \in Alphanumerics THEN seen.length + 1 ELSE 0,
     rejected |-> \/ seen.rejected \/ ch \notin Alphanumerics \cup LabelSeparators
                  \/ ch \in LabelSeparators /\ seen.length = 0]

\* validate_label
ValidLabel(name) ==
    LET seen[i \in 0..Len(name)] ==
            IF i = 0 THEN [length |-> 0, rejected |-> FALSE]
            ELSE SegmentStep(seen[i - 1], name[i])
        end == seen[Len(name)]
    IN  /\ name # <<>> /\ Len(name) <= MaxLabelLength
        /\ ~end.rejected /\ end.length > 0

\* LabelId::parse, which splits at the first colon, and LabelId::new.
ParsesAsLabelId(id) ==
    LET colons == {i \in DOMAIN id : id[i] = Colon}
    IN  /\ colons # {}
        /\ ValidCatalog(SubSeq(id, 1, Min(colons) - 1))
        /\ ValidLabel(SubSeq(id, Min(colons) + 1, Len(id)))

--------------------------------------------------------------------------------

\* The rule in the comments of the validators: one or more segments of alphanumerics,
\* none of them empty, joined by single separators.
InGrammar(name, separators, maximum) ==
    LET borders == {0, Len(name) + 1} \cup {i \in DOMAIN name : name[i] \in separators}
    IN  /\ Len(name) <= maximum
        /\ \A i \in DOMAIN name : name[i] \in Alphanumerics \cup separators
        /\ \A i, j \in borders : i < j => j > i + 1

\* A stored identifier is accepted exactly if some colon of it divides a catalog name
\* from a label name, and then there is one way to read it.
IdGrammar(id) ==
    LET readings == {i \in DOMAIN id :
                        /\ id[i] = Colon
                        /\ InGrammar(SubSeq(id, 1, i - 1), {Hyphen}, MaxCatalogLength)
                        /\ InGrammar(SubSeq(id, i + 1, Len(id)), LabelSeparators, MaxLabelLength)}
    IN  ParsesAsLabelId(id) = (\E i \in readings : readings = {i})
================================================================================
