----------------------------- MODULE FtsTokenizer -----------------------------
(* The tokenizer that feeds the full-text index and its queries                    *)
(* (src/engine/fts/tokenizer.rs).  A text is a sequence of characters; its tokens   *)
(* are emitted one by one, numbered along the whole field.                          *)
EXTENDS Integers, Sequences, FiniteSetsExt, SequencesExt

CONSTANTS
    Texts,          \* the texts to tokenize
    LowerOf,        \* the lower-case form of every upper-case letter
    Digits, Joints, \* joints: the underscore and the dot
    Blanks,         \* ASCII whitespace and the rest of ASCII punctuation
    Cjk

Uppers == DOMAIN LowerOf

ASSUME TextsAssumption == \A t \in Texts : t \in Seq(ToSet(t))

\* A character is in one class at most.
ASSUME ClassAssumption ==
    /\ Uppers \cap (Digits \cup Joints \cup Blanks \cup Cjk) = {}
    /\ Digits \cap (Joints \cup Blanks \cup Cjk) = {}
    /\ Joints \cap (Blanks \cup Cjk) = {}
    /\ Blanks \cap Cjk = {}

VARIABLES
    text,
    pending,        \* the tokens computed for the text
    emitted         \* the tokens handed out, each with its position

tokenVars == <<text, pending, emitted>>

Lower(word) == [i \in DOMAIN word |-> IF word[i] \in Uppers THEN LowerOf[word[i]] ELSE word[i]]

\* Where the run of characters begins, all in the class or all outside of it, that
\* goes on at position i.
RunStart(chars, class, i) ==
    Min({k \in 1..i : \A j \in k..i : (chars[j] \in class) = (chars[i] \in class)})

--------------------------------------------------------------------------------
(* split_identifier.                                                              *)

NewPart(parts, part) ==
    IF part = <<>> \/ Contains(parts, Lower(part)) THEN parts ELSE Append(parts, Lower(part))

\* The bug of a loop that ends an acronym with its last letter: HTTPServer would give
\* https and erver.
SplitAfterAcronym(s, ch) ==
    LET upper == ch \in Uppers
        digit == ch \in Digits
        splits == s.part # <<>> /\ (ch \in Joints \/ s.upper # upper \/ s.digit # digit)
        next == [s EXCEPT !.upper = upper, !.digit = digit]
    IN  IF splits THEN [next EXCEPT !.parts = NewPart(s.parts, s.part),
                                    !.part = IF ch \in Joints THEN <<>> ELSE <<ch>>]
        ELSE [next EXCEPT !.part = Append(s.part, ch)]

\* One character of the loop: s.part is current_part, s.upper and s.digit tell what
\* the character before it was.
SplitStep(s, ch) ==
    LET upper == ch \in Uppers
        digit == ch \in Digits
        splits == s.part # <<>> /\ \/ ch \in Joints
                                   \/ ~s.upper /\ upper
                                   \/ s.digit # digit
        acronymEnds == s.upper /\ ~upper /\ Len(s.part) > 1
        next == [s EXCEPT !.upper = upper, !.digit = digit]
    IN  CASE acronymEnds ->
               [next EXCEPT !.parts = NewPart(s.parts, Front(s.part)),
                            !.part = <<Last(s.part), ch>>]
          [] splits /\ ~acronymEnds ->
               [next EXCEPT !.parts = NewPart(s.parts, s.part),
                            !.part = IF ch \in Joints THEN <<>> ELSE <<ch>>]
          [] OTHER -> [next EXCEPT !.part = Append(s.part, ch)]

SplitIdentifier(word) ==
    LET loop[i \in 0..Len(word)] ==
            IF i = 0 THEN [parts |-> <<>>, part |-> <<>>, upper |-> FALSE, digit |-> FALSE]
            ELSE SplitStep(loop[i - 1], word[i])
        end == loop[Len(word)]
    IN  NewPart(end.parts, end.part)

--------------------------------------------------------------------------------
(* tokenize_text.                                                                 *)

\* The whole word first, then its parts that differ from it.
WordTokens(word) ==
    LET parts == SplitIdentifier(word)
        tokens[i \in 0..Len(parts)] ==
            IF i = 0 THEN <<Lower(word)>>
            ELSE IF parts[i] = Lower(word) THEN tokens[i - 1]
            ELSE Append(tokens[i - 1], parts[i])
    IN  tokens[Len(parts)]

\* The bug of a segment that is not cut at its blanks.
BlanksJoin(segment) == WordTokens(segment)

\* tokenize_non_cjk_segment: the tokens of its words, from left to right.
NonCjkTokens(segment) ==
    LET upto[i \in 0..Len(segment)] ==
            IF i = 0 THEN <<>>
            ELSE IF segment[i] \in Blanks THEN upto[i - 1]
            ELSE LET start == RunStart(segment, Blanks, i)
                 IN  upto[start - 1] \o WordTokens(SubSeq(segment, start, i))
    IN  upto[Len(segment)]

\* tokenize_cjk_segment; Jieba's dictionary is taken to know single characters only.
JiebaCut(segment) == [i \in DOMAIN segment |-> <<segment[i]>>]

SegmentTokens(segment) ==
    IF Head(segment) \in Cjk THEN JiebaCut(segment) ELSE NonCjkTokens(segment)

\* The tokens of its segments, from left to right.
TokenizeText(chars) ==
    LET upto[i \in 0..Len(chars)] ==
            IF i = 0 THEN <<>>
            ELSE LET start == RunStart(chars, Cjk, i)
                 IN  upto[start - 1] \o SegmentTokens(SubSeq(chars, start, i))
    IN  upto[Len(chars)]

\* No stream yet: a token that no text has.
Unread == <<<<"unread">>>>

TokenInit == text \in Texts /\ pending = Unread /\ emitted = <<>>

\* MonodexFtsTokenStream::new
NewStream ==
    /\ pending = Unread
    /\ pending' = TokenizeText(text)
    /\ UNCHANGED <<text, emitted>>

\* advance: the next token, at the position of its index in the field.
Advance ==
    /\ pending # Unread /\ Len(emitted) < Len(pending)
    /\ emitted' = Append(emitted, [text |-> pending[Len(emitted) + 1], position |-> Len(emitted)])
    /\ UNCHANGED <<text, pending>>

TokenNext == NewStream \/ Advance

TokenSpec == TokenInit /\ [][TokenNext]_tokenVars

--------------------------------------------------------------------------------
(* Properties.                                                                    *)

\* Where docs/design/search.md puts the borders inside a word: beside a joint, where
\* digits begin or end, before an upper-case letter that follows none, and before the
\* last letter of an acronym that a word follows.
BorderBefore(word, i) ==
    \/ word[i - 1] \in Joints \/ word[i] \in Joints
    \/ (word[i - 1] \in Digits) # (word[i] \in Digits)
    \/ word[i - 1] \notin Uppers /\ word[i] \in Uppers
    \/ /\ word[i - 1] \in Uppers /\ word[i] \in Uppers
       /\ i < Len(word) /\ word[i + 1] \notin UNION {Uppers, Digits, Joints, Blanks, Cjk}

\* The characters i to j of a text are a word by those rules.
IsNamedWord(chars, i, j) ==
    /\ \A k \in i..j : chars[k] \notin Blanks \cup Joints \cup Cjk
    /\ \A k \in (i + 1)..j : ~BorderBefore(chars, k)
    /\ i = 1 \/ BorderBefore(chars, i) \/ chars[i - 1] \in Blanks \cup Cjk
    /\ j = Len(chars) \/ BorderBefore(chars, j + 1) \/ chars[j + 1] \in Blanks \cup Cjk

\* The words of a text, in lower case.
NamedWords(chars) ==
    UNION {{Lower(SubSeq(chars, i, j)) : j \in {k \in i..Len(chars) : IsNamedWord(chars, i, k)}} :
           i \in DOMAIN chars}

\* Two shapes the loop does not handle by those rules: a joint where no part has been
\* begun (_name, a__b), and an acronym that ends at a joint or a digit (MAX_SIZE).
Regular(chars) ==
    /\ \A i \in DOMAIN chars : chars[i] \in Joints =>
          i > 1 /\ chars[i - 1] \notin Joints \cup Blanks \cup Cjk
    /\ \A i \in DOMAIN chars : i > 2 /\ chars[i] \in Joints \cup Digits =>
          ~(chars[i - 1] \in Uppers /\ chars[i - 2] \in Uppers)

Read == pending # Unread

\* Every word the documented rules find in a text is a token of it, so that a search
\* for the word finds the text; restricted to the regular texts (split_identifier,
\* tokenize_non_cjk_segment).
RegularWordsAreTokens ==
    Read /\ Regular(text) => NamedWords(text) \subseteq ToSet(pending)

\* A text after another one is tokenized as it would be alone: a query of whole words
\* is a run of the tokens of every field that holds those words, which is what makes a
\* phrase match at consecutive positions (tokenize_text, advance).
TextsStandAlone ==
    Read => \A i \in DOMAIN text : text[i] \in Blanks =>
        pending = TokenizeText(SubSeq(text, 1, i - 1)) \o TokenizeText(SubSeq(text, i + 1, Len(text)))
================================================================================
