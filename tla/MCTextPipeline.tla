---------------------------- MODULE MCTextPipeline -----------------------------
(* Small texts for TextPipeline: up to five characters, from an alphabet with one   *)
(* member of every class the tokenizer distinguishes, or of every class the         *)
(* validators of names do.                                                          *)
EXTENDS MCChunker, TextPipeline

Latin == {"a", "A", "1", "_", " ", "B", "zi"}
Named == {"a", "1", "-", "/", "_", ":"}

ShortTexts ==
    UNION {[1..n -> Latin] : n \in 0..5} \cup UNION {[1..n -> Named] : n \in 0..5}

LowerCase == [letter \in {"A", "B"} |-> IF letter = "A" THEN "a" ELSE "b"]

================================================================================
