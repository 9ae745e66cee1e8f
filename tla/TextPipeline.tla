----------------------------- MODULE TextPipeline ------------------------------
(* What happens to text on its way into the index: files become chunks (Chunker),  *)
(* the text of a chunk or query becomes tokens (FtsTokenizer), and the name a label *)
(* was given is checked (Identifiers).  A behaviour takes one file or one short     *)
(* text; the two do not meet.                                                       *)
EXTENDS Chunker, FtsTokenizer, Identifiers

\* A file that is not chunked, in the behaviours that take a text.
NoFile == CHOOSE f \in Files : f.strategy = "skip" /\ f.lines = <<>>

PipelineInit ==
    \/ Init /\ text = <<>> /\ pending = <<>> /\ emitted = <<>>
    \/ /\ TokenInit
       /\ file = NoFile /\ pc = "done" /\ chunks = <<>> /\ new_chunks = <<>> /\ result = <<>>
       /\ changed = FALSE /\ scope = None /\ least_bad = NoSplit

PipelineNext ==
    \/ Next /\ UNCHANGED tokenVars
    \/ TokenNext /\ UNCHANGED vars

PipelineSpec ==
    PipelineInit /\ [][PipelineNext]_<<vars, tokenVars>> /\ WF_vars(PartitionTypeScript)

\* Any text taken for a stored identifier is accepted exactly if the grammar of the
\* validators' comments reads it as a catalog and a label, and then in one way
\* (LabelId::parse).
LabelIdsFollowTheGrammar == IdGrammar(text)

================================================================================
