-------------------------- MODULE MCEmbedPipeline ---------------------------
(* An instance of EmbedPipeline: two files of two chunks each, so that a    *)
(* checkpoint can hold parts of both; chunks of one file share a session.   *)
EXTENDS EmbedPipeline

CONSTANTS f, g

PipelineChunks == <<f, g, f, g>>
=============================================================================
