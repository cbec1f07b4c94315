------------------------- MODULE MCIngestPipeline -------------------------
\* Instances of IngestPipeline: model values for the workers and documents,
\* and chunk labels shared by the texts the way running indexes are.
EXTENDS IngestPipeline, TLC

CONSTANTS w1, w2, d1, lapua, kauhava, r1, r2, none

\* Two chunks for a page read as r1, one otherwise; labels are the running
\* index, so a later page's labels depend on the earlier pages.  An empty text
\* is one chunk: chunk_document falls back on the whole text.
RECURSIVE ChunkCount(_)
ChunkCount(text) ==
    IF text = <<>> THEN 0
    ELSE (IF Head(text) = r1 THEN 2 ELSE 1) + ChunkCount(Tail(text))

MCChunkIds ==
    [text \in Texts |-> IF text = <<>> THEN {1} ELSE 1..ChunkCount(text)]

WorkerSymmetry == Permutations(Workers)
=============================================================================
