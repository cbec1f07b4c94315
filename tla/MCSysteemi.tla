----------------------------- MODULE MCSysteemi -----------------------------
\* Instances of Systeemi: those of IngestPipeline, with its readers.
EXTENDS Systeemi, MCIngestPipeline
=============================================================================
