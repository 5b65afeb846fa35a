--------------------------- MODULE MCLogPipeline ---------------------------
\* Instances of LogPipeline for TLC.
EXTENDS LogPipeline
=============================================================================
