--------------------------- MODULE MCPipelineCache --------------------------
EXTENDS PipelineCache, TLC
Interchangeable == Permutations(Procs) \cup Permutations(Pipelines)
=============================================================================
