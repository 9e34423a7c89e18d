-------------------------- MODULE MCPrintPipeline --------------------------
\* The whole pipeline on small branches.
EXTENDS PrintPipeline, TLC

MCJobs == {1}
MCTwoJobs == 1..2

\* Bridges are interchangeable: no safety property tells them apart.
Interchangeable == Permutations(Bridges)
=============================================================================
