--------------------------- MODULE MCPrintServer ---------------------------
\* The print queue against bridges that may report anything at any time.
EXTENDS PrintServer, TLC

MCJobs == 1..2
MCOneJob == {1}

\* Bridges and devices are interchangeable: no property tells them apart.
Interchangeable == Permutations(Bridges) \cup Permutations(Devices)
=============================================================================
