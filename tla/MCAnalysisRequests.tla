--------------------------- MODULE MCAnalysisRequests ---------------------------
EXTENDS AnalysisRequests, TLC

\* Jobs are interchangeable, and so are callers of a kind.
Symmetry == Permutations(Jobs) \cup Permutations(Autos)
=============================================================================
