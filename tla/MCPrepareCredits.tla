--------------------------- MODULE MCPrepareCredits ---------------------------
EXTENDS PrepareCredits, TLC

\* The jobs are interchangeable.
Symmetry == Permutations(Jobs)
=============================================================================
