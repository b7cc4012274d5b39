----------------------------- MODULE MCSaveDrain -----------------------------
EXTENDS SaveDrain, TLC

\* The analyses are interchangeable, and so are the drain slots.
Symmetry == Permutations(Analyses) \cup Permutations(Drains)
=============================================================================
