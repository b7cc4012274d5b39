---------------------------- MODULE MCScrapeRuns ----------------------------
EXTENDS ScrapeRuns, TLC

\* Tasks are interchangeable, and so are spiders.
Symmetry == Permutations(Tasks) \cup Permutations(Spiders)
=============================================================================
