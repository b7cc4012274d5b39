------------------------------ MODULE MCJobBoard ------------------------------
EXTENDS JobBoard, TLC
CONSTANTS j1, j2, j3

\* One employer; the same role twice, the same address twice, and one job that
\* some list of countries excludes.
MCEmployer == [j \in Jobs |-> "e"]
MCTitle == [j \in Jobs |-> IF j = j3 THEN "t3" ELSE "t1"]
MCUrl == [j \in Jobs |-> IF j = j1 THEN "u1" ELSE "u2"]
MCAways == {{}, {j3}}
=============================================================================
