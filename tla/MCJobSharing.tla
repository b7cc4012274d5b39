----------------------------- MODULE MCJobSharing -----------------------------
EXTENDS JobSharing
CONSTANTS ann, bob, cat, b1, b2, s1, f1, f2

\* Bob leads the only space, Ann is in it; Ann or nobody has added the job.
MCLead == [s \in Spaces |-> bob]
MCTeam == [s \in Spaces |-> {ann}]
MCOwners == {ann, Nobody}
=============================================================================
