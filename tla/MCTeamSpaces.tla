---------------------------- MODULE MCTeamSpaces ----------------------------
EXTENDS TeamSpaces, TLC

\* People, spaces, invitations and requests are interchangeable.
Symmetry == Permutations(Accounts) \cup Permutations(Teams)
              \cup Permutations(Invites) \cup Permutations(Requests)
=============================================================================
