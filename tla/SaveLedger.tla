------------------------------ MODULE SaveLedger ------------------------------
(***************************************************************************)
(* What the save drain of one user promises, without Redis, locks or jobs: *)
(* analyses are accepted in some order and settled in that order, each     *)
(* stored or rejected; one that is dropped does not hold up the others.    *)
(***************************************************************************)
EXTENDS Naturals, Sequences

CONSTANT Analyses

VARIABLES accepted,  \* the analyses accepted, in order
          stored,    \* those saved
          rejected,  \* those reported as failed
          dropped    \* those given up without a word

vars == <<accepted, stored, rejected, dropped>>

Init == accepted = <<>> /\ stored = {} /\ rejected = {} /\ dropped = {}

Accepted == {accepted[i] : i \in DOMAIN accepted}
Settled == stored \cup rejected \cup dropped

\* Everything accepted before a is settled.
Turn(a) == \E i \in DOMAIN accepted :
             accepted[i] = a /\ \A j \in 1 .. i - 1 : accepted[j] \in Settled

Accept(a) == /\ a \notin Accepted
             /\ accepted' = Append(accepted, a)
             /\ UNCHANGED <<stored, rejected, dropped>>

Store(a) == /\ Turn(a) /\ a \notin Settled
            /\ stored' = stored \cup {a}
            /\ UNCHANGED <<accepted, rejected, dropped>>

\* A save whose commit was not acknowledged can be rejected when tried again.
Reject(a) == /\ Turn(a) /\ a \notin rejected \cup dropped
             /\ rejected' = rejected \cup {a}
             /\ UNCHANGED <<accepted, stored, dropped>>

Drop(S) == /\ S \cap Settled = {} /\ S \subseteq Accepted
           /\ dropped' = dropped \cup S
           /\ UNCHANGED <<accepted, stored, rejected>>

Next == \/ \E a \in Analyses : Accept(a) \/ Store(a) \/ Reject(a)
        \/ \E S \in SUBSET Analyses : Drop(S)

Spec == Init /\ [][Next]_vars
=============================================================================
