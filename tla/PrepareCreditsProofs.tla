------------------------- MODULE PrepareCreditsProofs -------------------------
(***************************************************************************)
(* Proofs about PrepareCredits for every number of jobs and tailorings,    *)
(* every balance and every number of faults: the types, what a job costs,  *)
(* that work is paid for, that without faults the ledger agrees with the   *)
(* content of every job at rest, and what interrupted commits give away.   *)
(*                                                                         *)
(* Every action touches one job, so the invariant is stated and kept job   *)
(* by job (JobOK); OtherJobs says that a step leaves the others alone.     *)
(***************************************************************************)
EXTENDS PrepareCredits, FiniteSetTheorems, TLAPS

NoLoss == faults["acks"] = 0 /\ faults["kills"] = 0 /\ faults["refundFails"] = 0

\* What the ledger, the content and the locals of the run agree on, by where
\* the run is, as long as nothing was lost between two of them.
Books(j) ==
  LET agreed == net[j] = -1 <=> content[j]
  IN  /\ pc[j] \in {"none", "queued", "gate", "charge", "wrapUp"} => agreed /\ ~owes[j]
      /\ pc[j] \in {"paid", "generate", "store"} => net[j] = -1 /\ (owes[j] <=> ~content[j])
      /\ pc[j] = "stored" => net[j] = -1 /\ content[j]
      /\ pc[j] = "deliver" => net[j] = -1 /\ content[j] /\ ~owes[j]
      /\ pc[j] \in {"cancelled", "refund"} =>
           IF owes[j] THEN net[j] = -1 /\ ~content[j] ELSE agreed

JobOK(j) == /\ net[j] \in {-1, 0}
            /\ owes[j] => net[j] = -1
            /\ pc[j] \in {"paid", "generate", "store"} => content[j] \/ net[j] = -1
            /\ owes[j] => /\ pc[j] \in {"paid", "generate", "store", "stored", "cancelled", "refund"}
                          /\ pc[j] \in {"paid", "generate", "store"} => ~content[j]
            /\ NoLoss => Books(j)

\* A job that has content and has cost nothing, or will have: its run still owes
\* a refund and has missed that it stored.
Exposed(j) == content[j] /\ (net[j] = 0 \/ (owes[j] /\ pc[j] # "stored"))

\* Only an interrupted commit exposes a job that was not.
Spends(j) == /\ faults'["acks"] \in {faults["acks"], faults["acks"] + 1}
             /\ Exposed(j)' => Exposed(j) \/ faults'["acks"] = faults["acks"] + 1

Kept(j) == JobOK(j)' /\ Spends(j)

\* What JobOK speaks of is the same of a job after the step.
Same(k) == /\ pc'[k] = pc[k] /\ net'[k] = net[k]
           /\ owes'[k] = owes[k] /\ content'[k] = content[k]
           /\ NoLoss' => NoLoss

JobsOK == \A j \in Jobs : JobOK(j)

IInv == TypeOK /\ JobsOK

LEMMA InitIInv == Init => IInv
<1> SUFFICES ASSUME Init PROVE IInv
  OBVIOUS
<1>1. TypeOK
  BY CreditsAssumption DEF Init, TypeOK, States, Statuses, Exits, Running, Unwinding
<1>2. JobsOK
  BY DEF Init, JobsOK, JobOK, Books, NoLoss
<1> QED BY <1>1, <1>2 DEF IInv

LEMMA UseType ==
  ASSUME TypeOK, NEW k \in Kinds, NEW b \in Nat, Use(k, b)
  PROVE  /\ faults' \in [Kinds -> Nat]
         /\ faults'[k] = faults[k] + 1 /\ faults'[k] > 0
         /\ \A l \in Kinds \ {k} : faults'[l] = faults[l]
  BY DEF TypeOK, Use

RunType == /\ pc \in [Jobs -> States] /\ manual \in [Jobs -> BOOLEAN]
           /\ owes \in [Jobs -> BOOLEAN] /\ exit \in [Jobs -> Exits] /\ tries \in [Jobs -> Nat]

LEMMA Names ==
  /\ {"none", "queued", "gate", "charge", "paid", "generate", "store", "stored", "deliver",
      "cancelled", "refund", "wrapUp"} \subseteq States
  /\ {"none", "pending", "processing", "completed", "failed", "skipped"} \subseteq Statuses
  /\ {"normal", "cancelled", "again"} \subseteq Exits
  BY DEF States, Running, Unwinding, Statuses, Exits

LEMMA GotoType ==
  ASSUME TypeOK, NEW j \in Jobs, NEW s \in States, Goto(j, s)
  PROVE  pc' \in [Jobs -> States]
  BY DEF TypeOK, Goto

LEMMA StatusType ==
  ASSUME TypeOK, NEW j \in Jobs, NEW s \in Statuses, SetStatus(j, s)
  PROVE  status' \in [Jobs -> Statuses]
  BY DEF TypeOK, SetStatus

LEMMA ForgetType ==
  ASSUME TypeOK, NEW j \in Jobs, Forget(j) \/ UNCHANGED <<manual, tries>>
  PROVE  manual' \in [Jobs -> BOOLEAN] /\ tries' \in [Jobs -> Nat]
<1>1. CASE Forget(j)
  BY <1>1 DEF Forget, TypeOK
<1>2. CASE UNCHANGED <<manual, tries>>
  BY <1>2 DEF TypeOK
<1> QED BY <1>1, <1>2

LEMMA EndType ==
  ASSUME TypeOK, NEW j \in Jobs, End(j)
  PROVE  RunType'
<1>1. PICK s \in {"none", "wrapUp"} : Goto(j, s)
  BY DEF End
<1>2. pc' \in [Jobs -> States]
  BY <1>1, Names, GotoType
<1>3. manual' \in [Jobs -> BOOLEAN] /\ tries' \in [Jobs -> Nat]
  BY ForgetType DEF End
<1> QED BY <1>2, <1>3 DEF End, TypeOK, RunType

LEMMA EnqueueType ==
  ASSUME TypeOK, NEW j \in Jobs, NEW b \in BOOLEAN, Enqueue(j, b)
  PROVE  RunType'
<1>1. CASE pc[j] = "none"
  <2>1. pc' \in [Jobs -> States]
    BY <1>1, Names, GotoType DEF Enqueue
  <2> QED BY <1>1, <2>1 DEF Enqueue, TypeOK, RunType
<1>2. CASE pc[j] # "none"
  BY <1>2 DEF Enqueue, TypeOK, RunType, runVars
<1> QED BY <1>1, <1>2

LEMMA RequeuedType ==
  ASSUME TypeOK, NEW j \in Jobs, Requeued(j)
  PROVE  pc' \in [Jobs -> States] /\ manual' \in [Jobs -> BOOLEAN] /\ tries' \in [Jobs -> Nat]
<1>1. PICK s \in {"none", "queued"} : Goto(j, s)
  BY DEF Requeued
<1> QED BY <1>1, Names, GotoType, ForgetType DEF Requeued

\* Type correctness is kept by every action on a job.
LEMMA TypeOfJobStep ==
  ASSUME TypeOK, NEW j \in Jobs
  PROVE
         /\ EnqueueAuto(j) => TypeOK'
         /\ EnqueueManual(j) => TypeOK'
         /\ MakeReady(j) => TypeOK'
         /\ LoseInterest(j) => TypeOK'
         /\ Begin(j) => TypeOK'
         /\ Skip(j) => TypeOK'
         /\ LoadFails(j) => TypeOK'
         /\ NotEligible(j) => TypeOK'
         /\ Admit(j) => TypeOK'
         /\ ChargeNothing(j) => TypeOK'
         /\ ChargeOne(j) => TypeOK'
         /\ OutOfCredits(j) => TypeOK'
         /\ MarkGenerating(j) => TypeOK'
         /\ Generated(j) => TypeOK'
         /\ GenerateFails(j) => TypeOK'
         /\ StoreContent(j) => TypeOK'
         /\ MarkStored(j) => TypeOK'
         /\ Finish(j) => TypeOK'
         /\ CleanUp(j) => TypeOK'
         /\ Refund(j) => TypeOK'
         /\ NothingToRefund(j) => TypeOK'
         /\ WrapUp(j) => TypeOK'
         /\ Raise(j) => TypeOK'
         /\ Cancel(j) => TypeOK'
         /\ RefundFails(j) => TypeOK'
         /\ Kill(j) => TypeOK'
         /\ Heal(j) => TypeOK'
<1> USE BoundAssumption
<1>1. ASSUME EnqueueAuto(j) PROVE TypeOK'
  BY <1>1, EnqueueType, Names DEF EnqueueAuto, runVars, RunType, TypeOK, rowVars
<1>2. ASSUME EnqueueManual(j) PROVE TypeOK'
  BY <1>2, EnqueueType, Names DEF EnqueueManual, runVars, RunType, TypeOK, rowVars
<1>3. ASSUME MakeReady(j) PROVE TypeOK'
  BY <1>3, StatusType, EnqueueType, UseType, Names DEF MakeReady, runVars, Kinds, RunType,
     TypeOK, rowVars
<1>4. ASSUME LoseInterest(j) PROVE TypeOK'
  BY <1>4, Names DEF LoseInterest, runVars, RunType, TypeOK, rowVars
<1>5. ASSUME Begin(j) PROVE TypeOK'
  BY <1>5, GotoType, Names DEF Begin, runVars, RunType, TypeOK, rowVars
<1>6. ASSUME Skip(j) PROVE TypeOK'
  BY <1>6, EndType, Names DEF Skip, runVars, RunType, TypeOK, rowVars
<1>7. ASSUME LoadFails(j) PROVE TypeOK'
  BY <1>7, EndType, Names DEF LoadFails, runVars, RunType, TypeOK, rowVars
<1>8. ASSUME NotEligible(j) PROVE TypeOK'
  BY <1>8, EndType, StatusType, Names DEF NotEligible, runVars, RunType, TypeOK, rowVars
<1>9. ASSUME Admit(j) PROVE TypeOK'
  BY <1>9, GotoType, Names DEF Admit, runVars, RunType, TypeOK, rowVars
<1>10. ASSUME ChargeNothing(j) PROVE TypeOK'
  BY <1>10, GotoType, Names DEF ChargeNothing, runVars, RunType, TypeOK, rowVars
<1>11. ASSUME ChargeOne(j) PROVE TypeOK'
  BY <1>11, GotoType, Names DEF ChargeOne, TakeCredit, runVars, RunType, TypeOK, rowVars
<1>12. ASSUME OutOfCredits(j) PROVE TypeOK'
  BY <1>12, EndType, StatusType, Names DEF OutOfCredits, runVars, RunType, TypeOK, rowVars
<1>13. ASSUME MarkGenerating(j) PROVE TypeOK'
  BY <1>13, GotoType, StatusType, Names DEF MarkGenerating, runVars, RunType, TypeOK, rowVars
<1>14. ASSUME Generated(j) PROVE TypeOK'
  BY <1>14, GotoType, Names DEF Generated, runVars, RunType, TypeOK, rowVars
<1>15. ASSUME GenerateFails(j) PROVE TypeOK'
  BY <1>15, GotoType, StatusType, Names DEF GenerateFails, runVars, RunType, TypeOK, rowVars
<1>16. ASSUME StoreContent(j) PROVE TypeOK'
  BY <1>16, GotoType, StatusType, Names DEF StoreContent, runVars, RunType, TypeOK, rowVars
<1>17. ASSUME MarkStored(j) PROVE TypeOK'
  BY <1>17, GotoType, Names DEF MarkStored, runVars, RunType, TypeOK, rowVars
<1>18. ASSUME Finish(j) PROVE TypeOK'
  BY <1>18, EndType, Names DEF Finish, runVars, RunType, TypeOK, rowVars
<1>19. ASSUME CleanUp(j) PROVE TypeOK'
  BY <1>19, GotoType, StatusType, Names DEF CleanUp, runVars, RunType, TypeOK, rowVars
<1>20. ASSUME Refund(j) PROVE TypeOK'
  BY <1>20, EndType, Names DEF Refund, GiveBack, runVars, RunType, TypeOK, rowVars
<1>21. ASSUME NothingToRefund(j) PROVE TypeOK'
  BY <1>21, EndType, Names DEF NothingToRefund, runVars, RunType, TypeOK, rowVars
<1>22. ASSUME WrapUp(j) PROVE TypeOK'
  BY <1>22, RequeuedType, StatusType, Names DEF WrapUp, runVars, RunType, TypeOK, rowVars
<1>23. ASSUME Raise(j) PROVE TypeOK'
  BY <1>23, UseType, GotoType, Names DEF Raise, Interrupted, runVars, Kinds, RunType, TypeOK,
     rowVars
<1>24. ASSUME Cancel(j) PROVE TypeOK'
  <2>1. PICK e \in Exits : exit' = [exit EXCEPT ![j] = e]
    BY <1>24, Names DEF Cancel
  <2>2. exit' \in [Jobs -> Exits]
    BY <2>1 DEF TypeOK
  <2>3. owes' \in [Jobs -> BOOLEAN] /\ faults' \in [Kinds -> Nat]
    BY <1>24, UseType DEF Cancel, Interrupted, Kinds, TypeOK
  <2>4. pc' \in [Jobs -> States]
    BY <1>24, GotoType, Names DEF Cancel
  <2> QED BY <1>24, <2>2, <2>3, <2>4 DEF Cancel, TypeOK, rowVars
<1>25. ASSUME RefundFails(j) PROVE TypeOK'
  BY <1>25, UseType, EndType, Names DEF RefundFails, runVars, Kinds, RunType, TypeOK, rowVars
<1>26. ASSUME Kill(j) PROVE TypeOK'
  BY <1>26, UseType, RequeuedType, Names DEF Kill, runVars, Kinds, RunType, TypeOK, rowVars
<1>27. ASSUME Heal(j) PROVE TypeOK'
  BY <1>27, StatusType, Names DEF Heal, runVars, RunType, TypeOK, rowVars
<1> QED BY <1>1, <1>2, <1>3, <1>4, <1>5, <1>6, <1>7, <1>8, <1>9, <1>10, <1>11, <1>12, <1>13,
           <1>14, <1>15, <1>16, <1>17, <1>18, <1>19, <1>20, <1>21, <1>22, <1>23, <1>24, <1>25,
           <1>26, <1>27

\* The other jobs are left alone.
LEMMA OtherJobs ==
  ASSUME TypeOK, NEW j \in Jobs, NEW k \in Jobs \ {j}
  PROVE
         /\ EnqueueAuto(j) => Same(k)
         /\ EnqueueManual(j) => Same(k)
         /\ MakeReady(j) => Same(k)
         /\ LoseInterest(j) => Same(k)
         /\ Begin(j) => Same(k)
         /\ Skip(j) => Same(k)
         /\ LoadFails(j) => Same(k)
         /\ NotEligible(j) => Same(k)
         /\ Admit(j) => Same(k)
         /\ ChargeNothing(j) => Same(k)
         /\ ChargeOne(j) => Same(k)
         /\ OutOfCredits(j) => Same(k)
         /\ MarkGenerating(j) => Same(k)
         /\ Generated(j) => Same(k)
         /\ GenerateFails(j) => Same(k)
         /\ StoreContent(j) => Same(k)
         /\ MarkStored(j) => Same(k)
         /\ Finish(j) => Same(k)
         /\ CleanUp(j) => Same(k)
         /\ Refund(j) => Same(k)
         /\ NothingToRefund(j) => Same(k)
         /\ WrapUp(j) => Same(k)
         /\ Raise(j) => Same(k)
         /\ Cancel(j) => Same(k)
         /\ RefundFails(j) => Same(k)
         /\ Kill(j) => Same(k)
         /\ Heal(j) => Same(k)
<1> USE DEF Same, NoLoss, Kinds, Goto, TypeOK, rowVars, runVars
<1>1. ASSUME EnqueueAuto(j) PROVE Same(k)
  BY <1>1 DEF EnqueueAuto, Enqueue
<1>2. ASSUME EnqueueManual(j) PROVE Same(k)
  BY <1>2 DEF EnqueueManual, Enqueue
<1>3. ASSUME MakeReady(j) PROVE Same(k)
  BY <1>3 DEF MakeReady, SetStatus, Enqueue, Use, 
     rowVars, runVars
<1>4. ASSUME LoseInterest(j) PROVE Same(k)
  BY <1>4 DEF LoseInterest
<1>5. ASSUME Begin(j) PROVE Same(k)
  BY <1>5 DEF Begin
<1>6. ASSUME Skip(j) PROVE Same(k)
  BY <1>6 DEF Skip, End, Forget
<1>7. ASSUME LoadFails(j) PROVE Same(k)
  BY <1>7 DEF LoadFails, End, Forget
<1>8. ASSUME NotEligible(j) PROVE Same(k)
  BY <1>8 DEF NotEligible, End, Forget, SetStatus, 
     runVars
<1>9. ASSUME Admit(j) PROVE Same(k)
  BY <1>9 DEF Admit
<1>10. ASSUME ChargeNothing(j) PROVE Same(k)
  BY <1>10 DEF ChargeNothing
<1>11. ASSUME ChargeOne(j) PROVE Same(k)
  BY <1>11 DEF ChargeOne, TakeCredit
<1>12. ASSUME OutOfCredits(j) PROVE Same(k)
  BY <1>12 DEF OutOfCredits, End, Forget, SetStatus, 
     runVars
<1>13. ASSUME MarkGenerating(j) PROVE Same(k)
  BY <1>13 DEF MarkGenerating, SetStatus
<1>14. ASSUME Generated(j) PROVE Same(k)
  BY <1>14 DEF Generated
<1>15. ASSUME GenerateFails(j) PROVE Same(k)
  BY <1>15 DEF GenerateFails, SetStatus
<1>16. ASSUME StoreContent(j) PROVE Same(k)
  BY <1>16 DEF StoreContent, SetStatus
<1>17. ASSUME MarkStored(j) PROVE Same(k)
  BY <1>17 DEF MarkStored
<1>18. ASSUME Finish(j) PROVE Same(k)
  BY <1>18 DEF Finish, End, Forget
<1>19. ASSUME CleanUp(j) PROVE Same(k)
  BY <1>19 DEF CleanUp, SetStatus
<1>20. ASSUME Refund(j) PROVE Same(k)
  BY <1>20 DEF Refund, GiveBack, End, Forget, 
     runVars
<1>21. ASSUME NothingToRefund(j) PROVE Same(k)
  BY <1>21 DEF NothingToRefund, End, Forget
<1>22. ASSUME WrapUp(j) PROVE Same(k)
  BY <1>22 DEF WrapUp, Requeued, Forget, SetStatus, 
     runVars
<1>23. ASSUME Raise(j) PROVE Same(k)
  BY <1>23 DEF Raise, Interrupted, Use
<1>24. ASSUME Cancel(j) PROVE Same(k)
  BY <1>24 DEF Cancel, Interrupted, Use
<1>25. ASSUME RefundFails(j) PROVE Same(k)
  BY <1>25 DEF RefundFails, Use, End, Forget, 
     runVars
<1>26. ASSUME Kill(j) PROVE Same(k)
  BY <1>26 DEF Kill, Use, Requeued, Forget
<1>27. ASSUME Heal(j) PROVE Same(k)
  BY <1>27 DEF Heal, SetStatus
<1> QED BY <1>1, <1>2, <1>3, <1>4, <1>5, <1>6, <1>7, <1>8, <1>9, <1>10, <1>11, <1>12, <1>13,
           <1>14, <1>15, <1>16, <1>17, <1>18, <1>19, <1>20, <1>21, <1>22, <1>23, <1>24, <1>25,
           <1>26, <1>27

\* And the job itself stays in order, and is given away by an interrupted
\* commit only.
LEMMA OwnJob ==
  ASSUME TypeOK, NEW j \in Jobs, JobOK(j)
  PROVE
         /\ EnqueueAuto(j) => Kept(j)
         /\ EnqueueManual(j) => Kept(j)
         /\ MakeReady(j) => Kept(j)
         /\ LoseInterest(j) => Kept(j)
         /\ Begin(j) => Kept(j)
         /\ Skip(j) => Kept(j)
         /\ LoadFails(j) => Kept(j)
         /\ NotEligible(j) => Kept(j)
         /\ Admit(j) => Kept(j)
         /\ ChargeNothing(j) => Kept(j)
         /\ ChargeOne(j) => Kept(j)
         /\ OutOfCredits(j) => Kept(j)
         /\ MarkGenerating(j) => Kept(j)
         /\ Generated(j) => Kept(j)
         /\ GenerateFails(j) => Kept(j)
         /\ StoreContent(j) => Kept(j)
         /\ MarkStored(j) => Kept(j)
         /\ Finish(j) => Kept(j)
         /\ CleanUp(j) => Kept(j)
         /\ Refund(j) => Kept(j)
         /\ NothingToRefund(j) => Kept(j)
         /\ WrapUp(j) => Kept(j)
         /\ Raise(j) => Kept(j)
         /\ Cancel(j) => Kept(j)
         /\ RefundFails(j) => Kept(j)
         /\ Kill(j) => Kept(j)
         /\ Heal(j) => Kept(j)
<1> USE DEF Running, Unwinding, Kept, Spends, Exposed, JobOK, Books, NoLoss, Kinds, Free, Goto,
            TypeOK, rowVars, runVars
<1>1. ASSUME EnqueueAuto(j) PROVE Kept(j)
  BY <1>1 DEF EnqueueAuto, Enqueue
<1>2. ASSUME EnqueueManual(j) PROVE Kept(j)
  BY <1>2 DEF EnqueueManual, Enqueue
<1>3. ASSUME MakeReady(j) PROVE Kept(j)
  BY <1>3 DEF MakeReady, SetStatus, Enqueue, Use
<1>4. ASSUME LoseInterest(j) PROVE Kept(j)
  BY <1>4 DEF LoseInterest
<1>5. ASSUME Begin(j) PROVE Kept(j)
  BY <1>5 DEF Begin
<1>6. ASSUME Skip(j) PROVE Kept(j)
  BY <1>6 DEF Skip, End, Forget
<1>7. ASSUME LoadFails(j) PROVE Kept(j)
  BY <1>7 DEF LoadFails, End, Forget
<1>8. ASSUME NotEligible(j) PROVE Kept(j)
  BY <1>8 DEF NotEligible, End, Forget, SetStatus
<1>9. ASSUME Admit(j) PROVE Kept(j)
  BY <1>9 DEF Admit
<1>10. ASSUME ChargeNothing(j) PROVE Kept(j)
  BY <1>10 DEF ChargeNothing
<1>11. ASSUME ChargeOne(j) PROVE Kept(j)
  BY <1>11 DEF ChargeOne, TakeCredit
<1>12. ASSUME OutOfCredits(j) PROVE Kept(j)
  BY <1>12 DEF OutOfCredits, End, Forget, SetStatus
<1>13. ASSUME MarkGenerating(j) PROVE Kept(j)
  BY <1>13 DEF MarkGenerating, SetStatus
<1>14. ASSUME Generated(j) PROVE Kept(j)
  BY <1>14 DEF Generated
<1>15. ASSUME GenerateFails(j) PROVE Kept(j)
  BY <1>15 DEF GenerateFails, SetStatus
<1>16. ASSUME StoreContent(j) PROVE Kept(j)
  BY <1>16 DEF StoreContent, SetStatus
<1>17. ASSUME MarkStored(j) PROVE Kept(j)
  BY <1>17 DEF MarkStored
<1>18. ASSUME Finish(j) PROVE Kept(j)
  BY <1>18 DEF Finish, End, Forget
<1>19. ASSUME CleanUp(j) PROVE Kept(j)
  BY <1>19 DEF CleanUp, SetStatus
<1>20. ASSUME Refund(j) PROVE Kept(j)
  BY <1>20 DEF Refund, GiveBack, End, Forget
<1>21. ASSUME NothingToRefund(j) PROVE Kept(j)
  BY <1>21 DEF NothingToRefund, End, Forget
<1>22. ASSUME WrapUp(j) PROVE Kept(j)
  BY <1>22 DEF WrapUp, Requeued, Forget, SetStatus
<1>23. ASSUME Raise(j) PROVE Kept(j)
  BY <1>23 DEF Raise, Interrupted, Use
<1>24. ASSUME Cancel(j) PROVE Kept(j)
  BY <1>24 DEF Cancel, Interrupted, Use
<1>25. ASSUME RefundFails(j) PROVE Kept(j)
  BY <1>25 DEF RefundFails, Use, End, Forget
<1>26. ASSUME Kill(j) PROVE Kept(j)
  BY <1>26 DEF Kill, Use, Requeued, Forget
<1>27. ASSUME Heal(j) PROVE Kept(j)
  BY <1>27 DEF Heal, SetStatus
<1> QED BY <1>1, <1>2, <1>3, <1>4, <1>5, <1>6, <1>7, <1>8, <1>9, <1>10, <1>11, <1>12, <1>13,
           <1>14, <1>15, <1>16, <1>17, <1>18, <1>19, <1>20, <1>21, <1>22, <1>23, <1>24, <1>25,
           <1>26, <1>27

LEMMA StudioStep ==
  ASSUME TypeOK, Grant \/ \E s \in Studios : \/ ChargeTailoring(s) \/ Tailored(s)
                                             \/ RefundTailoring(s) \/ StudioDies(s)
  PROVE  TypeOK' /\ \A k \in Jobs : Same(k)
<1> USE BoundAssumption
<1>1. CASE Grant
  BY <1>1, UseType DEF Grant, TypeOK, Same, NoLoss, Kinds, rowVars, runVars
<1>2. ASSUME NEW s \in Studios, ChargeTailoring(s) PROVE TypeOK' /\ \A k \in Jobs : Same(k)
  BY <1>2 DEF ChargeTailoring, SetStudio, TypeOK, Same, NoLoss, rowVars, runVars
<1>3. ASSUME NEW s \in Studios, Tailored(s) PROVE TypeOK' /\ \A k \in Jobs : Same(k)
  BY <1>3 DEF Tailored, SetStudio, TypeOK, Same, NoLoss, rowVars, runVars
<1>4. ASSUME NEW s \in Studios, RefundTailoring(s) PROVE TypeOK' /\ \A k \in Jobs : Same(k)
  BY <1>4 DEF RefundTailoring, SetStudio, TypeOK, Same, NoLoss, rowVars, runVars
<1>5. ASSUME NEW s \in Studios, StudioDies(s) PROVE TypeOK' /\ \A k \in Jobs : Same(k)
  BY <1>5, UseType DEF StudioDies, SetStudio, TypeOK, Same, NoLoss, Kinds, rowVars, runVars
<1> QED BY <1>1, <1>2, <1>3, <1>4, <1>5

\* JobOK speaks only of what Same compares.
LEMMA SameStaysOK ==
  ASSUME NEW k \in Jobs, JobOK(k), Same(k)
  PROVE  JobOK(k)'
  BY DEF JobOK, Books, Same

LEMMA Invariance == IInv /\ [Next]_vars => IInv'
<1> SUFFICES ASSUME IInv, [Next]_vars PROVE IInv'
  OBVIOUS
<1> USE DEF IInv, JobsOK
<1>1. ASSUME NEW j \in Jobs,
             \/ EnqueueAuto(j) \/ EnqueueManual(j) \/ MakeReady(j) \/ LoseInterest(j)
             \/ Step(j) \/ Interrupt(j) \/ Heal(j)
      PROVE  IInv'
  <2>1. TypeOK'
    BY <1>1, TypeOfJobStep DEF Step, Interrupt
  <2>2. ASSUME NEW k \in Jobs \ {j} PROVE Same(k)
    BY <1>1, OtherJobs DEF Step, Interrupt
  <2>3. JobOK(j)'
    BY <1>1, OwnJob DEF Step, Interrupt, Kept
  <2>4. \A k \in Jobs : JobOK(k)'
    BY <2>2, <2>3, SameStaysOK
  <2> QED BY <2>1, <2>4
<1>2. ASSUME \/ Grant
             \/ \E s \in Studios : \/ ChargeTailoring(s) \/ Tailored(s)
                                  \/ RefundTailoring(s) \/ StudioDies(s)
      PROVE  IInv'
  BY <1>2, StudioStep, SameStaysOK
<1>3. CASE UNCHANGED vars
  <2>1. TypeOK'
    BY <1>3 DEF vars, rowVars, runVars, TypeOK
  <2>2. ASSUME NEW k \in Jobs PROVE Same(k)
    BY <1>3 DEF vars, rowVars, runVars, Same, NoLoss
  <2> QED BY <2>1, <2>2, SameStaysOK
<1> QED BY <1>1, <1>2, <1>3 DEF Next

LEMMA Inductive == Spec => []IInv
<1>1. Init => IInv
  BY InitIInv
<1>2. IInv /\ [Next]_vars => IInv'
  BY Invariance
<1> QED BY <1>1, <1>2, PTL DEF Spec

\* Every variable keeps its type; above all the balance is never negative,
\* whatever runs and tailorings spend it at once (add_credits).
THEOREM Typing == Spec => []TypeOK
<1>1. IInv => TypeOK
  BY DEF IInv
<1> QED BY <1>1, Inductive, PTL

\* A job has cost one credit or none, however often its runs were repeated,
\* cancelled or killed (charge_job_preparation, refund_job_preparation).
THEOREM OneCredit == Spec => []OneCreditPerJob
<1>1. IInv => OneCreditPerJob
  BY DEF IInv, JobsOK, JobOK, OneCreditPerJob
<1> QED BY <1>1, Inductive, PTL

\* Content is generated only for jobs that are prepared already or paid for
\* at that moment (run_tailored_content_generation).
THEOREM PaidWork == Spec => []WorkIsPaid
<1>1. IInv => WorkIsPaid
  BY DEF IInv, TypeOK, JobsOK, JobOK, WorkIsPaid
<1> QED BY <1>1, Inductive, PTL

\* Without a death, an interrupted commit or a failed refund, a job at rest
\* is paid for exactly if it has its documents, whatever runs raised or were
\* cancelled between commits.
THEOREM LedgerAgrees == Spec => []PaidIffPrepared
<1>1. IInv => PaidIffPrepared
  <2> SUFFICES ASSUME IInv, faults["acks"] + faults["kills"] + faults["refundFails"] = 0,
                      NEW j \in Jobs, AtRest(j)
               PROVE  net[j] = -1 <=> content[j]
    BY DEF PaidIffPrepared
  <2>1. NoLoss
    BY DEF IInv, TypeOK, Kinds, NoLoss
  <2> QED BY <2>1 DEF IInv, JobsOK, JobOK, Books, AtRest
<1> QED BY <1>1, Inductive, PTL

\* Finitely many jobs are exposed, no more than commits were interrupted.
ExposedJobs == {j \in Jobs : Exposed(j)}
GiftsOK == IsFiniteSet(ExposedJobs) /\ Cardinality(ExposedJobs) <= faults["acks"]

LEMMA GiftsCounted ==
  ASSUME TypeOK, TypeOK', GiftsOK,
         \/ ExposedJobs' \subseteq ExposedJobs /\ faults'["acks"] \in {faults["acks"], faults["acks"] + 1}
         \/ \E j : ExposedJobs' \subseteq ExposedJobs \cup {j} /\ faults'["acks"] = faults["acks"] + 1
  PROVE  GiftsOK'
<1>1. faults["acks"] \in Nat /\ faults'["acks"] \in Nat
  BY DEF TypeOK, Kinds
<1>2. IsFiniteSet(ExposedJobs) /\ Cardinality(ExposedJobs) \in Nat
  BY FS_CardinalityType DEF GiftsOK
<1>3. PICK S : /\ ExposedJobs' \subseteq S /\ IsFiniteSet(S) /\ Cardinality(S) \in Nat
               /\ Cardinality(S) <= faults'["acks"]
  <2>1. CASE ExposedJobs' \subseteq ExposedJobs /\ faults'["acks"] \in {faults["acks"], faults["acks"] + 1}
    BY <1>1, <1>2, <2>1 DEF GiftsOK
  <2>2. ASSUME NEW j, ExposedJobs' \subseteq ExposedJobs \cup {j}, faults'["acks"] = faults["acks"] + 1
        PROVE  \E S : /\ ExposedJobs' \subseteq S /\ IsFiniteSet(S) /\ Cardinality(S) \in Nat
                      /\ Cardinality(S) <= faults'["acks"]
    <3>1. /\ IsFiniteSet(ExposedJobs \cup {j})
          /\ \/ Cardinality(ExposedJobs \cup {j}) = Cardinality(ExposedJobs)
             \/ Cardinality(ExposedJobs \cup {j}) = Cardinality(ExposedJobs) + 1
      BY <1>2, FS_AddElement
    <3> QED BY <1>1, <1>2, <2>2, <3>1 DEF GiftsOK
  <2> QED BY <2>1, <2>2
<1>4. IsFiniteSet(ExposedJobs') /\ Cardinality(ExposedJobs') <= Cardinality(S)
  BY <1>3, FS_Subset
<1>5. Cardinality(ExposedJobs') \in Nat
  BY <1>4, FS_CardinalityType
<1> QED BY <1>1, <1>3, <1>4, <1>5 DEF GiftsOK

LEMMA GiftsStep ==
  ASSUME IInv, TypeOK', GiftsOK, [Next]_vars
  PROVE  GiftsOK'
<1> USE DEF IInv, JobsOK
<1>1. ASSUME NEW k \in Jobs, Same(k) PROVE Exposed(k)' = Exposed(k)
  BY <1>1 DEF Same, Exposed
<1>2. ASSUME NEW j \in Jobs,
             \/ EnqueueAuto(j) \/ EnqueueManual(j) \/ MakeReady(j) \/ LoseInterest(j)
             \/ Step(j) \/ Interrupt(j) \/ Heal(j)
      PROVE  GiftsOK'
  <2>1. ASSUME NEW k \in Jobs \ {j} PROVE Exposed(k)' = Exposed(k)
    BY <1>1, <1>2, OtherJobs DEF Step, Interrupt
  <2>2. Spends(j)
    BY <1>2, OwnJob DEF Step, Interrupt, Kept
  <2>3. ExposedJobs' \subseteq ExposedJobs \/ faults'["acks"] = faults["acks"] + 1
    BY <2>1, <2>2 DEF Spends, ExposedJobs
  <2>4. ExposedJobs' \subseteq ExposedJobs \cup {j}
    BY <2>1 DEF ExposedJobs
  <2> QED BY <2>2, <2>3, <2>4, GiftsCounted DEF Spends
<1>3. ASSUME \/ Grant
             \/ \E s \in Studios : \/ ChargeTailoring(s) \/ Tailored(s)
                                  \/ RefundTailoring(s) \/ StudioDies(s)
             \/ UNCHANGED vars
      PROVE  GiftsOK'
  <2>1. \A k \in Jobs : Same(k)
    BY <1>3, StudioStep DEF vars, rowVars, runVars, Same, NoLoss
  <2>2. ExposedJobs' \subseteq ExposedJobs
    BY <1>1, <2>1 DEF ExposedJobs
  <2>3. faults'["acks"] = faults["acks"]
    BY <1>3 DEF Grant, ChargeTailoring, Tailored, RefundTailoring, StudioDies, Use, Kinds,
       TypeOK, vars
  <2> QED BY <2>2, <2>3, GiftsCounted
<1> QED BY <1>2, <1>3 DEF Next

\* No more preparations are given away than commits were interrupted while they
\* were acknowledged: neither an error, a cancellation, a death nor a refund that
\* fails can make the documents of a job free (the finally block of
\* run_tailored_content_generation knows what it stored in every other case).
THEOREM GiftsAreCounted == Spec => []GiftPerInterruptedCommit
<1>1. Init => GiftsOK
  <2> SUFFICES ASSUME Init PROVE GiftsOK
    OBVIOUS
  <2>1. ExposedJobs = {} /\ faults["acks"] = 0
    BY DEF Init, ExposedJobs, Exposed, Kinds
  <2> QED BY <2>1, FS_EmptySet DEF GiftsOK
<1>2. IInv /\ IInv' /\ GiftsOK /\ [Next]_vars => GiftsOK'
  BY GiftsStep DEF IInv
<1>3. IInv /\ GiftsOK => GiftPerInterruptedCommit
  <2> SUFFICES ASSUME IInv, GiftsOK PROVE GiftPerInterruptedCommit
    OBVIOUS
  <2>1. Gifts \subseteq ExposedJobs
    BY DEF Gifts, ExposedJobs, Exposed
  <2>2. IsFiniteSet(Gifts) /\ Cardinality(Gifts) <= Cardinality(ExposedJobs)
    BY <2>1, FS_Subset DEF GiftsOK
  <2>3. Cardinality(Gifts) \in Nat /\ Cardinality(ExposedJobs) \in Nat /\ faults["acks"] \in Nat
    BY <2>2, FS_CardinalityType DEF GiftsOK, IInv, TypeOK, Kinds
  <2> QED BY <2>2, <2>3 DEF GiftsOK, GiftPerInterruptedCommit
<1> QED BY <1>1, <1>2, <1>3, Inductive, PTL DEF Spec
=============================================================================
