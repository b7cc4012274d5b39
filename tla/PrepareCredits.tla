---------------------------- MODULE PrepareCredits ----------------------------
(***************************************************************************)
(* What one user pays for preparing jobs: the charge, the generation of    *)
(* the tailored content, the refund, and the runs that do not get to their *)
(* end (app/services/credit_service.py, run_tailored_content_generation in *)
(* job_match_orchestrator.py, generate_tailored_content in worker.py,      *)
(* ResumeBuildRepository, heal_stale_pipeline_state).                      *)
(*                                                                         *)
(* The arq id tailor:{job}:{user} admits one run per job at a time, so a   *)
(* run is named by its job; runs of several jobs and tailorings in Resume  *)
(* studio spend the same balance.  One step is one transaction, one LLM    *)
(* call, or the point between a commit and the assignment that records it. *)
(***************************************************************************)
EXTENDS Integers, FiniteSets

CONSTANTS Jobs,           \* jobs of the user
          Studios,        \* tailorings of a pasted description
          Credits,        \* the balance at the start
          MaxTries,       \* tailoring_worker_max_tries
          MaxGrants,      \* bound: credits that arrive
          MaxErrors,      \* bound: exceptions and cancellations between commits
          MaxAcks,        \* bound: those that hit a commit being acknowledged
          MaxKills,       \* bound: worker deaths
          MaxRefundFails  \* bound: refunds that raise

ASSUME CreditsAssumption == Credits \in Nat /\ MaxTries \in Nat \ {0}
ASSUME BoundAssumption ==
  /\ MaxGrants \in Nat /\ MaxErrors \in Nat /\ MaxAcks \in Nat
  /\ MaxKills \in Nat /\ MaxRefundFails \in Nat

VARIABLES balance,   \* User.credit_balance
          net,       \* ledger sum of job_prepare and job_prepare_refund
          content,   \* whether the job has content (_has_content)
          status,    \* content_generation_status, "none" without a row
          interest,  \* whether the user still wants documents for the job
          pc,        \* where the run of the job is, "none" without one
          manual,    \* the run was asked for by the user
          owes,      \* locals of the run: charged and not stored
          exit,      \* how the run ends: by itself, cancelled, to be run again
          tries,     \* arq's job_try
          studio,    \* where each tailoring is
          faults     \* how much of each bound is used

runVars == <<pc, manual, owes, exit, tries>>
rowVars == <<content, status>>
vars == <<balance, net, rowVars, interest, runVars, studio, faults>>

Running == {"gate", "charge", "paid", "generate", "store", "stored", "deliver"}
Unwinding == {"cancelled", "refund", "wrapUp"}
States == Running \cup Unwinding \cup {"none", "queued"}
Exits == {"normal", "cancelled", "again"}
Statuses == {"none", "pending", "processing", "completed", "failed", "skipped"}
InFlight == {"pending", "processing"}

Kinds == {"grants", "errors", "acks", "kills", "refundFails"}
Use(kind, bound) == /\ faults[kind] < bound
                    /\ faults' = [faults EXCEPT ![kind] = @ + 1]

Init ==
  /\ balance = Credits
  /\ net = [j \in Jobs |-> 0]
  /\ content = [j \in Jobs |-> FALSE]
  /\ status = [j \in Jobs |-> "none"]
  /\ interest = [j \in Jobs |-> "wanted"]
  /\ pc = [j \in Jobs |-> "none"]
  /\ manual = [j \in Jobs |-> FALSE]
  /\ owes = [j \in Jobs |-> FALSE]
  /\ exit = [j \in Jobs |-> "normal"]
  /\ tries = [j \in Jobs |-> 0]
  /\ studio = [s \in Studios |-> "idle"]
  /\ faults = [k \in Kinds |-> 0]

Goto(j, where) == pc' = [pc EXCEPT ![j] = where]

SetStatus(j, s) == status' = [status EXCEPT ![j] = s]

\* What arq kept of a run goes with it.
Forget(j) ==
  /\ manual' = [manual EXCEPT ![j] = FALSE]
  /\ tries' = [tries EXCEPT ![j] = 0]

\* The run is over; generate_tailored_content still handles a cancelled one.
End(j) ==
  /\ Goto(j, IF exit[j] = "normal" THEN "none" ELSE "wrapUp")
  /\ owes' = [owes EXCEPT ![j] = FALSE]
  /\ IF exit[j] = "normal" THEN Forget(j) ELSE UNCHANGED <<manual, tries>>
  /\ UNCHANGED exit

\* Mutant: a build row counts as content, whatever is in it.
FreeIfRow(j) == status[j] # "none" \/ net[j] < 0

\* Already prepared, or paid for and not refunded.
Free(j) == content[j] \/ net[j] < 0

CanPrepare(j) == balance >= 1 \/ Free(j)

(***************************************************************************)
(* Asking for a run.  arq does not queue a job id that is still in flight. *)
(***************************************************************************)

Enqueue(j, byUser) ==
  IF pc[j] = "none"
  THEN /\ Goto(j, "queued")
       /\ manual' = [manual EXCEPT ![j] = byUser]
       /\ UNCHANGED <<owes, exit, tries>>
  ELSE UNCHANGED runVars

\* After a save, or from the auto-prepare backfill.
EnqueueAuto(j) ==
  /\ CanPrepare(j) /\ Enqueue(j, FALSE)
  /\ UNCHANGED <<balance, net, rowVars, interest, studio, faults>>

\* trigger_resume_build.  Content of the other resume mode is written anew;
\* content of this mode is only rebuilt into files, which is not modelled.
EnqueueManual(j) ==
  /\ CanPrepare(j) /\ Enqueue(j, TRUE)
  /\ UNCHANGED <<balance, net, rowVars, interest, studio, faults>>

\* queue_scored_jobs_ready writes a placeholder, then queues.  Its budget is
\* read once for the whole batch, so the balance may be gone by now.
MakeReady(j) ==
  /\ status[j] \notin InFlight
  /\ \/ SetStatus(j, "pending") /\ Enqueue(j, TRUE) /\ UNCHANGED faults
     \/ SetStatus(j, "failed") /\ Use("errors", MaxErrors) /\ UNCHANGED runVars
  /\ UNCHANGED <<balance, net, content, interest, studio>>

\* The user hides the job or applies to it, at any time.
LoseInterest(j) ==
  /\ interest[j] = "wanted"
  /\ \E i \in {"applied", "hidden"} : interest' = [interest EXCEPT ![j] = i]
  /\ UNCHANGED <<balance, net, rowVars, runVars, studio, faults>>

(***************************************************************************)
(* run_tailored_content_generation.                                        *)
(***************************************************************************)

Begin(j) ==
  /\ pc[j] = "queued" /\ Goto(j, "gate")
  /\ tries' = [tries EXCEPT ![j] = @ + 1]
  /\ UNCHANGED <<balance, net, rowVars, interest, manual, owes, exit, studio, faults>>

Unwanted(j) == interest[j] = "hidden" \/ (interest[j] = "applied" /\ ~manual[j])

Skip(j) ==
  /\ pc[j] = "gate" /\ Unwanted(j) /\ End(j)
  /\ status' = IF content[j] THEN status ELSE [status EXCEPT ![j] = "skipped"]
  /\ UNCHANGED <<balance, net, content, interest, studio, faults>>

\* The job, its extraction or its text is gone: nothing is written.
LoadFails(j) ==
  /\ pc[j] = "gate" /\ ~Unwanted(j) /\ End(j)
  /\ UNCHANGED <<balance, net, rowVars, interest, studio, faults>>

\* No profile text, or the page is not a job posting.
NotEligible(j) ==
  /\ pc[j] = "gate" /\ ~Unwanted(j) /\ End(j) /\ SetStatus(j, "skipped")
  /\ UNCHANGED <<balance, net, content, interest, studio, faults>>

Admit(j) ==
  /\ pc[j] = "gate" /\ ~Unwanted(j) /\ Goto(j, "charge")
  /\ UNCHANGED <<balance, net, rowVars, interest, manual, owes, exit, tries, studio, faults>>

\* charge_job_preparation, one transaction with the user row locked.
ChargeNothing(j) ==
  /\ pc[j] = "charge" /\ Free(j) /\ Goto(j, "paid")
  /\ UNCHANGED <<balance, net, rowVars, interest, manual, owes, exit, tries, studio, faults>>

\* Mutant: the balance is not asked.
TakeCredit(j, mayTake) ==
  /\ pc[j] = "charge" /\ mayTake /\ Goto(j, "paid")
  /\ balance' = balance - 1
  /\ net' = [net EXCEPT ![j] = @ - 1]
  /\ owes' = [owes EXCEPT ![j] = TRUE]
  /\ UNCHANGED <<rowVars, interest, manual, exit, tries, studio, faults>>

ChargeOne(j) == TakeCredit(j, ~Free(j) /\ balance >= 1)

OutOfCredits(j) ==
  /\ pc[j] = "charge" /\ ~Free(j) /\ balance < 1 /\ End(j) /\ SetStatus(j, "failed")
  /\ UNCHANGED <<balance, net, content, interest, studio, faults>>

MarkGenerating(j) ==
  /\ pc[j] = "paid" /\ Goto(j, "generate") /\ SetStatus(j, "processing")
  /\ UNCHANGED <<balance, net, content, interest, manual, owes, exit, tries, studio, faults>>

Generated(j) ==
  /\ pc[j] = "generate" /\ Goto(j, "store")
  /\ UNCHANGED <<balance, net, rowVars, interest, manual, owes, exit, tries, studio, faults>>

\* Mutant: the failure returns past the refund.
GenerateFailsUnrefunded(j) ==
  /\ pc[j] = "generate" /\ End(j) /\ SetStatus(j, "failed")
  /\ UNCHANGED <<balance, net, content, interest, studio, faults>>

\* The providers failed, or the sections are missing.
GenerateFails(j) ==
  /\ pc[j] = "generate" /\ Goto(j, "refund") /\ SetStatus(j, "failed")
  /\ UNCHANGED <<balance, net, content, interest, manual, owes, exit, tries, studio, faults>>

StoreContent(j) ==
  /\ pc[j] = "store" /\ Goto(j, "stored") /\ SetStatus(j, "completed")
  /\ content' = [content EXCEPT ![j] = TRUE]
  /\ UNCHANGED <<balance, net, interest, manual, owes, exit, tries, studio, faults>>

\* Mutant: the run forgets that it stored.
StoredForgotten(j) ==
  /\ pc[j] = "stored" /\ Goto(j, "refund")
  /\ UNCHANGED <<balance, net, rowVars, interest, manual, owes, exit, tries, studio, faults>>

\* stored = True.
MarkStored(j) ==
  /\ pc[j] = "stored" /\ Goto(j, "deliver")
  /\ owes' = [owes EXCEPT ![j] = FALSE]
  /\ UNCHANGED <<balance, net, rowVars, interest, manual, exit, tries, studio, faults>>

\* The event is published and the document build enqueued.
Finish(j) ==
  /\ pc[j] = "deliver" /\ End(j)
  /\ UNCHANGED <<balance, net, rowVars, interest, studio, faults>>

(***************************************************************************)
(* Runs that are interrupted.                                              *)
(***************************************************************************)

\* Between two commits; or in a commit that succeeds without the run learning
\* of it: it then does not know that it charged, or that it stored.
Interrupted(j) ==
  \/ /\ pc[j] \in Running \ {"stored"} /\ Use("errors", MaxErrors)
     /\ UNCHANGED owes
  \/ /\ pc[j] \in {"paid", "stored"} /\ Use("acks", MaxAcks)
     /\ owes' = [owes EXCEPT ![j] = pc[j] = "stored" /\ @]

\* An exception leaves the body for the finally block: no status is written.
Raise(j) ==
  /\ Interrupted(j) /\ Goto(j, "refund")
  /\ UNCHANGED <<balance, net, rowVars, interest, manual, exit, tries, studio>>

\* Job timeout (not run again), or shutdown of the worker (run again).
Cancel(j) ==
  /\ Interrupted(j) /\ Goto(j, "cancelled")
  /\ \E e \in {"cancelled", "again"} : exit' = [exit EXCEPT ![j] = e]
  /\ UNCHANGED <<balance, net, rowVars, interest, manual, tries, studio>>

\* Mutant: a cancelled run leaves past the refund.
CancelUnrefunded(j) ==
  /\ pc[j] = "cancelled" /\ End(j) /\ SetStatus(j, "failed")
  /\ UNCHANGED <<balance, net, content, interest, studio, faults>>

\* "Cancelled or timed out", written even over content that is there.
CleanUp(j) ==
  /\ pc[j] = "cancelled" /\ Goto(j, "refund") /\ SetStatus(j, "failed")
  /\ UNCHANGED <<balance, net, content, interest, manual, owes, exit, tries, studio, faults>>

\* The same once more in generate_tailored_content; then arq's decision.
Requeued(j) ==
  IF exit[j] # "cancelled" /\ tries[j] < MaxTries
  THEN Goto(j, "queued") /\ UNCHANGED <<manual, tries>>
  ELSE Goto(j, "none") /\ Forget(j)

WrapUp(j) ==
  /\ pc[j] = "wrapUp" /\ Requeued(j) /\ SetStatus(j, "failed")
  /\ exit' = [exit EXCEPT ![j] = "normal"]
  /\ UNCHANGED <<balance, net, content, interest, owes, studio, faults>>

GiveBack(j, mayGive) ==
  /\ pc[j] = "refund" /\ mayGive /\ End(j)
  /\ balance' = balance + 1
  /\ net' = [net EXCEPT ![j] = @ + 1]
  /\ UNCHANGED <<rowVars, interest, studio, faults>>
\* Mutant: a run that was free is refunded too.
RefundAlways(j) == GiveBack(j, TRUE)

\* refund_job_preparation, one transaction.
Refund(j) == GiveBack(j, owes[j])

NothingToRefund(j) ==
  /\ pc[j] = "refund" /\ ~owes[j] /\ End(j)
  /\ UNCHANGED <<balance, net, rowVars, interest, studio, faults>>

\* Logged only; the credit stays taken, so the next run is free.
RefundFails(j) ==
  /\ pc[j] = "refund" /\ owes[j] /\ Use("refundFails", MaxRefundFails) /\ End(j)
  /\ UNCHANGED <<balance, net, rowVars, interest, studio>>

\* The worker dies: no finally block runs.  arq runs the job again while it
\* has tries left, once the in-progress key of the dead worker has expired.
Kill(j) ==
  /\ pc[j] \in Running \cup Unwinding /\ Use("kills", MaxKills)
  /\ Requeued(j)
  /\ owes' = [owes EXCEPT ![j] = FALSE]
  /\ exit' = [exit EXCEPT ![j] = "normal"]
  /\ UNCHANGED <<balance, net, rowVars, interest, studio>>

\* Mutant: the rows that wait are healed, those being written are not.
HealPending(j) ==
  /\ status[j] = "pending" /\ pc[j] = "none"
  /\ SetStatus(j, "failed")
  /\ UNCHANGED <<balance, net, content, interest, runVars, studio, faults>>

\* heal_stale_pipeline_state: "processing" for 900 s; a run lasts at most 480 s,
\* so the row is that of a run long over.
Heal(j) ==
  /\ status[j] = "processing" /\ pc[j] \in {"none", "queued", "gate", "charge", "paid"}
  /\ SetStatus(j, "failed")
  /\ UNCHANGED <<balance, net, content, interest, runVars, studio, faults>>

(***************************************************************************)
(* The rest of the account: credits that arrive, and Resume studio.        *)
(***************************************************************************)

Grant ==
  /\ Use("grants", MaxGrants) /\ balance' = balance + 1
  /\ UNCHANGED <<net, rowVars, interest, runVars, studio>>

SetStudio(s, where) == studio' = [studio EXCEPT ![s] = where]

\* charge_tailoring.
ChargeTailoring(s) ==
  /\ studio[s] = "idle" /\ balance >= 1 /\ SetStudio(s, "working")
  /\ balance' = balance - 1
  /\ UNCHANGED <<net, rowVars, interest, runVars, faults>>

Tailored(s) ==
  /\ studio[s] = "working" /\ SetStudio(s, "delivered")
  /\ UNCHANGED <<balance, net, rowVars, interest, runVars, faults>>

\* refund_tailoring, in the finally block.
RefundTailoring(s) ==
  /\ studio[s] = "working" /\ SetStudio(s, "idle")
  /\ balance' = balance + 1
  /\ UNCHANGED <<net, rowVars, interest, runVars, faults>>

\* The process dies or the refund raises: the credit is gone.
StudioDies(s) ==
  /\ studio[s] = "working" /\ Use("kills", MaxKills) /\ SetStudio(s, "lost")
  /\ UNCHANGED <<balance, net, rowVars, interest, runVars>>

Step(j) == \/ Begin(j) \/ Skip(j) \/ LoadFails(j) \/ NotEligible(j) \/ Admit(j)
           \/ ChargeNothing(j) \/ ChargeOne(j) \/ OutOfCredits(j)
           \/ MarkGenerating(j) \/ Generated(j) \/ GenerateFails(j)
           \/ StoreContent(j) \/ MarkStored(j) \/ Finish(j)
           \/ CleanUp(j) \/ Refund(j) \/ NothingToRefund(j) \/ WrapUp(j)

Interrupt(j) == Raise(j) \/ Cancel(j) \/ RefundFails(j) \/ Kill(j)

Next == \/ \E j \in Jobs : \/ EnqueueAuto(j) \/ EnqueueManual(j) \/ MakeReady(j)
                           \/ LoseInterest(j) \/ Step(j) \/ Interrupt(j) \/ Heal(j)
        \/ Grant
        \/ \E s \in Studios : \/ ChargeTailoring(s) \/ Tailored(s)
                              \/ RefundTailoring(s) \/ StudioDies(s)

Spec == Init /\ [][Next]_vars

\* Workers take queued jobs and go on with them; workers start from time to
\* time, and heal.
FairSpec == Spec /\ \A j \in Jobs : WF_vars(Step(j)) /\ WF_vars(Heal(j))
-----------------------------------------------------------------------------
TypeOK ==
  /\ balance \in Nat /\ net \in [Jobs -> Int]
  /\ content \in [Jobs -> BOOLEAN] /\ status \in [Jobs -> Statuses]
  /\ interest \in [Jobs -> {"wanted", "applied", "hidden"}]
  /\ pc \in [Jobs -> States]
  /\ manual \in [Jobs -> BOOLEAN] /\ owes \in [Jobs -> BOOLEAN]
  /\ exit \in [Jobs -> Exits] /\ tries \in [Jobs -> Nat]
  /\ studio \in [Studios -> {"idle", "working", "delivered", "lost"}]
  /\ faults \in [Kinds -> Nat]

AtRest(j) == pc[j] = "none"

\* "One credit prepares one job": over any runs, reruns, cancellations and
\* deaths a job has cost one credit or none, and no credit is given back twice.
OneCreditPerJob == \A j \in Jobs : net[j] \in {-1, 0}

\* When no commit is interrupted and nobody dies, a job that is left alone is
\* paid for exactly if it has its documents: "a preparation that fails gives
\* the credit back, and preparing a job again once it has content is free".
PaidIffPrepared ==
  faults["acks"] + faults["kills"] + faults["refundFails"] = 0 =>
    \A j \in Jobs : AtRest(j) => (net[j] = -1 <=> content[j])

Gifts == {j \in Jobs : content[j] /\ net[j] = 0}
\* Documents are given away only where a commit was interrupted.
GiftPerInterruptedCommit == Cardinality(Gifts) <= faults["acks"]

\* No content is generated or stored for a job that is neither prepared
\* already nor paid for at that moment (run_tailored_content_generation charges
\* first, and nothing may give the credit back while the run works).
WorkIsPaid ==
  \A j \in Jobs : pc[j] \in {"generate", "store"} => content[j] \/ net[j] < 0

\* Stuck "processing" rows do not stay: a run ends them, or the heal does.
ProcessingEnds ==
  \A j \in Jobs : status[j] = "processing" ~> status[j] # "processing"
=============================================================================
