------------------------------ MODULE SaveDrain ------------------------------
(***************************************************************************)
(* The per-user save drain of app/tasks/worker.py: how completed match     *)
(* analyses of one user reach the database.                                *)
(*                                                                         *)
(* Every completed analysis is handed to an arq job that appends its       *)
(* payload to the Redis list job_save_queue:{user}.  Whoever then wins     *)
(* SET job_save_lock:{user} NX EX pops and saves queued items one by one,  *)
(* releases the lock and runs the after-save work of the batch.  A caller  *)
(* that finds the lock busy schedules a deferred, payload-free drain.      *)
(*                                                                         *)
(* A payload call is named by the analysis it carries; Drains are the arq  *)
(* slots of payload-free drains.  One step is one Redis round trip, one    *)
(* database transaction or one after-save of one item.  Time is counted in *)
(* ticks: a job is cancelled at JobTimeout, a lock key dies at LockTTL.    *)
(***************************************************************************)
EXTENDS Naturals, Sequences, FiniteSets

CONSTANTS Analyses,      \* completed analyses of the one user
          Drains,        \* job slots for payload-free drains
          Batch,         \* SAVE_DRAIN_BATCH
          JobTimeout,    \* SaveWorkerSettings.job_timeout, in ticks
          LockTTL,       \* SAVE_LOCK_TTL_SECONDS, in ticks
          None,          \* no item in hand
          MaxTransients, \* bound: transient database errors
          MaxStops,      \* bound: cancelled, killed or Redis-failed calls
          MaxSchedFails, \* bound: deferred drains that could not be enqueued
          MaxInline      \* bound: saves run in process, without Redis

ASSUME ProcsAssumption == Analyses \cap Drains = {} /\ None \notin Analyses
ASSUME BatchAssumption == Batch \in Nat \ {0}
\* worker.py: SAVE_LOCK_TTL_SECONDS = 300, SaveWorkerSettings.job_timeout = 180.
ASSUME TimeAssumption == JobTimeout \in Nat /\ LockTTL \in Nat /\ JobTimeout < LockTTL
ASSUME BoundAssumption == /\ MaxTransients \in Nat /\ MaxStops \in Nat
                          /\ MaxSchedFails \in Nat /\ MaxInline \in Nat

VARIABLES queue,     \* the list job_save_queue:{user}
          ttl,       \* whether that list carries its 24 h expiry
          lock,      \* whether the key job_save_lock:{user} exists
          lockAge,   \* ticks since the key was set
          pc,        \* where each call of save_analyzed_job is
          age,       \* ticks since the call started
          hand,      \* the item a call popped and has not finished with
          batch,     \* the items a call saved since it took the lock
          cursor,    \* items popped (in the loop) or announced (after it)
          requeue,   \* the call met a transient error in this round
          pushed,    \* history: analyses in the order they were pushed
          saved,     \* history: committed saves, in commit order
          failed,    \* history: analyses reported with match_failed
          announced, \* history: analyses whose after-save work ran
          expired,   \* history: analyses dropped with an expired list
          faults     \* history: how much of each bound is used

queueVars == <<queue, ttl>>
lockVars == <<lock, lockAge>>
callVars == <<age, hand, batch, cursor, requeue>>
history == <<pushed, saved, failed, announced, expired>>
vars == <<queueVars, lockVars, pc, callVars, history, faults>>

Procs == Analyses \cup Drains

Critical == {"pop", "save", "requeue", "release", "unwind"}
Running == Critical \cup {"lock", "busy", "after"}
States == Running \cup {"new", "queued", "inline", "idle", "done"}

\* The state of a call that has returned: a drain slot can be used again.
Ended(p) == IF p \in Analyses THEN "done" ELSE "idle"

Faults == {"transients", "stops", "schedFails", "inlines"}

Use(field, bound) == /\ faults[field] < bound
                     /\ faults' = [faults EXCEPT ![field] = @ + 1]

Init == /\ queue = <<>> /\ ttl = FALSE
        /\ lock = FALSE /\ lockAge = 0
        /\ pc = [p \in Procs |-> IF p \in Analyses THEN "new" ELSE "idle"]
        /\ age = [p \in Procs |-> 0]
        /\ hand = [p \in Procs |-> None]
        /\ batch = [p \in Procs |-> <<>>]
        /\ cursor = [p \in Procs |-> 0]
        /\ requeue = [p \in Procs |-> FALSE]
        /\ pushed = <<>> /\ saved = <<>>
        /\ failed = {} /\ announced = {} /\ expired = {}
        /\ faults = [f \in Faults |-> 0]

Goto(p, where) == pc' = [pc EXCEPT ![p] = where]

\* A call ends: its locals go with it.
Forget(p) == /\ age' = [age EXCEPT ![p] = 0]
             /\ hand' = [hand EXCEPT ![p] = None]
             /\ batch' = [batch EXCEPT ![p] = <<>>]
             /\ cursor' = [cursor EXCEPT ![p] = 0]
             /\ requeue' = [requeue EXCEPT ![p] = FALSE]

End(p) == Goto(p, Ended(p)) /\ Forget(p)

(***************************************************************************)
(* Handing over: _enqueue_save and the head of save_analyzed_job.          *)
(***************************************************************************)

\* The analysis finished; its save job is in the arq queue.  A job id still
\* in flight is retried under a fresh one, so the hand-over always succeeds.
EnqueueSave(a) ==
  /\ pc[a] = "new" /\ Goto(a, "queued")
  /\ UNCHANGED <<queueVars, lockVars, callVars, history, faults>>

\* rpush, expire.
Push(a) ==
  /\ pc[a] = "queued" /\ Goto(a, "lock")
  /\ queue' = Append(queue, a) /\ ttl' = TRUE
  /\ pushed' = Append(pushed, a)
  /\ UNCHANGED <<lockVars, callVars,
                 saved, failed, announced, expired, faults>>

\* arq starts a deferred payload-free drain.
StartDrain(d) ==
  /\ pc[d] = "queued" /\ Goto(d, "lock")
  /\ UNCHANGED <<queueVars, lockVars, callVars, history, faults>>

\* _schedule_save_drain at the end of call p: a new deferred drain, or one
\* already queued for the same poll window, to which the request collapses.
\* A drain that ends may take its own slot again.
EndAndSchedule(p) ==
  /\ \E d \in Drains :
       /\ d = p \/ pc[d] \in {"idle", "queued"}
       /\ pc' = [pc EXCEPT ![p] = Ended(p), ![d] = "queued"]
  /\ Forget(p)

(***************************************************************************)
(* The lock.                                                               *)
(***************************************************************************)

AcquireLock(p) ==
  /\ pc[p] = "lock" /\ ~lock
  /\ lock' = TRUE /\ lockAge' = 0
  /\ Goto(p, "pop")
  /\ batch' = [batch EXCEPT ![p] = <<>>]
  /\ cursor' = [cursor EXCEPT ![p] = 0]
  /\ requeue' = [requeue EXCEPT ![p] = FALSE]
  /\ UNCHANGED <<queueVars, age, hand, history, faults>>

LockBusy(p) ==
  /\ pc[p] = "lock" /\ lock /\ Goto(p, "busy")
  /\ UNCHANGED <<queueVars, lockVars, callVars, history, faults>>

DeferDrain(p) ==
  /\ pc[p] = "busy" /\ EndAndSchedule(p)
  /\ UNCHANGED <<queueVars, lockVars, history, faults>>

\* The enqueue of the deferred drain raised: logged, and the call returns.
DeferFails(p) ==
  /\ pc[p] = "busy" /\ Use("schedFails", MaxSchedFails) /\ End(p)
  /\ UNCHANGED <<queueVars, lockVars, history>>

(***************************************************************************)
(* The loop over at most Batch items, under the lock.                      *)
(***************************************************************************)

PopItem(p) ==
  /\ pc[p] = "pop" /\ cursor[p] < Batch /\ queue # <<>>
  /\ hand' = [hand EXCEPT ![p] = Head(queue)]
  /\ queue' = Tail(queue) /\ ttl' = (ttl /\ Tail(queue) # <<>>)
  /\ cursor' = [cursor EXCEPT ![p] = @ + 1]
  /\ Goto(p, "save")
  /\ UNCHANGED <<lockVars, age, batch, requeue, history, faults>>

LeaveLoop(p) ==
  /\ pc[p] = "pop" /\ (cursor[p] = Batch \/ queue = <<>>)
  /\ Goto(p, "release")
  /\ UNCHANGED <<queueVars, lockVars, callVars, history, faults>>

SaveItem(p) ==
  /\ pc[p] = "save" /\ Goto(p, "pop")
  /\ saved' = Append(saved, hand[p])
  /\ batch' = [batch EXCEPT ![p] = Append(@, hand[p])]
  /\ hand' = [hand EXCEPT ![p] = None]
  /\ UNCHANGED <<queueVars, lockVars, age, cursor, requeue,
                 pushed, failed, announced, expired, faults>>

\* Any other error: the item is given up and reported.
SaveFails(p) ==
  /\ pc[p] = "save" /\ Goto(p, "pop")
  /\ failed' = failed \cup {hand[p]}
  /\ hand' = [hand EXCEPT ![p] = None]
  /\ UNCHANGED <<queueVars, lockVars, age, batch, cursor, requeue,
                 pushed, saved, announced, expired, faults>>

\* The connection dropped before the commit, or while it was acknowledged.
SaveTransient(p) ==
  /\ pc[p] = "save" /\ Use("transients", MaxTransients) /\ Goto(p, "requeue")
  /\ saved' \in {saved, Append(saved, hand[p])}
  /\ UNCHANGED <<queueVars, lockVars, callVars,
                 pushed, failed, announced, expired>>

PutBack(p, newQueue) ==
  /\ pc[p] = "requeue" /\ Goto(p, "release")
  /\ queue' = newQueue
  /\ hand' = [hand EXCEPT ![p] = None]
  /\ requeue' = [requeue EXCEPT ![p] = TRUE]
  /\ UNCHANGED <<ttl, lockVars, age, batch, cursor, history, faults>>

\* Mutants: rpush, or nothing is put back.
RequeueAtTail(p) == PutBack(p, Append(queue, hand[p]))
RequeueForgets(p) == PutBack(p, queue)

\* lpush: the item goes back to the head; a list it recreates has no expiry.
RequeueItem(p) == PutBack(p, <<hand[p]>> \o queue)

\* The finally block deletes the key, whoever set it.
ReleaseLock(p) ==
  /\ pc[p] = "release" /\ Goto(p, "after")
  /\ lock' = FALSE /\ lockAge' = 0
  /\ cursor' = [cursor EXCEPT ![p] = 0]
  /\ UNCHANGED <<queueVars, age, hand, batch, requeue, history, faults>>

(***************************************************************************)
(* After the lock: one _after_save per saved item, then loop or return.    *)
(***************************************************************************)

AfterSave(p) ==
  /\ pc[p] = "after" /\ cursor[p] < Len(batch[p])
  /\ announced' = announced \cup {batch[p][cursor[p] + 1]}
  /\ cursor' = [cursor EXCEPT ![p] = @ + 1]
  /\ UNCHANGED <<queueVars, lockVars, pc, age, hand, batch, requeue,
                 pushed, saved, failed, expired, faults>>

\* Mutant: the last saved item is not announced.
AfterBatchShort(p) == pc[p] = "after" /\ cursor[p] + 1 >= Len(batch[p])

AfterBatch(p) == pc[p] = "after" /\ cursor[p] = Len(batch[p])

\* Mutant: the item is put back and nobody is told.
ReturnAfterTransient(p) ==
  /\ AfterBatch(p) /\ requeue[p] /\ End(p)
  /\ UNCHANGED <<queueVars, lockVars, history, faults>>

ScheduleRetry(p) ==
  /\ AfterBatch(p) /\ requeue[p] /\ EndAndSchedule(p)
  /\ UNCHANGED <<queueVars, lockVars, history, faults>>

LoopAgain(p) ==
  /\ AfterBatch(p) /\ ~requeue[p] /\ (batch[p] # <<>> \/ queue # <<>>)
  /\ Goto(p, "lock")
  /\ UNCHANGED <<queueVars, lockVars, callVars, history, faults>>

Return(p) ==
  /\ AfterBatch(p) /\ ~requeue[p] /\ batch[p] = <<>> /\ queue = <<>>
  /\ End(p)
  /\ UNCHANGED <<queueVars, lockVars, history, faults>>

(***************************************************************************)
(* Without Redis: save at once, outside the lock.                          *)
(***************************************************************************)

StartInline(a) ==
  /\ pc[a] = "new" /\ Use("inlines", MaxInline) /\ Goto(a, "inline")
  /\ UNCHANGED <<queueVars, lockVars, callVars, history>>

SaveInline(a) ==
  /\ pc[a] = "inline" /\ Goto(a, "done")
  /\ \/ /\ saved' = Append(saved, a) /\ announced' = announced \cup {a} /\ UNCHANGED failed
     \/ failed' = failed \cup {a} /\ UNCHANGED <<saved, announced>>
  /\ UNCHANGED <<queueVars, lockVars, callVars,
                 pushed, expired, faults>>

(***************************************************************************)
(* Calls that do not run to their end.  A cancellation (job timeout,       *)
(* shutdown) or a Redis error leaves the body; only the finally block      *)
(* still runs.  The job is not run again: max_tries = 1.                   *)
(***************************************************************************)

\* Before rpush the payload exists only in the job; it ends with it.
AbortOutside(p) ==
  /\ pc[p] \in {"lock", "busy", "after", "inline"} \/ (p \in Analyses /\ pc[p] = "queued")
  /\ Use("stops", MaxStops) /\ End(p)
  /\ UNCHANGED <<queueVars, lockVars, history>>

\* Inside the try block: the item in hand is dropped, the lock is deleted.
AbortInside(p) ==
  /\ pc[p] \in {"pop", "save", "requeue"}
  /\ Use("stops", MaxStops) /\ Goto(p, "unwind")
  /\ hand' = [hand EXCEPT ![p] = None]
  /\ UNCHANGED <<queueVars, lockVars, age, batch, cursor, requeue, history>>

Unwind(p) ==
  /\ pc[p] = "unwind" /\ End(p)
  /\ lock' = FALSE /\ lockAge' = 0
  /\ UNCHANGED <<queueVars, history, faults>>

\* The worker dies, or the delete (or the reply to SET) is what was lost:
\* the key stays until it expires.
Kill(p) ==
  /\ pc[p] \in Critical
  /\ Use("stops", MaxStops) /\ End(p)
  /\ UNCHANGED <<queueVars, lockVars, history>>

(***************************************************************************)
(* Time.  arq cancels a call that reaches JobTimeout before time goes on.  *)
(***************************************************************************)

Tick ==
  /\ lock \/ \E p \in Procs : pc[p] \in Running
  /\ \A p \in Procs : pc[p] \in Running => age[p] < JobTimeout
  /\ lock => lockAge < LockTTL
  /\ age' = [p \in Procs |-> IF pc[p] \in Running THEN age[p] + 1 ELSE age[p]]
  /\ lockAge' = IF lock THEN lockAge + 1 ELSE lockAge
  /\ UNCHANGED <<queueVars, lock, pc, hand, batch, cursor, requeue, history, faults>>

\* Mutant: the key expires while a call may still run.
ExpireEarly ==
  /\ lock /\ lockAge = JobTimeout
  /\ lock' = FALSE /\ lockAge' = 0
  /\ UNCHANGED <<queueVars, pc, callVars, history, faults>>

ExpireLock ==
  /\ lock /\ lockAge = LockTTL
  /\ lock' = FALSE /\ lockAge' = 0
  /\ UNCHANGED <<queueVars, pc, callVars, history, faults>>

\* 24 h without a push: the list goes.  Jobs live for minutes, so by then
\* every call and every deferred drain is over.
ExpireQueue ==
  /\ queue # <<>> /\ ttl /\ ~lock
  /\ \A p \in Procs : pc[p] \in {"new", "idle", "done"}
  /\ expired' = expired \cup {queue[i] : i \in DOMAIN queue}
  /\ queue' = <<>> /\ ttl' = FALSE
  /\ UNCHANGED <<lockVars, pc, callVars, pushed, saved, failed, announced, faults>>

Work(p) == \/ AcquireLock(p) \/ LockBusy(p) \/ DeferDrain(p)
           \/ PopItem(p) \/ LeaveLoop(p) \/ SaveItem(p) \/ SaveFails(p)
           \/ SaveTransient(p) \/ RequeueItem(p) \/ ReleaseLock(p)
           \/ AfterSave(p) \/ ScheduleRetry(p) \/ LoopAgain(p) \/ Return(p)
           \/ Unwind(p)

Stop(p) == DeferFails(p) \/ AbortOutside(p) \/ AbortInside(p) \/ Kill(p)

Next == \/ \E a \in Analyses : \/ EnqueueSave(a) \/ Push(a)
                               \/ StartInline(a) \/ SaveInline(a)
        \/ \E d \in Drains : StartDrain(d)
        \/ \E p \in Procs : Work(p) \/ Stop(p)
        \/ Tick \/ ExpireLock \/ ExpireQueue

Spec == Init /\ [][Next]_vars

\* arq runs every queued job and every call goes on until it returns; time passes.
Fairness == /\ \A a \in Analyses : WF_vars(Push(a)) /\ WF_vars(SaveInline(a))
            /\ \A d \in Drains : WF_vars(StartDrain(d))
            /\ \A p \in Procs : WF_vars(Work(p))
            /\ WF_vars(Tick) /\ WF_vars(ExpireLock)

FairSpec == Spec /\ Fairness
-----------------------------------------------------------------------------
(***************************************************************************)
(* What the drain promises.                                                *)
(***************************************************************************)

TypeOK ==
  /\ queue \in Seq(Analyses) /\ ttl \in BOOLEAN
  /\ lock \in BOOLEAN /\ lockAge \in Nat
  /\ pc \in [Procs -> States]
  /\ age \in [Procs -> Nat]
  /\ hand \in [Procs -> Analyses \cup {None}]
  /\ batch \in [Procs -> Seq(Analyses)]
  /\ cursor \in [Procs -> Nat]
  /\ requeue \in [Procs -> BOOLEAN]
  /\ pushed \in Seq(Analyses) /\ saved \in Seq(Analyses)
  /\ failed \subseteq Analyses /\ announced \subseteq Analyses
  /\ expired \subseteq Analyses
  /\ faults \in [Faults -> Nat]

Elems(s) == {s[i] : i \in DOMAIN s}
InHand == {a \in Analyses : \E p \in Procs : hand[p] = a}
Settled == Elems(saved) \cup failed

\* "dedup must be serialized per user" (save_analyzed_job): two drains are
\* never both between taking and deleting the lock, although the delete checks
\* no owner and the key can expire: it outlives every live holder.
SerializedDrain ==
  \A p, q \in Procs : pc[p] \in Critical /\ pc[q] \in Critical => p = q

\* Analyses the drain took over and that are now nowhere.
Lost == {a \in Analyses : pc[a] \notin {"new", "queued", "inline"}}
          \ (Elems(queue) \cup InHand \cup Settled \cup expired)

\* A completed analysis disappears only with a call that was cut short, and
\* each such call takes at most one with it: the payload it had not pushed yet
\* or the item in its hand, never the rest of its batch or of the queue.
LossPerStop == Cardinality(Lost) <= faults["stops"]

\* When nothing runs and nothing is scheduled, every analysis handed over has
\* been announced (progress row cleared, tailoring and posts started) or
\* reported as failed.
QuietMeansSettled ==
  /\ faults["stops"] = 0
  /\ \A p \in Procs : pc[p] \in {"new", "idle", "done"}
  => /\ queue = <<>>
     /\ \A a \in Analyses : pc[a] = "done" => a \in announced \cup failed

\* "saves queued items in order": the drain implements the ledger, which settles
\* the analyses it takes over one by one in the order of their pushes, over lock
\* hand-overs, items put back, aborted calls and retried commits.
Ledger == INSTANCE SaveLedger
            WITH accepted <- pushed,
                 stored <- Elems(saved) \cap Elems(pushed),
                 rejected <- failed \cap Elems(pushed),
                 dropped <- (Lost \cup (expired \ Settled)) \cap Elems(pushed)
LedgerSpec == Ledger!Spec

\* Every analysis handed over is saved or reported as failed at last, unless a
\* call is cut short.
EveryAnalysisSettled ==
  \A a \in Analyses : pc[a] = "queued" ~> a \in Settled \/ faults["stops"] > 0
=============================================================================
