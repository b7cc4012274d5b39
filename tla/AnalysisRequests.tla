---------------------------- MODULE AnalysisRequests ----------------------------
(***************************************************************************)
(* How an analysis of a job for one user is asked for and ends             *)
(* (app/services/auto_prepare_service.py, start_personal_job_analysis and  *)
(* the match routes of app/api/routes.py, analyze_job_match in worker.py). *)
(*                                                                         *)
(* Fan-outs, backfills and visits (the automatic callers) and the user's   *)
(* own requests write a job_match_in_progress row and then queue the task  *)
(* under the arq id analyze:{job}:{user}; the row is what the page shows,  *)
(* what the pending cap counts, and what a visit skips.  The task, the     *)
(* save drain, the failure paths and the heal remove it.  Nothing ties the *)
(* row to the task but the order of these steps.                           *)
(*                                                                         *)
(* Which jobs have a score already is not tracked: a caller may pick any   *)
(* job, so more is asked for here than in the program.                     *)
(***************************************************************************)
EXTENDS Integers, FiniteSets

CONSTANTS Jobs,           \* jobs the user sees
          Autos,          \* automatic callers: fan-outs, backfills, visits
          Manuals,        \* requests of the user
          Ids,            \* arq ids a job's task may be queued under ...
          Stable,         \* ... of which the one that is tried first
          PendingCap,     \* auto_prepare_pending_cap_per_user
          DailyCap,       \* auto_prepare_daily_cap_per_user, not unlimited
          MaxTries,       \* analysis_worker_max_tries
          TransientTries, \* _TRANSIENT_MAX_TRIES
          MaxSaves,       \* bound: results of a job that wait to be saved
          MaxDays,        \* bound: midnights
          MaxFaults       \* bound: faults, of all kinds together

ASSUME CapsAssumption == PendingCap \in Nat \ {0} /\ DailyCap \in Nat \ {0}
ASSUME TriesAssumption == MaxTries \in Nat \ {0} /\ TransientTries \in Nat \ {0}
ASSUME BoundsAssumption == MaxSaves \in Nat /\ MaxDays \in Nat /\ MaxFaults \in Nat
ASSUME IdsAssumption == Stable \in Ids
ASSUME JobsAssumption == IsFiniteSet(Jobs)
ASSUME CallersAssumption == IsFiniteSet(Autos) /\ Autos \cap Manuals = {}

VARIABLES rows,    \* who added the progress row of a job, "none" without one
          task,    \* where the task of a job under an id is
          tries,   \* arq's job_try of that task
          saves,   \* results handed to the save drain and not saved yet
          at,      \* where each caller is
          job,     \* the job it is about
          flag,    \* automatic: scoring is free; user: force_requeue
          daily,   \* the day's Redis counter
          spent,   \* paid tasks that automatic callers queued today
          days,    \* midnights passed
          stray,   \* jobs whose row lost its task to a fault or a late join
          leaks,   \* faults that hid spending from the counter
          faults   \* faults of all kinds

taskVars == <<task, tries>>
callVars == <<at, job, flag>>
budgetVars == <<daily, spent, days>>
faultVars == <<leaks, faults>>
vars == <<rows, taskVars, saves, callVars, budgetVars, stray, faultVars>>

Callers == Autos \cup Manuals
Phases == {"idle", "budget", "add", "queue", "undo", "bump"}
TaskStates == {"none", "queued", "running", "over"}

Init ==
  /\ rows = [j \in Jobs |-> "none"]
  /\ task = [j \in Jobs |-> [i \in Ids |-> "none"]]
  /\ tries = [j \in Jobs |-> [i \in Ids |-> 0]]
  /\ saves = [j \in Jobs |-> 0]
  /\ at = [c \in Callers |-> "idle"]
  /\ job = [c \in Callers |-> "none"]
  /\ flag = [c \in Callers |-> FALSE]
  /\ daily = 0 /\ spent = 0 /\ days = 0
  /\ stray = {} /\ leaks = 0 /\ faults = 0

Fault == faults < MaxFaults /\ faults' = faults + 1

Pending == {j \in Jobs : rows[j] # "none"}

Goto(c, where) == at' = [at EXCEPT ![c] = where] /\ UNCHANGED <<job, flag>>
Return(c) ==
  /\ at' = [at EXCEPT ![c] = "idle"]
  /\ job' = [job EXCEPT ![c] = "none"]
  /\ flag' = [flag EXCEPT ![c] = FALSE]

\* The rows of these jobs, if they have one, wait for nothing.
Stray(S) == stray' = stray \cup (S \cap Pending)

\* JobMatchInProgressRepository.add: ON CONFLICT DO NOTHING.
Add(j, who) == rows' = [rows EXCEPT ![j] = IF @ = "none" THEN who ELSE @]

Remove(j) == rows' = [rows EXCEPT ![j] = "none"] /\ stray' = stray \ {j}

\* clear_job_match_progress: that the database does not answer is only logged.
Clear(j) ==
  \/ Remove(j) /\ UNCHANGED faultVars
  \/ Fault /\ Stray({j}) /\ UNCHANGED <<rows, leaks>>

(***************************************************************************)
(* _enqueue_analyze, called for one job after another.                     *)
(***************************************************************************)

\* Mutant: one row too many passes.
CountLoose(c, j, free) ==
  /\ at[c] = "idle" /\ Cardinality(Pending) <= PendingCap
  /\ at' = [at EXCEPT ![c] = IF free THEN "add" ELSE "budget"]
  /\ job' = [job EXCEPT ![c] = j] /\ flag' = [flag EXCEPT ![c] = free]
  /\ UNCHANGED <<rows, taskVars, saves, budgetVars, stray, faultVars>>

\* Free scoring (match only, vector engine) has no daily budget.
Count(c, j, free) ==
  /\ at[c] = "idle" /\ Cardinality(Pending) < PendingCap
  /\ at' = [at EXCEPT ![c] = IF free THEN "add" ELSE "budget"]
  /\ job' = [job EXCEPT ![c] = j] /\ flag' = [flag EXCEPT ![c] = free]
  /\ UNCHANGED <<rows, taskVars, saves, budgetVars, stray, faultVars>>

ReadBudget(c) ==
  /\ at[c] = "budget"
  /\ IF daily < DailyCap THEN Goto(c, "add") ELSE Return(c)
  /\ UNCHANGED <<rows, taskVars, saves, budgetVars, stray, faultVars>>

\* _auto_prepare_daily_count: without Redis the budget counts as untouched.
BudgetUnread(c) ==
  /\ at[c] = "budget" /\ Goto(c, "add")
  /\ Fault /\ leaks' = leaks + 1
  /\ UNCHANGED <<rows, taskVars, saves, budgetVars, stray>>

AddRow(c) ==
  /\ at[c] = "add" /\ Goto(c, "queue")
  /\ Add(job[c], IF c \in Autos THEN "auto" ELSE "manual")
  /\ UNCHANGED <<taskVars, saves, budgetVars, stray, faultVars>>

\* arq takes an id that no task holds; one that is done holds its id until the
\* worker has written that down.
Queue(j, i) ==
  /\ task[j][i] = "none"
  /\ task' = [task EXCEPT ![j][i] = "queued"]
  /\ UNCHANGED tries

Late(j) == IF task[j][Stable] = "over" THEN {j} ELSE {}

\* Mutant: what joins a queued task is counted, what is queued is not.
EnqueueUncounted(c) ==
  /\ at[c] = "queue" /\ c \in Autos
  /\ IF task[job[c]][Stable] = "none"
     THEN /\ Queue(job[c], Stable) /\ Stray({}) /\ Return(c)
          /\ spent' = IF flag[c] THEN spent ELSE spent + 1
     ELSE /\ Stray(Late(job[c])) /\ UNCHANGED <<taskVars, spent>>
          /\ IF flag[c] THEN Return(c) ELSE Goto(c, "bump")
  /\ UNCHANGED <<rows, saves, daily, days, faultVars>>

EnqueueAuto(c) ==
  /\ at[c] = "queue" /\ c \in Autos
  /\ \/ /\ Queue(job[c], Stable) /\ Stray({})
        /\ IF flag[c] THEN Return(c) /\ UNCHANGED spent
                      ELSE Goto(c, "bump") /\ spent' = spent + 1
     \/ /\ task[job[c]][Stable] # "none" /\ Stray(Late(job[c]))
        /\ Return(c) /\ UNCHANGED <<taskVars, spent>>
  /\ UNCHANGED <<rows, saves, daily, days, faultVars>>

Bump(c) ==
  /\ at[c] = "bump" /\ Return(c) /\ daily' = daily + 1
  /\ UNCHANGED <<rows, taskVars, saves, spent, days, stray, faultVars>>

\* Redis does not answer, or the process ends: the task is not counted.
BumpLost(c) ==
  /\ at[c] = "bump" /\ Return(c) /\ Fault /\ leaks' = leaks + 1
  /\ UNCHANGED <<rows, taskVars, saves, budgetVars, stray>>

\* The connection breaks after arq's transaction: queued, but nobody knows.
QueuedUnheard(c) ==
  /\ at[c] = "queue" /\ c \in Autos
  /\ Queue(job[c], Stable) /\ Goto(c, "undo")
  /\ IF flag[c] THEN UNCHANGED <<spent, leaks>>
                ELSE spent' = spent + 1 /\ leaks' = leaks + 1
  /\ Fault
  /\ UNCHANGED <<rows, saves, daily, days, stray>>

\* No pool, or the enqueue raises.  The automatic caller takes the row back,
\* whoever added it; the user's request answers 503 and leaves it.
NoQueue(c) ==
  /\ at[c] = "queue" /\ Fault
  /\ IF c \in Autos THEN Goto(c, "undo") /\ Stray({})
                    ELSE Return(c) /\ Stray({job[c]})
  /\ UNCHANGED <<rows, taskVars, saves, budgetVars, leaks>>

Undo(c) ==
  /\ at[c] = "undo" /\ Return(c) /\ Clear(job[c])
  /\ UNCHANGED <<taskVars, saves, budgetVars>>

\* The process of the caller ends between two of its steps.
Die(c) ==
  /\ at[c] \in {"budget", "add", "queue", "undo"} /\ Return(c) /\ Fault
  /\ Stray(IF at[c] \in {"queue", "undo"} THEN {job[c]} ELSE {})
  /\ UNCHANGED <<rows, taskVars, saves, budgetVars, leaks>>

(***************************************************************************)
(* Requests of the user: no cap, no budget.                                *)
(***************************************************************************)

Ask(c, j, where, force) ==
  /\ at[c] = "idle"
  /\ at' = [at EXCEPT ![c] = where]
  /\ job' = [job EXCEPT ![c] = j] /\ flag' = [flag EXCEPT ![c] = force]
  /\ UNCHANGED <<rows, taskVars, saves, budgetVars, stray, faultVars>>

\* The match route answers "already in progress" to a job that has a row.
Match(c, j) == rows[j] = "none" /\ Ask(c, j, "add", FALSE)

\* start_personal_job_analysis: a row that is there is not trusted, so the task
\* is queued beside the one it may belong to.
Prepare(c, j, again) ==
  \/ rows[j] # "none" /\ Ask(c, j, "queue", TRUE)
  \/ rows[j] = "none" /\ Ask(c, j, "add", again)

\* enqueue_job_match_analysis.  The last id it tries is made up, so there
\* always is one; here there is a bounded number.
EnqueueManual(c) ==
  /\ at[c] = "queue" /\ c \in Manuals /\ Return(c)
  /\ \/ Queue(job[c], Stable) /\ Stray({})
     \/ /\ task[job[c]][Stable] # "none" /\ flag[c]
        /\ \E i \in Ids : Queue(job[c], i)
        /\ Stray({})
     \/ /\ task[job[c]][Stable] # "none" /\ ~flag[c]
        /\ Stray(Late(job[c])) /\ UNCHANGED taskVars
  /\ UNCHANGED <<rows, saves, budgetVars, faultVars>>

(***************************************************************************)
(* The task: arq and analyze_job_match.                                    *)
(***************************************************************************)

SetTask(j, i, from, to) ==
  /\ task[j][i] = from
  /\ task' = [task EXCEPT ![j][i] = to]

Start(j, i) ==
  /\ SetTask(j, i, "queued", "running") /\ tries[j][i] < MaxTries
  /\ tries' = [tries EXCEPT ![j][i] = @ + 1]
  /\ UNCHANGED <<rows, saves, callVars, budgetVars, stray, faultVars>>

\* "max retries exceeded": arq drops the task without calling it.
Exhaust(j, i) ==
  /\ SetTask(j, i, "queued", "none") /\ tries[j][i] >= MaxTries
  /\ tries' = [tries EXCEPT ![j][i] = 0]
  /\ Stray({j})
  /\ UNCHANGED <<rows, saves, callVars, budgetVars, faultVars>>

\* The result goes to the save drain, which removes the row.
Score(j, i) ==
  /\ SetTask(j, i, "running", "over") /\ saves[j] < MaxSaves
  /\ saves' = [saves EXCEPT ![j] = @ + 1]
  /\ UNCHANGED <<rows, tries, callVars, budgetVars, stray, faultVars>>

\* Mutant: an analysis without a result keeps its row.
NoResultRowKept(j, i) ==
  /\ SetTask(j, i, "running", "over")
  /\ UNCHANGED <<rows, tries, saves, callVars, budgetVars, stray, faultVars>>

\* No profile, no vector score, an error that is not tried again, job_timeout.
NoResult(j, i) ==
  /\ SetTask(j, i, "running", "over") /\ Clear(j)
  /\ UNCHANGED <<tries, saves, callVars, budgetVars>>

\* A transient error is tried again, with its row.
TryAgain(j, i) ==
  /\ SetTask(j, i, "running", "queued") /\ tries[j][i] < TransientTries
  /\ UNCHANGED <<rows, tries, saves, callVars, budgetVars, stray, faultVars>>

\* The worker shuts down: the row goes, the task is run again.
Cancel(j, i) ==
  /\ SetTask(j, i, "running", "queued") /\ Clear(j)
  /\ UNCHANGED <<tries, saves, callVars, budgetVars>>

\* The worker dies: the task is run again, even one that had done its work.
Kill(j, i) ==
  /\ \E s \in {"running", "over"} : SetTask(j, i, s, "queued")
  /\ Fault
  /\ UNCHANGED <<rows, tries, saves, callVars, budgetVars, stray, leaks>>

Finish(j, i) ==
  /\ SetTask(j, i, "over", "none")
  /\ tries' = [tries EXCEPT ![j][i] = 0]
  /\ UNCHANGED <<rows, saves, callVars, budgetVars, stray, faultVars>>

(***************************************************************************)
(* Saves (module SaveDrain), the heal, midnight.                           *)
(***************************************************************************)

\* _after_save and _publish_save_failed both remove the row.
Saved(j) ==
  /\ saves[j] > 0 /\ saves' = [saves EXCEPT ![j] = @ - 1] /\ Clear(j)
  /\ UNCHANGED <<taskVars, callVars, budgetVars>>

\* The drain is stopped with the item in its hands.
SaveLost(j) ==
  /\ saves[j] > 0 /\ saves' = [saves EXCEPT ![j] = @ - 1]
  /\ Fault /\ Stray({j})
  /\ UNCHANGED <<rows, taskVars, callVars, budgetVars, leaks>>

\* heal_stale_pipeline_state, when a worker starts: rows older than 1800 s,
\* those of tasks that still wait in a long queue included.
Heal(j) ==
  /\ rows[j] # "none" /\ Remove(j)
  /\ UNCHANGED <<taskVars, saves, callVars, budgetVars, faultVars>>

\* The counter's key carries the date.
NewDay ==
  /\ days < MaxDays /\ days' = days + 1
  /\ daily' = 0 /\ spent' = 0
  /\ UNCHANGED <<rows, taskVars, saves, callVars, stray, faultVars>>

Advance(c) == \/ ReadBudget(c) \/ AddRow(c) \/ EnqueueAuto(c) \/ Bump(c)
              \/ Undo(c) \/ EnqueueManual(c)
Run(j, i) == \/ Start(j, i) \/ Exhaust(j, i) \/ Score(j, i) \/ NoResult(j, i)
             \/ TryAgain(j, i) \/ Finish(j, i)
Break(c) == BudgetUnread(c) \/ BumpLost(c) \/ QueuedUnheard(c) \/ NoQueue(c) \/ Die(c)

Next ==
  \/ \E c \in Autos, j \in Jobs, free \in BOOLEAN : Count(c, j, free)
  \/ \E c \in Manuals, j \in Jobs : Match(c, j) \/ \E again \in BOOLEAN : Prepare(c, j, again)
  \/ \E c \in Callers : Advance(c) \/ Break(c)
  \/ \E j \in Jobs, i \in Ids : Run(j, i) \/ Cancel(j, i) \/ Kill(j, i)
  \/ \E j \in Jobs : Saved(j) \/ SaveLost(j) \/ Heal(j)
  \/ NewDay

Spec == Init /\ [][Next]_vars

\* Callers return, workers work, the drain drains.  Nobody need start a worker
\* anew, so no heal is counted on.
FairSpec ==
  /\ Spec
  /\ \A c \in Callers : WF_vars(Advance(c))
  /\ \A j \in Jobs, i \in Ids : WF_vars(Run(j, i))
  /\ \A j \in Jobs : WF_vars(Saved(j))
-----------------------------------------------------------------------------
TypeOK ==
  /\ rows \in [Jobs -> {"none", "auto", "manual"}]
  /\ task \in [Jobs -> [Ids -> TaskStates]] /\ tries \in [Jobs -> [Ids -> Nat]]
  /\ saves \in [Jobs -> Nat]
  /\ at \in [Callers -> Phases] /\ job \in [Callers -> Jobs \cup {"none"}]
  /\ flag \in [Callers -> BOOLEAN]
  /\ \A c \in Callers : at[c] # "idle" => job[c] \in Jobs
  /\ daily \in Nat /\ spent \in Nat /\ days \in Nat
  /\ stray \subseteq Jobs /\ leaks \in Nat /\ faults \in Nat

AutoRows == {j \in Jobs : rows[j] = "auto"}

\* Automatic callers count the rows and add theirs later; they pass the pending
\* cap by at most one row for each caller but the one that took the last place.
PendingOvershoot == Cardinality(AutoRows) <= PendingCap - 1 + Cardinality(Autos)

\* They read the budget and count after queueing: the day's paid tasks pass the
\* cap by at most one for each other caller and each fault that hid one.
BudgetOvershoot == spent <= DailyCap - 1 + Cardinality(Autos) + leaks

\* Every row is removed without help of the heal, unless a fault, the end of
\* the tries, or joining a task that was over already took its task away.
RowsEnd == \A j \in Jobs : rows[j] # "none" ~> rows[j] = "none" \/ j \in stray
=============================================================================
