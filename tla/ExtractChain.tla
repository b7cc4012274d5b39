------------------------------ MODULE ExtractChain ------------------------------
(***************************************************************************)
(* How the shared description of one posting is extracted and who gets     *)
(* what follows (extract_job, encode_job_task and their helpers in         *)
(* app/tasks/worker.py; prepare_job_for_user and its neighbours in         *)
(* app/api/routes.py; extraction_service.py; extraction_failure_handler.py;*)
(* manual_jd.py).                                                          *)
(*                                                                         *)
(* Requests reset the extraction row, commit, and queue the task under the *)
(* arq id extract:{extraction}; while a task holds the id further enqueues *)
(* are dropped with their arguments.  A task that has the text hands the   *)
(* follow-up (`then`: its requester's analysis and the fan-out) to the     *)
(* encode task, which is deduplicated by its own id, or runs it itself.  A *)
(* task that fails hides the job.  Nobody locks the row or the job.        *)
(***************************************************************************)
EXTENDS Naturals

CONSTANTS Users,         \* users who ask for the job
          Platform,      \* who promotes scraped jobs, and the admins
          AutoUsers,     \* users whom a fan-out analyzes the job for
          Nobody,        \* an encode task without a `then`
          ExtractTries,  \* extraction_worker_max_tries
          EncodeTries,   \* max_tries of the encoding worker
          MaxFaults      \* bound: faults of all kinds together

TaskIds == {"extract", "encode"}

ASSUME ActorsAssumption ==
  Platform \notin Users /\ Nobody \notin Users \cup {Platform} /\ AutoUsers \subseteq Users
ASSUME LimitsAssumption ==
  ExtractTries \in Nat \ {0} /\ EncodeTries \in Nat \ {0} /\ MaxFaults \in Nat

VARIABLES status,     \* of the extraction row
          jobStatus,  \* of the job
          hidden,     \* users the job is hidden from as extraction_failed
          task,       \* where the task that holds an arq id is, "none" if none does
          for,        \* whose follow-up it carries
          tries,      \* arq's job_try
          at,         \* where the request of each caller is
          want,       \* users told "analysis will follow" who heard nothing yet
          due,        \* a text was extracted and its fan-out has not run
          adrift,     \* row or job may not be settled: a fault, or an order of
                      \* requests and task that the code does not serialize
          faults

rowVars == <<status, jobStatus, hidden, adrift>>
taskVars == <<task, for, tries>>
oweVars == <<want, due>>
vars == <<rowVars, taskVars, at, oweVars, faults>>

MaxTries == [t \in TaskIds |-> IF t = "extract" THEN ExtractTries ELSE EncodeTries]

Callers == Users \cup {Platform}
Stages == {"none", "queued", "running", "chain", "then", "fanout", "hide", "yield", "over"}
Open == {"pending", "processing"}

\* _enqueue_extraction follows the commit of the new job and its new row.
Init ==
  /\ status = "pending" /\ jobStatus = "active" /\ hidden = {}
  /\ task = [t \in TaskIds |-> "none"]
  /\ for = [t \in TaskIds |-> Nobody]
  /\ tries = [t \in TaskIds |-> 0]
  /\ at = [c \in Callers |-> IF c = Platform THEN "enqueue" ELSE "idle"]
  /\ want = {} /\ due = FALSE /\ adrift = FALSE /\ faults = 0

Fault == faults < MaxFaults /\ faults' = faults + 1

Goto(c, where) == at' = [at EXCEPT ![c] = where]
Stage(t, from, to) == task[t] = from /\ task' = [task EXCEPT ![t] = to]

\* Who has the text's fan-out still to run.
EncodeCarries == task["encode"] \notin {"none", "over"} /\ for["encode"] # Nobody
ExtractCarries == task["extract"] \notin {"none", "hide", "over"}

\* The follow-up of the extract task is lost and only logged.
Forget ==
  /\ want' = want \ {for["extract"]}
  /\ due' = (due /\ EncodeCarries)

(***************************************************************************)
(* Requests.                                                               *)
(***************************************************************************)

\* A failing task that has yet to hide the job does so after the reset.
StillAdrift == \/ task["extract"] \in {"hide", "yield"}
               \/ adrift /\ task["extract"] # "none"

\* _prepare_job_rescrape_in_session.
Refresh ==
  /\ status' = "pending" /\ jobStatus' = "active" /\ UNCHANGED hidden
  /\ adrift' = StillAdrift

\* prepare_job_for_user: extraction in flight, then failed before.
Join(u) ==
  /\ at[u] = "idle" /\ status \in Open
  /\ Goto(u, "enqueue")
  /\ UNCHANGED <<rowVars, taskVars, oweVars, faults>>

Retry(u) ==
  /\ at[u] = "idle" /\ status = "failed"
  /\ Refresh /\ Goto(u, "enqueue")
  /\ UNCHANGED <<taskVars, oweVars, faults>>

\* ... and the text is there; start_personal_job_analysis wants an active job.
Analyze(u) ==
  /\ at[u] = "idle" /\ status = "extracted" /\ jobStatus = "active"
  /\ want' = want \ {u}
  /\ UNCHANGED <<rowVars, taskVars, at, due, faults>>

\* prepare_shared_job_extraction and the re-scrapes: an admin resets a row
\* whatever its task does.
Rescrape ==
  /\ at[Platform] = "idle"
  /\ Refresh /\ Goto(Platform, "enqueue")
  /\ UNCHANGED <<taskVars, oweVars, faults>>

\* apply_manual_job_description: the pasted text counts as an extraction.
PasteText ==
  /\ status' = "extracted" /\ jobStatus' = "active" /\ hidden' = {}
  /\ adrift' = StillAdrift
  /\ UNCHANGED <<taskVars, at, oweVars, faults>>

Told(c) == want' = want \cup ({c} \cap Users)

\* enqueue_extraction.  The job may have been hidden since the request read it.
EnqueueTaken(c) ==
  /\ at[c] = "enqueue" /\ Stage("extract", "none", "queued")
  /\ for' = [for EXCEPT !["extract"] = c]
  /\ adrift' = (jobStatus # "active")
  /\ Told(c) /\ Goto(c, "idle")
  /\ UNCHANGED <<status, jobStatus, hidden, tries, due, faults>>

\* The id is held: the request is dropped with its arguments.  A task that has
\* finished with the row does not come back to it.
EnqueueJoined(c) ==
  /\ at[c] = "enqueue" /\ task["extract"] # "none"
  /\ adrift' = (adrift \/ (task["extract"] \notin {"queued", "running"} /\ status \in Open))
  /\ Told(c) /\ Goto(c, "idle")
  /\ UNCHANGED <<status, jobStatus, hidden, taskVars, due, faults>>

\* Redis is away (503), or the process of the caller ends.
NoQueue(c) ==
  /\ at[c] = "enqueue" /\ Goto(c, "idle")
  /\ Fault /\ adrift' = TRUE
  /\ UNCHANGED <<status, jobStatus, hidden, taskVars, oweVars>>

(***************************************************************************)
(* arq, for both workers.                                                  *)
(***************************************************************************)

\* process_job marks the row as soon as it is called.
Start(t) ==
  /\ Stage(t, "queued", "running") /\ tries[t] < MaxTries[t]
  /\ tries' = [tries EXCEPT ![t] = @ + 1]
  /\ status' = IF t = "extract" THEN "processing" ELSE status
  /\ UNCHANGED <<jobStatus, hidden, adrift, for, at, oweVars, faults>>

\* What a task carried is lost with it; only the extract task owns the row.
LoseTask(t) ==
  IF t = "extract"
  THEN Forget /\ adrift' = TRUE
  ELSE /\ want' = want \ {for[t]}
       /\ due' = (due /\ ExtractCarries)
       /\ UNCHANGED adrift

Exhaust(t) ==
  /\ Stage(t, "queued", "none") /\ tries[t] >= MaxTries[t]
  /\ tries' = [tries EXCEPT ![t] = 0]
  /\ for' = [for EXCEPT ![t] = Nobody]
  /\ LoseTask(t)
  /\ UNCHANGED <<status, jobStatus, hidden, at, faults>>

Finish(t) ==
  /\ Stage(t, "over", "none")
  /\ tries' = [tries EXCEPT ![t] = 0]
  /\ for' = [for EXCEPT ![t] = Nobody]
  /\ UNCHANGED <<rowVars, at, oweVars, faults>>

\* A worker dies; the task is run again from its start.
Kill(t) ==
  /\ task[t] \notin {"none", "queued"}
  /\ task' = [task EXCEPT ![t] = "queued"]
  /\ adrift' = (adrift \/ (t = "extract" /\ jobStatus # "active"))
  /\ Fault
  /\ UNCHANGED <<status, jobStatus, hidden, for, tries, at, oweVars>>

(***************************************************************************)
(* extract_job.                                                            *)
(***************************************************************************)

Extracted ==
  /\ Stage("extract", "running", "chain")
  /\ status' = "extracted" /\ due' = TRUE
  /\ UNCHANGED <<jobStatus, hidden, adrift, for, tries, at, want, faults>>

\* Mutant: a failure is not shown to who asked.
FailUnseen ==
  /\ Stage("extract", "running", "over")
  /\ status' = "failed" /\ due' = (due /\ EncodeCarries)
  /\ UNCHANGED <<jobStatus, hidden, adrift, for, tries, at, want, faults>>

HideOrEnd == IF for["extract"] \in Users THEN "hide" ELSE "over"

\* _mark_failed: a row that was pasted meanwhile fails, too.
FailFetch ==
  /\ Stage("extract", "running", HideOrEnd)
  /\ status' = "failed" /\ due' = (due /\ EncodeCarries)
  /\ UNCHANGED <<jobStatus, hidden, adrift, for, tries, at, want, faults>>

\* An exception: the row keeps its status, the job is hidden all the same.
Raise ==
  /\ task["extract"] \in {"running", "chain"}
  /\ task' = [task EXCEPT !["extract"] = HideOrEnd]
  /\ Fault /\ adrift' = TRUE
  /\ due' = (due /\ EncodeCarries)
  /\ UNCHANGED <<status, jobStatus, hidden, for, tries, at, want>>

\* mark_extraction_failed_for_user: the job's status is everybody's.
Hide ==
  /\ \/ Stage("extract", "hide", "over")
     \/ Stage("extract", "yield", "queued")
  /\ jobStatus' = "extraction_failed"
  /\ hidden' = hidden \cup {for["extract"]}
  /\ want' = want \ {for["extract"]}
  /\ UNCHANGED <<status, adrift, for, tries, at, due, faults>>

\* Mutant: the row stays open.
TimeOutRowOpen ==
  /\ task["extract"] \in {"running", "chain", "then", "fanout"}
  /\ task' = [task EXCEPT !["extract"] = HideOrEnd]
  /\ adrift' = (adrift \/ status \notin Open \/ task["extract"] # "running")
  /\ due' = (due /\ EncodeCarries)
  /\ UNCHANGED <<status, jobStatus, hidden, for, tries, at, want, faults>>

\* job_timeout: the row fails if it is open, the job is hidden even when the
\* text is there.
TimeOut ==
  /\ task["extract"] \in {"running", "chain", "then", "fanout"}
  /\ task' = [task EXCEPT !["extract"] = HideOrEnd]
  /\ status' = IF status \in Open THEN "failed" ELSE status
  /\ adrift' = (adrift \/ status \notin Open \/ task["extract"] # "running")
  /\ due' = (due /\ EncodeCarries)
  /\ UNCHANGED <<jobStatus, hidden, for, tries, at, want, faults>>

\* The worker shuts down: handled like a timeout, but arq runs the task again.
ShutDown ==
  /\ task["extract"] \in {"running", "chain", "then", "fanout"}
  /\ task' = [task EXCEPT !["extract"] =
                IF for["extract"] \in Users THEN "yield" ELSE "queued"]
  /\ status' = IF status \in Open THEN "failed" ELSE status
  /\ adrift' = (adrift \/ for["extract"] \in Users)
  /\ Fault
  /\ UNCHANGED <<jobStatus, hidden, for, tries, at, oweVars>>

\* Mutant: an encode task that is there is taken to carry `then`.
ChainAnyway ==
  /\ IF task["encode"] = "none"
     THEN /\ task["extract"] = "chain"
          /\ task' = [task EXCEPT !["extract"] = "over", !["encode"] = "queued"]
          /\ for' = [for EXCEPT !["encode"] = for["extract"]]
     ELSE Stage("extract", "chain", "over") /\ UNCHANGED for
  /\ UNCHANGED <<rowVars, tries, at, oweVars, faults>>

\* _encode_after_extract attaches `then` to a new encode task.  With the id held,
\* with encoding in the extraction worker, or without Redis, it is run here.
Chain ==
  /\ \/ /\ task["extract"] = "chain" /\ task["encode"] = "none"
        /\ task' = [task EXCEPT !["extract"] = "over", !["encode"] = "queued"]
        /\ for' = [for EXCEPT !["encode"] = for["extract"]]
     \/ Stage("extract", "chain", "then") /\ UNCHANGED for
  /\ UNCHANGED <<rowVars, tries, at, oweVars, faults>>

(***************************************************************************)
(* encode_job_task, and what follows in either task.                       *)
(***************************************************************************)

\* enqueue_encode_job, from an analysis that finds no encoding.
PlainEncode ==
  /\ Stage("encode", "none", "queued")
  /\ UNCHANGED <<rowVars, for, tries, at, oweVars, faults>>

\* `then` runs whether or not the encoding succeeded.
Encode ==
  /\ Stage("encode", "running", IF for["encode"] = Nobody THEN "over" ELSE "then")
  /\ UNCHANGED <<rowVars, for, tries, at, oweVars, faults>>

\* The encode worker's job_timeout (four hours) passes.
EncodeTimeOut ==
  /\ task["encode"] \in {"running", "then", "fanout"}
  /\ task' = [task EXCEPT !["encode"] = "over"]
  /\ LoseTask("encode") /\ Fault
  /\ UNCHANGED <<status, jobStatus, hidden, for, tries, at>>

\* _run_after_encode: the analysis of one user (module AnalysisRequests) ...
RunAnalysis(t) ==
  /\ Stage(t, "then", "fanout")
  /\ want' = want \ {for[t]}
  /\ UNCHANGED <<rowVars, for, tries, at, due, faults>>

\* ... whether or not it can be queued, and the fan-out, which wants the text.
Fanout(t) ==
  /\ Stage(t, "fanout", "over")
  /\ due' = FALSE
  /\ want' = IF status = "extracted" THEN want \ (AutoUsers \ hidden) ELSE want
  /\ UNCHANGED <<rowVars, for, tries, at, faults>>

Step(t) == \/ Start(t) \/ Exhaust(t) \/ Finish(t) \/ RunAnalysis(t) \/ Fanout(t)
           \/ t = "extract" /\ (Extracted \/ FailFetch \/ Hide \/ Chain)
           \/ t = "encode" /\ Encode

Enqueue(c) == EnqueueTaken(c) \/ EnqueueJoined(c)

Next ==
  \/ \E u \in Users : Join(u) \/ Retry(u) \/ Analyze(u)
  \/ Rescrape \/ PasteText \/ PlainEncode
  \/ \E c \in Callers : Enqueue(c) \/ NoQueue(c)
  \/ \E t \in TaskIds : Step(t) \/ Kill(t)
  \/ Raise \/ TimeOut \/ ShutDown \/ EncodeTimeOut

Spec == Init /\ [][Next]_vars

\* Requests return and workers work.
FairSpec ==
  /\ Spec
  /\ \A c \in Callers : WF_vars(Enqueue(c))
  /\ \A t \in TaskIds : WF_vars(Step(t))
-----------------------------------------------------------------------------
TypeOK ==
  /\ status \in {"pending", "processing", "extracted", "failed"}
  /\ jobStatus \in {"active", "extraction_failed"} /\ hidden \subseteq Users
  /\ task \in [TaskIds -> Stages] /\ for \in [TaskIds -> Callers \cup {Nobody}]
  /\ tries \in [TaskIds -> Nat]
  /\ at \in [Callers -> {"idle", "enqueue"}]
  /\ want \subseteq Users /\ due \in BOOLEAN /\ adrift \in BOOLEAN /\ faults \in Nat

\* A text whose fan-out is due is with a task that will run it: deduplication
\* of the encode task loses no `then`.  (What a fault loses is no longer due.)
ChainCarried == due => EncodeCarries \/ ExtractCarries

\* When no extraction runs and no request is on its way the row has an outcome,
\* and the job counts as failed only with a failed row, unless adrift.
StatusSettles ==
  task["extract"] = "none" /\ (\A c \in Callers : at[c] = "idle") /\ ~adrift =>
    /\ status \in {"extracted", "failed"}
    /\ jobStatus = "extraction_failed" => status = "failed"

\* A user whose own request took the id gets the analysis or hears of the
\* failure, whatever is retried, killed or deduplicated on the way.
OwnAnalysisFollows ==
  \A u \in Users : task["extract"] = "queued" /\ for["extract"] = u ~> u \notin want

\* "Extraction already in progress; analysis will follow for your profile."
AnalysisFollows == \A u \in Users : u \in want ~> u \notin want
=============================================================================
