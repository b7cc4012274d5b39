----------------------------- MODULE ScrapeRuns -----------------------------
(***************************************************************************)
(* Platform scrapes: run_scraper_task and the crawls it watches            *)
(* (scraper/runner.py), the scrape_runs row each crawl writes              *)
(* (scraper/pipelines/postgres.py), the stop flag and the lock of a spider *)
(* in Redis, and those who interrupt rows from outside: the stop button,   *)
(* the status page and the start of the API.                               *)
(*                                                                         *)
(* A run is a spider of a task: it asks for the stop flag, takes the lock  *)
(* of the spider, starts a subprocess and looks at it every two seconds.   *)
(* The subprocess is an actor of its own; a worker that dies takes it with *)
(* it, a worker that is told to end waits for it.                          *)
(***************************************************************************)
EXTENDS Integers, FiniteSets

CONSTANTS Tasks, Spiders,
          Free,        \* no run holds the lock
          SlowCrawls,  \* scraper_spider_timeout_seconds exceeds the 31 minutes of a stale row
          MaxOutages,  \* bound: locks that are asked for while Redis is away
          MaxDeaths,   \* bound: workers that die
          MaxStops     \* bound: stops that are requested

ASSUME RunAssumption == Free \notin Tasks /\ SlowCrawls \in BOOLEAN
ASSUME FaultAssumption == MaxOutages \in Nat /\ MaxDeaths \in Nat /\ MaxStops \in Nat

Runs == Tasks \X Spiders

VARIABLES pc,      \* Runs -> where the coroutine of the run is
          locked,  \* runs that took the lock, and did not run without
          lock,    \* scrape_lock:{spider}, with the task that set it
          alive,   \* runs whose subprocess crawls
          row,     \* scrape_runs.status
          stop,    \* scraper:fetch_stop
          stopping,\* stop_job_fetching has set the flag and not the rows
          startup, \* rows an API that starts has read as running, and where it is
          used     \* how many outages, deaths and stops there were

run == <<pc, locked, lock>>
crawl == <<alive, row>>
signals == <<stop, stopping, startup, used>>
vars == <<run, crawl, signals>>

Watched == {"starting", "crawling", "marking", "release"}
States == Watched \cup {"none", "queued", "waiting", "unwinding", "done", "dead"}
Idle == [at |-> "idle", rows |-> {}]

Init ==
  /\ pc = [r \in Runs |-> "none"] /\ locked = {}
  /\ lock = [s \in Spiders |-> Free]
  /\ alive = {} /\ row = [r \in Runs |-> "none"]
  /\ stop = FALSE /\ stopping = FALSE /\ startup = Idle
  /\ used = [outages |-> 0, deaths |-> 0, stops |-> 0]

Of(t) == {r \in Runs : r[1] = t}
Goto(r, l) == pc' = [pc EXCEPT ![r] = l]
Count(k, max) == used[k] < max /\ used' = [used EXCEPT ![k] = @ + 1]
SetRows(rs, status) == row' = [r \in Runs |-> IF r \in rs THEN status ELSE row[r]]
Interrupt(rs) == SetRows({r \in rs : row[r] = "running"}, "interrupted")

(***************************************************************************)
(* A task and its runs.                                                    *)
(***************************************************************************)

\* trigger_sync and check_job_sync_schedule_task enqueue; trigger_sync has
\* cleared the flag before (ClearStop).
Enqueue(t, plan) ==
  /\ \A r \in Of(t) : pc[r] = "none"
  /\ pc' = [r \in Runs |-> IF r[1] # t THEN pc[r] ELSE IF r[2] \in plan THEN "queued" ELSE "done"]
  /\ UNCHANGED <<locked, lock, crawl, signals>>

\* The task starts, unless fetching was stopped.
Start(t) ==
  /\ \E r \in Of(t) : pc[r] = "queued"
  /\ pc' = [r \in Runs |-> IF r \notin Of(t) \/ pc[r] # "queued" THEN pc[r]
                           ELSE IF stop THEN "done" ELSE "waiting"]
  /\ UNCHANGED <<locked, lock, crawl, signals>>

\* The turn of a spider, and a flag that was set meanwhile.
Skip(r) == /\ pc[r] = "waiting" /\ (stop \/ lock[r[2]] # Free) /\ Goto(r, "done")
           /\ UNCHANGED <<locked, lock, crawl, signals>>

Take(r, mayTake) ==
  /\ pc[r] = "waiting" /\ ~stop /\ mayTake /\ Goto(r, "starting")
  /\ lock' = [lock EXCEPT ![r[2]] = r[1]] /\ locked' = locked \cup {r}
  /\ UNCHANGED <<crawl, signals>>
\* Mutant: the key is set without NX.
EnterAnyway(r) == Take(r, TRUE)

\* SET scrape_lock NX EX
Enter(r) == Take(r, lock[r[2]] = Free)

\* "Redis down: run unlocked rather than skip"; the flag reads as not set.
EnterUnlocked(r) ==
  /\ pc[r] = "waiting" /\ Count("outages", MaxOutages) /\ Goto(r, "starting")
  /\ UNCHANGED <<locked, lock, crawl, stop, stopping, startup>>

\* run_spider: the last look at the flag, then the subprocess.
Launch(r) ==
  /\ pc[r] = "starting"
  /\ IF stop THEN Goto(r, "release") /\ UNCHANGED alive
             ELSE Goto(r, "crawling") /\ alive' = alive \cup {r}
  /\ UNCHANGED <<locked, lock, row, signals>>

EndOfCrawl(r) == /\ pc[r] \in {"crawling", "unwinding"} /\ r \notin alive /\ Goto(r, "release")
                 /\ UNCHANGED <<locked, lock, crawl, signals>>

KillCrawl(r) == /\ pc[r] = "crawling" /\ r \in alive /\ alive' = alive \ {r} /\ Goto(r, "marking")
                /\ UNCHANGED <<locked, lock, row, signals>>
\* Mutant: the flag is looked at before the subprocess starts, and not again.
StopCrawlNever(r) == FALSE /\ KillCrawl(r)

\* The two reasons why the watcher kills the subprocess.
StopCrawl(r) == stop /\ KillCrawl(r)
TimeOut(r) == KillCrawl(r)

\* _mark_scrape_run_interrupted: the newest running row of the spider, which need
\* not be the one of this run.
Mark(r) ==
  /\ pc[r] = "marking" /\ Goto(r, "release")
  /\ LET running == {q \in Runs : q[2] = r[2] /\ row[q] = "running"}
     IN  IF running = {} THEN UNCHANGED row ELSE \E q \in running : Interrupt({q})
  /\ UNCHANGED <<locked, lock, alive, signals>>

Unlock(r, owns) ==
  /\ pc[r] = "release" /\ Goto(r, "done")
  /\ lock' = IF owns THEN [lock EXCEPT ![r[2]] = Free] ELSE lock
  /\ locked' = locked \ {r} /\ UNCHANGED <<crawl, signals>>
\* Mutants: a run that ran unlocked deletes the key; nobody deletes it.
ReleaseAny(r) == Unlock(r, TRUE)
ReleaseNone(r) == Unlock(r, FALSE)

Release(r) == Unlock(r, r \in locked)

\* A restart cancels the task: runs that wait are over, the others let their
\* subprocess end before they release the lock.
CancelTask(t) ==
  /\ \E r \in Of(t) : pc[r] \in {"waiting", "starting", "crawling"}
  /\ pc' = [r \in Runs |-> IF r \notin Of(t) THEN pc[r]
                           ELSE CASE pc[r] = "waiting" -> "done"
                                  [] pc[r] = "starting" -> "release"
                                  [] pc[r] = "crawling" -> "unwinding"
                                  [] OTHER -> pc[r]]
  /\ UNCHANGED <<locked, lock, crawl, signals>>

\* The worker is killed, with its subprocesses; the keys stay.
Die(t) ==
  /\ \E r \in Of(t) : pc[r] \in Watched \cup {"waiting", "unwinding"}
  /\ Count("deaths", MaxDeaths)
  /\ pc' = [r \in Runs |-> IF r \in Of(t) /\ pc[r] \notin {"none", "queued", "done"} THEN "dead" ELSE pc[r]]
  /\ alive' = alive \ Of(t) /\ locked' = locked \ Of(t)
  /\ UNCHANGED <<lock, row, stop, stopping, startup>>

\* The key outlives the longest crawl, so only a dead run's expires.
Expire(s) ==
  /\ lock[s] # Free /\ pc[<<lock[s], s>>] = "dead"
  /\ lock' = [lock EXCEPT ![s] = Free] /\ UNCHANGED <<pc, locked, crawl, signals>>

(***************************************************************************)
(* The subprocess.                                                         *)
(***************************************************************************)

\* open_spider
OpenRow(r) == /\ r \in alive /\ row[r] = "none" /\ SetRows({r}, "running")
              /\ UNCHANGED <<run, alive, signals>>

CloseAs(r, statuses) ==
  /\ r \in alive /\ row[r] # "none" /\ alive' = alive \ {r}
  /\ \E status \in statuses : SetRows({r}, status)
  /\ UNCHANGED <<run, signals>>
\* close_spider writes how it ended, whatever became of the row.
Close(r) == CloseAs(r, {"success", "failed", "interrupted"})

\* It ends without a word.
Crash(r) == r \in alive /\ alive' = alive \ {r} /\ UNCHANGED <<run, row, signals>>

(***************************************************************************)
(* Others.                                                                 *)
(***************************************************************************)

\* request_stop, then interrupt_running_scrape_runs.
RequestStop == /\ ~stopping /\ Count("stops", MaxStops) /\ stop' = TRUE /\ stopping' = TRUE
               /\ UNCHANGED <<run, crawl, startup>>

InterruptRunning == /\ stopping /\ stopping' = FALSE /\ Interrupt(Runs)
                    /\ UNCHANGED <<run, alive, stop, startup, used>>

\* trigger_sync and put_job_sync_schedule.
ClearStop == stop /\ stop' = FALSE /\ UNCHANGED <<run, crawl, stopping, startup, used>>

HealIf(r, old) == /\ row[r] = "running" /\ old /\ Interrupt({r})
                  /\ UNCHANGED <<run, alive, signals>>
\* Mutant: the status page does not ask for the age of the row.
HealAny(r) == HealIf(r, TRUE)

\* get_sync_status, and the overview: rows older than 31 minutes.
HealStale(r) == HealIf(r, SlowCrawls \/ r \notin alive)

Boot(at, rows) == startup' = [at |-> at, rows |-> rows] /\ UNCHANGED <<run, stop, stopping>>
Running == {r \in Runs : row[r] = "running"}
Unheld == {r \in Runs : lock[r[2]] = Free}

\* Mutant: the locks are looked at before the rows are read.
LookSwapped(n) == IF n = 1 THEN Unheld ELSE Running

\* lifespan: the running rows, then their locks, then one UPDATE.
Look(n) == IF n = 1 THEN Running ELSE Unheld
StartupRead == /\ startup.at = "idle" /\ Boot("read", Look(1))
               /\ UNCHANGED <<crawl, used>>
StartupCheck == /\ startup.at = "read" /\ Boot("checked", startup.rows \cap Look(2))
                /\ UNCHANGED <<crawl, used>>
StartupWrite == /\ startup.at \in {"checked", "unchecked"} /\ Boot("idle", {})
                /\ Interrupt(startup.rows) /\ UNCHANGED <<alive, used>>

\* While Redis is away every running row is taken for stale.
StartupOutage == /\ startup.at = "read" /\ Boot("unchecked", startup.rows)
                 /\ Count("outages", MaxOutages) /\ UNCHANGED crawl

Next ==
  \/ \E t \in Tasks : \/ \E plan \in (SUBSET Spiders) \ {{}} : Enqueue(t, plan)
                      \/ Start(t) \/ CancelTask(t) \/ Die(t)
  \/ \E r \in Runs : \/ Skip(r) \/ Enter(r) \/ EnterUnlocked(r) \/ Launch(r) \/ EndOfCrawl(r)
                     \/ StopCrawl(r) \/ TimeOut(r) \/ Mark(r) \/ Release(r)
                     \/ OpenRow(r) \/ Close(r) \/ Crash(r) \/ HealStale(r)
  \/ \E s \in Spiders : Expire(s)
  \/ RequestStop \/ InterruptRunning \/ ClearStop
  \/ StartupRead \/ StartupCheck \/ StartupOutage \/ StartupWrite

Spec == Init /\ [][Next]_vars

\* The event loop gets to every run; the flag is polled, a subprocess that was told
\* to end does, and the key of a dead run expires.
Moves(r) == /\ WF_vars(Launch(r)) /\ WF_vars(EndOfCrawl(r)) /\ WF_vars(StopCrawl(r))
            /\ WF_vars(Mark(r)) /\ WF_vars(Release(r))
            /\ WF_vars(pc[r] = "unwinding" /\ (Close(r) \/ Crash(r)))
FairSpec == /\ Spec /\ \A r \in Runs : Moves(r)
            /\ \A s \in Spiders : WF_vars(Expire(s))
-----------------------------------------------------------------------------
TypeOK ==
  /\ pc \in [Runs -> States] /\ locked \subseteq Runs /\ alive \subseteq Runs
  /\ lock \in [Spiders -> Tasks \cup {Free}]
  /\ row \in [Runs -> {"none", "running", "interrupted", "success", "failed"}]
  /\ stop \in BOOLEAN /\ stopping \in BOOLEAN
  /\ startup \in [at : {"idle", "read", "checked", "unchecked"}, rows : SUBSET Runs]
  /\ used \in [{"outages", "deaths", "stops"} -> Nat]

\* "A Redis lock per spider stops a scheduled and a manual run of the same spider
\* from crawling at the same time": at most one crawl of a spider was started
\* under its lock, and its key is there as long as it crawls.
OneCrawlPerSpider ==
  \A r \in alive \cap locked : /\ lock[r[2]] = r[1]
                               /\ \A q \in alive \cap locked : q[2] = r[2] => q = r

\* "A run whose scrape_lock key still exists is alive and must not be marked
\* interrupted by an API restart": lifespan never marks a crawl under its lock,
\* when it could look at the locks.
StartupSparesLive ==
  [][startup.at = "checked" /\ startup'.at = "idle" =>
       \A r \in alive \cap locked : row'[r] = row[r]]_vars

\* The row of a crawl under its lock says interrupted only while somebody stops
\* fetching or the crawl itself ends: no outsider takes it for stale, as long as
\* Redis was there.
LiveRowsRun ==
  [][\A r \in alive \cap locked : row[r] = "running" /\ row'[r] = "interrupted" =>
       stopping \/ r \notin alive' \/ used.outages > 0]_vars

\* Once stopped, and until fetching is allowed again, every crawl ends: "running
\* scrapes will be interrupted; remaining platforms in this run will be skipped."
StopEndsCrawls == stop ~> (~stop \/ alive = {})

\* A spider is not locked out for good but by a crawl that goes on: the key of a
\* run that ended, was cancelled or died is gone at last.
LocksAreFreed == \A s \in Spiders : []<>(lock[s] = Free \/ <<lock[s], s>> \in alive)
=============================================================================
