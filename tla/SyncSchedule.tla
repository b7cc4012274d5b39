---------------------------- MODULE SyncSchedule ----------------------------
(***************************************************************************)
(* The schedule of the platform sync: one JSON value in system_settings    *)
(* (job_sync_schedule_service.py) that the minute tick of the scraper      *)
(* worker, the admin who saves it and the stop button read and write as a  *)
(* whole.  A session reads the row once and writes it when it commits.     *)
(*                                                                         *)
(* Time is a number of slots, the intervals or the days of the cadence: a  *)
(* schedule that has run is due when its last run is older than the slot   *)
(* that has come.  ScrapeRuns has what becomes of the tasks.               *)
(***************************************************************************)
EXTENDS Integers

CONSTANTS Ticks,        \* ticks that may run at the same time
          Admins,       \* requests of admins that may run at the same time
          Cadences,     \* cadences that admins choose
          Overlap,      \* a session may read while another has read and not yet written
          MaxSlots,     \* bound: slots that come
          MaxTickDeaths \* bound: ticks that die with their worker

ASSUME SlotAssumption ==
  /\ MaxSlots \in Nat /\ MaxTickDeaths \in Nat /\ Overlap \in BOOLEAN
  /\ Cadences \subseteq {"daily", "interval"} /\ Cadences # {}

VARIABLES stored,    \* the stored schedule: enabled, cadence, the slot of last_run_at
          slot,      \* the slot that has come
          busy,      \* a scrape_runs row is running
          fetchStop, \* scraper:fetch_stop
          fired,     \* tasks that were enqueued for a slot
          tick,      \* ticks: where they are and the schedule they read
          admin,     \* requests of admins: where they are and what they will write
          deaths

world == <<slot, busy, deaths>>
scheduleVars == <<stored, fetchStop, fired, tick, admin, world>>

Slots == 0..MaxSlots
Never == -1
Schedules == [enabled : BOOLEAN, cadence : Cadences, last : Slots \cup {Never}]
Unset == [enabled |-> FALSE, cadence |-> CHOOSE c \in Cadences : TRUE, last |-> Never]

\* A tick, or a request, that is somewhere in its task with a schedule in hand.
At(at, schedule) == [at |-> at, schedule |-> schedule]
Resting == At("idle", Unset)

ScheduleInit ==
  /\ stored = Unset
  /\ slot = 0 /\ busy = FALSE /\ fetchStop = FALSE /\ deaths = 0
  /\ fired = [n \in Slots |-> 0]
  /\ tick = [k \in Ticks |-> Resting] /\ admin = [a \in Admins |-> Resting]

\* is_schedule_due: without a last run an interval is due at once, and the day's
\* run is put off to the next day once its time has come.
DueIf(s, never) == s.enabled /\ IF s.last = Never THEN never ELSE s.last < slot
\* Mutant: without a last run nothing is due.
DueNever(s) == DueIf(s, FALSE)

Due(s) == DueIf(s, s.cadence = "interval")

\* A session may begin.
Open == Overlap \/ /\ \A k \in Ticks : tick[k].at \notin {"claim", "report"}
                   /\ \A a \in Admins : admin[a].at # "write"

TickAt(k, at, schedule) == tick' = [tick EXCEPT ![k] = At(at, schedule)]
AdminAt(a, at, schedule) == admin' = [admin EXCEPT ![a] = At(at, schedule)]

\* The next slot comes; a scrape starts or ends.
NewSlot == slot < MaxSlots /\ slot' = slot + 1 /\ UNCHANGED <<stored, fetchStop, fired, tick, admin, busy, deaths>>
Scrape == busy' = ~busy /\ UNCHANGED <<stored, fetchStop, fired, tick, admin, slot, deaths>>

(***************************************************************************)
(* check_job_sync_schedule_task                                            *)
(***************************************************************************)

\* The tick goes on when the schedule is enabled, due and nothing is in its way.
TickRead(k) ==
  /\ tick[k] = Resting /\ Open /\ Due(stored) /\ ~fetchStop /\ ~busy
  /\ TickAt(k, "claim", stored)
  /\ UNCHANGED <<stored, fetchStop, fired, admin, world>>

\* mark_schedule_run writes the schedule that was read, with the run.
MarkScheduleRun(k, from, to) ==
  /\ tick[k].at = from /\ stored' = [tick[k].schedule EXCEPT !.last = slot]
  /\ TickAt(k, to, IF to = "idle" THEN Unset ELSE stored')
  /\ UNCHANGED <<fetchStop, fired, admin, world>>

\* Mutant: the tick takes the slot for claimed and writes nothing.
ClaimNothing(k) ==
  /\ tick[k].at = "claim" /\ TickAt(k, "enqueue", [stored EXCEPT !.last = slot])
  /\ UNCHANGED <<stored, fetchStop, fired, admin, world>>

TickClaim(k) == MarkScheduleRun(k, "claim", "enqueue")

\* The task is on its way before the tick says so; or the plan, a platform's
\* session or the queue failed.
TickEnqueue(k) ==
  /\ tick[k].at = "enqueue"
  /\ \/ fired' = [fired EXCEPT ![tick[k].schedule.last] = @ + 1]
     \/ UNCHANGED fired
  /\ TickAt(k, "enqueued", tick[k].schedule) /\ UNCHANGED <<stored, fetchStop, admin, world>>

\* A session of its own reads the schedule again, and says queued or failed.
TickReread(k) ==
  /\ tick[k].at = "enqueued" /\ Open /\ TickAt(k, "report", stored)
  /\ UNCHANGED <<stored, fetchStop, fired, admin, world>>

TickReport(k) == MarkScheduleRun(k, "report", "idle")

TickDies(k) == /\ tick[k].at # "idle" /\ deaths < MaxTickDeaths /\ deaths' = deaths + 1
               /\ TickAt(k, "idle", Unset) /\ UNCHANGED <<stored, fetchStop, fired, admin, slot, busy>>

(***************************************************************************)
(* Admins                                                                  *)
(***************************************************************************)

\* put_job_sync_schedule: enabling clears the flag first.
SaveBegin(a, on, cadence) ==
  /\ admin[a] = Resting /\ fetchStop' = (fetchStop /\ ~on)
  /\ AdminAt(a, "save", [enabled |-> on, cadence |-> cadence, last |-> Never])
  /\ UNCHANGED <<stored, fired, tick, world>>

\* stop_job_fetching: the flag, and the schedule in a session of its own.
StopBegin(a) == /\ admin[a] = Resting /\ fetchStop' = TRUE /\ AdminAt(a, "stop", Unset)
                /\ UNCHANGED <<stored, fired, tick, world>>

\* Saving keeps the last run that is stored, ...
SaveReadAs(a, last) ==
  /\ admin[a].at = "save" /\ Open
  /\ AdminAt(a, "write", [admin[a].schedule EXCEPT !.last = last])
  /\ UNCHANGED <<stored, fetchStop, fired, tick, world>>
\* Mutant: saving a configuration forgets the last run.
SaveAnew(a) == SaveReadAs(a, Never)

SaveRead(a) == SaveReadAs(a, stored.last)

\* ... and stopping all but enabled; a schedule that is not enabled is left alone.
StopRead(a) ==
  /\ admin[a].at = "stop" /\ Open
  /\ IF stored.enabled THEN AdminAt(a, "write", [stored EXCEPT !.enabled = FALSE])
     ELSE AdminAt(a, "idle", Unset)
  /\ UNCHANGED <<stored, fetchStop, fired, tick, world>>

\* save_schedule writes the whole value.
AdminSave(a) ==
  /\ admin[a].at = "write" /\ stored' = admin[a].schedule
  /\ AdminAt(a, "idle", Unset) /\ UNCHANGED <<fetchStop, fired, tick, world>>

\* A sync by hand, and a flag that expires, clear it too.
ClearFetchStop == fetchStop /\ fetchStop' = FALSE /\ UNCHANGED <<stored, fired, tick, admin, world>>

TickStep(k) == \/ TickRead(k) \/ TickClaim(k) \/ TickEnqueue(k)
               \/ TickReread(k) \/ TickReport(k)
AdminStep(a) == SaveRead(a) \/ StopRead(a) \/ AdminSave(a)

ScheduleNext ==
  \/ NewSlot \/ Scrape \/ ClearFetchStop
  \/ \E k \in Ticks : TickStep(k) \/ TickDies(k)
  \/ \E a \in Admins : \/ \E on \in BOOLEAN, cadence \in Cadences : SaveBegin(a, on, cadence)
                       \/ StopBegin(a) \/ AdminStep(a)

ScheduleSpec == ScheduleInit /\ [][ScheduleNext]_scheduleVars

\* arq starts the tick every minute, and ticks and requests that run go on.
FairSchedule == /\ ScheduleSpec /\ \A k \in Ticks : WF_scheduleVars(TickStep(k))
                /\ \A a \in Admins : WF_scheduleVars(AdminStep(a))
-----------------------------------------------------------------------------
ScheduleTypeOK ==
  /\ stored \in Schedules /\ slot \in Slots
  /\ busy \in BOOLEAN /\ fetchStop \in BOOLEAN /\ deaths \in Nat
  /\ fired \in [Slots -> Nat]
  /\ tick \in [Ticks -> [at : {"idle", "claim", "enqueue", "enqueued", "report"},
                         schedule : Schedules]]
  /\ admin \in [Admins -> [at : {"idle", "save", "stop", "write"}, schedule : Schedules]]

\* "Claim the slot before enqueue so overlapping ticks do not double-fire": a slot
\* enqueues one task, also when a tick dies half way or the schedule is saved.
SlotFiresOnce == \A n \in Slots : fired[n] <= 1

\* "Scheduled sync was disabled": only admins switch the schedule on and off and
\* choose its cadence; a tick never puts back a configuration that it had read.
OnlyAdminsConfigure ==
  [][stored'.enabled # stored.enabled \/ stored'.cadence # stored.cadence
       => admin' # admin]_scheduleVars

LeftEnabled == stored.enabled /\ ~fetchStop /\ ~busy /\ \A a \in Admins : admin[a] = Resting

\* A schedule with an interval that is left enabled, with nothing in its way, runs,
\* the first time included.  A daily one that has never run does not.
IntervalRuns ==
  <>[](LeftEnabled /\ stored.cadence = "interval") => <>(stored.last # Never)
=============================================================================
