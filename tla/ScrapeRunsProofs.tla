---------------------------- MODULE ScrapeRunsProofs ----------------------------
(***************************************************************************)
(* Proofs about ScrapeRuns for any tasks and spiders, any number of        *)
(* outages, deaths and stops.                                              *)
(*                                                                         *)
(* A run that took the lock of its spider holds it as long as it is        *)
(* watched (Holding), a run that is watched without it started in an       *)
(* outage (Excused), and a row belongs to a run that has had its turn      *)
(* (Opened), so the rows an API that starts found without a lock never     *)
(* become those of a crawl under its lock (Spared).                        *)
(*                                                                         *)
(* And about SyncSchedule, which starts the tasks, for any ticks,          *)
(* requests, cadences, slots and deaths, where sessions do not overlap.  A *)
(* session that has read and not written is the only one (Alone), so it    *)
(* writes over what it read (Fresh), and the last run that is stored never *)
(* goes back: a slot that was claimed lies behind it (Claimed), and only a *)
(* slot ahead of it is claimed (Ahead).                                    *)
(***************************************************************************)
EXTENDS ScrapeRuns, SyncSchedule, TLAPS
-----------------------------------------------------------------------------
(* The runs. *)

Inside == {"starting", "crawling", "marking", "release", "unwinding"}

Holding == \A r \in locked : pc[r] \in Inside /\ lock[r[2]] = r[1]
Crawling == \A r \in alive : pc[r] \in {"crawling", "unwinding"}
Excused == \A r \in Runs : pc[r] \in Inside /\ r \notin locked => used.outages > 0
Opened == \A r \in Runs : row[r] # "none" => pc[r] \notin {"none", "queued", "waiting"}
Spared == /\ \A r \in startup.rows : row[r] # "none"
          /\ startup.at = "checked" => startup.rows \cap locked = {}
          /\ startup.at = "unchecked" => used.outages > 0

Inv == TypeOK /\ Holding /\ Crawling /\ Excused /\ Opened /\ Spared

LEMMA RunOf ==
  ASSUME NEW r \in Runs
  PROVE  r[1] \in Tasks /\ r[2] \in Spiders /\ r = <<r[1], r[2]>>
  BY DEF Runs

\* Two runs that hold the lock of a spider are one.
LEMMA OneHolder ==
  ASSUME Inv, NEW r \in locked, NEW q \in locked, r[2] = q[2]
  PROVE  r = q
<1>1. r \in Runs /\ q \in Runs
  BY DEF Inv, TypeOK
<1>2. r[1] = q[1]
  BY DEF Inv, Holding
<1>3. r = <<r[1], r[2]>> /\ q = <<q[1], q[2]>>
  BY <1>1, RunOf
<1> QED BY <1>2, <1>3
-----------------------------------------------------------------------------
LEMMA InitInv == Init => Inv
<1> SUFFICES ASSUME Init PROVE Inv
  OBVIOUS
<1>1. used \in [{"outages", "deaths", "stops"} -> Nat]
  BY DEF Init
<1>2. startup \in [at : {"idle", "read", "checked", "unchecked"}, rows : SUBSET Runs]
  BY DEF Init, Idle
<1>3. lock \in [Spiders -> Tasks \cup {Free}] /\ pc \in [Runs -> States]
  BY DEF Init, States
<1>4. TypeOK
  BY <1>1, <1>2, <1>3 DEF Init, TypeOK
<1>5. Holding /\ Crawling /\ Excused /\ Opened /\ Spared
  BY DEF Init, Idle, Holding, Crawling, Excused, Opened, Spared, Inside
<1> QED BY <1>4, <1>5 DEF Inv

\* A run moves on and nothing else happens.
LEMMA Moved ==
  ASSUME Inv, NEW r \in Runs, NEW l \in States, Goto(r, l),
         r \in locked => l \in Inside, r \in alive => l \in {"crawling", "unwinding"},
         l \in Inside => pc[r] \in Inside,
         l \in {"none", "queued", "waiting"} => pc[r] \in {"none", "queued", "waiting"},
         UNCHANGED <<locked, lock, alive, row, startup, used>>,
         stop' \in BOOLEAN, stopping' \in BOOLEAN
  PROVE  Inv'
<1>1. pc' = [pc EXCEPT ![r] = l] /\ pc \in [Runs -> States]
  BY DEF Goto, Inv, TypeOK
<1>2. TypeOK'
  BY <1>1 DEF Inv, TypeOK
<1>3. Holding' /\ Crawling' /\ Excused' /\ Opened' /\ Spared'
  BY <1>1 DEF Inv, TypeOK, Holding, Crawling, Excused, Opened, Spared
<1> QED BY <1>2, <1>3 DEF Inv

\* Rows change and the runs do not; no row is opened or taken back.
LEMMA Written ==
  ASSUME Inv, row' \in [Runs -> {"none", "running", "interrupted", "success", "failed"}],
         \A r \in Runs : row[r] = "none" <=> row'[r] = "none",
         alive' \subseteq alive, UNCHANGED <<pc, locked, lock, startup, used>>,
         stop' \in BOOLEAN, stopping' \in BOOLEAN
  PROVE  Inv'
<1>1. TypeOK'
  BY DEF Inv, TypeOK
<1>2. Holding' /\ Crawling' /\ Excused' /\ Opened'
  BY DEF Inv, TypeOK, Holding, Crawling, Excused, Opened
<1>3. Spared'
  BY DEF Inv, TypeOK, Spared
<1> QED BY <1>1, <1>2, <1>3 DEF Inv

LEMMA InterruptRows ==
  ASSUME Inv, NEW rs, Interrupt(rs)
  PROVE  /\ row' \in [Runs -> {"none", "running", "interrupted", "success", "failed"}]
         /\ \A r \in Runs : row[r] = "none" <=> row'[r] = "none"
         /\ \A r \in Runs : row'[r] # row[r] => r \in rs
  BY DEF Interrupt, SetRows, Inv, TypeOK
-----------------------------------------------------------------------------
LEMMA TaskStep ==
  ASSUME Inv, NEW t \in Tasks,
         \/ \E plan \in (SUBSET Spiders) \ {{}} : Enqueue(t, plan)
         \/ Start(t) \/ CancelTask(t) \/ Die(t)
  PROVE  Inv'
<1>1. ASSUME NEW plan, Enqueue(t, plan) PROVE Inv'
  <2>1. /\ UNCHANGED <<locked, lock, alive, row, stop, stopping, startup, used>>
        /\ \A r \in Of(t) : pc[r] = "none"
        /\ pc' = [r \in Runs |-> IF r[1] # t THEN pc[r]
                                 ELSE IF r[2] \in plan THEN "queued" ELSE "done"]
    BY <1>1 DEF Enqueue, crawl, signals
  <2>2. pc' \in [Runs -> States]
    BY <2>1 DEF Inv, TypeOK, States
  <2>3. \A r \in Runs : pc'[r] = pc[r] \/ (pc[r] = "none" /\ pc'[r] \in {"queued", "done"})
    BY <2>1 DEF Of
  <2> QED BY <2>1, <2>2, <2>3
      DEF Inv, TypeOK, Holding, Crawling, Excused, Opened, Spared, Inside
<1>2. ASSUME Start(t) PROVE Inv'
  <2>1. /\ UNCHANGED <<locked, lock, alive, row, stop, stopping, startup, used>>
        /\ pc' = [r \in Runs |-> IF r \notin Of(t) \/ pc[r] # "queued" THEN pc[r]
                                 ELSE IF stop THEN "done" ELSE "waiting"]
    BY <1>2 DEF Start, crawl, signals
  <2>2. pc' \in [Runs -> States]
    BY <2>1 DEF Inv, TypeOK, States
  <2>3. \A r \in Runs : pc'[r] = pc[r] \/ (pc[r] = "queued" /\ pc'[r] \in {"waiting", "done"})
    BY <2>1
  <2> QED BY <2>1, <2>2, <2>3
      DEF Inv, TypeOK, Holding, Crawling, Excused, Opened, Spared, Inside
<1>3. ASSUME CancelTask(t) PROVE Inv'
  <2>1. /\ UNCHANGED <<locked, lock, alive, row, stop, stopping, startup, used>>
        /\ pc' = [r \in Runs |-> IF r \notin Of(t) THEN pc[r]
                                 ELSE CASE pc[r] = "waiting" -> "done"
                                        [] pc[r] = "starting" -> "release"
                                        [] pc[r] = "crawling" -> "unwinding"
                                        [] OTHER -> pc[r]]
    BY <1>3 DEF CancelTask, crawl, signals
  <2>2. \A r \in Runs : \/ pc'[r] = pc[r]
                        \/ pc[r] = "waiting" /\ pc'[r] = "done"
                        \/ pc[r] = "starting" /\ pc'[r] = "release"
                        \/ pc[r] = "crawling" /\ pc'[r] = "unwinding"
    BY <2>1
  <2>3. pc' \in [Runs -> States]
    BY <2>1, <2>2 DEF Inv, TypeOK, States, Watched
  <2> QED BY <2>1, <2>2, <2>3
      DEF Inv, TypeOK, Holding, Crawling, Excused, Opened, Spared, Inside
<1>4. ASSUME Die(t) PROVE Inv'
  <2>1. /\ UNCHANGED <<lock, row, stop, stopping, startup>>
        /\ pc' = [r \in Runs |-> IF r \in Of(t) /\ pc[r] \notin {"none", "queued", "done"}
                                 THEN "dead" ELSE pc[r]]
        /\ alive' = alive \ Of(t) /\ locked' = locked \ Of(t)
        /\ used' = [used EXCEPT !["deaths"] = @ + 1]
    BY <1>4 DEF Die, Count
  <2>2. used' \in [{"outages", "deaths", "stops"} -> Nat] /\ used'.outages = used.outages
    BY <2>1 DEF Inv, TypeOK
  <2>3. pc' \in [Runs -> States]
    BY <2>1 DEF Inv, TypeOK, States
  <2>4. \A r \in Runs : pc'[r] = pc[r] \/ (r \in Of(t) /\ pc'[r] = "dead"
                                           /\ pc[r] \notin {"none", "queued", "done"})
    BY <2>1
  <2>5. \A r \in Of(t) : pc[r] \in Inside => pc'[r] = "dead"
    BY <2>1 DEF Of, Inside
  <2>6. TypeOK'
    BY <2>1, <2>2, <2>3 DEF Inv, TypeOK
  <2>7. Holding' /\ Crawling' /\ Opened' /\ Spared'
    BY <2>1, <2>2, <2>4 DEF Inv, TypeOK, Holding, Crawling, Opened, Spared
  <2>8. Excused'
    BY <2>1, <2>2, <2>4, <2>5 DEF Inv, TypeOK, Excused, Inside
  <2> QED BY <2>6, <2>7, <2>8 DEF Inv
<1> QED BY <1>1, <1>2, <1>3, <1>4

LEMMA RunStep ==
  ASSUME Inv, NEW r \in Runs,
         \/ Skip(r) \/ Enter(r) \/ EnterUnlocked(r) \/ Launch(r) \/ EndOfCrawl(r)
         \/ KillCrawl(r) \/ Mark(r) \/ Release(r)
  PROVE  Inv'
<1> USE DEF Inside, States, Watched
<1>1. CASE Skip(r)
  <2>1. pc[r] = "waiting" /\ Goto(r, "done")
        /\ UNCHANGED <<locked, lock, alive, row, startup, used, stop, stopping>>
    BY <1>1 DEF Skip, crawl, signals
  <2> QED BY <2>1, Moved DEF Inv, TypeOK, Holding, Crawling
<1>2. CASE Enter(r)
  <2>1. /\ pc[r] = "waiting" /\ pc' = [pc EXCEPT ![r] = "starting"]
        /\ lock[r[2]] = Free /\ lock' = [lock EXCEPT ![r[2]] = r[1]]
        /\ locked' = locked \cup {r}
        /\ UNCHANGED <<alive, row, startup, used, stop, stopping>>
    BY <1>2 DEF Enter, Take, Goto, crawl, signals
  <2>2. r[1] \in Tasks /\ r[2] \in Spiders
    BY RunOf
  <2>3. TypeOK'
    BY <2>1, <2>2 DEF Inv, TypeOK
  <2>4. ASSUME NEW q \in locked' PROVE pc'[q] \in Inside /\ lock'[q[2]] = q[1]
    <3>1. CASE q = r
      BY <3>1, <2>1, <2>2 DEF Inv, TypeOK
    <3>2. CASE q \in locked
      <4>1. q \in Runs /\ pc[q] \in Inside /\ lock[q[2]] = q[1]
        BY <3>2 DEF Inv, TypeOK, Holding
      <4>2. q[1] \in Tasks /\ q[2] \in Spiders
        BY <4>1, RunOf
      <4>3. q # r /\ q[2] # r[2]
        BY <4>1, <4>2, <2>1, RunAssumption
      <4> QED BY <4>1, <4>2, <4>3, <2>1, <2>2 DEF Inv, TypeOK
    <3> QED BY <2>1, <3>1, <3>2
  <2>5. Holding'
    BY <2>4 DEF Holding
  <2>6. Crawling' /\ Excused' /\ Opened'
    BY <2>1 DEF Inv, TypeOK, Crawling, Excused, Opened
  <2>7. row[r] = "none"
    BY <2>1 DEF Inv, Opened
  <2>8. Spared'
    BY <2>1, <2>7 DEF Inv, TypeOK, Spared
  <2> QED BY <2>3, <2>5, <2>6, <2>8 DEF Inv
<1>3. CASE EnterUnlocked(r)
  <2>1. /\ pc[r] = "waiting" /\ pc' = [pc EXCEPT ![r] = "starting"]
        /\ used' = [used EXCEPT !["outages"] = @ + 1]
        /\ UNCHANGED <<locked, lock, alive, row, startup, stop, stopping>>
    BY <1>3 DEF EnterUnlocked, Count, Goto, crawl
  <2>2. used' \in [{"outages", "deaths", "stops"} -> Nat] /\ used'.outages > 0
    BY <2>1 DEF Inv, TypeOK
  <2>3. TypeOK'
    BY <2>1, <2>2 DEF Inv, TypeOK
  <2>4. Holding' /\ Crawling' /\ Excused' /\ Opened' /\ Spared'
    BY <2>1, <2>2 DEF Inv, TypeOK, Holding, Crawling, Excused, Opened, Spared
  <2> QED BY <2>3, <2>4 DEF Inv
<1>4. CASE Launch(r)
  <2>1. /\ pc[r] = "starting" /\ UNCHANGED <<locked, lock, row, startup, used, stop, stopping>>
        /\ \/ pc' = [pc EXCEPT ![r] = "release"] /\ UNCHANGED alive
           \/ pc' = [pc EXCEPT ![r] = "crawling"] /\ alive' = alive \cup {r}
    BY <1>4 DEF Launch, Goto, signals
  <2>2. TypeOK'
    BY <2>1 DEF Inv, TypeOK
  <2>3. Holding' /\ Crawling' /\ Excused' /\ Opened' /\ Spared'
    BY <2>1 DEF Inv, TypeOK, Holding, Crawling, Excused, Opened, Spared
  <2> QED BY <2>2, <2>3 DEF Inv
<1>5. CASE EndOfCrawl(r)
  <2>1. pc[r] \in Inside /\ r \notin alive /\ Goto(r, "release")
        /\ UNCHANGED <<locked, lock, alive, row, startup, used, stop, stopping>>
    BY <1>5 DEF EndOfCrawl, crawl, signals
  <2> QED BY <2>1, Moved DEF Inv, TypeOK
<1>6. CASE KillCrawl(r)
  <2>1. /\ pc[r] = "crawling" /\ pc' = [pc EXCEPT ![r] = "marking"] /\ alive' = alive \ {r}
        /\ UNCHANGED <<locked, lock, row, startup, used, stop, stopping>>
    BY <1>6 DEF KillCrawl, Goto, signals
  <2>2. TypeOK'
    BY <2>1 DEF Inv, TypeOK
  <2>3. Holding' /\ Crawling' /\ Excused' /\ Opened' /\ Spared'
    BY <2>1 DEF Inv, TypeOK, Holding, Crawling, Excused, Opened, Spared
  <2> QED BY <2>2, <2>3 DEF Inv
<1>7. CASE Mark(r)
  <2>1. /\ pc[r] = "marking" /\ pc' = [pc EXCEPT ![r] = "release"]
        /\ UNCHANGED <<locked, lock, alive, startup, used, stop, stopping>>
        /\ UNCHANGED row \/ \E q : Interrupt({q})
    BY <1>7 DEF Mark, Goto, signals
  <2>2. /\ row' \in [Runs -> {"none", "running", "interrupted", "success", "failed"}]
        /\ \A q \in Runs : row[q] = "none" <=> row'[q] = "none"
    BY <2>1, InterruptRows DEF Inv, TypeOK
  <2>3. TypeOK'
    BY <2>1, <2>2 DEF Inv, TypeOK
  <2>4. Holding' /\ Crawling' /\ Excused' /\ Opened' /\ Spared'
    BY <2>1, <2>2 DEF Inv, TypeOK, Holding, Crawling, Excused, Opened, Spared
  <2> QED BY <2>3, <2>4 DEF Inv
<1>8. CASE Release(r)
  <2>1. /\ pc[r] = "release" /\ pc' = [pc EXCEPT ![r] = "done"] /\ locked' = locked \ {r}
        /\ lock' = IF r \in locked THEN [lock EXCEPT ![r[2]] = Free] ELSE lock
        /\ UNCHANGED <<alive, row, startup, used, stop, stopping>>
    BY <1>8 DEF Release, Unlock, Goto, crawl, signals
  <2>2. r[2] \in Spiders
    BY RunOf
  <2>3. TypeOK'
    BY <2>1, <2>2 DEF Inv, TypeOK
  <2>4. ASSUME NEW q \in locked' PROVE pc'[q] \in Inside /\ lock'[q[2]] = q[1]
    <3>1. q \in locked /\ q # r /\ q \in Runs /\ pc[q] \in Inside /\ lock[q[2]] = q[1]
      BY <2>1 DEF Inv, TypeOK, Holding
    <3>2. r \in locked => q[2] # r[2]
      BY <3>1, OneHolder
    <3>3. q[2] \in Spiders
      BY <3>1, RunOf
    <3> QED BY <2>1, <2>2, <3>1, <3>2, <3>3 DEF Inv, TypeOK
  <2>5. Holding'
    BY <2>4 DEF Holding
  <2>6. Crawling' /\ Excused' /\ Opened' /\ Spared'
    BY <2>1 DEF Inv, TypeOK, Crawling, Excused, Opened, Spared
  <2> QED BY <2>3, <2>5, <2>6 DEF Inv
<1> QED BY <1>1, <1>2, <1>3, <1>4, <1>5, <1>6, <1>7, <1>8

LEMMA CrawlStep ==
  ASSUME Inv, NEW r \in Runs, OpenRow(r) \/ Close(r) \/ Crash(r) \/ HealStale(r)
  PROVE  Inv'
<1>1. CASE OpenRow(r)
  <2>1. /\ r \in alive /\ row' = [row EXCEPT ![r] = "running"]
        /\ UNCHANGED <<pc, locked, lock, alive, startup, used, stop, stopping>>
    BY <1>1 DEF OpenRow, SetRows, run, signals, Inv, TypeOK
  <2>2. TypeOK'
    BY <2>1 DEF Inv, TypeOK
  <2>3. Holding' /\ Crawling' /\ Excused' /\ Opened' /\ Spared'
    BY <2>1 DEF Inv, TypeOK, Holding, Crawling, Excused, Opened, Spared
  <2> QED BY <2>2, <2>3 DEF Inv
<1>2. CASE Close(r) \/ Crash(r)
  BY <1>2, Written DEF Close, CloseAs, SetRows, Crash, run, signals, Inv, TypeOK
<1>3. CASE HealStale(r)
  BY <1>3, Written, InterruptRows DEF HealStale, HealIf, run, signals, Inv, TypeOK
<1> QED BY <1>1, <1>2, <1>3

LEMMA OutsideStep ==
  ASSUME Inv,
         \/ \E s \in Spiders : Expire(s)
         \/ RequestStop \/ InterruptRunning \/ ClearStop
         \/ StartupRead \/ StartupCheck \/ StartupOutage \/ StartupWrite
  PROVE  Inv'
<1>1. ASSUME NEW s \in Spiders, Expire(s) PROVE Inv'
  <2>1. /\ pc[<<lock[s], s>>] = "dead" /\ lock' = [lock EXCEPT ![s] = Free]
        /\ UNCHANGED <<pc, locked, alive, row, startup, used, stop, stopping>>
    BY <1>1 DEF Expire, crawl, signals
  <2>2. ASSUME NEW q \in locked PROVE q[2] # s /\ q[2] \in Spiders
    <3>1. q \in Runs /\ pc[q] # "dead" /\ lock[q[2]] = q[1]
      BY DEF Inv, TypeOK, Holding, Inside
    <3>2. q = <<q[1], q[2]>> /\ q[2] \in Spiders
      BY <3>1, RunOf
    <3> QED BY <2>1, <3>1, <3>2
  <2>3. TypeOK'
    BY <2>1 DEF Inv, TypeOK
  <2>4. Holding'
    BY <2>1, <2>2 DEF Inv, TypeOK, Holding
  <2>5. Crawling' /\ Excused' /\ Opened' /\ Spared'
    BY <2>1 DEF Inv, TypeOK, Crawling, Excused, Opened, Spared
  <2> QED BY <2>3, <2>4, <2>5 DEF Inv
<1>2. ASSUME NEW k \in {"outages", "deaths", "stops"}, NEW max, Count(k, max)
      PROVE  used' \in [{"outages", "deaths", "stops"} -> Nat] /\ used'.outages >= used.outages
  BY <1>2 DEF Count, Inv, TypeOK
<1>3. CASE RequestStop
  <2>1. Count("stops", MaxStops) /\ stop' = TRUE /\ stopping' = TRUE
        /\ UNCHANGED <<pc, locked, lock, alive, row, startup>>
    BY <1>3 DEF RequestStop, run, crawl
  <2>2. used' \in [{"outages", "deaths", "stops"} -> Nat] /\ used'.outages >= used.outages
    BY <1>2, <2>1
  <2>3. TypeOK'
    BY <2>1, <2>2 DEF Inv, TypeOK
  <2>4. Holding' /\ Crawling' /\ Opened'
    BY <2>1 DEF Inv, TypeOK, Holding, Crawling, Opened
  <2>5. Excused' /\ Spared'
    BY <2>1, <2>2 DEF Inv, TypeOK, Excused, Spared
  <2> QED BY <2>3, <2>4, <2>5 DEF Inv
<1>4. CASE InterruptRunning
  BY <1>4, Written, InterruptRows DEF InterruptRunning, run, Inv, TypeOK
<1>5. CASE ClearStop
  BY <1>5, Written DEF ClearStop, run, crawl, Inv, TypeOK
<1>6. CASE StartupRead \/ StartupCheck
  <2>1. /\ UNCHANGED <<pc, locked, lock, alive, row, stop, stopping, used>>
        /\ \/ startup' = [at |-> "read", rows |-> Running]
           \/ startup.at = "read" /\ startup' = [at |-> "checked", rows |-> startup.rows \cap Unheld]
    BY <1>6 DEF StartupRead, StartupCheck, Boot, Look, run, crawl
  <2>2. Running \subseteq Runs /\ \A r \in Running : row[r] # "none"
    BY DEF Running
  <2>3. Unheld \cap locked = {}
    BY RunOf, RunAssumption DEF Unheld, Inv, TypeOK, Holding
  <2>4. TypeOK'
    BY <2>1, <2>2 DEF Inv, TypeOK
  <2>5. Holding' /\ Crawling' /\ Excused' /\ Opened'
    BY <2>1 DEF Inv, Holding, Crawling, Excused, Opened
  <2>6. Spared'
    BY <2>1, <2>2, <2>3 DEF Inv, Spared
  <2> QED BY <2>4, <2>5, <2>6 DEF Inv
<1>7. CASE StartupOutage
  <2>1. /\ used' = [used EXCEPT !["outages"] = @ + 1]
        /\ startup' = [at |-> "unchecked", rows |-> startup.rows]
        /\ UNCHANGED <<pc, locked, lock, alive, row, stop, stopping>>
    BY <1>7 DEF StartupOutage, Count, Boot, run, crawl
  <2>2. used' \in [{"outages", "deaths", "stops"} -> Nat] /\ used'.outages > 0
    BY <2>1 DEF Inv, TypeOK
  <2>3. TypeOK'
    BY <2>1, <2>2 DEF Inv, TypeOK
  <2>4. Holding' /\ Crawling' /\ Opened'
    BY <2>1 DEF Inv, Holding, Crawling, Opened
  <2>5. Excused' /\ Spared'
    BY <2>1, <2>2 DEF Inv, Excused, Spared
  <2> QED BY <2>3, <2>4, <2>5 DEF Inv
<1>8. CASE StartupWrite
  <2>1. /\ startup' = [at |-> "idle", rows |-> {}] /\ Interrupt(startup.rows)
        /\ UNCHANGED <<pc, locked, lock, alive, used, stop, stopping>>
    BY <1>8 DEF StartupWrite, Boot, run
  <2>2. /\ row' \in [Runs -> {"none", "running", "interrupted", "success", "failed"}]
        /\ \A q \in Runs : row[q] = "none" <=> row'[q] = "none"
    BY <2>1, InterruptRows
  <2>3. TypeOK'
    BY <2>1, <2>2 DEF Inv, TypeOK
  <2>4. Holding' /\ Crawling' /\ Excused' /\ Opened' /\ Spared'
    BY <2>1, <2>2 DEF Inv, TypeOK, Holding, Crawling, Excused, Opened, Spared
  <2> QED BY <2>3, <2>4 DEF Inv
<1> QED BY <1>1, <1>3, <1>4, <1>5, <1>6, <1>7, <1>8

LEMMA NextInv == Inv /\ [Next]_vars => Inv'
<1> SUFFICES ASSUME Inv, [Next]_vars PROVE Inv'
  OBVIOUS
<1>1. CASE UNCHANGED vars
  BY <1>1 DEF vars, run, crawl, signals, Inv, TypeOK, Holding, Crawling, Excused, Opened, Spared
<1>2. CASE Next
  BY <1>2, TaskStep, RunStep, CrawlStep, OutsideStep DEF Next, StopCrawl, TimeOut
<1> QED BY <1>1, <1>2

LEMMA Invariance == Spec => []Inv
  BY InitInv, NextInv, PTL DEF Spec

\* The rows, the locks and the flags of a scrape keep their type (runner.py,
\* postgres.py).
THEOREM Typing == Spec => []TypeOK
  BY Invariance, PTL DEF Inv

\* For any tasks and spiders that overlap, and any outages, deaths and stops: at
\* most one crawl of a spider runs under its lock, and the key is its own
\* (run_scraper_task, runner.py).
THEOREM OneCrawl == Spec => []OneCrawlPerSpider
<1>1. Inv => OneCrawlPerSpider
  BY OneHolder DEF OneCrawlPerSpider, Inv, Holding
<1> QED BY <1>1, Invariance, PTL
-----------------------------------------------------------------------------
\* An API that starts, having looked at the locks, marks no crawl under its lock
\* (lifespan of main.py).
THEOREM StartupSpares == Spec => StartupSparesLive
<1>1. ASSUME Inv, [Next]_vars, startup.at = "checked", startup'.at = "idle",
             NEW r \in alive \cap locked
      PROVE  row'[r] = row[r]
  <2>1. CASE StartupWrite
    BY <2>1, <1>1, InterruptRows DEF StartupWrite, Inv, TypeOK, Spared
  <2>2. CASE ~StartupWrite
    <3>1. UNCHANGED startup \/ StartupRead \/ StartupCheck \/ StartupOutage
      BY <1>1, <2>2 DEF Next, vars, run, crawl, signals, Enqueue, Start, CancelTask, Die, Skip,
            Enter, Take, EnterUnlocked, Launch, EndOfCrawl, StopCrawl, TimeOut, KillCrawl, Mark,
            Release, Unlock, OpenRow, Close, CloseAs, Crash, HealStale, HealIf, Expire,
            RequestStop, InterruptRunning, ClearStop
    <3> QED BY <1>1, <3>1 DEF StartupRead, StartupCheck, StartupOutage
  <2> QED BY <2>1, <2>2
<1>2. Inv /\ [Next]_vars => (startup.at = "checked" /\ startup'.at = "idle" =>
                              \A r \in alive \cap locked : row'[r] = row[r])
  BY <1>1
<1> QED BY <1>2, Invariance, PTL DEF Spec, StartupSparesLive

\* Crawls that end before a row counts as stale are not taken for stale: the row of
\* a crawl under its lock is interrupted by a stop or by its own end only, unless
\* Redis was away (get_sync_status, lifespan, _mark_scrape_run_interrupted).
THEOREM LiveRows == ASSUME ~SlowCrawls PROVE Spec => LiveRowsRun
<1>1. ASSUME Inv, Next, NEW r \in alive \cap locked, row[r] = "running",
             row'[r] = "interrupted", ~stopping, r \in alive'
      PROVE  used.outages > 0
  <2>0. r \in Runs /\ row'[r] # row[r]
    BY <1>1 DEF Inv, TypeOK
  <2>1. ASSUME NEW q \in Runs, Mark(q) PROVE used.outages > 0
    <3>1. pc[q] = "marking" /\ \E p \in Runs : p[2] = q[2] /\ Interrupt({p})
      BY <2>0, <2>1 DEF Mark
    <3>2. r[2] = q[2]
      <4>1. PICK p \in Runs : p[2] = q[2] /\ Interrupt({p})
        BY <3>1
      <4>2. r \in {p}
        BY <4>1, <2>0, InterruptRows, <1>1
      <4> QED BY <4>1, <4>2
    <3>3. q \notin locked
      BY <3>1, <3>2, <1>1, OneHolder DEF Inv, Crawling
    <3> QED BY <3>1, <3>3, <1>1 DEF Inv, Excused, Inside
  <2>2. ASSUME StartupWrite PROVE used.outages > 0
    BY <2>0, <2>2, <1>1, InterruptRows DEF StartupWrite, Inv, TypeOK, Spared
  <2>3. ASSUME NEW q \in Runs, OpenRow(q) \/ Close(q) \/ Crash(q) \/ HealStale(q) PROVE FALSE
    BY <2>0, <2>3, <1>1 DEF OpenRow, Close, CloseAs, Crash, HealStale, HealIf, SetRows,
          Interrupt, Inv, TypeOK
  <2>4. CASE UNCHANGED row
    BY <2>0, <2>4
  <2> QED BY <1>1, <2>1, <2>2, <2>3, <2>4 DEF Next, run, crawl, signals, Enqueue, Start,
        CancelTask, Die, Skip, Enter, Take, EnterUnlocked, Launch, EndOfCrawl, StopCrawl, TimeOut,
        KillCrawl, Release, Unlock, Expire, RequestStop, InterruptRunning, ClearStop,
        StartupRead, StartupCheck, StartupOutage
<1>2. ASSUME Inv, [Next]_vars, NEW r \in alive \cap locked, row[r] = "running",
             row'[r] = "interrupted"
      PROVE  stopping \/ r \notin alive' \/ used.outages > 0
  BY <1>1, <1>2 DEF vars, crawl
<1>3. Inv /\ [Next]_vars => \A r \in alive \cap locked :
        row[r] = "running" /\ row'[r] = "interrupted" =>
          stopping \/ r \notin alive' \/ used.outages > 0
  BY <1>2
<1> QED BY <1>3, Invariance, PTL DEF Spec, LiveRowsRun
-----------------------------------------------------------------------------
(* The schedule. *)

Holds(k) == tick[k].at \in {"claim", "report"}
Writes(a) == admin[a].at = "write"

Alone == /\ \A k, l \in Ticks : Holds(k) /\ Holds(l) => k = l
         /\ \A a, b \in Admins : Writes(a) /\ Writes(b) => a = b
         /\ \A k \in Ticks, a \in Admins : ~(Holds(k) /\ Writes(a))
Fresh == /\ \A k \in Ticks : Holds(k) => tick[k].schedule = stored
         /\ \A a \in Admins : Writes(a) => admin[a].schedule.last = stored.last
Ahead == /\ stored.last <= slot
         /\ \A k \in Ticks : tick[k].at = "claim" => stored.last < slot
Claimed ==
  /\ \A n \in Slots : fired[n] \in {0, 1} /\ (fired[n] = 1 => n <= stored.last)
  /\ \A k \in Ticks : tick[k].at = "enqueue" =>
       LET n == tick[k].schedule.last
       IN  /\ n \in Slots /\ n <= stored.last /\ fired[n] = 0
           /\ \A l \in Ticks : tick[l].at = "enqueue" /\ tick[l].schedule.last = n => l = k

SlotInv == ScheduleTypeOK /\ Alone /\ Fresh /\ Ahead /\ Claimed

LEMMA SlotsType ==
   (\A n \in Slots : n \in Nat) /\ 0 \in Slots /\ Never \notin Slots
  BY SlotAssumption DEF Slots, Never

LEMMA LastType ==
  ASSUME NEW s \in Schedules
  PROVE  s.last \in Slots \cup {Never} /\ s.last \in Int
<1>1. s.last \in Slots \cup {Never}
  BY DEF Schedules
<1>2. Never \in Int
  BY DEF Never
<1> QED BY <1>1, <1>2, SlotsType

LEMMA UnsetType ==
   Unset \in Schedules /\ Unset.last = Never
<1>1. (CHOOSE c \in Cadences : TRUE) \in Cadences
  BY SlotAssumption
<1> QED BY <1>1 DEF Unset, Schedules

LEMMA SlotInit == ScheduleInit => SlotInv
<1> SUFFICES ASSUME ScheduleInit PROVE SlotInv
  OBVIOUS
<1>1. ScheduleTypeOK
  BY UnsetType, SlotsType DEF ScheduleInit, ScheduleTypeOK, Resting, At
<1>2. Alone /\ Fresh /\ Ahead /\ Claimed
  BY UnsetType, SlotsType DEF ScheduleInit, Resting, At, Holds, Writes, Alone, Fresh, Ahead,
     Claimed, Never
<1> QED BY <1>1, <1>2 DEF SlotInv

\* What a tick may do without touching the stored schedule.
LEMMA TickMoves ==
  ASSUME SlotInv, NEW k \in Ticks,
         NEW at \in {"idle", "claim", "enqueue", "enqueued", "report"},
         NEW s \in Schedules, TickAt(k, at, s)
  PROVE  /\ tick' \in [Ticks -> [at : {"idle", "claim", "enqueue", "enqueued", "report"},
                                 schedule : Schedules]]
         /\ tick'[k].at = at /\ tick'[k].schedule = s
         /\ \A l \in Ticks : l # k => tick'[l] = tick[l]
  BY DEF TickAt, At, SlotInv, ScheduleTypeOK

LEMMA AdminMoves ==
  ASSUME SlotInv, NEW a \in Admins, NEW at \in {"idle", "save", "stop", "write"},
         NEW s \in Schedules, AdminAt(a, at, s)
  PROVE  /\ admin' \in [Admins -> [at : {"idle", "save", "stop", "write"}, schedule : Schedules]]
         /\ admin'[a].at = at /\ admin'[a].schedule = s
         /\ \A b \in Admins : b # a => admin'[b] = admin[b]
  BY DEF AdminAt, At, SlotInv, ScheduleTypeOK

LEMMA WorldStep ==
  ASSUME SlotInv, NewSlot \/ Scrape \/ ClearFetchStop
  PROVE  SlotInv'
<1>0. slot \in Nat /\ stored.last \in Int
  BY SlotsType, LastType DEF SlotInv, ScheduleTypeOK
<1>a. slot' \in Slots /\ slot' >= slot
  BY <1>0, SlotAssumption DEF NewSlot, Scrape, ClearFetchStop, world,
     SlotInv, ScheduleTypeOK, Slots
<1>b. busy' \in BOOLEAN /\ fetchStop' \in BOOLEAN
  BY DEF NewSlot, Scrape, ClearFetchStop, world, SlotInv, ScheduleTypeOK
<1>1. UNCHANGED <<stored, fired, tick, admin, deaths>>
  BY DEF NewSlot, Scrape, ClearFetchStop, world
<1>2. ScheduleTypeOK'
  BY <1>1, <1>a, <1>b DEF SlotInv, ScheduleTypeOK
<1>3. Alone' /\ Fresh'
  BY <1>1 DEF SlotInv, Alone, Fresh, Holds, Writes
<1>4. Ahead'
  BY <1>0, <1>1, <1>a, SlotsType DEF SlotInv, ScheduleTypeOK, Ahead
<1>5. Claimed'
  BY <1>1 DEF SlotInv, Claimed
<1> QED BY <1>2, <1>3, <1>4, <1>5 DEF SlotInv

LEMMA TickInv ==
  ASSUME ~Overlap, SlotInv, NEW k \in Ticks, TickStep(k) \/ TickDies(k)
  PROVE  SlotInv'
<1>0. /\ stored \in Schedules /\ tick[k].schedule \in Schedules
      /\ stored.last \in Int /\ slot \in Nat
  BY SlotsType, LastType DEF SlotInv, ScheduleTypeOK
<1>1. CASE TickRead(k)
  <2>1. /\ Open /\ Due(stored) /\ TickAt(k, "claim", stored)
        /\ UNCHANGED <<stored, fetchStop, fired, admin, slot, busy, deaths>>
    BY <1>1 DEF TickRead, world
  <2>2. stored.last < slot
    BY <1>0, <2>1 DEF Due, DueIf, Never
  <2>3. (\A l \in Ticks : ~Holds(l)) /\ \A a \in Admins : ~Writes(a)
    BY <2>1 DEF Open, Holds, Writes
  <2>4. /\ tick' \in [Ticks -> [at : {"idle", "claim", "enqueue", "enqueued", "report"},
                                schedule : Schedules]]
        /\ tick'[k].at = "claim" /\ tick'[k].schedule = stored
        /\ \A l \in Ticks : l # k => tick'[l] = tick[l]
    BY <1>0, <2>1, TickMoves
  <2>5. ScheduleTypeOK'
    BY <2>1, <2>4 DEF SlotInv, ScheduleTypeOK
  <2>6. Alone' /\ Fresh'
    BY <2>1, <2>3, <2>4 DEF SlotInv, Alone, Fresh, Holds, Writes
  <2>7. Ahead' /\ Claimed'
    BY <2>1, <2>2, <2>4 DEF SlotInv, Ahead, Claimed
  <2> QED BY <2>5, <2>6, <2>7 DEF SlotInv
<1>2. CASE TickClaim(k)
  <2>1. /\ tick[k].at = "claim" /\ stored' = [tick[k].schedule EXCEPT !.last = slot]
        /\ TickAt(k, "enqueue", stored')
        /\ UNCHANGED <<fetchStop, fired, admin, slot, busy, deaths>>
    BY <1>2 DEF TickClaim, MarkScheduleRun, world
  <2>2. stored' \in Schedules /\ stored'.last = slot /\ slot \in Slots
    BY <1>0, <2>1 DEF SlotInv, ScheduleTypeOK, Schedules
  <2>3. stored.last < slot
    BY <2>1 DEF SlotInv, Ahead
  <2>4. /\ tick' \in [Ticks -> [at : {"idle", "claim", "enqueue", "enqueued", "report"},
                                schedule : Schedules]]
        /\ tick'[k].at = "enqueue" /\ tick'[k].schedule = stored'
        /\ \A l \in Ticks : l # k => tick'[l] = tick[l]
    BY <2>1, <2>2, TickMoves
  <2>5. ScheduleTypeOK'
    BY <2>1, <2>2, <2>4 DEF SlotInv, ScheduleTypeOK
  <2>6. (\A l \in Ticks : Holds(l) => l = k) /\ \A a \in Admins : ~Writes(a)
    BY <2>1 DEF SlotInv, Alone, Holds
  <2>7. Alone' /\ Fresh'
    BY <2>1, <2>4, <2>6 DEF SlotInv, Alone, Fresh, Holds, Writes
  <2>8. Ahead'
    BY <2>1, <2>2, <2>4, <2>6, <1>0 DEF SlotInv, Ahead, Holds
  <2>9. Claimed'
    <3>1. fired[slot] = 0
      BY <1>0, <2>2, <2>3 DEF SlotInv, Claimed
    <3>2. \A l \in Ticks : tick[l].at = "enqueue" => tick[l].schedule.last # slot
      BY <1>0, <2>2, <2>3, SlotsType DEF SlotInv, Claimed
    <3>3. \A n \in Slots : n <= stored.last => n <= slot
      BY <1>0, <2>3, SlotsType
    <3>4. ASSUME NEW n \in Slots
          PROVE  fired'[n] \in {0, 1} /\ (fired'[n] = 1 => n <= stored'.last)
      BY <2>1, <2>2, <3>3 DEF SlotInv, Claimed
    <3>5. ASSUME NEW l \in Ticks, tick'[l].at = "enqueue", NEW m, m = tick'[l].schedule.last
          PROVE  /\ m \in Slots /\ m <= stored'.last /\ fired'[m] = 0
                 /\ \A j \in Ticks : tick'[j].at = "enqueue" /\ tick'[j].schedule.last = m => j = l
      <4>1. CASE l = k
        <5>1. m = slot /\ m \in Slots /\ m <= stored'.last /\ fired'[m] = 0
          <6>1. m = slot /\ stored'.last = slot /\ slot \in Slots
            BY <4>1, <2>2, <2>4, <3>5
          <6>2. m <= stored'.last
            BY <6>1, <1>0
          <6> QED BY <6>1, <6>2, <2>1, <3>1
        <5>2. ASSUME NEW j \in Ticks, tick'[j].at = "enqueue", tick'[j].schedule.last = m, j # l
              PROVE  FALSE
          BY <4>1, <5>1, <5>2, <2>4, <3>2
        <5> QED BY <5>1, <5>2
      <4>2. CASE l # k
        <5>1. tick'[l] = tick[l]
          BY <4>2, <2>4
        <5>2. /\ m \in Slots /\ m <= stored.last /\ fired[m] = 0 /\ m # slot
              /\ \A j \in Ticks : tick[j].at = "enqueue" /\ tick[j].schedule.last = m => j = l
          BY <5>1, <3>2, <3>5 DEF SlotInv, Claimed
        <5> QED BY <5>2, <2>1, <2>2, <2>4, <3>3
      <4> QED BY <4>1, <4>2
    <3> QED BY <3>4, <3>5 DEF Claimed
  <2> QED BY <2>5, <2>7, <2>8, <2>9 DEF SlotInv
<1>3. CASE TickEnqueue(k)
  <2> DEFINE n == tick[k].schedule.last
  <2>1. /\ tick[k].at = "enqueue" /\ TickAt(k, "enqueued", tick[k].schedule)
        /\ fired' = [fired EXCEPT ![n] = @ + 1] \/ UNCHANGED fired
        /\ UNCHANGED <<stored, fetchStop, admin, slot, busy, deaths>>
    BY <1>3 DEF TickEnqueue, world
  <2>2. /\ n \in Slots /\ n <= stored.last /\ fired[n] = 0
        /\ \A l \in Ticks : tick[l].at = "enqueue" /\ tick[l].schedule.last = n => l = k
    BY <2>1 DEF SlotInv, Claimed
  <2>3. /\ fired' \in [Slots -> Nat] /\ fired'[n] \in {0, 1}
        /\ \A m \in Slots : m # n => fired'[m] = fired[m]
    BY <2>1, <2>2 DEF SlotInv, ScheduleTypeOK
  <2>4. /\ tick' \in [Ticks -> [at : {"idle", "claim", "enqueue", "enqueued", "report"},
                                schedule : Schedules]]
        /\ tick'[k].at = "enqueued"
        /\ \A l \in Ticks : l # k => tick'[l] = tick[l]
    BY <1>0, <2>1, TickMoves
  <2>5. ScheduleTypeOK'
    BY <2>1, <2>3, <2>4 DEF SlotInv, ScheduleTypeOK
  <2>6. Alone' /\ Fresh' /\ Ahead'
    BY <2>1, <2>4 DEF SlotInv, Alone, Fresh, Ahead, Holds, Writes
  <2>7. Claimed'
    BY <2>1, <2>2, <2>3, <2>4 DEF SlotInv, Claimed
  <2> QED BY <2>5, <2>6, <2>7 DEF SlotInv
<1>4. CASE TickReread(k)
  <2>1. /\ tick[k].at = "enqueued" /\ Open /\ TickAt(k, "report", stored)
        /\ UNCHANGED <<stored, fetchStop, fired, admin, slot, busy, deaths>>
    BY <1>4 DEF TickReread, world
  <2>3. (\A l \in Ticks : ~Holds(l)) /\ \A a \in Admins : ~Writes(a)
    BY <2>1 DEF Open, Holds, Writes
  <2>4. /\ tick' \in [Ticks -> [at : {"idle", "claim", "enqueue", "enqueued", "report"},
                                schedule : Schedules]]
        /\ tick'[k].at = "report" /\ tick'[k].schedule = stored
        /\ \A l \in Ticks : l # k => tick'[l] = tick[l]
    BY <1>0, <2>1, TickMoves
  <2>5. ScheduleTypeOK'
    BY <2>1, <2>4 DEF SlotInv, ScheduleTypeOK
  <2>6. Alone' /\ Fresh'
    BY <2>1, <2>3, <2>4 DEF SlotInv, Alone, Fresh, Holds, Writes
  <2>7. Ahead' /\ Claimed'
    BY <2>1, <2>4 DEF SlotInv, Ahead, Claimed
  <2> QED BY <2>5, <2>6, <2>7 DEF SlotInv
<1>5. CASE TickReport(k)
  <2>1. /\ tick[k].at = "report" /\ stored' = [tick[k].schedule EXCEPT !.last = slot]
        /\ TickAt(k, "idle", Unset)
        /\ UNCHANGED <<fetchStop, fired, admin, slot, busy, deaths>>
    BY <1>5 DEF TickReport, MarkScheduleRun, world
  <2>2. stored' \in Schedules /\ stored'.last = slot
    BY <1>0, <2>1 DEF SlotInv, ScheduleTypeOK, Schedules
  <2>4. /\ tick' \in [Ticks -> [at : {"idle", "claim", "enqueue", "enqueued", "report"},
                                schedule : Schedules]]
        /\ tick'[k].at = "idle"
        /\ \A l \in Ticks : l # k => tick'[l] = tick[l]
    BY <2>1, UnsetType, TickMoves
  <2>5. ScheduleTypeOK'
    BY <2>1, <2>2, <2>4 DEF SlotInv, ScheduleTypeOK
  <2>6. (\A l \in Ticks : Holds(l) => l = k) /\ \A a \in Admins : ~Writes(a)
    BY <2>1 DEF SlotInv, Alone, Holds
  <2>7. Alone' /\ Fresh'
    BY <2>1, <2>4, <2>6 DEF SlotInv, Alone, Fresh, Holds, Writes
  <2>8. Ahead'
    BY <2>1, <2>2, <2>4, <2>6, <1>0 DEF SlotInv, Ahead, Holds
  <2>9. Claimed'
    <3>1. \A n \in Slots : n <= stored.last => n <= slot
      BY <1>0, SlotsType DEF SlotInv, Ahead
    <3> QED BY <2>1, <2>2, <2>4, <3>1 DEF SlotInv, Claimed
  <2> QED BY <2>5, <2>7, <2>8, <2>9 DEF SlotInv
<1>6. CASE TickDies(k)
  <2>1. /\ deaths' = deaths + 1 /\ TickAt(k, "idle", Unset)
        /\ UNCHANGED <<stored, fetchStop, fired, admin, slot, busy>>
    BY <1>6 DEF TickDies
  <2>4. /\ tick' \in [Ticks -> [at : {"idle", "claim", "enqueue", "enqueued", "report"},
                                schedule : Schedules]]
        /\ tick'[k].at = "idle"
        /\ \A l \in Ticks : l # k => tick'[l] = tick[l]
    BY <2>1, UnsetType, TickMoves
  <2>5. ScheduleTypeOK'
    BY <2>1, <2>4 DEF SlotInv, ScheduleTypeOK
  <2>6. Alone' /\ Fresh' /\ Ahead' /\ Claimed'
    BY <2>1, <2>4 DEF SlotInv, Alone, Fresh, Ahead, Claimed, Holds, Writes
  <2> QED BY <2>5, <2>6 DEF SlotInv
<1> QED BY <1>1, <1>2, <1>3, <1>4, <1>5, <1>6 DEF TickStep

\* Requests of admins, whose session is alone as well.
LEMMA AdminInv ==
  ASSUME ~Overlap, SlotInv, NEW a \in Admins,
         \/ \E on \in BOOLEAN, cadence \in Cadences : SaveBegin(a, on, cadence)
         \/ StopBegin(a) \/ AdminStep(a)
  PROVE  SlotInv'
<1>0. /\ stored \in Schedules /\ admin[a].schedule \in Schedules
      /\ stored.last \in Int /\ slot \in Nat
  BY SlotsType, LastType DEF SlotInv, ScheduleTypeOK
\* One that only begins.
<1>1. ASSUME NEW at \in {"save", "stop", "idle"}, NEW s \in Schedules, AdminAt(a, at, s),
             fetchStop' \in BOOLEAN, UNCHANGED <<stored, fired, tick, slot, busy, deaths>>
      PROVE  SlotInv'
  <2>1. /\ admin' \in [Admins -> [at : {"idle", "save", "stop", "write"}, schedule : Schedules]]
        /\ admin'[a].at = at /\ \A b \in Admins : b # a => admin'[b] = admin[b]
    BY <1>1, AdminMoves
  <2>2. ScheduleTypeOK'
    BY <1>1, <2>1 DEF SlotInv, ScheduleTypeOK
  <2>3. Alone' /\ Fresh'
    BY <1>1, <2>1 DEF SlotInv, Alone, Fresh, Holds, Writes
  <2>4. Ahead' /\ Claimed'
    BY <1>1 DEF SlotInv, Ahead, Claimed
  <2> QED BY <2>2, <2>3, <2>4 DEF SlotInv
\* One that has read.
<1>2. ASSUME NEW s \in Schedules, s.last = stored.last, AdminAt(a, "write", s), Open,
             UNCHANGED <<stored, fetchStop, fired, tick, slot, busy, deaths>>
      PROVE  SlotInv'
  <2>1. /\ admin' \in [Admins -> [at : {"idle", "save", "stop", "write"}, schedule : Schedules]]
        /\ admin'[a].at = "write" /\ admin'[a].schedule = s
        /\ \A b \in Admins : b # a => admin'[b] = admin[b]
    BY <1>2, AdminMoves
  <2>2. (\A l \in Ticks : ~Holds(l)) /\ \A b \in Admins : ~Writes(b)
    BY <1>2 DEF Open, Holds, Writes
  <2>3. ScheduleTypeOK'
    BY <1>2, <2>1 DEF SlotInv, ScheduleTypeOK
  <2>4. Alone' /\ Fresh'
    BY <1>2, <2>1, <2>2 DEF SlotInv, Alone, Fresh, Holds, Writes
  <2>5. Ahead' /\ Claimed'
    BY <1>2 DEF SlotInv, Ahead, Claimed
  <2> QED BY <2>3, <2>4, <2>5 DEF SlotInv
<1>3. ASSUME NEW on \in BOOLEAN, NEW cadence \in Cadences, SaveBegin(a, on, cadence) PROVE SlotInv'
  <2> DEFINE s == [enabled |-> on, cadence |-> cadence, last |-> Never]
  <2>1. s \in Schedules
    BY DEF Schedules
  <2>2. AdminAt(a, "save", s) /\ UNCHANGED <<stored, fired, tick, slot, busy, deaths>>
    BY <1>3 DEF SaveBegin, world
  <2>3. fetchStop' \in BOOLEAN
    BY <1>3 DEF SaveBegin, SlotInv, ScheduleTypeOK
  <2> HIDE DEF s
  <2> QED BY <1>1, <2>1, <2>2, <2>3
<1>4. CASE StopBegin(a)
  BY <1>1, <1>4, UnsetType DEF StopBegin, world
<1>5. CASE SaveRead(a)
  <2> DEFINE s == [admin[a].schedule EXCEPT !.last = stored.last]
  <2>1. Open /\ AdminAt(a, "write", s)
        /\ UNCHANGED <<stored, fetchStop, fired, tick, slot, busy, deaths>>
    BY <1>5 DEF SaveRead, SaveReadAs, world
  <2>2. s \in Schedules /\ s.last = stored.last
    BY <1>0, LastType DEF Schedules
  <2> HIDE DEF s
  <2> QED BY <1>2, <2>1, <2>2
<1>6. CASE StopRead(a)
  <2> DEFINE s == [stored EXCEPT !.enabled = FALSE]
  <2>1. Open /\ (AdminAt(a, "write", s) \/ AdminAt(a, "idle", Unset))
        /\ UNCHANGED <<stored, fetchStop, fired, tick, slot, busy, deaths>>
    BY <1>6 DEF StopRead, world
  <2>2. s \in Schedules /\ s.last = stored.last
    BY <1>0 DEF Schedules
  <2>3. fetchStop' \in BOOLEAN
    BY <2>1 DEF SlotInv, ScheduleTypeOK
  <2> HIDE DEF s
  <2> QED BY <1>1, <1>2, <2>1, <2>2, <2>3, UnsetType
<1>7. CASE AdminSave(a)
  <2>1. /\ Writes(a) /\ stored' = admin[a].schedule /\ AdminAt(a, "idle", Unset)
        /\ UNCHANGED <<fetchStop, fired, tick, slot, busy, deaths>>
    BY <1>7 DEF AdminSave, Writes, world
  <2>2. stored'.last = stored.last
    BY <2>1 DEF SlotInv, Fresh
  <2>3. (\A l \in Ticks : ~Holds(l)) /\ \A b \in Admins : Writes(b) => b = a
    BY <2>1 DEF SlotInv, Alone
  <2>4. /\ admin' \in [Admins -> [at : {"idle", "save", "stop", "write"}, schedule : Schedules]]
        /\ admin'[a].at = "idle" /\ \A b \in Admins : b # a => admin'[b] = admin[b]
    BY <2>1, UnsetType, AdminMoves
  <2>5. ScheduleTypeOK'
    BY <1>0, <2>1, <2>4 DEF SlotInv, ScheduleTypeOK
  <2>6. Alone' /\ Fresh'
    BY <2>1, <2>3, <2>4 DEF SlotInv, Alone, Fresh, Holds, Writes
  <2>7. Ahead' /\ Claimed'
    BY <2>1, <2>2 DEF SlotInv, Ahead, Claimed
  <2> QED BY <2>5, <2>6, <2>7 DEF SlotInv
<1> QED BY <1>3, <1>4, <1>5, <1>6, <1>7 DEF AdminStep

LEMMA SlotNext ==
  ASSUME ~Overlap PROVE SlotInv /\ [ScheduleNext]_scheduleVars => SlotInv'
<1> SUFFICES ASSUME SlotInv, [ScheduleNext]_scheduleVars PROVE SlotInv'
  OBVIOUS
<1>1. CASE UNCHANGED scheduleVars
  BY <1>1 DEF scheduleVars, world, SlotInv, ScheduleTypeOK, Alone, Fresh, Ahead, Claimed, Holds, Writes
<1>2. CASE ScheduleNext
  BY <1>2, WorldStep, TickInv, AdminInv DEF ScheduleNext
<1> QED BY <1>1, <1>2

LEMMA SlotInvariance == ASSUME ~Overlap PROVE ScheduleSpec => []SlotInv
  BY SlotInit, SlotNext, PTL DEF ScheduleSpec

\* Where sessions do not overlap, any ticks that do, saves, stops and deaths enqueue
\* one task for a slot at most (check_job_sync_schedule_task).
THEOREM OncePerSlot ==
  ASSUME ~Overlap PROVE ScheduleSpec => []SlotFiresOnce
<1>1. SlotInv => SlotFiresOnce
  BY DEF SlotInv, Claimed, SlotFiresOnce
<1> QED BY <1>1, SlotInvariance, PTL

\* A tick never puts back a configuration that an admin has replaced
\* (mark_schedule_run).
THEOREM TicksKeepConfiguration ==
  ASSUME ~Overlap PROVE ScheduleSpec => OnlyAdminsConfigure
<1>1. ASSUME SlotInv, [ScheduleNext]_scheduleVars, UNCHANGED admin
      PROVE  stored'.enabled = stored.enabled /\ stored'.cadence = stored.cadence
  <2>1. ASSUME NEW k \in Ticks, TickClaim(k) \/ TickReport(k)
        PROVE  stored'.enabled = stored.enabled /\ stored'.cadence = stored.cadence
    <3>1. Holds(k) /\ stored' = [tick[k].schedule EXCEPT !.last = slot]
      BY <2>1 DEF TickClaim, TickReport, MarkScheduleRun, Holds
    <3>2. tick[k].schedule = stored /\ stored \in Schedules
      BY <1>1, <3>1 DEF SlotInv, Fresh, ScheduleTypeOK
    <3> QED BY <3>1, <3>2 DEF Schedules
  <2>2. ASSUME NEW a \in Admins, AdminSave(a) PROVE FALSE
    <3>1. admin'[a].at = "idle" /\ admin[a].at = "write"
      BY <1>1, <2>2, AdminMoves, UnsetType DEF AdminSave
    <3> QED BY <3>1, <1>1
  <2>3. CASE UNCHANGED stored
    BY <2>3
  <2> QED BY <1>1, <2>1, <2>2, <2>3 DEF ScheduleNext, scheduleVars, world, NewSlot, Scrape,
        ClearFetchStop, TickStep, TickRead, TickEnqueue, TickReread,
        TickDies, SaveBegin, StopBegin, AdminStep,
        SaveRead, SaveReadAs, StopRead
<1>2. SlotInv /\ [ScheduleNext]_scheduleVars =>
        (stored'.enabled # stored.enabled \/ stored'.cadence # stored.cadence => admin' # admin)
  BY <1>1
<1> QED BY <1>2, SlotInvariance, PTL DEF ScheduleSpec, OnlyAdminsConfigure
=============================================================================
