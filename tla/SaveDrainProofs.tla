--------------------------- MODULE SaveDrainProofs ---------------------------
(***************************************************************************)
(* Proofs about SaveDrain for every number of analyses, drain slots,       *)
(* faults and every batch size: the types; that drains are serialized;     *)
(* that a call cut short loses at most one analysis; that what is pushed   *)
(* is settled in its order, which is the ledger; and that a system in      *)
(* which nothing runs has nothing pending.                                 *)
(***************************************************************************)
EXTENDS SaveDrain, FiniteSetTheorems, TLAPS

\* Exactly the calls between lpop and the end of its item hold one.
HandOK == \A p \in Procs :
            IF pc[p] \in {"save", "requeue"} THEN hand[p] \in Analyses
                                             ELSE hand[p] = None

\* A critical call holds the key, which is not older than the call.
LockOK == \A p \in Procs :
            /\ age[p] <= JobTimeout
            /\ pc[p] \in Critical => lock /\ lockAge <= age[p]

IInv == TypeOK /\ HandOK /\ LockOK /\ SerializedDrain

LEMMA InitIInv == Init => IInv
<1> SUFFICES ASSUME Init PROVE IInv
  OBVIOUS
<1> USE DEF Init, Procs
<1>1. TypeOK
  <2>1. queue \in Seq(Analyses) /\ pushed \in Seq(Analyses) /\ saved \in Seq(Analyses)
    OBVIOUS
  <2>2. batch \in [Procs -> Seq(Analyses)]
    OBVIOUS
  <2>3. pc \in [Procs -> States]
    BY DEF States
  <2> QED BY <2>1, <2>2, <2>3 DEF TypeOK, Faults
<1>2. HandOK
  BY DEF HandOK
<1>3. LockOK /\ SerializedDrain
  BY TimeAssumption DEF LockOK, SerializedDrain, Critical
<1> QED BY <1>1, <1>2, <1>3 DEF IInv

\* The bookkeeping of a call that ends keeps the types of its locals.
LEMMA ForgetType ==
  ASSUME TypeOK, NEW p \in Procs, Forget(p)
  PROVE  /\ age' \in [Procs -> Nat] /\ hand' \in [Procs -> Analyses \cup {None}]
         /\ batch' \in [Procs -> Seq(Analyses)] /\ cursor' \in [Procs -> Nat]
         /\ requeue' \in [Procs -> BOOLEAN]
  BY DEF TypeOK, Forget

LEMMA EndType ==
  ASSUME TypeOK, NEW p \in Procs, End(p)
  PROVE  pc' \in [Procs -> States]
  BY DEF TypeOK, End, Goto, Ended, States

LEMMA EndAndScheduleType ==
  ASSUME TypeOK, NEW p \in Procs, EndAndSchedule(p)
  PROVE  pc' \in [Procs -> States]
  BY DEF TypeOK, EndAndSchedule, Ended, States, Procs

LEMMA UseType ==
  ASSUME TypeOK, NEW f \in Faults, NEW b \in Nat, Use(f, b)
  PROVE  faults' \in [Faults -> Nat]
  BY DEF TypeOK, Use

LEMMA AppendType ==
  ASSUME NEW S, NEW s \in Seq(S), NEW e \in S
  PROVE  Append(s, e) \in Seq(S) /\ <<e>> \o s \in Seq(S)
  OBVIOUS

LEMMA UpdateType ==
  ASSUME NEW S, NEW T, NEW f \in [S -> T], NEW x, NEW v \in T
  PROVE  [f EXCEPT ![x] = v] \in [S -> T]
  OBVIOUS

LEMMA CountType ==
  ASSUME NEW S, NEW f \in [S -> Nat], NEW x \in S
  PROVE  [f EXCEPT ![x] = @ + 1] \in [S -> Nat]
  OBVIOUS

\* Type correctness is kept by every step.
LEMMA TypeStep ==
  ASSUME TypeOK, HandOK, [Next]_vars
  PROVE  TypeOK'
<1>0. Analyses \subseteq Procs /\ Drains \subseteq Procs
  BY DEF Procs
<1> USE <1>0, BoundAssumption DEF Running, Critical, States, Faults
<1>1. ASSUME NEW a \in Analyses, EnqueueSave(a) PROVE TypeOK'
  BY <1>1 DEF EnqueueSave, TypeOK, Goto, queueVars, lockVars, callVars, history
<1>2. ASSUME NEW a \in Analyses, Push(a) PROVE TypeOK'
  BY <1>2 DEF Push, TypeOK, Goto, lockVars, callVars
<1>3. ASSUME NEW a \in Analyses, StartInline(a) PROVE TypeOK'
  BY <1>3, UseType DEF StartInline, TypeOK, Goto, queueVars, lockVars, callVars, history
<1>4. ASSUME NEW a \in Analyses, SaveInline(a) PROVE TypeOK'
  <2>1. /\ saved' = Append(saved, a) \/ saved' = saved
        /\ announced' \subseteq announced \cup {a}
        /\ failed' \subseteq failed \cup {a}
    BY <1>4 DEF SaveInline
  <2>a. saved \in Seq(Analyses) /\ Append(saved, a) \in Seq(Analyses)
    BY AppendType DEF TypeOK
  <2>2. saved' \in Seq(Analyses)
    BY <2>1, <2>a
  <2>3. announced' \subseteq Analyses /\ failed' \subseteq Analyses
    BY <2>1 DEF TypeOK
  <2> QED BY <1>4, <2>2, <2>3 DEF SaveInline, TypeOK, Goto, queueVars, lockVars, callVars
<1>5. ASSUME NEW d \in Drains, StartDrain(d) PROVE TypeOK'
  BY <1>5 DEF StartDrain, TypeOK, Goto, queueVars, lockVars, callVars, history
<1>6. ASSUME NEW p \in Procs, Work(p) PROVE TypeOK'
  <2>1. CASE AcquireLock(p)
    <3>1. batch' \in [Procs -> Seq(Analyses)]
      BY <2>1 DEF AcquireLock, TypeOK
    <3> QED BY <2>1, <3>1 DEF AcquireLock, TypeOK, Goto, queueVars, history
  <2>2. CASE LockBusy(p)
    BY <2>2 DEF LockBusy, TypeOK, Goto, queueVars, lockVars, callVars, history
  <2>3. CASE DeferDrain(p)
    <3>1. Forget(p)
      BY <2>3 DEF DeferDrain, EndAndSchedule
    <3> QED BY <2>3, <3>1, ForgetType, EndAndScheduleType
            DEF DeferDrain, TypeOK, queueVars, lockVars, history
  <2>4. CASE PopItem(p)
    <3>1. Head(queue) \in Analyses /\ Tail(queue) \in Seq(Analyses)
      BY <2>4 DEF PopItem, TypeOK
    <3>2. ttl' \in BOOLEAN
      BY <2>4 DEF PopItem
    <3>a. /\ hand' = [hand EXCEPT ![p] = Head(queue)]
          /\ cursor' = [cursor EXCEPT ![p] = @ + 1]
      BY <2>4 DEF PopItem
    <3>3. cursor' \in [Procs -> Nat] /\ hand' \in [Procs -> Analyses \cup {None}]
      BY <3>a, <3>1, CountType, UpdateType DEF TypeOK
    <3>4. pc' \in [Procs -> States]
      BY <2>4 DEF PopItem, TypeOK, Goto
    <3> QED BY <2>4, <3>1, <3>2, <3>3, <3>4 DEF PopItem, TypeOK, lockVars, history
  <2>5. CASE LeaveLoop(p)
    BY <2>5 DEF LeaveLoop, TypeOK, Goto, queueVars, lockVars, callVars, history
  <2>6. CASE SaveItem(p)
    <3>1. hand[p] \in Analyses
      BY <2>6 DEF SaveItem, HandOK
    <3>2. batch[p] \in Seq(Analyses) /\ Append(batch[p], hand[p]) \in Seq(Analyses)
      BY <3>1 DEF TypeOK
    <3>3. saved' \in Seq(Analyses) /\ batch' \in [Procs -> Seq(Analyses)]
      BY <2>6, <3>1, <3>2 DEF SaveItem, TypeOK
    <3> QED BY <2>6, <3>3 DEF SaveItem, TypeOK, Goto, queueVars, lockVars
  <2>7. CASE SaveFails(p)
    BY <2>7 DEF SaveFails, HandOK, TypeOK, Goto, queueVars, lockVars
  <2>8. CASE SaveTransient(p)
    <3>1. hand[p] \in Analyses
      BY <2>8 DEF SaveTransient, HandOK
    <3>2. saved' \in Seq(Analyses)
      <4>1. saved' = saved \/ saved' = Append(saved, hand[p])
        BY <2>8 DEF SaveTransient
      <4>2. saved \in Seq(Analyses) /\ Append(saved, hand[p]) \in Seq(Analyses)
        BY <3>1, AppendType DEF TypeOK
      <4> QED BY <4>1, <4>2
    <3>3. faults' \in [Faults -> Nat]
      BY <2>8, UseType DEF SaveTransient
    <3> QED BY <2>8, <3>2, <3>3
            DEF SaveTransient, TypeOK, Goto, queueVars, lockVars, callVars
  <2>9. CASE RequeueItem(p)
    <3>1. hand[p] \in Analyses
      BY <2>9 DEF RequeueItem, PutBack, HandOK
    <3>2. <<hand[p]>> \o queue \in Seq(Analyses)
      BY <3>1 DEF TypeOK
    <3> QED BY <2>9, <3>2 DEF RequeueItem, PutBack, TypeOK, Goto, lockVars, history
  <2>10. CASE ReleaseLock(p)
    BY <2>10 DEF ReleaseLock, TypeOK, Goto, queueVars, history
  <2>11. CASE AfterSave(p)
    <3>1. batch[p][cursor[p] + 1] \in Analyses
      BY <2>11 DEF AfterSave, TypeOK
    <3>a. /\ announced' = announced \cup {batch[p][cursor[p] + 1]}
          /\ cursor' = [cursor EXCEPT ![p] = @ + 1]
      BY <2>11 DEF AfterSave
    <3>2. announced' \subseteq Analyses /\ cursor' \in [Procs -> Nat]
      BY <3>a, <3>1, CountType DEF TypeOK
    <3> QED BY <2>11, <3>2 DEF AfterSave, TypeOK, queueVars, lockVars
  <2>12. CASE ScheduleRetry(p)
    <3>1. Forget(p)
      BY <2>12 DEF ScheduleRetry, EndAndSchedule
    <3> QED BY <2>12, <3>1, ForgetType, EndAndScheduleType
            DEF ScheduleRetry, TypeOK, queueVars, lockVars, history
  <2>13. CASE LoopAgain(p)
    BY <2>13 DEF LoopAgain, TypeOK, Goto, queueVars, lockVars, callVars, history
  <2>14. CASE Return(p)
    BY <2>14, ForgetType, EndType DEF Return, End, TypeOK, queueVars, lockVars, history
  <2>15. CASE Unwind(p)
    BY <2>15, ForgetType, EndType DEF Unwind, End, TypeOK, queueVars, history
  <2> QED BY <1>6, <2>1, <2>2, <2>3, <2>4, <2>5, <2>6, <2>7, <2>8, <2>9, <2>10,
             <2>11, <2>12, <2>13, <2>14, <2>15 DEF Work
<1>7. ASSUME NEW p \in Procs, Stop(p) PROVE TypeOK'
  <2>1. CASE DeferFails(p)
    BY <2>1, ForgetType, EndType, UseType
    DEF DeferFails, End, TypeOK, queueVars, lockVars, history
  <2>2. CASE AbortOutside(p)
    BY <2>2, ForgetType, EndType, UseType
    DEF AbortOutside, End, TypeOK, queueVars, lockVars, history
  <2>3. CASE AbortInside(p)
    BY <2>3, UseType DEF AbortInside, Goto, TypeOK, queueVars, lockVars, history
  <2>4. CASE Kill(p)
    BY <2>4, ForgetType, EndType, UseType
    DEF Kill, End, TypeOK, queueVars, lockVars, history
  <2> QED BY <1>7, <2>1, <2>2, <2>3, <2>4 DEF Stop
<1>8. CASE Tick
  BY <1>8 DEF Tick, TypeOK, queueVars, history
<1>9. CASE ExpireLock
  BY <1>9 DEF ExpireLock, TypeOK, queueVars, callVars, history
<1>10. CASE ExpireQueue
  <2>1. expired' \subseteq Analyses
    <3>1. expired' = expired \cup {queue[i] : i \in DOMAIN queue}
      BY <1>10 DEF ExpireQueue
    <3>2. \A i \in DOMAIN queue : queue[i] \in Analyses
      BY DEF TypeOK
    <3> QED BY <3>1, <3>2 DEF TypeOK
  <2>2. queue' = <<>> /\ ttl' = FALSE
    BY <1>10 DEF ExpireQueue
  <2>3. queue' \in Seq(Analyses)
    BY <2>2
  <2>4. UNCHANGED <<lock, lockAge, pc, age, hand, batch, cursor, requeue,
                    pushed, saved, failed, announced, faults>>
    BY <1>10 DEF ExpireQueue, lockVars, callVars
  <2> QED BY <2>1, <2>2, <2>3, <2>4 DEF TypeOK
<1>11. CASE UNCHANGED vars
  BY <1>11 DEF vars, TypeOK, queueVars, lockVars, callVars, history
<1> QED BY <1>1, <1>2, <1>3, <1>4, <1>5, <1>6, <1>7, <1>8, <1>9, <1>10, <1>11 DEF Next

\* A step of one call keeps every other call's item.
LEMMA HandStep ==
  ASSUME TypeOK, HandOK, [Next]_vars
  PROVE  HandOK'
<1>0. Analyses \subseteq Procs /\ Drains \subseteq Procs
  BY DEF Procs
<1> USE <1>0 DEF HandOK, Goto
<1>t. pc \in [Procs -> States] /\ hand \in [Procs -> Analyses \cup {None}] /\ queue \in Seq(Analyses)
  BY DEF TypeOK
\* A call that moves between two places where it holds nothing.
<1>m. ASSUME NEW p \in Procs, NEW w, w \notin {"save", "requeue"},
             pc[p] \notin {"save", "requeue"},
             pc' = [pc EXCEPT ![p] = w], hand' = hand
      PROVE  HandOK'
  BY <1>t, <1>m
\* A call that ends, and possibly schedules a drain.
<1>e. ASSUME NEW p \in Procs, End(p)
      PROVE  HandOK'
  <2>1. /\ pc' = [pc EXCEPT ![p] = Ended(p)]
        /\ hand' = [hand EXCEPT ![p] = None]
    BY <1>e DEF End, Forget
  <2>2. Ended(p) \notin {"save", "requeue"}
    BY DEF Ended
  <2> QED BY <2>1, <2>2, <1>t
<1>s. ASSUME NEW p \in Procs, EndAndSchedule(p), pc[p] \notin {"save", "requeue"}
      PROVE  HandOK'
  <2>1. PICK d \in Drains : /\ d = p \/ pc[d] \in {"idle", "queued"}
                            /\ pc' = [pc EXCEPT ![p] = Ended(p), ![d] = "queued"]
    BY <1>s DEF EndAndSchedule
  <2>2. hand' = [hand EXCEPT ![p] = None]
    BY <1>s DEF EndAndSchedule, Forget
  <2>3. Ended(p) \notin {"save", "requeue"}
    BY DEF Ended
  <2>4. \A q \in Procs : \/ pc'[q] \notin {"save", "requeue"}
                         \/ q # p /\ pc'[q] = pc[q]
    BY <2>1, <2>3, <1>t
  <2>5. \A q \in Procs : pc[q] \in {"save", "requeue"} => pc'[q] = pc[q]
    BY <2>1, <1>s, <1>t
  <2> QED BY <2>2, <2>4, <2>5, <1>t
\* A call that lets go of the item in its hand.
<1>d. ASSUME NEW p \in Procs, NEW w, w \notin {"save", "requeue"},
             pc' = [pc EXCEPT ![p] = w], hand' = [hand EXCEPT ![p] = None]
      PROVE  HandOK'
  BY <1>t, <1>d
<1>1. ASSUME NEW a \in Analyses, EnqueueSave(a) \/ Push(a) \/ StartInline(a) \/ SaveInline(a)
      PROVE  HandOK'
  BY <1>1, <1>m DEF EnqueueSave, Push, StartInline, SaveInline, callVars
<1>2. ASSUME NEW d \in Drains, StartDrain(d) PROVE HandOK'
  BY <1>2, <1>m DEF StartDrain, callVars
<1>3. ASSUME NEW p \in Procs, Work(p) PROVE HandOK'
  <2>1. CASE AcquireLock(p) \/ LockBusy(p) \/ LeaveLoop(p) \/ ReleaseLock(p) \/ LoopAgain(p)
    BY <2>1, <1>m DEF AcquireLock, LockBusy, LeaveLoop, ReleaseLock, LoopAgain,
                      AfterBatch, callVars
  <2>2. CASE DeferDrain(p) \/ ScheduleRetry(p)
    BY <2>2, <1>s DEF DeferDrain, ScheduleRetry, AfterBatch
  <2>3. CASE PopItem(p)
    BY <2>3, <1>t DEF PopItem
  <2>4. CASE SaveItem(p) \/ SaveFails(p) \/ RequeueItem(p)
    BY <2>4, <1>d DEF SaveItem, SaveFails, RequeueItem, PutBack
  <2>5. CASE SaveTransient(p)
    BY <2>5, <1>t DEF SaveTransient, callVars
  <2>6. CASE AfterSave(p)
    BY <2>6 DEF AfterSave
  <2>7. CASE Return(p) \/ Unwind(p)
    BY <2>7, <1>e DEF Return, Unwind
  <2> QED BY <1>3, <2>1, <2>2, <2>3, <2>4, <2>5, <2>6, <2>7 DEF Work
<1>4. ASSUME NEW p \in Procs, Stop(p) PROVE HandOK'
  <2>1. CASE DeferFails(p) \/ AbortOutside(p) \/ Kill(p)
    BY <2>1, <1>e DEF DeferFails, AbortOutside, Kill
  <2>2. CASE AbortInside(p)
    BY <2>2, <1>d DEF AbortInside
  <2> QED BY <1>4, <2>1, <2>2 DEF Stop
<1>5. CASE Tick \/ ExpireLock \/ ExpireQueue
  BY <1>5 DEF Tick, ExpireLock, ExpireQueue, callVars
<1>6. CASE UNCHANGED vars
  BY <1>6 DEF vars, callVars
<1> QED BY <1>1, <1>2, <1>3, <1>4, <1>5, <1>6 DEF Next

\* Mutual exclusion with the ages that keep the key alive under its holder: a
\* key is taken after its holder's call began, so it is younger than the call,
\* and a call is over before LockTTL.
LEMMA LockStep ==
  ASSUME TypeOK, LockOK, SerializedDrain, [Next]_vars
  PROVE  LockOK' /\ SerializedDrain'
<1>0. Analyses \subseteq Procs /\ Drains \subseteq Procs
  BY DEF Procs
<1> USE <1>0, TimeAssumption DEF LockOK, SerializedDrain, Goto
<1>t. /\ pc \in [Procs -> States] /\ age \in [Procs -> Nat]
      /\ lock \in BOOLEAN /\ lockAge \in Nat
  BY DEF TypeOK
<1>c. \A p : Ended(p) \notin Critical
  BY DEF Ended, Critical
\* Steps that leave key and ages alone and bring nobody into the section.
<1>m. ASSUME UNCHANGED <<lock, lockAge>>,
             \A q \in Procs : pc'[q] \in Critical => pc[q] \in Critical,
             \A q \in Procs : age'[q] = age[q] \/ (age'[q] = 0 /\ pc'[q] \notin Critical)
      PROVE  LockOK' /\ SerializedDrain'
  BY <1>m, <1>t
\* The holder leaves the section and deletes the key.
<1>r. ASSUME NEW p \in Procs, pc[p] \in Critical, pc'[p] \notin Critical,
             \A q \in Procs : q # p => pc'[q] = pc[q],
             \A q \in Procs : age'[q] = age[q] \/ age'[q] = 0
      PROVE  LockOK' /\ SerializedDrain'
  BY <1>r, <1>t
<1>g. ASSUME NEW p \in Procs, NEW w, pc' = [pc EXCEPT ![p] = w],
             w \in Critical => pc[p] \in Critical,
             UNCHANGED <<lock, lockAge, age>>
      PROVE  LockOK' /\ SerializedDrain'
  BY <1>g, <1>m, <1>t
<1>e. ASSUME NEW p \in Procs, End(p)
      PROVE  /\ pc'[p] \notin Critical
             /\ \A q \in Procs : q # p => pc'[q] = pc[q]
             /\ \A q \in Procs : pc'[q] \in Critical => pc[q] \in Critical
             /\ \A q \in Procs : age'[q] = age[q] \/ (age'[q] = 0 /\ pc'[q] \notin Critical)
  BY <1>e, <1>c, <1>t DEF End, Forget
<1>s. ASSUME NEW p \in Procs, EndAndSchedule(p)
      PROVE  /\ \A q \in Procs : pc'[q] \in Critical => pc[q] \in Critical
             /\ \A q \in Procs : age'[q] = age[q] \/ (age'[q] = 0 /\ pc'[q] \notin Critical)
  <2>1. PICK d \in Drains : /\ d = p \/ pc[d] \in {"idle", "queued"}
                            /\ pc' = [pc EXCEPT ![p] = Ended(p), ![d] = "queued"]
    BY <1>s DEF EndAndSchedule
  <2>2. age' = [age EXCEPT ![p] = 0]
    BY <1>s DEF EndAndSchedule, Forget
  <2>3. "queued" \notin Critical
    BY DEF Critical
  <2>4. pc'[p] \notin Critical
    BY <2>1, <2>3, <1>c, <1>t
  <2>5. \A q \in Procs : pc'[q] \in Critical => pc[q] \in Critical
    BY <2>1, <2>3, <1>c, <1>t
  <2> QED BY <2>2, <2>4, <2>5, <1>t
<1>1. ASSUME NEW a \in Analyses, EnqueueSave(a) \/ Push(a) \/ StartInline(a) \/ SaveInline(a)
      PROVE  LockOK' /\ SerializedDrain'
  BY <1>1, <1>g DEF EnqueueSave, Push, StartInline, SaveInline, callVars, lockVars, Critical
<1>2. ASSUME NEW d \in Drains, StartDrain(d) PROVE LockOK' /\ SerializedDrain'
  BY <1>2, <1>g DEF StartDrain, callVars, lockVars, Critical
<1>3. ASSUME NEW p \in Procs, Work(p) PROVE LockOK' /\ SerializedDrain'
  <2>1. CASE AcquireLock(p)
    <3>1. ~lock /\ lock' = TRUE /\ lockAge' = 0 /\ age' = age /\ pc' = [pc EXCEPT ![p] = "pop"]
      BY <2>1 DEF AcquireLock
    <3>2. \A q \in Procs : pc[q] \notin Critical
      BY <3>1
    <3>3. \A q \in Procs : pc'[q] \in Critical => q = p
      BY <3>1, <3>2, <1>t
    <3> QED BY <3>1, <3>3, <1>t
  <2>2. CASE LockBusy(p) \/ LeaveLoop(p) \/ LoopAgain(p) \/ PopItem(p) \/ SaveItem(p)
             \/ SaveFails(p) \/ SaveTransient(p) \/ RequeueItem(p)
    BY <2>2, <1>g DEF LockBusy, LeaveLoop, LoopAgain, AfterBatch, PopItem, SaveItem,
       SaveFails, SaveTransient, RequeueItem, PutBack, callVars, lockVars, Critical
  <2>3. CASE DeferDrain(p) \/ ScheduleRetry(p)
    BY <2>3, <1>s, <1>m DEF DeferDrain, ScheduleRetry, lockVars
  <2>4. CASE ReleaseLock(p)
    <3>1. pc[p] = "release" /\ pc' = [pc EXCEPT ![p] = "after"] /\ age' = age
      BY <2>4 DEF ReleaseLock
    <3>2. "release" \in Critical /\ "after" \notin Critical
      BY DEF Critical
    <3> QED BY <3>1, <3>2, <1>r, <1>t
  <2>5. CASE AfterSave(p)
    BY <2>5 DEF AfterSave, lockVars
  <2>6. CASE Return(p)
    BY <2>6, <1>e, <1>m DEF Return, lockVars
  <2>7. CASE Unwind(p)
    <3>1. pc[p] \in Critical /\ End(p)
      BY <2>7 DEF Unwind, Critical
    <3> QED BY <3>1, <1>e, <1>r
  <2> QED BY <1>3, <2>1, <2>2, <2>3, <2>4, <2>5, <2>6, <2>7 DEF Work
<1>4. ASSUME NEW p \in Procs, Stop(p) PROVE LockOK' /\ SerializedDrain'
  <2>1. CASE DeferFails(p) \/ AbortOutside(p) \/ Kill(p)
    BY <2>1, <1>e, <1>m DEF DeferFails, AbortOutside, Kill, lockVars
  <2>2. CASE AbortInside(p)
    BY <2>2, <1>g DEF AbortInside, lockVars, Critical
  <2> QED BY <1>4, <2>1, <2>2 DEF Stop
<1>5. CASE Tick
  <2>1. \A p \in Procs : age[p] <= JobTimeout /\ (pc[p] \in Running => age[p] < JobTimeout)
    BY <1>5 DEF Tick
  <2>2. \A p \in Procs : age'[p] = IF pc[p] \in Running THEN age[p] + 1 ELSE age[p]
    BY <1>5 DEF Tick
  <2>3. UNCHANGED <<pc, lock>> /\ lockAge' = IF lock THEN lockAge + 1 ELSE lockAge
    BY <1>5 DEF Tick
  <2>4. Critical \subseteq Running
    BY DEF Running
  <2> QED BY <2>1, <2>2, <2>3, <2>4, <1>t
<1>6. CASE ExpireLock
  <2>1. \A p \in Procs : pc[p] \notin Critical
    BY <1>6, <1>t DEF ExpireLock
  <2> QED BY <1>6, <2>1 DEF ExpireLock, callVars
<1>7. CASE ExpireQueue
  BY <1>7 DEF ExpireQueue, lockVars, callVars
<1>8. CASE UNCHANGED vars
  BY <1>8 DEF vars, lockVars, callVars
<1> QED BY <1>1, <1>2, <1>3, <1>4, <1>5, <1>6, <1>7, <1>8 DEF Next

LEMMA Invariance == Spec => []IInv
<1>1. IInv /\ [Next]_vars => IInv'
  BY TypeStep, HandStep, LockStep DEF IInv
<1> QED BY InitIInv, <1>1, PTL DEF Spec

\* Every variable keeps its type (the calls and keys of save_analyzed_job).
THEOREM Typing == Spec => []TypeOK
<1>1. IInv => TypeOK
  BY DEF IInv
<1> QED BY <1>1, Invariance, PTL

\* Dedup is serialized per user: two drains are never both between taking and
\* deleting the lock, for any number of calls, any batch size and any faults,
\* as long as a job is cancelled before the lock could expire.
THEOREM DrainIsSerialized == Spec => []SerializedDrain
<1>1. IInv => SerializedDrain
  BY DEF IInv
<1> QED BY <1>1, Invariance, PTL

(***************************************************************************)
(* The effect of a step on what was pushed, held and settled.              *)
(***************************************************************************)

\* What waits to be settled, and the analyses whose job has begun its work.
Live == Elems(queue) \cup InHand
Fresh == {"new", "queued", "inline"}
Started == {a \in Analyses : pc[a] \notin Fresh}

\* a comes before b in s.
Ahead(s, a, b) == \E i, j \in DOMAIN s : i < j /\ s[i] = a /\ s[j] = b

\* Nothing is pushed twice; the queue, and the item in a hand before it, are in
\* the order of the pushes.  The item put back at the head keeps it.
OrderOK ==
  /\ \A i, j \in DOMAIN pushed : pushed[i] = pushed[j] => i = j
  /\ \A i, j \in DOMAIN queue : i < j => Ahead(pushed, queue[i], queue[j])
  /\ \A p \in Procs : hand[p] # None => \A i \in DOMAIN queue : Ahead(pushed, hand[p], queue[i])

\* What waits was pushed, and has neither failed nor expired.  It can be among
\* what is saved: a commit that was not acknowledged is tried again.
PlaceOK ==
  /\ Live \subseteq Elems(pushed)
  /\ Elems(pushed) \cup Settled \cup expired \subseteq Started
  /\ Live \cap (failed \cup expired) = {}

\* What a step can do to these: nothing, with or without a call cut short; or one
\* of the following.  Effects below shows that there is nothing else.
Quiet == UNCHANGED <<queue, hand, pushed, saved, failed, expired>> /\ Started' = Started
Sure == faults'["stops"] = faults["stops"]
Cut == faults'["stops"] = faults["stops"] + 1

\* A call is cut short and drops what it holds.
LetsGo(p) == /\ pc[p] \in Critical /\ hand' = [hand EXCEPT ![p] = None] /\ Cut
             /\ UNCHANGED <<queue, pushed, saved, failed, expired>> /\ Started' = Started

\* An analysis ends before it was pushed.
Vanishes(a) == /\ a \notin Started /\ Started' = Started \cup {a} /\ Cut
               /\ UNCHANGED <<queue, hand, pushed, saved, failed, expired>>

\* The loop under the lock moves an item.
Handles(p) == PopItem(p) \/ SaveItem(p) \/ SaveFails(p) \/ SaveTransient(p) \/ RequeueItem(p)

LEMMA StartedSame ==
  ASSUME TypeOK, NEW p \in Procs, NEW w, pc' = [pc EXCEPT ![p] = w],
         p \in Analyses => (pc[p] \in Fresh <=> w \in Fresh)
  PROVE  Started' = Started
  BY DEF TypeOK, Started, Fresh, Procs

LEMMA EndSame ==
  ASSUME TypeOK, NEW p \in Procs, End(p), pc[p] \notin Fresh
  PROVE  Started' = Started
<1>1. pc' = [pc EXCEPT ![p] = Ended(p)] /\ Ended(p) \notin Fresh
  BY DEF End, Goto, Ended, Fresh
<1> QED BY <1>1, StartedSame

LEMMA ScheduleSame ==
  ASSUME TypeOK, NEW p \in Procs, EndAndSchedule(p), pc[p] \notin Fresh
  PROVE  Started' = Started
<1>1. PICK d \in Drains : pc' = [pc EXCEPT ![p] = Ended(p), ![d] = "queued"]
  BY DEF EndAndSchedule
<1>2. d \notin Analyses /\ Ended(p) \notin Fresh
  BY ProcsAssumption DEF Ended, Fresh
<1> QED BY <1>1, <1>2 DEF TypeOK, Started, Fresh, Procs

\* A call that holds nothing forgets nothing.
LEMMA EmptyHand ==
  ASSUME TypeOK, HandOK, NEW p \in Procs, pc[p] \notin {"save", "requeue"},
         hand' = [hand EXCEPT ![p] = None]
  PROVE  hand' = hand
  BY DEF TypeOK, HandOK

LEMMA Effects ==
  ASSUME TypeOK, HandOK, [Next]_vars
  PROVE  \/ Quiet /\ (Sure \/ Cut)
         \/ \E a \in Analyses : Push(a) \/ SaveInline(a) \/ Vanishes(a)
         \/ \E p \in Procs : Handles(p) \/ LetsGo(p)
         \/ ExpireQueue
<1>0. Analyses \subseteq Procs /\ Drains \subseteq Procs
  BY DEF Procs
<1> USE <1>0
<1>u. ASSUME NEW f \in Faults \ {"stops"}, NEW b, Use(f, b) PROVE Sure
  BY <1>u DEF Use, Sure, TypeOK, Faults
<1>c. ASSUME NEW b, Use("stops", b) PROVE Cut
  BY <1>c DEF Use, Cut, TypeOK, Faults
<1>1. ASSUME NEW a \in Analyses, EnqueueSave(a) PROVE Quiet /\ Sure
  BY <1>1, StartedSame DEF EnqueueSave, Goto, Fresh, Quiet, Sure, queueVars, callVars, history
<1>2. ASSUME NEW a \in Analyses, StartInline(a) PROVE Quiet /\ Sure
  <2>1. Sure
    BY <1>2, <1>u DEF StartInline, Faults
  <2> QED BY <1>2, <2>1, StartedSame DEF StartInline, Goto, Fresh, Quiet, queueVars, callVars, history
<1>3. ASSUME NEW d \in Drains, StartDrain(d) PROVE Quiet /\ Sure
  BY <1>3, StartedSame, ProcsAssumption
  DEF StartDrain, Goto, Fresh, Quiet, Sure, queueVars, callVars, history
<1>4. ASSUME NEW p \in Procs, Work(p), ~Handles(p) PROVE Quiet /\ Sure
  <2>1. CASE AcquireLock(p) \/ LockBusy(p) \/ LeaveLoop(p) \/ ReleaseLock(p) \/ LoopAgain(p)
    <3>1. /\ UNCHANGED <<queue, hand, pushed, saved, failed, expired, faults>>
          /\ pc[p] \notin Fresh /\ \E w : w \notin Fresh /\ pc' = [pc EXCEPT ![p] = w]
      BY <2>1 DEF AcquireLock, LockBusy, LeaveLoop, ReleaseLock, LoopAgain, AfterBatch,
                  Goto, Fresh, queueVars, callVars, history
    <3> QED BY <3>1, StartedSame DEF Quiet, Sure
  <2>2. CASE AfterSave(p)
    BY <2>2 DEF AfterSave, Quiet, Sure, Started, Fresh, queueVars
  <2>3. CASE DeferDrain(p) \/ ScheduleRetry(p)
    <3>1. /\ UNCHANGED <<queue, pushed, saved, failed, expired, faults>>
          /\ EndAndSchedule(p) /\ pc[p] \notin Fresh /\ pc[p] \notin {"save", "requeue"}
      BY <2>3 DEF DeferDrain, ScheduleRetry, AfterBatch, Fresh, queueVars, history
    <3>2. hand' = hand
      BY <3>1, EmptyHand DEF EndAndSchedule, Forget
    <3> QED BY <3>1, <3>2, ScheduleSame DEF Quiet, Sure
  <2>4. CASE Return(p) \/ Unwind(p)
    <3>1. /\ UNCHANGED <<queue, pushed, saved, failed, expired, faults>>
          /\ End(p) /\ pc[p] \notin Fresh /\ pc[p] \notin {"save", "requeue"}
      BY <2>4 DEF Return, Unwind, AfterBatch, Fresh, queueVars, history
    <3>2. hand' = hand
      BY <3>1, EmptyHand DEF End, Forget
    <3> QED BY <3>1, <3>2, EndSame DEF Quiet, Sure
  <2> QED BY <1>4, <2>1, <2>2, <2>3, <2>4 DEF Work, Handles
<1>5. ASSUME NEW p \in Procs, DeferFails(p) PROVE Quiet /\ Sure
  <2>1. /\ UNCHANGED <<queue, pushed, saved, failed, expired>>
        /\ End(p) /\ pc[p] \notin Fresh /\ pc[p] \notin {"save", "requeue"}
    BY <1>5 DEF DeferFails, Fresh, queueVars, history
  <2>2. hand' = hand
    BY <2>1, EmptyHand DEF End, Forget
  <2>3. Sure
    BY <1>5, <1>u DEF DeferFails, Faults
  <2> QED BY <2>1, <2>2, <2>3, EndSame DEF Quiet
<1>6. ASSUME NEW p \in Procs, AbortOutside(p)
      PROVE  (Quiet /\ Cut) \/ \E a \in Analyses : Vanishes(a)
  <2>1. /\ UNCHANGED <<queue, pushed, saved, failed, expired>>
        /\ End(p) /\ pc[p] \notin {"save", "requeue"} /\ Cut
    BY <1>6, <1>c DEF AbortOutside, queueVars, history
  <2>2. hand' = hand
    BY <2>1, EmptyHand DEF End, Forget
  <2>3. CASE pc[p] \notin Fresh
    BY <2>1, <2>2, <2>3, EndSame DEF Quiet
  <2>4. CASE pc[p] \in Fresh
    <3>1. CASE p \in Analyses
      <4>1. pc' = [pc EXCEPT ![p] = "done"]
        BY <2>1, <3>1 DEF End, Goto, Ended
      <4>2. p \notin Started /\ Started' = Started \cup {p}
        BY <2>4, <3>1, <4>1 DEF TypeOK, Started, Fresh
      <4> QED BY <2>1, <2>2, <3>1, <4>2 DEF Vanishes
    <3>2. CASE p \notin Analyses
      <4>1. Started' = Started
        BY <2>1, <3>2, StartedSame DEF End, Goto
      <4> QED BY <2>1, <2>2, <4>1 DEF Quiet
    <3> QED BY <3>1, <3>2
  <2> QED BY <2>3, <2>4
<1>7. ASSUME NEW p \in Procs, AbortInside(p) PROVE LetsGo(p)
  <2>1. Cut
    BY <1>7, <1>c DEF AbortInside
  <2>2. Started' = Started
    BY <1>7, StartedSame DEF AbortInside, Goto, Fresh
  <2> QED BY <1>7, <2>1, <2>2 DEF AbortInside, LetsGo, Critical, queueVars, history
<1>8. ASSUME NEW p \in Procs, Kill(p) PROVE LetsGo(p)
  <2>1. Cut /\ End(p) /\ pc[p] \notin Fresh
    BY <1>8, <1>c DEF Kill, Critical, Fresh
  <2> QED BY <1>8, <2>1, EndSame DEF Kill, Critical, End, Forget, LetsGo, queueVars, history
<1>9. CASE Tick \/ ExpireLock
  BY <1>9 DEF Tick, ExpireLock, Quiet, Sure, Started, Fresh, queueVars, callVars, history
<1>10. CASE UNCHANGED vars
  BY <1>10 DEF vars, Quiet, Sure, Started, Fresh, queueVars, callVars, history
<1> QED BY <1>1, <1>2, <1>3, <1>4, <1>5, <1>6, <1>7, <1>8, <1>9, <1>10 DEF Next, Stop

(***************************************************************************)
(* Place and order: nothing is in two places, and the queue keeps its order. *)
(***************************************************************************)

LEMMA ElemsAppend ==
  ASSUME NEW S, NEW s \in Seq(S), NEW e \in S
  PROVE  Elems(Append(s, e)) = Elems(s) \cup {e}
<1>1. /\ DOMAIN Append(s, e) = 1 .. Len(s) + 1 /\ DOMAIN s = 1 .. Len(s) /\ Len(s) \in Nat
      /\ \A i \in 1 .. Len(s) : Append(s, e)[i] = s[i]
      /\ Append(s, e)[Len(s) + 1] = e
  OBVIOUS
<1>2. 1 .. Len(s) + 1 = (1 .. Len(s)) \cup {Len(s) + 1}
  BY <1>1
<1> QED BY <1>1, <1>2 DEF Elems

LEMMA ElemsTail ==
  ASSUME NEW S, NEW s \in Seq(S), s # <<>>
  PROVE  Elems(s) = {Head(s)} \cup Elems(Tail(s))
<1>1. /\ DOMAIN s = 1 .. Len(s) /\ Len(s) \in Nat \ {0} /\ Head(s) = s[1]
      /\ DOMAIN Tail(s) = 1 .. Len(s) - 1
      /\ \A i \in 1 .. Len(s) - 1 : Tail(s)[i] = s[i + 1]
  OBVIOUS
<1>2. \A i \in 1 .. Len(s) : i = 1 \/ (i - 1 \in 1 .. Len(s) - 1 /\ s[i] = Tail(s)[i - 1])
  BY <1>1
<1>3. \A i \in 1 .. Len(s) - 1 : i + 1 \in 1 .. Len(s)
  BY <1>1
<1>4. 1 \in 1 .. Len(s)
  BY <1>1
<1>5. Elems(s) \subseteq {Head(s)} \cup Elems(Tail(s))
  <2> SUFFICES ASSUME NEW i \in 1 .. Len(s) PROVE s[i] \in {Head(s)} \cup Elems(Tail(s))
    BY <1>1 DEF Elems
  <2> QED BY <1>1, <1>2 DEF Elems
<1>6. {Head(s)} \cup Elems(Tail(s)) \subseteq Elems(s)
  <2>1. \A i \in 1 .. Len(s) - 1 : Tail(s)[i] \in Elems(s)
    BY <1>1, <1>3 DEF Elems
  <2> QED BY <1>1, <1>4, <2>1 DEF Elems
<1> QED BY <1>5, <1>6

LEMMA ElemsCons ==
  ASSUME NEW S, NEW s \in Seq(S), NEW e \in S
  PROVE  Elems(<<e>> \o s) = {e} \cup Elems(s)
<1>1. <<e>> \o s \in Seq(S) /\ <<e>> \o s # <<>>
  OBVIOUS
<1>2. Head(<<e>> \o s) = e /\ Tail(<<e>> \o s) = s
  OBVIOUS
<1> QED BY <1>1, <1>2, ElemsTail

LEMMA ElemsSaved ==
  ASSUME saved \in Seq(Analyses), NEW e \in Analyses,
         saved' = saved \/ saved' = Append(saved, e)
  PROVE  Elems(saved) \subseteq Elems(saved') /\ Elems(saved') \subseteq Elems(saved) \cup {e}
<1>1. CASE saved' = saved
  BY <1>1
<1>2. CASE saved' = Append(saved, e)
  <2>1. Elems(Append(saved, e)) = Elems(saved) \cup {e}
    BY ElemsAppend
  <2> QED BY <1>2, <2>1
<1> QED BY <1>1, <1>2

\* Nothing comes before itself.
LEMMA NotBeforeItself ==
  ASSUME OrderOK, pushed \in Seq(Analyses), NEW a
  PROVE  ~Ahead(pushed, a, a)
<1>1. DOMAIN pushed = 1 .. Len(pushed) /\ Len(pushed) \in Nat
  OBVIOUS
<1> QED BY <1>1 DEF OrderOK, Ahead

\* A call under the lock is the only one that holds an item.
LEMMA HandIs ==
  ASSUME TypeOK, HandOK, SerializedDrain, NEW p \in Procs, pc[p] \in Critical
  PROVE  /\ InHand = {hand[p]} \cap Analyses
         /\ \A q \in Procs : q # p => hand[q] = None
         /\ \A v : hand' = [hand EXCEPT ![p] = v] => InHand' = {v} \cap Analyses
<1>1. \A q \in Procs : q # p => hand[q] = None
  BY DEF HandOK, SerializedDrain, Critical
<1>2. InHand = {hand[p]} \cap Analyses
  BY <1>1, ProcsAssumption DEF InHand
<1>3. ASSUME NEW v, hand' = [hand EXCEPT ![p] = v] PROVE InHand' = {v} \cap Analyses
  BY <1>1, <1>3, ProcsAssumption DEF InHand, TypeOK
<1> QED BY <1>1, <1>2, <1>3

\* What the following rests on.
Facts == TypeOK /\ HandOK /\ SerializedDrain /\ OrderOK /\ PlaceOK

\* What handling the item of the hand does to what is live.
LEMMA HandlesLive ==
  ASSUME Facts, NEW p \in Procs, Handles(p)
  PROVE  /\ pc[p] \in Critical
         /\ PopItem(p) \/ SaveTransient(p) \/ RequeueItem(p) => Live' = Live
         /\ ~PopItem(p) => hand[p] \in Analyses /\ hand[p] \in Live
         /\ SaveItem(p) \/ SaveFails(p) => Live' = Live \ {hand[p]}
<1> USE DEF Facts
<1>t. queue \in Seq(Analyses) /\ hand \in [Procs -> Analyses \cup {None}]
  BY DEF TypeOK
<1>1. pc[p] \in Critical
  BY DEF Handles, PopItem, SaveItem, SaveFails, SaveTransient, RequeueItem, PutBack, Critical
<1>2. InHand = {hand[p]} \cap Analyses
  BY <1>1, HandIs
<1>3. ASSUME ~PopItem(p) PROVE hand[p] \in Analyses /\ hand[p] \in Live
  BY <1>2, <1>3 DEF Handles, SaveItem, SaveFails, SaveTransient, RequeueItem, PutBack, HandOK, Live
<1>4. CASE PopItem(p)
  <2>1. /\ queue # <<>> /\ queue' = Tail(queue) /\ hand' = [hand EXCEPT ![p] = Head(queue)]
        /\ hand[p] = None /\ pc[p] = "pop"
    BY <1>4 DEF PopItem, HandOK
  <2>2. InHand' = {Head(queue)} \cap Analyses
    BY <1>1, <2>1, HandIs
  <2>3. Elems(queue) = {Head(queue)} \cup Elems(queue') /\ Head(queue) \in Analyses
    BY <2>1, <1>t, ElemsTail
  <2>4. Live' = Live
    BY <1>2, <2>1, <2>2, <2>3, ProcsAssumption DEF Live
  <2> QED BY <1>1, <1>4, <2>1, <2>4 DEF SaveItem, SaveFails
<1>5. CASE RequeueItem(p)
  <2>1. /\ queue' = <<hand[p]>> \o queue /\ hand' = [hand EXCEPT ![p] = None]
        /\ pc[p] = "requeue" /\ hand[p] \in Analyses
    BY <1>5 DEF RequeueItem, PutBack, HandOK
  <2>2. InHand' = {}
    BY <2>1, <1>1, HandIs, ProcsAssumption
  <2>3. Elems(queue') = {hand[p]} \cup Elems(queue)
    BY <2>1, <1>t, ElemsCons
  <2>4. Live' = Live
    BY <1>2, <2>1, <2>2, <2>3 DEF Live
  <2> QED BY <1>1, <1>3, <2>1, <2>4 DEF SaveItem, SaveFails, PopItem
<1>6. CASE SaveTransient(p)
  <2>1. Live' = Live
    BY <1>6 DEF SaveTransient, queueVars, callVars, Live, InHand
  <2>2. ~PopItem(p) /\ ~SaveItem(p) /\ ~SaveFails(p)
    BY <1>6, <1>t, ProcsAssumption DEF SaveTransient, PopItem, SaveItem, SaveFails, callVars, HandOK
  <2> QED BY <1>1, <1>3, <2>1, <2>2
<1>7. CASE SaveItem(p) \/ SaveFails(p)
  <2>1. /\ queue' = queue /\ hand' = [hand EXCEPT ![p] = None]
        /\ pc[p] = "save" /\ hand[p] \in Analyses
    BY <1>7 DEF SaveItem, SaveFails, queueVars, HandOK
  <2>2. InHand' = {}
    BY <2>1, <1>1, HandIs, ProcsAssumption
  <2>3. hand[p] \notin Elems(queue)
    BY <2>1, <1>t, ProcsAssumption, NotBeforeItself DEF OrderOK, Elems, TypeOK
  <2>4. Live' = Live \ {hand[p]}
    BY <1>2, <2>1, <2>2, <2>3 DEF Live
  <2>5. ~PopItem(p) /\ ~RequeueItem(p)
    BY <2>1 DEF PopItem, RequeueItem, PutBack
  <2>6. ~SaveTransient(p)
    BY <1>7, <2>1, <1>t, ProcsAssumption DEF SaveTransient, callVars
  <2> QED BY <1>1, <1>3, <2>4, <2>5, <2>6
<1> QED BY <1>4, <1>5, <1>6, <1>7 DEF Handles

\* What handling it does to what is settled: the item is added, or nothing is.
LEMMA HandlesSettled ==
  ASSUME Facts, NEW p \in Procs, Handles(p)
  PROVE  /\ UNCHANGED <<pushed, expired>> /\ Started' = Started /\ Sure
         /\ SaveItem(p) \/ SaveFails(p) => Settled' = Settled \cup {hand[p]}
         /\ SaveTransient(p) => Settled' \in {Settled, Settled \cup {hand[p]}}
         /\ PopItem(p) \/ RequeueItem(p) => Settled' = Settled
         /\ ~SaveFails(p) => failed' = failed
         /\ SaveFails(p) => failed' = failed \cup {hand[p]} /\ saved' = saved
<1> USE DEF Facts
<1>1. UNCHANGED <<pushed, expired>>
  BY DEF Handles, PopItem, SaveItem, SaveFails, SaveTransient, RequeueItem, PutBack, history
<1>2. Started' = Started
  BY StartedSame DEF Handles, PopItem, SaveItem, SaveFails, SaveTransient, RequeueItem, PutBack,
     Goto, Fresh
<1>3. Sure
  BY DEF Handles, PopItem, SaveItem, SaveFails, SaveTransient, RequeueItem, PutBack, Use, Sure,
     TypeOK, Faults
<1>4. hand[p] \in Analyses => Elems(Append(saved, hand[p])) = Elems(saved) \cup {hand[p]}
  BY ElemsAppend DEF TypeOK
<1>5. ASSUME SaveItem(p) \/ SaveFails(p) PROVE Settled' = Settled \cup {hand[p]}
  BY <1>4, <1>5 DEF SaveItem, SaveFails, HandOK, Settled
<1>6. ASSUME SaveTransient(p) PROVE Settled' \in {Settled, Settled \cup {hand[p]}}
  BY <1>4, <1>6 DEF SaveTransient, HandOK, Settled
<1>7. PopItem(p) \/ RequeueItem(p) => Settled' = Settled
  BY DEF PopItem, RequeueItem, PutBack, history, Settled
<1>8. /\ ~SaveFails(p) => failed' = failed
      /\ SaveFails(p) => failed' = failed \cup {hand[p]} /\ saved' = saved
  BY DEF Handles, PopItem, SaveItem, SaveFails, SaveTransient, RequeueItem, PutBack, history
<1> QED BY <1>1, <1>2, <1>3, <1>5, <1>6, <1>7, <1>8

LEMMA PlaceStep ==
  ASSUME Facts, [Next]_vars
  PROVE  PlaceOK'
<1> USE DEF Facts, PlaceOK, Live, Settled
<1>0. Analyses \subseteq Procs
  BY DEF Procs
<1>t. /\ queue \in Seq(Analyses) /\ pushed \in Seq(Analyses) /\ saved \in Seq(Analyses)
      /\ hand \in [Procs -> Analyses \cup {None}] /\ pc \in [Procs -> States]
  BY DEF TypeOK
<1>1. CASE Quiet
  BY <1>1 DEF Quiet, InHand
<1>2. ASSUME NEW a \in Analyses, Push(a) PROVE PlaceOK'
  <2>1. /\ queue' = Append(queue, a) /\ pushed' = Append(pushed, a)
        /\ UNCHANGED <<hand, saved, failed, expired>> /\ pc' = [pc EXCEPT ![a] = "lock"]
    BY <1>2 DEF Push, Goto, callVars
  <2>2. Elems(queue') = Elems(queue) \cup {a} /\ Elems(pushed') = Elems(pushed) \cup {a}
    BY <2>1, <1>t, ElemsAppend
  <2>3. a \notin Started /\ Started' = Started \cup {a}
    BY <1>2, <2>1, <1>0, <1>t DEF Push, Started, Fresh
  <2>4. InHand' = InHand /\ Elems(saved') = Elems(saved)
    BY <2>1 DEF InHand
  <2> QED BY <2>1, <2>2, <2>3, <2>4
<1>3. ASSUME NEW a \in Analyses, SaveInline(a) PROVE PlaceOK'
  <2>1. /\ saved' = Append(saved, a) \/ saved' = saved
        /\ failed' \subseteq failed \cup {a} /\ UNCHANGED <<queue, hand, pushed, expired>>
        /\ pc' = [pc EXCEPT ![a] = "done"] /\ pc[a] = "inline"
    BY <1>3 DEF SaveInline, Goto, queueVars, callVars
  <2>2. Elems(saved') \subseteq Elems(saved) \cup {a}
    BY <2>1, <1>t, ElemsSaved
  <2>3. a \notin Started /\ Started' = Started \cup {a}
    BY <2>1, <1>0, <1>t DEF Started, Fresh
  <2>4. InHand' = InHand /\ Elems(pushed') = Elems(pushed) /\ Elems(queue') = Elems(queue)
    BY <2>1 DEF InHand
  <2> QED BY <2>1, <2>2, <2>3, <2>4
<1>4. ASSUME NEW a \in Analyses, Vanishes(a) PROVE PlaceOK'
  BY <1>4 DEF Vanishes, InHand
<1>5. ASSUME NEW p \in Procs, Handles(p) PROVE PlaceOK'
  <2>1. /\ UNCHANGED <<pushed, expired>> /\ Started' = Started
        /\ ~PopItem(p) => hand[p] \in Live
    BY <1>5, HandlesLive, HandlesSettled
  <2>2. CASE SaveItem(p) \/ SaveFails(p)
    <3>1. Live' = Live \ {hand[p]} /\ Settled' = Settled \cup {hand[p]} /\ hand[p] \in Live
      BY <1>5, <2>2, HandlesLive, HandlesSettled DEF SaveItem, SaveFails, PopItem
    <3>2. failed' \subseteq failed \cup {hand[p]}
      BY <1>5, HandlesSettled
    <3> QED BY <2>1, <3>1, <3>2
  <2>3. CASE ~(SaveItem(p) \/ SaveFails(p))
    <3>1. Live' = Live /\ failed' = failed
      BY <1>5, <2>3, HandlesLive, HandlesSettled DEF Handles
    <3>2. Settled' \subseteq Settled \cup Live
      BY <1>5, <2>1, <2>3, HandlesSettled DEF Handles, SaveTransient, PopItem
    <3> QED BY <2>1, <3>1, <3>2
  <2> QED BY <2>2, <2>3
<1>6. ASSUME NEW p \in Procs, LetsGo(p) PROVE PlaceOK'
  <2>1. InHand' = {}
    BY <1>6, HandIs, ProcsAssumption DEF LetsGo
  <2> QED BY <1>6, <2>1 DEF LetsGo
<1>7. CASE ExpireQueue
  <2>1. /\ queue' = <<>> /\ expired' = expired \cup Elems(queue)
        /\ UNCHANGED <<hand, pushed, saved, failed, pc>>
    BY <1>7 DEF ExpireQueue, callVars, Elems
  <2>2. InHand' = {}
    BY <1>7, <2>1, ProcsAssumption DEF ExpireQueue, HandOK, InHand
  <2>3. Elems(queue') = {} /\ Started' = Started
    BY <2>1 DEF Elems, Started, Fresh
  <2> QED BY <2>1, <2>2, <2>3
<1> QED BY <1>1, <1>2, <1>3, <1>4, <1>5, <1>6, <1>7, Effects

\* Appending to a sequence keeps what comes before what.
LEMMA AheadKept ==
  ASSUME NEW S, NEW s \in Seq(S), NEW a \in S
  PROVE  /\ \A b, c : Ahead(s, b, c) => Ahead(Append(s, a), b, c)
         /\ \A b \in Elems(s) : Ahead(Append(s, a), b, a)
<1>1. /\ DOMAIN s = 1 .. Len(s) /\ Len(s) \in Nat
      /\ DOMAIN Append(s, a) = 1 .. Len(s) + 1
      /\ \A i \in 1 .. Len(s) : Append(s, a)[i] = s[i]
      /\ Append(s, a)[Len(s) + 1] = a
  OBVIOUS
<1>2. \A i \in 1 .. Len(s) : i \in 1 .. Len(s) + 1 /\ i < Len(s) + 1
  BY <1>1
<1>3. Len(s) + 1 \in 1 .. Len(s) + 1
  BY <1>1
<1> QED BY <1>1, <1>2, <1>3 DEF Ahead, Elems

LEMMA OrderStep ==
  ASSUME Facts, [Next]_vars
  PROVE  OrderOK'
<1> USE DEF Facts
<1>0. Analyses \subseteq Procs
  BY DEF Procs
<1>t. /\ queue \in Seq(Analyses) /\ pushed \in Seq(Analyses)
      /\ hand \in [Procs -> Analyses \cup {None}] /\ pc \in [Procs -> States]
  BY DEF TypeOK
<1>d. DOMAIN queue = 1 .. Len(queue) /\ Len(queue) \in Nat
  BY <1>t
<1>h. \A p, q \in Procs : hand[p] # None /\ hand[q] # None => p = q
  BY DEF HandOK, SerializedDrain, Critical
\* Steps that leave the queue alone and put nothing into a hand.
<1>k. ASSUME UNCHANGED <<queue, pushed>>, \A p \in Procs : hand'[p] \in {hand[p], None}
      PROVE  OrderOK'
  BY <1>k DEF OrderOK
<1>1. CASE Quiet
  BY <1>1, <1>k DEF Quiet
<1>2. ASSUME NEW a \in Analyses, Push(a) PROVE OrderOK'
  <2>1. /\ queue' = Append(queue, a) /\ pushed' = Append(pushed, a) /\ hand' = hand
    BY <1>2 DEF Push, callVars
  <2>2. a \notin Elems(pushed)
    BY <1>2 DEF Push, PlaceOK, Started, Fresh
  <2>3. \A i, j \in DOMAIN pushed' : pushed'[i] = pushed'[j] => i = j
    <3>1. \A i \in DOMAIN pushed : pushed[i] # a
      BY <2>2 DEF Elems
    <3>2. /\ DOMAIN pushed = 1 .. Len(pushed) /\ Len(pushed) \in Nat
          /\ DOMAIN pushed' = 1 .. Len(pushed) + 1
          /\ \A i \in 1 .. Len(pushed) : pushed'[i] = pushed[i]
          /\ pushed'[Len(pushed) + 1] = a
      BY <2>1, <1>t
    <3> QED BY <3>1, <3>2 DEF OrderOK
  <2>4. /\ \A b, c : Ahead(pushed, b, c) => Ahead(pushed', b, c)
        /\ \A b \in Elems(pushed) : Ahead(pushed', b, a)
    BY <2>1, <1>t, AheadKept
  <2>5. \A i \in DOMAIN queue' : (i \in DOMAIN queue /\ queue'[i] = queue[i])
                                 \/ (i = Len(queue) + 1 /\ queue'[i] = a)
    BY <2>1, <1>t
  <2>6. \A i \in DOMAIN queue : queue[i] \in Elems(pushed) /\ i < Len(queue) + 1
    BY <1>d DEF PlaceOK, Live, Elems
  <2>7. ASSUME NEW i \in DOMAIN queue', NEW j \in DOMAIN queue', i < j
        PROVE  Ahead(pushed', queue'[i], queue'[j])
    <3>1. i \in DOMAIN queue
      BY <2>5, <2>6, <2>7, <1>d
    <3>2. CASE j \in DOMAIN queue
      BY <3>1, <3>2, <2>4, <2>5, <2>7, <1>d DEF OrderOK
    <3>3. CASE j \notin DOMAIN queue
      BY <3>1, <3>3, <2>4, <2>5, <2>6, <1>d
    <3> QED BY <3>2, <3>3
  <2>8. ASSUME NEW p \in Procs, hand'[p] # None, NEW i \in DOMAIN queue'
        PROVE  Ahead(pushed', hand'[p], queue'[i])
    <3>1. hand[p] \in Elems(pushed)
      BY <2>1, <2>8, <1>t DEF PlaceOK, Live, InHand
    <3>2. CASE i \in DOMAIN queue
      BY <3>2, <2>1, <2>4, <2>5, <2>8, <1>d DEF OrderOK
    <3>3. CASE i \notin DOMAIN queue
      BY <3>1, <3>3, <2>1, <2>4, <2>5
    <3> QED BY <3>2, <3>3
  <2> QED BY <2>3, <2>7, <2>8 DEF OrderOK
<1>3. ASSUME NEW a \in Analyses, SaveInline(a) \/ Vanishes(a) PROVE OrderOK'
  BY <1>3, <1>k DEF SaveInline, Vanishes, queueVars, callVars
<1>4. ASSUME NEW p \in Procs, PopItem(p) PROVE OrderOK'
  <2>1. /\ queue # <<>> /\ queue' = Tail(queue) /\ pushed' = pushed
        /\ hand' = [hand EXCEPT ![p] = Head(queue)] /\ pc[p] \in Critical
    BY <1>4 DEF PopItem, history, Critical
  <2>2. /\ Head(queue) = queue[1] /\ 1 \in DOMAIN queue
        /\ \A i \in DOMAIN queue' : /\ i + 1 \in DOMAIN queue /\ queue'[i] = queue[i + 1]
                                    /\ i \in Nat /\ 1 < i + 1
    BY <2>1, <1>t
  <2>3. \A q \in Procs : hand'[q] # None => q = p /\ hand'[q] = queue[1]
    BY <2>1, <2>2, <1>t, HandIs
  <2>4. ASSUME NEW i \in DOMAIN queue', NEW j \in DOMAIN queue', i < j
        PROVE  Ahead(pushed', queue'[i], queue'[j])
    <3>1. /\ i + 1 \in DOMAIN queue /\ j + 1 \in DOMAIN queue /\ i + 1 < j + 1
          /\ queue'[i] = queue[i + 1] /\ queue'[j] = queue[j + 1]
      BY <2>2, <2>4
    <3> QED BY <2>1, <3>1 DEF OrderOK
  <2>5. ASSUME NEW q \in Procs, hand'[q] # None, NEW i \in DOMAIN queue'
        PROVE  Ahead(pushed', hand'[q], queue'[i])
    <3>1. i + 1 \in DOMAIN queue /\ 1 < i + 1 /\ queue'[i] = queue[i + 1]
      BY <2>2
    <3> QED BY <2>1, <2>2, <2>3, <2>5, <3>1 DEF OrderOK
  <2> QED BY <2>1, <2>4, <2>5 DEF OrderOK
<1>5. ASSUME NEW p \in Procs, SaveItem(p) \/ SaveFails(p) \/ SaveTransient(p) PROVE OrderOK'
  BY <1>5, <1>k, <1>t DEF SaveItem, SaveFails, SaveTransient, queueVars, callVars
<1>6. ASSUME NEW p \in Procs, RequeueItem(p) PROVE OrderOK'
  <2>1. /\ queue' = <<hand[p]>> \o queue /\ pushed' = pushed
        /\ hand' = [hand EXCEPT ![p] = None] /\ pc[p] \in Critical
        /\ hand[p] \in Analyses /\ hand[p] # None
    BY <1>6, ProcsAssumption DEF RequeueItem, PutBack, history, Critical, HandOK
  <2>2. \A q \in Procs : hand'[q] = None
    BY <2>1, <1>h, <1>t
  <2>4. \A i \in DOMAIN queue' : \/ i = 1 /\ queue'[i] = hand[p]
                                 \/ i > 1 /\ i - 1 \in DOMAIN queue /\ queue'[i] = queue[i - 1]
    BY <2>1, <1>t
  <2>5. DOMAIN queue' \subseteq Nat
    BY <2>1, <1>t
  <2>6. ASSUME NEW i \in DOMAIN queue', NEW j \in DOMAIN queue', i < j
        PROVE  Ahead(pushed', queue'[i], queue'[j])
    <3>1. j > 1 /\ j - 1 \in DOMAIN queue /\ queue'[j] = queue[j - 1]
      BY <2>4, <2>5, <2>6
    <3>2. CASE i = 1
      BY <3>1, <3>2, <2>1, <2>4 DEF OrderOK
    <3>3. CASE i # 1
      <4>1. i - 1 \in DOMAIN queue /\ queue'[i] = queue[i - 1] /\ i - 1 < j - 1
        BY <3>3, <2>4, <2>5, <2>6
      <4> QED BY <2>1, <3>1, <4>1 DEF OrderOK
    <3> QED BY <3>2, <3>3
  <2> QED BY <2>1, <2>2, <2>6 DEF OrderOK
<1>7. ASSUME NEW p \in Procs, LetsGo(p) PROVE OrderOK'
  BY <1>7, <1>k, <1>t DEF LetsGo
<1>8. CASE ExpireQueue
  BY <1>8 DEF ExpireQueue, callVars, OrderOK
<1> QED BY <1>1, <1>2, <1>3, <1>4, <1>5, <1>6, <1>7, <1>8, Effects DEF Handles

LEMMA InitFacts == Init => OrderOK /\ PlaceOK
<1> SUFFICES ASSUME Init PROVE OrderOK /\ PlaceOK
  OBVIOUS
<1>1. queue = <<>> /\ pushed = <<>> /\ saved = <<>> /\ failed = {} /\ expired = {}
      /\ \A p \in Procs : hand[p] = None
  BY DEF Init
<1>2. Elems(queue) = {} /\ Elems(pushed) = {} /\ Elems(saved) = {}
  BY <1>1 DEF Elems
<1>3. InHand = {}
  BY <1>1, ProcsAssumption DEF InHand
<1> QED BY <1>1, <1>2, <1>3 DEF OrderOK, PlaceOK, Live, Settled

\* Order and place are invariant.
LEMMA FactsInvariant == Spec => []Facts
<1>1. Facts /\ IInv /\ IInv' /\ [Next]_vars => Facts'
  BY OrderStep, PlaceStep DEF Facts, IInv
<1>2. Init => Facts
  BY InitIInv, InitFacts DEF IInv, Facts
<1> QED BY <1>1, <1>2, Invariance, PTL DEF Spec

(***************************************************************************)
(* What is lost goes with a call that was cut short.                       *)
(***************************************************************************)

\* There are finitely many, so that a subset of them is no larger.
LossOK == IsFiniteSet(Lost) /\ Cardinality(Lost) <= faults["stops"]

LEMMA LostIs ==
  /\ Lost = Started \ (Live \cup Settled \cup expired)
  /\ Lost' = Started' \ (Live' \cup Settled' \cup expired')
  BY DEF Lost, Started, Fresh, Live

LEMMA LossCounted ==
  ASSUME TypeOK, TypeOK', LossOK,
         \/ Lost' \subseteq Lost /\ (Sure \/ Cut)
         \/ \E a : Lost' \subseteq Lost \cup {a} /\ Cut
  PROVE  LossOK'
<1>1. faults["stops"] \in Nat /\ faults'["stops"] \in Nat
  BY DEF TypeOK, Faults
<1>2. IsFiniteSet(Lost) /\ Cardinality(Lost) \in Nat /\ Cardinality(Lost) <= faults["stops"]
  BY FS_CardinalityType DEF LossOK
<1>3. CASE Lost' \subseteq Lost /\ (Sure \/ Cut)
  <2>1. IsFiniteSet(Lost') /\ Cardinality(Lost') <= Cardinality(Lost)
    BY <1>2, <1>3, FS_Subset
  <2>2. Cardinality(Lost') \in Nat
    BY <2>1, FS_CardinalityType
  <2> QED BY <1>1, <1>2, <1>3, <2>1, <2>2 DEF LossOK, Sure, Cut
<1>4. ASSUME NEW a, Lost' \subseteq Lost \cup {a}, Cut PROVE LossOK'
  <2>1. /\ IsFiniteSet(Lost \cup {a})
        /\ Cardinality(Lost \cup {a}) = Cardinality(Lost)
           \/ Cardinality(Lost \cup {a}) = Cardinality(Lost) + 1
    BY <1>2, FS_AddElement
  <2>2. IsFiniteSet(Lost') /\ Cardinality(Lost') <= Cardinality(Lost \cup {a})
    BY <1>4, <2>1, FS_Subset
  <2>3. Cardinality(Lost') \in Nat
    BY <2>2, FS_CardinalityType
  <2> QED BY <1>1, <1>2, <1>4, <2>1, <2>2, <2>3 DEF LossOK, Cut
<1> QED BY <1>3, <1>4

LEMMA LossStep ==
  ASSUME Facts, TypeOK', LossOK, [Next]_vars
  PROVE  LossOK'
<1> USE DEF Facts
<1>0. Analyses \subseteq Procs
  BY DEF Procs
<1>t. /\ queue \in Seq(Analyses) /\ pushed \in Seq(Analyses) /\ saved \in Seq(Analyses)
      /\ hand \in [Procs -> Analyses \cup {None}] /\ pc \in [Procs -> States]
  BY DEF TypeOK
<1>s. faults' = faults => Sure
  BY DEF Sure
<1>1. CASE Quiet /\ (Sure \/ Cut)
  <2>1. Lost' = Lost
    BY <1>1, LostIs DEF Quiet, Live, InHand, Settled
  <2> QED BY <1>1, <2>1, LossCounted
<1>2. ASSUME NEW a \in Analyses, Push(a) PROVE LossOK'
  <2>1. /\ queue' = Append(queue, a) /\ UNCHANGED <<hand, saved, failed, expired, faults>>
        /\ pc' = [pc EXCEPT ![a] = "lock"]
    BY <1>2 DEF Push, Goto, callVars
  <2>2. Elems(queue') = Elems(queue) \cup {a}
    BY <2>1, <1>t, ElemsAppend
  <2>3. Started' \subseteq Started \cup {a}
    BY <2>1, <1>0, <1>t DEF Started, Fresh
  <2>4. InHand' = InHand /\ Settled' = Settled
    BY <2>1 DEF InHand, Settled
  <2>5. Lost' \subseteq Lost
    BY <2>1, <2>2, <2>3, <2>4, LostIs DEF Live
  <2> QED BY <1>s, <2>1, <2>5, LossCounted
<1>3. ASSUME NEW a \in Analyses, SaveInline(a) PROVE LossOK'
  <2>1. /\ UNCHANGED <<queue, hand, expired, faults>> /\ pc' = [pc EXCEPT ![a] = "done"]
        /\ \/ saved' = Append(saved, a) /\ failed' = failed
           \/ saved' = saved /\ failed' = failed \cup {a}
    BY <1>3 DEF SaveInline, Goto, queueVars, callVars
  <2>2. Elems(Append(saved, a)) = Elems(saved) \cup {a}
    BY <1>t, ElemsAppend
  <2>3. Settled' = Settled \cup {a}
    BY <2>1, <2>2 DEF Settled
  <2>4. Started' \subseteq Started \cup {a}
    BY <2>1, <1>0, <1>t DEF Started, Fresh
  <2>5. Live' = Live
    BY <2>1 DEF InHand, Live
  <2>6. Lost' \subseteq Lost
    BY <2>1, <2>3, <2>4, <2>5, LostIs
  <2> QED BY <1>s, <2>1, <2>6, LossCounted
<1>4. ASSUME NEW a \in Analyses, Vanishes(a) PROVE LossOK'
  <2>1. Lost' \subseteq Lost \cup {a} /\ Cut
    BY <1>4, LostIs DEF Vanishes, Live, InHand, Settled
  <2> QED BY <2>1, LossCounted
<1>5. ASSUME NEW p \in Procs, Handles(p) PROVE LossOK'
  <2>1. expired' = expired /\ Started' = Started /\ Sure
    BY <1>5, HandlesSettled
  <2>2. Live \cup Settled \subseteq Live' \cup Settled'
    BY <1>5, HandlesLive, HandlesSettled DEF Handles
  <2>3. Lost' \subseteq Lost
    BY <2>1, <2>2, LostIs
  <2> QED BY <2>1, <2>3, LossCounted
<1>6. ASSUME NEW p \in Procs, LetsGo(p) PROVE LossOK'
  <2>1. InHand = {hand[p]} \cap Analyses
    BY <1>6, HandIs DEF LetsGo
  <2>2. Lost' \subseteq Lost \cup {hand[p]} /\ Cut
    BY <1>6, <2>1, LostIs DEF LetsGo, Live, Settled
  <2> QED BY <2>2, LossCounted
<1>7. CASE ExpireQueue
  <2>1. /\ queue' = <<>> /\ expired' = expired \cup Elems(queue)
        /\ UNCHANGED <<hand, saved, failed, pc, faults>>
    BY <1>7 DEF ExpireQueue, callVars, Elems
  <2>2. Lost' \subseteq Lost
    BY <2>1, LostIs DEF Live, InHand, Settled, Started, Fresh
  <2> QED BY <1>s, <2>1, <2>2, LossCounted
<1> QED BY <1>1, <1>2, <1>3, <1>4, <1>5, <1>6, <1>7, Effects

\* Whatever is lost of the analyses handed over, at most one went with each call
\* that was cut short: the payload it had not pushed or the item in its hand.
THEOREM LossIsCounted == Spec => []LossPerStop
<1>1. Init => LossOK
  <2> SUFFICES ASSUME Init PROVE LossOK
    OBVIOUS
  <2>1. Started = {} /\ faults["stops"] = 0
    BY DEF Init, Started, Fresh, Procs, Faults
  <2>2. Lost = {}
    BY <2>1, LostIs
  <2> QED BY <2>1, <2>2, FS_EmptySet DEF LossOK
<1>2. Facts /\ Facts' /\ LossOK /\ [Next]_vars => LossOK'
  BY LossStep DEF Facts
<1>3. LossOK => LossPerStop
  BY DEF LossOK, LossPerStop
<1> QED BY <1>1, <1>2, <1>3, FactsInvariant, PTL DEF Spec

(***************************************************************************)
(* The ledger: every step settles the next item, drops some, or stutters.  *)
(***************************************************************************)

\* The ledger's variables, as SaveDrain maps them.
Stored == Elems(saved) \cap Elems(pushed)
Rejected == failed \cap Elems(pushed)
Dropped == (Lost \cup (expired \ Settled)) \cap Elems(pushed)

\* The promise's view of a state and of the next one, in terms of what is live.
LEMMA DroppedIs ==
  ASSUME PlaceOK, PlaceOK'
  PROVE  /\ Dropped = Elems(pushed) \ (Live \cup Settled)
         /\ Dropped' = Elems(pushed)' \ (Live' \cup Settled')
  BY LostIs DEF PlaceOK, Dropped

\* The item in the hand is the next one the ledger settles.
LEMMA HandTurn ==
  ASSUME Facts, PlaceOK', NEW p \in Procs, pc[p] \in Critical, hand[p] \in Analyses
  PROVE  /\ Ledger!Turn(hand[p])
         /\ hand[p] \in Elems(pushed) /\ hand[p] \notin Rejected \cup Dropped
<1> USE DEF Facts
<1>1. InHand = {hand[p]} /\ hand[p] # None
  BY HandIs, ProcsAssumption
<1>2. hand[p] \in Elems(pushed) /\ hand[p] \notin Rejected \cup Dropped
  BY <1>1, DroppedIs DEF PlaceOK, Live, Rejected
<1>3. PICK i \in DOMAIN pushed : pushed[i] = hand[p]
  BY <1>2 DEF Elems
<1>4. DOMAIN pushed = 1 .. Len(pushed) /\ Len(pushed) \in Nat
  BY DEF TypeOK
<1>5. ASSUME NEW j \in 1 .. i - 1 PROVE pushed[j] \in Stored \cup Rejected \cup Dropped
  <2>1. j \in DOMAIN pushed /\ j < i
    BY <1>3, <1>4, <1>5
  <2>2. pushed[j] # hand[p]
    BY <1>3, <1>4, <2>1 DEF OrderOK
  <2>3. ASSUME NEW k \in DOMAIN queue, queue[k] = pushed[j] PROVE FALSE
    <3>1. Ahead(pushed, hand[p], pushed[j])
      BY <1>1, <2>3 DEF OrderOK
    <3>2. PICK m, n \in DOMAIN pushed : m < n /\ pushed[m] = hand[p] /\ pushed[n] = pushed[j]
      BY <3>1 DEF Ahead
    <3>3. m = i /\ n = j
      BY <1>3, <2>1, <3>2 DEF OrderOK
    <3> QED BY <1>3, <1>4, <2>1, <3>2, <3>3
  <2>4. pushed[j] \notin Live /\ pushed[j] \in Elems(pushed)
    BY <1>1, <2>1, <2>2, <2>3 DEF Live, Elems
  <2> QED BY <2>4, DroppedIs DEF Settled, Stored, Rejected
<1>6. Ledger!Turn(hand[p])
  BY <1>3, <1>5 DEF Ledger!Turn, Ledger!Settled, Stored, Rejected, Dropped
<1> QED BY <1>2, <1>6

LEMMA LedgerStutters ==
  ASSUME UNCHANGED <<pushed, Stored, Rejected, Dropped>>
  PROVE  UNCHANGED Ledger!vars
  BY DEF Ledger!vars, Stored, Rejected, Dropped

\* The item in the hand is committed.
LEMMA LedgerStores ==
  ASSUME Facts, PlaceOK', NEW p \in Procs, pc[p] \in Critical, hand[p] \in Analyses,
         pushed' = pushed, Stored' = Stored \cup {hand[p]},
         UNCHANGED <<Rejected, Dropped>>
  PROVE  [Ledger!Next]_(Ledger!vars)
<1>1. Ledger!Turn(hand[p]) /\ hand[p] \notin Rejected \cup Dropped
  BY HandTurn
<1>2. CASE hand[p] \in Stored
  BY <1>2, LedgerStutters
<1>3. CASE hand[p] \notin Stored
  <2>1. Ledger!Store(hand[p])
    BY <1>1, <1>3 DEF Ledger!Store, Ledger!Settled, Stored, Rejected, Dropped
  <2> QED BY <2>1 DEF Ledger!Next
<1> QED BY <1>2, <1>3

LEMMA LedgerStep ==
  ASSUME Facts, PlaceOK', [Next]_vars
  PROVE  [Ledger!Next]_(Ledger!vars)
<1> USE DEF Facts
<1>0. Analyses \subseteq Procs
  BY DEF Procs
<1>t. /\ queue \in Seq(Analyses) /\ pushed \in Seq(Analyses) /\ saved \in Seq(Analyses)
      /\ hand \in [Procs -> Analyses \cup {None}] /\ pc \in [Procs -> States]
  BY DEF TypeOK
<1>s. ASSUME UNCHANGED <<pushed, saved, failed>>, Live' = Live
      PROVE  UNCHANGED Ledger!vars
  BY <1>s, DroppedIs, LedgerStutters DEF Stored, Rejected, Settled
<1>1. CASE Quiet
  BY <1>1, <1>s DEF Quiet, Live, InHand
<1>2. ASSUME NEW a \in Analyses, Push(a) PROVE Ledger!Accept(a)
  <2>1. /\ queue' = Append(queue, a) /\ pushed' = Append(pushed, a)
        /\ UNCHANGED <<hand, saved, failed>> /\ a \notin Started
    BY <1>2 DEF Push, callVars, Started, Fresh
  <2>2. Elems(queue') = Elems(queue) \cup {a} /\ Elems(pushed') = Elems(pushed) \cup {a}
    BY <2>1, <1>t, ElemsAppend
  <2>3. a \notin Elems(pushed) /\ a \notin Elems(saved) /\ a \notin failed
    BY <2>1 DEF PlaceOK, Settled
  <2>4. UNCHANGED <<Stored, Rejected>>
    BY <2>1, <2>2, <2>3 DEF Stored, Rejected
  <2>5. Live' = Live \cup {a}
    BY <2>1, <2>2 DEF Live, InHand
  <2>6. Dropped' = Dropped
    BY <2>1, <2>2, <2>3, <2>5, DroppedIs DEF Settled
  <2> QED BY <2>1, <2>3, <2>4, <2>6 DEF Ledger!Accept, Ledger!Accepted, Elems, Stored, Rejected, Dropped
<1>3. ASSUME NEW a \in Analyses, SaveInline(a) PROVE UNCHANGED Ledger!vars
  <2>1. /\ UNCHANGED <<queue, hand, pushed>> /\ a \notin Started
        /\ (saved' = saved \/ saved' = Append(saved, a)) /\ failed \subseteq failed' /\ failed' \subseteq failed \cup {a}
    BY <1>3 DEF SaveInline, queueVars, callVars, Started, Fresh
  <2>2. Elems(saved) \subseteq Elems(saved') /\ Elems(saved') \subseteq Elems(saved) \cup {a}
    BY <2>1, <1>t, ElemsSaved
  <2>3. a \notin Elems(pushed)
    BY <2>1 DEF PlaceOK
  <2>4. UNCHANGED <<Stored, Rejected>>
    BY <2>1, <2>2, <2>3 DEF Stored, Rejected
  <2>5. Live' = Live
    BY <2>1 DEF Live, InHand
  <2>6. Dropped' = Dropped
    BY <2>1, <2>2, <2>3, <2>5, DroppedIs DEF Settled
  <2> QED BY <2>1, <2>4, <2>6, LedgerStutters
<1>4. ASSUME NEW a \in Analyses, Vanishes(a) PROVE UNCHANGED Ledger!vars
  BY <1>4, <1>s DEF Vanishes, Live, InHand
<1>5. ASSUME NEW p \in Procs, Handles(p) PROVE [Ledger!Next]_(Ledger!vars)
  <2>1. pc[p] \in Critical /\ pushed' = pushed
    BY <1>5, HandlesLive, HandlesSettled
  <2>2. CASE PopItem(p) \/ RequeueItem(p) \/ (SaveTransient(p) /\ saved' = saved)
    <3>1. UNCHANGED <<saved, failed>>
      BY <2>2 DEF PopItem, RequeueItem, PutBack, SaveTransient, history
    <3> QED BY <1>5, <2>1, <2>2, <3>1, <1>s, HandlesLive
  <2>3. ASSUME SaveItem(p) \/ SaveTransient(p), saved' = Append(saved, hand[p])
        PROVE  [Ledger!Next]_(Ledger!vars)
    <3>1. hand[p] \in Analyses /\ failed' = failed
      BY <2>3 DEF SaveItem, SaveTransient, HandOK
    <3>2. Elems(saved') = Elems(saved) \cup {hand[p]}
      BY <2>3, <3>1, <1>t, ElemsAppend
    <3>3. hand[p] \in Elems(pushed)
      BY <2>1, <3>1, HandTurn
    <3>4. hand[p] \in Live /\ Live' \cup {hand[p]} = Live
      BY <1>5, <2>3, HandlesLive DEF SaveItem, SaveTransient, PopItem
    <3>5. Stored' = Stored \cup {hand[p]} /\ UNCHANGED <<Rejected, Dropped>>
      BY <2>1, <3>1, <3>2, <3>3, <3>4, DroppedIs DEF Stored, Rejected, Settled
    <3> QED BY <2>1, <3>1, <3>5, LedgerStores
  <2>4. CASE SaveFails(p)
    <3>1. /\ hand[p] \in Analyses /\ hand[p] \in Live /\ Live' = Live \ {hand[p]}
          /\ saved' = saved /\ failed' = failed \cup {hand[p]}
      BY <1>5, <2>4, HandlesLive, HandlesSettled DEF SaveFails, PopItem
    <3>2. Ledger!Turn(hand[p]) /\ hand[p] \in Elems(pushed) /\ hand[p] \notin Rejected \cup Dropped
      BY <2>1, <3>1, HandTurn
    <3>3. Rejected' = Rejected \cup {hand[p]} /\ UNCHANGED <<Stored, Dropped>>
      BY <2>1, <3>1, <3>2, DroppedIs DEF Stored, Rejected, Settled
    <3>4. Ledger!Reject(hand[p])
      BY <2>1, <3>2, <3>3 DEF Ledger!Reject, Stored, Rejected, Dropped
    <3> QED BY <3>1, <3>4 DEF Ledger!Next
  <2> QED BY <1>5, <2>2, <2>3, <2>4 DEF Handles, SaveItem, SaveTransient
<1>6. ASSUME NEW S \in SUBSET Analyses, UNCHANGED <<pushed, saved, failed>>,
             Live = Live' \cup S, Live' \cap S \subseteq Settled
      PROVE  [Ledger!Next]_(Ledger!vars)
  <2>1. S \ Settled \subseteq Elems(pushed) /\ (S \ Settled) \cap (Stored \cup Rejected \cup Dropped) = {}
    BY <1>6, DroppedIs DEF PlaceOK, Stored, Rejected, Settled
  <2>2. UNCHANGED <<Stored, Rejected>> /\ Dropped' = Dropped \cup (S \ Settled)
    BY <1>6, <2>1, DroppedIs DEF Stored, Rejected, Settled
  <2>3. Ledger!Drop(S \ Settled)
    BY <1>6, <2>1, <2>2 DEF Ledger!Drop, Ledger!Settled, Ledger!Accepted, Elems, Stored, Rejected, Dropped
  <2>4. S \ Settled \in SUBSET Analyses
    OBVIOUS
  <2> QED BY <2>3, <2>4 DEF Ledger!Next
<1>7. ASSUME NEW p \in Procs, LetsGo(p) PROVE [Ledger!Next]_(Ledger!vars)
  <2>1. InHand = {hand[p]} \cap Analyses /\ InHand' = {} /\ UNCHANGED <<queue, pushed, saved, failed>>
    BY <1>7, HandIs, ProcsAssumption DEF LetsGo
  <2>2. Live = Live' \cup InHand
    BY <2>1 DEF Live
  <2>3. Live' \cap InHand = {}
    <3>1. \A i \in DOMAIN queue : hand[p] # None => queue[i] # hand[p]
      BY <1>t, NotBeforeItself DEF OrderOK
    <3> QED BY <2>1, <3>1, ProcsAssumption DEF Live, Elems
  <2>4. InHand \in SUBSET Analyses
    BY DEF InHand
  <2> QED BY <1>6, <2>1, <2>2, <2>3, <2>4
<1>8. CASE ExpireQueue
  <2>1. queue' = <<>> /\ UNCHANGED <<hand, pushed, saved, failed>>
    BY <1>8 DEF ExpireQueue, callVars
  <2>2. InHand' = {} /\ InHand = {}
    BY <1>8, <2>1, ProcsAssumption DEF ExpireQueue, HandOK, InHand
  <2>3. Live' = {} /\ Live \in SUBSET Analyses
    BY <2>1, <2>2, <1>t DEF Live, Elems
  <2> QED BY <1>6, <2>1, <2>3
<1> QED BY <1>1, <1>2, <1>3, <1>4, <1>5, <1>7, <1>8, Effects DEF Ledger!Next

\* The detailed drain implements the ledger: what it takes over is settled one by
\* one, in the order of the pushes, over every lock hand-over, put-back and abort.
THEOREM DrainKeepsLedger == Spec => LedgerSpec
<1>1. Init => Ledger!Init
  <2> SUFFICES ASSUME Init PROVE Ledger!Init
    OBVIOUS
  <2>1. pushed = <<>> /\ Elems(pushed) = {}
    BY DEF Init, Elems
  <2> QED BY <2>1 DEF Ledger!Init
<1>2. Facts /\ Facts' /\ [Next]_vars => [Ledger!Next]_(Ledger!vars)
  BY LedgerStep DEF Facts
<1> QED BY <1>1, <1>2, FactsInvariant, PTL DEF Spec, LedgerSpec, Ledger!Spec

(***************************************************************************)
(* Without a call cut short, somebody is always about to look.             *)
(***************************************************************************)

\* While no call was cut short, somebody is about to look at a queue that is not
\* empty, and what was handed over is live, reported, or in a batch that some
\* call has saved and is going to announce.
FaultFree == faults["stops"] = 0
Awake(p) == pc[p] \in Critical \cup {"lock", "after"} \/ (p \in Drains /\ pc[p] = "queued")
Told == Live \cup failed \cup announced
Unannounced(p) ==
  {batch[p][i] : i \in {n \in DOMAIN batch[p] :
     pc[p] \in {"pop", "save", "requeue", "release"} \/ (pc[p] = "after" /\ n > cursor[p])}}

WatchOK == FaultFree =>
  /\ \A p \in Procs : pc[p] # "unwind"
  /\ lock => \E p \in Procs : pc[p] \in Critical
  /\ queue # <<>> => \E p \in Procs : Awake(p)

TraceOK == FaultFree => Started \subseteq Told \cup UNION {Unannounced(p) : p \in Procs}

\* Without a call cut short, only these steps are left.
LEMMA CalmSteps ==
  ASSUME TypeOK, [Next]_vars, FaultFree'
  PROVE  /\ FaultFree
         /\ \/ \E a \in Analyses : EnqueueSave(a) \/ Push(a) \/ StartInline(a) \/ SaveInline(a)
            \/ \E d \in Drains : StartDrain(d)
            \/ \E p \in Procs : Work(p) \/ DeferFails(p)
            \/ Tick \/ ExpireLock \/ ExpireQueue \/ UNCHANGED vars
<1>1. ASSUME NEW b, Use("stops", b) PROVE FALSE
  BY <1>1 DEF Use, FaultFree, TypeOK, Faults
<1>2. ASSUME NEW p \in Procs PROVE ~AbortOutside(p) /\ ~AbortInside(p) /\ ~Kill(p)
  BY <1>1 DEF AbortOutside, AbortInside, Kill
<1>3. ASSUME NEW f \in Faults \ {"stops"}, NEW b, Use(f, b) PROVE FaultFree
  BY <1>3 DEF Use, FaultFree, TypeOK, Faults
<1>4. faults' = faults => FaultFree
  BY DEF FaultFree
<1>5. "transients" \in Faults \ {"stops"} /\ "schedFails" \in Faults \ {"stops"}
      /\ "inlines" \in Faults \ {"stops"}
  BY DEF Faults
<1>6. ASSUME NEW a \in Analyses, EnqueueSave(a) \/ Push(a) \/ StartInline(a) \/ SaveInline(a)
      PROVE  FaultFree
  BY <1>3, <1>4, <1>5, <1>6 DEF EnqueueSave, Push, StartInline, SaveInline
<1>7. ASSUME NEW p \in Procs, Work(p) \/ DeferFails(p) PROVE FaultFree
  BY <1>3, <1>4, <1>5, <1>7 DEF Work, DeferFails, AcquireLock, LockBusy, DeferDrain, PopItem,
     LeaveLoop, SaveItem, SaveFails, SaveTransient, RequeueItem, PutBack, ReleaseLock, AfterSave,
     ScheduleRetry, LoopAgain, Return, Unwind
<1>8. ASSUME (\E d \in Drains : StartDrain(d)) \/ Tick \/ ExpireLock \/ ExpireQueue \/ UNCHANGED vars
      PROVE  FaultFree
  BY <1>4, <1>8 DEF StartDrain, Tick, ExpireLock, ExpireQueue, vars
<1> QED BY <1>2, <1>6, <1>7, <1>8 DEF Next, Stop

\* One call moves: the key keeps a holder and the queue somebody who looks.
LEMMA WatchMove ==
  ASSUME TypeOK, WatchOK, FaultFree, NEW p \in Procs, NEW w \in States \ {"unwind"},
         pc' = [pc EXCEPT ![p] = w],
         lock' => w \in Critical \/ (lock /\ pc[p] \notin Critical),
         queue' # <<>> => \/ w \in Critical \cup {"lock", "after"}
                          \/ queue # <<>> /\ ~Awake(p)
  PROVE  WatchOK'
<1>0. pc \in [Procs -> States]
  BY DEF TypeOK
<1>1. \A q \in Procs : pc'[q] # "unwind"
  BY <1>0 DEF WatchOK
<1>2. ASSUME lock' PROVE \E q \in Procs : pc'[q] \in Critical
  BY <1>0, <1>2 DEF WatchOK
<1>3. ASSUME queue' # <<>> PROVE \E q \in Procs : Awake(q)'
  BY <1>0, <1>3 DEF WatchOK, Awake
<1> QED BY <1>1, <1>2, <1>3 DEF WatchOK

\* A call that schedules a drain leaves that drain to look at the queue.
LEMMA WatchSchedule ==
  ASSUME TypeOK, WatchOK, FaultFree, NEW p \in Procs, EndAndSchedule(p),
         pc[p] \notin Critical, lock' = lock
  PROVE  WatchOK'
<1>0. pc \in [Procs -> States]
  BY DEF TypeOK
<1>1. PICK d \in Drains : /\ d = p \/ pc[d] \in {"idle", "queued"}
                          /\ pc' = [pc EXCEPT ![p] = Ended(p), ![d] = "queued"]
  BY DEF EndAndSchedule
<1>2. d \in Procs /\ pc[d] \notin Critical
  BY <1>1 DEF Procs, Critical
<1>3. \A q \in Procs : pc'[q] = pc[q] \/ pc'[q] \in {"done", "idle", "queued"}
  BY <1>0, <1>1 DEF Ended
<1>4. \A q \in Procs : pc'[q] # "unwind"
  BY <1>3 DEF WatchOK
<1>5. \A q \in Procs : pc[q] \in Critical => pc'[q] = pc[q]
  BY <1>0, <1>1, <1>2
<1>6. lock' => \E q \in Procs : pc'[q] \in Critical
  BY <1>5 DEF WatchOK
<1>7. Awake(d)'
  BY <1>0, <1>1, <1>2 DEF Awake
<1> QED BY <1>2, <1>4, <1>6, <1>7 DEF WatchOK

LEMMA WatchStep ==
  ASSUME TypeOK, WatchOK, [Next]_vars
  PROVE  WatchOK'
<1> SUFFICES ASSUME FaultFree' PROVE WatchOK'
  BY DEF WatchOK
<1>0. FaultFree /\ pc \in [Procs -> States] /\ Analyses \subseteq Procs /\ Drains \subseteq Procs
  BY CalmSteps DEF TypeOK, Procs
<1>s. /\ \A w \in {"queued", "lock", "inline", "done", "pop", "busy", "save", "release", "requeue",
                  "after", "idle"} : w \in States \ {"unwind"}
      /\ \A p \in Procs : Ended(p) \in {"done", "idle"}
  BY DEF States, Running, Critical, Ended
<1>1. ASSUME NEW a \in Analyses, EnqueueSave(a) \/ StartInline(a) \/ SaveInline(a) PROVE WatchOK'
  <2>1. /\ UNCHANGED <<queue, lock>> /\ pc[a] \in {"new", "inline"}
        /\ \E w \in {"queued", "inline", "done"} : pc' = [pc EXCEPT ![a] = w]
    BY <1>1 DEF EnqueueSave, StartInline, SaveInline, Goto, queueVars, lockVars
  <2>2. pc[a] \notin Critical /\ ~Awake(a)
    BY <2>1 DEF Critical, Awake
  <2> QED BY <1>0, <1>s, <2>1, <2>2, WatchMove
<1>2. ASSUME NEW a \in Analyses, Push(a) PROVE WatchOK'
  <2>1. /\ lock' = lock /\ pc[a] \notin Critical /\ pc' = [pc EXCEPT ![a] = "lock"]
    BY <1>2 DEF Push, Goto, lockVars, Critical
  <2> QED BY <1>0, <1>s, <2>1, WatchMove
<1>3. ASSUME NEW d \in Drains, StartDrain(d) PROVE WatchOK'
  <2>1. /\ lock' = lock /\ pc[d] \notin Critical /\ pc' = [pc EXCEPT ![d] = "lock"]
    BY <1>3 DEF StartDrain, Goto, lockVars, Critical
  <2> QED BY <1>0, <1>s, <2>1, WatchMove
<1>4. ASSUME NEW p \in Procs,
             AcquireLock(p) \/ PopItem(p) \/ LeaveLoop(p) \/ SaveItem(p) \/ SaveFails(p)
             \/ SaveTransient(p) \/ RequeueItem(p)
      PROVE  WatchOK'
  <2>1. \E w \in {"pop", "save", "requeue", "release"} : pc' = [pc EXCEPT ![p] = w]
    BY <1>4 DEF AcquireLock, PopItem, LeaveLoop, SaveItem, SaveFails, SaveTransient, RequeueItem,
       PutBack, Goto
  <2>2. {"pop", "save", "requeue", "release"} \subseteq Critical
    BY DEF Critical
  <2> QED BY <1>0, <1>s, <2>1, <2>2, WatchMove
<1>5. ASSUME NEW p \in Procs, ReleaseLock(p) PROVE WatchOK'
  <2>1. ~lock' /\ pc' = [pc EXCEPT ![p] = "after"]
    BY <1>5 DEF ReleaseLock, Goto
  <2> QED BY <1>0, <1>s, <2>1, WatchMove
<1>6. ASSUME NEW p \in Procs, LockBusy(p) PROVE WatchOK'
  <2>1. lock /\ pc[p] = "lock" /\ UNCHANGED <<queue, lock>> /\ pc' = [pc EXCEPT ![p] = "busy"]
    BY <1>6 DEF LockBusy, Goto, queueVars, lockVars
  <2>2. PICK q \in Procs : pc[q] \in Critical
    BY <1>0, <2>1 DEF WatchOK
  <2>3. pc'[q] \in Critical
    BY <1>0, <2>1, <2>2 DEF Critical
  <2>4. Awake(q)'
    BY <2>3 DEF Awake
  <2>5. \A r \in Procs : pc'[r] # "unwind"
    BY <1>0, <2>1 DEF WatchOK
  <2> QED BY <2>3, <2>4, <2>5 DEF WatchOK
<1>7. ASSUME NEW p \in Procs, DeferFails(p) \/ Return(p) PROVE WatchOK'
  <2>1. /\ UNCHANGED <<queue, lock>> /\ pc' = [pc EXCEPT ![p] = Ended(p)]
        /\ pc[p] = "busy" \/ (pc[p] = "after" /\ queue = <<>>)
    BY <1>7 DEF DeferFails, Return, AfterBatch, End, Goto, queueVars, lockVars
  <2>2. pc[p] \notin Critical /\ (queue # <<>> => ~Awake(p))
    BY <2>1 DEF Critical, Awake
  <2> QED BY <1>0, <1>s, <2>1, <2>2, WatchMove
<1>8. ASSUME NEW p \in Procs, LoopAgain(p) PROVE WatchOK'
  <2>1. /\ lock' = lock /\ pc[p] \notin Critical /\ pc' = [pc EXCEPT ![p] = "lock"]
    BY <1>8 DEF LoopAgain, AfterBatch, Goto, lockVars, Critical
  <2> QED BY <1>0, <1>s, <2>1, WatchMove
<1>9. ASSUME NEW p \in Procs, DeferDrain(p) \/ ScheduleRetry(p) PROVE WatchOK'
  <2>1. EndAndSchedule(p) /\ lock' = lock /\ pc[p] \notin Critical
    BY <1>9 DEF DeferDrain, ScheduleRetry, AfterBatch, lockVars, Critical
  <2> QED BY <1>0, <2>1, WatchSchedule
<1>10. ASSUME NEW p \in Procs, Unwind(p) PROVE FALSE
  BY <1>0, <1>10 DEF Unwind, WatchOK
<1>11. ASSUME UNCHANGED pc, lock' => lock, queue' # <<>> => queue # <<>> PROVE WatchOK'
  BY <1>0, <1>11 DEF WatchOK, Awake
<1>12. CASE (\E p \in Procs : AfterSave(p)) \/ Tick \/ ExpireLock \/ ExpireQueue \/ UNCHANGED vars
  BY <1>11, <1>12 DEF AfterSave, Tick, ExpireLock, ExpireQueue, vars, queueVars, lockVars
<1> QED BY <1>1, <1>2, <1>3, <1>4, <1>5, <1>6, <1>7, <1>8, <1>9, <1>10, <1>12, CalmSteps DEF Work

\* One call moves, and what it starts or held in its batch is told or kept there.
LEMMA TraceMove ==
  ASSUME TypeOK, TraceOK, FaultFree, NEW p \in Procs,
         \A q \in Procs \ {p} : Unannounced(q)' = Unannounced(q),
         Started' \subseteq Started \cup Told' \cup Unannounced(p)',
         Told \subseteq Told' \cup Unannounced(p)',
         Unannounced(p) \subseteq Told' \cup Unannounced(p)'
  PROVE  TraceOK'
<1> SUFFICES ASSUME NEW a \in Started', a \notin Told', a \notin Unannounced(p)'
             PROVE  \E q \in Procs : a \in Unannounced(q)'
  BY DEF TraceOK
<1>1. a \in Started /\ a \notin Told /\ a \notin Unannounced(p)
  OBVIOUS
<1>2. PICK q \in Procs : a \in Unannounced(q)
  BY <1>1 DEF TraceOK
<1> QED BY <1>1, <1>2

\* A call outside the drain loop has nothing left to announce.
LEMMA NothingLeft ==
  ASSUME NEW p \in Procs, pc[p] \notin {"pop", "save", "requeue", "release", "after"}
  PROVE  Unannounced(p) = {}
  BY DEF Unannounced

LEMMA NothingLeftNext ==
  ASSUME NEW p \in Procs, pc'[p] \notin {"pop", "save", "requeue", "release", "after"}
  PROVE  Unannounced(p)' = {}
  BY DEF Unannounced

LEMMA AllAnnounced ==
  ASSUME TypeOK, NEW p \in Procs, AfterBatch(p)
  PROVE  Unannounced(p) = {}
<1>1. DOMAIN batch[p] = 1 .. Len(batch[p]) /\ Len(batch[p]) \in Nat
  BY DEF TypeOK
<1> QED BY <1>1 DEF AfterBatch, Unannounced

\* Within the loop a call keeps its batch.
LEMMA BatchKept ==
  ASSUME NEW p \in Procs, pc[p] \in {"pop", "save", "requeue", "release"},
         pc'[p] \in {"pop", "save", "requeue", "release"}
  PROVE  /\ Unannounced(p) = Elems(batch[p])
         /\ Unannounced(p)' = Elems(batch'[p])
  BY DEF Unannounced, Elems

LEMMA TraceStep ==
  ASSUME Facts, WatchOK, TraceOK, [Next]_vars
  PROVE  TraceOK'
<1> SUFFICES ASSUME FaultFree' PROVE TraceOK'
  BY DEF TraceOK
<1> USE DEF Facts
<1>0. /\ FaultFree /\ pc \in [Procs -> States] /\ batch \in [Procs -> Seq(Analyses)]
      /\ cursor \in [Procs -> Nat] /\ hand \in [Procs -> Analyses \cup {None}]
      /\ queue \in Seq(Analyses) /\ Analyses \subseteq Procs /\ Drains \subseteq Procs
  BY CalmSteps DEF TypeOK, Procs
\* Only call p moves.
<1>p. ASSUME NEW p \in Procs, \E w : pc' = [pc EXCEPT ![p] = w],
             batch' = batch \/ \E b : batch' = [batch EXCEPT ![p] = b],
             cursor' = cursor \/ \E c : cursor' = [cursor EXCEPT ![p] = c]
      PROVE  \A q \in Procs \ {p} : Unannounced(q)' = Unannounced(q)
  BY <1>p, <1>0 DEF Unannounced
<1>1. ASSUME NEW a \in Analyses, EnqueueSave(a) \/ Push(a) \/ StartInline(a) \/ SaveInline(a)
      PROVE  TraceOK'
  <2>1. /\ UNCHANGED <<batch, cursor, hand>>
        /\ pc[a] \in {"new", "queued", "inline"}
        /\ \E w \in {"queued", "lock", "inline", "done"} : pc' = [pc EXCEPT ![a] = w]
    BY <1>1 DEF EnqueueSave, Push, StartInline, SaveInline, Goto, callVars
  <2>2. Unannounced(a) = {}
    BY <1>0, <2>1, NothingLeft
  <2>3. Elems(Append(queue, a)) = Elems(queue) \cup {a}
    BY <1>0, ElemsAppend
  <2>4. Told \subseteq Told'
    BY <1>1, <2>1, <2>3 DEF EnqueueSave, Push, StartInline, SaveInline, Told, Live, InHand,
       queueVars, history
  <2>5. Started' \subseteq Started \cup Told'
    <3>1. Started' \subseteq Started \cup {a}
      BY <1>0, <2>1 DEF Started, Fresh
    <3>2. CASE EnqueueSave(a) \/ StartInline(a)
      BY <1>0, <3>1, <3>2 DEF EnqueueSave, StartInline, Goto, Started, Fresh
    <3>3. CASE Push(a) \/ SaveInline(a)
      BY <2>3, <3>1, <3>3 DEF Push, SaveInline, Told, Live
    <3> QED BY <1>1, <3>2, <3>3
  <2> QED BY <1>0, <1>p, <2>1, <2>2, <2>4, <2>5, TraceMove
\* Calls that start, wait, go round again or end: their batch is announced.
<1>2. ASSUME NEW p \in Procs, UNCHANGED <<queue, hand, failed, announced>>, Started' = Started,
             Unannounced(p) = {}, \A q \in Procs \ {p} : Unannounced(q)' = Unannounced(q)
      PROVE  TraceOK'
  <2>1. Told' = Told
    BY <1>2 DEF Told, Live, InHand
  <2> QED BY <1>0, <1>2, <2>1, TraceMove
<1>3. ASSUME NEW p \in Procs, (StartDrain(p) /\ p \in Drains) \/ LockBusy(p) \/ LoopAgain(p)
      PROVE  TraceOK'
  <2>1. /\ UNCHANGED <<queue, hand, failed, announced, batch, cursor>>
        /\ \E w \in {"lock", "busy"} : pc' = [pc EXCEPT ![p] = w]
        /\ pc[p] \in {"queued", "lock"} \/ AfterBatch(p)
        /\ p \in Analyses => pc[p] \in {"lock", "after"}
    BY <1>3, ProcsAssumption DEF StartDrain, LockBusy, LoopAgain, AfterBatch, Goto, queueVars, callVars, history
  <2>2. Unannounced(p) = {}
    BY <2>1, NothingLeft, AllAnnounced
  <2>3. Started' = Started
    BY <2>1, StartedSame DEF Fresh
  <2> QED BY <1>2, <1>p, <2>1, <2>2, <2>3
<1>4. ASSUME NEW p \in Procs, DeferFails(p) \/ Return(p)
      PROVE  TraceOK'
  <2>1. /\ UNCHANGED <<queue, failed, announced>> /\ End(p)
        /\ pc[p] \in {"busy", "after"} /\ (pc[p] = "busy" \/ AfterBatch(p))
    BY <1>4 DEF DeferFails, Return, AfterBatch, queueVars, history
  <2>2. Unannounced(p) = {}
    BY <2>1, NothingLeft, AllAnnounced
  <2>3. Started' = Started /\ hand' = hand
    BY <2>1, EndSame, EmptyHand DEF Fresh, End, Forget
  <2>4. \A q \in Procs \ {p} : Unannounced(q)' = Unannounced(q)
    BY <2>1, <1>p DEF End, Forget, Goto
  <2> QED BY <1>2, <2>1, <2>2, <2>3, <2>4
<1>5. ASSUME NEW p \in Procs, DeferDrain(p) \/ ScheduleRetry(p)
      PROVE  TraceOK'
  <2>1. /\ UNCHANGED <<queue, failed, announced>> /\ EndAndSchedule(p)
        /\ pc[p] \in {"busy", "after"} /\ (pc[p] = "busy" \/ AfterBatch(p))
    BY <1>5 DEF DeferDrain, ScheduleRetry, AfterBatch, queueVars, history
  <2>2. Unannounced(p) = {}
    BY <2>1, NothingLeft, AllAnnounced
  <2>3. Started' = Started /\ hand' = hand
    BY <2>1, ScheduleSame, EmptyHand DEF Fresh, EndAndSchedule, Forget
  <2>4. ASSUME NEW q \in Procs \ {p} PROVE Unannounced(q)' = Unannounced(q)
    <3>1. PICK d \in Drains : /\ d = p \/ pc[d] \in {"idle", "queued"}
                              /\ pc' = [pc EXCEPT ![p] = Ended(p), ![d] = "queued"]
      BY <2>1 DEF EndAndSchedule
    <3>2. batch'[q] = batch[q] /\ cursor'[q] = cursor[q]
      BY <2>1, <1>0 DEF EndAndSchedule, Forget
    <3>3. CASE q = d
      <4>1. pc[q] \in {"idle", "queued"} /\ pc'[q] = "queued"
        BY <1>0, <3>1, <3>3
      <4> QED BY <4>1, NothingLeft, NothingLeftNext
    <3>4. CASE q # d
      BY <1>0, <3>1, <3>2, <3>4 DEF Unannounced
    <3> QED BY <3>3, <3>4
  <2> QED BY <1>2, <2>1, <2>2, <2>3, <2>4
\* Calls in the loop.
<1>6. ASSUME NEW p \in Procs, AcquireLock(p) PROVE TraceOK'
  <2>1. /\ UNCHANGED <<queue, hand, failed, announced>> /\ pc[p] = "lock"
        /\ pc' = [pc EXCEPT ![p] = "pop"] /\ batch' = [batch EXCEPT ![p] = <<>>]
        /\ cursor' = [cursor EXCEPT ![p] = 0]
    BY <1>6 DEF AcquireLock, Goto, queueVars, history
  <2>2. Unannounced(p) = {} /\ Started' = Started
    BY <2>1, NothingLeft, StartedSame DEF Fresh
  <2> QED BY <1>2, <1>p, <2>1, <2>2
<1>7. ASSUME NEW p \in Procs,
             PopItem(p) \/ LeaveLoop(p) \/ SaveItem(p) \/ SaveFails(p) \/ SaveTransient(p) \/ RequeueItem(p)
      PROVE  TraceOK'
  <2>1. /\ pc[p] \in {"pop", "save", "requeue"} /\ announced' = announced
        /\ \E w \in {"pop", "save", "requeue", "release"} : pc' = [pc EXCEPT ![p] = w]
        /\ \/ batch' = batch /\ ~SaveItem(p)
           \/ batch' = [batch EXCEPT ![p] = Append(@, hand[p])] /\ SaveItem(p)
        /\ cursor' = cursor \/ \E c : cursor' = [cursor EXCEPT ![p] = c]
    BY <1>7 DEF PopItem, LeaveLoop, SaveItem, SaveFails, SaveTransient, RequeueItem, PutBack, Goto,
       callVars, history
  <2>2. Unannounced(p) = Elems(batch[p]) /\ Unannounced(p)' = Elems(batch'[p])
    BY <1>0, <2>1, BatchKept
  <2>3. Started' = Started
    BY <2>1, StartedSame DEF Fresh
  <2>m. \A q \in Procs \ {p} : Unannounced(q)' = Unannounced(q)
    BY <2>1, <1>p
  <2>4. CASE SaveItem(p)
    <3>1. hand[p] \in Analyses /\ Live' = Live \ {hand[p]}
      BY <2>4, HandlesLive DEF Handles, SaveItem, PopItem
    <3>2. Elems(batch'[p]) = Elems(batch[p]) \cup {hand[p]}
      <4>1. batch[p] \in Seq(Analyses) /\ batch'[p] = Append(batch[p], hand[p])
        BY <2>1, <2>4, <1>0
      <4> QED BY <3>1, <4>1, ElemsAppend
    <3>3. Told \subseteq Told' \cup {hand[p]}
      BY <2>1, <2>4, <3>1 DEF SaveItem, Told
    <3>4. Told \subseteq Told' \cup Unannounced(p)' /\ Unannounced(p) \subseteq Unannounced(p)'
      BY <2>2, <3>2, <3>3
    <3> QED BY <1>0, <2>m, <2>3, <3>4, TraceMove
  <2>5. CASE ~SaveItem(p)
    <3>1. Told \subseteq Told'
      <4>1. CASE LeaveLoop(p)
        BY <4>1 DEF LeaveLoop, queueVars, callVars, history, Told, Live, InHand
      <4>2. CASE SaveFails(p)
        BY <4>2, HandlesLive DEF Handles, SaveFails, Told
      <4>3. CASE PopItem(p) \/ SaveTransient(p) \/ RequeueItem(p)
        BY <4>3, HandlesLive DEF Handles, PopItem, SaveTransient, RequeueItem, PutBack, history, Told
      <4> QED BY <1>7, <2>5, <4>1, <4>2, <4>3
    <3>2. batch' = batch
      BY <2>1, <2>5
    <3> QED BY <1>0, <2>m, <2>2, <2>3, <3>1, <3>2, TraceMove
  <2> QED BY <2>4, <2>5
<1>8. ASSUME NEW p \in Procs, ReleaseLock(p) \/ AfterSave(p) PROVE TraceOK'
  <2>1. /\ UNCHANGED <<queue, hand, batch, failed>> /\ announced \subseteq announced'
        /\ pc' = [pc EXCEPT ![p] = "after"] /\ pc[p] \in {"release", "after"}
        /\ \E c : cursor' = [cursor EXCEPT ![p] = c]
    BY <1>8, <1>0 DEF ReleaseLock, AfterSave, Goto, queueVars, history
  <2>2. Started' = Started /\ Told \subseteq Told'
    BY <2>1, StartedSame DEF Fresh, Told, Live, InHand
  <2>3. Unannounced(p) \subseteq Told' \cup Unannounced(p)'
    <3>1. DOMAIN batch[p] = 1 .. Len(batch[p]) /\ Len(batch[p]) \in Nat
      BY <1>0
    <3>2. CASE ReleaseLock(p)
      <4>1. cursor'[p] = 0 /\ batch' = batch /\ pc'[p] = "after"
        BY <1>0, <2>1, <3>2 DEF ReleaseLock
      <4> QED BY <3>1, <4>1 DEF Unannounced
    <3>3. CASE AfterSave(p)
      <4>1. /\ cursor'[p] = cursor[p] + 1 /\ batch' = batch /\ pc[p] = "after" /\ pc'[p] = "after"
            /\ batch[p][cursor[p] + 1] \in Told' /\ cursor[p] \in Nat
        BY <1>0, <2>1, <3>3 DEF AfterSave, Told
      <4>2. \A n \in DOMAIN batch[p] : n > cursor[p] => n = cursor[p] + 1 \/ n > cursor'[p]
        BY <3>1, <4>1
      <4> QED BY <4>1, <4>2 DEF Unannounced
    <3> QED BY <1>8, <3>2, <3>3
  <2> QED BY <1>0, <1>p, <2>1, <2>2, <2>3, TraceMove
<1>9. ASSUME NEW p \in Procs, Unwind(p) PROVE FALSE
  BY <1>0, <1>9 DEF Unwind, WatchOK
<1>10. ASSUME ExpireQueue PROVE FALSE
  BY <1>0, <1>10 DEF ExpireQueue, WatchOK, Awake, Critical, Procs
<1>11. CASE Tick \/ ExpireLock \/ UNCHANGED vars
  <2>1. UNCHANGED <<pc, batch, cursor, queue, hand, failed, announced>>
    BY <1>11 DEF Tick, ExpireLock, vars, queueVars, callVars, history
  <2>2. Started' = Started /\ Told' = Told /\ \A p \in Procs : Unannounced(p)' = Unannounced(p)
    BY <2>1 DEF Started, Fresh, Told, Live, InHand, Unannounced
  <2> QED BY <1>0, <2>2 DEF TraceOK
<1> QED BY <1>0, <1>1, <1>3, <1>4, <1>5, <1>6, <1>7, <1>8, <1>9, <1>10, <1>11, CalmSteps DEF Work

\* With no call cut short, an idle system has nothing pending: the queue is empty
\* and every analysis handed over was announced or reported as failed.
THEOREM QuietIsSettled == Spec => []QuietMeansSettled
<1>1. Init => WatchOK /\ TraceOK
  <2> SUFFICES ASSUME Init PROVE WatchOK /\ TraceOK
    OBVIOUS
  <2>1. queue = <<>> /\ ~lock /\ Started = {} /\ \A p \in Procs : pc[p] # "unwind"
    BY DEF Init, Started, Fresh, Procs
  <2> QED BY <2>1 DEF WatchOK, TraceOK
<1>2. Facts /\ WatchOK /\ TraceOK /\ [Next]_vars => WatchOK' /\ TraceOK'
  BY WatchStep, TraceStep DEF Facts
<1>3. Facts /\ WatchOK /\ TraceOK => QuietMeansSettled
  <2> SUFFICES ASSUME Facts, WatchOK, TraceOK, FaultFree,
                      \A p \in Procs : pc[p] \in {"new", "idle", "done"}
               PROVE  queue = <<>> /\ \A a \in Analyses : pc[a] = "done" => a \in announced \cup failed
    BY DEF QuietMeansSettled, FaultFree
  <2>1. queue = <<>>
    BY DEF WatchOK, Awake, Critical, Procs
  <2>2. InHand = {} /\ Elems(queue) = {}
    BY <2>1, ProcsAssumption DEF Facts, HandOK, InHand, Elems
  <2>3. \A p \in Procs : Unannounced(p) = {}
    BY NothingLeft
  <2>4. \A a \in Analyses : pc[a] = "done" => a \in announced \cup failed
    BY <2>2, <2>3 DEF TraceOK, Told, Live, Started, Fresh
  <2> QED BY <2>1, <2>4
<1> QED BY <1>1, <1>2, <1>3, FactsInvariant, PTL DEF Spec
=============================================================================
