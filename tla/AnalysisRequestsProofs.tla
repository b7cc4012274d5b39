------------------------- MODULE AnalysisRequestsProofs -------------------------
(***************************************************************************)
(* Proofs about AnalysisRequests for any number of jobs, automatic callers *)
(* and requests of the user.                                               *)
(*                                                                         *)
(* Neither bound is inductive.  What makes them so is to count, beside the *)
(* rows and the tasks that are there, the callers that have passed the     *)
(* check and not added theirs yet (Admitted, Cleared), and those that have *)
(* queued and not counted yet (Owing).                                     *)
(***************************************************************************)
EXTENDS AnalysisRequests, FiniteSetTheorems, TLAPS

Admitted == {c \in Autos : at[c] \in {"budget", "add"}}
Cleared == {c \in Autos : at[c] \in {"add", "queue"} /\ ~flag[c]}
Owing == {c \in Autos : at[c] = "bump"}

RowsBound ==
  Cardinality(AutoRows) + Cardinality(Admitted) <= PendingCap - 1 + Cardinality(Autos)
CounterBound == spent <= daily + leaks + Cardinality(Owing)
SpentBound ==
  spent + Cardinality(Cleared) <= DailyCap - 1 + Cardinality(Autos) + leaks

LEMMA CountType ==
  /\ IsFiniteSet(AutoRows) /\ Cardinality(AutoRows) \in Nat
  /\ IsFiniteSet(Admitted) /\ Cardinality(Admitted) \in Nat
  /\ IsFiniteSet(Cleared) /\ Cardinality(Cleared) \in Nat
  /\ IsFiniteSet(Owing) /\ Cardinality(Owing) \in Nat
  /\ Cardinality(Autos) \in Nat
<1>1. AutoRows \subseteq Jobs /\ Admitted \subseteq Autos
      /\ Cleared \subseteq Autos /\ Owing \subseteq Autos
  BY DEF AutoRows, Admitted, Cleared, Owing
<1> QED BY <1>1, CallersAssumption, JobsAssumption, FS_Subset, FS_CardinalityType

\* A subset counts no more, a set less an element one less.
LEMMA Smaller ==
  ASSUME NEW S, IsFiniteSet(S), NEW T, T \subseteq S
  PROVE  IsFiniteSet(T) /\ Cardinality(T) \in Nat /\ Cardinality(S) \in Nat
         /\ Cardinality(T) <= Cardinality(S)
  BY FS_Subset, FS_CardinalityType

LEMMA OneMore ==
  ASSUME NEW S, IsFiniteSet(S), NEW x, NEW T, T \subseteq S \cup {x}
  PROVE  IsFiniteSet(T) /\ Cardinality(T) \in Nat /\ Cardinality(S) \in Nat
         /\ Cardinality(T) <= Cardinality(S) + 1
<1>1. IsFiniteSet(S \cup {x})
      /\ Cardinality(S \cup {x}) = IF x \in S THEN Cardinality(S) ELSE Cardinality(S) + 1
  BY FS_AddElement
<1>2. Cardinality(S) \in Nat
  BY FS_CardinalityType
<1>3. IsFiniteSet(T) /\ Cardinality(T) \in Nat /\ Cardinality(T) <= Cardinality(S \cup {x})
  BY <1>1, Smaller
<1> QED BY <1>1, <1>2, <1>3

LEMMA OneLess ==
  ASSUME NEW S, IsFiniteSet(S), NEW x \in S, NEW T, T \subseteq S \ {x}
  PROVE  IsFiniteSet(T) /\ Cardinality(T) \in Nat /\ Cardinality(S) \in Nat
         /\ Cardinality(T) + 1 <= Cardinality(S)
<1>1. IsFiniteSet(S \ {x})
      /\ Cardinality(S \ {x}) = IF x \in S THEN Cardinality(S) - 1 ELSE Cardinality(S)
  BY FS_RemoveElement
<1>2. Cardinality(S) \in Nat
  BY FS_CardinalityType
<1>3. IsFiniteSet(T) /\ Cardinality(T) \in Nat /\ Cardinality(T) <= Cardinality(S \ {x})
  BY <1>1, Smaller
<1> QED BY <1>1, <1>2, <1>3
-----------------------------------------------------------------------------
LEMMA InitType == Init => TypeOK
  BY IdsAssumption DEF Init, TypeOK, TaskStates, Phases

\* The variables a group of steps writes keep their types.
LEMMA GotoType ==
  ASSUME TypeOK, NEW c \in Callers, at[c] # "idle",
         NEW where \in Phases, Goto(c, where) \/ Return(c)
  PROVE  /\ at' \in [Callers -> Phases] /\ job' \in [Callers -> Jobs \cup {"none"}]
         /\ flag' \in [Callers -> BOOLEAN]
         /\ \A d \in Callers : at'[d] # "idle" => job'[d] \in Jobs
  BY DEF TypeOK, Goto, Return, Phases

LEMMA ClearType ==
  ASSUME TypeOK, NEW j \in Jobs, Clear(j)
  PROVE  /\ rows' \in [Jobs -> {"none", "auto", "manual"}] /\ stray' \subseteq Jobs
         /\ leaks' \in Nat /\ faults' \in Nat
<1>1. CASE Remove(j) /\ UNCHANGED faultVars
  BY <1>1 DEF TypeOK, Remove, faultVars
<1>2. CASE Fault /\ Stray({j}) /\ UNCHANGED <<rows, leaks>>
  BY <1>2 DEF TypeOK, Stray, Pending, Fault
<1> QED BY <1>1, <1>2 DEF Clear

LEMMA QueueType ==
  ASSUME TypeOK, NEW j \in Jobs, NEW i \in Ids, Queue(j, i)
  PROVE  /\ task' \in [Jobs -> [Ids -> TaskStates]]
         /\ tries' \in [Jobs -> [Ids -> Nat]]
  BY DEF TypeOK, Queue, TaskStates

LEMMA TaskType ==
  ASSUME TypeOK, NEW j \in Jobs, NEW i \in Ids, NEW s, NEW to \in TaskStates,
         SetTask(j, i, s, to)
  PROVE  task' \in [Jobs -> [Ids -> TaskStates]]
  BY DEF TypeOK, SetTask

LEMMA AskType ==
  ASSUME TypeOK, NEW c \in Callers, NEW j \in Jobs, NEW where \in Phases, NEW force \in BOOLEAN,
         Ask(c, j, where, force)
  PROVE  TypeOK'
<1>1. /\ at' \in [Callers -> Phases] /\ job' \in [Callers -> Jobs \cup {"none"}]
      /\ flag' \in [Callers -> BOOLEAN]
      /\ \A d \in Callers : at'[d] # "idle" => job'[d] \in Jobs
  BY DEF TypeOK, Ask
<1> QED BY <1>1 DEF TypeOK, Ask, taskVars, budgetVars, faultVars

LEMMA CountKeepsType ==
  ASSUME TypeOK, NEW c \in Autos, NEW j \in Jobs, NEW free \in BOOLEAN, Count(c, j, free)
  PROVE  TypeOK'
<1>0. c \in Callers
  BY DEF Callers
<1>1. /\ at' \in [Callers -> Phases] /\ job' \in [Callers -> Jobs \cup {"none"}]
      /\ flag' \in [Callers -> BOOLEAN]
      /\ \A d \in Callers : at'[d] # "idle" => job'[d] \in Jobs
  BY <1>0 DEF TypeOK, Count, Phases
<1> QED BY <1>1 DEF TypeOK, Count, taskVars, budgetVars, faultVars

LEMMA CallerKeepsType ==
  ASSUME TypeOK, NEW c \in Callers, Advance(c) \/ Break(c)
  PROVE  TypeOK'
<1> USE DEF taskVars, callVars, budgetVars, faultVars
<1>0. /\ "add" \in Phases /\ "queue" \in Phases /\ "bump" \in Phases /\ "undo" \in Phases
      /\ Stable \in Ids
  BY IdsAssumption DEF Phases
<1>t. TypeOK
  OBVIOUS
<1>1. CASE ReadBudget(c)
  <2>1. at[c] # "idle" /\ (Goto(c, "add") \/ Return(c))
    BY <1>1 DEF ReadBudget
  <2> QED BY <1>1, <2>1, <1>0, GotoType DEF ReadBudget, TypeOK
<1>2. CASE AddRow(c)
  <2>1. at[c] # "idle" /\ Goto(c, "queue")
    BY <1>2 DEF AddRow
  <2>2. rows' \in [Jobs -> {"none", "auto", "manual"}]
    BY <1>2 DEF AddRow, Add, TypeOK
  <2> QED BY <1>2, <2>1, <2>2, <1>0, GotoType DEF AddRow, TypeOK
<1>3. CASE EnqueueAuto(c)
  <2>1. at[c] # "idle" /\ (Goto(c, "bump") \/ Return(c))
    BY <1>3 DEF EnqueueAuto
  <2>2. job[c] \in Jobs
    BY <2>1 DEF TypeOK
  <2>3. task' \in [Jobs -> [Ids -> TaskStates]] /\ tries' \in [Jobs -> [Ids -> Nat]]
    <3>1. Queue(job[c], Stable) \/ UNCHANGED taskVars
      BY <1>3 DEF EnqueueAuto
    <3> QED BY <3>1, <2>2, <1>0, QueueType DEF TypeOK
  <2>4. stray' \subseteq Jobs /\ spent' \in Nat
    BY <1>3, <2>2 DEF EnqueueAuto, Stray, Pending, TypeOK
  <2>5. UNCHANGED <<rows, saves, daily, days, faultVars>>
    BY <1>3 DEF EnqueueAuto
  <2> QED BY <2>1, <2>3, <2>4, <2>5, <1>0, GotoType DEF TypeOK
<1>4. CASE Bump(c)
  BY <1>4, GotoType, <1>0 DEF Bump, TypeOK
<1>5. CASE Undo(c)
  <2>1. at[c] # "idle" /\ Return(c) /\ Clear(job[c]) /\ job[c] \in Jobs
    BY <1>5 DEF Undo, TypeOK
  <2> QED BY <1>5, <2>1, <1>0, GotoType, ClearType DEF Undo, TypeOK
<1>6. CASE EnqueueManual(c)
  <2>1. at[c] # "idle" /\ Return(c) /\ job[c] \in Jobs
    BY <1>6 DEF EnqueueManual, TypeOK
  <2>2. task' \in [Jobs -> [Ids -> TaskStates]] /\ tries' \in [Jobs -> [Ids -> Nat]]
    <3>1. (\E i \in Ids : Queue(job[c], i)) \/ UNCHANGED taskVars
      BY <1>6, <1>0 DEF EnqueueManual
    <3> QED BY <3>1, <2>1, QueueType DEF TypeOK
  <2>3. stray' \subseteq Jobs
    <3>1. \E S : Stray(S)
      BY <1>6 DEF EnqueueManual
    <3> QED BY <3>1 DEF Stray, Pending, TypeOK
  <2>4. UNCHANGED <<rows, saves, budgetVars, faultVars>>
    BY <1>6 DEF EnqueueManual
  <2> QED BY <2>1, <2>2, <2>3, <2>4, <1>0, GotoType DEF TypeOK
<1>7. CASE BudgetUnread(c)
  BY <1>7, <1>0, GotoType DEF BudgetUnread, Fault, TypeOK
<1>8. CASE BumpLost(c)
  BY <1>8, <1>0, GotoType DEF BumpLost, Fault, TypeOK
<1>9. CASE QueuedUnheard(c)
  <2>1. at[c] # "idle" /\ Goto(c, "undo") /\ job[c] \in Jobs /\ Queue(job[c], Stable)
    BY <1>9 DEF QueuedUnheard, TypeOK
  <2>2. task' \in [Jobs -> [Ids -> TaskStates]] /\ tries' \in [Jobs -> [Ids -> Nat]]
    BY <2>1, <1>0, QueueType
  <2>3. spent' \in Nat /\ leaks' \in Nat /\ faults' \in Nat
    BY <1>9 DEF QueuedUnheard, Fault, TypeOK
  <2>4. UNCHANGED <<rows, saves, daily, days, stray>>
    BY <1>9 DEF QueuedUnheard
  <2> QED BY <2>1, <2>2, <2>3, <2>4, <1>0, GotoType DEF TypeOK
<1>10. CASE NoQueue(c)
  <2>1. at[c] # "idle" /\ (Goto(c, "undo") \/ Return(c)) /\ \E S : Stray(S)
    BY <1>10 DEF NoQueue
  <2>2. stray' \subseteq Jobs /\ faults' \in Nat
    BY <1>10, <2>1 DEF NoQueue, Fault, Stray, Pending, TypeOK
  <2>3. UNCHANGED <<rows, taskVars, saves, budgetVars, leaks>>
    BY <1>10 DEF NoQueue
  <2> QED BY <2>1, <2>2, <2>3, <1>0, GotoType DEF TypeOK
<1>11. CASE Die(c)
  <2>1. at[c] # "idle" /\ Return(c) /\ \E S : Stray(S)
    BY <1>11 DEF Die
  <2>2. stray' \subseteq Jobs /\ faults' \in Nat
    BY <1>11, <2>1 DEF Die, Fault, Stray, Pending, TypeOK
  <2>3. UNCHANGED <<rows, taskVars, saves, budgetVars, leaks>>
    BY <1>11 DEF Die
  <2> QED BY <2>1, <2>2, <2>3, <1>0, GotoType DEF TypeOK
<1> QED BY <1>1, <1>2, <1>3, <1>4, <1>5, <1>6, <1>7, <1>8, <1>9, <1>10, <1>11
        DEF Advance, Break

\* Each step of the task, and the rest.
LEMMA TaskKeepsType ==
  ASSUME TypeOK, NEW j \in Jobs, NEW i \in Ids, Run(j, i) \/ Cancel(j, i) \/ Kill(j, i)
  PROVE  TypeOK'
<1> USE DEF taskVars, callVars, budgetVars, faultVars
<1>1. task' \in [Jobs -> [Ids -> TaskStates]]
  <2>1. \E s \in TaskStates, to \in TaskStates : SetTask(j, i, s, to)
    BY DEF Run, Start, Exhaust, Score, NoResult, TryAgain, Finish, Cancel, Kill, TaskStates
  <2> QED BY <2>1, TaskType
<1>2. tries' \in [Jobs -> [Ids -> Nat]]
  <2>1. \/ UNCHANGED tries
        \/ tries' = [tries EXCEPT ![j][i] = @ + 1] \/ tries' = [tries EXCEPT ![j][i] = 0]
    BY DEF Run, Start, Exhaust, Score, NoResult, TryAgain, Finish, Cancel, Kill
  <2>2. tries[j] \in [Ids -> Nat] /\ tries[j][i] + 1 \in Nat
    BY DEF TypeOK
  <2>3. ASSUME NEW n \in Nat, tries' = [tries EXCEPT ![j][i] = n]
        PROVE  tries' \in [Jobs -> [Ids -> Nat]]
    BY <2>3 DEF TypeOK
  <2>4. CASE tries' = [tries EXCEPT ![j][i] = @ + 1]
    BY <2>2, <2>3, <2>4
  <2>5. CASE tries' = [tries EXCEPT ![j][i] = 0]
    BY <2>3, <2>5
  <2> QED BY <2>1, <2>4, <2>5 DEF TypeOK
<1>3. saves' \in [Jobs -> Nat]
  BY DEF Run, Start, Exhaust, Score, NoResult, TryAgain, Finish, Cancel, Kill, TypeOK
<1>4. /\ rows' \in [Jobs -> {"none", "auto", "manual"}] /\ stray' \subseteq Jobs
      /\ leaks' \in Nat /\ faults' \in Nat
  <2>1. CASE Clear(j)
    BY <2>1, ClearType
  <2>2. CASE ~Clear(j)
    BY <2>2 DEF Run, Start, Exhaust, Score, NoResult, TryAgain, Finish, Cancel, Kill,
                Stray, Pending, Fault, TypeOK
  <2> QED BY <2>1, <2>2
<1>5. UNCHANGED <<callVars, budgetVars>>
  BY DEF Run, Start, Exhaust, Score, NoResult, TryAgain, Finish, Cancel, Kill
<1> QED BY <1>1, <1>2, <1>3, <1>4, <1>5 DEF TypeOK

LEMMA JobKeepsType ==
  ASSUME TypeOK, NEW j \in Jobs, Saved(j) \/ SaveLost(j) \/ Heal(j)
  PROVE  TypeOK'
<1> USE DEF taskVars, callVars, budgetVars, faultVars
<1>1. saves' \in [Jobs -> Nat]
  BY DEF Saved, SaveLost, Heal, TypeOK
<1>2. /\ rows' \in [Jobs -> {"none", "auto", "manual"}] /\ stray' \subseteq Jobs
      /\ leaks' \in Nat /\ faults' \in Nat
  <2>1. CASE Clear(j)
    BY <2>1, ClearType
  <2>2. CASE ~Clear(j)
    BY <2>2 DEF Saved, SaveLost, Heal, Stray, Remove, Pending, Fault, TypeOK
  <2> QED BY <2>1, <2>2
<1>3. UNCHANGED <<taskVars, callVars, budgetVars>>
  BY DEF Saved, SaveLost, Heal
<1> QED BY <1>1, <1>2, <1>3 DEF TypeOK

\* Type correctness: every variable stays in its range, whatever fails.
THEOREM Typing == Spec => []TypeOK
<1>1. TypeOK /\ [Next]_vars => TypeOK'
  <2> SUFFICES ASSUME TypeOK, [Next]_vars PROVE TypeOK'
    OBVIOUS
  <2>1. CASE UNCHANGED vars
    BY <2>1 DEF vars, taskVars, callVars, budgetVars, faultVars, TypeOK
  <2>2. ASSUME NEW c \in Autos, NEW j \in Jobs, NEW free \in BOOLEAN, Count(c, j, free)
        PROVE  TypeOK'
    BY <2>2, CountKeepsType
  <2>3. ASSUME NEW c \in Manuals, NEW j \in Jobs,
               Match(c, j) \/ \E again \in BOOLEAN : Prepare(c, j, again)
        PROVE  TypeOK'
    <3>1. \E where \in Phases, force \in BOOLEAN : Ask(c, j, where, force)
      BY <2>3 DEF Match, Prepare, Phases
    <3> QED BY <3>1, AskType DEF Callers
  <2>4. ASSUME NEW c \in Callers, Advance(c) \/ Break(c) PROVE TypeOK'
    BY <2>4, CallerKeepsType
  <2>5. ASSUME NEW j \in Jobs, NEW i \in Ids, Run(j, i) \/ Cancel(j, i) \/ Kill(j, i)
        PROVE  TypeOK'
    BY <2>5, TaskKeepsType
  <2>6. ASSUME NEW j \in Jobs, Saved(j) \/ SaveLost(j) \/ Heal(j) PROVE TypeOK'
    BY <2>6, JobKeepsType
  <2>7. CASE NewDay
    BY <2>7 DEF NewDay, TypeOK, taskVars, callVars, faultVars
  <2> QED BY <2>1, <2>2, <2>3, <2>4, <2>5, <2>6, <2>7 DEF Next
<1> QED BY <1>1, InitType, PTL DEF Spec
-----------------------------------------------------------------------------
LEMMA InitBounds == Init => RowsBound /\ CounterBound /\ SpentBound
<1> SUFFICES ASSUME Init PROVE RowsBound /\ CounterBound /\ SpentBound
  OBVIOUS
<1>1. AutoRows = {} /\ Admitted = {} /\ Cleared = {} /\ Owing = {}
  BY DEF Init, AutoRows, Admitted, Cleared, Owing, Callers
<1>2. Cardinality({}) = 0
  BY FS_EmptySet
<1> QED BY <1>1, <1>2, CountType, CapsAssumption
        DEF Init, RowsBound, CounterBound, SpentBound

LEMMA RowsKept ==
  ASSUME RowsBound, AutoRows' \subseteq AutoRows, Admitted' \subseteq Admitted
  PROVE  RowsBound'
<1>1. Cardinality(AutoRows') <= Cardinality(AutoRows)
      /\ Cardinality(AutoRows') \in Nat /\ Cardinality(AutoRows) \in Nat
  BY CountType, Smaller
<1>2. Cardinality(Admitted') <= Cardinality(Admitted)
      /\ Cardinality(Admitted') \in Nat /\ Cardinality(Admitted) \in Nat
  BY CountType, Smaller
<1> QED BY <1>1, <1>2, CountType, CapsAssumption DEF RowsBound

\* Only AddRow makes automatic rows, only Count admits.
LEMMA RowsStep ==
  ASSUME TypeOK, RowsBound, [Next]_vars
  PROVE  RowsBound'
<1>1. ASSUME NEW c \in Autos, NEW j \in Jobs, NEW free \in BOOLEAN, Count(c, j, free)
      PROVE  RowsBound'
  <2>1. AutoRows' = AutoRows /\ AutoRows \subseteq Pending /\ IsFiniteSet(Pending)
    BY <1>1, JobsAssumption, FS_Subset DEF Count, AutoRows, Pending
  <2>2. Cardinality(AutoRows) <= Cardinality(Pending) /\ Cardinality(Pending) \in Nat
    BY <2>1, Smaller
  <2>3. Cardinality(Pending) < PendingCap
    BY <1>1 DEF Count
  <2>4. Cardinality(Admitted') <= Cardinality(Autos) /\ Cardinality(Admitted') \in Nat
    BY Smaller, CallersAssumption DEF Admitted
  <2> QED BY <2>1, <2>2, <2>3, <2>4, CountType, CapsAssumption DEF RowsBound
<1>2. ASSUME NEW c \in Autos, AddRow(c) PROVE RowsBound'
  <2>1. job[c] \in Jobs /\ c \in Callers
    BY <1>2 DEF AddRow, TypeOK, Callers
  <2>2. AutoRows' \subseteq AutoRows \cup {job[c]}
    BY <1>2, <2>1 DEF AddRow, Add, AutoRows, TypeOK
  <2>3. c \in Admitted /\ Admitted' \subseteq Admitted \ {c}
    BY <1>2, <2>1 DEF AddRow, Goto, Admitted, TypeOK, Callers
  <2>4. /\ Cardinality(AutoRows') <= Cardinality(AutoRows) + 1
        /\ Cardinality(AutoRows') \in Nat
    BY <2>2, CountType, OneMore
  <2>5. Cardinality(Admitted') + 1 <= Cardinality(Admitted) /\ Cardinality(Admitted') \in Nat
    BY <2>3, CountType, OneLess
  <2> QED BY <2>4, <2>5, CountType, CapsAssumption DEF RowsBound
<1>3. ASSUME NEW c \in Callers, Advance(c) \/ Break(c), ~(c \in Autos /\ AddRow(c))
      PROVE  RowsBound'
  <2>1. AutoRows' \subseteq AutoRows
    <3>1. CASE AddRow(c)
      BY <1>3, <3>1 DEF AddRow, Add, AutoRows, TypeOK, Callers
    <3>2. CASE Clear(job[c])
      BY <3>2 DEF Clear, Remove, AutoRows, TypeOK
    <3>3. CASE ~AddRow(c) /\ ~Clear(job[c])
      BY <1>3, <3>3 DEF Advance, Break, ReadBudget, EnqueueAuto, Bump, Undo, EnqueueManual,
         BudgetUnread, BumpLost, QueuedUnheard, NoQueue, Die, AutoRows
    <3> QED BY <3>1, <3>2, <3>3
  <2>2. at[c] \in {"budget"} \/ (at'[c] \notin {"budget", "add"})
    BY <1>3 DEF Advance, Break, ReadBudget, AddRow, EnqueueAuto, Bump, Undo, EnqueueManual,
       BudgetUnread, BumpLost, QueuedUnheard, NoQueue, Die, Goto, Return, TypeOK
  <2>3. \A d \in Callers \ {c} : at'[d] = at[d]
    BY <1>3 DEF Advance, Break, ReadBudget, AddRow, EnqueueAuto, Bump, Undo, EnqueueManual,
       BudgetUnread, BumpLost, QueuedUnheard, NoQueue, Die, Goto, Return, TypeOK
  <2>4. Admitted' \subseteq Admitted
    BY <2>2, <2>3 DEF Admitted, Callers
  <2> QED BY <2>1, <2>4, RowsKept
<1>4. ASSUME NEW c \in Manuals, NEW j \in Jobs,
             Match(c, j) \/ \E again \in BOOLEAN : Prepare(c, j, again)
      PROVE  RowsBound'
  <2>1. UNCHANGED rows /\ \A d \in Callers \ {c} : at'[d] = at[d]
    BY <1>4 DEF Match, Prepare, Ask, TypeOK
  <2>2. AutoRows' \subseteq AutoRows /\ Admitted' \subseteq Admitted
    BY <2>1, CallersAssumption DEF AutoRows, Admitted, Callers
  <2> QED BY <2>2, RowsKept
<1>5. ASSUME NEW j \in Jobs,
             \/ Saved(j) \/ SaveLost(j) \/ Heal(j) \/ NewDay \/ UNCHANGED vars
             \/ \E i \in Ids : Run(j, i) \/ Cancel(j, i) \/ Kill(j, i)
      PROVE  RowsBound'
  <2>1. at' = at
    BY <1>5 DEF Saved, SaveLost, Heal, NewDay, Run, Start, Exhaust, Score, NoResult,
       TryAgain, Finish, Cancel, Kill, callVars, vars
  <2>2. CASE Clear(j) \/ Remove(j)
    BY <2>1, <2>2, RowsKept DEF Clear, Remove, AutoRows, Admitted, TypeOK
  <2>3. CASE ~Clear(j) /\ ~Remove(j)
    <3>1. UNCHANGED rows
      BY <1>5, <2>3 DEF Saved, SaveLost, Heal, NewDay, Run, Start, Exhaust, Score, NoResult,
         TryAgain, Finish, Cancel, Kill, vars
    <3> QED BY <2>1, <3>1, RowsKept DEF AutoRows, Admitted
  <2> QED BY <2>2, <2>3
<1>6. CASE NewDay \/ UNCHANGED vars
  BY <1>6, RowsKept DEF NewDay, callVars, vars, AutoRows, Admitted
<1> QED BY <1>1, <1>2, <1>3, <1>4, <1>5, <1>6 DEF Next

\* Any number of automatic callers passes the pending cap by at most one row
\* for each of them but one.
THEOREM PendingBounded == Spec => []PendingOvershoot
<1>1. RowsBound => PendingOvershoot
  BY CountType, CapsAssumption DEF RowsBound, PendingOvershoot
<1>2. TypeOK /\ RowsBound /\ [Next]_vars => RowsBound'
  BY RowsStep
<1> QED BY <1>1, <1>2, InitBounds, Typing, PTL DEF Spec
-----------------------------------------------------------------------------
LEMMA Apart ==
  ASSUME NEW S \in SUBSET Autos, NEW T \in SUBSET Autos, S \cap T = {}
  PROVE  /\ Cardinality(S) \in Nat /\ Cardinality(T) \in Nat
         /\ Cardinality(S) + Cardinality(T) <= Cardinality(Autos)
<1>1. IsFiniteSet(S) /\ IsFiniteSet(T) /\ S \cup T \subseteq Autos
  BY CallersAssumption, FS_Subset
<1>2. Cardinality(S \cup T) = Cardinality(S) + Cardinality(T) - Cardinality(S \cap T)
  BY <1>1, FS_Union
<1>3. Cardinality(S \cap T) = 0
  BY FS_EmptySet
<1>4. Cardinality(S \cup T) <= Cardinality(Autos)
  BY <1>1, CallersAssumption, Smaller
<1>5. Cardinality(S) \in Nat /\ Cardinality(T) \in Nat
  BY <1>1, FS_CardinalityType
<1> QED BY <1>2, <1>3, <1>4, <1>5

\* What neither spends, counts nor clears keeps both bounds.
LEMMA BoundsKept ==
  ASSUME TypeOK, CounterBound, SpentBound, UNCHANGED <<spent, daily, leaks>>,
         Owing' = Owing, Cleared' \subseteq Cleared
  PROVE  CounterBound' /\ SpentBound'
<1>1. Cardinality(Cleared') <= Cardinality(Cleared) /\ Cardinality(Cleared') \in Nat
  BY CountType, Smaller
<1>2. Cardinality(Owing') = Cardinality(Owing)
  OBVIOUS
<1> QED BY <1>1, <1>2, CountType, CapsAssumption DEF CounterBound, SpentBound, TypeOK

\* How the callers move in a step that Goto or Return takes.
LEMMA MoveOne ==
  ASSUME TypeOK, NEW c \in Callers, NEW where, Goto(c, where) \/ Return(c)
  PROVE  /\ \A d \in Callers \ {c} : at'[d] = at[d] /\ flag'[d] = flag[d]
         /\ Goto(c, where) => at'[c] = where /\ flag'[c] = flag[c]
         /\ Return(c) => at'[c] = "idle"
  BY DEF TypeOK, Goto, Return

LEMMA EnterStep ==
  ASSUME TypeOK, CounterBound, SpentBound, NEW c \in Callers, ReadBudget(c)
  PROVE  CounterBound' /\ SpentBound'
<1>1. UNCHANGED <<spent, daily, leaks>> /\ at[c] = "budget" /\ (Goto(c, "add") \/ Return(c))
  BY DEF ReadBudget, budgetVars, faultVars
<1>2. Owing' = Owing
  BY <1>1, MoveOne DEF Owing, Callers
<1>3. CASE daily < DailyCap
  <2>1. Cardinality(Cleared') \in Nat
        /\ Cardinality(Cleared') + Cardinality(Owing) <= Cardinality(Autos)
    <3>1. Cleared' \cap Owing' = {}
      BY DEF Cleared, Owing
    <3>2. Cleared' \in SUBSET Autos /\ Owing \in SUBSET Autos
      BY DEF Cleared, Owing
    <3> QED BY <1>2, <3>1, <3>2, Apart
  <2>2. Cardinality(Owing') = Cardinality(Owing)
    BY <1>2
  <2> QED BY <1>1, <1>3, <2>1, <2>2, CountType, CapsAssumption
          DEF CounterBound, SpentBound, TypeOK
<1>4. CASE ~(daily < DailyCap)
  <2>1. Return(c)
    BY <1>4 DEF ReadBudget
  <2>2. Cleared' \subseteq Cleared
    BY <2>1, MoveOne DEF Cleared, Callers
  <2> QED BY <1>1, <1>2, <2>2, BoundsKept
<1> QED BY <1>3, <1>4

LEMMA UnreadStep ==
  ASSUME TypeOK, CounterBound, SpentBound, NEW c \in Callers, BudgetUnread(c)
  PROVE  CounterBound' /\ SpentBound'
<1>1. at[c] = "budget" /\ Goto(c, "add") /\ leaks' = leaks + 1 /\ UNCHANGED <<spent, daily>>
  BY DEF BudgetUnread, budgetVars
<1>2. Owing' = Owing /\ Cleared' \subseteq Cleared \cup {c}
  BY <1>1, MoveOne DEF Owing, Cleared, Callers
<1>3. Cardinality(Cleared') <= Cardinality(Cleared) + 1 /\ Cardinality(Cleared') \in Nat
  BY <1>2, CountType, OneMore
<1>4. Cardinality(Owing') = Cardinality(Owing)
  BY <1>2
<1> QED BY <1>1, <1>3, <1>4, CountType, CapsAssumption DEF CounterBound, SpentBound, TypeOK

\* A paid task: one more spent, one fewer cleared, and owed or hidden.
LEMMA PayStep ==
  ASSUME TypeOK, CounterBound, SpentBound, NEW c \in Autos, NEW where \in {"bump", "undo"},
         at[c] = "queue", ~flag[c], Goto(c, where),
         spent' = spent + 1, daily' = daily,
         leaks' = IF where = "bump" THEN leaks ELSE leaks + 1
  PROVE  CounterBound' /\ SpentBound'
<1>0. c \in Callers
  BY DEF Callers
<1>1. c \in Cleared /\ Cleared' \subseteq Cleared \ {c} /\ c \notin Owing
  BY <1>0, MoveOne DEF Cleared, Owing, Callers
<1>2. Cardinality(Cleared') + 1 <= Cardinality(Cleared) /\ Cardinality(Cleared') \in Nat
  BY <1>1, CountType, OneLess
<1>3. CASE where = "bump"
  <2>1. c \in Owing' /\ Owing \subseteq Owing' \ {c} /\ IsFiniteSet(Owing')
    BY <1>0, <1>1, <1>3, MoveOne, CallersAssumption, FS_Subset DEF Owing, Callers
  <2>2. Cardinality(Owing) + 1 <= Cardinality(Owing') /\ Cardinality(Owing') \in Nat
    BY <2>1, OneLess
  <2> QED BY <1>2, <1>3, <2>2, CountType, CapsAssumption DEF CounterBound, SpentBound, TypeOK
<1>4. CASE where = "undo"
  <2>1. Owing' = Owing
    BY <1>0, <1>1, <1>4, MoveOne DEF Owing, Callers
  <2>2. Cardinality(Owing') = Cardinality(Owing)
    BY <2>1
  <2> QED BY <1>2, <1>4, <2>2, CountType, CapsAssumption DEF CounterBound, SpentBound, TypeOK
<1> QED BY <1>3, <1>4

LEMMA CountedStep ==
  ASSUME TypeOK, CounterBound, SpentBound, NEW c \in Callers, Bump(c) \/ BumpLost(c)
  PROVE  CounterBound' /\ SpentBound'
<1>1. at[c] = "bump" /\ Return(c) /\ UNCHANGED spent
      /\ \/ daily' = daily + 1 /\ leaks' = leaks
         \/ daily' = daily /\ leaks' = leaks + 1
  BY DEF Bump, BumpLost, faultVars, budgetVars
<1>2. Owing \subseteq Owing' \cup {c} /\ IsFiniteSet(Owing') /\ Cleared' \subseteq Cleared
  BY <1>1, MoveOne, CallersAssumption, FS_Subset DEF Owing, Cleared, Callers
<1>3. Cardinality(Owing) <= Cardinality(Owing') + 1 /\ Cardinality(Owing') \in Nat
  BY <1>2, OneMore
<1>4. Cardinality(Cleared') <= Cardinality(Cleared) /\ Cardinality(Cleared') \in Nat
  BY <1>2, CountType, Smaller
<1> QED BY <1>1, <1>3, <1>4, CountType, CapsAssumption DEF CounterBound, SpentBound, TypeOK

LEMMA SpentStep ==
  ASSUME TypeOK, CounterBound, SpentBound, [Next]_vars
  PROVE  CounterBound' /\ SpentBound'
<1> USE DEF budgetVars, faultVars
<1>1. ASSUME NEW c \in Callers, ReadBudget(c) \/ BudgetUnread(c) \/ Bump(c) \/ BumpLost(c)
      PROVE  CounterBound' /\ SpentBound'
  BY <1>1, EnterStep, UnreadStep, CountedStep
<1>2. ASSUME NEW c \in Callers, EnqueueAuto(c), spent' # spent
      PROVE  CounterBound' /\ SpentBound'
  <2>1. /\ c \in Autos /\ at[c] = "queue" /\ ~flag[c] /\ Goto(c, "bump")
        /\ spent' = spent + 1 /\ daily' = daily /\ leaks' = leaks
    BY <1>2 DEF EnqueueAuto
  <2> QED BY <2>1, PayStep
<1>3. ASSUME NEW c \in Callers, QueuedUnheard(c), ~flag[c]
      PROVE  CounterBound' /\ SpentBound'
  <2>1. /\ c \in Autos /\ at[c] = "queue" /\ Goto(c, "undo")
        /\ spent' = spent + 1 /\ daily' = daily /\ leaks' = leaks + 1
    BY <1>3 DEF QueuedUnheard
  <2> QED BY <2>1, <1>3, PayStep
<1>4. ASSUME NEW c \in Callers,
             \/ EnqueueAuto(c) /\ spent' = spent
             \/ QueuedUnheard(c) /\ flag[c]
             \/ AddRow(c) \/ Undo(c) \/ EnqueueManual(c) \/ NoQueue(c) \/ Die(c)
      PROVE  CounterBound' /\ SpentBound'
  <2>1. UNCHANGED <<spent, daily, leaks>> \/ Clear(job[c])
    BY <1>4 DEF EnqueueAuto, QueuedUnheard, AddRow, Undo, EnqueueManual, NoQueue, Die
  <2>2. UNCHANGED <<spent, daily, leaks>>
    BY <1>4, <2>1 DEF EnqueueAuto, QueuedUnheard, AddRow, Undo, EnqueueManual, NoQueue, Die, Clear
  <2>3. /\ at[c] # "bump"
        /\ \/ Return(c) \/ Goto(c, "undo")
           \/ at[c] = "add" /\ Goto(c, "queue")
    <3>1. CASE EnqueueAuto(c) /\ spent' = spent
      BY <3>1 DEF EnqueueAuto, TypeOK
    <3>2. CASE QueuedUnheard(c) /\ flag[c]
      BY <3>2 DEF QueuedUnheard
    <3>3. CASE AddRow(c) \/ Undo(c) \/ EnqueueManual(c) \/ NoQueue(c) \/ Die(c)
      BY <3>3 DEF AddRow, Undo, EnqueueManual, NoQueue, Die
    <3> QED BY <1>4, <3>1, <3>2, <3>3
  <2>4. /\ \A d \in Callers \ {c} : at'[d] = at[d] /\ flag'[d] = flag[d]
        /\ \/ at'[c] \in {"idle", "undo"}
           \/ at[c] = "add" /\ at'[c] = "queue" /\ flag'[c] = flag[c]
    <3>1. CASE Return(c)
      BY <3>1, MoveOne
    <3>2. CASE Goto(c, "undo")
      BY <3>2, MoveOne
    <3>3. CASE at[c] = "add" /\ Goto(c, "queue")
      BY <3>3, MoveOne
    <3> QED BY <2>3, <3>1, <3>2, <3>3
  <2>5. Owing' = Owing /\ Cleared' \subseteq Cleared
    <3>1. at'[c] # "bump" /\ (c \in Cleared' => at[c] = "add" /\ flag'[c] = flag[c])
      BY <2>4 DEF Cleared
    <3>2. \A d \in Autos \ {c} : at'[d] = at[d] /\ flag'[d] = flag[d]
      BY <2>4 DEF Callers
    <3>3. Owing' = Owing
      BY <2>3, <3>1, <3>2 DEF Owing
    <3>4. ASSUME NEW d \in Cleared' PROVE d \in Cleared
      <4>1. d \in Autos /\ at'[d] \in {"add", "queue"} /\ ~flag'[d]
        BY <3>4 DEF Cleared
      <4>2. CASE d = c
        BY <3>1, <3>4, <4>1, <4>2 DEF Cleared
      <4>3. CASE d # c
        BY <3>2, <4>1, <4>3 DEF Cleared
      <4> QED BY <4>2, <4>3
    <3> QED BY <3>3, <3>4
  <2> QED BY <2>2, <2>5, BoundsKept
<1>5. ASSUME NEW c \in Autos, NEW j \in Jobs, NEW free \in BOOLEAN, Count(c, j, free)
      PROVE  CounterBound' /\ SpentBound'
  <2>1. UNCHANGED <<spent, daily, leaks>> /\ c \in Callers
    BY <1>5 DEF Count, Callers
  <2>2. /\ \A d \in Callers \ {c} : at'[d] = at[d] /\ flag'[d] = flag[d]
        /\ at[c] = "idle" /\ (at'[c] = "budget" \/ (at'[c] = "add" /\ flag'[c]))
    <3>1. /\ at[c] = "idle" /\ at' = [at EXCEPT ![c] = IF free THEN "add" ELSE "budget"]
          /\ flag' = [flag EXCEPT ![c] = free]
      BY <1>5 DEF Count
    <3>2. at'[c] = (IF free THEN "add" ELSE "budget") /\ flag'[c] = free
      BY <2>1, <3>1 DEF TypeOK
    <3> QED BY <2>1, <3>1, <3>2 DEF TypeOK
  <2>3. Owing' = Owing
    BY <2>2 DEF Owing, Callers
  <2>4. ASSUME NEW d \in Cleared' PROVE d \in Cleared
    <3>1. d \in Autos /\ at'[d] \in {"add", "queue"} /\ ~flag'[d]
      BY <2>4 DEF Cleared
    <3>2. d # c
      BY <2>2, <3>1
    <3> QED BY <2>2, <3>1, <3>2 DEF Cleared, Callers
  <2> QED BY <2>1, <2>3, <2>4, BoundsKept
<1>6. ASSUME NEW c \in Manuals, NEW j \in Jobs,
             Match(c, j) \/ \E again \in BOOLEAN : Prepare(c, j, again)
      PROVE  CounterBound' /\ SpentBound'
  <2>1. /\ UNCHANGED <<spent, daily, leaks>>
        /\ \A d \in Callers \ {c} : at'[d] = at[d] /\ flag'[d] = flag[d]
    BY <1>6 DEF Match, Prepare, Ask, TypeOK
  <2>2. Owing' = Owing /\ Cleared' \subseteq Cleared
    BY <2>1, CallersAssumption DEF Owing, Cleared, Callers
  <2> QED BY <2>1, <2>2, BoundsKept
<1>7. ASSUME NEW j \in Jobs,
             \/ Saved(j) \/ SaveLost(j) \/ Heal(j)
             \/ \E i \in Ids : Run(j, i) \/ Cancel(j, i) \/ Kill(j, i)
      PROVE  CounterBound' /\ SpentBound'
  <2>1. UNCHANGED callVars
    BY <1>7 DEF Saved, SaveLost, Heal, Run, Start, Exhaust, Score, NoResult, TryAgain,
       Finish, Cancel, Kill
  <2>2. UNCHANGED <<spent, daily>>
    BY <1>7 DEF Saved, SaveLost, Heal, Run, Start, Exhaust, Score, NoResult, TryAgain,
       Finish, Cancel, Kill
  <2>3. UNCHANGED leaks
    <3>1. CASE Clear(j)
      BY <3>1 DEF Clear
    <3>2. CASE ~Clear(j)
      BY <1>7, <3>2 DEF Saved, SaveLost, Heal, Run, Start, Exhaust, Score, NoResult, TryAgain,
         Finish, Cancel, Kill
    <3> QED BY <3>1, <3>2
  <2> QED BY <2>1, <2>2, <2>3, BoundsKept DEF callVars, Owing, Cleared
<1>8. CASE UNCHANGED vars
  BY <1>8, BoundsKept DEF vars, callVars, Owing, Cleared
<1>9. CASE NewDay
  <2>1. spent' = 0 /\ daily' = 0 /\ Owing' = Owing /\ Cleared' = Cleared /\ leaks' = leaks
    BY <1>9 DEF NewDay, callVars, Owing, Cleared
  <2>2. Cardinality(Cleared) <= Cardinality(Autos)
    BY Smaller, CallersAssumption DEF Cleared
  <2>3. Cardinality(Owing') = Cardinality(Owing) /\ Cardinality(Cleared') = Cardinality(Cleared)
    BY <2>1
  <2> QED BY <2>1, <2>2, <2>3, CountType, CapsAssumption DEF CounterBound, SpentBound, TypeOK
<1> QED BY <1>1, <1>2, <1>3, <1>4, <1>5, <1>6, <1>7, <1>8, <1>9 DEF Next, Advance, Break

\* Any number of automatic callers, any order of their reads, queueings and
\* counts, over midnight too: the paid tasks of a day pass the daily cap by at
\* most one for each caller but one and one for each fault that hid spending.
THEOREM SpendingBounded == Spec => []BudgetOvershoot
<1>1. SpentBound => BudgetOvershoot \/ ~TypeOK
  BY CountType, CapsAssumption DEF SpentBound, BudgetOvershoot, TypeOK
<1>2. TypeOK /\ (CounterBound /\ SpentBound) /\ [Next]_vars => (CounterBound /\ SpentBound)'
  BY SpentStep
<1> QED BY <1>1, <1>2, InitBounds, Typing, PTL DEF Spec
=============================================================================
