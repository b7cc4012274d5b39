--------------------------- MODULE ExtractChainProofs ---------------------------
(***************************************************************************)
(* Proofs about ExtractChain for any users, tries and faults.              *)
(*                                                                         *)
(* Whether row and job settle depends on what the stage of the extract     *)
(* task, or a request on its way, still has to do to them; Settling says   *)
(* what that is for each stage.  That the follow-up of a text is carried   *)
(* rests on a held task id having an owner (Owned).                        *)
(***************************************************************************)
EXTENDS ExtractChain, TLAPS

Working == {"queued", "running", "chain", "then", "fanout"}

Settling ==
  \/ adrift
  \/ /\ \/ status \notin Open
        \/ task["extract"] \in {"queued", "running"}
        \/ \E c \in Callers : at[c] = "enqueue"
     /\ task["extract"] \in Working => jobStatus = "active"
     /\ task["extract"] = "hide" => status = "failed"
     /\ task["extract"] # "yield"
     /\ jobStatus = "extraction_failed" => status = "failed"

Owned ==
  /\ task["extract"] # "none" => for["extract"] \in Callers
  /\ task["extract"] \in {"hide", "yield"} => for["extract"] \in Users

\* The steps, one formula each, that a request and a task can take.
Requests == \/ \E u \in Users : Join(u) \/ Retry(u) \/ Analyze(u)
            \/ Rescrape \/ PasteText
            \/ \E c \in Callers : Enqueue(c) \/ NoQueue(c)
Tasks == PlainEncode \/ (\E t \in TaskIds : Step(t) \/ Kill(t))
         \/ Raise \/ TimeOut \/ ShutDown \/ EncodeTimeOut

LEMMA NextCases == Next => Requests \/ Tasks
  BY DEF Next, Requests, Tasks
-----------------------------------------------------------------------------
LEMMA InitType == Init => TypeOK
<1> SUFFICES ASSUME Init PROVE TypeOK
  OBVIOUS
<1>1. at \in [Callers -> {"idle", "enqueue"}]
  BY DEF Init
<1>2. /\ task \in [TaskIds -> Stages] /\ for \in [TaskIds -> Callers \cup {Nobody}]
      /\ tries \in [TaskIds -> Nat] /\ task["extract"] = "none"
  BY DEF Init, TaskIds, Stages
<1> QED BY <1>1, <1>2 DEF Init, TypeOK

LEMMA RequestsType == TypeOK /\ Requests => TypeOK'
<1> SUFFICES ASSUME TypeOK, Requests PROVE TypeOK'
  OBVIOUS
<1>1. ASSUME NEW u \in Users, Join(u) \/ Retry(u) \/ Analyze(u) PROVE TypeOK'
  <2>1. CASE Join(u)
    BY <2>1 DEF Join, Goto, rowVars, taskVars, oweVars, TypeOK
  <2>2. CASE Retry(u)
    BY <2>2 DEF Retry, Refresh, StillAdrift, Goto, taskVars, oweVars, TypeOK
  <2>3. CASE Analyze(u)
    BY <2>3 DEF Analyze, rowVars, taskVars, TypeOK
  <2> QED BY <1>1, <2>1, <2>2, <2>3
<1>2. CASE Rescrape
  BY <1>2 DEF Rescrape, Refresh, StillAdrift, Goto, Callers, taskVars, oweVars, TypeOK
<1>3. CASE PasteText
  BY <1>3 DEF PasteText, StillAdrift, taskVars, oweVars, TypeOK
<1>4. ASSUME NEW c \in Callers, EnqueueTaken(c) PROVE TypeOK'
  <2>1. task' \in [TaskIds -> Stages]
    BY <1>4 DEF EnqueueTaken, Stage, Stages, TypeOK
  <2>2. for' \in [TaskIds -> Callers \cup {Nobody}]
    BY <1>4 DEF EnqueueTaken, TypeOK
  <2>3. at' \in [Callers -> {"idle", "enqueue"}] /\ want' \subseteq Users
    BY <1>4 DEF EnqueueTaken, Told, Goto, TypeOK
  <2>4. adrift' \in BOOLEAN
    BY <1>4 DEF EnqueueTaken
  <2> QED BY <1>4, <2>1, <2>2, <2>3, <2>4 DEF EnqueueTaken, TypeOK
<1>5. ASSUME NEW c \in Callers, EnqueueJoined(c) PROVE TypeOK'
  BY <1>5 DEF EnqueueJoined, Told, Goto, taskVars, TypeOK
<1>6. ASSUME NEW c \in Callers, NoQueue(c) PROVE TypeOK'
  BY <1>6 DEF NoQueue, Fault, Goto, taskVars, oweVars, TypeOK
<1> QED BY <1>1, <1>2, <1>3, <1>4, <1>5, <1>6 DEF Requests, Enqueue

LEMMA LoseType ==
  ASSUME TypeOK, NEW t \in TaskIds, LoseTask(t)
  PROVE  want' \subseteq Users /\ due' \in BOOLEAN /\ adrift' \in BOOLEAN
  BY DEF LoseTask, Forget, EncodeCarries, ExtractCarries, TypeOK

LEMMA StepType ==
  ASSUME TypeOK, Owned, NEW t \in TaskIds, Step(t)
  PROVE  TypeOK'
<1>1. CASE Start(t)
  <2>1. task' \in [TaskIds -> Stages] /\ tries' \in [TaskIds -> Nat]
    BY <1>1 DEF Start, Stage, Stages, TypeOK
  <2>2. status' \in {"pending", "processing", "extracted", "failed"}
    BY <1>1 DEF Start, TypeOK
  <2> QED BY <1>1, <2>1, <2>2 DEF Start, oweVars, TypeOK
<1>2. CASE Exhaust(t)
  <2>1. /\ task' \in [TaskIds -> Stages] /\ tries' \in [TaskIds -> Nat]
        /\ for' \in [TaskIds -> Callers \cup {Nobody}]
    BY <1>2 DEF Exhaust, Stage, Stages, TypeOK
  <2>2. want' \subseteq Users /\ due' \in BOOLEAN /\ adrift' \in BOOLEAN
    BY <1>2, LoseType DEF Exhaust
  <2> QED BY <1>2, <2>1, <2>2 DEF Exhaust, TypeOK
<1>3. CASE Finish(t)
  <2>1. /\ task' \in [TaskIds -> Stages] /\ tries' \in [TaskIds -> Nat]
        /\ for' \in [TaskIds -> Callers \cup {Nobody}]
    BY <1>3 DEF Finish, Stage, Stages, TypeOK
  <2> QED BY <1>3, <2>1 DEF Finish, rowVars, oweVars, TypeOK
<1>4. CASE RunAnalysis(t)
  BY <1>4 DEF RunAnalysis, Stage, Stages, rowVars, TypeOK
<1>5. CASE Fanout(t)
  BY <1>5 DEF Fanout, Stage, Stages, rowVars, TypeOK
<1>6. CASE Extracted
  BY <1>6 DEF Extracted, Stage, Stages, TaskIds, TypeOK
<1>7. CASE FailFetch
  <2>1. task' \in [TaskIds -> Stages]
    BY <1>7 DEF FailFetch, HideOrEnd, Stage, Stages, TypeOK
  <2>2. due' \in BOOLEAN
    BY <1>7 DEF FailFetch
  <2> QED BY <1>7, <2>1, <2>2 DEF FailFetch, TypeOK
<1>8. CASE Hide
  <2>1. task' \in [TaskIds -> Stages]
    BY <1>8 DEF Hide, Stage, Stages, TypeOK
  <2>2. for["extract"] \in Users
    BY <1>8 DEF Hide, Stage, Owned
  <2> QED BY <1>8, <2>1, <2>2 DEF Hide, TypeOK
<1>9. CASE Chain
  BY <1>9 DEF Chain, Stage, Stages, TaskIds, rowVars, oweVars, TypeOK
<1>10. CASE Encode
  <2>1. task' \in [TaskIds -> Stages]
    BY <1>10 DEF Encode, Stage, Stages, TypeOK
  <2> QED BY <1>10, <2>1 DEF Encode, rowVars, oweVars, TypeOK
<1> QED BY <1>1, <1>2, <1>3, <1>4, <1>5, <1>6, <1>7, <1>8, <1>9, <1>10 DEF Step

LEMMA TasksType == TypeOK /\ Owned /\ Tasks => TypeOK'
<1> SUFFICES ASSUME TypeOK, Owned, Tasks PROVE TypeOK'
  OBVIOUS
<1>1. CASE PlainEncode
  BY <1>1 DEF PlainEncode, Stage, Stages, rowVars, oweVars, TypeOK
<1>2. ASSUME NEW t \in TaskIds, Kill(t) PROVE TypeOK'
  BY <1>2 DEF Kill, Fault, Stages, oweVars, TypeOK
<1>3. CASE Raise
  <2>1. task' \in [TaskIds -> Stages]
    BY <1>3 DEF Raise, HideOrEnd, Stages, TypeOK
  <2>2. due' \in BOOLEAN
    BY <1>3 DEF Raise
  <2> QED BY <1>3, <2>1, <2>2 DEF Raise, Fault, TypeOK
<1>4. CASE TimeOut
  <2>1. task' \in [TaskIds -> Stages]
    BY <1>4 DEF TimeOut, HideOrEnd, Stages, TypeOK
  <2>2. due' \in BOOLEAN /\ adrift' \in BOOLEAN
    BY <1>4 DEF TimeOut
  <2> QED BY <1>4, <2>1, <2>2 DEF TimeOut, TypeOK
<1>5. CASE ShutDown
  <2>1. task' \in [TaskIds -> Stages]
    BY <1>5 DEF ShutDown, Stages, TypeOK
  <2> QED BY <1>5, <2>1 DEF ShutDown, Fault, oweVars, TypeOK
<1>6. CASE EncodeTimeOut
  <2>1. want' \subseteq Users /\ due' \in BOOLEAN /\ adrift' \in BOOLEAN
    BY <1>6, LoseType DEF EncodeTimeOut, TaskIds
  <2>2. task' \in [TaskIds -> Stages]
    BY <1>6 DEF EncodeTimeOut, Stages, TypeOK
  <2> QED BY <1>6, <2>1, <2>2 DEF EncodeTimeOut, Fault, TypeOK
<1> QED BY <1>1, <1>2, <1>3, <1>4, <1>5, <1>6, StepType DEF Tasks

-----------------------------------------------------------------------------
LEMMA RequestsOwned == TypeOK /\ Owned /\ Requests => Owned'
<1> SUFFICES ASSUME TypeOK, Owned, Requests PROVE Owned'
  OBVIOUS
<1>1. CASE UNCHANGED taskVars
  BY <1>1 DEF taskVars, Owned
<1>2. ASSUME NEW c \in Callers, EnqueueTaken(c) PROVE Owned'
  <2>1. task'["extract"] = "queued" /\ for'["extract"] = c
    BY <1>2 DEF EnqueueTaken, Stage, TaskIds, TypeOK
  <2> QED BY <2>1 DEF Owned
<1>3. UNCHANGED taskVars \/ \E c \in Callers : EnqueueTaken(c)
  BY DEF Requests, Join, Retry, Analyze, Rescrape, PasteText, Enqueue, EnqueueJoined, NoQueue
<1> QED BY <1>1, <1>2, <1>3

LEMMA StepOwned ==
  ASSUME TypeOK, Owned, NEW t \in TaskIds, Step(t)
  PROVE  Owned'
<1>1. CASE Start(t) \/ RunAnalysis(t) \/ Fanout(t)
  BY <1>1 DEF Start, RunAnalysis, Fanout, Stage, TaskIds, Owned, TypeOK
<1>2. CASE Exhaust(t) \/ Finish(t)
  BY <1>2 DEF Exhaust, Finish, Stage, TaskIds, Owned, TypeOK
<1>3. CASE Extracted
  BY <1>3 DEF Extracted, Stage, TaskIds, Owned, TypeOK
<1>4. CASE FailFetch
  BY <1>4 DEF FailFetch, HideOrEnd, Stage, TaskIds, Owned, TypeOK
<1>5. CASE Hide
  BY <1>5 DEF Hide, Stage, TaskIds, Owned, TypeOK
<1>6. CASE Chain
  BY <1>6 DEF Chain, Stage, TaskIds, Owned, TypeOK
<1>7. CASE Encode
  <2>1. task'["extract"] = task["extract"] /\ UNCHANGED for
    BY <1>7 DEF Encode, Stage, TaskIds, TypeOK
  <2> QED BY <2>1 DEF Owned
<1> QED BY <1>1, <1>2, <1>3, <1>4, <1>5, <1>6, <1>7 DEF Step

LEMMA TasksOwned == TypeOK /\ Owned /\ Tasks => Owned'
<1> SUFFICES ASSUME TypeOK, Owned, Tasks PROVE Owned'
  OBVIOUS
<1>1. CASE PlainEncode \/ EncodeTimeOut
  BY <1>1 DEF PlainEncode, EncodeTimeOut, Stage, TaskIds, Owned, TypeOK
<1>2. ASSUME NEW t \in TaskIds, Kill(t) PROVE Owned'
  BY <1>2 DEF Kill, TaskIds, Owned, TypeOK
<1>3. CASE Raise
  BY <1>3 DEF Raise, HideOrEnd, TaskIds, Owned, TypeOK
<1>4. CASE TimeOut
  <2>1. task'["extract"] = HideOrEnd /\ UNCHANGED for /\ task["extract"] # "none"
    BY <1>4 DEF TimeOut, TaskIds, TypeOK
  <2> QED BY <2>1 DEF HideOrEnd, Owned
<1>5. CASE ShutDown
  <2>1. /\ task'["extract"] = IF for["extract"] \in Users THEN "yield" ELSE "queued"
        /\ UNCHANGED for /\ task["extract"] # "none"
    BY <1>5 DEF ShutDown, TaskIds, TypeOK
  <2> QED BY <2>1 DEF Owned
<1> QED BY <1>1, <1>2, <1>3, <1>4, <1>5, StepOwned DEF Tasks
-----------------------------------------------------------------------------
\* Every variable keeps its type, and a held id of the extraction is owned.
LEMMA Typed == Spec => [](TypeOK /\ Owned)
<1>1. Init => TypeOK /\ Owned
  BY InitType DEF Init, TaskIds, Owned
<1>2. TypeOK /\ Owned /\ [Next]_vars => (TypeOK /\ Owned)'
  <2>1. CASE UNCHANGED vars
    BY <2>1 DEF vars, rowVars, taskVars, oweVars, TypeOK, Owned
  <2> QED BY <2>1, NextCases, RequestsType, TasksType, RequestsOwned, TasksOwned
<1> QED BY <1>1, <1>2, PTL DEF Spec

THEOREM Typing == Spec => []TypeOK
  BY Typed, PTL
-----------------------------------------------------------------------------
LEMMA RequestsCarried == TypeOK /\ ChainCarried /\ Requests => ChainCarried'
<1> SUFFICES ASSUME TypeOK, ChainCarried, Requests PROVE ChainCarried'
  OBVIOUS
<1>1. CASE UNCHANGED <<task, for, due>>
  BY <1>1 DEF ChainCarried, EncodeCarries, ExtractCarries
<1>2. ASSUME NEW c \in Callers, EnqueueTaken(c) PROVE ChainCarried'
  <2>1. task'["extract"] = "queued"
    BY <1>2 DEF EnqueueTaken, Stage, TaskIds, TypeOK
  <2> QED BY <2>1 DEF ChainCarried, ExtractCarries
<1>3. UNCHANGED <<task, for, due>> \/ \E c \in Callers : EnqueueTaken(c)
  BY DEF Requests, Join, Retry, Analyze, Rescrape, PasteText, Enqueue, EnqueueJoined,
         NoQueue, taskVars, oweVars
<1> QED BY <1>1, <1>2, <1>3

LEMMA StepCarried ==
  ASSUME TypeOK, Owned, ChainCarried, NEW t \in TaskIds, Step(t)
  PROVE  ChainCarried'
<1> USE DEF TaskIds, TypeOK, ChainCarried, EncodeCarries, ExtractCarries
<1>1. CASE Start(t)
  BY <1>1 DEF Start, Stage, oweVars
<1>2. CASE Exhaust(t)
  BY <1>2 DEF Exhaust, Stage, LoseTask, Forget
<1>3. CASE Finish(t)
  BY <1>3 DEF Finish, Stage, oweVars
<1>4. CASE RunAnalysis(t)
  BY <1>4 DEF RunAnalysis, Stage
<1>5. CASE Fanout(t)
  BY <1>5 DEF Fanout
<1>6. CASE Extracted
  BY <1>6 DEF Extracted, Stage
<1>7. CASE FailFetch
  BY <1>7 DEF FailFetch, Stage
<1>8. CASE Hide
  BY <1>8 DEF Hide, Stage
<1>9. CASE Chain
  <2>1. for["extract"] # Nobody
    BY <1>9, ActorsAssumption DEF Chain, Stage, Owned, Callers
  <2> QED BY <1>9, <2>1 DEF Chain, Stage, oweVars
<1>10. CASE Encode
  BY <1>10 DEF Encode, Stage, oweVars
<1> QED BY <1>1, <1>2, <1>3, <1>4, <1>5, <1>6, <1>7, <1>8, <1>9, <1>10 DEF Step

LEMMA TasksCarried == TypeOK /\ Owned /\ ChainCarried /\ Tasks => ChainCarried'
<1> SUFFICES ASSUME TypeOK, Owned, ChainCarried, Tasks PROVE ChainCarried'
  OBVIOUS
<1> USE DEF TaskIds, TypeOK, ChainCarried, EncodeCarries, ExtractCarries
<1>1. CASE PlainEncode
  BY <1>1 DEF PlainEncode, Stage, oweVars
<1>2. ASSUME NEW t \in TaskIds, Kill(t) PROVE ChainCarried'
  BY <1>2 DEF Kill, oweVars
<1>3. CASE Raise
  BY <1>3 DEF Raise
<1>4. CASE TimeOut
  BY <1>4 DEF TimeOut
<1>5. CASE ShutDown
  BY <1>5 DEF ShutDown, oweVars
<1>6. CASE EncodeTimeOut
  BY <1>6 DEF EncodeTimeOut, LoseTask
<1> QED BY <1>1, <1>2, <1>3, <1>4, <1>5, <1>6, StepCarried DEF Tasks

\* The follow-up of an extracted text is always with a task that will run it,
\* whichever encode tasks and repeated extractions get in its way.
THEOREM Carried == Spec => []ChainCarried
<1>1. Init => ChainCarried
  BY DEF Init, ChainCarried
<1>2. TypeOK /\ Owned /\ ChainCarried /\ [Next]_vars => ChainCarried'
  <2>1. CASE UNCHANGED vars
    BY <2>1 DEF vars, taskVars, oweVars, ChainCarried, EncodeCarries, ExtractCarries
  <2> QED BY <2>1, NextCases, RequestsCarried, TasksCarried
<1> QED BY <1>1, <1>2, Typed, PTL DEF Spec
-----------------------------------------------------------------------------
LEMMA RequestsSettle == TypeOK /\ Settling /\ Requests => Settling'
<1> SUFFICES ASSUME TypeOK, Settling, Requests PROVE Settling'
  OBVIOUS
<1> USE DEF TypeOK, Settling, Working, Open
<1>1. ASSUME NEW u \in Users, Join(u) PROVE Settling'
  <2>1. \E c \in Callers : at'[c] = "enqueue"
    BY <1>1 DEF Join, Goto, Callers
  <2> QED BY <1>1, <2>1 DEF Join, rowVars, taskVars
<1>2. ASSUME NEW c \in Callers, Refresh, Goto(c, "enqueue"), UNCHANGED taskVars
      PROVE  Settling'
  <2>1. \E d \in Callers : at'[d] = "enqueue"
    BY <1>2 DEF Goto
  <2> QED BY <1>2, <2>1 DEF Refresh, StillAdrift, taskVars
<1>3. ASSUME NEW u \in Users, Analyze(u) PROVE Settling'
  BY <1>3 DEF Analyze, rowVars, taskVars
<1>4. CASE PasteText
  BY <1>4 DEF PasteText, StillAdrift, taskVars
<1>5. ASSUME NEW c \in Callers, EnqueueTaken(c) PROVE Settling'
  <2>1. task'["extract"] = "queued"
    BY <1>5 DEF EnqueueTaken, Stage, TaskIds
  <2> QED BY <1>5, <2>1 DEF EnqueueTaken
<1>6. ASSUME NEW c \in Callers, EnqueueJoined(c) PROVE Settling'
  BY <1>6 DEF EnqueueJoined, taskVars
<1>7. ASSUME NEW c \in Callers, NoQueue(c) PROVE Settling'
  BY <1>7 DEF NoQueue
<1> QED BY <1>1, <1>2, <1>3, <1>4, <1>5, <1>6, <1>7
        DEF Requests, Retry, Rescrape, Enqueue, Callers

\* A step of the encode task leaves what Settling speaks of alone.
LEMMA EncodeSettles ==
  ASSUME TypeOK, Settling, UNCHANGED <<status, jobStatus, adrift, at>>,
         task'["extract"] = task["extract"]
  PROVE  Settling'
  BY DEF Settling

LEMMA StepSettles ==
  ASSUME TypeOK, Settling, NEW t \in TaskIds, Step(t)
  PROVE  Settling'
<1>1. CASE Start(t)
  <2>1. CASE t = "encode"
    <3>1. task'["extract"] = task["extract"]
      BY <1>1, <2>1 DEF Start, Stage, TaskIds, TypeOK
    <3> QED BY <1>1, <2>1, <3>1, EncodeSettles DEF Start
  <2>2. CASE t = "extract"
    <3>1. task["extract"] = "queued" /\ task'["extract"] = "running"
      BY <1>1, <2>2 DEF Start, Stage, TaskIds, TypeOK
    <3> QED BY <1>1, <2>2, <3>1 DEF Start, Settling, Working, TypeOK
  <2> QED BY <2>1, <2>2 DEF TaskIds
<1>2. CASE Exhaust(t)
  <2>1. CASE t = "encode"
    <3>1. task'["extract"] = task["extract"]
      BY <1>2, <2>1 DEF Exhaust, Stage, TaskIds, TypeOK
    <3> QED BY <1>2, <2>1, <3>1, EncodeSettles DEF Exhaust, LoseTask
  <2>2. CASE t = "extract"
    BY <1>2, <2>2 DEF Exhaust, LoseTask, Settling
  <2> QED BY <2>1, <2>2 DEF TaskIds
<1>3. CASE Finish(t) \/ RunAnalysis(t) \/ Fanout(t)
  <2>1. CASE t = "encode"
    <3>1. task'["extract"] = task["extract"]
      BY <1>3, <2>1 DEF Finish, RunAnalysis, Fanout, Stage, TaskIds, TypeOK
    <3> QED BY <1>3, <2>1, <3>1, EncodeSettles DEF Finish, RunAnalysis, Fanout, rowVars
  <2>2. CASE t = "extract"
    <3>1. /\ task["extract"] \in {"over", "then", "fanout"}
          /\ task'["extract"] \in {"none", "fanout", "over"}
          /\ task'["extract"] = "fanout" => task["extract"] = "then"
      BY <1>3, <2>2 DEF Finish, RunAnalysis, Fanout, Stage, TaskIds, TypeOK
    <3>2. UNCHANGED <<rowVars, at>>
      BY <1>3 DEF Finish, RunAnalysis, Fanout
    <3> QED BY <3>1, <3>2 DEF rowVars, Settling, Working
  <2> QED BY <2>1, <2>2 DEF TaskIds
<1>4. CASE Extracted
  <2>1. task["extract"] = "running" /\ task'["extract"] = "chain"
    BY <1>4 DEF Extracted, Stage, TaskIds, TypeOK
  <2> QED BY <1>4, <2>1 DEF Extracted, Settling, Working, Open, TypeOK
<1>5. CASE FailFetch
  <2>1. task["extract"] = "running" /\ task'["extract"] \in {"hide", "over"}
    BY <1>5 DEF FailFetch, HideOrEnd, Stage, TaskIds, TypeOK
  <2> QED BY <1>5, <2>1 DEF FailFetch, Settling, Working, Open, TypeOK
<1>6. CASE Hide
  <2>1. \/ task["extract"] = "hide" /\ task'["extract"] = "over"
        \/ task["extract"] = "yield" /\ task'["extract"] = "queued"
    BY <1>6 DEF Hide, Stage, TaskIds, TypeOK
  <2> QED BY <1>6, <2>1 DEF Hide, Settling, Working, Open, TypeOK
<1>7. CASE Chain
  <2>1. task["extract"] = "chain" /\ task'["extract"] \in {"over", "then"}
    BY <1>7 DEF Chain, Stage, TaskIds, TypeOK
  <2>2. UNCHANGED <<rowVars, at>>
    BY <1>7 DEF Chain
  <2> QED BY <2>1, <2>2 DEF rowVars, Settling, Working
<1>8. CASE Encode
  <2>1. task'["extract"] = task["extract"]
    BY <1>8 DEF Encode, Stage, TaskIds, TypeOK
  <2> QED BY <1>8, <2>1, EncodeSettles DEF Encode, rowVars
<1> QED BY <1>1, <1>2, <1>3, <1>4, <1>5, <1>6, <1>7, <1>8 DEF Step

LEMMA TasksSettle == TypeOK /\ Owned /\ Settling /\ Tasks => Settling'
<1> SUFFICES ASSUME TypeOK, Owned, Settling, Tasks PROVE Settling'
  OBVIOUS
<1>1. CASE PlainEncode \/ EncodeTimeOut
  <2>1. task'["extract"] = task["extract"]
    BY <1>1 DEF PlainEncode, EncodeTimeOut, Stage, TaskIds, TypeOK
  <2> QED BY <1>1, <2>1, EncodeSettles DEF PlainEncode, EncodeTimeOut, LoseTask, rowVars
<1>2. ASSUME NEW t \in TaskIds, Kill(t) PROVE Settling'
  <2>1. CASE t = "encode"
    <3>1. task'["extract"] = task["extract"]
      BY <1>2, <2>1 DEF Kill, TaskIds, TypeOK
    <3> QED BY <1>2, <2>1, <3>1 DEF Kill, Settling
  <2>2. CASE t = "extract"
    <3>1. task'["extract"] = "queued"
      BY <1>2, <2>2 DEF Kill, TaskIds, TypeOK
    <3> QED BY <1>2, <2>2, <3>1 DEF Kill, Settling, TypeOK
  <2> QED BY <2>1, <2>2 DEF TaskIds
<1>3. CASE Raise
  BY <1>3 DEF Raise, Settling
<1>4. CASE TimeOut
  <2>1. task'["extract"] \in {"hide", "over"}
    BY <1>4 DEF TimeOut, HideOrEnd, TaskIds, TypeOK
  <2> QED BY <1>4, <2>1 DEF TimeOut, Settling, Working, Open
<1>5. CASE ShutDown
  <2>1. CASE for["extract"] \in Users
    BY <1>5, <2>1 DEF ShutDown, Settling
  <2>2. CASE for["extract"] \notin Users
    <3>1. task["extract"] \in Working /\ task'["extract"] = "queued"
      BY <1>5, <2>2 DEF ShutDown, TaskIds, Working, TypeOK
    <3> QED BY <1>5, <2>2, <3>1 DEF ShutDown, Settling, Working, Open, TypeOK
  <2> QED BY <2>1, <2>2
<1> QED BY <1>1, <1>2, <1>3, <1>4, <1>5, StepSettles DEF Tasks

\* Every extraction, however requests, failures and retries of it interleave,
\* leaves row and job with an outcome that agree, or is known to be adrift.
THEOREM Settled == Spec => []StatusSettles
<1>1. Init => Settling
  BY DEF Init, Settling, Working, TaskIds, Callers
<1>2. TypeOK /\ Owned /\ Settling /\ [Next]_vars => Settling'
  <2>1. CASE UNCHANGED vars
    BY <2>1 DEF vars, rowVars, taskVars, Settling
  <2> QED BY <2>1, NextCases, RequestsSettle, TasksSettle
<1>3. TypeOK /\ Settling => StatusSettles
  BY DEF TypeOK, Settling, StatusSettles, Open
<1> QED BY <1>1, <1>2, <1>3, Typed, PTL DEF Spec
=============================================================================
