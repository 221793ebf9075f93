------------------------ MODULE CyclicActivitiesProofs ------------------------
(***************************************************************************)
(* The safety properties of CyclicActivities, for words of any size and    *)
(* any counts the slaves report.  Two facts carry them: the right to       *)
(* execute is one bit that is set while exactly one thread is executing,   *)
(* and the owner's rules keep an operation and the runner's thread apart.  *)
(***************************************************************************)
EXTENDS CyclicActivities, PdoReadingProofs

Types ==
  /\ pc \in [Threads -> Place]
  /\ operation \in Operation \cup {"none"}
  /\ running \in BOOLEAN /\ unresolved \in BOOLEAN
  /\ cycling \in BOOLEAN /\ stopping \in BOOLEAN

(* A runner that is stopped has no thread, and its thread is inside an     *)
(* activity only while its task is inside a call.                          *)
RunnerInv ==
  /\ Stopped => loop = "none"
  /\ pc[Cycle] # "idle" => loop = "calling"

(* Operations other than requests are under way only with the runner       *)
(* stopped, and the owner is past CanStart only outside of operations.     *)
OwnersRules ==
  /\ operation \notin Requests \cup {"none"} => Stopped
  /\ pc[Owner] \in {"stable", "body", "returned", "failed"} => operation = "none"

Bodies == \A t \in Threads : pc[t] = "body" => state \in {"Maintenance", "Fault", "EmergencyStop"}

IInv ==
  /\ Types /\ OneActivityAtATime /\ RunnerInv /\ OwnersRules /\ Bodies
  /\ dangling = {} /\ FailureWaitsForStop /\ StartFindsNoThread

USE DEF Owner, Cycle

(* Two idle threads and a runner without a thread satisfy the invariant.   *)
LEMMA InitIInv == Init => IInv
<1> SUFFICES ASSUME Init PROVE IInv
  OBVIOUS
<1> USE DEF Init, SchedulerInit, RunnerInit, LifecycleInit
<1>1. Types
  BY DEF Types, Place
<1>2. OneActivityAtATime /\ Bodies
  BY DEF OneActivityAtATime, Executing, Bodies
<1>3. RunnerInv /\ OwnersRules
  BY ThreadsAssumption DEF RunnerInv, OwnersRules, Stopped
<1> QED
  BY <1>1, <1>2, <1>3 DEF IInv, FailureWaitsForStop, StartFindsNoThread

(* Every step of Execute moves one thread that is not idle from its place  *)
(* to another.                                                             *)
LEMMA Moves ==
  ASSUME Types, NEW t \in Threads, ExecuteStep(t)
  PROVE  \E place \in Place : pc[t] # "idle" /\ pc' = [pc EXCEPT ![t] = place]
<1> USE DEF Types, Place
<1>1. CASE TakeExecution(t)
  BY <1>1 DEF TakeExecution, Goes
<1>2. CASE SeesNoTransition(t)
  BY <1>2 DEF SeesNoTransition, CanStartStage, Goes
<1>3. CASE SeesMaintenance(t)
  BY <1>3 DEF SeesMaintenance, CanStartStage, Goes
<1>4. CASE Transfer(t)
  <2>1. PICK j : pc' = [pc EXCEPT ![t] = IF j.left = 0 THEN "returned" ELSE @]
    BY <1>4 DEF Transfer
  <2>2. pc[t] = "body"
    BY <1>4 DEF Transfer
  <2> QED
    BY <2>1, <2>2
<1>5. CASE Finish(t)
  BY <1>5 DEF Finish, Goes
<1>6. CASE ApplyPolicy(t)
  BY <1>6 DEF ApplyPolicy, Goes
<1> QED
  BY <1>1, <1>2, <1>3, <1>4, <1>5, <1>6 DEF ExecuteStep

(* Execute: the right to execute is taken and given back, CanStart opens   *)
(* the body in Maintenance only, and the policy ends in a fault or changes *)
(* nothing.                                                                *)
LEMMA ActivityStepIInv ==
  ASSUME IInv, NEW t \in Threads, ActivityStep(t)
  PROVE  IInv'
<1> USE DEF IInv
<1>1. PICK place \in Place : pc[t] # "idle" /\ pc' = [pc EXCEPT ![t] = place]
  BY Moves DEF ActivityStep
<1>2. /\ UNCHANGED <<operation, dangling>>
      /\ UNCHANGED <<cycling, loop, stopping, terminated>>
      /\ running' \in BOOLEAN /\ unresolved' \in BOOLEAN
  BY DEF ActivityStep, runnerVars, ExecuteStep, Types, TakeExecution, SeesNoTransition, SeesMaintenance,
     CanStartStage, Transfer, Finish, ApplyPolicy
<1>3. Types'
  BY <1>1, <1>2 DEF Types
<1>4. RunnerInv'
  BY <1>1, <1>2, ThreadsAssumption DEF RunnerInv, Types, Stopped
<1>5. OneActivityAtATime'
  <2> USE DEF OneActivityAtATime, Executing, Types
  <2>1. CASE TakeExecution(t)
    BY <2>1 DEF TakeExecution, Goes
  <2>2. CASE SeesNoTransition(t)
    BY <2>2 DEF SeesNoTransition, CanStartStage, Goes
  <2>3. CASE SeesMaintenance(t)
    BY <2>3 DEF SeesMaintenance, CanStartStage, Goes
  <2>4. CASE Transfer(t)
    BY <1>1, <2>4 DEF Transfer
  <2>5. CASE Finish(t)
    BY <2>5 DEF Finish, Goes
  <2>6. CASE ApplyPolicy(t)
    BY <2>6 DEF ApplyPolicy, Goes
  <2> QED
    BY <2>1, <2>2, <2>3, <2>4, <2>5, <2>6 DEF ActivityStep, ExecuteStep
<1>6. /\ pc[t] \notin {"stable", "body", "returned", "failed"}
         /\ pc'[t] \in {"stable", "body", "returned", "failed"} => operation = "none"
      /\ pc[t] # "body" /\ pc'[t] = "body" => state' = "Maintenance"
  <2> USE DEF Types
  <2>1. CASE TakeExecution(t)
    BY <2>1 DEF TakeExecution, Goes
  <2>2. CASE SeesNoTransition(t)
    BY <2>2 DEF SeesNoTransition, CanStartStage, Goes
  <2>3. CASE SeesMaintenance(t)
    BY <2>3 DEF SeesMaintenance, CanStartStage, Goes, lifecycleVars
  <2>4. CASE Transfer(t)
    BY <1>1, <2>4 DEF Transfer
  <2>5. CASE Finish(t)
    BY <2>5 DEF Finish, Goes
  <2>6. CASE ApplyPolicy(t)
    BY <2>6 DEF ApplyPolicy, Goes
  <2> QED
    BY <2>1, <2>2, <2>3, <2>4, <2>5, <2>6 DEF ActivityStep, ExecuteStep
<1>7. OwnersRules'
  BY <1>1, <1>2, <1>6 DEF OwnersRules, Types, Stopped, Requests
<1>8. \/ state' = state /\ (unresolved' => unresolved)
      \/ state' = "Fault"
  <2>1. CASE ApplyPolicy(t)
    BY <2>1 DEF ApplyPolicy, EnterFault, KeepsControllerState, lifecycleVars
  <2>2. CASE TakeExecution(t) \/ SeesNoTransition(t) \/ SeesMaintenance(t)
    BY <2>2 DEF TakeExecution, SeesNoTransition, SeesMaintenance, CanStartStage, lifecycleVars
  <2>3. CASE Transfer(t) \/ Finish(t)
    BY <2>3 DEF Transfer, Finish, lifecycleVars
  <2> QED
    BY <2>1, <2>2, <2>3 DEF ActivityStep, ExecuteStep
<1>9. Bodies'
  BY <1>1, <1>6, <1>8 DEF Bodies, Types
<1>10. FailureWaitsForStop' /\ StartFindsNoThread'
  BY <1>2, <1>8 DEF FailureWaitsForStop, StartFindsNoThread
<1> QED
  BY <1>2, <1>3, <1>4, <1>5, <1>7, <1>9, <1>10

(* An operation that is more than a request runs with nobody in Execute.   *)
LEMMA Alone ==
  ASSUME IInv, OwnerFree, operation \notin Requests \cup {"none"}
  PROVE  \A t \in Threads : pc[t] = "idle"
BY ThreadsAssumption DEF IInv, OwnerFree, RunnerInv, OwnersRules

(* What an operation can do to the state and to the nodes.                 *)
LEMMA OperationEffect ==
  ASSUME IInv, OwnerFree, EndOperation
  PROVE  /\ operation \in Requests => state' \in {"Fault", "EmergencyStop"}
         /\ unresolved' => unresolved /\ state' \in {"Fault", "EmergencyStop"}
         /\ dangling' = {}
<1> USE DEF IInv, EndOperation
<1>1. operation \in Requests => state' \in {"Fault", "EmergencyStop"}
  BY DEF Requests, Dispatch, Allowed, ControllerDoes, EnterFault, EnterEmergencyStop
<1>2. ASSUME unresolved'
      PROVE  unresolved /\ state' \in {"Fault", "EmergencyStop"}
  <2>1. unresolved /\ state' # "Uninitialized"
    BY <1>2 DEF NodesFollow
  <2>2. state \in {"Fault", "EmergencyStop"}
    BY <2>1 DEF FailureWaitsForStop
  <2>3. CASE operation \in Requests
    BY <1>1, <2>1, <2>3
  <2>4. CASE operation = "Stop"
    BY <2>1, <2>2, <2>4 DEF Dispatch, Allowed, ControllerDoes, Release
  <2>5. CASE operation \in Operation \ (Requests \cup {"Stop"})
    <3>1. ~Allowed(operation)
      BY <2>2, <2>5 DEF Allowed, Operation, Requests
    <3> QED
      BY <2>2, <2>1, <3>1 DEF Dispatch, lifecycleVars
  <2> QED
    BY <2>1, <2>3, <2>4, <2>5 DEF Types
<1>3. dangling' = {}
  <2>1. CASE state' = "Uninitialized"
    <3>1. \A t \in Threads : pc[t] = "idle"
      BY <1>1, <2>1, Alone
    <3> QED
      BY <3>1 DEF NodesFollow
  <2>2. CASE state' # "Uninitialized"
    BY <2>2 DEF NodesFollow
  <2> QED
    BY <2>1, <2>2
<1> QED
  BY <1>1, <1>2, <1>3

(* The invariant is inductive: the owner, the runner's thread, Execute.    *)
LEMMA StepIInv == IInv /\ [Next]_vars => IInv'
<1> SUFFICES ASSUME IInv, [Next]_vars PROVE IInv'
  OBVIOUS
<1> USE ThreadsAssumption DEF IInv
<1>1. CASE OwnerOperates
  <2>1. CASE \E op \in Operation : (op \in Requests \/ Stopped) /\ BeginOperation(op)
    <3>1. PICK op \in Operation : (op \in Requests \/ Stopped) /\ BeginOperation(op)
      BY <2>1
    <3>2. UNCHANGED runnerVars /\ OwnerFree
      BY <1>1, <3>1 DEF OwnerOperates, ServiceFaults, BeginOperation, schedulerVars
    <3> QED
      BY <3>1, <3>2 DEF BeginOperation, OwnerFree, runnerVars, lifecycleVars, Types, OneActivityAtATime,
         Executing, RunnerInv, OwnersRules, Stopped, Bodies, FailureWaitsForStop, StartFindsNoThread
  <2>2. CASE ServiceFaults /\ UNCHANGED runnerVars
    BY <2>2 DEF ServiceFaults, EnterFault, schedulerVars, runnerVars, Types, OneActivityAtATime,
       Executing, RunnerInv, OwnersRules, Stopped, Bodies, FailureWaitsForStop, StartFindsNoThread
  <2> QED
    BY <1>1, <2>1, <2>2 DEF OwnerOperates
<1>2. CASE OperationReturns
  <2>1. OwnerFree /\ EndOperation /\ UNCHANGED <<running, pc, cycling, loop, stopping, terminated>>
    BY <1>2 DEF OperationReturns, EndOperation, runnerVars
  <2>2. operation' = "none" /\ operation # "none"
    BY <2>1 DEF EndOperation
  <2>3. unresolved' \in BOOLEAN
    BY <2>1 DEF EndOperation, NodesFollow, Types
  <2>4. Types' /\ RunnerInv' /\ OwnersRules'
    BY <2>1, <2>2, <2>3 DEF Types, RunnerInv, OwnersRules, Stopped
  <2>5. OneActivityAtATime' /\ StartFindsNoThread'
    BY <2>1 DEF OneActivityAtATime, Executing, StartFindsNoThread
  <2>6. Bodies'
    BY <2>1, <2>2, Alone, OperationEffect DEF Bodies
  <2>7. FailureWaitsForStop' /\ dangling' = {}
    BY <2>1, OperationEffect DEF FailureWaitsForStop
  <2> QED
    BY <2>4, <2>5, <2>6, <2>7
<1>3. CASE OwnerRuns \/ OwnerWaits \/ CycleReturns \/ CycleTests
  <2>1. UNCHANGED <<state, operation, running, pc, dangling, unresolved>>
    BY <1>3 DEF OwnerRuns, OwnerWaits, CycleReturns, CycleTests, lifecycleVars, schedulerVars
  <2>2. /\ Stopped' => loop' = "none"
        /\ pc[Cycle] # "idle" => loop' = "calling"
        /\ Stopped /\ operation # "none" => Stopped'
        /\ ~terminated'
        /\ cycling' \in BOOLEAN /\ stopping' \in BOOLEAN
    <3> USE DEF RunnerInv, Types, Stopped, StartFindsNoThread
    <3>1. CASE OwnerRuns /\ Start
      BY <3>1 DEF OwnerRuns, Start
    <3>2. CASE OwnerRuns /\ Stop
      BY <3>2 DEF OwnerRuns, Stop
    <3>3. CASE OwnerWaits
      BY <3>3 DEF OwnerWaits, StopJoins
    <3>4. CASE CycleReturns
      BY <3>4 DEF CycleReturns, TaskReturns
    <3>5. CASE CycleTests
      BY <3>5 DEF CycleTests, LoopTests
    <3> QED
      BY <1>3, <3>1, <3>2, <3>3, <3>4, <3>5 DEF OwnerRuns
  <2>3. Types' /\ RunnerInv' /\ OwnersRules' /\ StartFindsNoThread'
    BY <2>1, <2>2 DEF Types, RunnerInv, OwnersRules, StartFindsNoThread, Requests
  <2> QED
    BY <2>1, <2>3 DEF OneActivityAtATime, Executing, Bodies, FailureWaitsForStop
<1>4. ASSUME NEW t \in Threads, NEW kind \in Kind, Create(t, kind), UNCHANGED <<cycling, stopping, terminated>>,
             t = Owner => loop' = loop, t = Cycle => loop = "task" /\ loop' = "calling"
      PROVE  IInv'
  <2>1. pc' = [pc EXCEPT ![t] = "created"] /\ pc[t] = "idle"
    BY <1>4 DEF Create
  <2>2. UNCHANGED <<state, operation, running, unresolved>> /\ dangling' = {}
    BY <1>4 DEF Create, lifecycleVars
  <2>3. Types'
    BY <1>4, <2>1, <2>2 DEF Types, Place
  <2>4. OneActivityAtATime'
    BY <2>1, <2>2 DEF OneActivityAtATime, Executing, Types
  <2>5. RunnerInv' /\ OwnersRules'
    BY <1>4, <2>1, <2>2 DEF RunnerInv, OwnersRules, Stopped, Types
  <2>6. Bodies' /\ FailureWaitsForStop' /\ StartFindsNoThread'
    BY <1>4, <2>1, <2>2 DEF Bodies, FailureWaitsForStop, StartFindsNoThread, Types
  <2> QED
    BY <2>2, <2>3, <2>4, <2>5, <2>6
<1>5. CASE OwnerExecutes \/ CycleExecutes
  BY <1>5, <1>4 DEF OwnerExecutes, CycleExecutes, TaskCalls, runnerVars
<1>6. CASE \E t \in Threads : ActivityStep(t)
  BY <1>6, ActivityStepIInv
<1>7. CASE UNCHANGED vars
  BY <1>7 DEF vars, lifecycleVars, schedulerVars, runnerVars, Types, OneActivityAtATime, Executing,
     RunnerInv, Stopped, OwnersRules, Bodies, FailureWaitsForStop, StartFindsNoThread
<1> QED
  BY <1>1, <1>2, <1>3, <1>5, <1>6, <1>7 DEF Next

(* The invariant that the five properties below are parts of.              *)
THEOREM Inductive == Spec => []IInv
BY InitIInv, StepIInv, PTL DEF Spec

(* Activities exclude each other, whatever thread or callback they come    *)
(* from.                                                                   *)
THEOREM Exclusion == Spec => []OneActivityAtATime
BY Inductive, PTL DEF IInv

(* No activity uses a node that a shutdown has destroyed.                  *)
THEOREM NodesOutlive == Spec => []NodesOutliveActivities
<1>1. IInv => NodesOutliveActivities
  BY DEF IInv, NodesOutliveActivities
<1> QED
  BY <1>1, Inductive, PTL

(* Where transfers are made: beside Maintenance or a fault that replaced   *)
(* it, and beside no operation but a request of the other thread.          *)
THEOREM MaintenanceOnly == Spec => []ActivitiesBesideMaintenanceOnly
<1>1. IInv => ActivitiesBesideMaintenanceOnly
  BY ThreadsAssumption DEF IInv, ActivitiesBesideMaintenanceOnly, Bodies, OwnersRules, RunnerInv, Stopped
<1> QED
  BY <1>1, Inductive, PTL

(* A parameter that could not be written keeps the master out of service.  *)
THEOREM FailureWaits == Spec => []FailureWaitsForStop
BY Inductive, PTL DEF IInv

(* The runner never assigns over a thread that nobody has joined.          *)
THEOREM ThreadIsJoined == Spec => []StartFindsNoThread
BY Inductive, PTL DEF IInv

(***************************************************************************)
(* Types.  A job that is under way has a transfer left and its reading has *)
(* not finished; so no transfer is counted below 0 and no PDO list is      *)
(* walked past its end.                                                    *)
(***************************************************************************)
UnderWay == {"created", "taken", "stable", "body"}

MasterTypes == state \in ControllerState /\ open \in BOOLEAN /\ prepared \in BOOLEAN

JobFits(j) == j \in Job /\ j.reading \in Position
GoesOn(j) == j.left # 0 /\ ~Finished(j.reading)

Jobs == /\ job \in [Threads -> Job]
        /\ \A t \in Threads : JobFits(job[t]) /\ (pc[t] \in UnderWay => GoesOn(job[t]))

Others == hasNodes \in BOOLEAN /\ RunnerTypeOK

LEMMA NewJobFits ==
  ASSUME NEW kind \in Kind
  PROVE  JobFits(NewJob(kind)) /\ GoesOn(NewJob(kind))
<1>1. Transfers(kind) \in 1..4
  BY DEF Transfers, Kind
<1>2. FirstRead \in Reading
  BY FirstReadIsPosition DEF Position
<1> QED
  BY <1>1, <1>2, FirstReadIsPosition DEF NewJob, Job, JobFits, GoesOn

(* An update of the fields of a job, the kind excepted.                    *)
Updated(q, j, left, ok, r) ==
  \/ q = [j EXCEPT !.reading = r, !.ok = ok, !.left = left]
  \/ q = [j EXCEPT !.ok = ok, !.left = left] /\ r = j.reading

LEMMA JobSet ==
  ASSUME NEW j \in Job, NEW left \in 0..4, NEW ok \in BOOLEAN, NEW r \in Reading, NEW q,
         Updated(q, j, left, ok, r)
  PROVE  q \in Job /\ q.reading = r /\ q.left = left
<1>1. j.kind \in Kind /\ j = [kind |-> j.kind, left |-> j.left, ok |-> j.ok, reading |-> j.reading]
  BY Zenon DEF Job
<1>2. q = [kind |-> j.kind, left |-> left, ok |-> ok, reading |-> r]
  BY <1>1, Zenon DEF Updated
<1>3. q \in Job
  BY <1>1, <1>2, Zenon DEF Job
<1> QED
  BY <1>2, <1>3, Zenon

(* A transfer leaves a job, and one with a transfer left has tables left.  *)
LEMMA TransferFits ==
  ASSUME NEW j, JobFits(j), GoesOn(j), NEW good \in BOOLEAN, NEW count \in Counts
  PROVE  LET q == AfterTransfer(j, good, count) IN
         JobFits(q) /\ (q.left # 0 => GoesOn(q))
<1>1. /\ j \in [kind : Kind, left : 0..4, ok : BOOLEAN, reading : Reading]
      /\ j.left \in 1..4 /\ j.reading \in Position /\ ~Finished(j.reading)
  BY DEF JobFits, GoesOn, Job
<1>2. PICK q : q = AfterTransfer(j, good, count)
  OBVIOUS
<1>a. j \in Job /\ j.reading \in Reading
  BY <1>1 DEF JobFits, Position
<1>3. CASE j.kind \in {"Parameter", "VerifiedParameter"}
  <2>1. PICK left \in 0..4 : left = IF good THEN j.left - 1 ELSE 0
    BY <1>1
  <2>a. Updated(q, j, left, good, j.reading)
    BY <1>2, <1>3, <2>1 DEF AfterTransfer, SdoParameter, Updated
  <2>2. q \in Job /\ q.reading = j.reading
    BY <1>a, <2>1, <2>a, JobSet
  <2> QED
    BY <1>1, <1>2, <2>2 DEF JobFits, GoesOn
<1>4. CASE j.kind = "Diagnostics"
  <2>1. q = [j EXCEPT !.ok = j.ok /\ good, !.left = j.left - 1]
    BY <1>2, <1>4 DEF AfterTransfer, SdoDiagnostics
  <2>2. PICK ok \in BOOLEAN : ok = (j.ok /\ good)
    BY <1>1
  <2>a. PICK left \in 0..4 : left = j.left - 1
    BY <1>1
  <2>3. Updated(q, j, left, ok, j.reading)
    BY <2>1, <2>2, <2>a DEF Updated
  <2>4. q \in Job /\ q.reading = j.reading
    BY <1>a, <2>3, JobSet
  <2> QED
    BY <1>1, <1>2, <2>4 DEF JobFits, GoesOn
<1>5. CASE j.kind = "Inspection"
  <2>1. q = [j EXCEPT !.left = j.left - 1]
    BY <1>2, <1>5 DEF AfterTransfer, StateInspection
  <2>2. q \in Job /\ q.reading = j.reading
    BY <1>1, <2>1 DEF Job
  <2> QED
    BY <1>1, <1>2, <2>2 DEF JobFits, GoesOn
<1>6. CASE j.kind = "PdoMapping"
  <2>1. PICK r : r = AfterRead(j.reading, good, count)
    OBVIOUS
  <2>2. r \in Position /\ r \in Reading
    BY <1>1, <2>1, UploadMovesOn DEF Position
  <2>3. PICK ok \in BOOLEAN : ok = (j.ok /\ (good \/ j.reading.table = "mapping"))
    BY <1>1
  <2>a. PICK left \in 0..4 : left = IF Finished(r) THEN 0 ELSE 1
    OBVIOUS
  <2>4. Updated(q, j, left, ok, r)
    BY <1>2, <1>6, <2>1, <2>3, <2>a DEF AfterTransfer, PdoMappingBody, Updated
  <2>b. q \in Job /\ q.reading = r /\ q.left = left
    BY <1>a, <2>2, <2>4, JobSet
  <2>5. q \in Job /\ q.reading = r /\ (q.left # 0 => ~Finished(r))
    BY <2>a, <2>b
  <2> QED
    BY <1>2, <2>2, <2>5 DEF JobFits, GoesOn
<1> QED
  BY <1>1, <1>3, <1>4, <1>5, <1>6 DEF Kind

(* The controller keeps its types, whatever is asked of it.                *)
LEMMA DispatchTypes ==
  ASSUME MasterTypes, NEW op \in Operation, Dispatch(op) \/ EnterFault
  PROVE  MasterTypes'
<1> USE DEF MasterTypes, ControllerState, lifecycleVars
<1>1. CASE UNCHANGED lifecycleVars
  BY <1>1
<1>2. CASE ControllerDoes(op) \/ EnterFault
  BY <1>2 DEF ControllerDoes, OpenAdapter, DiscoverTopology, ReachMaintenance, FinishPrepare,
     ReachOperational, EnterFault, EnterEmergencyStop, Release
<1> QED
  BY <1>1, <1>2 DEF Dispatch

LEMMA ExecuteTypes ==
  ASSUME Types, MasterTypes, Jobs, NEW t \in Threads, ExecuteStep(t)
  PROVE  MasterTypes' /\ Jobs' /\ UNCHANGED hasNodes
<1> USE DEF Types
<1>1. MasterTypes'
  <2>1. CASE ApplyPolicy(t)
    BY <2>1, DispatchTypes DEF ApplyPolicy, MasterTypes, lifecycleVars, Operation
  <2>2. CASE ~ApplyPolicy(t)
    BY <2>2 DEF ExecuteStep, TakeExecution, SeesNoTransition, SeesMaintenance, CanStartStage,
       Transfer, Finish, MasterTypes, lifecycleVars
  <2> QED
    BY <2>1, <2>2
<1>2. ASSUME NEW place, Goes(t, place), place \in UnderWay => pc[t] \in UnderWay
      PROVE  Jobs'
  <2>1. JobFits(NoJob) /\ NoJob \in Job
    BY NewJobFits DEF NoJob, Kind, JobFits
  <2>2. CASE place = "idle"
    BY <1>2, <2>1, <2>2 DEF Goes, Jobs, UnderWay
  <2>3. CASE place # "idle"
    BY <1>2, <2>3 DEF Goes, Jobs
  <2> QED
    BY <2>2, <2>3
<1>3. Jobs'
  <2>1. CASE TakeExecution(t)
    BY <1>2, <2>1 DEF TakeExecution, UnderWay
  <2>2. CASE SeesNoTransition(t)
    BY <1>2, <2>2 DEF SeesNoTransition, CanStartStage, UnderWay
  <2>3. CASE SeesMaintenance(t)
    BY <1>2, <2>3 DEF SeesMaintenance, CanStartStage, UnderWay
  <2>4. CASE Transfer(t)
    <3>1. PICK good \in BOOLEAN, count \in Counts :
            LET j == AfterTransfer(job[t], good, count) IN
            /\ job' = [job EXCEPT ![t] = j]
            /\ pc' = [pc EXCEPT ![t] = IF j.left = 0 THEN "returned" ELSE pc[t]]
      BY <2>4 DEF Transfer
    <3>2. PICK j : j = AfterTransfer(job[t], good, count)
      OBVIOUS
    <3>3. job' = [job EXCEPT ![t] = j] /\ pc' = [pc EXCEPT ![t] = IF j.left = 0 THEN "returned" ELSE pc[t]]
      BY <3>1, <3>2
    <3>4. JobFits(job[t]) /\ GoesOn(job[t])
      BY <2>4 DEF Transfer, Jobs, UnderWay
    <3>5. JobFits(j) /\ (j.left # 0 => GoesOn(j))
      BY <3>2, <3>4, TransferFits
    <3>6. j \in Job
      BY <3>5 DEF JobFits
    <3> QED
      BY <3>3, <3>5, <3>6 DEF Jobs, UnderWay
  <2>5. CASE Finish(t)
    BY <1>2, <2>5 DEF Finish, UnderWay
  <2>6. CASE ApplyPolicy(t)
    BY <1>2, <2>6 DEF ApplyPolicy, UnderWay
  <2> QED
    BY <2>1, <2>2, <2>3, <2>4, <2>5, <2>6 DEF ExecuteStep
<1>4. UNCHANGED hasNodes
  BY DEF ExecuteStep, TakeExecution, SeesNoTransition, SeesMaintenance, CanStartStage,
     Transfer, Finish, ApplyPolicy
<1> QED
  BY <1>1, <1>3, <1>4

TypeInv == MasterTypes /\ Jobs /\ Others

LEMMA StepTypes == IInv /\ TypeInv /\ [Next]_vars => TypeInv'
<1> SUFFICES ASSUME IInv, TypeInv, [Next]_vars
             PROVE  TypeInv'
  OBVIOUS
<1> USE DEF TypeInv
<1>1. Types
  BY DEF IInv
<1>2. ASSUME UNCHANGED <<lifecycleVars, job, hasNodes>>, UNCHANGED pc
      PROVE  MasterTypes' /\ Jobs' /\ (hasNodes \in BOOLEAN)'
  BY <1>2 DEF MasterTypes, Jobs, Others, lifecycleVars
<1>3. CASE OwnerOperates
  <2>1. CASE \E op \in Operation : (op \in Requests \/ Stopped) /\ BeginOperation(op)
    BY <1>2, <1>3, <2>1 DEF OwnerOperates, BeginOperation, ServiceFaults, schedulerVars, Others,
       RunnerTypeOK, runnerVars
  <2>2. CASE ServiceFaults /\ UNCHANGED runnerVars
    <3>1. MasterTypes'
      BY <2>2, DispatchTypes DEF ServiceFaults, Operation
    <3> QED
      BY <2>2, <3>1 DEF ServiceFaults, schedulerVars, Jobs, Others, RunnerTypeOK, runnerVars
  <2> QED
    BY <1>3, <2>1, <2>2 DEF OwnerOperates
<1>4. CASE OperationReturns
  <2>1. operation \in Operation /\ Dispatch(operation)
    BY <1>1, <1>4 DEF OperationReturns, EndOperation, Types
  <2>2. MasterTypes'
    BY <2>1, DispatchTypes
  <2>3. hasNodes' \in BOOLEAN
    BY <1>4 DEF OperationReturns, EndOperation, NodesFollow, Others
  <2>4. UNCHANGED <<pc, job>> /\ UNCHANGED runnerVars
    BY <1>4 DEF OperationReturns, EndOperation
  <2> QED
    BY <2>2, <2>3, <2>4 DEF Jobs, Others, RunnerTypeOK, runnerVars
<1>5. CASE OwnerRuns \/ OwnerWaits \/ CycleReturns \/ CycleTests
  <2>1. UNCHANGED <<lifecycleVars, schedulerVars>>
    BY <1>5 DEF OwnerRuns, OwnerWaits, CycleReturns, CycleTests
  <2>2. RunnerTypeOK'
    BY <1>5 DEF OwnerRuns, OwnerWaits, CycleReturns, CycleTests, Start, Stop, StopJoins,
       TaskReturns, LoopTests, RunnerTypeOK, Others
  <2> QED
    BY <1>2, <2>1, <2>2 DEF schedulerVars, Others
<1>6. ASSUME NEW t \in Threads, NEW kind \in Kind, Create(t, kind)
      PROVE  MasterTypes' /\ Jobs' /\ UNCHANGED hasNodes
  <2>1. JobFits(NewJob(kind)) /\ GoesOn(NewJob(kind)) /\ NewJob(kind) \in Job
    BY NewJobFits DEF JobFits
  <2>2. Jobs'
    BY <1>1, <1>6, <2>1 DEF Create, Jobs, Types
  <2> QED
    BY <1>6, <2>2 DEF Create, MasterTypes, lifecycleVars
<1>7. CASE OwnerExecutes
  BY <1>6, <1>7, ThreadsAssumption DEF OwnerExecutes, runnerVars, RunnerTypeOK, Others
<1>8. CASE CycleExecutes
  BY <1>6, <1>8, ThreadsAssumption DEF CycleExecutes, TaskCalls, RunnerTypeOK, Others
<1>9. CASE \E t \in Threads : ActivityStep(t)
  BY <1>1, <1>9, ExecuteTypes DEF ActivityStep, runnerVars, RunnerTypeOK, Others
<1>10. CASE UNCHANGED vars
  BY <1>2, <1>10 DEF vars, schedulerVars, runnerVars, RunnerTypeOK, Others
<1> QED
  BY <1>3, <1>4, <1>5, <1>7, <1>8, <1>9, <1>10 DEF Next

LEMMA TypesHold == Spec => []TypeInv
<1>1. Init => TypeInv
  <2> SUFFICES ASSUME Init
               PROVE  TypeInv
    OBVIOUS
  <2> USE DEF Init, SchedulerInit, RunnerInit, LifecycleInit
  <2>1. JobFits(NoJob) /\ NoJob \in Job
    BY NewJobFits DEF NoJob, Kind, JobFits
  <2>2. Jobs
    BY <2>1 DEF Jobs, UnderWay
  <2>3. MasterTypes /\ Others
    BY DEF MasterTypes, ControllerState, Others, RunnerTypeOK
  <2> QED
    BY <2>2, <2>3 DEF TypeInv
<1> QED
  BY <1>1, StepTypes, Inductive, PTL DEF Spec

(* Types, for words of any size and any counts: no job is counted below 0  *)
(* transfers and no reading leaves its tables.                             *)
THEOREM TypeCorrect == Spec => []TypeOK
<1>1. IInv /\ TypeInv => TypeOK
  BY DEF IInv, TypeInv, Types, MasterTypes, Jobs, Others, TypeOK
<1> QED
  BY <1>1, TypesHold, Inductive, PTL

(* Every upload of an activity brings its reading closer to the end of the *)
(* last table, but for the loop whose count is the largest one: this is    *)
(* the variant that ExecuteReturns rests on.                               *)
UploadsMoveOn ==
  [][\A t \in Threads :
       Transfer(t) /\ job[t].kind = "PdoMapping" =>
         Endless(job[t].reading) \/ Later(job'[t].reading, job[t].reading)]_vars

THEOREM UploadsEnd == Spec => UploadsMoveOn
<1> DEFINE Moved ==
      \A t \in Threads :
        Transfer(t) /\ job[t].kind = "PdoMapping" =>
          Endless(job[t].reading) \/ Later(job'[t].reading, job[t].reading)
<1>1. TypeInv => Moved
  <2> SUFFICES ASSUME TypeInv, NEW t \in Threads, Transfer(t), job[t].kind = "PdoMapping"
               PROVE  Endless(job[t].reading) \/ Later(job'[t].reading, job[t].reading)
    OBVIOUS
  <2>1. PICK good \in BOOLEAN, count \in Counts :
          job' = [job EXCEPT ![t] = AfterTransfer(job[t], good, count)]
    BY DEF Transfer
  <2>2. PICK j : j = job[t]
    OBVIOUS
  <2>3. j \in Job /\ j.reading \in Position /\ ~Finished(j.reading) /\ job \in [Threads -> Job]
    BY <2>2 DEF TypeInv, Jobs, JobFits, GoesOn, UnderWay, Transfer
  <2>4. PICK r : r = AfterRead(j.reading, good, count)
    OBVIOUS
  <2>5. job'[t].reading = r
    <3>1. job'[t] = PdoMappingBody(j, good, count)
      BY <2>1, <2>2, <2>3 DEF AfterTransfer
    <3> QED
      BY <2>3, <2>4, <3>1 DEF PdoMappingBody, Job
  <2> QED
    BY <2>2, <2>3, <2>4, <2>5, UploadMovesOn
<1>2. Spec => [][Moved]_vars
  BY <1>1, TypesHold, PTL DEF Spec
<1> QED
  BY <1>2 DEF UploadsMoveOn
=============================================================================
