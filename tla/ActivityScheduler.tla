-------------------------- MODULE ActivityScheduler --------------------------
(***************************************************************************)
(* ActivityScheduler::Execute and the four maintenance activities, called  *)
(* by several threads, over the controller that MasterLifecycle promises.  *)
(* One SDO transfer (or one state read) is a step: it holds soem_mutex_    *)
(* from its request to its answer.                                         *)
(***************************************************************************)
EXTENDS MasterLifecycle, PdoReading

CONSTANT Threads

VARIABLES
  operation, \* the facade's operation in progress (runtime_state_override_ is set), or "none"
  running,   \* running_
  pc,        \* where each thread is in Execute
  job,       \* the activity of each thread and how far it is
  hasNodes,  \* the SlaveNodeManager holds the nodes of a session
  dangling,  \* threads whose activity refers to a node that was destroyed
  unresolved \* history: a parameter could not be written and no Stop came since

schedulerVars == <<operation, running, pc, job, hasNodes, dangling, unresolved>>

Kind == {"Parameter", "VerifiedParameter", "Diagnostics", "Inspection", "PdoMapping"}
Place == {"idle", "created", "taken", "stable", "body", "returned", "failed"}

(* A job: the transfers still to do, the result so far, and for a PDO      *)
(* mapping its position.                                                   *)
Job == [kind : Kind, left : 0..4, ok : BOOLEAN, reading : Reading]

Transfers(kind) ==
  CASE kind = "Parameter" -> 1
    [] kind = "VerifiedParameter" -> 2
    [] kind = "Diagnostics" -> 4
    [] kind = "Inspection" -> 2
    [] kind = "PdoMapping" -> 1

NewJob(kind) == [kind |-> kind, left |-> Transfers(kind), ok |-> TRUE, reading |-> FirstRead]

(***************************************************************************)
(* The bodies: a job after one transfer that succeeded (good) or not.      *)
(***************************************************************************)
(* The write, then the read-back, which also fails on another value.       *)
SdoParameter(j, good) == [j EXCEPT !.ok = good, !.left = IF good THEN @ - 1 ELSE 0]

SdoDiagnostics(j, good) == [j EXCEPT !.ok = @ /\ good, !.left = @ - 1]

(* What a state read returns is logged and is never a failure.             *)
StateInspection(j) == [j EXCEPT !.left = @ - 1]

PdoMappingBody(j, good, count) ==
  LET r == AfterRead(j.reading, good, count) IN
  [j EXCEPT !.reading = r,
            !.ok = @ /\ (good \/ j.reading.table = "mapping"),
            !.left = IF Finished(r) THEN 0 ELSE 1]

AfterTransfer(j, good, count) ==
  CASE j.kind \in {"Parameter", "VerifiedParameter"} -> SdoParameter(j, good)
    [] j.kind = "Diagnostics" -> SdoDiagnostics(j, good)
    [] j.kind = "Inspection" -> StateInspection(j)
    [] j.kind = "PdoMapping" -> PdoMappingBody(j, good, count)

(* Mutant: the policy of the parameter activity is that of the others.     *)
KeepsStateAlways(kind) == TRUE

(* GetFailurePolicy: kKeepControllerState, or else kEnterError.            *)
KeepsControllerState(kind) == kind \notin {"Parameter", "VerifiedParameter"}

(***************************************************************************)
(* Execute.                                                                *)
(***************************************************************************)
NoJob == NewJob("Inspection")

(* A thread that leaves Execute takes its activity with it.                *)
Goes(t, place) ==
  /\ pc' = [pc EXCEPT ![t] = place]
  /\ job' = IF place = "idle" THEN [job EXCEPT ![t] = NoJob] ELSE job

(* The caller makes an activity for a node it holds.                       *)
Create(t, kind) ==
  /\ pc[t] = "idle" /\ hasNodes
  /\ job' = [job EXCEPT ![t] = NewJob(kind)] /\ pc' = [pc EXCEPT ![t] = "created"]
  /\ dangling' = dangling \ {t}
  /\ UNCHANGED <<lifecycleVars, operation, running, hasNodes, unresolved>>

(* Mutant: running_ is set without looking at what it was.                 *)
TakeExecutionAlways(t) ==
  /\ pc[t] = "created"
  /\ running' = TRUE /\ Goes(t, "taken")
  /\ UNCHANGED <<lifecycleVars, operation, hasNodes, dangling, unresolved>>

(* running_.exchange(true)                                                 *)
TakeExecution(t) ==
  /\ pc[t] = "created"
  /\ running' = TRUE /\ Goes(t, IF running THEN "idle" ELSE "taken")
  /\ UNCHANGED <<lifecycleVars, operation, hasNodes, dangling, unresolved>>

(* The two reads of the runtime state that CanStart asks for: is an        *)
(* operation announced, and is the controller in Maintenance?  A refusal   *)
(* gives the execution right back.                                         *)
CanStartStage(t, place, condition, next) ==
  /\ pc[t] = place
  /\ IF condition THEN Goes(t, next) /\ UNCHANGED running
                  ELSE Goes(t, "idle") /\ running' = FALSE
  /\ UNCHANGED <<lifecycleVars, operation, hasNodes, dangling, unresolved>>

SeesNoTransition(t) == CanStartStage(t, "taken", operation = "none", "stable")

(* Mutant: CanStart asks for the mode Prepare and forgets the stage.       *)
SeesPreparation(t) ==
  CanStartStage(t, "stable", state \in {"AdapterReady", "Scanned", "Maintenance", "ReadyToRun"}, "body")

SeesMaintenance(t) == CanStartStage(t, "stable", state = "Maintenance", "body")

Transfer(t) ==
  /\ pc[t] = "body"
  /\ \E good \in BOOLEAN, count \in Counts :
       LET j == AfterTransfer(job[t], good, count) IN
       /\ job' = [job EXCEPT ![t] = j]
       /\ pc' = [pc EXCEPT ![t] = IF j.left = 0 THEN "returned" ELSE @]
  /\ UNCHANGED <<lifecycleVars, operation, running, hasNodes, dangling, unresolved>>

(* running_ is cleared before the result is looked at.                     *)
Finish(t) ==
  /\ pc[t] = "returned"
  /\ running' = FALSE /\ Goes(t, IF job[t].ok THEN "idle" ELSE "failed")
  /\ UNCHANGED <<lifecycleVars, operation, hasNodes, dangling, unresolved>>

ApplyPolicy(t) ==
  /\ pc[t] = "failed"
  /\ IF KeepsControllerState(job[t].kind) THEN UNCHANGED lifecycleVars ELSE EnterFault
  /\ unresolved' = (unresolved \/ job[t].kind \in {"Parameter", "VerifiedParameter"})
  /\ Goes(t, "idle")
  /\ UNCHANGED <<operation, running, hasNodes, dangling>>

ExecuteStep(t) ==
  \/ TakeExecution(t) \/ SeesNoTransition(t) \/ SeesMaintenance(t)
  \/ Transfer(t) \/ Finish(t) \/ ApplyPolicy(t)

(***************************************************************************)
(* The master around the activities.  EnterMaintenance makes the nodes,    *)
(* a shutdown destroys them.                                               *)
(***************************************************************************)
NodesFollow ==
  /\ hasNodes' = CASE state' = "Uninitialized" -> FALSE
                   [] state = "Scanned" /\ state' = "Maintenance" -> TRUE
                   [] OTHER -> hasNodes
  /\ dangling' = IF hasNodes /\ ~hasNodes' THEN {t \in Threads : pc[t] # "idle"} ELSE dangling
  /\ unresolved' = (unresolved /\ state' # "Uninitialized")

(* BeginRuntimeTransition up to the callback, in which the caller may      *)
(* execute an activity.                                                    *)
BeginOperation(op) ==
  /\ operation = "none" /\ operation' = op
  /\ UNCHANGED <<lifecycleVars, running, pc, job, hasNodes, dangling, unresolved>>

(* The callback returns; the controller, EndRuntimeTransition.             *)
EndOperation ==
  /\ operation # "none" /\ operation' = "none"
  /\ Dispatch(operation) /\ NodesFollow
  /\ UNCHANGED <<running, pc, job>>

(* The slave check of Service finds a slave that dropped.                  *)
ServiceFaults ==
  /\ operation = "none" /\ state \in {"Maintenance", "Operational"}
  /\ EnterFault
  /\ UNCHANGED schedulerVars

SchedulerInit ==
  /\ LifecycleInit
  /\ operation = "none" /\ running = FALSE
  /\ pc = [t \in Threads |-> "idle"]
  /\ job = [t \in Threads |-> NoJob]
  /\ hasNodes = FALSE /\ dangling = {} /\ unresolved = FALSE
=============================================================================
