-------------------------- MODULE CyclicActivities --------------------------
(***************************************************************************)
(* The two parts of the library that several threads may enter, together:  *)
(* an owner that drives the master, executes activities and starts and     *)
(* stops a CyclicRunner, and the runner's thread, whose task executes      *)
(* activities as well.  The owner keeps the rules of the design document:  *)
(* it calls an operation of the lifecycle (a fault or emergency stop       *)
(* request excepted) only when the runner has been stopped, and from a     *)
(* callback inside an operation it does no more than execute an activity.  *)
(***************************************************************************)
EXTENDS ActivityScheduler, CyclicRunner

Owner == "owner"
Cycle == "cycle"

ASSUME ThreadsAssumption == Threads = {Owner, Cycle}

vars == <<lifecycleVars, schedulerVars, runnerVars>>

Requests == {"RequestFault", "RequestEmergencyStop"}

OwnerFree == pc[Owner] = "idle" /\ ~stopping

OwnerOperates ==
  \/ /\ OwnerFree
     /\ \E op \in Operation : (op \in Requests \/ Stopped) /\ BeginOperation(op)
     /\ UNCHANGED runnerVars
  \/ OwnerFree /\ operation = "none" /\ ServiceFaults /\ UNCHANGED runnerVars

OperationReturns == OwnerFree /\ EndOperation /\ UNCHANGED runnerVars

OwnerRuns ==
  /\ OwnerFree /\ operation = "none"
  /\ (Start \/ Stop)
  /\ UNCHANGED <<lifecycleVars, schedulerVars>>

OwnerWaits == StopJoins /\ UNCHANGED <<lifecycleVars, schedulerVars>>

OwnerExecutes == OwnerFree /\ (\E kind \in Kind : Create(Owner, kind)) /\ UNCHANGED runnerVars

CycleExecutes == TaskCalls /\ \E kind \in Kind : Create(Cycle, kind)

CycleReturns == pc[Cycle] = "idle" /\ TaskReturns /\ UNCHANGED <<lifecycleVars, schedulerVars>>

CycleTests == LoopTests /\ UNCHANGED <<lifecycleVars, schedulerVars>>

ActivityStep(t) == ExecuteStep(t) /\ UNCHANGED runnerVars

Init == SchedulerInit /\ RunnerInit

Next == \/ OwnerOperates \/ OperationReturns \/ OwnerRuns \/ OwnerWaits \/ OwnerExecutes
        \/ CycleExecutes \/ CycleReturns \/ CycleTests
        \/ \E t \in Threads : ActivityStep(t)

Spec == Init /\ [][Next]_vars

(* Both threads are scheduled, every SDO transfer has a time-out and every *)
(* callback returns; nothing is assumed of what the owner calls.           *)
FairSpec == /\ Spec
            /\ \A t \in Threads : WF_vars(ActivityStep(t))
            /\ WF_vars(CycleReturns) /\ WF_vars(CycleTests)
            /\ WF_vars(OwnerWaits) /\ WF_vars(OperationReturns)

(***************************************************************************)
(* Properties.                                                             *)
(***************************************************************************)
TypeOK ==
  /\ state \in ControllerState /\ open \in BOOLEAN /\ prepared \in BOOLEAN
  /\ operation \in Operation \cup {"none"} /\ running \in BOOLEAN
  /\ pc \in [Threads -> Place] /\ job \in [Threads -> Job]
  /\ hasNodes \in BOOLEAN /\ dangling \subseteq Threads /\ unresolved \in BOOLEAN
  /\ RunnerTypeOK

(* The rule of the design document that ActivityScheduler guarantees: no   *)
(* activity starts while another one runs, from whatever thread or         *)
(* callback; and IsRunning is true as long as one does.                    *)
Executing(t) == pc[t] \in {"taken", "stable", "body", "returned"}
OneActivityAtATime ==
  \A t \in Threads : Executing(t) =>
    running /\ \A u \in Threads \ {t} : ~Executing(u)

(* An activity keeps a reference to a SlaveNode that a shutdown destroys:  *)
(* with the owner's rules no transfer is made through a node that is gone, *)
(* which takes Stop of the runner to wait for the activity in its task.    *)
NodesOutliveActivities == \A t \in Threads : pc[t] = "body" => t \notin dangling

(* CanStart is asked once and its answer grows old while the transfers go  *)
(* on: the state may have become a fault or an emergency stop by then, but *)
(* never one in which process data is exchanged or prepared, and no        *)
(* activity runs inside an operation that its own thread has announced.    *)
ActivitiesBesideMaintenanceOnly ==
  \A t \in Threads : pc[t] = "body" =>
    /\ state \in {"Maintenance", "Fault", "EmergencyStop"}
    /\ operation \in Requests \cup {"none"}
    /\ t = Owner => operation = "none"

(* Once Execute has returned from a parameter that could not be written,   *)
(* the master is out of service until a Stop, although running_ is cleared *)
(* before the policy and the next activity may be under way by then.       *)
FailureWaitsForStop == unresolved => state \in {"Fault", "EmergencyStop"}

(* A new thread is never assigned over one that nobody has joined.         *)
StartFindsNoThread == ~terminated

(* Every call of Execute returns and gives the execution right back unless *)
(* a slave reports the largest count for a PDO table and answers every     *)
(* upload, where the uint8_t loops have no end.                            *)
ExecuteReturns ==
  \A t \in Threads : pc[t] # "idle" ~> pc[t] = "idle" \/ Endless(job[t].reading)

(* Stop of the runner returns, but for the same endless reading.           *)
StopReturns == stopping ~> ~stopping \/ Endless(job[Cycle].reading)
=============================================================================
