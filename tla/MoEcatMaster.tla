---------------------------- MODULE MoEcatMaster ----------------------------
(***************************************************************************)
(* MoEcatMaster::Impl, the public face of the library, and the             *)
(* ProcessDataEngine it services: what listeners are told, when process    *)
(* data is exchanged, and how soon a dropped slave is noticed.             *)
(*                                                                         *)
(* The controller behind it is MasterLifecycle, which EcatController       *)
(* implements, so each controller operation is one step here.  What is not *)
(* atomic is the listener: every operation calls on_runtime_state_changed  *)
(* before and after the controller, in the caller's thread, and the        *)
(* application may call the library again from there.  calls is the stack  *)
(* of the operations that are inside a callback.                           *)
(*                                                                         *)
(* Time is counted in ticks; library calls take none.                      *)
(***************************************************************************)
EXTENDS MasterLifecycle, Naturals, Sequences

CONSTANTS
  Interval,    \* kStateCheckInterval, in ticks
  Period,      \* the caller's main loop calls Service at least this often
  MaxDepth,    \* bound on nested calls
  FromCallback \* the operations the application calls from a callback

ASSUME TimesAssumption == Interval \in Nat /\ Period \in Nat \ {0} /\ MaxDepth \in Nat \ {0}
ASSUME CallbackAssumption == FromCallback \subseteq Operation \cup {"Service"}

VARIABLES
  override,     \* runtime_state_override_: <<>> or <<runtime state>>
  calls,        \* the operations that are inside a callback, innermost last
  heard,        \* the last argument of on_runtime_state_changed
  heardState,   \* the last new_state given to on_state_changed
  dropped,      \* some slave is not in the AL state its master state asks for
  exchanged,    \* the last step exchanged process data
  sinceCheck,   \* ticks since last_state_check_time_, at most Interval
  sinceService, \* ticks since the main loop called Service
  dropAge       \* ticks a slave has been dropped in a monitored state

facadeVars == <<override, calls, heard, heardState, exchanged>>
slaveVars == <<dropped, sinceCheck, sinceService, dropAge>>
vars == <<lifecycleVars, facadeVars, slaveVars>>

(***************************************************************************)
(* Runtime states.                                                         *)
(***************************************************************************)
MasterMode == {"Init", "Prepare", "Run", "Fault", "EmergencyStop"}
TransitionStage == {"Entering", "Stable", "Exiting"}
PrepareStage == {"None", "AdapterReady", "TopologyDiscovered", "PreOpMaintenance", "SafeOpReady"}
MasterRuntimeState ==
  [mode : MasterMode, transition : TransitionStage, stage : PrepareStage]

Runtime(mode, transition, stage) == [mode |-> mode, transition |-> transition, stage |-> stage]

IsValidRuntimeState(r) == r.mode # "Prepare" => r.stage = "None"

ModeOf(st) ==
  CASE st = "Uninitialized" -> "Init"
    [] st \in {"AdapterReady", "Scanned", "Maintenance", "ReadyToRun"} -> "Prepare"
    [] st = "Operational" -> "Run"
    [] st \in {"Fault", "EmergencyStop"} -> st

(* Mutant: the stage of the preparation is left standing after it.         *)
StageKept(st) ==
  CASE st = "Uninitialized" -> "None"
    [] st = "AdapterReady" -> "AdapterReady"
    [] st = "Scanned" -> "TopologyDiscovered"
    [] st = "Maintenance" -> "PreOpMaintenance"
    [] OTHER -> "SafeOpReady"

StageOf(st) ==
  CASE st = "AdapterReady" -> "AdapterReady"
    [] st = "Scanned" -> "TopologyDiscovered"
    [] st = "Maintenance" -> "PreOpMaintenance"
    [] st = "ReadyToRun" -> "SafeOpReady"
    [] OTHER -> "None"

ToMasterRuntimeState(st) == Runtime(ModeOf(st), "Stable", StageOf(st))

CurrentRuntimeState == IF override # <<>> THEN override[1] ELSE ToMasterRuntimeState(state)

ShouldCheckPreOpSlaves(r) == r = Runtime("Prepare", "Stable", "PreOpMaintenance")
CanRunProcessData(r) == r = Runtime("Run", "Stable", "None")

(* The state each operation announces before it calls the controller.      *)
Announced(op) ==
  CASE op = "InitializeAdapter" -> Runtime("Prepare", "Entering", "AdapterReady")
    [] op = "Scan" -> Runtime("Prepare", "Entering", "TopologyDiscovered")
    [] op = "EnterMaintenance" -> Runtime("Prepare", "Entering", "PreOpMaintenance")
    [] op = "PrepareRun" -> Runtime("Prepare", "Entering", "SafeOpReady")
    [] op = "StartOperation" -> Runtime("Run", "Entering", "None")
    [] op = "BackToMaintenance" ->
         IF CurrentRuntimeState.mode = "Run" THEN Runtime("Run", "Exiting", "None")
         ELSE Runtime("Prepare", "Entering", "PreOpMaintenance")
    [] op = "Stop" -> [CurrentRuntimeState EXCEPT !.transition = "Exiting"]
    [] op = "RequestFault" -> Runtime("Fault", "Entering", "None")
    [] op = "RequestEmergencyStop" -> Runtime("EmergencyStop", "Entering", "None")

(***************************************************************************)
(* Calls.  A frame is an operation and the callback it is inside: "begin"  *)
(* and "end" are the two notifications of an operation, "state" and        *)
(* "runtime" the two of a Service that changed the state.                  *)
(***************************************************************************)
Frame(op, callback) == [op |-> op, callback |-> callback]
Top == calls[Len(calls)]
Replace(frame) == [calls EXCEPT ![Len(calls)] = frame]

MayCall(op) == calls = <<>> \/ (Len(calls) < MaxDepth /\ op \in FromCallback)

Init == /\ LifecycleInit
        /\ override = <<>> /\ calls = <<>>
        /\ heard = ToMasterRuntimeState("Uninitialized")
        /\ heardState = "Uninitialized"
        /\ dropped = FALSE /\ exchanged = FALSE
        /\ sinceCheck = Interval /\ sinceService = 0 /\ dropAge = 0

(* Mutant: the listener is told before the override is set.                *)
CallBeforeOverride(op) ==
  /\ MayCall(op)
  /\ heard' = Announced(op)
  /\ calls' = Append(calls, Frame(op, "begin"))
  /\ exchanged' = FALSE
  /\ UNCHANGED <<lifecycleVars, slaveVars, override, heardState>>

(* BeginRuntimeTransition, up to the callback.                             *)
Call(op) ==
  /\ MayCall(op)
  /\ LET announced == IF IsValidRuntimeState(Announced(op)) THEN Announced(op)
                      ELSE Runtime("Fault", "Entering", "None")
     IN  override' = <<announced>> /\ heard' = announced
  /\ calls' = Append(calls, Frame(op, "begin"))
  /\ exchanged' = FALSE
  /\ UNCHANGED <<lifecycleVars, slaveVars, heardState>>

(* The first callback returns: the controller, then EndRuntimeTransition   *)
(* up to its callback.  Maintenance and Operational are entered only with  *)
(* every slave checked.                                                    *)
Perform ==
  /\ calls # <<>> /\ Top.callback = "begin"
  /\ Dispatch(Top.op)
  /\ IF state' # state /\ state' \in {"Maintenance", "Operational"}
       THEN dropped' = FALSE ELSE UNCHANGED dropped
  /\ dropAge' = IF state' = state THEN dropAge ELSE 0
  /\ override' = <<>>
  /\ heard' = ToMasterRuntimeState(state')
  /\ calls' = Replace(Frame(Top.op, "end"))
  /\ exchanged' = FALSE
  /\ UNCHANGED <<heardState, sinceCheck, sinceService>>

(* Mutant: the time of the check is taken before the throttle looks at it. *)
CheckSlaveStatesRestarted ==
  /\ sinceCheck' = 0
  /\ IF sinceCheck >= Interval /\ state \in {"Maintenance", "Operational"} /\ dropped
       THEN EnterFault ELSE UNCHANGED lifecycleVars

(* ProcessDataEngine::CheckSlaveStates, throttled.                         *)
CheckSlaveStates ==
  IF sinceCheck < Interval
    THEN UNCHANGED <<lifecycleVars, sinceCheck>>
    ELSE /\ sinceCheck' = 0
         /\ IF state \in {"Maintenance", "Operational"} /\ dropped
              THEN EnterFault ELSE UNCHANGED lifecycleVars

(* Service up to its first callback, or to its end if the state is still   *)
(* what it was.                                                            *)
Service ==
  LET runtime == CurrentRuntimeState IN
  /\ MayCall("Service")
  /\ IF ShouldCheckPreOpSlaves(runtime) \/ CanRunProcessData(runtime)
       THEN CheckSlaveStates ELSE UNCHANGED <<lifecycleVars, sinceCheck>>
  /\ exchanged' = (CanRunProcessData(runtime) /\ state = "Operational")
  /\ IF state' # state
       THEN heardState' = state' /\ calls' = Append(calls, Frame("Service", "state"))
       ELSE UNCHANGED <<heardState, calls>>
  /\ sinceService' = IF calls = <<>> THEN 0 ELSE sinceService
  /\ dropAge' = IF state' = state THEN dropAge ELSE 0
  /\ UNCHANGED <<override, heard, dropped>>

(* Mutant: Service reports the state change to the old listener only.      *)
ServiceForgetsRuntime ==
  /\ calls # <<>> /\ Top.callback = "state"
  /\ calls' = Replace(Frame("Service", "runtime"))
  /\ exchanged' = FALSE
  /\ UNCHANGED <<lifecycleVars, slaveVars, override, heard, heardState>>

(* on_state_changed returns: NotifyRuntimeStateChanged.                    *)
ServiceNotifies ==
  /\ calls # <<>> /\ Top.callback = "state"
  /\ heard' = CurrentRuntimeState
  /\ calls' = Replace(Frame("Service", "runtime"))
  /\ exchanged' = FALSE
  /\ UNCHANGED <<lifecycleVars, slaveVars, override, heardState>>

Return ==
  /\ calls # <<>> /\ Top.callback \in {"end", "runtime"}
  /\ calls' = SubSeq(calls, 1, Len(calls) - 1)
  /\ exchanged' = FALSE
  /\ UNCHANGED <<lifecycleVars, slaveVars, override, heard, heardState>>

(***************************************************************************)
(* The slaves and the clock.                                               *)
(***************************************************************************)
SlaveChanges ==
  /\ dropped' = ~dropped /\ dropAge' = 0 /\ exchanged' = FALSE
  /\ UNCHANGED <<lifecycleVars, override, calls, heard, heardState, sinceCheck, sinceService>>

Monitored == state \in {"Maintenance", "Operational"}

Tick ==
  /\ calls = <<>> /\ sinceService < Period
  /\ sinceService' = sinceService + 1
  /\ sinceCheck' = IF sinceCheck < Interval THEN sinceCheck + 1 ELSE Interval
  /\ dropAge' = IF dropped /\ Monitored THEN dropAge + 1 ELSE 0
  /\ exchanged' = FALSE
  /\ UNCHANGED <<lifecycleVars, override, calls, heard, heardState, dropped>>

Next == \/ \E op \in Operation : Call(op)
        \/ Perform \/ Service \/ ServiceNotifies \/ Return
        \/ SlaveChanges \/ Tick

Spec == Init /\ [][Next]_vars

(***************************************************************************)
(* Properties.                                                             *)
(***************************************************************************)
(* Every variable keeps its type, and every runtime state that a listener  *)
(* is given is a valid combination of mode, transition and stage.          *)
TypeOK ==
  /\ state \in ControllerState /\ open \in BOOLEAN /\ prepared \in BOOLEAN
  /\ override = <<>> \/ override \in {<<r>> : r \in MasterRuntimeState}
  /\ Len(calls) <= MaxDepth
  /\ heard \in MasterRuntimeState /\ IsValidRuntimeState(heard)
  /\ heardState \in ControllerState
  /\ dropped \in BOOLEAN /\ exchanged \in BOOLEAN
  /\ sinceCheck \in 0..Interval /\ sinceService \in 0..Period /\ dropAge \in Nat

(* When the library is idle, the last runtime state it published is the    *)
(* one GetRuntimeState returns, however the calls were nested and whoever  *)
(* changed the state, an operation or the slave check of Service.          *)
ListenerInSync == calls = <<>> => heard = CurrentRuntimeState

(* Process data is exchanged only in Operational and never from a callback *)
(* that announces an operation not yet carried out: the override keeps     *)
(* Service, called from there, off the bus.  An operation called inside    *)
(* that callback clears the override when it ends, so this takes callbacks *)
(* that bring nothing up, as the design document asks for.                 *)
NoExchangeDuringTransition ==
  [][exchanged' => /\ state = "Operational"
                   /\ \A i \in DOMAIN calls : calls[i].callback # "begin"]_vars

(* A slave that stays dropped in Maintenance or Operational is turned into *)
(* a fault within one check interval and one service period, across stops, *)
(* restarts and transitions, although the throttle is never reset.         *)
DropNoticedInTime == dropAge <= Interval + Period

(* The design document publishes on_state_changed after every successful   *)
(* transition.                                                             *)
StateListenerInSync == calls = <<>> => heardState = state
=============================================================================
