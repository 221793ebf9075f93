--------------------------- MODULE MasterLifecycle ---------------------------
(***************************************************************************)
(* What a client of the EtherCAT master may rely on: the lifecycle of the  *)
(* controller with every operation taken as one step whose result is       *)
(* either the promised state or the documented fallback.                   *)
(*                                                                         *)
(*   state     the ControllerState reported by GetState()                  *)
(*   open      the network adapter (SOEM context) is held                  *)
(*   prepared  a process image exists: every scanned slave has a           *)
(*             configured node, the IO map is built, DC is configured      *)
(*                                                                         *)
(* EcatController is the detailed specification that implements this one.  *)
(***************************************************************************)
VARIABLES state, open, prepared

lifecycleVars == <<state, open, prepared>>

ControllerState == {"Uninitialized", "AdapterReady", "Scanned", "Maintenance",
                    "ReadyToRun", "Operational", "Fault", "EmergencyStop"}

LifecycleInit == state = "Uninitialized" /\ open = FALSE /\ prepared = FALSE

OpenAdapter == /\ state = "Uninitialized"
               /\ state' = "AdapterReady"
               /\ open' = TRUE
               /\ UNCHANGED prepared

DiscoverTopology == /\ state = "AdapterReady"
                    /\ state' = "Scanned"
                    /\ UNCHANGED <<open, prepared>>

ReachMaintenance == /\ state \in {"Scanned", "ReadyToRun", "Operational"}
                    /\ state' = "Maintenance"
                    /\ UNCHANGED <<open, prepared>>

FinishPrepare == /\ state = "Maintenance"
                 /\ state' = "ReadyToRun"
                 /\ prepared' = TRUE
                 /\ UNCHANGED open

ReachOperational == /\ state = "ReadyToRun"
                    /\ state' = "Operational"
                    /\ UNCHANGED <<open, prepared>>

EnterFault == /\ state' = "Fault"
              /\ UNCHANGED <<open, prepared>>

EnterEmergencyStop == /\ state' = "EmergencyStop"
                      /\ UNCHANGED <<open, prepared>>

(* Stop, and the fallback of a failed bring-up: everything is released.    *)
Release == /\ state # "Uninitialized"
           /\ state' = "Uninitialized"
           /\ open' = FALSE
           /\ prepared' = FALSE

(***************************************************************************)
(* The operations by name, for the modules that call the controller.  An   *)
(* operation called in a state that does not allow it changes nothing.     *)
(***************************************************************************)
Operation == {"InitializeAdapter", "Scan", "EnterMaintenance", "PrepareRun",
              "StartOperation", "BackToMaintenance", "Stop",
              "RequestFault", "RequestEmergencyStop"}

Allowed(op) ==
  CASE op = "InitializeAdapter" -> state = "Uninitialized"
    [] op = "Scan" -> state = "AdapterReady"
    [] op = "EnterMaintenance" -> state = "Scanned"
    [] op = "PrepareRun" -> state = "Maintenance"
    [] op = "StartOperation" -> state = "ReadyToRun"
    [] op = "BackToMaintenance" -> state \in {"ReadyToRun", "Operational"}
    [] op = "Stop" -> state # "Uninitialized"
    [] op \in {"RequestFault", "RequestEmergencyStop"} -> TRUE

ControllerDoes(op) ==
  \/ op = "InitializeAdapter" /\ (OpenAdapter \/ UNCHANGED lifecycleVars)
  \/ op = "Scan" /\ (DiscoverTopology \/ Release)
  \/ op = "EnterMaintenance" /\ (ReachMaintenance \/ Release)
  \/ op = "PrepareRun" /\ (FinishPrepare \/ EnterFault)
  \/ op = "StartOperation" /\ (ReachOperational \/ EnterFault)
  \/ op = "BackToMaintenance" /\ (ReachMaintenance \/ EnterFault)
  \/ op = "Stop" /\ Release
  \/ op = "RequestFault" /\ EnterFault
  \/ op = "RequestEmergencyStop" /\ EnterEmergencyStop

Dispatch(op) == IF Allowed(op) THEN ControllerDoes(op) ELSE UNCHANGED lifecycleVars

LifecycleNext ==
  \/ OpenAdapter \/ DiscoverTopology \/ ReachMaintenance
  \/ FinishPrepare \/ ReachOperational
  \/ EnterFault \/ EnterEmergencyStop \/ Release

LifecycleSpec == LifecycleInit /\ [][LifecycleNext]_lifecycleVars
=============================================================================
