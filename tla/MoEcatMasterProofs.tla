-------------------------- MODULE MoEcatMasterProofs --------------------------
(***************************************************************************)
(* The properties of the facade, for any check interval, service period    *)
(* and depth of nested calls.                                              *)
(*                                                                         *)
(* All but the last hold whatever the application calls from its           *)
(* callbacks.  That no process data is exchanged inside a transition takes *)
(* an application that reacts there by leaving the run (Reactions): an     *)
(* operation inside a callback clears the override of the one around it.   *)
(***************************************************************************)
EXTENDS MoEcatMaster, SequenceTheorems, TLAPS

Frames == [op : Operation, callback : {"begin", "end"}]
            \cup [op : {"Service"}, callback : {"state", "runtime"}]

ValidStates == {r \in MasterRuntimeState : IsValidRuntimeState(r)}
Unstable == {r \in ValidStates : r.transition # "Stable"}

(* The override is never a stable state, so it keeps Service from checking *)
(* and exchanging, and it stands only while an operation is in its first   *)
(* callback.                                                               *)
Beginning == \E i \in DOMAIN calls : calls[i].callback = "begin"

Structure ==
  /\ state \in ControllerState /\ open \in BOOLEAN /\ prepared \in BOOLEAN
  /\ calls \in Seq(Frames) /\ Len(calls) <= MaxDepth
  /\ override = <<>> \/ \E r \in Unstable : override = <<r>>
  /\ override # <<>> => Beginning

(* What listeners are told is up to date except inside on_state_changed.   *)
Heard ==
  /\ heard \in ValidStates /\ heardState \in ControllerState
  /\ exchanged \in BOOLEAN
  /\ calls = <<>> \/ Top.callback # "state" => heard = CurrentRuntimeState

(* A slave can be dropped for longer than the last check is ago only when  *)
(* the next check is due, and then the main loop has not come round yet.   *)
Clock ==
  /\ dropped \in BOOLEAN /\ dropAge \in Nat
  /\ sinceCheck \in 0..Interval /\ sinceService \in 0..Period
  /\ dropAge > 0 => dropped /\ Monitored
  /\ sinceCheck < Interval => dropAge <= sinceCheck
  /\ sinceCheck = Interval => dropAge <= Interval + sinceService

(***************************************************************************)
(* Runtime states.                                                         *)
(***************************************************************************)
(* The runtime state of every controller state is a valid stable one.      *)
LEMMA StableStates ==
  ASSUME NEW st \in ControllerState
  PROVE  /\ ToMasterRuntimeState(st) \in ValidStates
         /\ ToMasterRuntimeState(st).transition = "Stable"
         /\ ShouldCheckPreOpSlaves(ToMasterRuntimeState(st)) => st = "Maintenance"
         /\ CanRunProcessData(ToMasterRuntimeState(st)) => st = "Operational"
         /\ st \in {"Maintenance", "Operational"}
              => \/ ShouldCheckPreOpSlaves(ToMasterRuntimeState(st))
                 \/ CanRunProcessData(ToMasterRuntimeState(st))
BY DEF ControllerState, ToMasterRuntimeState, Runtime, ModeOf, StageOf, ValidStates, MasterRuntimeState,
   MasterMode, TransitionStage, PrepareStage, IsValidRuntimeState, ShouldCheckPreOpSlaves, CanRunProcessData

LEMMA CurrentIsValid ==
  ASSUME Structure
  PROVE  /\ CurrentRuntimeState \in ValidStates
         /\ override = <<>> => CurrentRuntimeState = ToMasterRuntimeState(state)
         /\ override # <<>> => CurrentRuntimeState = override[1] /\ override[1] \in Unstable
BY StableStates DEF Structure, CurrentRuntimeState, Unstable

(* What Service may do: an override keeps it off the slaves, and without   *)
(* one it checks in Maintenance and Operational.                           *)
LEMMA ServiceRuntime ==
  ASSUME Structure
  PROVE  /\ override # <<>> => /\ ~ShouldCheckPreOpSlaves(CurrentRuntimeState)
                               /\ ~CanRunProcessData(CurrentRuntimeState)
         /\ ShouldCheckPreOpSlaves(CurrentRuntimeState) => state = "Maintenance"
         /\ CanRunProcessData(CurrentRuntimeState) => state = "Operational"
         /\ override = <<>> /\ Monitored => \/ ShouldCheckPreOpSlaves(CurrentRuntimeState)
                                            \/ CanRunProcessData(CurrentRuntimeState)
<1>1. CASE override = <<>>
  BY <1>1, CurrentIsValid, StableStates DEF Structure, Monitored
<1>2. CASE override # <<>>
  BY <1>2, CurrentIsValid DEF Unstable, ShouldCheckPreOpSlaves, CanRunProcessData, Runtime
<1> QED
  BY <1>1, <1>2

(* Every operation announces a state that is not stable.                   *)
LEMMA AnnouncedIsUnstable ==
  ASSUME Structure, NEW op \in Operation
  PROVE  IF IsValidRuntimeState(Announced(op)) THEN Announced(op) \in Unstable
                                               ELSE Runtime("Fault", "Entering", "None") \in Unstable
<1> USE DEF Unstable, ValidStates, MasterRuntimeState, MasterMode, TransitionStage, PrepareStage,
            IsValidRuntimeState, Runtime
<1>1. CurrentRuntimeState \in ValidStates
  BY CurrentIsValid
<1>2. CASE op = "Stop"
  BY <1>1, <1>2 DEF Announced
<1>3. CASE op = "BackToMaintenance"
  BY <1>3 DEF Announced
<1>4. CASE op \in Operation \ {"Stop", "BackToMaintenance"}
  BY <1>4 DEF Announced, Operation
<1> QED
  BY <1>2, <1>3, <1>4

(***************************************************************************)
(* The stack of calls.                                                     *)
(***************************************************************************)
LEMMA Pushed ==
  ASSUME NEW s \in Seq(Frames), NEW f \in Frames
  PROVE  /\ Append(s, f) \in Seq(Frames) /\ Len(Append(s, f)) = Len(s) + 1
         /\ \A i \in 1..Len(s) : Append(s, f)[i] = s[i]
         /\ Append(s, f)[Len(s) + 1] = f
BY AppendProperties

LEMMA Replaced ==
  ASSUME NEW s \in Seq(Frames), s # <<>>, NEW f \in Frames
  PROVE  LET t == [s EXCEPT ![Len(s)] = f]
         IN  /\ t \in Seq(Frames) /\ Len(t) = Len(s) /\ t # <<>>
             /\ \A i \in 1..(Len(s) - 1) : t[i] = s[i]
             /\ t[Len(s)] = f
BY ExceptSeq, LenProperties

LEMMA Popped ==
  ASSUME NEW s \in Seq(Frames), s # <<>>
  PROVE  LET t == SubSeq(s, 1, Len(s) - 1)
         IN  /\ t \in Seq(Frames) /\ Len(t) = Len(s) - 1
             /\ \A i \in 1..(Len(s) - 1) : t[i] = s[i]
<1>1. Len(s) \in Nat \ {0} /\ \A i \in 1..Len(s) : s[i] \in Frames
  BY LenProperties, EmptySeq
<1> DEFINE n == Len(s) - 1
<1>2. n \in Nat /\ \A i \in 1..n : s[i] \in Frames
  BY <1>1
<1>3. /\ SubSeq(s, 1, n) \in Seq(Frames)
      /\ Len(SubSeq(s, 1, n)) = (IF 1 <= n THEN n - 1 + 1 ELSE 0)
      /\ \A i \in 1..(n - 1 + 1) : SubSeq(s, 1, n)[i] = s[1 + i - 1]
  <2> HIDE DEF n
  <2> QED
    BY <1>2, SubSeqProperties
<1>4. /\ (IF 1 <= n THEN n - 1 + 1 ELSE 0) = n /\ n - 1 + 1 = n
      /\ \A i \in 1..n : 1 + i - 1 = i
  <2> HIDE DEF n
  <2>1. n \in Nat
    BY <1>2
  <2> QED
    BY <2>1
<1>5. Len(SubSeq(s, 1, n)) = n /\ \A i \in 1..n : SubSeq(s, 1, n)[i] = s[i]
  BY <1>3, <1>4
<1> QED
  BY <1>3, <1>5

(***************************************************************************)
(* The controller.                                                         *)
(***************************************************************************)
(* An operation that the controller carries out leaves it in one of its    *)
(* states; the ones that leave the run end outside of it.                  *)
Reactions == {"Service", "Stop", "RequestFault", "RequestEmergencyStop"}

LEMMA DispatchResult ==
  ASSUME NEW op \in Operation, Dispatch(op), Structure
  PROVE  /\ state' \in ControllerState /\ open' \in BOOLEAN /\ prepared' \in BOOLEAN
         /\ op \in Reactions => state' \in {"Uninitialized", "Fault", "EmergencyStop"}
<1> USE DEF ControllerState, Structure
<1>1. CASE UNCHANGED lifecycleVars /\ ~Allowed(op)
  BY <1>1 DEF lifecycleVars, Allowed, Reactions, Operation
<1>2. CASE Allowed(op) /\ ControllerDoes(op)
  <2>1. \/ OpenAdapter \/ DiscoverTopology \/ ReachMaintenance \/ FinishPrepare \/ ReachOperational
        \/ EnterFault \/ EnterEmergencyStop \/ Release \/ UNCHANGED lifecycleVars
    BY <1>2 DEF ControllerDoes
  <2>2. state' \in ControllerState /\ open' \in BOOLEAN /\ prepared' \in BOOLEAN
    BY <2>1 DEF OpenAdapter, DiscoverTopology, ReachMaintenance, FinishPrepare,
       ReachOperational, EnterFault, EnterEmergencyStop, Release, lifecycleVars
  <2>3. op \in Reactions => state' \in {"Uninitialized", "Fault", "EmergencyStop"}
    BY <1>2 DEF ControllerDoes, EnterFault, EnterEmergencyStop, Release, Reactions, Operation
  <2> QED
    BY <2>2, <2>3
<1> QED
  BY <1>1, <1>2 DEF Dispatch

(***************************************************************************)
(* Every step keeps the structure: the stack, and an override under it.    *)
(***************************************************************************)
LEMMA StructureInit == Init => Structure
<1> SUFFICES ASSUME Init PROVE Structure
  OBVIOUS
<1>1. calls = <<>> /\ override = <<>> /\ <<>> \in Seq(Frames)
  BY EmptySeq DEF Init
<1>2. state \in ControllerState /\ open \in BOOLEAN /\ prepared \in BOOLEAN
  BY DEF Init, LifecycleInit, ControllerState
<1> QED
  BY <1>1, <1>2, TimesAssumption DEF Structure

(* Service changes the controller's state to Fault or not at all.          *)
LEMMA ServiceEffect ==
  ASSUME Structure, Service
  PROVE  /\ UNCHANGED <<open, prepared, override, heard, dropped>>
         /\ \/ UNCHANGED <<state, calls, heardState>>
            \/ /\ state' = "Fault" /\ state # "Fault" /\ heardState' = state'
               /\ calls' = Append(calls, Frame("Service", "state"))
               /\ override = <<>> /\ Monitored /\ dropped
<1>1. UNCHANGED <<open, prepared>> /\ (UNCHANGED state \/ (state' = "Fault" /\ Monitored /\ dropped))
  BY DEF Service, CheckSlaveStates, EnterFault, lifecycleVars, Monitored
<1>2. state' # state => ShouldCheckPreOpSlaves(CurrentRuntimeState) \/ CanRunProcessData(CurrentRuntimeState)
  BY DEF Service, lifecycleVars
<1>3. state' # state => override = <<>>
  BY <1>2, ServiceRuntime
<1> QED
  BY <1>1, <1>3 DEF Service

LEMMA StructureStep == Structure /\ [Next]_vars => Structure'
<1> SUFFICES ASSUME Structure, [Next]_vars PROVE Structure'
  OBVIOUS
<1> USE TimesAssumption DEF Structure, Beginning
<1>1. ASSUME NEW op \in Operation, Call(op)
      PROVE  Structure'
  <2>1. Frame(op, "begin") \in Frames /\ Frame(op, "begin").callback = "begin"
    BY DEF Frames, Frame
  <2>2. calls' = Append(calls, Frame(op, "begin")) /\ UNCHANGED <<state, open, prepared>>
    BY <1>1 DEF Call, lifecycleVars
  <2>3. /\ calls' \in Seq(Frames) /\ Len(calls') = Len(calls) + 1
        /\ calls'[Len(calls) + 1] = Frame(op, "begin")
    BY <2>1, <2>2, Pushed
  <2>4. Len(calls') <= MaxDepth
    BY <1>1, <2>3 DEF Call, MayCall
  <2>5. \E r \in Unstable : override' = <<r>>
    BY <1>1, AnnouncedIsUnstable DEF Call
  <2> QED
    BY <2>1, <2>2, <2>3, <2>4, <2>5
<1>2. CASE Perform
  <2>1. Top.op \in Operation
    BY <1>2 DEF Perform, Top, Frames
  <2>2. /\ state' \in ControllerState /\ open' \in BOOLEAN /\ prepared' \in BOOLEAN
        /\ calls # <<>> /\ calls' = Replace(Frame(Top.op, "end")) /\ override' = <<>>
    BY <1>2, <2>1, DispatchResult DEF Perform
  <2>3. Frame(Top.op, "end") \in Frames
    BY <2>1 DEF Frames, Frame
  <2>4. calls' \in Seq(Frames) /\ Len(calls') = Len(calls)
    BY <2>2, <2>3, Replaced DEF Replace
  <2> QED
    BY <2>2, <2>4
<1>3. CASE Service
  <2>1. Frame("Service", "state") \in Frames
    BY DEF Frames, Frame
  <2>2. calls' = Append(calls, Frame("Service", "state"))
          => /\ calls' \in Seq(Frames) /\ Len(calls') = Len(calls) + 1
             /\ \A i \in 1..Len(calls) : calls'[i] = calls[i]
    BY <2>1, Pushed
  <2>3. calls # <<>> => Len(calls) < MaxDepth
    BY <1>3 DEF Service, MayCall
  <2> QED
    BY <1>3, <2>2, <2>3, ServiceEffect DEF ControllerState
<1>4. CASE ServiceNotifies
  <2>1. Frame("Service", "runtime") \in Frames
    BY DEF Frames, Frame
  <2>2. /\ calls # <<>> /\ Top.callback = "state" /\ calls' = Replace(Frame("Service", "runtime"))
        /\ UNCHANGED <<state, open, prepared, override>>
    BY <1>4 DEF ServiceNotifies, lifecycleVars
  <2>3. /\ calls' \in Seq(Frames) /\ Len(calls') = Len(calls)
        /\ \A i \in 1..(Len(calls) - 1) : calls'[i] = calls[i]
    BY <2>1, <2>2, Replaced DEF Replace
  <2>4. Beginning => Beginning'
    BY <2>2, <2>3 DEF Top
  <2> QED
    BY <2>2, <2>3, <2>4
<1>5. CASE Return
  <2>1. /\ calls # <<>> /\ Top.callback # "begin" /\ calls' = SubSeq(calls, 1, Len(calls) - 1)
        /\ UNCHANGED <<state, open, prepared, override>>
    BY <1>5 DEF Return, lifecycleVars
  <2>2. /\ calls' \in Seq(Frames) /\ Len(calls') = Len(calls) - 1
        /\ \A i \in 1..(Len(calls) - 1) : calls'[i] = calls[i]
    BY <2>1, Popped
  <2>3. Beginning => Beginning'
    <3>1. Len(calls) \in Nat /\ DOMAIN calls = 1..Len(calls) /\ DOMAIN calls' = 1..(Len(calls) - 1)
      BY <2>2
    <3>2. ASSUME NEW i \in DOMAIN calls, calls[i].callback = "begin"
          PROVE  i \in DOMAIN calls' /\ calls'[i].callback = "begin"
      <4>1. i # Len(calls)
        BY <2>1, <3>2 DEF Top
      <4>2. i \in 1..(Len(calls) - 1)
        BY <3>1, <4>1
      <4> QED
        BY <2>2, <3>1, <3>2, <4>2
    <3> QED
      BY <3>2
  <2>4. Len(calls') <= MaxDepth
    BY <2>2
  <2> QED
    BY <2>1, <2>2, <2>3, <2>4
<1>6. CASE SlaveChanges \/ Tick \/ UNCHANGED vars
  BY <1>6 DEF SlaveChanges, Tick, vars, facadeVars, lifecycleVars
<1> QED
  BY <1>1, <1>2, <1>3, <1>4, <1>5, <1>6 DEF Next

(***************************************************************************)
(* What listeners are told.                                                *)
(***************************************************************************)
LEMMA HeardInit == Init => Heard
BY StableStates DEF Init, LifecycleInit, Heard, CurrentRuntimeState, ControllerState

LEMMA HeardStep == Structure /\ Structure' /\ Heard /\ [Next]_vars => Heard'
<1> SUFFICES ASSUME Structure, Structure', Heard, [Next]_vars PROVE Heard'
  OBVIOUS
<1> USE DEF Heard
<1>1. ASSUME NEW op \in Operation, Call(op)
      PROVE  Heard'
  <2>1. \E r \in Unstable : override' = <<r>> /\ heard' = r
    BY <1>1, AnnouncedIsUnstable DEF Call
  <2>2. UNCHANGED heardState /\ exchanged' = FALSE
    BY <1>1 DEF Call
  <2>3. PICK r \in Unstable : override' = <<r>> /\ heard' = r
    BY <2>1
  <2>4. CurrentRuntimeState' = r
    BY <2>3 DEF CurrentRuntimeState
  <2> QED
    BY <2>2, <2>3, <2>4 DEF Unstable
<1>2. CASE Perform
  <2>1. override' = <<>> /\ heard' = ToMasterRuntimeState(state') /\ UNCHANGED heardState /\ exchanged' = FALSE
    BY <1>2 DEF Perform
  <2>2. CurrentRuntimeState' = ToMasterRuntimeState(state')
    BY <2>1 DEF CurrentRuntimeState, ToMasterRuntimeState, Runtime, ModeOf, StageOf
  <2>3. heard' \in ValidStates
    BY <2>1, StableStates DEF Structure
  <2> QED
    BY <2>1, <2>2, <2>3
<1>3. CASE Service
  <2>1. exchanged' \in BOOLEAN
    BY <1>3 DEF Service
  <2>2. CASE UNCHANGED <<state, calls, heardState>>
    BY <1>3, <2>1, <2>2, ServiceEffect
       DEF CurrentRuntimeState, ToMasterRuntimeState, Runtime, ModeOf, StageOf, Top
  <2>3. CASE state' = "Fault" /\ heardState' = state' /\ calls' = Append(calls, Frame("Service", "state"))
    <3>1. Frame("Service", "state") \in Frames /\ Frame("Service", "state").callback = "state"
      BY DEF Frames, Frame
    <3>2. calls' # <<>> /\ calls'[Len(calls')] = Frame("Service", "state")
      BY <2>3, <3>1, Pushed DEF Structure
    <3> QED
      BY <1>3, <2>1, <2>3, <3>1, <3>2, ServiceEffect DEF Structure, Top
  <2> QED
    BY <1>3, <2>2, <2>3, ServiceEffect
<1>4. CASE ServiceNotifies
  <2>1. /\ UNCHANGED <<state, override, heardState>> /\ exchanged' = FALSE
        /\ heard' = CurrentRuntimeState
    BY <1>4 DEF ServiceNotifies, lifecycleVars
  <2>2. CurrentRuntimeState' = CurrentRuntimeState
    BY <2>1 DEF CurrentRuntimeState, ToMasterRuntimeState, Runtime, ModeOf, StageOf
  <2> QED
    BY <2>1, <2>2, CurrentIsValid
<1>5. CASE Return
  <2>1. /\ UNCHANGED <<state, override, heard, heardState>> /\ exchanged' = FALSE
        /\ calls # <<>> /\ Top.callback # "state"
    BY <1>5 DEF Return, lifecycleVars
  <2> QED
    BY <2>1 DEF CurrentRuntimeState, ToMasterRuntimeState, Runtime, ModeOf, StageOf
<1>6. CASE SlaveChanges \/ Tick \/ UNCHANGED vars
  <2>1. UNCHANGED <<state, override, calls, heard, heardState>> /\ exchanged' \in BOOLEAN
    BY <1>6 DEF SlaveChanges, Tick, vars, facadeVars, lifecycleVars
  <2> QED
    BY <2>1 DEF CurrentRuntimeState, ToMasterRuntimeState, Runtime, ModeOf, StageOf, Top
<1> QED
  BY <1>1, <1>2, <1>3, <1>4, <1>5, <1>6 DEF Next

(***************************************************************************)
(* The throttled check against the time a slave has been dropped.          *)
(***************************************************************************)
LEMMA ClockInit == Init => Clock
<1> SUFFICES ASSUME Init PROVE Clock
  OBVIOUS
<1>1. dropped = FALSE /\ dropAge = 0 /\ sinceCheck = Interval /\ sinceService = 0
  BY DEF Init
<1>2. dropped \in BOOLEAN
  BY <1>1
<1> QED
  BY <1>1, <1>2, TimesAssumption DEF Clock

(* A check that is due ends in a fault when a slave has been dropped, and  *)
(* the main loop's Service makes every check that is due.                  *)
LEMMA ServiceClock ==
  ASSUME Structure, Clock, Service
  PROVE  Clock'
<1> USE TimesAssumption DEF Clock
<1>1. /\ UNCHANGED dropped /\ dropAge' = (IF state' = state THEN dropAge ELSE 0)
      /\ sinceService' = (IF calls = <<>> THEN 0 ELSE sinceService)
  BY DEF Service
<1>2. CASE state' # state
  <2>1. sinceCheck' = 0 /\ dropAge' = 0
    BY <1>1, <1>2 DEF Service, CheckSlaveStates, lifecycleVars
  <2> QED
    BY <1>1, <2>1
<1>3. CASE state' = state /\ sinceCheck' = sinceCheck
  <2>1. Monitored' <=> Monitored
    BY <1>3 DEF Monitored
  <2>2. CASE sinceCheck < Interval \/ calls # <<>> \/ dropAge = 0
    BY <1>1, <1>3, <2>1, <2>2
  <2>3. CASE sinceCheck = Interval /\ calls = <<>> /\ dropAge > 0
    <3>1. override = <<>> /\ Monitored /\ dropped
      BY <2>3 DEF Structure, Beginning
    <3>2. CheckSlaveStates
      BY <3>1, ServiceRuntime DEF Service
    <3>3. state' = "Fault" /\ state # "Fault"
      BY <2>3, <3>1, <3>2 DEF CheckSlaveStates, Monitored, EnterFault
    <3> QED
      BY <1>3, <3>3
  <2> QED
    BY <2>2, <2>3
<1>4. CASE state' = state /\ sinceCheck' # sinceCheck
  <2>1. CheckSlaveStates /\ Monitored
    BY <1>4, ServiceRuntime DEF Service, Monitored
  <2>2. sinceCheck' = 0 /\ ~dropped
    BY <1>4, <2>1 DEF CheckSlaveStates, Monitored, EnterFault
  <2> QED
    BY <1>1, <1>4, <2>2
<1> QED
  BY <1>2, <1>3, <1>4

LEMMA ClockStep == Structure /\ Clock /\ [Next]_vars => Clock'
<1> SUFFICES ASSUME Structure, Clock, [Next]_vars PROVE Clock'
  OBVIOUS
<1> USE TimesAssumption DEF Clock
<1>1. CASE Perform
  <2>1. /\ UNCHANGED <<sinceCheck, sinceService>> /\ dropped' \in BOOLEAN
        /\ dropAge' = (IF state' = state THEN dropAge ELSE 0)
        /\ state' = state => UNCHANGED dropped
    BY <1>1 DEF Perform
  <2> QED
    BY <2>1 DEF Monitored
<1>2. CASE Tick
  BY <1>2 DEF Tick, Monitored, lifecycleVars
<1>3. CASE SlaveChanges
  BY <1>3 DEF SlaveChanges, lifecycleVars
<1>4. CASE (\E op \in Operation : Call(op)) \/ ServiceNotifies \/ Return \/ UNCHANGED vars
  BY <1>4 DEF Call, ServiceNotifies, Return, vars, slaveVars, lifecycleVars, Monitored
<1> QED
  BY <1>1, <1>2, <1>3, <1>4, ServiceClock DEF Next

IInv == Structure /\ Heard /\ Clock

THEOREM Inductive == Spec => []IInv
<1>1. Init => IInv
  BY StructureInit, HeardInit, ClockInit DEF IInv
<1>2. IInv /\ [Next]_vars => IInv'
  BY StructureStep, HeardStep, ClockStep DEF IInv
<1> QED
  BY <1>1, <1>2, PTL DEF Spec

(* Types, and only valid runtime states are published.                     *)
THEOREM TypeCorrect == Spec => []TypeOK
<1>1. ASSUME IInv PROVE TypeOK
  BY <1>1 DEF IInv, Structure, Heard, Clock, TypeOK, ValidStates, Unstable
<1> QED
  BY <1>1, Inductive, PTL

(* When the library is idle, listeners know the runtime state it has.      *)
THEOREM ListenersAreInSync == Spec => []ListenerInSync
<1>1. IInv => ListenerInSync
  BY DEF IInv, Heard, ListenerInSync
<1> QED
  BY <1>1, Inductive, PTL

(* A dropped slave is a fault within one interval and one period.          *)
THEOREM DropsAreNoticed == Spec => []DropNoticedInTime
<1>1. ASSUME IInv PROVE DropNoticedInTime
  BY <1>1, TimesAssumption DEF IInv, Clock, DropNoticedInTime
<1> QED
  BY <1>1, Inductive, PTL

(***************************************************************************)
(* Process data and transitions.  With Reactions only the outermost        *)
(* operation can lead into Operational, and by the time it does no other   *)
(* one is in its first callback.                                           *)
(***************************************************************************)
Outside == {"Uninitialized", "Fault", "EmergencyStop"}

Leaving ==
  /\ Beginning => override # <<>> \/ state \in Outside
  /\ \A i \in 2..Len(calls) : calls[i].op \in Reactions

LEMMA LeavingStep ==
  ASSUME FromCallback \subseteq Reactions, Structure, Leaving, [Next]_vars
  PROVE  Leaving'
<1> DEFINE n == Len(calls)
<1>0. n \in Nat /\ DOMAIN calls = 1..n /\ calls \in Seq(Frames) /\ \A i \in 1..n : calls[i] \in Frames
  BY DEF Structure
<1> HIDE DEF n
<1> USE DEF Leaving, Beginning
<1>1. ASSUME NEW op \in Operation, Call(op)
      PROVE  Leaving'
  <2>1. Frame(op, "begin") \in Frames /\ Frame(op, "begin").op = op
    BY DEF Frames, Frame
  <2>2. /\ Len(calls') = n + 1 /\ calls'[n + 1] = Frame(op, "begin")
        /\ \A i \in 1..n : calls'[i] = calls[i]
    BY <1>0, <1>1, <2>1, Pushed DEF Call, n
  <2>3. n >= 1 => op \in Reactions
    BY <1>0, <1>1, EmptySeq DEF Call, MayCall, n
  <2>4. \A i \in 2..(n + 1) : calls'[i].op \in Reactions
    BY <1>0, <2>1, <2>2, <2>3 DEF n
  <2>5. override' # <<>>
    BY <1>1 DEF Call
  <2> QED
    BY <2>2, <2>4, <2>5
<1>2. CASE Perform
  <2>1. calls # <<>> /\ Top \in Frames /\ Top.callback = "begin" /\ Top = calls[n] /\ n >= 1
    BY <1>0, <1>2, EmptySeq DEF Perform, Top, n
  <2>2. Top.op \in Operation
    BY <2>1 DEF Frames
  <2>3. Frame(Top.op, "end") \in Frames /\ Frame(Top.op, "end").op = Top.op /\ Frame(Top.op, "end").callback = "end"
    BY <2>2 DEF Frames, Frame
  <2>4. /\ calls' \in Seq(Frames) /\ Len(calls') = n /\ calls'[n] = Frame(Top.op, "end")
        /\ \A i \in 1..(n - 1) : calls'[i] = calls[i]
    <3>1. calls' = [calls EXCEPT ![Len(calls)] = Frame(Top.op, "end")]
      BY <1>2 DEF Perform, Replace
    <3> HIDE DEF Leaving, Beginning
    <3> QED
      BY <2>1, <2>3, <3>1, Replaced DEF Structure, n
  <2>5. \A i \in 2..n : calls'[i].op \in Reactions
    BY <1>0, <2>1, <2>3, <2>4 DEF n
  <2>6. n >= 2 => state' \in Outside
    BY <1>2, <2>1, <2>2, DispatchResult DEF Perform, Outside, n
  <2>7. n = 1 => ~Beginning'
    BY <2>3, <2>4
  <2> QED
    BY <2>1, <2>4, <2>5, <2>6, <2>7, <1>0
<1>3. CASE Service
  <2>1. CASE UNCHANGED <<state, calls, override>>
    BY <2>1
  <2>2. CASE UNCHANGED override /\ state' = "Fault" /\ calls' = Append(calls, Frame("Service", "state"))
    <3>1. Frame("Service", "state") \in Frames /\ Frame("Service", "state").op = "Service"
      BY DEF Frames, Frame
    <3>2. /\ Len(calls') = n + 1 /\ calls'[n + 1] = Frame("Service", "state")
          /\ \A i \in 1..n : calls'[i] = calls[i]
      BY <1>0, <2>2, <3>1, Pushed DEF n
    <3>3. \A i \in 2..(n + 1) : calls'[i].op \in Reactions
      BY <1>0, <3>1, <3>2 DEF Reactions, n
    <3> QED
      BY <2>2, <3>2, <3>3 DEF Outside
  <2> QED
    BY <1>3, <2>1, <2>2, ServiceEffect
<1>4. CASE ServiceNotifies
  <2>1. calls # <<>> /\ Top = calls[n] /\ n >= 1 /\ UNCHANGED <<state, override>>
    BY <1>0, <1>4, EmptySeq DEF ServiceNotifies, Top, lifecycleVars, n
  <2>2. /\ Frame("Service", "runtime") \in Frames /\ Frame("Service", "runtime").op = "Service"
        /\ Frame("Service", "runtime").callback = "runtime"
    BY DEF Frames, Frame
  <2>3. /\ calls' \in Seq(Frames) /\ Len(calls') = n /\ calls'[n] = Frame("Service", "runtime")
        /\ \A i \in 1..(n - 1) : calls'[i] = calls[i]
    <3>1. calls' = [calls EXCEPT ![Len(calls)] = Frame("Service", "runtime")]
      BY <1>4 DEF ServiceNotifies, Replace
    <3> HIDE DEF Leaving, Beginning
    <3> QED
      BY <2>1, <2>2, <3>1, Replaced DEF Structure, n
  <2>4. \A i \in 2..n : calls'[i].op \in Reactions
    BY <1>0, <2>1, <2>2, <2>3 DEF Reactions, n
  <2>5. Beginning' => Beginning
    <3>1. ASSUME NEW i \in DOMAIN calls', calls'[i].callback = "begin"
          PROVE  i \in DOMAIN calls /\ calls[i].callback = "begin"
      BY <1>0, <2>2, <2>3, <3>1
    <3> QED
      BY <3>1
  <2> QED
    BY <2>1, <2>3, <2>4, <2>5
<1>5. CASE Return
  <2>1. calls # <<>> /\ n >= 1 /\ UNCHANGED <<state, override>>
    BY <1>0, <1>5, EmptySeq DEF Return, lifecycleVars, n
  <2>2. /\ calls' \in Seq(Frames) /\ Len(calls') = n - 1
        /\ \A i \in 1..(n - 1) : calls'[i] = calls[i]
    BY <1>0, <1>5, <2>1, Popped DEF Return, n
  <2>3. \A i \in 2..(n - 1) : calls'[i].op \in Reactions
    BY <1>0, <2>1, <2>2 DEF n
  <2>4. Beginning' => Beginning
    <3>1. ASSUME NEW i \in DOMAIN calls', calls'[i].callback = "begin"
          PROVE  i \in DOMAIN calls /\ calls[i].callback = "begin"
      BY <1>0, <2>1, <2>2, <3>1
    <3> QED
      BY <3>1
  <2> QED
    BY <2>1, <2>2, <2>3, <2>4
<1>6. CASE SlaveChanges \/ Tick \/ UNCHANGED vars
  BY <1>6 DEF SlaveChanges, Tick, vars, facadeVars, lifecycleVars
<1> QED
  BY <1>1, <1>2, <1>3, <1>4, <1>5, <1>6 DEF Next

(* Only Service exchanges, in Operational and without an override.         *)
LEMMA ExchangeStep ==
  ASSUME Structure, Leaving, [Next]_vars
  PROVE  [exchanged' => state = "Operational" /\ \A i \in DOMAIN calls : calls[i].callback # "begin"]_vars
<1>1. CASE Service
  <2>1. exchanged' => state = "Operational" /\ override = <<>>
    BY <1>1, ServiceRuntime DEF Service
  <2> QED
    BY <2>1 DEF Leaving, Beginning, Outside
<1>2. CASE (\E op \in Operation : Call(op)) \/ Perform \/ ServiceNotifies \/ Return \/ SlaveChanges \/ Tick
  BY <1>2 DEF Call, Perform, ServiceNotifies, Return, SlaveChanges, Tick
<1>3. CASE UNCHANGED vars
  BY <1>3
<1> QED
  BY <1>1, <1>2, <1>3 DEF Next

(* No exchange beside an announced operation that is yet to be carried     *)
(* out, for an application that leaves the run from its callbacks.         *)
THEOREM QuietTransitions ==
  ASSUME FromCallback \subseteq Reactions
  PROVE  Spec => NoExchangeDuringTransition
<1>1. Init => Structure /\ Leaving
  <2> SUFFICES ASSUME Init PROVE Leaving
    BY StructureInit
  <2>1. calls = <<>>
    BY DEF Init
  <2> QED
    BY <2>1 DEF Leaving, Beginning
<1>2. Structure /\ Leaving /\ [Next]_vars => Structure' /\ Leaving'
  BY StructureStep, LeavingStep
<1>3. Structure /\ Leaving /\ [Next]_vars
        => [exchanged' => state = "Operational" /\ \A i \in DOMAIN calls : calls[i].callback # "begin"]_vars
  BY ExchangeStep
<1> QED
  BY <1>1, <1>2, <1>3, PTL DEF Spec, NoExchangeDuringTransition
=============================================================================
