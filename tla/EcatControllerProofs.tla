------------------------ MODULE EcatControllerProofs ------------------------
(***************************************************************************)
(* Theorems about EcatController, for every set of slaves, number of       *)
(* retries and configuration.                                              *)
(*                                                                         *)
(* The safety properties are not inductive: what holds in ReadyToRun       *)
(* depends on the exchanges PrepareRun made before, so IInv says how far   *)
(* every running operation has come.                                       *)
(***************************************************************************)
EXTENDS EcatController, TLAPS

InSession == state \in {"Scanned", "Maintenance", "ReadyToRun", "Operational"}

(* The controller state does not change while an operation runs, so pc     *)
(* tells which states it may have been called in.                          *)
PcMatchesState ==
  /\ pc \in {"em_preop", "em_check"} => state = "Scanned"
  /\ pc \in {"pr_map", "pr_safeop", "pr_check", "pr_dc"} => state = "Maintenance"
  /\ pc \in {"so_op", "so_check"} => state = "ReadyToRun"
  /\ pc \in {"bm_safeop", "sd_safeop"} => state = "Operational"
  /\ pc \in {"bm_preop", "bm_check"} => state \in {"ReadyToRun", "Operational"}
  /\ pc = "sd_preop" => state \in {"Maintenance", "ReadyToRun", "Operational"}
  /\ pc = "sd_init" => state \notin {"Uninitialized", "AdapterReady", "Scanned"}
  /\ pc = "sd_close" => state # "Uninitialized"

AllConfigured == \A s \in found : nodes[s] = "configured"
NoNodes == \A s \in Slaves : nodes[s] = "absent"

(* What the bring-up has built by the time it reaches each state.          *)
BuiltSoFar ==
  /\ InSession => TopologyAccepted(found)
  /\ state \in {"Uninitialized", "AdapterReady", "Scanned"} => NoNodes
  /\ state \in {"Maintenance", "ReadyToRun", "Operational"}
       => \A s \in found : nodes[s] # "absent"
  /\ pc \in {"pr_map", "pr_safeop", "pr_check", "pr_dc"} => AllConfigured
  /\ pc \in {"pr_safeop", "pr_check", "pr_dc"} => mapped
  /\ state = "Scanned" => ~mapped /\ ~dc
  /\ state = "Maintenance" /\ dc => mapped /\ AllConfigured
  /\ state \in {"ReadyToRun", "Operational"} => mapped /\ dc /\ AllConfigured

IInv == TypeOK /\ PcMatchesState /\ BuiltSoFar
          /\ SlavesBelowController /\ ReleasedWhenUninitialized
(***************************************************************************)
(* What an exchange can do to the words of the slaves.                     *)
(***************************************************************************)
(* A request leaves a slave where it was, or puts it in the target state;  *)
(* in particular it cannot raise it above both (EcMaster::RequestState).   *)
LEMMA AnswerIsWord ==
  ASSUME NEW w \in Word, NEW target \in AlState, NEW ack \in BOOLEAN, NEW reply
  PROVE  /\ Answer(w, target, ack, reply) \in Word
         /\ Answer(w, target, ack, reply).st \in {w.st, target}
  BY DEF Answer, Word, Clean, AlState, NONE, INIT, PRE_OP, SAFE_OP, OP

LEMMA BroadcastIsBounded ==
  ASSUME al \in [Slaves -> Word], closed \in BOOLEAN,
         NEW target \in AlState, NEW ack \in BOOLEAN, NEW reply
  PROVE  /\ Broadcast(target, ack, reply) \in [Slaves -> Word]
         /\ \A s \in Slaves : Broadcast(target, ack, reply)[s].st \in {al[s].st, target}
  <1>1. CASE closed
    BY <1>1 DEF Broadcast
  <1>2. CASE ~closed
    <2>1. \A s \in Slaves : al[s] \in Word
      OBVIOUS
    <2>2. \A s \in Slaves : /\ Answer(al[s], target, ack, reply[s]) \in Word
                            /\ Answer(al[s], target, ack, reply[s]).st \in {al[s].st, target}
      BY <2>1, AnswerIsWord
    <2> QED
      BY <1>2, <2>2 DEF Broadcast
  <1> QED
    BY <1>1, <1>2

LEMMA RequestStateIsBounded ==
  ASSUME TypeOK, NEW target \in AlState, NEW ok, RequestState(target, ok)
  PROVE  /\ al' \in [Slaves -> Word]
         /\ \A s \in Slaves : al'[s].st \in {al[s].st, target}
  <1>1. PICK reply \in Replies : al' = Broadcast(target, FALSE, reply)
    BY DEF RequestState
  <1> QED
    BY <1>1, BroadcastIsBounded DEF TypeOK

(* A round of the retry loop acknowledges a state some scanned slave has,  *)
(* or requests PRE_OP; so no slave ends above a bound that is at least     *)
(* PRE_OP and held for the scanned slaves before.                          *)
LEMMA RoundIsBounded ==
  ASSUME TypeOK, NEW outcome, RequestPreOpRound(outcome)
  PROVE  /\ al' \in [Slaves -> Word]
         /\ tries' \in 0..MaxRetries
         /\ \A s \in Slaves : \/ al'[s].st \in {al[s].st, PRE_OP}
                              \/ \E t \in found : al'[s].st = al[t].st
  <1>1. PICK seen \in {al[s] : s \in found} :
          /\ \/ UNCHANGED al
             \/ \E reply \in Replies : al' = Broadcast(seen.st, TRUE, reply)
             \/ \E reply \in Replies : al' = Broadcast(PRE_OP, FALSE, reply)
          /\ outcome = "again" => tries < MaxRetries
          /\ tries' = IF outcome = "again" THEN tries + 1 ELSE 0
    BY DEF RequestPreOpRound, MayRetry
  <1>2. PICK t \in found : seen = al[t]
    BY <1>1
  <1>3. seen.st \in AlState /\ PRE_OP \in AlState
    BY <1>2 DEF TypeOK, Word, AlState
  <1>4. tries' \in 0..MaxRetries
    BY <1>1, RetriesAssumption DEF TypeOK
  <1>5. CASE UNCHANGED al
    BY <1>4, <1>5 DEF TypeOK
  <1>6. CASE \E reply \in Replies : al' = Broadcast(seen.st, TRUE, reply)
    <2>1. PICK reply \in Replies : al' = Broadcast(seen.st, TRUE, reply)
      BY <1>6
    <2>2. /\ Broadcast(seen.st, TRUE, reply) \in [Slaves -> Word]
          /\ \A s \in Slaves : Broadcast(seen.st, TRUE, reply)[s].st \in {al[s].st, seen.st}
      BY <1>3, BroadcastIsBounded DEF TypeOK
    <2> QED
      BY <1>2, <1>4, <2>1, <2>2
  <1>7. CASE \E reply \in Replies : al' = Broadcast(PRE_OP, FALSE, reply)
    <2>1. PICK reply \in Replies : al' = Broadcast(PRE_OP, FALSE, reply)
      BY <1>7
    <2>2. /\ Broadcast(PRE_OP, FALSE, reply) \in [Slaves -> Word]
          /\ \A s \in Slaves : Broadcast(PRE_OP, FALSE, reply)[s].st \in {al[s].st, PRE_OP}
      BY <1>3, BroadcastIsBounded DEF TypeOK
    <2> QED
      BY <1>2, <1>4, <2>1, <2>2
  <1> QED
    BY <1>1, <1>5, <1>6, <1>7
(***************************************************************************)
(* Type correctness is inductive by itself.                                *)
(***************************************************************************)
LEMMA TypeInit == Init => TypeOK
  <1> SUFFICES ASSUME Init
               PROVE  TypeOK
    OBVIOUS
  <1>1. {Silent} \cup {Clean(st) : st \in {INIT, PRE_OP, OP}} \subseteq Word
    <2>1. \A st \in AlState : Clean(st) \in Word
      BY DEF Clean, Word
    <2> QED
      BY <2>1 DEF Silent, AlState
  <1>2. al \in [Slaves -> Word]
    BY <1>1 DEF Init
  <1> QED
    <2>1. tries \in 0..MaxRetries
      BY RetriesAssumption DEF Init
    <2>2. nodes \in [Slaves -> NodeState]
      BY DEF Init, NodeState
    <2> QED
      BY <1>2, <2>1, <2>2 DEF Init, TypeOK, ControllerState

LEMMA TypeStep == TypeOK /\ [Next]_vars => TypeOK'
  <1> SUFFICES ASSUME TypeOK, [Next]_vars
               PROVE  TypeOK'
    OBVIOUS
  <1> USE DEF ControllerState, NodeState, BringUpSteps, ShutdownSteps
  <1>1. CASE InitializeAdapter
    BY <1>1 DEF TypeOK, InitializeAdapter, EnterFault, ShutdownFrom
  <1>2. CASE Scan
    <2>1. al' \in [Slaves -> Word]
      BY <1>2 DEF Scan, Silent, Clean, Word, AlState, NONE, INIT, PRE_OP, SAFE_OP, OP
    <2> QED
      BY <1>2, <2>1 DEF TypeOK, Scan, ShutdownFrom
  <1>3. CASE EnterMaintenance
    BY <1>3 DEF TypeOK, EnterMaintenance, EnterFault, ShutdownFrom
  <1>4. CASE PrepareRun
    BY <1>4 DEF TypeOK, PrepareRun, EnterFault, ShutdownFrom
  <1>5. CASE StartOperation
    BY <1>5 DEF TypeOK, StartOperation, EnterFault, ShutdownFrom
  <1>6. CASE BackToMaintenance
    BY <1>6 DEF TypeOK, BackToMaintenance, EnterFault, ShutdownFrom
  <1>7. CASE Stop
    BY <1>7 DEF TypeOK, Stop, EnterFault, ShutdownFrom
  <1>8. CASE RequestFault
    BY <1>8 DEF TypeOK, RequestFault, EnterFault, ShutdownFrom
  <1>9. CASE RequestEmergencyStop
    BY <1>9 DEF TypeOK, RequestEmergencyStop, EnterFault, ShutdownFrom
  <1>10. CASE CheckSlaveStates
    BY <1>10 DEF TypeOK, CheckSlaveStates, EnterFault, ShutdownFrom
  <1>11. CASE EnterMaintenancePreOp
    <2>1. PICK outcome \in Outcome : RequestPreOpRound(outcome)
      BY <1>11 DEF EnterMaintenancePreOp
    <2>2. al' \in [Slaves -> Word] /\ tries' \in 0..MaxRetries
      BY <2>1, RoundIsBounded
    <2> QED
      BY <1>11, <2>2 DEF TypeOK, EnterMaintenancePreOp, EnterFault, ShutdownFrom, Outcome
  <1>12. CASE EnterMaintenanceCheck
    BY <1>12 DEF TypeOK, EnterMaintenanceCheck, EnterFault, ShutdownFrom
  <1>13. CASE PrepareRunMap
    BY <1>13 DEF TypeOK, PrepareRunMap, EnterFault, ShutdownFrom
  <1>14. CASE PrepareRunSafeOp
    <2>1. PICK ok \in BOOLEAN : RequestState(SAFE_OP, ok)
      BY <1>14 DEF PrepareRunSafeOp
    <2>2. SAFE_OP \in AlState
      BY DEF AlState
    <2>3. al' \in [Slaves -> Word]
      BY <2>1, <2>2, RequestStateIsBounded
    <2> QED
      BY <1>14, <2>3 DEF TypeOK, PrepareRunSafeOp, EnterFault
  <1>15. CASE PrepareRunCheck
    BY <1>15 DEF TypeOK, PrepareRunCheck, EnterFault, ShutdownFrom
  <1>16. CASE PrepareRunDc
    BY <1>16 DEF TypeOK, PrepareRunDc, EnterFault, ShutdownFrom
  <1>17. CASE StartOperationOp
    <2>1. PICK ok \in BOOLEAN : RequestState(OP, ok)
      BY <1>17 DEF StartOperationOp
    <2>2. OP \in AlState
      BY DEF AlState
    <2>3. al' \in [Slaves -> Word]
      BY <2>1, <2>2, RequestStateIsBounded
    <2> QED
      BY <1>17, <2>3 DEF TypeOK, StartOperationOp, EnterFault
  <1>18. CASE StartOperationCheck
    BY <1>18 DEF TypeOK, StartOperationCheck, EnterFault, ShutdownFrom
  <1>19. CASE BackSafeOp
    <2>1. PICK ok \in BOOLEAN : RequestState(SAFE_OP, ok)
      BY <1>19 DEF BackSafeOp
    <2>2. SAFE_OP \in AlState
      BY DEF AlState
    <2>3. al' \in [Slaves -> Word]
      BY <2>1, <2>2, RequestStateIsBounded
    <2> QED
      BY <1>19, <2>3 DEF TypeOK, BackSafeOp, EnterFault
  <1>20. CASE BackPreOp
    <2>1. PICK outcome \in Outcome : RequestPreOpRound(outcome)
      BY <1>20 DEF BackPreOp
    <2>2. al' \in [Slaves -> Word] /\ tries' \in 0..MaxRetries
      BY <2>1, RoundIsBounded
    <2> QED
      BY <1>20, <2>2 DEF TypeOK, BackPreOp, EnterFault, ShutdownFrom, Outcome
  <1>21. CASE BackCheck
    BY <1>21 DEF TypeOK, BackCheck, EnterFault, ShutdownFrom
  <1>22. CASE ShutdownSafeOp
    <2>1. PICK ok \in BOOLEAN : RequestState(SAFE_OP, ok)
      BY <1>22 DEF ShutdownSafeOp
    <2>2. SAFE_OP \in AlState
      BY DEF AlState
    <2>3. al' \in [Slaves -> Word]
      BY <2>1, <2>2, RequestStateIsBounded
    <2> QED
      BY <1>22, <2>3 DEF TypeOK, ShutdownSafeOp, EnterFault
  <1>23. CASE ShutdownPreOp
    <2>1. PICK outcome \in Outcome : RequestPreOpRound(outcome)
      BY <1>23 DEF ShutdownPreOp
    <2>2. al' \in [Slaves -> Word] /\ tries' \in 0..MaxRetries
      BY <2>1, RoundIsBounded
    <2> QED
      BY <1>23, <2>2 DEF TypeOK, ShutdownPreOp, EnterFault, ShutdownFrom, Outcome
  <1>24. CASE ShutdownInit
    <2>1. PICK ok \in BOOLEAN : RequestState(INIT, ok)
      BY <1>24 DEF ShutdownInit
    <2>2. INIT \in AlState
      BY DEF AlState
    <2>3. al' \in [Slaves -> Word]
      BY <2>1, <2>2, RequestStateIsBounded
    <2> QED
      BY <1>24, <2>3 DEF TypeOK, ShutdownInit, EnterFault
  <1>25. CASE ShutdownClose
    BY <1>25 DEF TypeOK, ShutdownClose, EnterFault, ShutdownFrom
  <1>26. ASSUME NEW s \in Slaves, SlaveFallsBack(s) \/ SlaveLost(s) \/ SlaveReturns(s)
        PROVE  TypeOK'
    <2>1. \E w \in Word : al' = [al EXCEPT ![s] = w]
      <3>1. \A st \in AlState, err \in BOOLEAN : [st |-> st, err |-> err] \in Word
        BY DEF Word
      <3> QED
        BY <1>26, <3>1 DEF SlaveFallsBack, SlaveLost, SlaveReturns, Silent, Clean, AlState
    <2> QED
      BY <1>26, <2>1 DEF TypeOK, SlaveFallsBack, SlaveLost, SlaveReturns
  <1>27. CASE UNCHANGED vars
    BY <1>27 DEF TypeOK, vars
  <1> QED
    BY <1>1, <1>2, <1>3, <1>4, <1>5, <1>6, <1>7, <1>8, <1>9, <1>10, <1>11,
       <1>12, <1>13, <1>14, <1>15, <1>16, <1>17, <1>18, <1>19, <1>20,
       <1>21, <1>22, <1>23, <1>24, <1>25, <1>26, <1>27
       DEF Next, Caller, Running, Environment

(* Every variable of the controller, the bus master and the slaves keeps   *)
(* its type; the retry counter of RequestStateWithRetry stays in bounds.   *)
THEOREM TypeCorrect == Spec => []TypeOK
  BY TypeInit, TypeStep, PTL DEF Spec

(***************************************************************************)
(* Where operations run and what they have built.                          *)
(***************************************************************************)
Control == PcMatchesState /\ BuiltSoFar /\ ReleasedWhenUninitialized

LEMMA ControlStep == TypeOK /\ Control /\ [Next]_vars => Control'
  <1> SUFFICES ASSUME TypeOK, Control, [Next]_vars
               PROVE  Control'
    OBVIOUS
  <1> USE DEF Control, PcMatchesState, BuiltSoFar, ReleasedWhenUninitialized, InSession,
              NoNodes, AllConfigured
  <1>1. CASE InitializeAdapter
    BY <1>1 DEF TypeOK, InitializeAdapter, EnterFault, ShutdownFrom, Outcome, ControllerState, NodeState
  <1>2. CASE Scan
    BY <1>2 DEF TypeOK, Scan, EnterFault, ShutdownFrom, Outcome, ControllerState, NodeState
  <1>3. CASE EnterMaintenance
    BY <1>3 DEF TypeOK, EnterMaintenance, EnterFault, ShutdownFrom, Outcome, ControllerState, NodeState
  <1>4. CASE PrepareRun
    BY <1>4 DEF TypeOK, PrepareRun, EnterFault, ShutdownFrom, Outcome, ControllerState, NodeState
  <1>5. CASE StartOperation
    BY <1>5 DEF TypeOK, StartOperation, EnterFault, ShutdownFrom, Outcome, ControllerState, NodeState
  <1>6. CASE BackToMaintenance
    BY <1>6 DEF TypeOK, BackToMaintenance, EnterFault, ShutdownFrom, Outcome, ControllerState, NodeState
  <1>7. CASE Stop
    BY <1>7 DEF TypeOK, Stop, EnterFault, ShutdownFrom, Outcome, ControllerState, NodeState
  <1>8. CASE RequestFault
    BY <1>8 DEF TypeOK, RequestFault, EnterFault, ShutdownFrom, Outcome, ControllerState, NodeState
  <1>9. CASE RequestEmergencyStop
    BY <1>9 DEF TypeOK, RequestEmergencyStop, EnterFault, ShutdownFrom, Outcome, ControllerState, NodeState
  <1>10. CASE CheckSlaveStates
    BY <1>10 DEF TypeOK, CheckSlaveStates, EnterFault, ShutdownFrom, Outcome, ControllerState, NodeState
  <1>11. CASE EnterMaintenancePreOp
    BY <1>11 DEF TypeOK, EnterMaintenancePreOp, EnterFault, ShutdownFrom, Outcome, ControllerState, NodeState
  <1>12. CASE EnterMaintenanceCheck
    BY <1>12 DEF TypeOK, EnterMaintenanceCheck, EnterFault, ShutdownFrom, Outcome, ControllerState, NodeState
  <1>13. CASE PrepareRunMap
    BY <1>13 DEF TypeOK, PrepareRunMap, EnterFault, ShutdownFrom, Outcome, ControllerState, NodeState
  <1>14. CASE PrepareRunSafeOp
    BY <1>14 DEF TypeOK, PrepareRunSafeOp, EnterFault, ShutdownFrom, Outcome, ControllerState, NodeState
  <1>15. CASE PrepareRunCheck
    BY <1>15 DEF TypeOK, PrepareRunCheck, EnterFault, ShutdownFrom, Outcome, ControllerState, NodeState
  <1>16. CASE PrepareRunDc
    BY <1>16 DEF TypeOK, PrepareRunDc, EnterFault, ShutdownFrom, Outcome, ControllerState, NodeState
  <1>17. CASE StartOperationOp
    BY <1>17 DEF TypeOK, StartOperationOp, EnterFault, ShutdownFrom, Outcome, ControllerState, NodeState
  <1>18. CASE StartOperationCheck
    BY <1>18 DEF TypeOK, StartOperationCheck, EnterFault, ShutdownFrom, Outcome, ControllerState, NodeState
  <1>19. CASE BackSafeOp
    BY <1>19 DEF TypeOK, BackSafeOp, EnterFault, ShutdownFrom, Outcome, ControllerState, NodeState
  <1>20. CASE BackPreOp
    BY <1>20 DEF TypeOK, BackPreOp, EnterFault, ShutdownFrom, Outcome, ControllerState, NodeState
  <1>21. CASE BackCheck
    BY <1>21 DEF TypeOK, BackCheck, EnterFault, ShutdownFrom, Outcome, ControllerState, NodeState
  <1>22. CASE ShutdownSafeOp
    BY <1>22 DEF TypeOK, ShutdownSafeOp, EnterFault, ShutdownFrom, Outcome, ControllerState, NodeState
  <1>23. CASE ShutdownPreOp
    BY <1>23 DEF TypeOK, ShutdownPreOp, EnterFault, ShutdownFrom, Outcome, ControllerState, NodeState
  <1>24. CASE ShutdownInit
    BY <1>24 DEF TypeOK, ShutdownInit, EnterFault, ShutdownFrom, Outcome, ControllerState, NodeState
  <1>25. CASE ShutdownClose
    BY <1>25 DEF TypeOK, ShutdownClose, EnterFault, ShutdownFrom, Outcome, ControllerState, NodeState
  <1>26. ASSUME NEW s \in Slaves, SlaveFallsBack(s) \/ SlaveLost(s) \/ SlaveReturns(s)
        PROVE  Control'
    BY <1>26 DEF SlaveFallsBack, SlaveLost, SlaveReturns
  <1>27. CASE UNCHANGED vars
    BY <1>27 DEF vars
  <1> QED
    BY <1>1, <1>2, <1>3, <1>4, <1>5, <1>6, <1>7, <1>8, <1>9, <1>10, <1>11,
       <1>12, <1>13, <1>14, <1>15, <1>16, <1>17, <1>18, <1>19, <1>20,
       <1>21, <1>22, <1>23, <1>24, <1>25, <1>26, <1>27
       DEF Next, Caller, Running, Environment

(***************************************************************************)
(* The ceiling: no scanned slave above the controller.                     *)
(***************************************************************************)
LEMMA CeilingStep ==
  TypeOK /\ Control /\ SlavesBelowController /\ [Next]_vars => SlavesBelowController'
  <1> SUFFICES ASSUME TypeOK, PcMatchesState, SlavesBelowController, [Next]_vars
               PROVE  SlavesBelowController'
    BY DEF Control
  <1> USE DEF NONE, INIT, PRE_OP, SAFE_OP, OP
  <1>a. found \subseteq Slaves /\ \A s \in Slaves : al[s].st \in {0, 1, 2, 4, 8}
    BY DEF TypeOK, Word, AlState
  <1>b. \A s \in found : al[s].st <= Ceiling
    BY DEF SlavesBelowController
  <1>1. CASE InitializeAdapter
    BY <1>a, <1>b, <1>1
       DEF InitializeAdapter, EnterFault, ShutdownFrom, PcMatchesState, SlavesBelowController, Ceiling
  <1>2. CASE Scan
    BY <1>a, <1>2 DEF Scan, Clean, SlavesBelowController, Ceiling, ShutdownFrom, Silent, TypeOK
  <1>3. CASE EnterMaintenance
    BY <1>a, <1>b, <1>3
       DEF EnterMaintenance, EnterFault, ShutdownFrom, PcMatchesState, SlavesBelowController, Ceiling
  <1>4. CASE PrepareRun
    BY <1>a, <1>b, <1>4
       DEF PrepareRun, EnterFault, ShutdownFrom, PcMatchesState, SlavesBelowController, Ceiling
  <1>5. CASE StartOperation
    BY <1>a, <1>b, <1>5
       DEF StartOperation, EnterFault, ShutdownFrom, PcMatchesState, SlavesBelowController, Ceiling
  <1>6. CASE BackToMaintenance
    BY <1>a, <1>b, <1>6
       DEF BackToMaintenance, EnterFault, ShutdownFrom, PcMatchesState, SlavesBelowController, Ceiling
  <1>7. CASE Stop
    BY <1>a, <1>b, <1>7
       DEF Stop, EnterFault, ShutdownFrom, PcMatchesState, SlavesBelowController, Ceiling
  <1>8. CASE RequestFault
    BY <1>a, <1>b, <1>8
       DEF RequestFault, EnterFault, ShutdownFrom, PcMatchesState, SlavesBelowController, Ceiling
  <1>9. CASE RequestEmergencyStop
    BY <1>a, <1>b, <1>9
       DEF RequestEmergencyStop, EnterFault, ShutdownFrom, PcMatchesState, SlavesBelowController, Ceiling
  <1>10. CASE CheckSlaveStates
    BY <1>a, <1>b, <1>10
       DEF CheckSlaveStates, EnterFault, ShutdownFrom, PcMatchesState, SlavesBelowController, Ceiling
  <1>11. CASE EnterMaintenancePreOp
    <2>1. PICK outcome \in Outcome : RequestPreOpRound(outcome)
      BY <1>11 DEF EnterMaintenancePreOp
    <2>2. \A s \in Slaves : \/ al'[s].st \in {al[s].st, PRE_OP}
                            \/ \E t \in found : al'[s].st = al[t].st
      BY <2>1, RoundIsBounded
    <2> QED
      BY <1>a, <1>b, <1>11, <2>2
         DEF EnterMaintenancePreOp, EnterFault, PcMatchesState, SlavesBelowController, Ceiling,
             ShutdownFrom, Outcome
  <1>12. CASE EnterMaintenanceCheck
    BY <1>a, <1>b, <1>12
       DEF EnterMaintenanceCheck, CheckAllSlavesInState, Clean, EnterFault, ShutdownFrom,
           PcMatchesState, SlavesBelowController, Ceiling
  <1>13. CASE PrepareRunMap
    BY <1>a, <1>b, <1>13
       DEF PrepareRunMap, EnterFault, ShutdownFrom, PcMatchesState, SlavesBelowController, Ceiling
  <1>14. CASE PrepareRunSafeOp
    <2>1. PICK ok \in BOOLEAN : RequestState(SAFE_OP, ok)
      BY <1>14 DEF PrepareRunSafeOp
    <2>2. \A s \in Slaves : al'[s].st \in {al[s].st, SAFE_OP}
      BY <2>1, RequestStateIsBounded DEF AlState
    <2> QED
      BY <1>a, <1>b, <1>14, <2>2
         DEF PrepareRunSafeOp, EnterFault, PcMatchesState, SlavesBelowController, Ceiling
  <1>15. CASE PrepareRunCheck
    BY <1>a, <1>b, <1>15
       DEF PrepareRunCheck, CheckAllSlavesInState, Clean, EnterFault, ShutdownFrom,
           PcMatchesState, SlavesBelowController, Ceiling
  <1>16. CASE PrepareRunDc
    BY <1>a, <1>b, <1>16
       DEF PrepareRunDc, EnterFault, ShutdownFrom, PcMatchesState, SlavesBelowController, Ceiling
  <1>17. CASE StartOperationOp
    <2>1. PICK ok \in BOOLEAN : RequestState(OP, ok)
      BY <1>17 DEF StartOperationOp
    <2>2. \A s \in Slaves : al'[s].st \in {al[s].st, OP}
      BY <2>1, RequestStateIsBounded DEF AlState
    <2> QED
      BY <1>a, <1>b, <1>17, <2>2
         DEF StartOperationOp, EnterFault, PcMatchesState, SlavesBelowController, Ceiling
  <1>18. CASE StartOperationCheck
    BY <1>a, <1>b, <1>18
       DEF StartOperationCheck, CheckAllSlavesInState, Clean, EnterFault, ShutdownFrom,
           PcMatchesState, SlavesBelowController, Ceiling
  <1>19. CASE BackSafeOp
    <2>1. PICK ok \in BOOLEAN : RequestState(SAFE_OP, ok)
      BY <1>19 DEF BackSafeOp
    <2>2. \A s \in Slaves : al'[s].st \in {al[s].st, SAFE_OP}
      BY <2>1, RequestStateIsBounded DEF AlState
    <2> QED
      BY <1>a, <1>b, <1>19, <2>2
         DEF BackSafeOp, EnterFault, PcMatchesState, SlavesBelowController, Ceiling
  <1>20. CASE BackPreOp
    <2>1. PICK outcome \in Outcome : RequestPreOpRound(outcome)
      BY <1>20 DEF BackPreOp
    <2>2. \A s \in Slaves : \/ al'[s].st \in {al[s].st, PRE_OP}
                            \/ \E t \in found : al'[s].st = al[t].st
      BY <2>1, RoundIsBounded
    <2>3. \/ state' = "Fault"
          \/ state' = state /\ pc' \in {"bm_preop", "bm_check"}
      BY <1>20 DEF BackPreOp, EnterFault, Outcome
    <2>4. found' = found
      BY <1>20 DEF BackPreOp
    <2>5. state \in {"ReadyToRun", "Operational"} /\ pc = "bm_preop"
      BY <1>20 DEF BackPreOp, PcMatchesState
    <2>6. Ceiling \in {SAFE_OP, OP} /\ Ceiling' \in {Ceiling, OP}
      BY <2>3, <2>5 DEF Ceiling
    <2> QED
      BY <1>a, <1>b, <2>2, <2>4, <2>6 DEF SlavesBelowController
  <1>21. CASE BackCheck
    BY <1>a, <1>b, <1>21
       DEF BackCheck, CheckAllSlavesInState, Clean, EnterFault, ShutdownFrom,
           PcMatchesState, SlavesBelowController, Ceiling
  <1>22. CASE ShutdownSafeOp
    <2>1. PICK ok \in BOOLEAN : RequestState(SAFE_OP, ok)
      BY <1>22 DEF ShutdownSafeOp
    <2>2. \A s \in Slaves : al'[s].st \in {al[s].st, SAFE_OP}
      BY <2>1, RequestStateIsBounded DEF AlState
    <2> QED
      BY <1>a, <1>b, <1>22, <2>2
         DEF ShutdownSafeOp, EnterFault, PcMatchesState, SlavesBelowController, Ceiling
  <1>23. CASE ShutdownPreOp
    <2>1. PICK outcome \in Outcome : RequestPreOpRound(outcome)
      BY <1>23 DEF ShutdownPreOp
    <2>2. \A s \in Slaves : \/ al'[s].st \in {al[s].st, PRE_OP}
                            \/ \E t \in found : al'[s].st = al[t].st
      BY <2>1, RoundIsBounded
    <2> QED
      BY <1>a, <1>b, <1>23, <2>2
         DEF ShutdownPreOp, EnterFault, PcMatchesState, SlavesBelowController, Ceiling,
             ShutdownFrom, Outcome
  <1>24. CASE ShutdownInit
    <2>1. PICK ok \in BOOLEAN : RequestState(INIT, ok)
      BY <1>24 DEF ShutdownInit
    <2>2. \A s \in Slaves : al'[s].st \in {al[s].st, INIT}
      BY <2>1, RequestStateIsBounded DEF AlState
    <2> QED
      BY <1>a, <1>b, <1>24, <2>2
         DEF ShutdownInit, EnterFault, PcMatchesState, SlavesBelowController, Ceiling
  <1>25. CASE ShutdownClose
    BY <1>a, <1>b, <1>25
       DEF ShutdownClose, EnterFault, ShutdownFrom, PcMatchesState, SlavesBelowController, Ceiling
  <1>26. ASSUME NEW s \in Slaves, SlaveFallsBack(s) \/ SlaveLost(s) \/ SlaveReturns(s)
        PROVE  SlavesBelowController'
    BY <1>a, <1>b, <1>26
       DEF SlaveFallsBack, SlaveLost, SlaveReturns, Silent, Clean, TypeOK,
           SlavesBelowController, Ceiling
  <1>27. CASE UNCHANGED vars
    BY <1>b, <1>27 DEF vars, SlavesBelowController, Ceiling
  <1> QED
    BY <1>1, <1>2, <1>3, <1>4, <1>5, <1>6, <1>7, <1>8, <1>9, <1>10, <1>11,
       <1>12, <1>13, <1>14, <1>15, <1>16, <1>17, <1>18, <1>19, <1>20,
       <1>21, <1>22, <1>23, <1>24, <1>25, <1>26, <1>27
       DEF Next, Caller, Running, Environment

(***************************************************************************)
(* The inductive invariant and what follows from it.                       *)
(***************************************************************************)
LEMMA InductiveInvariant == Spec => []IInv
  <1>1. Init => IInv
    <2> SUFFICES ASSUME Init
                 PROVE  PcMatchesState /\ BuiltSoFar /\ SlavesBelowController
                          /\ ReleasedWhenUninitialized
      BY TypeInit DEF IInv
    <2> QED
      BY DEF Init, PcMatchesState, BuiltSoFar, SlavesBelowController,
             ReleasedWhenUninitialized, InSession, NoNodes, AllConfigured
  <1>2. IInv /\ [Next]_vars => IInv'
    BY TypeStep, ControlStep, CeilingStep DEF IInv, Control
  <1> QED
    BY <1>1, <1>2, PTL DEF Spec

(* No scanned slave is ever further up the EtherCAT ladder than the state  *)
(* the controller reports allows.                                          *)
THEOREM CeilingHolds == Spec => []SlavesBelowController
  <1>1. IInv => SlavesBelowController
    BY DEF IInv
  <1> QED
    BY <1>1, InductiveInvariant, PTL

LEMMA SessionHasSlaves == TopologyAccepted(found) => found # {}
  BY DEF TopologyAccepted

(* ReadyToRun and Operational come only with the adapter open, the whole   *)
(* process image built, and an accepted topology.                          *)
THEOREM ReadyIsPrepared == Spec => []ReadyMeansPrepared
  <1>1. IInv => ReadyMeansPrepared
    BY SessionHasSlaves
       DEF IInv, BuiltSoFar, InSession, ReleasedWhenUninitialized, ReadyMeansPrepared,
           ImageComplete, AllConfigured
  <1> QED
    BY <1>1, InductiveInvariant, PTL

(* No slave is in SAFE_OP or OP before the IO map and its node exist.      *)
THEOREM ImageComesFirst == Spec => []ImageBeforeSafeOp
  <1>1. ASSUME IInv
        PROVE  ImageBeforeSafeOp
    <2>1. \A s \in found : al[s].st \in {0, 1, 2, 4, 8} /\ al[s].st <= Ceiling
      BY <1>1 DEF IInv, TypeOK, SlavesBelowController, Word, AlState,
                  NONE, INIT, PRE_OP, SAFE_OP, OP
    <2> QED
      BY <1>1, <2>1
         DEF IInv, BuiltSoFar, AllConfigured, ImageBeforeSafeOp, Ceiling, PRE_OP, SAFE_OP, OP
  <1> QED
    BY <1>1, InductiveInvariant, PTL

(* The adapter and the nodes are never leaked: an idle, uninitialized      *)
(* controller holds neither.                                               *)
THEOREM NothingLeaks == Spec => []ReleasedWhenUninitialized
  <1>1. IInv => ReleasedWhenUninitialized
    BY DEF IInv
  <1> QED
    BY <1>1, InductiveInvariant, PTL

(***************************************************************************)
(* What a session leaves behind.                                           *)
(*                                                                         *)
(* found survives the session that made it, so whether the slaves of the   *)
(* last scan rest matters until the next scan: a Stop straight after       *)
(* InitializeAdapter closes without an exchange.  RestedSoFar carries that *)
(* from one session into the next one.                                     *)
(***************************************************************************)
ObedientAtMost(top) == \A s \in found \cap ObedientSlaves : al[s].st <= top

RestedSoFar ==
  /\ closed \/ state \in {"Uninitialized", "AdapterReady"} => ObedientAtMost(PRE_OP)
  /\ pc = "sd_close" /\ ~closed /\ state \notin {"AdapterReady", "Scanned"}
       => ObedientAtMost(INIT)

(* Whatever its state and its error flag, a slave that accepts the request *)
(* for INIT is in INIT afterwards, or was silent (DoShutdown, step 4).     *)
LEMMA InitIsAlwaysLegal ==
  ASSUME NEW w \in Word
  PROVE  Answer(w, INIT, FALSE, "accept").st <= INIT
  BY DEF Answer, Word, Clean, AlState, Legal, NONE, INIT, PRE_OP, SAFE_OP, OP

LEMMA InitRequestRests ==
  ASSUME TypeOK, ~closed, NEW ok, RequestState(INIT, ok)
  PROVE  \A s \in ObedientSlaves : al'[s].st <= INIT
  <1>1. PICK reply \in Replies : al' = Broadcast(INIT, FALSE, reply)
    BY DEF RequestState
  <1> SUFFICES ASSUME NEW s \in ObedientSlaves
               PROVE  al'[s].st <= INIT
    OBVIOUS
  <1>2. s \in Slaves /\ reply[s] = "accept"
    BY FlagsAssumption DEF Replies
  <1>3. al'[s] = Answer(al[s], INIT, FALSE, "accept")
    BY <1>1, <1>2 DEF Broadcast
  <1>4. al[s] \in Word
    BY <1>2 DEF TypeOK
  <1> QED
    BY <1>3, <1>4, InitIsAlwaysLegal

(* An exchange of a running operation other than the INIT request happens  *)
(* with the adapter open, and either the operation goes on with another    *)
(* exchange, ends, or gives up a bring-up that had reached Scanned.        *)
LEMMA ExchangesStayInSession ==
  ASSUME TypeOK, Control,
         \/ EnterMaintenancePreOp \/ EnterMaintenanceCheck \/ PrepareRunMap
         \/ PrepareRunSafeOp \/ PrepareRunCheck \/ PrepareRunDc
         \/ StartOperationOp \/ StartOperationCheck \/ BackSafeOp
         \/ BackPreOp \/ BackCheck \/ ShutdownSafeOp
         \/ ShutdownPreOp
  PROVE  /\ ~closed'
         /\ state' \notin {"Uninitialized", "AdapterReady"}
         /\ pc' = "sd_close" => state' = "Scanned"
  <1> USE DEF Control, PcMatchesState, ReleasedWhenUninitialized, EnterFault, ShutdownFrom, Outcome
  <1>1. CASE EnterMaintenancePreOp
    BY <1>1 DEF EnterMaintenancePreOp
  <1>2. CASE EnterMaintenanceCheck
    BY <1>2 DEF EnterMaintenanceCheck
  <1>3. CASE PrepareRunMap
    BY <1>3 DEF PrepareRunMap
  <1>4. CASE PrepareRunSafeOp
    BY <1>4 DEF PrepareRunSafeOp
  <1>5. CASE PrepareRunCheck
    BY <1>5 DEF PrepareRunCheck
  <1>6. CASE PrepareRunDc
    BY <1>6 DEF PrepareRunDc
  <1>7. CASE StartOperationOp
    BY <1>7 DEF StartOperationOp
  <1>8. CASE StartOperationCheck
    BY <1>8 DEF StartOperationCheck
  <1>9. CASE BackSafeOp
    BY <1>9 DEF BackSafeOp
  <1>10. CASE BackPreOp
    BY <1>10 DEF BackPreOp
  <1>11. CASE BackCheck
    BY <1>11 DEF BackCheck
  <1>12. CASE ShutdownSafeOp
    BY <1>12 DEF ShutdownSafeOp
  <1>13. CASE ShutdownPreOp
    BY <1>13 DEF ShutdownPreOp
  <1> QED
    BY <1>1, <1>2, <1>3, <1>4, <1>5, <1>6, <1>7, <1>8, <1>9, <1>10, <1>11, <1>12, <1>13

LEMMA RestedStep ==
  TypeOK /\ Control /\ SlavesBelowController /\ RestedSoFar /\ [Next]_vars => RestedSoFar'
  <1> SUFFICES ASSUME TypeOK, Control, SlavesBelowController, RestedSoFar, [Next]_vars
               PROVE  RestedSoFar'
    OBVIOUS
  <1> USE DEF INIT, PRE_OP
  <1>a. found \subseteq Slaves /\ \A s \in Slaves : al[s].st \in {0, 1, 2, 4, 8}
    BY DEF TypeOK, Word, AlState, NONE, SAFE_OP, OP
  <1>1. CASE InitializeAdapter
    BY <1>1 DEF InitializeAdapter, RestedSoFar, ObedientAtMost
  <1>2. CASE Scan
    <2>1. \A s \in found' : al'[s].st <= PRE_OP
      BY <1>2 DEF Scan, Clean
    <2>2. ~closed /\ UNCHANGED closed /\ (pc' = "sd_close" => state' = "AdapterReady")
      BY <1>2 DEF Scan, ShutdownFrom, Control, ReleasedWhenUninitialized
    <2> QED
      BY <2>1, <2>2 DEF RestedSoFar, ObedientAtMost
  <1>3. CASE EnterMaintenance
    BY <1>3 DEF EnterMaintenance, RestedSoFar, ObedientAtMost
  <1>4. CASE PrepareRun
    BY <1>4 DEF PrepareRun, RestedSoFar, ObedientAtMost
  <1>5. CASE StartOperation
    BY <1>5 DEF StartOperation, RestedSoFar, ObedientAtMost
  <1>6. CASE BackToMaintenance
    BY <1>6 DEF BackToMaintenance, RestedSoFar, ObedientAtMost
  <1>7. CASE Stop
    <2>1. UNCHANGED <<state, closed, al, found>> /\ state # "Uninitialized"
      BY <1>7 DEF Stop
    <2>2. pc' = "sd_close" => state \in {"AdapterReady", "Scanned"}
      BY <1>7, <2>1 DEF Stop, ShutdownFrom, TypeOK, ControllerState
    <2> QED
      BY <2>1, <2>2 DEF RestedSoFar, ObedientAtMost
  <1>8. CASE RequestFault
    BY <1>8 DEF RequestFault, EnterFault, RestedSoFar, ObedientAtMost
  <1>9. CASE RequestEmergencyStop
    BY <1>9 DEF RequestEmergencyStop, RestedSoFar, ObedientAtMost
  <1>10. CASE CheckSlaveStates
    BY <1>10 DEF CheckSlaveStates, EnterFault, RestedSoFar, ObedientAtMost
  <1>11. CASE EnterMaintenancePreOp
    BY <1>11, ExchangesStayInSession DEF RestedSoFar
  <1>12. CASE EnterMaintenanceCheck
    BY <1>12, ExchangesStayInSession DEF RestedSoFar
  <1>13. CASE PrepareRunMap
    BY <1>13, ExchangesStayInSession DEF RestedSoFar
  <1>14. CASE PrepareRunSafeOp
    BY <1>14, ExchangesStayInSession DEF RestedSoFar
  <1>15. CASE PrepareRunCheck
    BY <1>15, ExchangesStayInSession DEF RestedSoFar
  <1>16. CASE PrepareRunDc
    BY <1>16, ExchangesStayInSession DEF RestedSoFar
  <1>17. CASE StartOperationOp
    BY <1>17, ExchangesStayInSession DEF RestedSoFar
  <1>18. CASE StartOperationCheck
    BY <1>18, ExchangesStayInSession DEF RestedSoFar
  <1>19. CASE BackSafeOp
    BY <1>19, ExchangesStayInSession DEF RestedSoFar
  <1>20. CASE BackPreOp
    BY <1>20, ExchangesStayInSession DEF RestedSoFar
  <1>21. CASE BackCheck
    BY <1>21, ExchangesStayInSession DEF RestedSoFar
  <1>22. CASE ShutdownSafeOp
    BY <1>22, ExchangesStayInSession DEF RestedSoFar
  <1>23. CASE ShutdownPreOp
    BY <1>23, ExchangesStayInSession DEF RestedSoFar
  <1>24. CASE ShutdownInit
    <2>1. CASE closed
      <3>1. UNCHANGED <<al, found, closed>>
        BY <1>24, <2>1 DEF ShutdownInit, RequestState, Broadcast
      <3> QED
        BY <2>1, <3>1 DEF RestedSoFar, ObedientAtMost
    <2>2. CASE ~closed
      <3>1. PICK ok \in BOOLEAN : RequestState(INIT, ok)
        BY <1>24 DEF ShutdownInit
      <3>2. \A s \in ObedientSlaves : al'[s].st <= INIT
        BY <2>2, <3>1, InitRequestRests
      <3>3. state' \notin {"Uninitialized", "AdapterReady"} /\ ~closed'
        BY <1>24, <2>2 DEF ShutdownInit, Control, PcMatchesState
      <3> QED
        BY <3>2, <3>3 DEF RestedSoFar, ObedientAtMost
    <2> QED
      BY <2>1, <2>2
  <1>25. CASE ShutdownClose
    <2>1. UNCHANGED <<al, found>> /\ pc = "sd_close" /\ pc' = "idle"
      BY <1>25 DEF ShutdownClose
    <2>2. state = "Scanned" => ObedientAtMost(PRE_OP)
      BY DEF SlavesBelowController, Ceiling, ObedientAtMost
    <2>3. ObedientAtMost(INIT) => ObedientAtMost(PRE_OP)
      BY <1>a DEF ObedientAtMost
    <2>4. ObedientAtMost(PRE_OP)
      BY <2>1, <2>2, <2>3 DEF RestedSoFar
    <2> QED
      BY <2>1, <2>4 DEF RestedSoFar, ObedientAtMost
  <1>26. ASSUME NEW s \in Slaves, SlaveFallsBack(s) \/ SlaveLost(s) \/ SlaveReturns(s)
      PROVE  RestedSoFar'
    <2>1. /\ al' = [al EXCEPT ![s] = al'[s]]
          /\ al'[s].st <= al[s].st \/ al'[s].st <= INIT
          /\ UNCHANGED <<state, closed, pc, found>>
      BY <1>a, <1>26 DEF SlaveFallsBack, SlaveLost, SlaveReturns, Silent, Clean, TypeOK,
                         NONE, SAFE_OP
    <2>2. \A t \in Slaves : al'[t].st <= al[t].st \/ al'[t].st <= INIT
      BY <1>a, <2>1 DEF TypeOK
    <2>3. al'[s].st \in Int /\ \A t \in Slaves : al'[t].st \in Int
      BY <1>a, <2>1, <1>26 DEF SlaveFallsBack, SlaveLost, SlaveReturns, Silent, Clean, TypeOK,
                         NONE, SAFE_OP
    <2>4. \A top \in {INIT, PRE_OP} : ObedientAtMost(top) => ObedientAtMost(top)'
      BY <1>a, <2>1, <2>2, <2>3, FlagsAssumption DEF ObedientAtMost
    <2> QED
      BY <2>1, <2>4 DEF RestedSoFar
  <1>27. CASE UNCHANGED vars
    BY <1>27 DEF vars, RestedSoFar, ObedientAtMost
  <1> QED
    BY <1>1, <1>2, <1>3, <1>4, <1>5, <1>6, <1>7, <1>8, <1>9, <1>10, <1>11,
       <1>12, <1>13, <1>14, <1>15, <1>16, <1>17, <1>18, <1>19, <1>20, <1>21, <1>22,
       <1>23, <1>24, <1>25, <1>26, <1>27
       DEF Next, Caller, Running, Environment

(* A shutdown leaves the slaves that follow legal requests in INIT, or in  *)
(* PRE_OP at most when the bring-up had not come further, and this is not  *)
(* undone before the next session (DoShutdown).                            *)
THEOREM ShutdownRests == Spec => []ShutdownRestsSlaves
  <1>1. Init => RestedSoFar
    BY DEF Init, RestedSoFar, ObedientAtMost
  <1>2. TypeOK /\ Control /\ SlavesBelowController /\ RestedSoFar /\ [Next]_vars
          => RestedSoFar'
    BY RestedStep
  <1>3. IInv => TypeOK /\ Control /\ SlavesBelowController
    BY DEF IInv, Control
  <1>4. SlavesBelowController /\ RestedSoFar => ShutdownRestsSlaves
    BY DEF SlavesBelowController, Ceiling, RestedSoFar, ObedientAtMost, ShutdownRestsSlaves
  <1> QED
    BY <1>1, <1>2, <1>3, <1>4, InductiveInvariant, PTL DEF Spec

(***************************************************************************)
(* No exchange on a closed context.  EcMaster does not check closed_ in    *)
(* its exchanges; they are kept off a closed context by the controller's   *)
(* states alone, as long as the fault states are not requested before the  *)
(* adapter is open.                                                        *)
(***************************************************************************)
ClosedIsUninitialized == closed => state = "Uninitialized"

LEMMA ClosedStep ==
  ASSUME ~FaultWhileClosed, Control, ClosedIsUninitialized, [Next]_vars
  PROVE  ClosedIsUninitialized'
  <1> USE DEF ClosedIsUninitialized
  <1>1. CASE InitializeAdapter
    BY <1>1 DEF InitializeAdapter, Control, PcMatchesState
  <1>2. CASE Scan
    BY <1>2 DEF Scan, Control, PcMatchesState
  <1>3. CASE EnterMaintenance
    BY <1>3 DEF EnterMaintenance, Control, PcMatchesState
  <1>4. CASE PrepareRun
    BY <1>4 DEF PrepareRun, Control, PcMatchesState
  <1>5. CASE StartOperation
    BY <1>5 DEF StartOperation, Control, PcMatchesState
  <1>6. CASE BackToMaintenance
    BY <1>6 DEF BackToMaintenance, Control, PcMatchesState
  <1>7. CASE Stop
    BY <1>7 DEF Stop, Control, PcMatchesState
  <1>8. CASE RequestFault
    BY <1>8 DEF RequestFault, Control, PcMatchesState
  <1>9. CASE RequestEmergencyStop
    BY <1>9 DEF RequestEmergencyStop, Control, PcMatchesState
  <1>10. CASE CheckSlaveStates
    BY <1>10 DEF CheckSlaveStates, Control, PcMatchesState
  <1>11. CASE EnterMaintenancePreOp
    BY <1>11 DEF EnterMaintenancePreOp, Control, PcMatchesState
  <1>12. CASE EnterMaintenanceCheck
    BY <1>12 DEF EnterMaintenanceCheck, Control, PcMatchesState
  <1>13. CASE PrepareRunMap
    BY <1>13 DEF PrepareRunMap, Control, PcMatchesState
  <1>14. CASE PrepareRunSafeOp
    BY <1>14 DEF PrepareRunSafeOp, Control, PcMatchesState
  <1>15. CASE PrepareRunCheck
    BY <1>15 DEF PrepareRunCheck, Control, PcMatchesState
  <1>16. CASE PrepareRunDc
    BY <1>16 DEF PrepareRunDc, Control, PcMatchesState
  <1>17. CASE StartOperationOp
    BY <1>17 DEF StartOperationOp, Control, PcMatchesState
  <1>18. CASE StartOperationCheck
    BY <1>18 DEF StartOperationCheck, Control, PcMatchesState
  <1>19. CASE BackSafeOp
    BY <1>19 DEF BackSafeOp, Control, PcMatchesState
  <1>20. CASE BackPreOp
    BY <1>20 DEF BackPreOp, Control, PcMatchesState
  <1>21. CASE BackCheck
    BY <1>21 DEF BackCheck, Control, PcMatchesState
  <1>22. CASE ShutdownSafeOp
    BY <1>22 DEF ShutdownSafeOp, Control, PcMatchesState
  <1>23. CASE ShutdownPreOp
    BY <1>23 DEF ShutdownPreOp, Control, PcMatchesState
  <1>24. CASE ShutdownInit
    BY <1>24 DEF ShutdownInit, Control, PcMatchesState
  <1>25. CASE ShutdownClose
    BY <1>25 DEF ShutdownClose, Control, PcMatchesState
  <1>26. CASE Environment
    BY <1>26 DEF Environment, SlaveFallsBack, SlaveLost, SlaveReturns
  <1>27. CASE UNCHANGED vars
    BY <1>27 DEF vars
  <1> QED
    BY <1>1, <1>2, <1>3, <1>4, <1>5, <1>6, <1>7, <1>8, <1>9, <1>10, <1>11,
       <1>12, <1>13, <1>14, <1>15, <1>16, <1>17, <1>18, <1>19, <1>20, <1>21, <1>22,
       <1>23, <1>24, <1>25, <1>26, <1>27
       DEF Next, Caller, Running

(* An application that requests faults only on an open adapter never makes *)
(* the library use a SOEM context that is not open.                        *)
THEOREM NoClosedTraffic ==
  ASSUME ~FaultWhileClosed
  PROVE  Spec => []NoTrafficWhenClosed
  <1>1. Init => ClosedIsUninitialized
    BY DEF Init, ClosedIsUninitialized
  <1>2. Control /\ ClosedIsUninitialized /\ [Next]_vars => ClosedIsUninitialized'
    BY ClosedStep
  <1>3. IInv => Control
    BY DEF IInv, Control
  <1>4. Control /\ ClosedIsUninitialized => NoTrafficWhenClosed
    BY DEF Control, PcMatchesState, ClosedIsUninitialized, NoTrafficWhenClosed,
           BringUpSteps, ShutdownSteps
  <1> QED
    BY <1>1, <1>2, <1>3, <1>4, InductiveInvariant, PTL DEF Spec

(* Maintenance and Operational are entered only in a step that saw every   *)
(* scanned slave in the promised AL state.                                 *)
THEOREM EntryIsChecked == Spec => EnteredOnlyWhenChecked
  <1> DEFINE Checked ==
        /\ state' = "Maintenance" /\ state # "Maintenance"
             => \A s \in found : al[s] = Clean(PRE_OP)
        /\ state' = "Operational" /\ state # "Operational"
             => \A s \in found : al[s] = Clean(OP)
  <1>1. ASSUME [Next]_vars
        PROVE  [Checked]_vars
    <2>1. CASE InitializeAdapter
      BY <2>1 DEF InitializeAdapter, EnterFault
    <2>2. CASE Scan
      BY <2>2 DEF Scan, EnterFault
    <2>3. CASE EnterMaintenance
      BY <2>3 DEF EnterMaintenance, EnterFault
    <2>4. CASE PrepareRun
      BY <2>4 DEF PrepareRun, EnterFault
    <2>5. CASE StartOperation
      BY <2>5 DEF StartOperation, EnterFault
    <2>6. CASE BackToMaintenance
      BY <2>6 DEF BackToMaintenance, EnterFault
    <2>7. CASE Stop
      BY <2>7 DEF Stop, EnterFault
    <2>8. CASE RequestFault
      BY <2>8 DEF RequestFault, EnterFault
    <2>9. CASE RequestEmergencyStop
      BY <2>9 DEF RequestEmergencyStop, EnterFault
    <2>10. CASE CheckSlaveStates
      BY <2>10 DEF CheckSlaveStates, EnterFault
    <2>11. CASE EnterMaintenancePreOp
      BY <2>11 DEF EnterMaintenancePreOp, EnterFault, Outcome
    <2>12. CASE EnterMaintenanceCheck
      BY <2>12 DEF EnterMaintenanceCheck, EnterFault, CheckAllSlavesInState
    <2>13. CASE PrepareRunMap
      BY <2>13 DEF PrepareRunMap, EnterFault
    <2>14. CASE PrepareRunSafeOp
      BY <2>14 DEF PrepareRunSafeOp, EnterFault
    <2>15. CASE PrepareRunCheck
      BY <2>15 DEF PrepareRunCheck, EnterFault, CheckAllSlavesInState
    <2>16. CASE PrepareRunDc
      BY <2>16 DEF PrepareRunDc, EnterFault
    <2>17. CASE StartOperationOp
      BY <2>17 DEF StartOperationOp, EnterFault
    <2>18. CASE StartOperationCheck
      BY <2>18 DEF StartOperationCheck, EnterFault, CheckAllSlavesInState
    <2>19. CASE BackSafeOp
      BY <2>19 DEF BackSafeOp, EnterFault
    <2>20. CASE BackPreOp
      BY <2>20 DEF BackPreOp, EnterFault, Outcome
    <2>21. CASE BackCheck
      BY <2>21 DEF BackCheck, EnterFault, CheckAllSlavesInState
    <2>22. CASE ShutdownSafeOp
      BY <2>22 DEF ShutdownSafeOp, EnterFault
    <2>23. CASE ShutdownPreOp
      BY <2>23 DEF ShutdownPreOp, EnterFault, Outcome
    <2>24. CASE ShutdownInit
      BY <2>24 DEF ShutdownInit, EnterFault
    <2>25. CASE ShutdownClose
      BY <2>25 DEF ShutdownClose, EnterFault
    <2>26. CASE Environment
      BY <2>26 DEF Environment, SlaveFallsBack, SlaveLost, SlaveReturns
    <2>27. CASE UNCHANGED vars
      BY <2>27
    <2> QED
      BY <1>1, <2>1, <2>2, <2>3, <2>4, <2>5, <2>6, <2>7, <2>8, <2>9, <2>10, <2>11, <2>12, <2>13, <2>14, <2>15, <2>16, <2>17, <2>18, <2>19, <2>20, <2>21, <2>22, <2>23, <2>24, <2>25, <2>26, <2>27
         DEF Next, Caller, Running
  <1> QED
    BY <1>1, PTL DEF Spec, EnteredOnlyWhenChecked

(***************************************************************************)
(* Refinement: every step of the controller is a step of the lifecycle its *)
(* clients see, or leaves what they see unchanged.                         *)
(***************************************************************************)
LEMMA ImageNeedsNodes ==
  ASSUME TypeOK, Control, state \in {"AdapterReady", "Scanned"}
  PROVE  ~ImageComplete
  BY DEF ImageComplete, NoNodes, TypeOK, Control, BuiltSoFar

LEMMA RefinementStep ==
  ASSUME TypeOK, Control, [Next]_vars, TypeOK', Control'
  PROVE  [Lifecycle!LifecycleNext]_(Lifecycle!lifecycleVars)
  <1> USE DEF Lifecycle!LifecycleNext, Lifecycle!lifecycleVars
  <1>1. CASE InitializeAdapter
    <2>1. UNCHANGED ImageComplete
      BY <1>1 DEF InitializeAdapter, ImageComplete
    <2>2. (~closed)' = TRUE
      BY <1>1 DEF InitializeAdapter
    <2> QED
      BY <1>1, <2>1, <2>2 DEF InitializeAdapter, Lifecycle!OpenAdapter
  <1>2. CASE Scan
    <2>1. ~ImageComplete /\ ~ImageComplete' /\ UNCHANGED closed
      BY <1>2, ImageNeedsNodes DEF Scan, ImageComplete
    <2>2. UNCHANGED ImageComplete
      BY <2>1 DEF ImageComplete
    <2>3. state = "AdapterReady" /\ (state' = "Scanned" \/ UNCHANGED state)
      BY <1>2 DEF Scan
    <2> QED
      BY <2>1, <2>2, <2>3 DEF Lifecycle!DiscoverTopology
  <1>3. CASE EnterMaintenance
    BY <1>3 DEF EnterMaintenance, ImageComplete
  <1>4. CASE PrepareRun
    <2>1. ImageComplete' = ImageComplete /\ UNCHANGED <<state, closed>>
      <3>1. CASE dc
        BY <1>4, <3>1 DEF PrepareRun, ImageComplete, Control, BuiltSoFar, AllConfigured, TypeOK
      <3>2. CASE ~dc
        BY <1>4, <3>2 DEF PrepareRun, ImageComplete
      <3> QED
        BY <1>4, <3>1, <3>2 DEF PrepareRun
    <2> QED
      BY <2>1
  <1>5. CASE StartOperation
    BY <1>5 DEF StartOperation, ImageComplete
  <1>6. CASE BackToMaintenance
    BY <1>6 DEF BackToMaintenance, ImageComplete
  <1>7. CASE Stop
    BY <1>7 DEF Stop, ImageComplete
  <1>8. CASE RequestFault
    <2>1. UNCHANGED <<closed, ImageComplete>>
      BY <1>8 DEF RequestFault, ImageComplete
    <2>2. UNCHANGED state \/ state' = "Fault"
      BY <1>8 DEF RequestFault, EnterFault
    <2> QED
      BY <2>1, <2>2 DEF Lifecycle!EnterFault
  <1>9. CASE RequestEmergencyStop
    <2>1. UNCHANGED <<closed, ImageComplete>>
      BY <1>9 DEF RequestEmergencyStop, ImageComplete
    <2> QED
      BY <1>9, <2>1 DEF RequestEmergencyStop, Lifecycle!EnterEmergencyStop
  <1>10. CASE CheckSlaveStates
    <2>1. UNCHANGED <<closed, ImageComplete>>
      BY <1>10 DEF CheckSlaveStates, ImageComplete
    <2>2. UNCHANGED state \/ state' = "Fault"
      BY <1>10 DEF CheckSlaveStates, EnterFault
    <2> QED
      BY <2>1, <2>2 DEF Lifecycle!EnterFault
  <1>11. CASE EnterMaintenancePreOp
    BY <1>11 DEF EnterMaintenancePreOp, ImageComplete, EnterFault
  <1>12. CASE EnterMaintenanceCheck
    <2>1. state = "Scanned" /\ ~mapped
      BY <1>12 DEF EnterMaintenanceCheck, Control, PcMatchesState, BuiltSoFar
    <2>2. ~ImageComplete /\ ~ImageComplete' /\ UNCHANGED closed
      BY <1>12, <2>1 DEF EnterMaintenanceCheck, ImageComplete
    <2>3. UNCHANGED ImageComplete
      BY <2>2 DEF ImageComplete
    <2>4. state' = "Maintenance" \/ UNCHANGED state
      BY <1>12 DEF EnterMaintenanceCheck
    <2> QED
      BY <2>1, <2>2, <2>3, <2>4 DEF Lifecycle!ReachMaintenance
  <1>13. CASE PrepareRunMap
    <2>1. ImageComplete' = ImageComplete /\ UNCHANGED closed
      <3>1. state = "Maintenance" /\ found # {}
        BY <1>13, SessionHasSlaves DEF PrepareRunMap, Control, PcMatchesState, BuiltSoFar, InSession
      <3>2. CASE dc
        BY <1>13, <3>1, <3>2 DEF PrepareRunMap, ImageComplete, Control, BuiltSoFar
      <3>3. CASE ~dc
        BY <1>13, <3>3 DEF PrepareRunMap, ImageComplete
      <3> QED
        BY <1>13, <3>2, <3>3 DEF PrepareRunMap
    <2>2. UNCHANGED state \/ state' = "Fault"
      BY <1>13 DEF PrepareRunMap, EnterFault
    <2> QED
      BY <2>1, <2>2 DEF Lifecycle!EnterFault
  <1>14. CASE PrepareRunSafeOp
    <2>1. UNCHANGED <<closed, ImageComplete>>
      BY <1>14 DEF PrepareRunSafeOp, ImageComplete
    <2>2. UNCHANGED state \/ state' = "Fault"
      BY <1>14 DEF PrepareRunSafeOp, EnterFault
    <2> QED
      BY <2>1, <2>2 DEF Lifecycle!EnterFault
  <1>15. CASE PrepareRunCheck
    <2>1. UNCHANGED <<closed, ImageComplete>>
      BY <1>15 DEF PrepareRunCheck, ImageComplete
    <2>2. UNCHANGED state \/ state' = "Fault"
      BY <1>15 DEF PrepareRunCheck, EnterFault
    <2> QED
      BY <2>1, <2>2 DEF Lifecycle!EnterFault
  <1>16. CASE PrepareRunDc
    <2>1. state = "Maintenance" /\ state' = "ReadyToRun" /\ UNCHANGED closed
      BY <1>16 DEF PrepareRunDc, Control, PcMatchesState
    <2>2. found' # {}
      BY <1>16, <2>1, SessionHasSlaves DEF PrepareRunDc, Control, BuiltSoFar, InSession
    <2>3. ImageComplete'
      BY <2>1, <2>2 DEF ImageComplete, Control, BuiltSoFar, AllConfigured
    <2> QED
      BY <2>1, <2>3 DEF Lifecycle!FinishPrepare
  <1>17. CASE StartOperationOp
    <2>1. UNCHANGED <<closed, ImageComplete>>
      BY <1>17 DEF StartOperationOp, ImageComplete
    <2>2. UNCHANGED state \/ state' = "Fault"
      BY <1>17 DEF StartOperationOp, EnterFault
    <2> QED
      BY <2>1, <2>2 DEF Lifecycle!EnterFault
  <1>18. CASE StartOperationCheck
    <2>1. UNCHANGED <<closed, ImageComplete>>
      BY <1>18 DEF StartOperationCheck, ImageComplete
    <2>2. state = "ReadyToRun" /\ state' \in {"Operational", "Fault"}
      BY <1>18 DEF StartOperationCheck, EnterFault, Control, PcMatchesState
    <2> QED
      BY <2>1, <2>2 DEF Lifecycle!ReachOperational, Lifecycle!EnterFault
  <1>19. CASE BackSafeOp
    BY <1>19 DEF BackSafeOp, ImageComplete
  <1>20. CASE BackPreOp
    <2>1. UNCHANGED <<closed, ImageComplete>>
      BY <1>20 DEF BackPreOp, ImageComplete
    <2>2. UNCHANGED state \/ state' = "Fault"
      BY <1>20 DEF BackPreOp, EnterFault, Outcome
    <2> QED
      BY <2>1, <2>2 DEF Lifecycle!EnterFault
  <1>21. CASE BackCheck
    <2>1. UNCHANGED <<closed, ImageComplete>>
      BY <1>21 DEF BackCheck, ImageComplete
    <2>2. state \in {"ReadyToRun", "Operational"} /\ state' \in {"Maintenance", "Fault"}
      BY <1>21 DEF BackCheck, EnterFault, Control, PcMatchesState
    <2> QED
      BY <2>1, <2>2 DEF Lifecycle!ReachMaintenance, Lifecycle!EnterFault
  <1>22. CASE ShutdownSafeOp
    BY <1>22 DEF ShutdownSafeOp, ImageComplete
  <1>23. CASE ShutdownPreOp
    BY <1>23 DEF ShutdownPreOp, ImageComplete, EnterFault
  <1>24. CASE ShutdownInit
    BY <1>24 DEF ShutdownInit, ImageComplete
  <1>25. CASE ShutdownClose
    <2>1. state # "Uninitialized" /\ state' = "Uninitialized" /\ closed'
      BY <1>25 DEF ShutdownClose, Control, PcMatchesState
    <2>2. ~ImageComplete'
      BY <1>25 DEF ShutdownClose, ImageComplete, TypeOK
    <2> QED
      BY <2>1, <2>2 DEF Lifecycle!Release
  <1>26. CASE Environment
    BY <1>26 DEF Environment, SlaveFallsBack, SlaveLost, SlaveReturns, ImageComplete
  <1>27. CASE UNCHANGED vars
    BY <1>27 DEF vars, ImageComplete
  <1> QED
    BY <1>1, <1>2, <1>3, <1>4, <1>5, <1>6, <1>7, <1>8, <1>9, <1>10, <1>11,
       <1>12, <1>13, <1>14, <1>15, <1>16, <1>17, <1>18, <1>19, <1>20,
       <1>21, <1>22, <1>23, <1>24, <1>25, <1>26, <1>27
       DEF Next, Caller, Running

(* Seen from outside, the controller with its bus exchanges, failures and  *)
(* misbehaving slaves is the atomic lifecycle of MasterLifecycle.          *)
THEOREM Refinement == Spec => ImplementsLifecycle
  <1>1. Init => Lifecycle!LifecycleInit
    BY DEF Init, Lifecycle!LifecycleInit, ImageComplete
  <1>2. IInv /\ IInv' /\ [Next]_vars => [Lifecycle!LifecycleNext]_(Lifecycle!lifecycleVars)
    BY RefinementStep DEF IInv, Control
  <1> QED
    BY <1>1, <1>2, InductiveInvariant, PTL
       DEF Spec, ImplementsLifecycle, Lifecycle!LifecycleSpec
=============================================================================
