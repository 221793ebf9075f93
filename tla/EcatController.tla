---------------------------- MODULE EcatController ----------------------------
(***************************************************************************)
(* EcatController, the EcMaster it drives and the slaves on the bus.       *)
(*                                                                         *)
(* The public operations run one at a time (one calling thread), but each  *)
(* is a sequence of bus exchanges, and slaves fall back, vanish and return *)
(* between any two of them.  pc names the exchange that is about to        *)
(* happen; one exchange (a write followed by its state check, a read of    *)
(* all states, one round of the retry loop) is one step.                   *)
(*                                                                         *)
(* AL states have the values of the EtherCAT AL status register, so a      *)
(* slave may climb by doubling its state: 1 -> 2 -> 4 -> 8.                *)
(***************************************************************************)
EXTENDS Integers, Sequences, FiniteSets

CONSTANTS
  Slaves,          \* positions on the bus, a finite set of integers
  MaxRetries,      \* max_retries of RequestStateWithRetry
  Identity,        \* [Slaves -> identities]: what the EEPROM of each slave says
  ExpectedCount,   \* config_.expected_slave_count, 0 checks nothing
  ExpectedIds,     \* config_.expected_identities, a sequence, may be short
  ObedientSlaves,  \* the slaves that accept every legal request
  FaultWhileClosed \* TRUE: the caller may request a fault before the adapter is open

ASSUME SlavesAssumption == Slaves \subseteq Int /\ IsFiniteSet(Slaves)
ASSUME RetriesAssumption == MaxRetries \in Nat
ASSUME FlagsAssumption == ObedientSlaves \subseteq Slaves /\ FaultWhileClosed \in BOOLEAN

VARIABLES
  state,   \* state_ of the controller
  closed,  \* closed_ of EcMaster
  pc,      \* the next bus exchange of the running operation, "idle" between operations
  tries,   \* i of the retry loop
  al,      \* [Slaves -> Word]: the AL status word of each slave
  found,   \* slavelist / slavecount after the last scan
  nodes,   \* nodes_: [Slaves -> NodeState]
  mapped,  \* the IO map is built (outputs / inputs pointers are set)
  dc       \* the distributed clocks are configured

vars == <<state, closed, pc, tries, al, found, nodes, mapped, dc>>

ControllerState == {"Uninitialized", "AdapterReady", "Scanned", "Maintenance",
                    "ReadyToRun", "Operational", "Fault", "EmergencyStop"}
NodeState == {"absent", "placeholder", "configured"}

(***************************************************************************)
(* The bus.                                                                *)
(***************************************************************************)
NONE == 0      \* no answer
INIT == 1
PRE_OP == 2
SAFE_OP == 4
OP == 8

AlState == {NONE, INIT, PRE_OP, SAFE_OP, OP}
Word == [st : AlState, err : BOOLEAN]
Clean(st) == [st |-> st, err |-> FALSE]
Silent == Clean(NONE)

(* A slave accepts the request, refuses it with an AL error, or lets the   *)
(* time-out of the state check pass.                                       *)
Reply == {"accept", "refuse", "ignore"}
Replies == {reply \in [Slaves -> Reply] : \A s \in ObedientSlaves : reply[s] = "accept"}

Legal(w, target) == target <= w.st \/ target = 2 * w.st

(* A slave with an error stays until the error is acknowledged; only a     *)
(* request for a lower state gets through without.                         *)
Answer(w, target, ack, reply) ==
  CASE w.st = NONE -> w
    [] w.st # NONE /\ reply = "ignore" -> w
    [] w.st # NONE /\ reply = "accept" /\ Legal(w, target)
         /\ (~w.err \/ ack \/ target < w.st) -> Clean(target)
    [] OTHER -> [w EXCEPT !.err = TRUE]

(* Bus traffic on a closed context reaches nobody.                         *)
Broadcast(target, ack, reply) ==
  IF closed THEN al
  ELSE [s \in Slaves |-> Answer(al[s], target, ack, reply[s])]

(* ecx_statecheck on slot 0: one broadcast read that combines the words of *)
(* the slaves that answer; a silent slave does not show in it.             *)
StateCheck(words, target) ==
  LET answering == {s \in Slaves : words[s].st # NONE}
  IN  answering # {} /\ \A s \in answering : words[s] = Clean(target)

(* Mutant: the loop returns on the first slave that is in the state.       *)
CheckOneSlaveInState(target) == \E s \in found : al[s] = Clean(target)

(* CheckAllSlavesInState: every slave of the last scan is looked at.       *)
CheckAllSlavesInState(target) == \A s \in found : al[s] = Clean(target)

(***************************************************************************)
(* EcMaster.                                                               *)
(***************************************************************************)
(* RequestState: one broadcast; ok tells whether slot 0 shows the target.  *)
RequestState(target, ok) ==
  /\ \E reply \in Replies : al' = Broadcast(target, FALSE, reply)
  /\ ok = (~closed /\ StateCheck(al', target))

(* Mutant: one retry more than asked for.                                  *)
OneRetryMore == tries <= MaxRetries

(* The condition of the retry loop, after a round that did not succeed.    *)
MayRetry == tries < MaxRetries

(* One round of RequestStateWithRetry(0, PRE_OP).  Slot 0 after the read   *)
(* shows some slave's word.  A round ends the loop or starts another one.  *)
RequestPreOpRound(outcome) ==
  \E seen \in {al[s] : s \in found} :
    LET next == IF MayRetry THEN "again" ELSE "failed" IN
    /\ \/ /\ seen = Clean(PRE_OP)
          /\ outcome = "reached"
          /\ UNCHANGED al
       \/ /\ seen.err
          /\ \E reply \in Replies : al' = Broadcast(seen.st, TRUE, reply)
          /\ outcome = next
       \/ /\ ~seen.err /\ seen.st # PRE_OP
          /\ \E reply \in Replies : al' = Broadcast(PRE_OP, FALSE, reply)
          /\ outcome = IF StateCheck(al', PRE_OP) THEN "reached" ELSE next
    /\ tries' = IF outcome = "again" THEN tries + 1 ELSE 0

Outcome == {"reached", "again", "failed"}

(***************************************************************************)
(* Topology check of DoScan: the i-th slave found against the i-th         *)
(* identity of the configuration; 0 in the configuration matches anything. *)
(***************************************************************************)
Position(s, f) == Cardinality({t \in f : t <= s})

Matches(expected, actual) ==
  /\ expected.vendor # 0 => actual.vendor = expected.vendor
  /\ expected.product # 0 => actual.product = expected.product

TopologyAccepted(f) ==
  /\ f # {}
  /\ ExpectedCount > 0 => Cardinality(f) = ExpectedCount
  /\ \A s \in f : Position(s, f) \in DOMAIN ExpectedIds
                    => Matches(ExpectedIds[Position(s, f)], Identity[s])

(***************************************************************************)
(* Leaving for the fault states, and the first exchange of DoShutdown.     *)
(***************************************************************************)
EnterFault == state' = "Fault" /\ pc' = "idle"

(* Mutant: after a fault the bus is left as it is.                         *)
ShutdownLeavesFaultedBus(st) ==
  CASE st = "Operational" -> "sd_safeop"
    [] st \in {"ReadyToRun", "Maintenance"} -> "sd_preop"
    [] OTHER -> "sd_close"

ShutdownFrom(st) ==
  CASE st = "Operational" -> "sd_safeop"
    [] st \in {"ReadyToRun", "Maintenance"} -> "sd_preop"
    [] st \in {"Fault", "EmergencyStop"} -> "sd_init"
    [] OTHER -> "sd_close"

Init == /\ state = "Uninitialized" /\ closed = TRUE
        /\ pc = "idle" /\ tries = 0
        /\ al \in [Slaves -> {Silent} \cup {Clean(st) : st \in {INIT, PRE_OP, OP}}]
        /\ found = {} /\ nodes = [s \in Slaves |-> "absent"]
        /\ mapped = FALSE /\ dc = FALSE

(* A refused ecx_init changes nothing and is not a step.                   *)
InitializeAdapter ==
  /\ pc = "idle" /\ state = "Uninitialized"
  /\ closed' = FALSE /\ state' = "AdapterReady"
  /\ UNCHANGED <<pc, tries, al, found, nodes, mapped, dc>>

(* ecx_config_init resets the slaves that answer, lifts some of them to    *)
(* PRE_OP, and rebuilds the slave list.                                    *)
Scan ==
  /\ pc = "idle" /\ state = "AdapterReady"
  /\ found' = {s \in Slaves : al[s].st # NONE}
  /\ \E lifted \in SUBSET found' :
       al' = [s \in Slaves |-> IF s \notin found' THEN Silent
                               ELSE Clean(IF s \in lifted THEN PRE_OP ELSE INIT)]
  /\ mapped' = FALSE /\ dc' = FALSE
  /\ IF TopologyAccepted(found')
       THEN state' = "Scanned" /\ pc' = "idle"
       ELSE pc' = ShutdownFrom(state) /\ UNCHANGED state
  /\ UNCHANGED <<closed, tries, nodes>>

(***************************************************************************)
(* EnterMaintenance: PRE_OP for everybody, then one node per slave.        *)
(***************************************************************************)
EnterMaintenance ==
  /\ pc = "idle" /\ state = "Scanned"
  /\ pc' = "em_preop"
  /\ UNCHANGED <<state, closed, tries, al, found, nodes, mapped, dc>>

EnterMaintenancePreOp ==
  /\ pc = "em_preop"
  /\ \E outcome \in Outcome :
       /\ RequestPreOpRound(outcome)
       /\ pc' = CASE outcome = "reached" -> "em_check"
                  [] outcome = "again" -> pc
                  [] outcome = "failed" -> ShutdownFrom(state)
  /\ UNCHANGED <<state, closed, found, nodes, mapped, dc>>

(* Mutant: the nodes of the scanned slaves are not made.                   *)
EnterMaintenanceKeepsNodes ==
  /\ pc = "em_check"
  /\ IF CheckAllSlavesInState(PRE_OP)
       THEN state' = "Maintenance" /\ pc' = "idle"
       ELSE pc' = ShutdownFrom(state) /\ UNCHANGED state
  /\ UNCHANGED <<closed, tries, al, found, nodes, mapped, dc>>

EnterMaintenanceCheck ==
  /\ pc = "em_check"
  /\ IF CheckAllSlavesInState(PRE_OP)
       THEN /\ state' = "Maintenance" /\ pc' = "idle"
            /\ nodes' = [s \in Slaves |-> IF s \in found THEN "placeholder" ELSE "absent"]
       ELSE pc' = ShutdownFrom(state) /\ UNCHANGED <<state, nodes>>
  /\ UNCHANGED <<closed, tries, al, found, mapped, dc>>

(***************************************************************************)
(* PrepareRun: nodes, IO map, SAFE_OP, DC; any failure is a fault.         *)
(***************************************************************************)
(* Mutant: SAFE_OP is requested without an IO map.                         *)
PrepareRunUnmapped ==
  /\ pc = "idle" /\ state = "Maintenance"
  /\ nodes' = [s \in Slaves |-> IF nodes[s] = "placeholder" THEN "configured" ELSE nodes[s]]
  /\ pc' = "pr_safeop"
  /\ UNCHANGED <<state, closed, tries, al, found, mapped, dc>>

PrepareRun ==
  /\ pc = "idle" /\ state = "Maintenance"
  /\ nodes' = [s \in Slaves |-> IF nodes[s] = "placeholder" THEN "configured" ELSE nodes[s]]
  /\ pc' = "pr_map"
  /\ UNCHANGED <<state, closed, tries, al, found, mapped, dc>>

PrepareRunMap ==
  /\ pc = "pr_map"
  /\ IF found = {} THEN EnterFault /\ UNCHANGED mapped
                   ELSE mapped' = TRUE /\ pc' = "pr_safeop" /\ UNCHANGED state
  /\ UNCHANGED <<closed, tries, al, found, nodes, dc>>

PrepareRunSafeOp ==
  /\ pc = "pr_safeop"
  /\ \E ok \in BOOLEAN :
       /\ RequestState(SAFE_OP, ok)
       /\ IF ok THEN pc' = "pr_check" /\ UNCHANGED state ELSE EnterFault
  /\ UNCHANGED <<closed, tries, found, nodes, mapped, dc>>

PrepareRunCheck ==
  /\ pc = "pr_check"
  /\ IF CheckAllSlavesInState(SAFE_OP) THEN pc' = "pr_dc" /\ UNCHANGED state ELSE EnterFault
  /\ UNCHANGED <<closed, tries, al, found, nodes, mapped, dc>>

PrepareRunDc ==
  /\ pc = "pr_dc"
  /\ dc' = TRUE /\ state' = "ReadyToRun" /\ pc' = "idle"
  /\ UNCHANGED <<closed, tries, al, found, nodes, mapped>>

(***************************************************************************)
(* StartOperation.                                                         *)
(***************************************************************************)
StartOperation ==
  /\ pc = "idle" /\ state = "ReadyToRun"
  /\ pc' = "so_op"
  /\ UNCHANGED <<state, closed, tries, al, found, nodes, mapped, dc>>

StartOperationOp ==
  /\ pc = "so_op"
  /\ \E ok \in BOOLEAN :
       /\ RequestState(OP, ok)
       /\ IF ok THEN pc' = "so_check" /\ UNCHANGED state ELSE EnterFault
  /\ UNCHANGED <<closed, tries, found, nodes, mapped, dc>>

StartOperationCheck ==
  /\ pc = "so_check"
  /\ IF CheckAllSlavesInState(OP) THEN state' = "Operational" /\ pc' = "idle" ELSE EnterFault
  /\ UNCHANGED <<closed, tries, al, found, nodes, mapped, dc>>

(***************************************************************************)
(* BackToMaintenance: from Operational a SAFE_OP request comes first, and  *)
(* only its failure is ignored.                                            *)
(***************************************************************************)
(* Mutant: the action table lets a faulted controller back without Stop.   *)
BackFromFault ==
  /\ pc = "idle" /\ state \in {"ReadyToRun", "Operational", "Fault"}
  /\ pc' = IF state = "Operational" THEN "bm_safeop" ELSE "bm_preop"
  /\ UNCHANGED <<state, closed, tries, al, found, nodes, mapped, dc>>

BackToMaintenance ==
  /\ pc = "idle" /\ state \in {"ReadyToRun", "Operational"}
  /\ pc' = IF state = "Operational" THEN "bm_safeop" ELSE "bm_preop"
  /\ UNCHANGED <<state, closed, tries, al, found, nodes, mapped, dc>>

BackSafeOp ==
  /\ pc = "bm_safeop"
  /\ \E ok \in BOOLEAN : RequestState(SAFE_OP, ok)
  /\ pc' = "bm_preop"
  /\ UNCHANGED <<state, closed, tries, found, nodes, mapped, dc>>

BackPreOp ==
  /\ pc = "bm_preop"
  /\ \E outcome \in Outcome :
       /\ RequestPreOpRound(outcome)
       /\ CASE outcome = "reached" -> pc' = "bm_check" /\ UNCHANGED state
            [] outcome = "again" -> UNCHANGED <<pc, state>>
            [] outcome = "failed" -> EnterFault
  /\ UNCHANGED <<closed, found, nodes, mapped, dc>>

(* Mutant: the answer of slot 0 is taken for that of every slave.          *)
BackUnchecked ==
  /\ pc = "bm_check"
  /\ state' = "Maintenance" /\ pc' = "idle"
  /\ UNCHANGED <<closed, tries, al, found, nodes, mapped, dc>>

BackCheck ==
  /\ pc = "bm_check"
  /\ IF CheckAllSlavesInState(PRE_OP) THEN state' = "Maintenance" /\ pc' = "idle"
                                      ELSE EnterFault
  /\ UNCHANGED <<closed, tries, al, found, nodes, mapped, dc>>

(***************************************************************************)
(* Stop / DoShutdown: no failure stops it.                                 *)
(***************************************************************************)
Stop ==
  /\ pc = "idle" /\ state # "Uninitialized"
  /\ pc' = ShutdownFrom(state)
  /\ UNCHANGED <<state, closed, tries, al, found, nodes, mapped, dc>>

ShutdownSafeOp ==
  /\ pc = "sd_safeop"
  /\ \E ok \in BOOLEAN : RequestState(SAFE_OP, ok)
  /\ pc' = "sd_preop"
  /\ UNCHANGED <<state, closed, tries, found, nodes, mapped, dc>>

ShutdownPreOp ==
  /\ pc = "sd_preop"
  /\ \E outcome \in Outcome :
       /\ RequestPreOpRound(outcome)
       /\ pc' = IF outcome = "again" THEN pc ELSE "sd_init"
  /\ UNCHANGED <<state, closed, found, nodes, mapped, dc>>

(* Mutant: INIT is requested until the slaves accept it.                   *)
ShutdownInitUntilAccepted ==
  /\ pc = "sd_init"
  /\ \E ok \in BOOLEAN : RequestState(INIT, ok) /\ pc' = IF ok THEN "sd_close" ELSE pc
  /\ UNCHANGED <<state, closed, tries, found, nodes, mapped, dc>>

ShutdownInit ==
  /\ pc = "sd_init"
  /\ \E ok \in BOOLEAN : RequestState(INIT, ok)
  /\ pc' = "sd_close"
  /\ UNCHANGED <<state, closed, tries, found, nodes, mapped, dc>>

(* Mutant: the nodes of the session are kept.                              *)
ShutdownKeepsNodes ==
  /\ pc = "sd_close"
  /\ closed' = TRUE /\ state' = "Uninitialized" /\ pc' = "idle"
  /\ UNCHANGED <<tries, al, found, nodes, mapped, dc>>

(* Mutant: the adapter is closed and the state is not reset.               *)
ShutdownKeepsState ==
  /\ pc = "sd_close"
  /\ nodes' = [s \in Slaves |-> "absent"]
  /\ closed' = TRUE /\ pc' = "idle"
  /\ UNCHANGED <<state, tries, al, found, mapped, dc>>

ShutdownClose ==
  /\ pc = "sd_close"
  /\ nodes' = [s \in Slaves |-> "absent"]
  /\ closed' = TRUE /\ state' = "Uninitialized" /\ pc' = "idle"
  /\ UNCHANGED <<tries, al, found, mapped, dc>>

(***************************************************************************)
(* RequestFault, RequestEmergencyStop: accepted in every state.  The       *)
(* snapshot they log reads the bus and changes nothing.                    *)
(***************************************************************************)
RequestFault ==
  /\ pc = "idle" /\ (FaultWhileClosed \/ ~closed)
  /\ EnterFault
  /\ UNCHANGED <<closed, tries, al, found, nodes, mapped, dc>>

RequestEmergencyStop ==
  /\ pc = "idle" /\ (FaultWhileClosed \/ ~closed)
  /\ state' = "EmergencyStop"
  /\ UNCHANGED <<closed, pc, tries, al, found, nodes, mapped, dc>>

(* ProcessDataEngine::CheckSlaveStates; a check that passes, or that the   *)
(* throttle skips, is no step.                                             *)
CheckSlaveStates ==
  /\ pc = "idle"
  /\ \/ state = "Maintenance" /\ ~CheckAllSlavesInState(PRE_OP)
     \/ state = "Operational" /\ ~CheckAllSlavesInState(OP)
  /\ EnterFault
  /\ UNCHANGED <<closed, tries, al, found, nodes, mapped, dc>>

(***************************************************************************)
(* The slaves: a slave falls back with an error (watchdog, sync loss),     *)
(* stops answering, or comes back after a power cycle.                     *)
(***************************************************************************)
SlaveFallsBack(s) ==
  /\ \E st \in {INIT, PRE_OP, SAFE_OP} :
       st < al[s].st /\ al' = [al EXCEPT ![s] = [st |-> st, err |-> TRUE]]
  /\ UNCHANGED <<state, closed, pc, tries, found, nodes, mapped, dc>>

SlaveLost(s) ==
  /\ al[s].st # NONE
  /\ al' = [al EXCEPT ![s] = Silent]
  /\ UNCHANGED <<state, closed, pc, tries, found, nodes, mapped, dc>>

SlaveReturns(s) ==
  /\ al[s].st = NONE
  /\ al' = [al EXCEPT ![s] = Clean(INIT)]
  /\ UNCHANGED <<state, closed, pc, tries, found, nodes, mapped, dc>>

Caller ==
  \/ InitializeAdapter \/ Scan \/ EnterMaintenance \/ PrepareRun
  \/ StartOperation \/ BackToMaintenance \/ Stop
  \/ RequestFault \/ RequestEmergencyStop \/ CheckSlaveStates

(* The steps the library takes by itself once an operation has begun.      *)
Running ==
  \/ EnterMaintenancePreOp \/ EnterMaintenanceCheck
  \/ PrepareRunMap \/ PrepareRunSafeOp \/ PrepareRunCheck \/ PrepareRunDc
  \/ StartOperationOp \/ StartOperationCheck
  \/ BackSafeOp \/ BackPreOp \/ BackCheck
  \/ ShutdownSafeOp \/ ShutdownPreOp \/ ShutdownInit \/ ShutdownClose

Environment == \E s \in Slaves : SlaveFallsBack(s) \/ SlaveLost(s) \/ SlaveReturns(s)

Next == Caller \/ Running \/ Environment

Spec == Init /\ [][Next]_vars

(* A bus exchange has a time-out, so a running operation always goes on;   *)
(* nothing is assumed of the caller or of the slaves.                      *)
FairSpec == Spec /\ WF_vars(Running)

(***************************************************************************)
(* Properties.                                                             *)
(***************************************************************************)
BringUpSteps == {"em_preop", "em_check", "pr_map", "pr_safeop", "pr_check", "pr_dc",
                 "so_op", "so_check", "bm_safeop", "bm_preop", "bm_check"}
ShutdownSteps == {"sd_safeop", "sd_preop", "sd_init", "sd_close"}

(* Every variable keeps its type, the retry counter its bound.             *)
TypeOK ==
  /\ state \in ControllerState /\ closed \in BOOLEAN
  /\ pc \in {"idle"} \cup BringUpSteps \cup ShutdownSteps
  /\ tries \in 0..MaxRetries
  /\ al \in [Slaves -> Word] /\ found \subseteq Slaves
  /\ nodes \in [Slaves -> NodeState]
  /\ mapped \in BOOLEAN /\ dc \in BOOLEAN

(* The highest AL state a scanned slave may be in, given where the         *)
(* controller says it is.                                                  *)
Ceiling ==
  CASE state = "Scanned" -> PRE_OP
    [] state = "Maintenance" /\ pc \in {"pr_check", "pr_dc"} -> SAFE_OP
    [] state = "Maintenance" /\ pc \notin {"pr_check", "pr_dc"} -> PRE_OP
    [] state = "ReadyToRun" /\ pc # "so_check" -> SAFE_OP
    [] OTHER -> OP

(* No scanned slave is further up the EtherCAT ladder than the state the   *)
(* controller reports: in Maintenance nobody exchanges process data while  *)
(* SDO activities run, in ReadyToRun nobody drives outputs.  DoAction's    *)
(* BackToMaintenance and DoEnterMaintenance have to see every slave for    *)
(* this, because the aggregate state of slot 0 hides slaves.               *)
SlavesBelowController == \A s \in found : al[s].st <= Ceiling

ImageComplete == /\ mapped /\ dc /\ found # {}
                 /\ \A s \in found : nodes[s] = "configured"

(* ReadyToRun and Operational are reported only with the adapter open, the *)
(* whole process image built for exactly the slaves of a topology the      *)
(* configuration accepts, across any number of fall backs to Maintenance,  *)
(* failed preparations and new sessions.                                   *)
ReadyMeansPrepared ==
  state \in {"ReadyToRun", "Operational"} =>
    ~closed /\ ImageComplete /\ TopologyAccepted(found)

(* A slave leaves PRE_OP upwards only when its outputs and inputs have     *)
(* memory to point to and its node has buffers (DoSafeOp after             *)
(* DoPdoConfigure), counting from the scan of the current session.         *)
ImageBeforeSafeOp ==
  state \in {"Scanned", "Maintenance", "ReadyToRun", "Operational"} =>
    \A s \in found : al[s].st > PRE_OP => mapped /\ nodes[s] = "configured"

(* Nothing leaks: between operations a controller that reports             *)
(* Uninitialized has closed the adapter and dropped every node, and a      *)
(* closed adapter is never behind a state that promises a bus.             *)
ReleasedWhenUninitialized ==
  /\ state = "Uninitialized" => closed
  /\ closed => /\ state \in {"Uninitialized", "Fault", "EmergencyStop"}
               /\ \A s \in Slaves : nodes[s] = "absent"

(* No exchange of an operation, shutdown included, is made on a SOEM       *)
(* context that is not open (the closed_ flag of EcMaster guards only      *)
(* Close itself).                                                          *)
NoTrafficWhenClosed == pc \in (BringUpSteps \cup ShutdownSteps) \ {"sd_close"} => ~closed

(* A shutdown that is about to close the adapter leaves a slave that       *)
(* accepts legal requests in INIT when the controller had reached          *)
(* Maintenance or a fault, and in PRE_OP at most when the bring-up ended   *)
(* before, however the other slaves behave in the retry loop.              *)
ShutdownRestsSlaves ==
  pc = "sd_close" /\ ~closed =>
    \A s \in found \cap ObedientSlaves :
      al[s].st <= IF state \in {"AdapterReady", "Scanned"} THEN PRE_OP ELSE INIT

(* Maintenance and Operational are entered only in a step that has just    *)
(* seen every scanned slave, one by one, in the AL state the name promises *)
(* and free of errors.                                                     *)
EnteredOnlyWhenChecked ==
  [][ /\ state' = "Maintenance" /\ state # "Maintenance"
           => \A s \in found : al[s] = Clean(PRE_OP)
      /\ state' = "Operational" /\ state # "Operational"
           => \A s \in found : al[s] = Clean(OP) ]_vars

(* Whatever the slaves do, an operation that has begun returns: the retry  *)
(* loop of RequestStateWithRetry is bounded, and no failure stops a        *)
(* shutdown.                                                               *)
OperationsReturn == pc # "idle" ~> pc = "idle"

(* The detailed controller implements the lifecycle its clients see.       *)
Lifecycle == INSTANCE MasterLifecycle WITH open <- ~closed, prepared <- ImageComplete

ImplementsLifecycle == Lifecycle!LifecycleSpec
=============================================================================
