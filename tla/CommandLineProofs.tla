--------------------------- MODULE CommandLineProofs ---------------------------
(***************************************************************************)
(* The program leaves nothing open, its buffers, counters and positions    *)
(* keep to their ranges and its PDO dumps move on, for any number of       *)
(* slaves, any bound on what is typed and any counts in the PDO tables.    *)
(***************************************************************************)
EXTENDS CommandLine, PdoReadingProofs

(* Uninitialized always means released, and the program begins and is over *)
(* only there.                                                             *)
IInv ==
  /\ state \in ControllerState
  /\ state = "Uninitialized" => ~open /\ ~prepared
  /\ pc \in {"start", "over"} => state = "Uninitialized"

(* An operation of the controller that ends in Uninitialized has released  *)
(* everything.                                                             *)
LEMMA DispatchReleases ==
  ASSUME NEW op \in Operation, Dispatch(op),
         state \in ControllerState, state = "Uninitialized" => ~open /\ ~prepared
  PROVE  /\ state' \in ControllerState
         /\ state' = "Uninitialized" => ~open' /\ ~prepared'
<1> USE DEF lifecycleVars, ControllerState
<1>1. CASE UNCHANGED lifecycleVars
  BY <1>1
<1>2. CASE ControllerDoes(op)
  BY <1>2 DEF ControllerDoes, OpenAdapter, DiscoverTopology, ReachMaintenance, FinishPrepare,
     ReachOperational, EnterFault, EnterEmergencyStop, Release
<1> QED
  BY <1>1, <1>2 DEF Dispatch

(* The invariant is inductive: only a failed start and the shutdown end    *)
(* the program, every other step stays in its loop.                        *)
LEMMA StepIInv == IInv /\ [Next]_vars => IInv'
<1> SUFFICES ASSUME IInv, [Next]_vars PROVE IInv'
  OBVIOUS
<1> USE DEF IInv
<1>1. CASE Initialize
  <2>1. state' \in {"Uninitialized", "AdapterReady"}
    BY <1>1 DEF Initialize, Dispatch, ControllerDoes, OpenAdapter, lifecycleVars
  <2>2. state' \in ControllerState /\ (state' = "Uninitialized" => ~open' /\ ~prepared')
    BY <1>1, DispatchReleases DEF Initialize, Operation
  <2> QED
    BY <1>1, <2>1, <2>2 DEF Initialize
<1>2. CASE Loop \/ FillBuffer \/ GetLine \/ EndOfInput
  BY <1>2 DEF Loop, FillBuffer, GetLine, EndOfInput, lifecycleVars
<1>3. CASE Service
  BY <1>3 DEF Service, EnterFault, ControllerState, lifecycleVars
<1>4. CASE HandleNothing \/ BeginSdo \/ UploadPdo \/ NextSlave
  BY <1>4 DEF HandleNothing, BeginSdo, UploadPdo, NextSlave, lifecycleVars
<1>5. CASE Operate
  <2>1. OperationOf[command] \in Operation
    <3>1. command \in {"scan", "config", "prepare", "start", "back", "stop"}
      BY <1>5 DEF Operate, Menu, SdoCommand, ControllerState
    <3> QED
      BY <3>1 DEF OperationOf, Operation
  <2>2. state' \in ControllerState /\ (state' = "Uninitialized" => ~open' /\ ~prepared')
    BY <1>5, <2>1, DispatchReleases DEF Operate
  <2> QED
    BY <1>5, <2>2 DEF Operate
<1>6. CASE Shutdown
  <2>1. state' = "Uninitialized"
    BY <1>6 DEF Shutdown, Dispatch, Allowed, ControllerDoes, Release, lifecycleVars
  <2>2. state' \in ControllerState /\ (state' = "Uninitialized" => ~open' /\ ~prepared')
    BY <1>6, DispatchReleases DEF Shutdown, Operation
  <2> QED
    BY <2>1, <2>2
<1>7. CASE Environment
  BY <1>7 DEF Environment, Signal, lifecycleVars
<1>8. CASE UNCHANGED vars
  BY <1>8 DEF vars, lifecycleVars
<1> QED
  BY <1>1, <1>2, <1>3, <1>4, <1>5, <1>6, <1>7, <1>8 DEF Next, Program

(* However the program ends, the controller has been stopped and the       *)
(* adapter closed.                                                         *)
THEOREM NothingLeftOpen == Spec => []ReleasedAtExit
<1>1. Init => IInv
  BY DEF Init, LifecycleInit, ControllerState, IInv
<1>2. IInv => ReleasedAtExit
  BY DEF IInv, ReleasedAtExit
<1> QED
  BY <1>1, <1>2, StepIInv, PTL DEF Spec

(***************************************************************************)
(* Types.  A line that was begun has its place kept in the buffers, so     *)
(* that the end of the input can complete it.                              *)
(***************************************************************************)
Held == state \in ControllerState /\ open \in BOOLEAN /\ prepared \in BOOLEAN

Switches == tty \in BOOLEAN /\ eof \in BOOLEAN /\ on \in BOOLEAN

Buffers ==
  /\ kernel \in Seq(Line) /\ stdio \in Seq(Line) /\ Len(kernel) + Len(stdio) <= Pending
  /\ partial \in {"none", "kernel", "stdio"}
  /\ partial # "none" => Len(kernel) + Len(stdio) < Pending

Place ==
  /\ pc \in {"start", "loop", "getline", "service", "handle", "sdo", "shutdown", "over"}
  /\ command \in Command \cup {"none"}

Slavewise == slave \in 0..last /\ last \in 0..Slaves /\ reading \in Position

TypeInv == Held /\ Switches /\ Buffers /\ Place /\ Slavewise

LEMMA DispatchTypes ==
  ASSUME NEW op \in Operation, Held, Dispatch(op)
  PROVE  Held'
<1> USE DEF Held, lifecycleVars, ControllerState
<1>1. CASE UNCHANGED lifecycleVars
  BY <1>1
<1>2. CASE ControllerDoes(op)
  BY <1>2 DEF ControllerDoes, OpenAdapter, DiscoverTopology, ReachMaintenance, FinishPrepare,
     ReachOperational, EnterFault, EnterEmergencyStop, Release
<1> QED
  BY <1>1, <1>2 DEF Dispatch

LEMMA HeldKept == Held /\ [Next]_vars => Held'
<1> SUFFICES ASSUME Held, [Next]_vars PROVE Held'
  OBVIOUS
<1>1. CASE UNCHANGED lifecycleVars
  BY <1>1 DEF Held, lifecycleVars
<1>2. CASE Initialize
  BY <1>2, DispatchTypes DEF Initialize, Operation
<1>3. CASE Service
  BY <1>3, <1>1 DEF Service, EnterFault, ControllerState, Held
<1>4. CASE Operate
  <2>1. OperationOf[command] \in Operation
    <3>1. command \in {"scan", "config", "prepare", "start", "back", "stop"}
      BY <1>4 DEF Operate, Menu, SdoCommand, ControllerState, Held
    <3> QED
      BY <3>1 DEF OperationOf, Operation
  <2> QED
    BY <1>4, <2>1, DispatchTypes DEF Operate
<1>5. CASE Shutdown
  BY <1>5, DispatchTypes DEF Shutdown, Operation
<1> QED
  BY <1>1, <1>2, <1>3, <1>4, <1>5
  DEF Next, Program, Environment, vars, Loop, FillBuffer, GetLine, EndOfInput, HandleNothing,
      BeginSdo, UploadPdo, NextSlave

LEMMA SwitchesKept == Switches /\ [Next]_vars => Switches'
BY DEF Switches, Next, Program, Environment, TypeLine, TypePart, CloseInput, Signal, vars,
   inputVars, Initialize, Loop, FillBuffer, GetLine, EndOfInput, Service, HandleNothing, Operate,
   BeginSdo, UploadPdo, NextSlave, Shutdown

(* What the environment types has room in the buffers.                     *)
LEMMA BuffersKept == Buffers /\ [Next]_vars => Buffers'
<1> SUFFICES ASSUME Buffers, [Next]_vars PROVE Buffers'
  OBVIOUS
<1> USE DEF Buffers
<1>0. Len(kernel) \in Nat /\ Len(stdio) \in Nat /\ Pending \in Nat
  BY CommandLineAssumption
<1>1. CASE UNCHANGED inputVars
  BY <1>1 DEF inputVars
<1>2. CASE FillBuffer
  <2>1. CASE kernel # <<>> /\ stdio' = <<Head(kernel)>> /\ kernel' = Tail(kernel) /\ UNCHANGED partial
    <3>1. Head(kernel) \in Line /\ Tail(kernel) \in Seq(Line) /\ Len(Tail(kernel)) = Len(kernel) - 1
      BY <2>1
    <3>2. Len(stdio) = 0 /\ <<Head(kernel)>> \in Seq(Line) /\ Len(<<Head(kernel)>>) = 1
      BY <1>2, <3>1 DEF FillBuffer
    <3> QED
      BY <2>1, <3>1, <3>2
  <2>2. CASE /\ stdio' = kernel /\ kernel' = <<>>
             /\ partial' = IF partial = "kernel" THEN "stdio" ELSE partial
    BY <1>2, <2>2 DEF FillBuffer
  <2> QED
    BY <1>2, <2>1, <2>2 DEF FillBuffer
<1>3. CASE GetLine
  <2>1. Tail(stdio) \in Seq(Line) /\ Len(Tail(stdio)) = Len(stdio) - 1
    BY <1>3 DEF GetLine
  <2>2. stdio' = Tail(stdio) /\ UNCHANGED <<kernel, partial>>
    BY <1>3 DEF GetLine
  <2>3. Len(kernel') = Len(kernel) /\ Len(stdio') = Len(stdio) - 1
    BY <2>1, <2>2
  <2>4. kernel' \in Seq(Line) /\ stdio' \in Seq(Line)
    BY <2>1, <2>2
  <2> QED
    BY <1>0, <2>2, <2>3, <2>4
<1>4. CASE TypeLine
  <2>1. PICK line \in Line : kernel' = Append(kernel, line)
    BY <1>4 DEF TypeLine
  <2>2. kernel' \in Seq(Line) /\ Len(kernel') = Len(kernel) + 1
    BY <2>1
  <2>3. /\ stdio' = stdio /\ partial' = "none"
        /\ Len(kernel) + Len(stdio) < Pending
    BY <1>4 DEF TypeLine, Room
  <2>4. stdio' \in Seq(Line) /\ Len(stdio') = Len(stdio)
    BY <2>3
  <2> QED
    BY <1>0, <2>2, <2>3, <2>4
<1>5. CASE TypePart
  BY <1>5 DEF TypePart, Room
<1>6. CASE CloseInput
  <2>1. PICK line \in Line :
          /\ kernel' = IF partial = "kernel" THEN Append(kernel, line) ELSE kernel
          /\ stdio' = IF partial = "stdio" THEN Append(stdio, line) ELSE stdio
    BY <1>6 DEF CloseInput
  <2>2. /\ Append(kernel, line) \in Seq(Line) /\ Len(Append(kernel, line)) = Len(kernel) + 1
        /\ Append(stdio, line) \in Seq(Line) /\ Len(Append(stdio, line)) = Len(stdio) + 1
    OBVIOUS
  <2>3. partial' = "none"
    BY <1>6 DEF CloseInput
  <2>4. /\ kernel' \in Seq(Line) /\ stdio' \in Seq(Line)
        /\ Len(kernel') = IF partial = "kernel" THEN Len(kernel) + 1 ELSE Len(kernel)
        /\ Len(stdio') = IF partial = "stdio" THEN Len(stdio) + 1 ELSE Len(stdio)
    BY <2>1, <2>2
  <2>5. Len(kernel') + Len(stdio') <= Pending
    <3>1. CASE partial = "none"
      BY <1>0, <2>4, <3>1
    <3>2. CASE partial = "kernel"
      <4>1. Len(kernel') = Len(kernel) + 1 /\ Len(stdio') = Len(stdio)
        BY <2>4, <3>2
      <4> QED
        BY <1>0, <3>2, <4>1
    <3>3. CASE partial = "stdio"
      <4>1. Len(kernel') = Len(kernel) /\ Len(stdio') = Len(stdio) + 1
        BY <2>4, <3>3
      <4> QED
        BY <1>0, <3>3, <4>1
    <3> QED
      BY <3>1, <3>2, <3>3
  <2> QED
    BY <2>3, <2>4, <2>5
<1> QED
  BY <1>1, <1>2, <1>3, <1>4, <1>5, <1>6
  DEF Next, Program, Environment, Signal, vars, inputVars, Initialize, Loop, EndOfInput, Service,
      HandleNothing, Operate, BeginSdo, UploadPdo, NextSlave, Shutdown

LEMMA PlaceKept == Place /\ [Next]_vars => Place'
<1> SUFFICES ASSUME Place, [Next]_vars PROVE Place'
  OBVIOUS
<1> USE DEF Place
<1>1. CASE GetLine
  <2>1. command' \in Command
    BY <1>1 DEF GetLine, Command
  <2>2. pc' \in {"shutdown", "loop", "service"}
    BY <1>1 DEF GetLine
  <2> QED
    BY <2>1, <2>2
<1>2. CASE Loop
  BY <1>2 DEF Loop
<1>3. CASE NextSlave \/ Initialize
  BY <1>3 DEF NextSlave, Initialize
<1> QED
  BY <1>1, <1>2, <1>3
  DEF Next, Program, Environment, vars, FillBuffer, EndOfInput, Service, HandleNothing, Operate,
      BeginSdo, UploadPdo, Shutdown

LEMMA SlavewiseKept == Slavewise /\ [Next]_vars => Slavewise'
<1> SUFFICES ASSUME Slavewise, [Next]_vars PROVE Slavewise'
  OBVIOUS
<1> USE DEF Slavewise
<1>1. CASE UNCHANGED sdoVars
  BY <1>1 DEF sdoVars
<1>2. CASE BeginSdo
  BY <1>2, CommandLineAssumption, FirstReadIsPosition DEF BeginSdo
<1>3. CASE UploadPdo
  <2>1. PICK good \in BOOLEAN, count \in Counts : reading' = AfterRead(reading, good, count)
    BY <1>3 DEF UploadPdo
  <2> QED
    BY <1>3, <2>1, UploadMovesOn DEF UploadPdo
<1>4. CASE NextSlave
  BY <1>4, CommandLineAssumption, FirstReadIsPosition DEF NextSlave, SlavesLeft
<1> QED
  BY <1>1, <1>2, <1>3, <1>4
  DEF Next, Program, Environment, vars, Initialize, Loop, FillBuffer, GetLine, EndOfInput, Service,
      HandleNothing, Operate, Shutdown

LEMMA TypesHold == Spec => []TypeInv
<1>1. Init => TypeInv
  <2> SUFFICES ASSUME Init PROVE TypeInv
    OBVIOUS
  <2>1. Held /\ Switches /\ Place
    BY DEF Init, LifecycleInit, ControllerState, Held, Switches, Place
  <2>2. Buffers
    BY CommandLineAssumption DEF Init, Buffers
  <2>3. Slavewise
    BY CommandLineAssumption, FirstReadIsPosition DEF Init, Slavewise
  <2> QED
    BY <2>1, <2>2, <2>3 DEF TypeInv
<1>2. TypeInv /\ [Next]_vars => TypeInv'
  BY HeldKept, SwitchesKept, BuffersKept, PlaceKept, SlavewiseKept DEF TypeInv
<1> QED
  BY <1>1, <1>2, PTL DEF Spec

(* The buffers hold no more lines than were let in, an SDO command reaches *)
(* no slave past its last, and a dump reads no table past its end.         *)
THEOREM TypeCorrect == Spec => []TypeOK
<1>1. TypeInv => TypeOK
  BY DEF TypeInv, Held, Switches, Buffers, Place, Slavewise, Position, TypeOK
<1> QED
  BY <1>1, TypesHold, PTL

(* Every upload of DumpPdoMapping brings the dump of a slave closer to its *)
(* end, but for a table with the largest count.                            *)
DumpMovesOn == [][UploadPdo => Endless(reading) \/ Later(reading', reading)]_vars

THEOREM DumpsEnd == Spec => DumpMovesOn
<1>1. TypeInv /\ [Next]_vars => [UploadPdo => Endless(reading) \/ Later(reading', reading)]_vars
  <2> SUFFICES ASSUME TypeInv, UploadPdo
               PROVE  Endless(reading) \/ Later(reading', reading)
    OBVIOUS
  <2>1. PICK good \in BOOLEAN, count \in Counts : reading' = AfterRead(reading, good, count)
    BY DEF UploadPdo
  <2> QED
    BY <2>1, UploadMovesOn DEF TypeInv, Slavewise, UploadPdo
<1> QED
  BY <1>1, TypesHold, PTL DEF Spec, DumpMovesOn
=============================================================================
