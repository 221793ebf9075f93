----------------------------- MODULE CommandLine -----------------------------
(***************************************************************************)
(* The command line program: main, EcatApplication and StdinCommandReader, *)
(* over the controller that MasterLifecycle promises.                      *)
(*                                                                         *)
(* The input passes two buffers.  poll looks at the file descriptor only,  *)
(* std::getline takes a line out of the buffer of the stream and fills     *)
(* that buffer when it is empty: with one line from a terminal, with all   *)
(* there is from a pipe.  A line is "stop", which the properties follow,   *)
(* or "any", one of the others.                                            *)
(***************************************************************************)
EXTENDS MasterLifecycle, PdoReading, Sequences

CONSTANTS
  Pending, \* bound: lines that wait in the two buffers
  Slaves   \* number of scanned slaves

ASSUME CommandLineAssumption == Pending \in Nat \ {0} /\ Slaves \in Nat \ {0}

VARIABLES
  tty,     \* stdin is a terminal
  kernel,  \* lines that wait in the file descriptor
  stdio,   \* lines that wait in the buffer of std::cin
  partial, \* where the beginning of an unfinished line is
  eof,     \* the input is closed
  on,      \* g_running
  pc,      \* where the main thread is
  command, \* the command of this pass of Run
  slave,   \* the slave an SDO command has reached
  last,    \* and the last one it is for
  reading  \* position of DumpPdoMapping

inputVars == <<kernel, stdio, partial, eof>>
sdoVars == <<slave, last, reading>>
vars == <<lifecycleVars, tty, inputVars, on, pc, command, sdoVars>>

(***************************************************************************)
(* Commands: what each state's handler takes, and the operation it calls.  *)
(* help and inspect only print, with them every other line is "other".     *)
(***************************************************************************)
SdoCommand == {"diagnose", "param", "pdo"}
Command == SdoCommand \cup {"scan", "config", "prepare", "start", "back", "stop",
                            "loglevel", "exit", "other"}

(* Mutant: the handler of the error states takes no command.               *)
MenuWithoutRecovery(s) ==
  CASE s = "AdapterReady" -> {"scan", "stop"}
    [] s = "Scanned" -> {"config", "stop"}
    [] s = "Maintenance" -> SdoCommand \cup {"prepare", "stop"}
    [] s = "ReadyToRun" -> {"start", "back", "stop"}
    [] s = "Operational" -> {"stop"}
    [] OTHER -> {}

Menu(s) ==
  CASE s = "AdapterReady" -> {"scan", "stop"}
    [] s = "Scanned" -> {"config", "stop"}
    [] s = "Maintenance" -> SdoCommand \cup {"prepare", "stop"}
    [] s = "ReadyToRun" -> {"start", "back", "stop"}
    [] s \in {"Operational", "Fault", "EmergencyStop"} -> {"stop"}
    [] s = "Uninitialized" -> {}

OperationOf == [scan |-> "Scan", config |-> "EnterMaintenance", prepare |-> "PrepareRun",
                start |-> "StartOperation", back |-> "BackToMaintenance", stop |-> "Stop"]

Init ==
  /\ LifecycleInit
  /\ tty \in BOOLEAN
  /\ kernel = <<>> /\ stdio = <<>> /\ partial = "none" /\ eof = FALSE
  /\ on = TRUE /\ pc = "start" /\ command = "none"
  /\ slave = 0 /\ last = 0 /\ reading = FirstRead

(* main: without an adapter the program ends before its loop.              *)
Initialize ==
  /\ pc = "start"
  /\ Dispatch("InitializeAdapter")
  /\ pc' = IF state' = "AdapterReady" THEN "loop" ELSE "over"
  /\ UNCHANGED <<tty, inputVars, on, command, sdoVars>>

(***************************************************************************)
(* Reading a command.                                                      *)
(***************************************************************************)
(* poll reports a line, part of one (never from a terminal) or the end.    *)
Ready == kernel # <<>> \/ partial = "kernel" \/ eof

(* Mutant: the loop does not look at g_running.                            *)
LoopUntested ==
  /\ pc = "loop"
  /\ pc' = IF Ready THEN "getline" ELSE "service"
  /\ command' = "none"
  /\ UNCHANGED <<lifecycleVars, tty, inputVars, on, sdoVars>>

(* Mutant: Run returns at once when there is no line.                      *)
LoopForLines ==
  /\ pc = "loop"
  /\ pc' = CASE ~on -> "shutdown" [] on /\ Ready -> "getline" [] on /\ ~Ready -> "loop"
  /\ command' = "none"
  /\ UNCHANGED <<lifecycleVars, tty, inputVars, on, sdoVars>>

(* The head of main's loop, and the poll that Run begins with.             *)
Loop ==
  /\ pc = "loop"
  /\ pc' = CASE ~on -> "shutdown" [] on /\ Ready -> "getline" [] on /\ ~Ready -> "service"
  /\ command' = "none"
  /\ UNCHANGED <<lifecycleVars, tty, inputVars, on, sdoVars>>

(* getline has to read: a line of a terminal, or all that a pipe holds.    *)
FillBuffer ==
  /\ pc = "getline" /\ stdio = <<>>
  /\ \/ /\ tty /\ kernel # <<>>
        /\ stdio' = <<Head(kernel)>> /\ kernel' = Tail(kernel)
        /\ UNCHANGED partial
     \/ /\ ~tty /\ (kernel # <<>> \/ partial = "kernel")
        /\ stdio' = kernel /\ kernel' = <<>>
        /\ partial' = IF partial = "kernel" THEN "stdio" ELSE partial
  /\ UNCHANGED <<lifecycleVars, tty, eof, on, pc, command, sdoVars>>

(* exit and loglevel are dealt with before the master is serviced.         *)
GetLine ==
  /\ pc = "getline" /\ stdio # <<>>
  /\ command' \in IF Head(stdio) = "stop" THEN {"stop"} ELSE Command \ {"stop"}
  /\ pc' = CASE command' = "exit" -> "shutdown"
             [] command' = "loglevel" -> "loop"
             [] OTHER -> "service"
  /\ stdio' = Tail(stdio)
  /\ UNCHANGED <<lifecycleVars, tty, kernel, partial, eof, on, sdoVars>>

EndOfInput ==
  /\ pc = "getline" /\ stdio = <<>> /\ kernel = <<>> /\ eof
  /\ pc' = "shutdown"
  /\ UNCHANGED <<lifecycleVars, tty, inputVars, on, command, sdoVars>>

(***************************************************************************)
(* Service, and the handler of the state it leaves.                        *)
(***************************************************************************)
(* The slave check of a monitored state may find a slave that dropped.     *)
Service ==
  /\ pc = "service" /\ pc' = "handle"
  /\ \/ UNCHANGED lifecycleVars
     \/ state \in {"Maintenance", "Operational"} /\ EnterFault
  /\ UNCHANGED <<tty, inputVars, on, command, sdoVars>>

(* No line, one that this state's handler does not take, or one whose      *)
(* arguments are wrong.                                                    *)
HandleNothing ==
  /\ pc = "handle" /\ pc' = "loop"
  /\ command \notin Menu(state) \/ command \in {"param", "pdo"}
  /\ UNCHANGED <<lifecycleVars, tty, inputVars, on, command, sdoVars>>

Operate ==
  /\ pc = "handle" /\ pc' = "loop"
  /\ command \in Menu(state) \ SdoCommand
  /\ Dispatch(OperationOf[command])
  /\ UNCHANGED <<tty, inputVars, on, command, sdoVars>>

(* diagnose and param are for all slaves, pdo for all or for one; an id    *)
(* without a slave reads like a slave that does not answer.                *)
BeginSdo ==
  /\ pc = "handle" /\ pc' = "sdo"
  /\ command \in Menu(state) \cap SdoCommand
  /\ \/ slave' = 1 /\ last' = Slaves
     \/ command = "pdo" /\ slave' \in 1..Slaves /\ last' = slave'
  /\ reading' = FirstRead
  /\ UNCHANGED <<lifecycleVars, tty, inputVars, on, command>>

(* Mutant: the slaves are counted from 1 up to one too many.               *)
SlavesLeftOneMore(i) == i <= last

SlavesLeft(i) == i < last

(* One upload of DumpPdoMapping.                                           *)
UploadPdo ==
  /\ pc = "sdo" /\ command = "pdo" /\ ~Finished(reading)
  /\ \E good \in BOOLEAN, count \in Counts : reading' = AfterRead(reading, good, count)
  /\ UNCHANGED <<lifecycleVars, tty, inputVars, on, pc, command, slave, last>>

(* The dump of a slave is printed, or its ReadSdo or WriteSdo returns: it  *)
(* takes a timeout at most, and its failure is logged and goes no further. *)
NextSlave ==
  /\ pc = "sdo" /\ (command = "pdo" => Finished(reading))
  /\ slave' = IF SlavesLeft(slave) THEN slave + 1 ELSE slave
  /\ pc' = IF SlavesLeft(slave) THEN "sdo" ELSE "loop"
  /\ reading' = FirstRead
  /\ UNCHANGED <<lifecycleVars, tty, inputVars, on, command, last>>

(* Mutant: the master is stopped only if it runs.                          *)
ShutdownRunningOnly ==
  /\ pc = "shutdown" /\ pc' = "over"
  /\ IF state \in {"Maintenance", "ReadyToRun", "Operational"} THEN Release
                                                               ELSE UNCHANGED lifecycleVars
  /\ UNCHANGED <<tty, inputVars, on, command, sdoVars>>

Shutdown ==
  /\ pc = "shutdown" /\ pc' = "over"
  /\ Dispatch("Stop")
  /\ UNCHANGED <<tty, inputVars, on, command, sdoVars>>

Program ==
  \/ Initialize \/ Loop \/ FillBuffer \/ GetLine \/ EndOfInput
  \/ Service \/ HandleNothing \/ Operate \/ BeginSdo \/ UploadPdo \/ NextSlave
  \/ Shutdown

(***************************************************************************)
(* Whoever types, writes to the pipe or sends a signal, at any time.       *)
(***************************************************************************)
Line == {"stop", "any"}
Room == ~eof /\ Len(kernel) + Len(stdio) < Pending

(* A line, or the rest of the one that was begun.                          *)
TypeLine ==
  /\ Room /\ \E line \in Line : kernel' = Append(kernel, line)
  /\ partial' = "none"
  /\ UNCHANGED <<stdio, eof>>

(* A terminal keeps the beginning of a line to itself.                     *)
TypePart ==
  /\ Room /\ ~tty /\ partial = "none"
  /\ partial' = "kernel"
  /\ UNCHANGED <<kernel, stdio, eof>>

(* A line that was begun ends with the input.                              *)
CloseInput ==
  /\ ~eof /\ eof' = TRUE /\ partial' = "none"
  /\ \E line \in Line :
       /\ kernel' = IF partial = "kernel" THEN Append(kernel, line) ELSE kernel
       /\ stdio' = IF partial = "stdio" THEN Append(stdio, line) ELSE stdio

(* SIGINT or SIGTERM; before its handler is registered it simply kills.    *)
Signal == pc # "start" /\ on /\ on' = FALSE /\ UNCHANGED inputVars

Environment ==
  /\ pc # "over"
  /\ ((TypeLine \/ TypePart \/ CloseInput) /\ UNCHANGED on) \/ Signal
  /\ UNCHANGED <<lifecycleVars, tty, pc, command, sdoVars>>

Next == Program \/ Environment

Spec == Init /\ [][Next]_vars

(* The process is scheduled and an SDO transfer has a timeout; nobody has  *)
(* to type anything.                                                       *)
FairSpec == Spec /\ WF_vars(Program)

(***************************************************************************)
(* Properties.                                                             *)
(***************************************************************************)
TypeOK ==
  /\ state \in ControllerState /\ open \in BOOLEAN /\ prepared \in BOOLEAN
  /\ tty \in BOOLEAN /\ eof \in BOOLEAN /\ on \in BOOLEAN
  /\ kernel \in Seq(Line) /\ stdio \in Seq(Line) /\ Len(kernel) + Len(stdio) <= Pending
  /\ partial \in {"none", "kernel", "stdio"}
  /\ pc \in {"start", "loop", "getline", "service", "handle", "sdo", "shutdown", "over"}
  /\ command \in Command \cup {"none"}
  /\ slave \in 0..last /\ last \in 0..Slaves /\ reading \in Reading

(* The program waits inside getline for the rest of a line.                *)
Blocked == pc = "getline" /\ stdio = <<>> /\ ~Ready

(* Lines that a pipe delivered together with an earlier one wait for poll  *)
(* to report something new.                                                *)
Stranded == ~tty /\ stdio # <<>> /\ ~Ready

DumpEndless == pc = "sdo" /\ command = "pdo" /\ Endless(reading)

(* However the program ends, by exit, end of input, signal or a failed     *)
(* start, in whatever state and with whatever still typed, the controller  *)
(* has been stopped and the adapter closed.                                *)
ReleasedAtExit == pc = "over" => state = "Uninitialized" /\ ~open /\ ~prepared

(* A stop that was typed takes the master to Uninitialized, from every     *)
(* state and behind any other lines; it can only be held up by lines       *)
(* stranded in the buffer of std::cin or by an endless PDO dump.           *)
StopTyped == \E queue \in {kernel, stdio} : \E i \in DOMAIN queue : queue[i] = "stop"
StopIsObeyed == StopTyped ~> state = "Uninitialized" \/ Stranded \/ DumpEndless

(* The process image is exchanged by Service only, which Run calls in      *)
(* every pass: a line may delay it only by not being complete, and         *)
(* loglevel by returning early.                                            *)
ServicedWhileOperational ==
  state = "Operational" ~>
    pc = "service" \/ state # "Operational" \/ Blocked \/ command = "loglevel"

(* The end of the input and a signal end the program, whatever it does,    *)
(* but for a getline that waits for the rest of a line and an endless dump. *)
ExitIsHonoured ==
  /\ eof ~> pc = "over" \/ DumpEndless
  /\ ~on ~> pc = "over" \/ Blocked \/ DumpEndless

(* The command manual: after a fault, stop and start over with scan.  In   *)
(* the loop, Uninitialized is the state that a stop has left.              *)
ScanAfterStop == pc = "handle" /\ command = "scan" /\ state = "Uninitialized" => command \in Menu(state)
=============================================================================
