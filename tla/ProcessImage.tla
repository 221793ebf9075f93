---------------------------- MODULE ProcessImage ----------------------------
(***************************************************************************)
(* The process data of a session: ProcessDataEngine::RunOnce, the nodes,   *)
(* their servo axes, and the I/O map that SOEM exchanges with the bus.     *)
(*                                                                         *)
(* The axis targets belong to the application's threads, everything else   *)
(* to the thread that calls Service.  ServoAxis has a mutex and an encoder *)
(* reads the three targets under three separate locks, so each read is a   *)
(* step.  What a node writes comes from the type its device was taken for; *)
(* where it writes and how much room there is comes from the device.       *)
(*                                                                         *)
(* Targets and feedback are integers in half increments of the drive, so   *)
(* that the truncation of the encoding shows.  A byte of the map is a      *)
(* record of who wrote it, for which PDO entry, and the raw value it is a  *)
(* part of.                                                                *)
(***************************************************************************)
EXTENDS Integers, Sequences, FiniteSetsExt

CONSTANTS
  Buses,     \* the buses to consider: sequences of devices
  Targets,   \* what the application sets, in half increments
  Readings,  \* what a drive measures, in increments
  MapBytes,  \* bytes of iomap_ (4096 in the code)
  MaxSets    \* bound on the targets set in a behaviour

Entries == {"position", "velocity", "torque"}
Fields == <<"position", "velocity", "torque">>
SlaveType == {"Servo", "DigitalIo", "AnalogIo", "Unknown"}
Keywords == {"servo", "motor", "drive", "digital", "dio", "analog", "aio"}

(* A device as SOEM describes it in slavelist: its identity (ids are       *)
(* positive), the keywords its name contains, the bytes its PDOs have, and *)
(* where in iomap_ they are.                                               *)
Device == [vendor : Nat \ {0}, product : Nat \ {0}, words : SUBSET Keywords,
           outs : Nat, ins : Nat, outAt : Nat, inAt : Nat]

(* ecx_config_map_group places the windows in the order of the slaves, all *)
(* outputs before all inputs; a slave without outputs has no window there. *)
Placed(devices) ==
  \A s, t \in DOMAIN devices :
    /\ s < t /\ devices[s].outs > 0 /\ devices[t].outs > 0
         => devices[s].outAt + devices[s].outs <= devices[t].outAt
    /\ devices[s].outs > 0 /\ devices[t].ins > 0
         => devices[s].outAt + devices[s].outs <= devices[t].inAt
    /\ s < t /\ devices[s].ins > 0 /\ devices[t].ins > 0
         => devices[s].inAt + devices[s].ins <= devices[t].inAt

Fits(device) == /\ device.outs > 0 => device.outAt + device.outs <= MapBytes
                /\ device.ins > 0 => device.inAt + device.ins <= MapBytes

ASSUME BusesAssumption == Buses \subseteq Seq(Device) /\ <<>> \notin Buses
ASSUME WindowsAssumption ==
  \A devices \in Buses :
    Placed(devices) /\ \A s \in DOMAIN devices : Fits(devices[s])
ASSUME RangesAssumption ==
  Targets \subseteq Int /\ Readings \subseteq Int /\ MapBytes \in Nat /\ MaxSets \in Nat

----------------------------------------------------------------------------
(* SlaveTypeDetector and SlaveConfigFactory.                               *)

Rules == << [vendor |-> 1, product |-> 2, type |-> "Servo"] >>

Detect(info) ==
  LET Applies(rule) == /\ rule.vendor \in {0, info.vendor}
                       /\ rule.product \in {0, info.product}
      matching == {i \in DOMAIN Rules : Applies(Rules[i])}
      Named(words) == info.words \cap words # {}
  IN  IF matching # {} THEN Rules[Min(matching)].type
      ELSE IF Named({"servo", "motor", "drive"}) THEN "Servo"
      ELSE IF Named({"digital", "dio"}) THEN "DigitalIo"
      ELSE IF Named({"analog", "aio"}) THEN "AnalogIo"
      ELSE "Unknown"

(* The PDO entries of a servo; outputs and inputs have the same layout.    *)
Layout == [position |-> [offset |-> 0, size |-> 4],
           velocity |-> [offset |-> 4, size |-> 4],
           torque   |-> [offset |-> 8, size |-> 2]]

(* The bytes a mapping without entries names.                              *)
PlainBytes == [Servo |-> 10, DigitalIo |-> 1, AnalogIo |-> 4, Unknown |-> 0]

MappedEntries(type) == IF type = "Servo" THEN Entries ELSE {}

(* SlaveNode::ComputeOutputSize and ComputeInputSize.                      *)
BufferSize(type) ==
  LET ends == {Layout[e].offset + Layout[e].size : e \in MappedEntries(type)}
  IN  IF ends = {} THEN PlainBytes[type] ELSE Max(ends)

----------------------------------------------------------------------------
VARIABLES
  bus,     \* the devices found
  target,  \* target_position_, target_velocity_, target_torque_ of each axis
  actual,  \* actual_position_ and so on, set by UpdateCommandReadback
  image,   \* iomap_
  phase,   \* where RunOnce is: "idle", "output", "exchange" or "input"
  turn,    \* the node of the loop over nodes_, and the next target to read
  raw,     \* the local variables of EncodePdoOutput
  held,    \* history: the targets each axis has had since the cycle began
  last,    \* history: the reading in the last answer from each slave
  sets     \* the number of targets set

vars == <<bus, target, actual, image, phase, turn, raw, held, last, sets>>

Slaves == 1..Len(bus)
Type(s) == Detect(bus[s])
Servos == {s \in Slaves : Type(s) = "Servo"}
AllEntries(value) == [e \in Entries |-> value]

(* slavelist[s].outputs and .inputs, as indices into iomap_.               *)
OutStart(s) == bus[s].outAt
InStart(s) == bus[s].inAt

Byte(from, entry, value) == [from |-> from, entry |-> entry, raw |-> value]
ZeroByte(from) == Byte(from, "none", 0)

(* A drive's or a node's PDO of all entries, and a buffer of zeros.        *)
EntryBytes(from, values) ==
  [k \in 0..(BufferSize("Servo") - 1) |->
     LET e == CHOOSE e \in Entries : k - Layout[e].offset \in 0..(Layout[e].size - 1)
     IN  Byte(from, e, values[e])]
ZeroBytes(from, size) == [k \in 0..(size - 1) |-> ZeroByte(from)]

(* memcpy of all of a buffer, however large the slave's window is.         *)
Copied(start, bytes) ==
  [a \in DOMAIN image |-> IF a - start \in DOMAIN bytes THEN bytes[a - start] ELSE image[a]]

(* EcMaster::WriteOutput: a slave without outputs has no window at all.    *)
WriteOutput(s, bytes) ==
  image' = IF bus[s].outs = 0 THEN image ELSE Copied(OutStart(s), bytes)

(* The conversions of EncodePdoOutput and DecodePdoInput.  static_cast     *)
(* truncates towards zero; scales and direction keep their defaults.       *)
Encode(t) == IF t >= 0 THEN t \div 2 ELSE -((-t) \div 2)
Decode(r) == 2 * r

(* What ReadRaw makes of the input bytes of an entry.  A whole entry has   *)
(* its value, zeros are 0, and bytes of different origin are some number.  *)
Mixture == 1000
ReadRaw(bytes, e) ==
  LET span == {bytes[Layout[e].offset + k] : k \in 0..(Layout[e].size - 1)}
  IN  CASE {b.raw : b \in span} = {0} -> 0
        [] \E b \in span : span = {b} /\ b.entry = e -> (CHOOSE b \in span : TRUE).raw
        [] OTHER -> Mixture

(* EcMaster::ReadInput into a node's buffer, which stays zero if the slave *)
(* has no inputs.                                                          *)
ReadInput(s) ==
  [k \in 0..(BufferSize("Servo") - 1) |->
     IF bus[s].ins = 0 THEN ZeroByte(s) ELSE image[InStart(s) + k]]

----------------------------------------------------------------------------
(* SlaveNodeManager::Initialize and ConfigureAll: new nodes, new axes.     *)
FreshNodes ==
  /\ target' = [s \in Servos |-> AllEntries(0)]
  /\ actual' = [s \in Servos |-> AllEntries(0)]
  /\ held' = [s \in Servos |-> AllEntries({0})]

(* Before the first cycle of a process: iomap_ is zero.                    *)
Init ==
  /\ bus \in Buses
  /\ target = [s \in Servos |-> AllEntries(0)]
  /\ actual = [s \in Servos |-> AllEntries(0)]
  /\ held = [s \in Servos |-> AllEntries({0})]
  /\ image = [a \in 0..(MapBytes - 1) |-> ZeroByte(0)]
  /\ phase = "idle" /\ turn = [node |-> 1, field |-> 1]
  /\ raw = AllEntries(0)
  /\ last = [s \in Slaves |-> 0]
  /\ sets = 0

(* SetTargetPosition, SetTargetVelocity or SetTargetTorque, from any       *)
(* thread, at any time.                                                    *)
SetTarget(s, e, t) ==
  /\ sets < MaxSets /\ t # target[s][e]
  /\ sets' = sets + 1
  /\ target' = [target EXCEPT ![s][e] = t]
  /\ held' = [held EXCEPT ![s][e] = IF phase \in {"output", "exchange"} THEN @ \cup {t} ELSE {t}]
  /\ UNCHANGED <<bus, actual, image, phase, turn, raw, last>>

(* Stop and a new bring-up of the same bus.  EcMaster does not clear       *)
(* iomap_, so its bytes outlive the session.                               *)
NewSession ==
  /\ phase = "idle"
  /\ FreshNodes
  /\ UNCHANGED <<bus, image, phase, turn, raw, last, sets>>

(* Mutant: RunOnce reads the inputs before it exchanges.                   *)
InputsFirst(p) == CASE p = "idle" -> "output"
                    [] p = "output" -> "input"
                    [] p = "input" -> "exchange"
                    [] p = "exchange" -> "idle"

(* RunOnce: outputs, exchange, inputs.                                     *)
After(p) == CASE p = "idle" -> "output"
              [] p = "output" -> "exchange"
              [] p = "exchange" -> "input"
              [] p = "input" -> "idle"

FirstTurn == [node |-> 1, field |-> 1]

(* Mutant: the loop runs one past the last node.                           *)
NodeDoneLate ==
  IF turn.node = Len(bus) + 1
  THEN phase' = After(phase) /\ turn' = FirstTurn
  ELSE phase' = phase /\ turn' = [node |-> turn.node + 1, field |-> 1]

(* One node of a loop over nodes_ is done; after the last one RunOnce      *)
(* goes on.                                                                *)
NodeDone ==
  IF turn.node = Len(bus)
  THEN phase' = After(phase) /\ turn' = FirstTurn
  ELSE phase' = phase /\ turn' = [node |-> turn.node + 1, field |-> 1]

(* Mutant: the nodes are visited from the last to the first.               *)
VisitedBackwards == Len(bus) + 1 - turn.node

(* The loops run over nodes_ in the order of the slaves.                   *)
Visited == turn.node

CurrentTargets == [s \in Servos |-> [e \in Entries |-> {target[s][e]}]]

BeginCycle ==
  /\ phase = "idle"
  /\ phase' = After("idle") /\ turn' = FirstTurn
  /\ held' = CurrentTargets
  /\ UNCHANGED <<bus, target, actual, image, raw, last, sets>>

(* Mutant: the buffer is copied before the last target is encoded.         *)
ReadTargetAfterCopy ==
  LET s == Visited
      e == Fields[turn.field]
  IN  /\ phase = "output" /\ s \in Servos
      /\ IF turn.field < Len(Fields)
         THEN /\ raw' = [raw EXCEPT ![e] = Encode(target[s][e])]
              /\ turn' = [turn EXCEPT !.field = @ + 1]
              /\ UNCHANGED <<phase, image>>
         ELSE /\ raw' = AllEntries(0) /\ NodeDone
              /\ WriteOutput(s, EntryBytes(s, raw))
      /\ UNCHANGED <<bus, target, actual, held, last, sets>>

(* The encoder reads one target under the mutex of the axis.  After the    *)
(* third the buffer is complete and goes into the map.                     *)
ReadTarget ==
  LET s == Visited
      e == Fields[turn.field]
  IN  /\ phase = "output" /\ s \in Servos
      /\ LET read == [raw EXCEPT ![e] = Encode(target[s][e])]
         IN  IF turn.field < Len(Fields)
             THEN /\ raw' = read /\ turn' = [turn EXCEPT !.field = @ + 1]
                  /\ UNCHANGED <<phase, image>>
             ELSE /\ raw' = AllEntries(0) /\ NodeDone
                  /\ WriteOutput(s, EntryBytes(s, read))
      /\ UNCHANGED <<bus, target, actual, held, last, sets>>

(* The other profiles encode nothing: their nodes write zeros, and a node  *)
(* without a buffer writes nothing.                                        *)
WriteZeros ==
  /\ phase = "output" /\ Visited \notin Servos
  /\ NodeDone /\ WriteOutput(Visited, ZeroBytes(Visited, BufferSize(Type(Visited))))
  /\ UNCHANGED <<bus, target, actual, raw, held, last, sets>>

(* ecx_send_processdata and ecx_receive_processdata: a frame that returns  *)
(* carries the inputs of the slaves it has passed, each of which measures  *)
(* anew; the bytes of the others come back as they were sent.  RunOnce     *)
(* looks at neither the working counter nor the time-out.                  *)
ExchangeReturns(passed, reading) ==
  /\ phase = "exchange"
  /\ phase' = After(phase)
  /\ last' = [s \in Slaves |-> IF s \in passed THEN reading ELSE last[s]]
  /\ image' = [a \in DOMAIN image |->
                 IF \E s \in passed : a - InStart(s) \in 0..(bus[s].ins - 1)
                 THEN LET s == CHOOSE s \in passed : a - InStart(s) \in 0..(bus[s].ins - 1)
                          k == a - InStart(s)
                      IN  IF k < BufferSize("Servo")
                          THEN EntryBytes(s, AllEntries(reading))[k] ELSE ZeroByte(s)
                 ELSE image[a]]
  /\ held' = CurrentTargets
  /\ UNCHANGED <<bus, target, actual, turn, raw, sets>>

ExchangeLost ==
  /\ phase = "exchange"
  /\ phase' = After(phase)
  /\ held' = CurrentTargets
  /\ UNCHANGED <<bus, target, actual, image, turn, raw, last, sets>>

(* UpdatePdoInput: a servo decodes, the other profiles do nothing.         *)
UpdatePdoInput ==
  /\ phase = "input"
  /\ NodeDone
  /\ actual' = IF Visited \in Servos
               THEN [actual EXCEPT ![Visited] =
                       [e \in Entries |-> Decode(ReadRaw(ReadInput(Visited), e))]]
               ELSE actual
  /\ UNCHANGED <<bus, target, image, raw, held, last, sets>>

Next ==
  \/ \E s \in Servos, e \in Entries, t \in Targets : SetTarget(s, e, t)
  \/ NewSession
  \/ BeginCycle \/ ReadTarget \/ WriteZeros
  \/ \E passed \in SUBSET Slaves, reading \in Readings : ExchangeReturns(passed, reading)
  \/ ExchangeLost
  \/ UpdatePdoInput

Spec == Init /\ [][Next]_vars

----------------------------------------------------------------------------
(* Types: among them, that the loops of RunOnce stay within nodes_ and     *)
(* that every byte of the map is zero or some node's or slave's.           *)
TypeOK ==
  /\ phase \in {"idle", "output", "exchange", "input"}
  /\ turn.node \in Slaves /\ turn.field \in 1..Len(Fields)
  /\ \A s \in Servos, e \in Entries : target[s][e] \in Targets \cup {0}
  /\ \A a \in DOMAIN image : image[a].from \in Slaves \cup {0}

(* The frame of a cycle carries for every drive whose outputs hold the     *)
(* whole mapping a command of its own axis: each value is, within one      *)
(* increment, a target the axis had since the cycle began.  It is so       *)
(* however long the buffers of the other nodes are: one that runs over its *)
(* slave's window is written before the windows it runs into.              *)
OwnCommandSent ==
  phase = "exchange" =>
    \A s \in Servos : bus[s].outs >= BufferSize("Servo") =>
      \A e \in Entries, k \in 0..(BufferSize("Servo") - 1) :
        LET b == image[OutStart(s) + k] IN
          k - Layout[e].offset \in 0..(Layout[e].size - 1) =>
            /\ b.from = s /\ b.entry = e
            /\ \E t \in held[s][e] : Decode(b.raw) - t \in {-1, 0, 1}

(* A byte of a slave's outputs that another node has written lies behind   *)
(* what the slave's own node writes, and comes from a node before it whose *)
(* buffer is longer than its window: an I/O terminal sees foreign bytes    *)
(* only after a drive whose real mapping is shorter than the assumed one.  *)
ForeignBytesOnlyByOverrun ==
  phase = "exchange" =>
    \A s \in Slaves : \A k \in 0..(bus[s].outs - 1) :
      LET b == image[OutStart(s) + k] IN
        b.from \notin {0, s} =>
          /\ b.from < s /\ k >= BufferSize(Type(s))
          /\ BufferSize(Type(b.from)) > bus[b.from].outs

(* A cycle leaves as feedback of a drive what the drive measured when a    *)
(* frame last came back from it, all entries from the same frame, whatever *)
(* frames are lost and other drives do, when every buffer fits into the    *)
(* outputs of its slave and the mapping into the inputs of the drive.      *)
BuffersFit == \A d \in Slaves : bus[d].outs = 0 \/ BufferSize(Type(d)) <= bus[d].outs
FeedbackIsMeasured ==
  [][(phase # "idle" /\ phase' = "idle" /\ BuffersFit) =>
       \A s \in Servos : bus[s].ins >= BufferSize("Servo") =>
         actual'[s] = AllEntries(Decode(last'[s]))]_vars
=============================================================================
