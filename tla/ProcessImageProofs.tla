------------------------- MODULE ProcessImageProofs -------------------------
(***************************************************************************)
(* Theorems about ProcessImage, for every bus, every placement of the      *)
(* windows that SOEM may choose, every target and every reading.           *)
(*                                                                         *)
(* What a frame carries depends on all writes of the output phase, so the  *)
(* invariant says what holds of the nodes that have had their turn         *)
(* (OutputsDone), of the targets already encoded for the current one       *)
(* (RawIsCurrent), and of bytes that survive from earlier cycles.          *)
(***************************************************************************)
EXTENDS ProcessImage, TLAPS

MapByte == [from : Slaves \cup {0}, entry : Entries \cup {"none"}, raw : Int]

Structure ==
  /\ bus \in Buses
  /\ phase \in {"idle", "output", "exchange", "input"}
  /\ turn \in [node : Slaves, field : 1..3]
  /\ phase = "exchange" => turn.node = 1
  /\ target \in [Servos -> [Entries -> Targets \cup {0}]]
  /\ actual = [s \in Servos |-> actual[s]]
  /\ image \in [0..(MapBytes - 1) -> MapByte]
  /\ raw \in [Entries -> Int]
  /\ held \in [Servos -> [Entries -> SUBSET Int]]
  /\ last \in [Slaves -> Int]

(* A byte in the outputs of a slave that is not its node's own was left by *)
(* a node before it that wrote over the end of its window, in this cycle   *)
(* or an earlier one.                                                      *)
OverrunOnly ==
  \A s \in Slaves : \A k \in 0..(bus[s].outs - 1) :
    LET b == image[OutStart(s) + k] IN
      b.from \notin {0, s} =>
        b.from < s /\ BufferSize(Type(b.from)) > bus[b.from].outs

(* What the node's buffer covers is its own again once it has written.     *)
OwnPart(s) ==
  \A k \in 0..(bus[s].outs - 1) :
    k < BufferSize(Type(s)) => image[OutStart(s) + k].from \in {0, s}

Near(value, t) == Decode(value) - t \in {-1, 0, 1}

CommandInPlace(s) ==
  bus[s].outs >= BufferSize("Servo") =>
    \A e \in Entries, k \in 0..(BufferSize("Servo") - 1) :
      LET b == image[OutStart(s) + k] IN
        k - Layout[e].offset \in 0..(Layout[e].size - 1) =>
          b.from = s /\ b.entry = e /\ \E t \in held[s][e] : Near(b.raw, t)

HasWritten(s) == phase = "exchange" \/ (phase = "output" /\ s < turn.node)

OutputsDone ==
  \A s \in Slaves : HasWritten(s) => OwnPart(s) /\ (s \in Servos => CommandInPlace(s))

(* The targets the encoder has read so far; the axis may have got others   *)
(* since.                                                                  *)
RawIsCurrent ==
  phase = "output" /\ turn.node \in Servos =>
    \A i \in 1..(turn.field - 1) :
      \E t \in held[turn.node][Fields[i]] : Near(raw[Fields[i]], t)

HeldIsCurrent == \A s \in Servos, e \in Entries : target[s][e] \in held[s][e]

(* The inputs of a drive are those of its last answer, or still zero.      *)
InputsOf(s) ==
  \/ \A k \in 0..(BufferSize("Servo") - 1) :
       image[InStart(s) + k] = EntryBytes(s, AllEntries(last[s]))[k]
  \/ /\ last[s] = 0
     /\ \A k \in 0..(BufferSize("Servo") - 1) : image[InStart(s) + k].raw = 0

WholeInputs(s) == s \in Servos /\ bus[s].ins >= BufferSize("Servo")

InputsKept == BuffersFit => \A s \in Slaves : WholeInputs(s) => InputsOf(s)

FeedbackDone ==
  BuffersFit /\ phase = "input" =>
    \A s \in Slaves : WholeInputs(s) /\ s < turn.node
                        => actual[s] = AllEntries(Decode(last[s]))

IInv == /\ Structure /\ OverrunOnly /\ OutputsDone /\ RawIsCurrent /\ HeldIsCurrent
        /\ InputsKept /\ FeedbackDone

(***************************************************************************)
(* Types, buffers and windows.                                             *)
(***************************************************************************)
(* The buffer of a servo is its last entry's end: 8 + 2 bytes              *)
(* (MakeServoConfig and ComputeOutputSize).                                *)
LEMMA ServoBuffer == BufferSize("Servo") = 10
  <1>1. MappedEntries("Servo") = Entries
    BY DEF MappedEntries
  <1>2. {Layout[e].offset + Layout[e].size : e \in MappedEntries("Servo")} = {4, 8, 10}
    BY <1>1 DEF Entries, Layout
  <1>3. Max({4, 8, 10}) = 10
    BY DEF Max
  <1> QED
    BY <1>2, <1>3 DEF BufferSize

LEMMA BufferIsNat == ASSUME NEW type \in SlaveType PROVE BufferSize(type) \in Nat
  <1>1. CASE type = "Servo"
    BY <1>1, ServoBuffer
  <1>2. CASE type # "Servo"
    <2>1. {Layout[e].offset + Layout[e].size : e \in MappedEntries(type)} = {}
      BY <1>2 DEF MappedEntries
    <2>2. BufferSize(type) = PlainBytes[type]
      BY <2>1 DEF BufferSize
    <2> QED
      BY <2>2 DEF PlainBytes, SlaveType
  <1> QED
    BY <1>1, <1>2

LEMMA DetectsAType == \A info : Detect(info) \in SlaveType
  <1> SUFFICES ASSUME NEW info
               PROVE  Detect(info) \in SlaveType
    OBVIOUS
  <1>1. DOMAIN Rules = {1} /\ Rules[1].type = "Servo"
    BY DEF Rules
  <1> DEFINE Applies(rule) == /\ rule.vendor \in {0, info.vendor}
                              /\ rule.product \in {0, info.product}
             matching == {i \in DOMAIN Rules : Applies(Rules[i])}
  <1>2. ASSUME matching # {}
        PROVE  Rules[Min(matching)].type = "Servo"
    <2>1. matching = {1}
      BY <1>1, <1>2
    <2> HIDE DEF matching
    <2>2. Min(matching) = 1
      BY <2>1 DEF Min
    <2> QED
      BY <1>1, <2>2
  <1> QED
    BY <1>2 DEF Detect, SlaveType

(* Every byte of a servo's buffer belongs to one entry (WriteRaw).         *)
LEMMA EntryOfByte ==
  ASSUME NEW from, NEW values, NEW e \in Entries, NEW k \in 0..(BufferSize("Servo") - 1),
         k - Layout[e].offset \in 0..(Layout[e].size - 1)
  PROVE  EntryBytes(from, values)[k] = Byte(from, e, values[e])
  <1> DEFINE Covers(f) == k - Layout[f].offset \in 0..(Layout[f].size - 1)
             owner == CHOOSE f \in Entries : Covers(f)
  <1>1. \A f \in Entries : Covers(f) => f = e
    BY ServoBuffer DEF Entries, Layout
  <1>2. owner = e
    BY <1>1
  <1>3. EntryBytes(from, values)[k] = Byte(from, owner, values[owner])
    BY DEF EntryBytes
  <1> QED
    BY <1>2, <1>3

LEMMA EveryByteHasAnEntry ==
  ASSUME NEW k \in 0..(BufferSize("Servo") - 1)
  PROVE  \E e \in Entries : k - Layout[e].offset \in 0..(Layout[e].size - 1)
  <1>1. k \in 0..9
    BY ServoBuffer
  <1>2. CASE k \in 0..3
    BY <1>2 DEF Entries, Layout
  <1>3. CASE k \in 4..7
    BY <1>3 DEF Entries, Layout
  <1>4. CASE k \in 8..9
    BY <1>4 DEF Entries, Layout
  <1> QED
    BY <1>1, <1>2, <1>3, <1>4

LEMMA EntriesInBuffer ==
  ASSUME NEW e \in Entries, NEW i \in 0..(Layout[e].size - 1)
  PROVE  /\ Layout[e].offset + i \in 0..(BufferSize("Servo") - 1)
         /\ Layout[e].offset + i - Layout[e].offset \in 0..(Layout[e].size - 1)
         /\ Layout[e].size > 0
  BY ServoBuffer DEF Entries, Layout

(* What the map and the devices are like.                                  *)
LEMMA BusFacts ==
  ASSUME bus \in Buses
  PROVE  /\ Len(bus) \in Nat \ {0} /\ Slaves = DOMAIN bus /\ Servos \subseteq Slaves
         /\ \A s \in Slaves : /\ s \in Nat \ {0}
                              /\ bus[s].outs \in Nat /\ bus[s].ins \in Nat
                              /\ OutStart(s) \in Nat /\ InStart(s) \in Nat
                              /\ BufferSize(Type(s)) \in Nat
                              /\ Fits(bus[s])
         /\ \A s \in Servos : Type(s) = "Servo" /\ BufferSize(Type(s)) = 10
         /\ Placed(bus)
  <1>1. bus \in Seq(Device) /\ bus # <<>>
    BY BusesAssumption
  <1>2. Len(bus) \in Nat \ {0} /\ Slaves = DOMAIN bus /\ \A s \in Slaves : bus[s] \in Device
    BY <1>1 DEF Slaves
  <1>3. Placed(bus) /\ \A s \in DOMAIN bus : Fits(bus[s])
    BY WindowsAssumption
  <1>4. \A s \in Slaves : BufferSize(Type(s)) \in Nat
    BY DetectsAType, BufferIsNat DEF Type
  <1> QED
    BY <1>2, <1>3, <1>4, ServoBuffer DEF Slaves, Servos, OutStart, InStart, Device

(* Two outputs do not share a byte, an output and an input do not, and two *)
(* inputs do not.                                                          *)
LEMMA WindowsApart ==
  ASSUME bus \in Buses, NEW s \in Slaves, NEW t \in Slaves
  PROVE  /\ s < t /\ bus[s].outs > 0 /\ bus[t].outs > 0
              => OutStart(s) + bus[s].outs <= OutStart(t)
         /\ bus[s].outs > 0 /\ bus[t].ins > 0 => OutStart(s) + bus[s].outs <= InStart(t)
         /\ s < t /\ bus[s].ins > 0 /\ bus[t].ins > 0
              => InStart(s) + bus[s].ins <= InStart(t)
  BY BusFacts DEF Placed, OutStart, InStart

LEMMA WindowsInMap ==
  ASSUME bus \in Buses, NEW s \in Slaves
  PROVE  /\ \A k \in 0..(bus[s].outs - 1) : OutStart(s) + k \in 0..(MapBytes - 1)
         /\ \A k \in 0..(bus[s].ins - 1) : InStart(s) + k \in 0..(MapBytes - 1)
  <1>1. /\ bus[s].outs \in Nat /\ bus[s].ins \in Nat
        /\ bus[s].outAt \in Nat /\ bus[s].inAt \in Nat /\ Fits(bus[s])
    BY BusFacts DEF OutStart, InStart
  <1> QED
    BY <1>1, RangesAssumption DEF Fits, OutStart, InStart

(* The same bus keeps its slaves, their types and their windows.           *)
LEMMA SameBus ==
  ASSUME UNCHANGED bus
  PROVE  /\ Slaves' = Slaves /\ Servos' = Servos /\ BuffersFit' = BuffersFit
         /\ \A s : Type(s)' = Type(s) /\ OutStart(s)' = OutStart(s) /\ InStart(s)' = InStart(s)
  BY DEF Slaves, Servos, BuffersFit, Type, OutStart, InStart

(* Encoding and decoding lose at most half an increment.                   *)
LEMMA EncodeIsNear ==
  ASSUME NEW t \in Int
  PROVE  Encode(t) \in Int /\ Near(Encode(t), t)
  BY DEF Encode, Near, Decode

(***************************************************************************)
(* The write of a node's buffer.                                           *)
(***************************************************************************)
(* The bytes of a buffer of n bytes end up from the start of the slave's   *)
(* outputs, beyond their end if the buffer is longer; nothing else changes *)
(* (EcMaster::WriteOutput).                                                *)
LEMMA BufferIsCopied ==
  ASSUME Structure, NEW s \in Slaves, NEW n \in Nat, NEW bytes \in [0..(n - 1) -> MapByte],
         WriteOutput(s, bytes)
  PROVE  /\ image' \in [0..(MapBytes - 1) -> MapByte]
         /\ \A a \in 0..(MapBytes - 1) :
              IF bus[s].outs > 0 /\ a - OutStart(s) \in 0..(n - 1)
              THEN image'[a] = bytes[a - OutStart(s)] ELSE image'[a] = image[a]
  <1>1. image \in [0..(MapBytes - 1) -> MapByte] /\ bus \in Buses /\ DOMAIN bytes = 0..(n - 1)
    BY DEF Structure
  <1>2. bus[s].outs \in Nat /\ OutStart(s) \in Nat
    BY <1>1, BusFacts
  <1>3. CASE bus[s].outs = 0
    BY <1>1, <1>3 DEF WriteOutput
  <1>4. CASE bus[s].outs > 0
    <2>1. image' = [a \in 0..(MapBytes - 1) |->
                      IF a - OutStart(s) \in 0..(n - 1) THEN bytes[a - OutStart(s)] ELSE image[a]]
      <3>1. image' = Copied(OutStart(s), bytes)
        BY <1>4 DEF WriteOutput
      <3>2. DOMAIN image = 0..(MapBytes - 1) /\ DOMAIN bytes = 0..(n - 1)
        BY <1>1
      <3> QED
        BY <3>1, <3>2, Zenon DEF Copied
    <2>2. \A a \in 0..(MapBytes - 1) :
            /\ a - OutStart(s) \in 0..(n - 1) => bytes[a - OutStart(s)] \in MapByte
            /\ image[a] \in MapByte
      BY <1>1
    <2> QED
      BY <1>4, <2>1, <2>2
  <1> QED
    BY <1>2, <1>3, <1>4

Writes(s) ==
  \A a \in 0..(MapBytes - 1) :
    IF bus[s].outs > 0 /\ a - OutStart(s) \in 0..(BufferSize(Type(s)) - 1)
    THEN image'[a].from = s ELSE image'[a] = image[a]

LEMMA ByteWritten ==
  ASSUME NEW s, Writes(s), NEW a \in 0..(MapBytes - 1)
  PROVE  /\ bus[s].outs > 0 /\ a - OutStart(s) \in 0..(BufferSize(Type(s)) - 1)
              => image'[a].from = s
         /\ ~(bus[s].outs > 0 /\ a - OutStart(s) \in 0..(BufferSize(Type(s)) - 1))
              => image'[a] = image[a]
  BY Zenon DEF Writes

(* The outputs of the nodes before are out of reach.                       *)
LEMMA WriteSparesEarlier ==
  ASSUME Structure, NEW s \in Slaves, Writes(s), NEW t \in Slaves, t < s
  PROVE  \A k \in 0..(bus[t].outs - 1) : image'[OutStart(t) + k] = image[OutStart(t) + k]
  <1> SUFFICES ASSUME NEW k \in 0..(bus[t].outs - 1)
               PROVE  image'[OutStart(t) + k] = image[OutStart(t) + k]
    OBVIOUS
  <1>1. bus \in Buses
    BY DEF Structure
  <1>2. /\ bus[s].outs \in Nat /\ bus[t].outs \in Nat
        /\ OutStart(s) \in Nat /\ OutStart(t) \in Nat /\ BufferSize(Type(s)) \in Nat
    BY <1>1, BusFacts
  <1>3. OutStart(t) + k \in 0..(MapBytes - 1)
    BY <1>1, WindowsInMap
  <1>4. bus[s].outs > 0 => OutStart(t) + bus[t].outs <= OutStart(s)
    BY <1>1, <1>2, WindowsApart
  <1>5. bus[s].outs > 0 => OutStart(t) + k - OutStart(s) \notin 0..(BufferSize(Type(s)) - 1)
    BY <1>2, <1>4
  <1> DEFINE a == OutStart(t) + k
  <1>6. /\ a \in 0..(MapBytes - 1)
        /\ ~(bus[s].outs > 0 /\ a - OutStart(s) \in 0..(BufferSize(Type(s)) - 1))
    BY <1>2, <1>3, <1>5
  <1> HIDE DEF a
  <1>7. image'[a] = image[a]
    BY <1>6, ByteWritten
  <1> QED
    BY <1>7 DEF a

(* Inputs are out of reach when the buffer fits the window.                *)
LEMMA WriteSparesInputs ==
  ASSUME Structure, BuffersFit, NEW s \in Slaves, Writes(s), NEW t \in Slaves
  PROVE  \A k \in 0..(bus[t].ins - 1) : image'[InStart(t) + k] = image[InStart(t) + k]
  <1> SUFFICES ASSUME NEW k \in 0..(bus[t].ins - 1)
               PROVE  image'[InStart(t) + k] = image[InStart(t) + k]
    OBVIOUS
  <1>1. bus \in Buses
    BY DEF Structure
  <1>2. /\ bus[s].outs \in Nat /\ bus[t].ins \in Nat
        /\ OutStart(s) \in Nat /\ InStart(t) \in Nat /\ BufferSize(Type(s)) \in Nat
    BY <1>1, BusFacts
  <1>3. InStart(t) + k \in 0..(MapBytes - 1)
    BY <1>1, WindowsInMap
  <1>4. bus[s].outs > 0 => /\ OutStart(s) + bus[s].outs <= InStart(t)
                           /\ BufferSize(Type(s)) <= bus[s].outs
    BY <1>1, <1>2, WindowsApart DEF BuffersFit
  <1>5. bus[s].outs > 0 => InStart(t) + k - OutStart(s) \notin 0..(BufferSize(Type(s)) - 1)
    BY <1>2, <1>4
  <1> DEFINE a == InStart(t) + k
  <1>6. /\ a \in 0..(MapBytes - 1)
        /\ ~(bus[s].outs > 0 /\ a - OutStart(s) \in 0..(BufferSize(Type(s)) - 1))
    BY <1>2, <1>3, <1>5
  <1> HIDE DEF a
  <1>7. image'[a] = image[a]
    BY <1>6, ByteWritten
  <1> QED
    BY <1>7 DEF a

LEMMA WriteOwns ==
  ASSUME Structure, NEW s \in Slaves, Writes(s), UNCHANGED bus
  PROVE  OwnPart(s)'
  <1>1. bus \in Buses
    BY DEF Structure
  <1>2. bus[s].outs \in Nat /\ OutStart(s) \in Nat /\ BufferSize(Type(s)) \in Nat
    BY <1>1, BusFacts
  <1>3. ASSUME NEW k \in 0..(bus[s].outs - 1), k < BufferSize(Type(s))
        PROVE  image'[OutStart(s) + k].from = s
    <2>1. OutStart(s) + k \in 0..(MapBytes - 1)
      BY <1>1, WindowsInMap
    <2>2. bus[s].outs > 0 /\ OutStart(s) + k - OutStart(s) \in 0..(BufferSize(Type(s)) - 1)
      BY <1>2, <1>3
    <2> DEFINE a == OutStart(s) + k
    <2>3. /\ a \in 0..(MapBytes - 1)
          /\ bus[s].outs > 0 /\ a - OutStart(s) \in 0..(BufferSize(Type(s)) - 1)
      BY <1>2, <2>1, <2>2
    <2> HIDE DEF a
    <2>4. image'[a].from = s
      BY <2>3, ByteWritten
    <2> QED
      BY <2>4 DEF a
  <1>4. bus'[s].outs = bus[s].outs /\ Type(s)' = Type(s) /\ OutStart(s)' = OutStart(s)
    BY SameBus
  <1> QED
    BY <1>3, <1>4 DEF OwnPart

(* A buffer that reaches the outputs of a later slave is longer than its   *)
(* own window.                                                             *)
LEMMA WriteOnlyOverruns ==
  ASSUME Structure, OverrunOnly, NEW s \in Slaves, Writes(s), UNCHANGED bus
  PROVE  OverrunOnly'
  <1>1. bus \in Buses
    BY DEF Structure
  <1>2. ASSUME NEW t \in Slaves, NEW k \in 0..(bus[t].outs - 1),
               image'[OutStart(t) + k].from \notin {0, t}
        PROVE  LET from == image'[OutStart(t) + k].from IN
               from < t /\ BufferSize(Type(from)) > bus[from].outs
    <2>1. /\ bus[s].outs \in Nat /\ bus[t].outs \in Nat /\ s \in Nat /\ t \in Nat
          /\ OutStart(s) \in Nat /\ OutStart(t) \in Nat /\ BufferSize(Type(s)) \in Nat
      BY <1>1, BusFacts
    <2>2. OutStart(t) + k \in 0..(MapBytes - 1)
      BY <1>1, WindowsInMap
    <2> DEFINE a == OutStart(t) + k
    <2>3. CASE bus[s].outs > 0 /\ a - OutStart(s) \in 0..(BufferSize(Type(s)) - 1)
      <3>1. image'[a].from = s
        BY <2>2, <2>3, ByteWritten
      <3>2. s < t \/ t < s
        BY <1>2, <2>1, <3>1
      <3>3. bus[t].outs > 0
        BY <2>1
      <3>4. ~(t < s)
        <4>1. t < s => OutStart(t) + bus[t].outs <= OutStart(s)
          BY <1>1, <2>3, <3>3, WindowsApart
        <4> QED
          BY <2>1, <2>3, <4>1
      <3>5. OutStart(s) + bus[s].outs <= OutStart(t)
        BY <1>1, <2>3, <3>2, <3>3, <3>4, WindowsApart
      <3>6. BufferSize(Type(s)) > bus[s].outs
        BY <2>1, <2>3, <3>5
      <3> QED
        BY <3>1, <3>2, <3>4, <3>6
    <2>4. CASE ~(bus[s].outs > 0 /\ a - OutStart(s) \in 0..(BufferSize(Type(s)) - 1))
      <3>1. image'[a] = image[a]
        BY <2>2, <2>4, ByteWritten
      <3> QED
        BY <1>2, <3>1 DEF OverrunOnly
    <2> QED
      BY <2>3, <2>4
  <1>3. Slaves' = Slaves /\ \A t : Type(t)' = Type(t) /\ OutStart(t)' = OutStart(t)
    BY SameBus
  <1> QED
    BY <1>2, <1>3 DEF OverrunOnly

(***************************************************************************)
(* Turns.                                                                  *)
(***************************************************************************)
LEMMA TurnTaken ==
  ASSUME Structure, NodeDone, UNCHANGED bus, phase \in {"output", "input"}
  PROVE  /\ phase' \in {"idle", "output", "exchange", "input"}
         /\ turn' \in [node : Slaves, field : 1..3] /\ turn'.field = 1
         /\ phase' = "exchange" => turn'.node = 1
         /\ phase = "output" => /\ phase' \in {"output", "exchange"}
                                /\ \A t \in Slaves : HasWritten(t)' => t <= turn.node
         /\ phase = "input" =>
              /\ phase' \in {"input", "idle"}
              /\ phase' = "input" => turn'.node = turn.node + 1
              /\ phase' = "idle" => turn.node = Len(bus)
  <1>1. turn.node \in Slaves /\ bus \in Buses
    BY DEF Structure
  <1>2. Slaves = 1..Len(bus) /\ Len(bus) \in Nat \ {0}
    BY <1>1, BusFacts DEF Slaves
  <1>3. CASE turn.node = Len(bus)
    <2>1. phase' = After(phase) /\ turn' = [node |-> 1, field |-> 1]
      BY <1>3 DEF NodeDone, FirstTurn
    <2>2. /\ phase = "output" => phase' = "exchange"
          /\ phase = "input" => phase' = "idle"
      BY <2>1 DEF After
    <2> QED
      BY <1>2, <1>3, <2>1, <2>2 DEF HasWritten
  <1>4. CASE turn.node # Len(bus)
    <2>1. phase' = phase /\ turn' = [node |-> turn.node + 1, field |-> 1]
      BY <1>4 DEF NodeDone
    <2>2. turn.node + 1 \in Slaves
      BY <1>1, <1>2, <1>4
    <2>3. \A t \in Slaves : t < turn.node + 1 => t <= turn.node
      BY <1>1, <1>2
    <2> QED
      BY <2>1, <2>2, <2>3 DEF HasWritten
  <1> QED
    BY <1>3, <1>4

(***************************************************************************)
(* The steps of the output phase.                                          *)
(***************************************************************************)
(* What a servo's command says does not depend on targets that were added  *)
(* since, nor on bytes outside of the slave's window.                      *)
LEMMA CommandStays ==
  ASSUME bus \in Buses, UNCHANGED bus, NEW s \in Servos, CommandInPlace(s),
         \A k \in 0..(bus[s].outs - 1) : image'[OutStart(s) + k] = image[OutStart(s) + k],
         \A e \in Entries : held[s][e] \subseteq held'[s][e]
  PROVE  CommandInPlace(s)'
  <1>1. bus[s].outs \in Nat /\ OutStart(s)' = OutStart(s)
    BY BusFacts, SameBus
  <1> SUFFICES ASSUME bus[s].outs >= BufferSize("Servo"),
                      NEW e \in Entries, NEW k \in 0..(BufferSize("Servo") - 1),
                      k - Layout[e].offset \in 0..(Layout[e].size - 1)
               PROVE  LET b == image'[OutStart(s) + k] IN
                      b.from = s /\ b.entry = e /\ \E t \in held'[s][e] : Near(b.raw, t)
    BY <1>1 DEF CommandInPlace, Near, Decode
  <1>2. k \in 0..(bus[s].outs - 1)
    BY <1>1, ServoBuffer
  <1>3. image'[OutStart(s) + k] = image[OutStart(s) + k]
    BY <1>2
  <1> DEFINE b == image[OutStart(s) + k]
  <1>4. b.from = s /\ b.entry = e /\ \E t \in held[s][e] : Near(b.raw, t)
    BY DEF CommandInPlace
  <1> HIDE DEF b
  <1>5. \E t \in held'[s][e] : Near(b.raw, t)
    BY <1>4
  <1> QED
    BY <1>3, <1>4, <1>5 DEF b

LEMMA OwnPartStays ==
  ASSUME UNCHANGED bus, NEW s \in Slaves, OwnPart(s),
         \A k \in 0..(bus[s].outs - 1) : image'[OutStart(s) + k] = image[OutStart(s) + k]
  PROVE  OwnPart(s)'
  <1>1. bus'[s].outs = bus[s].outs /\ Type(s)' = Type(s) /\ OutStart(s)' = OutStart(s)
    BY SameBus
  <1> QED
    BY <1>1 DEF OwnPart

LEMMA InputsStay ==
  ASSUME bus \in Buses, UNCHANGED bus, NEW s \in Slaves, last'[s] = last[s],
         WholeInputs(s), InputsOf(s),
         \A k \in 0..(bus[s].ins - 1) : image'[InStart(s) + k] = image[InStart(s) + k]
  PROVE  InputsOf(s)'
  <1>1. bus[s].ins \in Nat /\ InStart(s)' = InStart(s)
    BY BusFacts, SameBus
  <1>2. \A k \in 0..(BufferSize("Servo") - 1) : image'[InStart(s) + k] = image[InStart(s) + k]
    BY <1>1, ServoBuffer DEF WholeInputs
  <1>3. UNCHANGED EntryBytes(s, AllEntries(last[s]))
    BY DEF EntryBytes, AllEntries
  <1> QED
    BY <1>1, <1>2, <1>3 DEF InputsOf

(* A node has written its buffer and its turn is over.                     *)
LEMMA NodeHasWritten ==
  ASSUME IInv, phase = "output", NodeDone, NEW s \in Slaves, s = turn.node,
         image' \in [0..(MapBytes - 1) -> MapByte], Writes(s),
         raw' \in [Entries -> Int],
         UNCHANGED <<bus, target, actual, held, last>>,
         s \in Servos => CommandInPlace(s)'
  PROVE  IInv'
  <1>1. Structure /\ bus \in Buses /\ s \in Slaves
    BY DEF IInv, Structure
  <1>2. /\ phase' \in {"output", "exchange"} /\ turn' \in [node : Slaves, field : 1..3]
        /\ turn'.field = 1 /\ (phase' = "exchange" => turn'.node = 1)
        /\ \A t \in Slaves : HasWritten(t)' => t <= s
    BY <1>1, TurnTaken
  <1>3. Slaves' = Slaves /\ Servos' = Servos /\ BuffersFit' = BuffersFit /\ MapByte' = MapByte
    BY SameBus DEF MapByte
  <1>4. Structure'
    BY <1>1, <1>2, <1>3 DEF Structure
  <1>5. OverrunOnly'
    BY <1>1, WriteOnlyOverruns DEF IInv
  <1>6. OutputsDone'
    <2> SUFFICES ASSUME NEW t \in Slaves, HasWritten(t)'
                 PROVE  OwnPart(t)' /\ (t \in Servos => CommandInPlace(t)')
      BY <1>3 DEF OutputsDone
    <2>1. t \in Nat /\ s \in Nat /\ t <= s
      BY <1>1, <1>2, BusFacts
    <2>2. CASE t = s
      BY <1>1, <2>2, WriteOwns
    <2>3. CASE t < s
      <3>1. OwnPart(t) /\ (t \in Servos => CommandInPlace(t))
        BY <2>3 DEF IInv, OutputsDone, HasWritten
      <3>2. \A k \in 0..(bus[t].outs - 1) : image'[OutStart(t) + k] = image[OutStart(t) + k]
        BY <1>1, <2>3, WriteSparesEarlier
      <3>3. OwnPart(t)'
        BY <3>1, <3>2, OwnPartStays
      <3>4. t \in Servos => CommandInPlace(t)'
        BY <1>1, <3>1, <3>2, CommandStays
      <3> QED
        BY <3>3, <3>4
    <2> QED
      BY <2>1, <2>2, <2>3
  <1>7. RawIsCurrent'
    BY <1>2 DEF RawIsCurrent
  <1>8. HeldIsCurrent'
    BY <1>3 DEF IInv, HeldIsCurrent
  <1>9. InputsKept'
    <2> SUFFICES ASSUME BuffersFit, NEW t \in Slaves, WholeInputs(t)
                 PROVE  InputsOf(t)'
      BY <1>3 DEF InputsKept, WholeInputs
    <2>1. InputsOf(t)
      BY DEF IInv, InputsKept
    <2> QED
      BY <1>1, <2>1, WriteSparesInputs, InputsStay
  <1>10. FeedbackDone'
    BY <1>2 DEF FeedbackDone
  <1> QED
    BY <1>4, <1>5, <1>6, <1>7, <1>8, <1>9, <1>10 DEF IInv

LEMMA WriteZerosStep == IInv /\ WriteZeros => IInv'
  <1> SUFFICES ASSUME IInv, WriteZeros
               PROVE  IInv'
    OBVIOUS
  <1>0. PICK s \in Slaves : s = turn.node
    BY DEF IInv, Structure
  <1> DEFINE n == BufferSize(Type(s))
  <1>1. /\ phase = "output" /\ s \notin Servos /\ NodeDone
        /\ WriteOutput(s, ZeroBytes(s, n))
        /\ UNCHANGED <<bus, target, actual, raw, held, last>>
    BY <1>0 DEF WriteZeros, Visited
  <1>2. Structure /\ s \in Slaves /\ n \in Nat
    BY BusFacts DEF IInv, Structure
  <1> HIDE DEF n
  <1>3. ZeroBytes(s, n) \in [0..(n - 1) -> MapByte] /\ \A k \in 0..(n - 1) : ZeroBytes(s, n)[k].from = s
    BY <1>2 DEF ZeroBytes, ZeroByte, Byte, MapByte
  <1>4. /\ image' \in [0..(MapBytes - 1) -> MapByte]
        /\ \A a \in 0..(MapBytes - 1) :
             IF bus[s].outs > 0 /\ a - OutStart(s) \in 0..(n - 1)
             THEN image'[a] = ZeroBytes(s, n)[a - OutStart(s)] ELSE image'[a] = image[a]
    BY <1>1, <1>2, <1>3, BufferIsCopied
  <1>5. Writes(s)
    BY <1>3, <1>4, Zenon DEF Writes, n
  <1>6. raw' \in [Entries -> Int]
    BY <1>1, <1>2 DEF Structure
  <1> QED
    BY <1>0, <1>1, <1>4, <1>5, <1>6, NodeHasWritten

(* The last target of an axis is read and the buffer goes into the map.    *)
LEMMA CommandWritten ==
  ASSUME IInv, ReadTarget, turn.field = 3
  PROVE  IInv'
  <1>0. PICK s \in Slaves : s = turn.node
    BY DEF IInv, Structure
  <1>a. PICK read : read = [raw EXCEPT !["torque"] = Encode(target[s]["torque"])]
    OBVIOUS
  <1> DEFINE n == BufferSize("Servo")
             bytes == EntryBytes(s, read)
  <1>1. /\ phase = "output" /\ s \in Servos
        /\ raw' = AllEntries(0) /\ NodeDone
        /\ WriteOutput(s, bytes)
        /\ UNCHANGED <<bus, target, actual, held, last>>
    BY <1>0, <1>a DEF ReadTarget, Visited, Fields
  <1>2. Structure /\ s \in Slaves /\ bus \in Buses
    BY DEF IInv, Structure
  <1>3. BufferSize(Type(s)) = n /\ n = 10 /\ n \in Nat /\ bus[s].outs \in Nat /\ OutStart(s) \in Nat
    BY <1>1, <1>2, BusFacts, ServoBuffer
  <1>4. \A e \in Entries : target[s][e] \in Int
    BY <1>1, RangesAssumption DEF IInv, Structure
  <1>5. read \in [Entries -> Int]
    BY <1>a, <1>4, EncodeIsNear DEF IInv, Structure, Entries
  <1>6. \A e \in Entries : \E t \in held[s][e] : Near(read[e], t)
    <2>1. raw \in [Entries -> Int]
      BY DEF IInv, Structure
    <2>2. \E t \in held[s]["torque"] : Near(read["torque"], t)
      <3>1. target[s]["torque"] \in held[s]["torque"]
        BY <1>1 DEF IInv, HeldIsCurrent, Entries
      <3>2. read["torque"] = Encode(target[s]["torque"])
        BY <1>a, <2>1 DEF Entries
      <3>3. target[s]["torque"] \in Int
        BY <1>4 DEF Entries
      <3> QED
        BY <3>1, <3>2, <3>3, EncodeIsNear
    <2>3. \A i \in 1..2 : \E t \in held[s][Fields[i]] : Near(raw[Fields[i]], t)
      BY <1>0, <1>1 DEF IInv, RawIsCurrent
    <2>4. /\ \E t \in held[s]["position"] : Near(raw["position"], t)
          /\ \E t \in held[s]["velocity"] : Near(raw["velocity"], t)
      BY <2>3 DEF Fields
    <2>5. read["position"] = raw["position"] /\ read["velocity"] = raw["velocity"]
      BY <1>a, <2>1 DEF Entries
    <2> QED
      BY <2>2, <2>4, <2>5 DEF Entries
  <1>b. \A e \in Entries, k \in 0..(n - 1) :
          k - Layout[e].offset \in 0..(Layout[e].size - 1) => bytes[k] = Byte(s, e, read[e])
    BY EntryOfByte
  <1>7. \A k \in 0..(n - 1) :
          bytes[k] \in MapByte /\ bytes[k].from = s
    <2> SUFFICES ASSUME NEW k \in 0..(n - 1)
                 PROVE  bytes[k] \in MapByte /\ bytes[k].from = s
      OBVIOUS
    <2>1. PICK e \in Entries : k - Layout[e].offset \in 0..(Layout[e].size - 1)
      BY EveryByteHasAnEntry
    <2>2. bytes[k] = Byte(s, e, read[e])
      BY <1>b, <2>1
    <2> QED
      BY <1>2, <1>5, <2>2 DEF Byte, MapByte
  <1>8. bytes \in [0..(n - 1) -> MapByte]
    <2>1. DOMAIN bytes = 0..(n - 1) /\ bytes = [k \in 0..(n - 1) |-> bytes[k]]
      BY DEF EntryBytes
    <2> HIDE DEF bytes
    <2> QED
      BY <1>7, <2>1
  <1> HIDE DEF bytes
  <1>9. /\ image' \in [0..(MapBytes - 1) -> MapByte]
        /\ \A a \in 0..(MapBytes - 1) :
             IF bus[s].outs > 0 /\ a - OutStart(s) \in 0..(n - 1)
             THEN image'[a] = bytes[a - OutStart(s)] ELSE image'[a] = image[a]
    <2> HIDE DEF n
    <2> QED
      BY <1>1, <1>2, <1>3, <1>8, BufferIsCopied
  <1>10. Writes(s)
    BY <1>3, <1>7, <1>9, Zenon DEF Writes
  <1>11. CommandInPlace(s)'
    <2>1. OutStart(s)' = OutStart(s) /\ bus'[s].outs = bus[s].outs /\ held' = held
      BY <1>1, SameBus
    <2> SUFFICES ASSUME bus[s].outs >= n, NEW e \in Entries, NEW k \in 0..(n - 1),
                        k - Layout[e].offset \in 0..(Layout[e].size - 1)
                 PROVE  LET b == image'[OutStart(s) + k] IN
                        b.from = s /\ b.entry = e /\ \E t \in held[s][e] : Near(b.raw, t)
      BY <2>1 DEF CommandInPlace, Near, Decode
    <2> DEFINE a == OutStart(s) + k
    <2>2. a \in 0..(MapBytes - 1) /\ a - OutStart(s) = k /\ bus[s].outs > 0
      BY <1>2, <1>3, WindowsInMap
    <2> HIDE DEF a
    <2>3. image'[a] = bytes[k]
      BY <1>9, <2>2
    <2>4. bytes[k] = Byte(s, e, read[e])
      BY <1>b
    <2>5. /\ image'[a].from = s /\ image'[a].entry = e /\ image'[a].raw = read[e]
      BY <2>3, <2>4 DEF Byte
    <2> QED
      BY <1>6, <2>5 DEF a
  <1>12. raw' \in [Entries -> Int]
    BY <1>1 DEF AllEntries
  <1> QED
    BY <1>0, <1>1, <1>9, <1>10, <1>11, <1>12, NodeHasWritten

(* A step that touches neither the map nor the readings.                   *)
LEMMA MapUntouched ==
  ASSUME IInv, UNCHANGED <<bus, image, last>>
  PROVE  /\ OverrunOnly' /\ InputsKept'
         /\ \A t \in Slaves : OwnPart(t) => OwnPart(t)'
  <1>1. /\ Slaves' = Slaves /\ Servos' = Servos /\ BuffersFit' = BuffersFit
        /\ \A t : Type(t)' = Type(t) /\ OutStart(t)' = OutStart(t) /\ InStart(t)' = InStart(t)
    BY SameBus
  <1>2. OverrunOnly'
    BY <1>1 DEF IInv, OverrunOnly
  <1>3. InputsKept'
    <2> SUFFICES ASSUME BuffersFit, NEW t \in Slaves, WholeInputs(t)
                 PROVE  InputsOf(t)'
      BY <1>1 DEF InputsKept, WholeInputs
    <2>1. InputsOf(t) /\ bus \in Buses
      BY DEF IInv, InputsKept, Structure
    <2> QED
      BY <2>1, InputsStay
  <1>4. \A t \in Slaves : OwnPart(t) => OwnPart(t)'
    BY <1>1 DEF OwnPart
  <1> QED
    BY <1>2, <1>3, <1>4

(* Another target of the axis is read under its mutex.                     *)
LEMMA TargetEncoded ==
  ASSUME IInv, ReadTarget, turn.field # 3
  PROVE  IInv'
  <1>0. PICK s \in Slaves : s = turn.node
    BY DEF IInv, Structure
  <1>1. turn \in [node : Slaves, field : 1..3] /\ turn.field \in 1..2
    BY DEF IInv, Structure
  <1>2. PICK i \in 1..2 : i = turn.field
    BY <1>1
  <1>3. PICK e \in Entries : e = Fields[i]
    BY DEF Fields, Entries
  <1>4. /\ phase = "output" /\ s \in Servos
        /\ raw' = [raw EXCEPT ![e] = Encode(target[s][e])]
        /\ turn' = [turn EXCEPT !.field = i + 1]
        /\ UNCHANGED <<bus, phase, image, target, actual, held, last>>
    BY <1>0, <1>2, <1>3 DEF ReadTarget, Visited, Fields
  <1>5. turn' \in [node : Slaves, field : 1..3] /\ turn'.node = s /\ turn'.field = i + 1
    BY <1>0, <1>1, <1>4
  <1>6. target[s][e] \in Int /\ target[s][e] \in held[s][e]
    BY <1>4, RangesAssumption DEF IInv, Structure, HeldIsCurrent
  <1>7. /\ Slaves' = Slaves /\ Servos' = Servos /\ BuffersFit' = BuffersFit /\ MapByte' = MapByte
        /\ \A t : Type(t)' = Type(t) /\ OutStart(t)' = OutStart(t) /\ InStart(t)' = InStart(t)
    BY <1>4, SameBus DEF MapByte
  <1>8. raw' \in [Entries -> Int]
    BY <1>4, <1>6, EncodeIsNear DEF IInv, Structure
  <1>9. Structure'
    BY <1>4, <1>5, <1>7, <1>8 DEF IInv, Structure
  <1>10. OverrunOnly'
    BY <1>4, <1>7 DEF IInv, OverrunOnly
  <1>11. OutputsDone'
    <2> SUFFICES ASSUME NEW t \in Slaves, HasWritten(t)'
                 PROVE  OwnPart(t)' /\ (t \in Servos => CommandInPlace(t)')
      BY <1>7 DEF OutputsDone
    <2>1. HasWritten(t)
      BY <1>0, <1>4, <1>5 DEF HasWritten
    <2>2. OwnPart(t) /\ (t \in Servos => CommandInPlace(t))
      BY <2>1 DEF IInv, OutputsDone
    <2> QED
      BY <1>4, <1>7, <2>2 DEF OwnPart, CommandInPlace, Near, Decode
  <1>12. RawIsCurrent'
    <2> SUFFICES ASSUME NEW j \in 1..i
                 PROVE  \E t \in held[s][Fields[j]] : Near(raw'[Fields[j]], t)
      BY <1>2, <1>4, <1>5 DEF RawIsCurrent, Near, Decode
    <2>1. raw \in [Entries -> Int] /\ Fields[j] \in Entries
      BY DEF IInv, Structure, Fields, Entries
    <2>2. CASE j = i
      <3>1. raw'[e] = Encode(target[s][e])
        BY <1>4, <2>1
      <3> QED
        BY <1>3, <1>6, <2>2, <3>1, EncodeIsNear
    <2>3. CASE j # i
      <3>1. Fields[j] # e
        BY <1>3, <2>3 DEF Fields
      <3>2. raw'[Fields[j]] = raw[Fields[j]]
        BY <1>4, <2>1, <3>1
      <3>3. j \in 1..(i - 1)
        BY <2>3
      <3>4. \E t \in held[s][Fields[j]] : Near(raw[Fields[j]], t)
        BY <1>0, <1>2, <1>4, <3>3 DEF IInv, RawIsCurrent
      <3> QED
        BY <3>2, <3>4
    <2> QED
      BY <2>2, <2>3
  <1>13. HeldIsCurrent'
    BY <1>4, <1>7 DEF IInv, HeldIsCurrent
  <1>14. InputsKept'
    BY <1>4, MapUntouched
  <1>15. FeedbackDone'
    BY <1>4 DEF FeedbackDone
  <1> QED
    BY <1>9, <1>10, <1>11, <1>12, <1>13, <1>14, <1>15 DEF IInv

LEMMA ReadTargetStep == IInv /\ ReadTarget => IInv'
  BY TargetEncoded, CommandWritten

(***************************************************************************)
(* The application, sessions and the begin of a cycle.                     *)
(***************************************************************************)
LEMMA SetTargetStep ==
  ASSUME IInv, NEW s \in Servos, NEW e \in Entries, NEW new \in Targets, SetTarget(s, e, new)
  PROVE  IInv'
  <1>1. /\ target' = [target EXCEPT ![s][e] = new]
        /\ held' = [held EXCEPT ![s][e] = IF phase \in {"output", "exchange"}
                                          THEN held[s][e] \cup {new} ELSE {new}]
        /\ UNCHANGED <<bus, actual, image, phase, turn, raw, last>>
    BY DEF SetTarget
  <1>2. /\ Slaves' = Slaves /\ Servos' = Servos /\ BuffersFit' = BuffersFit /\ MapByte' = MapByte
        /\ \A t : Type(t)' = Type(t) /\ OutStart(t)' = OutStart(t) /\ InStart(t)' = InStart(t)
    BY <1>1, SameBus DEF MapByte
  <1>3. /\ target \in [Servos -> [Entries -> Targets \cup {0}]]
        /\ held \in [Servos -> [Entries -> SUBSET Int]]
        /\ turn.node \in Slaves /\ bus \in Buses
    BY DEF IInv, Structure
  <1> DEFINE h == IF phase \in {"output", "exchange"} THEN held[s][e] \cup {new} ELSE {new}
  <1>4. h \subseteq Int /\ new \in h
    BY <1>3, RangesAssumption
  <1> HIDE DEF h
  <1>5. held' = [held EXCEPT ![s] = [held[s] EXCEPT ![e] = h]]
    BY <1>1, <1>3 DEF h
  <1>6. target' = [target EXCEPT ![s] = [target[s] EXCEPT ![e] = new]]
    BY <1>1, <1>3
  <1>7. /\ target' \in [Servos -> [Entries -> Targets \cup {0}]]
        /\ held' \in [Servos -> [Entries -> SUBSET Int]]
    BY <1>3, <1>4, <1>5, <1>6
  <1>8. Structure'
    BY <1>1, <1>2, <1>7 DEF IInv, Structure
  <1>9. \A t \in Servos, f \in Entries :
          /\ t = s /\ f = e => held'[t][f] = h /\ target'[t][f] = new
          /\ t # s \/ f # e => held'[t][f] = held[t][f] /\ target'[t][f] = target[t][f]
    BY <1>3, <1>5, <1>6
  <1>10. HeldIsCurrent'
    BY <1>2, <1>4, <1>9 DEF IInv, HeldIsCurrent
  <1>11. OverrunOnly' /\ InputsKept' /\ \A t \in Slaves : OwnPart(t) => OwnPart(t)'
    BY <1>1, MapUntouched
  <1>12. phase \in {"output", "exchange"}
           => \A t \in Servos, f \in Entries : held[t][f] \subseteq held'[t][f]
    BY <1>9 DEF h
  <1>13. OutputsDone'
    <2> SUFFICES ASSUME NEW t \in Slaves, HasWritten(t)'
                 PROVE  OwnPart(t)' /\ (t \in Servos => CommandInPlace(t)')
      BY <1>2 DEF OutputsDone
    <2>1. HasWritten(t) /\ phase \in {"output", "exchange"}
      BY <1>1 DEF HasWritten
    <2>2. OwnPart(t) /\ (t \in Servos => CommandInPlace(t))
      BY <2>1 DEF IInv, OutputsDone
    <2>3. \A k \in 0..(bus[t].outs - 1) : image'[OutStart(t) + k] = image[OutStart(t) + k]
      BY <1>1
    <2> QED
      BY <1>1, <1>3, <1>11, <1>12, <2>1, <2>2, <2>3, CommandStays
  <1>14. RawIsCurrent'
    <2> SUFFICES ASSUME phase = "output", turn.node \in Servos, NEW j \in 1..(turn.field - 1)
                 PROVE  \E t \in held'[turn.node][Fields[j]] : Near(raw[Fields[j]], t)
      BY <1>1, <1>2 DEF RawIsCurrent, Near, Decode
    <2>1. PICK t \in held[turn.node][Fields[j]] : Near(raw[Fields[j]], t)
      BY DEF IInv, RawIsCurrent
    <2>2. turn.field \in 1..3
      BY DEF IInv, Structure
    <2>3. Fields[j] \in Entries
      BY <2>2 DEF Fields, Entries
    <2>4. t \in held'[turn.node][Fields[j]]
      BY <1>12, <2>1, <2>3
    <2> QED
      BY <2>1, <2>4
  <1>15. FeedbackDone'
    BY <1>1, <1>2 DEF IInv, FeedbackDone, WholeInputs, AllEntries
  <1> QED
    BY <1>8, <1>10, <1>11, <1>13, <1>14, <1>15 DEF IInv

LEMMA NewSessionStep == IInv /\ NewSession => IInv'
  <1> SUFFICES ASSUME IInv, NewSession
               PROVE  IInv'
    OBVIOUS
  <1>1. /\ phase = "idle" /\ phase' = "idle"
        /\ target' = [s \in Servos |-> AllEntries(0)]
        /\ actual' = [s \in Servos |-> AllEntries(0)]
        /\ held' = [s \in Servos |-> AllEntries({0})]
        /\ UNCHANGED <<bus, image, turn, raw, last>>
    BY DEF NewSession, FreshNodes
  <1>2. Slaves' = Slaves /\ Servos' = Servos /\ MapByte' = MapByte
    BY <1>1, SameBus DEF MapByte
  <1>3. /\ target' \in [Servos -> [Entries -> Targets \cup {0}]]
        /\ held' \in [Servos -> [Entries -> SUBSET Int]]
        /\ actual' = [s \in Servos |-> actual'[s]]
    BY <1>1 DEF AllEntries
  <1>4. Structure'
    BY <1>1, <1>2, <1>3 DEF IInv, Structure
  <1>5. OverrunOnly' /\ InputsKept'
    BY <1>1, MapUntouched
  <1>6. HeldIsCurrent'
    BY <1>1, <1>2 DEF HeldIsCurrent, AllEntries
  <1> QED
    BY <1>1, <1>4, <1>5, <1>6 DEF IInv, OutputsDone, HasWritten, RawIsCurrent, FeedbackDone

(* What was held before the cycle counts no longer.                        *)
LEMMA HeldAnew ==
  ASSUME IInv, held' = CurrentTargets, UNCHANGED <<bus, target>>
  PROVE  held' \in [Servos -> [Entries -> SUBSET Int]] /\ HeldIsCurrent'
  <1>1. \A s \in Servos, e \in Entries : target[s][e] \in Int
    BY RangesAssumption DEF IInv, Structure
  <1>2. held' \in [Servos -> [Entries -> SUBSET Int]]
    BY <1>1 DEF CurrentTargets
  <1>3. Servos' = Servos
    BY SameBus
  <1> QED
    BY <1>2, <1>3 DEF CurrentTargets, HeldIsCurrent

LEMMA BeginCycleStep == IInv /\ BeginCycle => IInv'
  <1> SUFFICES ASSUME IInv, BeginCycle
               PROVE  IInv'
    OBVIOUS
  <1>1. /\ phase' = "output" /\ turn' = [node |-> 1, field |-> 1] /\ held' = CurrentTargets
        /\ UNCHANGED <<bus, target, actual, image, raw, last>>
    BY DEF BeginCycle, After, FirstTurn
  <1>2. Slaves' = Slaves /\ Servos' = Servos /\ MapByte' = MapByte
    BY <1>1, SameBus DEF MapByte
  <1>3. held' \in [Servos -> [Entries -> SUBSET Int]] /\ HeldIsCurrent'
    BY <1>1, HeldAnew
  <1>4. 1 \in Slaves /\ \A t \in Slaves : ~(t < 1)
    BY BusFacts DEF IInv, Structure, Slaves
  <1>5. Structure'
    BY <1>1, <1>2, <1>3, <1>4 DEF IInv, Structure
  <1>6. OverrunOnly' /\ InputsKept'
    BY <1>1, MapUntouched
  <1>7. OutputsDone'
    BY <1>1, <1>2, <1>4 DEF OutputsDone, HasWritten
  <1>8. RawIsCurrent' /\ FeedbackDone'
    BY <1>1 DEF RawIsCurrent, FeedbackDone
  <1> QED
    BY <1>3, <1>5, <1>6, <1>7, <1>8 DEF IInv

(***************************************************************************)
(* The exchange.                                                           *)
(***************************************************************************)
InInputs(a, s) == a - InStart(s) \in 0..(bus[s].ins - 1)

LEMMA OneInput ==
  ASSUME bus \in Buses, NEW a \in Int, NEW s \in Slaves, NEW t \in Slaves,
         InInputs(a, s), InInputs(a, t)
  PROVE  s = t
  <1>1. /\ s \in Nat /\ t \in Nat /\ bus[s].ins \in Nat /\ bus[t].ins \in Nat
        /\ InStart(s) \in Nat /\ InStart(t) \in Nat
    BY BusFacts
  <1>2. /\ bus[s].ins > 0 /\ InStart(s) <= a /\ a < InStart(s) + bus[s].ins
        /\ bus[t].ins > 0 /\ InStart(t) <= a /\ a < InStart(t) + bus[t].ins
    BY <1>1 DEF InInputs
  <1>3. ~(s < t)
    <2>1. s < t => InStart(s) + bus[s].ins <= InStart(t)
      BY <1>2, WindowsApart
    <2> QED
      BY <1>1, <1>2, <2>1
  <1>4. ~(t < s)
    <2>1. t < s => InStart(t) + bus[t].ins <= InStart(s)
      BY <1>2, WindowsApart
    <2> QED
      BY <1>1, <1>2, <2>1
  <1> QED
    BY <1>1, <1>3, <1>4

LEMMA OutputIsNoInput ==
  ASSUME bus \in Buses, NEW s \in Slaves, NEW t \in Slaves, NEW k \in 0..(bus[s].outs - 1)
  PROVE  ~InInputs(OutStart(s) + k, t)
  <1>1. /\ bus[s].outs \in Nat /\ bus[t].ins \in Nat /\ OutStart(s) \in Nat /\ InStart(t) \in Nat
    BY BusFacts
  <1>2. bus[s].outs > 0 /\ bus[t].ins > 0 => OutStart(s) + bus[s].outs <= InStart(t)
    BY WindowsApart
  <1> QED
    BY <1>1, <1>2 DEF InInputs

(* What ExchangeReturns leaves in a byte of the map.                       *)
LEMMA ByteReturned ==
  ASSUME Structure, NEW passed \in SUBSET Slaves, NEW reading, ExchangeReturns(passed, reading)
  PROVE  /\ image' = [a \in 0..(MapBytes - 1) |-> image'[a]]
         /\ \A a \in 0..(MapBytes - 1) :
              /\ \A s \in passed :
                   InInputs(a, s) =>
                     image'[a] = IF a - InStart(s) < BufferSize("Servo")
                                 THEN EntryBytes(s, AllEntries(reading))[a - InStart(s)]
                                 ELSE ZeroByte(s)
              /\ (\A s \in passed : ~InInputs(a, s)) => image'[a] = image[a]
  <1>1. DOMAIN image = 0..(MapBytes - 1) /\ bus \in Buses
    BY DEF Structure
  <1> DEFINE Owner(a) == CHOOSE s \in passed : InInputs(a, s)
             Value(s, a) == IF a - InStart(s) < BufferSize("Servo")
                            THEN EntryBytes(s, AllEntries(reading))[a - InStart(s)]
                            ELSE ZeroByte(s)
  <1>2. image' = [a \in 0..(MapBytes - 1) |->
                    IF \E s \in passed : InInputs(a, s) THEN Value(Owner(a), a) ELSE image[a]]
    BY <1>1, Zenon DEF ExchangeReturns, InInputs
  <1>3. ASSUME NEW a \in 0..(MapBytes - 1), NEW s \in passed, InInputs(a, s)
        PROVE  Owner(a) = s
    <2>1. Owner(a) \in passed /\ InInputs(a, Owner(a))
      BY <1>3
    <2>2. a \in Int /\ Owner(a) \in Slaves /\ s \in Slaves
      BY <2>1, RangesAssumption
    <2> HIDE DEF Owner
    <2> QED
      BY <1>1, <1>3, <2>1, <2>2, OneInput
  <1> HIDE DEF Owner, Value
  <1>4. \A a \in 0..(MapBytes - 1), s \in passed : InInputs(a, s) => image'[a] = Value(s, a)
    BY <1>2, <1>3, Zenon
  <1>5. \A a \in 0..(MapBytes - 1) :
          (\A s \in passed : ~InInputs(a, s)) => image'[a] = image[a]
    BY <1>2, Zenon
  <1>6. image' = [a \in 0..(MapBytes - 1) |-> image'[a]]
    BY <1>2
  <1> QED
    BY <1>4, <1>5, <1>6, Zenon DEF Value

LEMMA EntryBytesTyped ==
  ASSUME NEW s \in Slaves, NEW values \in [Entries -> Int], NEW k \in 0..(BufferSize("Servo") - 1)
  PROVE  EntryBytes(s, values)[k] \in MapByte
  <1>1. PICK e \in Entries : k - Layout[e].offset \in 0..(Layout[e].size - 1)
    BY EveryByteHasAnEntry
  <1>2. EntryBytes(s, values)[k] = Byte(s, e, values[e])
    BY <1>1, EntryOfByte
  <1> QED
    BY <1>2 DEF Byte, MapByte

LEMMA ExchangeReturnsStep ==
  ASSUME IInv, NEW passed \in SUBSET Slaves, NEW reading \in Readings,
         ExchangeReturns(passed, reading)
  PROVE  IInv'
  <1>1. /\ phase = "exchange" /\ phase' = "input"
        /\ last' = [s \in Slaves |-> IF s \in passed THEN reading ELSE last[s]]
        /\ held' = CurrentTargets
        /\ UNCHANGED <<bus, target, actual, turn, raw>>
    BY DEF ExchangeReturns, After
  <1>2. Structure /\ bus \in Buses /\ reading \in Int
    BY RangesAssumption DEF IInv, Structure
  <1>3. /\ Slaves' = Slaves /\ Servos' = Servos /\ BuffersFit' = BuffersFit /\ MapByte' = MapByte
        /\ \A t : Type(t)' = Type(t) /\ OutStart(t)' = OutStart(t) /\ InStart(t)' = InStart(t)
    BY <1>1, SameBus DEF MapByte
  <1>4. /\ image' = [a \in 0..(MapBytes - 1) |-> image'[a]]
        /\ \A a \in 0..(MapBytes - 1) :
              /\ \A s \in passed :
                   InInputs(a, s) =>
                     image'[a] = IF a - InStart(s) < BufferSize("Servo")
                                 THEN EntryBytes(s, AllEntries(reading))[a - InStart(s)]
                                 ELSE ZeroByte(s)
              /\ (\A s \in passed : ~InInputs(a, s)) => image'[a] = image[a]
    BY <1>2, ByteReturned
  <1>5. AllEntries(reading) \in [Entries -> Int]
    BY <1>2 DEF AllEntries
  <1>6. image' \in [0..(MapBytes - 1) -> MapByte]
    <2> SUFFICES ASSUME NEW a \in 0..(MapBytes - 1)
                 PROVE  image'[a] \in MapByte
      BY <1>4
    <2>1. CASE \A s \in passed : ~InInputs(a, s)
      BY <1>2, <1>4, <2>1 DEF Structure
    <2>2. ASSUME NEW s \in passed, InInputs(a, s)
          PROVE  image'[a] \in MapByte
      <3> DEFINE k == a - InStart(s)
      <3>1. image'[a] = IF k < BufferSize("Servo") THEN EntryBytes(s, AllEntries(reading))[k]
                        ELSE ZeroByte(s)
        BY <1>4, <2>2
      <3>2. k \in Nat /\ s \in Slaves
        BY <1>2, <2>2, BusFacts DEF InInputs
      <3>3. ZeroByte(s) \in MapByte
        BY <3>2 DEF ZeroByte, Byte, MapByte
      <3> HIDE DEF k
      <3>4. k < BufferSize("Servo") => EntryBytes(s, AllEntries(reading))[k] \in MapByte
        BY <1>5, <3>2, ServoBuffer, EntryBytesTyped
      <3> QED
        BY <3>1, <3>3, <3>4
    <2> QED
      BY <2>1, <2>2
  <1>7. held' \in [Servos -> [Entries -> SUBSET Int]] /\ HeldIsCurrent'
    BY <1>1, HeldAnew
  <1>8. last' \in [Slaves -> Int]
    BY <1>1, <1>2 DEF Structure
  <1>9. Structure'
    BY <1>1, <1>2, <1>3, <1>6, <1>7, <1>8 DEF Structure
  <1>10. OverrunOnly'
    <2>1. \A t \in Slaves : \A k \in 0..(bus[t].outs - 1) :
            image'[OutStart(t) + k] = image[OutStart(t) + k]
      <3> SUFFICES ASSUME NEW t \in Slaves, NEW k \in 0..(bus[t].outs - 1)
                   PROVE  image'[OutStart(t) + k] = image[OutStart(t) + k]
        OBVIOUS
      <3> DEFINE a == OutStart(t) + k
      <3>1. a \in 0..(MapBytes - 1) /\ \A s \in passed : ~InInputs(a, s)
        BY <1>2, WindowsInMap, OutputIsNoInput
      <3> HIDE DEF a
      <3>2. image'[a] = image[a]
        BY <1>4, <3>1
      <3> QED
        BY <3>2 DEF a
    <2> QED
      BY <1>1, <1>3, <2>1 DEF IInv, OverrunOnly
  <1>11. InputsKept'
    <2> SUFFICES ASSUME BuffersFit, NEW t \in Slaves, WholeInputs(t)
                 PROVE  InputsOf(t)'
      BY <1>1, <1>3 DEF InputsKept, WholeInputs
    <2>1. InputsOf(t)
      BY DEF IInv, InputsKept
    <2>2. \A k \in 0..(bus[t].ins - 1) :
            /\ InStart(t) + k \in 0..(MapBytes - 1) /\ InStart(t) + k \in Int
            /\ InInputs(InStart(t) + k, t)
            /\ InStart(t) + k - InStart(t) = k
      <3>1. InStart(t) \in Nat /\ bus[t].ins \in Nat
        BY <1>2, BusFacts
      <3>2. \A k \in 0..(bus[t].ins - 1) : InStart(t) + k \in 0..(MapBytes - 1)
        BY <1>2, WindowsInMap
      <3>3. ASSUME NEW i \in Nat, NEW k \in Nat
            PROVE  i + k \in Int /\ i + k - i = k
        OBVIOUS
      <3>4. \A k \in 0..(bus[t].ins - 1) : k \in Nat
        BY <3>1
      <3>5. \A k \in 0..(bus[t].ins - 1) :
              InStart(t) + k \in Int /\ InStart(t) + k - InStart(t) = k
        BY <3>1, <3>3, <3>4
      <3>6. \A k \in 0..(bus[t].ins - 1) : InInputs(InStart(t) + k, t)
        <4> TAKE k \in 0..(bus[t].ins - 1)
        <4>1. InStart(t) + k - InStart(t) = k
          BY <3>5
        <4> QED
          BY <3>1, <3>4, <4>1 DEF InInputs
      <3> HIDE DEF InInputs
      <3> QED
        BY <3>2, <3>5, <3>6
    <2>3. CASE t \in passed
      <3>1. last'[t] = reading /\ InStart(t)' = InStart(t)
        BY <1>1, <1>3, <2>3
      <3>2. ASSUME NEW k \in 0..(BufferSize("Servo") - 1)
            PROVE  image'[InStart(t) + k] = EntryBytes(t, AllEntries(reading))[k]
        <4>1. k \in 0..(bus[t].ins - 1) /\ k < BufferSize("Servo")
          BY <1>2, BusFacts, ServoBuffer DEF WholeInputs
        <4> DEFINE a == InStart(t) + k
        <4>2. a \in 0..(MapBytes - 1) /\ InInputs(a, t)
          BY <2>2, <4>1
        <4>3. a - InStart(t) = k
          BY <1>2, <4>1, BusFacts
        <4> HIDE DEF a
        <4>4. image'[a] = EntryBytes(t, AllEntries(reading))[k]
          BY <1>4, <2>3, <4>1, <4>2, <4>3
        <4> QED
          BY <4>4 DEF a
      <3>3. EntryBytes(t, AllEntries(last[t]))' = EntryBytes(t, AllEntries(reading))
        BY <3>1 DEF EntryBytes, AllEntries
      <3> QED
        BY <3>1, <3>2, <3>3 DEF InputsOf
    <2>4. CASE t \notin passed
      <3>1. last'[t] = last[t]
        BY <1>1, <2>4
      <3>2. ASSUME NEW k \in 0..(bus[t].ins - 1)
            PROVE  image'[InStart(t) + k] = image[InStart(t) + k]
        <4> DEFINE a == InStart(t) + k
        <4>1. a \in 0..(MapBytes - 1) /\ a \in Int /\ InInputs(a, t)
          BY <2>2
        <4> HIDE DEF a
        <4>2. \A s \in passed : ~InInputs(a, s)
          BY <1>2, <2>4, <4>1, OneInput
        <4>3. image'[a] = image[a]
          BY <1>4, <4>1, <4>2
        <4> QED
          BY <4>3 DEF a
      <3> QED
        BY <1>1, <1>2, <2>1, <3>1, <3>2, InputsStay
    <2> QED
      BY <2>3, <2>4
  <1>12. FeedbackDone'
    <2>1. turn'.node = 1 /\ \A s \in Slaves : ~(s < 1)
      BY <1>1, <1>2, BusFacts DEF Structure
    <2> QED
      BY <1>3, <2>1 DEF FeedbackDone
  <1>13. OutputsDone' /\ RawIsCurrent'
    BY <1>1 DEF OutputsDone, HasWritten, RawIsCurrent
  <1> QED
    BY <1>7, <1>9, <1>10, <1>11, <1>12, <1>13 DEF IInv

LEMMA ExchangeLostStep == IInv /\ ExchangeLost => IInv'
  <1> SUFFICES ASSUME IInv, ExchangeLost
               PROVE  IInv'
    OBVIOUS
  <1>1. /\ phase = "exchange" /\ phase' = "input" /\ held' = CurrentTargets
        /\ UNCHANGED <<bus, target, actual, image, turn, raw, last>>
    BY DEF ExchangeLost, After
  <1>2. Slaves' = Slaves /\ Servos' = Servos /\ MapByte' = MapByte
    BY <1>1, SameBus DEF MapByte
  <1>3. held' \in [Servos -> [Entries -> SUBSET Int]] /\ HeldIsCurrent'
    BY <1>1, HeldAnew
  <1>4. Structure'
    BY <1>1, <1>2, <1>3 DEF IInv, Structure
  <1>5. OverrunOnly' /\ InputsKept'
    BY <1>1, MapUntouched
  <1>6. OutputsDone' /\ RawIsCurrent'
    BY <1>1 DEF OutputsDone, HasWritten, RawIsCurrent
  <1>7. FeedbackDone'
    <2>1. turn'.node = 1 /\ \A s \in Slaves : ~(s < 1)
      BY <1>1, BusFacts DEF IInv, Structure
    <2> QED
      BY <1>2, <2>1 DEF FeedbackDone
  <1> QED
    BY <1>3, <1>4, <1>5, <1>6, <1>7 DEF IInv

(***************************************************************************)
(* The inputs.                                                             *)
(***************************************************************************)
(* A buffer that holds an answer of the drive decodes to what it measured, *)
(* and a buffer of zeros to 0.                                             *)
LEMMA AnswerIsRead ==
  ASSUME NEW s, NEW value \in Int, NEW e \in Entries, NEW bytes,
         \A k \in 0..(BufferSize("Servo") - 1) : bytes[k] = EntryBytes(s, AllEntries(value))[k]
  PROVE  ReadRaw(bytes, e) = value
  <1> DEFINE span == {bytes[Layout[e].offset + i] : i \in 0..(Layout[e].size - 1)}
  <1>1. ASSUME NEW i \in 0..(Layout[e].size - 1)
        PROVE  bytes[Layout[e].offset + i] = Byte(s, e, value)
    <2> DEFINE k == Layout[e].offset + i
    <2>1. k \in 0..(BufferSize("Servo") - 1) /\ k - Layout[e].offset \in 0..(Layout[e].size - 1)
      BY ServoBuffer DEF Entries, Layout
    <2> HIDE DEF k
    <2>2. EntryBytes(s, AllEntries(value))[k] = Byte(s, e, AllEntries(value)[e])
      BY <2>1, EntryOfByte
    <2> QED
      BY <2>1, <2>2 DEF AllEntries, k
  <1>2. 0 \in 0..(Layout[e].size - 1)
    BY DEF Entries, Layout
  <1>3. span = {Byte(s, e, value)}
    BY <1>1, <1>2
  <1> HIDE DEF span
  <1>4. {b.raw : b \in span} = {value}
    BY <1>3 DEF Byte
  <1>5. (CHOOSE b \in span : TRUE).raw = value
    <2>1. (CHOOSE b \in span : TRUE) = Byte(s, e, value)
      BY <1>3, Zenon
    <2>2. Byte(s, e, value).raw = value
      BY DEF Byte
    <2> QED
      BY <2>1, <2>2, Zenon
  <1>6. \E b \in span : span = {b} /\ b.entry = e
    BY <1>3 DEF Byte
  <1> QED
    BY <1>4, <1>5, <1>6 DEF ReadRaw, span

LEMMA ZerosAreRead ==
  ASSUME NEW e \in Entries, NEW bytes, \A k \in 0..(BufferSize("Servo") - 1) : bytes[k].raw = 0
  PROVE  ReadRaw(bytes, e) = 0
  <1> DEFINE span == {bytes[Layout[e].offset + i] : i \in 0..(Layout[e].size - 1)}
  <1>1. \A b \in span : b.raw = 0
    BY EntriesInBuffer
  <1>2. bytes[Layout[e].offset + 0] \in span
    BY DEF Entries, Layout
  <1> HIDE DEF span
  <1>3. {b.raw : b \in span} = {0}
    BY <1>1, <1>2
  <1> QED
    BY <1>3 DEF ReadRaw, span

(* So a drive whose inputs hold the mapping gives its axis the reading of  *)
(* its last answer.                                                        *)
LEMMA FeedbackRead ==
  ASSUME Structure, NEW s \in Slaves, WholeInputs(s), InputsOf(s), NEW e \in Entries
  PROVE  ReadRaw(ReadInput(s), e) = last[s]
  <1>1. bus[s].ins # 0 /\ last[s] \in Int
    BY BusFacts, ServoBuffer DEF Structure, WholeInputs
  <1>2. \A k \in 0..(BufferSize("Servo") - 1) : ReadInput(s)[k] = image[InStart(s) + k]
    BY <1>1 DEF ReadInput
  <1>3. CASE \A k \in 0..(BufferSize("Servo") - 1) :
               image[InStart(s) + k] = EntryBytes(s, AllEntries(last[s]))[k]
    <2>1. PICK value \in Int : value = last[s]
      BY <1>1
    <2>2. PICK bytes : bytes = ReadInput(s)
      OBVIOUS
    <2>3. \A k \in 0..(BufferSize("Servo") - 1) : bytes[k] = EntryBytes(s, AllEntries(value))[k]
      BY <1>2, <1>3, <2>1, <2>2, Zenon
    <2> QED
      BY <2>1, <2>2, <2>3, AnswerIsRead
  <1>4. CASE last[s] = 0 /\ \A k \in 0..(BufferSize("Servo") - 1) : image[InStart(s) + k].raw = 0
    <2>1. PICK bytes : bytes = ReadInput(s)
      OBVIOUS
    <2>2. \A k \in 0..(BufferSize("Servo") - 1) : bytes[k].raw = 0
      BY <1>2, <1>4, <2>1, Zenon
    <2> QED
      BY <1>4, <2>1, <2>2, ZerosAreRead
  <1> QED
    BY <1>3, <1>4, Zenon DEF InputsOf

(* The node of the turn decodes its own, the axes of the others keep what  *)
(* they have.                                                              *)
LEMMA InputsDecoded ==
  ASSUME IInv, UpdatePdoInput, BuffersFit
  PROVE  /\ \A s \in Slaves : WholeInputs(s) /\ s <= turn.node
                                => actual'[s] = AllEntries(Decode(last[s]))
         /\ UNCHANGED last
  <1>0. PICK node \in Slaves : node = turn.node
    BY DEF IInv, Structure
  <1>1. /\ phase = "input" /\ UNCHANGED last
        /\ actual' = IF node \in Servos
                     THEN [actual EXCEPT ![node] =
                             [e \in Entries |-> Decode(ReadRaw(ReadInput(node), e))]]
                     ELSE actual
    BY <1>0 DEF UpdatePdoInput, Visited
  <1>2. Structure /\ bus \in Buses /\ DOMAIN actual = Servos
    BY DEF IInv, Structure
  <1>3. \A s \in Slaves : s \in Int
    BY <1>2, BusFacts
  <1> SUFFICES ASSUME NEW s \in Slaves, WholeInputs(s), s <= node
               PROVE  actual'[s] = AllEntries(Decode(last[s]))
    BY <1>0, <1>1
  <1>4. s \in Servos
    BY DEF WholeInputs
  <1>5. CASE s = node
    <2>1. InputsOf(s)
      BY DEF IInv, InputsKept
    <2>2. \A e \in Entries : ReadRaw(ReadInput(s), e) = last[s]
      BY <1>2, <2>1, FeedbackRead
    <2>3. actual'[s] = [e \in Entries |-> Decode(ReadRaw(ReadInput(s), e))]
      BY <1>1, <1>2, <1>4, <1>5, Zenon
    <2> QED
      BY <2>2, <2>3 DEF AllEntries
  <1>6. CASE s # node
    <2>1. s < turn.node
      BY <1>0, <1>3, <1>6
    <2>2. actual[s] = AllEntries(Decode(last[s]))
      BY <1>1, <2>1 DEF IInv, FeedbackDone
    <2>3. actual'[s] = actual[s]
      BY <1>1, <1>2, <1>4, <1>6
    <2> QED
      BY <2>2, <2>3
  <1> QED
    BY <1>5, <1>6

LEMMA UpdatePdoInputStep == IInv /\ UpdatePdoInput => IInv'
  <1> SUFFICES ASSUME IInv, UpdatePdoInput
               PROVE  IInv'
    OBVIOUS
  <1>1. /\ phase = "input" /\ NodeDone
        /\ UNCHANGED <<bus, target, image, raw, held, last>>
    BY DEF UpdatePdoInput
  <1>2. Structure
    BY DEF IInv
  <1>3. /\ Slaves' = Slaves /\ Servos' = Servos /\ BuffersFit' = BuffersFit /\ MapByte' = MapByte
    BY <1>1, SameBus DEF MapByte
  <1>4. /\ turn' \in [node : Slaves, field : 1..3] /\ phase' \in {"input", "idle"}
        /\ phase' = "input" => turn'.node = turn.node + 1
    BY <1>1, <1>2, TurnTaken
  <1>5. actual' = [s \in Servos |-> actual'[s]]
    BY <1>2 DEF UpdatePdoInput, Structure
  <1>6. Structure'
    BY <1>1, <1>2, <1>3, <1>4, <1>5 DEF Structure
  <1>7. OverrunOnly' /\ InputsKept'
    BY <1>1, MapUntouched
  <1>8. HeldIsCurrent'
    BY <1>1, <1>3 DEF IInv, HeldIsCurrent
  <1>9. OutputsDone' /\ RawIsCurrent'
    BY <1>4 DEF OutputsDone, HasWritten, RawIsCurrent
  <1>10. FeedbackDone'
    <2> SUFFICES ASSUME BuffersFit, phase' = "input",
                        NEW s \in Slaves, WholeInputs(s), s < turn'.node
                 PROVE  actual'[s] = AllEntries(Decode(last'[s]))
      BY <1>1, <1>3 DEF FeedbackDone, WholeInputs, AllEntries, Decode
    <2>1. s \in Int /\ turn.node \in Int
      BY BusFacts DEF IInv, Structure
    <2>2. s <= turn.node
      BY <1>4, <2>1
    <2> QED
      BY <1>1, <2>2, InputsDecoded
  <1> QED
    BY <1>6, <1>7, <1>8, <1>9, <1>10 DEF IInv

(***************************************************************************)
(* The theorems.                                                           *)
(***************************************************************************)
(* A process begins with a map of zeros and axes at 0.                     *)
LEMMA InitIsFine == Init => IInv
  <1> SUFFICES ASSUME Init
               PROVE  IInv
    OBVIOUS
  <1>1. /\ bus \in Buses /\ phase = "idle" /\ turn = [node |-> 1, field |-> 1]
        /\ target = [s \in Servos |-> AllEntries(0)]
        /\ actual = [s \in Servos |-> AllEntries(0)]
        /\ held = [s \in Servos |-> AllEntries({0})]
        /\ image = [a \in 0..(MapBytes - 1) |-> ZeroByte(0)]
        /\ raw = AllEntries(0) /\ last = [s \in Slaves |-> 0]
    BY DEF Init
  <1>2. 1 \in Slaves
    BY <1>1, BusFacts DEF Slaves
  <1>3. ZeroByte(0) \in MapByte /\ ZeroByte(0).from = 0 /\ ZeroByte(0).raw = 0
    BY DEF ZeroByte, Byte, MapByte
  <1> HIDE DEF Init
  <1>4. Structure
    <2>1. target \in [Servos -> [Entries -> Targets \cup {0}]]
      BY <1>1 DEF AllEntries
    <2>2. held \in [Servos -> [Entries -> SUBSET Int]]
      BY <1>1 DEF AllEntries
    <2>3. actual = [s \in Servos |-> actual[s]]
      BY <1>1
    <2>4. image \in [0..(MapBytes - 1) -> MapByte]
      BY <1>1, <1>3
    <2>5. raw \in [Entries -> Int] /\ last \in [Slaves -> Int]
      BY <1>1 DEF AllEntries
    <2>6. turn \in [node : Slaves, field : 1..3]
      BY <1>1, <1>2
    <2> QED
      BY <1>1, <2>1, <2>2, <2>3, <2>4, <2>5, <2>6 DEF Structure
  <1>5. OverrunOnly
    <2> SUFFICES ASSUME NEW s \in Slaves, NEW k \in 0..(bus[s].outs - 1)
                 PROVE  image[OutStart(s) + k].from = 0
      BY DEF OverrunOnly
    <2> DEFINE a == OutStart(s) + k
    <2>1. a \in 0..(MapBytes - 1)
      BY <1>1, WindowsInMap
    <2> HIDE DEF a
    <2>2. image[a].from = 0
      BY <1>1, <1>3, <2>1
    <2> QED
      BY <2>2 DEF a
  <1>6. InputsKept
    <2> SUFFICES ASSUME NEW s \in Slaves, WholeInputs(s)
                 PROVE  last[s] = 0 /\ \A k \in 0..(BufferSize("Servo") - 1) :
                                          image[InStart(s) + k].raw = 0
      BY DEF InputsKept, InputsOf
    <2> SUFFICES ASSUME NEW k \in 0..(BufferSize("Servo") - 1)
                 PROVE  image[InStart(s) + k].raw = 0
      BY <1>1
    <2> DEFINE a == InStart(s) + k
    <2>1. k \in 0..(bus[s].ins - 1)
      BY <1>1, BusFacts, ServoBuffer DEF WholeInputs
    <2>2. a \in 0..(MapBytes - 1)
      BY <1>1, <2>1, WindowsInMap
    <2> HIDE DEF a
    <2>3. image[a].raw = 0
      BY <1>1, <1>3, <2>2
    <2> QED
      BY <2>3 DEF a
  <1>7. HeldIsCurrent
    BY <1>1 DEF HeldIsCurrent, AllEntries
  <1> QED
    BY <1>1, <1>4, <1>5, <1>6, <1>7 DEF IInv, OutputsDone, HasWritten, RawIsCurrent, FeedbackDone

LEMMA IdleStep == IInv /\ UNCHANGED vars => IInv'
  <1> SUFFICES ASSUME IInv, UNCHANGED vars
               PROVE  IInv'
    OBVIOUS
  <1>1. UNCHANGED <<bus, target, actual, image, phase, turn, raw, held, last>>
    BY DEF vars
  <1>2. Slaves' = Slaves /\ Servos' = Servos /\ BuffersFit' = BuffersFit /\ MapByte' = MapByte
    BY <1>1, SameBus DEF MapByte
  <1>3. Structure'
    BY <1>1, <1>2 DEF IInv, Structure
  <1>4. OverrunOnly' /\ InputsKept' /\ \A s \in Slaves : OwnPart(s) => OwnPart(s)'
    BY <1>1, MapUntouched
  <1>5. OutputsDone'
    <2> SUFFICES ASSUME NEW s \in Slaves, HasWritten(s)
                 PROVE  OwnPart(s)' /\ (s \in Servos => CommandInPlace(s)')
      BY <1>1, <1>2 DEF OutputsDone, HasWritten
    <2>1. OwnPart(s) /\ (s \in Servos => CommandInPlace(s)) /\ bus \in Buses
      BY DEF IInv, OutputsDone, Structure
    <2>2. s \in Servos => CommandInPlace(s)'
      BY <1>1, <2>1, CommandStays
    <2> QED
      BY <1>4, <2>1, <2>2
  <1>6. RawIsCurrent' /\ HeldIsCurrent'
    BY <1>1, <1>2 DEF IInv, RawIsCurrent, HeldIsCurrent, Near, Decode
  <1>7. FeedbackDone'
    BY <1>1, <1>2 DEF IInv, FeedbackDone, WholeInputs, AllEntries, Decode
  <1> QED
    BY <1>3, <1>4, <1>5, <1>6, <1>7 DEF IInv

LEMMA Invariance == IInv /\ [Next]_vars => IInv'
  <1> SUFFICES ASSUME IInv, [Next]_vars
               PROVE  IInv'
    OBVIOUS
  <1>1. CASE \E s \in Servos, e \in Entries, t \in Targets : SetTarget(s, e, t)
    BY <1>1, SetTargetStep
  <1>2. CASE NewSession
    BY <1>2, NewSessionStep
  <1>3. CASE BeginCycle
    BY <1>3, BeginCycleStep
  <1>4. CASE ReadTarget
    BY <1>4, ReadTargetStep
  <1>5. CASE WriteZeros
    BY <1>5, WriteZerosStep
  <1>6. CASE \E passed \in SUBSET Slaves, reading \in Readings : ExchangeReturns(passed, reading)
    BY <1>6, ExchangeReturnsStep
  <1>7. CASE ExchangeLost
    BY <1>7, ExchangeLostStep
  <1>8. CASE UpdatePdoInput
    BY <1>8, UpdatePdoInputStep
  <1>9. CASE UNCHANGED vars
    BY <1>9, IdleStep
  <1> QED
    BY <1>1, <1>2, <1>3, <1>4, <1>5, <1>6, <1>7, <1>8, <1>9 DEF Next

LEMMA InductiveInvariant == Spec => []IInv
  BY InitIsFine, Invariance, PTL DEF Spec

(* The loops of RunOnce stay within nodes_, and every byte of iomap_ is    *)
(* zero or some node's or slave's.                                         *)
THEOREM TypeCorrect == Spec => []TypeOK
  <1>1. IInv => TypeOK
    <2> SUFFICES ASSUME IInv
                 PROVE  TypeOK
      OBVIOUS
    <2>1. /\ phase \in {"idle", "output", "exchange", "input"}
          /\ turn \in [node : Slaves, field : 1..3]
          /\ target \in [Servos -> [Entries -> Targets \cup {0}]]
          /\ image \in [0..(MapBytes - 1) -> MapByte]
      BY DEF IInv, Structure
    <2>2. Len(Fields) = 3
      BY DEF Fields
    <2>3. \A a \in DOMAIN image : image[a].from \in Slaves \cup {0}
      BY <2>1 DEF MapByte
    <2> QED
      BY <2>1, <2>2, <2>3 DEF TypeOK
  <1> QED
    BY <1>1, InductiveInvariant, PTL

(* For every bus, every frame of a cycle commands each drive whose outputs *)
(* hold the mapping with targets of its own axis since the cycle began.    *)
THEOREM FramesCarryOwnCommands == Spec => []OwnCommandSent
  <1>1. IInv => OwnCommandSent
    <2> SUFFICES ASSUME IInv, phase = "exchange", NEW s \in Servos,
                        bus[s].outs >= BufferSize("Servo"),
                        NEW e \in Entries, NEW k \in 0..(BufferSize("Servo") - 1),
                        k - Layout[e].offset \in 0..(Layout[e].size - 1)
                 PROVE  LET b == image[OutStart(s) + k] IN
                        b.from = s /\ b.entry = e
                        /\ \E t \in held[s][e] : Decode(b.raw) - t \in {-1, 0, 1}
      BY DEF OwnCommandSent
    <2>1. s \in Slaves
      BY DEF Servos
    <2>2. CommandInPlace(s)
      BY <2>1 DEF IInv, OutputsDone, HasWritten
    <2> QED
      BY <2>2 DEF CommandInPlace, Near
  <1> QED
    BY <1>1, InductiveInvariant, PTL

(* For every bus, a terminal sees foreign bytes only behind its node's     *)
(* buffer, and only of an earlier node whose buffer overruns its window.   *)
THEOREM ForeignBytesAreOverruns == Spec => []ForeignBytesOnlyByOverrun
  <1>1. IInv => ForeignBytesOnlyByOverrun
    <2> SUFFICES ASSUME IInv, phase = "exchange", NEW s \in Slaves,
                        NEW k \in 0..(bus[s].outs - 1),
                        image[OutStart(s) + k].from \notin {0, s}
                 PROVE  LET b == image[OutStart(s) + k] IN
                        /\ b.from < s /\ k >= BufferSize(Type(s))
                        /\ BufferSize(Type(b.from)) > bus[b.from].outs
      BY DEF ForeignBytesOnlyByOverrun
    <2>1. OwnPart(s)
      BY DEF IInv, OutputsDone, HasWritten
    <2>2. ~(k < BufferSize(Type(s)))
      BY <2>1 DEF OwnPart
    <2>3. BufferSize(Type(s)) \in Nat /\ bus[s].outs \in Nat
      BY BusFacts DEF IInv, Structure
    <2>4. k >= BufferSize(Type(s))
      BY <2>2, <2>3
    <2> QED
      BY <2>4 DEF IInv, OverrunOnly
  <1> QED
    BY <1>1, InductiveInvariant, PTL

(* For every bus whose buffers fit, a cycle leaves each drive's last       *)
(* measured values in its axis, whatever frames were lost.                 *)
THEOREM CyclesMeasure == Spec => FeedbackIsMeasured
  <1> DEFINE Measured ==
        (phase # "idle" /\ phase' = "idle" /\ BuffersFit) =>
          \A s \in Servos : bus[s].ins >= BufferSize("Servo") =>
            actual'[s] = AllEntries(Decode(last'[s]))
  <1>1. IInv /\ [Next]_vars => [Measured]_vars
    <2> SUFFICES ASSUME IInv, Next, phase # "idle", phase' = "idle", BuffersFit,
                        NEW s \in Servos, bus[s].ins >= BufferSize("Servo")
                 PROVE  actual'[s] = AllEntries(Decode(last'[s]))
      OBVIOUS
    <2>1. UpdatePdoInput
      <3>1. ASSUME NEW t \in Servos, NEW e \in Entries, NEW new, SetTarget(t, e, new)
            PROVE  FALSE
        BY <3>1 DEF SetTarget
      <3>2. ASSUME NEW passed, NEW reading, ExchangeReturns(passed, reading)
            PROVE  FALSE
        BY <3>2 DEF ExchangeReturns, After
      <3>3. ~NewSession /\ ~BeginCycle /\ ~ExchangeLost
        BY DEF NewSession, BeginCycle, ExchangeLost, After
      <3>4. phase = "output" /\ NodeDone => FALSE
        BY DEF NodeDone, After
      <3>5. ~WriteZeros
        BY <3>4 DEF WriteZeros
      <3>6. ~ReadTarget
        BY <3>4 DEF ReadTarget
      <3> QED
        BY <3>1, <3>2, <3>3, <3>5, <3>6 DEF Next
    <2>2. turn.node = Len(bus)
      BY <2>1, TurnTaken DEF UpdatePdoInput, IInv
    <2>3. s \in Slaves /\ s <= turn.node
      BY <2>2, BusFacts DEF IInv, Structure, Slaves
    <2>4. actual'[s] = AllEntries(Decode(last[s])) /\ UNCHANGED last
      BY <2>1, <2>3, InputsDecoded DEF WholeInputs
    <2> QED
      BY <2>4
  <1>2. Spec => [][Measured]_vars
    BY <1>1, InductiveInvariant, PTL DEF Spec
  <1> QED
    BY <1>2 DEF FeedbackIsMeasured
=============================================================================
