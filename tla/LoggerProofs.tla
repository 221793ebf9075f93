----------------------------- MODULE LoggerProofs -----------------------------
(***************************************************************************)
(* The safety properties of the logger, for any number of client threads   *)
(* and masters and any bound on the records.                               *)
(*                                                                         *)
(* Two facts carry them.  The records are in one line, handled, batch,     *)
(* queue, that every step only cuts elsewhere or makes longer at its end;  *)
(* and as long as the worker holds sink_mutex_ nobody changes the sinks or *)
(* destroys the master they lead to.                                       *)
(***************************************************************************)
EXTENDS Logger, SequenceTheorems, TLAPS

Record == Threads \X (1..MaxRecords)

(* Where the worker is tells what it holds: a record while it writes one,  *)
(* an empty batch when it is back at the queue; it ends with the queue     *)
(* empty after the shutdown, which then stays empty.                       *)
WorkerPlace ==
  /\ worker \in {"io", "callback", "selflock"} => batch # <<>>
  /\ worker \in {"fetch", "asleep", "flush", "done"} => batch = <<>>
  /\ worker = "done" => shutdown /\ queue = <<>>

(* A thread inside ConfigureLogSink has not destroyed its master, and one  *)
(* that is logging has counted its record.                                 *)
ClientPlace ==
  \A t \in Threads : /\ pc[t] \in {"install", "remove"} => t \in alive
                     /\ pc[t] \in {"log", "push", "notify"} => said[t] \in 1..MaxRecords

IInv == TypeOK /\ RecordsInOrder /\ WorkerPlace /\ ClientPlace /\ NoCallbackIntoDeadMaster

(* The sequences of records are sequences of records.                      *)
LEMMA Sequences ==
  ASSUME TypeOK
  PROVE  /\ queue \in Seq(Record) /\ batch \in Seq(Record)
         /\ accepted \in Seq(Record) /\ handled \in Seq(Record)
BY DEF TypeOK, Record

(* A record queued behind the line makes the line longer at its end.       *)
LEMMA QueuedBehind ==
  ASSUME NEW h \in Seq(Record), NEW b \in Seq(Record), NEW q \in Seq(Record), NEW r \in Record
  PROVE  h \o b \o Append(q, r) = Append(h \o b \o q, r)
<1>1. h \o b \in Seq(Record)
  BY ConcatProperties
<1>2. Append(q, r) = q \o <<r>> /\ <<r>> \in Seq(Record)
  BY AppendIsConcat
<1>3. (h \o b) \o (q \o <<r>>) = ((h \o b) \o q) \o <<r>>
  BY <1>1, <1>2, ConcatAssociative
<1>4. (h \o b) \o q \in Seq(Record)
  BY <1>1, ConcatProperties
<1>5. Append((h \o b) \o q, r) = ((h \o b) \o q) \o <<r>>
  BY <1>4, AppendIsConcat
<1> QED
  BY <1>2, <1>3, <1>5

(* Handing the first record of the batch over cuts the line one further.   *)
LEMMA HandedOver ==
  ASSUME NEW h \in Seq(Record), NEW b \in Seq(Record), b # <<>>
  PROVE  /\ Append(h, Head(b)) \o Tail(b) = h \o b
         /\ Append(h, Head(b)) \in Seq(Record) /\ Tail(b) \in Seq(Record)
<1>1. Head(b) \in Record /\ Tail(b) \in Seq(Record)
  BY HeadTailProperties
<1>2. b = <<Head(b)>> \o Tail(b)
  OBVIOUS
<1>3. <<Head(b)>> \in Seq(Record) /\ Append(h, Head(b)) = h \o <<Head(b)>>
  BY <1>1, AppendIsConcat
<1>4. (h \o <<Head(b)>>) \o Tail(b) = h \o (<<Head(b)>> \o Tail(b))
  BY <1>1, <1>3, ConcatAssociative
<1> QED
  BY <1>1, <1>2, <1>3, <1>4, AppendProperties

LEMMA InitIInv == Init => IInv
<1> SUFFICES ASSUME Init PROVE IInv
  OBVIOUS
<1> USE LoggerAssumption DEF Init
<1>1. <<>> \in Seq(Record) /\ <<>> \o <<>> \o <<>> = <<>>
  BY EmptySeq, ConcatEmptySeq
<1>2. TypeOK
  <2>1. \A s \in {queue, batch, accepted, handled} : s \in Seq(Threads \X (1..MaxRecords))
    BY <1>1 DEF Record
  <2>2. pc \in [Threads -> ThreadStep] /\ said \in [Threads -> 0..MaxRecords]
    BY DEF ThreadStep
  <2> QED
    BY <2>1, <2>2 DEF TypeOK, WorkerStep
<1>3. RecordsInOrder
  BY <1>1 DEF RecordsInOrder
<1> QED
  BY <1>2, <1>3 DEF IInv, WorkerPlace, ClientPlace, NoCallbackIntoDeadMaster

(***************************************************************************)
(* The clients: only Push touches the line, and the sinks change only when *)
(* the worker is not inside them.                                          *)
(***************************************************************************)
LEMMA ClientStep ==
  ASSUME IInv, NEW t \in Threads, Client(t)
  PROVE  IInv'
<1> USE LoggerAssumption DEF IInv, workerVars
<1>1. CASE Push(t)
  <2>1. CASE shutdown
    BY <1>1, <2>1 DEF Push, Goto, TypeOK, ThreadStep, RecordsInOrder, WorkerPlace, ClientPlace,
       NoCallbackIntoDeadMaster
  <2>2. CASE ~shutdown
    <3> DEFINE r == <<t, said[t]>>
    <3>1. r \in Record
      BY <1>1 DEF Push, ClientPlace, Record
    <3>2. queue' = Append(queue, r) /\ accepted' = Append(accepted, r) /\ UNCHANGED <<batch, handled>>
      BY <1>1, <2>2 DEF Push
    <3>3. RecordsInOrder'
      <4>1. handled \o batch \o Append(queue, r) = Append(handled \o batch \o queue, r)
        <5>1. handled \in Seq(Record) /\ batch \in Seq(Record) /\ queue \in Seq(Record)
          BY Sequences
        <5> HIDE DEF r, IInv
        <5> QED
          BY <3>1, <5>1, QueuedBehind
      <4>2. handled \o batch \o Append(queue, r) = Append(accepted, r)
        BY <4>1 DEF RecordsInOrder
      <4> QED
        BY <3>2, <4>2 DEF RecordsInOrder
    <3>4. queue' \in Seq(Record) /\ accepted' \in Seq(Record)
      BY <3>1, <3>2, Sequences, AppendProperties
    <3>5. TypeOK'
      BY <1>1, <2>2, <3>2, <3>4, Sequences DEF Push, Goto, TypeOK, ThreadStep, Record
    <3>6. WorkerPlace' /\ ClientPlace' /\ NoCallbackIntoDeadMaster'
      BY <1>1, <2>2, <3>2 DEF Push, Goto, TypeOK, WorkerPlace, ClientPlace, NoCallbackIntoDeadMaster
    <3> QED
      BY <3>3, <3>5, <3>6
  <2> QED
    BY <2>1, <2>2
<1>2. ASSUME UNCHANGED <<queue, accepted, batch, handled, shutdown, exit>>,
             worker' = worker \/ (worker = "asleep" /\ worker' = "fetch"),
             pc' \in [Threads -> ThreadStep], said' \in [Threads -> 0..MaxRecords], others' \in BOOLEAN,
             alive' \subseteq Threads, callback' \in Threads \cup {NoMaster},
             ClientPlace', NoCallbackIntoDeadMaster'
      PROVE  IInv'
  <2>1. TypeOK'
    BY <1>2 DEF TypeOK, WorkerStep
  <2> QED
    BY <1>2, <2>1 DEF RecordsInOrder, WorkerPlace
<1> HIDE DEF IInv
<1>a. /\ pc \in [Threads -> ThreadStep] /\ said \in [Threads -> 0..MaxRecords] /\ others \in BOOLEAN
      /\ alive \subseteq Threads /\ callback \in Threads \cup {NoMaster}
      /\ ClientPlace /\ NoCallbackIntoDeadMaster /\ MaxRecords \in Nat
  BY DEF IInv, TypeOK
<1>3. CASE CallLog(t)
  <2>1. said' \in [Threads -> 0..MaxRecords] /\ said'[t] \in 1..MaxRecords
    BY <1>a, <1>3 DEF CallLog
  <2> QED
    BY <1>a, <1>2, <1>3, <2>1 DEF CallLog, Goto, ThreadStep, ClientPlace, NoCallbackIntoDeadMaster
<1>4. CASE Admit(t) \/ Notify(t)
  BY <1>a, <1>2, <1>4 DEF Admit, Notify, WakeWorker, Goto, ThreadStep, ClientPlace, NoCallbackIntoDeadMaster
<1>5. CASE ConfigureLogSink(t) \/ DestroyMaster(t)
  BY <1>a, <1>2, <1>5 DEF ConfigureLogSink, DestroyMaster, Goto, ThreadStep, ClientPlace,
     NoCallbackIntoDeadMaster
<1>6. CASE SetCallbackSink(t) \/ DisableLogCallback(t)
  <2>1. worker # "callback"
    BY <1>6 DEF SetCallbackSink, DisableLogCallback, SinkMutexTaken
  <2> QED
    BY <1>a, <1>2, <1>6, <2>1 DEF SetCallbackSink, DisableLogCallback, Goto, ThreadStep, ClientPlace,
       NoCallbackIntoDeadMaster
<1> QED
  BY <1>1, <1>3, <1>4, <1>5, <1>6 DEF Client

(***************************************************************************)
(* The worker, and ~Logger that ends it.                                   *)
(***************************************************************************)
LEMMA WorkerTypes ==
  ASSUME TypeOK, UNCHANGED clientVars, worker' \in WorkerStep,
         batch' \in Seq(Record), handled' \in Seq(Record), queue' \in Seq(Record),
         shutdown' \in BOOLEAN, exit' \in {"running", "notify", "join", "closed"}
  PROVE  TypeOK'
BY Sequences DEF TypeOK, clientVars, Record

LEMMA WorkerOrDestructorStep ==
  ASSUME IInv, Worker \/ WakesByItself \/ CallbackCallsLog \/ BeginExit \/ Destructor
  PROVE  IInv'
<1> USE DEF IInv
<1>1. UNCHANGED clientVars
  BY DEF Worker, WakesByItself, CallbackCallsLog, BeginExit, Destructor, WorkerTakes, WorkerSleeps,
     WorkerEnds, LockSinks, WriteToSinks, CallbackReturns, Flush, NotifyAll, Join
<1>2. ClientPlace'
  BY <1>1 DEF clientVars, ClientPlace
<1>3. CASE WorkerTakes
  <2>1. batch' = queue /\ queue' = <<>> /\ batch = <<>> /\ UNCHANGED <<handled, accepted>>
    BY <1>1, <1>3 DEF WorkerTakes, WorkerPlace, clientVars
  <2>2. handled' \o batch' \o queue' = handled \o batch \o queue
    <3>1. handled \o batch = handled /\ queue \in Seq(Record)
      BY <2>1, Sequences, ConcatEmptySeq
    <3>2. handled \o queue \in Seq(Record)
      BY Sequences, ConcatProperties
    <3>3. (handled \o queue) \o <<>> = handled \o queue
      BY <3>2, ConcatEmptySeq
    <3> QED
      BY <2>1, <3>1, <3>3
  <2>3. TypeOK'
    <3>1. <<>> \in Seq(Record) /\ UNCHANGED <<shutdown, exit>> /\ worker' = "write"
      BY <1>3, EmptySeq DEF WorkerTakes
    <3> QED
      BY <1>1, <2>1, <3>1, Sequences, WorkerTypes DEF WorkerStep, TypeOK
  <2> QED
    BY <1>1, <1>2, <1>3, <2>1, <2>2, <2>3
       DEF WorkerTakes, RecordsInOrder, WorkerPlace, NoCallbackIntoDeadMaster, clientVars
<1>4. CASE RecordDone /\ worker \in {"io", "callback"} /\ UNCHANGED <<queue, shutdown, exit>>
  <2>1. batch # <<>>
    BY <1>4 DEF WorkerPlace
  <2>2. /\ handled' \o batch' = handled \o batch
        /\ handled' \in Seq(Record) /\ batch' \in Seq(Record)
    BY <1>4, <2>1, Sequences, HandedOver DEF RecordDone
  <2>3. TypeOK'
    BY <1>1, <1>4, <2>2, Sequences, WorkerTypes DEF RecordDone, WorkerStep, TypeOK
  <2> QED
    BY <1>1, <1>2, <1>4, <2>2, <2>3
       DEF RecordDone, RecordsInOrder, WorkerPlace, NoCallbackIntoDeadMaster, clientVars
<1>5. CASE WriteToSinks /\ callback # NoMaster
  BY <1>1, <1>2, <1>5, Sequences, WorkerTypes
     DEF WriteToSinks, WorkerStep, TypeOK, RecordsInOrder, WorkerPlace, NoCallbackIntoDeadMaster, clientVars
<1>6. CASE WorkerSleeps \/ WorkerEnds \/ LockSinks \/ Flush \/ WakesByItself \/ CallbackCallsLog
  <2>1. UNCHANGED <<batch, handled, queue, shutdown, exit>>
    BY <1>6 DEF WorkerSleeps, WorkerEnds, LockSinks, Flush, WakesByItself, CallbackCallsLog
  <2>2. worker' \in WorkerStep \ {"callback"}
    BY <1>6 DEF WorkerSleeps, WorkerEnds, LockSinks, Flush, WakesByItself, CallbackCallsLog, WakeWorker,
       WorkerStep
  <2>3. WorkerPlace'
    BY <1>6 DEF WorkerSleeps, WorkerEnds, LockSinks, Flush, WakesByItself, CallbackCallsLog, WakeWorker,
       WorkerPlace
  <2>4. TypeOK'
    BY <1>1, <2>1, <2>2, Sequences, WorkerTypes DEF TypeOK
  <2> QED
    BY <1>1, <1>2, <2>1, <2>2, <2>3, <2>4 DEF RecordsInOrder, NoCallbackIntoDeadMaster, clientVars
<1>7. CASE BeginExit \/ Destructor
  <2>1. /\ UNCHANGED <<batch, handled, queue>>
        /\ worker' = worker \/ (worker = "asleep" /\ worker' = "fetch")
        /\ (shutdown => shutdown') /\ shutdown' \in BOOLEAN /\ exit' \in {"notify", "join", "closed"}
    BY <1>7 DEF BeginExit, Destructor, NotifyAll, Join, WakeWorker, workerVars, TypeOK
  <2>2. TypeOK'
    BY <1>1, <2>1, Sequences, WorkerTypes DEF TypeOK, WorkerStep
  <2>3. WorkerPlace'
    BY <2>1 DEF WorkerPlace
  <2> QED
    BY <1>1, <1>2, <2>1, <2>2, <2>3 DEF RecordsInOrder, NoCallbackIntoDeadMaster, clientVars
<1> QED
  BY <1>3, <1>4, <1>5, <1>6, <1>7 DEF Worker, WriteToSinks, CallbackReturns

LEMMA StepIInv == IInv /\ [Next]_vars => IInv'
<1> SUFFICES ASSUME IInv, [Next]_vars PROVE IInv'
  OBVIOUS
<1>1. CASE UNCHANGED vars
  BY <1>1 DEF vars, clientVars, workerVars, IInv, TypeOK, RecordsInOrder, WorkerPlace, ClientPlace,
     NoCallbackIntoDeadMaster
<1> QED
  BY <1>1, ClientStep, WorkerOrDestructorStep DEF Next

(* The invariant that the three properties below are or follow from.       *)
THEOREM Inductive == Spec => []IInv
BY InitIInv, StepIInv, PTL DEF Spec

(* No record is lost, written twice or overtaken.                          *)
THEOREM NoRecordLost == Spec => []RecordsInOrder
BY Inductive, PTL DEF IInv

(* The worker calls only into masters that exist.                          *)
THEOREM CallbacksReachTheLiving == Spec => []NoCallbackIntoDeadMaster
BY Inductive, PTL DEF IInv

(* When the worker has ended, every accepted record has been written.      *)
THEOREM QueueIsDrained == Spec => []DrainedAtExit
<1>1. ASSUME IInv PROVE DrainedAtExit
  <2>1. handled \in Seq(Record)
    BY <1>1, Sequences DEF IInv
  <2>2. handled \o <<>> = handled
    BY <2>1, ConcatEmptySeq
  <2> QED
    BY <1>1, <2>2 DEF IInv, RecordsInOrder, WorkerPlace, DrainedAtExit
<1> QED
  BY <1>1, Inductive, PTL
=============================================================================
