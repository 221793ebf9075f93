-------------------------------- MODULE Logger --------------------------------
(***************************************************************************)
(* The asynchronous logger, one per process: client threads that log, the  *)
(* worker that writes, the callback sink that leads into a MoEcatMaster,   *)
(* and the destructor of the static instance at the end of the process.    *)
(*                                                                         *)
(* Every client thread owns one MoEcatMaster, named like the thread.       *)
(* queue_mutex_ protects short sections only, so each of them is one step. *)
(* sink_mutex_ is held by the worker for as long as a write, a flush or a  *)
(* callback lasts, and by the others for one step; so the worker's place   *)
(* tells whether it is taken.  Levels are left out: a record passes every  *)
(* sink that is on.                                                        *)
(***************************************************************************)
EXTENDS Naturals, Sequences, FiniteSets

CONSTANTS
  Threads,   \* client threads, and their masters
  NoMaster,  \* no callback sink
  MaxRecords \* bound on the records a thread logs

ASSUME LoggerAssumption ==
  IsFiniteSet(Threads) /\ NoMaster \notin Threads /\ MaxRecords \in Nat

VARIABLES
  pc,       \* [Threads -> ThreadStep]: what each client thread does next
  said,     \* [Threads -> Nat]: the calls of Log so far
  queue,    \* queue_
  shutdown, \* shutdown_
  worker,   \* what the worker does next
  batch,    \* the records the worker has taken and not yet written
  others,   \* has_console_ or has_file_
  callback, \* the master the callback sink leads to, or NoMaster
  alive,    \* the masters that exist
  exit,     \* how far ~Logger is
  accepted, \* history: the records put into the queue, in order
  handled   \* history: the records WriteToSinks is done with, in order

clientVars == <<pc, said, others, callback, alive, accepted>>
workerVars == <<worker, batch, handled>>
vars == <<clientVars, workerVars, queue, shutdown, exit>>

ThreadStep == {"idle", "log", "push", "notify", "install", "remove", "disable"}
WorkerStep == {"fetch", "asleep", "write", "io", "callback", "selflock", "flush", "done"}

SinkMutexTaken == worker \in {"io", "callback", "selflock", "flush"}

Goto(t, step) == pc' = [pc EXCEPT ![t] = step]

(* notify_one and notify_all: the worker is the only thread that waits.    *)
WakeWorker == worker' = IF worker = "asleep" THEN "fetch" ELSE worker

Init == /\ pc = [t \in Threads |-> "idle"] /\ said = [t \in Threads |-> 0]
        /\ queue = <<>> /\ shutdown = FALSE
        /\ worker = "fetch" /\ batch = <<>>
        /\ others = TRUE /\ callback = NoMaster /\ alive = Threads
        /\ exit = "running" /\ accepted = <<>> /\ handled = <<>>

(***************************************************************************)
(* Log.                                                                    *)
(***************************************************************************)
CallLog(t) ==
  /\ pc[t] = "idle" /\ said[t] < MaxRecords
  /\ Goto(t, "log") /\ said' = [said EXCEPT ![t] = @ + 1]
  /\ UNCHANGED <<others, callback, alive, accepted, workerVars, queue, shutdown, exit>>

(* A record no sink would take is dropped at once.                         *)
Admit(t) ==
  /\ pc[t] = "log" /\ ~SinkMutexTaken
  /\ Goto(t, IF others \/ callback # NoMaster THEN "push" ELSE "idle")
  /\ UNCHANGED <<said, others, callback, alive, accepted, workerVars, queue, shutdown, exit>>

Push(t) ==
  /\ pc[t] = "push"
  /\ IF shutdown
       THEN Goto(t, "idle") /\ UNCHANGED <<queue, accepted>>
       ELSE /\ Goto(t, "notify")
            /\ queue' = Append(queue, <<t, said[t]>>)
            /\ accepted' = Append(accepted, <<t, said[t]>>)
  /\ UNCHANGED <<said, others, callback, alive, workerVars, shutdown, exit>>

(* Mutant: the record is queued and nobody is told.                        *)
NotifyNobody(t) ==
  /\ pc[t] = "notify"
  /\ Goto(t, "idle")
  /\ UNCHANGED <<said, others, callback, alive, accepted, workerVars, queue, shutdown, exit>>

Notify(t) ==
  /\ pc[t] = "notify"
  /\ Goto(t, "idle") /\ WakeWorker
  /\ UNCHANGED <<said, others, callback, alive, accepted, batch, handled, queue, shutdown, exit>>

(***************************************************************************)
(* ConfigureLogSink: console and file first, then the callback; and the    *)
(* destructor of the master.                                               *)
(***************************************************************************)
ConfigureLogSink(t) ==
  /\ pc[t] = "idle" /\ t \in alive /\ ~SinkMutexTaken
  /\ others' \in BOOLEAN
  /\ \E next \in {"install", "remove"} : Goto(t, next)
  /\ UNCHANGED <<said, callback, alive, accepted, workerVars, queue, shutdown, exit>>

SetCallbackSink(t) ==
  /\ pc[t] \in {"install", "remove"} /\ ~SinkMutexTaken
  /\ callback' = IF pc[t] = "install" THEN t ELSE NoMaster
  /\ Goto(t, "idle")
  /\ UNCHANGED <<said, others, alive, accepted, workerVars, queue, shutdown, exit>>

DestroyMaster(t) ==
  /\ pc[t] = "idle" /\ t \in alive
  /\ Goto(t, "disable")
  /\ UNCHANGED <<said, others, callback, alive, accepted, workerVars, queue, shutdown, exit>>

(* Mutant: the sink is cleared without waiting for a running callback.     *)
DisableWithoutWaiting(t) ==
  /\ pc[t] = "disable"
  /\ callback' = NoMaster /\ alive' = alive \ {t}
  /\ Goto(t, "idle")
  /\ UNCHANGED <<said, others, accepted, workerVars, queue, shutdown, exit>>

DisableLogCallback(t) ==
  /\ pc[t] = "disable" /\ ~SinkMutexTaken
  /\ callback' = NoMaster /\ alive' = alive \ {t}
  /\ Goto(t, "idle")
  /\ UNCHANGED <<said, others, accepted, workerVars, queue, shutdown, exit>>

(***************************************************************************)
(* WorkerLoop.                                                             *)
(***************************************************************************)
(* Mutant: the batch is copied and the queue is not emptied.               *)
WorkerCopies ==
  /\ worker = "fetch" /\ queue # <<>>
  /\ batch' = queue /\ worker' = "write"
  /\ UNCHANGED <<clientVars, handled, queue, shutdown, exit>>

WorkerTakes ==
  /\ worker = "fetch" /\ queue # <<>>
  /\ batch' = queue /\ queue' = <<>> /\ worker' = "write"
  /\ UNCHANGED <<clientVars, handled, shutdown, exit>>

WorkerSleeps ==
  /\ worker = "fetch" /\ queue = <<>> /\ ~shutdown
  /\ worker' = "asleep"
  /\ UNCHANGED <<clientVars, batch, handled, queue, shutdown, exit>>

(* A condition variable may wake up for no reason.                         *)
WakesByItself ==
  /\ worker = "asleep" /\ WakeWorker
  /\ UNCHANGED <<clientVars, batch, handled, queue, shutdown, exit>>

(* Mutant: a shutdown ends the loop, whatever is queued.                   *)
WorkerDropsQueue ==
  /\ worker = "fetch" /\ shutdown
  /\ worker' = "done"
  /\ UNCHANGED <<clientVars, batch, handled, queue, shutdown, exit>>

WorkerEnds ==
  /\ worker = "fetch" /\ queue = <<>> /\ shutdown
  /\ worker' = "done"
  /\ UNCHANGED <<clientVars, batch, handled, queue, shutdown, exit>>

(* WriteToSinks takes the mutex, writes, calls the callback if it is set,  *)
(* and gives the mutex back.                                               *)
LockSinks ==
  /\ worker = "write" /\ batch # <<>>
  /\ worker' = "io"
  /\ UNCHANGED <<clientVars, batch, handled, queue, shutdown, exit>>

RecordDone ==
  /\ handled' = Append(handled, Head(batch)) /\ batch' = Tail(batch)
  /\ worker' = "write"

WriteToSinks ==
  /\ worker = "io"
  /\ IF callback # NoMaster THEN worker' = "callback" /\ UNCHANGED <<batch, handled>>
                            ELSE RecordDone
  /\ UNCHANGED <<clientVars, queue, shutdown, exit>>

CallbackReturns ==
  /\ worker = "callback"
  /\ RecordDone
  /\ UNCHANGED <<clientVars, queue, shutdown, exit>>

(* The callback logs: the worker waits for the mutex it holds itself.      *)
CallbackCallsLog ==
  /\ worker = "callback"
  /\ worker' = "selflock"
  /\ UNCHANGED <<clientVars, batch, handled, queue, shutdown, exit>>

Flush ==
  /\ \/ worker = "write" /\ batch = <<>> /\ worker' = "flush"
     \/ worker = "flush" /\ worker' = "fetch"
  /\ UNCHANGED <<clientVars, batch, handled, queue, shutdown, exit>>

(***************************************************************************)
(* ~Logger, run by the main thread at the end of the process.              *)
(***************************************************************************)
BeginExit ==
  /\ exit = "running"
  /\ shutdown' = TRUE /\ exit' = "notify"
  /\ UNCHANGED <<clientVars, workerVars, queue>>

(* Mutant: the destructor joins a worker it has not woken.                 *)
JoinWithoutNotify ==
  /\ exit = "notify"
  /\ exit' = "join"
  /\ UNCHANGED <<clientVars, workerVars, queue, shutdown>>

NotifyAll ==
  /\ exit = "notify"
  /\ WakeWorker /\ exit' = "join"
  /\ UNCHANGED <<clientVars, batch, handled, queue, shutdown>>

Join ==
  /\ exit = "join" /\ worker = "done"
  /\ exit' = "closed"
  /\ UNCHANGED <<clientVars, workerVars, queue, shutdown>>

Client(t) ==
  \/ CallLog(t) \/ Admit(t) \/ Push(t) \/ Notify(t)
  \/ ConfigureLogSink(t) \/ SetCallbackSink(t)
  \/ DestroyMaster(t) \/ DisableLogCallback(t)

Worker ==
  \/ WorkerTakes \/ WorkerSleeps \/ WorkerEnds
  \/ LockSinks \/ WriteToSinks \/ CallbackReturns \/ Flush

Destructor == NotifyAll \/ Join

(* When the destructor is through, the process is over.                    *)
Next ==
  /\ exit # "closed"
  /\ \/ \E t \in Threads : Client(t)
     \/ Worker \/ WakesByItself \/ CallbackCallsLog
     \/ BeginExit \/ Destructor

Spec == Init /\ [][Next]_vars

(* The worker and the destructor are scheduled, a callback returns, and a  *)
(* thread that has queued a record goes on to notify.  Nothing makes a     *)
(* client log, or the process end.                                         *)
FairSpec == /\ Spec
            /\ WF_vars(Next /\ Worker) /\ WF_vars(Next /\ Destructor)
            /\ \A t \in Threads : WF_vars(Next /\ Notify(t))

(***************************************************************************)
(* Properties.                                                             *)
(***************************************************************************)
TypeOK ==
  /\ pc \in [Threads -> ThreadStep] /\ said \in [Threads -> 0..MaxRecords]
  /\ worker \in WorkerStep /\ exit \in {"running", "notify", "join", "closed"}
  /\ shutdown \in BOOLEAN /\ others \in BOOLEAN
  /\ callback \in Threads \cup {NoMaster} /\ alive \subseteq Threads
  /\ \A s \in {queue, batch, accepted, handled} : s \in Seq(Threads \X (1..MaxRecords))

(* Between the queue, the worker's batch and the sinks no record is lost,  *)
(* written twice or overtaken, whatever the threads and the destructor do. *)
RecordsInOrder == accepted = handled \o batch \o queue

(* The worker never calls into a master that is gone: destroying a master  *)
(* waits for a running callback and leaves no sink that leads to it, with  *)
(* several masters sharing the logger.                                     *)
NoCallbackIntoDeadMaster ==
  /\ callback \in alive \cup {NoMaster}
  /\ worker = "callback" => callback \in alive

(* Every record accepted before the shutdown is written before ~Logger     *)
(* gives up the sinks, a batch in the worker's hands included.             *)
DrainedAtExit == worker = "done" => handled = accepted

(* An accepted record is written in the end, no wake-up is lost, unless    *)
(* the application logs from its callback.                                 *)
RecordsHandled ==
  \A n \in 1..(MaxRecords * Cardinality(Threads)) : Len(accepted) >= n ~> Len(handled) >= n \/ worker = "selflock"

(* ~Logger returns, unless the application logs from its callback.         *)
ExitEnds == exit # "running" ~> exit = "closed" \/ worker = "selflock"
=============================================================================
