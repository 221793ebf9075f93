---------------------------- MODULE CyclicRunner ----------------------------
(***************************************************************************)
(* CyclicRunner: a thread that repeats a task until it is stopped.  One    *)
(* owner starts and stops it; the task does not.                           *)
(*                                                                         *)
(*   cycling    running_                                                   *)
(*   loop       the thread_ member and where its RunLoop is: "none" is a   *)
(*              thread object that is not joinable, "ended" one whose loop *)
(*              has returned and that nobody has joined                    *)
(*   stopping   the owner is inside Stop, waiting in join                  *)
(*   terminated a joinable std::thread was assigned over: std::terminate   *)
(***************************************************************************)
VARIABLES cycling, loop, stopping, terminated

runnerVars == <<cycling, loop, stopping, terminated>>

RunnerTypeOK ==
  /\ cycling \in BOOLEAN /\ stopping \in BOOLEAN /\ terminated \in BOOLEAN
  /\ loop \in {"none", "head", "task", "calling", "sleep", "ended"}

RunnerInit == cycling = FALSE /\ loop = "none" /\ stopping = FALSE /\ terminated = FALSE

Stopped == ~cycling /\ ~stopping

(* Start; a second one while the runner is on changes nothing.             *)
Start ==
  /\ Stopped
  /\ cycling' = TRUE /\ loop' = "head"
  /\ terminated' = (loop # "none")
  /\ UNCHANGED stopping

Stop ==
  /\ cycling /\ ~stopping
  /\ cycling' = FALSE /\ stopping' = TRUE
  /\ UNCHANGED <<loop, terminated>>

(* Mutant: Stop clears running_ and does not join.                         *)
StopDetached ==
  /\ stopping /\ stopping' = FALSE
  /\ UNCHANGED <<cycling, loop, terminated>>

StopJoins ==
  /\ stopping /\ loop = "ended"
  /\ loop' = "none" /\ stopping' = FALSE
  /\ UNCHANGED <<cycling, terminated>>

(* Mutant: the loop looks at running_ only when it is started.             *)
LoopHeadUntested ==
  /\ loop \in {"head", "sleep"}
  /\ loop' = "task"
  /\ UNCHANGED <<cycling, stopping, terminated>>

(* while (running_), reached at the start and after sleep_until.           *)
LoopTests ==
  /\ loop \in {"head", "sleep"}
  /\ loop' = IF cycling THEN "task" ELSE "ended"
  /\ UNCHANGED <<cycling, stopping, terminated>>

(* The task goes into a call that takes several steps.                     *)
TaskCalls ==
  /\ loop = "task" /\ loop' = "calling"
  /\ UNCHANGED <<cycling, stopping, terminated>>

TaskReturns ==
  /\ loop \in {"task", "calling"} /\ loop' = "sleep"
  /\ UNCHANGED <<cycling, stopping, terminated>>
=============================================================================
