-------------------------- MODULE SimpleThreadPool --------------------------
(***************************************************************************)
(* simple_thread_pool (src/include/common/simple_thread_pool.h): workers   *)
(* that wait on one condition variable for a shared queue of tasks.  The   *)
(* owner enqueues tasks and in the end destroys the pool; a task may       *)
(* enqueue others while it runs, also when the destructor has begun.       *)
(*                                                                         *)
(* What a thread does while it holds queue_mutex is one step.  notify_one  *)
(* and notify_all come after the mutex is released and are steps of their  *)
(* own.  A task is the number of the enqueue() call it was given to.       *)
(***************************************************************************)
EXTENDS Naturals, Sequences

CONSTANTS
  Workers,
  Owner,      \* the thread that enqueues and destroys
  MaxTasks    \* bound on the calls of enqueue()

ASSUME SimpleThreadPoolAssumption ==
  /\ Workers # {} /\ Owner \notin Workers
  /\ MaxTasks \in Nat

Threads == Workers \cup {Owner}

VARIABLES
  tasks,      \* the queue
  stop,
  waiting,    \* workers asleep in condition.wait()
  pc,         \* where each thread stands
  task,       \* the task each worker runs
  calls,      \* history: calls of enqueue() so far
  accepted,   \* history: tasks that were put in the queue
  started,    \* history: tasks in the order the workers took them
  finished    \* history: tasks that ran to their end

vars == <<tasks, stop, waiting, pc, task, calls, accepted, started, finished>>

----------------------------------------------------------------------------
(* enqueue(), called by the owner or from inside a task. *)

CanCall(t) == IF t = Owner THEN pc[t] = "free" ELSE pc[t] = "running"

(* Mutant: no notification follows. *)
EnqueueQuietly(t) ==
  /\ CanCall(t) /\ calls < MaxTasks /\ ~stop
  /\ calls' = calls + 1
  /\ tasks' = Append(tasks, calls')
  /\ accepted' = accepted \cup {calls'}
  /\ UNCHANGED <<stop, waiting, pc, task, started, finished>>

Enqueue(t) ==
  /\ CanCall(t) /\ calls < MaxTasks
  /\ calls' = calls + 1
  /\ ~stop
  /\ tasks' = Append(tasks, calls')
  /\ accepted' = accepted \cup {calls'}
  /\ pc' = [pc EXCEPT ![t] = "notify"]
  /\ UNCHANGED <<stop, waiting, task, started, finished>>

(* The exception ends up in the future of the task that made the call. *)
EnqueueThrows(t) ==
  /\ CanCall(t) /\ calls < MaxTasks
  /\ calls' = calls + 1
  /\ stop
  /\ UNCHANGED <<tasks, stop, waiting, pc, task, accepted, started, finished>>

Resume(t) == IF t = Owner THEN "free" ELSE "running"

(* Mutant: the worker that is woken up stays listed as waiting. *)
NotifyStillListed(t) ==
  /\ pc[t] = "notify"
  /\ \/ waiting = {} /\ pc' = [pc EXCEPT ![t] = Resume(t)]
     \/ \E w \in waiting : pc' = [pc EXCEPT ![t] = Resume(t), ![w] = "wanted"]
  /\ UNCHANGED <<waiting, tasks, stop, task, calls, accepted, started, finished>>

NotifyOne(t) ==
  /\ pc[t] = "notify"
  /\ \/ waiting = {} /\ pc' = [pc EXCEPT ![t] = Resume(t)] /\ UNCHANGED waiting
     \/ \E w \in waiting :
          /\ waiting' = waiting \ {w}
          /\ pc' = [pc EXCEPT ![t] = Resume(t), ![w] = "wanted"]
  /\ UNCHANGED <<tasks, stop, task, calls, accepted, started, finished>>

----------------------------------------------------------------------------
(* The loop of a worker. *)

(* condition.wait() evaluates its predicate with the mutex held. *)
MayGoOn == stop \/ tasks # <<>>

(* Mutant: a worker returns as soon as the pool is stopped. *)
StopAtOnce == stop

NothingLeft == stop /\ tasks = <<>>

Sleep(w) ==
  /\ pc[w] = "wanted" /\ ~MayGoOn
  /\ waiting' = waiting \cup {w}
  /\ pc' = [pc EXCEPT ![w] = "asleep"]
  /\ UNCHANGED <<tasks, stop, task, calls, accepted, started, finished>>

WakesUpByItself(w) ==
  /\ w \in waiting
  /\ waiting' = waiting \ {w}
  /\ pc' = [pc EXCEPT ![w] = "wanted"]
  /\ UNCHANGED <<tasks, stop, task, calls, accepted, started, finished>>

Return(w) ==
  /\ pc[w] = "wanted" /\ MayGoOn /\ NothingLeft
  /\ pc' = [pc EXCEPT ![w] = "returned"]
  /\ UNCHANGED <<tasks, stop, waiting, task, calls, accepted, started, finished>>

(* Mutant: the newest task goes first. *)
NewestTask == tasks[Len(tasks)]

NextTask == Head(tasks)

TakeTask(w) ==
  /\ pc[w] = "wanted" /\ MayGoOn /\ ~NothingLeft
  /\ task' = [task EXCEPT ![w] = NextTask]
  /\ tasks' = Tail(tasks)
  /\ started' = Append(started, task'[w])
  /\ pc' = [pc EXCEPT ![w] = "running"]
  /\ UNCHANGED <<stop, waiting, calls, accepted, finished>>

FinishTask(w) ==
  /\ pc[w] = "running"
  /\ finished' = finished \cup {task[w]}
  /\ pc' = [pc EXCEPT ![w] = "wanted"]
  /\ UNCHANGED <<tasks, stop, waiting, task, calls, accepted, started>>

----------------------------------------------------------------------------
(* The destructor. *)

SetStop ==
  /\ pc[Owner] = "free"
  /\ stop' = TRUE
  /\ pc' = [pc EXCEPT ![Owner] = "stopping"]
  /\ UNCHANGED <<tasks, waiting, task, calls, accepted, started, finished>>

(* Mutant: the destructor does not notify. *)
Nobody == {}

WokenAtStop == waiting

NotifyAll ==
  /\ pc[Owner] = "stopping"
  /\ waiting' = waiting \ WokenAtStop
  /\ pc' = [t \in Threads |-> IF t = Owner THEN "joining"
                              ELSE IF t \in WokenAtStop THEN "wanted" ELSE pc[t]]
  /\ UNCHANGED <<tasks, stop, task, calls, accepted, started, finished>>

(* Mutant: the threads are not joined. *)
NotJoined == TRUE

AllReturned == \A w \in Workers : pc[w] = "returned"

Join ==
  /\ pc[Owner] = "joining" /\ AllReturned
  /\ pc' = [pc EXCEPT ![Owner] = "gone"]
  /\ UNCHANGED <<tasks, stop, waiting, task, calls, accepted, started, finished>>

----------------------------------------------------------------------------

Init ==
  /\ tasks = <<>> /\ stop = FALSE /\ waiting = {}
  /\ pc = [t \in Threads |-> IF t = Owner THEN "free" ELSE "wanted"]
  /\ task = [w \in Workers |-> 0]
  /\ calls = 0 /\ accepted = {} /\ started = <<>> /\ finished = {}

Worker(w) == Sleep(w) \/ Return(w) \/ TakeTask(w) \/ FinishTask(w)
Destructor == NotifyAll \/ Join

Next ==
  \/ \E t \in Threads : Enqueue(t) \/ EnqueueThrows(t) \/ NotifyOne(t)
  \/ \E w \in Workers : Worker(w) \/ WakesUpByItself(w)
  \/ SetStop \/ Destructor

(* Threads that can run do run, and tasks end; nobody is bound to wake up   *)
(* without a notification, to enqueue, or to destroy the pool.              *)
Fairness ==
  /\ \A w \in Workers : WF_vars(Worker(w))
  /\ \A t \in Threads : WF_vars(NotifyOne(t))
  /\ WF_vars(Destructor)

Spec == Init /\ [][Next]_vars /\ Fairness

----------------------------------------------------------------------------
(* Properties. *)

TypeOK ==
  /\ tasks \in Seq(1..MaxTasks) /\ stop \in BOOLEAN
  /\ waiting = {w \in Workers : pc[w] = "asleep"}
  /\ pc \in [Threads -> {"free", "notify", "stopping", "joining", "gone",
                         "wanted", "asleep", "running", "returned"}]
  /\ task \in [Workers -> 0..MaxTasks]
  /\ calls \in 0..MaxTasks
  /\ accepted \subseteq 1..calls
  /\ started \in Seq(1..MaxTasks)
  /\ finished \subseteq accepted

(* No task is lost or duplicated between the queue and the workers, and     *)
(* they are taken in the order in which enqueue() accepted them.            *)
TasksRunOnceInOrder ==
  LET given == started \o tasks
  IN  /\ {given[i] : i \in 1..Len(given)} = accepted
      /\ \A i \in 2..Len(given) : given[i] > given[i - 1]

(* When the destructor returns, every task enqueue() accepted has run to    *)
(* its end, those included that tasks enqueued while it waited.             *)
DestructorDrains ==
  pc[Owner] = "gone" => finished = accepted

(* Nobody sleeps over a task: while one is queued and everybody sleeps, a   *)
(* notification is on its way.                                              *)
NoLostWakeup ==
  (tasks # <<>> /\ waiting = Workers) => \E t \in Threads : pc[t] \in {"notify", "stopping"}

(* Every accepted task runs to its end, and every destructor returns. *)
EveryTaskFinishes ==
  \A n \in 1..MaxTasks : (n \in accepted) ~> (n \in finished)

DestructorReturns == (pc[Owner] = "stopping") ~> (pc[Owner] = "gone")
=============================================================================
