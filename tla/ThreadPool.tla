----------------------------- MODULE ThreadPool -----------------------------
(***************************************************************************)
(* easychat::ThreadPool (include/threadpool/threadpool.h and               *)
(* src/threadpool/threadpool.cpp): a queue of tasks guarded by a mutex and *)
(* a condition variable, worker threads that block on it, a submit that    *)
(* notifies after it released the mutex, and a destructor that sets stop_, *)
(* wakes everybody and joins.                                              *)
(*                                                                         *)
(* One step is what a thread does between two points where another thread  *)
(* can interfere: to acquire queue_mutex_, to evaluate the predicate of    *)
(* the wait, to release the mutex and block (atomic by the contract of     *)
(* std::condition_variable), to notify.  Wakeups may be spurious.          *)
(***************************************************************************)
EXTENDS Integers, FiniteSets, Sequences

CONSTANTS Workers,    \* the pool's threads
          Callers,    \* the threads that call submit
          Owner,      \* the thread that runs the destructor
          Tasks,      \* the callables that may be submitted, each once
          NoTask,     \* no callable in hand
          NoThread    \* queue_mutex_ is free

ASSUME ThreadsAssumption == /\ Owner \in Callers
                            /\ Workers \cap Callers = {}
                            /\ NoThread \notin Workers \cup Callers
                            /\ Workers # {}

ASSUME FiniteAssumption == IsFiniteSet(Workers) /\ IsFiniteSet(Callers)

ASSUME TasksAssumption == NoTask \notin Tasks

VARIABLES
  tasks_,        \* the queue
  stop_,         \* the pool is being destroyed
  queue_mutex_,  \* the thread that holds the mutex, or NoThread
  pc,            \* where each thread is
  task,          \* the callable a thread is submitting or executing
  accepted,      \* history: tasks pushed on the queue
  rejected,      \* history: tasks whose submit threw
  finished       \* history: tasks that were executed

vars == <<tasks_, stop_, queue_mutex_, pc, task, accepted, rejected, finished>>

Threads == Workers \cup Callers

WorkerPC == {"lock", "check", "sleep", "waiting", "run", "exited"}
CallerPC == {"idle", "lock", "push", "notify"}
OwnerPC == CallerPC \cup {"stopLock", "stop", "broadcast", "join", "destroyed"}

Waiting == {w \in Workers : pc[w] = "waiting"}

Init == /\ tasks_ = << >>
        /\ stop_ = FALSE
        /\ queue_mutex_ = NoThread
        /\ pc = [t \in Threads |-> IF t \in Workers THEN "lock" ELSE "idle"]
        /\ task = [t \in Threads |-> NoTask]
        /\ accepted = {}
        /\ rejected = {}
        /\ finished = {}

-----------------------------------------------------------------------------
(* The mutex and the condition variable of the standard library.           *)

Acquire(t, from, to) == /\ pc[t] = from
                        /\ queue_mutex_ = NoThread
                        /\ queue_mutex_' = t
                        /\ pc' = [pc EXCEPT ![t] = to]

(* notify_one by t, which goes on at `to': one blocked thread, if there is *)
(* any, leaves the condition variable and competes for the mutex.          *)
NotifyOne(t, to) ==
  IF Waiting = {}
  THEN pc' = [pc EXCEPT ![t] = to]
  ELSE \E w \in Waiting : pc' = [pc EXCEPT ![t] = to, ![w] = "lock"]

NotifyAll(t, to) ==
  pc' = [u \in Threads |-> IF u = t THEN to
                           ELSE IF u \in Waiting THEN "lock"
                           ELSE pc[u]]

SpuriousWake(w) == /\ pc[w] = "waiting"
                   /\ pc' = [pc EXCEPT ![w] = "lock"]
                   /\ UNCHANGED <<tasks_, stop_, queue_mutex_, task,
                                  accepted, rejected, finished>>

-----------------------------------------------------------------------------
(* ThreadPool::submit                                                      *)

Submitted == {task[c] : c \in Callers} \cup accepted \cup rejected

(* The callable is packaged.  A thread may call submit while the           *)
(* destructor waits for the workers, but not on a pool that is gone.       *)
SubmitCall(c) == /\ pc[c] = "idle"
                 /\ pc[Owner] # "destroyed"
                 /\ \E t \in Tasks \ Submitted : task' = [task EXCEPT ![c] = t]
                 /\ pc' = [pc EXCEPT ![c] = "lock"]
                 /\ UNCHANGED <<tasks_, stop_, queue_mutex_,
                                accepted, rejected, finished>>

SubmitLock(c) == /\ c \in Callers
                 /\ Acquire(c, "lock", "push")
                 /\ UNCHANGED <<tasks_, stop_, task, accepted, rejected, finished>>

SubmitPush(c) == /\ pc[c] = "push"
                 /\ ~stop_
                 /\ tasks_' = Append(tasks_, task[c])
                 /\ accepted' = accepted \cup {task[c]}
                 /\ task' = [task EXCEPT ![c] = NoTask]
                 /\ queue_mutex_' = NoThread
                 /\ pc' = [pc EXCEPT ![c] = "notify"]
                 /\ UNCHANGED <<stop_, rejected, finished>>

SubmitThrow(c) == /\ pc[c] = "push"
                  /\ stop_
                  /\ rejected' = rejected \cup {task[c]}
                  /\ task' = [task EXCEPT ![c] = NoTask]
                  /\ queue_mutex_' = NoThread
                  /\ pc' = [pc EXCEPT ![c] = "idle"]
                  /\ UNCHANGED <<tasks_, stop_, accepted, finished>>

(* Mutant of SubmitNotify: the notification is saved unless the queue was  *)
(* empty before.                                                           *)
SubmitNotifyFirst(c) == /\ pc[c] = "notify"
                        /\ IF Len(tasks_) = 1 THEN NotifyOne(c, "idle")
                                               ELSE pc' = [pc EXCEPT ![c] = "idle"]
                        /\ UNCHANGED <<tasks_, stop_, queue_mutex_, task,
                                       accepted, rejected, finished>>

SubmitNotify(c) == /\ pc[c] = "notify"
                   /\ NotifyOne(c, "idle")
                   /\ UNCHANGED <<tasks_, stop_, queue_mutex_, task,
                                  accepted, rejected, finished>>

-----------------------------------------------------------------------------
(* ThreadPool::worker                                                      *)

(* Mutant of Ready: the predicate of the wait forgets stop_.               *)
ReadyForTask == tasks_ # << >>

Ready == stop_ \/ tasks_ # << >>

WorkerLock(w) == /\ w \in Workers
                 /\ Acquire(w, "lock", "check")
                 /\ UNCHANGED <<tasks_, stop_, task, accepted, rejected, finished>>

(* The predicate is false: the thread is going to block, still holding the *)
(* mutex.                                                                  *)
WorkerPark(w) == /\ pc[w] = "check"
                 /\ ~Ready
                 /\ pc' = [pc EXCEPT ![w] = "sleep"]
                 /\ UNCHANGED <<tasks_, stop_, queue_mutex_, task,
                                accepted, rejected, finished>>

WorkerSleep(w) == /\ pc[w] = "sleep"
                  /\ queue_mutex_' = NoThread
                  /\ pc' = [pc EXCEPT ![w] = "waiting"]
                  /\ UNCHANGED <<tasks_, stop_, task, accepted, rejected, finished>>

WorkerExit(w) == /\ pc[w] = "check"
                 /\ stop_ /\ tasks_ = << >>
                 /\ queue_mutex_' = NoThread
                 /\ pc' = [pc EXCEPT ![w] = "exited"]
                 /\ UNCHANGED <<tasks_, stop_, task, accepted, rejected, finished>>

(* Mutants of WorkerTake: the task stays in the queue; the newest task is  *)
(* taken.                                                                  *)
WorkerPeek(w) == /\ pc[w] = "check" /\ tasks_ # << >>
                 /\ task' = [task EXCEPT ![w] = Head(tasks_)]
                 /\ queue_mutex_' = NoThread
                 /\ pc' = [pc EXCEPT ![w] = "run"]
                 /\ UNCHANGED <<tasks_, stop_, accepted, rejected, finished>>

WorkerTakeNewest(w) == /\ pc[w] = "check" /\ tasks_ # << >>
                       /\ task' = [task EXCEPT ![w] = tasks_[Len(tasks_)]]
                       /\ tasks_' = SubSeq(tasks_, 1, Len(tasks_) - 1)
                       /\ queue_mutex_' = NoThread
                       /\ pc' = [pc EXCEPT ![w] = "run"]
                       /\ UNCHANGED <<stop_, accepted, rejected, finished>>

WorkerTake(w) == /\ pc[w] = "check"
                 /\ tasks_ # << >>
                 /\ task' = [task EXCEPT ![w] = Head(tasks_)]
                 /\ tasks_' = Tail(tasks_)
                 /\ queue_mutex_' = NoThread
                 /\ pc' = [pc EXCEPT ![w] = "run"]
                 /\ UNCHANGED <<stop_, accepted, rejected, finished>>

(* Mutant of WorkerRun: the callable is kept after it ran.                 *)
WorkerRunKeep(w) == /\ pc[w] = "run"
                    /\ finished' = finished \cup {task[w]}
                    /\ pc' = [pc EXCEPT ![w] = "lock"]
                    /\ UNCHANGED <<tasks_, stop_, queue_mutex_, task, accepted, rejected>>

(* The callable returns, or throws: a packaged_task stores the exception   *)
(* in a future nobody reads, so that the worker goes on either way.        *)
WorkerRun(w) == /\ pc[w] = "run"
                /\ finished' = finished \cup {task[w]}
                /\ task' = [task EXCEPT ![w] = NoTask]
                /\ pc' = [pc EXCEPT ![w] = "lock"]
                /\ UNCHANGED <<tasks_, stop_, queue_mutex_, accepted, rejected>>

-----------------------------------------------------------------------------
(* ThreadPool::~ThreadPool                                                 *)

StopCall == /\ pc[Owner] = "idle"
            /\ pc' = [pc EXCEPT ![Owner] = "stopLock"]
            /\ UNCHANGED <<tasks_, stop_, queue_mutex_, task,
                           accepted, rejected, finished>>

StopLock == /\ Acquire(Owner, "stopLock", "stop")
            /\ UNCHANGED <<tasks_, stop_, task, accepted, rejected, finished>>

StopSet == /\ pc[Owner] = "stop"
           /\ stop_' = TRUE
           /\ queue_mutex_' = NoThread
           /\ pc' = [pc EXCEPT ![Owner] = "broadcast"]
           /\ UNCHANGED <<tasks_, task, accepted, rejected, finished>>

StopBroadcast == /\ pc[Owner] = "broadcast"
                 /\ NotifyAll(Owner, "join")
                 /\ UNCHANGED <<tasks_, stop_, queue_mutex_, task,
                                accepted, rejected, finished>>

(* Every worker has been joined and the members are destroyed.  That no    *)
(* other thread is still inside submit is the contract of any destructor;  *)
(* in the server it holds because Owner is the only caller.                *)
StopJoin == /\ pc[Owner] = "join"
            /\ \A w \in Workers : pc[w] = "exited"
            /\ \A c \in Callers \ {Owner} : pc[c] = "idle"
            /\ pc' = [pc EXCEPT ![Owner] = "destroyed"]
            /\ UNCHANGED <<tasks_, stop_, queue_mutex_, task,
                           accepted, rejected, finished>>

(* The pool is gone; nothing happens any more.                             *)
Terminated == /\ pc[Owner] = "destroyed"
              /\ UNCHANGED vars

-----------------------------------------------------------------------------
WorkerStep(w) == \/ WorkerPark(w) \/ WorkerSleep(w) \/ WorkerExit(w)
                 \/ WorkerTake(w) \/ WorkerRun(w)

CallerStep(c) == SubmitPush(c) \/ SubmitThrow(c) \/ SubmitNotify(c)

OwnerStep == StopSet \/ StopBroadcast \/ StopJoin

Next == \/ \E w \in Workers : WorkerLock(w) \/ WorkerStep(w) \/ SpuriousWake(w)
        \/ \E c \in Callers : SubmitCall(c) \/ SubmitLock(c) \/ CallerStep(c)
        \/ StopCall
        \/ StopLock
        \/ OwnerStep
        \/ Terminated

(* The operating system runs every thread that can run, and a thread that  *)
(* contends for the mutex gets it in the end.  Nothing makes a caller      *)
(* submit, the owner destroy the pool, or a wakeup be spurious.            *)
Fairness == /\ \A w \in Workers : WF_vars(WorkerStep(w)) /\ SF_vars(WorkerLock(w))
            /\ \A c \in Callers : WF_vars(CallerStep(c)) /\ SF_vars(SubmitLock(c))
            /\ SF_vars(StopLock)
            /\ WF_vars(OwnerStep)

Spec == Init /\ [][Next]_vars /\ Fairness

-----------------------------------------------------------------------------
(* Properties                                                              *)

Queued == {tasks_[i] : i \in DOMAIN tasks_}

InHand == {task[w] : w \in Workers} \ {NoTask}

(* Every variable has its type; a thread has a callable in hand exactly    *)
(* between the points where the code holds one.                            *)
TypeOK ==
  /\ tasks_ \in Seq(Tasks)
  /\ stop_ \in BOOLEAN
  /\ queue_mutex_ \in Threads \cup {NoThread}
  /\ pc \in [Threads -> WorkerPC \cup OwnerPC]
  /\ \A w \in Workers : pc[w] \in WorkerPC
  /\ \A c \in Callers \ {Owner} : pc[c] \in CallerPC
  /\ pc[Owner] \in OwnerPC
  /\ task \in [Threads -> Tasks \cup {NoTask}]
  /\ \A w \in Workers : task[w] # NoTask <=> pc[w] = "run"
  /\ \A c \in Callers : task[c] # NoTask <=> pc[c] \in {"lock", "push"}
  /\ accepted \in SUBSET Tasks
  /\ rejected \in SUBSET Tasks
  /\ finished \in SUBSET Tasks

(* A worker never sleeps through work: as long as one is blocked on the    *)
(* condition variable, every queued task has a thread on its way to it, a  *)
(* worker that is about to look at the queue or a caller that is about to  *)
(* notify.  This is what releasing the mutex before notify_one, and waking *)
(* only one thread per task, must not break.                               *)
Awake == {w \in Workers : pc[w] \in {"lock", "check"}}
Notifying == {c \in Callers : pc[c] = "notify"}

NoIdleWorker ==
  Waiting # {} => Len(tasks_) <= Cardinality(Awake) + Cardinality(Notifying)

(* The destructor cannot be left waiting for a worker that sleeps: from    *)
(* the broadcast on, no worker is blocked or about to block.               *)
NoSleeperAtJoin ==
  pc[Owner] \in {"join", "destroyed"} =>
    \A w \in Workers : pc[w] \notin {"sleep", "waiting"}

(* An accepted task is in exactly one place, the queue, one worker's hands *)
(* or the finished ones: none is lost or executed twice.                   *)
TasksConserved ==
  /\ accepted = Queued \cup InHand \cup finished
  /\ Queued \cap (InHand \cup finished) = {}
  /\ InHand \cap finished = {}
  /\ \A i, j \in DOMAIN tasks_ : tasks_[i] = tasks_[j] => i = j
  /\ \A v, w \in Workers : task[v] = task[w] /\ task[v] # NoTask => v = w

(* When the destructor has returned, every accepted task was executed, and *)
(* the future of each was satisfied: destruction drains the queue.         *)
DrainedAtDestruction == pc[Owner] = "destroyed" => finished = accepted

(* The destructor returns once it was called: every worker is woken, sees  *)
(* stop_, drains the queue and exits.                                      *)
DestructorReturns == pc[Owner] = "stopLock" ~> pc[Owner] = "destroyed"

(* The pool implements the FIFO queue of TaskQueue: accepted by the push,  *)
(* started by the pop, closed by stop_, and (through TaskQueue's fairness) *)
(* every accepted task is started and finished.                            *)
Abstract == INSTANCE TaskQueue WITH
  queue <- tasks_,
  running <- [w \in Workers |-> task[w]],
  done <- finished,
  refused <- rejected,
  closed <- stop_,
  returned <- pc[Owner] = "destroyed"

ImplementsTaskQueue == Abstract!Spec

=============================================================================
