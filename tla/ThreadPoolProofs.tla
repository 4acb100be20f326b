-------------------------- MODULE ThreadPoolProofs --------------------------
(***************************************************************************)
(* Theorems of ThreadPool, for any number of workers, callers and tasks.   *)
(***************************************************************************)
EXTENDS ThreadPool, QueueLemmas, FiniteSetTheorems, SequenceTheorems, TLAPS

-----------------------------------------------------------------------------
(* Type correctness.                                                       *)

USE ThreadsAssumption, TasksAssumption DEF Threads

LEMMA InitTypeOK == Init => TypeOK
<1> SUFFICES ASSUME Init
             PROVE  TypeOK
    OBVIOUS
<1> USE DEF Init, WorkerPC, CallerPC, OwnerPC
<1>1. /\ tasks_ \in Seq(Tasks)
      /\ stop_ \in BOOLEAN
      /\ queue_mutex_ \in Threads \cup {NoThread}
  BY EmptySeq
<1>2. /\ pc \in [Threads -> WorkerPC \cup OwnerPC]
      /\ \A w \in Workers : pc[w] = "lock"
      /\ \A c \in Callers : pc[c] = "idle"
  OBVIOUS
<1>3. /\ task \in [Threads -> Tasks \cup {NoTask}]
      /\ \A t \in Threads : task[t] = NoTask
  OBVIOUS
<1> QED
  BY <1>1, <1>2, <1>3 DEF TypeOK

(* Acquiring the mutex, and the two forms of notification, move threads    *)
(* between program points of their own.                                    *)
LEMMA NextTypeOK == TypeOK /\ [Next]_vars => TypeOK'
<1> SUFFICES ASSUME TypeOK, [Next]_vars
             PROVE  TypeOK'
    OBVIOUS
<1> USE DEF TypeOK, WorkerPC, CallerPC, OwnerPC
<1>1. ASSUME NEW w \in Workers, WorkerLock(w)
      PROVE  TypeOK'
  BY <1>1 DEF WorkerLock, Acquire
<1>2. ASSUME NEW w \in Workers, WorkerPark(w)
      PROVE  TypeOK'
  BY <1>2 DEF WorkerPark
<1>3. ASSUME NEW w \in Workers, WorkerSleep(w)
      PROVE  TypeOK'
  BY <1>3 DEF WorkerSleep
<1>4. ASSUME NEW w \in Workers, WorkerExit(w)
      PROVE  TypeOK'
  BY <1>4 DEF WorkerExit
<1>5. ASSUME NEW w \in Workers, WorkerTake(w)
      PROVE  TypeOK'
  BY <1>5 DEF WorkerTake
<1>6. ASSUME NEW w \in Workers, WorkerRun(w)
      PROVE  TypeOK'
  BY <1>6 DEF WorkerRun
<1>7. ASSUME NEW w \in Workers, SpuriousWake(w)
      PROVE  TypeOK'
  BY <1>7 DEF SpuriousWake
<1>8. ASSUME NEW c \in Callers, SubmitCall(c)
      PROVE  TypeOK'
  BY <1>8 DEF SubmitCall
<1>9. ASSUME NEW c \in Callers, SubmitLock(c)
      PROVE  TypeOK'
  BY <1>9 DEF SubmitLock, Acquire
<1>10. ASSUME NEW c \in Callers, SubmitPush(c)
       PROVE  TypeOK'
  BY <1>10 DEF SubmitPush
<1>11. ASSUME NEW c \in Callers, SubmitThrow(c)
       PROVE  TypeOK'
  BY <1>11 DEF SubmitThrow
<1>12. ASSUME NEW c \in Callers, SubmitNotify(c)
       PROVE  TypeOK'
  BY <1>12 DEF SubmitNotify, NotifyOne, Waiting
<1>13. CASE StopCall
  BY <1>13 DEF StopCall
<1>14. CASE StopLock
  BY <1>14 DEF StopLock, Acquire
<1>15. CASE StopSet
  BY <1>15 DEF StopSet
<1>16. CASE StopBroadcast
  BY <1>16 DEF StopBroadcast, NotifyAll, Waiting
<1>17. CASE StopJoin
  BY <1>17 DEF StopJoin
<1>18. CASE UNCHANGED vars
  BY <1>18 DEF vars
<1> QED
  BY <1>1, <1>2, <1>3, <1>4, <1>5, <1>6, <1>7, <1>8, <1>9, <1>10, <1>11, <1>12,
     <1>13, <1>14, <1>15, <1>16, <1>17, <1>18
     DEF Next, WorkerStep, CallerStep, OwnerStep, Terminated

(* Every reachable state is well typed.                                    *)
THEOREM TypeCorrect == Spec => []TypeOK
<1>1. Init => TypeOK
  BY InitTypeOK
<1>2. TypeOK /\ [Next]_vars => TypeOK'
  BY NextTypeOK
<1> QED
  BY <1>1, <1>2, PTL DEF Spec

-----------------------------------------------------------------------------
(* Who holds the mutex, and what the stages of the destructor have left    *)
(* behind.  The queue cannot change between the evaluation of the          *)
(* predicate and the wait, because a caller pushes, and the owner sets     *)
(* stop_, only while holding the mutex: this is why no wakeup is lost.     *)

MutexInv ==
  \A t \in Threads :
    pc[t] \in {"check", "sleep", "push", "stop"} <=> queue_mutex_ = t

StopInv == stop_ <=> pc[Owner] \in {"broadcast", "join", "destroyed"}

SleepInv == \A w \in Workers : pc[w] = "sleep" => ~stop_ /\ tasks_ = << >>

ExitInv == \A w \in Workers : pc[w] = "exited" => stop_ /\ tasks_ = << >>

DestroyedInv ==
  pc[Owner] = "destroyed" =>
    /\ \A w \in Workers : pc[w] = "exited"
    /\ \A c \in Callers \ {Owner} : pc[c] = "idle"

Inv == /\ TypeOK
       /\ MutexInv
       /\ StopInv
       /\ SleepInv
       /\ ExitInv
       /\ NoSleeperAtJoin
       /\ DestroyedInv

LEMMA InitInv == Init => Inv
<1> SUFFICES ASSUME Init
             PROVE  Inv
    OBVIOUS
<1>1. TypeOK
  BY InitTypeOK
<1>2. /\ \A w \in Workers : pc[w] = "lock"
      /\ \A c \in Callers : pc[c] = "idle"
      /\ queue_mutex_ = NoThread
      /\ stop_ = FALSE
  BY DEF Init
<1> QED
  BY <1>1, <1>2 DEF Inv, MutexInv, StopInv, SleepInv, ExitInv,
                    NoSleeperAtJoin, DestroyedInv

LEMMA NextInv == Inv /\ [Next]_vars => Inv'
<1> SUFFICES ASSUME Inv, [Next]_vars
             PROVE  Inv'
    OBVIOUS
<1>0. TypeOK'
  BY NextTypeOK DEF Inv
<1> USE <1>0 DEF Inv, TypeOK, MutexInv, StopInv, SleepInv, ExitInv,
                 NoSleeperAtJoin, DestroyedInv, WorkerPC, CallerPC, OwnerPC
<1>1. ASSUME NEW w \in Workers, WorkerLock(w)
      PROVE  Inv'
  BY <1>1 DEF WorkerLock, Acquire
<1>2. ASSUME NEW w \in Workers, WorkerPark(w)
      PROVE  Inv'
  BY <1>2 DEF WorkerPark, Ready
<1>3. ASSUME NEW w \in Workers, WorkerSleep(w)
      PROVE  Inv'
  BY <1>3 DEF WorkerSleep
<1>4. ASSUME NEW w \in Workers, WorkerExit(w)
      PROVE  Inv'
  BY <1>4 DEF WorkerExit
<1>5. ASSUME NEW w \in Workers, WorkerTake(w)
      PROVE  Inv'
  BY <1>5 DEF WorkerTake
<1>6. ASSUME NEW w \in Workers, WorkerRun(w)
      PROVE  Inv'
  BY <1>6 DEF WorkerRun
<1>7. ASSUME NEW w \in Workers, SpuriousWake(w)
      PROVE  Inv'
  BY <1>7 DEF SpuriousWake
<1>8. ASSUME NEW c \in Callers, SubmitCall(c)
      PROVE  Inv'
  BY <1>8 DEF SubmitCall
<1>9. ASSUME NEW c \in Callers, SubmitLock(c)
      PROVE  Inv'
  BY <1>9 DEF SubmitLock, Acquire
<1>10. ASSUME NEW c \in Callers, SubmitPush(c)
       PROVE  Inv'
  BY <1>10 DEF SubmitPush
<1>11. ASSUME NEW c \in Callers, SubmitThrow(c)
       PROVE  Inv'
  BY <1>11 DEF SubmitThrow
<1>12. ASSUME NEW c \in Callers, SubmitNotify(c)
       PROVE  Inv'
  BY <1>12 DEF SubmitNotify, NotifyOne, Waiting
<1>13. CASE StopCall
  BY <1>13 DEF StopCall
<1>14. CASE StopLock
  BY <1>14 DEF StopLock, Acquire
<1>15. CASE StopSet
  BY <1>15 DEF StopSet
<1>16. CASE StopBroadcast
  BY <1>16 DEF StopBroadcast, NotifyAll, Waiting
<1>17. CASE StopJoin
  BY <1>17 DEF StopJoin
<1>18. CASE UNCHANGED vars
  BY <1>18 DEF vars
<1> QED
  BY <1>1, <1>2, <1>3, <1>4, <1>5, <1>6, <1>7, <1>8, <1>9, <1>10, <1>11, <1>12,
     <1>13, <1>14, <1>15, <1>16, <1>17, <1>18
     DEF Next, WorkerStep, CallerStep, OwnerStep, Terminated

LEMMA SpecInv == Spec => []Inv
BY InitInv, NextInv, PTL DEF Spec

(* From the broadcast of the destructor on, no worker is or goes to sleep. *)
THEOREM NoWorkerSleepsThroughDestruction == Spec => []NoSleeperAtJoin
BY SpecInv, PTL DEF Inv

-----------------------------------------------------------------------------
(* No task is lost and none runs twice.                                    *)

(* A task that a caller is still submitting is nowhere else.               *)
SubmissionInv ==
  /\ \A c \in Callers : task[c] # NoTask => task[c] \notin accepted \cup rejected
  /\ \A c, d \in Callers : task[c] = task[d] /\ task[c] # NoTask => c = d

ConservedInv == SubmissionInv /\ TasksConserved

LEMMA InitConserved == Init => ConservedInv
<1> SUFFICES ASSUME Init
             PROVE  ConservedInv
    OBVIOUS
<1>1. /\ \A t \in Threads : task[t] = NoTask
      /\ tasks_ = << >> /\ accepted = {} /\ finished = {}
  BY DEF Init
<1>2. InHand = {} /\ Queued = {}
  BY <1>1 DEF InHand, Queued
<1> QED
  BY <1>1, <1>2 DEF ConservedInv, SubmissionInv, TasksConserved

LEMMA NextConserved == Inv /\ ConservedInv /\ [Next]_vars => ConservedInv'
<1> SUFFICES ASSUME Inv, ConservedInv, [Next]_vars
             PROVE  ConservedInv'
    OBVIOUS
<1>0. TypeOK
  BY DEF Inv
<1> USE DEF ConservedInv, SubmissionInv
<1>1. ASSUME UNCHANGED <<tasks_, task, accepted, rejected, finished>>
      PROVE  ConservedInv'
  BY <1>1 DEF TasksConserved, Queued, InHand
<1>2. ASSUME NEW w \in Workers, WorkerTake(w)
      PROVE  ConservedInv'
  <2>1. /\ tasks_ \in Seq(Tasks) /\ tasks_ # << >> /\ tasks_' = Tail(tasks_)
        /\ Head(tasks_) \in Tasks
        /\ task' = [task EXCEPT ![w] = Head(tasks_)]
        /\ task \in [Threads -> Tasks \cup {NoTask}]
        /\ task[w] = NoTask
        /\ UNCHANGED <<accepted, rejected, finished>>
    BY <1>0, <1>2 DEF WorkerTake, TypeOK
  <2>2. /\ Head(tasks_) \in Queued
        /\ Queued' = Queued \ {Head(tasks_)}
        /\ \A i, j \in DOMAIN tasks_' : tasks_'[i] = tasks_'[j] => i = j
    <3>1. \A i, j \in DOMAIN tasks_ : tasks_[i] = tasks_[j] => i = j
      BY DEF TasksConserved
    <3>2. /\ Head(tasks_) \in {tasks_[i] : i \in DOMAIN tasks_}
          /\ {Tail(tasks_)[i] : i \in DOMAIN Tail(tasks_)} =
               {tasks_[i] : i \in DOMAIN tasks_} \ {Head(tasks_)}
          /\ \A i, j \in DOMAIN Tail(tasks_) :
               Tail(tasks_)[i] = Tail(tasks_)[j] => i = j
      BY ONLY <2>1, <3>1, RangeOfTail
    <3>3. Queued' = {Tail(tasks_)[i] : i \in DOMAIN Tail(tasks_)}
      BY <2>1, Zenon DEF Queued
    <3>4. \A i, j \in DOMAIN tasks_' : tasks_'[i] = tasks_'[j] => i = j
      BY <2>1, <3>2, Zenon
    <3> QED
      BY <3>2, <3>3, <3>4, Zenon DEF Queued
  <2>3. InHand' = InHand \cup {Head(tasks_)}
    BY <2>1 DEF InHand
  <2>4. Head(tasks_) \notin InHand \cup finished
    BY <2>2 DEF TasksConserved
  <2>5. \A v \in Workers : v # w => task'[v] = task[v] /\ task'[v] # Head(tasks_)
    BY <2>1, <2>4 DEF InHand
  <2>6. TasksConserved'
    BY <2>1, <2>2, <2>3, <2>4, <2>5 DEF TasksConserved
  <2> QED
    BY <2>1, <2>6
<1>3. ASSUME NEW w \in Workers, WorkerRun(w)
      PROVE  ConservedInv'
  <2>1. /\ finished' = finished \cup {task[w]}
        /\ task' = [task EXCEPT ![w] = NoTask]
        /\ task \in [Threads -> Tasks \cup {NoTask}]
        /\ task[w] \in InHand
        /\ UNCHANGED <<tasks_, accepted, rejected>>
    BY <1>0, <1>3 DEF WorkerRun, TypeOK, InHand
  <2>2. InHand' = InHand \ {task[w]}
    BY <2>1 DEF InHand, TasksConserved
  <2>3. Queued' = Queued
    BY <2>1 DEF Queued
  <2>4. TasksConserved'
    BY <2>1, <2>2, <2>3 DEF TasksConserved
  <2> QED
    BY <2>1, <2>4
<1>4. ASSUME NEW c \in Callers, SubmitCall(c)
      PROVE  ConservedInv'
  <2>1. PICK t \in Tasks \ Submitted : task' = [task EXCEPT ![c] = t]
    BY <1>4 DEF SubmitCall
  <2>2. /\ task \in [Threads -> Tasks \cup {NoTask}]
        /\ UNCHANGED <<tasks_, accepted, rejected, finished>>
    BY <1>0, <1>4 DEF SubmitCall, TypeOK
  <2>3. InHand' = InHand /\ Queued' = Queued
    BY <2>1, <2>2 DEF InHand, Queued
  <2>4. TasksConserved'
    BY <2>1, <2>2, <2>3 DEF TasksConserved
  <2>5. SubmissionInv'
    BY <2>1, <2>2 DEF Submitted
  <2> QED
    BY <2>4, <2>5
<1>5. ASSUME NEW c \in Callers, SubmitPush(c)
      PROVE  ConservedInv'
  <2>1. /\ tasks_ \in Seq(Tasks) /\ tasks_' = Append(tasks_, task[c])
        /\ accepted' = accepted \cup {task[c]}
        /\ task' = [task EXCEPT ![c] = NoTask]
        /\ task \in [Threads -> Tasks \cup {NoTask}]
        /\ task[c] \in Tasks /\ task[c] # NoTask
        /\ UNCHANGED <<rejected, finished>>
    BY <1>0, <1>5 DEF SubmitPush, TypeOK
  <2>2. task[c] \notin Queued \cup InHand \cup finished
    BY <2>1 DEF TasksConserved
  <2>3. /\ Queued' = Queued \cup {task[c]}
        /\ \A i, j \in DOMAIN tasks_' : tasks_'[i] = tasks_'[j] => i = j
    <3>1. \A i, j \in DOMAIN tasks_ : tasks_[i] = tasks_[j] => i = j
      BY DEF TasksConserved
    <3> QED
      BY <2>1, <2>2, <3>1, RangeOfAppend, AppendKeepsDistinct DEF Queued
  <2>4. InHand' = InHand
    BY <2>1 DEF InHand
  <2>5. TasksConserved'
    BY <2>1, <2>2, <2>3, <2>4 DEF TasksConserved
  <2> QED
    BY <2>1, <2>5
<1>6. ASSUME NEW c \in Callers, SubmitThrow(c)
      PROVE  ConservedInv'
  <2>1. /\ rejected' = rejected \cup {task[c]}
        /\ task' = [task EXCEPT ![c] = NoTask]
        /\ task \in [Threads -> Tasks \cup {NoTask}]
        /\ UNCHANGED <<tasks_, accepted, finished>>
    BY <1>0, <1>6 DEF SubmitThrow, TypeOK
  <2>2. InHand' = InHand /\ Queued' = Queued
    BY <2>1 DEF InHand, Queued
  <2>3. TasksConserved'
    BY <2>1, <2>2 DEF TasksConserved
  <2> QED
    BY <2>1, <2>3
<1> QED
  BY <1>1, <1>2, <1>3, <1>4, <1>5, <1>6
     DEF Next, WorkerStep, CallerStep, OwnerStep, Terminated, vars, WorkerLock,
         WorkerPark, WorkerSleep, WorkerExit, SpuriousWake, SubmitLock,
         SubmitNotify, StopCall, StopLock, StopSet, StopBroadcast, StopJoin

LEMMA SpecConserved == Spec => [](Inv /\ ConservedInv)
BY InitInv, NextInv, InitConserved, NextConserved, PTL DEF Spec

(* Every accepted task is in exactly one place: no task is lost between    *)
(* submit and execution, and none is executed twice.                       *)
THEOREM NoTaskLostOrRepeated == Spec => []TasksConserved
BY SpecConserved, PTL DEF ConservedInv

(* The destructor returns only after every accepted task was executed.     *)
THEOREM DestructionDrains == Spec => []DrainedAtDestruction
<1>1. Inv /\ ConservedInv => DrainedAtDestruction
  <2> SUFFICES ASSUME Inv, ConservedInv, pc[Owner] = "destroyed"
               PROVE  finished = accepted
      BY DEF DrainedAtDestruction
  <2>1. \A w \in Workers : pc[w] = "exited"
    BY DEF Inv, DestroyedInv
  <2>2. tasks_ = << >>
    BY <2>1 DEF Inv, ExitInv
  <2>3. InHand = {}
    BY <2>1 DEF Inv, TypeOK, InHand
  <2>4. Queued = {}
    BY <2>2 DEF Queued
  <2> QED
    BY <2>3, <2>4 DEF ConservedInv, TasksConserved
<1> QED
  BY <1>1, SpecConserved, PTL

-----------------------------------------------------------------------------
(* No wakeup is lost: the number of threads on their way to the queue is   *)
(* at least the number of queued tasks as long as any worker sleeps.       *)

LEMMA CountsAreNaturals ==
  /\ IsFiniteSet(Awake) /\ Cardinality(Awake) \in Nat
  /\ IsFiniteSet(Notifying) /\ Cardinality(Notifying) \in Nat
BY FiniteAssumption, FS_Subset, FS_CardinalityType DEF Awake, Notifying

LEMMA CountsAreNaturalsNext ==
  /\ IsFiniteSet(Awake') /\ Cardinality(Awake') \in Nat
  /\ IsFiniteSet(Notifying') /\ Cardinality(Notifying') \in Nat
BY FiniteAssumption, FS_Subset, FS_CardinalityType DEF Awake, Notifying

LEMMA NextNoIdleWorker == Inv /\ NoIdleWorker /\ [Next]_vars => NoIdleWorker'
<1> SUFFICES ASSUME Inv, NoIdleWorker, [Next]_vars, Waiting' # {}
             PROVE  Len(tasks_') <= Cardinality(Awake') + Cardinality(Notifying')
    BY DEF NoIdleWorker
<1>0. /\ TypeOK /\ SleepInv /\ Len(tasks_) \in Nat
      /\ Waiting # {} => Len(tasks_) <= Cardinality(Awake) + Cardinality(Notifying)
  BY DEF Inv, TypeOK, NoIdleWorker
<1> USE CountsAreNaturals, CountsAreNaturalsNext
<1>1. ASSUME tasks_' = << >>
      PROVE  Len(tasks_') <= Cardinality(Awake') + Cardinality(Notifying')
  BY <1>1, EmptySeq
<1>2. ASSUME UNCHANGED <<Waiting, Awake, Notifying, tasks_>>
      PROVE  Len(tasks_') <= Cardinality(Awake') + Cardinality(Notifying')
  BY <1>0, <1>2
<1>3. ASSUME NEW w \in Workers, w \notin Awake, Awake' = Awake \cup {w},
             Waiting' \subseteq Waiting, UNCHANGED <<Notifying, tasks_>>
      PROVE  Len(tasks_') <= Cardinality(Awake') + Cardinality(Notifying')
  <2>1. Cardinality(Awake') = Cardinality(Awake) + 1
    BY <1>3, FS_AddElement
  <2> QED
    BY <1>0, <1>3, <2>1
<1>4. ASSUME NEW w \in Workers, WorkerTake(w)
      PROVE  Len(tasks_') <= Cardinality(Awake') + Cardinality(Notifying')
  <2>1. w \in Awake /\ Awake' = Awake \ {w}
    BY <1>0, <1>4 DEF WorkerTake, TypeOK, Awake
  <2>2. Waiting' = Waiting /\ Notifying' = Notifying
    BY <1>0, <1>4 DEF WorkerTake, TypeOK, Waiting, Notifying
  <2>3. Len(tasks_') = Len(tasks_) - 1
    BY <1>0, <1>4 DEF WorkerTake, TypeOK
  <2>4. Cardinality(Awake') = Cardinality(Awake) - 1
    BY <2>1, FS_RemoveElement
  <2> QED
    BY <1>0, <2>2, <2>3, <2>4
<1>5. ASSUME NEW c \in Callers, SubmitPush(c)
      PROVE  Len(tasks_') <= Cardinality(Awake') + Cardinality(Notifying')
  <2>1. c \notin Notifying /\ Notifying' = Notifying \cup {c}
    BY <1>0, <1>5 DEF SubmitPush, TypeOK, Notifying
  <2>2. Waiting' = Waiting /\ Awake' = Awake
    BY <1>0, <1>5 DEF SubmitPush, TypeOK, Waiting, Awake
  <2>3. Len(tasks_') = Len(tasks_) + 1
    BY <1>0, <1>5 DEF SubmitPush, TypeOK
  <2>4. Cardinality(Notifying') = Cardinality(Notifying) + 1
    BY <2>1, FS_AddElement
  <2> QED
    BY <1>0, <2>2, <2>3, <2>4
<1>6. ASSUME NEW c \in Callers, SubmitNotify(c)
      PROVE  Len(tasks_') <= Cardinality(Awake') + Cardinality(Notifying')
  <2>1. Waiting # {}
    BY <1>0, <1>6 DEF SubmitNotify, NotifyOne, TypeOK, Waiting
  <2>2. PICK w \in Waiting : pc' = [pc EXCEPT ![c] = "idle", ![w] = "lock"]
    BY <1>6, <2>1 DEF SubmitNotify, NotifyOne
  <2>3. w \notin Awake /\ Awake' = Awake \cup {w}
    BY <1>0, <2>2 DEF TypeOK, Waiting, Awake
  <2>4. c \in Notifying /\ Notifying' = Notifying \ {c}
    BY <1>0, <1>6, <2>2 DEF SubmitNotify, TypeOK, Waiting, Notifying
  <2>5. /\ Cardinality(Awake') = Cardinality(Awake) + 1
        /\ Cardinality(Notifying') = Cardinality(Notifying) - 1
    BY <2>3, <2>4, FS_AddElement, FS_RemoveElement
  <2>6. tasks_' = tasks_
    BY <1>6 DEF SubmitNotify
  <2> QED
    BY <1>0, <2>1, <2>5, <2>6
<1>7. ASSUME NEW w \in Workers, WorkerLock(w)
      PROVE  Len(tasks_') <= Cardinality(Awake') + Cardinality(Notifying')
  <2>1. UNCHANGED <<Waiting, Awake, Notifying, tasks_>>
    BY <1>0, <1>7 DEF WorkerLock, Acquire, TypeOK, Waiting, Awake, Notifying
  <2> QED
    BY <1>2, <2>1
<1>8. ASSUME NEW w \in Workers, WorkerPark(w) \/ WorkerSleep(w) \/ WorkerExit(w)
      PROVE  Len(tasks_') <= Cardinality(Awake') + Cardinality(Notifying')
  BY <1>0, <1>1, <1>8 DEF WorkerPark, Ready, WorkerSleep, WorkerExit, SleepInv
<1>9. ASSUME NEW w \in Workers, WorkerRun(w) \/ SpuriousWake(w)
      PROVE  Len(tasks_') <= Cardinality(Awake') + Cardinality(Notifying')
  <2>1. /\ w \notin Awake /\ Awake' = Awake \cup {w}
        /\ Waiting' \subseteq Waiting
        /\ UNCHANGED <<Notifying, tasks_>>
    BY <1>0, <1>9 DEF WorkerRun, SpuriousWake, TypeOK, Waiting, Awake, Notifying
  <2> QED
    BY <1>3, <2>1
<1>10. ASSUME NEW c \in Callers, SubmitCall(c) \/ SubmitLock(c) \/ SubmitThrow(c)
       PROVE  Len(tasks_') <= Cardinality(Awake') + Cardinality(Notifying')
  <2>1. UNCHANGED <<Waiting, Awake, Notifying, tasks_>>
    BY <1>0, <1>10 DEF SubmitCall, SubmitLock, SubmitThrow, Acquire, TypeOK,
                       Waiting, Awake, Notifying
  <2> QED
    BY <1>2, <2>1
<1>11. ASSUME StopCall \/ StopLock \/ StopSet \/ StopJoin
       PROVE  Len(tasks_') <= Cardinality(Awake') + Cardinality(Notifying')
  <2>1. UNCHANGED <<Waiting, Awake, Notifying, tasks_>>
    BY <1>0, <1>11 DEF StopCall, StopLock, StopSet, StopJoin, Acquire, TypeOK,
                       Waiting, Awake, Notifying
  <2> QED
    BY <1>2, <2>1
<1>12. CASE StopBroadcast
  BY <1>0, <1>12 DEF StopBroadcast, NotifyAll, TypeOK, Waiting
<1>13. CASE UNCHANGED vars
  BY <1>2, <1>13 DEF vars, Waiting, Awake, Notifying
<1> QED
  BY <1>4, <1>5, <1>6, <1>7, <1>8, <1>9, <1>10, <1>11, <1>12, <1>13
     DEF Next, WorkerStep, CallerStep, OwnerStep, Terminated

(* As long as a worker sleeps, every queued task has a thread coming.      *)
THEOREM NoWakeupIsLost == Spec => []NoIdleWorker
<1>1. Init => NoIdleWorker
  BY DEF Init, NoIdleWorker, Waiting
<1>2. Inv /\ NoIdleWorker /\ [Next]_vars => NoIdleWorker'
  BY NextNoIdleWorker
<1> QED
  BY <1>1, <1>2, SpecInv, PTL DEF Spec

-----------------------------------------------------------------------------
(* The pool implements the FIFO queue of TaskQueue.                        *)

LEMMA AbstractInit == Init => Abstract!Init
BY DEF Init, Abstract!Init

LEMMA SameInHand == Abstract!InHand = InHand
BY DEF Abstract!InHand, InHand

LEMMA AbstractNext ==
  Inv /\ ConservedInv /\ [Next]_vars => [Abstract!Next]_(Abstract!vars)
<1> SUFFICES ASSUME Inv, ConservedInv, [Next]_vars
             PROVE  [Abstract!Next]_(Abstract!vars)
    OBVIOUS
<1> DEFINE running == [w \in Workers |-> task[w]]
<1>0. TypeOK
  BY DEF Inv
<1>1. ASSUME UNCHANGED <<tasks_, finished, rejected, stop_>>,
             \A w \in Workers : task'[w] = task[w],
             (pc[Owner] = "destroyed") = (pc[Owner] = "destroyed")'
      PROVE  UNCHANGED Abstract!vars
  BY <1>1 DEF Abstract!vars
<1>2. ASSUME NEW w \in Workers, WorkerTake(w)
      PROVE  Abstract!Start(w)
  <2>1. running' = [running EXCEPT ![w] = Head(tasks_)]
    BY <1>0, <1>2 DEF WorkerTake, TypeOK
  <2> QED
    BY <1>0, <1>2, <2>1 DEF WorkerTake, TypeOK, Abstract!Start
<1>3. ASSUME NEW w \in Workers, WorkerRun(w)
      PROVE  Abstract!Finish(w)
  <2>1. running' = [running EXCEPT ![w] = NoTask]
    BY <1>0, <1>3 DEF WorkerRun, TypeOK
  <2> QED
    BY <1>0, <1>3, <2>1 DEF WorkerRun, TypeOK, Abstract!Finish
<1>4. ASSUME NEW c \in Callers, SubmitPush(c)
      PROVE  \E t \in Tasks : Abstract!Accept(t)
  <2>1. task[c] \in Tasks /\ task[c] # NoTask
    BY <1>0, <1>4 DEF SubmitPush, TypeOK
  <2>2. task[c] \notin Queued \cup InHand \cup finished \cup rejected
    BY <2>1 DEF ConservedInv, SubmissionInv, TasksConserved
  <2>3. Abstract!Fresh(task[c])
    BY <2>2, SameInHand DEF Abstract!Fresh, Abstract!Queued, Queued
  <2>4. running' = running
    BY <1>0, <1>4 DEF SubmitPush, TypeOK
  <2>5. pc[Owner] # "destroyed" /\ pc'[Owner] # "destroyed"
    BY <1>0, <1>4 DEF SubmitPush, TypeOK, OwnerPC, CallerPC, Inv, StopInv
  <2>6. Abstract!Accept(task[c])
    BY <1>4, <2>3, <2>4, <2>5 DEF SubmitPush, Abstract!Accept
  <2> QED
    BY <2>1, <2>6
<1>5. ASSUME NEW c \in Callers, SubmitThrow(c)
      PROVE  \E t \in Tasks : Abstract!Refuse(t)
  <2>1. task[c] \in Tasks /\ task[c] # NoTask
    BY <1>0, <1>5 DEF SubmitThrow, TypeOK
  <2>2. task[c] \notin Queued \cup InHand \cup finished \cup rejected
    BY <2>1 DEF ConservedInv, SubmissionInv, TasksConserved
  <2>3. Abstract!Fresh(task[c])
    BY <2>2, SameInHand DEF Abstract!Fresh, Abstract!Queued, Queued
  <2>4. running' = running
    BY <1>0, <1>5 DEF SubmitThrow, TypeOK
  <2>5. pc[Owner] # "destroyed" /\ pc'[Owner] # "destroyed"
    BY <1>0, <1>5 DEF SubmitThrow, TypeOK, OwnerPC, CallerPC, Inv, DestroyedInv
  <2>6. Abstract!Refuse(task[c])
    BY <1>5, <2>3, <2>4, <2>5 DEF SubmitThrow, Abstract!Refuse
  <2> QED
    BY <2>1, <2>6
<1>6. CASE StopSet
  <2>1. ~stop_ /\ pc[Owner] # "destroyed" /\ pc'[Owner] # "destroyed"
    BY <1>0, <1>6 DEF StopSet, TypeOK, Inv, StopInv
  <2>2. running' = running
    BY <1>6 DEF StopSet
  <2>3. Abstract!Close
    BY <1>6, <2>1, <2>2 DEF StopSet, Abstract!Close
  <2> QED
    BY <2>3 DEF Abstract!Next
<1>7. CASE StopJoin
  <2>1. stop_ /\ pc[Owner] # "destroyed" /\ pc'[Owner] = "destroyed"
    BY <1>0, <1>7 DEF StopJoin, TypeOK, Inv, StopInv
  <2>2. tasks_ = << >> /\ InHand = {}
    BY <1>0, <1>7 DEF StopJoin, TypeOK, Inv, ExitInv, InHand
  <2>3. running' = running
    BY <1>7 DEF StopJoin
  <2>4. Abstract!Return
    BY <1>7, <2>1, <2>2, <2>3, SameInHand DEF StopJoin, Abstract!Return
  <2> QED
    BY <2>4 DEF Abstract!Next
<1>8. ASSUME NEW w \in Workers,
             WorkerLock(w) \/ WorkerPark(w) \/ WorkerSleep(w) \/ WorkerExit(w)
               \/ SpuriousWake(w)
      PROVE  UNCHANGED Abstract!vars
  BY <1>0, <1>1, <1>8 DEF WorkerLock, WorkerPark, WorkerSleep, WorkerExit,
                          SpuriousWake, Acquire, TypeOK
<1>9. ASSUME NEW c \in Callers, SubmitCall(c) \/ SubmitLock(c) \/ SubmitNotify(c)
      PROVE  UNCHANGED Abstract!vars
  <2>1. pc[Owner] # "destroyed" /\ pc'[Owner] # "destroyed"
    BY <1>0, <1>9 DEF SubmitCall, SubmitLock, SubmitNotify, Acquire, NotifyOne,
                      Waiting, TypeOK, OwnerPC, CallerPC, Inv, DestroyedInv
  <2>2. \A w \in Workers : task'[w] = task[w]
    BY <1>0, <1>9 DEF SubmitCall, SubmitLock, SubmitNotify, TypeOK
  <2>3. UNCHANGED <<tasks_, finished, rejected, stop_>>
    BY <1>9 DEF SubmitCall, SubmitLock, SubmitNotify
  <2> QED
    BY <1>1, <2>1, <2>2, <2>3
<1>10. ASSUME StopCall \/ StopLock \/ StopBroadcast
       PROVE  UNCHANGED Abstract!vars
  BY <1>0, <1>1, <1>10 DEF StopCall, StopLock, StopBroadcast, NotifyAll, Acquire,
                           TypeOK
<1>11. ASSUME UNCHANGED vars
       PROVE  UNCHANGED Abstract!vars
  BY <1>1, <1>11 DEF vars
<1> QED
  BY <1>2, <1>3, <1>4, <1>5, <1>6, <1>7, <1>8, <1>9, <1>10, <1>11
     DEF Next, WorkerStep, CallerStep, OwnerStep, Terminated, Abstract!Next

(* Every behaviour of the pool is, seen from outside, a behaviour of the   *)
(* FIFO queue (its liveness is left to TLC).                               *)
THEOREM RefinesTaskQueue ==
  Spec => Abstract!Init /\ [][Abstract!Next]_(Abstract!vars)
BY AbstractInit, AbstractNext, SpecConserved, PTL DEF Spec

=============================================================================
