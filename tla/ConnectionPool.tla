--------------------------- MODULE ConnectionPool ---------------------------
(***************************************************************************)
(* easychat::ConnectionPool (src/database/connection_pool.cpp): a fixed    *)
(* set of MySQL connections behind a mutex and a condition variable, and   *)
(* the way UserManager and MessageHandler use it.  Every operation of      *)
(* theirs draws a connection, runs its statements and gives it back;       *)
(* UserManager::getOnlineUsers keeps its connection while getUserInfo      *)
(* draws a second one for every row.                                       *)
(*                                                                         *)
(* getConnection waits without a timeout, init settles for fewer           *)
(* connections than configured, and close wakes every waiter.              *)
(***************************************************************************)
EXTENDS Integers, FiniteSets, Sequences

CONSTANTS Threads,       \* the threads that run database operations
          Nesters,       \* those of them that may run getOnlineUsers
          Closer,        \* the thread that runs close
          Connections,   \* the connections init tries to open
          MinOpened,     \* bound: at least so many of them open
          NoThread       \* mutex_ is free

ASSUME ThreadsAssumption == /\ Nesters \subseteq Threads
                            /\ Closer \notin Threads
                            /\ NoThread \notin Threads \cup {Closer}
                            /\ IsFiniteSet(Threads)

ASSUME ConnectionsAssumption == /\ IsFiniteSet(Connections)
                                /\ MinOpened \in 1 .. Cardinality(Connections)

VARIABLES
  connections_,   \* idle connections, the next one to hand out first
  initialized_,
  mutex_,         \* the thread that holds the mutex, or NoThread
  pc,             \* where each thread is
  held,           \* the connections each thread has drawn
  giving,         \* the connections a thread is about to return
  failed,         \* connections that init could not open
  dropped         \* history: connections destroyed by close

vars == <<connections_, initialized_, mutex_, pc, held, giving, failed, dropped>>

AllThreads == Threads \cup {Closer}

Waiting == {t \in Threads : pc[t] = "waiting"}

Idle == {connections_[i] : i \in DOMAIN connections_}

Held == UNION {held[t] : t \in Threads}

Init == /\ connections_ = << >>
        /\ initialized_ = FALSE
        /\ mutex_ = NoThread
        /\ pc = [t \in AllThreads |-> IF t = Closer THEN "init" ELSE "idle"]
        /\ held = [t \in Threads |-> {}]
        /\ giving = [t \in Threads |-> {}]
        /\ failed = {}
        /\ dropped = {}

-----------------------------------------------------------------------------
(* ConnectionPool::init, run by the main thread before any other thread    *)
(* exists: the connections that fail are skipped, and one is enough.       *)

InitOpen(c) == /\ pc[Closer] = "init"
               /\ c \notin Idle \cup failed
               /\ connections_' = Append(connections_, c)
               /\ UNCHANGED <<initialized_, mutex_, pc, held, giving, failed, dropped>>

InitFail(c) == /\ pc[Closer] = "init"
               /\ c \notin Idle \cup failed
               /\ Cardinality(failed) < Cardinality(Connections) - MinOpened
               /\ failed' = failed \cup {c}
               /\ UNCHANGED <<connections_, initialized_, mutex_, pc, held,
                              giving, dropped>>

InitDone == /\ pc[Closer] = "init"
            /\ Idle \cup failed = Connections
            /\ connections_ # << >>
            /\ initialized_' = TRUE
            /\ pc' = [pc EXCEPT ![Closer] = "serving"]
            /\ UNCHANGED <<connections_, mutex_, held, giving, failed, dropped>>

-----------------------------------------------------------------------------
(* ConnectionPool::getConnection                                           *)

(* An operation starts, or getOnlineUsers calls getUserInfo for a row.     *)
GetCall(t) == /\ pc[Closer] # "init"
              /\ \/ pc[t] = "idle"
                 \/ pc[t] = "using" /\ t \in Nesters /\ Cardinality(held[t]) = 1
              /\ pc' = [pc EXCEPT ![t] = "getLock"]
              /\ UNCHANGED <<connections_, initialized_, mutex_, held, giving,
                             failed, dropped>>

GetLock(t) == /\ pc[t] = "getLock"
              /\ mutex_ = NoThread
              /\ mutex_' = t
              /\ pc' = [pc EXCEPT ![t] = "check"]
              /\ UNCHANGED <<connections_, initialized_, held, giving, failed, dropped>>

(* The predicate of the wait is false: release the mutex and block.        *)
GetWait(t) == /\ pc[t] = "check"
              /\ connections_ = << >> /\ initialized_
              /\ mutex_' = NoThread
              /\ pc' = [pc EXCEPT ![t] = "waiting"]
              /\ UNCHANGED <<connections_, initialized_, held, giving, failed, dropped>>

(* Mutant of GetNull: the early return keeps the mutex.                    *)
GetNullLocked(t) == /\ pc[t] = "check" /\ ~initialized_
                    /\ pc' = [pc EXCEPT ![t] = IF held[t] = {} THEN "idle" ELSE "using"]
                    /\ UNCHANGED <<connections_, initialized_, mutex_, held, giving,
                                   failed, dropped>>

(* The pool was closed: the operation gets no connection and fails.  An    *)
(* enclosing getOnlineUsers goes on to the next row with the one it has.   *)
GetNull(t) == /\ pc[t] = "check"
              /\ ~initialized_
              /\ mutex_' = NoThread
              /\ pc' = [pc EXCEPT ![t] = IF held[t] = {} THEN "idle" ELSE "using"]
              /\ UNCHANGED <<connections_, initialized_, held, giving, failed, dropped>>

(* Mutant of GetTake: the connection stays in the queue.                   *)
GetPeek(t) == /\ pc[t] = "check" /\ initialized_ /\ connections_ # << >>
              /\ held' = [held EXCEPT ![t] = @ \cup {Head(connections_)}]
              /\ mutex_' = NoThread
              /\ pc' = [pc EXCEPT ![t] = "using"]
              /\ UNCHANGED <<connections_, initialized_, giving, failed, dropped>>

GetTake(t) == /\ pc[t] = "check"
              /\ initialized_
              /\ connections_ # << >>
              /\ held' = [held EXCEPT ![t] = @ \cup {Head(connections_)}]
              /\ connections_' = Tail(connections_)
              /\ mutex_' = NoThread
              /\ pc' = [pc EXCEPT ![t] = "using"]
              /\ UNCHANGED <<initialized_, giving, failed, dropped>>

SpuriousWake(t) == /\ pc[t] = "waiting"
                   /\ pc' = [pc EXCEPT ![t] = "getLock"]
                   /\ UNCHANGED <<connections_, initialized_, mutex_, held, giving,
                                  failed, dropped>>

-----------------------------------------------------------------------------
(* ConnectionPool::returnConnection: every operation gives back what it    *)
(* drew last, on its error paths too.                                      *)

ReturnCall(t) == /\ pc[t] = "using"
                 /\ \E c \in held[t] : giving' = [giving EXCEPT ![t] = {c}]
                 /\ pc' = [pc EXCEPT ![t] = "putLock"]
                 /\ UNCHANGED <<connections_, initialized_, mutex_, held, failed, dropped>>

ReturnLock(t) == /\ pc[t] = "putLock"
                 /\ mutex_ = NoThread
                 /\ mutex_' = t
                 /\ pc' = [pc EXCEPT ![t] = "put"]
                 /\ UNCHANGED <<connections_, initialized_, held, giving, failed, dropped>>

(* Mutants of NotifyOne: only the first connection of an empty queue is    *)
(* announced; none is.                                                     *)
NotifyIfEmpty(t, to) ==
  IF Waiting = {} \/ connections_ # << >>
  THEN pc' = [pc EXCEPT ![t] = to]
  ELSE \E w \in Waiting : pc' = [pc EXCEPT ![t] = to, ![w] = "getLock"]

NotifyNobody(t, to) == pc' = [pc EXCEPT ![t] = to]

(* notify_one by t, which goes on at `to': one waiter, if there is any, is *)
(* woken.                                                                  *)
NotifyOne(t, to) ==
  IF Waiting = {}
  THEN pc' = [pc EXCEPT ![t] = to]
  ELSE \E w \in Waiting : pc' = [pc EXCEPT ![t] = to, ![w] = "getLock"]

(* The connection goes to the back of the queue, even of a closed pool,    *)
(* and a waiter is notified while the mutex is held.                       *)
Return(t) ==
  LET next == IF held[t] = giving[t] THEN "idle" ELSE "using"
  IN /\ pc[t] = "put"
     /\ \E c \in giving[t] : connections_' = Append(connections_, c)
     /\ held' = [held EXCEPT ![t] = @ \ giving[t]]
     /\ giving' = [giving EXCEPT ![t] = {}]
     /\ mutex_' = NoThread
     /\ NotifyOne(t, next)
     /\ UNCHANGED <<initialized_, failed, dropped>>

-----------------------------------------------------------------------------
(* ConnectionPool::close                                                   *)

CloseLock == /\ pc[Closer] = "serving"
             /\ mutex_ = NoThread
             /\ mutex_' = Closer
             /\ pc' = [pc EXCEPT ![Closer] = "close"]
             /\ UNCHANGED <<connections_, initialized_, held, giving, failed, dropped>>

WakeAll(t, to) == pc' = [u \in AllThreads |-> IF u = t THEN to
                                              ELSE IF u \in Waiting THEN "getLock"
                                              ELSE pc[u]]

Close == /\ pc[Closer] = "close"
         /\ initialized_' = FALSE
         /\ dropped' = dropped \cup Idle
         /\ connections_' = << >>
         /\ mutex_' = NoThread
         /\ WakeAll(Closer, "closed")
         /\ UNCHANGED <<held, giving, failed>>

(* A closed pool that nobody uses stays as it is.                          *)
Terminated == /\ pc[Closer] = "closed"
              /\ \A t \in Threads : pc[t] = "idle"
              /\ UNCHANGED vars

-----------------------------------------------------------------------------
Locking(t) == GetLock(t) \/ ReturnLock(t)

Step(t) == GetWait(t) \/ GetNull(t) \/ GetTake(t) \/ ReturnCall(t) \/ Return(t)

Next == \/ \E c \in Connections : InitOpen(c) \/ InitFail(c)
        \/ InitDone
        \/ \E t \in Threads : GetCall(t) \/ SpuriousWake(t) \/ Locking(t) \/ Step(t)
        \/ CloseLock
        \/ Close
        \/ Terminated

(* Threads run, mutexes are granted, and a statement ends: an operation    *)
(* that has its connection either asks for a second one or returns it.     *)
Fairness == /\ \A t \in Threads : WF_vars(Step(t)) /\ SF_vars(Locking(t))
            /\ WF_vars(Close)

Spec == Init /\ [][Next]_vars /\ Fairness

-----------------------------------------------------------------------------
(* Properties                                                              *)

(* Every variable has its type, the mutex is held exactly where the code   *)
(* holds it, and a thread is about to give back a connection exactly in    *)
(* returnConnection.                                                       *)
TypeOK ==
  /\ connections_ \in Seq(Connections)
  /\ initialized_ \in BOOLEAN
  /\ mutex_ \in AllThreads \cup {NoThread}
  /\ pc \in [AllThreads -> {"init", "serving", "close", "closed", "idle", "getLock",
                            "check", "waiting", "using", "putLock", "put"}]
  /\ held \in [Threads -> SUBSET Connections]
  /\ giving \in [Threads -> SUBSET Connections]
  /\ failed \in SUBSET Connections
  /\ dropped \in SUBSET Connections
  /\ \A t \in AllThreads : mutex_ = t <=> pc[t] \in {"check", "put", "close"}
  /\ \A t \in Threads : giving[t] # {} <=> pc[t] \in {"putLock", "put"}

(* A MySQL connection is never shared: each opened one is idle in the      *)
(* queue once, drawn by one thread, or destroyed by close, and a thread    *)
(* draws a second one only inside getOnlineUsers.                          *)
ConnectionsExclusive ==
  /\ pc[Closer] # "init" => Idle \cup Held \cup dropped = Connections \ failed
  /\ Idle \cap Held = {} /\ Idle \cap dropped = {} /\ Held \cap dropped = {}
  /\ Cardinality(Idle) = Len(connections_)
  /\ \A t, u \in Threads : t # u => held[t] \cap held[u] = {}
  /\ \A t \in Threads : Cardinality(held[t]) <= (IF t \in Nesters THEN 2 ELSE 1)

(* No operation waits while a connection is idle: each idle connection has *)
(* a thread on its way to it as long as another one sleeps.                *)
NoIdleConnection ==
  Waiting # {} /\ initialized_ =>
    Len(connections_) <= Cardinality({t \in Threads : pc[t] \in {"getLock", "check"}})

(* close leaves nobody asleep, neither those that waited nor those that    *)
(* were about to.                                                          *)
NobodyWaitsAfterClose == pc[Closer] = "closed" => Waiting = {}

(* The pool never seizes up: while operations wait, some operation has a   *)
(* connection to work with again and again, provided that one operation    *)
(* can complete whatever the others hold.  (One thread may still be        *)
(* overtaken for ever: a woken waiter competes with new callers.)          *)
PoolServes ==
  Waiting # {} ~> (Waiting = {} \/ \E t \in Threads : pc[t] = "using")

=============================================================================
