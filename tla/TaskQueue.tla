----------------------------- MODULE TaskQueue -----------------------------
(***************************************************************************)
(* What easychat::ThreadPool promises to the code that submits work to it: *)
(* a FIFO queue served by a fixed set of workers.  A task is refused only  *)
(* once the pool is closed, a task that was accepted is started in order,  *)
(* exactly once, and is finished before the destructor of the pool         *)
(* returns.  ThreadPool.tla is shown to implement this specification.      *)
(***************************************************************************)
EXTENDS Sequences

CONSTANTS Workers,   \* the threads of the pool
          Tasks,     \* the callables that may be submitted
          NoTask     \* "the worker has nothing in hand"

VARIABLES
  queue,     \* accepted tasks nobody has started, oldest first
  running,   \* what each worker is executing
  done,      \* tasks that ran to completion
  refused,   \* tasks whose submission threw
  closed,    \* the destructor has begun
  returned   \* the destructor has returned

vars == <<queue, running, done, refused, closed, returned>>

InHand == {running[w] : w \in Workers} \ {NoTask}

Queued == {queue[i] : i \in DOMAIN queue}

Fresh(t) == t \notin Queued \cup InHand \cup done \cup refused

Init == /\ queue = << >>
        /\ running = [w \in Workers |-> NoTask]
        /\ done = {}
        /\ refused = {}
        /\ closed = FALSE
        /\ returned = FALSE

Accept(t) == /\ ~closed
             /\ Fresh(t)
             /\ queue' = Append(queue, t)
             /\ UNCHANGED <<running, done, refused, closed, returned>>

Refuse(t) == /\ closed
             /\ Fresh(t)
             /\ refused' = refused \cup {t}
             /\ UNCHANGED <<queue, running, done, closed, returned>>

Start(w) == /\ queue # << >>
            /\ running[w] = NoTask
            /\ running' = [running EXCEPT ![w] = Head(queue)]
            /\ queue' = Tail(queue)
            /\ UNCHANGED <<done, refused, closed, returned>>

Finish(w) == /\ running[w] # NoTask
             /\ done' = done \cup {running[w]}
             /\ running' = [running EXCEPT ![w] = NoTask]
             /\ UNCHANGED <<queue, refused, closed, returned>>

Close == /\ ~closed
         /\ closed' = TRUE
         /\ UNCHANGED <<queue, running, done, refused, returned>>

Return == /\ closed
          /\ ~returned
          /\ queue = << >>
          /\ InHand = {}
          /\ returned' = TRUE
          /\ UNCHANGED <<queue, running, done, refused, closed>>

Next == \/ \E t \in Tasks : Accept(t) \/ Refuse(t)
        \/ \E w \in Workers : Start(w) \/ Finish(w)
        \/ Close
        \/ Return

(* Work that can be done is done, and a closed pool is torn down.  Nobody  *)
(* promises that a task is submitted or that the pool is ever closed.      *)
Fairness == /\ WF_vars(\E w \in Workers : Start(w))
            /\ \A w \in Workers : WF_vars(Finish(w))
            /\ WF_vars(Return)

Spec == Init /\ [][Next]_vars /\ Fairness

=============================================================================
