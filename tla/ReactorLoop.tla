---------------------------- MODULE ReactorLoop ----------------------------
(***************************************************************************)
(* easychat::Reactor and Epoll (src/network/reactor.cpp, epoll.cpp): the   *)
(* event loop of the reactor thread, the pool of workers it feeds, and the *)
(* table clients_ they share under client_mutex_.  The pool is used        *)
(* through what TaskQueue.tla promises: a FIFO of tasks, started in order. *)
(***************************************************************************)
EXTENDS ClientConnection

Listen == [kind |-> "listen", fd |-> NoFd]

-----------------------------------------------------------------------------
(* Reactor::start and Epoll::handleEvents                                  *)

(* When the events of one batch are handled, epoll_wait returns the next   *)
(* one, with connections under the descriptor they were added with: one    *)
(* that was reset has EPOLLERR and EPOLLHUP, any other one is readable.    *)
Event(c) == [kind |-> IF peer[c] = "rst" THEN "error" ELSE "read", fd |-> fd_[c]]

EpollWait ==
  /\ pc[Reactor] = "dispatch" /\ batch = {}
  /\ listenEdge \/ edges # {}
  /\ batch' = {Event(c) : c \in edges} \cup (IF listenEdge THEN {Listen} ELSE {})
  /\ edges' = {}
  /\ listenEdge' = FALSE
  /\ UNCHANGED <<threadVars, fdTable, backlog, inbox, outsideVars, userVars,
                 messageVars, connVars, clients_, error_callbacks_, tasks_,
                 client_mutex_, destroyed>>

(* The events of a batch may come in any order.                            *)
DispatchListen ==
  /\ Listen \in batch
  /\ Go(Reactor, "dispatch", "accept")
  /\ batch' = batch \ {Listen}
  /\ UNCHANGED <<this, fdReg, fetched, kernelVars, outsideVars, userVars,
                 messageVars, connVars, clients_, error_callbacks_, tasks_,
                 client_mutex_, destroyed>>

(* The error callback runs handleError on the object it points to, at once *)
(* and without client_mutex_.                                              *)
DispatchError(e) ==
  LET c == error_callbacks_[e.fd]
  IN /\ e \in batch /\ e.kind = "error"
     /\ Go(Reactor, "dispatch", CloseEntry(c))
     /\ this' = [this EXCEPT ![Reactor] = c]
     /\ batch' = batch \ {e}
     /\ UNCHANGED <<fdReg, fetched, kernelVars, outsideVars, userVars,
                    messageVars, connVars, clients_, error_callbacks_, tasks_,
                    client_mutex_, destroyed>>

DispatchRead(e) ==
  /\ e \in batch /\ e.kind = "read"
  /\ pc[Reactor] = "dispatch"
  /\ tasks_' = Append(tasks_, e.fd)
  /\ batch' = batch \ {e}
  /\ UNCHANGED <<threadVars, kernelVars, outsideVars, userVars, messageVars,
                 connVars, clients_, error_callbacks_, client_mutex_,
                 destroyed>>

-----------------------------------------------------------------------------
(* Reactor::handleNewConnection and registerClientConnection               *)

(* accept(2) has nothing to return, or no descriptor to return it under:   *)
(* in both cases the loop ends, and the edge is used up.                   *)
AcceptEnd ==
  /\ backlog = << >> \/ FreeFds = {}
  /\ Go(Reactor, "accept", "dispatch")
  /\ UNCHANGED <<this, fdReg, fetched, kernelVars, outsideVars, userVars,
                 messageVars, connVars, reactorVars>>

(* Mutant of SetCallbacks: a callback that is already there is kept.       *)
SetCallbacksOnce(f, c) ==
  error_callbacks_' = [error_callbacks_ EXCEPT ![f] = IF @ = NoConn THEN c ELSE @]

SetCallbacks(f, c) == error_callbacks_' = [error_callbacks_ EXCEPT ![f] = c]

(* A connection is accepted under the lowest free descriptor, its object   *)
(* is made, and it is added to epoll, where what it has received already   *)
(* counts as an edge, and to the callbacks.                                *)
Accept ==
  LET c == Head(backlog)
      f == LowestFree
  IN /\ backlog # << >> /\ FreeFds # {}
     /\ Go(Reactor, "accept", "register")
     /\ this' = [this EXCEPT ![Reactor] = c]
     /\ fdTable' = [fdTable EXCEPT ![f] = c]
     /\ backlog' = Tail(backlog)
     /\ edges' = IF inbox[c] # << >> \/ peer[c] # "open" THEN edges \cup {c} ELSE edges
     /\ fd_' = [fd_ EXCEPT ![c] = f]
     /\ socket_' = [socket_ EXCEPT ![c] = f]
     /\ SetCallbacks(f, c)
     /\ UNCHANGED <<fdReg, fetched, listenEdge, inbox, outsideVars, userVars,
                    messageVars, user_id_, buffer_, clients_, batch, tasks_,
                    client_mutex_, destroyed>>

(* Mutant of NextAccept: one accept for each event.                        *)
AcceptOnce == "dispatch"

(* handleNewConnection goes on until accept fails.                         *)
NextAccept == "accept"

(* clients_ takes the object, and the one that was registered under the    *)
(* descriptor before is deleted, with whatever descriptor its Socket still *)
(* holds.                                                                  *)
ReplaceClient ==
  LET c == this[Reactor]
      old == clients_[fd_[c]]
  IN /\ Go(Reactor, "register", NextAccept)
     /\ clients_' = [clients_ EXCEPT ![fd_[c]] = c]
     /\ this' = [this EXCEPT ![Reactor] = NoConn]
     /\ IF old = NoConn
        THEN UNCHANGED <<kernelVars, outsideVars, connVars, destroyed>>
        ELSE /\ destroyed' = destroyed \cup {old}
             /\ fd_' = [fd_ EXCEPT ![old] = NoFd]
             /\ socket_' = [socket_ EXCEPT ![old] = NoFd]
             /\ user_id_' = [user_id_ EXCEPT ![old] = NoUser]
             /\ buffer_' = [buffer_ EXCEPT ![old] = << >>]
             /\ IF socket_[old] = NoFd THEN UNCHANGED <<kernelVars, outsideVars>>
                                       ELSE SysClose(socket_[old])
     /\ UNCHANGED <<fdReg, fetched, userVars, messageVars, error_callbacks_, batch,
                    tasks_, client_mutex_>>

(* Only under client_mutex_; ReplaceClient alone is the mutant without it. *)
RegisterClient == client_mutex_ = NoThread /\ ReplaceClient

-----------------------------------------------------------------------------
(* Reactor::handleClientMessage, in a worker                               *)

TakeTask(w) ==
  /\ tasks_ # << >>
  /\ Go(w, "idle", "lock")
  /\ fdReg' = [fdReg EXCEPT ![w] = Head(tasks_)]
  /\ tasks_' = Tail(tasks_)
  /\ UNCHANGED <<this, fetched, kernelVars, outsideVars, userVars, messageVars,
                 connVars, clients_, error_callbacks_, batch, client_mutex_,
                 destroyed>>

(* Mutant of LockClient: a worker that finds the mutex taken gives up.     *)
TryLockClient(w) ==
  LET c == clients_[fdReg[w]]
      busy == client_mutex_ # NoThread
  IN /\ Go(w, "lock", IF busy \/ c = NoConn THEN "idle" ELSE "recv")
     /\ client_mutex_' = IF busy \/ c = NoConn THEN client_mutex_ ELSE w
     /\ this' = [this EXCEPT ![w] = IF busy THEN NoConn ELSE c]
     /\ fdReg' = [fdReg EXCEPT ![w] = NoFd]
     /\ UNCHANGED <<fetched, kernelVars, outsideVars, userVars, messageVars,
                    connVars, clients_, error_callbacks_, batch, tasks_,
                    destroyed>>

(* The object is looked up under the mutex, which the worker keeps for the *)
(* whole of handleRead.                                                    *)
LockClient(w) ==
  LET c == clients_[fdReg[w]]
  IN /\ client_mutex_ = NoThread
     /\ Go(w, "lock", IF c = NoConn THEN "idle" ELSE "recv")
     /\ client_mutex_' = IF c = NoConn THEN NoThread ELSE w
     /\ this' = [this EXCEPT ![w] = c]
     /\ fdReg' = [fdReg EXCEPT ![w] = NoFd]
     /\ UNCHANGED <<fetched, kernelVars, outsideVars, userVars, messageVars,
                    connVars, clients_, error_callbacks_, batch, tasks_,
                    destroyed>>

(* handleRead returns: the buffer is empty, or the connection was closed.  *)
UnlockClient(w) ==
  /\ \/ pc[w] = "parse" /\ buffer_[this[w]] = << >>
     \/ pc[w] = "closed"
  /\ pc' = [pc EXCEPT ![w] = "idle"]
  /\ client_mutex_' = NoThread
  /\ this' = [this EXCEPT ![w] = NoConn]
  /\ fdReg' = [fdReg EXCEPT ![w] = NoFd]
  /\ UNCHANGED <<fetched, kernelVars, outsideVars, userVars, messageVars,
                 connVars, clients_, error_callbacks_, batch, tasks_,
                 destroyed>>

ReactorStep == \/ EpollWait
               \/ DispatchListen
               \/ \E e \in batch : DispatchError(e) \/ DispatchRead(e)
               \/ AcceptEnd
               \/ Accept
               \/ CloseStep(Reactor)

WorkerStep(w) == TakeTask(w) \/ UnlockClient(w) \/ ReadStep(w) \/ CloseStep(w)

=============================================================================
