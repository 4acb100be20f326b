----------------------------- MODULE ChatServer -----------------------------
(***************************************************************************)
(* EasyChatServer: the reactor thread, the workers, the business objects,  *)
(* the database and the clients together.                                  *)
(***************************************************************************)
EXTENDS ReactorLoop

(* The process dies and is started again: its memory, its descriptors and  *)
(* the connections are gone, the database is what it was, and the clients  *)
(* connect anew.  Nothing at start-up looks at the table of online users.  *)
Crash ==
  /\ crashes < MaxCrashes
  /\ crashes' = crashes + 1
  /\ pc' = [t \in Threads |-> IF t = Reactor THEN "dispatch" ELSE "idle"]
  /\ this' = [t \in Threads |-> NoConn]
  /\ fdReg' = [t \in Threads |-> NoFd]
  /\ fetched' = [t \in Threads |-> {}]
  /\ online_users_' = [u \in Users |-> NoFd]
  /\ fd_' = [c \in Conns |-> NoFd]
  /\ socket_' = [c \in Conns |-> NoFd]
  /\ user_id_' = [c \in Conns |-> NoUser]
  /\ buffer_' = [c \in Conns |-> << >>]
  /\ clients_' = [f \in Fds |-> NoConn]
  /\ error_callbacks_' = [f \in Fds |-> NoConn]
  /\ batch' = {}
  /\ tasks_' = << >>
  /\ client_mutex_' = NoThread
  /\ destroyed' = {}
  /\ fdTable' = [f \in Fds |-> NoConn]
  /\ backlog' = << >>
  /\ listenEdge' = FALSE
  /\ edges' = {}
  /\ inbox' = [c \in Conns |-> << >>]
  /\ peer' = [c \in Conns |-> "unused"]
  /\ account' = [c \in Conns |-> NoUser]
  /\ welcomed' = {}
  /\ UNCHANGED <<got, sent, users, online_table, db_faults,
                 messageVars>>

Next ==
  \/ ReactorStep \/ RegisterClient
  \/ \E w \in Workers : WorkerStep(w) \/ LockClient(w)
  \/ \E c \in Conns : \/ Connect(c)
                      \/ \E u \in Users : SendRegister(c, u) \/ SendLogin(c, u)
                                            \/ SendChat(c, u)
                      \/ \E how \in {"fin", "rst"} : Hangup(c, how)
  \/ Crash

Spec == Init /\ [][Next]_vars

(* The operating system runs every thread that can run, and a thread that  *)
(* contends for client_mutex_ gets it in the end.  Clients, failures and   *)
(* crashes are not bound to happen.                                        *)
Fairness == /\ WF_vars(ReactorStep) /\ SF_vars(RegisterClient)
            /\ \A w \in Workers : WF_vars(WorkerStep(w)) /\ SF_vars(LockClient(w))

FairSpec == Spec /\ Fairness

-----------------------------------------------------------------------------
(* Properties                                                              *)

Requests == [type : {"LOGIN", "REGISTER"}, user : Users]
              \cup [type : {"CHAT"}, msg : [id : Nat, from : Users, to : Users]]

TypeOK ==
  /\ fdTable \in [Fds -> Conns \cup {NoConn}]
  /\ backlog \in Seq(Conns)
  /\ listenEdge \in BOOLEAN
  /\ edges \subseteq Open
  /\ inbox \in [Conns -> Seq(Requests)]
  /\ peer \in [Conns -> {"unused", "open", "fin", "rst", "gone"}]
  /\ pc \in [Threads -> Reading \cup Closing \cup
              {"dispatch", "accept", "register", "idle", "lock", "closed"}]
  /\ this \in [Threads -> Conns \cup {NoConn}]
  /\ fdReg \in [Threads -> Fds \cup {NoFd}]
  /\ online_users_ \in [Users -> Fds \cup {NoFd}]
  /\ online_table \subseteq Users
  /\ offline \subseteq messages /\ messages \subseteq sent
  /\ fd_ \in [Conns -> Fds \cup {NoFd}]
  /\ socket_ \in [Conns -> Fds \cup {NoFd}]
  /\ user_id_ \in [Conns -> Users \cup {NoUser}]
  /\ buffer_ \in [Conns -> Seq(Requests)]
  /\ clients_ \in [Fds -> Conns \cup {NoConn}]
  /\ tasks_ \in Seq(Fds)

(* No thread is inside an object that was deleted, and no callback or      *)
(* table entry that can still be used points to one.                       *)
NoUseAfterFree ==
  /\ \A t \in Threads : this[t] \notin destroyed
  /\ \A f \in Fds : clients_[f] \notin destroyed /\ error_callbacks_[f] \notin destroyed

(* Every open connection can be reached from the tables of the reactor.    *)
OpenConnReachable ==
  \A f \in Fds : fdTable[f] # NoConn =>
    /\ error_callbacks_[f] = fdTable[f]
    /\ clients_[f] = fdTable[f] \/ (pc[Reactor] = "register" /\ this[Reactor] = fdTable[f])

(* Chat messages, as the users see them.                                   *)
ReceivedBy(u) == {got[u][i] : i \in DOMAIN got[u]}

(* No chat message arrives twice, at one user or at two, whatever crash    *)
(* comes between its insert and its delivery: its flag is cleared before   *)
(* it is pushed.  (If the statement that clears the flags fails, the next  *)
(* login pushes the messages again.)                                       *)
AtMostOnce ==
  db_faults = 0 =>
    /\ \A u \in Users : Len(got[u]) = Cardinality(ReceivedBy(u))
    /\ \A u, v \in Users : u # v => ReceivedBy(u) \cap ReceivedBy(v) = {}

(* A chat message arrives only at its receiver: the descriptor that was    *)
(* looked up in the map still belongs to the receiver when it is used.     *)
NoMisdelivery == \A u \in Users : \A m \in ReceivedBy(u) : m.to = u

(* The descriptor an object still holds is its own, unless the thread that *)
(* closes the object has closed it and is about to forget it: no other     *)
(* object can be caught sending to, reading from or closing a descriptor   *)
(* that has gone to somebody else.                                         *)
NoForeignDescriptor ==
  \A c \in Conns : socket_[c] # NoFd /\ c \notin destroyed =>
    \/ fdTable[socket_[c]] = c
    \/ \E t \in Threads : this[t] = c /\ pc[t] = "closeForget"

(* Whoever the map has online is reachable under the descriptor it has.    *)
RoutesToOwner ==
  \A u \in Users : isUserOnline(u) =>
    LET f == online_users_[u] IN
      /\ fdTable[f] # NoConn
      /\ clients_[f] = fdTable[f]
      /\ user_id_[fdTable[f]] = u

(* Readiness is edge-triggered, so that an edge must not get lost: an open *)
(* connection with unread data, or a dead client, always has an event on   *)
(* its way, a task for its descriptor, or a thread that is about to read   *)
(* or to close it.                                                         *)
NoLostEvent ==
  \A c \in Open : inbox[c] # << >> \/ peer[c] \in {"fin", "rst"} =>
    \/ c \in edges
    \/ \E e \in batch : e.fd = fd_[c]
    \/ \E i \in DOMAIN tasks_ : tasks_[i] = fd_[c]
    \/ \E w \in Workers : pc[w] = "lock" /\ fdReg[w] = fd_[c]
    \/ \E t \in Threads : this[t] = c /\ pc[t] \in {"recv"} \cup Closing

(* The two records of who is online agree, whenever no thread is between   *)
(* its update of the one and of the other.                                 *)
TableAgreesWithMap ==
  (\A t \in Threads : pc[t] \notin {"onlineTable", "offlineTable"}) =>
    \A u \in Users : isUserOnline(u) <=> u \in online_table

(* A user the map has online has no offline messages left, once the login  *)
(* that brought the user online has fetched them.                          *)
OnlineHasNoneOffline ==
  (\A t \in Threads : pc[t] \notin {"onlineTable", "loginResp", "getOffline"}) =>
    \A m \in offline : ~isUserOnline(m.to)

(* What a client received is in the table of messages: nothing is          *)
(* forwarded that could not be stored.                                     *)
DeliveredIsStored == \A u \in Users : ReceivedBy(u) \subseteq messages

(* The server has handled everything that reached it.                      *)
Quiet == /\ ~listenEdge /\ edges = {} /\ batch = {} /\ tasks_ = << >>
         /\ pc[Reactor] = "dispatch"
         /\ \A w \in Workers : pc[w] = "idle"

(* Once the server is quiet, every user with a live session is in the      *)
(* table that GET_USERS lists.                                             *)
OnlineUsersListed ==
  Quiet => \A c \in Open : isAuthenticated(c) => user_id_[c] \in online_table

(* Once the server is quiet, every chat message it has stored was received *)
(* or waits as an offline message.                                         *)
NoMessageLost == Quiet => \A m \in messages : m \in offline \/ m \in ReceivedBy(m.to)

(* A connection whose client is gone is closed in the end, and its         *)
(* descriptor can be used again: no edge, event or task of it gets stuck.  *)
DeadClientReleased ==
  \A c \in Conns : (c \in Open /\ peer[c] \in {"fin", "rst"}) ~> c \notin Open

(* A client that waits for a connection is accepted once there is a        *)
(* descriptor for it: its edge of the listening socket leads to an accept. *)
Waiting == {backlog[i] : i \in DOMAIN backlog}

ConnectionAccepted ==
  \A c \in Conns : (c \in Waiting /\ FreeFds # {}) ~> (c \notin Waiting \/ FreeFds = {})

(* A client that logs in with an account, and stays, is let in.            *)
LoginAnswered ==
  \A c \in Conns : (account[c] \in users /\ peer[c] = "open") ~>
                      (c \in welcomed \/ peer[c] # "open")

-----------------------------------------------------------------------------
(* What the server does with chat messages is what Mailbox promises.       *)

OnlineUsers == {u \in Users : isUserOnline(u)}

(* The connections whose client has gone and that are still open here.     *)
Abandoned == {c \in Open : peer[c] # "open"}

Left == {u \in Users : \E c \in Abandoned : account[c] = u}

(* The messages that workers have in hand, to forward or to push them.     *)
Outgoing ==
  {Request1(w).msg : w \in {v \in Workers : pc[v] \in {"lookup", "forward"}}}
    \cup UNION {fetched[t] : t \in Threads}

Box == INSTANCE Mailbox
         WITH Messages <- [id : 1 .. MaxChats, from : Users, to : Users],
              online   <- OnlineUsers,
              left     <- Left,
              stored   <- messages,
              waiting  <- offline,
              underway <- Outgoing

(* From its sender to its receiver, whatever connections come and go in    *)
(* between, a chat message takes the way Mailbox describes.                *)
ImplementsMailbox == Box!Spec

=============================================================================
