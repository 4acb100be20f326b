---------------------------- MODULE ServerState ----------------------------
(***************************************************************************)
(* The state of a running EasyChatServer and of what surrounds it, grouped *)
(* by the component that owns it.  The modules that extend this one hold   *)
(* the operations: Network (kernel and clients), UserManager,              *)
(* MessageHandler, ClientConnection, ReactorLoop; ChatServer composes them.*)
(*                                                                         *)
(* A client connection is a member of Conns for its whole life: connected, *)
(* accepted under some descriptor, closed by either side; its              *)
(* ClientConnection object is named by it too.  Descriptors are reused,    *)
(* lowest first, connections are not.                                      *)
(***************************************************************************)
EXTENDS Integers, FiniteSets, Sequences

CONSTANTS
  Conns,         \* connections that clients may open
  Fds,           \* the descriptors left for them
  Users,         \* user ids
  Accounts,      \* users whose account exists from the start
  NoUser,        \* user_id_ = -1
  NoConn,        \* an empty slot of a table of connections
  NoThread,      \* client_mutex_ is free
  Workers,       \* threads of the pool
  Reactor,       \* the thread that runs Reactor::start
  Hasty,         \* may clients go on, or close, before the server has read
                 \* and answered their last request?
  Abortive,      \* may clients vanish, or answer late data with a reset?
  SharedLogin,   \* may a user be logged in on two live connections?
  MaxChats,      \* bound: chat messages sent
  MaxDbFaults,   \* bound: SQL statements that fail
  MaxCrashes     \* bound: crashes of the server

ASSUME StateAssumption ==
  /\ Fds \subseteq Nat /\ IsFiniteSet(Fds)
  /\ Accounts \subseteq Users
  /\ NoUser \notin Users /\ NoConn \notin Conns
  /\ Reactor \notin Workers /\ NoThread \notin Workers \cup {Reactor}
  /\ {Hasty, Abortive, SharedLogin} \subseteq BOOLEAN
  /\ MaxChats \in Nat /\ MaxDbFaults \in Nat /\ MaxCrashes \in Nat

Threads == Workers \cup {Reactor}

NoFd == -1

VARIABLES  \* the kernel
  fdTable,      \* the connection behind each descriptor, or NoConn
  backlog,      \* connections the listening socket has not handed out
  listenEdge,   \* an edge of the listening socket epoll has not reported
  edges,        \* connections with an edge epoll has not reported
  inbox         \* requests received by the kernel and not read

kernelVars == <<fdTable, backlog, listenEdge, edges, inbox>>

VARIABLES  \* the clients, and what happens to the server from outside
  peer,         \* what the client has done with its end
  account,      \* the user a client logs in as
  welcomed,     \* clients that received LOGIN_RESP
  got,          \* the chat messages each user's clients received, in order
  sent,         \* history: the chat messages clients have sent
  crashes       \* history: crashes of the server

outsideVars == <<peer, account, welcomed, got, sent, crashes>>

VARIABLES  \* the threads of the server
  pc,           \* where each one is
  this,         \* the ClientConnection it works on
  fdReg,        \* the descriptor it holds in a local: task, lookup or close
  fetched       \* the rows it has selected and not pushed yet

threadVars == <<pc, this, fdReg, fetched>>

VARIABLES  \* UserManager
  users,          \* table users
  online_users_,  \* the map: a user's descriptor, or NoFd
  online_table,   \* table online_users: the users that have a row
  db_faults       \* history: statements that have failed

userVars == <<users, online_users_, online_table, db_faults>>

VARIABLES  \* MessageHandler
  messages,     \* table messages
  offline       \* those of them with is_offline = 1

messageVars == <<messages, offline>>

VARIABLES  \* ClientConnection
  fd_,          \* the descriptor the object was created for, for ever
  socket_,      \* the descriptor its Socket still holds, or NoFd
  user_id_,     \* the user it is authenticated as, or NoUser
  buffer_       \* requests read and not handled

connVars == <<fd_, socket_, user_id_, buffer_>>

VARIABLES  \* Reactor, Epoll and the queue of the ThreadPool
  clients_,          \* the object registered under each descriptor, or NoConn
  error_callbacks_,  \* the object the error callback of a descriptor points to
  batch,             \* events epoll_wait has returned and nobody has handled
  tasks_,            \* descriptors with something to read, oldest first
  client_mutex_,     \* the thread that holds it, or NoThread
  destroyed          \* history: objects that were deleted

reactorVars == <<clients_, error_callbacks_, batch, tasks_, client_mutex_, destroyed>>

serverVars == <<threadVars, userVars, messageVars, connVars, reactorVars>>

vars == <<kernelVars, outsideVars, serverVars>>

(* The memory of a process that has just started.                          *)
ProcessInit ==
  /\ pc = [t \in Threads |-> IF t = Reactor THEN "dispatch" ELSE "idle"]
  /\ this = [t \in Threads |-> NoConn]
  /\ fdReg = [t \in Threads |-> NoFd]
  /\ fetched = [t \in Threads |-> {}]
  /\ online_users_ = [u \in Users |-> NoFd]
  /\ fd_ = [c \in Conns |-> NoFd]
  /\ socket_ = [c \in Conns |-> NoFd]
  /\ user_id_ = [c \in Conns |-> NoUser]
  /\ buffer_ = [c \in Conns |-> << >>]
  /\ clients_ = [f \in Fds |-> NoConn]
  /\ error_callbacks_ = [f \in Fds |-> NoConn]
  /\ batch = {}
  /\ tasks_ = << >>
  /\ client_mutex_ = NoThread
  /\ destroyed = {}
  /\ fdTable = [f \in Fds |-> NoConn]
  /\ backlog = << >>
  /\ listenEdge = FALSE
  /\ edges = {}
  /\ inbox = [c \in Conns |-> << >>]

(* The database of a server that never ran, and clients that wait for it.  *)
WorldInit ==
  /\ users = Accounts
  /\ online_table = {}
  /\ db_faults = 0
  /\ messages = {}
  /\ offline = {}
  /\ peer = [c \in Conns |-> "unused"]
  /\ account = [c \in Conns |-> NoUser]
  /\ welcomed = {}
  /\ got = [u \in Users |-> << >>]
  /\ sent = {}
  /\ crashes = 0

Init == ProcessInit /\ WorldInit

Go(t, from, to) == pc[t] = from /\ pc' = [pc EXCEPT ![t] = to]

=============================================================================
