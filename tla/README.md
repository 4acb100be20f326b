# A TLA+ model of EasyChatServer

EasyChatServer is a chat server in C++: one thread runs an edge-triggered epoll
loop, a thread pool reads and handles requests, MySQL (through a connection
pool) keeps users, messages and who is online. This directory holds TLA+ modules
translated from the sources in `src/`, the TLC configurations that check them on
small instances, and TLAPS proofs about every module that is checked: every
safety property of every passing run but the parsing of the configuration, and
the refinement of the two abstract specifications, `TaskQueue` and `Mailbox`.

Contents: 1 the system, 2 modules and how they correspond to the code, 3 the
runs, 4 fairness, 5 what is proved, 6 what the checks found, 7 what is not
modelled, 8 the plan.

## 1. The system

| component | state | operations | properties that make it correct |
|---|---|---|---|
| `ThreadPool` (`threadpool.cpp/.h`) | `tasks_`, `stop_`, `queue_mutex_`, `condition_`, worker threads | `submit`, the worker loop, the destructor | no wakeup is lost; a task is executed exactly once, in FIFO order; the destructor drains the queue and returns |
| `ConnectionPool` (`connection_pool.cpp`) | the queue of idle MySQL connections, `initialized_`, mutex, condition | `init`, `getConnection`, `returnConnection`, `close` | a connection is never shared or lost; nobody sleeps beside an idle one; the pool does not seize up; `close` wakes everybody |
| `UserManager` (`user_manager.cpp`) | the map `online_users_`, tables `users`, `online_users` | `registerUser`, `loginUser`, `userOnline`, `userOffline`, lookups, `getOnlineUsers` | map and table agree; the map leads to a live connection of its user |
| `MessageHandler` (`message_handler.cpp`) | table `messages` with `is_offline` | `sendMessage`, `forwardMessage`, `getOfflineMessage`, `getChatHistory` | a message arrives at its receiver only, at most once, and is not lost; what arrives is stored |
| `ClientConnection`, `Socket` (`reactor.cpp`, `socket.cpp`) | `fd_`, `socket_`, `user_id_`, `buffer_` | `handleRead`, `handleError`, `handleClose`; `recv`, `send`, `close` | a socket closes only its own descriptor; every request of a logged-in client is handled; a dead client is released |
| `Reactor`, `Epoll` (`reactor.cpp`, `epoll.cpp`) | `clients_`, the callbacks per descriptor, `client_mutex_`, the epoll set | the event loop, `handleNewConnection`, `registerClientConnection`, `handleClientMessage` | no callback reaches a deleted object; no edge is lost; every client is accepted in the end |
| `Message` (`protocol.cpp`) and the loops of `handleRead` | `buffer_`, the stream of a connection | `serialize`, `deserialize`, receive, parse, erase | requests are handled in order, once, whole, and none is held back |
| `Logger` (`logger.cpp`) | `log_mutex_`, the open log file, the directory of backups that all processes share | `init`, `log`, `checkRotation` | a line in progress blocks nobody for ever; rotation overwrites no log |
| `Config` (`config.cpp`) | key/value map per section | `load`, `parseLine`, the getters | the last assignment of a key in its section counts, defaults otherwise |
| `main`, `SignalHandler`, `Daemon` (`main.cpp`, `signal_handler.cpp`, `daemon.cpp`) | the stages of start-up; `shutdown_flag_`; the PID file of daemon mode | start-up and its failures, the signal handlers, `start`, `writePidFile` | start-up ends; a stop request ends the process |
| `scripts/*.sh` | `EasyChatServer.pid` | `start.sh`, `stop.sh`, `status.sh`, `restart.sh` | the PID file names the server that lives; `stop.sh` returns, and not before the server has gone |
| `python/client.py` | `user_id`, `user_map`, `online_users`, `connected`, shared by a main and a receive thread | the commands, the receive loop and its handlers | a message goes to a user who may be meant by what was typed; a name that was asked for is known in the end |
| `monitor.py`, `tests/*.py` | - | a monitor, manual tests | - |

**How they interact.** The reactor thread alone calls `epoll_wait`. For a
readable descriptor it submits `handleClientMessage(fd)` to the pool; the worker
takes `client_mutex_`, looks the descriptor up in `clients_` and keeps the mutex
through the whole of `handleRead`, database statements and sends included. For
an event with `EPOLLERR`/`EPOLLHUP` the reactor thread runs `handleError` itself,
through a raw pointer kept by the error callback, and without `client_mutex_`.
For the listening socket it accepts until `accept` fails; every new object
replaces, and deletes, the one that `clients_` had under the same descriptor:
this is the only place where objects of closed connections are deleted. Workers
reach other clients only through `online_users_`, a map from users to descriptors
with a mutex of its own.

The server logs only while it starts, and in its signal handlers; the log
files, the port and the PID file are what server processes share, and the
scripts know a server by its PID file only. The Python client sends requests from
its main thread and takes answers in another; answers carry no mark of their
request, so a command that needs the id of a user polls a cache the receive
thread fills.

**What is hard about it.** Descriptors are reused while the map, the callbacks,
the batch of events and the queue of tasks still name them. Readiness is
edge-triggered, so that an edge that nobody turns into a task hangs a
connection. Two threads close the same object under different rules. Facts are
kept twice (map and table, message and flag) and updated by statements whose
failure is mostly ignored, without a transaction. The process may die between
any two of them. `PROJECT.json` lists each hazard at its line with the
properties that cover it.

## 2. Modules

```
TaskQueue  <-implements-  ThreadPool      <-  ThreadPoolProofs
Mailbox    <-implements-  ChatServer
                          ConnectionPool  <-  ConnectionPoolProofs
                          Framing         <-  FramingProofs
ServerState <- Network <- UserManager <- MessageHandler <- ClientConnection
            <- ReactorLoop <- ChatServer <- MCChatServer
                              ChatServer <- ChatServerProofs <- ChatDeliveryProofs
Logger, Config <- ServerProcess <- MCServerProcess
                  ServerProcess <- ServerProcessProofs
PythonClient <- MCPythonClient
PythonClient <- PythonClientProofs              (<- means "is extended by")
```

* **`TaskQueue`** is what the rest of the server relies on: a FIFO queue served
  by a set of workers, started in order, exactly once, drained before the
  destructor returns. `ReactorLoop` uses the pool through this promise: `tasks_`
  is a sequence of descriptors, `TakeTask` removes its head.
* **`ThreadPool`** splits `submit`, the worker loop and the destructor at every
  point where another thread can interfere: acquire, predicate, block, push,
  notify (after the release, as in `threadpool.h`), run, broadcast, join.
  Wakeups may be spurious. `accepted`, `rejected`, `finished` are history.
* **`ConnectionPool`** does the same for `connection_pool.cpp`. A thread of
  `Nesters` may, as `getOnlineUsers` does, draw a second connection while it
  holds one. The connections `init` fails to open are skipped; `MinOpened` bounds
  how many fail.
* **`Mailbox`** is what the server promises its users about chat messages while
  clients are orderly and statements succeed. A message is stored once, by whether its
  receiver is online it goes out at once or waits, over crashes too, until the receiver
  fetches what waits; what goes out arrives at its receiver, once. It is lost only
  when it goes out to a user with a session that has ended and that the server has not
  closed yet (`left`), or when the server dies with it in hand (`Restart`).
* **`ServerState`** declares the variables of the running server, grouped by the
  component that owns them, and their initial values. The names are those of the
  code. A connection is a model value for its whole life, which the descriptor
  it is accepted under is not: `fdTable` says which connection a descriptor
  currently stands for, so that a stale descriptor is visible in the model.
* **`Network`** is the world outside: `accept`/`close`/`send` on the descriptor
  table, readiness edges, and the clients, which connect, register, log in, send
  chat messages and hang up. `Transmit` resets the connection when data reaches a
  socket its client has closed, unless `Abortive` is off (section 3).
* **`UserManager`**, **`MessageHandler`**: each statement, or update of the map,
  that another thread can observe is a step; `StatementOk` and `StatementFails`
  are the two outcomes of a statement. `getOfflineMessage` (select, then update)
  is one step: every insert runs under the `client_mutex_` the caller holds, so
  nothing comes in between but a crash, and the outcome in which the update fails
  is the one in which the process dies before it.
* **`ClientConnection`**: `Recv`, which is one call of `Socket::recv` in the loop of
  `handleRead`, `Parse`, one action per handler, and the five steps of `handleClose`
  (map, table, the test of the descriptor, `::close`, `fd_ = -1`), which a worker and
  the reactor thread may run on the same object at once. Between `::close` and
  `fd_ = -1` the reactor thread may accept another client under the number. In `recv`
  and `send` the test of the descriptor and the system call on it are one step: what
  could come in between is the unlocked close that `chat_double_close` shows to be
  harmful already.
* **`ReactorLoop`**: `EpollWait` returns a batch of events, which are dispatched
  in any order; `Accept` and `RegisterClient` are the two halves of
  `registerClientConnection`; `TakeTask`, `LockClient`, `UnlockClient` surround
  `handleRead` in a worker.
* **`ChatServer`** composes them, adds `Crash` (the process dies and restarts:
  its memory and the connections are gone, the database is not) and states the
  properties. It implements `Mailbox` under a mapping that hides the connections:
  `OnlineUsers` are those of `online_users_`, `Outgoing` is what workers have looked up,
  fetched and not pushed yet, `Left` the users behind connections whose client has
  gone. **`MCChatServer`** adds the symmetry sets.

* **`Framing`** looks into one connection, which `ChatServer` abstracts to whole
  requests. Only the length in a header decides what the parser does, so that a
  byte is its position in the stream and `sent`, `arrived`, `received`, `erased` are
  prefixes of it; `buffer_` is what lies between the last two. `Send` is
  `serialize`/`pack_message`, with the length a client claims (`tests/test_client.py:20`
  counts characters for bytes) and with numbers `stoi` cannot read (`ParseThrow`:
  the exception passes by the erase). `Recv`, `RecvEnd` are the receive loop,
  `ParseEnd`, `ParseRequest`, `ParseAstray` the parse loop. Once a length was wrong,
  whatever is at the front is taken for a header: `ParseAstray` may do anything
  the loop can do with an arbitrary one.
* **`Logger`** is the directory of log files and each process's way through
  `log` and `checkRotation`: the mutex, the line, the removal of the oldest backup,
  one rename per backup, the reopening. A file keeps its identity when it is renamed,
  so that a log that is overwritten would be seen. `RenameThrows` says when a rename
  finds nothing: the exception leaves the destructor of `LogStream` and the
  process ends.
* **`Config`** is `load` and the getters as functions of a file, a sequence of
  lines; `LastAssigned` is the reference they are compared with.
* **`ServerProcess`** is the life of server processes as the scripts see it. `step`
  walks main through `Program`: read the configuration, open the log, become a
  daemon (all descriptors are closed, the log's too, and the PID file is written in
  `/`), arm the signals, open the pool, bind, listen, serve. Between its parts main logs,
  and a signal handler, which runs on top of main, logs too. Each command of a
  script that reads the PID file, looks for a process, signals it or writes the
  file is a step of its own.
* **`PythonClient`** is one client and its connection: the commands (`Login`,
  `Register`, `GetOnlineUsers`, `GetUserIdByName` for send and history), the poll of the
  cache and its timeout, the receive thread handler by handler, and on the other
  side what `handleRead` answers, with `getUserInfo` and `getOnlineUsers`, whose
  statements may fail. A name is typed as a text, which may be a number, or a name in
  another case. Names are any that register: `ListedAs` is what a name with a comma
  becomes in the list of users, which the server joins and the client cuts at
  commas (`reactor.cpp:131-137`, `client.py:283-289`). `TooBig` stands for the numbers
  outside `int`, which the client takes for an id or a limit: `stoi` throws on them
  before the request is erased, so that it stays at the front of `requests`
  (`Readable`) and nothing behind it is ever answered.
* **`QueueLemmas`** holds facts about sequences as queues that several proofs use;
  the modules named `...Proofs` hold the theorems, with the invariants and lemmas they
  rest on (section 5).

`map` in `PROJECT.json` gives the lines each definition stands for. Definitions
introduced by a comment "Mutant of X" are X with one plausible bug; they are used
by no action, and each one shows that a property notices that bug.

Data that no property tells apart is left out: user names, passwords (a login is
right iff the account exists), texts, time stamps. In `ChatServer` requests arrive
whole and well-formed, which `Framing` justifies for clients whose lengths and
numbers are right. Chat messages carry an id so that duplicates can be counted.

## 3. The runs

All runs finish well within five minutes with two TLC workers.

| run | instance | shows |
|---|---|---|
| `thread_pool` | 2 workers, 2 submitting threads (one of them the owner), 3 tasks | `NoIdleWorker` (no lost wakeup), `NoSleeperAtJoin`, `TasksConserved`, `DestructorReturns`, and the refinement `ImplementsTaskQueue`, its liveness included |
| `connection_pool` | 3 threads, 1 of them nesting, 2 or 3 connections | `ConnectionsExclusive`, `NoIdleConnection`, `NobodyWaitsAfterClose`, `PoolServes` |
| `framing` | 2 requests of 2 or 4 bytes, header of 2, chunks of 3, wrong lengths 0, 1, 3, 5 | `HandledInOrder`, `FirstUnhandledAtFront`, `NothingHeldBack`, `EveryRequestHandled` |
| `server_process` | 3 processes, 4 scripts one at a time, 1 daemon started by hand, 1 crash, 1 signal sent by hand, 1 log that fills, of all these at most 6 (a daemon counts 5), 2 configurations | `PidFileNamesServer`, `RemovesOnlyStale`, `ScriptsReturn`, `StartCompletes`, `RotationKeepsLogs`; `ParsesRightly` compares `Parse` and `GetInt` with `LastAssigned` on all files of up to 3 lines |
| `python_client` | 3 users, 1 of them still to register, 1 named "bob,jr" beside a "bob", 6 texts, among them a number and one outside `int`, failing look-ups, 3 commands, 1 user who comes or goes | `SentAsMeant`, `LookupsCached` |
| `chat_orderly` | 3 connections on 2 descriptors, 2 workers, 2 users | `RoutesToOwner`, `NoForeignDescriptor`, `NoMisdelivery`, `TableAgreesWithMap`, `OnlineHasNoneOffline`, and the refinement `ImplementsMailbox` |
| `chat_hostile` | 2 connections, 1 worker, clients that pipeline, hang up at any time and reset | `NoUseAfterFree`, `OpenConnReachable`, `NoLostEvent` |
| `chat_crash` | 2 connections, 1 worker, 1 crash, 1 failing statement, 1 account to be registered | `TypeOK`, `AtMostOnce`, `DeliveredIsStored` |
| `chat_live` | 2 connections, 2 workers, hasty clients, 1 user, `FairSpec` | `DeadClientReleased`, `ConnectionAccepted`, `LoginAnswered` |
| `chat_double_close`, `chat_reconnect`, `chat_lost` | the smallest instance that shows each | one violation each, see section 6 |

**Bounds, and why they are enough.** In `thread_pool` three tasks exceed two
workers, so that the queue is longer than the pool, tasks wait while every
worker is busy, and the destructor finds work left; two callers interleave their
notifications. The proofs remove these bounds. In `connection_pool` three
threads compete for as few as two connections, one of which may be held twice by
the nesting thread. In `framing` a request is shorter, as long as and longer than
a chunk, two requests may share one, and the wrong lengths lie below a header,
within the request and beyond its end; the proofs remove these bounds for
the safety properties. In `server_process` four scripts suffice to start, stop or
lose, restart and look at a server; three processes are one more than a start
and a restart create; `MaxEvents` lets any six of these events happen, or a daemon
and one more. With seven (2.06 million states) the safety properties and
`RotationKeepsLogs` hold as well, and so do all properties under a third
configuration, `HugeOnly`, whose size is negative in 32 bits so that every
line rotates. In `python_client` three commands are a login and two that cache what
they need, or fail to; `SentAsMeant` is proved without bounds. In the chat runs two descriptors
for three connections force a descriptor to be reused while another connection lives; with two connections
both of them may still use the same descriptor one after the other, which is
what tables of raw pointers, edges and tasks are sensitive to. One chat message is
the least that can be routed wrongly, lost or delivered twice, and its way does
not depend on other messages, because handlers run one at a time under
`client_mutex_`. A second worker matters for the race for `client_mutex_` and
`accept` (`chat_orderly`, `chat_live`); elsewhere the second actor is the reactor
thread. `ImplementsMailbox` holds in `chat_orderly` with a crash as well (4.0 million
states), and with two chat messages on two connections. In `server_process` the ten
`Files` are what `FileAssumption` asks for: the directory has six names, and each
process has one file open.

**Constants that choose the environment.** A client that is not `Hasty` sends chat
messages only after the response to its login, and closes only when the server has
seen to a login it sent (`LoginSeenTo`). With `Abortive` clients vanish or answer late
data with a reset; without it the reset that TCP sends for data to a closed socket
is left out too, which is a restriction of the network and not only of the clients:
what `chat_orderly` and the theorems that assume it say holds as long as nothing is sent
to a client between its close and the server's. `SharedLogin` lets a user log in on two live connections;
`MaxChats`, `MaxDbFaults`, `MaxCrashes` bound the history. They only remove or
add steps of the environment and never change what the server does.

Each choice in a passing run that a property needs is a statement about the code:

* `NoForeignDescriptor` and `RoutesToOwner` need `Abortive = FALSE`: with resets
  the two closing threads race (`chat_double_close`). `NoForeignDescriptor` excepts the
  object that a thread has closed and not forgotten yet: there the number may be
  another client's already, and nobody but the thread that is about to forget it
  can use it. The mutant `CloseKeepFd` leaves the number in the object for good.
* `PoolServes` needs `MinOpened >= 2`: `init` accepts a single open connection, with
  which `getOnlineUsers` waits for the one it holds itself, under `client_mutex_`
  (`user_manager.cpp:211`). With `MinOpened = 1` TLC finds it violated.
* `ConnectionAccepted` needs a descriptor for every client: an `accept` that finds
  none uses up the edge of the listening socket (`reactor.cpp:273`), and the
  client waits for ever although descriptors become free again. With
  `Fds = {5}` TLC finds it violated.
* The properties of `Framing` end where a client breaks the protocol: after a wrong
  length the order is lost (`HandledInOrder` speaks of the requests before it), and a
  request `stoi` cannot read stays at the front of `buffer_` for ever, with
  everything behind it. `python/client.py` itself can send one, for an id that is
  no `int`. A length of 0 is worse: the loop never ends.
* `PidFileNamesServer` and `RemovesOnlyStale` need one script at a time. With two
  operators TLC finds both violated: two starts see no PID file, the second
  server cannot bind, and its `start.sh` removes the file of the first.
* `SentAsMeant` says that a message goes to one of the `Readings` of what was typed: the
  user of that name, the user whose id the text reads as, or one whose name has the
  text in front of its first comma. Unless names are ambiguous in this way this is one
  user. The stronger property, that it goes to the user of that name, is false: with a
  user named "2", or with "bob,jr" online and listed after "bob", a message for one
  goes to the other.
* `LookupsCached` is about names typed as they were registered: a name in another
  case is found by the server and never by the client, whose cache has the other. It
  excepts a question behind a request the server cannot read, a look-up whose statement
  fails (`user_manager.cpp:122-129`, the answer is that of a user who does not exist)
  and a connection that ends.
* That a registered password logs in is not a property of the system: REGISTER is
  split at the first colon, so the password the Python client stores contains the
  nickname (`reactor.cpp:87`, `client.py:81`). TLC refutes it at the first login.
* `StartCompletes` excepts processes that got a signal: a handler that logs while
  main logs waits for a mutex its own thread holds.
* `NoMisdelivery` needs statements that succeed (a status update that fails at logout
  leaves the map entry of a descriptor that is closed and reused,
  `user_manager.cpp:174`; with `MaxDbFaults = 1` TLC finds a message delivered to
  the wrong user) and
  `Hasty = FALSE`: `recv` on an object that is already closed leaves an old
  `errno`, and a login left in its buffer, or on its way when the client closed,
  may be handled and log a user in on the closed descriptor (`socket.cpp:115`).
* `TableAgreesWithMap` needs `MaxDbFaults = 0` and `MaxCrashes = 0`: nothing clears
  the table at start-up.
* `AtMostOnce` is stated for `db_faults = 0`: when clearing the flags fails, the
  next login pushes the same messages again.
* `NoUseAfterFree` holds because a deleted object has been replaced under its
  descriptor, in the table as well as in the callback, before anything can name
  it again. Its mutant puts `ReplaceClient` for `RegisterClient`: `clients_` gets the
  new object without `client_mutex_`, under a worker that is still in the old one.
* `NoLostEvent` needs the loop around `recv`: its mutant `RecvOnce` parses after one
  call, and what is left in the kernel has no edge.

**Symmetry.** `Conns`, `Workers` and, where all or none of them have an account,
`Users` are symmetric; `Fds` are not, as the kernel hands out the lowest free
one. No symmetry is used in runs with liveness properties; `ImplementsMailbox` has none,
and treats all users and connections alike. `CHECK_DEADLOCK` is off in
the chat runs: when all connections are used and all clients are gone, the
server rightly has nothing to do; likewise in `framing`, when everything is
handled, in `server_process`, when nobody runs another script, and in
`python_client`, when nothing more is typed. `ThreadPool` and `ConnectionPool` are checked
for deadlock and say with `Terminated` where they may stop.

## 4. Fairness

* `ThreadPool`: a thread that can take a step without a lock takes one
  (`WF`); a thread that waits for `queue_mutex_` gets it in the end (`SF`, since the
  mutex becomes free again and again). Callers need not submit, the owner need
  not destroy the pool, spurious wakeups need not happen. The refinement shows
  that this implies the fairness `TaskQueue` promises.
* `ConnectionPool`: the same, and a statement that runs comes to an end. A single
  waiter may be overtaken for ever by new callers, which is why `PoolServes` is
  about the pool and not about each thread.
* `Framing`: `WF` on the network (TCP delivers what was sent) and on the worker, which
  the pool runs in the end and which gets `client_mutex_` in the end. Clients are
  not fair.
* `ServerProcess`: `WF` on each process and on each script that runs. Nobody has to
  start a script or send a signal.
* `PythonClient`: `WF` on a command that runs, on the receive thread and on the server.
  Nobody has to type anything, and nobody has to come or go.
* `ChatServer`: `WF` on the steps of the reactor thread and of each worker, `SF` on
  acquiring `client_mutex_` (`RegisterClient`, `LockClient`). Clients, failing
  statements and crashes are not fair: nothing makes a client log in or hang up.

The code has no starvation-free mutex; `SF` on acquisition states what the
scheduler of the operating system provides in practice.

## 5. What is proved

TLAPS checks 33 theorems in seven modules, and the lemmas about queues they share in
`QueueLemmas`. The constants are arbitrary except for
the assumptions named with each module; TLC evaluates these on the instances of
section 3.

### The thread pool

`ThreadPoolProofs` proves, with TLAPS and for every number of workers, callers
and tasks, from three assumptions `ThreadPool` declares (`ThreadsAssumption`:
the owner is a caller, workers are not callers, there is a worker;
`FiniteAssumption`: both sets are finite; `TasksAssumption`: `NoTask` is no task):

| theorem | statement |
|---|---|
| `TypeCorrect` | `Spec => []TypeOK` |
| `NoWorkerSleepsThroughDestruction` | `Spec => []NoSleeperAtJoin` |
| `NoTaskLostOrRepeated` | `Spec => []TasksConserved` |
| `DestructionDrains` | `Spec => []DrainedAtDestruction` |
| `NoWakeupIsLost` | `Spec => []NoIdleWorker` |
| `RefinesTaskQueue` | every step is a step of `TaskQueue` or a stutter (`Abstract!Init /\ [][Abstract!Next]_(Abstract!vars)`) |

**The argument.** `NoSleeperAtJoin` alone is not inductive: a worker that has
found the predicate false and has not blocked yet (`pc = "sleep"`) would miss a
broadcast. `Inv` adds why this cannot happen: `MutexInv` (a thread between
acquire and release is the one that holds `queue_mutex_`), `StopInv` (`stop_`
tells the stage of the destructor), `SleepInv` (a worker about to block still
holds the mutex, hence the queue is still empty and `stop_` still false),
`ExitInv` (an exited worker saw an empty queue of a stopped pool, which stays so)
and `DestroyedInv`. `TasksConserved` needs `SubmissionInv` besides: a task a caller
is still submitting is nowhere else and in one caller's hands only. The lemmas
`RangeOfAppend`, `AppendKeepsDistinct` and `RangeOfTail` say what a push and a pop do to
the elements of the queue. `DestructionDrains` follows from both: after the join
every worker has exited, so the queue and all hands are empty. `NoWakeupIsLost` is
a counting argument: a push adds a task and a notifying caller; a notification
turns this caller into a woken worker; a worker leaves the set `Awake` by taking a
task, or by blocking on an empty queue.

### The framing of requests

`FramingProofs` proves, for every size of header, chunk and body, every set of wrong
lengths and any number of requests, from `SizeAssumption` (a header and a chunk
have at least one byte):

| theorem | statement |
|---|---|
| `FramingTypeCorrect` | `Spec => []TypeOK`: nothing is erased that was not received |
| `FramingInOrder` | `Spec => []HandledInOrder` |
| `FramingAligned` | `Spec => []FirstUnhandledAtFront` |
| `FramingNothingHeldBack` | `Spec => []NothingHeldBack` |

**The argument.** `Layout` says how requests lie in the stream: one after the
other, none empty. `Boundary` strengthens `FirstUnhandledAtFront`: it needs the lengths
to be right up to the next request only, which is what a step that handles this
request can rely on. Together they give the lemma `Aligned`: a header at the front is
the header of the next request, so that `ParseRequest` handles this one and erases
exactly its bytes, and `ParseAstray` cannot happen. `HandledInOrder` rides along. For
`NothingHeldBack`, `Drained` says that what has arrived is received unless an edge is
pending (an edge that comes while the worker parses queues another task), and
`Parsed` that the loop ended because the next request was not there in full, or
threw.

### The connection pool

`ConnectionPoolProofs` proves, for any number of threads and connections, from
`ThreadsAssumption` (the thread that closes the pool is none of those that use it,
and these are finitely many) and `ConnectionsAssumption` (at least `MinOpened`, a
positive number, of finitely many connections open):

| theorem | statement |
|---|---|
| `PoolTypeCorrect` | `Spec => []TypeOK` |
| `PoolConnectionsExclusive` | `Spec => []ConnectionsExclusive` |
| `PoolNoIdleConnection` | `Spec => []NoIdleConnection` |
| `PoolWakesAllOnClose` | `Spec => []NobodyWaitsAfterClose` |
| `PoolNeverSeizesUp` | `Spec => []SomebodyGoes`, if fewer threads nest than connections opened (`Cardinality(Nesters) < MinOpened`) |

**The argument.** `CloseInv` adds to `NobodyWaitsAfterClose` that the closed pool is not
initialized, so that nobody goes to sleep on it. `OwnInv` says what a thread holds at
each point of the code, one connection or two in `getOnlineUsers`. `ExclusiveInv` then
says that idle, held and destroyed connections are a partition of those that
opened, and that none is in the queue twice. `NoIdleConnection` is a counting
argument: a returned connection adds a notifying thread to those on their way to
one, a notification turns it into a woken one, and whoever leaves takes a connection
along or finds none.

`SomebodyGoes` says that while an operation waits, some thread uses the pool and
does not wait: the safety core of `PoolServes`. Suppose all of them waited. Then nothing
is idle (`NoIdleConnection`), so that every connection that opened (`OpenedInv` counts
those that did not) is held by a thread that waits, hence by one that nests and holds
just one; these are too few. In the server `client_mutex_` lets one thread at a time
run `getOnlineUsers`, so that two open connections suffice. The bound is tight: with
one, TLC finds the state in which the nesting thread waits for itself.

### The server

`ChatServerProofs` and `ChatDeliveryProofs` prove every safety property of the chat
runs, for any finite or infinite number of connections, workers and users and any
finite set of descriptors, from `StateAssumption` (constants that stand for "none"
are none of the others, descriptors are finitely many numbers). The environment is
as wild as `ChatServer` allows, with hasty clients, resets, failing statements and
crashes, except where the second column says otherwise:

| theorem | assumes | statement |
|---|---|---|
| `ChatTypeCorrect` | | `Spec => []TypeOK` |
| `ChatUsesNoFreedObject` | | `Spec => []NoUseAfterFree` |
| `ChatReachesOpenConns` | | `Spec => []OpenConnReachable` |
| `ChatLosesNoEvent` | | `Spec => []NoLostEvent` |
| `DeliveredIsInTable` | | `Spec => []DeliveredIsStored` |
| `ChatDeliversOnce` | | `Spec => []AtMostOnce` |
| `ChatLeavesNoneOffline` | no failing statement | `Spec => []OnlineHasNoneOffline` |
| `ChatHoldsOwnDescriptors` | no reset (`Abortive = FALSE`) | `Spec => []NoForeignDescriptor` |
| `ChatRoutesToOwners` | no reset, no failing statement, clients that wait | `Spec => []RoutesToOwner` |
| `ChatDeliversToReceivers` | the same | `Spec => []NoMisdelivery` |
| `ChatTableAgrees` | no reset, no failing statement, no crash | `Spec => []TableAgreesWithMap` |
| `ChatImplementsMailbox` | no reset, no failing statement, clients that wait | `Spec => ImplementsMailbox` |

The assumptions are the ones section 3 shows to be needed. "No reset" is `Abortive = FALSE`:
no client resets its connection, and late data to one that has closed provokes no
reset either, as TCP would. The five theorems that assume it are conditional on that.

**The argument, for the tables.** The invariant `Inv` of `ChatServerProofs` is about
four records of the same thing: the descriptor of an object, its Socket's, the
callbacks and `clients_`. `TablesInv`: `fd_` is right while an object is registered,
and callbacks agree with `clients_` except under the descriptor that is being
registered. `LifeInv`: an object that was deleted, or is still to be made, has no
descriptor. `SocketInv`: a thread works on an object that has one. `ThreadInv`:
workers inside `handleRead` hold `client_mutex_`, so there is one at most.
`HandlerInv`: a handler has its request at the front of `buffer_`. These four make
`NoUseAfterFree` inductive: what `registerClient` deletes is registered under a
descriptor which the kernel has just given away, so no thread is in it. `EventInv`
strengthens `NoLostEvent`: while a connection is being registered its edge must still be
pending in the kernel, because a stale task for the descriptor would look it up in
vain, and an edge that is used up by such a task would be lost.

**For deliveries.** Without resets the reactor thread closes nothing (`NoResetInv`),
and a Socket that holds a descriptor owns it, unless the one worker that is in the object
has closed the descriptor and is about to forget it (`OwnInv`, `Forgetting`); the lemma
`OwnsDescriptor` says that any other point of the worker finds the object's own connection
there. With clients that are not hasty `PatientInv` holds: the server closes only
connections whose client has closed, a client that has closed has no login left on the way
or in a buffer (`LoginSeenTo`), and a worker between a login and the messages that
wait for the user (`Entering`) has an object with a descriptor. So nobody logs in on an
object that is closed. `RouteInv` then
says that a map entry leads to an object whose `user_id_` is the user, and that the entry
is gone before the descriptor is closed, which holds only if the statement before it
succeeded (`user_manager.cpp:174`). `AccountInv` (a client logs in with its own
account, what is fetched for a user is the user's) turns routing into
`NoMisdelivery`. `TableInv` and `OfflineInv` name the thread that is between two
updates that belong together. For `AtMostOnce`, `PendingInv` says that no chat
message is twice on its way to the server, `StoredInv` that one which is on its way
is not stored yet, except the one a worker is forwarding, and `OnceInv` that a
stored message is in one place: about to be forwarded, offline, fetched, or
received by one user and once.

**For the mailbox.** A step of the server is one of these steps of `Mailbox`, and any
other leaves it unchanged:

| in the server | in `Mailbox` |
|---|---|
| `SendChat` | `Send` (`IdInv`: the message is new) |
| `OnlineMap`, `OfflineMap` | `Login`, `Logout` |
| `Hangup`, and the `Accept` of a client that has hung up | `Leave` |
| `CloseSys` | `Close` |
| `Store` | `Store` (`StoredInv` and `PendingInv`: a message on its way to the handler is not stored yet) |
| `GetOffline` | `Fetch` |
| `Push`, `Forward` to a client that is there | `Arrive` (`AccountInv`, `RouteInv`: it is the receiver) |
| `Push`, `Forward` to a client that has gone | `Lose` |
| `Crash` | `Restart` |

The last but one is where it could fail: a message must not get lost otherwise.
`MailLost` shows that it is sent on an open connection of its receiver, in `Push` because
an object that is being logged in has its descriptor (`PatientInv`) and owns it
(`OwnInv`), in `Forward` because the entry of the map leads there (`RouteInv`), and
`LookupInv` that the lookup before does not fail: only a worker inside `handleRead`
changes the map, so that a receiver who was online when the message was stored is
still in the map when its descriptor is looked up. `OutgoingAround` says which messages
are in hand before and after a step: there is one worker inside `handleRead`, and it
holds either the message it forwards or the ones it has fetched.

### Server processes and scripts

`ServerProcessProofs` proves, for any number of processes, scripts, signals and
crashes, from `PidAssumption`, `BackupsAssumption` (what a configuration says of backups
is a number, and bounded) and `FileAssumption` (there is always a file to be made):

| theorem | assumes | statement |
|---|---|---|
| `PidScriptsTypeInvariant` | | `Spec => []TypeOK` |
| `RotationLosesNoLog` | | `Spec => RotationKeepsLogs` |
| `PidFileIsRight` | one script at a time (`OneOperator`) | `Spec => []PidFileNamesServer` |
| `ScriptsRemoveOnlyStale` | the same | `Spec => []RemovesOnlyStale` |

**The argument, for the PID file.** `KnowsInv` says what a script
knows of the PID file at each command, `UsedInv` that a PID the script writes or
reads was given to a process, `OwnerInv` that a server the scripts started is the
one of the file, or of a script about to write it. That a process which has gone
never comes back (`Ages`) keeps what a script has seen true until it acts. Section 3
shows that one script at a time is needed.

**For the log.** `RotationKeepsLogs` is an action property: only the oldest backup ever
leaves the directory.
Two servers that rotate at once make this doubtful, since `rename` overwrites.
`RotationInv` is why nothing is overwritten: while a process moves backups, the name
above the one it moves next is free, and no other process is at the same place, as
the one that comes second finds nothing to rename and dies of the exception. This
holds for any number of operators, and with a server killed between two renames.

**For the types.** The type of the stack of running handlers needs `SignalsInv`: only a
process that has set up its handlers has signals to handle, and no handler is
interrupted by its own signal. `PlacesInv`: who listens has come so far in `Program`, and
only a daemon takes the steps of a daemon. `LoggerInv` does the same for the log files.

### The Python client

`PythonClientProofs` proves, for any users, texts and number of commands, from
`NameAssumption` (names are distinct, and otherwise any that register, with commas or
digits): `ClientTypeCorrect` (`Spec => []TypeOK`) and `ClientSendsAsMeant`
(`Spec => []SentAsMeant`). `CacheInv`: the cache maps a text to nobody, to the user of
that name or to one whose name has it in front of its first comma, whichever command an
answer belongs to. `SessionInv`: the client's id is the one of the
session. `ReceiverInv` and `RequestInv` carry both from the command to the request.

### Only model-checked

Every liveness property (fairness and ENABLED are out of the prover's reach, so
`DestructorReturns`, the liveness half of `ImplementsTaskQueue`, `PoolServes`,
`EveryRequestHandled`, `ScriptsReturn`, `StartCompletes`, `LookupsCached`,
`DeadClientReleased`, `ConnectionAccepted` and `LoginAnswered` stay with TLC),
and `ParsesRightly`, which is about a fold over a file of any length: induction over data
is out of reach too. The other way round, `DestructionDrains` and `PoolNeverSeizesUp` are
proved and checked by no run of their own: the first is part of `ImplementsTaskQueue`, the
second of `PoolServes`.

## 6. What the checks found

| run | what the code does | where |
|---|---|---|
| `chat_double_close` | a reset is handled by the reactor thread without `client_mutex_`, beside a worker closing the same socket: the second close hits a reused descriptor | `reactor.cpp:310`, `socket.cpp:165` |
| `chat_reconnect` | closing an old connection logs the user out of the newer one | `reactor.cpp:183` |
| `chat_lost` | a message to a connection whose client has gone is neither delivered nor kept as offline | `message_handler.cpp:68` |

Met while modelling, described by the models and stated by no property of a run:

* Rotation with the five backups of the default configuration cannot succeed on a
  fresh directory: `checkRotation` renames a backup that is not there, `rename` throws out
  of a destructor, and the process dies. The log stays full, so later
  servers die at their first line (`logger.cpp:117`).
* `max_size` is multiplied in 32 bits: 4096 megabytes are none, 2048 are negative,
  and every line rotates (`main.cpp:57`).
* A daemon closes the descriptor its log writes to, and writes its PID file in `/`
  where no script looks (`daemon.cpp:51`).
* TERM sets a flag that nothing reads: after "shutting down gracefully" the server goes on
  until `stop.sh` kills it (`signal_handler.cpp:39`, `main.cpp:95`). `ScriptsReturn` holds
  because of that kill: its mutant, which waits for the server instead, fails.
* In `client.py` a name in another case than registered is never found in the cache,
  a text that reads as a number is taken for an id, `_send_raw` swallows the error of a send,
  and between the test for a name (line 281) and its use the receive thread may clear
  `online_users` (`NameTested`, `NameRead`): the command then reports a failure
  although the message was sent. A user whose name contains a comma is cached under
  the part in front of it, and may get the messages for the user of that name
  (`client.py:283`). An id or a limit outside `int` blocks the connection for every
  later request (`reactor.cpp:107`).
* A connection that MySQL has closed stays in the pool (`connection_pool.cpp:48`).

## 7. What is not modelled

* **A receiver that stops reading**: `Transmit` never meets a full socket buffer.
  `send` spins on EAGAIN for as long as the client pleases, under the mutex every worker
  needs, so that no liveness property of the server would hold; the model would only
  have to except this case in each of them.
* **Process identifiers that are used again**: a stale PID file may name a stranger.
* **Daemon::stop, isRunning, getPid** have no caller, `removePidFile` is never reached.
* **Config::getBool, getPort** and settings that change no modelled decision.
* **Logger::close, flush** are never reached; a `backup_count` below one acts as one,
  as in the code.
* **SIGQUIT**, whose handler only sets the flag that nothing reads.
* **HEARTBEAT**, which no client sends, `handleWrite`, which is empty, avatars, and
  `users.status`: it is written and never read by a decision; only the failure of
  the statements that write it matters, and is modelled.
* **Texts, time stamps, the bytes of SQL**: no property tells them apart. Offline
  messages of one second are pushed in any order; the code cannot keep one.
* **The read-only requests in `ChatServer`**: `HISTORY`, `GET_USERS` and
  `GET_USER_BY_NAME` change no state of the server. They are in `PythonClient` with
  their answers, and the nested connection of `GET_USERS` is in `ConnectionPool`.
* **Monitor, tests**: they sample and print, and share no state with the server.
* Code without a caller: `removeClientConnection`, `markMessageAsRead`, `modifyFd`,
  `removeFd`, write events, `Socket::connect`, `setBlocking`.

## 8. Plan

The modules were planned in the order of their importance, and all of it is done:

1. `TaskQueue`, `ThreadPool`: the pool and its promise; run; proofs.
2. `ConnectionPool`: run; proofs.
3. `ServerState` ... `ChatServer`: the composition, its safety and liveness runs.
4. `Framing`: the stream of a connection; run; proofs.
5. `ServerProcess`: start-up, signals, scripts; run; proofs.
6. `Logger`, `Config`, daemon mode: in `ServerProcess`.
7. `PythonClient`, with the requests that only read: run; proofs.
8. `ChatServerProofs`, `ChatDeliveryProofs`: every safety property of the chat runs.
9. `Mailbox`: what a user may rely on; the refinement, in `chat_orderly` and in
   `ChatDeliveryProofs`.
