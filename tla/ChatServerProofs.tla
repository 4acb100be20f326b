-------------------------- MODULE ChatServerProofs --------------------------
(***************************************************************************)
(* Theorems of ChatServer: types, memory safety, reachability and edges,   *)
(* for any number of connections, descriptors, workers and users, whatever *)
(* clients do, whichever statements fail, and with any number of crashes.  *)
(***************************************************************************)
EXTENDS ChatServer, QueueLemmas, FiniteSetTheorems, SequenceTheorems,
        WellFoundedInduction

-----------------------------------------------------------------------------
(* The inductive invariant: types, of the variables TypeOK leaves out too. *)

Chats == [id : Nat, from : Users, to : Users]

Events == [kind : {"read", "error"}, fd : Fds]

(* The requests that may be on their way: a chat message was sent by       *)
(* somebody.                                                               *)
Pending == {r \in Requests : r.type = "CHAT" => r.msg \in sent}

KernelTyped ==
  /\ fdTable \in [Fds -> Conns \cup {NoConn}]
  /\ backlog \in Seq(Conns)
  /\ listenEdge \in BOOLEAN
  /\ edges \subseteq Open
  /\ inbox \in [Conns -> Seq(Pending)]

OutsideTyped ==
  /\ peer \in [Conns -> {"unused", "open", "fin", "rst", "gone"}]
  /\ account \in [Conns -> Users \cup {NoUser}]
  /\ sent \subseteq Chats /\ IsFiniteSet(sent)

ThreadsTyped ==
  /\ pc \in [Threads -> Reading \cup Closing \cup
              {"dispatch", "accept", "register", "idle", "lock", "closed"}]
  /\ this \in [Threads -> Conns \cup {NoConn}]
  /\ fdReg \in [Threads -> Fds \cup {NoFd}]

UsersTyped ==
  /\ users \subseteq Users
  /\ online_users_ \in [Users -> Fds \cup {NoFd}]
  /\ online_table \subseteq Users

MessagesTyped ==
  /\ offline \subseteq messages /\ messages \subseteq sent
  /\ fetched \in [Threads -> SUBSET messages]

ConnsTyped ==
  /\ fd_ \in [Conns -> Fds \cup {NoFd}]
  /\ socket_ \in [Conns -> Fds \cup {NoFd}]
  /\ user_id_ \in [Conns -> Users \cup {NoUser}]
  /\ buffer_ \in [Conns -> Seq(Pending)]

ReactorTyped ==
  /\ clients_ \in [Fds -> Conns \cup {NoConn}]
  /\ error_callbacks_ \in [Fds -> Conns \cup {NoConn}]
  /\ batch \subseteq Events \cup {Listen}
  /\ tasks_ \in Seq(Fds)
  /\ destroyed \subseteq Conns

TypeInv == /\ KernelTyped /\ OutsideTyped /\ ThreadsTyped /\ UsersTyped
           /\ MessagesTyped /\ ConnsTyped /\ ReactorTyped

(* Where threads are: the workers inside handleRead hold client_mutex_.    *)
ThreadInv ==
  /\ pc[Reactor] \in {"dispatch", "accept", "register"} \cup Closing
  /\ this[Reactor] = NoConn <=> pc[Reactor] \in {"dispatch", "accept"}
  /\ \A w \in Workers :
       /\ pc[w] \in {"idle", "lock", "closed"} \cup Reading \cup Closing
       /\ this[w] = NoConn <=> pc[w] \in {"idle", "lock"}
       /\ this[w] # NoConn => client_mutex_ = w
  /\ \A t \in Threads : pc[t] \in {"lock", "closeSys", "forward"} => fdReg[t] \in Fds

(* Which object is registered under which descriptor: fd_ is right as long *)
(* as the object is, and the callbacks agree with clients_ but for the one *)
(* that is being registered.                                               *)
TablesInv ==
  /\ \A f \in Fds : fdTable[f] # NoConn =>
       /\ fd_[fdTable[f]] = f /\ socket_[fdTable[f]] = f
       /\ error_callbacks_[f] = fdTable[f]
  /\ \A f \in Fds : error_callbacks_[f] # NoConn => fd_[error_callbacks_[f]] = f
  /\ \A f \in Fds : clients_[f] # NoConn => fd_[clients_[f]] = f
  /\ \A f \in Fds : \/ error_callbacks_[f] = clients_[f]
                    \/ /\ pc[Reactor] = "register"
                       /\ error_callbacks_[f] = this[Reactor]
  /\ pc[Reactor] = "register" =>
       /\ error_callbacks_[fd_[this[Reactor]]] = this[Reactor]
       /\ clients_[fd_[this[Reactor]]] # this[Reactor]
  /\ \A e \in batch : e # Listen => error_callbacks_[e.fd] # NoConn

(* A thread works on an object that lives, and a Socket holds the          *)
(* descriptor of its object or none; one that is closed and not forgotten  *)
(* is not open.                                                            *)
SocketInv ==
  /\ \A c \in Conns : socket_[c] \in {fd_[c], NoFd}
  /\ \A t \in Threads : this[t] # NoConn => fd_[this[t]] \in Fds
  /\ \A t \in Threads : pc[t] = "closeSys" => fdReg[t] = fd_[this[t]]
  /\ \A t \in Threads : pc[t] = "closeForget" => this[t] \notin Open

(* An object that was deleted has no descriptor, and neither has one that  *)
(* is still to be made.                                                    *)
LifeInv ==
  /\ \A c \in destroyed : fd_[c] = NoFd
  /\ \A c \in Conns : peer[c] = "unused" \/ c \in Waiting =>
                       fd_[c] = NoFd /\ c \notin destroyed
  /\ \A c \in Waiting : peer[c] # "unused"
  /\ \A i, j \in DOMAIN backlog : backlog[i] = backlog[j] => i = j

(* What NoLostEvent says of one connection, and that the connection that   *)
(* is being registered has its edge, for a task would not find it yet.     *)
Due(c) == inbox[c] # << >> \/ peer[c] \in {"fin", "rst"}

Expected(c) ==
  \/ c \in edges
  \/ \E e \in batch : e.fd = fd_[c]
  \/ \E i \in DOMAIN tasks_ : tasks_[i] = fd_[c]
  \/ \E w \in Workers : pc[w] = "lock" /\ fdReg[w] = fd_[c]
  \/ \E t \in Threads : this[t] = c /\ pc[t] \in {"recv"} \cup Closing

EventInv ==
  /\ \A c \in Open : Due(c) => Expected(c)
  /\ pc[Reactor] = "register" /\ this[Reactor] \in Open /\ Due(this[Reactor])
       => this[Reactor] \in edges

(* A handler has its request at the front of the buffer.                   *)
HandlerInv ==
  \A w \in Workers :
    /\ pc[w] \in Reading \ {"recv", "parse"} => buffer_[this[w]] # << >>
    /\ pc[w] \in {"login", "register"} => Request1(w).type # "CHAT"
    /\ pc[w] \in {"store", "lookup", "forward"} => Request1(w).type = "CHAT"
    /\ pc[w] \in {"lookup", "forward"} => Request1(w).msg \in messages
    /\ pc[w] \in {"onlineMap", "onlineTable"} => user_id_[this[w]] \in Users

-----------------------------------------------------------------------------
(* Sequences and descriptors.                                              *)

LEMMA LowestFreeIsFree == FreeFds # {} => LowestFree \in FreeFds
<1> SUFFICES ASSUME FreeFds # {}
             PROVE  LowestFree \in FreeFds
    OBVIOUS
<1>1. FreeFds \subseteq Nat
  BY StateAssumption DEF FreeFds
<1>2. \E f \in FreeFds : \A g \in FreeFds : ~ (<<g, f>> \in OpToRel(<, Nat))
  BY <1>1, WFMin, NatLessThanWellFounded
<1>3. \A a, b \in Nat : a < b => <<a, b>> \in OpToRel(<, Nat)
  BY DEF OpToRel
<1>4. \E f \in FreeFds : \A g \in FreeFds : ~ (g < f)
  BY <1>1, <1>2, <1>3, Zenon
<1>5. \E f \in FreeFds : \A g \in FreeFds : f <= g
  BY <1>1, <1>4
<1> QED
  BY <1>5 DEF LowestFree

LEMMA PendingTypes ==
  /\ Pending \subseteq Requests
  /\ \A r \in Pending : /\ r.type # "CHAT" => r.user \in Users
                        /\ r.type = "CHAT" => r.msg \in sent
BY DEF Pending, Requests

(* Threads, and what they hold.                                            *)
LEMMA ThreadFacts ==
  /\ NoConn \notin Conns /\ Reactor \in Threads /\ Workers \subseteq Threads
  /\ \A w \in Workers : w # Reactor /\ w # NoThread
  /\ NoFd \notin Fds
BY StateAssumption DEF Threads, NoFd

-----------------------------------------------------------------------------
(* What the steps leave alone.                                             *)

ClientStep(c) ==
  \/ Connect(c)
  \/ \E u \in Users : SendRegister(c, u) \/ SendLogin(c, u) \/ SendChat(c, u)
  \/ \E how \in {"fin", "rst"} : Hangup(c, how)

LEMMA ReadFrame ==
  ASSUME NEW w \in Workers, ReadStep(w)
  PROVE  UNCHANGED <<fdTable, backlog, listenEdge, account, sent, crashes, this, fd_, socket_,
                     clients_, error_callbacks_, batch, tasks_, client_mutex_, destroyed>>
<1>1. CASE Recv(w) \/ Parse(w) \/ Login(w) \/ Register(w)
  BY <1>1 DEF Recv, Parse, Login, Register, kernelVars, outsideVars, reactorVars
<1>2. CASE OnlineMap(w) \/ OnlineTable(w)
  BY <1>2 DEF OnlineMap, OnlineTable, kernelVars, outsideVars, connVars, reactorVars
<1>3. CASE LoginResp(w) \/ Push(w) \/ Forward(w)
  BY <1>3 DEF LoginResp, Push, Forward, Transmit, connVars, reactorVars
<1>4. CASE GetOffline(w) \/ Store(w) \/ Lookup(w)
  BY <1>4 DEF GetOffline, Store, Lookup, LookupReceiver, kernelVars, outsideVars, reactorVars
<1> QED
  BY <1>1, <1>2, <1>3, <1>4 DEF ReadStep

(* One call of recv takes the first request of a connection, or nothing.   *)
LEMMA RecvMoves ==
  ASSUME NEW w \in Workers, Recv(w), TypeInv, ThreadInv
  PROVE  /\ this[w] \in Conns
         /\ \/ UNCHANGED <<inbox, buffer_>>
            \/ \E d \in Conns :
                 /\ inbox[d] # << >>
                 /\ socket_[this[w]] \in Fds /\ d = fdTable[socket_[this[w]]]
                 /\ inbox' = [inbox EXCEPT ![d] = Tail(@)]
                 /\ buffer_' = [buffer_ EXCEPT ![this[w]] = Append(@, Head(inbox[d]))]
                 /\ pc' = [pc EXCEPT ![w] = "recv"]
<1>1. this[w] \in Conns
  BY ThreadFacts DEF Recv, ThreadInv, TypeInv, ThreadsTyped
<1>2. socket_[this[w]] \in Fds \cup {NoFd}
  BY <1>1 DEF TypeInv, ConnsTyped
<1> DEFINE source == IF socket_[this[w]] = NoFd THEN NoConn ELSE fdTable[socket_[this[w]]]
<1>3. CASE /\ source # NoConn /\ inbox[source] # << >>
           /\ buffer_' = [buffer_ EXCEPT ![this[w]] = Append(@, Head(inbox[source]))]
           /\ inbox' = [inbox EXCEPT ![source] = Tail(@)]
           /\ pc' = [pc EXCEPT ![w] = MoreData]
  <2>1. socket_[this[w]] \in Fds /\ source = fdTable[socket_[this[w]]]
    BY <1>2, <1>3
  <2>2. source \in Conns
    BY <1>3, <2>1 DEF TypeInv, KernelTyped
  <2> QED
    BY <1>1, <1>3, <2>1, <2>2 DEF MoreData
<1> QED
  BY <1>1, <1>3 DEF Recv

LEMMA CloseFrame ==
  ASSUME NEW t \in Threads, CloseStep(t)
  PROVE  UNCHANGED <<backlog, listenEdge, account, sent, welcomed, got, crashes, fetched, users, messages, offline,
                     fd_, user_id_, buffer_, clients_, error_callbacks_, batch, tasks_, client_mutex_, destroyed>>
BY DEF CloseStep, OfflineMap, OfflineTable, CloseCheck, CloseSys, CloseForget, SysClose,
       UserOfflineMap, UserOfflineTable, kernelVars, outsideVars, userVars, messageVars, connVars, reactorVars

-----------------------------------------------------------------------------
(* The kernel and the clients keep their types.                            *)

LEMMA TransmitTypes ==
  ASSUME KernelTyped, OutsideTyped, NEW f \in Fds \cup {NoFd}, NEW cs, NEW ms,
         Transmit(f, cs, ms)
  PROVE  KernelTyped' /\ OutsideTyped'
<1>1. Pending' = Pending /\ Open' = Open
  BY DEF Transmit, Pending, Open
<1> QED
  BY <1>1 DEF Transmit, KernelTyped, OutsideTyped, Open

LEMMA SysCloseTypes ==
  ASSUME KernelTyped, OutsideTyped, NEW f \in Fds, SysClose(f)
  PROVE  KernelTyped' /\ OutsideTyped'
<1>1. Pending' = Pending
  BY DEF SysClose, Pending, outsideVars
<1>2. CASE fdTable[f] = NoConn
  BY <1>1, <1>2 DEF SysClose, KernelTyped, OutsideTyped, Open, kernelVars, outsideVars
<1>3. CASE fdTable[f] # NoConn
  <2>1. fdTable[f] \in Conns /\ << >> \in Seq(Pending)
    BY <1>3 DEF KernelTyped
  <2>2. inbox' \in [Conns -> Seq(Pending)]
    BY <1>3, <2>1 DEF SysClose, KernelTyped
  <2>3. fdTable' \in [Fds -> Conns \cup {NoConn}] /\ edges' \subseteq Open'
    BY <1>3, <2>1 DEF SysClose, KernelTyped, Open
  <2>4. /\ UNCHANGED <<backlog, listenEdge, account, sent>>
        /\ peer' = [peer EXCEPT ![fdTable[f]] = "gone"]
    BY <1>3 DEF SysClose
  <2> QED
    BY <1>1, <2>1, <2>2, <2>3, <2>4 DEF KernelTyped, OutsideTyped
<1> QED
  BY <1>2, <1>3

LEMMA RequestTypes ==
  ASSUME KernelTyped, OutsideTyped, NEW c \in Conns, NEW r \in Pending', Request(c, r),
         sent \subseteq sent' /\ sent' \subseteq Chats /\ IsFiniteSet(sent'),
         account' \in [Conns -> Users \cup {NoUser}]
  PROVE  KernelTyped' /\ OutsideTyped'
<1>1. Pending \subseteq Pending'
  BY DEF Pending
<1>2. \A d \in Conns : inbox[d] \in Seq(Pending')
  BY <1>1, SeqMonotonic DEF KernelTyped
<1>3. Append(inbox[c], r) \in Seq(Pending')
  BY <1>2
<1>4. inbox' \in [Conns -> Seq(Pending')]
  BY <1>2, <1>3 DEF Request, KernelTyped
<1> QED
  BY <1>4 DEF Request, KernelTyped, OutsideTyped, Open

LEMMA WorldTypes ==
  ASSUME TypeInv, ThreadInv, SocketInv, Next
  PROVE  KernelTyped' /\ OutsideTyped'
<1> USE DEF TypeInv
<1>1. ASSUME NEW c \in Conns, Connect(c)
      PROVE  KernelTyped' /\ OutsideTyped'
  <2>1. Append(backlog, c) \in Seq(Conns) /\ Pending' = Pending
    BY <1>1 DEF KernelTyped, Connect, Pending
  <2> QED
    BY <1>1, <2>1 DEF Connect, KernelTyped, OutsideTyped, Open
<1>2. ASSUME NEW c \in Conns, NEW u \in Users, SendRegister(c, u) \/ SendLogin(c, u)
      PROVE  KernelTyped' /\ OutsideTyped'
  <2>1. PICK r \in {[type |-> "LOGIN", user |-> u], [type |-> "REGISTER", user |-> u]} :
          Request(c, r) /\ sent' = sent
    BY <1>2 DEF SendRegister, SendLogin
  <2>2. r \in Pending'
    BY <2>1 DEF Pending, Requests
  <2>3. account' \in [Conns -> Users \cup {NoUser}]
    BY <1>2 DEF SendRegister, SendLogin, OutsideTyped
  <2> QED
    BY <2>1, <2>2, <2>3, RequestTypes DEF OutsideTyped
<1>3. ASSUME NEW c \in Conns, NEW u \in Users, SendChat(c, u)
      PROVE  KernelTyped' /\ OutsideTyped'
  <2> DEFINE m == [id |-> Cardinality(sent) + 1, from |-> account[c], to |-> u]
  <2>1. Cardinality(sent) \in Nat
    BY FS_CardinalityType DEF OutsideTyped
  <2>2. m \in Chats
    BY <1>3, <2>1 DEF SendChat, Chats, OutsideTyped
  <2>3. /\ sent' = sent \cup {m} /\ account' = account
        /\ Request(c, [type |-> "CHAT", msg |-> m])
    BY <1>3 DEF SendChat
  <2>4. IsFiniteSet(sent \cup {m})
    BY FS_AddElement DEF OutsideTyped
  <2>5. [type |-> "CHAT", msg |-> m] \in Pending'
    BY <2>2, <2>3 DEF Pending, Requests, Chats
  <2> QED
    BY <2>2, <2>3, <2>4, <2>5, RequestTypes DEF OutsideTyped
<1>4. ASSUME NEW c \in Conns, NEW how \in {"fin", "rst"}, Hangup(c, how)
      PROVE  KernelTyped' /\ OutsideTyped'
  <2>1. Pending' = Pending
    BY <1>4 DEF Hangup, Pending
  <2> QED
    BY <1>4, <2>1 DEF Hangup, KernelTyped, OutsideTyped, Open
<1>5. CASE Crash
  <2>1. << >> \in Seq(Pending') /\ << >> \in Seq(Conns)
    OBVIOUS
  <2> QED
    BY <1>5, <2>1 DEF Crash, KernelTyped, OutsideTyped, Open
<1>6. ASSUME NEW w \in Workers, LoginResp(w) \/ Push(w) \/ Forward(w)
      PROVE  KernelTyped' /\ OutsideTyped'
  <2>1. this[w] \in Conns /\ fdReg[w] \in Fds \cup {NoFd}
    BY <1>6, ThreadFacts DEF LoginResp, Push, Forward, Go, ThreadInv, ThreadsTyped
  <2>2. socket_[this[w]] \in Fds \cup {NoFd}
    BY <2>1 DEF ConnsTyped
  <2>3. \E f \in Fds \cup {NoFd}, cs \in {Conns, {}}, ms \in {<< >>, <<Request1(w).msg>>} \cup {<<m>> : m \in fetched[w]} :
           Transmit(f, cs, ms)
    BY <1>6, <2>1, <2>2 DEF LoginResp, Push, Forward
  <2> QED
    BY <2>3, TransmitTypes
<1>7. ASSUME NEW w \in Workers, Recv(w)
      PROVE  KernelTyped' /\ OutsideTyped'
  <2>1. Pending' = Pending
    BY <1>7 DEF Recv, Pending, outsideVars
  <2>2. inbox' \in [Conns -> Seq(Pending)]
    <3>1. CASE inbox' = inbox
      BY <3>1 DEF KernelTyped
    <3>2. CASE inbox' # inbox
      <4>1. PICK d \in Conns : inbox[d] # << >> /\ inbox' = [inbox EXCEPT ![d] = Tail(@)]
        BY <1>7, <3>2, RecvMoves
      <4>2. Tail(inbox[d]) \in Seq(Pending)
        BY <4>1, TailElements DEF KernelTyped
      <4> QED
        BY <4>1, <4>2 DEF KernelTyped
    <3> QED
      BY <3>1, <3>2
  <2> QED
    BY <1>7, <2>1, <2>2 DEF Recv, KernelTyped, OutsideTyped, Open, outsideVars
<1>8. ASSUME NEW t \in Threads, CloseSys(t)
      PROVE  KernelTyped' /\ OutsideTyped'
  BY <1>8, SysCloseTypes DEF CloseSys, Go, ThreadInv
<1>9. CASE EpollWait
  <2>1. Pending' = Pending
    BY <1>9 DEF EpollWait, Pending, outsideVars
  <2> QED
    BY <1>9, <2>1 DEF EpollWait, KernelTyped, OutsideTyped, Open, outsideVars
<1>10. CASE Accept
  <2>1. Pending' = Pending /\ LowestFree \in Fds /\ fdTable[LowestFree] = NoConn
    BY <1>10, LowestFreeIsFree DEF Accept, Pending, outsideVars, FreeFds
  <2>2. Head(backlog) \in Conns /\ Tail(backlog) \in Seq(Conns)
    BY <1>10, TailElements DEF Accept, KernelTyped
  <2>3. fdTable' \in [Fds -> Conns \cup {NoConn}] /\ edges' \subseteq Open'
    BY <1>10, <2>1, <2>2, ThreadFacts DEF Accept, KernelTyped, Open
  <2> QED
    BY <1>10, <2>1, <2>2, <2>3 DEF Accept, KernelTyped, OutsideTyped, outsideVars
<1>11. CASE RegisterClient
  <2>1. this[Reactor] \in Conns
    BY <1>11, ThreadFacts DEF RegisterClient, ReplaceClient, Go, ThreadInv, ThreadsTyped
  <2>2. CASE UNCHANGED <<kernelVars, outsideVars>>
    BY <2>2 DEF kernelVars, outsideVars, KernelTyped, OutsideTyped, Open, Pending
  <2>3. CASE ~UNCHANGED <<kernelVars, outsideVars>>
    <3> DEFINE old == clients_[fd_[this[Reactor]]]
    <3>1. old # NoConn /\ socket_[old] # NoFd /\ SysClose(socket_[old])
      BY <1>11, <2>3 DEF RegisterClient, ReplaceClient
    <3>2. socket_[old] \in Fds
      BY <3>1, <2>1, ThreadFacts DEF ConnsTyped, ReactorTyped, SocketInv
    <3> QED
      BY <3>1, <3>2, SysCloseTypes
  <2> QED
    BY <2>2, <2>3
<1>12. ASSUME UNCHANGED <<kernelVars, outsideVars>>
       PROVE  KernelTyped' /\ OutsideTyped'
  BY <1>12 DEF kernelVars, outsideVars, KernelTyped, OutsideTyped, Open, Pending
<1>13. CASE DispatchListen \/ AcceptEnd \/ \E e \in batch : DispatchError(e) \/ DispatchRead(e)
  BY <1>13, <1>12 DEF DispatchListen, AcceptEnd, DispatchError, DispatchRead
<1>14. ASSUME NEW t \in Threads,
              OfflineMap(t) \/ OfflineTable(t) \/ CloseCheck(t) \/ CloseForget(t)
       PROVE  KernelTyped' /\ OutsideTyped'
  BY <1>14, <1>12 DEF OfflineMap, OfflineTable, CloseCheck, CloseForget
<1>15. ASSUME NEW w \in Workers, TakeTask(w) \/ LockClient(w) \/ UnlockClient(w)
       PROVE  KernelTyped' /\ OutsideTyped'
  BY <1>15, <1>12 DEF TakeTask, LockClient, UnlockClient
<1>16. ASSUME NEW w \in Workers, \/ Parse(w) \/ Login(w) \/ Register(w) \/ OnlineMap(w)
                                 \/ OnlineTable(w) \/ GetOffline(w) \/ Store(w) \/ Lookup(w)
       PROVE  KernelTyped' /\ OutsideTyped'
  BY <1>16, <1>12 DEF Parse, Login, Register, OnlineMap, OnlineTable, GetOffline, Store, Lookup
<1> QED
  BY <1>1, <1>2, <1>3, <1>4, <1>5, <1>6, <1>7, <1>8, <1>9, <1>10, <1>11, <1>13, <1>14,
     <1>15, <1>16, ThreadFacts DEF Next, ReactorStep, WorkerStep, ReadStep, CloseStep

-----------------------------------------------------------------------------
(* The threads.                                                            *)

(* handleRead goes on inside handleRead, or enters handleClose.            *)
ReadsOn(w) ==
  /\ pc[w] \in Reading
  /\ \E p \in Reading \cup {"offlineMap", "closeCheck"} :
       /\ pc' = [pc EXCEPT ![w] = p]
       /\ p = "forward" => fdReg'[w] \in Fds
  /\ fdReg' \in [Threads -> Fds \cup {NoFd}]
  /\ \A t \in Threads : t # w => fdReg'[t] = fdReg[t]

LEMMA ReadControl ==
  ASSUME TypeInv, ThreadInv, HandlerInv, NEW w \in Workers, ReadStep(w)
  PROVE  ReadsOn(w)
<1> USE DEF Reading
<1>1. ASSUME UNCHANGED fdReg, pc[w] \in Reading,
             \E p \in (Reading \ {"forward"}) \cup {"offlineMap", "closeCheck"} :
               pc' = [pc EXCEPT ![w] = p]
      PROVE  ReadsOn(w)
  BY <1>1 DEF TypeInv, ThreadsTyped, ReadsOn
<1>2. CASE Recv(w)
  BY <1>2, <1>1 DEF Recv, MoreData, AfterRecv, CloseEntry
<1>3. CASE Parse(w) \/ Login(w) \/ Register(w)
  BY <1>3, <1>1 DEF Parse, Handler, Login, Register, Go
<1>4. CASE OnlineMap(w) \/ OnlineTable(w) \/ LoginResp(w)
  BY <1>4, <1>1 DEF OnlineMap, UserOnlineMap, OnlineTable, UserOnlineTable, LoginResp, Go
<1>5. CASE GetOffline(w) \/ Push(w) \/ Store(w) \/ Forward(w)
  BY <1>5, <1>1 DEF GetOffline, GetOfflineMessage, Push, Store, StoreMessage, Forward, Go
<1>6. CASE Lookup(w)
  <2> DEFINE u == Request1(w).msg.to
  <2>1. u \in Users
    BY <1>6, ThreadFacts DEF Lookup, LookupReceiver, HandlerInv, TypeInv, MessagesTyped, OutsideTyped,
          Chats
  <2>2. online_users_[u] \in Fds \cup {NoFd}
    BY <2>1 DEF TypeInv, UsersTyped
  <2>3. /\ pc[w] = "lookup" /\ fdReg' = [fdReg EXCEPT ![w] = online_users_[u]]
        /\ pc' = [pc EXCEPT ![w] = IF online_users_[u] # NoFd THEN "forward" ELSE "parse"]
    BY <1>6 DEF Lookup, LookupReceiver, isUserOnline, getSocketFdByUserId
  <2>4. \A t \in Threads : fdReg'[t] = IF t = w THEN online_users_[u] ELSE fdReg[t]
    BY <2>3 DEF TypeInv, ThreadsTyped
  <2>5. fdReg' \in [Threads -> Fds \cup {NoFd}]
    BY <2>2, <2>3 DEF TypeInv, ThreadsTyped
  <2>6. CASE online_users_[u] # NoFd
    BY <2>2, <2>3, <2>4, <2>5, <2>6, ThreadFacts DEF ReadsOn
  <2>7. CASE online_users_[u] = NoFd
    BY <2>3, <2>4, <2>5, <2>7 DEF ReadsOn
  <2> QED
    BY <2>6, <2>7
<1> QED
  BY <1>2, <1>3, <1>4, <1>5, <1>6 DEF ReadStep

(* handleClose goes on, or returns.                                        *)
ClosesOn(t) ==
  /\ pc[t] \in Closing
  /\ \/ /\ \E p \in {"offlineTable", "closeCheck", "closeSys", "closeForget"} :
              /\ pc' = [pc EXCEPT ![t] = p]
              /\ p = "closeSys" => fdReg'[t] = socket_[this[t]] /\ fdReg'[t] # NoFd
        /\ UNCHANGED this
     \/ /\ pc' = [pc EXCEPT ![t] = IF t = Reactor THEN "dispatch" ELSE "closed"]
        /\ this' = IF t = Reactor THEN [this EXCEPT ![t] = NoConn] ELSE this
  /\ fdReg' \in [Threads -> Fds \cup {NoFd}]
  /\ \A s \in Threads : s # t => fdReg'[s] = fdReg[s]

LEMMA CloseControl ==
  ASSUME TypeInv, ThreadInv, NEW t \in Threads, CloseStep(t)
  PROVE  ClosesOn(t)
<1> USE DEF Closing
<1>1. CASE OfflineMap(t) \/ OfflineTable(t)
  BY <1>1 DEF OfflineMap, UserOfflineMap, OfflineTable, UserOfflineTable, Go, ClosesOn, TypeInv,
     ThreadsTyped
<1>2. CASE CloseCheck(t)
  <2>1. this[t] \in Conns /\ socket_[this[t]] \in Fds \cup {NoFd}
    BY <1>2, ThreadFacts DEF CloseCheck, ThreadInv, Threads, TypeInv, ThreadsTyped, ConnsTyped
  <2>2. CASE socket_[this[t]] = NoFd
    BY <1>2, <2>2 DEF CloseCheck, CloseReturns, ClosesOn, TypeInv, ThreadsTyped
  <2>3. CASE socket_[this[t]] # NoFd
    BY <1>2, <2>1, <2>3 DEF CloseCheck, ClosesOn, TypeInv, ThreadsTyped
  <2> QED
    BY <2>2, <2>3
<1>3. CASE CloseSys(t)
  BY <1>3 DEF CloseSys, Go, ClosesOn, TypeInv, ThreadsTyped
<1>4. CASE CloseForget(t)
  BY <1>4 DEF CloseForget, CloseReturns, ClosesOn, TypeInv, ThreadsTyped
<1> QED
  BY <1>1, <1>2, <1>3, <1>4 DEF CloseStep

LEMMA ThreadStep ==
  ASSUME TypeInv, ThreadInv, SocketInv, TablesInv, HandlerInv, Next
  PROVE  ThreadsTyped' /\ ThreadInv'
<1> USE DEF TypeInv, ThreadsTyped, ThreadInv
<1>1. ASSUME NEW w \in Workers, ReadStep(w)
      PROVE  ThreadsTyped' /\ ThreadInv'
  <2>1. ReadsOn(w) /\ this' = this /\ client_mutex_' = client_mutex_
    BY <1>1, ReadControl, ReadFrame
  <2>2. PICK p \in Reading \cup {"offlineMap", "closeCheck"} :
          pc' = [pc EXCEPT ![w] = p] /\ (p = "forward" => fdReg'[w] \in Fds)
    BY <2>1 DEF ReadsOn
  <2>3. pc'[w] = p /\ \A t \in Threads : t # w => pc'[t] = pc[t]
    BY <2>2, ThreadFacts
  <2>4. ThreadsTyped'
    BY <2>1, <2>2 DEF ReadsOn, Closing
  <2> QED
    BY <2>1, <2>2, <2>3, <2>4, ThreadFacts DEF ReadsOn, Reading, Closing
<1>2. ASSUME NEW t \in Threads, CloseStep(t)
      PROVE  ThreadsTyped' /\ ThreadInv'
  <2>1. ClosesOn(t) /\ client_mutex_' = client_mutex_
    BY <1>2, CloseControl, CloseFrame
  <2> QED
    BY <2>1, ThreadFacts DEF ClosesOn, Reading, Closing, Threads
<1>3. ASSUME UNCHANGED <<pc, this, fdReg, client_mutex_>>
      PROVE  ThreadsTyped' /\ ThreadInv'
  BY <1>3
<1>4. CASE EpollWait \/ \E e \in batch : DispatchRead(e)
  BY <1>4, <1>3 DEF EpollWait, DispatchRead, threadVars
<1>5. CASE DispatchListen \/ AcceptEnd
  BY <1>5, ThreadFacts DEF DispatchListen, AcceptEnd, Go, reactorVars, Reading, Closing
<1>6. ASSUME NEW e \in batch, DispatchError(e)
      PROVE  ThreadsTyped' /\ ThreadInv'
  <2>1. e.fd \in Fds /\ error_callbacks_[e.fd] # NoConn
    BY <1>6 DEF DispatchError, TablesInv, ReactorTyped, Events, Listen
  <2>2. error_callbacks_[e.fd] \in Conns
    BY <2>1 DEF ReactorTyped
  <2> QED
    BY <1>6, <2>2, ThreadFacts DEF DispatchError, CloseEntry, Go, Reading, Closing
<1>7. CASE Accept
  <2>1. Head(backlog) \in Conns
    BY <1>7, TailElements DEF Accept, KernelTyped
  <2> QED
    BY <1>7, <2>1, ThreadFacts DEF Accept, Go, Reading, Closing
<1>8. CASE RegisterClient
  BY <1>8, ThreadFacts DEF RegisterClient, ReplaceClient, NextAccept, Go, Reading, Closing
<1>9. ASSUME NEW w \in Workers, TakeTask(w)
      PROVE  ThreadsTyped' /\ ThreadInv'
  <2>1. Head(tasks_) \in Fds
    BY <1>9, TailElements DEF TakeTask, ReactorTyped
  <2> QED
    BY <1>9, <2>1, ThreadFacts DEF TakeTask, Go, Reading, Closing
<1>10. ASSUME NEW w \in Workers, LockClient(w)
       PROVE  ThreadsTyped' /\ ThreadInv'
  <2>1. clients_[fdReg[w]] \in Conns \cup {NoConn}
    BY <1>10, ThreadFacts DEF LockClient, Go, ReactorTyped
  <2> QED
    BY <1>10, <2>1, ThreadFacts DEF LockClient, Go, Reading, Closing
<1>11. ASSUME NEW w \in Workers, UnlockClient(w)
       PROVE  ThreadsTyped' /\ ThreadInv'
  BY <1>11, ThreadFacts DEF UnlockClient, Reading, Closing
<1>12. CASE Crash
  BY <1>12, ThreadFacts DEF Crash, Reading, Closing
<1>13. ASSUME NEW c \in Conns, ClientStep(c)
       PROVE  ThreadsTyped' /\ ThreadInv'
  BY <1>13, <1>3 DEF ClientStep, Connect, SendRegister, SendLogin, SendChat, Request, Hangup,
     serverVars, threadVars, reactorVars
<1> QED
  BY <1>1, <1>2, <1>4, <1>5, <1>6, <1>7, <1>8, <1>9, <1>10, <1>11, <1>12, <1>13, ThreadFacts
     DEF Next, ClientStep, ReactorStep, WorkerStep

-----------------------------------------------------------------------------
(* The users, the messages, the objects and the tables of the reactor.     *)

(* The connection a worker inside handleRead works on, and its request.    *)
LEMMA HandlerFacts ==
  ASSUME TypeInv, ThreadInv, HandlerInv, NEW w \in Workers,
         pc[w] \in Reading \ {"recv", "parse"}
  PROVE  /\ this[w] \in Conns /\ Request1(w) \in Pending
         /\ Tail(buffer_[this[w]]) \in Seq(Pending)
<1>1. this[w] \in Conns /\ this[w] # NoConn
  BY ThreadFacts DEF TypeInv, ThreadsTyped, ThreadInv, Reading
<1>2. buffer_[this[w]] \in Seq(Pending) /\ buffer_[this[w]] # << >>
  BY <1>1 DEF TypeInv, ConnsTyped, HandlerInv
<1> QED
  BY <1>1, <1>2, TailElements DEF Request1

LEMMA UserTypes ==
  ASSUME TypeInv, ThreadInv, HandlerInv, Next
  PROVE  UsersTyped'
<1> USE DEF UsersTyped
<1>1. ASSUME UNCHANGED <<users, online_users_, online_table>>
      PROVE  UsersTyped'
  BY <1>1 DEF TypeInv
<1>2. ASSUME NEW w \in Workers, Login(w) \/ Register(w)
      PROVE  UsersTyped'
  <2>1. CASE Login(w)
    BY <2>1, <1>1 DEF Login
  <2>2. CASE Register(w)
    <3>1. Request1(w).user \in Users
      BY <2>2, HandlerFacts, PendingTypes DEF Register, Go, HandlerInv, Reading
    <3> QED
      BY <2>2, <3>1 DEF Register, registerUser, TypeInv
  <2> QED
    BY <1>2, <2>1, <2>2
<1>3. ASSUME NEW w \in Workers, OnlineMap(w) \/ OnlineTable(w)
      PROVE  UsersTyped'
  <2>1. user_id_[this[w]] \in Users /\ fd_[this[w]] \in Fds \cup {NoFd}
    BY <1>3, HandlerFacts
       DEF OnlineMap, UserOnlineMap, OnlineTable, UserOnlineTable, Go, HandlerInv, Reading, TypeInv,
           ConnsTyped
  <2> QED
    BY <1>3, <2>1 DEF OnlineMap, UserOnlineMap, OnlineTable, UserOnlineTable, TypeInv
<1>4. ASSUME NEW t \in Threads, CloseStep(t)
      PROVE  UsersTyped'
  BY <1>4 DEF CloseStep, OfflineMap, UserOfflineMap, OfflineTable, UserOfflineTable, CloseCheck,
     CloseSys, CloseForget, userVars, TypeInv
<1>5. ASSUME NEW w \in Workers, \/ Recv(w) \/ Parse(w) \/ LoginResp(w) \/ GetOffline(w)
                                \/ Push(w) \/ Store(w) \/ Lookup(w) \/ Forward(w)
                                \/ TakeTask(w) \/ LockClient(w) \/ UnlockClient(w)
      PROVE  UsersTyped'
  BY <1>5, <1>1 DEF Recv, Parse, LoginResp, GetOffline, GetOfflineMessage, Push, Store,
     StoreMessage, Lookup, Forward, TakeTask, LockClient, UnlockClient, userVars
<1>6. CASE \/ EpollWait \/ DispatchListen \/ AcceptEnd \/ Accept \/ RegisterClient
           \/ \E e \in batch : DispatchError(e) \/ DispatchRead(e)
  BY <1>6, <1>1 DEF EpollWait, DispatchListen, AcceptEnd, Accept, RegisterClient, ReplaceClient,
     DispatchError, DispatchRead, userVars
<1>7. ASSUME NEW c \in Conns, ClientStep(c)
      PROVE  UsersTyped'
  BY <1>7, <1>1 DEF ClientStep, Connect, SendRegister, SendLogin, SendChat, Request, Hangup,
     serverVars, userVars
<1>8. CASE Crash
  BY <1>8 DEF Crash, TypeInv
<1> QED
  BY <1>2, <1>3, <1>4, <1>5, <1>6, <1>7, <1>8, ThreadFacts
     DEF Next, ClientStep, ReactorStep, WorkerStep, ReadStep

LEMMA MessageTypes ==
  ASSUME TypeInv, ThreadInv, HandlerInv, Next
  PROVE  MessagesTyped'
<1> USE DEF MessagesTyped
<1>1. ASSUME UNCHANGED <<messages, offline, fetched>>, sent \subseteq sent'
      PROVE  MessagesTyped'
  BY <1>1 DEF TypeInv
<1>2. ASSUME NEW w \in Workers, Store(w)
      PROVE  MessagesTyped'
  <2>1. Request1(w).msg \in sent
    BY <1>2, HandlerFacts, PendingTypes DEF Store, StoreMessage, HandlerInv, Reading
  <2> QED
    BY <1>2, <2>1 DEF Store, StoreMessage, TypeInv, outsideVars
<1>3. ASSUME NEW w \in Workers, GetOffline(w)
      PROVE  MessagesTyped'
  BY <1>3, ThreadFacts DEF GetOffline, GetOfflineMessage, TypeInv, outsideVars
<1>4. ASSUME NEW w \in Workers, Push(w)
      PROVE  MessagesTyped'
  <2>1. sent' = sent /\ UNCHANGED <<messages, offline>>
    BY <1>4, ReadFrame DEF ReadStep, Push
  <2>2. \E m \in fetched[w] : fetched' = [fetched EXCEPT ![w] = @ \ {m}]
    BY <1>4 DEF Push
  <2> QED
    BY <2>1, <2>2, ThreadFacts DEF TypeInv
<1>5. ASSUME NEW w \in Workers, \/ Recv(w) \/ Parse(w) \/ Login(w) \/ Register(w)
                                \/ OnlineMap(w) \/ OnlineTable(w) \/ LoginResp(w)
                                \/ Lookup(w) \/ Forward(w)
      PROVE  MessagesTyped'
  <2>1. sent' = sent
    BY <1>5, ReadFrame DEF ReadStep
  <2> QED
    BY <1>5, <2>1, <1>1 DEF Recv, Parse, Login, Register, OnlineMap, OnlineTable, LoginResp,
       Lookup, LookupReceiver, Forward, messageVars
<1>6. ASSUME NEW t \in Threads, CloseStep(t)
      PROVE  MessagesTyped'
  BY <1>6, <1>1, CloseFrame
<1>7. ASSUME NEW w \in Workers, TakeTask(w) \/ LockClient(w) \/ UnlockClient(w)
      PROVE  MessagesTyped'
  BY <1>7, <1>1 DEF TakeTask, LockClient, UnlockClient, messageVars, outsideVars
<1>8. CASE \/ EpollWait \/ DispatchListen \/ AcceptEnd \/ Accept
           \/ \E e \in batch : DispatchError(e) \/ DispatchRead(e)
  BY <1>8, <1>1 DEF EpollWait, DispatchListen, AcceptEnd, Accept, DispatchError, DispatchRead,
     messageVars, outsideVars, threadVars
<1>9. CASE RegisterClient
  BY <1>9, <1>1 DEF RegisterClient, ReplaceClient, SysClose, messageVars, outsideVars
<1>10. ASSUME NEW c \in Conns, ClientStep(c)
       PROVE  MessagesTyped'
  BY <1>10, <1>1 DEF ClientStep, Connect, SendRegister, SendLogin, SendChat, Request, Hangup,
     serverVars, messageVars, threadVars
<1>11. CASE Crash
  BY <1>11 DEF Crash, TypeInv, messageVars
<1> QED
  BY <1>2, <1>3, <1>4, <1>5, <1>6, <1>7, <1>8, <1>9, <1>10, <1>11, ThreadFacts
     DEF Next, ClientStep, ReactorStep, WorkerStep, ReadStep

LEMMA EraseTypes ==
  ASSUME TypeInv, ThreadInv, HandlerInv, NEW w \in Workers,
         pc[w] \in Reading \ {"recv", "parse"}, Erase(w)
  PROVE  buffer_' \in [Conns -> Seq(Pending)]
BY HandlerFacts DEF Erase, TypeInv, ConnsTyped

LEMMA ConnTypes ==
  ASSUME TypeInv, ThreadInv, SocketInv, HandlerInv, Next
  PROVE  ConnsTyped'
<1>1. ASSUME UNCHANGED <<fd_, socket_, user_id_, sent>>, buffer_' \in [Conns -> Seq(Pending)]
      PROVE  ConnsTyped'
  <2>1. Pending' = Pending
    BY <1>1 DEF Pending
  <2> QED
    BY <1>1, <2>1 DEF TypeInv, ConnsTyped
<1>2. ASSUME UNCHANGED <<fd_, socket_, user_id_, buffer_>>, sent \subseteq sent'
      PROVE  ConnsTyped'
  <2>1. Pending \subseteq Pending'
    BY <1>2 DEF Pending
  <2>2. \A c \in Conns : buffer_[c] \in Seq(Pending')
    BY <2>1, SeqMonotonic DEF TypeInv, ConnsTyped
  <2> QED
    BY <1>2, <2>2 DEF TypeInv, ConnsTyped
<1>3. ASSUME NEW w \in Workers, Recv(w)
      PROVE  ConnsTyped'
  <2>1. UNCHANGED <<fd_, socket_, user_id_, sent>>
    BY <1>3 DEF Recv, outsideVars
  <2>2. CASE buffer_' = buffer_
    BY <2>1, <2>2, <1>2
  <2>3. CASE buffer_' # buffer_
    <3>1. PICK d \in Conns :
            /\ inbox[d] # << >>
            /\ buffer_' = [buffer_ EXCEPT ![this[w]] = Append(@, Head(inbox[d]))]
      BY <1>3, <2>3, RecvMoves
    <3>2. Head(inbox[d]) \in Pending
      BY <3>1, TailElements DEF TypeInv, KernelTyped
    <3>3. \A c \in Conns : Append(buffer_[c], Head(inbox[d])) \in Seq(Pending)
      BY <3>2 DEF TypeInv, ConnsTyped
    <3>4. buffer_' \in [Conns -> Seq(Pending)]
      BY <3>1, <3>3 DEF TypeInv, ConnsTyped
    <3> QED
      BY <2>1, <3>4, <1>1
  <2> QED
    BY <2>2, <2>3
<1>4. ASSUME NEW w \in Workers, Parse(w)
      PROVE  ConnsTyped'
  <2>1. this[w] \in Conns
    BY <1>4, ThreadFacts DEF Parse, ThreadInv, TypeInv, ThreadsTyped
  <2>2. buffer_[this[w]] \in Seq(Pending) /\ buffer_[this[w]] # << >>
    BY <1>4, <2>1 DEF Parse, TypeInv, ConnsTyped
  <2>3. Tail(buffer_[this[w]]) \in Seq(Pending)
    BY <2>2, TailElements
  <2>4. buffer_' \in [Conns -> Seq(Pending)]
    BY <1>4, <2>3 DEF Parse, TypeInv, ConnsTyped
  <2> QED
    BY <1>4, <2>4, <1>1 DEF Parse, outsideVars
<1>5. ASSUME NEW w \in Workers, Login(w)
      PROVE  ConnsTyped'
  <2>1. Request1(w).user \in Users /\ buffer_' \in [Conns -> Seq(Pending)]
    BY <1>5, HandlerFacts, EraseTypes, PendingTypes DEF Login, HandlerInv, Reading
  <2>2. user_id_' \in [Conns -> Users \cup {NoUser}]
    BY <1>5, <2>1 DEF Login, TypeInv, ConnsTyped
  <2>3. UNCHANGED <<fd_, socket_>> /\ Pending' = Pending
    BY <1>5 DEF Login, outsideVars, Pending
  <2> QED
    BY <2>1, <2>2, <2>3 DEF TypeInv, ConnsTyped
<1>6. ASSUME NEW w \in Workers, \/ Register(w) \/ GetOffline(w) \/ Push(w) \/ Store(w)
                                \/ Lookup(w) \/ Forward(w)
      PROVE  ConnsTyped'
  <2>1. UNCHANGED <<fd_, socket_, sent>>
    BY <1>6, ReadFrame DEF ReadStep
  <2>2. /\ pc[w] \in {"register", "getOffline", "push", "store", "lookup", "forward"}
        /\ Erase(w) /\ UNCHANGED user_id_
    BY <1>6 DEF Register, GetOffline, GetOfflineMessage, Push, Store, StoreMessage, Lookup,
       LookupReceiver, Forward, Go
  <2>3. buffer_' \in [Conns -> Seq(Pending)]
    BY <2>2, EraseTypes DEF Reading
  <2> QED
    BY <2>1, <2>2, <2>3, <1>1
<1>7. ASSUME NEW w \in Workers, OnlineMap(w) \/ OnlineTable(w) \/ LoginResp(w)
      PROVE  ConnsTyped'
  BY <1>7, <1>2, ReadFrame DEF ReadStep, OnlineMap, OnlineTable, LoginResp, connVars
<1>8. ASSUME NEW t \in Threads, CloseStep(t)
      PROVE  ConnsTyped'
  <2>1. /\ UNCHANGED <<fd_, user_id_, buffer_, sent>>
        /\ socket_' = socket_ \/ socket_' = [socket_ EXCEPT ![this[t]] = NoFd]
    BY <1>8, CloseFrame DEF CloseStep, OfflineMap, OfflineTable, CloseCheck, CloseSys,
       CloseForget, connVars
  <2> QED
    BY <2>1 DEF TypeInv, ConnsTyped, Pending
<1>9. CASE Accept
  <2>1. LowestFree \in Fds
    BY <1>9, LowestFreeIsFree DEF Accept, FreeFds
  <2> QED
    BY <1>9, <2>1 DEF Accept, TypeInv, ConnsTyped, Pending, outsideVars
<1>10. CASE RegisterClient
  <2>1. sent' = sent /\ << >> \in Seq(Pending)
    BY <1>10 DEF RegisterClient, ReplaceClient, SysClose, outsideVars
  <2>2. \/ UNCHANGED <<fd_, socket_, user_id_, buffer_>>
        \/ \E old : /\ fd_' = [fd_ EXCEPT ![old] = NoFd]
                    /\ socket_' = [socket_ EXCEPT ![old] = NoFd]
                    /\ user_id_' = [user_id_ EXCEPT ![old] = NoUser]
                    /\ buffer_' = [buffer_ EXCEPT ![old] = << >>]
    BY <1>10 DEF RegisterClient, ReplaceClient, connVars
  <2> QED
    BY <2>1, <2>2 DEF TypeInv, ConnsTyped, Pending
<1>11. CASE \/ EpollWait \/ DispatchListen \/ AcceptEnd
            \/ \E e \in batch : DispatchError(e) \/ DispatchRead(e)
            \/ \E w \in Workers : TakeTask(w) \/ LockClient(w) \/ UnlockClient(w)
  BY <1>11, <1>2 DEF EpollWait, DispatchListen, AcceptEnd, DispatchError, DispatchRead, TakeTask,
     LockClient, UnlockClient, connVars, outsideVars
<1>12. ASSUME NEW c \in Conns, ClientStep(c)
       PROVE  ConnsTyped'
  BY <1>12, <1>2 DEF ClientStep, Connect, SendRegister, SendLogin, SendChat, Request, Hangup,
     serverVars, connVars
<1>13. CASE Crash
  <2>1. << >> \in Seq(Pending)
    OBVIOUS
  <2> QED
    BY <1>13, <2>1 DEF Crash, ConnsTyped, Pending
<1> QED
  BY <1>3, <1>4, <1>5, <1>6, <1>7, <1>8, <1>9, <1>10, <1>11, <1>12, <1>13, ThreadFacts
     DEF Next, ClientStep, ReactorStep, WorkerStep, ReadStep

LEMMA ReactorTypes ==
  ASSUME TypeInv, ThreadInv, TablesInv, SocketInv, Next
  PROVE  ReactorTyped'
<1> USE DEF ReactorTyped
<1>1. ASSUME UNCHANGED <<clients_, error_callbacks_, batch, tasks_, destroyed>>
      PROVE  ReactorTyped'
  BY <1>1 DEF TypeInv, Events, Listen
<1>2. CASE EpollWait
  <2>1. \A c \in edges : fd_[c] \in Fds
    BY DEF TypeInv, KernelTyped, Open, TablesInv
  <2>2. batch' \subseteq Events \cup {Listen}
    BY <1>2, <2>1 DEF EpollWait, Event, Events
  <2> QED
    BY <1>2, <2>2 DEF EpollWait, TypeInv, Events, Listen
<1>3. CASE DispatchListen
  BY <1>3 DEF DispatchListen, TypeInv, Events, Listen
<1>4. ASSUME NEW e \in batch, DispatchError(e)
      PROVE  ReactorTyped'
  BY <1>4 DEF DispatchError, TypeInv, Events, Listen
<1>5. ASSUME NEW e \in batch, DispatchRead(e)
      PROVE  ReactorTyped'
  <2>1. e.fd \in Fds
    BY <1>5 DEF DispatchRead, TypeInv, Events, Listen
  <2>2. Append(tasks_, e.fd) \in Seq(Fds)
    BY <2>1 DEF TypeInv
  <2> QED
    BY <1>5, <2>2 DEF DispatchRead, TypeInv, Events, Listen
<1>6. CASE Accept
  <2>1. Head(backlog) \in Conns
    BY <1>6, TailElements DEF Accept, TypeInv, KernelTyped
  <2> QED
    BY <1>6, <2>1 DEF Accept, SetCallbacks, TypeInv, Events, Listen
<1>7. CASE RegisterClient
  <2>1. this[Reactor] \in Conns /\ fd_[this[Reactor]] \in Fds
    BY <1>7, ThreadFacts DEF RegisterClient, ReplaceClient, Go, ThreadInv, TypeInv, ThreadsTyped,
       SocketInv
  <2>2. /\ clients_' = [clients_ EXCEPT ![fd_[this[Reactor]]] = this[Reactor]]
        /\ destroyed' \subseteq destroyed \cup ({clients_[fd_[this[Reactor]]]} \ {NoConn})
        /\ UNCHANGED <<error_callbacks_, batch, tasks_>>
    BY <1>7 DEF RegisterClient, ReplaceClient
  <2> QED
    BY <2>1, <2>2 DEF TypeInv, Events, Listen
<1>8. ASSUME NEW w \in Workers, TakeTask(w)
      PROVE  ReactorTyped'
  <2>1. Tail(tasks_) \in Seq(Fds)
    BY <1>8, TailElements DEF TakeTask, TypeInv
  <2> QED
    BY <1>8, <2>1 DEF TakeTask, TypeInv, Events, Listen
<1>9. CASE \/ AcceptEnd
           \/ \E w \in Workers : LockClient(w) \/ UnlockClient(w) \/ ReadStep(w)
           \/ \E t \in Threads : CloseStep(t)
  BY <1>9, <1>1, ReadFrame, CloseFrame DEF AcceptEnd, LockClient, UnlockClient, reactorVars
<1>10. ASSUME NEW c \in Conns, ClientStep(c)
       PROVE  ReactorTyped'
  BY <1>10, <1>1 DEF ClientStep, Connect, SendRegister, SendLogin, SendChat, Request, Hangup,
     serverVars, reactorVars
<1>11. CASE Crash
  BY <1>11 DEF Crash
<1> QED
  BY <1>2, <1>3, <1>4, <1>5, <1>6, <1>7, <1>8, <1>9, <1>10, <1>11, ThreadFacts
     DEF Next, ClientStep, ReactorStep, WorkerStep

-----------------------------------------------------------------------------
(* The handlers: only the worker that holds client_mutex_ has one.         *)

LEMMA OneInside ==
  ASSUME ThreadInv, NEW v \in Workers, NEW w \in Workers, this[v] # NoConn, this[w] # NoConn
  PROVE  v = w
BY DEF ThreadInv

LEMMA HandlerStep ==
  ASSUME TypeInv, ThreadInv, HandlerInv, Next
  PROVE  HandlerInv'
<1>1. ASSUME UNCHANGED <<buffer_, user_id_>>, messages \subseteq messages',
             \A v \in Workers : \/ pc'[v] = pc[v] /\ this'[v] = this[v]
                                \/ pc'[v] \notin Reading \ {"recv", "parse"}
      PROVE  HandlerInv'
  BY <1>1 DEF HandlerInv, Request1, Reading
<1>2. ASSUME \A v \in Workers : pc'[v] \in {"idle", "lock"}
      PROVE  HandlerInv'
  BY <1>2 DEF HandlerInv, Reading
<1>3. ASSUME NEW w \in Workers, ReadStep(w)
      PROVE  HandlerInv'
  <2>1. /\ pc[w] \in Reading /\ this' = this
        /\ \A v \in Workers : v # w => pc'[v] = pc[v]
    BY <1>3, ReadControl, ReadFrame, ThreadFacts DEF ReadsOn, TypeInv, ThreadsTyped
  <2>2. this[w] \in Conns
    BY <2>1, ThreadFacts DEF ThreadInv, Reading, TypeInv, ThreadsTyped
  <2>3. \A v \in Workers : v # w => pc'[v] \in {"idle", "lock"}
    BY <2>1, <2>2, ThreadFacts, OneInside DEF ThreadInv
  <2>4. ASSUME pc'[w] \in Reading \ {"recv", "parse"} => buffer_'[this[w]] # << >>,
               pc'[w] \in {"login", "register"} => Head(buffer_'[this[w]]).type # "CHAT",
               pc'[w] \in {"store", "lookup", "forward"} =>
                 Head(buffer_'[this[w]]).type = "CHAT",
               pc'[w] \in {"lookup", "forward"} => Head(buffer_'[this[w]]).msg \in messages',
               pc'[w] \in {"onlineMap", "onlineTable"} => user_id_'[this[w]] \in Users
        PROVE  HandlerInv'
    BY <2>1, <2>3, <2>4 DEF HandlerInv, Request1, Reading
  <2>5. CASE pc'[w] \notin Reading \ {"recv", "parse"}
    BY <2>5, <2>4 DEF Reading
  <2>6. CASE Parse(w) /\ pc'[w] # "parse"
    <3>1. /\ buffer_' = buffer_ /\ buffer_[this[w]] # << >>
          /\ pc'[w] = Handler(this[w], Request1(w).type)
      BY <2>6, ThreadFacts DEF Parse, TypeInv, ThreadsTyped
    <3> QED
      BY <3>1, <2>4 DEF Handler, Request1
  <2>7. CASE pc'[w] \in Reading \ {"recv", "parse"} /\ ~ Parse(w)
    <3>1. /\ pc[w] \in Reading \ {"recv", "parse"} /\ buffer_' = buffer_
      BY <1>3, <2>7, ThreadFacts
         DEF ReadStep, Recv, MoreData, AfterRecv, CloseEntry, Login, Register, OnlineMap, OnlineTable,
             LoginResp, GetOffline, Push, Store, Lookup, Forward, Go, UserOnlineMap,
             UserOnlineTable, GetOfflineMessage, StoreMessage, LookupReceiver, Erase, connVars,
             Reading, TypeInv, ThreadsTyped
    <3>2. buffer_[this[w]] # << >> /\ Request1(w) \in Pending
      BY <3>1, HandlerFacts DEF HandlerInv
    <3>3. CASE Login(w)
      <4>1. Request1(w).user \in Users
        BY <3>2, <3>3, PendingTypes DEF Login, HandlerInv
      <4>2. pc'[w] = "onlineMap" /\ user_id_'[this[w]] = Request1(w).user
        BY <3>3, <2>2, <2>7, ThreadFacts DEF Login, TypeInv, ThreadsTyped, ConnsTyped
      <4> QED
        BY <3>1, <3>2, <4>1, <4>2, <2>4
    <3>4. CASE OnlineMap(w) \/ OnlineTable(w) \/ LoginResp(w) \/ GetOffline(w) \/ Push(w)
      <4>1. /\ pc'[w] \in {"onlineTable", "loginResp", "getOffline", "push", "parse"}
            /\ pc'[w] = "onlineTable" => pc[w] = "onlineMap"
            /\ user_id_' = user_id_
        BY <3>4, ThreadFacts
           DEF OnlineMap, OnlineTable, LoginResp, GetOffline, Push, Go, UserOnlineMap,
               UserOnlineTable, GetOfflineMessage, connVars, TypeInv, ThreadsTyped
      <4> QED
        BY <3>1, <3>2, <4>1, <2>4 DEF HandlerInv
    <3>5. CASE Store(w)
      <4>1. pc'[w] = "lookup" /\ messages' = messages \cup {Request1(w).msg} /\ pc[w] = "store"
        BY <3>5, <2>7, ThreadFacts DEF Store, StoreMessage, TypeInv, ThreadsTyped
      <4> QED
        BY <3>1, <3>2, <4>1, <2>4 DEF HandlerInv, Request1
    <3>6. CASE Lookup(w)
      <4>1. pc'[w] = "forward" /\ messages' = messages /\ pc[w] = "lookup"
        BY <3>6, <2>7, ThreadFacts DEF Lookup, LookupReceiver, TypeInv, ThreadsTyped, messageVars
      <4> QED
        BY <3>1, <3>2, <4>1, <2>4 DEF HandlerInv, Request1
    <3>7. CASE Recv(w) \/ Register(w) \/ Forward(w)
      BY <3>1, <3>7, <2>7, ThreadFacts DEF Recv, Register, Forward, Go, TypeInv, ThreadsTyped
    <3> QED
      BY <1>3, <2>7, <3>3, <3>4, <3>5, <3>6, <3>7 DEF ReadStep
  <2>8. Parse(w) /\ pc'[w] = "parse" => pc'[w] \notin Reading \ {"recv", "parse"}
    OBVIOUS
  <2> QED
    BY <2>5, <2>6, <2>7, <2>8
<1>4. ASSUME NEW t \in Threads, CloseStep(t)
      PROVE  HandlerInv'
  <2>1. ClosesOn(t) /\ UNCHANGED <<buffer_, user_id_, messages>>
    BY <1>4, CloseControl, CloseFrame
  <2> QED
    BY <2>1, <1>1, ThreadFacts DEF ClosesOn, Reading, TypeInv, ThreadsTyped
<1>5. CASE RegisterClient
  <2>1. \A v \in Workers : pc[v] \in {"idle", "lock"}
    BY <1>5, ThreadFacts DEF RegisterClient, ThreadInv
  <2> QED
    BY <1>5, <1>2, <2>1, ThreadFacts DEF RegisterClient, ReplaceClient, Go, TypeInv, ThreadsTyped
<1>6. CASE \/ EpollWait \/ DispatchListen \/ AcceptEnd \/ Accept
           \/ \E e \in batch : DispatchError(e) \/ DispatchRead(e)
  BY <1>6, <1>1, ThreadFacts DEF EpollWait, DispatchListen, AcceptEnd, Accept, DispatchError,
     DispatchRead, Go, threadVars, messageVars, connVars, TypeInv, ThreadsTyped
<1>7. ASSUME NEW w \in Workers, TakeTask(w) \/ LockClient(w) \/ UnlockClient(w)
      PROVE  HandlerInv'
  BY <1>7, <1>1, ThreadFacts DEF TakeTask, LockClient, UnlockClient, Go, messageVars, connVars,
     Reading, TypeInv, ThreadsTyped
<1>8. ASSUME NEW c \in Conns, ClientStep(c)
      PROVE  HandlerInv'
  BY <1>8, <1>1 DEF ClientStep, Connect, SendRegister, SendLogin, SendChat, Request, Hangup,
     serverVars, threadVars, messageVars, connVars
<1>9. CASE Crash
  BY <1>9, <1>2, ThreadFacts DEF Crash
<1> QED
  BY <1>3, <1>4, <1>5, <1>6, <1>7, <1>8, <1>9, ThreadFacts
     DEF Next, ClientStep, ReactorStep, WorkerStep

-----------------------------------------------------------------------------
(* The objects and their descriptors.                                      *)

(* The object that is registered, and the one it replaces.                 *)
LEMMA RegistrationFacts ==
  ASSUME TypeInv, ThreadInv, SocketInv, TablesInv, LifeInv, RegisterClient
  PROVE  /\ pc[Reactor] = "register" /\ this[Reactor] \in Conns
         /\ fd_[this[Reactor]] \in Fds /\ this[Reactor] \notin destroyed
         /\ \A w \in Workers : pc[w] \in {"idle", "lock"} /\ this[w] = NoConn
         /\ clients_[fd_[this[Reactor]]] # NoConn =>
              /\ clients_[fd_[this[Reactor]]] \in Conns
              /\ clients_[fd_[this[Reactor]]] # this[Reactor]
              /\ fd_[clients_[fd_[this[Reactor]]]] = fd_[this[Reactor]]
<1>1. pc[Reactor] = "register" /\ client_mutex_ = NoThread
  BY DEF RegisterClient, ReplaceClient, Go
<1>2. this[Reactor] \in Conns /\ fd_[this[Reactor]] \in Fds
  BY <1>1, ThreadFacts DEF ThreadInv, SocketInv, TypeInv, ThreadsTyped
<1>3. \A w \in Workers : pc[w] \in {"idle", "lock"} /\ this[w] = NoConn
  BY <1>1, ThreadFacts DEF ThreadInv
<1> QED
  BY <1>1, <1>2, <1>3, ThreadFacts DEF TablesInv, LifeInv, TypeInv, ReactorTyped

(* The connection that is accepted, and its descriptor.                    *)
LEMMA AcceptFacts ==
  ASSUME TypeInv, LifeInv, Accept
  PROVE  /\ Head(backlog) \in Conns /\ Head(backlog) \in Waiting
         /\ fd_[Head(backlog)] = NoFd /\ Head(backlog) \notin destroyed
         /\ LowestFree \in Fds /\ fdTable[LowestFree] = NoConn
         /\ Waiting' = Waiting \ {Head(backlog)}
         /\ \A i, j \in DOMAIN backlog' : backlog'[i] = backlog'[j] => i = j
<1>1. backlog \in Seq(Conns) /\ backlog # << >> /\ backlog' = Tail(backlog)
  BY DEF Accept, TypeInv, KernelTyped
<1>2. \A i, j \in DOMAIN backlog : backlog[i] = backlog[j] => i = j
  BY DEF LifeInv
<1>3. /\ Head(backlog) \in Waiting
      /\ Waiting' = Waiting \ {Head(backlog)}
      /\ \A i, j \in DOMAIN backlog' : backlog'[i] = backlog'[j] => i = j
  BY <1>1, <1>2, RangeOfTail DEF Waiting
<1>4. Head(backlog) \in Conns
  BY <1>1, TailElements
<1> QED
  BY <1>3, <1>4, LowestFreeIsFree DEF LifeInv, Accept, FreeFds

LEMMA SocketStep ==
  ASSUME TypeInv, ThreadInv, HandlerInv, SocketInv, TablesInv, LifeInv, Next
  PROVE  SocketInv'
<1>1. ASSUME UNCHANGED <<fd_, socket_, fdTable>>,
             \A t \in Threads : this'[t] = this[t] \/ this'[t] = NoConn,
             \A t \in Threads : pc'[t] = "closeSys" => /\ pc[t] = "closeSys"
                                                       /\ this'[t] = this[t]
                                                       /\ fdReg'[t] = fdReg[t],
             \A t \in Threads : pc'[t] = "closeForget" => /\ pc[t] = "closeForget"
                                                          /\ this'[t] = this[t]
      PROVE  SocketInv'
  BY <1>1 DEF SocketInv, Open
<1>2. ASSUME NEW w \in Workers, ReadStep(w)
      PROVE  SocketInv'
  <2>1. ReadsOn(w) /\ UNCHANGED <<this, fd_, socket_, fdTable>>
    BY <1>2, ReadControl, ReadFrame
  <2> QED
    BY <2>1, <1>1, ThreadFacts DEF ReadsOn, Reading, TypeInv, ThreadsTyped
<1>3. ASSUME NEW t \in Threads, CloseStep(t)
      PROVE  SocketInv'
  <2>1. ClosesOn(t) /\ fd_' = fd_
    BY <1>3, CloseControl, CloseFrame
  <2>2. socket_' = socket_ \/ socket_' = [socket_ EXCEPT ![this[t]] = NoFd]
    BY <1>3 DEF CloseStep, OfflineMap, OfflineTable, CloseCheck, CloseSys, CloseForget, connVars
  <2>3. this[t] \in Conns
    BY <2>1, ThreadFacts DEF ClosesOn, Closing, ThreadInv, Threads, TypeInv, ThreadsTyped
  <2>4. \A c \in Conns : socket_'[c] \in {fd_[c], NoFd}
    BY <2>2, <2>3 DEF SocketInv, TypeInv, ConnsTyped
  <2>5. \A s \in Threads : this'[s] = this[s] \/ this'[s] = NoConn
    BY <2>1 DEF ClosesOn, TypeInv, ThreadsTyped
  <2>6. ASSUME NEW s \in Threads, pc'[s] = "closeSys"
        PROVE  fdReg'[s] = fd_[this'[s]]
    <3>1. CASE s # t
      BY <2>1, <2>6, <3>1 DEF ClosesOn, SocketInv, TypeInv, ThreadsTyped
    <3>2. CASE s = t
      BY <2>1, <2>3, <2>6, <3>2 DEF ClosesOn, SocketInv, TypeInv, ThreadsTyped
    <3> QED
      BY <3>1, <3>2
  <2>7. CASE CloseSys(t)
    <3>1. /\ fdReg[t] \in Fds /\ fdReg[t] = fd_[this[t]] /\ this' = this
          /\ pc' = [pc EXCEPT ![t] = "closeForget"]
      BY <2>7 DEF CloseSys, Go, ThreadInv, SocketInv
    <3>2. /\ \A g \in Fds : fdTable'[g] = IF g = fdReg[t] THEN NoConn ELSE fdTable[g]
      BY <2>7, <3>1 DEF CloseSys, SysClose, kernelVars, TypeInv, KernelTyped
    <3>3. Open' \subseteq Open
      BY <3>2 DEF Open
    <3>4. this[t] \notin Open'
      BY <3>1, <3>2 DEF Open, TablesInv
    <3>5. \A s \in Threads : pc'[s] = "closeForget" => this'[s] \notin Open'
      BY <3>1, <3>3, <3>4 DEF SocketInv, TypeInv, ThreadsTyped
    <3> QED
      BY <2>4, <2>5, <2>6, <2>1, <3>5 DEF SocketInv
  <2>8. CASE \/ OfflineMap(t) \/ OfflineTable(t) \/ CloseCheck(t) \/ CloseForget(t)
    <3>1. fdTable' = fdTable
      BY <2>8 DEF OfflineMap, OfflineTable, CloseCheck, CloseForget, kernelVars
    <3>2. \A s \in Threads : pc'[s] = "closeForget" => pc[s] = "closeForget" /\ this'[s] = this[s]
      <4>1. pc'[t] # "closeForget"
        BY <2>8 DEF OfflineMap, UserOfflineMap, OfflineTable, UserOfflineTable, CloseCheck,
           CloseForget, CloseReturns, Go, TypeInv, ThreadsTyped
      <4> QED
        BY <2>1, <4>1 DEF ClosesOn, TypeInv, ThreadsTyped
    <3> QED
      BY <2>4, <2>5, <2>6, <2>1, <3>1, <3>2 DEF SocketInv, Open
  <2> QED
    BY <1>3, <2>7, <2>8 DEF CloseStep
<1>4. ASSUME NEW e \in batch, DispatchError(e)
      PROVE  SocketInv'
  <2> DEFINE c == error_callbacks_[e.fd]
  <2>1. e.fd \in Fds /\ c # NoConn
    BY <1>4 DEF DispatchError, TablesInv, TypeInv, ReactorTyped, Events, Listen
  <2>2. fd_[c] \in Fds
    BY <2>1 DEF TablesInv
  <2> QED
    BY <1>4, <2>2, ThreadFacts DEF DispatchError, CloseEntry, Go, connVars, kernelVars, SocketInv,
       Open, TypeInv, ThreadsTyped
<1>5. CASE Accept
  <2>1. \A t \in Threads : this[t] # Head(backlog)
    BY <1>5, AcceptFacts, ThreadFacts DEF SocketInv
  <2>2. Open' \subseteq Open \cup {Head(backlog)}
    BY <1>5 DEF Accept, Open, TypeInv, KernelTyped
  <2>3. \A t \in Threads : pc'[t] = "closeForget" => this'[t] \notin Open'
    BY <1>5, <2>1, <2>2, ThreadFacts DEF Accept, Go, SocketInv, TypeInv, ThreadsTyped
  <2> QED
    BY <1>5, <2>1, <2>3, AcceptFacts, ThreadFacts DEF Accept, Go, SocketInv, TypeInv, ThreadsTyped,
       ConnsTyped
<1>6. CASE RegisterClient
  <2> DEFINE old == clients_[fd_[this[Reactor]]]
  <2>1. /\ this' = [this EXCEPT ![Reactor] = NoConn]
        /\ pc' = [pc EXCEPT ![Reactor] = "accept"] /\ UNCHANGED fdReg
        /\ \/ UNCHANGED <<fd_, socket_>>
           \/ /\ fd_' = [fd_ EXCEPT ![old] = NoFd]
              /\ socket_' = [socket_ EXCEPT ![old] = NoFd]
    BY <1>6 DEF RegisterClient, ReplaceClient, Go, NextAccept, connVars
  <2>2. \A t \in Threads : this'[t] = NoConn /\ pc'[t] \notin {"closeSys", "closeForget"}
    BY <1>6, <2>1, RegistrationFacts, ThreadFacts DEF Threads, TypeInv, ThreadsTyped
  <2> QED
    BY <2>1, <2>2 DEF SocketInv, TypeInv, ConnsTyped
<1>7. ASSUME NEW w \in Workers, LockClient(w)
      PROVE  SocketInv'
  <2>1. fdReg[w] \in Fds
    BY <1>7, ThreadFacts DEF LockClient, Go, ThreadInv
  <2> QED
    BY <1>7, <2>1, ThreadFacts DEF LockClient, Go, connVars, kernelVars, SocketInv, TablesInv,
       Open, TypeInv, ThreadsTyped
<1>8. ASSUME NEW w \in Workers, TakeTask(w) \/ UnlockClient(w)
      PROVE  SocketInv'
  BY <1>8, <1>1, ThreadFacts DEF TakeTask, UnlockClient, Go, connVars, kernelVars, TypeInv,
     ThreadsTyped
<1>9. CASE EpollWait \/ DispatchListen \/ AcceptEnd \/ \E e \in batch : DispatchRead(e)
  BY <1>9, <1>1, ThreadFacts DEF EpollWait, DispatchListen, AcceptEnd, DispatchRead, Go, connVars,
     kernelVars, threadVars, TypeInv, ThreadsTyped
<1>10. ASSUME NEW c \in Conns, ClientStep(c)
       PROVE  SocketInv'
  BY <1>10, <1>1 DEF ClientStep, Connect, SendRegister, SendLogin, SendChat, Request, Hangup,
     serverVars, threadVars, connVars
<1>11. CASE Crash
  BY <1>11, ThreadFacts DEF Crash, SocketInv
<1> QED
  BY <1>2, <1>3, <1>4, <1>5, <1>6, <1>7, <1>8, <1>9, <1>10, <1>11, ThreadFacts
     DEF Next, ClientStep, ReactorStep, WorkerStep

LEMMA TablesStep ==
  ASSUME TypeInv, ThreadInv, HandlerInv, SocketInv, TablesInv, LifeInv, Next
  PROVE  TablesInv'
<1>1. ASSUME UNCHANGED <<fdTable, fd_, socket_, clients_, error_callbacks_>>,
             batch' \subseteq batch,
             pc'[Reactor] = "register" <=> pc[Reactor] = "register",
             pc[Reactor] = "register" => this'[Reactor] = this[Reactor]
      PROVE  TablesInv'
  BY <1>1 DEF TablesInv, Listen
<1>2. ASSUME NEW w \in Workers, ReadStep(w)
      PROVE  TablesInv'
  BY <1>2, <1>1, ReadControl, ReadFrame, ThreadFacts DEF ReadsOn, TypeInv, ThreadsTyped
<1>3. ASSUME NEW t \in Threads, OfflineMap(t) \/ OfflineTable(t) \/ CloseCheck(t)
      PROVE  TablesInv'
  <2>1. /\ UNCHANGED <<fdTable, fd_, socket_, clients_, error_callbacks_, batch>>
    BY <1>3 DEF OfflineMap, OfflineTable, CloseCheck, kernelVars, connVars, reactorVars
  <2>2. ClosesOn(t)
    BY <1>3, CloseControl DEF CloseStep
  <2> QED
    BY <2>1, <2>2, <1>1, ThreadFacts DEF ClosesOn, Closing, ThreadInv, TypeInv, ThreadsTyped
<1>4. ASSUME NEW t \in Threads, CloseSys(t)
      PROVE  TablesInv'
  <2> DEFINE f == fdReg[t]
             c == this[t]
  <2>1. ClosesOn(t) /\ UNCHANGED <<fd_, socket_, clients_, error_callbacks_, batch>>
    BY <1>4, CloseControl, CloseFrame DEF CloseStep, CloseSys, connVars
  <2>2. c \in Conns /\ f \in Fds /\ f = fd_[c]
    BY <1>4, ThreadFacts DEF CloseSys, Go, ThreadInv, SocketInv, Threads, Closing, TypeInv,
          ThreadsTyped
  <2>3. fdTable' = [fdTable EXCEPT ![f] = NoConn]
    <3>1. CASE fdTable[f] = NoConn
      BY <1>4, <2>2, <3>1 DEF CloseSys, SysClose, kernelVars, TypeInv, KernelTyped
    <3>2. CASE fdTable[f] # NoConn
      BY <1>4, <2>2, <3>2 DEF CloseSys, SysClose
    <3> QED
      BY <3>1, <3>2
  <2>4. \A g \in Fds : fdTable'[g] # NoConn =>
          /\ fd_[fdTable'[g]] = g /\ socket_'[fdTable'[g]] = g
          /\ error_callbacks_[g] = fdTable'[g]
    BY <2>1, <2>2, <2>3 DEF TablesInv, TypeInv, KernelTyped, ConnsTyped
  <2>5. pc[Reactor] = "register" => pc'[Reactor] = "register" /\ this'[Reactor] = this[Reactor]
    BY <2>1, ThreadFacts DEF ClosesOn, Closing, TypeInv, ThreadsTyped
  <2>6. pc'[Reactor] = "register" => pc[Reactor] = "register"
    BY <2>1, ThreadFacts DEF ClosesOn, Closing, TypeInv, ThreadsTyped
  <2> QED
    BY <2>1, <2>4, <2>5, <2>6 DEF TablesInv, Listen
<1>13. ASSUME NEW t \in Threads, CloseForget(t)
       PROVE  TablesInv'
  <2>1. ClosesOn(t) /\ UNCHANGED <<fdTable, fd_, clients_, error_callbacks_, batch>>
    BY <1>13, CloseControl, CloseFrame DEF CloseStep, CloseForget, kernelVars
  <2>2. /\ this[t] \notin Open /\ socket_' = [socket_ EXCEPT ![this[t]] = NoFd]
    BY <1>13 DEF CloseForget, SocketInv
  <2>3. \A g \in Fds : fdTable[g] # NoConn => socket_'[fdTable[g]] = g
    BY <2>2 DEF TablesInv, Open, TypeInv, KernelTyped, ConnsTyped
  <2>4. pc[Reactor] = "register" => pc'[Reactor] = "register" /\ this'[Reactor] = this[Reactor]
    BY <2>1, ThreadFacts DEF ClosesOn, Closing, TypeInv, ThreadsTyped
  <2>5. pc'[Reactor] = "register" => pc[Reactor] = "register"
    BY <2>1, ThreadFacts DEF ClosesOn, Closing, TypeInv, ThreadsTyped
  <2> QED
    BY <2>1, <2>3, <2>4, <2>5 DEF TablesInv, Listen
<1>5. CASE EpollWait
  <2>1. \A c \in edges : fd_[c] \in Fds /\ error_callbacks_[fd_[c]] = c /\ c # NoConn
    BY ThreadFacts DEF TypeInv, KernelTyped, Open, TablesInv
  <2>2. \A e \in batch' : e # Listen => error_callbacks_[e.fd] # NoConn
    BY <1>5, <2>1 DEF EpollWait, Event
  <2>3. /\ UNCHANGED <<fdTable, fd_, socket_, clients_, error_callbacks_, pc, this>>
    BY <1>5 DEF EpollWait, connVars, threadVars
  <2> QED
    BY <2>2, <2>3 DEF TablesInv, Listen
<1>6. ASSUME NEW e \in batch, DispatchError(e)
      PROVE  TablesInv'
  BY <1>6, <1>1, ThreadFacts DEF DispatchError, CloseEntry, Go, kernelVars, connVars, TypeInv,
     ThreadsTyped
<1>7. CASE DispatchListen \/ AcceptEnd \/ \E e \in batch : DispatchRead(e)
  BY <1>7, <1>1, ThreadFacts DEF DispatchListen, AcceptEnd, DispatchRead, Go, kernelVars, connVars,
     threadVars, reactorVars, TypeInv, ThreadsTyped
<1>8. CASE Accept
  <2> DEFINE c == Head(backlog)
             f == LowestFree
  <2>1. /\ fdTable' = [fdTable EXCEPT ![f] = c] /\ fd_' = [fd_ EXCEPT ![c] = f]
        /\ socket_' = [socket_ EXCEPT ![c] = f]
        /\ error_callbacks_' = [error_callbacks_ EXCEPT ![f] = c]
        /\ this' = [this EXCEPT ![Reactor] = c] /\ pc' = [pc EXCEPT ![Reactor] = "register"]
        /\ pc[Reactor] = "accept" /\ UNCHANGED <<clients_, batch>>
    BY <1>8 DEF Accept, SetCallbacks, Go
  <2>2. \A g \in Fds : /\ fdTable[g] # c /\ error_callbacks_[g] # c /\ clients_[g] # c
                       /\ error_callbacks_[g] = clients_[g]
    BY <1>8, <2>1, AcceptFacts, ThreadFacts DEF TablesInv
  <2>3. c \in Conns /\ f \in Fds /\ c # NoConn
    BY <1>8, AcceptFacts, ThreadFacts
  <2>4. \A g \in Fds : fdTable'[g] # NoConn =>
          /\ fd_'[fdTable'[g]] = g /\ socket_'[fdTable'[g]] = g
          /\ error_callbacks_'[g] = fdTable'[g]
    BY <2>1, <2>2, <2>3 DEF TablesInv, TypeInv, KernelTyped, ConnsTyped, ReactorTyped
  <2>5. \A g \in Fds : /\ error_callbacks_'[g] # NoConn => fd_'[error_callbacks_'[g]] = g
                       /\ clients_'[g] # NoConn => fd_'[clients_'[g]] = g
    BY <2>1, <2>2, <2>3 DEF TablesInv, TypeInv, ConnsTyped, ReactorTyped
  <2>6. this'[Reactor] = c /\ pc'[Reactor] = "register" /\ fd_'[c] = f
    BY <2>1, <2>3, ThreadFacts DEF TypeInv, ThreadsTyped, ConnsTyped
  <2>7. \A g \in Fds : error_callbacks_'[g] = IF g = f THEN c ELSE error_callbacks_[g]
    BY <2>1, <2>3 DEF TypeInv, ReactorTyped
  <2>8. \A e \in batch : e # Listen => e.fd \in Fds
    BY DEF TypeInv, ReactorTyped, Events, Listen
  <2>9. \A e \in batch' : e # Listen => error_callbacks_'[e.fd] # NoConn
    BY <2>1, <2>3, <2>7, <2>8 DEF TablesInv
  <2> QED
    BY <2>1, <2>2, <2>3, <2>4, <2>5, <2>6, <2>7, <2>9 DEF TablesInv, Listen
<1>9. CASE RegisterClient
  <2> DEFINE c == this[Reactor]
             f == fd_[c]
             old == clients_[f]
  <2>1. /\ clients_' = [clients_ EXCEPT ![f] = c] /\ this' = [this EXCEPT ![Reactor] = NoConn]
        /\ pc' = [pc EXCEPT ![Reactor] = "accept"] /\ UNCHANGED <<error_callbacks_, batch>>
    BY <1>9 DEF RegisterClient, ReplaceClient, Go, NextAccept
  <2>2. /\ pc[Reactor] = "register" /\ c \in Conns /\ f \in Fds /\ c # NoConn
        /\ error_callbacks_[f] = c
    BY <1>9, RegistrationFacts, ThreadFacts DEF TablesInv
  <2>3. \A g \in Fds : g # f => error_callbacks_[g] = clients_[g]
    BY <2>2 DEF TablesInv
  <2>4. pc'[Reactor] = "accept" /\ \A g \in Fds : error_callbacks_'[g] = clients_'[g]
    BY <2>1, <2>2, <2>3, ThreadFacts DEF TypeInv, ReactorTyped, ThreadsTyped
  <2>5. \A e \in batch' : e # Listen => error_callbacks_'[e.fd] # NoConn
    BY <2>1 DEF TablesInv
  <2>6. CASE old = NoConn
    <3>1. UNCHANGED <<fdTable, fd_, socket_>>
      BY <1>9, <2>6 DEF RegisterClient, ReplaceClient, kernelVars, connVars
    <3> QED
      BY <2>1, <2>4, <2>5, <3>1 DEF TablesInv, Listen
  <2>7. CASE old # NoConn
    <3>1. /\ fd_' = [fd_ EXCEPT ![old] = NoFd] /\ socket_' = [socket_ EXCEPT ![old] = NoFd]
          /\ socket_[old] = NoFd => fdTable' = fdTable
          /\ socket_[old] # NoFd => SysClose(socket_[old])
      BY <1>9, <2>7 DEF RegisterClient, ReplaceClient, kernelVars
    <3>2. old \in Conns /\ old # c /\ fd_[old] = f
      BY <1>9, <2>7, RegistrationFacts
    <3>3. socket_[old] # NoFd => socket_[old] = f
      BY <3>2 DEF SocketInv
    <3>4. \A g \in Fds : fdTable'[g] = fdTable[g] \/ fdTable'[g] = NoConn
      BY <3>1, <3>3, <2>2 DEF SysClose, kernelVars, TypeInv, KernelTyped
    <3>5. \A g \in Fds : /\ fdTable[g] # old
                         /\ g # f => clients_[g] # old /\ error_callbacks_[g] # old
      BY <2>2, <2>3, <2>7, <3>2 DEF TablesInv
    <3>6. \A d \in Conns : d # old => fd_'[d] = fd_[d] /\ socket_'[d] = socket_[d]
      BY <3>1 DEF TypeInv, ConnsTyped
    <3>7. \A g \in Fds : fdTable'[g] # NoConn =>
            /\ fd_'[fdTable'[g]] = g /\ socket_'[fdTable'[g]] = g
            /\ error_callbacks_'[g] = fdTable'[g]
      BY <2>1, <3>4, <3>5, <3>6 DEF TablesInv, TypeInv, KernelTyped
    <3>8. \A g \in Fds : error_callbacks_'[g] # NoConn => fd_'[error_callbacks_'[g]] = g
      BY <2>1, <2>2, <3>2, <3>5, <3>6 DEF TablesInv, TypeInv, ReactorTyped
    <3> QED
      BY <2>4, <2>5, <3>7, <3>8, <3>1, <3>6 DEF TablesInv, SocketInv, Listen
  <2> QED
    BY <2>6, <2>7
<1>10. ASSUME NEW w \in Workers, TakeTask(w) \/ LockClient(w) \/ UnlockClient(w)
       PROVE  TablesInv'
  BY <1>10, <1>1, ThreadFacts DEF TakeTask, LockClient, UnlockClient, Go, kernelVars, connVars,
     TypeInv, ThreadsTyped
<1>11. ASSUME NEW c \in Conns, ClientStep(c)
       PROVE  TablesInv'
  BY <1>11, <1>1 DEF ClientStep, Connect, SendRegister, SendLogin, SendChat, Request, Hangup,
     serverVars, threadVars, connVars, reactorVars
<1>12. CASE Crash
  BY <1>12, ThreadFacts DEF Crash, TablesInv
<1> QED
  BY <1>2, <1>3, <1>4, <1>5, <1>6, <1>7, <1>8, <1>9, <1>10, <1>11, <1>12, <1>13, ThreadFacts
     DEF Next, ClientStep, ReactorStep, WorkerStep, CloseStep

LEMMA LifeStep ==
  ASSUME TypeInv, ThreadInv, HandlerInv, SocketInv, TablesInv, LifeInv, Next
  PROVE  LifeInv'
<1>1. ASSUME UNCHANGED <<fd_, destroyed, backlog>>,
             \A c \in Conns : peer'[c] = "unused" => peer[c] = "unused"
      PROVE  LifeInv'
  BY <1>1 DEF LifeInv, Waiting, TypeInv, KernelTyped
<1>2. ASSUME NEW w \in Workers, ReadStep(w)
      PROVE  LifeInv'
  <2>1. \A c \in Conns : peer'[c] = "unused" => peer[c] = "unused"
    BY <1>2 DEF ReadStep, Recv, Parse, Login, Register, OnlineMap, OnlineTable, LoginResp,
       GetOffline, Push, Store, Lookup, Forward, Transmit, outsideVars, TypeInv, OutsideTyped
  <2> QED
    BY <1>2, <2>1, <1>1, ReadFrame
<1>3. ASSUME NEW t \in Threads, CloseStep(t)
      PROVE  LifeInv'
  <2>1. \A c \in Conns : peer'[c] = "unused" => peer[c] = "unused"
    BY <1>3 DEF CloseStep, OfflineMap, OfflineTable, CloseCheck, CloseSys, CloseForget, SysClose,
       outsideVars, TypeInv, OutsideTyped
  <2> QED
    BY <1>3, <2>1, <1>1, CloseFrame
<1>4. ASSUME NEW c \in Conns, Connect(c)
      PROVE  LifeInv'
  <2>1. /\ peer[c] = "unused" /\ peer' = [peer EXCEPT ![c] = "open"]
        /\ backlog' = Append(backlog, c) /\ UNCHANGED <<fd_, destroyed>>
    BY <1>4 DEF Connect, serverVars, connVars, reactorVars
  <2>2. backlog \in Seq(Conns) /\ c \notin Waiting
    BY <2>1 DEF TypeInv, KernelTyped, LifeInv
  <2>3. /\ Waiting' = Waiting \cup {c}
        /\ \A i, j \in DOMAIN backlog' : backlog'[i] = backlog'[j] => i = j
    BY <2>1, <2>2, RangeOfAppend, AppendKeepsDistinct DEF Waiting, LifeInv
  <2> QED
    BY <2>1, <2>3 DEF LifeInv, TypeInv, OutsideTyped
<1>5. ASSUME NEW c \in Conns, \/ \E u \in Users : SendRegister(c, u) \/ SendLogin(c, u) \/ SendChat(c, u)
                              \/ \E how \in {"fin", "rst"} : Hangup(c, how)
      PROVE  LifeInv'
  BY <1>5, <1>1 DEF SendRegister, SendLogin, SendChat, Request, Hangup, serverVars, connVars,
     reactorVars, TypeInv, OutsideTyped
<1>6. CASE Accept
  <2> DEFINE c == Head(backlog)
  <2>1. fd_' = [fd_ EXCEPT ![c] = LowestFree] /\ UNCHANGED <<destroyed, peer>>
    BY <1>6 DEF Accept, outsideVars
  <2>2. \A d \in Conns : d # c => fd_'[d] = fd_[d]
    BY <2>1 DEF TypeInv, ConnsTyped
  <2>3. c \notin destroyed /\ c \notin Waiting' /\ peer[c] # "unused"
    BY <1>6, AcceptFacts DEF LifeInv
  <2>4. Waiting' \subseteq Waiting
    BY <1>6, AcceptFacts
  <2> QED
    BY <1>6, <2>1, <2>2, <2>3, <2>4, AcceptFacts DEF LifeInv, TypeInv, ReactorTyped
<1>7. CASE RegisterClient
  <2> DEFINE old == clients_[fd_[this[Reactor]]]
  <2>1. CASE old = NoConn
    BY <1>7, <2>1, <1>1 DEF RegisterClient, ReplaceClient, kernelVars, outsideVars, connVars
  <2>2. CASE old # NoConn
    <3>1. /\ destroyed' = destroyed \cup {old} /\ fd_' = [fd_ EXCEPT ![old] = NoFd]
          /\ backlog' = backlog
          /\ peer' = peer \/ SysClose(socket_[old])
      BY <1>7, <2>2 DEF RegisterClient, ReplaceClient, SysClose, kernelVars, outsideVars
    <3>2. \A d \in Conns : peer'[d] = "unused" => peer[d] = "unused"
      BY <3>1 DEF SysClose, outsideVars, TypeInv, OutsideTyped
    <3>3. old \in Conns /\ fd_[old] \in Fds
      BY <1>7, <2>2, RegistrationFacts
    <3>4. Waiting' = Waiting /\ fd_'[old] = NoFd
      BY <3>1, <3>3 DEF Waiting, TypeInv, ConnsTyped
    <3>5. \A d \in Conns : d # old => fd_'[d] = fd_[d]
      BY <3>1 DEF TypeInv, ConnsTyped
    <3>6. old \notin Waiting /\ peer[old] # "unused" /\ Waiting \subseteq Conns
      BY <3>3, ThreadFacts DEF LifeInv, Waiting, TypeInv, KernelTyped
    <3> QED
      BY <3>1, <3>2, <3>4, <3>5, <3>6 DEF LifeInv, TypeInv, ReactorTyped
  <2> QED
    BY <2>1, <2>2
<1>8. CASE \/ EpollWait \/ DispatchListen \/ AcceptEnd
           \/ \E e \in batch : DispatchError(e) \/ DispatchRead(e)
           \/ \E w \in Workers : TakeTask(w) \/ LockClient(w) \/ UnlockClient(w)
  BY <1>8, <1>1 DEF EpollWait, DispatchListen, AcceptEnd, DispatchError, DispatchRead, TakeTask,
     LockClient, UnlockClient, kernelVars, outsideVars, connVars, reactorVars
<1>9. CASE Crash
  BY <1>9 DEF Crash, LifeInv, Waiting
<1> QED
  BY <1>2, <1>3, <1>4, <1>5, <1>6, <1>7, <1>8, <1>9, ThreadFacts DEF Next, ReactorStep, WorkerStep

-----------------------------------------------------------------------------
(* The edges.                                                              *)

LEMMA OpenFacts ==
  ASSUME TypeInv, TablesInv, NEW c \in Open
  PROVE  /\ c \in Conns /\ fd_[c] \in Fds /\ fdTable[fd_[c]] = c /\ socket_[c] = fd_[c]
         /\ error_callbacks_[fd_[c]] = c
BY DEF Open, TypeInv, KernelTyped, TablesInv

(* A step that takes no edge, event, task or thread from a connection that *)
(* stays open.                                                             *)
LEMMA EventsKept ==
  ASSUME EventInv, Open' \subseteq Open,
         \A c \in Open' : /\ fd_'[c] = fd_[c]
                          /\ Due(c)' => Due(c) \/ c \in edges'
                          /\ c \in edges => c \in edges',
         \A e \in batch : e = Listen \/ e \in batch',
         \A c \in Open' : fd_[c] \in Fds,
         NoFd \notin Fds,
         UNCHANGED tasks_,
         \A w \in Workers : pc[w] = "lock" => pc'[w] = "lock" /\ fdReg'[w] = fdReg[w],
         \A t \in Threads : pc[t] \in {"recv"} \cup Closing /\ this[t] \in Open' =>
           pc'[t] \in {"recv"} \cup Closing /\ this'[t] = this[t],
         pc'[Reactor] = "register" =>
           pc[Reactor] = "register" /\ this'[Reactor] = this[Reactor]
  PROVE  EventInv'
<1>1. ASSUME NEW c \in Open', Due(c)'
      PROVE  Expected(c)'
  <2>1. CASE c \in edges'
    BY <2>1 DEF Expected
  <2>2. CASE Due(c)
    <3>1. Expected(c)
      BY <1>1, <2>2 DEF EventInv
    <3>2. ASSUME NEW e \in batch, e.fd = fd_[c]
          PROVE  e \in batch'
      BY <3>2, <1>1 DEF Listen
    <3> QED
      BY <1>1, <3>1, <3>2 DEF Expected
  <2> QED
    BY <1>1, <2>1, <2>2
<1>2. ASSUME NEW c \in Open', pc'[Reactor] = "register", c = this'[Reactor], Due(c)'
      PROVE  c \in edges'
  <2>1. pc[Reactor] = "register" /\ c = this[Reactor] /\ c \in Open
    BY <1>2
  <2> QED
    BY <1>2, <2>1 DEF EventInv
<1> QED
  BY <1>1, <1>2 DEF EventInv, Due

LEMMA EventStep ==
  ASSUME TypeInv, ThreadInv, HandlerInv, SocketInv, TablesInv, LifeInv, EventInv, Next
  PROVE  EventInv'
<1>1. ASSUME UNCHANGED <<fdTable, fd_, edges, batch, tasks_, inbox, peer>>,
             \A w \in Workers : pc[w] = "lock" => pc'[w] = "lock" /\ fdReg'[w] = fdReg[w],
             \A t \in Threads : pc[t] \in {"recv"} \cup Closing /\ this[t] \in Open =>
               pc'[t] \in {"recv"} \cup Closing /\ this'[t] = this[t],
             pc'[Reactor] = "register" =>
               pc[Reactor] = "register" /\ this'[Reactor] = this[Reactor]
      PROVE  EventInv'
  <2>1. Open' = Open /\ \A c : Due(c)' <=> Due(c)
    BY <1>1 DEF Open, Due
  <2>2. \A c \in Open : fd_[c] \in Fds
    BY OpenFacts
  <2> QED
    BY <1>1, <2>1, <2>2, EventsKept, ThreadFacts
<1>2. ASSUME NEW w \in Workers, \/ Parse(w) \/ Login(w) \/ Register(w) \/ OnlineMap(w)
                                \/ OnlineTable(w) \/ GetOffline(w) \/ Store(w) \/ Lookup(w)
      PROVE  EventInv'
  <2>1. UNCHANGED <<fdTable, fd_, edges, batch, tasks_, inbox, peer, this>>
    BY <1>2, ReadFrame DEF ReadStep, Parse, Login, Register, OnlineMap, OnlineTable, GetOffline,
       Store, Lookup, kernelVars, outsideVars
  <2>2. ReadsOn(w) /\ pc[w] # "recv"
    BY <1>2, ReadControl DEF ReadStep, Parse, Login, Register, OnlineMap, OnlineTable, GetOffline,
       Store, Lookup, Go, UserOnlineMap, UserOnlineTable, GetOfflineMessage, StoreMessage,
       LookupReceiver
  <2>3. /\ \A t \in Threads : t # w => pc'[t] = pc[t] /\ fdReg'[t] = fdReg[t]
        /\ pc[w] \notin {"lock", "recv"} \cup Closing
    BY <2>2 DEF ReadsOn, Reading, Closing, TypeInv, ThreadsTyped
  <2> QED
    BY <1>1, <2>1, <2>3, ThreadFacts
<1>3. ASSUME NEW w \in Workers, LoginResp(w) \/ Push(w) \/ Forward(w)
      PROVE  EventInv'
  <2>1. /\ UNCHANGED <<fdTable, fd_, batch, tasks_, inbox, this>> /\ edges \subseteq edges'
        /\ \A c \in Conns : peer'[c] = peer[c] \/ c \in edges'
    BY <1>3, ReadFrame DEF ReadStep, LoginResp, Push, Forward, Transmit, TypeInv, OutsideTyped
  <2>2. ReadsOn(w) /\ pc[w] # "recv"
    BY <1>3, ReadControl DEF ReadStep, LoginResp, Push, Forward, Go
  <2>3. /\ \A t \in Threads : t # w => pc'[t] = pc[t] /\ fdReg'[t] = fdReg[t]
        /\ pc[w] \notin {"lock", "recv"} \cup Closing
    BY <2>2 DEF ReadsOn, Reading, Closing, TypeInv, ThreadsTyped
  <2>4. Open' = Open /\ \A c \in Open : fd_[c] \in Fds /\ c \in Conns
    BY <2>1, OpenFacts DEF Open
  <2>5. \A c \in Open : Due(c)' => Due(c) \/ c \in edges'
    BY <2>1, <2>4 DEF Due
  <2> QED
    BY <2>1, <2>3, <2>4, <2>5, EventsKept, ThreadFacts
<1>4. ASSUME NEW w \in Workers, Recv(w)
      PROVE  EventInv'
  <2> DEFINE c == this[w]
  <2>1. /\ pc[w] = "recv" /\ c \in Conns /\ fd_[c] \in Fds
        /\ UNCHANGED <<fdTable, fd_, edges, batch, tasks_, peer, this, fdReg>>
    BY <1>4, ReadFrame, ThreadFacts DEF ReadStep, Recv, outsideVars, ThreadInv, SocketInv, TypeInv,
       ThreadsTyped
  <2>2. \A t \in Threads : t # w => pc'[t] = pc[t]
    BY <1>4 DEF Recv, TypeInv, ThreadsTyped
  <2>3. Open' = Open /\ \A d \in Open : fd_[d] \in Fds /\ d \in Conns
    BY <2>1, OpenFacts DEF Open
  <2>4. \A d \in Conns : inbox'[d] = inbox[d] \/ inbox[d] # << >>
    BY <1>4, RecvMoves DEF TypeInv, KernelTyped
  <2>5. \A d \in Open : Due(d)' => Due(d)
    BY <2>1, <2>3, <2>4 DEF Due
  <2>6. c \in Open /\ Due(c)' => pc'[w] \in {"recv"} \cup Closing
    <3> SUFFICES ASSUME c \in Open, Due(c)'
                 PROVE  pc'[w] \in {"recv"} \cup Closing
        OBVIOUS
    <3>1. fdTable[socket_[c]] = c /\ socket_[c] # NoFd /\ c # NoConn
      BY OpenFacts, ThreadFacts, <2>1
    <3>2. CASE inbox[c] # << >>
      <4>1. pc' = [pc EXCEPT ![w] = "recv"]
        BY <1>4, <3>1, <3>2 DEF Recv, MoreData
      <4> QED
        BY <4>1, ThreadFacts DEF TypeInv, ThreadsTyped
    <3>3. CASE inbox[c] = << >>
      <4>1. inbox' = inbox /\ pc' = [pc EXCEPT ![w] = AfterRecv(c, c)]
        BY <1>4, <3>1, <3>3 DEF Recv
      <4>2. peer[c] # "open"
        BY <2>1, <3>3, <4>1 DEF Due
      <4> QED
        BY <4>1, <4>2, ThreadFacts DEF AfterRecv, CloseEntry, Closing, TypeInv, ThreadsTyped
    <3> QED
      BY <3>2, <3>3
  <2>7. ASSUME NEW d \in Open, Due(d)'
        PROVE  Expected(d)'
    <3>1. CASE d = c
      BY <2>1, <2>6, <2>7, <3>1, ThreadFacts DEF Expected
    <3>2. CASE d # c
      <4>1. Expected(d)
        BY <2>5, <2>7 DEF EventInv
      <4> QED
        BY <2>1, <2>2, <3>2, <4>1, ThreadFacts DEF Expected
    <3> QED
      BY <3>1, <3>2
  <2>8. pc'[Reactor] = pc[Reactor]
    BY <2>2, ThreadFacts
  <2> QED
    BY <2>1, <2>3, <2>5, <2>7, <2>8 DEF EventInv, Due
<1>5. ASSUME NEW t \in Threads,
             OfflineMap(t) \/ OfflineTable(t) \/ CloseCheck(t) \/ CloseForget(t)
      PROVE  EventInv'
  <2>1. UNCHANGED <<fdTable, fd_, edges, batch, tasks_, inbox, peer>>
    BY <1>5 DEF OfflineMap, OfflineTable, CloseCheck, CloseForget, kernelVars, outsideVars, connVars, reactorVars
  <2>2. ClosesOn(t) /\ \A s \in Threads : s # t => pc'[s] = pc[s] /\ this'[s] = this[s]
    BY <1>5, CloseControl DEF CloseStep, ClosesOn, TypeInv, ThreadsTyped
  <2>3. this[t] \in Open => this'[t] = this[t] /\ pc'[t] \in Closing
    <3>1. CASE OfflineMap(t) \/ OfflineTable(t)
      BY <3>1 DEF OfflineMap, OfflineTable, UserOfflineMap, UserOfflineTable, Go, Closing, TypeInv,
         ThreadsTyped
    <3>2. CASE CloseCheck(t)
      BY <3>2, OpenFacts, ThreadFacts DEF CloseCheck, Closing, TypeInv, ThreadsTyped
    <3>3. CASE CloseForget(t)
      BY <3>3 DEF CloseForget, SocketInv
    <3> QED
      BY <1>5, <3>1, <3>2, <3>3
  <2>4. pc[t] \in Closing /\ pc'[t] # "register"
    BY <2>2 DEF ClosesOn, Closing, TypeInv, ThreadsTyped
  <2> QED
    BY <2>1, <2>2, <2>3, <2>4, <1>1, ThreadFacts DEF ClosesOn, Closing
<1>6. ASSUME NEW t \in Threads, CloseSys(t)
      PROVE  EventInv'
  <2> DEFINE f == fdReg[t]
             c == fdTable[f]
  <2>1. ClosesOn(t) /\ UNCHANGED <<fd_, batch, tasks_>>
    BY <1>6, CloseControl, CloseFrame DEF CloseStep
  <2>2. this[t] \in Conns /\ f \in Fds /\ f = fd_[this[t]] /\ pc[t] \in Closing
    BY <1>6, ThreadFacts DEF CloseSys, Go, ThreadInv, SocketInv, Threads, Closing, TypeInv,
          ThreadsTyped
  <2>3. fdTable' = [fdTable EXCEPT ![f] = NoConn]
    BY <1>6, <2>2 DEF CloseSys, SysClose, kernelVars, TypeInv, KernelTyped
  <2>4. ASSUME NEW d \in Open'
        PROVE  d \in Open /\ fd_[d] \in Fds /\ d # c /\ d # this[t]
    <3>1. PICK g \in Fds : d = fdTable'[g] /\ d # NoConn
      BY DEF Open
    <3>2. g # f /\ d = fdTable[g]
      BY <2>2, <2>3, <3>1 DEF TypeInv, KernelTyped
    <3>3. fd_[d] = g
      BY <3>1, <3>2 DEF TablesInv
    <3>4. d # c
      BY <2>2, <3>1, <3>2, <3>3 DEF TablesInv
    <3> QED
      BY <2>2, <3>1, <3>2, <3>3, <3>4 DEF Open
  <2>5. \A d \in Open' : Due(d)' => Due(d)
    BY <1>6, <2>4, OpenFacts DEF CloseSys, SysClose, Due, kernelVars, outsideVars, TypeInv,
       KernelTyped, OutsideTyped
  <2>6. \A d \in Open' : d \in edges => d \in edges'
    BY <1>6, <2>4 DEF CloseSys, SysClose, kernelVars
  <2>7. /\ \A s \in Threads : s # t => pc'[s] = pc[s] /\ this'[s] = this[s] /\ fdReg'[s] = fdReg[s]
        /\ pc'[t] # "register"
    BY <2>1 DEF ClosesOn, TypeInv, ThreadsTyped
  <2> QED
    BY <2>1, <2>2, <2>4, <2>5, <2>6, <2>7, EventsKept, ThreadFacts DEF Closing
<1>7. CASE EpollWait
  <2>1. /\ pc[Reactor] = "dispatch" /\ UNCHANGED <<fdTable, fd_, inbox, peer, pc, this>>
        /\ batch = {} /\ batch' = {Event(c) : c \in edges} \cup (IF listenEdge THEN {Listen} ELSE {})
        /\ UNCHANGED <<tasks_, fdReg>>
    BY <1>7 DEF EpollWait, threadVars, outsideVars, connVars
  <2>2. Open' = Open /\ \A c : Due(c)' <=> Due(c)
    BY <2>1 DEF Open, Due
  <2>3. ASSUME NEW c \in Open, Due(c)
        PROVE  Expected(c)'
    <3>1. Expected(c)
      BY <2>3 DEF EventInv
    <3>2. CASE c \in edges
      <4>1. Event(c) \in batch' /\ Event(c).fd = fd_[c]
        BY <2>1, <3>2 DEF Event
      <4> QED
        BY <2>1, <4>1 DEF Expected
    <3>3. CASE c \notin edges
      BY <2>1, <3>1, <3>3 DEF Expected
    <3> QED
      BY <3>2, <3>3
  <2> QED
    BY <2>1, <2>2, <2>3 DEF EventInv, Due
<1>8. CASE DispatchListen \/ AcceptEnd
  <2>1. /\ UNCHANGED <<fdTable, fd_, edges, inbox, peer, tasks_, this, fdReg>>
        /\ \A e \in batch : e = Listen \/ e \in batch'
        /\ pc[Reactor] \in {"dispatch", "accept"}
        /\ \E p \in {"dispatch", "accept"} : pc' = [pc EXCEPT ![Reactor] = p]
    BY <1>8 DEF DispatchListen, AcceptEnd, Go, kernelVars, outsideVars, connVars, reactorVars
  <2>2. Open' = Open /\ \A c : Due(c)' <=> Due(c)
    BY <2>1 DEF Open, Due
  <2>3. /\ \A t \in Threads : t # Reactor => pc'[t] = pc[t]
        /\ pc'[Reactor] # "register" /\ pc[Reactor] \notin {"recv"} \cup Closing
    BY <2>1, ThreadFacts DEF TypeInv, ThreadsTyped, Closing
  <2>4. \A c \in Open : fd_[c] \in Fds
    BY OpenFacts
  <2> QED
    BY <2>1, <2>2, <2>3, <2>4, EventsKept, ThreadFacts
<1>9. ASSUME NEW e \in batch, DispatchError(e) \/ DispatchRead(e)
      PROVE  EventInv'
  <2>1. /\ UNCHANGED <<fdTable, fd_, edges, inbox, peer, fdReg>>
        /\ batch' = batch \ {e} /\ pc[Reactor] = "dispatch" /\ e.fd \in Fds
    BY <1>9 DEF DispatchError, DispatchRead, Go, threadVars, kernelVars, outsideVars, connVars,
       TypeInv, ReactorTyped, Events, Listen
  <2>2. Open' = Open /\ \A c : Due(c)' <=> Due(c)
    BY <2>1 DEF Open, Due
  <2>3. /\ \A t \in Threads : t # Reactor => pc'[t] = pc[t] /\ this'[t] = this[t]
        /\ pc'[Reactor] # "register"
    BY <1>9, <2>1, ThreadFacts DEF DispatchError, DispatchRead, CloseEntry, Go, threadVars, TypeInv,
       ThreadsTyped
  <2>4. \A i \in DOMAIN tasks_ : i \in DOMAIN tasks_' /\ tasks_'[i] = tasks_[i]
    BY <1>9, <2>1 DEF DispatchError, DispatchRead, TypeInv, ReactorTyped
  <2>5. ASSUME NEW c \in Open, e.fd = fd_[c]
        PROVE  Expected(c)'
    <3>1. CASE DispatchError(e)
      <4>1. error_callbacks_[e.fd] = c
        BY <2>5, OpenFacts
      <4>2. this'[Reactor] = c /\ pc'[Reactor] \in Closing
        BY <3>1, <4>1, ThreadFacts DEF DispatchError, CloseEntry, Go, Closing, TypeInv, ThreadsTyped
      <4> QED
        BY <4>2, ThreadFacts DEF Expected
    <3>2. CASE DispatchRead(e)
      <4>1. /\ Len(tasks_) + 1 \in DOMAIN tasks_'
            /\ tasks_'[Len(tasks_) + 1] = fd_[c] /\ UNCHANGED fd_
        BY <2>1, <2>5, <3>2 DEF DispatchRead, TypeInv, ReactorTyped
      <4> QED
        BY <4>1 DEF Expected
    <3> QED
      BY <1>9, <3>1, <3>2
  <2>6. ASSUME NEW c \in Open, e.fd # fd_[c], Expected(c)
        PROVE  Expected(c)'
    <3>1. (\E d \in batch : d.fd = fd_[c]) => \E d \in batch' : d.fd = fd_[c]
      BY <2>1, <2>6
    <3>2. pc[Reactor] \notin {"recv"} \cup Closing
      BY <2>1 DEF Closing
    <3> QED
      BY <2>1, <2>3, <2>4, <2>6, <3>2, ThreadFacts DEF Expected
  <2> QED
    BY <2>2, <2>3, <2>5, <2>6 DEF EventInv
<1>10. CASE Accept
  <2>0. PICK c \in Conns, f \in Fds : c = Head(backlog) /\ f = LowestFree
    BY <1>10, AcceptFacts
  <2>1. /\ fdTable' = [fdTable EXCEPT ![f] = c] /\ fd_' = [fd_ EXCEPT ![c] = f]
        /\ edges' = IF inbox[c] # << >> \/ peer[c] # "open" THEN edges \cup {c} ELSE edges
        /\ this' = [this EXCEPT ![Reactor] = c] /\ pc' = [pc EXCEPT ![Reactor] = "register"]
        /\ pc[Reactor] = "accept" /\ UNCHANGED <<batch, tasks_, inbox, peer, fdReg>>
    BY <1>10, <2>0 DEF Accept, Go, outsideVars
  <2>2. c \in Conns /\ c \notin Open /\ Open' = Open \cup {c}
    <3>1. fdTable[f] = NoConn /\ fd_[c] = NoFd
      BY <1>10, <2>0, AcceptFacts
    <3>2. c \notin Open
      BY <3>1, OpenFacts, ThreadFacts
    <3> QED
      BY <2>1, <3>1, <3>2, ThreadFacts DEF Open, TypeInv, KernelTyped
  <2>3. Due(c)' => c \in edges'
    BY <2>1 DEF Due
  <2>4. ASSUME NEW d \in Open, Due(d)'
        PROVE  Expected(d)'
    <3>1. Expected(d) /\ fd_'[d] = fd_[d]
      BY <2>1, <2>2, <2>4, OpenFacts DEF EventInv, Due, TypeInv, ConnsTyped
    <3>2. \A t \in Threads : t # Reactor => pc'[t] = pc[t] /\ this'[t] = this[t]
      BY <2>1 DEF TypeInv, ThreadsTyped
    <3> QED
      BY <2>1, <3>1, <3>2, ThreadFacts DEF Expected, Closing
  <2>5. this'[Reactor] = c
    BY <2>1, ThreadFacts DEF TypeInv, ThreadsTyped
  <2> QED
    BY <2>2, <2>3, <2>4, <2>5 DEF EventInv, Expected, Due
<1>11. CASE RegisterClient
  <2> DEFINE old == clients_[fd_[this[Reactor]]]
  <2>1. /\ pc' = [pc EXCEPT ![Reactor] = "accept"] /\ this' = [this EXCEPT ![Reactor] = NoConn]
        /\ pc[Reactor] = "register" /\ UNCHANGED <<batch, tasks_, fdReg>>
        /\ \/ /\ UNCHANGED <<fdTable, edges, inbox, peer>>
              /\ fd_' = fd_ \/ (old # NoConn /\ fd_' = [fd_ EXCEPT ![old] = NoFd])
           \/ /\ old # NoConn /\ socket_[old] # NoFd /\ SysClose(socket_[old])
              /\ fd_' = [fd_ EXCEPT ![old] = NoFd]
    BY <1>11 DEF RegisterClient, ReplaceClient, Go, NextAccept, kernelVars, outsideVars, connVars
  <2>2. old # NoConn => /\ old \in Conns /\ fd_[old] = fd_[this[Reactor]] /\ old \notin Open
                        /\ fd_[old] \in Fds
    <3>1. ASSUME old # NoConn
          PROVE  /\ old \in Conns /\ fd_[old] = fd_[this[Reactor]] /\ fd_[old] \in Fds
                 /\ old # this[Reactor]
      BY <1>11, <3>1, RegistrationFacts
    <3>2. error_callbacks_[fd_[this[Reactor]]] = this[Reactor]
      BY <2>1 DEF TablesInv
    <3> QED
      BY <3>1, <3>2, OpenFacts
  <2>3. old # NoConn => socket_[old] \in Fds \cup {NoFd}
    BY <2>2 DEF TypeInv, ConnsTyped
  <2>4. /\ \A g \in Fds : fdTable'[g] = fdTable[g] \/ fdTable'[g] = NoConn
        /\ \A d \in Open' : /\ d \in edges => d \in edges'
                            /\ d \in Conns => inbox'[d] = inbox[d] /\ peer'[d] = peer[d]
    <3>1. CASE UNCHANGED <<fdTable, edges, inbox, peer>>
      BY <3>1
    <3>2. CASE old # NoConn /\ socket_[old] # NoFd /\ SysClose(socket_[old])
      <4> DEFINE g == socket_[old]
                 d == fdTable[g]
      <4>1. g \in Fds
        BY <2>3, <3>2
      <4>2. CASE d = NoConn
        BY <3>2, <4>2 DEF SysClose, kernelVars, outsideVars
      <4>3. CASE d # NoConn
        <5>1. /\ fdTable' = [fdTable EXCEPT ![g] = NoConn] /\ edges' = edges \ {d}
              /\ inbox' = [inbox EXCEPT ![d] = << >>] /\ peer' = [peer EXCEPT ![d] = "gone"]
          BY <3>2, <4>3 DEF SysClose
        <5>2. d \notin Open'
          BY <4>1, <4>3, <5>1 DEF Open, TablesInv, TypeInv, KernelTyped
        <5> QED
          BY <4>1, <5>1, <5>2 DEF TypeInv, KernelTyped, OutsideTyped
      <4> QED
        BY <4>2, <4>3
    <3> QED
      BY <2>1, <3>1, <3>2
  <2>5. \A d \in Open' : d \in Open /\ d \in Conns /\ fd_[d] \in Fds
    <3>1. Open' \subseteq Open
      BY <2>4 DEF Open
    <3> QED
      BY <3>1, OpenFacts
  <2>6. \A d \in Open' : fd_'[d] = fd_[d] /\ (Due(d)' => Due(d))
    BY <2>1, <2>2, <2>4, <2>5 DEF Due, TypeInv, ConnsTyped
  <2>7. /\ \A t \in Threads : t # Reactor => pc'[t] = pc[t] /\ this'[t] = this[t]
        /\ pc'[Reactor] # "register" /\ pc[Reactor] \notin {"recv"} \cup Closing
    BY <2>1, ThreadFacts DEF TypeInv, ThreadsTyped, Closing
  <2> QED
    BY <2>1, <2>4, <2>5, <2>6, <2>7, EventsKept, ThreadFacts
<1>12. ASSUME NEW w \in Workers, TakeTask(w)
       PROVE  EventInv'
  <2>1. /\ tasks_ # << >> /\ tasks_' = Tail(tasks_) /\ pc[w] = "idle"
        /\ pc' = [pc EXCEPT ![w] = "lock"] /\ fdReg' = [fdReg EXCEPT ![w] = Head(tasks_)]
        /\ UNCHANGED <<fdTable, fd_, edges, inbox, peer, batch, this>>
    BY <1>12 DEF TakeTask, Go, kernelVars, outsideVars, connVars
  <2>2. Open' = Open /\ \A c : Due(c)' <=> Due(c)
    BY <2>1 DEF Open, Due
  <2>3. /\ pc'[w] = "lock" /\ fdReg'[w] = Head(tasks_)
        /\ \A t \in Threads : t # w => pc'[t] = pc[t] /\ fdReg'[t] = fdReg[t]
    BY <2>1, ThreadFacts DEF TypeInv, ThreadsTyped
  <2>4. \A i \in DOMAIN tasks_ : \/ tasks_[i] = Head(tasks_)
                                 \/ i - 1 \in DOMAIN tasks_' /\ tasks_'[i - 1] = tasks_[i]
    BY <2>1 DEF TypeInv, ReactorTyped
  <2>5. ASSUME NEW c, Expected(c)
        PROVE  Expected(c)'
    <3>1. CASE \E i \in DOMAIN tasks_ : tasks_[i] = fd_[c]
      BY <2>1, <2>3, <2>4, <3>1, ThreadFacts DEF Expected
    <3>2. CASE ~ \E i \in DOMAIN tasks_ : tasks_[i] = fd_[c]
      BY <2>1, <2>3, <2>5, <3>2, ThreadFacts DEF Expected, Closing
    <3> QED
      BY <3>1, <3>2
  <2> QED
    BY <2>1, <2>2, <2>3, <2>5, ThreadFacts DEF EventInv
<1>13. ASSUME NEW w \in Workers, LockClient(w)
       PROVE  EventInv'
  <2> DEFINE d == clients_[fdReg[w]]
  <2>1. /\ pc[w] = "lock" /\ pc' = [pc EXCEPT ![w] = IF d = NoConn THEN "idle" ELSE "recv"]
        /\ this' = [this EXCEPT ![w] = d] /\ fdReg' = [fdReg EXCEPT ![w] = NoFd]
        /\ UNCHANGED <<fdTable, fd_, edges, inbox, peer, batch, tasks_>>
    BY <1>13 DEF LockClient, Go, kernelVars, outsideVars, connVars
  <2>2. Open' = Open /\ \A c : Due(c)' <=> Due(c)
    BY <2>1 DEF Open, Due
  <2>3. /\ this'[w] = d /\ (d # NoConn => pc'[w] = "recv")
        /\ \A t \in Threads : t # w => pc'[t] = pc[t] /\ fdReg'[t] = fdReg[t] /\ this'[t] = this[t]
    BY <2>1, ThreadFacts DEF TypeInv, ThreadsTyped
  <2>4. ASSUME NEW c \in Open, Due(c)
        PROVE  Expected(c)'
    <3>1. Expected(c)
      BY <2>4 DEF EventInv
    <3>2. fd_[c] \in Fds /\ error_callbacks_[fd_[c]] = c /\ c # NoConn
      BY OpenFacts, ThreadFacts
    <3>3. CASE fdReg[w] = fd_[c]
      <4>1. CASE d = c
        BY <2>3, <3>2, <4>1, ThreadFacts DEF Expected
      <4>2. CASE d # c
        <5>1. pc[Reactor] = "register" /\ this[Reactor] = c
          BY <3>2, <3>3, <4>2 DEF TablesInv
        <5>2. c \in edges
          BY <5>1, <2>4 DEF EventInv
        <5> QED
          BY <2>1, <5>2 DEF Expected
      <4> QED
        BY <4>1, <4>2
    <3>4. CASE fdReg[w] # fd_[c]
      BY <2>1, <2>3, <3>1, <3>4, ThreadFacts DEF Expected, Closing
    <3> QED
      BY <3>3, <3>4
  <2> QED
    BY <2>1, <2>2, <2>3, <2>4, ThreadFacts DEF EventInv
<1>14. ASSUME NEW w \in Workers, UnlockClient(w)
       PROVE  EventInv'
  <2>1. /\ pc[w] \in {"parse", "closed"} /\ pc' = [pc EXCEPT ![w] = "idle"]
        /\ this' = [this EXCEPT ![w] = NoConn] /\ fdReg' = [fdReg EXCEPT ![w] = NoFd]
        /\ UNCHANGED <<fdTable, fd_, edges, batch, tasks_, inbox, peer>>
    BY <1>14 DEF UnlockClient, kernelVars, outsideVars, connVars
  <2>2. \A t \in Threads : t # w => pc'[t] = pc[t] /\ fdReg'[t] = fdReg[t] /\ this'[t] = this[t]
    BY <2>1 DEF TypeInv, ThreadsTyped
  <2> QED
    BY <2>1, <2>2, <1>1, ThreadFacts DEF Closing
<1>15. ASSUME NEW c \in Conns, ClientStep(c)
       PROVE  EventInv'
  <2>1. UNCHANGED <<fdTable, fd_, batch, tasks_, pc, this, fdReg>>
    BY <1>15 DEF ClientStep, Connect, SendRegister, SendLogin, SendChat, Request, Hangup,
       serverVars, threadVars, connVars, reactorVars
  <2>2. Open' = Open /\ \A d \in Open : fd_[d] \in Fds /\ d \in Conns
    BY <2>1, OpenFacts DEF Open
  <2>3. edges \subseteq edges' /\ \A d \in Open : Due(d)' => Due(d) \/ d \in edges'
    BY <1>15, <2>2 DEF ClientStep, Connect, SendRegister, SendLogin, SendChat, Request, Hangup, Due,
       TypeInv, KernelTyped, OutsideTyped
  <2> QED
    BY <2>1, <2>2, <2>3, EventsKept, ThreadFacts
<1>16. CASE Crash
  BY <1>16, ThreadFacts DEF Crash, EventInv, Open
<1> QED
  BY <1>2, <1>3, <1>4, <1>5, <1>6, <1>7, <1>8, <1>9, <1>10, <1>11, <1>12, <1>13, <1>14, <1>15,
     <1>16, ThreadFacts DEF Next, ClientStep, ReactorStep, WorkerStep, ReadStep, CloseStep

-----------------------------------------------------------------------------
(* The theorems.                                                           *)

Inv == TypeInv /\ ThreadInv /\ HandlerInv /\ SocketInv /\ TablesInv /\ LifeInv /\ EventInv

LEMMA InitInv == Init => Inv
<1> SUFFICES ASSUME Init
             PROVE  Inv
    OBVIOUS
<1> USE DEF Init, ProcessInit, WorldInit
<1>1. << >> \in Seq(Pending) /\ << >> \in Seq(Conns) /\ << >> \in Seq(Fds)
  OBVIOUS
<1>2. KernelTyped /\ ReactorTyped /\ ConnsTyped
  BY <1>1 DEF KernelTyped, ReactorTyped, ConnsTyped, Open
<1>3. OutsideTyped /\ UsersTyped /\ MessagesTyped
  BY StateAssumption, FS_EmptySet DEF OutsideTyped, UsersTyped, MessagesTyped
<1>4. ThreadsTyped
  BY DEF ThreadsTyped
<1>5. ThreadInv /\ HandlerInv /\ SocketInv
  BY ThreadFacts DEF ThreadInv, HandlerInv, SocketInv, Reading, Closing
<1>6. TablesInv /\ LifeInv /\ EventInv
  BY ThreadFacts DEF TablesInv, LifeInv, EventInv, Waiting, Open
<1> QED
  BY <1>2, <1>3, <1>4, <1>5, <1>6 DEF Inv, TypeInv

LEMMA StutterInv == Inv /\ UNCHANGED vars => Inv'
<1> SUFFICES ASSUME Inv, UNCHANGED vars
             PROVE  Inv'
    OBVIOUS
<1>1. UNCHANGED <<fdTable, backlog, listenEdge, edges, inbox, peer, account, sent, pc, this, fdReg,
                  fetched, users, online_users_, online_table, messages, offline, fd_, socket_,
                  user_id_, buffer_, clients_, error_callbacks_, batch, tasks_, client_mutex_,
                  destroyed>>
  BY DEF vars, serverVars, kernelVars, outsideVars, threadVars, userVars, messageVars, connVars,
         reactorVars
<1>2. TypeInv' /\ ThreadInv'
  BY <1>1 DEF Inv, TypeInv, KernelTyped, OutsideTyped, ThreadsTyped, UsersTyped, MessagesTyped,
     ConnsTyped, ReactorTyped, Open, Pending, Events, Listen, ThreadInv
<1>3. HandlerInv' /\ SocketInv' /\ TablesInv'
  BY <1>1 DEF Inv, HandlerInv, Request1, SocketInv, TablesInv, Listen, Open
<1>4. LifeInv' /\ EventInv'
  BY <1>1 DEF Inv, LifeInv, Waiting, EventInv, Open, Due, Expected
<1> QED
  BY <1>2, <1>3, <1>4 DEF Inv

LEMMA NextInv == Inv /\ [Next]_vars => Inv'
<1>1. Inv /\ Next => Inv'
  BY WorldTypes, ThreadStep, UserTypes, MessageTypes, ConnTypes, ReactorTypes, HandlerStep,
     SocketStep, TablesStep, LifeStep, EventStep DEF Inv, TypeInv
<1> QED
  BY <1>1, StutterInv

LEMMA Invariance == Spec => []Inv
BY InitInv, NextInv, PTL DEF Spec

(* Every variable of the server has its type; in particular handleRead     *)
(* never erases a request from an empty buffer, and what is stored as a    *)
(* message was sent by a client.                                           *)
THEOREM ChatTypeCorrect == Spec => []TypeOK
<1>1. Inv => TypeOK
  <2> SUFFICES ASSUME Inv
               PROVE  TypeOK
      OBVIOUS
  <2>1. \A c \in Conns : inbox[c] \in Seq(Requests) /\ buffer_[c] \in Seq(Requests)
    BY PendingTypes, SeqMonotonic DEF Inv, TypeInv, KernelTyped, ConnsTyped
  <2> QED
    BY <2>1 DEF Inv, TypeInv, TypeOK, KernelTyped, OutsideTyped, ThreadsTyped, UsersTyped,
       MessagesTyped, ConnsTyped, ReactorTyped
<1> QED
  BY <1>1, Invariance, PTL

(* No thread works on an object that was deleted, and neither clients_ nor *)
(* an error callback leads to one, although the callbacks hold raw         *)
(* pointers and the reactor thread uses them without client_mutex_.        *)
THEOREM ChatUsesNoFreedObject == Spec => []NoUseAfterFree
<1>1. Inv => NoUseAfterFree
  BY ThreadFacts DEF Inv, NoUseAfterFree, LifeInv, SocketInv, TablesInv, TypeInv, ReactorTyped,
     ThreadsTyped
<1> QED
  BY <1>1, Invariance, PTL

(* Every open connection can be reached by an event and by a task, however *)
(* descriptors are reused.                                                 *)
THEOREM ChatReachesOpenConns == Spec => []OpenConnReachable
<1>1. Inv => OpenConnReachable
  BY DEF Inv, OpenConnReachable, TablesInv
<1> QED
  BY <1>1, Invariance, PTL

(* No edge is lost: an open connection with unread data, or whose client   *)
(* is gone, has an event, a task or a thread on its way to it.             *)
THEOREM ChatLosesNoEvent == Spec => []NoLostEvent
<1>1. Inv => NoLostEvent
  BY DEF Inv, NoLostEvent, EventInv, Due, Expected
<1> QED
  BY <1>1, Invariance, PTL

=============================================================================
