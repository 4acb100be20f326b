------------------------- MODULE ChatDeliveryProofs -------------------------
(***************************************************************************)
(* Theorems of ChatServer about what users receive and how it is routed,   *)
(* for any number of connections, descriptors, workers, users and chat     *)
(* messages.  Each one assumes of the clients and of the database only     *)
(* what it names.                                                          *)
(***************************************************************************)
EXTENDS ChatServerProofs

-----------------------------------------------------------------------------
(* Who receives what.                                                      *)

GotTyped == got \in [Users -> Seq(messages)]

(* Worker w sends m, and the client of connection c receives it.           *)
Delivers(w, c, m) ==
  /\ this[w] \in Conns /\ account[c] \in Users /\ m \in messages
  /\ got' = [got EXCEPT ![account[c]] = @ \o <<m>>]
  /\ \/ /\ pc[w] = "push" /\ m \in fetched[w]
        /\ socket_[this[w]] \in Fds /\ c = fdTable[socket_[this[w]]]
        /\ fetched' = [fetched EXCEPT ![w] = @ \ {m}]
     \/ /\ pc[w] = "forward" /\ m = Request1(w).msg
        /\ fdReg[w] \in Fds /\ c = fdTable[fdReg[w]]
        /\ pc' = [pc EXCEPT ![w] = "parse"] /\ UNCHANGED fetched

LEMMA TransmitFacts ==
  ASSUME TypeInv, NEW f \in Fds \cup {NoFd}, NEW cs, NEW ms, Transmit(f, cs, ms), got' # got
  PROVE  /\ f \in Fds /\ fdTable[f] \in Conns /\ account[fdTable[f]] \in Users
         /\ got' = [got EXCEPT ![account[fdTable[f]]] = @ \o ms]
BY DEF Transmit, TypeInv, KernelTyped, OutsideTyped

LEMMA OnlyTransmitDelivers ==
  ASSUME Next, got' # got
  PROVE  \E w \in Workers : LoginResp(w) \/ Push(w) \/ Forward(w)
<1>1. ASSUME NEW w \in Workers, Recv(w) \/ Parse(w) \/ Login(w) \/ Register(w)
      PROVE  FALSE
  BY <1>1 DEF Recv, Parse, Login, Register, outsideVars
<1>2. ASSUME NEW w \in Workers, OnlineMap(w) \/ OnlineTable(w)
      PROVE  FALSE
  BY <1>2 DEF OnlineMap, OnlineTable, outsideVars
<1>3. ASSUME NEW w \in Workers, GetOffline(w) \/ Store(w) \/ Lookup(w)
      PROVE  FALSE
  BY <1>3 DEF GetOffline, Store, Lookup, outsideVars
<1>4. ASSUME NEW w \in Workers, TakeTask(w) \/ LockClient(w) \/ UnlockClient(w)
      PROVE  FALSE
  BY <1>4 DEF TakeTask, LockClient, UnlockClient, outsideVars
<1>5. ASSUME NEW t \in Threads, CloseStep(t)
      PROVE  FALSE
  BY <1>5, CloseFrame
<1>6. CASE \/ EpollWait \/ DispatchListen \/ AcceptEnd \/ Accept
           \/ \E e \in batch : DispatchError(e) \/ DispatchRead(e)
  BY <1>6 DEF EpollWait, DispatchListen, AcceptEnd, Accept, DispatchError, DispatchRead,
     outsideVars
<1>7. CASE RegisterClient
  BY <1>7 DEF RegisterClient, ReplaceClient, SysClose, outsideVars
<1>8. ASSUME NEW c \in Conns, ClientStep(c)
      PROVE  FALSE
  BY <1>8 DEF ClientStep, Connect, SendRegister, SendLogin, SendChat, Request, Hangup
<1>9. CASE Crash
  BY <1>9 DEF Crash
<1> QED
  BY <1>1, <1>2, <1>3, <1>4, <1>5, <1>6, <1>7, <1>8, <1>9, ThreadFacts
     DEF Next, ClientStep, ReactorStep, WorkerStep, ReadStep

LEMMA Deliveries ==
  ASSUME Inv, GotTyped, Next, got' # got
  PROVE  \E w \in Workers : \E c \in Conns : \E m \in messages : 
           (Push(w) \/ Forward(w)) /\ Delivers(w, c, m)
<1>1. PICK w \in Workers : LoginResp(w) \/ Push(w) \/ Forward(w)
  BY OnlyTransmitDelivers
<1>2. pc[w] \in Reading \ {"recv", "parse"} /\ w \in Threads
  BY <1>1, ThreadFacts DEF LoginResp, Push, Forward, Go, Reading
<1>3. /\ this[w] \in Conns /\ Request1(w) \in Pending
      /\ socket_[this[w]] \in Fds \cup {NoFd} /\ fetched[w] \subseteq messages
  BY <1>2, HandlerFacts DEF Inv, TypeInv, ConnsTyped, MessagesTyped
<1>4. CASE LoginResp(w)
  <2>1. Transmit(socket_[this[w]], Conns, << >>)
    BY <1>4 DEF LoginResp
  <2>2. PICK u \in Users : got' = [got EXCEPT ![u] = @ \o << >>]
    BY <1>3, <2>1, TransmitFacts DEF Inv
  <2>3. got[u] \o << >> = got[u]
    BY ConcatEmptySeq DEF GotTyped
  <2> QED
    BY <2>2, <2>3 DEF GotTyped
<1>5. CASE Push(w)
  <2>1. PICK m \in fetched[w] : /\ Transmit(socket_[this[w]], {}, <<m>>)
                                /\ fetched' = [fetched EXCEPT ![w] = @ \ {m}]
    BY <1>5 DEF Push
  <2> DEFINE f == socket_[this[w]]
  <2>2. /\ f \in Fds /\ fdTable[f] \in Conns /\ account[fdTable[f]] \in Users
        /\ got' = [got EXCEPT ![account[fdTable[f]]] = @ \o <<m>>]
    BY <1>3, <2>1, TransmitFacts DEF Inv
  <2>3. pc[w] = "push" /\ m \in messages
    BY <1>3, <1>5 DEF Push
  <2> QED
    BY <1>3, <1>5, <2>1, <2>2, <2>3 DEF Delivers
<1>6. CASE Forward(w)
  <2> DEFINE m == Request1(w).msg
             f == fdReg[w]
  <2>1. /\ Transmit(f, {}, <<m>>) /\ pc[w] = "forward" /\ UNCHANGED fetched
        /\ pc' = [pc EXCEPT ![w] = "parse"]
    BY <1>6 DEF Forward, Go
  <2>2. f \in Fds /\ m \in messages
    BY <1>2, <2>1 DEF Inv, ThreadInv, HandlerInv
  <2>3. /\ fdTable[f] \in Conns /\ account[fdTable[f]] \in Users
        /\ got' = [got EXCEPT ![account[fdTable[f]]] = @ \o <<m>>]
    BY <2>1, <2>2, TransmitFacts DEF Inv
  <2> QED
    BY <1>3, <1>6, <2>1, <2>2, <2>3 DEF Delivers
<1> QED
  BY <1>1, <1>4, <1>5, <1>6

(* What a delivery adds to what users have received.                       *)
LEMMA DeliveredTo ==
  ASSUME NEW S, got \in [Users -> Seq(S)], NEW u \in Users, NEW m \in S,
         got' = [got EXCEPT ![u] = @ \o <<m>>]
  PROVE  /\ got' \in [Users -> Seq(S)]
         /\ got'[u] = Append(got[u], m)
         /\ ReceivedBy(u)' = ReceivedBy(u) \cup {m}
         /\ \A v \in Users : v # u => got'[v] = got[v] /\ ReceivedBy(v)' = ReceivedBy(v)
<1>1. got[u] \in Seq(S)
  OBVIOUS
<1>2. Append(got[u], m) = got[u] \o <<m>> /\ Append(got[u], m) \in Seq(S)
  BY <1>1, AppendIsConcat, AppendProperties
<1>3. got'[u] = Append(got[u], m) /\ \A v \in Users : v # u => got'[v] = got[v]
  BY <1>2
<1>4. ReceivedBy(u)' = ReceivedBy(u) \cup {m}
  <2> DEFINE q == got'[u]
  <2>1. /\ DOMAIN got[u] = 1 .. Len(got[u]) /\ Len(got[u]) \in Nat
        /\ DOMAIN q = 1 .. (Len(got[u]) + 1)
        /\ \A i \in 1 .. Len(got[u]) : q[i] = got[u][i]
        /\ q[Len(got[u]) + 1] = m
    BY <1>1, <1>3, AppendProperties
  <2>2. {q[i] : i \in DOMAIN q} = {got[u][i] : i \in DOMAIN got[u]} \cup {m}
    BY <2>1
  <2> QED
    BY <2>2 DEF ReceivedBy
<1> QED
  BY <1>2, <1>3, <1>4 DEF ReceivedBy

LEMMA MessagesKept ==
  ASSUME Next
  PROVE  messages \subseteq messages'
<1>1. ASSUME NEW w \in Workers, \/ Recv(w) \/ Parse(w) \/ Login(w) \/ Register(w) \/ OnlineMap(w)
                                \/ OnlineTable(w) \/ LoginResp(w) \/ Push(w) \/ Lookup(w)
                                \/ Forward(w)
      PROVE  messages' = messages
  BY <1>1 DEF Recv, Parse, Login, Register, OnlineMap, OnlineTable, LoginResp, Push, Lookup,
     Forward, messageVars
<1>2. ASSUME NEW w \in Workers, GetOffline(w) \/ Store(w)
      PROVE  messages \subseteq messages'
  BY <1>2 DEF GetOffline, GetOfflineMessage, Store, StoreMessage
<1>3. ASSUME NEW w \in Workers, TakeTask(w) \/ LockClient(w) \/ UnlockClient(w)
      PROVE  messages' = messages
  BY <1>3 DEF TakeTask, LockClient, UnlockClient, messageVars
<1>4. ASSUME NEW t \in Threads, CloseStep(t)
      PROVE  messages' = messages
  BY <1>4, CloseFrame
<1>5. CASE \/ EpollWait \/ DispatchListen \/ AcceptEnd \/ Accept \/ RegisterClient
           \/ \E e \in batch : DispatchError(e) \/ DispatchRead(e)
  BY <1>5 DEF EpollWait, DispatchListen, AcceptEnd, Accept, RegisterClient, ReplaceClient,
     DispatchError, DispatchRead, messageVars
<1>6. ASSUME NEW c \in Conns, ClientStep(c)
      PROVE  messages' = messages
  BY <1>6 DEF ClientStep, Connect, SendRegister, SendLogin, SendChat, Request, Hangup,
     serverVars, messageVars
<1>7. CASE Crash
  BY <1>7 DEF Crash, messageVars
<1> QED
  BY <1>1, <1>2, <1>3, <1>4, <1>5, <1>6, <1>7, ThreadFacts
     DEF Next, ClientStep, ReactorStep, WorkerStep, ReadStep

LEMMA GotStep ==
  ASSUME Inv, GotTyped, Next
  PROVE  GotTyped'
<1>1. \A u \in Users : got[u] \in Seq(messages')
  BY MessagesKept, SeqMonotonic DEF GotTyped
<1>2. got \in [Users -> Seq(messages')]
  BY <1>1 DEF GotTyped
<1>3. CASE got' = got
  BY <1>2, <1>3 DEF GotTyped
<1>4. CASE got' # got
  <2>1. PICK w \in Workers, c \in Conns, m \in messages : Delivers(w, c, m)
    BY <1>4, Deliveries
  <2>2. m \in messages' /\ account[c] \in Users /\ got' = [got EXCEPT ![account[c]] = @ \o <<m>>]
    BY <2>1, MessagesKept DEF Delivers
  <2> QED
    BY <1>2, <2>2, DeliveredTo DEF GotTyped
<1> QED
  BY <1>3, <1>4

LEMMA GotInvariance == Spec => []GotTyped
<1>1. Init => GotTyped
  BY DEF Init, WorldInit, GotTyped
<1>2. Inv /\ GotTyped /\ [Next]_vars => GotTyped'
  <2>1. ASSUME GotTyped, UNCHANGED vars
        PROVE  GotTyped'
    BY <2>1 DEF GotTyped, vars, outsideVars, serverVars, messageVars
  <2> QED
    BY <2>1, GotStep
<1> QED
  BY <1>1, <1>2, Invariance, PTL DEF Spec

(* What a client receives is in the table of messages, whatever fails: a   *)
(* message whose insert failed is not forwarded, and one that was fetched  *)
(* as an offline message is in the table.                                  *)
THEOREM DeliveredIsInTable == Spec => []DeliveredIsStored
<1>1. GotTyped => DeliveredIsStored
  BY DEF GotTyped, DeliveredIsStored, ReceivedBy
<1> QED
  BY <1>1, GotInvariance, PTL

-----------------------------------------------------------------------------
(* Steps, in groups.                                                       *)

QuietStep == \/ EpollWait \/ DispatchListen \/ AcceptEnd
             \/ \E e \in batch : DispatchRead(e)
             \/ \E w \in Workers : TakeTask(w)

(* A quiet step changes nothing but events, tasks and who waits for one.   *)
LEMMA QuietFrame ==
  ASSUME Inv, QuietStep
  PROVE  /\ UNCHANGED <<fdTable, inbox, backlog, outsideVars, userVars, messageVars, connVars,
                        clients_, client_mutex_, this, fetched>>
         /\ \A w \in Workers : \/ pc'[w] = pc[w] /\ fdReg'[w] = fdReg[w]
                               \/ pc[w] = "idle" /\ pc'[w] = "lock"
         /\ pc'[Reactor] \in {pc[Reactor], "accept", "dispatch"}
<1> USE DEF Inv, TypeInv, ThreadsTyped
<1>1. CASE EpollWait
  BY <1>1 DEF EpollWait, threadVars
<1>2. CASE DispatchListen \/ AcceptEnd
  BY <1>2, ThreadFacts DEF DispatchListen, AcceptEnd, Go, kernelVars, reactorVars
<1>3. CASE \E e \in batch : DispatchRead(e)
  BY <1>3 DEF DispatchRead, kernelVars, threadVars
<1>4. CASE \E w \in Workers : TakeTask(w)
  BY <1>4, ThreadFacts DEF TakeTask, Go, kernelVars
<1> QED
  BY <1>1, <1>2, <1>3, <1>4 DEF QuietStep

(* What clients do to the server: requests arrive.                         *)
LEMMA ClientFrame ==
  ASSUME NEW c \in Conns, ClientStep(c)
  PROVE  UNCHANGED <<fdTable, welcomed, got, crashes, threadVars, userVars, messageVars, connVars, reactorVars>>
BY DEF ClientStep, Connect, SendRegister, SendLogin, SendChat, Request, Hangup, serverVars

(* The worker that holds client_mutex_ is alone.                           *)
LEMMA Alone ==
  ASSUME Inv, NEW w \in Workers, pc[w] \notin {"idle", "lock"}
  PROVE  /\ this[w] \in Conns /\ this[w] # NoConn /\ w \in Threads
         /\ \A v \in Workers : v # w => this[v] = NoConn /\ pc[v] \in {"idle", "lock"}
BY ThreadFacts, OneInside DEF Inv, ThreadInv, TypeInv, ThreadsTyped

(* What the steps inside handleRead and handleClose do to the threads.     *)
LEMMA ReadMoves ==
  ASSUME Inv, NEW w \in Workers, ReadStep(w)
  PROVE  /\ pc[w] \in Reading /\ pc'[w] \in Reading \cup {"offlineMap", "closeCheck"}
         /\ \A t \in Threads : t # w => pc'[t] = pc[t] /\ fdReg'[t] = fdReg[t]
BY ReadControl, ThreadFacts DEF ReadsOn, Inv, TypeInv, ThreadsTyped

LEMMA CloseMoves ==
  ASSUME Inv, NEW w \in Workers, CloseStep(w)
  PROVE  /\ pc[w] \in Closing
         /\ pc'[w] \in {"offlineTable", "closeCheck", "closeSys", "closeForget", "closed"}
         /\ this' = this
         /\ \A t \in Threads : t # w => pc'[t] = pc[t] /\ fdReg'[t] = fdReg[t]
BY CloseControl, ThreadFacts DEF ClosesOn, Inv, TypeInv, ThreadsTyped

-----------------------------------------------------------------------------
(* Clients that do not reset: the reactor thread closes nothing.           *)

NoResetInv ==
  /\ \A c \in Conns : peer[c] # "rst"
  /\ \A e \in batch : e.kind # "error"
  /\ pc[Reactor] \notin Closing

LEMMA OrderlySteps ==
  ASSUME Inv, NoResetInv, Next
  PROVE  \/ QuietStep \/ Accept \/ RegisterClient
         \/ \E w \in Workers : LockClient(w) \/ UnlockClient(w) \/ ReadStep(w) \/ CloseStep(w)
         \/ \E c \in Conns : ClientStep(c)
         \/ Crash
<1>1. ~ CloseStep(Reactor)
  BY CloseControl, ThreadFacts DEF Inv, NoResetInv, ClosesOn
<1>2. \A e \in batch : ~ DispatchError(e)
  BY DEF NoResetInv, DispatchError
<1> QED
  BY <1>1, <1>2 DEF Next, ReactorStep, WorkerStep, QuietStep, ClientStep

(* What is sent to a dead client provokes no answer.                       *)
LEMMA ReadKeepsPeers ==
  ASSUME Abortive = FALSE, NEW w \in Workers, ReadStep(w)
  PROVE  peer' = peer
<1>1. CASE LoginResp(w) \/ Push(w) \/ Forward(w)
  BY <1>1 DEF LoginResp, Push, Forward, Transmit
<1>2. CASE Recv(w) \/ Parse(w) \/ Login(w) \/ Register(w)
  BY <1>2 DEF Recv, Parse, Login, Register, outsideVars
<1>3. CASE OnlineMap(w) \/ OnlineTable(w)
  BY <1>3 DEF OnlineMap, OnlineTable, outsideVars
<1>4. CASE GetOffline(w) \/ Store(w) \/ Lookup(w)
  BY <1>4 DEF GetOffline, Store, Lookup, outsideVars
<1> QED
  BY <1>1, <1>2, <1>3, <1>4 DEF ReadStep

LEMMA NoResetStep ==
  ASSUME Inv, NoResetInv, Next, Abortive = FALSE
  PROVE  NoResetInv'
<1>1. ASSUME NEW c \in Conns, NEW f, SysClose(f)
      PROVE  peer'[c] # "rst"
  BY <1>1 DEF SysClose, outsideVars, NoResetInv, Inv, TypeInv, OutsideTyped
<1>2. CASE QuietStep
  <2>1. \A c \in Conns : peer'[c] # "rst"
    BY <1>2, QuietFrame DEF NoResetInv, outsideVars
  <2>2. ASSUME NEW e \in batch'
        PROVE  e.kind # "error"
    <3>1. CASE EpollWait
      <4>1. e = Listen \/ \E c \in edges : e = Event(c)
        BY <2>2, <3>1 DEF EpollWait
      <4>2. \A c \in edges : c \in Conns
        BY DEF Inv, TypeInv, KernelTyped, Open
      <4> QED
        BY <4>1, <4>2 DEF Event, Listen, NoResetInv
    <3>2. CASE ~ EpollWait
      BY <1>2, <2>2, <3>2
         DEF QuietStep, DispatchListen, AcceptEnd, DispatchRead, TakeTask, reactorVars, NoResetInv
    <3> QED
      BY <3>1, <3>2
  <2> QED
    BY <1>2, <2>1, <2>2, QuietFrame DEF NoResetInv, Closing
<1>3. CASE Accept
  BY <1>3, ThreadFacts DEF Accept, Go, outsideVars, NoResetInv, Closing, Inv, TypeInv, ThreadsTyped
<1>4. CASE RegisterClient
  <2>1. \A c \in Conns : peer'[c] # "rst"
    BY <1>4, <1>1 DEF RegisterClient, ReplaceClient, outsideVars, NoResetInv
  <2> QED
    BY <1>4, <2>1, ThreadFacts DEF RegisterClient, ReplaceClient, Go, NextAccept, NoResetInv,
       Closing, Inv, TypeInv, ThreadsTyped
<1>5. ASSUME NEW w \in Workers, LockClient(w) \/ UnlockClient(w)
      PROVE  NoResetInv'
  BY <1>5, ThreadFacts DEF LockClient, UnlockClient, Go, outsideVars, NoResetInv, Inv, TypeInv,
     ThreadsTyped
<1>6. ASSUME NEW w \in Workers, ReadStep(w)
      PROVE  NoResetInv'
  <2>1. peer' = peer
    BY <1>6, ReadKeepsPeers
  <2> QED
    BY <1>6, <2>1, ReadFrame, ReadMoves, ThreadFacts DEF NoResetInv
<1>7. ASSUME NEW w \in Workers, CloseStep(w)
      PROVE  NoResetInv'
  <2>1. \A c \in Conns : peer'[c] # "rst"
    BY <1>7, <1>1 DEF CloseStep, OfflineMap, OfflineTable, CloseCheck, CloseSys, CloseForget,
       outsideVars, NoResetInv
  <2> QED
    BY <1>7, <2>1, CloseFrame, CloseMoves, ThreadFacts DEF NoResetInv
<1>8. ASSUME NEW c \in Conns, ClientStep(c)
      PROVE  NoResetInv'
  <2>1. \A d \in Conns : peer'[d] # "rst"
    BY <1>8 DEF ClientStep, Connect, SendRegister, SendLogin, SendChat, Request, Hangup,
       NoResetInv, Inv, TypeInv, OutsideTyped
  <2> QED
    BY <1>8, <2>1, ClientFrame DEF NoResetInv, threadVars, reactorVars
<1>9. CASE Crash
  BY <1>9, ThreadFacts DEF Crash, NoResetInv, Closing
<1> QED
  BY <1>2, <1>3, <1>4, <1>5, <1>6, <1>7, <1>8, <1>9, OrderlySteps

(* A worker has closed the descriptor of c and not forgotten it yet.       *)
Forgetting(c) == \E w \in Workers : this[w] = c /\ pc[w] = "closeForget"

(* A Socket that holds a descriptor owns it, but for one that is about to  *)
(* forget it, and the object a worker is in is the registered one.         *)
OwnInv ==
  /\ \A c \in Conns : socket_[c] # NoFd => fdTable[socket_[c]] = c \/ Forgetting(c)
  /\ \A w \in Workers : /\ this[w] # NoConn => clients_[fd_[this[w]]] = this[w]
                        /\ pc[w] = "closeSys" => socket_[this[w]] = fdReg[w]

(* A worker inside an object that holds a descriptor finds its connection. *)
LEMMA OwnsDescriptor ==
  ASSUME Inv, OwnInv, NEW w \in Workers, pc[w] \notin {"idle", "lock", "closeForget"},
         socket_[this[w]] # NoFd
  PROVE  /\ this[w] \in Conns /\ fdTable[socket_[this[w]]] = this[w]
         /\ socket_[this[w]] \in Fds /\ socket_[this[w]] = fd_[this[w]]
<1>1. this[w] \in Conns /\ \A v \in Workers : v # w => pc[v] \in {"idle", "lock"}
  BY Alone
<1>2. ~ Forgetting(this[w])
  BY <1>1 DEF Forgetting
<1> QED
  BY <1>1, <1>2 DEF OwnInv, Inv, SocketInv, TypeInv, ConnsTyped

(* The object that is replaced has no descriptor any more: the kernel has  *)
(* given it to the new one.                                                *)
LEMMA ReplacedIsClosed ==
  ASSUME Inv, OwnInv, RegisterClient
  PROVE  LET c == this[Reactor]
             old == clients_[fd_[c]]
         IN /\ old # NoConn => old \in Conns /\ old # c /\ socket_[old] = NoFd
            /\ \A w \in Workers : pc'[w] = pc[w] /\ pc[w] \in {"idle", "lock"}
                                  /\ this'[w] = NoConn /\ this[w] = NoConn
            /\ UNCHANGED <<kernelVars, outsideVars>>
            /\ clients_' = [clients_ EXCEPT ![fd_[c]] = c]
            /\ \/ old = NoConn /\ UNCHANGED connVars
               \/ /\ old # NoConn
                  /\ fd_' = [fd_ EXCEPT ![old] = NoFd]
                  /\ user_id_' = [user_id_ EXCEPT ![old] = NoUser]
                  /\ buffer_' = [buffer_ EXCEPT ![old] = << >>]
                  /\ socket_' = socket_
<1> DEFINE c == this[Reactor]
           old == clients_[fd_[c]]
<1>1. /\ pc[Reactor] = "register" /\ c \in Conns /\ fd_[c] \in Fds
      /\ \A w \in Workers : pc[w] \in {"idle", "lock"} /\ this[w] = NoConn
      /\ old # NoConn => old \in Conns /\ old # c /\ fd_[old] = fd_[c]
  BY RegistrationFacts DEF Inv
<1>2. ASSUME old # NoConn
      PROVE  socket_[old] = NoFd
  <2>1. socket_[old] # NoFd => socket_[old] = fd_[c] /\ fdTable[fd_[c]] = old
    BY <1>1, <1>2 DEF Inv, SocketInv, OwnInv, Forgetting
  <2>2. fdTable[fd_[c]] # NoConn => fdTable[fd_[c]] = c
    BY <1>1 DEF Inv, TablesInv
  <2> QED
    BY <1>1, <1>2, <2>1, <2>2
<1>3. UNCHANGED <<kernelVars, outsideVars>>
  BY <1>2 DEF RegisterClient, ReplaceClient
<1>4. \A w \in Workers : pc'[w] = pc[w] /\ this'[w] = NoConn
  BY <1>1, ThreadFacts DEF RegisterClient, ReplaceClient, Go, Inv, TypeInv, ThreadsTyped
<1>5. old # NoConn => [socket_ EXCEPT ![old] = NoFd] = socket_
  BY <1>2 DEF Inv, TypeInv, ConnsTyped
<1> QED
  BY <1>1, <1>2, <1>3, <1>4, <1>5 DEF RegisterClient, ReplaceClient

LEMMA OwnStep ==
  ASSUME Inv, NoResetInv, OwnInv, Next
  PROVE  OwnInv'
<1>1. ASSUME UNCHANGED <<fdTable, socket_, fd_, clients_>>,
             \A w \in Workers :
               /\ \/ this'[w] = NoConn /\ pc'[w] # "closeSys"
                  \/ /\ this'[w] = this[w]
                     /\ pc'[w] = "closeSys" => pc[w] = "closeSys" /\ fdReg'[w] = fdReg[w]
               /\ pc[w] = "closeForget" => pc'[w] = "closeForget" /\ this'[w] = this[w]
      PROVE  OwnInv'
  BY <1>1 DEF OwnInv, Forgetting
<1>2. CASE QuietStep
  BY <1>2, <1>1, QuietFrame DEF connVars
<1>3. CASE Accept
  <2> DEFINE c == Head(backlog)
             f == LowestFree
  <2>1. c \in Conns /\ f \in Fds /\ fdTable[f] = NoConn /\ fd_[c] = NoFd
    BY <1>3, AcceptFacts DEF Inv
  <2>2. /\ fdTable' = [fdTable EXCEPT ![f] = c] /\ socket_' = [socket_ EXCEPT ![c] = f]
        /\ fd_' = [fd_ EXCEPT ![c] = f] /\ UNCHANGED <<clients_, fdReg>>
        /\ this' = [this EXCEPT ![Reactor] = c] /\ pc' = [pc EXCEPT ![Reactor] = "register"]
    BY <1>3 DEF Accept, Go
  <2>3. \A w \in Workers : this'[w] = this[w] /\ pc'[w] = pc[w]
    BY <2>2, ThreadFacts DEF Inv, TypeInv, ThreadsTyped
  <2>4. \A w \in Workers : this[w] # NoConn => this[w] # c /\ this[w] \in Conns
    BY <2>1, ThreadFacts DEF Inv, SocketInv, TypeInv, ThreadsTyped
  <2>5. ASSUME NEW d \in Conns, socket_'[d] # NoFd
        PROVE  fdTable'[socket_'[d]] = d \/ Forgetting(d)'
    BY <2>1, <2>2, <2>3, <2>5, ThreadFacts DEF OwnInv, Forgetting, Inv, TypeInv, KernelTyped,
       ConnsTyped
  <2>6. \A w \in Workers : pc[w] = "closeSys" => this[w] # NoConn
    BY DEF Inv, ThreadInv
  <2> QED
    BY <2>1, <2>2, <2>3, <2>4, <2>5, <2>6 DEF OwnInv, Inv, TypeInv, ConnsTyped
<1>4. CASE RegisterClient
  <2>1. socket_' = socket_ /\ fdTable' = fdTable
    BY <1>4, ReplacedIsClosed DEF connVars, kernelVars
  <2>2. \A w \in Workers : this'[w] = NoConn /\ pc[w] # "closeForget" /\ pc'[w] # "closeSys"
    BY <1>4, ReplacedIsClosed
  <2> QED
    BY <2>1, <2>2 DEF OwnInv, Forgetting
<1>5. ASSUME NEW w \in Workers, LockClient(w)
      PROVE  OwnInv'
  <2>1. /\ fdReg[w] \in Fds /\ pc[w] = "lock"
        /\ this' = [this EXCEPT ![w] = clients_[fdReg[w]]]
        /\ pc'[w] # "closeSys" /\ \A v \in Workers : v # w => pc'[v] = pc[v]
        /\ fdReg' = [fdReg EXCEPT ![w] = NoFd]
        /\ UNCHANGED <<fdTable, socket_, fd_, clients_>>
    BY <1>5, ThreadFacts DEF LockClient, Go, kernelVars, connVars, Inv, ThreadInv, TypeInv,
       ThreadsTyped
  <2>2. clients_[fdReg[w]] # NoConn => fd_[clients_[fdReg[w]]] = fdReg[w]
    BY <2>1 DEF Inv, TablesInv
  <2> QED
    BY <2>1, <2>2, ThreadFacts DEF OwnInv, Forgetting, Inv, TypeInv, ThreadsTyped
<1>6. ASSUME NEW w \in Workers, UnlockClient(w)
      PROVE  OwnInv'
  BY <1>6, <1>1, ThreadFacts DEF UnlockClient, kernelVars, connVars, Inv, TypeInv, ThreadsTyped
<1>7. ASSUME NEW w \in Workers, ReadStep(w)
      PROVE  OwnInv'
  <2>1. pc'[w] # "closeSys" /\ pc[w] # "closeForget"
    BY <1>7, ReadMoves DEF Reading
  <2> QED
    BY <1>7, <2>1, <1>1, ReadFrame, ReadMoves, ThreadFacts
<1>8. ASSUME NEW w \in Workers, OfflineMap(w) \/ OfflineTable(w) \/ CloseCheck(w)
      PROVE  OwnInv'
  <2>1. UNCHANGED <<fdTable, socket_, fd_, clients_>>
    BY <1>8 DEF OfflineMap, OfflineTable, CloseCheck, kernelVars, connVars, reactorVars
  <2>2. pc'[w] = "closeSys" => socket_[this[w]] = fdReg'[w]
    BY <1>8, ThreadFacts DEF OfflineMap, UserOfflineMap, OfflineTable, UserOfflineTable, CloseCheck,
       CloseReturns, Go, Inv, TypeInv, ThreadsTyped
  <2>3. pc[w] # "closeForget"
    BY <1>8 DEF OfflineMap, UserOfflineMap, OfflineTable, UserOfflineTable, CloseCheck, Go
  <2> QED
    BY <1>8, <2>1, <2>2, <2>3, CloseMoves, ThreadFacts DEF CloseStep, OwnInv, Forgetting
<1>9. ASSUME NEW w \in Workers, CloseSys(w)
      PROVE  OwnInv'
  <2> DEFINE c == this[w]
             f == fdReg[w]
  <2>1. /\ c \in Conns /\ \A v \in Workers : v # w => this[v] = NoConn /\ pc[v] \in {"idle", "lock"}
    BY <1>9, Alone DEF CloseSys, Go
  <2>2. f \in Fds /\ socket_[c] = f /\ fdTable[f] = c
    <3>1. pc[w] = "closeSys" /\ f \in Fds /\ socket_[c] = f
      BY <1>9, <2>1, ThreadFacts DEF CloseSys, Go, Inv, ThreadInv, OwnInv
    <3> QED
      BY <3>1, OwnsDescriptor, ThreadFacts
  <2>3. /\ fdTable' = [fdTable EXCEPT ![f] = NoConn]
        /\ UNCHANGED <<socket_, fd_, clients_>>
    BY <1>9, <2>1, <2>2, ThreadFacts DEF CloseSys, SysClose, connVars, reactorVars
  <2>4. /\ this' = this /\ pc'[w] = "closeForget" /\ \A v \in Workers : v # w => pc'[v] = pc[v]
    BY <1>9, ThreadFacts DEF CloseSys, Go, Inv, TypeInv, ThreadsTyped
  <2>5. ASSUME NEW d \in Conns, socket_'[d] # NoFd
        PROVE  fdTable'[socket_'[d]] = d \/ Forgetting(d)'
    <3>1. CASE d = c
      BY <2>4, <3>1 DEF Forgetting
    <3>2. CASE d # c
      <4>1. ~ Forgetting(d)
        BY <1>9, <2>1 DEF Forgetting, CloseSys, Go
      <4>2. socket_[d] # f /\ fdTable[socket_[d]] = d /\ socket_[d] \in Fds
        BY <2>2, <2>3, <2>5, <3>2, <4>1 DEF OwnInv, Inv, TypeInv, ConnsTyped
      <4> QED
        BY <2>3, <4>2 DEF Inv, TypeInv, KernelTyped
    <3> QED
      BY <3>1, <3>2
  <2> QED
    BY <2>1, <2>3, <2>4, <2>5 DEF OwnInv
<1>12. ASSUME NEW w \in Workers, CloseForget(w)
       PROVE  OwnInv'
  <2> DEFINE c == this[w]
  <2>1. /\ c \in Conns /\ \A v \in Workers : v # w => this[v] = NoConn /\ pc[v] \in {"idle", "lock"}
    BY <1>12, Alone DEF CloseForget
  <2>2. /\ socket_' = [socket_ EXCEPT ![c] = NoFd]
        /\ UNCHANGED <<fdTable, fd_, clients_, this>>
        /\ pc'[w] = "closed" /\ \A v \in Workers : v # w => pc'[v] = pc[v]
    BY <1>12, ThreadFacts DEF CloseForget, CloseReturns, kernelVars, reactorVars, Inv, TypeInv,
       ThreadsTyped
  <2>3. ASSUME NEW d \in Conns, socket_'[d] # NoFd
        PROVE  fdTable'[socket_'[d]] = d
    <3>1. d # c /\ socket_'[d] = socket_[d]
      BY <2>1, <2>2, <2>3 DEF Inv, TypeInv, ConnsTyped
    <3>2. ~ Forgetting(d)
      BY <2>1, <3>1 DEF Forgetting
    <3> QED
      BY <2>2, <2>3, <3>1, <3>2 DEF OwnInv
  <2> QED
    BY <2>1, <2>2, <2>3 DEF OwnInv
<1>10. ASSUME NEW c \in Conns, ClientStep(c)
       PROVE  OwnInv'
  BY <1>10, <1>1, ClientFrame DEF threadVars, connVars, reactorVars
<1>11. CASE Crash
  BY <1>11, ThreadFacts DEF Crash, OwnInv
<1> QED
  BY <1>2, <1>3, <1>4, <1>5, <1>6, <1>7, <1>8, <1>9, <1>10, <1>11, <1>12, OrderlySteps
     DEF CloseStep

LEMMA OwnInvariance ==
  ASSUME Abortive = FALSE
  PROVE  Spec => [](NoResetInv /\ OwnInv)
<1>1. Init => NoResetInv /\ OwnInv
  BY ThreadFacts DEF Init, ProcessInit, WorldInit, NoResetInv, OwnInv, Closing
<1>2. Inv /\ NoResetInv /\ OwnInv /\ [Next]_vars => (NoResetInv /\ OwnInv)'
  <2>1. ASSUME NoResetInv, OwnInv, UNCHANGED vars
        PROVE  (NoResetInv /\ OwnInv)'
    BY <2>1 DEF NoResetInv, OwnInv, Forgetting, vars, kernelVars, outsideVars, serverVars, threadVars, connVars,
       reactorVars
  <2> QED
    BY <2>1, NoResetStep, OwnStep
<1> QED
  BY <1>1, <1>2, Invariance, PTL DEF Spec

(* If clients do not reset their connections, the descriptor a Socket      *)
(* holds is its own, except between the two statements with which a worker *)
(* closes and forgets it, where nobody uses it: neither its close nor its  *)
(* sends reach a stranger.  With resets they do: see the run               *)
(* chat_double_close.                                                      *)
THEOREM ChatHoldsOwnDescriptors ==
  ASSUME Abortive = FALSE
  PROVE  Spec => []NoForeignDescriptor
<1>1. OwnInv => NoForeignDescriptor
  BY ThreadFacts DEF OwnInv, Forgetting, NoForeignDescriptor
<1> QED
  BY <1>1, OwnInvariance, PTL

-----------------------------------------------------------------------------
(* Failures are bounded.                                                   *)

BoundsInv ==
  /\ db_faults \in Nat /\ db_faults <= MaxDbFaults
  /\ crashes \in Nat /\ crashes <= MaxCrashes

LEMMA FaultsStep ==
  ASSUME Next
  PROVE  (StatementOk \/ StatementFails) /\ (crashes' = crashes \/ Crash)
<1>1. ASSUME NEW w \in Workers, Login(w) \/ Register(w) \/ GetOffline(w) \/ Store(w)
      PROVE  crashes' = crashes /\ (StatementOk \/ StatementFails)
  <2>1. crashes' = crashes
    BY <1>1 DEF Login, Register, GetOffline, Store, outsideVars
  <2>2. StatementOk \/ StatementFails
    BY <1>1 DEF Login, loginUser, loginFails, Register, registerUser, GetOffline,
       GetOfflineMessage, Store, StoreMessage
  <2> QED
    BY <2>1, <2>2
<1>2. ASSUME NEW w \in Workers, OnlineMap(w) \/ OnlineTable(w)
      PROVE  crashes' = crashes /\ (StatementOk \/ StatementFails)
  BY <1>2 DEF OnlineMap, OnlineTable, UserOnlineMap, UserOnlineTable, outsideVars
<1>3. ASSUME NEW t \in Threads, CloseStep(t)
      PROVE  crashes' = crashes /\ (StatementOk \/ StatementFails)
  <2>1. StatementOk \/ StatementFails
    BY <1>3 DEF CloseStep, OfflineMap, OfflineTable, UserOfflineMap, UserOfflineTable, CloseCheck,
       CloseSys, CloseForget, userVars, StatementOk
  <2> QED
    BY <1>3, <2>1, CloseFrame
<1>4. ASSUME NEW w \in Workers, \/ Recv(w) \/ Parse(w) \/ LoginResp(w) \/ Push(w) \/ Lookup(w)
                                \/ Forward(w) \/ TakeTask(w) \/ LockClient(w) \/ UnlockClient(w)
      PROVE  UNCHANGED <<crashes, db_faults>>
  BY <1>4 DEF Recv, Parse, LoginResp, Push, Lookup, Forward, Transmit, TakeTask, LockClient,
     UnlockClient, outsideVars, userVars
<1>5. CASE \/ EpollWait \/ DispatchListen \/ AcceptEnd \/ Accept \/ RegisterClient
           \/ \E e \in batch : DispatchError(e) \/ DispatchRead(e)
  <2>1. UNCHANGED <<crashes, db_faults>>
    BY <1>5 DEF EpollWait, DispatchListen, AcceptEnd, Accept, RegisterClient, ReplaceClient,
       SysClose, DispatchError, DispatchRead, outsideVars, userVars
  <2> QED
    BY <2>1 DEF StatementOk
<1>6. ASSUME NEW c \in Conns, ClientStep(c)
      PROVE  UNCHANGED <<crashes, db_faults>>
  BY <1>6, ClientFrame DEF userVars
<1>7. CASE Crash
  BY <1>7 DEF Crash, StatementOk
<1> QED
  BY <1>1, <1>2, <1>3, <1>4, <1>5, <1>6, <1>7, ThreadFacts
     DEF Next, ClientStep, ReactorStep, WorkerStep, ReadStep, StatementOk

LEMMA BoundsStep ==
  ASSUME BoundsInv, Next
  PROVE  BoundsInv'
<1>1. db_faults' \in Nat /\ db_faults' <= MaxDbFaults
  BY FaultsStep, StateAssumption DEF StatementOk, StatementFails, BoundsInv
<1>2. crashes' \in Nat /\ crashes' <= MaxCrashes
  <2>1. Crash => crashes < MaxCrashes /\ crashes' = crashes + 1
    BY DEF Crash
  <2> QED
    BY <2>1, FaultsStep, StateAssumption DEF BoundsInv
<1> QED
  BY <1>1, <1>2 DEF BoundsInv

LEMMA BoundsInvariance == Spec => []BoundsInv
<1>1. Init => BoundsInv
  BY StateAssumption DEF Init, WorldInit, BoundsInv
<1>2. BoundsInv /\ [Next]_vars => BoundsInv'
  <2>1. ASSUME BoundsInv, UNCHANGED vars
        PROVE  BoundsInv'
    BY <2>1 DEF BoundsInv, vars, outsideVars, serverVars, userVars
  <2> QED
    BY <2>1, BoundsStep
<1> QED
  BY <1>1, <1>2, PTL DEF Spec

LEMMA NothingFails ==
  ASSUME BoundsInv
  PROVE  /\ MaxDbFaults = 0 => ~ StatementFails
         /\ MaxCrashes = 0 => ~ Crash
BY DEF BoundsInv, StatementFails, Crash

-----------------------------------------------------------------------------
(* Clients that wait for their login, too: the server closes no connection *)
(* whose client has not, and logs nobody in on one it has closed.          *)

NoLoginIn(s) == \A i \in DOMAIN s : s[i].type # "LOGIN"

(* The handlers between a login and what waits for its user.               *)
Entering == {"login", "onlineMap", "onlineTable", "loginResp", "getOffline", "push"}

PatientInv ==
  /\ \A c \in Conns : fd_[c] # NoFd => c \in Open \/ (peer[c] # "open" /\ inbox[c] = << >>)
  /\ \A c \in Conns : LoginSeenTo(c) \/ peer[c] = "open"
  /\ \A w \in Workers :
       /\ pc[w] \in Entering => socket_[this[w]] # NoFd
       /\ pc[w] \in Closing => peer[this[w]] # "open"

(* handleRead goes on, after recv, until its buffer is empty.              *)
LEMMA HandlersStay ==
  ASSUME Inv, NEW w \in Workers, ReadStep(w), ~ Recv(w)
  PROVE  /\ pc'[w] \in Reading \ {"recv"} /\ pc[w] # "recv"
         /\ \/ buffer_' = buffer_
            \/ /\ pc'[w] = "parse" /\ buffer_[this[w]] # << >>
               /\ buffer_' = [buffer_ EXCEPT ![this[w]] = Tail(@)]
<1> USE DEF Reading
<1>1. w \in DOMAIN pc
  BY ThreadFacts DEF Inv, TypeInv, ThreadsTyped
<1>2. CASE Parse(w)
  BY <1>1, <1>2 DEF Parse, Handler
<1>3. CASE OnlineMap(w) \/ OnlineTable(w) \/ LoginResp(w)
  BY <1>1, <1>3 DEF OnlineMap, UserOnlineMap, OnlineTable, UserOnlineTable, LoginResp, Go, connVars
<1>4. CASE \/ Login(w) \/ Register(w) \/ GetOffline(w) \/ Push(w) \/ Store(w) \/ Lookup(w)
           \/ Forward(w)
  <2>1. /\ pc[w] \in Reading \ {"recv", "parse"} /\ Erase(w)
        /\ pc'[w] \in Reading \ {"recv"}
    BY <1>1, <1>4 DEF Login, Register, GetOffline, GetOfflineMessage, Push, Store, StoreMessage,
       Lookup, LookupReceiver, Forward, Go
  <2>2. buffer_[this[w]] # << >>
    BY <2>1 DEF Inv, HandlerInv
  <2> QED
    BY <2>1, <2>2 DEF Erase
<1> QED
  BY <1>2, <1>3, <1>4 DEF ReadStep

(* recv reads from the connection of its own object.                       *)
LEMMA OwnRecv ==
  ASSUME Inv, OwnInv, NEW w \in Workers, Recv(w)
  PROVE  LET c == this[w]
         IN /\ pc[w] = "recv" /\ c \in Conns
            /\ \/ /\ socket_[c] = NoFd /\ UNCHANGED <<inbox, buffer_>>
                  /\ pc'[w] \in {"parse", CloseEntry(c)}
               \/ /\ socket_[c] \in Fds /\ fdTable[socket_[c]] = c /\ inbox[c] # << >>
                  /\ buffer_' = [buffer_ EXCEPT ![c] = Append(@, Head(inbox[c]))]
                  /\ inbox' = [inbox EXCEPT ![c] = Tail(@)]
                  /\ pc'[w] = "recv"
               \/ /\ socket_[c] \in Fds /\ fdTable[socket_[c]] = c /\ inbox[c] = << >>
                  /\ UNCHANGED <<inbox, buffer_>>
                  /\ pc'[w] = IF peer[c] = "open" THEN "parse" ELSE CloseEntry(c)
<1>1. pc[w] = "recv" /\ this[w] \in Conns
  BY Alone DEF Recv
<1>2. socket_[this[w]] # NoFd => socket_[this[w]] \in Fds /\ fdTable[socket_[this[w]]] = this[w]
  BY <1>1, OwnsDescriptor
<1>3. w \in DOMAIN pc
  BY ThreadFacts DEF Inv, TypeInv, ThreadsTyped
<1> QED
  BY <1>1, <1>2, <1>3, ThreadFacts DEF Recv, MoreData, AfterRecv

LEMMA PatientStep ==
  ASSUME Inv, NoResetInv, OwnInv, PatientInv, Next, Abortive = FALSE, Hasty = FALSE
  PROVE  PatientInv'
<1> USE DEF Entering
<1>1. ASSUME UNCHANGED <<fdTable, fd_, socket_, inbox, peer>>,
             \A c \in Conns : /\ NoLoginIn(buffer_[c]) => NoLoginIn(buffer_'[c])
                              /\ user_id_[c] # NoUser => user_id_'[c] # NoUser,
             \A w \in Workers :
               /\ pc'[w] \in Entering => socket_[this'[w]] # NoFd
               /\ pc'[w] \in Closing => peer[this'[w]] # "open"
      PROVE  PatientInv'
  BY <1>1 DEF PatientInv, LoginSeenTo, NoLoginIn, Open
<1>2. ASSUME UNCHANGED <<fdTable, fd_, socket_, inbox, peer, buffer_, user_id_>>,
             \A w \in Workers : pc'[w] \in Entering \cup Closing =>
                                  pc'[w] = pc[w] /\ this'[w] = this[w]
      PROVE  PatientInv'
  BY <1>1, <1>2 DEF PatientInv
<1>3. ASSUME NEW w \in Workers, pc[w] \notin {"idle", "lock"},
             \A t \in Threads : t # w => pc'[t] = pc[t]
      PROVE  \A v \in Workers : v # w => pc'[v] \in {"idle", "lock"}
  BY <1>3, Alone, ThreadFacts
<1>4. ASSUME NEW w \in Workers, this[w] # NoConn, peer[this[w]] = "open"
      PROVE  this[w] \in Open /\ socket_[this[w]] # NoFd
  <2>1. this[w] \in Conns /\ fd_[this[w]] \in Fds
    BY <1>4, ThreadFacts DEF Inv, SocketInv, TypeInv, ThreadsTyped
  <2>2. this[w] \in Open
    BY <1>4, <2>1, ThreadFacts DEF PatientInv
  <2> QED
    BY <2>1, <2>2, OpenFacts, ThreadFacts DEF Inv
<1>5. CASE QuietStep
  BY <1>5, <1>2, QuietFrame DEF connVars, outsideVars, Closing
<1>6. CASE Accept
  <2> DEFINE c == Head(backlog)
             f == LowestFree
  <2>1. c \in Conns /\ f \in Fds /\ fdTable[f] = NoConn
    BY <1>6, AcceptFacts DEF Inv
  <2>2. /\ fdTable' = [fdTable EXCEPT ![f] = c] /\ fd_' = [fd_ EXCEPT ![c] = f]
        /\ socket_' = [socket_ EXCEPT ![c] = f]
        /\ UNCHANGED <<inbox, peer, buffer_, user_id_>>
        /\ \A w \in Workers : this'[w] = this[w] /\ pc'[w] = pc[w]
    BY <1>6, ThreadFacts DEF Accept, Go, outsideVars, Inv, TypeInv, ThreadsTyped
  <2>3. Open' = Open \cup {c}
    BY <2>1, <2>2, ThreadFacts DEF Open, Inv, TypeInv, KernelTyped
  <2>4. \A d \in Conns : /\ d # c => fd_'[d] = fd_[d]
                         /\ socket_[d] # NoFd => socket_'[d] # NoFd
    BY <2>1, <2>2, ThreadFacts DEF Inv, TypeInv, ConnsTyped
  <2>5. \A w \in Workers : pc[w] \in Entering => this[w] \in Conns
    BY Alone
  <2> QED
    BY <2>2, <2>3, <2>4, <2>5 DEF PatientInv, LoginSeenTo
<1>7. CASE RegisterClient
  <2> DEFINE old == clients_[fd_[this[Reactor]]]
  <2>1. /\ UNCHANGED <<fdTable, inbox, peer>>
        /\ \A w \in Workers : pc'[w] \in {"idle", "lock"}
        /\ \/ UNCHANGED <<fd_, user_id_, buffer_>>
           \/ /\ old \in Conns /\ socket_[old] = NoFd
              /\ fd_' = [fd_ EXCEPT ![old] = NoFd]
              /\ user_id_' = [user_id_ EXCEPT ![old] = NoUser]
              /\ buffer_' = [buffer_ EXCEPT ![old] = << >>]
    BY <1>7, ReplacedIsClosed DEF kernelVars, outsideVars, connVars
  <2>2. ASSUME old \in Conns, socket_[old] = NoFd
        PROVE  inbox[old] = << >>
    <3>1. fd_[old] \in Fds
      BY <1>7, <2>2, RegistrationFacts, ThreadFacts DEF Inv
    <3>2. old \notin Open
      BY <2>2, <3>1, OpenFacts, ThreadFacts DEF Inv
    <3> QED
      BY <2>2, <3>1, <3>2, ThreadFacts DEF PatientInv
  <2>3. \A d \in Conns : LoginSeenTo(d)' \/ peer'[d] = "open"
    <3>1. CASE UNCHANGED <<fd_, user_id_, buffer_>>
      BY <2>1, <3>1 DEF PatientInv, LoginSeenTo
    <3>2. CASE ~ UNCHANGED <<fd_, user_id_, buffer_>>
      <4>1. /\ inbox'[old] = << >> /\ buffer_'[old] = << >> /\ peer' = peer
            /\ \A d \in Conns : d # old => /\ inbox'[d] = inbox[d] /\ buffer_'[d] = buffer_[d]
                                           /\ user_id_'[d] = user_id_[d]
        BY <2>1, <2>2, <3>2 DEF Inv, TypeInv, ConnsTyped
      <4> QED
        BY <4>1 DEF PatientInv, LoginSeenTo
    <3> QED
      BY <3>1, <3>2
  <2>4. \A d \in Conns : fd_'[d] # NoFd => fd_'[d] = fd_[d]
    BY <2>1 DEF Inv, TypeInv, ConnsTyped
  <2> QED
    BY <2>1, <2>3, <2>4 DEF PatientInv, Open, Closing
<1>8. ASSUME NEW w \in Workers, LockClient(w) \/ UnlockClient(w)
      PROVE  PatientInv'
  BY <1>8, <1>2, ThreadFacts DEF LockClient, UnlockClient, Go, kernelVars, outsideVars, connVars,
     Closing, Inv, TypeInv, ThreadsTyped
<1>9. ASSUME NEW w \in Workers, Recv(w)
      PROVE  PatientInv'
  <2> DEFINE c == this[w]
  <2>1. /\ c \in Conns /\ c # NoConn
        /\ UNCHANGED <<this, peer, fdTable, fd_, socket_, user_id_>>
        /\ \A v \in Workers : v # w => pc'[v] \in {"idle", "lock"}
        /\ pc[w] = "recv"
    BY <1>9, <1>3, Alone, ReadMoves DEF Recv, outsideVars, ReadStep
  <2>2. CASE UNCHANGED <<inbox, buffer_>>
    <3>1. /\ pc'[w] \in {"recv", "parse", CloseEntry(c)}
          /\ pc'[w] = CloseEntry(c) => socket_[c] = NoFd \/ peer[c] # "open"
      BY <1>9, OwnRecv DEF CloseEntry
    <3>2. /\ pc'[w] \notin Entering
          /\ pc'[w] \in Closing => peer[c] # "open"
      BY <2>1, <3>1, <1>4 DEF CloseEntry, Closing
    <3> QED
      BY <2>1, <2>2, <3>2, <1>1 DEF Closing
  <2>3. CASE ~ UNCHANGED <<inbox, buffer_>>
    <3>1. /\ socket_[c] \in Fds /\ fdTable[socket_[c]] = c /\ inbox[c] # << >>
          /\ buffer_' = [buffer_ EXCEPT ![c] = Append(@, Head(inbox[c]))]
          /\ inbox' = [inbox EXCEPT ![c] = Tail(@)]
          /\ pc'[w] = "recv"
      BY <1>9, <2>3, OwnRecv
    <3>2. c \in Open
      BY <2>1, <3>1 DEF Open
    <3>3. \A d \in Conns : /\ d # c => inbox'[d] = inbox[d] /\ buffer_'[d] = buffer_[d]
                           /\ d = c => /\ inbox'[d] = Tail(inbox[c])
                                       /\ buffer_'[d] = Append(buffer_[c], Head(inbox[c]))
      BY <2>1, <3>1 DEF Inv, TypeInv, KernelTyped, ConnsTyped
    <3>4. NoLoginIn(inbox[c]) /\ NoLoginIn(buffer_[c]) =>
            NoLoginIn(Tail(inbox[c])) /\ NoLoginIn(Append(buffer_[c], Head(inbox[c])))
      <4>1. inbox[c] \in Seq(Pending) /\ buffer_[c] \in Seq(Pending)
        BY <2>1 DEF Inv, TypeInv, KernelTyped, ConnsTyped
      <4>2. /\ Head(inbox[c]) \in Pending /\ 1 \in DOMAIN inbox[c] /\ Head(inbox[c]) = inbox[c][1]
            /\ \A i \in DOMAIN Tail(inbox[c]) : \E j \in DOMAIN inbox[c] : Tail(inbox[c])[i] = inbox[c][j]
        BY <3>1, <4>1, TailElements
      <4>3. \A i \in DOMAIN Append(buffer_[c], Head(inbox[c])) :
              \/ Append(buffer_[c], Head(inbox[c]))[i] = Head(inbox[c])
              \/ \E j \in DOMAIN buffer_[c] : Append(buffer_[c], Head(inbox[c]))[i] = buffer_[c][j]
        BY <4>1, <4>2, AppendElements
      <4> QED
        BY <4>2, <4>3 DEF NoLoginIn
    <3>5. \A d \in Conns : LoginSeenTo(d)' \/ peer'[d] = "open"
      <4>1. ASSUME NEW d \in Conns
            PROVE  /\ LoginSeenTo(d) <=> \/ user_id_[d] # NoUser
                                         \/ NoLoginIn(inbox[d]) /\ NoLoginIn(buffer_[d])
                   /\ LoginSeenTo(d)' <=> \/ user_id_'[d] # NoUser
                                          \/ NoLoginIn(inbox'[d]) /\ NoLoginIn(buffer_'[d])
        BY DEF LoginSeenTo, NoLoginIn
      <4>2. \A d \in Conns : LoginSeenTo(d) \/ peer[d] = "open"
        BY DEF PatientInv
      <4> QED
        BY <2>1, <3>3, <3>4, <4>1, <4>2
    <3> QED
      BY <2>1, <3>1, <3>2, <3>3, <3>5 DEF PatientInv, Open, Closing
  <2> QED
    BY <2>2, <2>3
<1>10. ASSUME NEW w \in Workers, ReadStep(w), ~ Recv(w)
       PROVE  PatientInv'
  <2> DEFINE c == this[w]
  <2>1. /\ pc'[w] \in Reading \ {"recv"} /\ pc[w] \in Reading
        /\ UNCHANGED <<this, fdTable, fd_, socket_, peer>>
        /\ c \in Conns /\ c # NoConn /\ w \in DOMAIN pc
        /\ \A v \in Workers : v # w => pc'[v] \in {"idle", "lock"}
    BY <1>10, <1>3, HandlersStay, ReadMoves, ReadFrame, ReadKeepsPeers, Alone, ThreadFacts
       DEF Reading, Inv, TypeInv, ThreadsTyped
  <2>2. inbox' = inbox
    <3>1. CASE LoginResp(w) \/ Push(w) \/ Forward(w)
      BY <3>1 DEF LoginResp, Push, Forward, Transmit
    <3>2. CASE \/ Parse(w) \/ Login(w) \/ Register(w) \/ OnlineMap(w) \/ OnlineTable(w)
               \/ GetOffline(w) \/ Store(w) \/ Lookup(w)
      BY <3>2 DEF Parse, Login, Register, OnlineMap, OnlineTable, GetOffline, Store, Lookup,
         kernelVars
    <3> QED
      BY <1>10, <3>1, <3>2 DEF ReadStep
  <2>3. \A d \in Conns : NoLoginIn(buffer_[d]) => NoLoginIn(buffer_'[d])
    <3>1. CASE buffer_' = buffer_
      BY <3>1
    <3>2. CASE buffer_' # buffer_
      <4>1. buffer_[c] # << >> /\ buffer_' = [buffer_ EXCEPT ![c] = Tail(@)]
        BY <1>10, <3>2, HandlersStay
      <4>2. \A i \in DOMAIN Tail(buffer_[c]) : \E j \in DOMAIN buffer_[c] : Tail(buffer_[c])[i] = buffer_[c][j]
        <5>1. buffer_[c] \in Seq(Pending)
          BY <2>1 DEF Inv, TypeInv, ConnsTyped
        <5> QED
          BY <4>1, <5>1, TailElements
      <4> QED
        BY <4>1, <4>2 DEF NoLoginIn, Inv, TypeInv, ConnsTyped
    <3> QED
      BY <3>1, <3>2
  <2>4. ASSUME UNCHANGED user_id_, pc'[w] \in Entering => socket_[c] # NoFd
        PROVE  PatientInv'
    BY <2>1, <2>2, <2>3, <2>4, <1>1 DEF Reading, Closing
  <2>5. CASE Parse(w)
    <3>1. /\ user_id_' = user_id_ /\ buffer_[c] # << >>
          /\ pc'[w] = Handler(c, Request1(w).type)
      BY <2>1, <2>5 DEF Parse
    <3>2. ASSUME pc'[w] \in Entering
          PROVE  socket_[c] # NoFd
      <4>1. Request1(w).type = "LOGIN" /\ user_id_[c] = NoUser
        BY <3>1, <3>2 DEF Handler, isAuthenticated
      <4>2. 1 \in DOMAIN buffer_[c] /\ buffer_[c][1].type = "LOGIN"
        BY <2>1, <3>1, <4>1, TailElements DEF Request1, Inv, TypeInv, ConnsTyped
      <4>3. peer[c] = "open"
        BY <2>1, <4>1, <4>2 DEF PatientInv, LoginSeenTo
      <4> QED
        BY <2>1, <4>3, <1>4
    <3> QED
      BY <3>1, <3>2, <2>4
  <2>6. CASE Login(w)
    <3>1. socket_[c] # NoFd /\ Request1(w).user \in Users
      BY <2>6, HandlerFacts, PendingTypes DEF Login, PatientInv, Inv, HandlerInv, Reading
    <3>2. \A d \in Conns : user_id_[d] # NoUser => user_id_'[d] # NoUser
      BY <2>1, <2>6, <3>1, StateAssumption DEF Login, Inv, TypeInv, ConnsTyped
    <3> QED
      BY <2>1, <2>2, <2>3, <3>1, <3>2, <1>1 DEF Reading, Closing
  <2>7. CASE \/ Register(w) \/ OnlineMap(w) \/ OnlineTable(w) \/ LoginResp(w) \/ GetOffline(w)
             \/ Push(w) \/ Store(w) \/ Lookup(w) \/ Forward(w)
    <3>1. pc'[w] \in Entering => pc[w] \in Entering
      BY <2>1, <2>7 DEF Register, OnlineMap, UserOnlineMap, OnlineTable, UserOnlineTable, LoginResp,
         GetOffline, GetOfflineMessage, Push, Store, StoreMessage, Lookup, LookupReceiver, Forward, Go
    <3>3. pc[w] \in Entering => socket_[c] # NoFd
      BY DEF PatientInv
    <3>2. user_id_' = user_id_
      BY <2>7 DEF Register, OnlineMap, OnlineTable, LoginResp, GetOffline, Push, Store, Lookup,
         Forward, connVars
    <3> QED
      BY <2>4, <3>1, <3>2, <3>3
  <2> QED
    BY <1>10, <2>5, <2>6, <2>7 DEF ReadStep
<1>11. ASSUME NEW w \in Workers, CloseStep(w)
       PROVE  PatientInv'
  <2> DEFINE c == this[w]
  <2>1. /\ c \in Conns /\ peer[c] # "open" /\ UNCHANGED <<this, fd_, user_id_, buffer_>>
        /\ \A v \in Workers : v # w => pc'[v] \in {"idle", "lock"}
        /\ pc'[w] \notin Entering /\ pc[w] \in Closing
    BY <1>11, <1>3, Alone, CloseMoves, CloseFrame, ThreadFacts DEF PatientInv, Closing
  <2>2. CASE OfflineMap(w) \/ OfflineTable(w) \/ CloseCheck(w) \/ CloseForget(w)
    <3>1. /\ UNCHANGED <<fdTable, inbox, peer>>
      BY <2>2 DEF OfflineMap, OfflineTable, CloseCheck, CloseForget, kernelVars, outsideVars
    <3>2. \A d \in Conns : LoginSeenTo(d)' <=> LoginSeenTo(d)
      BY <2>1, <3>1 DEF LoginSeenTo
    <3> QED
      BY <2>1, <3>1, <3>2 DEF PatientInv, Open, Closing
  <2>3. CASE CloseSys(w)
    <3> DEFINE f == fdReg[w]
    <3>1. f \in Fds /\ f = socket_[c] /\ fdTable[f] = c /\ SysClose(f) /\ c # NoConn
      <4>1. pc[w] = "closeSys" /\ f \in Fds /\ f = socket_[c]
        BY <2>3, ThreadFacts DEF CloseSys, Go, Inv, ThreadInv, OwnInv
      <4> QED
        BY <2>1, <2>3, <4>1, OwnsDescriptor, ThreadFacts DEF CloseSys
    <3>2. /\ fdTable' = [fdTable EXCEPT ![f] = NoConn]
          /\ inbox' = [inbox EXCEPT ![c] = << >>] /\ peer' = [peer EXCEPT ![c] = "gone"]
      BY <3>1 DEF SysClose
    <3>3. Open \subseteq Open' \cup {c}
      BY <3>1, <3>2 DEF Open, Inv, TypeInv, KernelTyped
    <3>4. /\ inbox'[c] = << >> /\ peer'[c] = "gone"
          /\ \A d \in Conns : d # c => inbox'[d] = inbox[d] /\ peer'[d] = peer[d]
      BY <2>1, <3>2 DEF Inv, TypeInv, KernelTyped, OutsideTyped
    <3>5. \A d \in Conns : LoginSeenTo(d)' \/ peer'[d] = "open"
      BY <2>1, <3>4 DEF PatientInv, LoginSeenTo
    <3> QED
      BY <2>1, <3>3, <3>4, <3>5 DEF PatientInv, Closing
  <2> QED
    BY <1>11, <2>2, <2>3 DEF CloseStep
<1>12. ASSUME NEW c \in Conns, ClientStep(c)
       PROVE  PatientInv'
  <2>1. UNCHANGED <<fdTable, fd_, socket_, user_id_, buffer_, pc, this>> /\ Open' = Open
    BY <1>12, ClientFrame DEF connVars, threadVars, Open
  <2>2. \A d \in Conns : d # c => inbox'[d] = inbox[d] /\ peer'[d] = peer[d]
    BY <1>12 DEF ClientStep, Connect, SendRegister, SendLogin, SendChat, Request, Hangup, Inv,
       TypeInv, OutsideTyped, KernelTyped
  <2>3. /\ fd_[c] # NoFd => c \in Open \/ (peer'[c] # "open" /\ inbox'[c] = << >>)
        /\ LoginSeenTo(c)' \/ peer'[c] = "open"
        /\ fd_[c] # NoFd /\ peer[c] # "open" => peer'[c] # "open"
    <3>1. CASE Connect(c)
      BY <3>1 DEF Connect, Inv, LifeInv, TypeInv, OutsideTyped
    <3>2. CASE \E u \in Users : SendRegister(c, u) \/ SendLogin(c, u) \/ SendChat(c, u)
      BY <3>2 DEF SendRegister, SendLogin, SendChat, Request, PatientInv
    <3>3. CASE \E how \in {"fin", "rst"} : Hangup(c, how)
      <4>1. /\ peer[c] = "open" /\ peer'[c] = "fin" /\ LoginSeenTo(c) /\ UNCHANGED inbox
        BY <3>3 DEF Hangup, Inv, TypeInv, OutsideTyped
      <4> QED
        BY <2>1, <4>1 DEF PatientInv, LoginSeenTo
    <3> QED
      BY <1>12, <3>1, <3>2, <3>3 DEF ClientStep
  <2>4. \A d \in Conns : d # c => (LoginSeenTo(d)' <=> LoginSeenTo(d))
    BY <2>1, <2>2 DEF LoginSeenTo
  <2>5. \A w \in Workers : pc[w] \in Closing => this[w] \in Conns /\ fd_[this[w]] # NoFd
    BY Alone, ThreadFacts DEF Inv, SocketInv, Closing
  <2> QED
    BY <2>1, <2>2, <2>3, <2>4, <2>5 DEF PatientInv
<1>13. CASE Crash
  BY <1>13, ThreadFacts DEF Crash, PatientInv, LoginSeenTo, Closing
<1> QED
  BY <1>5, <1>6, <1>7, <1>8, <1>9, <1>10, <1>11, <1>12, <1>13, OrderlySteps

LEMMA PatientInvariance ==
  ASSUME Abortive = FALSE, Hasty = FALSE
  PROVE  Spec => []PatientInv
<1>1. Init => PatientInv
  BY ThreadFacts DEF Init, ProcessInit, WorldInit, PatientInv, LoginSeenTo, Closing, Entering
<1>2. Inv /\ NoResetInv /\ OwnInv /\ PatientInv /\ [Next]_vars => PatientInv'
  <2>1. ASSUME PatientInv, UNCHANGED vars
        PROVE  PatientInv'
    BY <2>1 DEF PatientInv, LoginSeenTo, Open, vars, kernelVars, outsideVars, serverVars, threadVars,
       connVars
  <2> QED
    BY <2>1, PatientStep
<1> QED
  BY <1>1, <1>2, Invariance, OwnInvariance, PTL DEF Spec

-----------------------------------------------------------------------------
(* A database that does not fail, too: the map routes to owners.           *)

RouteInv ==
  /\ RoutesToOwner
  /\ \A w \in Workers :
       /\ pc[w] = "login" => user_id_[this[w]] = NoUser
       /\ pc[w] \in {"offlineTable", "closeCheck", "closeSys"} =>
            \A u \in Users : online_users_[u] # fd_[this[w]]
       /\ pc[w] = "forward" => online_users_[Request1(w).msg.to] = fdReg[w]

(* Whoever is routed to the object a worker is in is its user.             *)
LEMMA RoutedHere ==
  ASSUME Inv, OwnInv, RoutesToOwner, NEW w \in Workers, this[w] # NoConn,
         NEW u \in Users, online_users_[u] = fd_[this[w]]
  PROVE  user_id_[this[w]] = u /\ user_id_[this[w]] # NoUser
<1>1. fd_[this[w]] \in Fds /\ clients_[fd_[this[w]]] = this[w]
  BY ThreadFacts DEF Inv, SocketInv, OwnInv
<1> QED
  BY <1>1, ThreadFacts, StateAssumption DEF RoutesToOwner, isUserOnline

LEMMA RouteStep ==
  ASSUME Inv, NoResetInv, OwnInv, PatientInv, BoundsInv, RouteInv, Next, MaxDbFaults = 0
  PROVE  RouteInv'
<1> DEFINE Special == {"login", "offlineTable", "closeCheck", "closeSys", "forward"}
<1> USE DEF isUserOnline
<1>1. ASSUME UNCHANGED <<fdTable, clients_, user_id_, online_users_>>
      PROVE  RoutesToOwner'
  BY <1>1 DEF RouteInv, RoutesToOwner
<1>2. ASSUME UNCHANGED <<fdTable, clients_, user_id_, online_users_, fd_, this, buffer_>>,
             \A w \in Workers : pc'[w] \in Special => pc'[w] = pc[w] /\ fdReg'[w] = fdReg[w]
      PROVE  RouteInv'
  BY <1>1, <1>2 DEF RouteInv, Request1
<1>3. ASSUME RoutesToOwner', \A w \in Workers : pc'[w] \notin Special
      PROVE  RouteInv'
  BY <1>3 DEF RouteInv
<1>4. ASSUME NEW w \in Workers, pc[w] \notin {"idle", "lock"},
             \A t \in Threads : t # w => pc'[t] = pc[t]
      PROVE  \A v \in Workers : v # w => pc'[v] \notin Special
  BY <1>4, Alone, ThreadFacts
<1>5. ~ StatementFails
  BY NothingFails
<1>6. CASE QuietStep
  BY <1>6, <1>2, QuietFrame DEF userVars, connVars
<1>7. CASE Accept
  <2> DEFINE c == Head(backlog)
             f == LowestFree
  <2>1. c \in Conns /\ f \in Fds /\ fdTable[f] = NoConn /\ fd_[c] = NoFd
    BY <1>7, AcceptFacts DEF Inv
  <2>2. /\ fdTable' = [fdTable EXCEPT ![f] = c] /\ fd_' = [fd_ EXCEPT ![c] = f]
        /\ UNCHANGED <<clients_, user_id_, online_users_, fdReg, buffer_>>
        /\ this' = [this EXCEPT ![Reactor] = c] /\ pc' = [pc EXCEPT ![Reactor] = "register"]
    BY <1>7 DEF Accept, Go, userVars
  <2>3. \A w \in Workers : this'[w] = this[w] /\ pc'[w] = pc[w]
    BY <2>2, ThreadFacts DEF Inv, TypeInv, ThreadsTyped
  <2>4. RoutesToOwner'
    BY <2>1, <2>2 DEF RouteInv, RoutesToOwner, Inv, TypeInv, KernelTyped, UsersTyped
  <2>5. \A w \in Workers : pc[w] \in Special => this[w] \in Conns /\ this[w] # c
    BY <2>1, Alone, ThreadFacts DEF Inv, SocketInv
  <2>6. \A w \in Workers : pc[w] \in Special => fd_'[this'[w]] = fd_[this[w]]
    BY <2>2, <2>3, <2>5 DEF Inv, TypeInv, ConnsTyped
  <2> QED
    BY <2>2, <2>3, <2>4, <2>6 DEF RouteInv, Request1
<1>8. CASE RegisterClient
  <2> DEFINE c == this[Reactor]
             old == clients_[fd_[c]]
  <2>1. /\ pc[Reactor] = "register" /\ c \in Conns /\ fd_[c] \in Fds
        /\ old # NoConn => old \in Conns /\ old # c /\ fd_[old] = fd_[c]
    BY <1>8, RegistrationFacts DEF Inv
  <2>2. /\ \A w \in Workers : pc'[w] \notin Special
        /\ fdTable' = fdTable /\ online_users_' = online_users_
        /\ clients_' = [clients_ EXCEPT ![fd_[c]] = c]
        /\ user_id_' = user_id_ \/ (old # NoConn /\ user_id_' = [user_id_ EXCEPT ![old] = NoUser])
    BY <1>8, ReplacedIsClosed DEF kernelVars, connVars, RegisterClient, ReplaceClient, userVars
  <2>3. ASSUME NEW u \in Users, online_users_[u] # NoFd
        PROVE  LET g == online_users_[u]
               IN /\ g \in Fds /\ g # fd_[c] /\ fdTable[g] # NoConn /\ fdTable[g] # old
                  /\ clients_[g] = fdTable[g] /\ user_id_[fdTable[g]] = u
    <3> DEFINE g == online_users_[u]
    <3>1. g \in Fds /\ fdTable[g] # NoConn /\ clients_[g] = fdTable[g] /\ user_id_[fdTable[g]] = u
      BY <2>3 DEF RouteInv, RoutesToOwner, Inv, TypeInv, UsersTyped
    <3>2. g # fd_[c]
      BY <2>1, <3>1 DEF Inv, TablesInv
    <3>3. fdTable[g] # old
      BY <2>1, <3>1, <3>2 DEF Inv, TablesInv
    <3> QED
      BY <3>1, <3>2, <3>3
  <2>4. RoutesToOwner'
    BY <2>2, <2>3 DEF RoutesToOwner, Inv, TypeInv, ConnsTyped, KernelTyped, ReactorTyped
  <2> QED
    BY <2>2, <2>4, <1>3
<1>9. ASSUME NEW w \in Workers, LockClient(w)
      PROVE  RouteInv'
  <2>1. \A v \in Workers : pc[v] \in {"idle", "lock"}
    BY <1>9, ThreadFacts DEF LockClient, Inv, ThreadInv
  <2>2. /\ \A v \in Workers : pc'[v] \in {"idle", "lock", "recv"}
        /\ UNCHANGED <<fdTable, clients_, user_id_, online_users_>>
    BY <1>9, <2>1, ThreadFacts DEF LockClient, Go, kernelVars, userVars, connVars, Inv, TypeInv,
       ThreadsTyped
  <2> QED
    BY <2>2, <1>1, <1>3
<1>10. ASSUME NEW w \in Workers, UnlockClient(w)
       PROVE  RouteInv'
  <2>1. pc[w] \notin {"idle", "lock"}
    BY <1>10 DEF UnlockClient
  <2>2. \A v \in Workers : v # w => pc[v] \in {"idle", "lock"}
    BY <2>1, Alone
  <2>3. /\ \A v \in Workers : pc'[v] \in {"idle", "lock"}
        /\ UNCHANGED <<fdTable, clients_, user_id_, online_users_>>
    BY <1>10, <2>2, ThreadFacts DEF UnlockClient, kernelVars, userVars, connVars, Inv, TypeInv,
       ThreadsTyped
  <2> QED
    BY <2>3, <1>1, <1>3
<1>11. ASSUME NEW w \in Workers, ReadStep(w)
       PROVE  RouteInv'
  <2> DEFINE c == this[w]
  <2>1. /\ w \in Threads /\ c \in Conns /\ c # NoConn
        /\ UNCHANGED <<fdTable, clients_, fd_, this>>
        /\ \A v \in Workers : v # w => pc'[v] \notin Special
        /\ w \in DOMAIN pc
    BY <1>11, <1>4, Alone, ReadMoves, ReadFrame DEF Reading, Inv, TypeInv, ThreadsTyped
  <2>2. ASSUME UNCHANGED <<user_id_, online_users_>>, pc'[w] \notin Special
        PROVE  RouteInv'
    BY <2>1, <2>2, <1>1, <1>3
  <2>3. CASE Recv(w)
    <3>1. /\ UNCHANGED <<user_id_, online_users_>>
          /\ pc'[w] \in {"recv", "parse", CloseEntry(c)}
      BY <2>1, <2>3 DEF Recv, MoreData, AfterRecv, userVars
    <3>2. pc'[w] = "closeCheck" => user_id_[c] = NoUser
      BY <3>1 DEF CloseEntry, isAuthenticated
    <3>3. pc'[w] = "closeCheck" => \A u \in Users : online_users_[u] # fd_[c]
      BY <2>1, <3>2, RoutedHere DEF RouteInv
    <3>4. pc'[w] \in {"recv", "parse", "offlineMap", "closeCheck"}
      BY <3>1 DEF CloseEntry
    <3> QED
      BY <2>1, <3>1, <3>3, <3>4, <1>1 DEF RouteInv
  <2>4. CASE Parse(w)
    <3>1. /\ UNCHANGED <<user_id_, online_users_>>
          /\ pc'[w] = Handler(c, Request1(w).type)
      BY <2>1, <2>4 DEF Parse, userVars
    <3>2. /\ pc'[w] \in {"login", "register", "store", "parse"}
          /\ pc'[w] = "login" => user_id_[c] = NoUser
      BY <3>1 DEF Handler, isAuthenticated
    <3> QED
      BY <2>1, <3>1, <3>2, <1>1 DEF RouteInv
  <2>5. CASE Login(w)
    <3>1. user_id_[c] = NoUser /\ online_users_' = online_users_ /\ pc'[w] \in {"onlineMap", "parse"}
      BY <2>1, <2>5 DEF Login, RouteInv
    <3>2. \A d \in Conns : user_id_[d] # NoUser => user_id_'[d] = user_id_[d]
      BY <2>5, <3>1 DEF Login, Inv, TypeInv, ConnsTyped
    <3>3. RoutesToOwner'
      <4> SUFFICES ASSUME NEW u \in Users, online_users_[u] # NoFd
                   PROVE  LET g == online_users_[u]
                          IN /\ fdTable[g] # NoConn /\ clients_[g] = fdTable[g]
                             /\ user_id_'[fdTable[g]] = u
        BY <2>1, <3>1 DEF RoutesToOwner
      <4> DEFINE g == online_users_[u]
      <4>1. g \in Fds /\ u # NoUser
        BY StateAssumption DEF Inv, TypeInv, UsersTyped
      <4>2. fdTable[g] # NoConn /\ clients_[g] = fdTable[g] /\ user_id_[fdTable[g]] = u
        BY DEF RouteInv, RoutesToOwner
      <4>3. fdTable[g] \in Conns
        BY <4>1, <4>2 DEF Inv, TypeInv, KernelTyped
      <4> QED
        BY <3>2, <4>1, <4>2, <4>3
    <3> QED
      BY <2>1, <3>1, <3>3, <1>3
  <2>6. CASE Register(w) \/ OnlineTable(w)
    BY <2>1, <2>2, <2>6 DEF Register, OnlineTable, UserOnlineTable, Go, connVars
  <2>7. CASE OnlineMap(w)
    <3>1. /\ pc[w] = "onlineMap" /\ pc'[w] = "onlineTable" /\ UNCHANGED user_id_
          /\ online_users_' = [online_users_ EXCEPT ![user_id_[c]] = fd_[c]]
      BY <2>1, <2>7, <1>5 DEF OnlineMap, UserOnlineMap, connVars
    <3>2. user_id_[c] \in Users
      BY <3>1 DEF Inv, HandlerInv
    <3>3. socket_[c] = fd_[c] /\ fd_[c] \in Fds /\ fdTable[fd_[c]] = c /\ clients_[fd_[c]] = c
      <4>1. socket_[c] # NoFd /\ clients_[fd_[c]] = c
        BY <2>1, <3>1 DEF PatientInv, Entering, OwnInv
      <4> QED
        BY <3>1, <4>1, OwnsDescriptor
    <3>4. RoutesToOwner'
      BY <2>1, <3>1, <3>2, <3>3 DEF RouteInv, RoutesToOwner, Inv, TypeInv, UsersTyped
    <3> QED
      BY <2>1, <3>1, <3>4, <1>3
  <2>8. CASE LoginResp(w) \/ GetOffline(w) \/ Push(w) \/ Store(w) \/ Forward(w)
    <3>1. pc'[w] \in {"getOffline", "push", "parse", "lookup"}
      BY <2>1, <2>8 DEF LoginResp, GetOffline, GetOfflineMessage, Push, Store, StoreMessage,
         Forward, Go
    <3>2. UNCHANGED <<user_id_, online_users_>>
      BY <2>8 DEF LoginResp, GetOffline, GetOfflineMessage, Push, Store, StoreMessage,
         Forward, userVars, connVars
    <3> QED
      BY <2>2, <3>1, <3>2
  <2>9. CASE Lookup(w)
    <3> DEFINE u == Request1(w).msg.to
    <3>1. /\ UNCHANGED <<user_id_, online_users_>> /\ pc'[w] \in {"forward", "parse"}
          /\ fdReg'[w] = online_users_[u]
          /\ pc'[w] = "forward" => buffer_' = buffer_
      BY <2>1, <2>9 DEF Lookup, LookupReceiver, getSocketFdByUserId, Erase, userVars, Inv,
         TypeInv, ThreadsTyped
    <3> QED
      BY <2>1, <3>1, <1>1 DEF RouteInv, Request1
  <2> QED
    BY <1>11, <2>3, <2>4, <2>5, <2>6, <2>7, <2>8, <2>9 DEF ReadStep
<1>12. ASSUME NEW w \in Workers, CloseStep(w)
       PROVE  RouteInv'
  <2> DEFINE c == this[w]
  <2>1. /\ w \in Threads /\ c \in Conns /\ c # NoConn
        /\ UNCHANGED <<clients_, user_id_, fd_, this>>
        /\ \A v \in Workers : v # w => pc'[v] \notin Special
        /\ w \in DOMAIN pc
        /\ pc'[w] \in {"offlineTable", "closeCheck", "closeSys", "closeForget", "closed"}
    BY <1>12, <1>4, Alone, CloseMoves, CloseFrame, ThreadFacts DEF Closing, Inv, TypeInv, ThreadsTyped
  <2>2. ASSUME RoutesToOwner', \A u \in Users : online_users_'[u] # fd_[c]
        PROVE  RouteInv'
    BY <2>1, <2>2 DEF RouteInv
  <2>3. CASE OfflineMap(w)
    <3>1. fdTable' = fdTable /\ online_users_' = [online_users_ EXCEPT ![user_id_[c]] = NoFd]
      BY <2>3, <1>5 DEF OfflineMap, UserOfflineMap, kernelVars
    <3>2. \A u \in Users : online_users_'[u] \in {online_users_[u], NoFd}
      BY <3>1 DEF Inv, TypeInv, UsersTyped
    <3>3. RoutesToOwner'
      BY <2>1, <3>1, <3>2 DEF RouteInv, RoutesToOwner
    <3>4. fd_[c] # NoFd
      BY <2>1, ThreadFacts DEF Inv, SocketInv
    <3>5. ASSUME NEW u \in Users
          PROVE  online_users_'[u] # fd_[c]
      <4>1. CASE u = user_id_[c]
        BY <3>1, <3>4, <4>1 DEF Inv, TypeInv, UsersTyped
      <4>2. CASE u # user_id_[c]
        BY <2>1, <3>2, <3>4, <4>2, RoutedHere DEF RouteInv
      <4> QED
        BY <4>1, <4>2
    <3> QED
      BY <2>2, <3>3, <3>5
  <2>4. CASE OfflineTable(w) \/ CloseCheck(w)
    <3>1. /\ UNCHANGED <<fdTable, online_users_>>
          /\ pc[w] \in {"offlineTable", "closeCheck"}
      BY <2>4 DEF OfflineTable, UserOfflineTable, CloseCheck, Go, kernelVars, userVars
    <3> QED
      BY <2>1, <2>2, <3>1, <1>1 DEF RouteInv
  <2>5. CASE CloseSys(w)
    <3>1. /\ pc[w] = "closeSys" /\ fdReg[w] = fd_[c] /\ fdReg[w] \in Fds
          /\ UNCHANGED online_users_
          /\ \A g \in Fds : g # fdReg[w] => fdTable'[g] = fdTable[g]
      BY <2>1, <2>5 DEF CloseSys, Go, SysClose, kernelVars, userVars, Inv, SocketInv, ThreadInv,
         TypeInv, KernelTyped
    <3>2. \A u \in Users : online_users_[u] # fd_[c]
      BY <3>1 DEF RouteInv
    <3>3. RoutesToOwner'
      BY <2>1, <3>1, <3>2 DEF RouteInv, RoutesToOwner, Inv, TypeInv, UsersTyped
    <3> QED
      BY <2>2, <3>1, <3>2, <3>3
  <2>6. CASE CloseForget(w)
    <3>1. pc'[w] = "closed" /\ UNCHANGED <<fdTable, online_users_>>
      BY <2>1, <2>6, ThreadFacts DEF CloseForget, CloseReturns, kernelVars, userVars
    <3> QED
      BY <2>1, <3>1, <1>1, <1>3
  <2> QED
    BY <1>12, <2>3, <2>4, <2>5, <2>6 DEF CloseStep
<1>13. ASSUME NEW c \in Conns, ClientStep(c)
       PROVE  RouteInv'
  BY <1>13, <1>2, ClientFrame DEF threadVars, userVars, connVars, reactorVars
<1>14. CASE Crash
  BY <1>14, ThreadFacts DEF Crash, RouteInv, RoutesToOwner
<1> QED
  BY <1>6, <1>7, <1>8, <1>9, <1>10, <1>11, <1>12, <1>13, <1>14, OrderlySteps

LEMMA RouteInvariance ==
  ASSUME Abortive = FALSE, Hasty = FALSE, MaxDbFaults = 0
  PROVE  Spec => []RouteInv
<1>1. Init => RouteInv
  BY ThreadFacts DEF Init, ProcessInit, WorldInit, RouteInv, RoutesToOwner, isUserOnline
<1>2. /\ Inv /\ NoResetInv /\ OwnInv /\ PatientInv /\ BoundsInv /\ RouteInv
      /\ [Next]_vars
      => RouteInv'
  <2>1. ASSUME RouteInv, UNCHANGED vars
        PROVE  RouteInv'
    BY <2>1 DEF RouteInv, RoutesToOwner, isUserOnline, Request1, vars, kernelVars, outsideVars,
       serverVars, threadVars, userVars, connVars, reactorVars
  <2> QED
    BY <2>1, RouteStep
<1> QED
  BY <1>1, <1>2, Invariance, OwnInvariance, PatientInvariance, BoundsInvariance, PTL DEF Spec

(* With such clients, and a database that does not fail, a message is      *)
(* forwarded to a connection of its receiver, however descriptors are      *)
(* reused and users come, go and move between connections meanwhile.       *)
THEOREM ChatRoutesToOwners ==
  ASSUME Abortive = FALSE, Hasty = FALSE, MaxDbFaults = 0
  PROVE  Spec => []RoutesToOwner
<1>1. RouteInv => RoutesToOwner
  BY DEF RouteInv
<1> QED
  BY <1>1, RouteInvariance, PTL

-----------------------------------------------------------------------------
(* Connections and the accounts of their clients.                          *)

(* What the client of c may have sent: it logs in with its own account.    *)
Own(c) == {r \in Requests : r.type = "LOGIN" => r.user = account[c]}

AccountInv ==
  /\ \A c \in Conns : /\ inbox[c] \in Seq(Own(c)) /\ buffer_[c] \in Seq(Own(c))
                      /\ user_id_[c] # NoUser => user_id_[c] = account[c]
  /\ \A w \in Workers :
       /\ pc[w] = "login" => Request1(w).type = "LOGIN"
       /\ pc[w] = "push" => \A m \in fetched[w] : m.to = user_id_[this[w]]

LEMMA AccountStep ==
  ASSUME Inv, NoResetInv, OwnInv, AccountInv, Next
  PROVE  AccountInv'
<1>1. ASSUME account' = account, NEW c \in Conns
      PROVE  Own(c)' = Own(c)
  BY <1>1 DEF Own
<1>2. ASSUME UNCHANGED <<account, inbox, buffer_, user_id_, this, fetched>>,
             \A w \in Workers : pc'[w] \in {"login", "push"} => pc'[w] = pc[w]
      PROVE  AccountInv'
  BY <1>2 DEF AccountInv, Own, Request1
<1>3. ASSUME NEW w \in Workers, pc[w] \notin {"idle", "lock"},
             \A t \in Threads : t # w => pc'[t] = pc[t]
      PROVE  \A v \in Workers : v # w => pc'[v] \notin {"login", "push"}
  BY <1>3, Alone, ThreadFacts
<1>4. ASSUME account' = account, \A w \in Workers : pc'[w] \notin {"login", "push"},
             \A c \in Conns : /\ inbox'[c] \in {inbox[c], << >>}
                              /\ buffer_'[c] \in {buffer_[c], << >>}
                              /\ user_id_'[c] \in {user_id_[c], NoUser}
      PROVE  AccountInv'
  <2>1. ASSUME NEW c \in Conns
        PROVE  /\ inbox'[c] \in Seq(Own(c)') /\ buffer_'[c] \in Seq(Own(c)')
               /\ user_id_'[c] # NoUser => user_id_'[c] = account'[c]
    <3>1. /\ inbox[c] \in Seq(Own(c)) /\ buffer_[c] \in Seq(Own(c)) /\ << >> \in Seq(Own(c))
          /\ user_id_[c] # NoUser => user_id_[c] = account[c]
      BY DEF AccountInv
    <3>2. Own(c)' = Own(c)
      BY <1>1, <1>4
    <3> QED
      BY <1>4, <3>1, <3>2
  <2> QED
    BY <1>4, <2>1 DEF AccountInv
<1>5. CASE QuietStep
  BY <1>5, <1>2, QuietFrame DEF outsideVars, connVars
<1>6. CASE Accept
  BY <1>6, <1>2, ThreadFacts DEF Accept, Go, outsideVars, AccountInv, Own, Request1, Inv, TypeInv,
     ThreadsTyped
<1>7. CASE RegisterClient
  BY <1>7, <1>4, ReplacedIsClosed DEF kernelVars, outsideVars, connVars, Inv, TypeInv, ConnsTyped
<1>8. ASSUME NEW w \in Workers, LockClient(w)
      PROVE  AccountInv'
  <2>1. \A v \in Workers : pc[v] \in {"idle", "lock"}
    BY <1>8, ThreadFacts DEF LockClient, Inv, ThreadInv
  <2>2. /\ \A v \in Workers : pc'[v] \in {"idle", "lock", "recv"}
        /\ UNCHANGED <<account, inbox, buffer_, user_id_>>
    BY <1>8, <2>1, ThreadFacts DEF LockClient, Go, kernelVars, outsideVars, connVars, Inv, TypeInv,
       ThreadsTyped
  <2> QED
    BY <2>2, <1>4
<1>9. ASSUME NEW w \in Workers, UnlockClient(w)
      PROVE  AccountInv'
  <2>1. pc[w] \notin {"idle", "lock"}
    BY <1>9 DEF UnlockClient
  <2>2. \A v \in Workers : v # w => pc[v] \in {"idle", "lock"}
    BY <2>1, Alone
  <2>3. /\ \A v \in Workers : pc'[v] \in {"idle", "lock"}
        /\ UNCHANGED <<account, inbox, buffer_, user_id_>>
    BY <1>9, <2>2, ThreadFacts DEF UnlockClient, kernelVars, outsideVars, connVars, Inv, TypeInv,
       ThreadsTyped
  <2> QED
    BY <2>3, <1>4
<1>10. ASSUME NEW w \in Workers, ReadStep(w)
       PROVE  AccountInv'
  <2> DEFINE c == this[w]
  <2>1. /\ w \in Threads /\ c \in Conns /\ UNCHANGED <<account, this>> /\ w \in DOMAIN pc
        /\ \A v \in Workers : v # w => pc'[v] \notin {"login", "push"}
    BY <1>10, <1>3, Alone, ReadMoves, ReadFrame DEF Reading, Inv, TypeInv, ThreadsTyped
  <2>2. \A d \in Conns : Own(d)' = Own(d)
    BY <2>1, <1>1
  <2>3. CASE Recv(w)
    <3>1. user_id_' = user_id_ /\ pc'[w] \notin {"login", "push"}
      BY <2>1, <2>3, OwnRecv DEF Recv, CloseEntry
    <3>2. CASE UNCHANGED <<inbox, buffer_>>
      BY <2>1, <3>1, <3>2, <1>4
    <3>3. CASE ~ UNCHANGED <<inbox, buffer_>>
      <4>1. /\ buffer_' = [buffer_ EXCEPT ![c] = Append(@, Head(inbox[c]))]
            /\ inbox' = [inbox EXCEPT ![c] = Tail(@)] /\ inbox[c] # << >>
        BY <2>3, <3>3, OwnRecv
      <4>2. /\ Append(buffer_[c], Head(inbox[c])) \in Seq(Own(c))
            /\ Tail(inbox[c]) \in Seq(Own(c))
        BY <2>1, <4>1, TailElements, AppendElements DEF AccountInv
      <4>3. \A d \in Conns : inbox'[d] \in Seq(Own(d)) /\ buffer_'[d] \in Seq(Own(d))
        BY <4>1, <4>2 DEF AccountInv, Inv, TypeInv, KernelTyped, ConnsTyped
      <4> QED
        BY <2>1, <2>2, <3>1, <4>3 DEF AccountInv
    <3> QED
      BY <3>2, <3>3
  <2>4. ASSUME ~ Recv(w)
        PROVE  /\ inbox' = inbox
               /\ \A d \in Conns : buffer_'[d] \in Seq(Own(d))
    <3>1. inbox' = inbox
      <4>1. CASE LoginResp(w) \/ Push(w) \/ Forward(w)
        BY <4>1 DEF LoginResp, Push, Forward, Transmit
      <4>2. CASE \/ Parse(w) \/ Login(w) \/ Register(w) \/ OnlineMap(w) \/ OnlineTable(w)
                 \/ GetOffline(w) \/ Store(w) \/ Lookup(w)
        BY <4>2 DEF Parse, Login, Register, OnlineMap, OnlineTable, GetOffline, Store, Lookup,
           kernelVars, outsideVars
      <4> QED
        BY <1>10, <2>4, <4>1, <4>2 DEF ReadStep
    <3>2. CASE buffer_' = buffer_
      BY <3>1, <3>2 DEF AccountInv
    <3>3. CASE buffer_' # buffer_
      <4>1. buffer_[c] # << >> /\ buffer_' = [buffer_ EXCEPT ![c] = Tail(@)]
        BY <1>10, <2>4, <3>3, HandlersStay
      <4>2. Tail(buffer_[c]) \in Seq(Own(c))
        BY <2>1, <4>1, TailElements DEF AccountInv
      <4> QED
        BY <3>1, <4>1, <4>2 DEF AccountInv, Inv, TypeInv, ConnsTyped
    <3> QED
      BY <3>2, <3>3
  <2>5. ASSUME ~ Recv(w), user_id_' = user_id_, pc'[w] \notin {"login", "push"}
        PROVE  AccountInv'
    BY <2>1, <2>2, <2>4, <2>5 DEF AccountInv
  <2>6. CASE Parse(w)
    <3>1. user_id_' = user_id_ /\ pc'[w] = Handler(c, Request1(w).type) /\ ~ Recv(w)
      BY <2>1, <2>6 DEF Parse, Recv
    <3>2. /\ pc'[w] # "push"
          /\ pc'[w] = "login" => Request1(w).type = "LOGIN" /\ buffer_' = buffer_
      BY <3>1, <2>6 DEF Handler, Parse
    <3> QED
      BY <2>1, <2>2, <2>4, <3>1, <3>2 DEF AccountInv, Request1
  <2>7. CASE Login(w)
    <3>1. /\ pc[w] = "login" /\ pc'[w] \in {"onlineMap", "parse"} /\ ~ Recv(w)
          /\ \/ user_id_' = user_id_
             \/ user_id_' = [user_id_ EXCEPT ![c] = Request1(w).user]
      BY <2>1, <2>7 DEF Login, Recv
    <3>2. Request1(w) \in Own(c)
      BY <2>1, <3>1, TailElements DEF AccountInv, Request1, Inv, HandlerInv, Reading
    <3>3. Request1(w).user = account[c]
      BY <3>1, <3>2 DEF Own, AccountInv
    <3>4. \A d \in Conns : user_id_'[d] # NoUser => user_id_'[d] = account[d]
      BY <3>1, <3>3 DEF AccountInv, Inv, TypeInv, ConnsTyped
    <3> QED
      BY <2>1, <2>2, <2>4, <3>1, <3>4 DEF AccountInv
  <2>8. CASE \/ Register(w) \/ OnlineMap(w) \/ OnlineTable(w) \/ LoginResp(w) \/ Store(w)
             \/ Lookup(w) \/ Forward(w)
    <3>1. pc'[w] \notin {"login", "push"} /\ pc[w] # "recv"
      BY <2>1, <2>8 DEF Register, OnlineMap, UserOnlineMap, OnlineTable, UserOnlineTable, LoginResp,
         Store, StoreMessage, Lookup, LookupReceiver, Forward, Go
    <3>2. user_id_' = user_id_
      BY <2>8 DEF Register, OnlineMap, OnlineTable, LoginResp, Store, Lookup, Forward, connVars
    <3> QED
      BY <2>5, <3>1, <3>2 DEF Recv
  <2>9. CASE GetOffline(w)
    <3>1. user_id_' = user_id_ /\ ~ Recv(w) /\ pc'[w] \in {"push", "parse"}
      BY <2>1, <2>9 DEF GetOffline, GetOfflineMessage, Recv
    <3>2. pc'[w] = "push" => \A m \in fetched'[w] : m.to = user_id_[c]
      BY <2>1, <2>9 DEF GetOffline, GetOfflineMessage, Inv, TypeInv, MessagesTyped
    <3> QED
      BY <2>1, <2>2, <2>4, <3>1, <3>2 DEF AccountInv
  <2>10. CASE Push(w)
    <3>1. user_id_' = user_id_ /\ ~ Recv(w) /\ pc[w] = "push" /\ pc'[w] \in {"push", "parse"}
      BY <2>1, <2>10 DEF Push, Recv
    <3>2. fetched'[w] \subseteq fetched[w]
      BY <2>1, <2>10 DEF Push, Inv, TypeInv, MessagesTyped
    <3> QED
      BY <2>1, <2>2, <2>4, <3>1, <3>2 DEF AccountInv
  <2> QED
    BY <1>10, <2>3, <2>6, <2>7, <2>8, <2>9, <2>10 DEF ReadStep
<1>11. ASSUME NEW w \in Workers, CloseStep(w)
       PROVE  AccountInv'
  <2>1. \A v \in Workers : pc'[v] \notin {"login", "push"}
    BY <1>11, <1>3, CloseMoves DEF Closing
  <2>2. \A c \in Conns : inbox'[c] \in {inbox[c], << >>}
    BY <1>11 DEF CloseStep, OfflineMap, OfflineTable, CloseCheck, CloseSys, CloseForget, SysClose,
       kernelVars, Inv, TypeInv, KernelTyped
  <2> QED
    BY <1>11, <2>1, <2>2, <1>4, CloseFrame, ThreadFacts
<1>12. ASSUME NEW c \in Conns, ClientStep(c)
       PROVE  AccountInv'
  <2>1. UNCHANGED <<buffer_, user_id_, pc, this, fetched>>
    BY <1>12, ClientFrame DEF connVars, threadVars
  <2>2. /\ account'[c] = account[c] \/ account[c] = NoUser
        /\ \A d \in Conns : d # c => account'[d] = account[d] /\ inbox'[d] = inbox[d]
    BY <1>12 DEF ClientStep, Connect, SendRegister, SendLogin, SendChat, Request, Hangup, Inv,
       TypeInv, OutsideTyped, KernelTyped
  <2>3. Own(c) \subseteq Own(c)'
    BY <2>2, StateAssumption DEF Own, Requests
  <2>4. inbox'[c] = inbox[c] \/ \E r \in Own(c)' : inbox'[c] = Append(inbox[c], r)
    <3>1. CASE Connect(c) \/ \E how \in {"fin", "rst"} : Hangup(c, how)
      BY <3>1 DEF Connect, Hangup
    <3>2. ASSUME NEW u \in Users, SendLogin(c, u)
          PROVE  \E r \in Own(c)' : inbox'[c] = Append(inbox[c], r)
      <4>1. [type |-> "LOGIN", user |-> u] \in Own(c)'
        BY <3>2 DEF SendLogin, Own, Requests, Inv, TypeInv, OutsideTyped
      <4> QED
        BY <3>2, <4>1 DEF SendLogin, Request, Inv, TypeInv, KernelTyped
    <3>3. ASSUME NEW u \in Users, SendRegister(c, u)
          PROVE  \E r \in Own(c)' : inbox'[c] = Append(inbox[c], r)
      <4>1. [type |-> "REGISTER", user |-> u] \in Own(c)'
        BY DEF Own, Requests
      <4> QED
        BY <3>3, <4>1 DEF SendRegister, Request, Inv, TypeInv, KernelTyped
    <3>4. ASSUME NEW u \in Users, SendChat(c, u)
          PROVE  \E r \in Own(c)' : inbox'[c] = Append(inbox[c], r)
      <4> DEFINE m == [id |-> Cardinality(sent) + 1, from |-> account[c], to |-> u]
      <4>1. account[c] \in Users /\ Cardinality(sent) \in Nat
        BY <3>4, FS_CardinalityType DEF SendChat, Inv, TypeInv, OutsideTyped
      <4>2. [type |-> "CHAT", msg |-> m] \in Own(c)'
        BY <4>1 DEF Own, Requests
      <4> QED
        BY <3>4, <4>2 DEF SendChat, Request, Inv, TypeInv, KernelTyped
    <3> QED
      BY <1>12, <3>1, <3>2, <3>3, <3>4 DEF ClientStep
  <2>5. inbox[c] \in Seq(Own(c)') /\ buffer_[c] \in Seq(Own(c)')
    BY <2>3, SeqMonotonic DEF AccountInv
  <2>6. inbox'[c] \in Seq(Own(c)')
    <3>1. ASSUME NEW r \in Own(c)'
          PROVE  Append(inbox[c], r) \in Seq(Own(c)')
      BY <2>5, AppendProperties
    <3> QED
      BY <2>4, <2>5, <3>1
  <2>7. user_id_[c] # NoUser => user_id_[c] = account'[c]
    BY <2>2 DEF AccountInv
  <2>8. \A d \in Conns : d # c => Own(d)' = Own(d)
    BY <2>2 DEF Own
  <2> QED
    BY <2>1, <2>2, <2>5, <2>6, <2>7, <2>8 DEF AccountInv, Request1
<1>13. CASE Crash
  BY <1>13, ThreadFacts DEF Crash, AccountInv
<1> QED
  BY <1>5, <1>6, <1>7, <1>8, <1>9, <1>10, <1>11, <1>12, <1>13, OrderlySteps

LEMMA AccountInvariance ==
  ASSUME Abortive = FALSE
  PROVE  Spec => []AccountInv
<1>1. Init => AccountInv
  BY ThreadFacts DEF Init, ProcessInit, WorldInit, AccountInv
<1>2. Inv /\ NoResetInv /\ OwnInv /\ AccountInv /\ [Next]_vars => AccountInv'
  <2>1. ASSUME AccountInv, UNCHANGED vars
        PROVE  AccountInv'
    BY <2>1 DEF AccountInv, Own, Request1, vars, kernelVars, outsideVars, serverVars, threadVars,
       connVars
  <2> QED
    BY <2>1, AccountStep
<1> QED
  BY <1>1, <1>2, Invariance, OwnInvariance, PTL DEF Spec

LEMMA Addressed ==
  ASSUME Inv, OwnInv, RouteInv, AccountInv,
         NEW w \in Workers, NEW c \in Conns, NEW m \in messages, Delivers(w, c, m)
  PROVE  m.to = account[c]
<1>1. m.to \in Users /\ m.to # NoUser
  BY StateAssumption DEF Inv, TypeInv, MessagesTyped, OutsideTyped, Chats
<1>2. CASE pc[w] = "push"
  <2>1. /\ m \in fetched[w] /\ this[w] \in Conns
        /\ socket_[this[w]] \in Fds /\ c = fdTable[socket_[this[w]]]
    BY <1>2 DEF Delivers
  <2>2. c = this[w]
    BY <1>2, <2>1, OwnsDescriptor, ThreadFacts
  <2> QED
    BY <1>1, <1>2, <2>1, <2>2 DEF AccountInv
<1>3. CASE pc[w] = "forward"
  <2>1. m = Request1(w).msg /\ fdReg[w] \in Fds /\ c = fdTable[fdReg[w]]
    BY <1>3 DEF Delivers
  <2>2. online_users_[m.to] = fdReg[w]
    BY <1>3, <2>1 DEF RouteInv
  <2>3. user_id_[c] = m.to
    BY <1>1, <2>1, <2>2, ThreadFacts DEF RouteInv, RoutesToOwner, isUserOnline
  <2> QED
    BY <1>1, <2>3 DEF AccountInv
<1> QED
  BY <1>2, <1>3 DEF Delivers

LEMMA AddressedStep ==
  ASSUME Inv, GotTyped, OwnInv, RouteInv, AccountInv, NoMisdelivery, Next
  PROVE  NoMisdelivery'
<1>1. CASE got' = got
  BY <1>1 DEF NoMisdelivery, ReceivedBy
<1>2. CASE got' # got
  <2>1. PICK w \in Workers, c \in Conns, m \in messages : Delivers(w, c, m)
    BY <1>2, Deliveries
  <2>2. m.to = account[c]
    BY <2>1, Addressed
  <2>3. PICK u \in Users : u = account[c] /\ got' = [got EXCEPT ![u] = @ \o <<m>>]
    BY <2>1 DEF Delivers
  <2>4. /\ ReceivedBy(u)' = ReceivedBy(u) \cup {m}
        /\ \A v \in Users : v # u => ReceivedBy(v)' = ReceivedBy(v)
    BY <2>3, DeliveredTo DEF GotTyped
  <2> QED
    BY <2>2, <2>3, <2>4 DEF NoMisdelivery
<1> QED
  BY <1>1, <1>2

(* Under the same assumptions a chat message arrives only at its receiver: *)
(* no session inherits a descriptor that a message is on its way to.       *)
THEOREM ChatDeliversToReceivers ==
  ASSUME Abortive = FALSE, Hasty = FALSE, MaxDbFaults = 0
  PROVE  Spec => []NoMisdelivery
<1>1. Init => NoMisdelivery
  BY DEF Init, WorldInit, NoMisdelivery, ReceivedBy
<1>2. /\ Inv /\ GotTyped /\ OwnInv /\ RouteInv /\ AccountInv /\ NoMisdelivery
      /\ [Next]_vars
      => NoMisdelivery'
  <2>1. ASSUME NoMisdelivery, UNCHANGED vars
        PROVE  NoMisdelivery'
    BY <2>1 DEF NoMisdelivery, ReceivedBy, vars, outsideVars
  <2> QED
    BY <2>1, AddressedStep
<1> QED
  BY <1>1, <1>2, Invariance, GotInvariance, OwnInvariance, RouteInvariance, AccountInvariance, PTL
     DEF Spec

-----------------------------------------------------------------------------
(* The two records of who is online.                                       *)

Updating == {"onlineTable", "offlineTable"}

TableInv ==
  /\ \A u \in Users : \/ isUserOnline(u) <=> u \in online_table
                      \/ \E w \in Workers : pc[w] \in Updating /\ user_id_[this[w]] = u
  /\ \A w \in Workers :
       /\ pc[w] = "onlineTable" => isUserOnline(user_id_[this[w]])
       /\ pc[w] = "offlineTable" => ~ isUserOnline(user_id_[this[w]])
       /\ pc[w] \in {"offlineMap", "offlineTable"} => user_id_[this[w]] \in Users

LEMMA TableStep ==
  ASSUME Inv, NoResetInv, BoundsInv, TableInv, Next, MaxDbFaults = 0, MaxCrashes = 0
  PROVE  TableInv'
<1> DEFINE Special == {"onlineTable", "offlineMap", "offlineTable"}
<1> USE DEF isUserOnline
<1>1. ~ StatementFails /\ ~ Crash
  BY NothingFails
<1>2. ASSUME UNCHANGED <<online_users_, online_table>>,
             \A w \in Workers : /\ pc'[w] \in Special => /\ pc'[w] = pc[w]
                                                         /\ user_id_'[this'[w]] = user_id_[this[w]]
                                /\ pc[w] \in Updating => pc'[w] = pc[w]
      PROVE  TableInv'
  BY <1>2 DEF TableInv, Updating
<1>3. ASSUME NEW w \in Workers, pc[w] \notin {"idle", "lock"},
             \A t \in Threads : t # w => pc'[t] = pc[t]
      PROVE  \A v \in Workers : v # w => pc[v] \notin Special /\ pc'[v] \notin Special
  BY <1>3, Alone, ThreadFacts
<1>4. CASE QuietStep
  <2>1. UNCHANGED <<online_users_, online_table, user_id_, this>>
    BY <1>4, QuietFrame DEF userVars, connVars
  <2>2. \A w \in Workers : pc'[w] = pc[w] \/ (pc[w] = "idle" /\ pc'[w] = "lock")
    BY <1>4, QuietFrame
  <2> QED
    BY <2>1, <2>2, <1>2 DEF Updating
<1>5. CASE Accept
  <2>1. /\ UNCHANGED <<online_users_, online_table, user_id_>>
        /\ \A w \in Workers : pc'[w] = pc[w] /\ this'[w] = this[w]
    BY <1>5, ThreadFacts DEF Accept, Go, userVars, Inv, TypeInv, ThreadsTyped
  <2> QED
    BY <2>1, <1>2
<1>6. CASE RegisterClient
  <2>1. \A w \in Workers : pc[w] \in {"idle", "lock"} /\ pc'[w] = pc[w]
    BY <1>6, RegistrationFacts, ThreadFacts DEF Inv, TypeInv, ThreadsTyped, RegisterClient,
       ReplaceClient, Go
  <2> QED
    BY <1>6, <2>1, <1>2 DEF RegisterClient, ReplaceClient, userVars, Updating
<1>7. ASSUME NEW w \in Workers, LockClient(w) \/ UnlockClient(w)
      PROVE  TableInv'
  <2>1. /\ UNCHANGED <<online_users_, online_table, user_id_>>
        /\ pc[w] \in {"lock", "parse", "closed"} /\ pc'[w] \in {"recv", "idle"}
        /\ \A v \in Workers : v # w => pc'[v] = pc[v] /\ this'[v] = this[v]
    BY <1>7, ThreadFacts DEF LockClient, UnlockClient, Go, userVars, connVars, Inv, TypeInv,
       ThreadsTyped
  <2> QED
    BY <2>1, <1>2 DEF Updating
<1>8. ASSUME NEW w \in Workers, ReadStep(w)
      PROVE  TableInv'
  <2> DEFINE c == this[w]
  <2>1. /\ c \in Conns /\ this' = this /\ w \in DOMAIN pc
        /\ \A v \in Workers : v # w => pc[v] \notin Special /\ pc'[v] \notin Special
    BY <1>8, <1>3, Alone, ReadMoves, ReadFrame DEF Reading, Inv, TypeInv, ThreadsTyped
  <2>2. CASE Recv(w)
    <3>1. /\ UNCHANGED <<online_users_, online_table, user_id_>> /\ pc[w] = "recv"
          /\ pc'[w] \in {"recv", "parse", CloseEntry(c)}
      BY <2>1, <2>2 DEF Recv, MoreData, AfterRecv, userVars
    <3>2. pc'[w] = "offlineMap" => user_id_[c] \in Users
      BY <2>1, <3>1 DEF CloseEntry, isAuthenticated, Inv, TypeInv, ConnsTyped
    <3>3. pc'[w] \in {"recv", "parse", "offlineMap", "closeCheck"}
      BY <3>1 DEF CloseEntry
    <3> QED
      BY <2>1, <3>1, <3>2, <3>3 DEF TableInv, Updating
  <2>3. CASE \/ Parse(w) \/ Login(w) \/ Register(w) \/ LoginResp(w) \/ GetOffline(w) \/ Push(w)
             \/ Store(w) \/ Lookup(w) \/ Forward(w)
    <3>1. pc[w] \notin Special /\ pc'[w] \notin Special
      BY <2>1, <2>3 DEF Parse, Handler, Login, Register, LoginResp, GetOffline, GetOfflineMessage,
         Push, Store, StoreMessage, Lookup, LookupReceiver, Forward, Go
    <3>2. UNCHANGED <<online_users_, online_table>>
      BY <2>3 DEF Parse, Login, Register, LoginResp, GetOffline, GetOfflineMessage, Push, Store,
         StoreMessage, Lookup, Forward, userVars
    <3> QED
      BY <2>1, <3>1, <3>2, <1>2 DEF Updating
  <2>4. CASE OnlineMap(w)
    <3> DEFINE u == user_id_[c]
    <3>1. /\ pc[w] = "onlineMap" /\ pc'[w] = "onlineTable" /\ UNCHANGED <<user_id_, online_table>>
          /\ online_users_' = [online_users_ EXCEPT ![u] = fd_[c]]
      BY <2>1, <2>4, <1>1 DEF OnlineMap, UserOnlineMap, connVars
    <3>2. u \in Users /\ fd_[c] # NoFd
      BY <2>1, <3>1, ThreadFacts DEF Inv, HandlerInv, SocketInv
    <3>3. online_users_'[u] # NoFd /\ \A v \in Users : v # u => online_users_'[v] = online_users_[v]
      BY <3>1, <3>2 DEF Inv, TypeInv, UsersTyped
    <3> QED
      BY <2>1, <3>1, <3>2, <3>3 DEF TableInv, Updating
  <2>5. CASE OnlineTable(w)
    <3> DEFINE u == user_id_[c]
    <3>1. /\ pc[w] = "onlineTable" /\ pc'[w] = "loginResp" /\ UNCHANGED <<user_id_, online_users_>>
          /\ online_table' = online_table \cup {u}
      BY <2>1, <2>5, <1>1 DEF OnlineTable, UserOnlineTable, connVars, Go
    <3>2. online_users_[u] # NoFd
      BY <3>1 DEF TableInv
    <3> QED
      BY <2>1, <3>1, <3>2 DEF TableInv, Updating
  <2> QED
    BY <1>8, <2>2, <2>3, <2>4, <2>5 DEF ReadStep
<1>9. ASSUME NEW w \in Workers, CloseStep(w)
      PROVE  TableInv'
  <2> DEFINE c == this[w]
             u == user_id_[c]
  <2>1. /\ c \in Conns /\ UNCHANGED <<this, user_id_>> /\ w \in DOMAIN pc
        /\ \A v \in Workers : v # w => pc[v] \notin Special /\ pc'[v] \notin Special
    BY <1>9, <1>3, Alone, CloseMoves, CloseFrame, ThreadFacts DEF Closing, Inv, TypeInv, ThreadsTyped
  <2>2. CASE OfflineMap(w)
    <3>1. /\ pc[w] = "offlineMap" /\ pc'[w] = "offlineTable" /\ UNCHANGED online_table
          /\ online_users_' = [online_users_ EXCEPT ![u] = NoFd] /\ u \in Users
      BY <2>1, <2>2, <1>1 DEF OfflineMap, UserOfflineMap, TableInv
    <3>2. online_users_'[u] = NoFd /\ \A v \in Users : v # u => online_users_'[v] = online_users_[v]
      BY <3>1 DEF Inv, TypeInv, UsersTyped
    <3> QED
      BY <2>1, <3>1, <3>2 DEF TableInv, Updating
  <2>3. CASE OfflineTable(w)
    <3>1. /\ pc[w] = "offlineTable" /\ pc'[w] = "closeCheck" /\ UNCHANGED online_users_
          /\ online_table' = online_table \ {u} /\ online_users_[u] = NoFd
      BY <2>1, <2>3, <1>1 DEF OfflineTable, UserOfflineTable, Go, TableInv
    <3> QED
      BY <2>1, <3>1 DEF TableInv, Updating
  <2>4. CASE CloseCheck(w) \/ CloseSys(w) \/ CloseForget(w)
    <3>1. /\ UNCHANGED <<online_users_, online_table>>
          /\ pc[w] \in {"closeCheck", "closeSys", "closeForget"}
          /\ pc'[w] \in {"closeSys", "closeForget", "closed"}
      BY <2>1, <2>4, ThreadFacts DEF CloseCheck, CloseSys, CloseForget, CloseReturns, Go, Closing,
         userVars
    <3> QED
      BY <2>1, <3>1, <1>2 DEF Updating
  <2> QED
    BY <1>9, <2>2, <2>3, <2>4 DEF CloseStep
<1>10. ASSUME NEW c \in Conns, ClientStep(c)
       PROVE  TableInv'
  BY <1>10, <1>2, ClientFrame DEF threadVars, userVars, connVars
<1> QED
  BY <1>1, <1>4, <1>5, <1>6, <1>7, <1>8, <1>9, <1>10, OrderlySteps

LEMMA TableInvariance ==
  ASSUME Abortive = FALSE, MaxDbFaults = 0, MaxCrashes = 0
  PROVE  Spec => []TableInv
<1>1. Init => TableInv
  BY ThreadFacts DEF Init, ProcessInit, WorldInit, TableInv, isUserOnline
<1>2. Inv /\ NoResetInv /\ OwnInv /\ BoundsInv /\ TableInv /\ [Next]_vars => TableInv'
  <2>1. ASSUME TableInv, UNCHANGED vars
        PROVE  TableInv'
    BY <2>1 DEF TableInv, isUserOnline, vars, serverVars, threadVars, userVars, connVars
  <2> QED
    BY <2>1, TableStep
<1> QED
  BY <1>1, <1>2, Invariance, OwnInvariance, BoundsInvariance, PTL DEF Spec

(* The table of online users follows the map: whenever nobody is between   *)
(* the two updates, they agree, if neither clients reset their connections *)
(* nor statements fail nor the server crashes (after a crash the table     *)
(* keeps the users of before).                                             *)
THEOREM ChatTableAgrees ==
  ASSUME Abortive = FALSE, MaxDbFaults = 0, MaxCrashes = 0
  PROVE  Spec => []TableAgreesWithMap
<1>1. TableInv => TableAgreesWithMap
  BY ThreadFacts DEF TableInv, TableAgreesWithMap, Updating
<1> QED
  BY <1>1, TableInvariance, PTL

-----------------------------------------------------------------------------
(* Offline messages.                                                       *)

Fetching == {"onlineTable", "loginResp", "getOffline"}

OfflineInv ==
  \A m \in offline : isUserOnline(m.to) =>
    \E w \in Workers : pc[w] \in Fetching /\ user_id_[this[w]] = m.to

LEMMA OfflineStep ==
  ASSUME Inv, BoundsInv, OfflineInv, Next, MaxDbFaults = 0
  PROVE  OfflineInv'
<1> USE DEF isUserOnline
<1>1. ~ StatementFails
  BY NothingFails
<1>2. \A m \in offline : m.to \in Users
  BY DEF Inv, TypeInv, MessagesTyped, OutsideTyped, Chats
<1>3. ASSUME offline' \subseteq offline,
             \A m \in offline : online_users_'[m.to] \in {online_users_[m.to], NoFd},
             \A w \in Workers : pc[w] \in Fetching =>
               pc'[w] \in Fetching /\ user_id_'[this'[w]] = user_id_[this[w]]
      PROVE  OfflineInv'
  BY <1>3 DEF OfflineInv
<1>4. ASSUME NEW w \in Workers, pc[w] \notin {"idle", "lock"}
      PROVE  \A v \in Workers : v # w => pc[v] \notin Fetching
  BY <1>4, Alone DEF Fetching
<1>5. ASSUME UNCHANGED <<offline, online_users_, user_id_>>,
             \A w \in Workers : pc'[w] = pc[w] /\ this'[w] = this[w]
      PROVE  OfflineInv'
  BY <1>3, <1>5
<1>6. CASE QuietStep
  <2>1. UNCHANGED <<offline, online_users_, user_id_, this>>
    BY <1>6, QuietFrame DEF userVars, connVars, messageVars
  <2>2. \A w \in Workers : pc'[w] = pc[w] \/ pc[w] = "idle"
    BY <1>6, QuietFrame
  <2> QED
    BY <2>1, <2>2, <1>3 DEF Fetching
<1>7. CASE Accept \/ \E e \in batch : DispatchError(e)
  <2>1. /\ UNCHANGED <<offline, online_users_, user_id_>>
        /\ \A w \in Workers : pc'[w] = pc[w] /\ this'[w] = this[w]
    BY <1>7, ThreadFacts DEF Accept, DispatchError, Go, userVars, messageVars, connVars, Inv, TypeInv,
       ThreadsTyped
  <2> QED
    BY <2>1, <1>5
<1>8. CASE RegisterClient
  <2>1. \A w \in Workers : pc[w] \notin Fetching
    BY <1>8, RegistrationFacts DEF Inv, Fetching
  <2> QED
    BY <1>8, <2>1, <1>3 DEF RegisterClient, ReplaceClient, userVars, messageVars
<1>9. ASSUME NEW w \in Workers, LockClient(w) \/ UnlockClient(w)
      PROVE  OfflineInv'
  <2>1. /\ UNCHANGED <<offline, online_users_, user_id_>> /\ pc[w] \notin Fetching
        /\ \A v \in Workers : v # w => pc'[v] = pc[v] /\ this'[v] = this[v]
    BY <1>9, ThreadFacts DEF LockClient, UnlockClient, Go, userVars, messageVars, connVars, Inv,
       TypeInv, ThreadsTyped, Fetching
  <2> QED
    BY <2>1, <1>3
<1>10. ASSUME NEW w \in Workers, ReadStep(w)
       PROVE  OfflineInv'
  <2> DEFINE c == this[w]
  <2>1. /\ c \in Conns /\ this' = this /\ w \in DOMAIN pc
        /\ \A v \in Workers : v # w => pc[v] \notin Fetching
    BY <1>10, <1>4, Alone, ReadMoves, ReadFrame DEF Reading, Inv, TypeInv, ThreadsTyped
  <2>2. CASE \/ Recv(w) \/ Parse(w) \/ Login(w) \/ Register(w) \/ Push(w) \/ Lookup(w) \/ Forward(w)
    <3>1. pc[w] \notin Fetching
      BY <2>2 DEF Recv, Parse, Login, Register, Push, Lookup, LookupReceiver, Forward, Go, Fetching
    <3>2. UNCHANGED <<offline, online_users_>>
      BY <2>2 DEF Recv, Parse, Login, Register, Push, Lookup, Forward, userVars, messageVars
    <3> QED
      BY <2>1, <3>1, <3>2, <1>3
  <2>3. CASE OnlineMap(w)
    <3>1. /\ pc[w] = "onlineMap" /\ pc'[w] = "onlineTable" /\ UNCHANGED <<user_id_, offline>>
          /\ online_users_' = [online_users_ EXCEPT ![user_id_[c]] = fd_[c]]
      BY <2>1, <2>3, <1>1 DEF OnlineMap, UserOnlineMap, connVars, messageVars
    <3>2. \A m \in offline : m.to # user_id_[c] => online_users_[m.to] = NoFd
      BY <2>1, <3>1 DEF OfflineInv, Fetching
    <3>3. \A m \in offline : m.to # user_id_[c] => online_users_'[m.to] = online_users_[m.to]
      BY <3>1, <1>2 DEF Inv, TypeInv, UsersTyped
    <3> QED
      BY <2>1, <3>1, <3>2, <3>3 DEF OfflineInv, Fetching
  <2>4. CASE OnlineTable(w) \/ LoginResp(w)
    <3>1. UNCHANGED <<offline, online_users_, user_id_>> /\ pc'[w] \in Fetching
      BY <2>1, <2>4 DEF OnlineTable, UserOnlineTable, LoginResp, Go, userVars, connVars, messageVars,
         Fetching
    <3> QED
      BY <2>1, <3>1, <1>3
  <2>5. CASE GetOffline(w)
    <3>1. /\ UNCHANGED <<online_users_, user_id_>> /\ pc[w] = "getOffline"
          /\ offline' = offline \ {m \in offline : m.to = user_id_[c]}
      BY <2>1, <2>5, <1>1 DEF GetOffline, GetOfflineMessage
    <3>2. \A m \in offline' : online_users_'[m.to] = NoFd
      BY <2>1, <3>1 DEF OfflineInv
    <3> QED
      BY <3>2 DEF OfflineInv
  <2>6. CASE Store(w)
    <3> DEFINE m == Request1(w).msg
    <3>1. /\ UNCHANGED <<online_users_, user_id_>> /\ pc[w] = "store"
          /\ offline' = offline \/ (offline' = offline \cup {m} /\ online_users_[m.to] = NoFd)
      BY <2>1, <2>6, <1>1 DEF Store, StoreMessage
    <3>2. \A n \in offline : online_users_[n.to] = NoFd
      BY <2>1, <3>1 DEF OfflineInv, Fetching
    <3> QED
      BY <3>1, <3>2 DEF OfflineInv
  <2> QED
    BY <1>10, <2>2, <2>3, <2>4, <2>5, <2>6 DEF ReadStep
<1>11. ASSUME NEW t \in Threads, CloseStep(t)
       PROVE  OfflineInv'
  <2>1. UNCHANGED <<offline, user_id_>> /\ pc[t] \in Closing
    BY <1>11, CloseFrame, CloseControl DEF ClosesOn, Inv
  <2>2. \A w \in Workers : pc[w] \in Fetching => pc'[w] = pc[w] /\ this'[w] = this[w]
    <3>1. t \in DOMAIN pc /\ t \in DOMAIN this /\ t \notin {w \in Workers : pc[w] \in Fetching}
      BY <2>1 DEF Inv, TypeInv, ThreadsTyped, Closing, Fetching
    <3> QED
      BY <1>11, <3>1, CloseControl, ThreadFacts DEF ClosesOn, Inv, TypeInv, ThreadsTyped
  <2>3. \A m \in offline : online_users_'[m.to] \in {online_users_[m.to], NoFd}
    BY <1>2, <1>11 DEF CloseStep, OfflineMap, UserOfflineMap, OfflineTable, UserOfflineTable,
       CloseCheck, CloseSys, CloseForget, userVars, Inv, TypeInv, UsersTyped
  <2> QED
    BY <2>1, <2>2, <2>3, <1>3
<1>12. ASSUME NEW c \in Conns, ClientStep(c)
       PROVE  OfflineInv'
  BY <1>12, <1>5, ClientFrame DEF threadVars, userVars, connVars, messageVars
<1>13. CASE Crash
  BY <1>13, <1>2 DEF Crash, OfflineInv, messageVars
<1> QED
  BY <1>6, <1>7, <1>8, <1>9, <1>10, <1>11, <1>12, <1>13, ThreadFacts
     DEF Next, ClientStep, ReactorStep, WorkerStep, QuietStep

(* If no statement fails, a user who is online has no offline messages     *)
(* left once the login has fetched them: the sender's look at the map and  *)
(* its insert happen under client_mutex_, as the login does.  Neither      *)
(* resets nor crashes can change that.                                     *)
THEOREM ChatLeavesNoneOffline ==
  ASSUME MaxDbFaults = 0
  PROVE  Spec => []OnlineHasNoneOffline
<1>1. Init => OfflineInv
  BY DEF Init, WorldInit, OfflineInv
<1>2. Inv /\ BoundsInv /\ OfflineInv /\ [Next]_vars => OfflineInv'
  <2>1. ASSUME OfflineInv, UNCHANGED vars
        PROVE  OfflineInv'
    BY <2>1 DEF OfflineInv, isUserOnline, vars, serverVars, threadVars, userVars, connVars, messageVars
  <2> QED
    BY <2>1, OfflineStep
<1>3. OfflineInv => OnlineHasNoneOffline
  BY ThreadFacts DEF OfflineInv, OnlineHasNoneOffline, Fetching
<1> QED
  BY <1>1, <1>2, <1>3, Invariance, BoundsInvariance, PTL DEF Spec

-----------------------------------------------------------------------------
(* Chat messages on their way to the server: no two are the same.          *)

ChatsOf(q) == {q[i].msg : i \in {j \in DOMAIN q : q[j].type = "CHAT"}}

Distinct(q) ==
  \A i, j \in DOMAIN q :
    q[i].type = "CHAT" /\ q[j].type = "CHAT" /\ q[i].msg = q[j].msg => i = j

LEMMA ChatsOfTail ==
  ASSUME NEW S, NEW q \in Seq(S), q # << >>
  PROVE  /\ ChatsOf(Tail(q)) \subseteq ChatsOf(q)
         /\ Distinct(q) => Distinct(Tail(q))
         /\ Head(q).type = "CHAT" => Head(q).msg \in ChatsOf(q)
         /\ Distinct(q) /\ Head(q).type = "CHAT" => Head(q).msg \notin ChatsOf(Tail(q))
<1>1. /\ DOMAIN q = 1 .. Len(q)
      /\ DOMAIN Tail(q) = 1 .. (Len(q) - 1)
      /\ Len(q) \in Nat \ {0}
      /\ Head(q) = q[1]
      /\ 1 \in 1 .. Len(q)
  OBVIOUS
<1>2. \A i \in DOMAIN Tail(q) : Tail(q)[i] = q[i + 1] /\ i + 1 \in DOMAIN q /\ i + 1 # 1
  OBVIOUS
<1>3. ChatsOf(Tail(q)) \subseteq ChatsOf(q)
  BY <1>2 DEF ChatsOf
<1>4. ASSUME Distinct(q), NEW i \in DOMAIN Tail(q), NEW j \in DOMAIN Tail(q),
             Tail(q)[i].type = "CHAT", Tail(q)[j].type = "CHAT", Tail(q)[i].msg = Tail(q)[j].msg
      PROVE  i = j
  <2>1. i + 1 = j + 1
    BY <1>2, <1>4 DEF Distinct
  <2> QED
    BY <1>1, <2>1
<1>5. Head(q).type = "CHAT" => Head(q).msg \in ChatsOf(q)
  BY <1>1 DEF ChatsOf
<1>6. Distinct(q) /\ Head(q).type = "CHAT" => Head(q).msg \notin ChatsOf(Tail(q))
  BY <1>1, <1>2 DEF ChatsOf, Distinct
<1> QED
  BY <1>3, <1>4, <1>5, <1>6 DEF Distinct

LEMMA ChatsOfConcat ==
  ASSUME NEW S, NEW q \in Seq(S), NEW r \in Seq(S)
  PROVE  /\ ChatsOf(q \o r) \subseteq ChatsOf(q) \cup ChatsOf(r)
         /\ Distinct(q) /\ Distinct(r) /\ ChatsOf(q) \cap ChatsOf(r) = {} => Distinct(q \o r)
<1> DEFINE n == Len(q)
<1>1. /\ DOMAIN q = 1 .. n /\ DOMAIN r = 1 .. Len(r) /\ n \in Nat /\ Len(r) \in Nat
      /\ DOMAIN (q \o r) = 1 .. (n + Len(r))
  BY ConcatProperties
<1>2. \A i \in DOMAIN (q \o r) : /\ i <= n => i \in DOMAIN q /\ (q \o r)[i] = q[i]
                                 /\ i > n => i - n \in DOMAIN r /\ (q \o r)[i] = r[i - n]
  BY <1>1, ConcatProperties
<1>3. ChatsOf(q \o r) \subseteq ChatsOf(q) \cup ChatsOf(r)
  BY <1>1, <1>2 DEF ChatsOf
<1>4. ASSUME Distinct(q), Distinct(r), ChatsOf(q) \cap ChatsOf(r) = {},
             NEW i \in DOMAIN (q \o r), NEW j \in DOMAIN (q \o r),
             (q \o r)[i].type = "CHAT", (q \o r)[j].type = "CHAT",
             (q \o r)[i].msg = (q \o r)[j].msg
      PROVE  i = j
  <2>1. i \in Nat /\ j \in Nat
    BY <1>1
  <2>2. CASE i <= n /\ j <= n
    BY <1>2, <1>4, <2>2 DEF Distinct
  <2>3. CASE i > n /\ j > n
    <3>1. i - n = j - n
      BY <1>2, <1>4, <2>3 DEF Distinct
    <3> QED
      BY <1>1, <2>1, <3>1
  <2>4. ASSUME NEW k \in DOMAIN (q \o r), (q \o r)[k].type = "CHAT"
        PROVE  /\ k <= n => (q \o r)[k].msg \in ChatsOf(q)
               /\ k > n => (q \o r)[k].msg \in ChatsOf(r)
    BY <1>2, <2>4 DEF ChatsOf
  <2>5. ~ (i <= n /\ j > n) /\ ~ (i > n /\ j <= n)
    BY <1>4, <2>4
  <2> QED
    BY <1>1, <2>1, <2>2, <2>3, <2>5
<1> QED
  BY <1>3, <1>4 DEF Distinct

LEMMA ChatsOfOne ==
  ASSUME NEW r
  PROVE  /\ ChatsOf(<<r>>) = IF r.type = "CHAT" THEN {r.msg} ELSE {}
         /\ Distinct(<<r>>) /\ ChatsOf(<< >>) = {} /\ Distinct(<< >>)
BY DEF ChatsOf, Distinct

(* Chat messages are numbered as they are sent.                            *)
IdInv == \A m \in sent : m.id <= Cardinality(sent)

(* What a step does to the requests on their way: some are dropped, recv   *)
(* reads one of a connection, or a client sends a new one.                 *)
Drops == \A c \in Conns :
           /\ inbox'[c] \in {inbox[c], << >>}
           /\ \/ buffer_'[c] \in {buffer_[c], << >>}
              \/ buffer_[c] # << >> /\ buffer_'[c] = Tail(buffer_[c])

Reads(w, s) == /\ Recv(w) /\ s \in Conns /\ this[w] \in Conns /\ inbox[s] # << >>
               /\ buffer_' = [buffer_ EXCEPT ![this[w]] = Append(@, Head(inbox[s]))]
               /\ inbox' = [inbox EXCEPT ![s] = Tail(@)]

Sends(c, r) == /\ r \in Requests
               /\ inbox' = [inbox EXCEPT ![c] = Append(@, r)]
               /\ r.type = "CHAT" => r.msg \notin sent
               /\ UNCHANGED buffer_

LEMMA RequestMoves ==
  ASSUME Inv, IdInv, Next
  PROVE  /\ IdInv'
         /\ \/ Drops
            \/ \E w \in Workers : \E s \in Conns : Reads(w, s)
            \/ \E c \in Conns : ClientStep(c) /\ \E r \in Requests : Sends(c, r)
<1>1. sent' = sent => IdInv'
  BY DEF IdInv
<1>2. UNCHANGED <<inbox, buffer_>> => Drops
  BY DEF Drops
<1>3. CASE QuietStep
  BY <1>1, <1>2, <1>3, QuietFrame DEF outsideVars, connVars
<1>4. CASE Accept \/ \E e \in batch : DispatchError(e)
  BY <1>1, <1>2, <1>4 DEF Accept, DispatchError, kernelVars, outsideVars, connVars
<1>5. CASE RegisterClient
  <2>1. sent' = sent /\ \A c \in Conns : inbox'[c] \in {inbox[c], << >>}
    BY <1>5 DEF RegisterClient, ReplaceClient, SysClose, kernelVars, outsideVars, Inv, TypeInv,
       KernelTyped
  <2>2. \A c \in Conns : buffer_'[c] \in {buffer_[c], << >>}
    BY <1>5 DEF RegisterClient, ReplaceClient, connVars, Inv, TypeInv, ConnsTyped
  <2> QED
    BY <1>1, <2>1, <2>2 DEF Drops
<1>6. ASSUME NEW w \in Workers, LockClient(w) \/ UnlockClient(w)
      PROVE  sent' = sent /\ Drops
  BY <1>2, <1>6 DEF LockClient, UnlockClient, kernelVars, outsideVars, connVars
<1>7. ASSUME NEW w \in Workers, Recv(w)
      PROVE  sent' = sent /\ (Drops \/ \E s \in Conns : Reads(w, s))
  <2>1. sent' = sent /\ this[w] \in Conns
    BY <1>7, Alone DEF Recv, outsideVars
  <2>2. \/ UNCHANGED <<inbox, buffer_>>
        \/ \E s \in Conns : /\ inbox[s] # << >>
                            /\ buffer_' = [buffer_ EXCEPT ![this[w]] = Append(@, Head(inbox[s]))]
                            /\ inbox' = [inbox EXCEPT ![s] = Tail(@)]
    BY <1>7, RecvMoves DEF Inv
  <2> QED
    BY <1>2, <1>7, <2>1, <2>2 DEF Reads
<1>8. ASSUME NEW w \in Workers, ReadStep(w), ~ Recv(w)
      PROVE  sent' = sent /\ Drops
  <2>1. inbox' = inbox
    <3>1. CASE LoginResp(w) \/ Push(w) \/ Forward(w)
      BY <3>1 DEF LoginResp, Push, Forward, Transmit
    <3>2. CASE \/ Parse(w) \/ Login(w) \/ Register(w) \/ OnlineMap(w) \/ OnlineTable(w)
               \/ GetOffline(w) \/ Store(w) \/ Lookup(w)
      BY <3>2 DEF Parse, Login, Register, OnlineMap, OnlineTable, GetOffline, Store, Lookup,
         kernelVars, outsideVars
    <3> QED
      BY <1>8, <3>1, <3>2 DEF ReadStep
  <2>2. \A c \in Conns : \/ buffer_'[c] = buffer_[c]
                         \/ buffer_[c] # << >> /\ buffer_'[c] = Tail(buffer_[c])
    BY <1>8, HandlersStay DEF Inv, TypeInv, ConnsTyped
  <2> QED
    BY <1>8, <2>1, <2>2, ReadFrame DEF Drops
<1>9. ASSUME NEW t \in Threads, CloseStep(t)
      PROVE  sent' = sent /\ Drops
  <2>1. \A c \in Conns : inbox'[c] \in {inbox[c], << >>}
    BY <1>9 DEF CloseStep, OfflineMap, OfflineTable, CloseCheck, CloseSys, CloseForget, SysClose,
       kernelVars, Inv, TypeInv, KernelTyped
  <2> QED
    BY <1>9, <2>1, CloseFrame DEF Drops
<1>10. ASSUME NEW c \in Conns, ClientStep(c)
       PROVE  IdInv' /\ (Drops \/ \E r \in Requests : Sends(c, r))
  <2>1. buffer_' = buffer_
    BY <1>10, ClientFrame DEF connVars
  <2>2. CASE Connect(c) \/ \E how \in {"fin", "rst"} : Hangup(c, how)
    BY <1>1, <1>2, <2>1, <2>2 DEF Connect, Hangup
  <2>3. ASSUME NEW u \in Users, SendLogin(c, u) \/ SendRegister(c, u)
        PROVE  sent' = sent /\ \E r \in Requests : Sends(c, r)
    <3> DEFINE q(type) == [type |-> type, user |-> u]
    <3>1. /\ sent' = sent
          /\ \E type \in {"LOGIN", "REGISTER"} : inbox' = [inbox EXCEPT ![c] = Append(@, q(type))]
      BY <2>3 DEF SendLogin, SendRegister, Request
    <3>2. \A type \in {"LOGIN", "REGISTER"} : q(type) \in Requests /\ q(type).type # "CHAT"
      BY DEF Requests
    <3> QED
      BY <2>1, <3>1, <3>2 DEF Sends
  <2>4. ASSUME NEW u \in Users, SendChat(c, u)
        PROVE  IdInv' /\ \E r \in Requests : Sends(c, r)
    <3> DEFINE m == [id |-> Cardinality(sent) + 1, from |-> account[c], to |-> u]
               r == [type |-> "CHAT", msg |-> m]
    <3>1. Cardinality(sent) \in Nat /\ IsFiniteSet(sent) /\ \A n \in sent : n.id \in Nat
      BY FS_CardinalityType DEF Inv, TypeInv, OutsideTyped, Chats
    <3>2. m \notin sent
      BY <3>1 DEF IdInv
    <3>3. Cardinality(sent \cup {m}) = Cardinality(sent) + 1
      BY <3>1, <3>2, FS_AddElement
    <3>4. sent' = sent \cup {m} /\ inbox' = [inbox EXCEPT ![c] = Append(@, r)]
      BY <2>4 DEF SendChat, Request
    <3>5. m.id = Cardinality(sent) + 1
      OBVIOUS
    <3>6. IdInv'
      BY <3>1, <3>3, <3>4, <3>5 DEF IdInv
    <3>7. account[c] \in Users
      BY <2>4 DEF SendChat, Inv, TypeInv, OutsideTyped
    <3>8. r \in Requests /\ r.msg = m
      BY <3>1, <3>7 DEF Requests
    <3> QED
      BY <2>1, <3>2, <3>4, <3>6, <3>8 DEF Sends
  <2> QED
    BY <1>1, <1>10, <2>2, <2>3, <2>4 DEF ClientStep
<1>11. CASE Crash
  <2>1. sent' = sent /\ \A c \in Conns : inbox'[c] = << >> /\ buffer_'[c] = << >>
    BY <1>11 DEF Crash
  <2> QED
    BY <1>1, <2>1 DEF Drops
<1> QED
  BY <1>1, <1>3, <1>4, <1>5, <1>6, <1>7, <1>8, <1>9, <1>10, <1>11, ThreadFacts
     DEF Next, ClientStep, ReactorStep, WorkerStep, QuietStep

PendingInv ==
  /\ \A c \in Conns : Distinct(inbox[c]) /\ Distinct(buffer_[c])
  /\ \A c, d \in Conns :
       /\ c # d => /\ ChatsOf(inbox[c]) \cap ChatsOf(inbox[d]) = {}
                   /\ ChatsOf(buffer_[c]) \cap ChatsOf(buffer_[d]) = {}
       /\ ChatsOf(inbox[c]) \cap ChatsOf(buffer_[d]) = {}

LEMMA PendingSent ==
  ASSUME TypeInv, NEW c \in Conns
  PROVE  /\ inbox[c] \in Seq(Pending) /\ buffer_[c] \in Seq(Pending)
         /\ ChatsOf(inbox[c]) \subseteq sent /\ ChatsOf(buffer_[c]) \subseteq sent
<1>1. inbox[c] \in Seq(Pending) /\ buffer_[c] \in Seq(Pending)
  BY DEF TypeInv, KernelTyped, ConnsTyped
<1>2. ASSUME NEW q \in Seq(Pending)
      PROVE  ChatsOf(q) \subseteq sent
  <2>1. \A i \in DOMAIN q : q[i] \in Pending
    OBVIOUS
  <2> QED
    BY <2>1 DEF ChatsOf, Pending
<1> QED
  BY <1>1, <1>2

(* Requests that are dropped leave fewer.                                  *)
LEMMA DropsLeaveFewer ==
  ASSUME TypeInv, Drops, NEW c \in Conns
  PROVE  /\ ChatsOf(inbox'[c]) \subseteq ChatsOf(inbox[c])
         /\ ChatsOf(buffer_'[c]) \subseteq ChatsOf(buffer_[c])
         /\ Distinct(inbox[c]) => Distinct(inbox'[c])
         /\ Distinct(buffer_[c]) => Distinct(buffer_'[c])
<1>1. /\ ChatsOf(<< >>) = {} /\ Distinct(<< >>)
  BY DEF ChatsOf, Distinct
<1>2. buffer_[c] # << >> => /\ ChatsOf(Tail(buffer_[c])) \subseteq ChatsOf(buffer_[c])
                            /\ Distinct(buffer_[c]) => Distinct(Tail(buffer_[c]))
  BY PendingSent, ChatsOfTail
<1>3. /\ inbox'[c] \in {inbox[c], << >>}
      /\ \/ buffer_'[c] \in {buffer_[c], << >>}
         \/ buffer_[c] # << >> /\ buffer_'[c] = Tail(buffer_[c])
  BY DEF Drops
<1>4. CASE inbox'[c] = << >>
  <2>1. ChatsOf(inbox'[c]) = {} /\ Distinct(inbox'[c])
    BY <1>1, <1>4
  <2>2. /\ ChatsOf(buffer_'[c]) \subseteq ChatsOf(buffer_[c])
        /\ Distinct(buffer_[c]) => Distinct(buffer_'[c])
    BY <1>1, <1>2, <1>3
  <2> QED
    BY <2>1, <2>2
<1>5. CASE inbox'[c] = inbox[c]
  BY <1>1, <1>2, <1>3, <1>5
<1> QED
  BY <1>3, <1>4, <1>5

(* What recv moves, and what a client sends.                               *)
LEMMA ReadsMove ==
  ASSUME TypeInv, NEW w \in Workers, NEW s \in Conns, Reads(w, s), NEW c \in Conns
  PROVE  LET new == ChatsOf(<<Head(inbox[s])>>)
         IN /\ ChatsOf(inbox'[c]) \subseteq ChatsOf(inbox[c])
            /\ Distinct(inbox[c]) => Distinct(inbox'[c])
            /\ new \subseteq ChatsOf(inbox[s])
            /\ Distinct(inbox[s]) => new \cap ChatsOf(inbox'[s]) = {}
            /\ ChatsOf(buffer_'[c]) \subseteq
                 ChatsOf(buffer_[c]) \cup (IF c = this[w] THEN new ELSE {})
            /\ Distinct(buffer_[c]) /\ ChatsOf(inbox[s]) \cap ChatsOf(buffer_[c]) = {} =>
                 Distinct(buffer_'[c])
<1> DEFINE r == Head(inbox[s])
           new == ChatsOf(<<r>>)
<1>1. /\ inbox[s] \in Seq(Pending) /\ inbox[s] # << >> /\ buffer_[c] \in Seq(Pending)
      /\ r \in Pending /\ <<r>> \in Seq(Pending)
  BY PendingSent DEF Reads
<1>2. inbox'[c] = IF c = s THEN Tail(inbox[s]) ELSE inbox[c]
  BY DEF Reads, TypeInv, KernelTyped
<1>3. inbox'[s] = Tail(inbox[s])
  BY DEF Reads, TypeInv, KernelTyped
<1>4. buffer_'[c] = IF c = this[w] THEN buffer_[c] \o <<r>> ELSE buffer_[c]
  <2>1. Append(buffer_[c], r) = buffer_[c] \o <<r>>
    BY <1>1, AppendIsConcat
  <2> QED
    BY <2>1 DEF Reads, TypeInv, ConnsTyped
<1>5. new = (IF r.type = "CHAT" THEN {r.msg} ELSE {}) /\ Distinct(<<r>>)
  BY ChatsOfOne
<1>6. /\ ChatsOf(Tail(inbox[s])) \subseteq ChatsOf(inbox[s])
      /\ Distinct(inbox[s]) => Distinct(Tail(inbox[s]))
      /\ r.type = "CHAT" => r.msg \in ChatsOf(inbox[s])
      /\ Distinct(inbox[s]) /\ r.type = "CHAT" => r.msg \notin ChatsOf(Tail(inbox[s]))
  BY <1>1, ChatsOfTail
<1>7. /\ ChatsOf(buffer_[c] \o <<r>>) \subseteq ChatsOf(buffer_[c]) \cup new
      /\ Distinct(buffer_[c]) /\ ChatsOf(buffer_[c]) \cap new = {} => Distinct(buffer_[c] \o <<r>>)
  BY <1>1, <1>5, ChatsOfConcat
<1>8. new \subseteq ChatsOf(inbox[s]) /\ (Distinct(inbox[s]) => new \cap ChatsOf(inbox'[s]) = {})
  BY <1>3, <1>5, <1>6
<1>9. /\ ChatsOf(inbox'[c]) \subseteq ChatsOf(inbox[c])
      /\ Distinct(inbox[c]) => Distinct(inbox'[c])
  BY <1>2, <1>6
<1>10. /\ ChatsOf(buffer_'[c]) \subseteq ChatsOf(buffer_[c]) \cup (IF c = this[w] THEN new ELSE {})
       /\ Distinct(buffer_[c]) /\ ChatsOf(inbox[s]) \cap ChatsOf(buffer_[c]) = {} =>
            Distinct(buffer_'[c])
  BY <1>4, <1>7, <1>8
<1> QED
  BY <1>8, <1>9, <1>10

LEMMA SendsMove ==
  ASSUME TypeInv, NEW c \in Conns, NEW r \in Requests, Sends(c, r), NEW d \in Conns
  PROVE  /\ buffer_'[d] = buffer_[d]
         /\ inbox'[d] = IF d = c THEN inbox[d] \o <<r>> ELSE inbox[d]
         /\ ChatsOf(inbox'[d]) \subseteq
              ChatsOf(inbox[d]) \cup (IF d = c THEN ChatsOf(<<r>>) ELSE {})
         /\ ChatsOf(<<r>>) \cap sent = {}
         /\ Distinct(inbox[d]) => Distinct(inbox'[d])
<1>1. inbox[c] \in Seq(Requests) /\ inbox[d] \in Seq(Requests) /\ <<r>> \in Seq(Requests)
  BY PendingSent, PendingTypes, SeqMonotonic
<1>2. Append(inbox[c], r) = inbox[c] \o <<r>>
  BY <1>1, AppendIsConcat
<1>3. inbox'[d] = IF d = c THEN inbox[d] \o <<r>> ELSE inbox[d]
  BY <1>2 DEF Sends, TypeInv, KernelTyped
<1>4. ChatsOf(<<r>>) \cap sent = {} /\ Distinct(<<r>>)
  BY ChatsOfOne DEF Sends
<1>5. ChatsOf(inbox[d]) \cap ChatsOf(<<r>>) = {}
  BY <1>4, PendingSent
<1>6. /\ ChatsOf(inbox[d] \o <<r>>) \subseteq ChatsOf(inbox[d]) \cup ChatsOf(<<r>>)
      /\ Distinct(inbox[d]) => Distinct(inbox[d] \o <<r>>)
  BY <1>1, <1>4, <1>5, ChatsOfConcat
<1>7. /\ ChatsOf(inbox'[d]) \subseteq
           ChatsOf(inbox[d]) \cup (IF d = c THEN ChatsOf(<<r>>) ELSE {})
      /\ Distinct(inbox[d]) => Distinct(inbox'[d])
  BY <1>3, <1>6
<1> QED
  BY <1>3, <1>4, <1>7 DEF Sends

LEMMA PendingStep ==
  ASSUME Inv, IdInv, PendingInv, Next
  PROVE  PendingInv'
<1>1. TypeInv
  BY DEF Inv
<1>2. SUFFICES ASSUME NEW c \in Conns, NEW d \in Conns
               PROVE  /\ Distinct(inbox'[c]) /\ Distinct(buffer_'[c])
                      /\ c # d => /\ ChatsOf(inbox'[c]) \cap ChatsOf(inbox'[d]) = {}
                                  /\ ChatsOf(buffer_'[c]) \cap ChatsOf(buffer_'[d]) = {}
                      /\ ChatsOf(inbox'[c]) \cap ChatsOf(buffer_'[d]) = {}
  BY DEF PendingInv
<1>3. /\ Distinct(inbox[c]) /\ Distinct(buffer_[c])
      /\ c # d => /\ ChatsOf(inbox[c]) \cap ChatsOf(inbox[d]) = {}
                  /\ ChatsOf(buffer_[c]) \cap ChatsOf(buffer_[d]) = {}
      /\ ChatsOf(inbox[c]) \cap ChatsOf(buffer_[d]) = {}
  BY DEF PendingInv
<1>4. CASE Drops
  <2>1. /\ ChatsOf(inbox'[c]) \subseteq ChatsOf(inbox[c])
        /\ ChatsOf(buffer_'[c]) \subseteq ChatsOf(buffer_[c])
        /\ Distinct(inbox'[c]) /\ Distinct(buffer_'[c])
    BY <1>1, <1>3, <1>4, DropsLeaveFewer
  <2>2. /\ ChatsOf(inbox'[d]) \subseteq ChatsOf(inbox[d])
        /\ ChatsOf(buffer_'[d]) \subseteq ChatsOf(buffer_[d])
    BY <1>1, <1>4, DropsLeaveFewer
  <2> QED
    BY <1>3, <2>1, <2>2
<1>5. ASSUME NEW w \in Workers, NEW s \in Conns, Reads(w, s)
      PROVE  /\ Distinct(inbox'[c]) /\ Distinct(buffer_'[c])
             /\ c # d => /\ ChatsOf(inbox'[c]) \cap ChatsOf(inbox'[d]) = {}
                         /\ ChatsOf(buffer_'[c]) \cap ChatsOf(buffer_'[d]) = {}
             /\ ChatsOf(inbox'[c]) \cap ChatsOf(buffer_'[d]) = {}
  <2> DEFINE new == ChatsOf(<<Head(inbox[s])>>)
  <2>1. \A e \in Conns :
          /\ ChatsOf(inbox'[e]) \subseteq ChatsOf(inbox[e])
          /\ Distinct(inbox[e]) => Distinct(inbox'[e])
          /\ ChatsOf(buffer_'[e]) \subseteq
               ChatsOf(buffer_[e]) \cup (IF e = this[w] THEN new ELSE {})
          /\ Distinct(buffer_[e]) /\ ChatsOf(inbox[s]) \cap ChatsOf(buffer_[e]) = {} =>
               Distinct(buffer_'[e])
    BY <1>1, <1>5, ReadsMove
  <2>2. /\ \A e \in Conns : /\ e # s => ChatsOf(inbox[e]) \cap ChatsOf(inbox[s]) = {}
                            /\ ChatsOf(inbox[s]) \cap ChatsOf(buffer_[e]) = {}
        /\ Distinct(inbox[s])
    BY DEF PendingInv
  <2>3. new \subseteq ChatsOf(inbox[s]) /\ new \cap ChatsOf(inbox'[s]) = {}
    BY <1>1, <1>5, <2>2, ReadsMove
  <2>4. Distinct(inbox'[c]) /\ Distinct(buffer_'[c])
    BY <1>3, <2>1, <2>2
  <2>5. ChatsOf(buffer_'[c]) \cap ChatsOf(buffer_'[d]) = {} \/ c = d
    BY <1>3, <2>1, <2>2, <2>3
  <2>6. ChatsOf(inbox'[c]) \cap ChatsOf(buffer_'[d]) = {}
    <3>1. new \cap ChatsOf(inbox'[c]) = {}
      BY <2>1, <2>2, <2>3
    <3> QED
      BY <1>3, <2>1, <3>1
  <2>7. ChatsOf(inbox'[c]) \cap ChatsOf(inbox'[d]) = {} \/ c = d
    BY <1>3, <2>1
  <2> QED
    BY <2>4, <2>5, <2>6, <2>7
<1>6. ASSUME NEW e \in Conns, NEW r \in Requests, Sends(e, r)
      PROVE  /\ Distinct(inbox'[c]) /\ Distinct(buffer_'[c])
             /\ c # d => /\ ChatsOf(inbox'[c]) \cap ChatsOf(inbox'[d]) = {}
                         /\ ChatsOf(buffer_'[c]) \cap ChatsOf(buffer_'[d]) = {}
             /\ ChatsOf(inbox'[c]) \cap ChatsOf(buffer_'[d]) = {}
  <2>1. \A b \in {c, d} :
          /\ buffer_'[b] = buffer_[b]
          /\ ChatsOf(inbox'[b]) \subseteq ChatsOf(inbox[b]) \cup (IF b = e THEN ChatsOf(<<r>>) ELSE {})
          /\ Distinct(inbox[b]) => Distinct(inbox'[b])
    BY <1>1, <1>6, SendsMove
  <2>2. ChatsOf(<<r>>) \cap sent = {}
    BY <1>1, <1>6, SendsMove
  <2>3. \A b \in {c, d} : ChatsOf(inbox[b]) \subseteq sent /\ ChatsOf(buffer_[b]) \subseteq sent
    BY <1>1, PendingSent
  <2>4. /\ ChatsOf(buffer_'[c]) = ChatsOf(buffer_[c]) /\ ChatsOf(buffer_'[d]) = ChatsOf(buffer_[d])
        /\ Distinct(inbox'[c]) /\ Distinct(buffer_'[c])
    BY <1>3, <2>1
  <2> QED
    BY <1>3, <2>1, <2>2, <2>3, <2>4
<1> QED
  BY <1>4, <1>5, <1>6, RequestMoves

-----------------------------------------------------------------------------
(* A chat message is handled once: what waits to be handled is not stored  *)
(* yet, but for the message a worker is forwarding.                        *)

Forwards(w, c, m) ==
  this[w] = c /\ pc[w] \in {"lookup", "forward"} /\ m = Request1(w).msg

StoredInv ==
  /\ \A c \in Conns : ChatsOf(inbox[c]) \cap messages = {}
  /\ \A c \in Conns : \A m \in ChatsOf(buffer_[c]) \cap messages :
       \E w \in Workers : Forwards(w, c, m)
  /\ \A t \in Threads : fetched[t] # {} => t \in Workers /\ pc[t] = "push"

(* The request a worker handles is among those of its buffer, and Erase    *)
(* takes it out.                                                           *)
LEMMA HandledChat ==
  ASSUME Inv, PendingInv, NEW w \in Workers, pc[w] \in {"store", "lookup", "forward"}
  PROVE  LET c == this[w]
             m == Request1(w).msg
         IN /\ c \in Conns /\ buffer_[c] # << >> /\ m \in ChatsOf(buffer_[c])
            /\ m \notin ChatsOf(Tail(buffer_[c]))
            /\ ChatsOf(Tail(buffer_[c])) \subseteq ChatsOf(buffer_[c])
            /\ \A d \in Conns : /\ m \notin ChatsOf(inbox[d])
                                /\ d # c => m \notin ChatsOf(buffer_[d])
<1> DEFINE c == this[w]
           q == buffer_[c]
<1>1. c \in Conns /\ q # << >> /\ Request1(w).type = "CHAT" /\ Request1(w) = Head(q)
  BY Alone DEF Inv, HandlerInv, Reading, Request1
<1>2. q \in Seq(Pending) /\ Distinct(q)
  BY <1>1, PendingSent DEF Inv, PendingInv
<1>3. /\ Head(q).msg \in ChatsOf(q) /\ Head(q).msg \notin ChatsOf(Tail(q))
      /\ ChatsOf(Tail(q)) \subseteq ChatsOf(q)
  BY <1>1, <1>2, ChatsOfTail
<1> QED
  BY <1>1, <1>3 DEF PendingInv

(* Nobody forwards, and nothing that waits is stored.                      *)
LEMMA NoneStored ==
  ASSUME StoredInv, \A w \in Workers : pc[w] \notin {"lookup", "forward"}, NEW c \in Conns
  PROVE  ChatsOf(buffer_[c]) \cap messages = {}
BY DEF StoredInv, Forwards

(* Steps that store nothing, outside the handlers of chat messages.        *)
LEMMA StoredKept ==
  ASSUME Inv, IdInv, PendingInv, StoredInv, Next, messages' = messages,
         \A w \in Workers : pc[w] \notin {"lookup", "forward"},
         \A t \in Threads : fetched'[t] # {} => t \in Workers /\ pc'[t] = "push"
  PROVE  StoredInv'
<1>1. TypeInv
  BY DEF Inv
<1>2. \A c \in Conns : /\ ChatsOf(inbox[c]) \cap messages = {}
                       /\ ChatsOf(buffer_[c]) \cap messages = {}
  BY NoneStored DEF StoredInv
<1>3. SUFFICES ASSUME NEW c \in Conns
               PROVE  /\ ChatsOf(inbox'[c]) \cap messages = {}
                      /\ ChatsOf(buffer_'[c]) \cap messages = {}
  BY DEF StoredInv
<1>4. CASE Drops
  BY <1>1, <1>2, <1>4, DropsLeaveFewer
<1>5. ASSUME NEW w \in Workers, NEW s \in Conns, Reads(w, s)
      PROVE  /\ ChatsOf(inbox'[c]) \cap messages = {}
             /\ ChatsOf(buffer_'[c]) \cap messages = {}
  <2>1. /\ ChatsOf(inbox'[c]) \subseteq ChatsOf(inbox[c])
        /\ ChatsOf(buffer_'[c]) \subseteq ChatsOf(buffer_[c]) \cup ChatsOf(inbox[s])
    BY <1>1, <1>5, ReadsMove
  <2> QED
    BY <1>2, <2>1
<1>6. ASSUME NEW e \in Conns, NEW r \in Requests, Sends(e, r)
      PROVE  /\ ChatsOf(inbox'[c]) \cap messages = {}
             /\ ChatsOf(buffer_'[c]) \cap messages = {}
  <2>1. /\ buffer_'[c] = buffer_[c]
        /\ ChatsOf(inbox'[c]) \subseteq
             ChatsOf(inbox[c]) \cup (IF c = e THEN ChatsOf(<<r>>) ELSE {})
        /\ ChatsOf(<<r>>) \cap sent = {}
    BY <1>1, <1>6, SendsMove
  <2>2. messages \subseteq sent
    BY <1>1 DEF TypeInv, MessagesTyped
  <2> QED
    BY <1>2, <2>1, <2>2
<1> QED
  BY <1>4, <1>5, <1>6, RequestMoves

(* Steps beside a handler leave it alone.                                  *)
LEMMA StoredBeside ==
  ASSUME Inv, StoredInv, UNCHANGED <<messages, buffer_, fetched>>,
         \A c \in Conns : ChatsOf(inbox'[c]) \cap messages = {},
         \A w \in Workers : this'[w] = this[w] /\ (pc'[w] = pc[w] \/ pc[w] = "idle")
  PROVE  StoredInv'
<1>1. \A w \in Workers : pc[w] \in {"lookup", "forward"} =>
        pc'[w] = pc[w] /\ this'[w] = this[w] /\ Request1(w)' = Request1(w)
  BY DEF Request1
<1>2. \A w \in Workers, c \in Conns, m \in messages : Forwards(w, c, m) => Forwards(w, c, m)'
  BY <1>1 DEF Forwards
<1>3. \A t \in Threads : fetched'[t] # {} => t \in Workers /\ pc'[t] = "push"
  BY DEF StoredInv
<1> QED
  BY <1>2, <1>3 DEF StoredInv

LEMMA StoredStep ==
  ASSUME Inv, IdInv, PendingInv, StoredInv, Next
  PROVE  StoredInv'
<1>1. TypeInv
  BY DEF Inv
<1>2. ASSUME UNCHANGED <<messages, buffer_, fetched>>, Drops,
             \A w \in Workers : this'[w] = this[w] /\ (pc'[w] = pc[w] \/ pc[w] = "idle")
      PROVE  StoredInv'
  BY <1>1, <1>2, DropsLeaveFewer, StoredBeside DEF StoredInv
<1>3. ASSUME UNCHANGED <<messages, fetched>>,
             \A w \in Workers : pc[w] \notin {"lookup", "forward"},
             \A w \in Workers : pc[w] = "push" => pc'[w] = "push"
      PROVE  StoredInv'
  BY <1>3, StoredKept DEF StoredInv
<1>4. ASSUME NEW w \in Workers, pc[w] \notin {"idle", "lock"}
      PROVE  /\ \A v \in Workers : v # w => pc[v] \notin {"lookup", "forward", "push"}
             /\ \A t \in Threads : t # w => fetched[t] = {}
  BY <1>4, Alone DEF StoredInv
<1>5. CASE QuietStep
  <2>1. UNCHANGED <<messages, buffer_, fetched, inbox, this>>
    BY <1>5, QuietFrame DEF connVars, messageVars
  <2>2. \A w \in Workers : pc'[w] = pc[w] \/ pc[w] = "idle"
    BY <1>5, QuietFrame
  <2>3. Drops
    BY <2>1 DEF Drops
  <2> QED
    BY <2>1, <2>2, <2>3, <1>2
<1>6. CASE Accept \/ \E e \in batch : DispatchError(e)
  <2>1. /\ UNCHANGED <<messages, buffer_, fetched, inbox>>
        /\ \A w \in Workers : pc'[w] = pc[w] /\ this'[w] = this[w]
    BY <1>6, ThreadFacts DEF Accept, DispatchError, Go, kernelVars, messageVars, connVars, Inv, TypeInv,
       ThreadsTyped
  <2>2. Drops
    BY <2>1 DEF Drops
  <2> QED
    BY <2>1, <2>2, <1>2
<1>7. CASE RegisterClient
  <2>1. \A w \in Workers : pc[w] \in {"idle", "lock"}
    BY <1>7, RegistrationFacts DEF Inv
  <2> QED
    BY <1>7, <2>1, <1>3 DEF RegisterClient, ReplaceClient, messageVars
<1>8. ASSUME NEW w \in Workers, LockClient(w)
      PROVE  StoredInv'
  <2>1. \A v \in Workers : pc[v] \in {"idle", "lock"}
    BY <1>8, ThreadFacts DEF LockClient, Inv, ThreadInv
  <2> QED
    BY <1>8, <2>1, <1>3 DEF LockClient, messageVars
<1>9. ASSUME NEW w \in Workers, UnlockClient(w)
      PROVE  StoredInv'
  <2>1. pc[w] \in {"parse", "closed"} /\ UNCHANGED <<messages, fetched>>
    BY <1>9 DEF UnlockClient, messageVars
  <2> QED
    BY <2>1, <1>3, <1>4
<1>10. ASSUME NEW t \in Threads, CloseStep(t)
       PROVE  StoredInv'
  <2>1. /\ UNCHANGED <<messages, buffer_, fetched>> /\ pc[t] \in Closing
        /\ \A s \in Threads : s # t => pc'[s] = pc[s] /\ this'[s] = this[s]
    BY <1>10, CloseFrame, CloseControl DEF ClosesOn, Inv, TypeInv, ThreadsTyped
  <2>2. CASE t \in Workers
    <3>1. \A w \in Workers : pc[w] \notin {"lookup", "forward", "push"}
      BY <2>1, <2>2, <1>4 DEF Closing
    <3> QED
      BY <2>1, <3>1, <1>3
  <2>3. CASE t \notin Workers
    <3>1. \A c \in Conns : inbox'[c] \in {inbox[c], << >>}
      BY <1>10 DEF CloseStep, OfflineMap, OfflineTable, CloseCheck, CloseSys, CloseForget, SysClose,
         kernelVars, Inv, TypeInv, KernelTyped
    <3>2. Drops
      BY <2>1, <3>1 DEF Drops
    <3> QED
      BY <2>1, <2>3, <3>2, <1>2, ThreadFacts
  <2> QED
    BY <2>2, <2>3
<1>11. ASSUME NEW c \in Conns, ClientStep(c)
       PROVE  StoredInv'
  <2>1. UNCHANGED <<messages, buffer_, fetched, pc, this>>
    BY <1>11, ClientFrame DEF threadVars, connVars, messageVars
  <2>2. CASE Drops
    BY <2>1, <2>2, <1>2
  <2>3. ASSUME NEW e \in Conns, NEW r \in Requests, Sends(e, r)
        PROVE  StoredInv'
    <3>1. ASSUME NEW d \in Conns
          PROVE  ChatsOf(inbox'[d]) \cap messages = {}
      <4>1. /\ ChatsOf(inbox'[d]) \subseteq
                 ChatsOf(inbox[d]) \cup (IF d = e THEN ChatsOf(<<r>>) ELSE {})
            /\ ChatsOf(<<r>>) \cap sent = {}
        BY <1>1, <2>3, SendsMove
      <4>2. messages \subseteq sent /\ ChatsOf(inbox[d]) \cap messages = {}
        BY <1>1 DEF TypeInv, MessagesTyped, StoredInv
      <4> QED
        BY <4>1, <4>2
    <3> QED
      BY <2>1, <3>1, StoredBeside
  <2>4. ASSUME NEW w \in Workers, NEW s \in Conns, Reads(w, s)
        PROVE  StoredInv'
    <3>1. pc[w] = "recv"
      BY <2>4 DEF Reads, Recv
    <3> QED
      BY <2>1, <3>1, <1>3, <1>4
  <2> QED
    BY <2>2, <2>3, <2>4, RequestMoves
<1>12. CASE Crash
  BY <1>12, ChatsOfOne DEF Crash, StoredInv, messageVars
<1>13. ASSUME NEW w \in Workers, ReadStep(w)
       PROVE  StoredInv'
  <2> DEFINE c == this[w]
             m == Request1(w).msg
  <2>1. /\ w \in Threads /\ w \in DOMAIN pc /\ c \in Conns /\ this' = this
        /\ \A v \in Workers : v # w => pc[v] \notin {"lookup", "forward", "push"}
        /\ \A t \in Threads : t # w => fetched[t] = {} /\ pc'[t] = pc[t]
    BY <1>13, <1>4, Alone, ReadMoves, ReadFrame DEF Reading, Inv, TypeInv, ThreadsTyped
  <2>2. CASE \/ Recv(w) \/ Parse(w) \/ Login(w) \/ Register(w) \/ OnlineMap(w) \/ OnlineTable(w)
             \/ LoginResp(w)
    <3>1. UNCHANGED <<messages, fetched>> /\ pc[w] \notin {"lookup", "forward", "push"}
      BY <2>2 DEF Recv, Parse, Login, Register, OnlineMap, OnlineTable, LoginResp, UserOnlineMap,
         UserOnlineTable, Go, messageVars
    <3> QED
      BY <2>1, <3>1, <1>3
  <2>3. CASE GetOffline(w) \/ Push(w)
    <3>1. messages' = messages /\ pc[w] \in {"getOffline", "push"}
      BY <2>3 DEF GetOffline, GetOfflineMessage, Push
    <3>2. \A t \in Threads : t # w => fetched'[t] = {}
      BY <2>1, <2>3 DEF GetOffline, GetOfflineMessage, Push, Inv, TypeInv, MessagesTyped
    <3>3. fetched'[w] # {} => pc'[w] = "push"
      <4>1. CASE GetOffline(w)
        BY <2>1, <4>1 DEF GetOffline, GetOfflineMessage, Inv, TypeInv, MessagesTyped, StoredInv
      <4>2. CASE Push(w)
        BY <2>1, <4>2 DEF Push, Inv, TypeInv, MessagesTyped
      <4> QED
        BY <2>3, <4>1, <4>2
    <3> QED
      BY <2>1, <3>1, <3>2, <3>3, StoredKept
  <2>4. CASE Store(w) \/ Lookup(w) \/ Forward(w)
    <3>1. /\ pc[w] \in {"store", "lookup", "forward"} /\ pc'[w] \in {"lookup", "forward", "parse"}
          /\ messages' = messages \/ (pc[w] = "store" /\ messages' = messages \cup {m})
          /\ UNCHANGED fetched
          /\ Erase(w) /\ inbox' = inbox
      BY <2>1, <2>4 DEF Store, StoreMessage, Lookup, LookupReceiver, Forward, Transmit, Go, kernelVars,
         messageVars
    <3>2. /\ buffer_[c] # << >> /\ m \in ChatsOf(buffer_[c]) /\ m \notin ChatsOf(Tail(buffer_[c]))
          /\ ChatsOf(Tail(buffer_[c])) \subseteq ChatsOf(buffer_[c])
          /\ \A d \in Conns : /\ m \notin ChatsOf(inbox[d])
                              /\ d # c => m \notin ChatsOf(buffer_[d])
      BY <3>1, HandledChat
    <3>3. \A d \in Conns : ChatsOf(inbox'[d]) \cap messages' = {}
      BY <3>1, <3>2 DEF StoredInv
    <3>4. \A d \in Conns : \A n \in ChatsOf(buffer_[d]) \cap messages : d = c /\ n = m
      BY <2>1 DEF StoredInv, Forwards
    <3>5. \A d \in Conns : \A n \in ChatsOf(buffer_[d]) \cap messages' : d = c /\ n = m
      BY <3>1, <3>2, <3>4
    <3>6. ASSUME pc'[w] = "parse", NEW d \in Conns
          PROVE  ChatsOf(buffer_'[d]) \cap messages' = {}
      <4>1. buffer_'[d] = IF d = c THEN Tail(buffer_[c]) ELSE buffer_[d]
        BY <2>1, <3>1, <3>6 DEF Erase, Inv, TypeInv, ConnsTyped
      <4>2. CASE d = c
        BY <3>2, <3>5, <4>1, <4>2
      <4>3. CASE d # c
        BY <3>5, <4>1, <4>3
      <4> QED
        BY <4>2, <4>3
    <3>7. ASSUME pc'[w] # "parse", NEW d \in Conns, NEW n \in ChatsOf(buffer_'[d]) \cap messages'
          PROVE  \E v \in Workers : Forwards(v, d, n)'
      <4>1. buffer_' = buffer_ /\ pc'[w] \in {"lookup", "forward"}
        BY <3>1, <3>7 DEF Erase
      <4>2. d = c /\ n = m
        BY <3>5, <3>7, <4>1
      <4> QED
        BY <2>1, <4>1, <4>2 DEF Forwards, Request1
    <3>8. \A t \in Threads : fetched'[t] # {} => t \in Workers /\ pc'[t] = "push"
      BY <2>1, <3>1 DEF StoredInv
    <3> QED
      BY <3>3, <3>6, <3>7, <3>8 DEF StoredInv
  <2> QED
    BY <1>13, <2>2, <2>3, <2>4 DEF ReadStep
<1> QED
  BY <1>5, <1>6, <1>7, <1>8, <1>9, <1>10, <1>11, <1>12, <1>13, ThreadFacts
     DEF Next, ClientStep, ReactorStep, WorkerStep, QuietStep

(* As long as no statement has failed, a stored message is in one place:   *)
(* about to be forwarded, offline, fetched and about to be pushed, or      *)
(* received, by one user and once.                                         *)
OnceInv ==
  db_faults = 0 =>
    /\ \A w \in Workers : pc[w] \in {"lookup", "forward"} =>
         /\ Request1(w).msg \notin offline
         /\ \A u \in Users : Request1(w).msg \notin ReceivedBy(u)
    /\ \A t \in Threads : /\ fetched[t] \cap offline = {}
                          /\ \A u \in Users : fetched[t] \cap ReceivedBy(u) = {}
    /\ \A u \in Users : /\ offline \cap ReceivedBy(u) = {}
                        /\ IsFiniteSet(ReceivedBy(u))
                        /\ Len(got[u]) = Cardinality(ReceivedBy(u))
    /\ \A u, v \in Users : u # v => ReceivedBy(u) \cap ReceivedBy(v) = {}

(* A message that is delivered is nowhere else.                            *)
LEMMA OnceDelivered ==
  ASSUME Inv, GotTyped, StoredInv, OnceInv, Next, got' # got, db_faults = 0
  PROVE  OnceInv'
<1>1. PICK w \in Workers, c \in Conns, m \in messages :
        (Push(w) \/ Forward(w)) /\ Delivers(w, c, m)
  BY Deliveries
<1>2. PICK u \in Users : u = account[c] /\ got' = [got EXCEPT ![u] = @ \o <<m>>]
  BY <1>1 DEF Delivers
<1>3. /\ got[u] \in Seq(messages) /\ got'[u] = got[u] \o <<m>>
      /\ ReceivedBy(u)' = ReceivedBy(u) \cup {m}
      /\ \A v \in Users : v # u => got'[v] = got[v] /\ ReceivedBy(v)' = ReceivedBy(v)
  <2>1. got \in [Users -> Seq(messages)]
    BY DEF GotTyped
  <2>2. ReceivedBy(u)' = ReceivedBy(u) \cup {m}
    BY <1>2, <2>1, DeliveredTo
  <2>3. \A v \in Users : v # u => got'[v] = got[v] /\ ReceivedBy(v)' = ReceivedBy(v)
    BY <1>2, <2>1, DeliveredTo
  <2> QED
    BY <1>2, <2>1, <2>2, <2>3
<1>4. /\ offline' = offline /\ pc[w] \in {"push", "forward"} /\ pc'[w] \in {"push", "parse"}
      /\ \A v \in Workers : v # w => pc'[v] = pc[v] /\ pc[v] \in {"idle", "lock"}
  <2>1. /\ offline' = offline /\ pc[w] \in {"push", "forward"} /\ ReadStep(w)
        /\ pc'[w] \in {"push", "parse"}
    BY <1>1, ThreadFacts DEF Push, Forward, Go, messageVars, ReadStep, Inv, TypeInv, ThreadsTyped
  <2> QED
    BY <2>1, ReadMoves, Alone, ThreadFacts
<1>5. \A t \in Threads : t # w => fetched[t] = {}
  BY <1>4 DEF StoredInv
<1>6. /\ m \notin offline /\ \A v \in Users : m \notin ReceivedBy(v)
      /\ \A t \in Threads : fetched'[t] \subseteq fetched[t] /\ m \notin fetched'[t]
  <2>1. CASE pc[w] = "push"
    <3>1. m \in fetched[w] /\ fetched' = [fetched EXCEPT ![w] = @ \ {m}]
      BY <1>1, <2>1 DEF Delivers
    <3>2. \A t \in Threads : fetched'[t] = IF t = w THEN fetched[w] \ {m} ELSE fetched[t]
      BY <3>1 DEF Inv, TypeInv, MessagesTyped
    <3> QED
      BY <1>5, <3>1, <3>2, ThreadFacts DEF OnceInv
  <2>2. CASE pc[w] = "forward"
    <3>1. m = Request1(w).msg /\ UNCHANGED fetched
      BY <1>1, <2>2 DEF Delivers
    <3>2. fetched[w] = {}
      BY <2>2, ThreadFacts DEF StoredInv
    <3> QED
      BY <1>5, <2>2, <3>1, <3>2 DEF OnceInv
  <2> QED
    BY <1>4, <2>1, <2>2
<1>7. \A v \in Workers : pc'[v] \notin {"lookup", "forward"}
  BY <1>4
<1>8. \A t \in Threads : /\ fetched'[t] \cap offline' = {}
                         /\ \A v \in Users : fetched'[t] \cap ReceivedBy(v)' = {}
  <2>1. \A t \in Threads : fetched[t] \cap offline = {}
    BY DEF OnceInv
  <2>2. ASSUME NEW t \in Threads, NEW v \in Users
        PROVE  fetched'[t] \cap ReceivedBy(v)' = {}
    <3>1. fetched[t] \cap ReceivedBy(v) = {}
      BY DEF OnceInv
    <3>2. ReceivedBy(v)' \subseteq ReceivedBy(v) \cup {m}
      BY <1>3
    <3> QED
      BY <1>6, <3>1, <3>2
  <2> QED
    BY <1>4, <1>6, <2>1, <2>2
<1>9. ASSUME NEW v \in Users
      PROVE  /\ offline' \cap ReceivedBy(v)' = {}
             /\ IsFiniteSet(ReceivedBy(v)')
             /\ Len(got'[v]) = Cardinality(ReceivedBy(v)')
  <2>1. /\ offline \cap ReceivedBy(v) = {} /\ IsFiniteSet(ReceivedBy(v))
        /\ Len(got[v]) = Cardinality(ReceivedBy(v))
    BY DEF OnceInv
  <2>2. CASE v # u
    BY <1>3, <1>4, <2>1, <2>2
  <2>3. CASE v = u
    <3>1. /\ IsFiniteSet(ReceivedBy(u) \cup {m})
          /\ Cardinality(ReceivedBy(u) \cup {m}) = Cardinality(ReceivedBy(u)) + 1
      BY <1>6, <2>1, <2>3, FS_AddElement
    <3>2. Len(got[u] \o <<m>>) = Len(got[u]) + 1
      BY <1>3, ConcatProperties
    <3> QED
      BY <1>3, <1>4, <1>6, <2>1, <2>3, <3>1, <3>2
  <2> QED
    BY <2>2, <2>3
<1>10. \A v, x \in Users : v # x => ReceivedBy(v)' \cap ReceivedBy(x)' = {}
  BY <1>3, <1>6 DEF OnceInv
<1> QED
  BY <1>7, <1>8, <1>9, <1>10 DEF OnceInv

LEMMA OnceStep ==
  ASSUME Inv, GotTyped, PendingInv, StoredInv, BoundsInv, OnceInv, Next
  PROVE  OnceInv'
<1>1. SUFFICES ASSUME db_faults' = 0
               PROVE  OnceInv'
  BY DEF OnceInv
<1>2. db_faults = 0 /\ ~ StatementFails
  BY <1>1, FaultsStep DEF StatementOk, StatementFails, BoundsInv
<1>3. CASE got' # got
  BY <1>2, <1>3, OnceDelivered
<1>4. ASSUME got' = got, offline' \subseteq offline,
             \A t \in Threads : fetched'[t] \subseteq fetched[t],
             \A w \in Workers : pc'[w] \in {"lookup", "forward"} =>
               pc[w] \in {"lookup", "forward"} /\ Request1(w)' = Request1(w)
      PROVE  OnceInv'
  <2>1. \A u \in Users : ReceivedBy(u)' = ReceivedBy(u)
    BY <1>4 DEF ReceivedBy
  <2>2. /\ \A w \in Workers : pc'[w] \in {"lookup", "forward"} =>
             /\ Request1(w)'.msg \notin offline'
             /\ \A u \in Users : Request1(w)'.msg \notin ReceivedBy(u)'
        /\ \A t \in Threads : /\ fetched'[t] \cap offline' = {}
                              /\ \A u \in Users : fetched'[t] \cap ReceivedBy(u)' = {}
    BY <1>2, <1>4, <2>1 DEF OnceInv
  <2>3. /\ \A u \in Users : /\ offline' \cap ReceivedBy(u)' = {}
                            /\ IsFiniteSet(ReceivedBy(u)')
                            /\ Len(got'[u]) = Cardinality(ReceivedBy(u)')
        /\ \A u, v \in Users : u # v => ReceivedBy(u)' \cap ReceivedBy(v)' = {}
    BY <1>2, <1>4, <2>1 DEF OnceInv
  <2> QED
    BY <2>2, <2>3 DEF OnceInv
<1>5. ASSUME got' = got, UNCHANGED <<offline, fetched, buffer_>>,
             \A w \in Workers : \/ pc'[w] \notin {"lookup", "forward"}
                                \/ pc'[w] = pc[w] /\ this'[w] = this[w]
      PROVE  OnceInv'
  BY <1>4, <1>5 DEF Request1
<1>6. CASE got' = got /\ QuietStep
  <2>1. UNCHANGED <<offline, buffer_, fetched, this>>
    BY <1>6, QuietFrame DEF connVars, messageVars
  <2>2. \A w \in Workers : pc'[w] = pc[w] \/ pc'[w] = "lock"
    BY <1>6, QuietFrame
  <2> QED
    BY <1>6, <2>1, <2>2, <1>5
<1>7. CASE got' = got /\ (Accept \/ \E e \in batch : DispatchError(e))
  <2>1. /\ UNCHANGED <<offline, buffer_, fetched>>
        /\ \A w \in Workers : pc'[w] = pc[w] /\ this'[w] = this[w]
    BY <1>7, ThreadFacts DEF Accept, DispatchError, Go, messageVars, connVars, Inv, TypeInv,
       ThreadsTyped
  <2> QED
    BY <1>7, <2>1, <1>5
<1>8. CASE got' = got /\ RegisterClient
  <2>1. \A w \in Workers : pc'[w] \in {"idle", "lock"}
    BY <1>8, RegistrationFacts, ThreadFacts DEF Inv, TypeInv, ThreadsTyped, RegisterClient,
       ReplaceClient, Go
  <2> QED
    BY <1>8, <2>1, <1>4 DEF RegisterClient, ReplaceClient, messageVars
<1>9. ASSUME got' = got, NEW w \in Workers, LockClient(w) \/ UnlockClient(w)
      PROVE  OnceInv'
  <2>1. /\ UNCHANGED <<offline, buffer_, fetched>> /\ pc'[w] \in {"idle", "recv"}
        /\ \A v \in Workers : v # w => pc'[v] = pc[v] /\ this'[v] = this[v]
    BY <1>9, ThreadFacts DEF LockClient, UnlockClient, Go, messageVars, connVars, Inv, TypeInv,
       ThreadsTyped
  <2> QED
    BY <1>9, <2>1, <1>5
<1>10. ASSUME got' = got, NEW t \in Threads, CloseStep(t)
       PROVE  OnceInv'
  <2>1. /\ UNCHANGED <<offline, buffer_, fetched>>
        /\ pc'[t] \in {"offlineTable", "closeCheck", "closeSys", "closeForget", "dispatch", "closed"}
        /\ \A s \in Threads : s # t => pc'[s] = pc[s] /\ this'[s] = this[s]
    BY <1>10, CloseFrame, CloseControl DEF ClosesOn, Inv, TypeInv, ThreadsTyped
  <2> QED
    BY <1>10, <2>1, <1>5, ThreadFacts
<1>11. ASSUME got' = got, NEW c \in Conns, ClientStep(c)
       PROVE  OnceInv'
  BY <1>11, <1>5, ClientFrame DEF threadVars, connVars, messageVars
<1>12. CASE got' = got /\ Crash
  <2>1. /\ \A t \in Threads : fetched'[t] = {}
        /\ \A w \in Workers : pc'[w] = "idle"
        /\ offline' = offline
    BY <1>12, ThreadFacts DEF Crash, messageVars
  <2> QED
    BY <1>12, <2>1, <1>4
<1>13. ASSUME got' = got, NEW w \in Workers, ReadStep(w)
       PROVE  OnceInv'
  <2> DEFINE c == this[w]
             m == Request1(w).msg
  <2>1. /\ w \in Threads /\ w \in DOMAIN pc /\ c \in Conns /\ this' = this
        /\ \A v \in Workers : v # w => pc'[v] \in {"idle", "lock"}
    BY <1>13, Alone, ReadMoves, ReadFrame, ThreadFacts DEF Reading, Inv, TypeInv, ThreadsTyped
  <2>2. CASE \/ Recv(w) \/ Parse(w) \/ Login(w) \/ Register(w) \/ OnlineMap(w) \/ OnlineTable(w)
             \/ LoginResp(w) \/ Push(w) \/ Forward(w)
    <3>1. pc'[w] \notin {"lookup", "forward"} /\ offline' = offline
      BY <2>1, <2>2 DEF Recv, MoreData, AfterRecv, CloseEntry, Parse, Handler, Login, Register, OnlineMap,
         UserOnlineMap, OnlineTable, UserOnlineTable, LoginResp, Push, Forward, Go, messageVars
    <3>2. \A t \in Threads : fetched'[t] \subseteq fetched[t]
      BY <2>1, <2>2 DEF Recv, Parse, Login, Register, OnlineMap, OnlineTable, LoginResp, Push,
         Forward, Inv, TypeInv, MessagesTyped
    <3> QED
      BY <1>13, <2>1, <3>1, <3>2, <1>4
  <2>3. CASE GetOffline(w)
    <3> DEFINE rows == {n \in offline : n.to = user_id_[c]}
    <3>1. /\ pc'[w] \in {"push", "parse"} /\ offline' = offline \ rows
          /\ fetched' = [fetched EXCEPT ![w] = rows]
      BY <1>2, <2>1, <2>3 DEF GetOffline, GetOfflineMessage
    <3>2. \A t \in Threads : fetched'[t] = IF t = w THEN rows ELSE fetched[t]
      BY <3>1 DEF Inv, TypeInv, MessagesTyped
    <3>3. \A u \in Users : ReceivedBy(u)' = ReceivedBy(u)
      BY <1>13 DEF ReceivedBy
    <3>4. \A v \in Workers : pc'[v] \notin {"lookup", "forward"}
      BY <2>1, <3>1
    <3>5. ASSUME NEW t \in Threads
          PROVE  /\ fetched'[t] \cap offline' = {}
                 /\ \A u \in Users : fetched'[t] \cap ReceivedBy(u)' = {}
      <4>1. CASE t = w
        BY <1>2, <3>1, <3>2, <3>3, <4>1 DEF OnceInv
      <4>2. CASE t # w
        BY <1>2, <3>1, <3>2, <3>3, <4>2 DEF OnceInv
      <4> QED
        BY <4>1, <4>2
    <3> QED
      BY <1>2, <1>13, <3>1, <3>3, <3>4, <3>5 DEF OnceInv
  <2>4. CASE Lookup(w)
    <3>1. UNCHANGED <<offline, fetched>> /\ pc[w] = "lookup"
      BY <2>4 DEF Lookup, LookupReceiver, messageVars
    <3>2. pc'[w] # "parse" => Request1(w)' = Request1(w)
      BY <2>1, <2>4 DEF Lookup, Erase, Request1
    <3>3. pc'[w] \in {"forward", "parse"}
      BY <2>1, <2>4 DEF Lookup, LookupReceiver
    <3> QED
      BY <1>13, <2>1, <3>1, <3>2, <3>3, <1>4
  <2>5. CASE Store(w)
    <3>1. /\ pc[w] = "store" /\ UNCHANGED fetched /\ Erase(w)
          /\ \/ pc'[w] = "lookup" /\ offline' = offline
             \/ pc'[w] = "parse" /\ offline' = offline \cup {m}
      BY <1>2, <2>1, <2>5 DEF Store, StoreMessage
    <3>2. m \notin messages
      <4>1. m \in ChatsOf(buffer_[c]) /\ c \in Conns
        BY <3>1, HandledChat
      <4>2. \A v \in Workers : ~ Forwards(v, c, m)
        BY <3>1, Alone DEF Forwards
      <4> QED
        BY <4>1, <4>2 DEF StoredInv
    <3>3. /\ m \notin offline /\ \A t \in Threads : m \notin fetched[t]
          /\ \A u \in Users : m \notin ReceivedBy(u)
      BY <3>2 DEF Inv, TypeInv, MessagesTyped, GotTyped, ReceivedBy
    <3>4. \A u \in Users : ReceivedBy(u)' = ReceivedBy(u)
      BY <1>13 DEF ReceivedBy
    <3>5. pc'[w] = "lookup" => Request1(w)' = Request1(w)
      BY <2>1, <3>1 DEF Erase, Request1
    <3>6. \A v \in Workers : pc'[v] \in {"lookup", "forward"} =>
            /\ Request1(v)'.msg \notin offline'
            /\ \A u \in Users : Request1(v)'.msg \notin ReceivedBy(u)'
      BY <2>1, <3>1, <3>3, <3>4, <3>5
    <3>7. \A t \in Threads : /\ fetched'[t] \cap offline' = {}
                             /\ \A u \in Users : fetched'[t] \cap ReceivedBy(u)' = {}
      BY <1>2, <3>1, <3>3, <3>4 DEF OnceInv
    <3>8. \A u \in Users : /\ offline' \cap ReceivedBy(u)' = {}
                           /\ IsFiniteSet(ReceivedBy(u)')
                           /\ Len(got'[u]) = Cardinality(ReceivedBy(u)')
      BY <1>2, <1>13, <3>1, <3>3, <3>4 DEF OnceInv
    <3> QED
      BY <1>2, <3>4, <3>6, <3>7, <3>8 DEF OnceInv
  <2> QED
    BY <1>13, <2>2, <2>3, <2>4, <2>5 DEF ReadStep
<1> QED
  BY <1>3, <1>6, <1>7, <1>8, <1>9, <1>10, <1>11, <1>12, <1>13, ThreadFacts
     DEF Next, ClientStep, ReactorStep, WorkerStep, QuietStep

LEMMA PlacesInvariance == Spec => [](IdInv /\ PendingInv /\ StoredInv)
<1>1. Init => IdInv /\ PendingInv /\ StoredInv
  <2>1. Init => IdInv /\ PendingInv
    BY ChatsOfOne DEF Init, ProcessInit, WorldInit, IdInv, PendingInv
  <2>2. Init => StoredInv
    BY DEF Init, ProcessInit, WorldInit, StoredInv
  <2> QED
    BY <2>1, <2>2
<1>2. Inv /\ IdInv /\ PendingInv /\ StoredInv /\ [Next]_vars
      => (IdInv /\ PendingInv /\ StoredInv)'
  <2>1. ASSUME Inv, IdInv, PendingInv, StoredInv, Next
        PROVE  (IdInv /\ PendingInv /\ StoredInv)'
    BY <2>1, RequestMoves, PendingStep, StoredStep
  <2>2. ASSUME IdInv, PendingInv, StoredInv, UNCHANGED vars
        PROVE  (IdInv /\ PendingInv /\ StoredInv)'
    <3> USE <2>2 DEF vars, kernelVars, outsideVars, serverVars, threadVars, userVars, messageVars, connVars
    <3>1. IdInv' /\ PendingInv'
      BY DEF IdInv, PendingInv
    <3>2. StoredInv'
      BY DEF StoredInv, Forwards, Request1
    <3> QED
      BY <3>1, <3>2
  <2> QED
    BY <2>1, <2>2
<1> QED
  BY <1>1, <1>2, Invariance, PTL DEF Spec

(* As long as no statement has failed, no chat message arrives twice, at   *)
(* one user or at two, with any number of crashes, resets and impatient    *)
(* clients: every copy has its own place on the way to the server, it is   *)
(* stored once, and its flag is cleared before it is pushed.               *)
THEOREM ChatDeliversOnce == Spec => []AtMostOnce
<1>1. Init => OnceInv
  <2>1. ASSUME Init
        PROVE  OnceInv
    <3>1. \A u \in Users : got[u] = << >> /\ ReceivedBy(u) = {}
      BY <2>1 DEF Init, WorldInit, ReceivedBy
    <3>2. \A w \in Workers : pc[w] = "idle"
      BY <2>1, ThreadFacts DEF Init, ProcessInit
    <3> QED
      BY <2>1, <3>1, <3>2, FS_EmptySet DEF Init, ProcessInit, WorldInit, OnceInv
  <2> QED
    BY <2>1
<1>2. Inv /\ GotTyped /\ BoundsInv /\ PendingInv /\ StoredInv /\ OnceInv /\ [Next]_vars
      => OnceInv'
  <2>1. ASSUME OnceInv, UNCHANGED vars
        PROVE  OnceInv'
    <3> USE <2>1 DEF vars, kernelVars, outsideVars, serverVars, threadVars, userVars, messageVars, connVars
    <3>1. /\ \A u \in Users : ReceivedBy(u)' = ReceivedBy(u)
          /\ \A w \in Workers : Request1(w)' = Request1(w)
          /\ UNCHANGED <<db_faults, pc, fetched, offline, got>>
      BY DEF ReceivedBy, Request1
    <3> QED
      BY <3>1, <2>1, Zenon DEF OnceInv
  <2> QED
    BY <2>1, OnceStep
<1>3. OnceInv => AtMostOnce
  BY DEF OnceInv, AtMostOnce
<1> QED
  BY <1>1, <1>2, <1>3, Invariance, GotInvariance, BoundsInvariance, PlacesInvariance, PTL DEF Spec

-----------------------------------------------------------------------------
(* The server implements Mailbox.                                          *)

SentInv == sent \subseteq [id : 1 .. MaxChats, from : Users, to : Users]

(* The worker inside handleRead is the one that has messages in hand.      *)
LEMMA OutgoingInHand ==
  ASSUME Inv, StoredInv, NEW w \in Workers, pc[w] \notin {"idle", "lock"}
  PROVE  Outgoing = (IF pc[w] \in {"lookup", "forward"} THEN {Request1(w).msg} ELSE {})
                      \cup fetched[w]
<1>1. /\ w \in Threads
      /\ \A v \in Workers : v # w => pc[v] \notin {"lookup", "forward", "push"}
  BY Alone
<1>2. \A t \in Threads : t # w => fetched[t] = {}
  BY <1>1 DEF StoredInv
<1>3. UNION {fetched[t] : t \in Threads} = fetched[w]
  BY <1>1, <1>2
<1>4. {Request1(v).msg : v \in {v \in Workers : pc[v] \in {"lookup", "forward"}}}
        = IF pc[w] \in {"lookup", "forward"} THEN {Request1(w).msg} ELSE {}
  BY <1>1
<1> QED
  BY <1>3, <1>4 DEF Outgoing

LEMMA OutgoingNext ==
  ASSUME NEW w \in Workers, \A v \in Workers : v # w => pc'[v] \notin {"lookup", "forward"},
         \A t \in Threads : t # w => fetched'[t] = {}
  PROVE  Outgoing' = (IF pc'[w] \in {"lookup", "forward"} THEN {Request1(w)'.msg} ELSE {})
                       \cup fetched'[w]
<1>1. UNION {fetched'[t] : t \in Threads} = fetched'[w]
  BY ThreadFacts
<1>2. {Request1(v)'.msg : v \in {v \in Workers : pc'[v] \in {"lookup", "forward"}}}
        = IF pc'[w] \in {"lookup", "forward"} THEN {Request1(w)'.msg} ELSE {}
  OBVIOUS
<1> QED
  BY <1>1, <1>2 DEF Outgoing

(* Steps outside the handlers that send.                                   *)
LEMMA OutgoingStays ==
  ASSUME UNCHANGED fetched,
         \A w \in Workers : \/ /\ pc[w] \notin {"lookup", "forward"}
                               /\ pc'[w] \notin {"lookup", "forward"}
                            \/ UNCHANGED <<pc[w], this[w], buffer_>>
  PROVE  Outgoing' = Outgoing
<1>1. \A w \in Workers : /\ pc'[w] \in {"lookup", "forward"} <=> pc[w] \in {"lookup", "forward"}
                         /\ pc[w] \in {"lookup", "forward"} => Request1(w)' = Request1(w)
  BY DEF Request1
<1> QED
  BY <1>1 DEF Outgoing

LEMMA SentStep ==
  ASSUME Inv, SentInv, Next
  PROVE  SentInv'
<1>1. sent' = sent \/ \E c \in Conns : \E u \in Users : SendChat(c, u)
  <2>1. ASSUME NEW c \in Conns, ClientStep(c)
        PROVE  sent' = sent \/ \E u \in Users : SendChat(c, u)
    BY <2>1 DEF ClientStep, Connect, SendRegister, SendLogin, Hangup
  <2>2. CASE QuietStep \/ Accept \/ RegisterClient \/ \E e \in batch : DispatchError(e)
    BY <2>2, QuietFrame DEF outsideVars, Accept, RegisterClient, ReplaceClient, SysClose,
       DispatchError
  <2>3. ASSUME NEW w \in Workers, ReadStep(w) \/ CloseStep(w) \/ CloseStep(Reactor)
        PROVE  sent' = sent
    BY <2>3, ReadFrame, CloseFrame, ThreadFacts
  <2>4. ASSUME NEW w \in Workers, LockClient(w) \/ UnlockClient(w)
        PROVE  sent' = sent
    BY <2>4 DEF LockClient, UnlockClient, outsideVars
  <2>5. CASE Crash
    BY <2>5 DEF Crash
  <2>6. CloseStep(Reactor) => sent' = sent
    BY CloseFrame, ThreadFacts
  <2> QED
    BY <2>1, <2>2, <2>3, <2>4, <2>5, <2>6 DEF Next, ClientStep, ReactorStep, WorkerStep, QuietStep
<1>2. ASSUME NEW c \in Conns, NEW u \in Users, SendChat(c, u)
      PROVE  \E m \in [id : 1 .. MaxChats, from : Users, to : Users] : sent' = sent \cup {m}
  <2> DEFINE m == [id |-> Cardinality(sent) + 1, from |-> account[c], to |-> u]
  <2>1. Cardinality(sent) \in Nat
    BY FS_CardinalityType DEF Inv, TypeInv, OutsideTyped
  <2>2. account[c] \in Users /\ sent' = sent \cup {m} /\ Cardinality(sent) + 1 <= MaxChats
    BY <1>2 DEF SendChat, Inv, TypeInv, OutsideTyped
  <2>3. m \in [id : 1 .. MaxChats, from : Users, to : Users]
    BY <2>1, <2>2, StateAssumption
  <2> QED
    BY <2>2, <2>3
<1> QED
  BY <1>1, <1>2 DEF SentInv

(* Only a worker inside handleRead changes the map, so that a receiver is  *)
(* still online when its descriptor is looked up.                          *)
LookupInv == \A w \in Workers : pc[w] = "lookup" => isUserOnline(Request1(w).msg.to)

LEMMA LookupStep ==
  ASSUME Inv, NoResetInv, LookupInv, Next
  PROVE  LookupInv'
<1>1. ASSUME UNCHANGED <<online_users_, buffer_>>,
             \A w \in Workers : pc'[w] = "lookup" => pc[w] = "lookup" /\ this'[w] = this[w]
      PROVE  LookupInv'
  BY <1>1 DEF LookupInv, Request1, isUserOnline
<1>2. ASSUME \A w \in Workers : pc'[w] # "lookup"
      PROVE  LookupInv'
  BY <1>2 DEF LookupInv
<1>3. CASE QuietStep
  BY <1>3, <1>1, QuietFrame DEF userVars, connVars
<1>4. CASE Accept
  BY <1>4, <1>1, ThreadFacts DEF Accept, Go, userVars, Inv, TypeInv, ThreadsTyped
<1>5. CASE RegisterClient
  BY <1>5, <1>2, RegistrationFacts, ThreadFacts
     DEF RegisterClient, ReplaceClient, Go, Inv, TypeInv, ThreadsTyped
<1>6. ASSUME NEW w \in Workers, LockClient(w) \/ UnlockClient(w)
      PROVE  LookupInv'
  BY <1>6, <1>1, ThreadFacts
     DEF LockClient, UnlockClient, Go, userVars, connVars, Inv, TypeInv, ThreadsTyped
<1>7. ASSUME NEW w \in Workers, ReadStep(w)
      PROVE  LookupInv'
  <2>1. /\ pc[w] \in Reading /\ w \in DOMAIN pc
        /\ \A v \in Workers : v # w => pc'[v] \in {"idle", "lock"}
    BY <1>7, ReadMoves, Alone, ThreadFacts DEF Reading, Inv, TypeInv, ThreadsTyped
  <2>2. CASE Store(w)
    <3>1. pc'[w] = "lookup" => /\ isUserOnline(Request1(w).msg.to)
                               /\ UNCHANGED <<online_users_, buffer_, this>>
      BY <2>1, <2>2 DEF Store, StoreMessage, Erase
    <3>2. pc'[w] = "lookup" => Request1(w)' = Request1(w)
      BY <3>1 DEF Request1
    <3> QED
      BY <2>1, <3>1, <3>2 DEF LookupInv, isUserOnline
  <2>3. CASE Recv(w) \/ Parse(w) \/ Lookup(w)
    BY <2>1, <2>3, <1>2
       DEF Recv, MoreData, Parse, AfterRecv, CloseEntry, Handler, Lookup, LookupReceiver
  <2>4. CASE \/ Login(w) \/ Register(w) \/ OnlineMap(w) \/ OnlineTable(w) \/ LoginResp(w)
             \/ GetOffline(w) \/ Push(w) \/ Forward(w)
    BY <2>1, <2>4, <1>2
       DEF Login, Register, OnlineMap, UserOnlineMap, OnlineTable, UserOnlineTable, LoginResp,
           GetOffline, GetOfflineMessage, Push, Forward, Go
  <2> QED
    BY <1>7, <2>2, <2>3, <2>4 DEF ReadStep
<1>8. ASSUME NEW w \in Workers, CloseStep(w)
      PROVE  LookupInv'
  <2>1. pc[w] \in Closing /\ pc'[w] # "lookup"
    BY <1>8, CloseMoves
  <2>2. \A v \in Workers : v # w => pc'[v] \in {"idle", "lock"}
    BY <1>8, <2>1, CloseMoves, Alone, ThreadFacts DEF Closing
  <2> QED
    BY <2>1, <2>2, <1>2
<1>9. ASSUME NEW c \in Conns, ClientStep(c)
      PROVE  LookupInv'
  BY <1>9, <1>1, ClientFrame DEF threadVars, userVars, connVars
<1>10. CASE Crash
  BY <1>10, <1>2, ThreadFacts DEF Crash
<1> QED
  BY <1>3, <1>4, <1>5, <1>6, <1>7, <1>8, <1>9, <1>10, OrderlySteps

(* What is true of every state as long as clients are orderly and no       *)
(* statement fails, together.                                              *)
MailInv == /\ Inv /\ GotTyped /\ NoResetInv /\ OwnInv /\ PatientInv /\ BoundsInv /\ RouteInv
           /\ AccountInv /\ IdInv /\ PendingInv /\ StoredInv /\ SentInv /\ LookupInv

LEMMA LeftStays ==
  ASSUME UNCHANGED <<fdTable, peer, account>>
  PROVE  Left' = Left
BY DEF Left, Abandoned, Open

LEMMA MailStutters ==
  ASSUME UNCHANGED <<sent, online_users_, messages, offline, got>>, Outgoing' = Outgoing,
         Left' = Left
  PROVE  UNCHANGED Box!vars
BY DEF Box!vars, OnlineUsers, isUserOnline

(* One connection is abandoned, or is so no more.                          *)
LEMMA MailLeaves ==
  ASSUME UNCHANGED <<sent, online_users_, messages, offline, got, account>>,
         Outgoing' = Outgoing, NEW c,
         Abandoned' \in {Abandoned, Abandoned \cup {c}, Abandoned \ {c}}
  PROVE  [Box!Next]_(Box!vars)
<1> DEFINE u == account[c]
<1>1. OnlineUsers' = OnlineUsers
  BY DEF OnlineUsers, isUserOnline
<1>2. CASE Left' = Left
  BY <1>2, MailStutters
<1>3. CASE u \in Users /\ Left' = Left \cup {u}
  BY <1>1, <1>3 DEF Box!Leave, Box!Next
<1>4. CASE u \in Users /\ Left' = Left \ {u}
  BY <1>1, <1>4 DEF Box!Close, Box!Next
<1>5. CASE Abandoned' = Abandoned
  BY <1>2, <1>5 DEF Left
<1>6. CASE Abandoned' = Abandoned \cup {c}
  BY <1>2, <1>3, <1>6 DEF Left
<1>7. CASE Abandoned' = Abandoned \ {c}
  BY <1>2, <1>4, <1>7 DEF Left
<1> QED
  BY <1>5, <1>6, <1>7

(* The messages in hand, around a step of the worker in handleRead.        *)
LEMMA OutgoingAround ==
  ASSUME Inv, StoredInv, NEW w \in Workers, ReadStep(w)
  PROVE  /\ Outgoing = (IF pc[w] \in {"lookup", "forward"} THEN {Request1(w).msg} ELSE {})
                         \cup fetched[w]
         /\ Outgoing' = (IF pc'[w] \in {"lookup", "forward"} THEN {Request1(w)'.msg} ELSE {})
                          \cup fetched'[w]
         /\ pc[w] # "push" => fetched[w] = {}
<1>1. /\ w \in Threads /\ pc[w] \in Reading
      /\ \A t \in Threads : t # w => pc'[t] = pc[t]
  BY ReadMoves, ThreadFacts
<1>2. \A v \in Workers : v # w => pc[v] \in {"idle", "lock"} /\ pc'[v] \in {"idle", "lock"}
  BY <1>1, Alone, ThreadFacts DEF Reading
<1>3. \A t \in Threads : t # w => fetched[t] = {}
  BY <1>2 DEF StoredInv
<1>4. \A t \in Threads : t # w => fetched'[t] = fetched[t]
  <2>1. UNCHANGED fetched \/ GetOffline(w) \/ Push(w)
    BY DEF ReadStep, Recv, Parse, Login, Register, OnlineMap, OnlineTable, LoginResp, Store, Lookup,
           LookupReceiver, Forward
  <2>2. \A t \in Threads : t # w => [fetched EXCEPT ![w] = {}][t] = fetched[t]
    BY DEF Inv, TypeInv, MessagesTyped
  <2>3. fetched \in [Threads -> SUBSET messages]
    BY DEF Inv, TypeInv, MessagesTyped
  <2> QED
    BY <2>1, <2>3 DEF GetOffline, GetOfflineMessage, Push
<1>5. Outgoing = (IF pc[w] \in {"lookup", "forward"} THEN {Request1(w).msg} ELSE {})
                   \cup fetched[w]
  BY <1>1, OutgoingInHand DEF Reading
<1>6. Outgoing' = (IF pc'[w] \in {"lookup", "forward"} THEN {Request1(w)'.msg} ELSE {})
                    \cup fetched'[w]
  BY <1>2, <1>3, <1>4, OutgoingNext
<1> QED
  BY <1>1, <1>5, <1>6 DEF StoredInv

(* A message that arrives was on its way to the user it arrives at.        *)
LEMMA MailArrives ==
  ASSUME MailInv, Next, Left' = Left, NEW w \in Workers, ReadStep(w), got' # got
  PROVE  \E m \in [id : 1 .. MaxChats, from : Users, to : Users] : Box!Arrive(m)
<1> USE DEF MailInv
<1>1. PICK v \in Workers, c \in Conns, m \in messages : (Push(v) \/ Forward(v)) /\ Delivers(v, c, m)
  BY Deliveries
<1>2. v = w
  <2>1. pc[v] \in {"push", "forward"} /\ pc[w] \in Reading
    BY <1>1, ReadMoves DEF Delivers
  <2> QED
    BY <2>1, Alone DEF Reading
<1>3. m.to = account[c] /\ m.to \in Users
  <2>1. account[c] \in Users
    BY <1>1 DEF Delivers
  <2>2. m.to = account[c]
    BY <1>1, Addressed
  <2> QED
    BY <2>1, <2>2
<1>4. got' = [got EXCEPT ![m.to] = Append(@, m)]
  <2>1. got[m.to] \in Seq(messages) /\ got' = [got EXCEPT ![m.to] = @ \o <<m>>]
    BY <1>1, <1>3 DEF Delivers, GotTyped
  <2>2. got[m.to] \o <<m>> = Append(got[m.to], m)
    BY <2>1
  <2> QED
    BY <2>1, <2>2
<1>5. m \in Outgoing /\ Outgoing' = Outgoing \ {m}
  <2>1. CASE pc[w] = "push"
    <3>1. /\ m \in fetched[w] /\ fetched'[w] = fetched[w] \ {m}
      BY <1>1, <1>2, <2>1, ThreadFacts DEF Delivers, Inv, TypeInv, MessagesTyped
    <3>2. pc'[w] \in {"parse", "push"}
      BY <1>1, <1>2, <2>1, ThreadFacts DEF Push, Forward, Go, Inv, TypeInv, ThreadsTyped
    <3> QED
      BY <2>1, <3>1, <3>2, OutgoingAround
  <2>2. CASE pc[w] = "forward"
    <3>1. /\ m = Request1(w).msg /\ pc'[w] = "parse" /\ fetched' = fetched
      BY <1>1, <1>2, <2>2, ThreadFacts DEF Delivers, Inv, TypeInv, ThreadsTyped
    <3> QED
      BY <2>2, <3>1, OutgoingAround
  <2> QED
    BY <1>1, <1>2, <2>1, <2>2 DEF Delivers
<1>6. UNCHANGED <<sent, online_users_, messages, offline>>
  BY <1>1, ReadFrame DEF Push, Forward, userVars, messageVars
<1>7. m \in [id : 1 .. MaxChats, from : Users, to : Users]
  BY <1>1 DEF SentInv, Inv, TypeInv, MessagesTyped
<1> QED
  BY <1>4, <1>5, <1>6, <1>7 DEF Box!Arrive, OnlineUsers, isUserOnline

(* What is sent and does not arrive is sent on an abandoned connection.    *)
LEMMA MailLost ==
  ASSUME MailInv, NEW w \in Workers, NEW m \in messages, NEW f \in Fds \cup {NoFd},
         Transmit(f, {}, <<m>>), got' = got,
         \/ pc[w] = "push" /\ m \in fetched[w] /\ f = socket_[this[w]]
         \/ pc[w] = "forward" /\ m = Request1(w).msg /\ f = fdReg[w]
  PROVE  m.to \in Left
<1> USE DEF MailInv
<1> DEFINE c == fdTable[f]
<1>1. m.to \in Users /\ m.to # NoUser /\ w \in Threads /\ this[w] \in Conns /\ this[w] # NoConn
  <2>1. m.to \in Users
    BY DEF SentInv, Inv, TypeInv, MessagesTyped
  <2> QED
    BY <2>1, Alone, StateAssumption
<1>2. f \in Fds /\ c \in Conns /\ c # NoConn /\ user_id_[c] = m.to
  <2>1. CASE pc[w] = "push"
    <3>1. f # NoFd /\ m \in fetched[w] /\ f = socket_[this[w]]
      BY <2>1 DEF PatientInv, Entering
    <3>2. c = this[w] /\ f \in Fds
      BY <2>1, <3>1, OwnsDescriptor
    <3> QED
      BY <1>1, <2>1, <3>1, <3>2 DEF AccountInv
  <2>2. CASE pc[w] = "forward"
    <3>1. m = Request1(w).msg /\ f = fdReg[w] /\ f \in Fds /\ online_users_[m.to] = f
      BY <1>1, <2>2 DEF Inv, ThreadInv, RouteInv
    <3>2. f # NoFd
      BY <3>1, StateAssumption DEF NoFd
    <3>3. c # NoConn /\ user_id_[c] = m.to
      BY <1>1, <3>1, <3>2 DEF RouteInv, RoutesToOwner, isUserOnline
    <3> QED
      BY <3>1, <3>3 DEF Inv, TypeInv, KernelTyped
  <2> QED
    BY <2>1, <2>2
<1>3. account[c] = m.to
  BY <1>1, <1>2 DEF AccountInv
<1>4. peer[c] # "open"
  <2> SUFFICES ASSUME peer[c] = "open"
               PROVE  FALSE
    OBVIOUS
  <2>1. f # NoFd
    BY <1>2, StateAssumption DEF NoFd
  <2>2. got' = [got EXCEPT ![m.to] = @ \o <<m>>]
    BY <1>1, <1>2, <1>3, <2>1 DEF Transmit
  <2>3. got'[m.to] = Append(got[m.to], m) /\ got[m.to] \in Seq(messages)
    BY <1>1, <2>2, DeliveredTo DEF GotTyped
  <2>4. Len(Append(got[m.to], m)) = Len(got[m.to]) + 1 /\ Len(got[m.to]) \in Nat
    BY <2>3
  <2> QED
    BY <2>3, <2>4
<1> QED
  BY <1>1, <1>2, <1>3, <1>4 DEF Left, Abandoned, Open

(* Inside handleRead.                                                      *)
LEMMA MailRead ==
  ASSUME MailInv, Next, Abortive = FALSE, MaxDbFaults = 0, NEW w \in Workers, ReadStep(w)
  PROVE  [Box!Next]_(Box!vars)
<1> USE DEF MailInv
<1> DEFINE Mails == [id : 1 .. MaxChats, from : Users, to : Users]
           c == this[w]
           m1 == Request1(w).msg
<1>1. /\ ~ StatementFails /\ sent' = sent /\ this' = this /\ Left' = Left
      /\ c \in Conns /\ w \in Threads /\ pc[w] \in Reading
  BY NothingFails, ReadFrame, ReadKeepsPeers, ReadMoves, LeftStays, Alone DEF Reading
<1>2. CASE got' # got
  BY <1>1, <1>2, MailArrives DEF Box!Next
<1>3. CASE /\ got' = got
           /\ \/ Recv(w) \/ Parse(w) \/ Login(w) \/ Register(w) \/ OnlineTable(w) \/ LoginResp(w)
  <2>1. UNCHANGED <<online_users_, messages, offline, fetched>>
    BY <1>3 DEF Recv, Parse, Login, Register, registerUser, OnlineTable, UserOnlineTable, LoginResp,
                userVars, messageVars
  <2>2. pc[w] \notin {"lookup", "forward"} /\ pc'[w] \notin {"lookup", "forward"}
    <3>1. CASE Recv(w) \/ Parse(w)
      BY <1>1, <3>1 DEF Recv, MoreData, Parse, AfterRecv, CloseEntry, Handler, Inv, TypeInv,
                        ThreadsTyped
    <3>2. CASE Login(w) \/ Register(w) \/ OnlineTable(w) \/ LoginResp(w)
      BY <1>1, <3>2 DEF Login, Register, OnlineTable, UserOnlineTable, LoginResp, Go, Inv, TypeInv,
                        ThreadsTyped
    <3> QED
      BY <1>3, <3>1, <3>2
  <2>3. Outgoing' = Outgoing
    BY <2>1, <2>2, OutgoingAround
  <2> QED
    BY <1>1, <1>3, <2>1, <2>3, MailStutters
<1>4. CASE OnlineMap(w)
  <2> DEFINE u == user_id_[c]
  <2>1. /\ pc[w] = "onlineMap" /\ pc' = [pc EXCEPT ![w] = "onlineTable"]
        /\ online_users_' = [online_users_ EXCEPT ![u] = fd_[c]]
        /\ UNCHANGED <<messages, offline, got, fetched>>
    BY <1>1, <1>4 DEF OnlineMap, UserOnlineMap, messageVars, outsideVars
  <2>2. u \in Users /\ fd_[c] \in Fds
    BY <1>1, <2>1, ThreadFacts DEF Inv, HandlerInv, SocketInv
  <2>3. OnlineUsers' = OnlineUsers \cup {u}
    BY <2>1, <2>2, ThreadFacts DEF OnlineUsers, isUserOnline, Inv, TypeInv, UsersTyped
  <2>4. pc'[w] = "onlineTable"
    BY <1>1, <2>1 DEF Inv, TypeInv, ThreadsTyped
  <2>5. Outgoing' = Outgoing
    BY <2>1, <2>4, OutgoingAround
  <2>6. Box!Login(u)
    BY <1>1, <2>1, <2>3, <2>5 DEF Box!Login
  <2> QED
    BY <2>2, <2>6 DEF Box!Next
<1>5. CASE GetOffline(w)
  <2> DEFINE u == user_id_[c]
             rows == {m \in offline : m.to = u}
  <2>1. /\ pc[w] = "getOffline" /\ pc' = [pc EXCEPT ![w] = IF rows = {} THEN "parse" ELSE "push"]
        /\ fetched' = [fetched EXCEPT ![w] = rows] /\ offline' = offline \ rows
        /\ UNCHANGED <<online_users_, messages, got>>
    BY <1>1, <1>5 DEF GetOffline, GetOfflineMessage, outsideVars
  <2>2. fetched'[w] = rows /\ pc'[w] \in {"parse", "push"}
    BY <1>1, <2>1 DEF Inv, TypeInv, ThreadsTyped, MessagesTyped
  <2>3. Outgoing = {} /\ Outgoing' = rows
    BY <2>1, <2>2, OutgoingAround
  <2>4. CASE u \in Users
    <3>1. Box!Fetch(u)
      BY <1>1, <2>1, <2>3 DEF Box!Fetch, Box!For, OnlineUsers, isUserOnline
    <3> QED
      BY <2>4, <3>1 DEF Box!Next
  <2>5. CASE u \notin Users
    <3>1. rows = {}
      BY <2>5 DEF Inv, TypeInv, MessagesTyped, OutsideTyped, Chats
    <3> QED
      BY <1>1, <2>1, <2>3, <3>1, MailStutters
  <2> QED
    BY <2>4, <2>5
<1>6. CASE Push(w) /\ got' = got
  <2>1. PICK m \in fetched[w] :
          /\ Transmit(socket_[c], {}, <<m>>)
          /\ pc[w] = "push" /\ fetched' = [fetched EXCEPT ![w] = @ \ {m}]
          /\ pc' = [pc EXCEPT ![w] = IF fetched[w] = {m} THEN "parse" ELSE "push"]
    BY <1>6 DEF Push
  <2>2. fetched'[w] = fetched[w] \ {m} /\ pc'[w] \in {"parse", "push"}
    BY <1>1, <2>1 DEF Inv, TypeInv, ThreadsTyped, MessagesTyped
  <2>3. m \in Outgoing /\ Outgoing' = Outgoing \ {m}
    BY <2>1, <2>2, OutgoingAround
  <2>4. m \in Mails /\ m.to \in Left
    <3>1. m \in messages /\ socket_[c] \in Fds \cup {NoFd}
      BY <1>1, <2>1 DEF Inv, TypeInv, MessagesTyped, ConnsTyped
    <3> QED
      BY <1>6, <2>1, <3>1, MailLost DEF SentInv, Inv, TypeInv, MessagesTyped
  <2>5. UNCHANGED <<online_users_, messages, offline>>
    BY <1>6 DEF Push, userVars
  <2>6. Box!Lose(m)
    BY <1>1, <1>6, <2>3, <2>4, <2>5 DEF Box!Lose, OnlineUsers, isUserOnline
  <2> QED
    BY <2>4, <2>6 DEF Box!Next
<1>7. CASE Store(w)
  <2>1. /\ pc[w] = "store" /\ messages' = messages \cup {m1}
        /\ offline' = (IF isUserOnline(m1.to) THEN offline ELSE offline \cup {m1})
        /\ pc' = [pc EXCEPT ![w] = IF isUserOnline(m1.to) THEN "lookup" ELSE "parse"]
        /\ Erase(w) /\ UNCHANGED <<online_users_, got, fetched>>
    BY <1>1, <1>7 DEF Store, StoreMessage, outsideVars
  <2>2. m1 \in sent \ messages
    <3>1. m1 \in ChatsOf(buffer_[c])
      BY <2>1, HandledChat
    <3>2. \A v \in Workers : ~ Forwards(v, c, m1)
      BY <2>1, Alone DEF Forwards
    <3> QED
      BY <1>1, <3>1, <3>2, PendingSent DEF Inv, StoredInv
  <2>3. m1 \in Mails /\ m1.to \in Users
    BY <2>2 DEF SentInv
  <2>4. pc'[w] = IF isUserOnline(m1.to) THEN "lookup" ELSE "parse"
    BY <1>1, <2>1 DEF Inv, TypeInv, ThreadsTyped
  <2>5. isUserOnline(m1.to) => Request1(w)' = Request1(w)
    BY <1>1, <2>1, <2>4 DEF Erase, Request1
  <2>6. Outgoing' = IF isUserOnline(m1.to) THEN Outgoing \cup {m1} ELSE Outgoing
    BY <2>1, <2>4, <2>5, OutgoingAround
  <2>7. Box!Store(m1)
    BY <1>1, <2>1, <2>2, <2>3, <2>6 DEF Box!Store, OnlineUsers, isUserOnline
  <2> QED
    BY <2>3, <2>7 DEF Box!Next
<1>8. CASE Lookup(w) \/ (Forward(w) /\ got' = got)
  <2>1. /\ pc[w] \in {"lookup", "forward"} /\ Erase(w)
        /\ UNCHANGED <<online_users_, messages, offline, got>>
    BY <1>8 DEF Lookup, LookupReceiver, Forward, Go, userVars, messageVars, outsideVars
  <2>2. fetched' = fetched /\ fetched[w] = {}
    BY <1>8, <2>1, OutgoingAround DEF Lookup, LookupReceiver, Forward
  <2>3. IF Lookup(w) THEN pc'[w] = "forward" ELSE pc'[w] = "parse"
    BY <1>1, <1>8 DEF LookupInv, Lookup, LookupReceiver, Forward, Go, Inv, TypeInv, ThreadsTyped
  <2>4. CASE pc'[w] = "forward"
    <3>1. Request1(w)' = Request1(w)
      BY <1>1, <2>1, <2>4 DEF Erase, Request1
    <3>2. Outgoing' = Outgoing
      BY <2>1, <2>2, <2>4, <3>1, OutgoingAround
    <3> QED
      BY <1>1, <2>1, <3>2, MailStutters
  <2>5. CASE pc'[w] = "parse"
    <3>1. m1 \in Outgoing /\ Outgoing' = Outgoing \ {m1}
      BY <2>1, <2>2, <2>5, OutgoingAround
    <3>2. m1 \in Mails /\ m1 \in messages
      BY <1>1, <2>1 DEF SentInv, Inv, TypeInv, MessagesTyped, HandlerInv
    <3>3. pc[w] = "forward" /\ Transmit(fdReg[w], {}, <<m1>>) /\ fdReg[w] \in Fds \cup {NoFd}
      BY <1>1, <1>8, <2>3, <2>5 DEF Forward, Go, Inv, TypeInv, ThreadsTyped
    <3>4. m1.to \in Left
      BY <2>1, <3>2, <3>3, MailLost
    <3>5. Box!Lose(m1)
      BY <1>1, <2>1, <3>1, <3>4 DEF Box!Lose, OnlineUsers, isUserOnline
    <3> QED
      BY <3>2, <3>5 DEF Box!Next
  <2> QED
    BY <2>3, <2>4, <2>5
<1> QED
  BY <1>2, <1>3, <1>4, <1>5, <1>6, <1>7, <1>8 DEF ReadStep

LEMMA MailStep ==
  ASSUME MailInv, Abortive = FALSE, MaxDbFaults = 0, [Next]_vars
  PROVE  [Box!Next]_(Box!vars)
<1> USE DEF MailInv
<1> DEFINE Mails == [id : 1 .. MaxChats, from : Users, to : Users]
<1>1. CASE UNCHANGED vars
  <2>1. UNCHANGED <<sent, online_users_, messages, offline, got, pc, this, buffer_, fetched,
                    fdTable, peer, account>>
    BY <1>1 DEF vars, kernelVars, outsideVars, serverVars, threadVars, userVars, messageVars, connVars
  <2> QED
    BY <2>1, OutgoingStays, LeftStays, MailStutters
<1>2. ASSUME Next, NEW w \in Workers, ReadStep(w)
      PROVE  [Box!Next]_(Box!vars)
  BY <1>2, MailRead
<1>3. CASE QuietStep
  <2>1. /\ UNCHANGED <<sent, got, online_users_, messages, offline, fetched, this, buffer_,
                       fdTable, peer, account>>
        /\ \A w \in Workers : pc'[w] = pc[w] \/ (pc[w] = "idle" /\ pc'[w] = "lock")
    BY <1>3, QuietFrame DEF outsideVars, userVars, messageVars, connVars
  <2> QED
    BY <2>1, OutgoingStays, LeftStays, MailStutters
<1>4. CASE Accept
  <2>1. /\ UNCHANGED <<sent, got, online_users_, messages, offline, fetched, buffer_, peer, account>>
        /\ \A w \in Workers : pc'[w] = pc[w] /\ this'[w] = this[w]
    BY <1>4, ThreadFacts DEF Accept, Go, outsideVars, userVars, messageVars, Inv, TypeInv, ThreadsTyped
  <2>2. PICK c \in Conns : /\ LowestFree \in Fds /\ fdTable[LowestFree] = NoConn
                           /\ fdTable' = [fdTable EXCEPT ![LowestFree] = c]
    BY <1>4, AcceptFacts DEF Accept, Inv
  <2>3. Open' = Open \cup {c}
    BY <2>2, StateAssumption DEF Open, Inv, TypeInv, KernelTyped
  <2>4. Abandoned' = Abandoned \/ Abandoned' = Abandoned \cup {c}
    BY <2>1, <2>3 DEF Abandoned
  <2>5. Outgoing' = Outgoing
    BY <2>1, OutgoingStays
  <2> QED
    BY <2>1, <2>4, <2>5, MailLeaves
<1>5. CASE RegisterClient
  <2>1. /\ UNCHANGED <<sent, got, online_users_, messages, offline, fetched, fdTable, peer, account>>
        /\ \A w \in Workers : pc[w] \in {"idle", "lock"} /\ pc'[w] = pc[w]
    BY <1>5, ReplacedIsClosed
       DEF RegisterClient, ReplaceClient, kernelVars, outsideVars, userVars, messageVars
  <2> QED
    BY <2>1, OutgoingStays, LeftStays, MailStutters
<1>6. ASSUME NEW w \in Workers, LockClient(w) \/ UnlockClient(w)
      PROVE  [Box!Next]_(Box!vars)
  <2>1. UNCHANGED <<sent, got, online_users_, messages, offline, fetched, buffer_, fdTable, peer,
                    account>>
    BY <1>6 DEF LockClient, UnlockClient, kernelVars, outsideVars, userVars, messageVars, connVars
  <2>2. \A v \in Workers : v # w => pc'[v] = pc[v] /\ this'[v] = this[v]
    BY <1>6, ThreadFacts DEF LockClient, UnlockClient, Go, Inv, TypeInv, ThreadsTyped
  <2>3. pc[w] \in {"lock", "parse", "closed"} /\ pc'[w] \in {"idle", "recv"}
    BY <1>6, ThreadFacts DEF LockClient, UnlockClient, Go, Inv, TypeInv, ThreadsTyped
  <2> QED
    BY <2>1, <2>2, <2>3, OutgoingStays, LeftStays, MailStutters
<1>7. ASSUME NEW w \in Workers, CloseStep(w)
      PROVE  [Box!Next]_(Box!vars)
  <2>1. /\ UNCHANGED <<sent, got, messages, offline, fetched, buffer_, this, account>>
        /\ pc[w] \in Closing /\ w \in Threads
        /\ pc'[w] \in {"offlineTable", "closeCheck", "closeSys", "closeForget", "closed"}
        /\ \A v \in Workers : v # w => pc'[v] = pc[v]
    BY <1>7, CloseFrame, CloseMoves, ThreadFacts
  <2>2. Outgoing' = Outgoing
    BY <2>1, OutgoingStays DEF Closing
  <2>3. CASE CloseSys(w)
    <3> DEFINE f == fdReg[w]
               c == fdTable[f]
    <3>1. SysClose(f) /\ f \in Fds /\ online_users_' = online_users_
      BY <2>1, <2>3 DEF CloseSys, Go, userVars, Inv, ThreadInv
    <3>2. CASE c = NoConn
      BY <2>1, <2>2, <3>1, <3>2, LeftStays, MailStutters DEF SysClose, kernelVars, outsideVars
    <3>3. CASE c # NoConn
      <4>1. /\ fdTable' = [fdTable EXCEPT ![f] = NoConn] /\ peer' = [peer EXCEPT ![c] = "gone"]
            /\ c \in Conns
        BY <3>1, <3>3 DEF SysClose, Inv, TypeInv, KernelTyped
      <4>2. \A g \in Fds : g # f => fdTable[g] # c
        BY <3>1, <3>3 DEF Inv, TablesInv
      <4>3. Open' = Open \ {c}
        BY <3>1, <3>3, <4>1, <4>2 DEF Open, Inv, TypeInv, KernelTyped
      <4>4. \A d \in Open : d # c => peer'[d] = peer[d]
        BY <4>1 DEF Open, Inv, TypeInv, KernelTyped, OutsideTyped
      <4>5. Abandoned' = Abandoned \ {c}
        BY <4>3, <4>4 DEF Abandoned
      <4>6. /\ UNCHANGED <<sent, online_users_, messages, offline, got, account>>
            /\ Abandoned' \in {Abandoned, Abandoned \cup {c}, Abandoned \ {c}}
        BY <2>1, <3>1, <4>5
      <4> HIDE DEF c
      <4> QED
        BY <2>2, <4>6, MailLeaves
    <3> QED
      BY <3>2, <3>3
  <2>4. CASE ~ CloseSys(w)
    <3>1. Left' = Left
      BY <1>7, <2>4, LeftStays DEF CloseStep, OfflineMap, OfflineTable, CloseCheck, CloseForget,
         kernelVars, outsideVars
    <3>2. online_users_' = online_users_ \/ OfflineMap(w)
      BY <1>7, <2>4 DEF CloseStep, OfflineTable, UserOfflineTable, CloseCheck, CloseForget, userVars
    <3>3. CASE online_users_' = online_users_
      BY <2>1, <2>2, <3>1, <3>3, MailStutters
    <3>4. CASE OfflineMap(w) /\ online_users_' # online_users_
      <4> DEFINE u == user_id_[this[w]]
      <4>1. online_users_' = [online_users_ EXCEPT ![u] = NoFd] /\ u \in Users
        BY <3>4 DEF OfflineMap, UserOfflineMap, Inv, TypeInv, UsersTyped
      <4>2. OnlineUsers' = OnlineUsers \ {u}
        BY <4>1 DEF OnlineUsers, isUserOnline, Inv, TypeInv, UsersTyped
      <4>3. Box!Logout(u)
        BY <2>1, <2>2, <3>1, <4>2 DEF Box!Logout
      <4> QED
        BY <4>1, <4>3 DEF Box!Next
    <3> QED
      BY <3>2, <3>3, <3>4
  <2> QED
    BY <2>3, <2>4
<1>8. ASSUME NEW c \in Conns, ClientStep(c)
      PROVE  [Box!Next]_(Box!vars)
  <2>1. UNCHANGED <<got, online_users_, messages, offline, fetched, buffer_, pc, this, fdTable>>
    BY <1>8, ClientFrame DEF threadVars, userVars, messageVars, connVars
  <2>2. Outgoing' = Outgoing
    BY <2>1, OutgoingStays
  <2>3. CASE Connect(c) \/ \E how \in {"fin", "rst"} : Hangup(c, how)
    <3>1. /\ UNCHANGED <<sent, account>> /\ Open' = Open
          /\ \E side \in {"open", "fin", "rst"} : peer' = [peer EXCEPT ![c] = side]
      BY <2>1, <2>3 DEF Connect, Hangup, Open
    <3>2. Abandoned' \in {Abandoned, Abandoned \cup {c}, Abandoned \ {c}}
      <4>1. \A d \in Open : d \in Conns
        BY DEF Open, Inv, TypeInv, KernelTyped
      <4>2. \A d \in Open : d # c => peer'[d] = peer[d]
        BY <3>1, <4>1 DEF Inv, TypeInv, OutsideTyped
      <4> QED
        BY <3>1, <4>2 DEF Abandoned
    <3> QED
      BY <2>1, <2>2, <3>1, <3>2, MailLeaves
  <2>4. ASSUME NEW u \in Users, SendRegister(c, u) \/ SendLogin(c, u)
        PROVE  [Box!Next]_(Box!vars)
    <3>1. /\ UNCHANGED <<sent, peer>> /\ Open' = Open /\ c \notin Abandoned
          /\ \A d \in Conns : d # c => account'[d] = account[d]
      BY <2>1, <2>4 DEF SendRegister, SendLogin, Request, Open, Abandoned, Inv, TypeInv, OutsideTyped
    <3>2. Abandoned' = Abandoned /\ Abandoned \subseteq Conns
      BY <3>1 DEF Abandoned, Open, Inv, TypeInv, KernelTyped
    <3>3. Left' = Left
      BY <3>1, <3>2 DEF Left
    <3> QED
      BY <2>1, <2>2, <3>1, <3>3, MailStutters
  <2>5. ASSUME NEW u \in Users, SendChat(c, u)
        PROVE  [Box!Next]_(Box!vars)
    <3> DEFINE m == [id |-> Cardinality(sent) + 1, from |-> account[c], to |-> u]
    <3>1. sent' = sent \cup {m} /\ Left' = Left
      BY <2>1, <2>5, LeftStays DEF SendChat, Request
    <3>2. Cardinality(sent) \in Nat /\ sent \subseteq Mails
      BY FS_CardinalityType DEF Inv, TypeInv, OutsideTyped, SentInv
    <3>3. m \notin sent
      BY <3>2 DEF IdInv
    <3>4. m \in Mails
      BY <2>5, <3>2, StateAssumption DEF SendChat, Inv, TypeInv, OutsideTyped
    <3>5. Box!Send(m)
      BY <2>1, <2>2, <3>1, <3>3 DEF Box!Send, OnlineUsers, isUserOnline
    <3> QED
      BY <3>4, <3>5 DEF Box!Next
  <2> QED
    BY <1>8, <2>3, <2>4, <2>5 DEF ClientStep
<1>9. CASE Crash
  <2>1. UNCHANGED <<sent, got, messages, offline>>
    BY <1>9 DEF Crash, messageVars
  <2>2. OnlineUsers' = {} /\ Left' = {}
    BY <1>9 DEF Crash, OnlineUsers, isUserOnline, Left, Abandoned, Open
  <2>3. Outgoing' = {}
    BY <1>9, ThreadFacts DEF Crash, Outgoing
  <2> QED
    BY <2>1, <2>2, <2>3 DEF Box!Restart, Box!Next
<1> QED
  BY <1>1, <1>2, <1>3, <1>4, <1>5, <1>6, <1>7, <1>8, <1>9, OrderlySteps

(* As long as clients read their answers before they go on, none resets,   *)
(* and no statement fails, the server implements Mailbox, with any number  *)
(* of crashes: a message is stored once, it goes out at once or waits for  *)
(* the next login of its receiver, over crashes too, and it arrives there  *)
(* once, unless it goes out on a session that has ended or the server      *)
(* crashes.                                                                *)
THEOREM ChatImplementsMailbox ==
  ASSUME Abortive = FALSE, Hasty = FALSE, MaxDbFaults = 0
  PROVE  Spec => ImplementsMailbox
<1>1. Init => Box!Init
  <2>1. ASSUME Init
        PROVE  Box!Init
    <3>1. /\ sent = {} /\ messages = {} /\ offline = {} /\ got = [u \in Users |-> << >>]
          /\ online_users_ = [u \in Users |-> NoFd]
          /\ \A t \in Threads : fetched[t] = {}
          /\ \A w \in Workers : pc[w] = "idle"
      BY <2>1, ThreadFacts DEF Init, ProcessInit, WorldInit
    <3>2. OnlineUsers = {} /\ Outgoing = {}
      BY <3>1 DEF OnlineUsers, isUserOnline, Outgoing
    <3>3. Left = {}
      BY <2>1 DEF Init, ProcessInit, Left, Abandoned, Open
    <3> QED
      BY <3>1, <3>2, <3>3 DEF Box!Init
  <2> QED
    BY <2>1
<1>2. Init => SentInv
  BY DEF Init, WorldInit, SentInv
<1>3. Inv /\ SentInv /\ [Next]_vars => SentInv'
  <2>1. SentInv /\ UNCHANGED vars => SentInv'
    BY DEF SentInv, vars, outsideVars
  <2> QED
    BY <2>1, SentStep
<1>4. Init => LookupInv
  BY ThreadFacts DEF Init, ProcessInit, LookupInv
<1>5. Inv /\ NoResetInv /\ LookupInv /\ [Next]_vars => LookupInv'
  <2>1. ASSUME LookupInv, UNCHANGED vars
        PROVE  LookupInv'
    BY <2>1 DEF LookupInv, Request1, isUserOnline, vars, serverVars, threadVars, userVars, connVars
  <2> QED
    BY <2>1, LookupStep
<1>6. MailInv /\ [Next]_vars => [Box!Next]_(Box!vars)
  BY MailStep
<1>7. MailInv <=> /\ Inv /\ GotTyped /\ NoResetInv /\ OwnInv /\ PatientInv /\ BoundsInv /\ RouteInv
                  /\ AccountInv /\ IdInv /\ PendingInv /\ StoredInv /\ SentInv /\ LookupInv
  BY DEF MailInv
<1> QED
  BY <1>1, <1>2, <1>3, <1>4, <1>5, <1>6, <1>7, Invariance, GotInvariance, OwnInvariance,
     PatientInvariance, BoundsInvariance, RouteInvariance, AccountInvariance, PlacesInvariance, PTL
     DEF Spec, ImplementsMailbox, Box!Spec

=============================================================================
