-------------------------- MODULE ClientConnection --------------------------
(***************************************************************************)
(* easychat::ClientConnection (src/network/reactor.cpp, reactor.h), with   *)
(* the Socket it owns (src/network/socket.cpp).  A worker runs handleRead  *)
(* under client_mutex_; the reactor thread runs handleError, which is      *)
(* handleClose, without it.                                                *)
(***************************************************************************)
EXTENDS MessageHandler

(* The program points of the two threads inside a ClientConnection.        *)
Reading == {"recv", "parse", "login", "register", "onlineMap", "onlineTable",
            "loginResp", "getOffline", "push", "store", "lookup", "forward"}
Closing == {"offlineMap", "offlineTable", "closeCheck", "closeSys", "closeForget"}

isAuthenticated(c) == user_id_[c] # NoUser

(* Mutant of CloseEntry: handleClose does not log the user out.            *)
CloseSilently(c) == "closeCheck"

(* Where handleClose starts: user_id_ is read first.                       *)
CloseEntry(c) == IF isAuthenticated(c) THEN "offlineMap" ELSE "closeCheck"

-----------------------------------------------------------------------------
(* handleRead                                                              *)

(* Mutant of MoreData: a single recv, although epoll is edge-triggered.    *)
RecvOnce == "parse"

(* The loop goes on as long as recv returns data.                          *)
MoreData == "recv"

(* Mutant of AfterRecv: end of file is taken for EAGAIN.                   *)
KeepParsing(c, source) == "parse"

AfterRecv(c, source) == IF peer[source] = "open" THEN "parse" ELSE CloseEntry(c)

(* One call of Socket::recv in the loop of handleRead.  It returns some of *)
(* what has arrived, and the loop goes on; or EAGAIN, and what was read is *)
(* parsed; or end of file or an error, and the connection is closed before *)
(* anything that was read is looked at.  On a Socket that is closed        *)
(* already recv fails without a system call, and errno is what an earlier  *)
(* call of this thread left there.                                         *)
Recv(w) ==
  LET c == this[w]
      source == IF socket_[c] = NoFd THEN NoConn ELSE fdTable[socket_[c]]
  IN /\ pc[w] = "recv"
     /\ \/ /\ socket_[c] = NoFd
           /\ \E next \in {"parse", CloseEntry(c)} : pc' = [pc EXCEPT ![w] = next]
           /\ UNCHANGED <<inbox, buffer_>>
        \/ /\ socket_[c] # NoFd /\ source = NoConn     \* EBADF
           /\ pc' = [pc EXCEPT ![w] = CloseEntry(c)]
           /\ UNCHANGED <<inbox, buffer_>>
        \/ /\ source # NoConn /\ inbox[source] # << >>
           /\ buffer_' = [buffer_ EXCEPT ![c] = Append(@, Head(inbox[source]))]
           /\ inbox' = [inbox EXCEPT ![source] = Tail(@)]
           /\ pc' = [pc EXCEPT ![w] = MoreData]
        \/ /\ source # NoConn /\ inbox[source] = << >>
           /\ pc' = [pc EXCEPT ![w] = AfterRecv(c, source)]
           /\ UNCHANGED <<inbox, buffer_>>
     /\ UNCHANGED <<this, fdReg, fetched, fdTable, backlog, listenEdge, edges,
                    outsideVars, userVars, messageVars, fd_, socket_, user_id_,
                    reactorVars>>

Request1(w) == Head(buffer_[this[w]])

(* The first request of the buffer goes to its handler; the others, which  *)
(* are not for the state the connection is in, are dropped.                *)
Handler(c, type) == CASE type = "LOGIN" /\ ~isAuthenticated(c)    -> "login"
                      [] type = "REGISTER" /\ ~isAuthenticated(c) -> "register"
                      [] type = "CHAT" /\ isAuthenticated(c)      -> "store"
                      [] OTHER                                    -> "parse"

Parse(w) ==
  LET c == this[w]
      handler == Handler(c, Request1(w).type)
  IN /\ pc[w] = "parse"
     /\ buffer_[c] # << >>
     /\ pc' = [pc EXCEPT ![w] = handler]
     /\ buffer_' = IF handler = "parse" THEN [buffer_ EXCEPT ![c] = Tail(@)]
                                        ELSE buffer_
     /\ UNCHANGED <<this, fdReg, fetched, kernelVars, outsideVars, userVars,
                    messageVars, fd_, socket_, user_id_, reactorVars>>

(* A handler that is done erases its request from the buffer, at `parse'.  *)
Erase(w) == buffer_' = IF pc'[w] = "parse"
                       THEN [buffer_ EXCEPT ![this[w]] = Tail(@)]
                       ELSE buffer_

Login(w) ==
  LET c == this[w]
      u == Request1(w).user
  IN /\ pc[w] = "login"
     /\ \/ /\ loginUser(u)
           /\ user_id_' = [user_id_ EXCEPT ![c] = u]
           /\ pc' = [pc EXCEPT ![w] = "onlineMap"]
        \/ /\ loginFails(u)
           /\ pc' = [pc EXCEPT ![w] = "parse"]
           /\ UNCHANGED user_id_
     /\ Erase(w)
     /\ UNCHANGED <<this, fdReg, fetched, kernelVars, outsideVars, users,
                    online_users_, online_table, messageVars, fd_, socket_,
                    reactorVars>>

Register(w) == /\ Go(w, "register", "parse")
               /\ registerUser(Request1(w).user)
               /\ Erase(w)
               /\ UNCHANGED <<this, fdReg, fetched, kernelVars, outsideVars,
                              online_users_, online_table, messageVars, fd_,
                              socket_, user_id_, reactorVars>>

OnlineMap(w) ==
  /\ UserOnlineMap(w, user_id_[this[w]], fd_[this[w]], "onlineTable", "loginResp")
  /\ UNCHANGED <<this, fdReg, fetched, kernelVars, outsideVars, messageVars,
                 connVars, reactorVars>>

OnlineTable(w) ==
  /\ UserOnlineTable(w, user_id_[this[w]], "loginResp")
  /\ UNCHANGED <<this, fdReg, fetched, kernelVars, outsideVars, messageVars,
                 connVars, reactorVars>>

(* A response goes to the descriptor of the object's own Socket.           *)
LoginResp(w) ==
  /\ Go(w, "loginResp", "getOffline")
  /\ Transmit(socket_[this[w]], Conns, << >>)
  /\ UNCHANGED <<this, fdReg, fetched, userVars, messageVars, connVars,
                 reactorVars>>

GetOffline(w) ==
  /\ GetOfflineMessage(w, user_id_[this[w]], "push", "parse")
  /\ Erase(w)
  /\ UNCHANGED <<this, fdReg, kernelVars, outsideVars, fd_, socket_, user_id_,
                 reactorVars>>

(* The rows come ordered by a time stamp in seconds: within a second in    *)
(* any order.                                                              *)
Push(w) ==
  /\ pc[w] = "push"
  /\ \E m \in fetched[w] :
       /\ Transmit(socket_[this[w]], {}, <<m>>)
       /\ fetched' = [fetched EXCEPT ![w] = @ \ {m}]
       /\ pc' = [pc EXCEPT ![w] = IF fetched[w] = {m} THEN "parse" ELSE "push"]
  /\ Erase(w)
  /\ UNCHANGED <<this, fdReg, userVars, messages, offline, fd_, socket_, user_id_,
                 reactorVars>>

Store(w) ==
  /\ StoreMessage(w, Request1(w).msg, "lookup", "parse")
  /\ Erase(w)
  /\ UNCHANGED <<this, fdReg, fetched, kernelVars, outsideVars, fd_, socket_,
                 user_id_, reactorVars>>

Lookup(w) ==
  /\ LookupReceiver(w, Request1(w).msg, "forward", "parse")
  /\ Erase(w)
  /\ UNCHANGED <<kernelVars, outsideVars, userVars, messageVars, fd_, socket_,
                 user_id_, reactorVars>>

(* A message that cannot be sent stays stored as one that was not offline. *)
Forward(w) ==
  /\ Go(w, "forward", "parse")
  /\ Transmit(fdReg[w], {}, <<Request1(w).msg>>)
  /\ Erase(w)
  /\ UNCHANGED <<this, fdReg, fetched, userVars, messageVars, fd_, socket_,
                 user_id_, reactorVars>>

-----------------------------------------------------------------------------
(* handleClose, by a worker inside handleRead or by the reactor thread.    *)

OfflineMap(t) ==
  /\ UserOfflineMap(t, user_id_[this[t]], "offlineTable", "closeCheck")
  /\ UNCHANGED <<this, fdReg, fetched, kernelVars, outsideVars, messageVars,
                 connVars, reactorVars>>

OfflineTable(t) ==
  /\ UserOfflineTable(t, user_id_[this[t]], "closeCheck")
  /\ UNCHANGED <<this, fdReg, fetched, kernelVars, outsideVars, messageVars,
                 connVars, reactorVars>>

(* handleClose returns, in a worker to handleRead, in the reactor thread   *)
(* to the event loop.                                                      *)
CloseReturns(t) ==
  /\ pc' = [pc EXCEPT ![t] = IF t = Reactor THEN "dispatch" ELSE "closed"]
  /\ this' = IF t = Reactor THEN [this EXCEPT ![t] = NoConn] ELSE this
  /\ fdReg' = [fdReg EXCEPT ![t] = NoFd]

(* Socket::close looks at its descriptor, closes it and forgets it.  Two   *)
(* threads may both have looked before one of them forgets it, and the     *)
(* reactor thread may accept another connection under the number between   *)
(* a worker's closing and forgetting it.                                   *)
CloseCheck(t) ==
  LET fd == socket_[this[t]]
  IN /\ pc[t] = "closeCheck"
     /\ IF fd = NoFd
        THEN CloseReturns(t)
        ELSE /\ pc' = [pc EXCEPT ![t] = "closeSys"]
             /\ fdReg' = [fdReg EXCEPT ![t] = fd]
             /\ UNCHANGED this
     /\ UNCHANGED <<fetched, kernelVars, outsideVars, userVars, messageVars,
                    connVars, reactorVars>>

CloseSys(t) ==
  /\ Go(t, "closeSys", "closeForget")
  /\ SysClose(fdReg[t])
  /\ UNCHANGED <<this, fdReg, fetched, userVars, messageVars, connVars, reactorVars>>

(* Mutant of CloseForget: the closed descriptor is remembered.             *)
CloseKeepFd(t) ==
  /\ pc[t] = "closeForget"
  /\ CloseReturns(t)
  /\ UNCHANGED <<fetched, kernelVars, outsideVars, userVars, messageVars, connVars,
                 reactorVars>>

CloseForget(t) ==
  /\ pc[t] = "closeForget"
  /\ socket_' = [socket_ EXCEPT ![this[t]] = NoFd]
  /\ CloseReturns(t)
  /\ UNCHANGED <<fetched, kernelVars, outsideVars, userVars, messageVars, fd_, user_id_,
                 buffer_, reactorVars>>

ReadStep(w) == \/ Recv(w) \/ Parse(w) \/ Login(w) \/ Register(w)
               \/ OnlineMap(w) \/ OnlineTable(w) \/ LoginResp(w)
               \/ GetOffline(w) \/ Push(w) \/ Store(w) \/ Lookup(w) \/ Forward(w)

CloseStep(t) == \/ OfflineMap(t) \/ OfflineTable(t)
                \/ CloseCheck(t) \/ CloseSys(t) \/ CloseForget(t)

=============================================================================
