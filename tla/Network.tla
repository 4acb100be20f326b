------------------------------ MODULE Network ------------------------------
(***************************************************************************)
(* What the server runs on and talks to, as its code uses it: the          *)
(* descriptor table and the sockets of the kernel, edge-triggered epoll    *)
(* readiness, and the clients at the other end.                            *)
(***************************************************************************)
EXTENDS ServerState

Open == {fdTable[f] : f \in Fds} \ {NoConn}

FreeFds == {f \in Fds : fdTable[f] = NoConn}

LowestFree == CHOOSE f \in FreeFds : \A g \in FreeFds : f <= g

-----------------------------------------------------------------------------
(* System calls.                                                           *)

(* send(2) of a response or a message on descriptor f.  A closed           *)
(* descriptor or a dead peer loses it; a client that has closed its socket *)
(* answers with a reset.                                                   *)
Transmit(f, cs, ms) ==
  LET c == IF f = NoFd THEN NoConn ELSE fdTable[f]
      alive == c # NoConn /\ peer[c] = "open"
      reset == c # NoConn /\ peer[c] = "fin" /\ Abortive
  IN /\ welcomed' = IF alive THEN welcomed \cup (cs \cap {c}) ELSE welcomed
     /\ got' = IF alive /\ account[c] # NoUser
               THEN [got EXCEPT ![account[c]] = @ \o ms] ELSE got
     /\ peer' = IF reset THEN [peer EXCEPT ![c] = "rst"] ELSE peer
     /\ edges' = IF reset THEN edges \cup {c} ELSE edges
     /\ UNCHANGED <<fdTable, backlog, listenEdge, inbox, account, sent, crashes>>

(* close(2): the connection leaves the epoll set, and its client finds it  *)
(* closed.  Closing a free descriptor fails with EBADF.                    *)
SysClose(f) ==
  LET c == fdTable[f]
  IN IF c = NoConn THEN UNCHANGED <<kernelVars, outsideVars>>
     ELSE /\ fdTable' = [fdTable EXCEPT ![f] = NoConn]
          /\ edges' = edges \ {c}
          /\ inbox' = [inbox EXCEPT ![c] = << >>]
          /\ peer' = [peer EXCEPT ![c] = "gone"]
          /\ UNCHANGED <<backlog, listenEdge, account, welcomed, got, sent, crashes>>

-----------------------------------------------------------------------------
(* The clients.                                                            *)

Connect(c) == /\ peer[c] = "unused"
              /\ peer' = [peer EXCEPT ![c] = "open"]
              /\ backlog' = Append(backlog, c)
              /\ listenEdge' = TRUE
              /\ UNCHANGED <<fdTable, edges, inbox, account, welcomed, got, sent, crashes,
                             serverVars>>

(* A request reaches the kernel; an accepted connection gets an edge.      *)
Request(c, r) == /\ peer[c] = "open"
                 /\ inbox' = [inbox EXCEPT ![c] = Append(@, r)]
                 /\ edges' = IF c \in Open THEN edges \cup {c} ELSE edges
                 /\ UNCHANGED <<fdTable, backlog, listenEdge, peer, welcomed, got, crashes,
                                serverVars>>

SendLogin(c, u) ==
  /\ account[c] = NoUser
  /\ SharedLogin \/ \A d \in Conns : account[d] = u => peer[d] \notin {"open"}
  /\ account' = [account EXCEPT ![c] = u]
  /\ Request(c, [type |-> "LOGIN", user |-> u])
  /\ UNCHANGED sent

(* A client without an account asks for one before it logs in (bound: one  *)
(* such request is under way at a time).                                   *)
SendRegister(c, u) ==
  /\ account[c] = NoUser
  /\ u \notin users
  /\ \A d \in Conns : LET pending == inbox[d] \o buffer_[d]
                       IN \A i \in DOMAIN pending : pending[i].type # "REGISTER"
  /\ Request(c, [type |-> "REGISTER", user |-> u])
  /\ UNCHANGED <<account, sent>>

(* A hasty client does not wait for the response to its login.             *)
SendChat(c, u) ==
  LET m == [id |-> Cardinality(sent) + 1, from |-> account[c], to |-> u]
  IN /\ account[c] # NoUser
     /\ Hasty \/ c \in welcomed
     /\ u # account[c]
     /\ m.id <= MaxChats
     /\ sent' = sent \cup {m}
     /\ Request(c, [type |-> "CHAT", msg |-> m])
     /\ UNCHANGED account

(* No login of this connection is on its way to the server or waits there. *)
LoginSeenTo(c) ==
  \/ user_id_[c] # NoUser
  \/ \A s \in {inbox[c], buffer_[c]} : \A i \in DOMAIN s : s[i].type # "LOGIN"

(* The client closes its socket, in order or abruptly.  Only a hasty one   *)
(* does so before it knows what has become of its login.                   *)
Hangup(c, how) ==
  /\ peer[c] = "open" \/ (how = "rst" /\ peer[c] = "fin")
  /\ how = "rst" => Abortive
  /\ Hasty \/ LoginSeenTo(c)
  /\ peer' = [peer EXCEPT ![c] = how]
  /\ edges' = IF c \in Open THEN edges \cup {c} ELSE edges
  /\ UNCHANGED <<fdTable, backlog, listenEdge, inbox, account, welcomed, got, sent,
                 crashes, serverVars>>

=============================================================================
