------------------------------ MODULE Mailbox ------------------------------
(***************************************************************************)
(* What EasyChatServer promises to its users about chat messages, while    *)
(* its clients are orderly and its database works.  A message is stored    *)
(* once.  If its receiver is online then, it goes out at once; otherwise   *)
(* it waits, over crashes too, until the receiver fetches what waits.      *)
(* What goes out arrives at its receiver and at nobody else, once.  It is  *)
(* lost only if the receiver has left behind the server's back, or if the  *)
(* server crashes.  ChatServer.tla is shown to implement this              *)
(* specification.                                                          *)
(***************************************************************************)
EXTENDS Sequences

CONSTANTS Users,
          Messages   \* what users may write, each with its receiver, to

VARIABLES
  sent,      \* the messages that were written
  online,    \* the users the server takes to be there
  left,      \* the users with a session that has ended and that the server
             \* has not closed yet
  stored,    \* the messages it has accepted
  waiting,   \* those of them that wait for their receiver to come
  underway,  \* those of them that go out
  got        \* got[u]: what has arrived at user u, in this order

vars == <<sent, online, left, stored, waiting, underway, got>>

Init == /\ sent = {}
        /\ online = {}
        /\ left = {}
        /\ stored = {}
        /\ waiting = {}
        /\ underway = {}
        /\ got = [u \in Users |-> << >>]

Send(m) == /\ m \notin sent
           /\ sent' = sent \cup {m}
           /\ UNCHANGED <<online, left, stored, waiting, underway, got>>

Login(u) == /\ online' = online \cup {u}
            /\ UNCHANGED <<sent, left, stored, waiting, underway, got>>

Logout(u) == /\ online' = online \ {u}
             /\ UNCHANGED <<sent, left, stored, waiting, underway, got>>

(* A session of u ends, and the server closes it some time later.          *)
Leave(u) == /\ left' = left \cup {u}
            /\ UNCHANGED <<sent, online, stored, waiting, underway, got>>

Close(u) == /\ left' = left \ {u}
            /\ UNCHANGED <<sent, online, stored, waiting, underway, got>>

Store(m) == /\ m \in sent \ stored
            /\ stored' = stored \cup {m}
            /\ IF m.to \in online
               THEN underway' = underway \cup {m} /\ UNCHANGED waiting
               ELSE waiting' = waiting \cup {m} /\ UNCHANGED underway
            /\ UNCHANGED <<sent, online, left, got>>

For(u) == {m \in waiting : m.to = u}

Fetch(u) == /\ waiting' = waiting \ For(u)
            /\ underway' = underway \cup For(u)
            /\ UNCHANGED <<sent, online, left, stored, got>>

Arrive(m) == /\ m \in underway
             /\ underway' = underway \ {m}
             /\ got' = [got EXCEPT ![m.to] = Append(@, m)]
             /\ UNCHANGED <<sent, online, left, stored, waiting>>

(* It goes out on a session that has ended.                                *)
Lose(m) == /\ m \in underway /\ m.to \in left
           /\ underway' = underway \ {m}
           /\ UNCHANGED <<sent, online, left, stored, waiting, got>>

(* The server starts anew, with what is stored.                            *)
Restart == /\ online' = {}
           /\ left' = {}
           /\ underway' = {}
           /\ UNCHANGED <<sent, stored, waiting, got>>

Next == \/ \E m \in Messages : Send(m) \/ Store(m) \/ Arrive(m) \/ Lose(m)
        \/ \E u \in Users : Login(u) \/ Logout(u) \/ Leave(u) \/ Close(u) \/ Fetch(u)
        \/ Restart

Spec == Init /\ [][Next]_vars

=============================================================================
