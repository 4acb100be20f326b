--------------------------- MODULE MessageHandler ---------------------------
(***************************************************************************)
(* easychat::MessageHandler (src/business/message_handler.cpp): a chat     *)
(* message is stored, flagged offline if its receiver is not in the map,   *)
(* and forwarded otherwise to the descriptor the map has for the receiver  *)
(* by then; the flagged ones are fetched, and the flag cleared, at login,  *)
(* before they are pushed.                                                 *)
(***************************************************************************)
EXTENDS UserManager

(* Mutants of StoreMessage: the flag is set although the insert failed;    *)
(* the message is forwarded although the insert failed.                    *)
StoreMessageFlagged(t, m, next, done) ==
  /\ pc[t] = "store"
  /\ StatementOk \/ StatementFails
  /\ messages' = IF db_faults' = db_faults THEN messages \cup {m} ELSE messages
  /\ offline' = IF isUserOnline(m.to) THEN offline ELSE offline \cup {m}
  /\ pc' = [pc EXCEPT ![t] = IF isUserOnline(m.to) THEN next ELSE done]
  /\ UNCHANGED <<users, online_users_, online_table>>

StoreMessageUnchecked(t, m, next, done) ==
  /\ pc[t] = "store"
  /\ \/ StatementOk /\ messages' = messages \cup {m}
     \/ StatementFails /\ UNCHANGED messages
  /\ offline' = IF isUserOnline(m.to) THEN offline
                                      ELSE offline \cup ({m} \cap messages')
  /\ pc' = [pc EXCEPT ![t] = IF isUserOnline(m.to) THEN next ELSE done]
  /\ UNCHANGED <<users, online_users_, online_table>>

(* sendMessage: the check of the map and the insert.  Nobody is told when  *)
(* the insert fails.                                                       *)
StoreMessage(t, m, next, done) ==
  /\ pc[t] = "store"
  /\ \/ /\ StatementOk
        /\ messages' = messages \cup {m}
        /\ offline' = IF isUserOnline(m.to) THEN offline ELSE offline \cup {m}
        /\ pc' = [pc EXCEPT ![t] = IF isUserOnline(m.to) THEN next ELSE done]
     \/ /\ StatementFails
        /\ pc' = [pc EXCEPT ![t] = done]
        /\ UNCHANGED <<messages, offline>>
  /\ UNCHANGED <<users, online_users_, online_table>>

(* forwardMessage: the descriptor is looked up in a step of its own, and   *)
(* used after the mutex of the map was released.                           *)
LookupReceiver(t, m, next, done) ==
  /\ pc[t] = "lookup"
  /\ fdReg' = [fdReg EXCEPT ![t] = getSocketFdByUserId(m.to)]
  /\ pc' = [pc EXCEPT ![t] = IF isUserOnline(m.to) THEN next ELSE done]
  /\ UNCHANGED <<this, fetched>>

(* Mutants of GetOfflineMessage: the flags stay; the select forgets its    *)
(* condition on the receiver.                                              *)
GetOfflineKeepFlags(t, u, next, done) ==
  LET rows == {m \in offline : m.to = u}
  IN /\ pc[t] = "getOffline"
     /\ StatementOk
     /\ fetched' = [fetched EXCEPT ![t] = rows]
     /\ pc' = [pc EXCEPT ![t] = IF rows = {} THEN done ELSE next]
     /\ UNCHANGED <<offline, messages, users, online_users_, online_table>>

GetOfflineOfAnyone(t, u, next, done) ==
  /\ pc[t] = "getOffline"
  /\ StatementOk
  /\ fetched' = [fetched EXCEPT ![t] = offline]
  /\ offline' = {}
  /\ pc' = [pc EXCEPT ![t] = IF offline = {} THEN done ELSE next]
  /\ UNCHANGED <<messages, users, online_users_, online_table>>

(* getOfflineMessage: select, then clear the flags of what was selected.   *)
(* It fails with the select; a failed update goes unnoticed.               *)
GetOfflineMessage(t, u, next, done) ==
  LET rows == {m \in offline : m.to = u}
      selected == /\ fetched' = [fetched EXCEPT ![t] = rows]
                  /\ pc' = [pc EXCEPT ![t] = IF rows = {} THEN done ELSE next]
  IN /\ pc[t] = "getOffline"
     /\ \/ StatementOk /\ selected /\ offline' = offline \ rows
        \/ StatementFails /\ selected /\ UNCHANGED offline
        \/ /\ StatementFails
           /\ pc' = [pc EXCEPT ![t] = done]
           /\ UNCHANGED <<fetched, offline>>
     /\ UNCHANGED <<messages, users, online_users_, online_table>>

=============================================================================
