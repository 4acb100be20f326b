---------------------------- MODULE UserManager ----------------------------
(***************************************************************************)
(* easychat::UserManager (src/business/user_manager.cpp): who is online,   *)
(* kept twice: in the map online_users_ from users to descriptors, which   *)
(* routes messages, and in the table online_users, which GET_USERS lists.  *)
(* The column users.status is written beside them and never read.          *)
(*                                                                         *)
(* Every statement may fail; the server has no transaction around them.    *)
(***************************************************************************)
EXTENDS Network

StatementOk == UNCHANGED db_faults

StatementFails == db_faults < MaxDbFaults /\ db_faults' = db_faults + 1

isUserOnline(u) == online_users_[u] # NoFd

getSocketFdByUserId(u) == online_users_[u]

(* loginUser: the password is right iff the account exists (the statement  *)
(* that sets users.status afterwards may fail unnoticed).                  *)
loginUser(u) == u \in users /\ StatementOk

loginFails(u) == (u \notin users /\ StatementOk) \/ StatementFails

(* registerUser: a taken name is refused before the insert.                *)
registerUser(u) ==
  \/ (StatementOk /\ users' = users \cup {u})
  \/ (StatementFails /\ UNCHANGED users)

(* userOnline: without the status update nothing else is done; then the    *)
(* map, then the row, and a row that exists is kept (insert ignore).       *)
UserOnlineMap(t, u, fd, next, fail) ==
  /\ pc[t] = "onlineMap"
  /\ \/ /\ StatementOk
        /\ online_users_' = [online_users_ EXCEPT ![u] = fd]
        /\ pc' = [pc EXCEPT ![t] = next]
     \/ /\ StatementFails
        /\ pc' = [pc EXCEPT ![t] = fail]
        /\ UNCHANGED online_users_
  /\ UNCHANGED <<users, online_table>>

UserOnlineTable(t, u, next) ==
  /\ Go(t, "onlineTable", next)
  /\ \/ StatementOk /\ online_table' = online_table \cup {u}
     \/ StatementFails /\ UNCHANGED online_table
  /\ UNCHANGED <<users, online_users_>>

(* userOffline: the same, in the same order, and the map entry survives a  *)
(* failed status update.                                                   *)
UserOfflineMap(t, u, next, fail) ==
  /\ pc[t] = "offlineMap"
  /\ \/ /\ StatementOk
        /\ online_users_' = [online_users_ EXCEPT ![u] = NoFd]
        /\ pc' = [pc EXCEPT ![t] = next]
     \/ /\ StatementFails
        /\ pc' = [pc EXCEPT ![t] = fail]
        /\ UNCHANGED online_users_
  /\ UNCHANGED <<users, online_table>>

(* Mutant of UserOfflineTable: the row is left.                            *)
UserOfflineKeepRow(t, u, next) == /\ Go(t, "offlineTable", next)
                                  /\ StatementOk
                                  /\ UNCHANGED <<users, online_users_, online_table>>

UserOfflineTable(t, u, next) ==
  /\ Go(t, "offlineTable", next)
  /\ \/ StatementOk /\ online_table' = online_table \ {u}
     \/ StatementFails /\ UNCHANGED online_table
  /\ UNCHANGED <<users, online_users_>>

=============================================================================
