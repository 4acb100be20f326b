---------------------------- MODULE PythonClient ----------------------------
(***************************************************************************)
(* The Python client (python/client.py) on one connection: its main        *)
(* thread, which runs the commands that are typed, and its receive thread, *)
(* which share what the client knows.  The server is what handleRead       *)
(* (src/network/reactor.cpp) does with the requests of this connection.    *)
(*                                                                         *)
(* Requests and answers are not matched: a command that needs the id of a  *)
(* user asks for it and polls the cache until the receive thread has put   *)
(* an answer there, or three seconds are over.                             *)
(***************************************************************************)
EXTENDS Integers, Sequences

CONSTANTS Users,        \* the ids of users
          NoUser,       \* -1
          TooBig,       \* a number outside the range of int
          Usual,        \* any other number, where only its range matters
          Texts,        \* what is typed for a receiver
          NameOf,       \* NameOf[u]: the name of a user, with commas or digits
                        \* if so registered, but without a colon
          ListedAs,     \* ListedAs[u]: that name up to its first comma
          Number,       \* Number[t]: the id that int(t) reads, if it is one
          FoundBy,      \* FoundBy[t]: the user whose name the database takes
                        \* t for, which may differ in case
          Registered,   \* the users that exist already
          MaxCommands,  \* bound: commands
          MaxChanges    \* bound: other users that come or go

ASSUME NameAssumption ==
  /\ NoUser \notin Users /\ TooBig \notin Users \cup {NoUser, Usual}
  /\ Registered \subseteq Users /\ Texts # {}
  /\ NameOf \in [Users -> Texts]
  /\ \A u, v \in Users : NameOf[u] = NameOf[v] => u = v
  /\ ListedAs \in [Users -> Texts]
  /\ Number \in [Texts -> Users \cup {NoUser, TooBig}]
  /\ FoundBy \in [Texts -> Users \cup {NoUser}]

VARIABLES
  link,         \* "up", "closed" by the server, or "left" by the client
  requests,     \* on their way to the server
  answers,      \* on their way to the client
  session,      \* the user the server has logged the connection in as
  password,     \* password[u]: what users.password holds, in parts
  online,       \* the users that are online
  connected,    \* self.connected
  userId,       \* self.user_id
  userMap,      \* self.user_map
  shown,        \* the keys of self.online_users
  main,         \* the command that runs: where it is, the text, the id
  receiver,     \* where the receive thread is
  list,         \* the part of a list of users still to be shown
  failed,       \* the texts for which a look-up's statement has failed
  bounds        \* [commands, changes]: what has happened so far

serverVars == <<session, password, online, failed>>
known == <<connected, userId, userMap, shown>>
vars == <<link, requests, answers, serverVars, known, main, receiver, list, bounds>>

(* How many messages of a history are asked for.                           *)
Limits == {Usual, TooBig}

NoCommand == [at |-> "idle", what |-> "none", text |-> CHOOSE t \in Texts : TRUE,
              id |-> NoUser, limit |-> Usual]

Init == /\ link = "up"
        /\ requests = << >> /\ answers = << >>
        /\ session = NoUser
        /\ password = [u \in Users |-> IF u \in Registered THEN <<"word">> ELSE << >>]
        /\ online = {}
        /\ connected = TRUE
        /\ userId = NoUser
        /\ userMap = [t \in Texts |-> NoUser]
        /\ shown = {}
        /\ main = NoCommand
        /\ receiver = "check"
        /\ list = {}
        /\ failed = {}
        /\ bounds = [commands |-> 0, changes |-> 0]

-----------------------------------------------------------------------------
(* The main thread                                                         *)

(* pack_message: the type, the user of the header, and the data: the user  *)
(* a credential names and the parts that follow it, or a receiver and how  *)
(* many messages of a history.                                             *)
Request(type, user, parts, to, limit, text) ==
  [type |-> type, from |-> userId, user |-> user, parts |-> parts, to |-> to,
   limit |-> limit, text |-> text]

(* sendall: to a connection the server has closed it may still succeed;    *)
(* when it fails the command goes on all the same.                         *)
SendRaw(request) ==
  \/ /\ link = "up"
     /\ requests' = Append(requests, request)
     /\ UNCHANGED connected
  \/ /\ link # "up"
     /\ connected' \in {connected, FALSE}
     /\ UNCHANGED requests

Type == /\ main.at = "idle" /\ connected /\ bounds.commands < MaxCommands
        /\ bounds' = [bounds EXCEPT !.commands = @ + 1]
        /\ UNCHANGED <<link, answers, serverVars, userId, userMap, shown, receiver, list>>

(* What is typed: login name password.                                     *)
Login(u, word) == /\ Type
                  /\ SendRaw(Request("login", u, <<word>>, NoUser, Usual, NameOf[u]))
                  /\ UNCHANGED main

(* register name password [nickname].                                      *)
Register(u) == /\ Type
               /\ SendRaw(Request("register", u, <<"word", "nickname">>, NoUser, Usual,
                                  NameOf[u]))
               /\ UNCHANGED main

(* users.                                                                  *)
GetOnlineUsers == /\ Type /\ userId # NoUser
                  /\ SendRaw(Request("users", NoUser, << >>, NoUser, Usual, NoCommand.text))
                  /\ UNCHANGED main

(* send and history [limit]: the receiver is a number of any size, a name  *)
(* in the cache, or one the server is asked for.                           *)
GetUserIdByName(what, text, limit) ==
  /\ Type /\ userId # NoUser
  /\ what = "chat" => limit = Usual
  /\ LET id == IF Number[text] # NoUser THEN Number[text] ELSE userMap[text]
     IN  \/ /\ id # NoUser
            /\ main' = [at |-> "send", what |-> what, text |-> text, id |-> id, limit |-> limit]
            /\ UNCHANGED <<requests, connected>>
         \/ /\ id = NoUser
            /\ main' = [at |-> "poll", what |-> what, text |-> text, id |-> NoUser,
                         limit |-> limit]
            /\ SendRaw(Request("find", NoUser, << >>, NoUser, Usual, text))

Main == UNCHANGED <<link, answers, serverVars, userId, userMap, shown, receiver, list, bounds>>

PollFound == /\ main.at = "poll" /\ userMap[main.text] # NoUser
             /\ main' = [main EXCEPT !.at = "send", !.id = userMap[main.text]]
             /\ Main /\ UNCHANGED <<requests, connected>>

(* Mutant of PollTimeout: the command goes on without an id.               *)
PollAnyway == /\ main.at = "poll"
              /\ main' = [main EXCEPT !.at = "send"]
              /\ Main /\ UNCHANGED <<requests, connected>>

(* Three seconds are over: no user of that name is found.                  *)
PollTimeout == /\ main.at = "poll"
               /\ main' = NoCommand
               /\ Main /\ UNCHANGED <<requests, connected>>

Send == /\ main.at = "send"
        /\ SendRaw(Request(main.what, NoUser, << >>, main.id, main.limit, main.text))
        /\ main' = [main EXCEPT !.at = "name"]
        /\ Main

(* The name to print is tested for and read in two steps; where a list     *)
(* comes in between, the read raises and the command reports a failure.    *)
NameTested == /\ main.at = "name"
              /\ main' = IF main.id \in shown THEN [main EXCEPT !.at = "read"] ELSE NoCommand
              /\ Main /\ UNCHANGED <<requests, connected>>

NameRead == /\ main.at = "read"
            /\ main' = NoCommand
            /\ Main /\ UNCHANGED <<requests, connected>>

(* quit, or an interrupt in the middle of a command: the socket is closed  *)
(* under the receive thread.                                               *)
Close == /\ main.at # "quit"
         /\ main' = [NoCommand EXCEPT !.at = "quit"]
         /\ connected' = FALSE
         /\ link' = IF link = "up" THEN "left" ELSE link
         /\ UNCHANGED <<requests, answers, serverVars, userId, userMap, shown,
                        receiver, list, bounds>>

Command == PollFound \/ PollTimeout \/ Send \/ NameTested \/ NameRead

-----------------------------------------------------------------------------
(* The receive thread                                                      *)

Receiving == UNCHANGED <<link, requests, serverVars, main, bounds>>

ReceiveCheck == /\ receiver = "check"
                /\ receiver' = IF connected THEN "recv" ELSE "gone"
                /\ Receiving /\ UNCHANGED <<answers, known, list>>

(* The connection has ended; on a socket that close() has closed, recv     *)
(* fails, whatever has arrived.                                            *)
ReceiveEnd == /\ receiver = "recv"
              /\ link = "left" \/ (link = "closed" /\ answers = << >>)
              /\ connected' = FALSE
              /\ receiver' = "gone"
              /\ Receiving /\ UNCHANGED <<answers, userId, userMap, shown, list>>

Receive(type) == /\ receiver = "recv" /\ answers # << >> /\ Head(answers).type = type
                 /\ answers' = Tail(answers)

HandleLogin == /\ Receive("login")
               /\ userId' = Head(answers).user
               /\ receiver' = "check"
               /\ Receiving /\ UNCHANGED <<connected, userMap, shown, list>>

(* Messages, errors and histories are printed.                             *)
HandlePrint == /\ Receive("print")
               /\ receiver' = "check"
               /\ Receiving /\ UNCHANGED <<known, list>>

HandleUsers == /\ Receive("users")
               /\ shown' = {}
               /\ list' = Head(answers).users
               /\ receiver' = "list"
               /\ Receiving /\ UNCHANGED <<connected, userId, userMap>>

(* The list is split at every comma: of a user "x,y" the part "id:x" is    *)
(* taken for a user x, and the part "y", without a colon, is passed over.  *)
HandleEntry == /\ receiver = "list"
               /\ \/ \E u \in list :
                       /\ list' = list \ {u}
                       /\ shown' = shown \cup {u}
                       /\ userMap' = [userMap EXCEPT ![ListedAs[u]] = u]
                       /\ UNCHANGED receiver
                  \/ /\ list = {}
                     /\ receiver' = "check"
                     /\ UNCHANGED <<list, shown, userMap>>
               /\ Receiving /\ UNCHANGED <<answers, connected, userId>>

(* Mutant of HandleFound: the answer is for what is asked just now.        *)
HandleFoundAsAsked ==
  /\ Receive("find")
  /\ LET u == Head(answers).user
     IN  IF u # NoUser
         THEN /\ userMap' = [userMap EXCEPT ![main.text] = u]
              /\ shown' = shown \cup {u}
         ELSE UNCHANGED <<userMap, shown>>
  /\ receiver' = "check"
  /\ Receiving /\ UNCHANGED <<connected, userId, list>>

(* Mutant of HandleFound: an answer nobody waits for is dropped.           *)
HandleFoundInTime ==
  /\ Receive("find")
  /\ LET u == Head(answers).user
     IN  IF u # NoUser /\ main.at = "poll"
         THEN /\ userMap' = [userMap EXCEPT ![NameOf[u]] = u]
              /\ shown' = shown \cup {u}
         ELSE UNCHANGED <<userMap, shown>>
  /\ receiver' = "check"
  /\ Receiving /\ UNCHANGED <<connected, userId, list>>

(* The answer to a query names the user it is for, with the name as it is: *)
(* it is split at its first colon only.                                    *)
HandleFound ==
  /\ Receive("find")
  /\ LET u == Head(answers).user
     IN  IF u # NoUser
         THEN /\ userMap' = [userMap EXCEPT ![NameOf[u]] = u]
              /\ shown' = shown \cup {u}
         ELSE UNCHANGED <<userMap, shown>>
  /\ receiver' = "check"
  /\ Receiving /\ UNCHANGED <<connected, userId, list>>

ReceiveThread == \/ ReceiveCheck \/ ReceiveEnd \/ HandleLogin \/ HandlePrint
                 \/ HandleUsers \/ HandleEntry \/ HandleFound

-----------------------------------------------------------------------------
(* The server                                                              *)

Answer(type, user, users) == [type |-> type, user |-> user, users |-> users]

Notice == Answer("print", NoUser, {})

(* handleRead takes the requests in order, those of a client that has left *)
(* too.                                                                    *)
Handles(types) == /\ link # "closed" /\ requests # << >> /\ Head(requests).type \in types
                  /\ requests' = Tail(requests)
                  /\ UNCHANGED <<link, known, main, receiver, list, bounds>>

(* What UserManager finds: an account, by a name that is compared as the   *)
(* database compares, or nobody where the statement fails; and who is      *)
(* online, as far as accounts are found.                                   *)
getUserInfo(text) == LET u == FoundBy[text]
                     IN  IF u # NoUser /\ password[u] # << >> THEN {u, NoUser} ELSE {NoUser}

getOnlineUsers == SUBSET {u \in online : password[u] # << >>}

(* The password is all that follows the name.  A statement of the login    *)
(* may fail, or only the one that puts the user online.                    *)
ServeLogin ==
  /\ Handles({"login"}) /\ session = NoUser
  /\ LET r == Head(requests)
     IN  \/ /\ r.parts = password[r.user]
            /\ session' = r.user
            /\ online' \in {online, online \cup {r.user}}
            /\ answers' = Append(answers, Answer("login", r.user, {}))
         \/ /\ answers' = Append(answers, Notice)
            /\ UNCHANGED <<session, online>>
  /\ UNCHANGED <<password, failed>>

ServeRegister ==
  /\ Handles({"register"}) /\ session = NoUser
  /\ LET r == Head(requests)
     IN  \/ /\ password[r.user] = << >>
            /\ password' = [password EXCEPT ![r.user] = r.parts]
         \/ UNCHANGED password
  /\ answers' = Append(answers, Notice)
  /\ UNCHANGED <<session, online, failed>>

(* stoi throws on a number outside int, before the request is taken from   *)
(* the buffer: it stays in front, and each later handleRead of the         *)
(* connection throws on it again.                                          *)
Readable(r) == r.type \in {"chat", "history"} => TooBig \notin {r.to, r.limit}

(* A request on a connection in the wrong state is dropped, and chat has   *)
(* no answer, nor has a history whose query fails.                         *)
ServeNothing ==
  /\ \/ Handles({"login", "register"}) /\ session # NoUser
     \/ Handles({"users", "find", "chat", "history"}) /\ session = NoUser
     \/ Handles({"chat", "history"}) /\ Readable(Head(requests))
  /\ UNCHANGED <<answers, serverVars>>

ServeUsers == /\ Handles({"users"}) /\ session # NoUser
              /\ \E users \in getOnlineUsers :
                   answers' = Append(answers, Answer("users", NoUser, users))
              /\ UNCHANGED serverVars

ServeFind == /\ Handles({"find"}) /\ session # NoUser
             /\ LET text == Head(requests).text
                IN  \E u \in getUserInfo(text) :
                      /\ answers' = Append(answers, Answer("find", u, {}))
                      /\ failed' = IF u = NoUser /\ getUserInfo(text) # {NoUser}
                                   THEN failed \cup {text} ELSE failed
             /\ UNCHANGED <<session, password, online>>

ServeHistory == /\ Handles({"history"}) /\ session # NoUser
                /\ Readable(Head(requests))
                /\ answers' = Append(answers, Notice)
                /\ UNCHANGED serverVars

Server == \/ ServeLogin \/ ServeRegister \/ ServeNothing
          \/ ServeUsers \/ ServeFind \/ ServeHistory

(* Users come and go on other connections, and send messages.              *)
Others == /\ bounds.changes < MaxChanges
          /\ bounds' = [bounds EXCEPT !.changes = @ + 1]
          /\ \/ \E u \in Registered :
                  /\ online' = IF u \in online THEN online \ {u} ELSE online \cup {u}
                  /\ UNCHANGED answers
             \/ /\ session # NoUser /\ link # "closed"
                /\ answers' = Append(answers, Notice)
                /\ UNCHANGED online
          /\ UNCHANGED <<link, requests, session, password, failed, known, main, receiver,
                         list>>

(* The server goes, or closes the connection.                              *)
ServerCloses == /\ link = "up"
                /\ link' = "closed"
                /\ requests' = << >>
                /\ UNCHANGED <<answers, serverVars, known, main, receiver, list, bounds>>

-----------------------------------------------------------------------------
Next == \/ \E u \in Users : \/ \E word \in {"word", "wrong"} : Login(u, word)
                            \/ Register(u)
        \/ GetOnlineUsers
        \/ \E what \in {"chat", "history"}, text \in Texts, limit \in Limits :
             GetUserIdByName(what, text, limit)
        \/ Command \/ Close
        \/ ReceiveThread
        \/ Server \/ Others \/ ServerCloses

(* The threads and the server run; nobody has to type.                     *)
Fairness == WF_vars(Command) /\ WF_vars(ReceiveThread) /\ WF_vars(Server)

Spec == Init /\ [][Next]_vars /\ Fairness

-----------------------------------------------------------------------------
(* Properties                                                              *)

Maybe == Users \cup {NoUser}
Ids == Maybe \cup {TooBig}

RequestType == [type : {"login", "register", "users", "find", "chat", "history"},
                from : Maybe, user : Maybe, to : Ids,
                limit : Limits, text : Texts,
                parts : {<<"word">>, <<"wrong">>, <<"word", "nickname">>, << >>}]

AnswerType == [type : {"login", "print", "users", "find"}, user : Maybe,
               users : SUBSET Users]

CommandType == [at : {"idle", "poll", "send", "name", "read", "quit"},
                what : {"none", "chat", "history"}, text : Texts,
                id : Ids, limit : Limits]

(* Every variable has its type; only a list that is being shown has a rest *)
(* and only a command that found its receiver has an id.                   *)
TypeOK ==
  /\ link \in {"up", "closed", "left"}
  /\ requests \in Seq(RequestType) /\ answers \in Seq(AnswerType)
  /\ session \in Maybe /\ userId \in Maybe
  /\ password \in [Users -> Seq({"word", "nickname", "wrong"})]
  /\ online \in SUBSET Users /\ shown \in SUBSET Users /\ list \in SUBSET Users
  /\ failed \in SUBSET Texts
  /\ connected \in BOOLEAN
  /\ userMap \in [Texts -> Maybe]
  /\ main \in CommandType
  /\ receiver \in {"check", "recv", "list", "gone"}
  /\ list # {} => receiver = "list"
  /\ main.at \in {"send", "name", "read"} => main.id # NoUser

(* Whom a text may mean: the user of that name, the number it reads as,    *)
(* or a user whose name begins so, up to a comma.  It is one user unless a *)
(* name reads as a number or is another name cut at its comma.             *)
Readings(text) == {u \in Users : text \in {NameOf[u], ListedAs[u]}}
                    \cup ({Number[text]} \ {NoUser})

(* A message or a query for a history goes to a user who may be meant by   *)
(* what was typed (for all names but the ambiguous ones the user of that   *)
(* name), and in the name of the user the server has logged in, however    *)
(* late answers to earlier commands come.                                  *)
SentAsMeant ==
  \A i \in DOMAIN requests :
    requests[i].type \in {"chat", "history"} =>
      requests[i].to \in Readings(requests[i].text) /\ requests[i].from = session

(* While the connection lasts, asking for a user who exists and is typed   *)
(* as registered puts the user in the cache, even when the command has     *)
(* given up by then: it succeeds when it is typed again.  Excepted are     *)
(* questions behind a request that cannot be read, which are never         *)
(* answered, and look-ups whose statement fails.                           *)
LookupsCached ==
  \A u \in Users :
    (/\ main.at = "poll" /\ main.text = NameOf[u] /\ password[u] # << >>
     /\ \A i \in DOMAIN requests : Readable(requests[i]))
      ~> (userMap[NameOf[u]] = u \/ NameOf[u] \in failed \/ link # "up")

=============================================================================
