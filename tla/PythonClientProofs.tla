------------------------- MODULE PythonClientProofs -------------------------
(***************************************************************************)
(* Theorems of PythonClient, for any users, texts and number of commands.  *)
(***************************************************************************)
EXTENDS PythonClient, QueueLemmas, SequenceTheorems, TLAPS

-----------------------------------------------------------------------------
(* Type correctness.                                                       *)

(* Only a command that names a receiver has more than one step, and a      *)
(* credential names a user.                                                *)
ControlInv ==
  /\ main.at \in {"poll", "send", "name", "read"} => main.what \in {"chat", "history"}
  /\ \A i \in DOMAIN requests :
       requests[i].type \in {"login", "register"} => requests[i].user \in Users

TypeInv == TypeOK /\ ControlInv

LEMMA NoCommandType ==
  /\ NoCommand \in CommandType
  /\ NoCommand.at = "idle"
BY NameAssumption DEF NoCommand, CommandType, Maybe, Ids, Limits

(* What SendRaw leaves of the requests, whether or not it sends.           *)
LEMMA SendRawRequests ==
  ASSUME requests \in Seq(RequestType), connected \in BOOLEAN, NEW r \in RequestType,
         SendRaw(r)
  PROVE  /\ requests' \in Seq(RequestType) /\ connected' \in BOOLEAN
         /\ \A i \in DOMAIN requests' :
              requests'[i] = r \/ \E j \in DOMAIN requests : requests'[i] = requests[j]
<1>1. CASE requests' = Append(requests, r) /\ UNCHANGED connected
  BY <1>1, AppendElements
<1>2. CASE UNCHANGED requests
  BY <1>2 DEF SendRaw
<1> QED
  BY <1>1, <1>2 DEF SendRaw

(* What a handler of the server leaves of them.                            *)
LEMMA HandlesRequests ==
  ASSUME requests \in Seq(RequestType), NEW types, Handles(types)
  PROVE  /\ requests' \in Seq(RequestType) /\ Head(requests) \in RequestType
         /\ 1 \in DOMAIN requests /\ Head(requests) = requests[1]
         /\ \A i \in DOMAIN requests' : \E j \in DOMAIN requests : requests'[i] = requests[j]
BY TailElements DEF Handles

Parts == {<<"word">>, <<"wrong">>, <<"word", "nickname">>, << >>}

LEMMA PartsAreWords == Parts \subseteq Seq({"word", "nickname", "wrong"})
<1>1. <<"word">> \in Seq({"word", "nickname", "wrong"})
  OBVIOUS
<1>2. <<"wrong">> \in Seq({"word", "nickname", "wrong"})
  OBVIOUS
<1>3. <<"word", "nickname">> \in Seq({"word", "nickname", "wrong"})
  OBVIOUS
<1>4. << >> \in Seq({"word", "nickname", "wrong"})
  BY EmptySeq
<1> QED
  BY <1>1, <1>2, <1>3, <1>4 DEF Parts

LEMMA InitTypeInv == Init => TypeInv
<1> SUFFICES ASSUME Init
             PROVE  TypeInv
    OBVIOUS
<1>1. requests \in Seq(RequestType) /\ answers \in Seq(AnswerType) /\ DOMAIN requests = {}
  BY EmptySeq DEF Init
<1>2. password \in [Users -> Seq({"word", "nickname", "wrong"})]
  BY PartsAreWords DEF Init, Parts
<1> QED
  BY <1>1, <1>2, NoCommandType DEF Init, TypeInv, TypeOK, ControlInv, Maybe

LEMMA RequestIsTyped ==
  ASSUME userId \in Maybe,
         NEW type \in {"login", "register", "users", "find", "chat", "history"},
         NEW user \in Maybe, NEW to \in Ids, NEW text \in Texts,
         NEW limit \in Limits, NEW parts \in Parts
  PROVE  LET r == Request(type, user, parts, to, limit, text)
         IN  /\ r \in RequestType /\ r.type = type /\ r.user = user
             /\ r.to = to /\ r.text = text /\ r.from = userId
BY DEF Request, RequestType, Parts

(* A step that sends at most one request and leaves the rest alone.        *)
LEMMA SendingKeepsTypes ==
  ASSUME TypeInv,
         NEW type \in {"login", "register", "users", "find", "chat", "history"},
         NEW user \in Maybe, NEW to \in Ids, NEW text \in Texts,
         NEW limit \in Limits, NEW parts \in Parts,
         SendRaw(Request(type, user, parts, to, limit, text)),
         type \in {"login", "register"} => user \in Users,
         UNCHANGED <<link, answers, serverVars, userId, userMap, shown, receiver, list>>,
         main' \in CommandType,
         main'.at \in {"send", "name", "read"} => main'.id # NoUser,
         main'.at \in {"poll", "send", "name", "read"} => main'.what \in {"chat", "history"}
  PROVE  TypeInv'
<1>1. /\ requests \in Seq(RequestType) /\ connected \in BOOLEAN
      /\ userId \in Maybe
  BY DEF TypeInv, TypeOK
<1>2. PICK r : /\ r = Request(type, user, parts, to, limit, text)
               /\ r \in RequestType /\ r.type = type /\ r.user = user
  BY <1>1, RequestIsTyped
<1>3. /\ requests' \in Seq(RequestType) /\ connected' \in BOOLEAN
      /\ \A i \in DOMAIN requests' :
           requests'[i] = r \/ \E j \in DOMAIN requests : requests'[i] = requests[j]
  BY <1>1, <1>2, SendRawRequests
<1>4. TypeOK'
  BY <1>3 DEF TypeInv, TypeOK, serverVars
<1>5. ControlInv'
  BY <1>2, <1>3 DEF TypeInv, ControlInv
<1> QED
  BY <1>4, <1>5 DEF TypeInv

(* The steps of the main thread.                                           *)
LEMMA CommandsKeepTypes ==
  ASSUME TypeInv,
         \/ \E u \in Users : \/ \E word \in {"word", "wrong"} : Login(u, word)
                             \/ Register(u)
         \/ GetOnlineUsers
         \/ \E what \in {"chat", "history"}, text \in Texts, limit \in Limits :
              GetUserIdByName(what, text, limit)
         \/ Command \/ Close
  PROVE  TypeInv'
<1>0. /\ userId \in Maybe /\ NoUser \in Maybe /\ Users \subseteq Maybe
      /\ NoCommand.text \in Texts /\ Usual \in Limits
      /\ Maybe \subseteq Ids
      /\ <<"word">> \in Parts /\ <<"wrong">> \in Parts
      /\ <<"word", "nickname">> \in Parts /\ << >> \in Parts
      /\ \A u \in Users : NameOf[u] \in Texts
      /\ \A t \in Texts : Number[t] \in Ids /\ userMap[t] \in Maybe
      /\ main \in CommandType
      /\ main.at \in {"send", "name", "read"} => main.id # NoUser
      /\ main.at \in {"poll", "send", "name", "read"} => main.what \in {"chat", "history"}
  BY NameAssumption, NoCommandType
     DEF TypeInv, TypeOK, ControlInv, Maybe, Ids, Limits, Parts, CommandType
<1>1. ASSUME NEW u \in Users, NEW word \in {"word", "wrong"}, Login(u, word)
      PROVE  TypeInv'
  BY <1>0, <1>1, SendingKeepsTypes DEF Login, Type
<1>2. ASSUME NEW u \in Users, Register(u)
      PROVE  TypeInv'
  BY <1>0, <1>2, SendingKeepsTypes DEF Register, Type
<1>3. CASE GetOnlineUsers
  BY <1>0, <1>3, SendingKeepsTypes DEF GetOnlineUsers, Type
<1>4. ASSUME NEW what \in {"chat", "history"}, NEW text \in Texts,
             NEW limit \in Limits, GetUserIdByName(what, text, limit)
      PROVE  TypeInv'
  <2>1. PICK id \in Ids : id = IF Number[text] # NoUser THEN Number[text] ELSE userMap[text]
    BY <1>0
  <2>2. CASE /\ id # NoUser
             /\ main' = [at |-> "send", what |-> what, text |-> text, id |-> id,
                         limit |-> limit]
             /\ UNCHANGED <<requests, connected>>
    BY <1>0, <1>4, <2>2
       DEF GetUserIdByName, Type, TypeInv, TypeOK, ControlInv, CommandType, serverVars
  <2>3. CASE /\ main' = [at |-> "poll", what |-> what, text |-> text, id |-> NoUser,
                         limit |-> limit]
             /\ SendRaw(Request("find", NoUser, << >>, NoUser, Usual, text))
    <3>1. main' \in CommandType /\ main'.at = "poll" /\ main'.what = what
      BY <1>0, <2>3 DEF CommandType
    <3> QED
      BY <1>0, <1>4, <2>3, <3>1, SendingKeepsTypes DEF GetUserIdByName, Type
  <2> QED
    BY <1>4, <2>1, <2>2, <2>3 DEF GetUserIdByName
<1>5. CASE PollFound \/ PollTimeout \/ NameTested \/ NameRead
  BY <1>0, <1>5, NoCommandType DEF PollFound, PollTimeout, NameTested, NameRead, Main,
                                   TypeInv, TypeOK, ControlInv, CommandType, serverVars
<1>6. CASE Send
  <2>1. /\ main.what \in {"chat", "history"} /\ main.id \in Ids
        /\ main.limit \in Limits /\ main.text \in Texts
    BY <1>0, <1>6 DEF Send, CommandType
  <2>2. main' \in CommandType /\ main'.at = "name" /\ main'.id = main.id /\ main'.what = main.what
    BY <1>0, <1>6 DEF Send, CommandType
  <2> QED
    BY <1>0, <1>6, <2>1, <2>2, SendingKeepsTypes DEF Send, Main
<1>7. CASE Close
  BY <1>0, <1>7, NoCommandType DEF Close, TypeInv, TypeOK, ControlInv, CommandType, serverVars
<1> QED
  BY <1>1, <1>2, <1>3, <1>4, <1>5, <1>6, <1>7 DEF Command

(* The steps of the receive thread.                                        *)
LEMMA ReceivingKeepsTypes ==
  ASSUME TypeInv, ReceiveThread
  PROVE  TypeInv'
<1> SUFFICES TypeOK'
  BY DEF TypeInv, ControlInv, ReceiveThread, ReceiveCheck, ReceiveEnd, HandleLogin,
         HandlePrint, HandleUsers, HandleEntry, HandleFound, Receiving
<1>0. TypeOK
  BY DEF TypeInv
<1>1. ASSUME NEW type, Receive(type)
      PROVE  answers' \in Seq(AnswerType) /\ Head(answers) \in AnswerType
  BY <1>0, <1>1, TailElements DEF Receive, TypeOK
<1>2. CASE ReceiveCheck \/ ReceiveEnd
  BY <1>0, <1>2 DEF ReceiveCheck, ReceiveEnd, Receiving, TypeOK, serverVars, known
<1>3. CASE HandleLogin
  BY <1>0, <1>1, <1>3 DEF HandleLogin, Receive, Receiving, TypeOK, serverVars, AnswerType
<1>4. CASE HandlePrint
  BY <1>0, <1>1, <1>4 DEF HandlePrint, Receive, Receiving, TypeOK, serverVars, known
<1>5. CASE HandleUsers
  <2>1. Head(answers).users \in SUBSET Users /\ answers' \in Seq(AnswerType)
    BY <1>1, <1>5 DEF HandleUsers, AnswerType
  <2> QED
    BY <1>0, <1>5, <2>1 DEF HandleUsers, Receiving, TypeOK, serverVars
<1>6. CASE HandleEntry
  <2>1. ASSUME NEW u \in list, list' = list \ {u}, shown' = shown \cup {u},
               userMap' = [userMap EXCEPT ![ListedAs[u]] = u], UNCHANGED receiver
        PROVE  TypeOK'
    <3>1. u \in Users /\ userMap' \in [Texts -> Maybe]
      BY <1>0, <2>1, NameAssumption DEF TypeOK, Maybe
    <3> QED
      BY <1>0, <1>6, <2>1, <3>1 DEF HandleEntry, Receiving, TypeOK, serverVars
  <2>2. CASE list = {} /\ receiver' = "check" /\ UNCHANGED <<list, shown, userMap>>
    BY <1>0, <1>6, <2>2 DEF HandleEntry, Receiving, TypeOK, serverVars
  <2> QED
    BY <1>6, <2>1, <2>2 DEF HandleEntry
<1>7. CASE HandleFound
  <2>1. PICK u \in Maybe : u = Head(answers).user
    BY <1>1, <1>7 DEF HandleFound, AnswerType
  <2>2. answers' \in Seq(AnswerType)
    BY <1>1, <1>7 DEF HandleFound
  <2> QED
    BY <1>0, <1>7, <2>1, <2>2, NameAssumption
       DEF HandleFound, Receive, Receiving, TypeOK, serverVars, Maybe
<1> QED
  BY <1>2, <1>3, <1>4, <1>5, <1>6, <1>7 DEF ReceiveThread

(* The steps of the server.                                                *)
LEMMA ServingKeepsTypes ==
  ASSUME TypeInv, Server
  PROVE  TypeInv'
<1>0. TypeOK /\ ControlInv
  BY DEF TypeInv
<1>1. ASSUME NEW types, Handles(types)
      PROVE  /\ requests' \in Seq(RequestType) /\ Head(requests) \in RequestType
             /\ Head(requests).type \in types
             /\ Head(requests).type \in {"login", "register"} => Head(requests).user \in Users
             /\ ControlInv'
             /\ UNCHANGED <<link, connected, userId, userMap, shown, main, receiver, list>>
  <2>1. requests \in Seq(RequestType)
    BY <1>0 DEF TypeOK
  <2>2. /\ requests' \in Seq(RequestType) /\ Head(requests) \in RequestType
        /\ 1 \in DOMAIN requests /\ Head(requests) = requests[1]
        /\ \A i \in DOMAIN requests' : \E j \in DOMAIN requests : requests'[i] = requests[j]
    BY <1>1, <2>1, HandlesRequests
  <2> QED
    BY <1>0, <1>1, <2>2 DEF Handles, known, ControlInv
<1>2. ASSUME NEW type \in {"login", "print", "users", "find"}, NEW user \in Maybe,
             NEW users \in SUBSET Users,
             answers' = Append(answers, Answer(type, user, users))
      PROVE  answers' \in Seq(AnswerType)
  <2>1. Answer(type, user, users) \in AnswerType
    BY DEF Answer, AnswerType
  <2> QED
    BY <1>0, <1>2, <2>1, AppendElements DEF TypeOK
<1>3. ASSUME answers' = Append(answers, Notice)
      PROVE  answers' \in Seq(AnswerType)
  BY <1>2, <1>3 DEF Notice, Maybe
<1>4. CASE ServeLogin
  <2>1. PICK r \in RequestType : r = Head(requests) /\ r.user \in Users
    BY <1>1, <1>4 DEF ServeLogin
  <2>2. CASE /\ session' = r.user /\ online' \in {online, online \cup {r.user}}
             /\ answers' = Append(answers, Answer("login", r.user, {}))
    <3>1. answers' \in Seq(AnswerType)
      BY <1>2, <2>1, <2>2 DEF Maybe
    <3> QED
      BY <1>0, <1>1, <1>4, <2>1, <2>2, <3>1 DEF ServeLogin, TypeInv, TypeOK, Maybe
  <2>3. CASE answers' = Append(answers, Notice) /\ UNCHANGED <<session, online>>
    BY <1>0, <1>1, <1>3, <1>4, <2>3 DEF ServeLogin, TypeInv, TypeOK
  <2> QED
    BY <1>4, <2>1, <2>2, <2>3 DEF ServeLogin
<1>5. CASE ServeRegister
  <2>1. PICK r \in RequestType : r = Head(requests) /\ r.user \in Users
    BY <1>1, <1>5 DEF ServeRegister
  <2>2. r.parts \in Seq({"word", "nickname", "wrong"})
    BY PartsAreWords DEF RequestType, Parts
  <2>3. password' \in [Users -> Seq({"word", "nickname", "wrong"})]
    BY <1>0, <1>5, <2>1, <2>2 DEF ServeRegister, TypeOK
  <2> QED
    BY <1>0, <1>1, <1>3, <1>5, <2>3 DEF ServeRegister, TypeInv, TypeOK
<1>6. CASE ServeNothing
  BY <1>0, <1>1, <1>6 DEF ServeNothing, TypeInv, TypeOK, serverVars
<1>7. CASE ServeUsers
  <2>1. PICK users \in getOnlineUsers :
          answers' = Append(answers, Answer("users", NoUser, users))
    BY <1>7 DEF ServeUsers
  <2>2. users \in SUBSET Users /\ NoUser \in Maybe
    BY <1>0 DEF getOnlineUsers, TypeOK, Maybe
  <2>3. answers' \in Seq(AnswerType)
    BY <1>2, <2>1, <2>2
  <2> QED
    BY <1>0, <1>1, <1>7, <2>3 DEF ServeUsers, TypeInv, TypeOK, serverVars
<1>8. CASE ServeFind
  <2>1. Head(requests).text \in Texts
    BY <1>1, <1>8 DEF ServeFind, RequestType
  <2>2. PICK u \in getUserInfo(Head(requests).text) :
          answers' = Append(answers, Answer("find", u, {}))
    BY <1>8 DEF ServeFind
  <2>3. u \in Maybe
    BY <2>1, NameAssumption DEF getUserInfo, Maybe
  <2>4. answers' \in Seq(AnswerType)
    BY <1>2, <2>2, <2>3
  <2>5. failed' \in SUBSET Texts
    BY <1>0, <1>8, <2>1 DEF ServeFind, TypeOK
  <2> QED
    BY <1>0, <1>1, <1>8, <2>4, <2>5 DEF ServeFind, TypeInv, TypeOK
<1>9. CASE ServeHistory
  BY <1>0, <1>1, <1>3, <1>9 DEF ServeHistory, TypeInv, TypeOK, serverVars
<1> QED
  BY <1>4, <1>5, <1>6, <1>7, <1>8, <1>9 DEF Server

LEMMA NextTypeInv == TypeInv /\ [Next]_vars => TypeInv'
<1> SUFFICES ASSUME TypeInv, [Next]_vars
             PROVE  TypeInv'
    OBVIOUS
<1>1. CASE Others
  <2>1. CASE answers' = Append(answers, Notice)
    <3>1. Notice \in AnswerType
      BY DEF Notice, Answer, AnswerType, Maybe
    <3>2. answers' \in Seq(AnswerType)
      BY <2>1, <3>1, AppendElements DEF TypeInv, TypeOK
    <3> QED
      BY <1>1, <3>2, NameAssumption DEF Others, TypeInv, TypeOK, ControlInv, known
  <2>2. CASE UNCHANGED answers
    BY <1>1, <2>2, NameAssumption DEF Others, TypeInv, TypeOK, ControlInv, known
  <2> QED
    BY <1>1, <2>1, <2>2 DEF Others
<1>2. CASE ServerCloses
  BY <1>2, EmptySeq DEF ServerCloses, TypeInv, TypeOK, ControlInv, serverVars, known
<1>3. CASE UNCHANGED vars
  BY <1>3 DEF vars, TypeInv, TypeOK, ControlInv, serverVars, known
<1> QED
  BY <1>1, <1>2, <1>3, CommandsKeepTypes, ReceivingKeepsTypes, ServingKeepsTypes DEF Next

(* Every reachable state of the client is well typed, and a command that   *)
(* goes on to send has found an id for its receiver.                       *)
THEOREM ClientTypeCorrect == Spec => []TypeOK
<1>1. TypeInv => TypeOK
  BY DEF TypeInv
<1> QED
  BY <1>1, InitTypeInv, NextTypeInv, PTL DEF Spec

-----------------------------------------------------------------------------
(* A message goes to whom it is meant for, in the name of whom the server  *)
(* has logged in.                                                          *)

(* The cache finds a user of a name, or whose name begins so, or nobody.   *)
CacheInv == \A t \in Texts :
              userMap[t] # NoUser => /\ userMap[t] \in Users
                                     /\ t \in {NameOf[userMap[t]], ListedAs[userMap[t]]}

(* The user of the client is the one of the session, and the answer to the *)
(* one login that succeeded says so.                                       *)
SessionInv ==
  /\ userId # NoUser => userId = session
  /\ \A i \in DOMAIN answers :
       answers[i].type = "login" => answers[i].user = session /\ session # NoUser

(* A command that names a receiver runs for a user who is logged in.       *)
ReceiverInv ==
  /\ main.at \in {"poll", "send", "name", "read"} => userId # NoUser
  /\ main.at \in {"send", "name", "read"} => main.id \in Readings(main.text)

RequestInv ==
  \A i \in DOMAIN requests :
    requests[i].type \in {"chat", "history"} =>
      /\ requests[i].to \in Readings(requests[i].text)
      /\ requests[i].from = session /\ session # NoUser

IdentityInv == TypeInv /\ CacheInv /\ SessionInv /\ ReceiverInv /\ RequestInv

LEMMA CachedReading ==
  ASSUME CacheInv, NEW t \in Texts, userMap[t] # NoUser
  PROVE  userMap[t] \in Readings(t)
BY DEF CacheInv, Readings

LEMMA NextCacheInv == TypeInv /\ CacheInv /\ [Next]_vars => CacheInv'
<1> SUFFICES ASSUME TypeInv, CacheInv, [Next]_vars
             PROVE  CacheInv'
    OBVIOUS
<1>1. ASSUME UNCHANGED userMap
      PROVE  CacheInv'
  BY <1>1 DEF CacheInv
<1>2. ASSUME NEW u \in Users,
             \/ userMap' = [userMap EXCEPT ![NameOf[u]] = u]
             \/ userMap' = [userMap EXCEPT ![ListedAs[u]] = u]
      PROVE  CacheInv'
  <2>1. userMap \in [Texts -> Maybe] /\ NameOf[u] \in Texts /\ ListedAs[u] \in Texts
    BY NameAssumption DEF TypeInv, TypeOK
  <2> QED
    BY <1>2, <2>1 DEF CacheInv
<1>3. CASE HandleEntry
  BY <1>1, <1>2, <1>3 DEF HandleEntry, TypeInv, TypeOK
<1>4. CASE HandleFound
  <2>1. Head(answers) \in AnswerType
    BY <1>4, TailElements DEF HandleFound, Receive, TypeInv, TypeOK
  <2>2. Head(answers).user # NoUser => Head(answers).user \in Users
    BY <2>1 DEF AnswerType, Maybe
  <2> QED
    BY <1>1, <1>2, <1>4, <2>2 DEF HandleFound
<1>5. CASE ReceiveCheck \/ ReceiveEnd \/ HandleLogin \/ HandlePrint \/ HandleUsers
  BY <1>1, <1>5 DEF ReceiveCheck, ReceiveEnd, HandleLogin, HandlePrint, HandleUsers, known
<1>6. CASE Server \/ Others \/ ServerCloses
  BY <1>1, <1>6 DEF Server, Others, ServerCloses, ServeLogin, ServeRegister, ServeNothing,
                    ServeUsers, ServeFind, ServeHistory, Handles, known
<1>7. ASSUME \/ \E u \in Users : \/ \E word \in {"word", "wrong"} : Login(u, word)
                                 \/ Register(u)
             \/ GetOnlineUsers
             \/ \E what \in {"chat", "history"}, text \in Texts, limit \in Limits :
              GetUserIdByName(what, text, limit)
      PROVE  CacheInv'
  BY <1>1, <1>7 DEF Login, Register, GetOnlineUsers, GetUserIdByName, Type
<1>8. CASE Command \/ Close
  BY <1>1, <1>8 DEF Command, PollFound, PollTimeout, Send, NameTested, NameRead, Main, Close
<1>9. CASE UNCHANGED vars
  BY <1>1, <1>9 DEF vars, known
<1> QED
  BY <1>3, <1>4, <1>5, <1>6, <1>7, <1>8, <1>9 DEF Next, ReceiveThread

LEMMA SendingKeepsRequests ==
  ASSUME TypeInv, RequestInv, UNCHANGED session,
         NEW type \in {"login", "register", "users", "find", "chat", "history"},
         NEW user \in Maybe, NEW to \in Ids, NEW text \in Texts,
         NEW limit \in Limits, NEW parts \in Parts,
         SendRaw(Request(type, user, parts, to, limit, text)),
         type \in {"chat", "history"} =>
           to \in Readings(text) /\ userId = session /\ session # NoUser
  PROVE  RequestInv'
<1>1. /\ requests \in Seq(RequestType) /\ connected \in BOOLEAN
      /\ userId \in Maybe
  BY DEF TypeInv, TypeOK
<1>2. PICK r : /\ r = Request(type, user, parts, to, limit, text)
               /\ r \in RequestType /\ r.type = type /\ r.to = to /\ r.text = text
               /\ r.from = userId
  BY <1>1, RequestIsTyped
<1>3. \A i \in DOMAIN requests' :
        requests'[i] = r \/ \E j \in DOMAIN requests : requests'[i] = requests[j]
  BY <1>1, <1>2, SendRawRequests
<1> QED
  BY <1>2, <1>3 DEF RequestInv

LEMMA CommandsKeepIdentity ==
  ASSUME IdentityInv,
         \/ \E u \in Users : \/ \E word \in {"word", "wrong"} : Login(u, word)
                             \/ Register(u)
         \/ GetOnlineUsers
         \/ \E what \in {"chat", "history"}, text \in Texts, limit \in Limits :
              GetUserIdByName(what, text, limit)
         \/ Command \/ Close
  PROVE  SessionInv' /\ ReceiverInv' /\ RequestInv'
<1>0. /\ TypeInv /\ SessionInv /\ ReceiverInv /\ RequestInv /\ CacheInv
      /\ userId \in Maybe /\ NoUser \in Maybe /\ Users \subseteq Maybe
      /\ NoCommand.text \in Texts /\ NoCommand.at = "idle"
      /\ Usual \in Limits /\ Maybe \subseteq Ids
      /\ <<"word">> \in Parts /\ <<"wrong">> \in Parts
      /\ <<"word", "nickname">> \in Parts /\ << >> \in Parts
      /\ \A u \in Users : NameOf[u] \in Texts
      /\ main \in CommandType
  BY NameAssumption, NoCommandType
     DEF IdentityInv, TypeInv, TypeOK, Maybe, Ids, Limits, Parts, CommandType
<1>1. UNCHANGED <<session, answers, userId>>
  BY DEF Login, Register, GetOnlineUsers, GetUserIdByName, Type, Command, PollFound,
         PollTimeout, Send, NameTested, NameRead, Main, Close, serverVars
<1>2. SessionInv'
  BY <1>0, <1>1 DEF SessionInv
<1> SUFFICES ReceiverInv' /\ RequestInv'
    BY <1>2
<1>3. ASSUME UNCHANGED main, RequestInv'
      PROVE  ReceiverInv' /\ RequestInv'
  BY <1>0, <1>1, <1>3 DEF ReceiverInv, Readings
<1>4. ASSUME UNCHANGED requests
      PROVE  RequestInv'
  BY <1>0, <1>1, <1>4 DEF RequestInv, Readings
<1>5. ASSUME NEW u \in Users, NEW word \in {"word", "wrong"}, Login(u, word)
      PROVE  ReceiverInv' /\ RequestInv'
  BY <1>0, <1>1, <1>3, <1>5, SendingKeepsRequests DEF Login
<1>6. ASSUME NEW u \in Users, Register(u)
      PROVE  ReceiverInv' /\ RequestInv'
  BY <1>0, <1>1, <1>3, <1>6, SendingKeepsRequests DEF Register
<1>7. CASE GetOnlineUsers
  BY <1>0, <1>1, <1>3, <1>7, SendingKeepsRequests DEF GetOnlineUsers
<1>8. ASSUME NEW what \in {"chat", "history"}, NEW text \in Texts,
             NEW limit \in Limits, GetUserIdByName(what, text, limit)
      PROVE  ReceiverInv' /\ RequestInv'
  <2>1. PICK id : id = IF Number[text] # NoUser THEN Number[text] ELSE userMap[text]
    OBVIOUS
  <2>2. userId # NoUser
    BY <1>8 DEF GetUserIdByName
  <2>3. id # NoUser => id \in Readings(text)
    <3>1. CASE Number[text] # NoUser
      BY <2>1, <3>1 DEF Readings
    <3>2. CASE Number[text] = NoUser
      BY <1>0, <2>1, <3>2, CachedReading
    <3> QED
      BY <3>1, <3>2
  <2>4. CASE /\ id # NoUser
             /\ main' = [at |-> "send", what |-> what, text |-> text, id |-> id,
                         limit |-> limit]
             /\ UNCHANGED <<requests, connected>>
    BY <1>1, <1>4, <2>2, <2>3, <2>4 DEF ReceiverInv, Readings
  <2>5. CASE /\ main' = [at |-> "poll", what |-> what, text |-> text, id |-> NoUser,
                         limit |-> limit]
             /\ SendRaw(Request("find", NoUser, << >>, NoUser, Usual, text))
    <3>1. RequestInv'
      BY <1>0, <1>1, <2>5, SendingKeepsRequests
    <3> QED
      BY <1>1, <2>2, <2>5, <3>1 DEF ReceiverInv
  <2> QED
    BY <1>8, <2>1, <2>4, <2>5 DEF GetUserIdByName
<1>9. CASE PollFound
  <2>1. main.text \in Texts /\ userMap[main.text] \in Readings(main.text)
    BY <1>0, <1>9, CachedReading DEF PollFound, CommandType
  <2> QED
    BY <1>0, <1>1, <1>4, <1>9, <2>1 DEF PollFound, ReceiverInv, Readings
<1>10. CASE PollTimeout \/ NameTested \/ NameRead \/ Close
  <2>1. RequestInv'
    BY <1>4, <1>10 DEF PollTimeout, NameTested, NameRead, Close
  <2>2. \/ main'.at \in {"idle", "quit"}
        \/ main'.at = "read" /\ main.at = "name" /\ UNCHANGED <<main.id, main.text>>
    BY <1>0, <1>10, NoCommandType DEF PollTimeout, NameTested, NameRead, Close, CommandType
  <2>3. ReceiverInv'
    BY <1>0, <1>1, <2>2 DEF ReceiverInv
  <2> QED
    BY <2>1, <2>3
<1>11. CASE Send
  <2>1. /\ main.what \in {"chat", "history"} /\ main.id \in Ids
        /\ main.limit \in Limits /\ main.text \in Texts
        /\ main.id \in Readings(main.text) /\ userId # NoUser /\ userId = session
    BY <1>0, <1>11 DEF Send, TypeInv, ControlInv, ReceiverInv, SessionInv, CommandType
  <2>2. RequestInv'
    BY <1>0, <1>1, <1>11, <2>1, SendingKeepsRequests DEF Send
  <2> QED
    BY <1>0, <1>1, <1>11, <2>1, <2>2 DEF Send, ReceiverInv, Readings
<1> QED
  BY <1>5, <1>6, <1>7, <1>8, <1>9, <1>10, <1>11 DEF Command

LEMMA AnswerIsTyped ==
  ASSUME NEW type \in {"login", "print", "users", "find"}, NEW user \in Maybe,
         NEW users \in SUBSET Users
  PROVE  /\ Answer(type, user, users) \in AnswerType
         /\ Answer(type, user, users).type = type
         /\ Answer(type, user, users).user = user
BY DEF Answer, AnswerType

LEMMA ReceivingKeepsIdentity ==
  ASSUME IdentityInv, ReceiveThread
  PROVE  SessionInv' /\ ReceiverInv' /\ RequestInv'
<1>0. /\ TypeInv /\ SessionInv /\ ReceiverInv /\ RequestInv
      /\ answers \in Seq(AnswerType)
  BY DEF IdentityInv, TypeInv, TypeOK
<1>1. UNCHANGED <<requests, session, main>>
  BY DEF ReceiveThread, ReceiveCheck, ReceiveEnd, HandleLogin, HandlePrint, HandleUsers,
         HandleEntry, HandleFound, Receiving, serverVars
<1>2. RequestInv'
  BY <1>0, <1>1 DEF RequestInv, Readings
<1>3. \A i \in DOMAIN answers' : \E j \in DOMAIN answers : answers'[i] = answers[j]
  <2>1. CASE UNCHANGED answers
    BY <2>1
  <2>2. CASE answers # << >> /\ answers' = Tail(answers)
    BY <1>0, <2>2, TailElements
  <2> QED
    BY <2>1, <2>2
       DEF ReceiveThread, ReceiveCheck, ReceiveEnd, HandleLogin, HandlePrint, HandleUsers,
           HandleEntry, HandleFound, Receive
<1>4. userId' = userId \/ (userId' = session /\ session # NoUser)
  <2>1. CASE HandleLogin
    <3>1. answers # << >> /\ Head(answers).type = "login" /\ userId' = Head(answers).user
      BY <2>1 DEF HandleLogin, Receive
    <3>2. 1 \in DOMAIN answers /\ Head(answers) = answers[1]
      BY <1>0, <3>1, TailElements
    <3> QED
      BY <1>0, <3>1, <3>2 DEF SessionInv
  <2> QED
    BY <2>1 DEF ReceiveThread, ReceiveCheck, ReceiveEnd, HandlePrint, HandleUsers,
                HandleEntry, HandleFound, known
<1>5. SessionInv' /\ ReceiverInv'
  BY <1>0, <1>1, <1>3, <1>4 DEF SessionInv, ReceiverInv, Readings
<1> QED
  BY <1>2, <1>5

(* A login is answered in the session it begins, and only one begins.      *)
LEMMA ServingKeepsIdentity ==
  ASSUME IdentityInv, Server
  PROVE  SessionInv' /\ ReceiverInv' /\ RequestInv'
<1>0. /\ TypeInv /\ SessionInv /\ ReceiverInv /\ RequestInv
      /\ answers \in Seq(AnswerType) /\ requests \in Seq(RequestType)
  BY DEF IdentityInv, TypeInv, TypeOK
<1>1. PICK types : Handles(types)
  BY DEF Server, ServeLogin, ServeRegister, ServeNothing, ServeUsers, ServeFind,
         ServeHistory
<1>2. UNCHANGED <<userId, main>>
  BY <1>1 DEF Handles, known
<1>3. \A i \in DOMAIN requests' : \E j \in DOMAIN requests : requests'[i] = requests[j]
  BY <1>0, <1>1, HandlesRequests
<1>4. ReceiverInv'
  BY <1>0, <1>2 DEF ReceiverInv, Readings
<1>5. ASSUME UNCHANGED session,
             \/ UNCHANGED answers
             \/ \E type \in {"print", "users", "find"}, user \in Maybe,
                   users \in SUBSET Users :
                  answers' = Append(answers, Answer(type, user, users))
      PROVE  SessionInv' /\ RequestInv'
  <2>1. \A i \in DOMAIN answers' :
          answers'[i].type # "login" \/ \E j \in DOMAIN answers : answers'[i] = answers[j]
    <3>1. ASSUME NEW type \in {"print", "users", "find"}, NEW user \in Maybe,
                 NEW users \in SUBSET Users,
                 answers' = Append(answers, Answer(type, user, users))
          PROVE  \A i \in DOMAIN answers' :
                   answers'[i].type # "login" \/ \E j \in DOMAIN answers : answers'[i] = answers[j]
      <4>1. PICK a : /\ a = Answer(type, user, users)
                    /\ a \in AnswerType /\ a.type # "login"
        BY AnswerIsTyped
      <4> QED
        BY <1>0, <3>1, <4>1, AppendElements
    <3> QED
      BY <1>5, <3>1
  <2>2. SessionInv'
    BY <1>0, <1>2, <1>5, <2>1 DEF SessionInv
  <2>3. RequestInv'
    BY <1>0, <1>3, <1>5 DEF RequestInv
  <2> QED
    BY <2>2, <2>3
<1>6. Notice = Answer("print", NoUser, {}) /\ NoUser \in Maybe /\ {} \in SUBSET Users
  BY DEF Notice, Maybe
<1>7. CASE ServeLogin
  <2>1. PICK r \in RequestType : r = Head(requests) /\ r.user \in Users
    <3>1. /\ Head(requests) \in RequestType /\ Head(requests).type = "login"
          /\ 1 \in DOMAIN requests /\ Head(requests) = requests[1]
      BY <1>0, <1>7, HandlesRequests DEF ServeLogin, Handles
    <3> QED
      BY <1>0, <3>1 DEF TypeInv, ControlInv
  <2>2. CASE session' = r.user /\ answers' = Append(answers, Answer("login", r.user, {}))
    <3>1. session = NoUser /\ session' # NoUser /\ userId = NoUser
      BY <1>0, <1>7, <2>1, <2>2, NameAssumption DEF ServeLogin, SessionInv
    <3>2. PICK a : /\ a = Answer("login", r.user, {})
                  /\ a \in AnswerType /\ a.user = r.user
      BY <1>6, <2>1, AnswerIsTyped DEF Maybe
    <3>3. \A i \in DOMAIN answers' :
            answers'[i] = a \/ \E j \in DOMAIN answers : answers'[i] = answers[j]
      BY <1>0, <2>2, <3>2, AppendElements
    <3>4. SessionInv'
      BY <1>0, <1>2, <2>2, <3>1, <3>2, <3>3 DEF SessionInv
    <3>5. RequestInv'
      BY <1>0, <1>3, <3>1 DEF RequestInv
    <3> QED
      BY <1>4, <3>4, <3>5
  <2>3. CASE answers' = Append(answers, Notice) /\ UNCHANGED session
    BY <1>4, <1>5, <1>6, <2>3
  <2> QED
    BY <1>7, <2>1, <2>2, <2>3 DEF ServeLogin
<1>8. CASE ServeRegister \/ ServeHistory
  BY <1>4, <1>5, <1>6, <1>8 DEF ServeRegister, ServeHistory, serverVars
<1>9. CASE ServeNothing
  BY <1>4, <1>5, <1>9 DEF ServeNothing, serverVars
<1>10. CASE ServeUsers
  <2>1. PICK users \in getOnlineUsers :
          answers' = Append(answers, Answer("users", NoUser, users))
    BY <1>10 DEF ServeUsers
  <2>2. users \in SUBSET Users
    BY <1>0 DEF getOnlineUsers, TypeInv, TypeOK
  <2> QED
    BY <1>4, <1>5, <1>6, <1>10, <2>1, <2>2 DEF ServeUsers, serverVars
<1>11. CASE ServeFind
  <2>1. Head(requests).text \in Texts
    BY <1>0, <1>11, HandlesRequests DEF ServeFind, RequestType
  <2>2. PICK u \in getUserInfo(Head(requests).text) :
          answers' = Append(answers, Answer("find", u, {}))
    BY <1>11 DEF ServeFind
  <2>3. u \in Maybe
    BY <2>1, NameAssumption DEF getUserInfo, Maybe
  <2> QED
    BY <1>4, <1>5, <1>6, <1>11, <2>2, <2>3 DEF ServeFind
<1> QED
  BY <1>7, <1>8, <1>9, <1>10, <1>11 DEF Server

LEMMA NextIdentityInv ==
  IdentityInv /\ [Next]_vars => IdentityInv'
<1> SUFFICES ASSUME IdentityInv, [Next]_vars
             PROVE  IdentityInv'
    OBVIOUS
<1>0. /\ TypeInv /\ CacheInv /\ SessionInv /\ ReceiverInv /\ RequestInv
      /\ answers \in Seq(AnswerType)
  BY DEF IdentityInv, TypeInv, TypeOK
<1>1. TypeInv' /\ CacheInv'
  BY <1>0, NextTypeInv, NextCacheInv
<1> SUFFICES SessionInv' /\ ReceiverInv' /\ RequestInv'
    BY <1>1 DEF IdentityInv
<1>2. CASE Others
  <2>1. UNCHANGED <<requests, session, userId, main>>
    BY <1>2 DEF Others, known
  <2>2. \A i \in DOMAIN answers' :
          answers'[i].type # "login" \/ \E j \in DOMAIN answers : answers'[i] = answers[j]
    <3>1. PICK a : a = Notice /\ a \in AnswerType /\ a.type # "login"
      BY AnswerIsTyped DEF Notice, Maybe
    <3>2. CASE answers' = Append(answers, Notice)
      BY <1>0, <3>1, <3>2, AppendElements
    <3> QED
      BY <1>2, <3>2 DEF Others
  <2> QED
    BY <1>0, <2>1, <2>2 DEF SessionInv, ReceiverInv, RequestInv, Readings
<1>3. CASE ServerCloses
  <2>1. UNCHANGED <<answers, session, userId, main>> /\ DOMAIN requests' = {}
    BY <1>3, EmptySeq DEF ServerCloses, serverVars, known
  <2> QED
    BY <1>0, <2>1 DEF SessionInv, ReceiverInv, RequestInv, Readings
<1>4. CASE UNCHANGED vars
  BY <1>0, <1>4 DEF vars, serverVars, known, SessionInv, ReceiverInv, RequestInv, Readings
<1> QED
  BY <1>2, <1>3, <1>4, CommandsKeepIdentity, ReceivingKeepsIdentity, ServingKeepsIdentity
     DEF Next

(* Every message and every query for a history goes to a user who may be  *)
(* meant by what was typed, and in the name of the user of the session,    *)
(* however late the answers come.                                          *)
THEOREM ClientSendsAsMeant == Spec => []SentAsMeant
<1>1. Init => IdentityInv
  <2> SUFFICES ASSUME Init
               PROVE  IdentityInv
      OBVIOUS
  <2>1. DOMAIN requests = {} /\ DOMAIN answers = {} /\ main.at = "idle"
    BY NoCommandType DEF Init
  <2> QED
    BY <2>1, InitTypeInv
       DEF Init, IdentityInv, CacheInv, SessionInv, ReceiverInv, RequestInv
<1>2. IdentityInv /\ [Next]_vars => IdentityInv'
  BY NextIdentityInv
<1>3. IdentityInv => SentAsMeant
  BY DEF IdentityInv, RequestInv, SentAsMeant
<1> QED
  BY <1>1, <1>2, <1>3, PTL DEF Spec

=============================================================================
