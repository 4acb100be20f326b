------------------------ MODULE ConnectionPoolProofs ------------------------
(***************************************************************************)
(* Theorems of ConnectionPool, for any number of threads and connections.  *)
(***************************************************************************)
EXTENDS ConnectionPool, QueueLemmas, FiniteSetTheorems, SequenceTheorems, TLAPS

-----------------------------------------------------------------------------
(* Type correctness.                                                       *)

LEMMA InitTypeOK == Init => TypeOK
<1> SUFFICES ASSUME Init
             PROVE  TypeOK
    OBVIOUS
<1> USE ThreadsAssumption DEF Init, AllThreads
<1>1. connections_ \in Seq(Connections) /\ initialized_ \in BOOLEAN
  BY EmptySeq
<1>2. mutex_ = NoThread /\ \A t \in AllThreads : mutex_ # t /\ pc[t] \in {"init", "idle"}
  OBVIOUS
<1>3. \A t \in Threads : pc[t] = "idle" /\ giving[t] = {}
  OBVIOUS
<1> QED
  BY <1>1, <1>2, <1>3 DEF TypeOK

LEMMA NextTypeOK == TypeOK /\ [Next]_vars => TypeOK'
<1> SUFFICES ASSUME TypeOK, [Next]_vars
             PROVE  TypeOK'
    OBVIOUS
<1> USE ThreadsAssumption DEF TypeOK, AllThreads
<1>1. ASSUME NEW c \in Connections, InitOpen(c)
      PROVE  TypeOK'
  BY <1>1 DEF InitOpen
<1>2. ASSUME NEW c \in Connections, InitFail(c)
      PROVE  TypeOK'
  BY <1>2 DEF InitFail
<1>3. CASE InitDone
  BY <1>3 DEF InitDone
<1>4. ASSUME NEW t \in Threads, GetCall(t)
      PROVE  TypeOK'
  BY <1>4 DEF GetCall
<1>5. ASSUME NEW t \in Threads, GetLock(t)
      PROVE  TypeOK'
  BY <1>5 DEF GetLock
<1>6. ASSUME NEW t \in Threads, GetWait(t)
      PROVE  TypeOK'
  BY <1>6 DEF GetWait
<1>7. ASSUME NEW t \in Threads, GetNull(t)
      PROVE  TypeOK'
  BY <1>7 DEF GetNull
<1>8. ASSUME NEW t \in Threads, GetTake(t)
      PROVE  TypeOK'
  <2>1. Head(connections_) \in Connections /\ Tail(connections_) \in Seq(Connections)
    BY <1>8 DEF GetTake
  <2> QED
    BY <1>8, <2>1 DEF GetTake
<1>9. ASSUME NEW t \in Threads, SpuriousWake(t)
      PROVE  TypeOK'
  BY <1>9 DEF SpuriousWake
<1>10. ASSUME NEW t \in Threads, ReturnCall(t)
       PROVE  TypeOK'
  BY <1>10 DEF ReturnCall
<1>11. ASSUME NEW t \in Threads, ReturnLock(t)
       PROVE  TypeOK'
  BY <1>11 DEF ReturnLock
<1>12. ASSUME NEW t \in Threads, Return(t)
       PROVE  TypeOK'
  <2>1. connections_' \in Seq(Connections)
    BY <1>12 DEF Return
  <2>2. PICK next \in {"idle", "using"} : NotifyOne(t, next)
    BY <1>12 DEF Return
  <2>3. CASE pc' = [pc EXCEPT ![t] = next]
    BY <1>12, <2>1, <2>3 DEF Return
  <2>4. CASE \E w \in Waiting : pc' = [pc EXCEPT ![t] = next, ![w] = "getLock"]
    BY <1>12, <2>1, <2>4 DEF Return, Waiting
  <2> QED
    BY <2>2, <2>3, <2>4 DEF NotifyOne
<1>13. CASE CloseLock
  BY <1>13 DEF CloseLock
<1>14. CASE Close
  <2>1. Idle \subseteq Connections /\ << >> \in Seq(Connections)
    BY DEF Idle
  <2> QED
    BY <1>14, <2>1 DEF Close, WakeAll, Waiting
<1>15. CASE UNCHANGED vars
  BY <1>15 DEF vars
<1> QED
  BY <1>1, <1>2, <1>3, <1>4, <1>5, <1>6, <1>7, <1>8, <1>9, <1>10, <1>11, <1>12,
     <1>13, <1>14, <1>15 DEF Next, Locking, Step, Terminated

(* Every reachable state is well typed, and the mutex is held exactly      *)
(* where the code holds it.                                                *)
THEOREM PoolTypeCorrect == Spec => []TypeOK
BY InitTypeOK, NextTypeOK, PTL DEF Spec

-----------------------------------------------------------------------------
(* close leaves nobody asleep: nobody goes to sleep on a closed pool.      *)

ClosedInv == pc[Closer] = "closed" => ~initialized_

CloseInv == TypeOK /\ ClosedInv /\ NobodyWaitsAfterClose

LEMMA NextCloseInv == CloseInv /\ [Next]_vars => CloseInv'
<1> SUFFICES ASSUME CloseInv, [Next]_vars
             PROVE  CloseInv'
    OBVIOUS
<1>1. TypeOK /\ ClosedInv /\ NobodyWaitsAfterClose
  BY DEF CloseInv
<1>2. TypeOK'
  BY <1>1, NextTypeOK
<1> SUFFICES (pc[Closer] = "closed")' => ~initialized_' /\ Waiting' = {}
    BY <1>2 DEF CloseInv, ClosedInv, NobodyWaitsAfterClose
<1> USE ThreadsAssumption, <1>1
    DEF ClosedInv, NobodyWaitsAfterClose, Waiting, TypeOK, AllThreads
<1>3. ASSUME NEW c \in Connections, InitOpen(c) \/ InitFail(c)
      PROVE  (pc[Closer] = "closed")' => ~initialized_' /\ Waiting' = {}
  BY <1>3 DEF InitOpen, InitFail
<1>4. CASE InitDone
  BY <1>4 DEF InitDone
<1>5. ASSUME NEW t \in Threads, GetCall(t) \/ Locking(t) \/ SpuriousWake(t)
      PROVE  (pc[Closer] = "closed")' => ~initialized_' /\ Waiting' = {}
  BY <1>5 DEF GetCall, Locking, GetLock, ReturnLock, SpuriousWake
<1>6. ASSUME NEW t \in Threads, GetWait(t)
      PROVE  (pc[Closer] = "closed")' => ~initialized_' /\ Waiting' = {}
  BY <1>6 DEF GetWait
<1>7. ASSUME NEW t \in Threads, GetNull(t) \/ GetTake(t) \/ ReturnCall(t)
      PROVE  (pc[Closer] = "closed")' => ~initialized_' /\ Waiting' = {}
  BY <1>7 DEF GetNull, GetTake, ReturnCall
<1>8. ASSUME NEW t \in Threads, Return(t)
      PROVE  (pc[Closer] = "closed")' => ~initialized_' /\ Waiting' = {}
  <2>1. PICK next \in {"idle", "using"} : NotifyOne(t, next)
    BY <1>8 DEF Return
  <2>2. CASE pc' = [pc EXCEPT ![t] = next]
    BY <1>8, <2>2 DEF Return
  <2>3. CASE \E w \in Waiting : pc' = [pc EXCEPT ![t] = next, ![w] = "getLock"]
    BY <1>8, <2>3 DEF Return
  <2> QED
    BY <2>1, <2>2, <2>3 DEF NotifyOne
<1>9. CASE CloseLock
  BY <1>9 DEF CloseLock
<1>10. CASE Close
  BY <1>10 DEF Close, WakeAll
<1>11. CASE UNCHANGED vars
  BY <1>11 DEF vars
<1> QED
  BY <1>3, <1>4, <1>5, <1>6, <1>7, <1>8, <1>9, <1>10, <1>11
     DEF Next, Step, Terminated

(* Once close has returned, no thread sleeps in getConnection, whatever it *)
(* was about to do when close began.                                       *)
THEOREM PoolWakesAllOnClose == Spec => []NobodyWaitsAfterClose
<1>1. Init => CloseInv
  BY InitTypeOK DEF CloseInv, ClosedInv, NobodyWaitsAfterClose, Init, AllThreads
<1>2. CloseInv => NobodyWaitsAfterClose
  BY DEF CloseInv
<1> QED
  BY <1>1, <1>2, NextCloseInv, PTL DEF Spec

-----------------------------------------------------------------------------
(* Who holds a connection, and how many.                                   *)

(* Threads and the closer have program points of their own, and before     *)
(* init is done no thread runs.                                            *)
PointsInv ==
  /\ \A t \in Threads : pc[t] \notin {"init", "serving", "close", "closed"}
  /\ pc[Closer] = "init" => \A t \in Threads : pc[t] = "idle"

(* A thread holds connections where the code has them in hand, and asks    *)
(* for one when it has none, or one in getOnlineUsers.                     *)
HeldInv ==
  \A t \in Threads :
    /\ pc[t] = "idle" => held[t] = {}
    /\ pc[t] \in {"using", "putLock", "put"} => held[t] # {}
    /\ pc[t] \in {"getLock", "check", "waiting"} =>
         held[t] = {} \/ (t \in Nesters /\ Cardinality(held[t]) = 1)
    /\ Cardinality(held[t]) <= (IF t \in Nesters THEN 2 ELSE 1)

(* It is about to return one of those it holds.                            *)
GivingInv ==
  \A t \in Threads : giving[t] # {} => \E c \in held[t] : giving[t] = {c}

OwnInv == TypeOK /\ PointsInv /\ HeldInv /\ GivingInv

LEMMA NextPointsInv == TypeOK /\ PointsInv /\ [Next]_vars => PointsInv'
<1> SUFFICES ASSUME TypeOK, PointsInv, [Next]_vars
             PROVE  PointsInv'
    OBVIOUS
<1> USE ThreadsAssumption DEF PointsInv, TypeOK, AllThreads
<1>1. ASSUME NEW c \in Connections, InitOpen(c) \/ InitFail(c)
      PROVE  PointsInv'
  BY <1>1 DEF InitOpen, InitFail
<1>2. CASE InitDone
  BY <1>2 DEF InitDone
<1>3. ASSUME NEW t \in Threads, GetCall(t) \/ Locking(t) \/ SpuriousWake(t)
      PROVE  PointsInv'
  BY <1>3 DEF GetCall, Locking, GetLock, ReturnLock, SpuriousWake
<1>4. ASSUME NEW t \in Threads, GetWait(t) \/ GetTake(t) \/ ReturnCall(t)
      PROVE  PointsInv'
  BY <1>4 DEF GetWait, GetTake, ReturnCall
<1>5. ASSUME NEW t \in Threads, GetNull(t)
      PROVE  PointsInv'
  BY <1>5 DEF GetNull
<1>6. ASSUME NEW t \in Threads, Return(t)
      PROVE  PointsInv'
  <2>1. PICK next \in {"idle", "using"} : NotifyOne(t, next)
    BY <1>6 DEF Return
  <2>2. CASE pc' = [pc EXCEPT ![t] = next]
    BY <1>6, <2>2 DEF Return
  <2>3. CASE \E w \in Waiting : pc' = [pc EXCEPT ![t] = next, ![w] = "getLock"]
    BY <1>6, <2>3 DEF Return, Waiting
  <2> QED
    BY <2>1, <2>2, <2>3 DEF NotifyOne
<1>7. CASE CloseLock
  BY <1>7 DEF CloseLock
<1>8. CASE Close
  BY <1>8 DEF Close, WakeAll, Waiting
<1>9. CASE UNCHANGED vars
  BY <1>9 DEF vars
<1> QED
  BY <1>1, <1>2, <1>3, <1>4, <1>5, <1>6, <1>7, <1>8, <1>9
     DEF Next, Step, Terminated

(* A finite set that gains or loses one element.                           *)
LEMMA CountHeld ==
  ASSUME NEW S \in SUBSET Connections, NEW c \in Connections
  PROVE  /\ Cardinality(S) \in Nat
         /\ c \notin S => Cardinality(S \cup {c}) = Cardinality(S) + 1
         /\ c \in S => Cardinality(S \ {c}) = Cardinality(S) - 1
         /\ Cardinality(S) = 0 <=> S = {}
BY ConnectionsAssumption, FS_Subset, FS_AddElement, FS_RemoveElement,
   FS_EmptySet, FS_CardinalityType

LEMMA NextGivingInv == TypeOK /\ GivingInv /\ [Next]_vars => GivingInv'
<1> SUFFICES ASSUME TypeOK, GivingInv, [Next]_vars
             PROVE  GivingInv'
    OBVIOUS
<1> USE DEF GivingInv, TypeOK
<1>1. ASSUME UNCHANGED <<held, giving>>
      PROVE  GivingInv'
  BY <1>1
<1>2. ASSUME NEW t \in Threads, GetTake(t)
      PROVE  GivingInv'
  BY <1>2 DEF GetTake
<1>3. ASSUME NEW t \in Threads, ReturnCall(t)
      PROVE  GivingInv'
  BY <1>3 DEF ReturnCall
<1>4. ASSUME NEW t \in Threads, Return(t)
      PROVE  GivingInv'
  BY <1>4 DEF Return
<1> QED
  BY <1>1, <1>2, <1>3, <1>4
     DEF Next, Step, Locking, Terminated, vars, InitOpen, InitFail, InitDone, GetCall,
         GetLock, GetWait, GetNull, SpuriousWake, ReturnLock, CloseLock, Close

LEMMA NextHeldInv == OwnInv /\ TypeOK' /\ [Next]_vars => HeldInv'
<1> SUFFICES ASSUME OwnInv, TypeOK', [Next]_vars
             PROVE  HeldInv'
    OBVIOUS
<1>0. /\ TypeOK /\ HeldInv /\ GivingInv
      /\ held \in [Threads -> SUBSET Connections]
      /\ pc \in [AllThreads -> {"init", "serving", "close", "closed", "idle", "getLock",
                                "check", "waiting", "using", "putLock", "put"}]
      /\ Threads \subseteq AllThreads /\ Closer \notin Threads
  BY ThreadsAssumption DEF OwnInv, TypeOK, AllThreads
<1>1. ASSUME UNCHANGED <<held, pc>>
      PROVE  HeldInv'
  BY <1>0, <1>1 DEF HeldInv
<1>2. ASSUME InitDone \/ CloseLock
      PROVE  HeldInv'
  BY <1>0, <1>2 DEF HeldInv, InitDone, CloseLock
<1>3. ASSUME NEW t \in Threads, GetCall(t)
      PROVE  HeldInv'
  BY <1>0, <1>3 DEF HeldInv, GetCall
<1>4. ASSUME NEW t \in Threads, GetLock(t) \/ GetWait(t) \/ SpuriousWake(t)
      PROVE  HeldInv'
  BY <1>0, <1>4 DEF HeldInv, GetLock, GetWait, SpuriousWake
<1>5. ASSUME NEW t \in Threads, GetNull(t)
      PROVE  HeldInv'
  BY <1>0, <1>5 DEF HeldInv, GetNull
<1>6. ASSUME NEW t \in Threads, ReturnCall(t) \/ ReturnLock(t)
      PROVE  HeldInv'
  BY <1>0, <1>6 DEF HeldInv, ReturnCall, ReturnLock
<1>7. ASSUME NEW t \in Threads, GetTake(t)
      PROVE  HeldInv'
  <2>1. /\ pc[t] = "check" /\ pc' = [pc EXCEPT ![t] = "using"]
        /\ held' = [held EXCEPT ![t] = @ \cup {Head(connections_)}]
        /\ Head(connections_) \in Connections
    BY <1>0, <1>7 DEF GetTake, TypeOK
  <2>2. PICK c \in Connections : held' = [held EXCEPT ![t] = @ \cup {c}]
    BY <2>1
  <2>3. held[t] = {} \/ (t \in Nesters /\ Cardinality(held[t]) = 1)
    BY <1>0, <2>1 DEF HeldInv
  <2>4. /\ Cardinality(held[t]) \in Nat
        /\ held[t] = {} => Cardinality(held[t]) = 0
        /\ c \notin held[t] => Cardinality(held[t] \cup {c}) = Cardinality(held[t]) + 1
        /\ c \in held[t] => held[t] \cup {c} = held[t]
    BY <1>0, CountHeld
  <2>5. Cardinality(held[t] \cup {c}) <= (IF t \in Nesters THEN 2 ELSE 1)
    <3>1. CASE held[t] = {}
      <4>1. Cardinality(held[t] \cup {c}) = 0 + 1
        BY <2>4, <3>1
      <4> QED
        BY <4>1
    <3>2. CASE t \in Nesters /\ Cardinality(held[t]) = 1
      <4>1. Cardinality(held[t] \cup {c}) \in {1, 1 + 1}
        BY <2>4, <3>2
      <4> QED
        BY <3>2, <4>1
    <3> QED
      BY <2>3, <3>1, <3>2
  <2> QED
    BY <1>0, <2>1, <2>2, <2>5 DEF HeldInv
<1>8. ASSUME NEW t \in Threads, Return(t)
      PROVE  HeldInv'
  <2>1. PICK next \in {"idle", "using"} :
          NotifyOne(t, next) /\ next = (IF held[t] = giving[t] THEN "idle" ELSE "using")
    BY <1>8 DEF Return
  <2>2. PICK c \in held[t] : giving[t] = {c}
    BY <1>0, <1>8 DEF GivingInv, Return, TypeOK
  <2>3. held' = [held EXCEPT ![t] = @ \ {c}] /\ pc[t] = "put"
    BY <1>8, <2>2 DEF Return
  <2>4. Cardinality(held[t] \ {c}) <= (IF t \in Nesters THEN 2 ELSE 1)
    <3>1. Cardinality(held[t] \ {c}) = Cardinality(held[t]) - 1 /\ Cardinality(held[t]) \in Nat
      BY <1>0, <2>2, CountHeld
    <3>2. Cardinality(held[t]) <= (IF t \in Nesters THEN 2 ELSE 1)
      BY <1>0 DEF HeldInv
    <3> QED
      BY <3>1, <3>2
  <2>5. (next = "idle" => held[t] \ {c} = {}) /\ (next = "using" => held[t] \ {c} # {})
    BY <2>1, <2>2
  <2>6. CASE pc' = [pc EXCEPT ![t] = next]
    BY <1>0, <2>1, <2>3, <2>4, <2>5, <2>6 DEF HeldInv
  <2>7. CASE \E w \in Waiting : pc' = [pc EXCEPT ![t] = next, ![w] = "getLock"]
    BY <1>0, <2>1, <2>3, <2>4, <2>5, <2>7 DEF HeldInv, Waiting
  <2> QED
    BY <2>1, <2>6, <2>7 DEF NotifyOne
<1>9. CASE Close
  BY <1>0, <1>9 DEF HeldInv, Close, WakeAll, Waiting
<1> QED
  BY <1>1, <1>2, <1>3, <1>4, <1>5, <1>6, <1>7, <1>8, <1>9
     DEF Next, Step, Locking, Terminated, vars, InitOpen, InitFail

LEMMA SpecOwnInv == Spec => []OwnInv
<1>1. Init => OwnInv
  <2> SUFFICES ASSUME Init
               PROVE  OwnInv
      OBVIOUS
  <2>1. \A t \in Threads : held[t] = {} /\ giving[t] = {} /\ pc[t] = "idle"
    BY ThreadsAssumption DEF Init, AllThreads
  <2> QED
    BY <2>1, InitTypeOK, FS_EmptySet DEF OwnInv, PointsInv, HeldInv, GivingInv
<1>2. OwnInv /\ [Next]_vars => OwnInv'
  BY NextTypeOK, NextPointsInv, NextHeldInv, NextGivingInv DEF OwnInv
<1> QED
  BY <1>1, <1>2, PTL DEF Spec

-----------------------------------------------------------------------------
(* Connections are neither shared nor lost.                                *)

QueueInv == \A i, j \in DOMAIN connections_ : connections_[i] = connections_[j] => i = j

OpeningInv == pc[Closer] = "init" => dropped = {} /\ Idle \cap failed = {}

PlacesInv ==
  /\ pc[Closer] # "init" => Idle \cup Held \cup dropped = Connections \ failed
  /\ Idle \cap Held = {} /\ Idle \cap dropped = {} /\ Held \cap dropped = {}
  /\ Cardinality(Idle) = Len(connections_)
  /\ \A t, u \in Threads : t # u => held[t] \cap held[u] = {}

ExclusiveInv == QueueInv /\ OpeningInv /\ PlacesInv

LEMMA IdleFacts ==
  TypeOK => /\ Idle \in SUBSET Connections /\ IsFiniteSet(Idle) /\ Cardinality(Idle) \in Nat
            /\ Len(connections_) \in Nat
<1> SUFFICES ASSUME TypeOK
             PROVE  /\ Idle \in SUBSET Connections /\ IsFiniteSet(Idle)
                    /\ Cardinality(Idle) \in Nat /\ Len(connections_) \in Nat
    OBVIOUS
<1>1. Idle \in SUBSET Connections /\ Len(connections_) \in Nat
  BY DEF TypeOK, Idle
<1> QED
  BY <1>1, ConnectionsAssumption, FS_Subset, FS_CardinalityType

(* A connection that enters the queue at its end.                          *)
LEMMA PushIdle ==
  ASSUME TypeOK, QueueInv, NEW c \in Connections, c \notin Idle,
         connections_' = Append(connections_, c)
  PROVE  /\ QueueInv' /\ Idle' = Idle \cup {c}
         /\ Cardinality(Idle') = Cardinality(Idle) + 1
         /\ Len(connections_') = Len(connections_) + 1
<1>1. connections_ \in Seq(Connections)
  BY DEF TypeOK
<1>2. Idle' = Idle \cup {c}
  BY <1>1, RangeOfAppend DEF Idle
<1>3. QueueInv'
  BY <1>1, AppendKeepsDistinct DEF QueueInv, Idle
<1>4. Cardinality(Idle \cup {c}) = Cardinality(Idle) + 1
  BY IdleFacts, FS_AddElement
<1> QED
  BY <1>1, <1>2, <1>3, <1>4

(* The connection that leaves the queue at its front.                      *)
LEMMA PopIdle ==
  ASSUME TypeOK, QueueInv, connections_ # << >>, connections_' = Tail(connections_)
  PROVE  /\ Head(connections_) \in Idle
         /\ QueueInv' /\ Idle' = Idle \ {Head(connections_)}
         /\ Cardinality(Idle') = Cardinality(Idle) - 1
         /\ Len(connections_') = Len(connections_) - 1
<1>1. connections_ \in Seq(Connections)
  BY DEF TypeOK
<1>2. \A i, j \in DOMAIN connections_ : connections_[i] = connections_[j] => i = j
  BY DEF QueueInv
<1>3. /\ Head(connections_) \in {connections_[i] : i \in DOMAIN connections_}
      /\ {Tail(connections_)[i] : i \in DOMAIN Tail(connections_)} =
           {connections_[i] : i \in DOMAIN connections_} \ {Head(connections_)}
      /\ \A i, j \in DOMAIN Tail(connections_) :
           Tail(connections_)[i] = Tail(connections_)[j] => i = j
  BY <1>1, <1>2, RangeOfTail
<1>4. Head(connections_) \in Idle
  BY <1>3 DEF Idle
<1>5. Idle' = Idle \ {Head(connections_)}
  BY <1>3 DEF Idle
<1>6. QueueInv'
  BY <1>3 DEF QueueInv
<1>7. Cardinality(Idle') = Cardinality(Idle) - 1
  BY <1>4, <1>5, IdleFacts, FS_RemoveElement
<1>8. Len(connections_') = Len(connections_) - 1
  BY <1>1
<1> QED
  BY <1>4, <1>5, <1>6, <1>7, <1>8

LEMMA NextExclusiveInv == OwnInv /\ ExclusiveInv /\ [Next]_vars => ExclusiveInv'
<1> SUFFICES ASSUME OwnInv, ExclusiveInv, [Next]_vars
             PROVE  ExclusiveInv'
    OBVIOUS
<1>0. /\ TypeOK /\ PointsInv /\ HeldInv /\ GivingInv
      /\ QueueInv /\ OpeningInv /\ PlacesInv
      /\ connections_ \in Seq(Connections)
      /\ held \in [Threads -> SUBSET Connections]
      /\ pc \in [AllThreads -> {"init", "serving", "close", "closed", "idle", "getLock",
                                "check", "waiting", "using", "putLock", "put"}]
      /\ Threads \subseteq AllThreads /\ Closer \in AllThreads \ Threads
  BY ThreadsAssumption DEF OwnInv, ExclusiveInv, TypeOK, AllThreads
<1>1. ASSUME UNCHANGED <<connections_, held, dropped, failed>>,
             (pc[Closer] = "init")' <=> pc[Closer] = "init"
      PROVE  ExclusiveInv'
  <2>1. Idle' = Idle /\ Held' = Held
    BY <1>1 DEF Idle, Held
  <2> QED
    BY <1>0, <1>1, <2>1 DEF ExclusiveInv, QueueInv, OpeningInv, PlacesInv
<1>2. ASSUME NEW c \in Connections, InitOpen(c)
      PROVE  ExclusiveInv'
  <2>1. \A t \in Threads : held[t] = {}
    BY <1>0, <1>2 DEF InitOpen, PointsInv, HeldInv
  <2>2. Held = {} /\ Held' = {}
    BY <1>2, <2>1 DEF Held, InitOpen
  <2>3. /\ QueueInv' /\ Idle' = Idle \cup {c}
        /\ Cardinality(Idle') = Len(connections_')
    BY <1>0, <1>2, PushIdle DEF InitOpen, PlacesInv
  <2> QED
    BY <1>0, <1>2, <2>1, <2>2, <2>3 DEF InitOpen, ExclusiveInv, OpeningInv, PlacesInv
<1>3. ASSUME NEW c \in Connections, InitFail(c)
      PROVE  ExclusiveInv'
  <2>1. Idle' = Idle /\ Held' = Held
    BY <1>3 DEF Idle, Held, InitFail
  <2> QED
    BY <1>0, <1>3, <2>1 DEF InitFail, ExclusiveInv, QueueInv, OpeningInv, PlacesInv
<1>4. CASE InitDone
  <2>1. \A t \in Threads : held[t] = {}
    BY <1>0, <1>4 DEF InitDone, PointsInv, HeldInv
  <2>2. Held = {} /\ Held' = Held /\ Idle' = Idle
    BY <1>4, <2>1 DEF Held, Idle, InitDone
  <2>3. Idle \cup Held \cup dropped = Connections \ failed
    BY <1>0, <1>4, <2>2 DEF InitDone, OpeningInv
  <2> QED
    BY <1>0, <1>4, <2>2, <2>3
       DEF InitDone, ExclusiveInv, QueueInv, OpeningInv, PlacesInv
<1>5. ASSUME NEW t \in Threads, GetTake(t)
      PROVE  ExclusiveInv'
  <2>1. PICK c \in Connections : c = Head(connections_)
    BY <1>0, <1>5 DEF GetTake
  <2>2. /\ c \in Idle /\ Idle' = Idle \ {c} /\ QueueInv'
        /\ Cardinality(Idle') = Len(connections_')
    <3>1. connections_ # << >> /\ connections_' = Tail(connections_)
      BY <1>5 DEF GetTake
    <3> QED
      BY <1>0, <2>1, <3>1, PopIdle DEF PlacesInv
  <2>3. /\ held' = [held EXCEPT ![t] = @ \cup {c}]
        /\ UNCHANGED <<dropped, failed>>
    BY <1>5, <2>1 DEF GetTake
  <2>4. Held' = Held \cup {c}
    BY <1>0, <2>3 DEF Held
  <2>5. c \notin Held /\ c \notin dropped
    BY <1>0, <2>2 DEF PlacesInv
  <2>6. \A u, v \in Threads : u # v => held'[u] \cap held'[v] = {}
    BY <1>0, <2>3, <2>5 DEF PlacesInv, Held
  <2>7. pc[Closer] # "init" /\ pc'[Closer] # "init"
    BY <1>0, <1>5 DEF GetTake, PointsInv
  <2>8. (Idle \cup Held \cup dropped = Connections \ failed)'
    BY <1>0, <2>2, <2>3, <2>4, <2>7 DEF PlacesInv
  <2>9. PlacesInv'
    BY <1>0, <2>2, <2>3, <2>4, <2>5, <2>6, <2>8 DEF PlacesInv
  <2> QED
    BY <2>2, <2>7, <2>9 DEF ExclusiveInv, OpeningInv
<1>6. ASSUME NEW t \in Threads, Return(t)
      PROVE  ExclusiveInv'
  <2>1. PICK c \in held[t] : giving[t] = {c}
    BY <1>0, <1>6 DEF GivingInv, Return, TypeOK
  <2>2. /\ held' = [held EXCEPT ![t] = @ \ {c}]
        /\ connections_' = Append(connections_, c)
        /\ pc[t] = "put" /\ UNCHANGED <<dropped, failed>>
    BY <1>6, <2>1 DEF Return
  <2>3. c \in Connections /\ c \in Held
    BY <1>0, <2>1 DEF Held
  <2>4. c \notin Idle /\ c \notin dropped
    BY <1>0, <2>3 DEF PlacesInv
  <2>5. /\ QueueInv' /\ Idle' = Idle \cup {c}
        /\ Cardinality(Idle') = Len(connections_')
    BY <1>0, <2>2, <2>3, <2>4, PushIdle DEF PlacesInv
  <2>6. \A u \in Threads : u # t => c \notin held[u]
    BY <1>0, <2>1 DEF PlacesInv
  <2>7. Held' = Held \ {c}
    BY <1>0, <2>2, <2>6 DEF Held
  <2>8. \A u, v \in Threads : u # v => held'[u] \cap held'[v] = {}
    BY <1>0, <2>2 DEF PlacesInv
  <2>9. pc[Closer] # "init" /\ pc'[Closer] # "init"
    <3>1. pc[Closer] # "init"
      BY <1>0, <2>2 DEF PointsInv
    <3>2. PICK next \in {"idle", "using"} : NotifyOne(t, next)
      BY <1>6 DEF Return
    <3> QED
      BY <1>0, <3>1, <3>2 DEF NotifyOne, Waiting
  <2> QED
    BY <1>0, <2>2, <2>3, <2>4, <2>5, <2>7, <2>8, <2>9
       DEF ExclusiveInv, OpeningInv, PlacesInv
<1>7. CASE Close
  <2>1. Idle' = {} /\ Held' = Held /\ connections_' = << >> /\ dropped' = dropped \cup Idle
    BY <1>7 DEF Close, Idle, Held
  <2>2. Cardinality(Idle') = Len(connections_')
    BY <2>1, FS_EmptySet
  <2>3. pc[Closer] # "init" /\ pc'[Closer] # "init"
    BY <1>0, <1>7 DEF Close, WakeAll
  <2>4. UNCHANGED <<held, failed>>
    BY <1>7 DEF Close
  <2> QED
    BY <1>0, <2>1, <2>2, <2>3, <2>4
       DEF ExclusiveInv, QueueInv, OpeningInv, PlacesInv
<1>8. ASSUME NEW t \in Threads, \/ GetCall(t) \/ Locking(t) \/ SpuriousWake(t)
                                \/ GetWait(t) \/ GetNull(t) \/ ReturnCall(t)
      PROVE  ExclusiveInv'
  BY <1>0, <1>1, <1>8 DEF GetCall, Locking, GetLock, ReturnLock, SpuriousWake, GetWait,
                          GetNull, ReturnCall
<1>9. CASE CloseLock
  BY <1>0, <1>1, <1>9 DEF CloseLock
<1>10. CASE UNCHANGED vars
  BY <1>1, <1>10 DEF vars
<1> QED
  BY <1>2, <1>3, <1>4, <1>5, <1>6, <1>7, <1>8, <1>9, <1>10 DEF Next, Step, Terminated

LEMMA SpecExclusiveInv == Spec => [](OwnInv /\ ExclusiveInv)
<1>1. Init => ExclusiveInv
  <2> SUFFICES ASSUME Init
               PROVE  ExclusiveInv
      OBVIOUS
  <2>1. /\ connections_ = << >> /\ dropped = {} /\ pc[Closer] = "init"
        /\ \A t \in Threads : held[t] = {}
    BY DEF Init, AllThreads
  <2>2. Idle = {} /\ Held = {}
    BY <2>1 DEF Idle, Held
  <2> QED
    BY <2>1, <2>2, FS_EmptySet DEF ExclusiveInv, QueueInv, OpeningInv, PlacesInv
<1> QED
  BY <1>1, SpecOwnInv, NextExclusiveInv, PTL DEF Spec

(* A connection is idle in the queue once, drawn by one thread, or         *)
(* destroyed by close; a thread draws a second one only in getOnlineUsers. *)
THEOREM PoolConnectionsExclusive == Spec => []ConnectionsExclusive
<1>1. OwnInv /\ ExclusiveInv => ConnectionsExclusive
  BY DEF OwnInv, HeldInv, ExclusiveInv, PlacesInv, ConnectionsExclusive
<1> QED
  BY <1>1, SpecExclusiveInv, PTL

-----------------------------------------------------------------------------
(* Nobody waits while a connection is idle.                                *)

Coming == {t \in Threads : pc[t] \in {"getLock", "check"}}

LEMMA ComingFinite == /\ IsFiniteSet(Coming) /\ Cardinality(Coming) \in Nat
                      /\ IsFiniteSet(Coming') /\ Cardinality(Coming') \in Nat
<1>1. Coming \subseteq Threads /\ Coming' \subseteq Threads
  BY DEF Coming
<1> QED
  BY <1>1, ThreadsAssumption, FS_Subset, FS_CardinalityType

LEMMA NextNoIdleConnection ==
  TypeOK /\ PointsInv /\ NoIdleConnection /\ [Next]_vars => NoIdleConnection'
<1> SUFFICES ASSUME TypeOK, PointsInv, NoIdleConnection, [Next]_vars,
                    Waiting' # {}, initialized_'
             PROVE  Len(connections_') <= Cardinality(Coming')
    BY DEF NoIdleConnection, Coming
<1>0. /\ connections_ \in Seq(Connections) /\ Len(connections_) \in Nat
      /\ pc \in [AllThreads -> {"init", "serving", "close", "closed", "idle", "getLock",
                                "check", "waiting", "using", "putLock", "put"}]
      /\ Threads \subseteq AllThreads /\ Closer \notin Threads
      /\ Waiting # {} /\ initialized_ => Len(connections_) <= Cardinality(Coming)
  BY ThreadsAssumption DEF TypeOK, NoIdleConnection, Coming, AllThreads
<1> USE ComingFinite
<1>1. ASSUME Waiting' \subseteq Waiting, UNCHANGED <<connections_, initialized_>>,
             Coming' = Coming \/ \E t \in Threads : t \notin Coming /\ Coming' = Coming \cup {t}
      PROVE  Len(connections_') <= Cardinality(Coming')
  <2>1. Cardinality(Coming) <= Cardinality(Coming')
    BY <1>1, FS_AddElement
  <2> QED
    BY <1>0, <1>1, <2>1
<1>2. ASSUME NEW c \in Connections, InitOpen(c) \/ InitFail(c)
      PROVE  Len(connections_') <= Cardinality(Coming')
  BY <1>2 DEF InitOpen, InitFail, PointsInv, Waiting
<1>3. CASE InitDone
  BY <1>0, <1>3 DEF InitDone, PointsInv, Waiting
<1>4. ASSUME NEW t \in Threads, GetCall(t) \/ SpuriousWake(t)
      PROVE  Len(connections_') <= Cardinality(Coming')
  <2>1. /\ Waiting' \subseteq Waiting /\ t \notin Coming /\ Coming' = Coming \cup {t}
        /\ UNCHANGED <<connections_, initialized_>>
    BY <1>0, <1>4 DEF GetCall, SpuriousWake, Waiting, Coming
  <2> QED
    BY <1>1, <2>1
<1>5. ASSUME NEW t \in Threads, Locking(t)
      PROVE  Len(connections_') <= Cardinality(Coming')
  <2>1. /\ Waiting' \subseteq Waiting /\ Coming' = Coming
        /\ UNCHANGED <<connections_, initialized_>>
    BY <1>0, <1>5 DEF Locking, GetLock, ReturnLock, Waiting, Coming
  <2> QED
    BY <1>1, <2>1
<1>6. ASSUME NEW t \in Threads, GetWait(t) \/ GetNull(t)
      PROVE  Len(connections_') <= Cardinality(Coming')
  <2>1. connections_ = << >> /\ connections_' = << >>
    BY <1>6 DEF GetWait, GetNull
  <2>2. Len(connections_') = 0
    BY <2>1
  <2> QED
    BY <2>2
<1>7. ASSUME NEW t \in Threads, GetTake(t)
      PROVE  Len(connections_') <= Cardinality(Coming')
  <2>1. Waiting' = Waiting /\ t \in Coming /\ Coming' = Coming \ {t} /\ initialized_
    BY <1>0, <1>7 DEF GetTake, Waiting, Coming
  <2>2. Len(connections_') = Len(connections_) - 1
    BY <1>0, <1>7 DEF GetTake
  <2>3. Cardinality(Coming') = Cardinality(Coming) - 1
    BY <2>1, FS_RemoveElement
  <2> QED
    BY <1>0, <2>1, <2>2, <2>3
<1>8. ASSUME NEW t \in Threads, ReturnCall(t)
      PROVE  Len(connections_') <= Cardinality(Coming')
  <2>1. /\ Waiting' \subseteq Waiting /\ Coming' = Coming
        /\ UNCHANGED <<connections_, initialized_>>
    BY <1>0, <1>8 DEF ReturnCall, Waiting, Coming
  <2> QED
    BY <1>1, <2>1
<1>9. ASSUME NEW t \in Threads, Return(t)
      PROVE  Len(connections_') <= Cardinality(Coming')
  <2>1. PICK next \in {"idle", "using"} : NotifyOne(t, next)
    BY <1>9 DEF Return
  <2>2. pc[t] = "put" /\ initialized_
    BY <1>9 DEF Return
  <2>3. Waiting # {}
    BY <1>0, <2>1, <2>2 DEF NotifyOne, Waiting
  <2>4. PICK w \in Waiting : pc' = [pc EXCEPT ![t] = next, ![w] = "getLock"]
    BY <2>1, <2>3 DEF NotifyOne
  <2>5. w \in Threads /\ w \notin Coming /\ Coming' = Coming \cup {w}
    BY <1>0, <2>2, <2>4 DEF Waiting, Coming
  <2>6. Cardinality(Coming') = Cardinality(Coming) + 1
    BY <2>5, FS_AddElement
  <2>7. Len(connections_') = Len(connections_) + 1
    <3>1. PICK c \in Connections : connections_' = Append(connections_, c)
      BY <1>9 DEF Return, TypeOK
    <3> QED
      BY <1>0, <3>1
  <2> QED
    BY <1>0, <2>2, <2>3, <2>6, <2>7
<1>10. CASE CloseLock
  <2>1. Waiting' = Waiting /\ Coming' = Coming /\ UNCHANGED <<connections_, initialized_>>
    BY <1>0, <1>10 DEF CloseLock, Waiting, Coming
  <2> QED
    BY <1>1, <2>1
<1>11. CASE Close
  BY <1>11 DEF Close
<1>12. CASE UNCHANGED vars
  <2>1. Waiting' = Waiting /\ Coming' = Coming /\ UNCHANGED <<connections_, initialized_>>
    BY <1>12 DEF vars, Waiting, Coming
  <2> QED
    BY <1>1, <2>1
<1> QED
  BY <1>2, <1>3, <1>4, <1>5, <1>6, <1>7, <1>8, <1>9, <1>10, <1>11, <1>12
     DEF Next, Step, Terminated

(* While an operation waits for a connection, every idle connection has a  *)
(* thread on its way to it: returnConnection loses no wakeup.              *)
THEOREM PoolNoIdleConnection == Spec => []NoIdleConnection
<1>1. Init => NoIdleConnection
  BY DEF Init, NoIdleConnection
<1>2. OwnInv /\ NoIdleConnection /\ [Next]_vars => NoIdleConnection'
  BY NextNoIdleConnection DEF OwnInv
<1> QED
  BY <1>1, <1>2, SpecOwnInv, PTL DEF Spec

-----------------------------------------------------------------------------
(* The pool does not seize up.                                             *)

(* What init has left, and that close comes last.                          *)
OpenedInv ==
  /\ pc[Closer] \in {"init", "serving", "close", "closed"}
  /\ pc[Closer] \in {"serving", "close"} => initialized_
  /\ pc[Closer] # "closed" => dropped = {}
  /\ Cardinality(failed) <= Cardinality(Connections) - MinOpened

LEMMA NextOpenedInv == TypeOK /\ PointsInv /\ OpenedInv /\ [Next]_vars => OpenedInv'
<1> SUFFICES ASSUME TypeOK, PointsInv, OpenedInv, [Next]_vars
             PROVE  OpenedInv'
    OBVIOUS
<1> USE ThreadsAssumption DEF TypeOK, AllThreads, OpenedInv
<1>1. ASSUME NEW c \in Connections, InitOpen(c)
      PROVE  OpenedInv'
  BY <1>1 DEF InitOpen
<1>2. ASSUME NEW c \in Connections, InitFail(c)
      PROVE  OpenedInv'
  <2>1. Cardinality(failed') = Cardinality(failed) + 1
    BY <1>2, CountHeld DEF InitFail
  <2>2. Cardinality(failed) \in Nat /\ Cardinality(Connections) \in Nat /\ MinOpened \in Nat
    BY ConnectionsAssumption, FS_Subset, FS_CardinalityType
  <2> QED
    BY <1>2, <2>1, <2>2 DEF InitFail
<1>3. CASE InitDone
  BY <1>3 DEF InitDone
<1>4. ASSUME NEW t \in Threads,
             GetCall(t) \/ GetLock(t) \/ GetWait(t) \/ SpuriousWake(t) \/ ReturnCall(t) \/ ReturnLock(t)
      PROVE  OpenedInv'
  BY <1>4 DEF GetCall, GetLock, GetWait, SpuriousWake, ReturnCall, ReturnLock
<1>5. ASSUME NEW t \in Threads, GetNull(t) \/ GetTake(t)
      PROVE  OpenedInv'
  BY <1>5 DEF GetNull, GetTake
<1>6. ASSUME NEW t \in Threads, Return(t)
      PROVE  OpenedInv'
  <2>1. PICK next \in {"idle", "using"} : NotifyOne(t, next)
    BY <1>6 DEF Return
  <2>2. pc'[Closer] = pc[Closer]
    BY <2>1 DEF NotifyOne, Waiting
  <2> QED
    BY <1>6, <2>2 DEF Return
<1>7. CASE CloseLock
  BY <1>7 DEF CloseLock
<1>8. CASE Close
  BY <1>8 DEF Close, WakeAll, Waiting
<1>9. CASE UNCHANGED vars
  BY <1>9 DEF vars
<1> QED
  BY <1>1, <1>2, <1>3, <1>4, <1>5, <1>6, <1>7, <1>8, <1>9
     DEF Next, Locking, Step, Terminated

(* While an operation waits, some thread is at work and not waiting too.   *)
SomebodyGoes == Waiting # {} => \E t \in Threads : pc[t] \notin {"idle", "waiting"}

LEMMA EnoughConnections ==
  ASSUME OwnInv, ExclusiveInv, OpenedInv, NoIdleConnection, NobodyWaitsAfterClose,
         Cardinality(Nesters) < MinOpened
  PROVE  SomebodyGoes
<1> SUFFICES ASSUME Waiting # {}, \A t \in Threads : pc[t] \in {"idle", "waiting"}
             PROVE  FALSE
    BY DEF SomebodyGoes
<1>1. initialized_ /\ dropped = {} /\ pc[Closer] # "init"
  BY DEF OwnInv, PointsInv, OpenedInv, NobodyWaitsAfterClose, Waiting
<1>2. Idle = {}
  <2>1. {t \in Threads : pc[t] \in {"getLock", "check"}} = {}
    OBVIOUS
  <2>2. Len(connections_) <= 0
    BY <1>1, <2>1, FS_EmptySet DEF NoIdleConnection
  <2>3. Len(connections_) = 0 /\ DOMAIN connections_ = 1 .. Len(connections_)
    BY <2>2 DEF OwnInv, TypeOK
  <2> QED
    BY <2>3 DEF Idle
<1>3. Held = Connections \ failed
  BY <1>1, <1>2 DEF ExclusiveInv, PlacesInv
<1>4. /\ IsFiniteSet(Held) /\ Cardinality(Held) = Cardinality(Connections) - Cardinality(failed)
      /\ MinOpened <= Cardinality(Held)
  <2>1. failed \subseteq Connections /\ Connections \cap failed = failed
    BY DEF OwnInv, TypeOK
  <2>2. /\ IsFiniteSet(Connections \ failed)
        /\ Cardinality(Connections \ failed)
             = Cardinality(Connections) - Cardinality(Connections \cap failed)
    BY ConnectionsAssumption, FS_Difference
  <2>3. Cardinality(failed) \in Nat
    BY <2>1, ConnectionsAssumption, FS_Subset, FS_CardinalityType
  <2>4. Cardinality(Connections) \in Nat /\ MinOpened \in Nat
    BY ConnectionsAssumption, FS_CardinalityType
  <2>5. Cardinality(Connections \cap failed) = Cardinality(failed)
    BY <2>1
  <2>6. Cardinality(failed) <= Cardinality(Connections) - MinOpened
    BY DEF OpenedInv
  <2>7. Cardinality(Held) = Cardinality(Connections \ failed) /\ IsFiniteSet(Held)
    BY <1>3, <2>2
  <2> QED
    BY <2>2, <2>3, <2>4, <2>5, <2>6, <2>7
<1> DEFINE holder == [c \in Held |-> CHOOSE t \in Threads : c \in held[t]]
<1>5. ASSUME NEW c \in Held
      PROVE  /\ holder[c] \in Nesters /\ c \in held[holder[c]]
             /\ Cardinality(held[holder[c]]) = 1
  <2>1. holder[c] \in Threads /\ c \in held[holder[c]]
    BY DEF Held
  <2> QED
    BY <2>1 DEF OwnInv, HeldInv
<1>6. Cardinality(Nesters) \in Nat /\ IsFiniteSet(Nesters)
  BY ThreadsAssumption, FS_Subset, FS_CardinalityType
<1>7. holder \in [Held -> Nesters]
  BY <1>5
<1> HIDE DEF holder
<1>8. Cardinality(Nesters) < Cardinality(Held)
  <2>1. Cardinality(Held) \in Nat
    BY <1>4, FS_CardinalityType
  <2>2. Cardinality(Connections) \in Nat /\ MinOpened \in Nat
    BY ConnectionsAssumption, FS_CardinalityType
  <2> QED
    BY <1>4, <1>6, <2>1, <2>2
<1>9. PICK c, d \in Held : c # d /\ holder[c] = holder[d]
  BY <1>4, <1>6, <1>7, <1>8, FS_PigeonHole
<1>10. /\ c \in held[holder[c]] /\ d \in held[holder[c]] /\ IsFiniteSet(held[holder[c]])
       /\ Cardinality(held[holder[c]]) = 1
  <2>1. held[holder[c]] \subseteq Connections
    BY <1>5, ThreadsAssumption DEF OwnInv, TypeOK
  <2> QED
    BY <1>5, <1>9, <2>1, ConnectionsAssumption, FS_Subset
<1> QED
  BY <1>9, <1>10, FS_Singleton

(* With one connection more than there are threads that run getOnlineUsers *)
(* at a time, no set of operations can wait for each other, whatever they  *)
(* hold and however many init failed to open: the safety core of           *)
(* PoolServes, which is what TLC checks with fairness.                     *)
THEOREM PoolNeverSeizesUp ==
  ASSUME Cardinality(Nesters) < MinOpened
  PROVE  Spec => []SomebodyGoes
<1>1. Init => OpenedInv /\ NoIdleConnection
  <2>1. MinOpened <= Cardinality(Connections) /\ Cardinality(Connections) \in Nat /\ MinOpened \in Nat
    BY ConnectionsAssumption, FS_CardinalityType
  <2> QED
    BY <2>1, FS_EmptySet DEF Init, OpenedInv, AllThreads, NoIdleConnection
<1>2. OwnInv /\ OpenedInv /\ NoIdleConnection /\ [Next]_vars => OpenedInv' /\ NoIdleConnection'
  BY NextOpenedInv, NextNoIdleConnection DEF OwnInv
<1>3. OwnInv /\ ExclusiveInv /\ OpenedInv /\ NoIdleConnection /\ NobodyWaitsAfterClose => SomebodyGoes
  BY EnoughConnections
<1> QED
  BY <1>1, <1>2, <1>3, SpecOwnInv, SpecExclusiveInv, PoolWakesAllOnClose, PTL DEF Spec

=============================================================================
