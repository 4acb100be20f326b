--------------------------- MODULE FramingProofs ---------------------------
(***************************************************************************)
(* Proofs of the safety properties of Framing, for every size of header,   *)
(* of the receive buffer and of the bodies, and any number of requests.    *)
(***************************************************************************)
EXTENDS Framing, TLAPS

(* A client sends a request of at least the size of a header.              *)
LEMMA SentRequest ==
  ASSUME TypeOK, NEW b \in Bodies, NEW claim \in Nat, NEW readable \in BOOLEAN,
         Send(b, claim, readable)
  PROVE  /\ b \in Nat /\ HeaderSize \in Nat /\ HeaderSize > 0
         /\ requests' = Append(requests, Request(sent, b, claim, readable))
         /\ Request(sent, b, claim, readable) \in Requests
         /\ Request(sent, b, claim, readable).start = sent
         /\ Request(sent, b, claim, readable).size = HeaderSize + b
         /\ sent' = sent + HeaderSize + b
BY SizeAssumption DEF TypeOK, Send, Request, Requests

LEMMA NextSend ==
  ASSUME TypeOK, Next
  PROVE  \/ \E b \in Bodies, claim \in Nat, readable \in BOOLEAN :
              Send(b, claim, readable)
         \/ Arrive \/ Hangup \/ EndArrives \/ Start \/ Recv \/ RecvEnd \/ ParseEnd
         \/ \E i \in DOMAIN requests : ParseRequest(i) \/ ParseThrow(i)
         \/ ParseAstray
<1>1. \A b \in Bodies : HeaderSize + b \in Nat
  BY SizeAssumption
<1> QED
  BY <1>1, SizeAssumption DEF Next, Worker, Parse

-----------------------------------------------------------------------------
(* Type correctness: no step erases more than the buffer holds.            *)

LEMMA InitTypeOK == Init => TypeOK
<1> SUFFICES ASSUME Init PROVE TypeOK
  OBVIOUS
<1>1. << >> \in Seq(Requests) /\ << >> \in Seq(Nat)
  OBVIOUS
<1>2. 0 \in 0 .. 0
  OBVIOUS
<1> QED
  BY <1>1, <1>2 DEF Init, TypeOK

LEMMA NextTypeOK == TypeOK /\ [Next]_vars => TypeOK'
<1> SUFFICES ASSUME TypeOK, [Next]_vars PROVE TypeOK'
  OBVIOUS
<1>1. ASSUME NEW b \in Bodies, NEW claim \in Nat, NEW readable \in BOOLEAN,
             Send(b, claim, readable)
      PROVE  TypeOK'
  BY <1>1, SentRequest DEF TypeOK, Send
<1>2. CASE Arrive
  BY <1>2 DEF TypeOK, Arrive
<1>9. CASE Hangup \/ EndArrives
  BY <1>9 DEF TypeOK, Hangup, EndArrives
<1>10. CASE Start
  BY <1>10 DEF TypeOK, Start
<1>3. CASE Recv
  BY <1>3, SizeAssumption DEF TypeOK, Recv, Least
<1>11. CASE RecvEnd
  BY <1>11 DEF TypeOK, RecvEnd
<1>4. CASE ParseEnd
  BY <1>4 DEF TypeOK, ParseEnd
<1>5. ASSUME NEW i \in DOMAIN requests, ParseRequest(i)
      PROVE  TypeOK'
  <2>1. requests[i] \in Requests /\ i \in Nat
    BY DEF TypeOK
  <2>2. requests[i].claim \in Nat /\ requests[i].claim <= received - erased
    BY <1>5, <2>1 DEF ParseRequest, Complete, Buffered, Requests
  <2>3. erased' \in 0 .. received
    BY <1>5, <2>2 DEF ParseRequest, Erase, TypeOK
  <2>4. handled' \in Seq(Nat)
    BY <1>5, <2>1 DEF ParseRequest, TypeOK
  <2> QED
    BY <1>5, <2>3, <2>4 DEF ParseRequest, Again, TypeOK
<1>6. ASSUME NEW i \in DOMAIN requests, ParseThrow(i)
      PROVE  TypeOK'
  BY <1>6 DEF TypeOK, ParseThrow
<1>7. CASE ParseAstray
  <2>1. /\ erased' \in 0 .. received /\ pc' \in {"idle", "parse"}
        /\ UNCHANGED <<requests, sent, arrived, received, peer, edge>>
    BY <1>7 DEF TypeOK, ParseAstray, Buffered
  <2>2. handled' \in Seq(Nat)
    BY <1>7 DEF TypeOK, ParseAstray
  <2> QED
    BY <2>1, <2>2 DEF TypeOK
<1>8. CASE UNCHANGED vars
  BY <1>8 DEF TypeOK, vars
<1> QED
  BY <1>1, <1>2, <1>3, <1>4, <1>5, <1>6, <1>7, <1>8, <1>9, <1>10, <1>11, NextSend

(* Every reachable state is well typed; the counters of the stream keep    *)
(* their order.                                                            *)
THEOREM FramingTypeCorrect == Spec => []TypeOK
BY InitTypeOK, NextTypeOK, PTL DEF Spec

-----------------------------------------------------------------------------
(* How the requests lie in the stream: one after the other, none empty.    *)

EndOf(i) == requests[i].start + requests[i].size

Layout ==
  /\ \A i \in DOMAIN requests : requests[i].size >= HeaderSize /\ EndOf(i) <= sent
  /\ \A i, j \in DOMAIN requests : i < j => EndOf(i) <= requests[j].start
  /\ \A i \in DOMAIN requests :
       EndOf(i) = IF i = Len(requests) THEN sent ELSE requests[i + 1].start
  /\ IF requests = << >> THEN sent = 0 ELSE requests[1].start = 0

(* What handleRead relies on when it takes the front of the buffer for a   *)
(* header: as long as the requests up to the next one have been sound, it  *)
(* is the header of the next one.                                          *)
Boundary ==
  SoundUpTo(Len(handled) + 1) =>
    /\ Len(handled) <= Len(requests)
    /\ erased = IF Len(handled) = Len(requests) THEN sent
                ELSE requests[Len(handled) + 1].start

LEMMA LayoutTypes ==
  ASSUME TypeOK
  PROVE  /\ Len(requests) \in Nat /\ DOMAIN requests = 1 .. Len(requests)
         /\ Len(handled) \in Nat /\ DOMAIN handled = 1 .. Len(handled)
         /\ \A i \in DOMAIN requests : /\ requests[i] \in Requests
                                       /\ requests[i].start \in Nat
                                       /\ requests[i].size \in Nat
                                       /\ requests[i].claim \in Nat
         /\ sent \in Nat /\ arrived \in Nat /\ received \in Nat /\ erased \in Nat
         /\ erased <= received /\ received <= arrived /\ arrived <= sent
<1>1. \A i \in DOMAIN requests : requests[i] \in Requests
  BY DEF TypeOK
<1>2. \A r \in Requests : r.start \in Nat /\ r.size \in Nat /\ r.claim \in Nat
  BY DEF Requests
<1>3. /\ Len(requests) \in Nat /\ DOMAIN requests = 1 .. Len(requests)
      /\ Len(handled) \in Nat /\ DOMAIN handled = 1 .. Len(handled)
  BY DEF TypeOK
<1>4. /\ sent \in Nat /\ arrived \in Nat /\ received \in Nat /\ erased \in Nat
      /\ erased <= received /\ received <= arrived /\ arrived <= sent
  BY DEF TypeOK
<1> QED
  BY <1>1, <1>2, <1>3, <1>4

LEMMA NextLayout == TypeOK /\ Layout /\ [Next]_vars => Layout'
<1> SUFFICES ASSUME TypeOK, Layout, [Next]_vars PROVE Layout'
  OBVIOUS
<1> USE LayoutTypes
<1>1. ASSUME NEW b \in Bodies, NEW claim \in Nat, NEW readable \in BOOLEAN,
             Send(b, claim, readable)
      PROVE  Layout'
  <2> DEFINE n == Len(requests)
             r == Request(sent, b, claim, readable)
  <2>1. /\ requests' = Append(requests, r) /\ r \in Requests
        /\ r.start = sent /\ r.size = HeaderSize + b
        /\ sent' = sent + HeaderSize + b
        /\ b \in Nat /\ HeaderSize \in Nat /\ HeaderSize > 0
    BY <1>1, SentRequest
  <2> HIDE DEF r
  <2>2. requests \in Seq(Requests)
    BY DEF TypeOK
  <2>3. /\ Len(requests') = n + 1 /\ DOMAIN requests' = 1 .. n + 1
        /\ \A i \in 1 .. n : requests'[i] = requests[i]
        /\ requests'[n + 1] = r
    BY <2>1, <2>2
  <2>4. \A i \in 1 .. n : EndOf(i)' = EndOf(i) /\ EndOf(i) \in Nat
    BY <2>3 DEF EndOf
  <2>8. /\ requests'[n + 1].start = sent
        /\ \A i \in Nat : i = n + 1 => EndOf(i)' = sent'
    <3>1. requests'[n + 1].start + requests'[n + 1].size = sent'
      BY <2>1, <2>3
    <3> QED
      BY <3>1, <2>1, <2>3 DEF EndOf
  <2>5. \A i \in DOMAIN requests' : requests'[i].size >= HeaderSize /\ EndOf(i)' <= sent'
    <3> TAKE i \in DOMAIN requests'
    <3>1. CASE i = n + 1
      BY <3>1, <2>1, <2>3, <2>8
    <3>2. CASE i \in 1 .. n
      <4>1. requests[i].size >= HeaderSize /\ EndOf(i) <= sent
        BY <3>2 DEF Layout
      <4> QED
        BY <3>2, <4>1, <2>1, <2>3, <2>4
    <3> QED
      BY <3>1, <3>2, <2>3
  <2>6. \A i, j \in DOMAIN requests' : i < j => EndOf(i)' <= requests'[j].start
    <3> SUFFICES ASSUME NEW i \in DOMAIN requests', NEW j \in DOMAIN requests', i < j
                 PROVE  EndOf(i)' <= requests'[j].start
      OBVIOUS
    <3>1. i \in 1 .. n
      BY <2>3
    <3>2. CASE j = n + 1
      BY <3>1, <3>2, <2>4, <2>8 DEF Layout
    <3>3. CASE j \in 1 .. n
      <4>1. EndOf(i) <= requests[j].start
        BY <3>1, <3>3 DEF Layout
      <4> QED
        BY <3>1, <3>3, <4>1, <2>3, <2>4
    <3> QED
      BY <3>2, <3>3, <2>3
  <2>7. \A i \in DOMAIN requests' :
          EndOf(i)' = IF i = Len(requests') THEN sent' ELSE requests'[i + 1].start
    <3> TAKE i \in DOMAIN requests'
    <3>1. CASE i = n + 1
      BY <3>1, <2>3, <2>8
    <3>2. CASE i = n /\ i \in 1 .. n
      <4>1. EndOf(i) = sent
        BY <3>2 DEF Layout
      <4> QED
        BY <3>2, <4>1, <2>3, <2>4, <2>8
    <3>3. CASE i \in 1 .. n - 1
      <4>1. EndOf(i) = requests[i + 1].start
        BY <3>3 DEF Layout
      <4>2. i + 1 \in 1 .. n /\ i \in 1 .. n /\ i # n + 1
        BY <3>3
      <4> QED
        BY <4>1, <4>2, <2>3, <2>4
    <3> QED
      BY <3>1, <3>2, <3>3, <2>3
  <2>9. IF requests' = << >> THEN sent' = 0 ELSE requests'[1].start = 0
    <3>1. requests' # << >>
      BY <2>3
    <3>2. CASE requests = << >>
      BY <3>1, <3>2, <2>1, <2>3 DEF Layout
    <3>3. CASE requests # << >>
      BY <3>1, <3>3, <2>2, <2>3 DEF Layout
    <3> QED
      BY <3>2, <3>3
  <2> QED
    BY <2>5, <2>6, <2>7, <2>9 DEF Layout
<1>2. ASSUME UNCHANGED <<requests, sent>>
      PROVE  Layout'
  BY <1>2 DEF Layout, EndOf
<1> QED
  BY <1>1, <1>2, NextSend
     DEF Arrive, Hangup, EndArrives, Start, Recv, RecvEnd, ParseEnd, ParseRequest,
         ParseThrow, ParseAstray, vars

-----------------------------------------------------------------------------
(* The boundary between handled and unhandled requests.                    *)

Inv == Layout /\ HandledInOrder /\ Boundary

(* With sound lengths, a header at the front is the next request's.        *)
LEMMA Aligned ==
  ASSUME TypeOK, Layout, Boundary, NEW n \in Nat, n = Len(handled), SoundUpTo(n + 1)
  PROVE  /\ n < Len(requests) => AtFront(n + 1) /\ Sound(n + 1)
         /\ HeaderComplete => n < Len(requests)
         /\ \A i \in DOMAIN requests : AtFront(i) => i = n + 1
<1>1. PICK m \in Nat : m = Len(requests)
  BY LayoutTypes
<1>2. /\ DOMAIN requests = 1 .. m
      /\ \A i \in DOMAIN requests : requests[i].start \in Nat /\ requests[i].size \in Nat
      /\ sent \in Nat /\ erased \in Nat /\ received \in Nat /\ received <= sent
      /\ HeaderSize \in Nat /\ HeaderSize > 0
  BY LayoutTypes, SizeAssumption, <1>1
<1>3. /\ n <= m
      /\ n = m => erased = sent
      /\ n < m => erased = requests[n + 1].start
  BY <1>1, <1>2 DEF Boundary
<1>4. ASSUME NEW k \in Nat, n = k, n < m
      PROVE  AtFront(k + 1) /\ Sound(k + 1)
  <2>1. k + 1 \in DOMAIN requests /\ k + 1 \in 1 .. k + 1
    BY <1>2, <1>4
  <2>2. SoundUpTo(k + 1)
    BY <1>4
  <2> QED
    BY <1>3, <1>4, <2>1, <2>2 DEF AtFront, SoundUpTo
<1>5. HeaderComplete => n < m
  <2>1. HeaderComplete => erased # sent
    BY <1>2 DEF HeaderComplete, Buffered
  <2> QED
    BY <1>1, <1>2, <1>3, <2>1
<1>6. ASSUME NEW i \in DOMAIN requests, AtFront(i)
      PROVE  i = n + 1
  <2>1. requests[i].size > 0 /\ EndOf(i) <= sent /\ requests[i].start = erased
    BY <1>2, <1>6 DEF Layout, AtFront
  <2>2. n < m
    <3>1. erased # sent
      BY <1>2, <2>1 DEF EndOf
    <3> QED
      BY <1>2, <1>3, <3>1
  <2>3. PICK k \in DOMAIN requests : k = n + 1
    BY <1>2, <2>2
  <2>4. requests[k].start = erased /\ requests[k].size > 0
    BY <1>2, <1>3, <2>2, <2>3 DEF Layout
  <2>5. ~(i < k)
    BY <1>2, <2>1, <2>4 DEF EndOf, Layout
  <2>6. ~(k < i)
    BY <1>2, <2>1, <2>4 DEF EndOf, Layout
  <2> QED
    BY <1>2, <2>3, <2>5, <2>6
<1> QED
  BY <1>1, <1>4, <1>5, <1>6

LEMMA InitInv == Init => Inv
<1> SUFFICES ASSUME Init PROVE Inv
  OBVIOUS
<1>1. /\ requests = << >> /\ DOMAIN requests = {} /\ Len(requests) = 0
      /\ handled = << >> /\ DOMAIN handled = {} /\ Len(handled) = 0
      /\ sent = 0 /\ erased = 0
  BY DEF Init
<1> QED
  BY <1>1 DEF Inv, Layout, HandledInOrder, Boundary

LEMMA NextInv == TypeOK /\ Inv /\ [Next]_vars => Inv'
<1> SUFFICES ASSUME TypeOK, Inv, [Next]_vars PROVE HandledInOrder' /\ Boundary'
  BY NextLayout DEF Inv
<1> USE LayoutTypes
<1>n. PICK n \in Nat : n = Len(handled)
  OBVIOUS
<1>inv. Layout /\ HandledInOrder /\ Boundary
  BY DEF Inv
<1>handled. handled \in Seq(Nat)
  BY DEF TypeOK
<1>1. ASSUME NEW b \in Bodies, NEW claim \in Nat, NEW readable \in BOOLEAN,
             Send(b, claim, readable)
      PROVE  HandledInOrder' /\ Boundary'
  <2> DEFINE r == Request(sent, b, claim, readable)
  <2>1. PICK m \in Nat : m = Len(requests)
    OBVIOUS
  <2>2. /\ requests' = Append(requests, r) /\ r \in Requests /\ r.start = sent
        /\ handled' = handled /\ erased' = erased /\ requests \in Seq(Requests)
    BY <1>1, SentRequest DEF Send, TypeOK
  <2> HIDE DEF r
  <2>3. /\ Len(requests') = m + 1 /\ DOMAIN requests' = 1 .. m + 1
        /\ \A i \in 1 .. m : requests'[i] = requests[i]
        /\ requests'[m + 1].start = sent
    BY <2>1, <2>2
  <2>4. ASSUME NEW k \in Nat, SoundUpTo(k)'
        PROVE  SoundUpTo(k)
    BY <2>1, <2>3, <2>4 DEF SoundUpTo, Sound
  <2>5. HandledInOrder'
    BY <1>inv, <2>2, <2>4 DEF HandledInOrder
  <2>6. Boundary'
    <3> SUFFICES ASSUME SoundUpTo(n + 1)'
                 PROVE  /\ n <= m + 1
                        /\ erased = IF n = m + 1 THEN sent' ELSE requests'[n + 1].start
      BY <1>n, <2>2, <2>3 DEF Boundary
    <3>1. SoundUpTo(n + 1)
      BY <2>4
    <3>2. /\ n <= m
          /\ erased = IF n = m THEN sent ELSE requests[n + 1].start
      BY <3>1, <1>n, <1>inv, <2>1 DEF Boundary
    <3>3. CASE n = m
      BY <3>2, <3>3, <2>3
    <3>4. CASE n < m
      BY <3>2, <3>4, <2>3
    <3> QED
      BY <3>2, <3>3, <3>4
  <2> QED
    BY <2>5, <2>6
<1>2. ASSUME UNCHANGED <<requests, sent, erased, handled>>
      PROVE  HandledInOrder' /\ Boundary'
  BY <1>inv, <1>2 DEF HandledInOrder, Boundary, SoundUpTo, Sound
<1>3. ASSUME UNCHANGED <<requests, sent>>, ~SoundUpTo(n + 1),
             handled' = handled \/ \E e \in Nat : handled' = Append(handled, e)
      PROVE  HandledInOrder' /\ Boundary'
  <2>1. \A k \in Nat : k > n /\ SoundUpTo(k)' => SoundUpTo(n + 1)
    BY <1>3 DEF SoundUpTo, Sound
  <2>2. \A k \in 1 .. n : SoundUpTo(k)' = SoundUpTo(k)
    BY <1>3 DEF SoundUpTo, Sound
  <2>3. /\ DOMAIN handled' \in {1 .. n, 1 .. n + 1} /\ Len(handled') \in {n, n + 1}
        /\ \A k \in 1 .. n : handled'[k] = handled[k]
    BY <1>3, <1>n, <1>handled
  <2>4. HandledInOrder'
    <3> SUFFICES ASSUME NEW k \in DOMAIN handled', SoundUpTo(k)' PROVE handled'[k] = k
      BY DEF HandledInOrder
    <3>1. k \in Nat /\ k <= n /\ k \in 1 .. n
      BY <2>1, <2>3, <1>3
    <3> QED
      BY <3>1, <2>2, <2>3, <1>inv, <1>n DEF HandledInOrder
  <2>5. Boundary'
    <3>1. Len(handled') + 1 \in Nat /\ Len(handled') + 1 > n
      BY <2>3
    <3>2. ~SoundUpTo(Len(handled) + 1)'
      BY <3>1, <2>1, <1>3
    <3> QED
      BY <3>2 DEF Boundary
  <2> QED
    BY <2>4, <2>5
<1>4. ASSUME NEW i \in DOMAIN requests, ParseRequest(i)
      PROVE  HandledInOrder' /\ Boundary'
  <2>1. /\ UNCHANGED <<requests, sent>>
        /\ AtFront(i) /\ HeaderComplete /\ erased' = erased + requests[i].claim
        /\ requests[i].claim < HeaderSize => handled' = handled
        /\ ~(requests[i].claim < HeaderSize) => handled' = Append(handled, i)
    BY <1>4 DEF ParseRequest, Complete, Erase
  <2>2. CASE ~SoundUpTo(n + 1)
    BY <2>1, <2>2, <1>3
  <2>3. CASE SoundUpTo(n + 1)
    <3>1. i = n + 1 /\ n < Len(requests) /\ Sound(i)
      BY <2>1, <2>3, <1>n, <1>inv, Aligned
    <3>2. requests[i].claim = requests[i].size /\ requests[i].size >= HeaderSize
      BY <3>1, <1>inv DEF Sound, Layout
    <3>3. handled' = Append(handled, i) /\ erased' = EndOf(i)
      BY <2>1, <3>2, SizeAssumption DEF EndOf, AtFront
    <3>4. /\ Len(handled') = n + 1 /\ DOMAIN handled' = 1 .. n + 1
          /\ \A k \in 1 .. n : handled'[k] = handled[k]
          /\ handled'[n + 1] = n + 1
      BY <3>1, <3>3, <1>n, <1>handled
    <3>5. HandledInOrder'
      BY <3>4, <1>n, <1>inv, <2>1 DEF HandledInOrder, SoundUpTo, Sound
    <3>6. Boundary'
      <4>1. EndOf(i) = IF i = Len(requests) THEN sent ELSE requests[i + 1].start
        BY <1>inv DEF Layout
      <4>2. erased' = IF n + 1 = Len(requests) THEN sent ELSE requests[n + 2].start
        BY <4>1, <3>1, <3>3
      <4> QED
        BY <4>2, <3>1, <3>4, <2>1 DEF Boundary
    <3> QED
      BY <3>5, <3>6
  <2> QED
    BY <2>2, <2>3
<1>5. CASE ParseAstray
  <2>1. ~SoundUpTo(n + 1)
    <3> SUFFICES ASSUME SoundUpTo(n + 1) PROVE FALSE
      OBVIOUS
    <3>1. n < Len(requests) /\ AtFront(n + 1)
      BY <1>5, <1>n, <1>inv, Aligned DEF ParseAstray
    <3> QED
      BY <1>5, <3>1 DEF ParseAstray, Astray, AtFront
  <2> QED
    BY <1>5, <2>1, <1>3 DEF ParseAstray
<1> QED
  BY <1>1, <1>2, <1>4, <1>5, NextSend
     DEF Arrive, Hangup, EndArrives, Start, Recv, RecvEnd, ParseEnd, ParseThrow, vars

(* However TCP cuts the stream and however many requests there are, they   *)
(* are handled in order, none twice and none invented, as far as the       *)
(* lengths were right.                                                     *)
THEOREM FramingInOrder == Spec => []HandledInOrder
<1>1. Inv => HandledInOrder
  BY DEF Inv
<1> QED
  BY <1>1, InitTypeOK, NextTypeOK, InitInv, NextInv, PTL DEF Spec

(* Between requests the front of buffer_ is a header.                      *)
THEOREM FramingAligned == Spec => []FirstUnhandledAtFront
<1>1. TypeOK /\ Inv => FirstUnhandledAtFront
  <2> SUFFICES ASSUME TypeOK, Inv, AllSound PROVE SoundUpTo(Len(handled) + 1)
    BY DEF Inv, Boundary, FirstUnhandledAtFront
  <2> QED
    BY LayoutTypes DEF AllSound, SoundUpTo
<1> QED
  BY <1>1, InitTypeOK, NextTypeOK, InitInv, NextInv, PTL DEF Spec

-----------------------------------------------------------------------------
(* Nothing is held back.  Without an edge, everything that has arrived was *)
(* received; and the loop ended because the next request was not there in  *)
(* full, or because it cannot be read.                                     *)

Drained == pc \in {"idle", "parse"} /\ ~edge => received = arrived

Parsed ==
  pc = "idle" /\ AllSound =>
    \A i \in DOMAIN requests :
      i = Len(handled) + 1 /\ requests[i].readable => received < EndOf(i)

LEMMA InitHeld == Init => Drained /\ Parsed
BY DEF Init, Drained, Parsed

LEMMA NextDrained == TypeOK /\ Drained /\ [Next]_vars => Drained'
<1> SUFFICES ASSUME TypeOK, Drained, [Next]_vars PROVE Drained'
  OBVIOUS
<1>1. ASSUME NEW b \in Bodies, NEW claim \in Nat, NEW readable \in BOOLEAN,
             Send(b, claim, readable)
      PROVE  Drained'
  BY <1>1 DEF Send, Drained
<1>2. CASE Arrive \/ Hangup \/ EndArrives
  BY <1>2 DEF Arrive, Hangup, EndArrives, Drained
<1>3. CASE Start \/ Recv \/ RecvEnd
  BY <1>3 DEF Start, Recv, RecvEnd, Drained
<1>4. CASE ParseEnd \/ ParseAstray
  BY <1>4 DEF ParseEnd, ParseAstray, Drained
<1>5. ASSUME NEW i \in DOMAIN requests, ParseRequest(i) \/ ParseThrow(i)
      PROVE  Drained'
  BY <1>5 DEF ParseRequest, ParseThrow, Again, Drained
<1>6. CASE UNCHANGED vars
  BY <1>6 DEF vars, Drained
<1> QED
  BY <1>1, <1>2, <1>3, <1>4, <1>5, <1>6, NextSend

LEMMA NextParsed == TypeOK /\ Inv /\ Parsed /\ [Next]_vars => Parsed'
<1> SUFFICES ASSUME TypeOK, Inv, Parsed, [Next]_vars, pc' = "idle", AllSound',
                    NEW i \in DOMAIN requests', i = Len(handled') + 1,
                    requests'[i].readable
             PROVE  received' < EndOf(i)'
  BY DEF Parsed
<1>n. PICK n \in Nat : n = Len(handled)
  BY LayoutTypes
<1>1. ASSUME UNCHANGED requests
      PROVE  /\ i \in DOMAIN requests /\ requests[i] \in Requests
             /\ EndOf(i)' = EndOf(i) /\ requests[i].readable
             /\ requests[i].start \in Nat /\ requests[i].size \in Nat
             /\ requests[i].size >= HeaderSize
             /\ requests[i].claim = requests[i].size
             /\ SoundUpTo(n + 1) /\ AllSound
  <2>1. AllSound /\ i \in DOMAIN requests
    BY <1>1 DEF AllSound, SoundUpTo, Sound
  <2>2. Sound(i) /\ SoundUpTo(n + 1)
    BY <2>1, LayoutTypes DEF AllSound, SoundUpTo
  <2> QED
    BY <1>1, <2>1, <2>2, LayoutTypes DEF Inv, Layout, Sound, EndOf
<1>2. ASSUME UNCHANGED <<requests, handled>>
      PROVE  /\ i = n + 1 /\ AtFront(i) /\ EndOf(i) = erased + requests[i].size
             /\ \A k \in DOMAIN requests : AtFront(k) => k = i
  <2>1. i = n + 1 /\ i <= Len(requests)
    BY <1>1, <1>2, <1>n, LayoutTypes
  <2>2. /\ n < Len(requests) => AtFront(n + 1)
        /\ \A k \in DOMAIN requests : AtFront(k) => k = n + 1
    BY <1>1, <1>2, <1>n, Aligned DEF Inv
  <2>3. AtFront(i)
    BY <2>1, <2>2, LayoutTypes
  <2> QED
    BY <2>1, <2>2, <2>3 DEF AtFront, EndOf
<1>3. ASSUME NEW b \in Bodies, NEW claim \in Nat, NEW readable \in BOOLEAN,
             Send(b, claim, readable)
      PROVE  received' < EndOf(i)'
  <2>1. PICK m \in Nat : m = Len(requests)
    BY LayoutTypes
  <2>2. PICK r \in Requests : /\ requests' = Append(requests, r)
                              /\ r.start = sent /\ r.size = HeaderSize + b
    BY <1>3, SentRequest
  <2>3. /\ UNCHANGED <<received, handled, pc>> /\ requests \in Seq(Requests)
        /\ received \in Nat /\ sent \in Nat /\ received <= sent
    BY <1>3, LayoutTypes DEF Send, TypeOK
  <2>4. /\ DOMAIN requests' = 1 .. m + 1
        /\ \A k \in 1 .. m : requests'[k] = requests[k]
        /\ requests'[m + 1] = r
    BY <2>1, <2>2, <2>3
  <2>5. CASE i = m + 1
    <3>1. EndOf(i)' = sent + HeaderSize + b
      BY <1>3, <2>2, <2>3, <2>4, <2>5, SentRequest DEF EndOf
    <3> QED
      BY <1>3, <2>3, <3>1, SentRequest
  <2>6. CASE i \in 1 .. m
    <3>1. AllSound
      BY <2>1, <2>4, LayoutTypes DEF AllSound, SoundUpTo, Sound
    <3>2. received < EndOf(i)
      BY <2>1, <2>3, <2>4, <2>6, <3>1, LayoutTypes DEF Parsed
    <3> QED
      BY <2>3, <2>4, <2>6, <3>2 DEF EndOf
  <2> QED
    BY <2>4, <2>5, <2>6
<1>4. ASSUME UNCHANGED <<requests, handled, received, pc>>
      PROVE  received' < EndOf(i)'
  BY <1>1, <1>2, <1>4 DEF Parsed
<1>5. CASE Start \/ RecvEnd \/ Recv
  BY <1>5 DEF Start, RecvEnd, Recv, Parsed, TypeOK
<1>6. CASE ParseEnd
  <2>1. UNCHANGED <<requests, handled, received>>
    BY <1>6 DEF ParseEnd
  <2>2. ~Complete(i)
    BY <1>2, <1>6, <2>1 DEF ParseEnd, Complete
  <2>3. received - erased < requests[i].size
    BY <1>1, <2>1, <2>2, LayoutTypes, SizeAssumption DEF Complete, HeaderComplete, Buffered
  <2> QED
    BY <1>1, <1>2, <2>1, <2>3, LayoutTypes
<1>7. ASSUME NEW k \in DOMAIN requests, ParseRequest(k) \/ ParseThrow(k)
      PROVE  FALSE
  <2>1. CASE ParseRequest(k)
    BY <2>1 DEF ParseRequest, Again
  <2>2. CASE ParseThrow(k)
    BY <1>1, <1>2, <2>2 DEF ParseThrow
  <2> QED
    BY <1>7, <2>1, <2>2
<1>8. CASE ParseAstray
  <2>1. HeaderComplete /\ Astray /\ SoundUpTo(n + 1)
    BY <1>1, <1>8 DEF ParseAstray
  <2>2. AtFront(n + 1)
    BY <1>n, <2>1, Aligned DEF Inv
  <2> QED
    BY <2>1, <2>2 DEF Astray, AtFront
<1> QED
  BY <1>3, <1>4, <1>5, <1>6, <1>7, <1>8, NextSend
     DEF Arrive, Hangup, EndArrives, vars

(* When handleRead has returned and no edge is pending, the next request   *)
(* has not arrived in full, or cannot be read.                             *)
THEOREM FramingNothingHeldBack == Spec => []NothingHeldBack
<1>1. TypeOK /\ Drained /\ Parsed => NothingHeldBack
  BY LayoutTypes DEF Drained, Parsed, NothingHeldBack, EndOf
<1> QED
  BY <1>1, InitTypeOK, NextTypeOK, InitInv, NextInv, InitHeld, NextDrained, NextParsed, PTL
     DEF Spec

=============================================================================
