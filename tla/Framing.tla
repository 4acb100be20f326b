------------------------------ MODULE Framing ------------------------------
(***************************************************************************)
(* The framing of requests: Message::serialize and deserialize             *)
(* (src/common/protocol.cpp) and the receive and parse loops of            *)
(* ClientConnection::handleRead (src/network/reactor.cpp), for the stream  *)
(* from one client to the server.                                          *)
(*                                                                         *)
(* What bytes say does not matter, except for the length a header claims;  *)
(* so a byte is its position in the stream, and what has been sent, has    *)
(* arrived, was received and was erased from buffer_ are prefixes of the   *)
(* stream.  buffer_ holds the positions from `erased' to `received'.       *)
(*                                                                         *)
(* A request is sound if its header claims its size.  One whose client     *)
(* counted characters for bytes (tests/test_client.py) claims less, and    *)
(* one that stoi cannot read makes its handler throw.                      *)
(***************************************************************************)
EXTENDS Integers, Sequences

CONSTANTS HeaderSize,   \* sizeof(MessageHeader)
          ChunkSize,    \* the size of the buffer that recv fills
          Bodies,       \* the sizes of bodies
          Claims,       \* the wrong lengths a header may claim
          MaxRequests   \* bound: requests sent

ASSUME SizeAssumption == /\ HeaderSize \in Nat \ {0}
                         /\ ChunkSize \in Nat \ {0}
                         /\ Bodies \subseteq Nat
                         /\ Claims \subseteq Nat
                         /\ MaxRequests \in Nat

VARIABLES
  requests,   \* history: the requests of the client and where they start
  sent,       \* the bytes the client has sent ...
  arrived,    \* ... that have arrived ...
  received,   \* ... that recv has appended to buffer_ ...
  erased,     \* ... and that handleRead has erased from buffer_
  peer,       \* the client's end: open, closing, or its end has arrived
  edge,       \* epoll has something to report, or a task is queued for it
  pc,         \* where the worker is that runs handleRead
  handled     \* history: the requests handed to their handlers, 0 for one
              \* that no client sent

vars == <<requests, sent, arrived, received, erased, peer, edge, pc, handled>>

Init == /\ requests = << >>
        /\ sent = 0 /\ arrived = 0 /\ received = 0 /\ erased = 0
        /\ peer = "open"
        /\ edge = FALSE
        /\ pc = "idle"
        /\ handled = << >>

-----------------------------------------------------------------------------
(* The client and the network.                                             *)

Request(start, body, claim, readable) ==
  [start |-> start, size |-> HeaderSize + body, claim |-> claim,
   readable |-> readable]

(* serialize, or pack_message, and a sendall of the whole request.         *)
Send(body, claim, readable) ==
  LET r == Request(sent, body, claim, readable)
  IN /\ peer = "open"
     /\ Len(requests) < MaxRequests
     /\ requests' = Append(requests, r)
     /\ sent' = sent + r.size
     /\ UNCHANGED <<arrived, received, erased, peer, edge, pc, handled>>

(* TCP cuts the stream into segments as it likes.                          *)
Arrive == /\ \E n \in arrived + 1 .. sent : arrived' = n
          /\ edge' = TRUE
          /\ UNCHANGED <<requests, sent, received, erased, peer, pc, handled>>

Hangup == /\ peer = "open"
          /\ peer' = "closing"
          /\ UNCHANGED <<requests, sent, arrived, received, erased, edge, pc, handled>>

EndArrives == /\ peer = "closing" /\ arrived = sent
              /\ peer' = "end"
              /\ edge' = TRUE
              /\ UNCHANGED <<requests, sent, arrived, received, erased, pc, handled>>

-----------------------------------------------------------------------------
(* handleRead                                                              *)

Start == /\ pc = "idle" /\ edge
         /\ pc' = "recv"
         /\ edge' = FALSE
         /\ UNCHANGED <<requests, sent, arrived, received, erased, peer, handled>>

Least(a, b) == IF a <= b THEN a ELSE b

(* Mutant of Recv: one recv is believed to be enough.                      *)
RecvOnce == /\ pc = "recv" /\ received < arrived
            /\ received' = Least(arrived, received + ChunkSize)
            /\ pc' = "parse"
            /\ UNCHANGED <<requests, sent, arrived, erased, peer, edge, handled>>

Recv == /\ pc = "recv" /\ received < arrived
        /\ received' = Least(arrived, received + ChunkSize)
        /\ UNCHANGED <<requests, sent, arrived, erased, peer, edge, pc, handled>>

(* EAGAIN, or the end of the stream: then the connection is closed, and    *)
(* what is in buffer_ is never looked at.                                  *)
RecvEnd == /\ pc = "recv" /\ received = arrived
           /\ pc' = IF peer = "end" THEN "closed" ELSE "parse"
           /\ UNCHANGED <<requests, sent, arrived, received, erased, peer, edge,
                          handled>>

Buffered == received - erased

HeaderComplete == Buffered >= HeaderSize

(* The request whose header is at the front of buffer_, if there is one.   *)
AtFront(i) == i \in DOMAIN requests /\ requests[i].start = erased

Astray == \A i \in DOMAIN requests : requests[i].start # erased

(* Mutant of Complete: the length is compared with what has arrived.       *)
CompleteSoon(i) == HeaderComplete /\ requests[i].claim <= arrived - erased

Complete(i) == HeaderComplete /\ requests[i].claim <= Buffered

(* The loop ends without a whole header, or a whole request.               *)
ParseEnd == /\ pc = "parse"
            /\ \/ ~HeaderComplete
               \/ \E i \in DOMAIN requests : AtFront(i) /\ ~Complete(i)
            /\ pc' = "idle"
            /\ UNCHANGED <<requests, sent, arrived, received, erased, peer, edge,
                           handled>>

(* Mutants of Erase: only the body is erased; nothing is.                  *)
EraseBody(n) == erased' = erased + n - HeaderSize
EraseNothing(n) == UNCHANGED erased

Erase(n) == erased' = erased + n

(* Mutant of Again: one request for each call of handleRead.               *)
NotAgain == pc' = "idle"

Again == pc' = "parse"

(* The request is handled, then erased.  One that claims less than a       *)
(* header is no message for deserialize: it is only erased.                *)
ParseRequest(i) ==
  /\ pc = "parse" /\ AtFront(i) /\ Complete(i)
  /\ requests[i].claim < HeaderSize \/ requests[i].readable
  /\ handled' = IF requests[i].claim < HeaderSize THEN handled
                                                  ELSE Append(handled, i)
  /\ Erase(requests[i].claim)
  /\ Again
  /\ UNCHANGED <<requests, sent, arrived, received, peer, edge>>

(* stoi throws out of handleRead, past the erase: the request stays.       *)
ParseThrow(i) ==
  /\ pc = "parse" /\ AtFront(i) /\ Complete(i)
  /\ requests[i].claim >= HeaderSize /\ ~requests[i].readable
  /\ pc' = "idle"
  /\ UNCHANGED <<requests, sent, arrived, received, erased, peer, edge, handled>>

(* After a wrong length, whatever is at the front is taken for a header:   *)
(* it may say any length and be anything.                                  *)
ParseAstray ==
  /\ pc = "parse" /\ Astray /\ HeaderComplete
  /\ \/ pc' = "idle" /\ UNCHANGED <<erased, handled>>
     \/ \E n \in 0 .. Buffered :
          /\ erased' = erased + n
          /\ handled' = handled \/ (n >= HeaderSize /\ handled' = Append(handled, 0))
          /\ pc' = "parse"
  /\ UNCHANGED <<requests, sent, arrived, received, peer, edge>>

-----------------------------------------------------------------------------
Parse == \/ ParseEnd
         \/ \E i \in DOMAIN requests : ParseRequest(i) \/ ParseThrow(i)
         \/ ParseAstray

Worker == Start \/ Recv \/ RecvEnd \/ Parse

Next == \/ \E b \in Bodies : \/ \E claim \in Claims : Send(b, claim, TRUE)
                             \/ \E readable \in BOOLEAN :
                                  Send(b, HeaderSize + b, readable)
        \/ Arrive \/ Hangup \/ EndArrives
        \/ Worker

(* TCP delivers what was sent, and workers run.                            *)
Fairness == WF_vars(Arrive) /\ WF_vars(EndArrives) /\ WF_vars(Worker)

Spec == Init /\ [][Next]_vars /\ Fairness

-----------------------------------------------------------------------------
(* Properties                                                              *)

Sound(i) == requests[i].claim = requests[i].size

SoundUpTo(n) == \A i \in 1 .. n : i \in DOMAIN requests => Sound(i)

AllSound == SoundUpTo(Len(requests))

Requests == [start : Nat, size : Nat, claim : Nat, readable : BOOLEAN]

(* Every variable has its type, what was received has arrived, what is     *)
(* erased was received, and a whole buffer is never exceeded.              *)
TypeOK == /\ requests \in Seq(Requests)
          /\ sent \in Nat /\ arrived \in 0 .. sent
          /\ received \in 0 .. arrived /\ erased \in 0 .. received
          /\ peer \in {"open", "closing", "end"}
          /\ edge \in BOOLEAN
          /\ pc \in {"idle", "recv", "parse", "closed"}
          /\ handled \in Seq(Nat)

(* However TCP cuts the stream, requests are handled in the order they     *)
(* were sent, none twice and none invented, as far as the lengths were     *)
(* right.                                                                  *)
HandledInOrder ==
  \A j \in DOMAIN handled : SoundUpTo(j) => handled[j] = j

(* The front of the buffer is the beginning of the first request that was  *)
(* not handled: no byte of a request is left over, and none is taken from  *)
(* the next one.                                                           *)
FirstUnhandledAtFront ==
  AllSound =>
    /\ Len(handled) <= Len(requests)
    /\ erased = IF Len(handled) = Len(requests) THEN sent
                ELSE requests[Len(handled) + 1].start

(* Nothing is held back: when handleRead has returned, and no edge is      *)
(* pending, the next request has not arrived in full, or cannot be read.   *)
NothingHeldBack ==
  pc = "idle" /\ ~edge /\ AllSound =>
    \A i \in DOMAIN requests :
      i = Len(handled) + 1 /\ requests[i].readable =>
        arrived < requests[i].start + requests[i].size

(* A request of a client that stays is handled in the end, unless it or    *)
(* an earlier one is broken: unreadable ones stay in the buffer for ever,  *)
(* and wrong lengths lead astray.                                          *)
Answerable(i) == /\ i \in DOMAIN requests
                 /\ \A j \in 1 .. i : Sound(j) /\ requests[j].readable
                 /\ peer = "open"

EveryRequestHandled ==
  \A i \in 1 .. MaxRequests :
    Answerable(i) ~> (Len(handled) >= i \/ peer # "open")

=============================================================================
