------------------------------- MODULE Frames -------------------------------
(***************************************************************************)
(* How Connection.getResponse (server/connection.go) cuts the byte stream  *)
(* of the server into responses: a head, a body and a second body, each    *)
(* fetched by ONE call of bufio.Reader.Read, which returns what is at hand *)
(* and not what was asked for.                                             *)
(*                                                                         *)
(* Bytes are numbered from the start of the stream and are never changed,  *)
(* so positions are enough:                                                *)
(*     consumed <= filled <= arrived <= sent                               *)
(* A response stands at position "at" and is HeadLen + l1 + l2 long.       *)
(***************************************************************************)
EXTENDS Naturals, Sequences

CONSTANTS
  HeadLen,   \* bytes of a head (8)
  BodyLen,   \* lengths a body may have
  BufSize,   \* bytes bufio.Reader can hold (4096)
  Window,    \* bound: bytes sent and not consumed
  MaxMsgs,   \* bound: responses the server sends
  MaxCalls   \* bound: calls of getResponse

ASSUME SizeAssumption ==
  /\ HeadLen \in Nat \ {0}
  /\ BodyLen \subseteq Nat
  /\ BufSize \in Nat \ {0}
ASSUME BoundAssumption == Window \in Nat /\ MaxMsgs \in Nat /\ MaxCalls \in Nat

VARIABLES
  msgs,      \* responses the server has sent
  arrived,   \* bytes the network has delivered to the socket
  eof,       \* the server has closed its end
  filled,    \* bytes bufio.Reader has read from the socket
  consumed,  \* bytes getResponse has read from bufio.Reader
  pc,        \* where getResponse is: the part it reads next, or "idle"
  cur,       \* the response it is assembling
  taken,     \* responses it has returned
  failure,   \* its first error: "none", "eof", "short" (a short read, no eof)
  calls,     \* calls made
  whole      \* history: each time bufio.Reader was filled so far, that ended
             \* with the end of a response

netVars == <<msgs, arrived, eof>>
vars == <<netVars, filled, consumed, pc, cur, taken, failure, calls, whole>>

Response == [at : Nat, l1 : BodyLen, l2 : BodyLen]
Size(r) == HeadLen + r.l1 + r.l2
Sent == IF msgs = <<>> THEN 0 ELSE msgs[Len(msgs)].at + Size(msgs[Len(msgs)])
Lesser(a, b) == IF a <= b THEN a ELSE b

Init ==
  /\ msgs = <<>>
  /\ arrived = 0
  /\ eof = FALSE
  /\ filled = 0
  /\ consumed = 0
  /\ pc = "idle"
  /\ cur = [at |-> 0, l1 |-> 0, l2 |-> 0]
  /\ taken = <<>>
  /\ failure = "none"
  /\ calls = 0
  /\ whole = TRUE
-----------------------------------------------------------------------------
(* The server and the network                                              *)

Send(l1, l2) ==
  /\ ~eof
  /\ Len(msgs) < MaxMsgs
  /\ Sent + HeadLen + l1 + l2 <= consumed + Window
  /\ msgs' = Append(msgs, [at |-> Sent, l1 |-> l1, l2 |-> l2])
  /\ UNCHANGED <<arrived, eof, filled, consumed, pc, cur, taken, failure, calls, whole>>

Arrive ==
  /\ arrived' \in arrived + 1 .. Sent
  /\ UNCHANGED <<msgs, eof, filled, consumed, pc, cur, taken, failure, calls, whole>>

Hangup ==
  /\ ~eof
  /\ eof' = TRUE
  /\ UNCHANGED <<msgs, arrived, filled, consumed, pc, cur, taken, failure, calls, whole>>
-----------------------------------------------------------------------------
(* bufio.Reader.Read for k bytes                                           *)

\* The positions at which a response ends.
Ends == {0} \cup {msgs[i].at + Size(msgs[i]) : i \in DOMAIN msgs}

\* Something is buffered or in the socket, or the end was reached.
Readable == filled > consumed \/ arrived > filled \/ eof

\* What one Read of the socket adds: with nothing buffered it fills the buffer,
\* or serves a large request directly.
Fetched(k) ==
  IF filled > consumed THEN 0 ELSE Lesser(arrived - filled, IF k < BufSize THEN BufSize ELSE k)

\* The number of bytes that Read returns.
Got(k) == Lesser(k, filled + Fetched(k) - consumed)

Read(k) ==
  /\ Readable
  /\ filled' = filled + Fetched(k)
  /\ consumed' = consumed + Got(k)
  /\ whole' = (whole /\ filled' \in Ends)
-----------------------------------------------------------------------------
(* getResponse                                                             *)

Call ==
  /\ pc = "idle"
  /\ calls < MaxCalls
  /\ pc' = "head"
  /\ calls' = calls + 1
  /\ UNCHANGED <<netVars, filled, consumed, cur, taken, failure, whole>>

\* getResponse gives up; what it has consumed stays consumed.
GiveUp ==
  /\ pc' = "idle"
  /\ failure' = IF failure # "none" THEN failure ELSE IF eof THEN "eof" ELSE "short"
  /\ UNCHANGED <<cur, taken>>

\* The part after the given one that is not empty, or "idle" if r is complete.
NextPart(r, part) ==
  IF part = "head" /\ r.l1 > 0 THEN "body"
  ELSE IF part # "body1" /\ r.l2 > 0 THEN "body1" ELSE "idle"

\* getResponse has read the given part of r; it returns r once it is complete.
Continue(r, part) ==
  /\ pc' = NextPart(r, part)
  /\ cur' = r
  /\ taken' = IF NextPart(r, part) = "idle" THEN Append(taken, r) ELSE taken
  /\ UNCHANGED failure

\* What the HeadLen bytes at position n decode to: the head of the response that
\* stands there, or whatever lengths the middle of a response happens to hold.
Decoded(n) ==
  LET here == {i \in DOMAIN msgs : msgs[i].at = n}
  IN  IF here # {} THEN {msgs[i] : i \in here}
      ELSE {[at |-> n, l1 |-> a, l2 |-> b] : a \in BodyLen, b \in BodyLen}

\* Mutant: the end of the stream is not noticed.
ReadHeadUnchecked ==
  /\ pc = "head"
  /\ Read(HeadLen)
  /\ \E r \in Decoded(consumed) : Continue(r, "head")
  /\ UNCHANGED <<netVars, calls>>

ReadHead ==
  /\ pc = "head"
  /\ Read(HeadLen)
  /\ IF Got(HeadLen) # HeadLen
       THEN GiveUp
       ELSE \E r \in Decoded(consumed) : Continue(r, "head")
  /\ UNCHANGED <<netVars, calls>>

\* Mutant: a short read is not noticed.
ReadPartUnchecked(part, k) ==
  /\ pc = part
  /\ Read(k)
  /\ Continue(cur, part)
  /\ UNCHANGED <<netVars, calls>>

ReadPart(part, k) ==
  /\ pc = part
  /\ Read(k)
  /\ IF Got(k) # k THEN GiveUp ELSE Continue(cur, part)
  /\ UNCHANGED <<netVars, calls>>

\* Mutant: a byte too many is asked for.
ReadBodyBeyond == ReadPart("body", cur.l1 + 1)
ReadBody == ReadPart("body", cur.l1)
ReadBody1 == ReadPart("body1", cur.l2)

\* The callers have what they asked for.
Done ==
  /\ pc = "idle"
  /\ calls = MaxCalls
  /\ UNCHANGED vars

Next ==
  \/ \E l1, l2 \in BodyLen : Send(l1, l2)
  \/ Arrive
  \/ Hangup
  \/ Call
  \/ ReadHead
  \/ ReadBody
  \/ ReadBody1
  \/ Done

Spec == Init /\ [][Next]_vars

\* What was sent arrives, and getResponse is called and runs.
FairSpec == Spec /\ WF_vars(Arrive) /\ WF_vars(Call)
                 /\ WF_vars(ReadHead) /\ WF_vars(ReadBody) /\ WF_vars(ReadBody1)
-----------------------------------------------------------------------------
(* Properties                                                              *)

\* getResponse implements the reply stream: until it has failed once, it hands
\* out the server's responses unchanged and in order, however they arrive.
Stream == INSTANCE ReplyStream WITH sent <- msgs, intact <- (failure = "none")
ImplementsReplyStream == Stream!Spec

\* A call fails only if the server has closed the connection: while it is up, the
\* response is returned ("Exec XsCommand on server and get then response").
FailsOnlyAtEof == failure # "short"

\* Whatever getResponse returns without an error is a response of the server
\* ("GetSearchResponse return the search response"), as long as bufio.Reader is
\* never filled up to the middle of a response, by the network or by the size of
\* its buffer.
GenuineUnlessCut == whole => \A i \in DOMAIN taken : \E j \in DOMAIN msgs : taken[i] = msgs[j]

\* A response that was sent on a connection that stays up is handed out, on the
\* same condition.
Delivered ==
  \A n \in 1 .. Lesser(MaxMsgs, MaxCalls) :
    Len(msgs) >= n ~> (Len(taken) >= n \/ eof \/ ~whole)
=============================================================================
