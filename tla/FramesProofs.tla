---------------------------- MODULE FramesProofs ----------------------------
(***************************************************************************)
(* Theorems about module Frames, for all lengths of head and bodies, every *)
(* buffer size and every bound: getResponse implements the reply stream    *)
(* of module ReplyStream, and what it returns is genuine unless a response *)
(* is cut by the end of the buffer.                                        *)
(***************************************************************************)
EXTENDS Frames, SequenceTheorems, TLAPS

-----------------------------------------------------------------------------
(* The inductive invariant                                                 *)

Pc == {"idle", "head", "body", "body1"}

TypeInv ==
  /\ msgs \in Seq(Response)
  /\ arrived \in Nat
  /\ eof \in BOOLEAN
  /\ filled \in Nat
  /\ consumed \in Nat
  /\ pc \in Pc
  /\ cur \in [at : Nat, l1 : Nat, l2 : Nat]
  /\ pc \in {"body", "body1"} => cur \in Response
  /\ taken \in Seq(Response)
  /\ failure \in {"none", "eof", "short"}
  /\ calls \in Nat
  /\ whole \in BOOLEAN

\* Where each response ends, and so the next one begins.
EndOf == [i \in 0 .. Len(msgs) |-> IF i = 0 THEN 0 ELSE msgs[i].at + Size(msgs[i])]

\* The responses follow each other without a gap.
LayoutInv ==
  /\ \A i \in 1 .. Len(msgs) : msgs[i].at = EndOf[i - 1]
  /\ \A i, j \in 0 .. Len(msgs) : i < j => EndOf[i] + HeadLen <= EndOf[j]

\* Bytes are consumed after they are buffered, after they arrive, after they
\* are sent.
FlowInv == consumed <= filled /\ filled <= arrived /\ arrived <= EndOf[Len(msgs)]

\* As long as bufio.Reader was never filled up to the middle of a response, it
\* is now filled up to the end of one.
WholeInv == whole => \E i \in 0 .. Len(msgs) : filled = EndOf[i]

\* Before its first failure, and as long as no response was cut, getResponse has
\* returned the first responses of the stream and stands where pc says in the next.
InStep ==
  /\ Len(taken) <= Len(msgs)
  /\ \A i \in 1 .. Len(taken) : taken[i] = msgs[i]
  /\ pc \in {"idle", "head"} => consumed = EndOf[Len(taken)]
  /\ pc \in {"body", "body1"} => Len(taken) < Len(msgs) /\ cur = msgs[Len(taken) + 1]
  /\ pc = "body" => cur.l1 > 0 /\ consumed = EndOf[Len(taken)] + HeadLen
  /\ pc = "body1" => cur.l2 > 0 /\ consumed = EndOf[Len(taken)] + HeadLen + cur.l1
StepInv == whole \/ failure = "none" => InStep

IInv == TypeInv /\ LayoutInv /\ FlowInv /\ WholeInv /\ StepInv

LEMMA InitInv == Init => IInv
<1> SUFFICES ASSUME Init
             PROVE  IInv
  OBVIOUS
<1>1. Len(msgs) = 0 /\ EndOf[0] = 0
  BY DEF Init, EndOf
<1> QED
  <2>1. TypeInv
    <3>1. msgs \in Seq(Response) /\ taken \in Seq(Response)
      BY EmptySeq DEF Init
    <3>2. cur \in [at : Nat, l1 : Nat, l2 : Nat]
      BY DEF Init
    <3> QED
      BY <3>1, <3>2 DEF Init, TypeInv, Pc
  <2>2. LayoutInv
    BY <1>1 DEF LayoutInv
  <2>3. FlowInv /\ WholeInv
    BY <1>1 DEF Init, FlowInv, WholeInv
  <2>4. StepInv
    BY <1>1 DEF Init, StepInv, InStep
  <2> QED
    BY <2>1, <2>2, <2>3, <2>4 DEF IInv

\* The end of the last response is where the next one will begin.
LEMMA SentIsEnd ==
  ASSUME TypeInv
  PROVE  Sent = EndOf[Len(msgs)]
<1>1. msgs = <<>> <=> Len(msgs) = 0
  BY EmptySeq DEF TypeInv
<1> QED
  BY <1>1 DEF Sent, EndOf, TypeInv

LEMMA EndsAreEnds ==
  ASSUME TypeInv
  PROVE  Ends = {EndOf[i] : i \in 0 .. Len(msgs)}
<1>1. DOMAIN msgs = 1 .. Len(msgs)
  BY DEF TypeInv
<1>2. \A i \in 0 .. Len(msgs) : i = 0 \/ i \in 1 .. Len(msgs)
  BY DEF TypeInv
<1>3. \A i \in 1 .. Len(msgs) : EndOf[i] = msgs[i].at + Size(msgs[i])
  BY DEF EndOf
<1>4. EndOf[0] = 0
  BY DEF EndOf, TypeInv
<1>5. 0 \in 0 .. Len(msgs) /\ \A i \in 1 .. Len(msgs) : i \in 0 .. Len(msgs)
  BY DEF TypeInv
<1> QED
  BY <1>1, <1>2, <1>3, <1>4, <1>5 DEF Ends

LEMMA EndType ==
  ASSUME TypeInv
  PROVE  EndOf \in [0 .. Len(msgs) -> Nat]
<1>1. ASSUME NEW i \in 1 .. Len(msgs)
      PROVE  msgs[i].at + Size(msgs[i]) \in Nat
  <2>1. msgs[i] \in Response
    BY DEF TypeInv
  <2>2. msgs[i].at \in Nat /\ msgs[i].l1 \in Nat /\ msgs[i].l2 \in Nat
    BY <2>1, SizeAssumption DEF Response
  <2>3. Size(msgs[i]) \in Nat
    BY <2>2, SizeAssumption DEF Size
  <2> QED
    BY <2>2, <2>3
<1> QED
  BY <1>1 DEF EndOf, TypeInv

-----------------------------------------------------------------------------
(* The server and the network                                              *)

LEMMA SendInv ==
  ASSUME IInv, NEW l1 \in BodyLen, NEW l2 \in BodyLen, Send(l1, l2)
  PROVE  IInv'
<1> DEFINE r == [at |-> Sent, l1 |-> l1, l2 |-> l2]
<1>1. /\ msgs' = Append(msgs, r)
      /\ UNCHANGED <<arrived, eof, filled, consumed, pc, cur, taken, failure, calls, whole>>
  BY DEF Send
<1>2. /\ TypeInv /\ Sent = EndOf[Len(msgs)] /\ EndOf \in [0 .. Len(msgs) -> Nat]
      /\ Len(msgs) \in Nat
  BY SentIsEnd, EndType DEF IInv, TypeInv
<1>3. /\ r \in Response /\ r.at = EndOf[Len(msgs)]
      /\ Size(r) \in Nat /\ Size(r) >= HeadLen
  <2>1. Sent \in Nat
    BY <1>2
  <2> QED
    BY <1>2, <2>1, SizeAssumption DEF Response, Size
<1> HIDE DEF r
<1>4. /\ msgs' \in Seq(Response) /\ Len(msgs') = Len(msgs) + 1
      /\ msgs'[Len(msgs) + 1] = r
      /\ \A i \in 1 .. Len(msgs) : msgs'[i] = msgs[i]
  BY <1>1, <1>2, <1>3, AppendProperties DEF TypeInv
<1>5. TypeInv'
  BY <1>1, <1>2, <1>4 DEF TypeInv
<1>6. /\ \A i \in 0 .. Len(msgs) : EndOf'[i] = EndOf[i]
      /\ EndOf'[Len(msgs) + 1] = EndOf[Len(msgs)] + Size(r)
  BY <1>2, <1>3, <1>4 DEF EndOf
<1>7. \A i \in 0 .. Len(msgs') : i \in 0 .. Len(msgs) \/ i = Len(msgs) + 1
  BY <1>2, <1>4
<1>8. LayoutInv'
  <2>1. ASSUME NEW i \in 1 .. Len(msgs')
        PROVE  msgs'[i].at = EndOf'[i - 1]
    <3>1. CASE i \in 1 .. Len(msgs)
      <4>1. msgs[i].at = EndOf[i - 1] /\ i - 1 \in 0 .. Len(msgs)
        BY <1>2, <3>1 DEF IInv, LayoutInv
      <4> QED
        BY <1>4, <1>6, <3>1, <4>1
    <3>2. CASE i = Len(msgs) + 1
      <4>1. i - 1 = Len(msgs) /\ Len(msgs) \in 0 .. Len(msgs)
        BY <1>2, <3>2
      <4> QED
        BY <1>3, <1>4, <1>6, <3>2, <4>1
    <3> QED
      BY <1>2, <1>4, <3>1, <3>2
  <2>2. ASSUME NEW i \in 0 .. Len(msgs'), NEW j \in 0 .. Len(msgs'), i < j
        PROVE  EndOf'[i] + HeadLen <= EndOf'[j]
    <3>1. i \in 0 .. Len(msgs)
      BY <1>2, <1>4, <2>2
    <3>2. CASE j \in 0 .. Len(msgs)
      BY <1>6, <2>2, <3>1, <3>2 DEF IInv, LayoutInv
    <3>3. CASE j = Len(msgs) + 1
      <4>1. EndOf[i] <= EndOf[Len(msgs)]
        <5>1. CASE i = Len(msgs)
          BY <1>2, <5>1
        <5>2. CASE i < Len(msgs)
          <6>1. EndOf[i] + HeadLen <= EndOf[Len(msgs)]
            BY <1>2, <3>1, <5>2 DEF IInv, LayoutInv
          <6> QED
            BY <1>2, <3>1, <6>1, SizeAssumption
        <5> QED
          BY <1>2, <3>1, <5>1, <5>2
      <4>2. EndOf[i] \in Nat /\ EndOf[Len(msgs)] \in Nat
        BY <1>2, <3>1
      <4> QED
        BY <1>3, <1>6, <3>1, <3>3, <4>1, <4>2, SizeAssumption
    <3> QED
      BY <1>7, <3>2, <3>3
  <2> QED
    BY <2>1, <2>2 DEF LayoutInv
<1>9. FlowInv'
  <2>1. EndOf[Len(msgs)] <= EndOf'[Len(msgs')]
    BY <1>2, <1>3, <1>4, <1>6
  <2>2. arrived \in Nat /\ EndOf[Len(msgs)] \in Nat /\ EndOf'[Len(msgs')] \in Nat
    BY <1>2, <1>3, <1>4, <1>6 DEF TypeInv
  <2> QED
    BY <1>1, <2>1, <2>2 DEF IInv, FlowInv
<1>10. WholeInv'
  <2>1. \A i \in 0 .. Len(msgs) : i \in 0 .. Len(msgs')
    BY <1>2, <1>4
  <2> QED
    BY <1>1, <1>6, <2>1 DEF IInv, WholeInv
<1>11. StepInv'
  <2> SUFFICES ASSUME InStep
               PROVE  InStep'
    BY <1>1 DEF IInv, StepInv
  <2>1. /\ Len(taken) \in Nat /\ Len(taken) <= Len(msgs) /\ Len(taken) <= Len(msgs')
        /\ Len(taken) \in 0 .. Len(msgs)
    BY <1>2, <1>4 DEF TypeInv, InStep
  <2>2. Len(taken) < Len(msgs) => Len(taken) < Len(msgs') /\ Len(taken) + 1 \in 1 .. Len(msgs)
    BY <1>2, <1>4, <2>1
  <2>3. \A i \in 1 .. Len(taken) : i \in 1 .. Len(msgs)
    BY <1>2, <2>1
  <2> QED
    BY <1>1, <1>4, <1>6, <2>1, <2>2, <2>3 DEF InStep
<1> QED
  BY <1>5, <1>8, <1>9, <1>10, <1>11 DEF IInv

-----------------------------------------------------------------------------
(* bufio.Reader                                                            *)

\* Read returns at most what it is asked for, and all that is buffered if that
\* is less; what it leaves is buffered.
LEMMA ReadFlow ==
  ASSUME TypeInv, FlowInv, NEW k \in Nat, Read(k)
  PROVE  /\ filled' \in Nat /\ consumed' \in Nat
         /\ filled <= filled' /\ filled' <= arrived
         /\ consumed <= consumed' /\ consumed' <= filled'
         /\ consumed' <= consumed + k
         /\ Got(k) = k => consumed' = consumed + k
         /\ Got(k) # k => consumed' = filled' /\ filled' < consumed + k
<1>1. /\ consumed \in Nat /\ filled \in Nat /\ arrived \in Nat /\ BufSize \in Nat
      /\ consumed <= filled /\ filled <= arrived
  BY SizeAssumption DEF TypeInv, FlowInv
<1>2. Fetched(k) \in Nat /\ filled + Fetched(k) <= arrived
  BY <1>1 DEF Fetched, Lesser
<1>3. /\ Got(k) \in Nat /\ Got(k) <= k /\ Got(k) <= filled + Fetched(k) - consumed
      /\ Got(k) # k => Got(k) = filled + Fetched(k) - consumed /\ Got(k) < k
  BY <1>1, <1>2 DEF Got, Lesser
<1>4. filled' = filled + Fetched(k) /\ consumed' = consumed + Got(k)
  BY DEF Read
<1> QED
  BY <1>1, <1>2, <1>3, <1>4

LEMMA ReadWhole ==
  ASSUME IInv, NEW k \in Nat, Read(k), UNCHANGED msgs
  PROVE  /\ whole' \in BOOLEAN
         /\ whole' => whole /\ \E i \in 0 .. Len(msgs) : filled' = EndOf[i]
         /\ WholeInv' /\ EndOf' = EndOf
<1>1. whole' = (whole /\ filled' \in Ends')
  BY DEF Read, Ends
<1>2. EndOf' = EndOf
  BY DEF EndOf
<1>3. Ends' = {EndOf[i] : i \in 0 .. Len(msgs)}
  BY EndsAreEnds DEF IInv, Ends
<1> QED
  BY <1>1, <1>2, <1>3 DEF WholeInv

\* What is buffered up to the end of a response, and beyond the end of the one
\* before, holds the whole of the next.
LEMMA WholeNext ==
  ASSUME IInv, NEW n \in 0 .. Len(msgs), NEW f \in Nat, EndOf[n] < f,
         NEW i \in 0 .. Len(msgs), f = EndOf[i]
  PROVE  n < Len(msgs) /\ EndOf[n + 1] <= f
<1>1. EndOf \in [0 .. Len(msgs) -> Nat] /\ Len(msgs) \in Nat
  BY EndType DEF IInv, TypeInv
<1>2. n < i
  <2>1. i < n => EndOf[i] + HeadLen <= EndOf[n]
    BY DEF IInv, LayoutInv
  <2> QED
    BY <1>1, <2>1, SizeAssumption
<1>3. n + 1 \in 0 .. Len(msgs) /\ n + 1 <= i
  BY <1>1, <1>2
<1>4. n + 1 < i => EndOf[n + 1] + HeadLen <= EndOf[i]
  BY <1>3 DEF IInv, LayoutInv
<1> QED
  BY <1>1, <1>3, <1>4, SizeAssumption

\* Where the reader stands at the end of the n-th response and more has arrived,
\* the head of the next one is decoded.
LEMMA DecodedNext ==
  ASSUME IInv, NEW n \in 0 .. Len(msgs), consumed = EndOf[n], consumed < arrived
  PROVE  n < Len(msgs) /\ Decoded(consumed) = {msgs[n + 1]}
<1>1. EndOf \in [0 .. Len(msgs) -> Nat] /\ Len(msgs) \in Nat /\ arrived \in Nat
  BY EndType DEF IInv, TypeInv
<1>2. n < Len(msgs)
  <2>1. n # Len(msgs)
    BY <1>1 DEF IInv, FlowInv
  <2> QED
    BY <1>1, <2>1
<1>3. n + 1 \in 1 .. Len(msgs) /\ DOMAIN msgs = 1 .. Len(msgs)
  BY <1>1, <1>2 DEF IInv, TypeInv
<1>4. ASSUME NEW i \in 1 .. Len(msgs)
      PROVE  msgs[i].at = consumed <=> i = n + 1
  <2>1. i - 1 \in 0 .. Len(msgs) /\ msgs[i].at = EndOf[i - 1]
    BY <1>1 DEF IInv, LayoutInv
  <2>2. /\ i - 1 < n => EndOf[i - 1] + HeadLen <= EndOf[n]
        /\ n < i - 1 => EndOf[n] + HeadLen <= EndOf[i - 1]
    BY <2>1 DEF IInv, LayoutInv
  <2>3. EndOf[i - 1] = EndOf[n] => i - 1 = n
    BY <1>1, <2>1, <2>2, SizeAssumption
  <2>4. i - 1 = n <=> i = n + 1
    BY <1>1
  <2> QED
    BY <2>1, <2>3, <2>4
<1>5. {i \in DOMAIN msgs : msgs[i].at = consumed} = {n + 1}
  BY <1>3, <1>4
<1> QED
  BY <1>2, <1>5 DEF Decoded

\* Whatever stands there, a response comes out.
LEMMA DecodedType ==
  ASSUME TypeInv, NEW n \in Nat, NEW r \in Decoded(n)
  PROVE  r \in Response
<1>1. \A i \in DOMAIN msgs : msgs[i] \in Response
  BY DEF TypeInv
<1>2. \A a \in BodyLen, b \in BodyLen : [at |-> n, l1 |-> a, l2 |-> b] \in Response
  BY DEF Response
<1>3. CASE {i \in DOMAIN msgs : msgs[i].at = n} # {}
  BY <1>1, <1>3 DEF Decoded
<1>4. CASE {i \in DOMAIN msgs : msgs[i].at = n} = {}
  BY <1>2, <1>4 DEF Decoded
<1> QED
  BY <1>3, <1>4

-----------------------------------------------------------------------------
(* getResponse                                                             *)

\* A response in its layout.
LEMMA ResponseLayout ==
  ASSUME TypeInv, LayoutInv, NEW n \in Nat, n < Len(msgs)
  PROVE  /\ n \in 0 .. Len(msgs) /\ n + 1 \in 0 .. Len(msgs) /\ n + 1 \in 1 .. Len(msgs)
         /\ msgs[n + 1] \in Response
         /\ msgs[n + 1].l1 \in Nat /\ msgs[n + 1].l2 \in Nat
         /\ EndOf[n] \in Nat
         /\ EndOf[n + 1] = EndOf[n] + HeadLen + msgs[n + 1].l1 + msgs[n + 1].l2
<1>1. /\ n \in 0 .. Len(msgs) /\ n + 1 \in 0 .. Len(msgs) /\ n + 1 \in 1 .. Len(msgs)
      /\ n + 1 - 1 = n
  BY DEF TypeInv
<1>2. msgs[n + 1] \in Response
  BY <1>1 DEF TypeInv
<1>3. msgs[n + 1].l1 \in Nat /\ msgs[n + 1].l2 \in Nat
  BY <1>2, SizeAssumption DEF Response
<1>4. EndOf[n] \in Nat
  BY <1>1, EndType
<1>5. msgs[n + 1].at = EndOf[n]
  BY <1>1 DEF LayoutInv
<1>6. EndOf[n + 1] = msgs[n + 1].at + Size(msgs[n + 1])
  BY <1>1 DEF EndOf
<1> QED
  BY <1>1, <1>2, <1>3, <1>4, <1>5, <1>6, SizeAssumption DEF Size

\* The part that has been read last is followed by the next, or the response is
\* complete and the reader stands at its end.
LEMMA ContinueInStep ==
  ASSUME TypeInv, LayoutInv, InStep, UNCHANGED msgs, Len(taken) < Len(msgs),
         NEW part \in {"head", "body", "body1"},
         Continue(msgs[Len(taken) + 1], part),
         consumed' = EndOf[Len(taken)] + HeadLen
                     + (IF part = "head" THEN 0 ELSE msgs[Len(taken) + 1].l1)
                     + (IF part = "body1" THEN msgs[Len(taken) + 1].l2 ELSE 0)
  PROVE  InStep'
<1> DEFINE n == Len(taken)
           r == msgs[n + 1]
<1>1. /\ n \in Nat /\ n + 1 \in 1 .. Len(msgs) /\ Len(msgs) \in Nat
      /\ r \in Response /\ r.l1 \in Nat /\ r.l2 \in Nat /\ EndOf[n] \in Nat
      /\ EndOf[n + 1] = EndOf[n] + HeadLen + r.l1 + r.l2
  BY ResponseLayout DEF TypeInv
<1>2. EndOf' = EndOf
  BY DEF EndOf
<1>3. /\ consumed' = EndOf[n] + HeadLen + (IF part = "head" THEN 0 ELSE r.l1)
                     + (IF part = "body1" THEN r.l2 ELSE 0)
      /\ pc' = NextPart(r, part) /\ cur' = r
      /\ taken' = IF NextPart(r, part) = "idle" THEN Append(taken, r) ELSE taken
  BY DEF Continue
<1> HIDE DEF n, r
<1>4. CASE NextPart(r, part) = "idle"
  <2>1. taken' = Append(taken, r) /\ pc' = "idle"
    BY <1>3, <1>4
  <2>2. /\ Len(taken') = n + 1 /\ taken'[n + 1] = r
        /\ \A i \in 1 .. n : taken'[i] = taken[i]
    BY <1>1, <2>1, AppendProperties DEF TypeInv, n
  <2>3. \A i \in 1 .. n + 1 : i \in 1 .. n \/ i = n + 1
    BY <1>1
  <2>4. \A i \in 1 .. n + 1 : taken'[i] = msgs[i]
    BY <2>2, <2>3 DEF InStep, n, r
  <2>5. consumed' = EndOf[n + 1]
    BY <1>1, <1>3, <1>4, SizeAssumption DEF NextPart
  <2> QED
    BY <1>1, <1>2, <2>1, <2>2, <2>4, <2>5 DEF InStep
<1>5. CASE NextPart(r, part) # "idle"
  <2>1. /\ taken' = taken /\ cur' = r
        /\ \/ pc' = "body" /\ part = "head" /\ r.l1 > 0
           \/ pc' = "body1" /\ part = "head" /\ r.l1 = 0 /\ r.l2 > 0
           \/ pc' = "body1" /\ part = "body" /\ r.l2 > 0
    BY <1>1, <1>3, <1>5 DEF NextPart
  <2>2. /\ pc' = "body" => consumed' = EndOf[n] + HeadLen
        /\ pc' = "body1" => consumed' = EndOf[n] + HeadLen + r.l1
    BY <1>1, <1>3, <2>1, SizeAssumption
  <2> QED
    BY <1>2, <2>1, <2>2 DEF InStep, n, r
<1> QED
  BY <1>4, <1>5

\* What every read of a part keeps.
LEMMA PartType ==
  ASSUME IInv, NEW k \in Nat, Read(k), UNCHANGED <<netVars, calls>>,
         \/ GiveUp
         \/ \E r \in Response, part \in {"head", "body", "body1"} : Continue(r, part)
  PROVE  /\ TypeInv' /\ LayoutInv' /\ FlowInv' /\ WholeInv' /\ EndOf' = EndOf
         /\ whole' => whole
         /\ failure' = "none" => failure = "none" /\ ~GiveUp
<1>1. UNCHANGED <<msgs, arrived, eof, calls>>
  BY DEF netVars
<1>2. /\ whole' \in BOOLEAN /\ (whole' => whole) /\ WholeInv' /\ EndOf' = EndOf
  BY <1>1, ReadWhole
<1>3. filled' \in Nat /\ consumed' \in Nat /\ filled' <= arrived /\ consumed' <= filled'
  BY ReadFlow DEF IInv
<1>4. FlowInv'
  BY <1>1, <1>2, <1>3 DEF IInv, FlowInv
<1>5. LayoutInv'
  BY <1>1, <1>2 DEF IInv, LayoutInv
<1>6. /\ pc' \in Pc /\ cur' \in [at : Nat, l1 : Nat, l2 : Nat]
      /\ pc' \in {"body", "body1"} => cur' \in Response
      /\ taken' \in Seq(Response)
      /\ failure' \in {"none", "eof", "short"}
      /\ failure' = "none" => failure = "none" /\ ~GiveUp
  <2>1. CASE GiveUp
    BY <2>1 DEF GiveUp, IInv, TypeInv, Pc
  <2>2. ASSUME NEW r \in Response, NEW part \in {"head", "body", "body1"}, Continue(r, part), ~GiveUp
        PROVE  /\ pc' \in Pc /\ cur' \in [at : Nat, l1 : Nat, l2 : Nat]
               /\ pc' \in {"body", "body1"} => cur' \in Response
               /\ taken' \in Seq(Response)
               /\ failure' \in {"none", "eof", "short"}
               /\ failure' = "none" => failure = "none"
    <3>1. Append(taken, r) \in Seq(Response)
      BY AppendProperties DEF IInv, TypeInv
    <3>2. taken' \in Seq(Response)
      BY <2>2, <3>1 DEF Continue, IInv, TypeInv
    <3>3. r \in [at : Nat, l1 : Nat, l2 : Nat]
      BY SizeAssumption DEF Response
    <3>4. pc' \in Pc
      BY <2>2 DEF Continue, NextPart, Pc
    <3> QED
      BY <2>2, <3>2, <3>3, <3>4 DEF Continue, IInv, TypeInv
  <2> QED
    BY <2>1, <2>2
<1>7. TypeInv'
  BY <1>1, <1>2, <1>3, <1>6 DEF IInv, TypeInv
<1> QED
  BY <1>2, <1>4, <1>5, <1>6, <1>7

\* The head is read at the end of a response; all that a short read can do to a
\* stream that was never cut is to find nothing.
LEMMA HeadInv ==
  ASSUME IInv, ReadHead
  PROVE  IInv'
<1> DEFINE n == Len(taken)
<1>1. /\ pc = "head" /\ Read(HeadLen) /\ UNCHANGED <<netVars, calls>>
      /\ IF Got(HeadLen) # HeadLen THEN GiveUp ELSE \E r \in Decoded(consumed) : Continue(r, "head")
  BY DEF ReadHead
<1>2. HeadLen \in Nat \ {0} /\ consumed \in Nat /\ n \in Nat /\ Len(msgs) \in Nat
  BY SizeAssumption DEF IInv, TypeInv
<1>3. /\ TypeInv' /\ LayoutInv' /\ FlowInv' /\ WholeInv' /\ EndOf' = EndOf
      /\ whole' => whole
      /\ failure' = "none" => failure = "none" /\ ~GiveUp
  <2>1. ASSUME NEW r \in Decoded(consumed)
        PROVE  r \in Response
    BY <1>2, DecodedType DEF IInv
  <2> QED
    BY <1>1, <1>2, <2>1, PartType
<1>4. /\ filled' \in Nat /\ consumed' \in Nat
      /\ consumed <= consumed' /\ consumed' <= filled' /\ filled' <= arrived
      /\ Got(HeadLen) = HeadLen => consumed' = consumed + HeadLen
      /\ Got(HeadLen) # HeadLen => consumed' = filled' /\ filled' < consumed + HeadLen
  BY <1>1, <1>2, ReadFlow DEF IInv
<1>5. msgs' = msgs /\ arrived \in Nat
  BY <1>1 DEF netVars, IInv, TypeInv
<1>6. ASSUME whole' \/ failure' = "none"
      PROVE  InStep'
  <2>1. InStep /\ consumed = EndOf[n] /\ n \in 0 .. Len(msgs)
    BY <1>1, <1>2, <1>3, <1>6 DEF IInv, StepInv, InStep
  <2>2. CASE GiveUp /\ Got(HeadLen) # HeadLen
    <3>1. whole' /\ \E i \in 0 .. Len(msgs) : filled' = EndOf[i]
      BY <1>1, <1>2, <1>3, <1>5, <1>6, <2>2, ReadWhole
    <3>2. consumed' = consumed
      <4>1. ASSUME filled' > consumed
            PROVE  FALSE
        <5>1. n < Len(msgs) /\ EndOf[n + 1] <= filled'
          BY <1>2, <1>4, <2>1, <3>1, <4>1, WholeNext
        <5>2. EndOf[n] + HeadLen <= EndOf[n + 1] /\ EndOf[n + 1] \in Nat
          <6>1. n + 1 \in 0 .. Len(msgs) /\ n < n + 1
            BY <1>2, <5>1
          <6> QED
            BY <2>1, <6>1, EndType DEF IInv, LayoutInv
        <5> QED
          BY <1>2, <1>4, <2>1, <2>2, <5>1, <5>2
      <4> QED
        BY <1>2, <1>4, <2>2, <4>1
    <3> QED
      BY <1>3, <1>5, <2>1, <2>2, <3>2 DEF InStep, GiveUp
  <2>3. CASE Got(HeadLen) = HeadLen /\ \E r \in Decoded(consumed) : Continue(r, "head")
    <3>1. consumed < arrived /\ consumed' = EndOf[n] + HeadLen
      BY <1>2, <1>4, <1>5, <2>1, <2>3
    <3>2. n < Len(msgs) /\ Decoded(consumed) = {msgs[n + 1]}
      BY <2>1, <3>1, DecodedNext
    <3>3. Continue(msgs[n + 1], "head")
      BY <2>3, <3>2
    <3>4. EndOf[n] \in Nat
      BY <2>1, EndType DEF IInv
    <3>5. consumed' = EndOf[n] + HeadLen
                      + (IF "head" = "head" THEN 0 ELSE msgs[n + 1].l1)
                      + (IF "head" = "body1" THEN msgs[n + 1].l2 ELSE 0)
      BY <1>2, <3>1, <3>4
    <3> QED
      BY <1>5, <2>1, <3>2, <3>3, <3>5, ContinueInStep DEF IInv
  <2> QED
    BY <1>1, <2>2, <2>3
<1> QED
  BY <1>3, <1>6 DEF IInv, StepInv

\* The bodies are read from within a response, which a stream that was never cut
\* has wholly in the buffer.
LEMMA PartInv ==
  ASSUME IInv, NEW part \in {"body", "body1"}, NEW k \in Nat,
         k = IF part = "body" THEN cur.l1 ELSE cur.l2,
         ReadPart(part, k)
  PROVE  IInv'
<1> DEFINE n == Len(taken)
<1>1. /\ pc = part /\ Read(k) /\ UNCHANGED <<netVars, calls>>
      /\ IF Got(k) # k THEN GiveUp ELSE Continue(cur, part)
  BY DEF ReadPart
<1>2. /\ HeadLen \in Nat \ {0} /\ consumed \in Nat /\ filled \in Nat /\ n \in Nat
      /\ Len(msgs) \in Nat /\ cur \in Response
  BY <1>1, SizeAssumption DEF IInv, TypeInv
<1>3. /\ TypeInv' /\ LayoutInv' /\ FlowInv' /\ WholeInv' /\ EndOf' = EndOf
      /\ whole' => whole
      /\ failure' = "none" => failure = "none" /\ ~GiveUp
  BY <1>1, <1>2, PartType
<1>4. /\ filled' \in Nat /\ consumed' \in Nat /\ filled <= filled'
      /\ Got(k) = k => consumed' = consumed + k
      /\ Got(k) # k => consumed' = filled' /\ filled' < consumed + k
  BY <1>1, <1>2, ReadFlow DEF IInv
<1>5. msgs' = msgs
  BY <1>1 DEF netVars
<1>6. ASSUME whole' \/ failure' = "none"
      PROVE  InStep'
  <2>1. /\ InStep /\ n < Len(msgs) /\ cur = msgs[n + 1]
        /\ part = "body" => consumed = EndOf[n] + HeadLen
        /\ part = "body1" => consumed = EndOf[n] + HeadLen + cur.l1
    BY <1>1, <1>3, <1>6 DEF IInv, StepInv, InStep
  <2>2. /\ n \in 0 .. Len(msgs) /\ cur.l1 \in Nat /\ cur.l2 \in Nat /\ EndOf[n] \in Nat
        /\ EndOf[n + 1] = EndOf[n] + HeadLen + cur.l1 + cur.l2
    BY <1>2, <2>1, ResponseLayout DEF IInv
  <2>3. EndOf[n] < consumed /\ consumed + k <= EndOf[n + 1] /\ EndOf[n + 1] \in Nat
    <3>1. CASE part = "body"
      <4>1. k = cur.l1 /\ consumed = EndOf[n] + HeadLen
        BY <2>1, <3>1
      <4> HIDE DEF n
      <4>2. EndOf[n] < consumed
        BY <1>2, <2>2, <4>1
      <4>3. consumed + k <= EndOf[n + 1]
        <5>1. consumed + k \in Nat /\ EndOf[n + 1] = (consumed + k) + cur.l2
          BY <1>2, <2>2, <4>1, SMTT(60)
        <5>2. \A a, b \in Nat : a <= a + b
          OBVIOUS
        <5> QED
          BY <2>2, <5>1, <5>2
      <4>4. EndOf[n + 1] \in Nat
        BY <1>2, <2>2
      <4> QED
        BY <4>2, <4>3, <4>4
    <3>2. CASE part = "body1"
      <4>1. k = cur.l2 /\ consumed = EndOf[n] + HeadLen + cur.l1
        BY <2>1, <3>2
      <4> HIDE DEF n
      <4>2. EndOf[n] < consumed
        BY <1>2, <2>2, <4>1
      <4>3. consumed + k <= EndOf[n + 1]
        BY <1>2, <2>2, <4>1
      <4>4. EndOf[n + 1] \in Nat
        BY <1>2, <2>2
      <4> QED
        BY <4>2, <4>3, <4>4
    <3> QED
      BY <3>1, <3>2
  <2>4. CASE GiveUp /\ Got(k) # k
    <3>1. whole /\ \E i \in 0 .. Len(msgs) : filled = EndOf[i]
      BY <1>3, <1>6, <2>4 DEF IInv, WholeInv
    <3>2. EndOf[n] < filled
      BY <1>2, <2>2, <2>3 DEF IInv, FlowInv
    <3>3. EndOf[n + 1] <= filled
      BY <1>2, <2>2, <3>1, <3>2, WholeNext
    <3>4. filled' < consumed + k /\ filled <= filled'
      BY <1>4, <2>4
    <3> QED
      BY <1>2, <1>4, <2>3, <3>3, <3>4
  <2>5. CASE Got(k) = k /\ Continue(cur, part)
    <3>1. consumed' = EndOf[n] + HeadLen
                      + (IF part = "head" THEN 0 ELSE msgs[n + 1].l1)
                      + (IF part = "body1" THEN msgs[n + 1].l2 ELSE 0)
      BY <1>2, <1>4, <2>1, <2>2, <2>5
    <3> QED
      BY <1>5, <2>1, <2>5, <3>1, ContinueInStep DEF IInv
  <2> QED
    BY <1>1, <2>4, <2>5
<1> QED
  BY <1>3, <1>6 DEF IInv, StepInv

LEMMA BodyInv ==
  ASSUME IInv, ReadBody \/ ReadBody1
  PROVE  IInv'
<1>1. cur.l1 \in Nat /\ cur.l2 \in Nat
  BY DEF IInv, TypeInv
<1>2. CASE ReadBody
  BY <1>1, <1>2, PartInv DEF ReadBody
<1>3. CASE ReadBody1
  BY <1>1, <1>3, PartInv DEF ReadBody1
<1> QED
  BY <1>2, <1>3

LEMMA NextInv ==
  ASSUME IInv, [Next]_vars
  PROVE  IInv'
<1>1. CASE Arrive
  <2>1. arrived' \in arrived + 1 .. EndOf[Len(msgs)]
    BY <1>1, SentIsEnd DEF Arrive, IInv
  <2>2. /\ UNCHANGED <<msgs, eof, filled, consumed, pc, cur, taken, failure, calls, whole>>
    BY <1>1 DEF Arrive
  <2>3. EndOf' = EndOf
    BY <2>2 DEF EndOf
  <2>4. EndOf[Len(msgs)] \in Nat
    BY EndType DEF IInv, TypeInv
  <2>5. TypeInv' /\ FlowInv'
    BY <2>1, <2>2, <2>3, <2>4 DEF IInv, TypeInv, FlowInv
  <2>6. LayoutInv' /\ WholeInv' /\ StepInv'
    BY <2>2, <2>3 DEF IInv, LayoutInv, WholeInv, StepInv, InStep
  <2> QED
    BY <2>5, <2>6 DEF IInv
<1>2. CASE Hangup
  <2>1. /\ eof' = TRUE
        /\ UNCHANGED <<msgs, arrived, filled, consumed, pc, cur, taken, failure, calls, whole>>
    BY <1>2 DEF Hangup
  <2>2. EndOf' = EndOf
    BY <2>1 DEF EndOf
  <2> QED
    BY <2>1, <2>2 DEF IInv, TypeInv, LayoutInv, FlowInv, WholeInv, StepInv, InStep
<1>3. CASE Call
  <2>1. /\ pc = "idle" /\ pc' = "head" /\ calls' = calls + 1
        /\ UNCHANGED <<msgs, arrived, eof, filled, consumed, cur, taken, failure, whole>>
    BY <1>3 DEF Call, netVars
  <2>2. EndOf' = EndOf
    BY <2>1 DEF EndOf
  <2>3. TypeInv'
    BY <2>1 DEF IInv, TypeInv, Pc
  <2>4. LayoutInv' /\ FlowInv' /\ WholeInv' /\ StepInv'
    BY <2>1, <2>2 DEF IInv, LayoutInv, FlowInv, WholeInv, StepInv, InStep
  <2> QED
    BY <2>3, <2>4 DEF IInv
<1>4. CASE Done \/ UNCHANGED vars
  <2>1. UNCHANGED <<msgs, arrived, eof, filled, consumed, pc, cur, taken, failure, calls, whole>>
    BY <1>4 DEF Done, vars, netVars
  <2>2. EndOf' = EndOf
    BY <2>1 DEF EndOf
  <2> QED
    BY <2>1, <2>2 DEF IInv, TypeInv, LayoutInv, FlowInv, WholeInv, StepInv, InStep
<1> QED
  BY <1>1, <1>2, <1>3, <1>4, SendInv, HeadInv, BodyInv DEF Next

LEMMA Invariant == Spec => []IInv
  BY InitInv, NextInv, PTL DEF Spec

-----------------------------------------------------------------------------
(* The theorems                                                            *)

\* Whatever getResponse returns is a response of the server, as long as no fill
\* of bufio.Reader ended in the middle of one, by the network or by the size of
\* the buffer: errors of earlier calls notwithstanding.
THEOREM Genuine == Spec => []GenuineUnlessCut
<1>1. IInv => GenuineUnlessCut
  <2> SUFFICES ASSUME IInv, whole, NEW i \in DOMAIN taken
               PROVE  \E j \in DOMAIN msgs : taken[i] = msgs[j]
    BY DEF GenuineUnlessCut
  <2>1. DOMAIN taken = 1 .. Len(taken) /\ DOMAIN msgs = 1 .. Len(msgs)
    BY DEF IInv, TypeInv
  <2>2. i \in 1 .. Len(msgs) /\ taken[i] = msgs[i]
    BY <2>1 DEF IInv, TypeInv, StepInv, InStep
  <2> QED
    BY <2>1, <2>2
<1> QED
  BY <1>1, Invariant, PTL

LEMMA AppendIsOneMore ==
  ASSUME NEW S, NEW s \in Seq(S), NEW e \in S
  PROVE  Stream!OneMore(s, Append(s, e))
<1>1. /\ Append(s, e) \in Seq(S) /\ Len(Append(s, e)) = Len(s) + 1
      /\ \A i \in 1 .. Len(s) : Append(s, e)[i] = s[i]
  BY AppendProperties
<1> DEFINE t == SubSeq(Append(s, e), 1, Len(s))
<1>2. \A i \in 1 .. Len(s) : Append(s, e)[i] \in S
  BY <1>1
<1>3. t \in Seq(S) /\ Len(t) = Len(s) /\ \A i \in 1 .. Len(s) : t[i] = s[i]
  BY <1>1, <1>2, SubSeqProperties
<1> HIDE DEF t
<1>4. t = s
  BY <1>3, SeqEqual
<1> QED
  BY <1>1, <1>4 DEF Stream!OneMore, t

\* A part that is read takes the next response of the stream, is part of one,
\* or fails.
LEMMA ReadStep ==
  ASSUME IInv, IInv', ReadHead \/ ReadBody \/ ReadBody1
  PROVE  Stream!Next \/ UNCHANGED <<msgs, taken, failure = "none">>
<1>1. msgs' = msgs
  BY DEF ReadHead, ReadBody, ReadBody1, ReadPart, netVars
<1>2. \/ GiveUp
      \/ \E r, part : Continue(r, part)
  BY DEF ReadHead, ReadBody, ReadBody1, ReadPart
<1>3. CASE GiveUp
  <2>1. taken' = taken /\ failure' # "none"
    BY <1>3 DEF GiveUp
  <2> QED
    BY <1>1, <2>1 DEF Stream!Next, Stream!Fail
<1>4. ASSUME NEW r, NEW part, Continue(r, part)
      PROVE  Stream!Next \/ UNCHANGED <<msgs, taken, failure = "none">>
  <2>1. failure' = failure /\ (taken' = taken \/ taken' = Append(taken, r))
    BY <1>4 DEF Continue
  <2>2. CASE taken' = Append(taken, r)
    <3>1. taken \in Seq(Response) /\ taken' \in Seq(Response) /\ Len(taken') = Len(taken) + 1
          /\ taken'[Len(taken) + 1] = r
      BY <2>2 DEF IInv, TypeInv
    <3>2. r \in Response
      BY <3>1
    <3>3. CASE failure = "none"
      <4>1. InStep'
        BY <2>1, <3>3 DEF IInv, StepInv
      <4>2. Len(taken) < Len(msgs) /\ r = msgs[Len(taken) + 1]
        BY <1>1, <3>1, <4>1 DEF InStep, IInv, TypeInv
      <4> QED
        BY <1>1, <2>1, <2>2, <3>3, <4>2 DEF Stream!Next, Stream!Take
    <3>4. CASE failure # "none"
      <4>1. Stream!OneMore(taken, taken')
        BY <2>2, <3>1, <3>2, AppendIsOneMore
      <4> QED
        BY <1>1, <2>1, <3>4, <4>1 DEF Stream!Next, Stream!TakeAnything
    <3> QED
      BY <3>3, <3>4
  <2> QED
    BY <1>1, <2>1, <2>2
<1> QED
  BY <1>2, <1>3, <1>4

\* getResponse implements the reply stream of module ReplyStream, which module
\* Connection assumes: until it fails for the first time it hands out exactly
\* what the server sent, however the bytes arrive.
THEOREM FramesImplementReplyStream == Spec => ImplementsReplyStream
<1>1. Init => Stream!Init
  BY DEF Init, Stream!Init
<1>2. IInv /\ IInv' /\ [Next]_vars => [Stream!Next]_(Stream!vars)
  <2> SUFFICES ASSUME IInv, IInv', [Next]_vars
               PROVE  Stream!Next \/ UNCHANGED <<msgs, taken, failure = "none">>
    BY DEF Stream!vars
  <2>1. ASSUME NEW l1 \in BodyLen, NEW l2 \in BodyLen, Send(l1, l2)
        PROVE  Stream!Next
    <3>1. /\ msgs' = Append(msgs, [at |-> Sent, l1 |-> l1, l2 |-> l2])
          /\ UNCHANGED <<taken, failure>>
      BY <2>1 DEF Send
    <3>2. Sent \in Nat
      BY SentIsEnd, EndType DEF IInv, TypeInv
    <3>3. Stream!OneMore(msgs, msgs')
      BY <3>1, <3>2, AppendIsOneMore DEF IInv, TypeInv, Response
    <3> QED
      BY <3>1, <3>3 DEF Stream!Next, Stream!Send
  <2>2. CASE Arrive \/ Hangup \/ Call \/ Done \/ UNCHANGED vars
    BY <2>2 DEF Arrive, Hangup, Call, Done, vars, netVars
  <2> QED
    BY <2>1, <2>2, ReadStep DEF Next
<1> QED
  BY <1>1, <1>2, Invariant, PTL DEF Spec, ImplementsReplyStream, Stream!Spec
=============================================================================
