-------------------------- MODULE ConnectionProofs --------------------------
(***************************************************************************)
(* Theorems about module Connection, for every set of goroutines and       *)
(* commands and every value of the switches and bounds.                    *)
(***************************************************************************)
EXTENDS Connection, SequenceTheorems, FiniteSetTheorems, TLAPS

-----------------------------------------------------------------------------
(* Types                                                                   *)

\* What the server answers to any command is a sequence of responses.
LEMMA AnswersType ==
  ASSUME NEW c \in Command, NEW n \in Nat, NEW r \in Answers(c, n)
  PROVE  r \in Seq(Response)
<1>1. \A k \in ReplyKind : <<Reply(n, k)>> \in Seq(Response)
  BY DEF Reply, Response
<1>2. {"ok", "err", "begin", "end", "item"} \subseteq ReplyKind
  BY DEF ReplyKind
<1>3. CASE c \in Cached
  <2>1. Answers(c, n) = {<<>>}
    BY <1>3, CommandsAssumption DEF Answers
  <2>2. <<>> \in Seq(Response)
    OBVIOUS
  <2> QED
    BY <2>1, <2>2
<1>4. CASE c \in Call
  <2>1. r \in {<<Reply(n, "ok")>>, <<Reply(n, "err")>>}
    BY <1>4, CommandsAssumption DEF Answers, Command
  <2> QED
    BY <1>1, <1>2, <2>1
<1>5. CASE c \in Stream
  <2>1. \A s \in Items(n) : s \in Seq(Response)
    <3>1. Reply(n, "item") \in Response
      BY <1>2 DEF Reply, Response
    <3>2. \A m \in 0 .. MaxItems : [i \in 1 .. m |-> Reply(n, "item")] \in Seq(Response)
      BY <3>1, IsASeq, BoundAssumption
    <3> QED
      BY <3>2 DEF Items
  <2>2. \A k \in {"end", "err"} : Results(n, k) \subseteq Seq(Response)
    <3>1. ASSUME NEW s \in Items(n), NEW k \in {"end", "err"}
          PROVE  <<Reply(n, "begin")>> \o s \o <<Reply(n, k)>> \in Seq(Response)
      <4>1. /\ <<Reply(n, "begin")>> \in Seq(Response)
            /\ <<Reply(n, k)>> \in Seq(Response)
        BY <1>1, <1>2
      <4> QED
        BY <2>1, <4>1, ConcatProperties
    <3> QED
      BY <3>1 DEF Results
  <2>3. Answers(c, n) = {<<Reply(n, "err")>>} \cup Results(n, "end") \cup Results(n, "err")
    BY <1>5, CommandsAssumption DEF Answers
  <2> QED
    BY <1>1, <1>2, <2>2, <2>3
<1> QED
  BY <1>3, <1>4, <1>5 DEF Command

\* getResponse keeps the stream of responses well formed.
LEMMA GetResponseType ==
  ASSUME TypeOK, NEW m \in Readable, GetResponse(m)
  PROVE  m.to \in Nat /\ inbox' \in Seq(Response) /\ synced' \in BOOLEAN
<1>1. m.to \in Nat
  <2>1. \A i \in DOMAIN inbox : inbox[i] \in Response
    BY DEF TypeOK
  <2>2. CASE m \in {inbox[i] : i \in {1} \cap DOMAIN inbox}
    BY <2>1, <2>2 DEF Response
  <2>3. CASE m = ReadError
    BY <2>3 DEF ReadError
  <2>4. CASE m \in {Reply(0, k) : k \in ReplyKind}
    BY <2>4 DEF Reply
  <2> QED
    BY <2>2, <2>3, <2>4 DEF Readable
<1>2. inbox' \in Seq(Response)
  <2>1. inbox \in Seq(Response)
    BY DEF TypeOK
  <2>2. CASE inbox # <<>> /\ inbox' = Tail(inbox)
    BY <2>1, <2>2, HeadTailProperties
  <2>3. CASE \E i \in 1 .. Len(inbox) + 1 : inbox' = SubSeq(inbox, i, Len(inbox))
    BY <2>1, <2>3, SubSeqProperties
  <2> QED
    BY <2>1, <2>2, <2>3 DEF GetResponse
<1>3. synced' \in BOOLEAN
  BY DEF TypeOK, GetResponse
<1> QED
  BY <1>1, <1>2, <1>3

LEMMA InitType == Init => TypeOK
  BY DEF Init, TypeOK, Command, Pc, Outcome, Locked

LEMMA NextType ==
  ASSUME TypeOK, [Next]_vars
  PROVE  TypeOK'
<1> USE DEF TypeOK, Goto, Report, serverVars
<1>1. ASSUME NEW p \in Proc, NEW c \in Command, ExecCall(p, c)
      PROVE  TypeOK'
  BY <1>1, NoneAssumption DEF ExecCall, Pc, Outcome
<1>2. ASSUME NEW p \in Proc, SetTimeout(p)
      PROVE  TypeOK'
  <2>1. TimeoutCmd \in Command
    BY CommandsAssumption DEF Command
  <2> QED
    BY <1>1, <1>2, <2>1 DEF SetTimeout, Outcome
<1>3. ASSUME NEW p \in Proc, ExecLock(p)
      PROVE  TypeOK'
  BY <1>3 DEF ExecLock, Pc
<1>4. ASSUME NEW p \in Proc, ExecCheck(p)
      PROVE  TypeOK'
  <2>1. cur[p] \in Command
    BY <1>4, NoneAssumption DEF ExecCheck, Locked
  <2>2. buffer' \in Seq(Command) /\ issued' \in Seq(Command)
    <3>1. Append(buffer, cur[p]) \in Seq(Command) /\ Append(issued, cur[p]) \in Seq(Command)
      BY <2>1, AppendProperties
    <3> QED
      BY <1>4, <3>1 DEF ExecCheck
  <2>3. pc[p] = "check" /\ UNCHANGED <<conn, cur, answer, ticket, serverVars>>
    BY <1>4 DEF ExecCheck
  <2>4. \/ \E o \in {"unconnected", "ok"} : ExecReturn(p, o)
        \/ Goto(p, "write") /\ UNCHANGED <<mux, outcome>>
    BY <1>4 DEF ExecCheck
  <2>5. CASE \E o \in {"unconnected", "ok"} : ExecReturn(p, o)
    BY <2>2, <2>3, <2>5 DEF ExecReturn, Pc, Outcome, Locked
  <2>6. CASE Goto(p, "write") /\ UNCHANGED <<mux, outcome>>
    BY <2>2, <2>3, <2>6 DEF Pc, Locked
  <2> QED
    BY <2>4, <2>5, <2>6
<1>5. ASSUME NEW p \in Proc, ExecWrite(p)
      PROVE  TypeOK'
  BY <1>5 DEF ExecWrite, Pc, Locked
<1>6. ASSUME NEW p \in Proc, ExecWriteFail(p)
      PROVE  TypeOK'
  BY <1>6 DEF ExecWriteFail, ExecReturn, Pc, Outcome, Locked
<1>7. ASSUME NEW p \in Proc, Panic(p)
      PROVE  TypeOK'
  BY <1>7 DEF Panic, Pc, Locked
<1>8. ASSUME NEW p \in Proc, ExecWriteNil(p)
      PROVE  TypeOK'
  BY <1>7, <1>8 DEF ExecWriteNil
<1>9. ASSUME NEW p \in Proc,
             LoadReader(p, "read", "wait") \/ LoadReader(p, "sread", "swait")
      PROVE  TypeOK'
  BY <1>7, <1>9 DEF LoadReader, Pc, Locked
<1>10. ASSUME NEW p \in Proc, ExecRead(p)
       PROVE  TypeOK'
  <2>1. PICK m \in Readable :
          /\ GetResponse(m)
          /\ answer' = [answer EXCEPT ![p] = m.to]
          /\ \/ ExecReturn(p, "ioerror")
             \/ ExecReturn(p, "refused")
             \/ ExecReturn(p, "unexpected")
             \/ /\ mux' = None
                /\ Goto(p, IF cur[p] \in Stream THEN "sread" ELSE "idle")
                /\ Report(p, "ok")
    BY <1>10 DEF ExecRead
  <2>2. m.to \in Nat /\ inbox' \in Seq(Response) /\ synced' \in BOOLEAN
    BY <2>1, GetResponseType
  <2>3. pc[p] = "wait"
    BY <1>10 DEF ExecRead
  <2>4. UNCHANGED <<conn, buffer, cur, ticket, issued, link, wire, applied>>
    BY <1>10 DEF ExecRead
  <2> QED
    BY <2>1, <2>2, <2>3, <2>4 DEF ExecReturn, Pc, Outcome, Locked
<1>11. ASSUME NEW p \in Proc, StreamRead(p)
       PROVE  TypeOK'
  <2>1. PICK m \in Readable :
          /\ GetResponse(m)
          /\ answer' = [answer EXCEPT ![p] = m.to]
          /\ Goto(p, "sread") \/ Goto(p, "idle")
          /\ UNCHANGED outcome \/ Report(p, "ioerror") \/ Report(p, "unexpected")
    BY <1>11 DEF StreamRead
  <2>2. m.to \in Nat /\ inbox' \in Seq(Response) /\ synced' \in BOOLEAN
    BY <2>1, GetResponseType
  <2>3. pc[p] = "swait"
    BY <1>11 DEF StreamRead
  <2>4. UNCHANGED <<conn, buffer, mux, cur, ticket, issued, link, wire, applied>>
    BY <1>11 DEF StreamRead
  <2> QED
    BY <2>1, <2>2, <2>3, <2>4 DEF Pc, Outcome, Locked
<1>12. ASSUME NEW p \in Proc, CloseCall(p) \/ CloseSocket(p) \/ CloseClear(p)
       PROVE  TypeOK'
  BY <1>7, <1>12 DEF CloseCall, CloseSocket, CloseClear, Pc, Locked
<1>13. ASSUME NEW p \in Proc, NEW c \in Command, Send(p, c)
       PROVE  TypeOK'
  <2>1. wire' \in Seq(Command) /\ issued' \in Seq(Command)
    <3>1. Append(wire, c) \in Seq(Command) /\ Append(issued, c) \in Seq(Command)
      BY AppendProperties
    <3> QED
      BY <1>13, <3>1 DEF Send
  <2>2. outcome' \in [Proc -> Outcome]
    BY <1>13 DEF Send, Outcome
  <2>3. /\ answer' = [answer EXCEPT ![p] = 0]
        /\ ticket' = [ticket EXCEPT ![p] = 0]
        /\ UNCHANGED <<conn, buffer, mux, pc, cur, link, applied, inbox, synced>>
    BY <1>13 DEF Send
  <2> QED
    BY <2>1, <2>2, <2>3
<1>14. ASSUME NEW p \in Proc, NEW c \in Command, AsyncExec(p, c)
       PROVE  TypeOK'
  BY <1>14, NoneAssumption DEF AsyncExec, Pc, Locked
<1>15. ASSUME Serve
       PROVE  TypeOK'
  <2>1. Head(wire) \in Command /\ Tail(wire) \in Seq(Command)
    BY <1>15, HeadTailProperties DEF Serve
  <2>2. PICK r \in Answers(Head(wire), Len(applied) + 1) :
               inbox' = IF link = "up" THEN inbox \o r ELSE inbox
    BY <1>15 DEF Serve
  <2>3. r \in Seq(Response)
    BY <2>1, <2>2, AnswersType
  <2>4. inbox' \in Seq(Response)
    BY <2>2, <2>3, ConcatProperties
  <2>5. wire' \in Seq(Command) /\ applied' \in Seq(Command)
    BY <1>15, <2>1 DEF Serve
  <2> QED
    BY <1>15, <2>4, <2>5 DEF Serve, clientVars
<1>16. ASSUME LinkFail
       PROVE  TypeOK'
  <2>1. wire' \in Seq(Command)
    BY <1>16, SubSeqProperties DEF LinkFail
  <2>2. inbox' \in Seq(Response)
    BY <1>16, SubSeqProperties DEF LinkFail
  <2> QED
    BY <1>16, <2>1, <2>2 DEF LinkFail, clientVars
<1>17. ASSUME UNCHANGED vars
       PROVE  TypeOK'
  BY <1>17 DEF vars, clientVars
<1> QED
  BY <1>1, <1>2, <1>3, <1>4, <1>5, <1>6, <1>8, <1>9, <1>10, <1>11, <1>12,
     <1>13, <1>14, <1>15, <1>16, <1>17, CommandsAssumption
  DEF Next, Enter, Step, Quiet

\* Every variable of the connection keeps its type (the type invariant TypeOK
\* of server/connection.go's state, the link's and the server's).
THEOREM TypeCorrect == Spec => []TypeOK
<1>1. Init => TypeOK
  BY InitType
<1>2. TypeOK /\ [Next]_vars => TypeOK'
  BY NextType
<1> QED
  BY <1>1, <1>2, PTL DEF Spec

-----------------------------------------------------------------------------
(* The order of the commands                                               *)

\* A step that leaves the commands alone, and at most closes the connection,
\* keeps them in order.
LEMMA QuietOrder ==
  ASSUME TypeOK, InOrder, UNCHANGED <<buffer, issued, wire, applied, link>>,
         conn' = conn \/ conn' # "open"
  PROVE  InOrder'
  BY DEF InOrder, Follows

LEMMA CheckOrder ==
  ASSUME TypeOK, InOrder, NEW p \in Proc, ExecCheck(p)
  PROVE  InOrder'
<1>1. CASE UNCHANGED <<buffer, issued>>
  BY <1>1, QuietOrder DEF ExecCheck, serverVars
<1>2. CASE buffer' = Append(buffer, cur[p]) /\ issued' = Append(issued, cur[p])
  <2>1. cur[p] \in Command
    BY NoneAssumption DEF ExecCheck, TypeOK, Locked
  <2>2. /\ Len(buffer') = Len(buffer) + 1 /\ Len(issued') = Len(issued) + 1
        /\ \A i \in 1 .. Len(buffer) : buffer'[i] = buffer[i]
        /\ \A i \in 1 .. Len(issued) : issued'[i] = issued[i]
        /\ buffer'[Len(buffer) + 1] = cur[p]
        /\ issued'[Len(issued) + 1] = cur[p]
    BY <1>2, <2>1, AppendProperties DEF TypeOK
  <2>3. UNCHANGED <<conn, link, wire, applied>>
    BY DEF ExecCheck, serverVars
  <2>4. Len(applied) \in Nat /\ Len(wire) \in Nat /\ Len(buffer) \in Nat /\ Len(issued) \in Nat
    BY DEF TypeOK
  <2>5. Follows(applied, 0)' /\ Follows(wire, Len(applied))'
    <3>1. ASSUME NEW i \in 1 .. Len(applied)
          PROVE  applied[i] = issued'[0 + i]
      <4>1. applied[i] = issued[0 + i] /\ 0 + i \in 1 .. Len(issued)
        BY <2>4 DEF InOrder, Follows
      <4> QED
        BY <2>2, <4>1
    <3>2. ASSUME NEW i \in 1 .. Len(wire)
          PROVE  wire[i] = issued'[Len(applied) + i]
      <4>1. wire[i] = issued[Len(applied) + i] /\ Len(applied) + i \in 1 .. Len(issued)
        BY <2>4 DEF InOrder, Follows
      <4> QED
        BY <2>2, <4>1
    <3> QED
      BY <2>3, <3>1, <3>2 DEF Follows
  <2>6. ASSUME conn = "open", link = "up"
        PROVE  Follows(buffer, Len(applied) + Len(wire))'
    <3>1. /\ Len(applied) + Len(wire) + Len(buffer) = Len(issued)
          /\ \A i \in 1 .. Len(buffer) : buffer[i] = issued[Len(applied) + Len(wire) + i]
      BY <2>6 DEF InOrder, Follows
    <3>2. ASSUME NEW i \in 1 .. Len(buffer)
          PROVE  buffer'[i] = issued'[Len(applied) + Len(wire) + i]
      <4>1. /\ buffer[i] = issued[Len(applied) + Len(wire) + i]
            /\ Len(applied) + Len(wire) + i \in 1 .. Len(issued)
        BY <2>4, <3>1
      <4> QED
        BY <2>2, <4>1
    <3>3. buffer'[Len(buffer) + 1] = issued'[Len(applied) + Len(wire) + (Len(buffer) + 1)]
      BY <2>2, <2>4, <3>1
    <3>4. ASSUME NEW i \in 1 .. Len(buffer')
          PROVE  buffer'[i] = issued'[Len(applied) + Len(wire) + i]
      <4>1. i \in 1 .. Len(buffer) \/ i = Len(buffer) + 1
        BY <2>2, <2>4
      <4> QED
        BY <3>2, <3>3, <4>1
    <3> QED
      BY <2>3, <3>4 DEF Follows
  <2>7. ASSUME conn = "open", link = "up"
        PROVE  Len(applied') + Len(wire') + Len(buffer') = Len(issued')
    BY <2>2, <2>3, <2>4, <2>7 DEF InOrder
  <2>8. Len(applied') + Len(wire') <= Len(issued')
    BY <2>2, <2>3, <2>4 DEF InOrder
  <2> QED
    BY <2>3, <2>5, <2>6, <2>7, <2>8 DEF InOrder
<1> QED
  BY <1>1, <1>2 DEF ExecCheck

LEMMA WriteOrder ==
  ASSUME TypeOK, InOrder, NEW p \in Proc, ExecWrite(p)
  PROVE  InOrder'
<1>1. /\ buffer' = <<>> /\ conn = "open"
      /\ wire' = IF link = "up" THEN wire \o buffer ELSE wire
      /\ UNCHANGED <<conn, issued, link, applied>>
  BY DEF ExecWrite
<1>2. Len(applied) \in Nat /\ Len(wire) \in Nat /\ Len(buffer) \in Nat /\ Len(issued) \in Nat
  BY DEF TypeOK
<1>3. CASE link = "up"
  <2>1. /\ Len(wire') = Len(wire) + Len(buffer)
        /\ \A i \in 1 .. Len(wire) + Len(buffer) :
             wire'[i] = IF i <= Len(wire) THEN wire[i] ELSE buffer[i - Len(wire)]
    BY <1>1, <1>3, ConcatProperties DEF TypeOK
  <2>2. \A i \in 1 .. Len(wire) + Len(buffer) : wire'[i] = issued[Len(applied) + i]
    <3>1. ASSUME NEW i \in 1 .. Len(wire) + Len(buffer), i > Len(wire)
          PROVE  wire'[i] = issued[Len(applied) + i]
      <4>1. i - Len(wire) \in 1 .. Len(buffer)
        BY <1>2, <3>1
      <4>2. buffer[i - Len(wire)] = issued[Len(applied) + Len(wire) + (i - Len(wire))]
        BY <1>1, <1>3, <4>1 DEF InOrder, Follows
      <4>3. Len(applied) + Len(wire) + (i - Len(wire)) = Len(applied) + i
        BY <1>2
      <4> QED
        BY <1>2, <2>1, <3>1, <4>2, <4>3
    <3>2. ASSUME NEW i \in 1 .. Len(wire) + Len(buffer), i <= Len(wire)
          PROVE  wire'[i] = issued[Len(applied) + i]
      BY <1>2, <2>1, <3>2 DEF InOrder, Follows
    <3> QED
      BY <1>2, <3>1, <3>2
  <2> QED
    BY <1>1, <1>2, <1>3, <2>1, <2>2 DEF InOrder, Follows
<1>4. CASE link # "up"
  BY <1>1, <1>4 DEF InOrder, Follows
<1> QED
  BY <1>3, <1>4

LEMMA ServeOrder ==
  ASSUME TypeOK, InOrder, Serve
  PROVE  InOrder' /\ Len(applied) < Len(issued) /\ applied' = Append(applied, issued[Len(applied) + 1])
<1>1. /\ wire # <<>> /\ wire' = Tail(wire) /\ applied' = Append(applied, Head(wire))
      /\ UNCHANGED <<conn, buffer, issued, link>>
  BY DEF Serve, clientVars
<1>2. Len(applied) \in Nat /\ Len(wire) \in Nat /\ Len(buffer) \in Nat /\ Len(issued) \in Nat
  BY DEF TypeOK
<1>3. /\ Len(wire) >= 1 /\ Len(wire') = Len(wire) - 1
      /\ Head(wire) = wire[1] /\ Head(wire) \in Command
      /\ \A i \in 1 .. Len(wire) - 1 : wire'[i] = wire[i + 1]
  BY <1>1, HeadTailProperties DEF TypeOK
<1>4. Head(wire) = issued[Len(applied) + 1]
  BY <1>2, <1>3 DEF InOrder, Follows
<1>5. /\ Len(applied') = Len(applied) + 1
      /\ \A i \in 1 .. Len(applied) : applied'[i] = applied[i]
      /\ applied'[Len(applied) + 1] = issued[Len(applied) + 1]
  BY <1>1, <1>3, <1>4, AppendProperties DEF TypeOK
<1>6. Follows(applied, 0)'
  BY <1>1, <1>2, <1>5 DEF InOrder, Follows
<1>7. \A i \in 1 .. Len(wire) - 1 : wire'[i] = issued[Len(applied) + 1 + i]
  <2>1. ASSUME NEW i \in 1 .. Len(wire) - 1
        PROVE  wire'[i] = issued[Len(applied) + 1 + i]
    <3>1. wire[i + 1] = issued[Len(applied) + (i + 1)]
      BY <1>2, <2>1 DEF InOrder, Follows
    <3>2. Len(applied) + (i + 1) = Len(applied) + 1 + i
      BY <1>2
    <3> QED
      BY <1>3, <2>1, <3>1, <3>2
  <2> QED
    BY <2>1
<1>8. Len(applied') + Len(wire') = Len(applied) + Len(wire)
  BY <1>2, <1>3, <1>5
<1> QED
  BY <1>1, <1>2, <1>3, <1>4, <1>5, <1>6, <1>7, <1>8 DEF InOrder, Follows

LEMMA FailOrder ==
  ASSUME TypeOK, InOrder, LinkFail
  PROVE  InOrder'
<1>1. /\ link' = "down" /\ UNCHANGED <<conn, buffer, issued, applied>>
  BY DEF LinkFail, clientVars
<1>2. PICK n \in 0 .. Len(wire) : wire' = SubSeq(wire, 1, n)
  BY DEF LinkFail
<1>3. Len(applied) \in Nat /\ Len(wire) \in Nat /\ Len(issued) \in Nat
  BY DEF TypeOK
<1>4. Len(wire') = n /\ \A i \in 1 .. n : wire'[i] = wire[i]
  BY <1>2, <1>3, SubSeqProperties DEF TypeOK
<1> QED
  BY <1>1, <1>2, <1>3, <1>4 DEF InOrder, Follows

LEMMA NextOrder ==
  ASSUME Raw = {}, TypeOK, InOrder, [Next]_vars
  PROVE  InOrder'
<1>1. ASSUME NEW p \in Proc, Enter(p)
      PROVE  InOrder'
  <2>1. UNCHANGED <<conn, buffer, issued, wire, applied, link>>
    BY <1>1 DEF Enter, ExecCall, SetTimeout, CloseCall, AsyncExec, serverVars
  <2> QED
    BY <2>1, QuietOrder
<1>2. ASSUME NEW p \in Proc, ExecLock(p)
      PROVE  InOrder'
  BY <1>2, QuietOrder DEF ExecLock, serverVars
<1>3. ASSUME NEW p \in Proc, ExecWriteFail(p)
      PROVE  InOrder'
  <2>1. /\ conn = "shut" \/ link = "down"
        /\ UNCHANGED <<conn, link, issued, wire, applied>>
    BY <1>3 DEF ExecWriteFail, serverVars
  <2> QED
    BY <2>1 DEF InOrder, Follows
<1>4. ASSUME NEW p \in Proc,
             \/ ExecWriteNil(p)
             \/ LoadReader(p, "read", "wait") \/ LoadReader(p, "sread", "swait")
             \/ ExecRead(p) \/ StreamRead(p) \/ CloseSocket(p) \/ CloseClear(p)
      PROVE  InOrder'
  <2>1. /\ UNCHANGED <<buffer, issued, wire, applied, link>>
        /\ conn' = conn \/ conn' # "open"
    BY <1>4 DEF ExecWriteNil, LoadReader, ExecRead, StreamRead, CloseSocket, CloseClear,
                Panic, serverVars
  <2> QED
    BY <2>1, QuietOrder
<1>5. ASSUME UNCHANGED vars
      PROVE  InOrder'
  BY <1>5, QuietOrder DEF vars, clientVars, serverVars
<1> QED
  BY <1>1, <1>2, <1>3, <1>4, <1>5, CheckOrder, WriteOrder, ServeOrder, FailOrder
  DEF Next, Step, Quiet

\* Without Send, commands reach the server in the order in which Exec accepted
\* them, whatever goroutines share the connection and however the link fails,
\* and none is lost while the connection is up (the buffer of Exec).
THEOREM OrderKept == Raw = {} => (Spec => []InOrder)
<1>1. Init => InOrder
  BY DEF Init, InOrder, Follows
<1>2. SUFFICES ASSUME Raw = {}
               PROVE  Spec => []InOrder
  OBVIOUS
<1>3. TypeOK /\ InOrder /\ [Next]_vars => InOrder'
  BY <1>2, NextOrder
<1> QED
  BY <1>1, <1>3, TypeCorrect, PTL DEF Spec

\* The connection implements the command log of module CommandLog: Exec appends
\* to the log and the server executes it in order, each command once.
THEOREM ConnectionImplementsLog == Raw = {} => (Spec => ImplementsCommandLog)
<1>1. Init => Log!Init
  BY DEF Init, Log!Init
<1>2. SUFFICES ASSUME Raw = {}
               PROVE  Spec => ImplementsCommandLog
  OBVIOUS
<1>3. TypeOK /\ InOrder /\ [Next]_vars => [Log!Next]_<<issued, applied>>
  <2> SUFFICES ASSUME TypeOK, InOrder, [Next]_vars
               PROVE  Log!Next \/ UNCHANGED <<issued, applied>>
    OBVIOUS
  <2>1. ASSUME NEW p \in Proc, ExecCheck(p), issued' = Append(issued, cur[p])
        PROVE  Log!Next
    <3>1. cur[p] \in Command /\ UNCHANGED applied
      BY <2>1, NoneAssumption DEF ExecCheck, TypeOK, Locked, serverVars
    <3> QED
      BY <2>1, <3>1 DEF Log!Next, Log!Accept
  <2>2. ASSUME NEW p \in Proc, ExecCheck(p)
        PROVE  issued' = Append(issued, cur[p]) \/ UNCHANGED <<issued, applied>>
    BY <2>2 DEF ExecCheck, serverVars
  <2>3. CASE Serve
    BY <2>3, ServeOrder DEF Serve, clientVars, Log!Next, Log!Execute
  <2>4. ASSUME NEW p \in Proc, Enter(p) \/ ExecLock(p)
        PROVE  UNCHANGED <<issued, applied>>
    BY <1>2, <2>4 DEF Enter, ExecCall, SetTimeout, CloseCall, AsyncExec, ExecLock, serverVars
  <2>5. ASSUME NEW p \in Proc, Step(p), ~ExecCheck(p)
        PROVE  UNCHANGED <<issued, applied>>
    BY <2>5 DEF Step, ExecWrite, ExecWriteFail, ExecWriteNil, LoadReader, ExecRead, StreamRead,
                CloseSocket, CloseClear, Panic, serverVars
  <2>6. CASE LinkFail \/ Quiet \/ UNCHANGED vars
    BY <2>6 DEF LinkFail, Quiet, vars, clientVars, serverVars
  <2> QED
    BY <2>1, <2>2, <2>3, <2>4, <2>5, <2>6 DEF Next, Step
<1> QED
  BY <1>1, <1>2, <1>3, TypeCorrect, OrderKept, PTL DEF Spec, ImplementsCommandLog, Log!Spec, Log!vars
-----------------------------------------------------------------------------
(* Nothing is sent twice                                                   *)

\* Occurrences is the size of a finite set.
LEMMA OccurrencesType ==
  ASSUME NEW s \in Seq(Command), NEW c
  PROVE  /\ IsFiniteSet({i \in 1 .. Len(s) : s[i] = c})
         /\ Occurrences(s, c) \in Nat
<1>1. IsFiniteSet(1 .. Len(s))
  BY FS_Interval
<1>2. {i \in 1 .. Len(s) : s[i] = c} \in SUBSET (1 .. Len(s))
  OBVIOUS
<1>3. IsFiniteSet({i \in 1 .. Len(s) : s[i] = c})
  BY <1>1, <1>2, FS_Subset
<1> QED
  BY <1>3, FS_CardinalityType DEF Occurrences

LEMMA OccurrencesEmpty ==
  ASSUME NEW c
  PROVE  Occurrences(<<>>, c) = 0
<1>1. {i \in 1 .. Len(<<>>) : <<>>[i] = c} = {}
  OBVIOUS
<1> QED
  BY <1>1, FS_EmptySet DEF Occurrences

\* Two sequences in a row hold a command as often as both of them do.
LEMMA OccurrencesConcat ==
  ASSUME NEW s \in Seq(Command), NEW t \in Seq(Command), NEW c
  PROVE  Occurrences(s \o t, c) = Occurrences(s, c) + Occurrences(t, c)
<1> DEFINE S == {i \in 1 .. Len(s) : s[i] = c}
           T == {i \in 1 .. Len(t) : t[i] = c}
           U == {i \in Len(s) + 1 .. Len(s) + Len(t) : t[i - Len(s)] = c}
           shift == [i \in T |-> Len(s) + i]
<1>1. Len(s) \in Nat /\ Len(t) \in Nat
  OBVIOUS
<1>2. {i \in 1 .. Len(s \o t) : (s \o t)[i] = c} = S \cup U
  <2>1. /\ Len(s \o t) = Len(s) + Len(t)
        /\ \A i \in 1 .. Len(s) + Len(t) :
             (s \o t)[i] = IF i <= Len(s) THEN s[i] ELSE t[i - Len(s)]
    BY ConcatProperties
  <2>2. \A i \in 1 .. Len(s) + Len(t) : (s \o t)[i] = c <=> i \in S \cup U
    BY <1>1, <2>1
  <2>3. S \cup U \subseteq 1 .. Len(s) + Len(t)
    BY <1>1
  <2> QED
    BY <2>1, <2>2, <2>3
<1>3. S \cap U = {}
  BY <1>1
<1>4. IsFiniteSet(S) /\ IsFiniteSet(T)
  BY OccurrencesType
<1>5. ExistsBijection(T, U)
  <2>1. shift \in [T -> U]
    <3>1. ASSUME NEW i \in T
          PROVE  Len(s) + i \in U
      <4>1. Len(s) + i - Len(s) = i /\ Len(s) + i \in Len(s) + 1 .. Len(s) + Len(t)
        BY <1>1
      <4> QED
        BY <4>1
    <3> QED
      BY <3>1
  <2>2. \A i, j \in T : shift[i] = shift[j] => i = j
    BY <1>1
  <2>3. \A u \in U : \E i \in T : shift[i] = u
    <3>1. ASSUME NEW u \in U
          PROVE  u - Len(s) \in T /\ Len(s) + (u - Len(s)) = u
      BY <1>1
    <3> QED
      BY <3>1
  <2>4. shift \in Bijection(T, U)
    BY <2>1, <2>2, <2>3 DEF Bijection, Injection, Surjection, IsInjective
  <2> QED
    BY <2>4 DEF ExistsBijection
<1>6. IsFiniteSet(U) /\ Cardinality(U) = Cardinality(T)
  BY <1>4, <1>5, FS_Bijection
<1>7. Cardinality(S \cup U) = Cardinality(S) + Cardinality(U) - Cardinality(S \cap U)
  BY <1>4, <1>6, FS_Union
<1>8. Cardinality(S) \in Nat /\ Cardinality(U) \in Nat /\ Cardinality(S \cap U) = 0
  BY <1>3, <1>4, <1>6, FS_CardinalityType, FS_EmptySet
<1> HIDE DEF S, T, U
<1>9. Cardinality(S \cup U) = Cardinality(S) + Cardinality(T)
  BY <1>6, <1>7, <1>8
<1> QED
  BY <1>2, <1>9 DEF Occurrences, S, T

LEMMA OccurrencesOne ==
  ASSUME NEW d \in Command, NEW c
  PROVE  Occurrences(<<d>>, c) = IF c = d THEN 1 ELSE 0
<1>1. {i \in 1 .. Len(<<d>>) : <<d>>[i] = c} = IF c = d THEN {1} ELSE {}
  OBVIOUS
<1>2. Cardinality({1}) = 1 /\ Cardinality({}) = 0
  BY FS_EmptySet, FS_Singleton
<1> QED
  BY <1>1, <1>2 DEF Occurrences

LEMMA OccurrencesAppend ==
  ASSUME NEW s \in Seq(Command), NEW d \in Command, NEW c
  PROVE  Occurrences(Append(s, d), c) = Occurrences(s, c) + IF c = d THEN 1 ELSE 0
<1> DEFINE t == <<d>>
<1>1. Append(s, d) = s \o t /\ t \in Seq(Command)
  BY AppendIsConcat
<1>2. Occurrences(t, c) = IF c = d THEN 1 ELSE 0
  BY OccurrencesOne
<1> HIDE DEF t
<1> QED
  BY <1>1, <1>2, OccurrencesConcat

LEMMA OccurrencesHead ==
  ASSUME NEW s \in Seq(Command), s # <<>>, NEW c
  PROVE  Occurrences(s, c) = Occurrences(Tail(s), c) + IF c = Head(s) THEN 1 ELSE 0
<1> DEFINE h == <<Head(s)>>
           t == Tail(s)
<1>1. Head(s) \in Command /\ t \in Seq(Command) /\ h \in Seq(Command)
  BY HeadTailProperties
<1>2. s = h \o t
  OBVIOUS
<1>3. Occurrences(h, c) = IF c = Head(s) THEN 1 ELSE 0
  BY <1>1, OccurrencesOne
<1> HIDE DEF h, t
<1>4. Occurrences(h \o t, c) = Occurrences(h, c) + Occurrences(t, c)
  BY <1>1, OccurrencesConcat
<1>5. Occurrences(t, c) \in Nat
  BY <1>1, OccurrencesType
<1>6. Occurrences(s, c) = Occurrences(t, c) + IF c = Head(s) THEN 1 ELSE 0
  BY <1>2, <1>3, <1>4, <1>5
<1> QED
  BY <1>6 DEF t

LEMMA OccurrencesPrefix ==
  ASSUME NEW s \in Seq(Command), NEW n \in 0 .. Len(s), NEW c
  PROVE  Occurrences(SubSeq(s, 1, n), c) <= Occurrences(s, c)
<1> DEFINE S == {i \in 1 .. Len(s) : s[i] = c}
           T == {i \in 1 .. Len(SubSeq(s, 1, n)) : SubSeq(s, 1, n)[i] = c}
<1>1. Len(SubSeq(s, 1, n)) = n /\ \A i \in 1 .. n : SubSeq(s, 1, n)[i] = s[i]
  BY SubSeqProperties
<1>2. T \in SUBSET S
  BY <1>1
<1>3. IsFiniteSet(S)
  BY OccurrencesType
<1> HIDE DEF S, T
<1>4. Cardinality(T) <= Cardinality(S)
  BY <1>2, <1>3, FS_Subset
<1> QED
  BY <1>4 DEF Occurrences, S, T

\* What the server has executed, what travels and what waits is no more than
\* what was accepted.
Underway(c) == Occurrences(applied, c) + Occurrences(wire, c) + Occurrences(buffer, c)
AccountInv == \A c \in Command : Underway(c) <= Occurrences(issued, c)

LEMMA OccurrencesOfAll ==
  ASSUME TypeOK, NEW c
  PROVE  /\ Occurrences(applied, c) \in Nat
         /\ Occurrences(wire, c) \in Nat
         /\ Occurrences(buffer, c) \in Nat
         /\ Occurrences(issued, c) \in Nat
  BY OccurrencesType DEF TypeOK

LEMMA NextAccount ==
  ASSUME TypeOK, AccountInv, [Next]_vars
  PROVE  AccountInv'
<1> SUFFICES ASSUME NEW c \in Command
             PROVE  Underway(c)' <= Occurrences(issued, c)'
  BY DEF AccountInv
<1>2. /\ Occurrences(applied, c) \in Nat
      /\ Occurrences(wire, c) \in Nat
      /\ Occurrences(buffer, c) \in Nat
      /\ Occurrences(issued, c) \in Nat
      /\ Occurrences(applied, c) + Occurrences(wire, c) + Occurrences(buffer, c)
           <= Occurrences(issued, c)
  BY OccurrencesOfAll DEF AccountInv, Underway
<1>3. Underway(c)' = Occurrences(applied', c) + Occurrences(wire', c) + Occurrences(buffer', c)
  BY DEF Underway, Occurrences
<1>4. Occurrences(issued, c)' = Occurrences(issued', c)
  BY DEF Occurrences
<1>5. ASSUME NEW p \in Proc, ExecCheck(p)
      PROVE  Underway(c)' <= Occurrences(issued, c)'
  <2>1. applied' = applied /\ wire' = wire
    BY <1>5 DEF ExecCheck, serverVars
  <2>2. CASE UNCHANGED <<buffer, issued>>
    BY <1>2, <1>3, <1>4, <2>1, <2>2
  <2>3. CASE buffer' = Append(buffer, cur[p]) /\ issued' = Append(issued, cur[p])
    <3>1. cur[p] \in Command /\ buffer \in Seq(Command) /\ issued \in Seq(Command)
      BY <1>5, NoneAssumption DEF ExecCheck, TypeOK, Locked
    <3>2. /\ Occurrences(buffer', c) = Occurrences(buffer, c) + IF c = cur[p] THEN 1 ELSE 0
          /\ Occurrences(issued', c) = Occurrences(issued, c) + IF c = cur[p] THEN 1 ELSE 0
      BY <2>3, <3>1, OccurrencesAppend
    <3> QED
      BY <1>2, <1>3, <1>4, <2>1, <3>2
  <2> QED
    BY <1>5, <2>2, <2>3 DEF ExecCheck
<1>6. Occurrences(<<>>, c) = 0
  BY OccurrencesEmpty
<1>7. ASSUME NEW p \in Proc, ExecWrite(p)
      PROVE  Underway(c)' <= Occurrences(issued, c)'
  <2>1. /\ applied' = applied /\ issued' = issued /\ buffer' = <<>>
        /\ wire' = wire \o buffer \/ wire' = wire
    BY <1>7 DEF ExecWrite
  <2>2. /\ wire \in Seq(Command)
        /\ wire \o buffer \in Seq(Command)
        /\ Occurrences(wire \o buffer, c) = Occurrences(wire, c) + Occurrences(buffer, c)
    BY OccurrencesConcat, ConcatProperties DEF TypeOK
  <2>3. \/ Occurrences(wire', c) = Occurrences(wire, c) + Occurrences(buffer, c)
        \/ Occurrences(wire', c) = Occurrences(wire, c)
    BY <2>1, <2>2, Zenon
  <2>4. wire' \in Seq(Command)
    BY <2>1, <2>2, Zenon
  <2>5. Occurrences(wire', c) \in Nat
    BY <2>4, OccurrencesType
  <2>6. /\ Occurrences(applied', c) = Occurrences(applied, c)
        /\ Occurrences(buffer', c) = 0
        /\ Occurrences(issued', c) = Occurrences(issued, c)
    BY <1>6, <2>1
  <2> QED
    BY <1>2, <1>3, <1>4, <2>3, <2>5, <2>6
<1>8. ASSUME NEW p \in Proc, ExecWriteFail(p)
      PROVE  Underway(c)' <= Occurrences(issued, c)'
  <2>1. /\ applied' = applied /\ issued' = issued /\ wire' = wire /\ buffer' = <<>>
    BY <1>8 DEF ExecWriteFail, serverVars
  <2> QED
    BY <1>2, <1>3, <1>4, <1>6, <2>1
<1>9. ASSUME NEW p \in Proc, NEW d \in Command, Send(p, d)
      PROVE  Underway(c)' <= Occurrences(issued, c)'
  <2>1. /\ applied' = applied /\ buffer' = buffer
        /\ \/ wire' = wire /\ issued' = issued
           \/ wire' = wire /\ issued' = Append(issued, d)
           \/ wire' = Append(wire, d) /\ issued' = Append(issued, d)
    BY <1>9 DEF Send
  <2> DEFINE n == IF c = d THEN 1 ELSE 0
  <2>2. /\ Occurrences(Append(wire, d), c) = Occurrences(wire, c) + n
        /\ Occurrences(Append(issued, d), c) = Occurrences(issued, c) + n
    BY OccurrencesAppend DEF TypeOK
  <2>3. n \in Nat
    OBVIOUS
  <2> HIDE DEF n
  <2>4. \/ /\ Occurrences(issued', c) = Occurrences(issued, c)
           /\ Occurrences(wire', c) = Occurrences(wire, c)
        \/ /\ Occurrences(issued', c) = Occurrences(issued, c) + n
           /\ \/ Occurrences(wire', c) = Occurrences(wire, c)
              \/ Occurrences(wire', c) = Occurrences(wire, c) + n
    BY <2>1, <2>2, Zenon
  <2> QED
    BY <1>2, <1>3, <1>4, <2>1, <2>3, <2>4
<1>10. ASSUME Serve
       PROVE  Underway(c)' <= Occurrences(issued, c)'
  <2>1. /\ wire # <<>> /\ wire' = Tail(wire) /\ applied' = Append(applied, Head(wire))
        /\ buffer' = buffer /\ issued' = issued
    BY <1>10 DEF Serve, clientVars
  <2>2. Head(wire) \in Command /\ Tail(wire) \in Seq(Command)
    BY <2>1, HeadTailProperties DEF TypeOK
  <2>3. Occurrences(wire, c) = Occurrences(wire', c) + IF c = Head(wire) THEN 1 ELSE 0
    BY <2>1, OccurrencesHead DEF TypeOK
  <2>4. Occurrences(applied', c) = Occurrences(applied, c) + IF c = Head(wire) THEN 1 ELSE 0
    BY <2>1, <2>2, OccurrencesAppend DEF TypeOK
  <2>5. Occurrences(wire', c) \in Nat
    BY <2>1, <2>2, OccurrencesType
  <2> QED
    BY <1>2, <1>3, <1>4, <2>1, <2>3, <2>4, <2>5
<1>11. ASSUME LinkFail
       PROVE  Underway(c)' <= Occurrences(issued, c)'
  <2>1. applied' = applied /\ buffer' = buffer /\ issued' = issued
    BY <1>11 DEF LinkFail, clientVars
  <2>2. PICK n \in 0 .. Len(wire) : wire' = SubSeq(wire, 1, n)
    BY <1>11 DEF LinkFail
  <2>3. Occurrences(wire', c) <= Occurrences(wire, c)
    BY <2>2, OccurrencesPrefix DEF TypeOK
  <2>4. wire' \in Seq(Command)
    BY <2>2, SubSeqProperties DEF TypeOK
  <2>5. Occurrences(wire', c) \in Nat
    BY <2>4, OccurrencesType
  <2> QED
    BY <1>2, <1>3, <1>4, <2>1, <2>3, <2>5
<1>12. ASSUME UNCHANGED <<buffer, issued, wire, applied>>
       PROVE  Underway(c)' <= Occurrences(issued, c)'
  BY <1>2, <1>3, <1>4, <1>12
<1>13. ASSUME NEW p \in Proc, Enter(p), \A d \in Command : ~Send(p, d)
       PROVE  UNCHANGED <<buffer, issued, wire, applied>>
  BY <1>13, CommandsAssumption DEF Enter, ExecCall, SetTimeout, CloseCall, AsyncExec, serverVars
<1>14. ASSUME NEW p \in Proc,
              \/ ExecLock(p) \/ ExecWriteNil(p)
              \/ LoadReader(p, "read", "wait") \/ LoadReader(p, "sread", "swait")
              \/ ExecRead(p) \/ StreamRead(p) \/ CloseSocket(p) \/ CloseClear(p)
       PROVE  UNCHANGED <<buffer, issued, wire, applied>>
  BY <1>14 DEF ExecLock, ExecWriteNil, LoadReader, ExecRead, StreamRead, CloseSocket, CloseClear,
               Panic, serverVars
<1>15. CASE Quiet \/ UNCHANGED vars
  BY <1>12, <1>15 DEF Quiet, vars, clientVars, serverVars
<1> QED
  BY <1>5, <1>7, <1>8, <1>9, <1>10, <1>11, <1>12, <1>13, <1>14, <1>15 DEF Next, Step

\* However calls interleave and whatever fails, Exec and Send never make the
\* server execute a command more often than it was issued (property AtMostOnce).
THEOREM SentOnce == Spec => []AtMostOnce
<1>1. Init => AccountInv
  <2> SUFFICES ASSUME Init, NEW c \in Command
               PROVE  Underway(c) <= Occurrences(issued, c)
    BY DEF AccountInv
  <2>1. Occurrences(<<>>, c) = 0
    BY OccurrencesEmpty
  <2> QED
    BY <2>1 DEF Init, Underway
<1>2. TypeOK /\ AccountInv => AtMostOnce
  <2> SUFFICES ASSUME TypeOK, AccountInv, NEW c \in Command
               PROVE  Occurrences(applied \o wire, c) <= Occurrences(issued, c)
    BY DEF AtMostOnce
  <2>1. Occurrences(applied \o wire, c) = Occurrences(applied, c) + Occurrences(wire, c)
    BY OccurrencesConcat DEF TypeOK
  <2> QED
    BY <2>1, OccurrencesOfAll DEF AccountInv, Underway
<1>3. TypeOK /\ AccountInv /\ [Next]_vars => AccountInv'
  BY NextAccount
<1> QED
  BY <1>1, <1>2, <1>3, TypeCorrect, PTL DEF Spec

-----------------------------------------------------------------------------
(* Who may meet a connection that Close has reset                          *)

\* Only closers close, and a goroutine that nobody else can close the
\* connection on has it open whenever it uses it.
Using == {"write", "read", "wait", "sread", "swait", "close"}
CloseInv ==
  /\ \A p \in Proc : pc[p] \in {"close", "clear"} => p \in Closer
  /\ \A p \in Proc : Closer \subseteq {p} =>
       /\ pc[p] # "panic"
       /\ pc[p] \in Using => conn = "open"
       /\ conn = "shut" => pc[p] = "clear"

\* A goroutine that goes from one point to another, without touching
\* connection.conn, keeps CloseInv unless it starts to use what is not open.
LEMMA GotoClose ==
  ASSUME TypeOK, CloseInv, NEW p \in Proc, NEW l \in Pc \ {"panic", "clear"},
         Goto(p, l), UNCHANGED conn, pc[p] # "clear",
         l = "close" => p \in Closer,
         l \in Using => conn # "nil" \/ pc[p] \in Using
  PROVE  CloseInv'
<1>1. pc' \in [Proc -> Pc] /\ pc'[p] = l /\ \A q \in Proc \ {p} : pc'[q] = pc[q]
  BY DEF Goto, TypeOK
<1>2. l \in Using /\ Closer \subseteq {p} => conn = "open"
  BY DEF CloseInv, TypeOK
<1>3. ASSUME NEW q \in Proc, pc'[q] \in {"close", "clear"}
      PROVE  q \in Closer
  BY <1>1, <1>3 DEF CloseInv
<1>4. ASSUME NEW q \in Proc, Closer \subseteq {q}
      PROVE  /\ pc'[q] # "panic"
             /\ pc'[q] \in Using => conn = "open"
             /\ conn = "shut" => pc'[q] = "clear"
  BY <1>1, <1>2, <1>4 DEF CloseInv
<1> QED
  BY <1>3, <1>4 DEF CloseInv

\* A goroutine that panics on a connection that is reset was not alone.
LEMMA PanicClose ==
  ASSUME TypeOK, CloseInv, NEW p \in Proc, Panic(p), pc[p] \in Using, conn = "nil"
  PROVE  CloseInv'
<1>1. ~(Closer \subseteq {p})
  BY DEF CloseInv
<1> QED
  BY <1>1 DEF Panic, Goto, TypeOK, CloseInv, Using

LEMMA NextClose ==
  ASSUME TypeOK, CloseInv, [Next]_vars
  PROVE  CloseInv'
<1>1. ASSUME UNCHANGED <<conn, pc>>
      PROVE  CloseInv'
  BY <1>1 DEF CloseInv
<1>2. ASSUME NEW p \in Proc, Enter(p)
      PROVE  CloseInv'
  <2>1. CASE \E c \in Command : ExecCall(p, c)
    BY <2>1, GotoClose DEF ExecCall, Pc, Using
  <2>2. CASE SetTimeout(p)
    BY <1>1, <2>2, GotoClose DEF SetTimeout, ExecCall, Pc, Using
  <2>3. CASE \E c \in Raw : Send(p, c)
    BY <1>1, <2>3 DEF Send
  <2>4. CASE p \in Closer /\ CloseCall(p)
    BY <2>4, GotoClose DEF CloseCall, Pc
  <2>5. CASE \E c \in Command : AsyncExec(p, c)
    BY <2>5, GotoClose DEF AsyncExec, Pc, Using
  <2> QED
    BY <1>2, <2>1, <2>2, <2>3, <2>4, <2>5 DEF Enter
<1>3. ASSUME NEW p \in Proc, ExecLock(p)
      PROVE  CloseInv'
  BY <1>3, GotoClose DEF ExecLock, Pc, Using
<1>4. ASSUME NEW p \in Proc, ExecCheck(p)
      PROVE  CloseInv'
  <2>1. /\ pc[p] = "check" /\ UNCHANGED conn
        /\ \/ Goto(p, "idle")
           \/ conn # "nil" /\ Goto(p, "write")
    BY <1>4 DEF ExecCheck, ExecReturn
  <2> QED
    BY <2>1, GotoClose DEF Pc, Using
<1>5. ASSUME NEW p \in Proc, ExecWrite(p)
      PROVE  CloseInv'
  BY <1>5, GotoClose DEF ExecWrite, Pc
<1>6. ASSUME NEW p \in Proc, ExecWriteFail(p)
      PROVE  CloseInv'
  BY <1>6, GotoClose DEF ExecWriteFail, ExecReturn, Pc, Using
<1>7. ASSUME NEW p \in Proc, ExecWriteNil(p)
      PROVE  CloseInv'
  BY <1>7, PanicClose DEF ExecWriteNil, Using
<1>8. ASSUME NEW p \in Proc, LoadReader(p, "read", "wait")
      PROVE  CloseInv'
  BY <1>8, PanicClose, GotoClose DEF LoadReader, Pc, Using
<1>9. ASSUME NEW p \in Proc, LoadReader(p, "sread", "swait")
      PROVE  CloseInv'
  BY <1>9, PanicClose, GotoClose DEF LoadReader, Pc, Using
<1>10. ASSUME NEW p \in Proc, ExecRead(p)
       PROVE  CloseInv'
  <2>1. /\ pc[p] = "wait" /\ UNCHANGED conn
        /\ Goto(p, "idle") \/ Goto(p, "sread")
    BY <1>10 DEF ExecRead, ExecReturn
  <2> QED
    BY <2>1, GotoClose DEF Pc, Using
<1>11. ASSUME NEW p \in Proc, StreamRead(p)
       PROVE  CloseInv'
  <2>1. /\ pc[p] = "swait" /\ UNCHANGED conn
        /\ Goto(p, "idle") \/ Goto(p, "sread")
    BY <1>11 DEF StreamRead
  <2> QED
    BY <2>1, GotoClose DEF Pc, Using
<1>12. ASSUME NEW p \in Proc, CloseSocket(p)
       PROVE  CloseInv'
  <2>1. CASE conn = "nil"
    BY <1>12, <2>1, PanicClose DEF CloseSocket, Using
  <2>2. CASE conn # "nil"
    BY <1>12, <2>2 DEF CloseSocket, Goto, TypeOK, CloseInv, Using
  <2> QED
    BY <2>1, <2>2
<1>13. ASSUME NEW p \in Proc, CloseClear(p)
       PROVE  CloseInv'
  BY <1>13 DEF CloseClear, Goto, TypeOK, CloseInv, Using
<1>14. ASSUME Serve \/ LinkFail \/ Quiet \/ UNCHANGED vars
       PROVE  UNCHANGED <<conn, pc>>
  BY <1>14 DEF Serve, LinkFail, Quiet, vars, clientVars
<1> QED
  BY <1>1, <1>2, <1>3, <1>4, <1>5, <1>6, <1>7, <1>8, <1>9, <1>10, <1>11, <1>12, <1>13, <1>14
  DEF Next, Step

\* Exec, GetSearchResponse and Close use connection.conn and connection.reader
\* without a test after Close may have reset them: that panics only in a
\* goroutine other than the only one that closes (property NoPanicForCloser).
THEOREM CloserIsSafe == Spec => []NoPanicForCloser
<1>1. Init => CloseInv
  BY DEF Init, CloseInv, Using
<1>2. CloseInv => NoPanicForCloser
  BY DEF CloseInv, NoPanicForCloser
<1>3. TypeOK /\ CloseInv /\ [Next]_vars => CloseInv'
  BY NextClose
<1> QED
  BY <1>1, <1>2, <1>3, TypeCorrect, PTL DEF Spec

-----------------------------------------------------------------------------
(* The lock, and what a goroutine knows at each point of a call            *)

\* connection.mux is held by whoever is inside the locked part of Exec.
MutexInv == \A p \in Proc : pc[p] \in Locked <=> mux = p

LEMMA NextMutex ==
  ASSUME TypeOK, MutexInv, [Next]_vars
  PROVE  MutexInv'
<1>1. ASSUME UNCHANGED <<mux, pc>>
      PROVE  MutexInv'
  BY <1>1 DEF MutexInv
<1>2. ASSUME NEW p \in Proc, NEW l \in Pc, Goto(p, l), UNCHANGED mux,
             pc[p] \in Locked <=> l \in Locked
      PROVE  MutexInv'
  BY <1>2 DEF MutexInv, Goto, TypeOK
<1>3. ASSUME NEW p \in Proc, NEW l \in Pc, Goto(p, l), mux' = None,
             pc[p] \in Locked, l \notin Locked
      PROVE  MutexInv'
  BY <1>3, NoneAssumption DEF MutexInv, Goto, TypeOK
<1>4. ASSUME NEW p \in Proc, Panic(p)
      PROVE  MutexInv'
  BY <1>4, NoneAssumption DEF MutexInv, Panic, Goto, TypeOK, Locked
<1>5. ASSUME NEW p \in Proc, Enter(p)
      PROVE  MutexInv'
  <2>1. CASE UNCHANGED <<mux, pc>>
    BY <1>1, <2>1
  <2>2. CASE pc[p] = "idle" /\ UNCHANGED mux /\ (Goto(p, "lock") \/ Goto(p, "close") \/ Goto(p, "async"))
    BY <1>2, <2>2 DEF Pc, Locked
  <2> QED
    BY <1>5, <2>1, <2>2 DEF Enter, ExecCall, SetTimeout, Send, CloseCall, AsyncExec
<1>6. ASSUME NEW p \in Proc, ExecLock(p)
      PROVE  MutexInv'
  BY <1>6, NoneAssumption DEF MutexInv, ExecLock, Goto, TypeOK, Locked
<1>7. ASSUME NEW p \in Proc, ExecCheck(p)
      PROVE  MutexInv'
  <2>1. /\ pc[p] = "check"
        /\ \/ mux' = None /\ Goto(p, "idle")
           \/ UNCHANGED mux /\ Goto(p, "write")
    BY <1>7 DEF ExecCheck, ExecReturn
  <2> QED
    BY <1>2, <1>3, <2>1 DEF Pc, Locked
<1>8. ASSUME NEW p \in Proc, ExecWrite(p) \/ ExecWriteFail(p)
      PROVE  MutexInv'
  BY <1>2, <1>3, <1>8 DEF ExecWrite, ExecWriteFail, ExecReturn, Pc, Locked
<1>9. ASSUME NEW p \in Proc,
             LoadReader(p, "read", "wait") \/ LoadReader(p, "sread", "swait") \/ ExecWriteNil(p)
      PROVE  MutexInv'
  BY <1>2, <1>4, <1>9 DEF LoadReader, ExecWriteNil, Pc, Locked
<1>10. ASSUME NEW p \in Proc, ExecRead(p)
       PROVE  MutexInv'
  <2>1. pc[p] = "wait" /\ mux' = None /\ (Goto(p, "idle") \/ Goto(p, "sread"))
    BY <1>10 DEF ExecRead, ExecReturn
  <2> QED
    BY <1>3, <2>1 DEF Pc, Locked
<1>11. ASSUME NEW p \in Proc, StreamRead(p)
       PROVE  MutexInv'
  <2>1. pc[p] = "swait" /\ UNCHANGED mux /\ (Goto(p, "idle") \/ Goto(p, "sread"))
    BY <1>11 DEF StreamRead
  <2> QED
    BY <1>2, <2>1 DEF Pc, Locked
<1>12. ASSUME NEW p \in Proc, CloseSocket(p) \/ CloseClear(p)
       PROVE  MutexInv'
  BY <1>2, <1>4, <1>12 DEF CloseSocket, CloseClear, Pc, Locked
<1>13. ASSUME Serve \/ LinkFail \/ Quiet \/ UNCHANGED vars
       PROVE  UNCHANGED <<mux, pc>>
  BY <1>13 DEF Serve, LinkFail, Quiet, vars, clientVars
<1> QED
  BY <1>1, <1>5, <1>6, <1>7, <1>8, <1>9, <1>10, <1>11, <1>12, <1>13 DEF Next, Step

\* Between taking the lock and an answer a goroutine has been told nothing; once
\* it reads, the command is one with an answer and is in the log of accepted
\* commands.
Reading == {"read", "wait", "sread", "swait"}
Accepted == {issued[i] : i \in 1 .. Len(issued)}
CallInv ==
  \A p \in Proc :
    /\ pc[p] \in {"lock", "check"} => answer[p] = ticket[p]
    /\ pc[p] \in Locked \cup {"lock"} => outcome[p] = "none"
    /\ pc[p] \in {"sread", "swait"} => cur[p] \in Stream
    /\ pc[p] \in Reading \cup {"write"} => cur[p] \in Accepted \ Cached

\* The log only grows.
LEMMA AcceptedForEver ==
  ASSUME TypeOK, [Next]_vars
  PROVE  Accepted \subseteq Accepted'
<1>1. issued' = issued \/ \E d \in Command : issued' = Append(issued, d)
  <2>1. ASSUME NEW p \in Proc, ExecCheck(p)
        PROVE  issued' = issued \/ (issued' = Append(issued, cur[p]) /\ cur[p] \in Command)
    BY <2>1, NoneAssumption DEF ExecCheck, TypeOK, Locked
  <2>2. ASSUME NEW p \in Proc, Enter(p)
        PROVE  issued' = issued \/ \E d \in Command : issued' = Append(issued, d)
    BY <2>2, CommandsAssumption DEF Enter, ExecCall, SetTimeout, Send, CloseCall, AsyncExec
  <2>3. ASSUME NEW p \in Proc, ExecLock(p) \/ (Step(p) /\ ~ExecCheck(p))
        PROVE  issued' = issued
    BY <2>3 DEF ExecLock, Step, ExecWrite, ExecWriteFail, ExecWriteNil, LoadReader, ExecRead,
                StreamRead, CloseSocket, CloseClear, Panic
  <2>4. CASE Serve \/ LinkFail \/ Quiet \/ UNCHANGED vars
    BY <2>4 DEF Serve, LinkFail, Quiet, vars, clientVars
  <2> QED
    BY <2>1, <2>2, <2>3, <2>4 DEF Next
<1>2. ASSUME NEW d \in Command, issued' = Append(issued, d)
      PROVE  Accepted \subseteq Accepted'
  <2>1. Len(issued') = Len(issued) + 1 /\ \A i \in 1 .. Len(issued) : issued'[i] = issued[i]
    BY <1>2, AppendProperties DEF TypeOK
  <2> QED
    BY <2>1 DEF Accepted, TypeOK
<1> QED
  BY <1>1, <1>2 DEF Accepted

LEMMA NextCall ==
  ASSUME TypeOK, CallInv, [Next]_vars
  PROVE  CallInv'
<1>1. Accepted \subseteq Accepted'
  BY AcceptedForEver
<1>2. ASSUME UNCHANGED <<pc, cur, outcome, answer, ticket>>
      PROVE  CallInv'
  BY <1>1, <1>2 DEF CallInv
<1> USE DEF Goto, Report, ExecReturn
<1>3. ASSUME NEW p \in Proc, NEW c \in Command, ExecCall(p, c)
      PROVE  CallInv'
  BY <1>1, <1>3 DEF CallInv, ExecCall, TypeOK, Locked, Reading
<1>4. ASSUME NEW p \in Proc, SetTimeout(p)
      PROVE  CallInv'
  <2>1. CASE ExecCall(p, TimeoutCmd)
    BY <1>3, <2>1, CommandsAssumption DEF Command
  <2>2. CASE pc[p] = "idle" /\ Report(p, "unconnected") /\ UNCHANGED <<pc, cur, answer, ticket>>
    BY <1>1, <2>2 DEF CallInv, TypeOK, Locked
  <2> QED
    BY <1>4, <2>1, <2>2 DEF SetTimeout
<1>5. ASSUME NEW p \in Proc, NEW c \in Command, Send(p, c)
      PROVE  CallInv'
  <2>1. /\ pc[p] = "idle" /\ UNCHANGED <<pc, cur>>
        /\ \E o : outcome' = [outcome EXCEPT ![p] = o]
        /\ answer' = [answer EXCEPT ![p] = 0]
        /\ ticket' = [ticket EXCEPT ![p] = 0]
    BY <1>5 DEF Send
  <2> QED
    BY <1>1, <2>1 DEF CallInv, TypeOK, Locked, Reading
<1>6. ASSUME NEW p \in Proc, CloseCall(p)
      PROVE  CallInv'
  BY <1>1, <1>6 DEF CallInv, CloseCall, TypeOK, Locked, Reading
<1>7. ASSUME NEW p \in Proc, NEW c \in Command, AsyncExec(p, c)
      PROVE  CallInv'
  BY <1>1, <1>7 DEF CallInv, AsyncExec, TypeOK, Locked, Reading
<1>8. ASSUME NEW p \in Proc, ExecLock(p)
      PROVE  CallInv'
  BY <1>1, <1>8 DEF CallInv, ExecLock, TypeOK, Locked, Reading
<1>9. ASSUME NEW p \in Proc, ExecCheck(p)
      PROVE  CallInv'
  <2>1. pc[p] = "check" /\ UNCHANGED <<cur, answer, ticket>>
    BY <1>9 DEF ExecCheck
  <2>2. CASE \E o \in Outcome : ExecReturn(p, o)
    BY <1>1, <2>1, <2>2 DEF CallInv, TypeOK, Locked, Reading
  <2>3. CASE /\ issued' = Append(issued, cur[p]) /\ cur[p] \notin Cached
             /\ Goto(p, "write") /\ UNCHANGED outcome
    <3>1. cur[p] \in Command
      BY <2>1, NoneAssumption DEF TypeOK, Locked
    <3>2. Len(issued') = Len(issued) + 1 /\ issued'[Len(issued) + 1] = cur[p]
      BY <2>3, <3>1, AppendProperties DEF TypeOK
    <3>3. Len(issued) + 1 \in 1 .. Len(issued')
      BY <3>2 DEF TypeOK
    <3>4. cur[p] \in Accepted'
      BY <3>2, <3>3 DEF Accepted
    <3> QED
      BY <1>1, <2>1, <2>3, <3>4 DEF CallInv, TypeOK, Locked, Reading
  <2> QED
    BY <1>9, <2>2, <2>3 DEF ExecCheck, Outcome
<1>10. ASSUME NEW p \in Proc, ExecWrite(p)
       PROVE  CallInv'
  BY <1>1, <1>10 DEF CallInv, ExecWrite, TypeOK, Locked, Reading
<1>11. ASSUME NEW p \in Proc, ExecWriteFail(p)
       PROVE  CallInv'
  BY <1>1, <1>11 DEF CallInv, ExecWriteFail, TypeOK, Locked, Reading
<1>12. ASSUME NEW p \in Proc, Panic(p)
       PROVE  CallInv'
  BY <1>1, <1>12 DEF CallInv, Panic, TypeOK, Locked, Reading
<1>13. ASSUME NEW p \in Proc,
              LoadReader(p, "read", "wait") \/ LoadReader(p, "sread", "swait") \/ ExecWriteNil(p)
       PROVE  CallInv'
  BY <1>1, <1>12, <1>13 DEF CallInv, LoadReader, ExecWriteNil, TypeOK, Locked, Reading
<1>14. ASSUME NEW p \in Proc, ExecRead(p)
       PROVE  CallInv'
  <2>1. /\ pc[p] = "wait" /\ UNCHANGED <<cur, ticket>>
        /\ \E a : answer' = [answer EXCEPT ![p] = a]
        /\ \E o : outcome' = [outcome EXCEPT ![p] = o]
        /\ \/ Goto(p, "idle")
           \/ cur[p] \in Stream /\ Goto(p, "sread")
    BY <1>14 DEF ExecRead
  <2> QED
    BY <1>1, <2>1 DEF CallInv, TypeOK, Locked, Reading
<1>15. ASSUME NEW p \in Proc, StreamRead(p)
       PROVE  CallInv'
  <2>1. /\ pc[p] = "swait" /\ UNCHANGED <<cur, ticket>>
        /\ \E a : answer' = [answer EXCEPT ![p] = a]
        /\ UNCHANGED outcome \/ \E o : outcome' = [outcome EXCEPT ![p] = o]
        /\ Goto(p, "idle") \/ Goto(p, "sread")
    BY <1>15 DEF StreamRead
  <2> QED
    BY <1>1, <2>1 DEF CallInv, TypeOK, Locked, Reading
<1>16. ASSUME NEW p \in Proc, CloseSocket(p) \/ CloseClear(p)
       PROVE  CallInv'
  BY <1>1, <1>12, <1>16 DEF CallInv, CloseSocket, CloseClear, TypeOK, Locked, Reading
<1>17. ASSUME Serve \/ LinkFail \/ Quiet \/ UNCHANGED vars
       PROVE  CallInv'
  BY <1>2, <1>17 DEF Serve, LinkFail, Quiet, vars, clientVars
<1> QED
  BY <1>3, <1>4, <1>5, <1>6, <1>7, <1>8, <1>9, <1>10, <1>11, <1>13, <1>14, <1>15, <1>16, <1>17,
     CommandsAssumption
  DEF Next, Enter, Step

-----------------------------------------------------------------------------
(* Who reads which answer                                                  *)

\* All that is cached are commands without an answer, and the one that its
\* goroutine is about to write.
BufferInv ==
  conn = "open" => \A i \in 1 .. Len(buffer) :
    \/ buffer[i] \in Cached
    \/ i = Len(buffer) /\ \E p \in Proc : pc[p] = "write" /\ buffer[i] = cur[p]

\* While nobody reads from an open connection nothing is under way.
SilentInv ==
  conn = "open" /\ (\A p \in Proc : pc[p] \notin Reading) =>
    inbox = <<>> /\ (link = "up" => wire = <<>>)

\* On its way to the server are commands without an answer, and as the last one
\* the command that goroutine p waits for.
WireOf(p) ==
  \A i \in 1 .. Len(wire) :
    \/ wire[i] \in Cached
    \/ i = Len(wire) /\ wire[i] = cur[p] /\ Len(applied) + i = ticket[p]

\* s is what remains of the answer to the n-th command, c: only its last
\* response ends the call, and only the first one, if it has not been read yet,
\* may be the one that Exec expects.
Final == {"ok", "err", "end"}
Later == {"item", "end", "err"}
AnswerOf(c, n, fresh, s) ==
  \A i \in 1 .. Len(s) :
    /\ s[i].to = n
    /\ s[i].kind \in Final => i = Len(s)
    /\ s[i].kind \in IF i = 1 /\ fresh THEN {Expected(c), "err"} ELSE Later

\* A goroutine that reads finds its own answer, complete before anything else
\* is under way.
ReaderInv ==
  \A p \in Proc : pc[p] \in Reading =>
    /\ link = "up" => WireOf(p)
    /\ link = "up" /\ (pc[p] \in {"sread", "swait"} \/ inbox # <<>>) => wire = <<>>
    /\ AnswerOf(cur[p], ticket[p], pc[p] \in {"read", "wait"}, inbox)

PrivateInv == OwnReply /\ BufferInv /\ SilentInv /\ ReaderInv
ReplyInv == synced /\ (ListsArePrivate => PrivateInv)

LEMMA ListsArePrivateBefore ==
  ASSUME TypeOK, [Next]_vars, ListsArePrivate'
  PROVE  ListsArePrivate
<1>1. Accepted \subseteq Accepted'
  BY AcceptedForEver
<1>2. \A p \in Proc : cur[p] # None => cur'[p] # None
  <2>1. ASSUME NEW p \in Proc, NEW c \in Command, cur' = [cur EXCEPT ![p] = c]
        PROVE  \A q \in Proc : cur[q] # None => cur'[q] # None
    BY <2>1, NoneAssumption DEF TypeOK
  <2>2. ASSUME NEW p \in Proc, Enter(p)
        PROVE  cur' = cur \/ \E c \in Command : cur' = [cur EXCEPT ![p] = c]
    <3>1. TimeoutCmd \in Command
      BY CommandsAssumption DEF Command
    <3> QED
      BY <2>2, <3>1 DEF Enter, ExecCall, SetTimeout, Send, CloseCall, AsyncExec
  <2>3. ASSUME NEW p \in Proc, ExecLock(p) \/ Step(p)
        PROVE  cur' = cur
    BY <2>3 DEF ExecLock, Step, ExecCheck, ExecWrite, ExecWriteFail, ExecWriteNil, LoadReader,
                ExecRead, StreamRead, CloseSocket, CloseClear, Panic
  <2>4. CASE Serve \/ LinkFail \/ Quiet \/ UNCHANGED vars
    BY <2>4 DEF Serve, LinkFail, Quiet, vars, clientVars
  <2> QED
    BY <2>1, <2>2, <2>3, <2>4 DEF Next
<1>3. CASE \A i \in 1 .. Len(issued') : issued'[i] \notin Stream
  <2>1. Accepted' \cap Stream = {}
    BY <1>3 DEF Accepted
  <2>2. \A i \in 1 .. Len(issued) : issued[i] \in Accepted
    BY DEF Accepted
  <2> QED
    BY <1>1, <2>1, <2>2 DEF ListsArePrivate
<1>4. CASE \A p, q \in Proc : cur'[p] # None /\ cur'[q] # None => p = q
  BY <1>2, <1>4 DEF ListsArePrivate
<1> QED
  BY <1>3, <1>4 DEF ListsArePrivate

\* Where result lists are private one goroutine at a time writes and reads.
LEMMA OneReader ==
  ASSUME TypeOK, MutexInv, CallInv, ListsArePrivate, NEW p \in Proc, NEW q \in Proc,
         pc[p] \in Reading \cup {"write"}, pc[q] \in Reading \cup {"write"}
  PROVE  p = q
<1>1. CASE \A i \in 1 .. Len(issued) : issued[i] \notin Stream
  <2>1. cur[p] \notin Stream /\ cur[q] \notin Stream
    BY <1>1 DEF CallInv, Accepted
  <2>2. pc[p] \in Locked /\ pc[q] \in Locked
    BY <2>1 DEF CallInv, Reading, Locked
  <2> QED
    BY <2>2 DEF MutexInv
<1>2. CASE \A r, s \in Proc : cur[r] # None /\ cur[s] # None => r = s
  BY <1>2 DEF TypeOK, Reading, Locked
<1> QED
  BY <1>1, <1>2 DEF ListsArePrivate

\* The answers of the server are answers.
LEMMA AnswersAnswer ==
  ASSUME NEW c \in Call \cup Stream, NEW n \in Nat, NEW r \in Answers(c, n)
  PROVE  AnswerOf(c, n, TRUE, r)
<1>1. ASSUME NEW k \in {Expected(c), "err"}, k \in Final, r = <<Reply(n, k)>>
      PROVE  AnswerOf(c, n, TRUE, r)
  <2>1. Len(r) = 1 /\ r[1].to = n /\ r[1].kind = k
    BY <1>1 DEF Reply
  <2> QED
    BY <1>1, <2>1 DEF AnswerOf
<1>2. CASE c \in Call
  <2>1. Expected(c) = "ok"
    BY <1>2, CommandsAssumption DEF Expected
  <2>2. r = <<Reply(n, "ok")>> \/ r = <<Reply(n, "err")>>
    BY <1>2, CommandsAssumption DEF Answers
  <2> QED
    BY <1>1, <2>1, <2>2 DEF Final
<1>3. CASE c \in Stream
  <2>1. Expected(c) = "begin"
    BY <1>3 DEF Expected
  <2>2. Answers(c, n) = {<<Reply(n, "err")>>} \cup Results(n, "end") \cup Results(n, "err")
    BY <1>3, CommandsAssumption DEF Answers
  <2>3. ASSUME NEW k \in {"end", "err"}, r \in Results(n, k)
        PROVE  AnswerOf(c, n, TRUE, r)
    <3>1. PICK s \in Items(n) : r = <<Reply(n, "begin")>> \o s \o <<Reply(n, k)>>
      BY <2>3 DEF Results
    <3>2. PICK m \in 0 .. MaxItems : s = [i \in 1 .. m |-> Reply(n, "item")]
      BY <3>1 DEF Items
    <3>3. m \in Nat
      BY BoundAssumption
    <3>4. /\ Len(r) = m + 2
          /\ r[1] = Reply(n, "begin")
          /\ r[m + 2] = Reply(n, k)
          /\ \A i \in 2 .. m + 1 : r[i] = Reply(n, "item")
      <4> DEFINE b == <<Reply(n, "begin")>>
                 e == <<Reply(n, k)>>
      <4>1. \A kind \in ReplyKind : Reply(n, kind) \in Response
        BY DEF Reply, Response
      <4>2. b \in Seq(Response) /\ e \in Seq(Response)
        BY <4>1 DEF ReplyKind
      <4>3. s \in Seq(Response) /\ Len(s) = m /\ \A i \in 1 .. m : s[i] = Reply(n, "item")
        BY <3>2, <3>3, <4>1, IsASeq DEF ReplyKind
      <4>4. Len(b) = 1 /\ b[1] = Reply(n, "begin") /\ Len(e) = 1 /\ e[1] = Reply(n, k)
        OBVIOUS
      <4> HIDE DEF b, e
      <4>5. /\ b \o s \in Seq(Response) /\ Len(b \o s) = m + 1
            /\ \A i \in 1 .. m + 1 : (b \o s)[i] = IF i <= 1 THEN b[i] ELSE s[i - 1]
        <5>1. /\ b \o s \in Seq(Response) /\ Len(b \o s) = Len(b) + Len(s)
              /\ \A i \in 1 .. Len(b) + Len(s) :
                   (b \o s)[i] = IF i <= Len(b) THEN b[i] ELSE s[i - Len(b)]
          BY <4>2, <4>3, ConcatProperties
        <5>2. Len(b) + Len(s) = m + 1
          BY <3>3, <4>3, <4>4
        <5> QED
          BY <4>4, <5>1, <5>2
      <4> DEFINE t == b \o s
      <4>6. t \in Seq(Response) /\ Len(t) = m + 1 /\ r = t \o e
        BY <3>1, <4>5 DEF b, e
      <4>7. t[1] = Reply(n, "begin")
        BY <3>3, <4>4, <4>5
      <4>8. \A i \in 2 .. m + 1 : t[i] = Reply(n, "item")
        <5>1. \A i \in 2 .. m + 1 : i - 1 \in 1 .. m /\ i \in 1 .. m + 1 /\ ~(i <= 1)
          BY <3>3
        <5> QED
          BY <4>3, <4>5, <5>1
      <4> HIDE DEF t
      <4>9. /\ Len(r) = m + 2
            /\ \A i \in 1 .. m + 2 : r[i] = IF i <= m + 1 THEN t[i] ELSE e[i - (m + 1)]
        <5>1. /\ Len(r) = Len(t) + Len(e)
              /\ \A i \in 1 .. Len(t) + Len(e) :
                   r[i] = IF i <= Len(t) THEN t[i] ELSE e[i - Len(t)]
          BY <4>2, <4>6, ConcatProperties
        <5>2. Len(t) + Len(e) = m + 2
          BY <3>3, <4>4, <4>6
        <5> QED
          BY <4>6, <5>1, <5>2
      <4>10. r[1] = t[1] /\ r[m + 2] = e[1] /\ \A i \in 2 .. m + 1 : r[i] = t[i]
        BY <3>3, <4>9
      <4> QED
        BY <4>4, <4>7, <4>8, <4>9, <4>10
    <3> SUFFICES ASSUME NEW i \in 1 .. m + 2
                 PROVE  /\ r[i].to = n
                        /\ r[i].kind \in Final => i = m + 2
                        /\ r[i].kind \in IF i = 1 THEN {"begin", "err"} ELSE Later
      BY <2>1, <3>3, <3>4 DEF AnswerOf
    <3>5. \/ i = 1 /\ i # m + 2
          \/ i \in 2 .. m + 1 /\ i # 1 /\ i # m + 2
          \/ i = m + 2 /\ i # 1
      BY <3>3
    <3> QED
      BY <3>4, <3>5 DEF Reply, Final, Later
  <2> QED
    BY <1>1, <2>1, <2>2, <2>3 DEF Final
<1> QED
  BY <1>2, <1>3

\* A goroutine that moves without reading or writing disturbs nobody.
LEMMA GotoSilent ==
  ASSUME TypeOK, SilentInv, ReaderInv, NEW p \in Proc, NEW l,
         Goto(p, l), pc[p] \notin Reading, l \notin Reading,
         UNCHANGED serverVars, conn' = conn \/ conn' # "open",
         \A q \in Proc \ {p} : cur'[q] = cur[q] /\ ticket'[q] = ticket[q]
  PROVE  SilentInv' /\ ReaderInv'
<1>1. pc'[p] = l /\ \A q \in Proc \ {p} : pc'[q] = pc[q]
  BY DEF Goto, TypeOK
<1>2. SilentInv'
  BY <1>1 DEF SilentInv, serverVars
<1>3. \A q \in Proc : pc'[q] \in Reading =>
        pc'[q] = pc[q] /\ cur'[q] = cur[q] /\ ticket'[q] = ticket[q]
  BY <1>1
<1>4. ReaderInv'
  <2> SUFFICES ASSUME NEW q \in Proc, pc'[q] \in Reading
               PROVE  /\ link' = "up" => WireOf(q)'
                      /\ link' = "up" /\ (pc'[q] \in {"sread", "swait"} \/ inbox' # <<>>)
                           => wire' = <<>>
                      /\ AnswerOf(cur[q], ticket[q], pc[q] \in {"read", "wait"}, inbox)'
    BY DEF ReaderInv
  <2>1. /\ pc'[q] = pc[q] /\ cur'[q] = cur[q] /\ ticket'[q] = ticket[q]
        /\ UNCHANGED <<link, wire, applied, inbox>>
    BY <1>3 DEF serverVars
  <2>2. /\ link = "up" => WireOf(q)
        /\ link = "up" /\ (pc[q] \in {"sread", "swait"} \/ inbox # <<>>) => wire = <<>>
        /\ AnswerOf(cur[q], ticket[q], pc[q] \in {"read", "wait"}, inbox)
    BY <1>3 DEF ReaderInv
  <2>3. WireOf(q) => WireOf(q)'
    BY <2>1 DEF WireOf
  <2>4. AnswerOf(cur[q], ticket[q], pc[q] \in {"read", "wait"}, inbox)'
    BY <2>1, <2>2 DEF AnswerOf, Expected
  <2> QED
    BY <2>1, <2>2, <2>3, <2>4
<1> QED
  BY <1>2, <1>4

LEMMA GotoBuffer ==
  ASSUME TypeOK, BufferInv, NEW p \in Proc, NEW l,
         Goto(p, l), pc[p] # "write",
         UNCHANGED buffer, conn' = conn \/ conn' # "open",
         \A q \in Proc \ {p} : cur'[q] = cur[q]
  PROVE  BufferInv'
<1>1. \A q \in Proc : pc[q] = "write" => pc'[q] = "write" /\ cur'[q] = cur[q]
  BY DEF Goto, TypeOK
<1> QED
  BY <1>1 DEF BufferInv

\* The calls that only set what their own goroutine knows.
LEMMA EnterPrivate ==
  ASSUME Raw = {}, TypeOK, PrivateInv, NEW p \in Proc, Enter(p)
  PROVE  PrivateInv'
<1>1. ASSUME NEW c \in Command, ExecCall(p, c)
      PROVE  PrivateInv'
  <2>1. \A q \in Proc \ {p} : cur'[q] = cur[q] /\ ticket'[q] = ticket[q]
    BY <1>1 DEF ExecCall, TypeOK
  <2>2. /\ pc[p] = "idle" /\ Goto(p, "lock")
        /\ UNCHANGED <<buffer, conn, serverVars>>
    BY <1>1 DEF ExecCall
  <2>3. SilentInv' /\ ReaderInv' /\ BufferInv'
    BY <2>1, <2>2, GotoSilent, GotoBuffer DEF Reading, PrivateInv
  <2>4. OwnReply'
    BY <1>1 DEF PrivateInv, OwnReply, ExecCall, Report, TypeOK
  <2> QED
    BY <2>3, <2>4 DEF PrivateInv
<1>2. ASSUME SetTimeout(p)
      PROVE  PrivateInv'
  <2>1. TimeoutCmd \in Command
    BY CommandsAssumption DEF Command
  <2>2. CASE Report(p, "unconnected") /\ UNCHANGED <<conn, buffer, mux, pc, cur, answer, ticket, issued, serverVars>>
    <3>1. OwnReply'
      BY <2>2 DEF PrivateInv, OwnReply, Report, TypeOK
    <3>2. UNCHANGED <<conn, buffer, pc, cur, ticket, link, wire, applied, inbox>>
      BY <2>2 DEF serverVars
    <3>3. BufferInv' /\ SilentInv'
      BY <3>2 DEF PrivateInv, BufferInv, SilentInv
    <3>4. ReaderInv'
      BY <3>2 DEF PrivateInv, ReaderInv, WireOf, AnswerOf, Expected
    <3> QED
      BY <3>1, <3>3, <3>4 DEF PrivateInv
  <2> QED
    BY <1>1, <1>2, <2>1, <2>2 DEF SetTimeout
<1>3. ASSUME CloseCall(p)
      PROVE  PrivateInv'
  <2>1. /\ pc[p] = "idle" /\ Goto(p, "close")
        /\ UNCHANGED <<buffer, conn, cur, ticket, outcome, answer, serverVars>>
    BY <1>3 DEF CloseCall
  <2>2. SilentInv' /\ ReaderInv' /\ BufferInv'
    BY <2>1, GotoSilent, GotoBuffer DEF Reading, PrivateInv
  <2> QED
    BY <2>1, <2>2 DEF PrivateInv, OwnReply
<1>4. ASSUME NEW c \in Command, AsyncExec(p, c)
      PROVE  PrivateInv'
  <2>1. /\ pc[p] = "idle" /\ Goto(p, "async")
        /\ UNCHANGED <<buffer, conn, ticket, outcome, answer, serverVars>>
        /\ \A q \in Proc \ {p} : cur'[q] = cur[q]
    BY <1>4 DEF AsyncExec, TypeOK
  <2>2. SilentInv' /\ ReaderInv' /\ BufferInv'
    BY <2>1, GotoSilent, GotoBuffer DEF Reading, PrivateInv
  <2> QED
    BY <2>1, <2>2 DEF PrivateInv, OwnReply
<1> QED
  BY <1>1, <1>2, <1>3, <1>4 DEF Enter

\* The steps that close the connection, and those that find it closed.
LEMMA ClosePrivate ==
  ASSUME TypeOK, PrivateInv, NEW p \in Proc, CloseSocket(p) \/ CloseClear(p) \/ ExecWriteNil(p)
  PROVE  PrivateInv'
<1>1. PICK l \in {"clear", "idle", "panic"} :
        /\ Goto(p, l) /\ conn' # "open" /\ pc[p] \in {"close", "clear", "write"}
        /\ UNCHANGED <<buffer, cur, ticket, outcome, answer, serverVars>>
  BY DEF CloseSocket, CloseClear, ExecWriteNil, Panic
<1>2. SilentInv' /\ ReaderInv' /\ BufferInv'
  BY <1>1, GotoSilent DEF Reading, PrivateInv, BufferInv
<1> QED
  BY <1>1, <1>2 DEF PrivateInv, OwnReply

LEMMA LoadPrivate ==
  ASSUME TypeOK, PrivateInv, NEW p \in Proc,
         LoadReader(p, "read", "wait") \/ LoadReader(p, "sread", "swait")
  PROVE  PrivateInv'
<1>1. CASE conn = "nil"
  <2>1. Goto(p, "panic") /\ UNCHANGED <<conn, buffer, cur, ticket, outcome, answer, serverVars>>
    BY <1>1 DEF LoadReader, Panic
  <2>2. \A q \in Proc : pc'[q] \in Reading => pc'[q] = pc[q]
    BY <2>1 DEF Goto, TypeOK, Reading
  <2>3. ReaderInv'
    BY <2>1, <2>2 DEF PrivateInv, ReaderInv, WireOf, AnswerOf, serverVars
  <2> QED
    BY <1>1, <2>1, <2>3 DEF PrivateInv, SilentInv, BufferInv, OwnReply
<1>2. CASE conn # "nil"
  <2>1. /\ UNCHANGED <<conn, buffer, cur, ticket, outcome, answer, serverVars>>
        /\ pc[p] \in Reading
        /\ \A q \in Proc : /\ pc'[q] \in Reading <=> pc[q] \in Reading
                           /\ pc'[q] \in {"sread", "swait"} <=> pc[q] \in {"sread", "swait"}
                           /\ pc'[q] \in {"read", "wait"} <=> pc[q] \in {"read", "wait"}
                           /\ pc[q] = "write" => pc'[q] = "write"
    BY <1>2 DEF LoadReader, Goto, TypeOK, Reading
  <2>2. ReaderInv'
    <3> SUFFICES ASSUME NEW q \in Proc, pc'[q] \in Reading
                 PROVE  /\ link' = "up" => WireOf(q)'
                        /\ link' = "up" /\ (pc'[q] \in {"sread", "swait"} \/ inbox' # <<>>)
                             => wire' = <<>>
                        /\ AnswerOf(cur[q], ticket[q], pc[q] \in {"read", "wait"}, inbox)'
      BY DEF ReaderInv
    <3> QED
      BY <2>1 DEF PrivateInv, ReaderInv, WireOf, AnswerOf, serverVars
  <2>3. SilentInv' /\ BufferInv' /\ OwnReply'
    BY <2>1 DEF PrivateInv, SilentInv, BufferInv, OwnReply, serverVars
  <2> QED
    BY <2>2, <2>3 DEF PrivateInv
<1> QED
  BY <1>1, <1>2

LEMMA LockPrivate ==
  ASSUME TypeOK, PrivateInv, NEW p \in Proc, ExecLock(p)
  PROVE  PrivateInv'
<1>1. /\ pc[p] = "lock" /\ Goto(p, "check")
      /\ UNCHANGED <<conn, buffer, cur, ticket, outcome, answer, serverVars>>
  BY DEF ExecLock
<1>2. SilentInv' /\ ReaderInv' /\ BufferInv'
  BY <1>1, GotoSilent, GotoBuffer DEF Reading, PrivateInv
<1> QED
  BY <1>1, <1>2 DEF PrivateInv, OwnReply

LEMMA CheckPrivate ==
  ASSUME TypeOK, MutexInv, CallInv, PrivateInv, NEW p \in Proc, ExecCheck(p)
  PROVE  PrivateInv'
<1>1. /\ pc[p] = "check"
      /\ UNCHANGED <<conn, cur, answer, ticket, serverVars>>
  BY DEF ExecCheck
<1>2. \/ Goto(p, "idle") /\ \E o \in {"unconnected", "ok"} : Report(p, o)
      \/ Goto(p, "write") /\ UNCHANGED outcome
  BY DEF ExecCheck, ExecReturn
<1>3. OwnReply'
  <2>1. answer[p] = ticket[p]
    BY <1>1 DEF CallInv
  <2> QED
    BY <1>1, <1>2, <2>1 DEF PrivateInv, OwnReply, Report, TypeOK
<1>4. SilentInv' /\ ReaderInv'
  BY <1>1, <1>2, GotoSilent DEF PrivateInv, Reading
<1>5. BufferInv'
  <2>1. \A q \in Proc : pc[q] # "write"
    BY <1>1 DEF MutexInv, Locked
  <2>2. CASE UNCHANGED buffer
    BY <1>1, <1>2, <2>2, GotoBuffer DEF PrivateInv
  <2>3. CASE /\ buffer' = Append(buffer, cur[p])
             /\ cur[p] \notin Cached => Goto(p, "write")
    <3>1. cur[p] \in Command
      BY <1>1, NoneAssumption DEF TypeOK, Locked
    <3>2. /\ Len(buffer') = Len(buffer) + 1 /\ buffer'[Len(buffer) + 1] = cur[p]
          /\ \A i \in 1 .. Len(buffer) : buffer'[i] = buffer[i]
      BY <2>3, <3>1, AppendProperties DEF TypeOK
    <3>3. ASSUME conn = "open", NEW i \in 1 .. Len(buffer)
          PROVE  buffer'[i] \in Cached
      BY <2>1, <3>2, <3>3 DEF PrivateInv, BufferInv
    <3>4. cur[p] \notin Cached => pc'[p] = "write"
      BY <2>3 DEF Goto, TypeOK
    <3>5. \A i \in 1 .. Len(buffer') : i \in 1 .. Len(buffer) \/ i = Len(buffer) + 1
      BY <3>2 DEF TypeOK
    <3> QED
      BY <1>1, <3>2, <3>3, <3>4, <3>5 DEF BufferInv
  <2> QED
    BY <2>2, <2>3 DEF ExecCheck
<1> QED
  BY <1>3, <1>4, <1>5 DEF PrivateInv

LEMMA WriteFailPrivate ==
  ASSUME TypeOK, PrivateInv, NEW p \in Proc, ExecWriteFail(p)
  PROVE  PrivateInv'
<1>1. /\ pc[p] = "write" /\ Goto(p, "idle") /\ buffer' = <<>> /\ Report(p, "ioerror")
      /\ UNCHANGED <<conn, cur, answer, ticket, serverVars>>
  BY DEF ExecWriteFail, ExecReturn
<1>2. SilentInv' /\ ReaderInv'
  BY <1>1, GotoSilent DEF PrivateInv, Reading
<1>3. BufferInv'
  BY <1>1 DEF BufferInv
<1>4. OwnReply'
  BY <1>1 DEF PrivateInv, OwnReply, Report, TypeOK
<1> QED
  BY <1>2, <1>3, <1>4 DEF PrivateInv

\* What is written is what nobody answers, and the command of the writer.
LEMMA WritePrivate ==
  ASSUME TypeOK, MutexInv, CallInv, ListsArePrivate, PrivateInv, NEW p \in Proc, ExecWrite(p)
  PROVE  PrivateInv'
<1>1. /\ pc[p] = "write" /\ conn = "open" /\ Goto(p, "read") /\ buffer' = <<>>
      /\ wire' = IF link = "up" THEN wire \o buffer ELSE wire
      /\ ticket' = [ticket EXCEPT ![p] = Len(applied) + Len(wire) + Len(buffer)]
      /\ UNCHANGED <<conn, cur, outcome, answer, link, applied, inbox>>
  BY DEF ExecWrite
<1>2. \A q \in Proc : pc[q] \notin Reading
  BY <1>1, OneReader DEF Reading
<1>3. inbox = <<>> /\ (link = "up" => wire = <<>>)
  BY <1>1, <1>2 DEF PrivateInv, SilentInv
<1>4. pc'[p] = "read" /\ \A q \in Proc \ {p} : pc'[q] \notin Reading
  BY <1>1, <1>2 DEF Goto, TypeOK
<1>5. OwnReply'
  <2>1. outcome[p] = "none"
    BY <1>1 DEF CallInv, Locked
  <2> QED
    BY <1>1, <2>1 DEF PrivateInv, OwnReply, TypeOK
<1>6. BufferInv' /\ SilentInv'
  BY <1>1, <1>4 DEF BufferInv, SilentInv, Reading
<1>7. link = "up" => WireOf(p)'
  <2> SUFFICES ASSUME link = "up"
               PROVE  WireOf(p)'
    OBVIOUS
  <2>1. wire' = buffer
    BY <1>1, <1>3, ConcatEmptySeq DEF TypeOK
  <2>2. \A q \in Proc : pc[q] = "write" => q = p
    BY <1>1 DEF MutexInv, Locked
  <2>3. \A i \in 1 .. Len(buffer) :
          buffer[i] \in Cached \/ (i = Len(buffer) /\ buffer[i] = cur[p])
    BY <1>1, <2>2 DEF PrivateInv, BufferInv
  <2>4. ticket'[p] = Len(applied) + Len(buffer)
    BY <1>1, <1>3 DEF TypeOK
  <2> QED
    BY <1>1, <2>1, <2>3, <2>4 DEF WireOf
<1>8. ReaderInv'
  BY <1>1, <1>3, <1>4, <1>7 DEF ReaderInv, AnswerOf
<1> QED
  BY <1>5, <1>6, <1>8 DEF PrivateInv

\* While nobody else reads and no response comes in pieces, getResponse returns
\* the next response of the own answer, or an error for lack of any.
LEMMA GetResponseOwn ==
  ASSUME Split = FALSE, TypeOK, synced, NEW m \in Readable, GetResponse(m)
  PROVE  /\ synced'
         /\ \/ inbox # <<>> /\ m = inbox[1] /\ inbox' = Tail(inbox)
            \/ /\ m = ReadError /\ inbox' = inbox
               /\ conn = "open" => link = "down" /\ inbox = <<>>
<1>1. inbox # <<>> => Head(inbox) = inbox[1]
  BY DEF TypeOK
<1> QED
  BY <1>1 DEF GetResponse, TypeOK

\* The rest of an answer is the rest of an answer, and nothing follows the
\* response that ends it.
LEMMA AnswerRest ==
  ASSUME NEW c, NEW n, NEW f \in BOOLEAN, NEW s \in Seq(Response), AnswerOf(c, n, f, s), s # <<>>
  PROVE  /\ s[1].to = n
         /\ s[1].kind \in IF f THEN {Expected(c), "err"} ELSE Later
         /\ s[1].kind \in Final => Tail(s) = <<>>
         /\ AnswerOf(c, n, FALSE, Tail(s))
<1> DEFINE t == Tail(s)
<1>1. /\ Len(s) \in Nat /\ 1 \in 1 .. Len(s)
      /\ t \in Seq(Response) /\ Len(t) = Len(s) - 1
      /\ \A i \in 1 .. Len(t) : t[i] = s[i + 1]
  BY HeadTailProperties
<1>2. /\ s[1].to = n
      /\ s[1].kind \in Final => Len(s) = 1
      /\ s[1].kind \in IF f THEN {Expected(c), "err"} ELSE Later
  BY <1>1 DEF AnswerOf
<1> HIDE DEF t
<1>3. Len(s) = 1 => t = <<>>
  BY <1>1, EmptySeq
<1>4. ASSUME NEW i \in 1 .. Len(t)
      PROVE  /\ t[i].to = n
             /\ t[i].kind \in Final => i = Len(t)
             /\ t[i].kind \in Later
  <2>1. i + 1 \in 1 .. Len(s) /\ i + 1 # 1
    BY <1>1
  <2>2. /\ s[i + 1].to = n
        /\ s[i + 1].kind \in Final => i + 1 = Len(s)
        /\ s[i + 1].kind \in Later
    BY <2>1 DEF AnswerOf
  <2>3. i + 1 = Len(s) => i = Len(t)
    BY <1>1
  <2> QED
    BY <1>1, <2>2, <2>3
<1>5. AnswerOf(c, n, FALSE, t)
  BY <1>4 DEF AnswerOf
<1> QED
  BY <1>2, <1>3, <1>5 DEF t

\* A goroutine that stops to read leaves nothing behind on an open connection.
LEMMA StopReading ==
  ASSUME TypeOK, MutexInv, CallInv, ListsArePrivate, PrivateInv, NEW p \in Proc,
         pc[p] \in Reading, Goto(p, "idle"),
         conn = "open" => inbox' = <<>> /\ (link = "up" => wire = <<>>),
         \A q \in Proc \ {p} : outcome'[q] = outcome[q] /\ answer'[q] = answer[q],
         outcome'[p] \in {"ok", "refused", "unexpected"} => answer'[p] = ticket[p],
         UNCHANGED <<conn, buffer, cur, ticket, link, wire, applied>>
  PROVE  PrivateInv'
<1>1. \A q \in Proc : pc'[q] \notin Reading
  <2>1. \A q \in Proc \ {p} : pc[q] \notin Reading
    BY OneReader
  <2> QED
    BY <2>1 DEF Goto, TypeOK, Reading
<1>2. SilentInv' /\ ReaderInv'
  BY <1>1 DEF SilentInv, ReaderInv
<1>3. BufferInv'
  BY GotoBuffer DEF PrivateInv, Reading
<1>4. OwnReply'
  BY DEF PrivateInv, OwnReply
<1> QED
  BY <1>2, <1>3, <1>4 DEF PrivateInv

\* A goroutine that goes on to read finds the rest of its answer.
LEMMA ReadOn ==
  ASSUME TypeOK, MutexInv, CallInv, ListsArePrivate, PrivateInv, NEW p \in Proc,
         pc[p] \in Reading, Goto(p, "sread"),
         link = "up" => wire = <<>>,
         AnswerOf(cur[p], ticket[p], FALSE, inbox'),
         \A q \in Proc \ {p} : outcome'[q] = outcome[q] /\ answer'[q] = answer[q],
         answer'[p] = ticket[p],
         UNCHANGED <<conn, buffer, cur, ticket, link, wire, applied>>
  PROVE  PrivateInv'
<1>1. pc'[p] = "sread" /\ \A q \in Proc \ {p} : pc'[q] \notin Reading
  <2>1. \A q \in Proc \ {p} : pc[q] \notin Reading
    BY OneReader
  <2> QED
    BY <2>1 DEF Goto, TypeOK
<1>2. SilentInv'
  BY <1>1 DEF SilentInv, Reading
<1>3. AnswerOf(cur'[p], ticket'[p], pc'[p] \in {"read", "wait"}, inbox')
  <2>1. (pc'[p] \in {"read", "wait"}) = FALSE
    BY <1>1
  <2> QED
    BY <2>1
<1>4. ReaderInv'
  BY <1>1, <1>3 DEF ReaderInv, WireOf, AnswerOf, Expected
<1>5. BufferInv'
  BY GotoBuffer DEF PrivateInv, Reading
<1>6. OwnReply'
  BY DEF PrivateInv, OwnReply
<1> QED
  BY <1>2, <1>4, <1>5, <1>6 DEF PrivateInv

LEMMA ExecReadPrivate ==
  ASSUME Split = FALSE, TypeOK, MutexInv, CallInv, synced, ListsArePrivate, PrivateInv,
         NEW p \in Proc, ExecRead(p)
  PROVE  PrivateInv'
<1>1. PICK m \in Readable :
        /\ GetResponse(m)
        /\ answer' = [answer EXCEPT ![p] = m.to]
        /\ \/ m = ReadError /\ ExecReturn(p, "ioerror")
           \/ m.kind = "err" /\ ExecReturn(p, "refused")
           \/ /\ m.kind \in ReplyKind \ {"err", Expected(cur[p])}
              /\ ExecReturn(p, "unexpected")
           \/ /\ m.kind = Expected(cur[p])
              /\ Goto(p, IF cur[p] \in Stream THEN "sread" ELSE "idle")
              /\ Report(p, "ok")
  BY DEF ExecRead
<1>2. /\ pc[p] = "wait" /\ pc[p] \in Reading
      /\ UNCHANGED <<conn, buffer, cur, ticket, link, wire, applied>>
  BY DEF ExecRead, Reading
<1>3. answer'[p] = m.to /\ \A q \in Proc \ {p} : answer'[q] = answer[q]
  BY <1>1 DEF TypeOK
<1>4. \A o : Report(p, o) =>
        outcome'[p] = o /\ \A q \in Proc \ {p} : outcome'[q] = outcome[q]
  BY DEF Report, TypeOK
<1>5. CASE /\ m = ReadError /\ inbox' = inbox
           /\ conn = "open" => link = "down" /\ inbox = <<>>
  <2>1. ExecReturn(p, "ioerror")
    BY <1>1, <1>5 DEF ReadError, ReplyKind, Expected
  <2>2. Goto(p, "idle") /\ outcome'[p] = "ioerror"
        /\ \A q \in Proc \ {p} : outcome'[q] = outcome[q]
    BY <1>4, <2>1 DEF ExecReturn
  <2> QED
    BY <1>2, <1>3, <1>5, <2>2, StopReading
<1>6. CASE inbox # <<>> /\ m = inbox[1] /\ inbox' = Tail(inbox)
  <2>1. /\ link = "up" => wire = <<>>
        /\ AnswerOf(cur[p], ticket[p], TRUE, inbox)
    <3>1. (pc[p] \in {"read", "wait"}) = TRUE
      BY <1>2
    <3> QED
      BY <1>2, <1>6, <3>1 DEF PrivateInv, ReaderInv
  <2>2. /\ m.to = ticket[p] /\ m.kind \in {Expected(cur[p]), "err"}
        /\ m.kind \in Final => inbox' = <<>>
        /\ AnswerOf(cur[p], ticket[p], FALSE, inbox')
    <3>1. inbox \in Seq(Response) /\ TRUE \in BOOLEAN
      BY DEF TypeOK
    <3>2. /\ inbox[1].to = ticket[p]
          /\ inbox[1].kind \in IF TRUE THEN {Expected(cur[p]), "err"} ELSE Later
          /\ inbox[1].kind \in Final => Tail(inbox) = <<>>
          /\ AnswerOf(cur[p], ticket[p], FALSE, Tail(inbox))
      BY <1>6, <2>1, <3>1, AnswerRest
    <3> QED
      BY <1>6, <3>2
  <2>3. m # ReadError
    BY <2>2 DEF ReadError, Expected
  <2>4. CASE m.kind = "err" /\ ExecReturn(p, "refused")
    <3>1. Goto(p, "idle") /\ \A q \in Proc \ {p} : outcome'[q] = outcome[q]
      BY <1>4, <2>4 DEF ExecReturn
    <3> QED
      BY <1>2, <1>3, <2>1, <2>2, <2>4, <3>1, StopReading DEF Final
  <2>5. CASE m.kind = Expected(cur[p]) /\ cur[p] \in Stream /\ Goto(p, "sread") /\ Report(p, "ok")
    BY <1>2, <1>3, <1>4, <2>1, <2>2, <2>5, ReadOn
  <2>6. CASE m.kind = Expected(cur[p]) /\ cur[p] \notin Stream /\ Goto(p, "idle") /\ Report(p, "ok")
    <3>1. m.kind \in Final
      BY <2>6 DEF Expected, Final
    <3> QED
      BY <1>2, <1>3, <1>4, <2>1, <2>2, <2>6, <3>1, StopReading
  <2> QED
    BY <1>1, <2>2, <2>3, <2>4, <2>5, <2>6
<1> QED
  BY <1>1, <1>5, <1>6, GetResponseOwn

LEMMA StreamReadPrivate ==
  ASSUME Split = FALSE, TypeOK, MutexInv, CallInv, synced, ListsArePrivate, PrivateInv,
         NEW p \in Proc, StreamRead(p)
  PROVE  PrivateInv'
<1>1. PICK m \in Readable :
        /\ GetResponse(m)
        /\ answer' = [answer EXCEPT ![p] = m.to]
        /\ \/ m.kind = "item" /\ Goto(p, "sread") /\ UNCHANGED outcome
           \/ m.kind = "end" /\ Goto(p, "idle") /\ UNCHANGED outcome
           \/ m = ReadError /\ Goto(p, "idle") /\ Report(p, "ioerror")
           \/ m.kind \in {"ok", "begin", "err"} /\ Goto(p, "idle") /\ Report(p, "unexpected")
  BY DEF StreamRead
<1>2. /\ pc[p] = "swait" /\ pc[p] \in Reading
      /\ UNCHANGED <<conn, buffer, cur, ticket, link, wire, applied>>
  BY DEF StreamRead, Reading
<1>3. answer'[p] = m.to /\ \A q \in Proc \ {p} : answer'[q] = answer[q]
  BY <1>1 DEF TypeOK
<1>4. \A o : Report(p, o) =>
        outcome'[p] = o /\ \A q \in Proc \ {p} : outcome'[q] = outcome[q]
  BY DEF Report, TypeOK
<1>5. CASE /\ m = ReadError /\ inbox' = inbox
           /\ conn = "open" => link = "down" /\ inbox = <<>>
  <2>1. Goto(p, "idle") /\ Report(p, "ioerror")
    BY <1>1, <1>5 DEF ReadError
  <2> QED
    BY <1>2, <1>3, <1>4, <1>5, <2>1, StopReading
<1>6. CASE inbox # <<>> /\ m = inbox[1] /\ inbox' = Tail(inbox)
  <2>1. /\ link = "up" => wire = <<>>
        /\ AnswerOf(cur[p], ticket[p], FALSE, inbox)
    <3>1. (pc[p] \in {"read", "wait"}) = FALSE
      BY <1>2
    <3> QED
      BY <1>2, <1>6, <3>1 DEF PrivateInv, ReaderInv
  <2>2. /\ m.to = ticket[p] /\ m.kind \in Later
        /\ m.kind \in Final => inbox' = <<>>
        /\ AnswerOf(cur[p], ticket[p], FALSE, inbox')
    <3>1. inbox \in Seq(Response) /\ FALSE \in BOOLEAN
      BY DEF TypeOK
    <3>2. /\ inbox[1].to = ticket[p]
          /\ inbox[1].kind \in IF FALSE THEN {Expected(cur[p]), "err"} ELSE Later
          /\ inbox[1].kind \in Final => Tail(inbox) = <<>>
          /\ AnswerOf(cur[p], ticket[p], FALSE, Tail(inbox))
      BY <1>6, <2>1, <3>1, AnswerRest
    <3> QED
      BY <1>6, <3>2
  <2>3. m # ReadError
    BY <2>2 DEF ReadError, Later
  <2>4. CASE m.kind = "item" /\ Goto(p, "sread") /\ UNCHANGED outcome
    BY <1>2, <1>3, <2>1, <2>2, <2>4, ReadOn
  <2>5. CASE /\ m.kind \in Final /\ Goto(p, "idle")
             /\ UNCHANGED outcome \/ Report(p, "unexpected")
    <3>1. \A q \in Proc \ {p} : outcome'[q] = outcome[q]
      BY <1>4, <2>5
    <3> QED
      BY <1>2, <1>3, <2>1, <2>2, <2>5, <3>1, StopReading
  <2> QED
    BY <1>1, <2>2, <2>3, <2>4, <2>5 DEF Final, Later
<1> QED
  BY <1>1, <1>5, <1>6, GetResponseOwn

LEMMA ServePrivate ==
  ASSUME TypeOK, PrivateInv, Serve
  PROVE  PrivateInv'
<1>1. /\ wire # <<>> /\ wire' = Tail(wire) /\ applied' = Append(applied, Head(wire))
      /\ UNCHANGED <<conn, buffer, pc, cur, outcome, answer, ticket, link>>
  BY DEF Serve, clientVars
<1>2. PICK r \in Answers(Head(wire), Len(applied) + 1) :
        inbox' = IF link = "up" THEN inbox \o r ELSE inbox
  BY DEF Serve
<1>3. /\ Len(wire) \in Nat \ {0} /\ Len(applied) \in Nat
      /\ Head(wire) \in Command /\ Head(wire) = wire[1]
      /\ Len(wire') = Len(wire) - 1 /\ \A i \in 1 .. Len(wire') : wire'[i] = wire[i + 1]
      /\ Len(applied') = Len(applied) + 1
  BY <1>1, HeadTailProperties, AppendProperties DEF TypeOK
<1>4. OwnReply' /\ BufferInv'
  BY <1>1 DEF PrivateInv, OwnReply, BufferInv
<1>5. CASE link # "up"
  <2>1. inbox' = inbox
    BY <1>2, <1>5
  <2> QED
    BY <1>1, <1>4, <1>5, <2>1 DEF PrivateInv, SilentInv, ReaderInv, AnswerOf
<1>6. CASE link = "up"
  <2>1. SilentInv'
    BY <1>1, <1>6 DEF PrivateInv, SilentInv
  <2>2. ASSUME NEW q \in Proc, pc[q] \in Reading
        PROVE  /\ WireOf(q)'
               /\ pc[q] \in {"sread", "swait"} \/ inbox' # <<>> => wire' = <<>>
               /\ AnswerOf(cur[q], ticket[q], pc[q] \in {"read", "wait"}, inbox')
    <3>1. WireOf(q) /\ inbox = <<>> /\ pc[q] \notin {"sread", "swait"}
      BY <1>1, <1>6, <2>2 DEF PrivateInv, ReaderInv
    <3>2. CASE Head(wire) \in Cached
      <4>1. r = <<>>
        BY <1>2, <3>2, CommandsAssumption DEF Answers
      <4>2. inbox' = <<>>
        BY <1>2, <1>6, <3>1, <4>1
      <4>3. ASSUME NEW i \in 1 .. Len(wire')
            PROVE  \/ wire'[i] \in Cached
                   \/ i = Len(wire') /\ wire'[i] = cur'[q] /\ Len(applied') + i = ticket'[q]
        <5>1. i + 1 \in 1 .. Len(wire)
          BY <1>3
        <5>2. \/ wire[i + 1] \in Cached
              \/ i + 1 = Len(wire) /\ wire[i + 1] = cur[q] /\ Len(applied) + (i + 1) = ticket[q]
          BY <3>1, <5>1 DEF WireOf
        <5>3. Len(applied) + (i + 1) = Len(applied') + i /\ (i + 1 = Len(wire) => i = Len(wire'))
          BY <1>3
        <5> QED
          BY <1>1, <1>3, <5>2, <5>3
      <4> QED
        BY <3>1, <4>2, <4>3 DEF WireOf, AnswerOf
    <3>3. CASE Head(wire) \notin Cached
      <4>1. 1 = Len(wire) /\ Head(wire) = cur[q] /\ Len(applied) + 1 = ticket[q]
        BY <1>3, <3>1, <3>3 DEF WireOf
      <4>2. wire' = <<>> /\ Len(wire') = 0
        <5>1. wire' \in Seq(Command)
          BY <1>1, HeadTailProperties DEF TypeOK
        <5>2. Len(wire') = Len(wire) - 1 /\ Len(wire) = 1
          BY <1>3, <4>1
        <5>3. Len(wire') = 0
          BY <5>2
        <5> QED
          BY <5>1, <5>3, EmptySeq
      <4>3. r \in Seq(Response)
        BY <1>2, <1>3, AnswersType
      <4>4. inbox' = r
        BY <1>2, <1>6, <3>1, <4>3, ConcatEmptySeq
      <4>5. cur[q] \in Call \cup Stream
        BY <1>3, <3>3, <4>1 DEF Command
      <4>6. r \in Answers(cur[q], ticket[q]) /\ ticket[q] \in Nat
        BY <1>2, <4>1 DEF TypeOK
      <4>7. AnswerOf(cur[q], ticket[q], TRUE, r)
        BY <4>5, <4>6, AnswersAnswer
      <4>8. (pc[q] \in {"read", "wait"}) = TRUE
        BY <2>2, <3>1 DEF Reading
      <4>9. AnswerOf(cur[q], ticket[q], pc[q] \in {"read", "wait"}, inbox')
        BY <4>4, <4>7, <4>8
      <4>10. WireOf(q)'
        BY <4>2 DEF WireOf
      <4> QED
        BY <4>2, <4>9, <4>10
    <3> QED
      BY <3>2, <3>3
  <2>3. ReaderInv'
    <3> SUFFICES ASSUME NEW q \in Proc, pc'[q] \in Reading
                 PROVE  /\ link' = "up" => WireOf(q)'
                        /\ link' = "up" /\ (pc'[q] \in {"sread", "swait"} \/ inbox' # <<>>)
                             => wire' = <<>>
                        /\ AnswerOf(cur[q], ticket[q], pc[q] \in {"read", "wait"}, inbox)'
      BY DEF ReaderInv
    <3>1. AnswerOf(cur[q], ticket[q], pc[q] \in {"read", "wait"}, inbox')
      BY <1>1, <2>2
    <3> QED
      BY <1>1, <2>2, <3>1 DEF AnswerOf, Expected
  <2> QED
    BY <1>4, <2>1, <2>3 DEF PrivateInv
<1> QED
  BY <1>5, <1>6

LEMMA FailPrivate ==
  ASSUME TypeOK, PrivateInv, LinkFail
  PROVE  PrivateInv'
<1>1. /\ link' = "down"
      /\ UNCHANGED <<conn, buffer, pc, cur, outcome, answer, ticket, applied>>
  BY DEF LinkFail, clientVars
<1>2. PICK n \in 0 .. Len(inbox) : inbox' = SubSeq(inbox, 1, n)
  BY DEF LinkFail
<1>3. Len(inbox') = n /\ \A i \in 1 .. n : inbox'[i] = inbox[i]
  BY <1>2, SubSeqProperties DEF TypeOK
<1>4. inbox' \in Seq(Response) /\ Len(inbox) \in Nat
  BY <1>2, SubSeqProperties DEF TypeOK
<1>5. OwnReply' /\ BufferInv'
  BY <1>1 DEF PrivateInv, OwnReply, BufferInv
<1>6. SilentInv'
  <2>1. inbox = <<>> => inbox' = <<>>
    <3> SUFFICES ASSUME inbox = <<>>
                 PROVE  inbox' = <<>>
      OBVIOUS
    <3>1. Len(inbox') = 0
      BY <1>3
    <3> QED
      BY <1>4, <3>1, EmptySeq
  <2> QED
    BY <1>1, <2>1 DEF PrivateInv, SilentInv
<1>7. ReaderInv'
  <2> SUFFICES ASSUME NEW q \in Proc, pc[q] \in Reading
               PROVE  AnswerOf(cur[q], ticket[q], pc[q] \in {"read", "wait"}, inbox)'
    BY <1>1 DEF ReaderInv
  <2>1. AnswerOf(cur[q], ticket[q], pc[q] \in {"read", "wait"}, inbox)
    BY DEF PrivateInv, ReaderInv
  <2>2. \A i \in 1 .. n : i \in 1 .. Len(inbox) /\ (i = Len(inbox) => i = n)
    BY <1>4
  <2> QED
    BY <1>1, <1>3, <2>1, <2>2 DEF AnswerOf, Expected
<1> QED
  BY <1>5, <1>6, <1>7 DEF PrivateInv

LEMMA NextReply ==
  ASSUME Raw = {}, Split = FALSE, TypeOK, MutexInv, CallInv, ReplyInv, [Next]_vars
  PROVE  ReplyInv'
<1>1. synced'
  <2>1. ASSUME NEW p \in Proc, ExecRead(p) \/ StreamRead(p)
        PROVE  synced'
    BY <2>1, GetResponseOwn DEF ExecRead, StreamRead, ReplyInv
  <2>2. ASSUME NEW p \in Proc,
               Enter(p) \/ ExecLock(p) \/ (Step(p) /\ ~ExecRead(p) /\ ~StreamRead(p))
        PROVE  UNCHANGED synced
    BY <2>2 DEF Enter, ExecCall, SetTimeout, Send, CloseCall, AsyncExec, ExecLock, Step, ExecCheck,
                ExecWrite, ExecWriteFail, ExecWriteNil, LoadReader, CloseSocket, CloseClear, Panic,
                serverVars
  <2>3. CASE Serve \/ LinkFail \/ Quiet \/ UNCHANGED vars
    BY <2>3 DEF Serve, LinkFail, Quiet, vars, serverVars, ReplyInv
  <2> QED
    BY <2>1, <2>2, <2>3 DEF Next, Step, ReplyInv
<1>2. SUFFICES ASSUME ListsArePrivate'
               PROVE  PrivateInv'
  BY <1>1 DEF ReplyInv
<1>3. ListsArePrivate /\ PrivateInv /\ synced
  BY <1>2, ListsArePrivateBefore DEF ReplyInv
<1>4. ASSUME NEW p \in Proc, Step(p)
      PROVE  PrivateInv'
  BY <1>3, <1>4, CheckPrivate, WritePrivate, WriteFailPrivate, ClosePrivate, LoadPrivate,
     ExecReadPrivate, StreamReadPrivate
  DEF Step
<1>5. CASE Quiet \/ UNCHANGED vars
  <2>1. UNCHANGED <<conn, buffer, pc, cur, outcome, answer, ticket, link, wire, applied, inbox>>
    BY <1>5 DEF Quiet, vars, clientVars, serverVars
  <2>2. OwnReply' /\ BufferInv' /\ SilentInv'
    BY <1>3, <2>1 DEF PrivateInv, OwnReply, BufferInv, SilentInv
  <2>3. ReaderInv'
    BY <1>3, <2>1 DEF PrivateInv, ReaderInv, WireOf, AnswerOf, Expected
  <2> QED
    BY <2>2, <2>3 DEF PrivateInv
<1> QED
  BY <1>3, <1>4, <1>5, EnterPrivate, LockPrivate, ServePrivate, FailPrivate DEF Next

LEMMA ReplyInvariant ==
  ASSUME Raw = {}, Split = FALSE
  PROVE  Spec => [](TypeOK /\ MutexInv /\ CallInv /\ ReplyInv)
<1>1. Init => MutexInv /\ CallInv
  BY NoneAssumption DEF Init, MutexInv, CallInv, Locked, Reading
<1>2. Init => ReplyInv
  BY DEF Init, ReplyInv, PrivateInv, OwnReply, BufferInv, SilentInv, ReaderInv, Reading
<1>3. TypeOK /\ MutexInv /\ [Next]_vars => MutexInv'
  BY NextMutex
<1>4. TypeOK /\ CallInv /\ [Next]_vars => CallInv'
  BY NextCall
<1>5. TypeOK /\ MutexInv /\ CallInv /\ ReplyInv /\ [Next]_vars => ReplyInv'
  BY NextReply
<1> QED
  BY <1>1, <1>2, <1>3, <1>4, <1>5, TypeCorrect, PTL DEF Spec

\* Without Send, and if every response reaches the reader in one piece, the
\* answer that Exec or a result loop acts on is the server's answer to the own
\* command, whatever Close and the link do, as long as result lists are asked
\* for on a connection that only one goroutine executes commands on: the loops
\* of Search and GetExpandedQuery read without the lock of Exec.
THEOREM AnswersAreOwn ==
  ASSUME Raw = {}, Split = FALSE
  PROVE  Spec => []OwnReplyIfPrivate
<1>1. ReplyInv => OwnReplyIfPrivate
  BY DEF ReplyInv, PrivateInv, OwnReplyIfPrivate
<1> QED
  BY <1>1, ReplyInvariant, PTL

\* Under the same conditions no call leaves a response behind on an open
\* connection for the next one to take for its own.
THEOREM NothingStale ==
  ASSUME Raw = {}, Split = FALSE
  PROVE  Spec => []NoStaleReply
<1>1. ReplyInv => NoStaleReply
  <2> SUFFICES ASSUME ReplyInv, conn = "open", ListsArePrivate, NEW i \in 1 .. Len(inbox)
               PROVE  \E p \in Proc : pc[p] \in Reading /\ inbox[i].to = ticket[p]
    BY DEF NoStaleReply, Reading
  <2>1. PICK p \in Proc : pc[p] \in Reading
    BY DEF ReplyInv, PrivateInv, SilentInv
  <2> QED
    BY <2>1 DEF ReplyInv, PrivateInv, ReaderInv, AnswerOf
<1> QED
  BY <1>1, ReplyInvariant, PTL
=============================================================================
