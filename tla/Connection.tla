----------------------------- MODULE Connection -----------------------------
(***************************************************************************)
(* One server.Connection shared by the goroutines of a program             *)
(* (server/connection.go), with the TCP link and the xunsearch server it   *)
(* talks to.  A step is what a goroutine does between two points at which  *)
(* another one can interfere: Exec holds connection.mux throughout, but    *)
(* Close, Send and GetSearchResponse take no lock.                         *)
(*                                                                         *)
(* Commands are opaque; what matters is whether a command's code has bit   *)
(* 0x80 (then it is only cached), and how the server answers it.  Whole    *)
(* responses are the units of the reply stream: module Frames shows how    *)
(* getResponse assembles one from bytes, and why a response that arrives   *)
(* in pieces leaves the stream out of step.                                *)
(***************************************************************************)
EXTENDS Naturals, Sequences, FiniteSets

CONSTANTS
  Proc,        \* goroutines that share the connection
  Closer,      \* those of them that call Close
  AsyncUser,   \* those of them that call AsyncExec
  Cached,      \* commands with bit 0x80: cached and never answered
  Call,        \* commands answered by one response
  Stream,      \* commands answered by RESULT_BEGIN, items and RESULT_END
  Raw,         \* commands the program passes to Send
  TimeoutCmd,  \* the XS_CMD_TIMEOUT command of SetTimeout
  Split,       \* TRUE if a response may reach the reader in pieces
  Faulty,      \* TRUE if the link may fail
  MaxCmds,     \* bound: no call starts once this many commands were accepted
  MaxItems,    \* bound: items between RESULT_BEGIN and RESULT_END
  None         \* no goroutine, no command

Command == Cached \cup Call \cup Stream

ASSUME CommandsAssumption ==
  /\ Cached \cap (Call \cup Stream) = {}
  /\ Call \cap Stream = {}
  /\ TimeoutCmd \in Call
  /\ Raw \subseteq Command
ASSUME ProcAssumption == Closer \subseteq Proc /\ AsyncUser \subseteq Proc
ASSUME NoneAssumption == None \notin Proc /\ None \notin Command
ASSUME SwitchAssumption == Split \in BOOLEAN /\ Faulty \in BOOLEAN
ASSUME BoundAssumption == MaxCmds \in Nat /\ MaxItems \in Nat

VARIABLES
  conn,      \* connection.conn: "open", "shut" (socket closed), "nil"
  buffer,    \* connection.buffer: encoded commands not written yet
  mux,       \* holder of connection.mux, or None
  pc,        \* where each goroutine is
  cur,       \* the command each goroutine is executing
  outcome,   \* what its last Exec or GetSearchResponse returned
  answer,    \* number of the command that the response it took answers, or 0
  ticket,    \* number of its own command in the server's order, or 0
  issued,    \* history: the commands Exec and Send accepted, in order
  link,      \* the TCP link: "up" or "down"
  wire,      \* commands written to the link, not yet read by the server
  applied,   \* commands the server has executed, in order
  inbox,     \* responses written by the server, not yet read
  synced     \* the reader stands at the beginning of a response

clientVars == <<conn, buffer, mux, pc, cur, outcome, answer, ticket, issued>>
serverVars == <<link, wire, applied, inbox, synced>>
vars == <<clientVars, serverVars>>

ReplyKind == {"ok", "err", "begin", "item", "end"}
Reply(n, k) == [to |-> n, kind |-> k]
Response == [to : Nat, kind : ReplyKind]
ReadError == [to |-> 0, kind |-> "error"]

\* The points of a goroutine at which it holds connection.mux.
Locked == {"check", "write", "read", "wait"}

\* NewConnection has dialled the server.
Init ==
  /\ conn = "open"
  /\ buffer = <<>>
  /\ mux = None
  /\ pc = [p \in Proc |-> "idle"]
  /\ cur = [p \in Proc |-> None]
  /\ outcome = [p \in Proc |-> "none"]
  /\ answer = [p \in Proc |-> 0]
  /\ ticket = [p \in Proc |-> 0]
  /\ issued = <<>>
  /\ link = "up"
  /\ wire = <<>>
  /\ applied = <<>>
  /\ inbox = <<>>
  /\ synced = TRUE

Goto(p, l) == pc' = [pc EXCEPT ![p] = l]

\* Goroutine p gets result o from the call it made.
Report(p, o) == outcome' = [outcome EXCEPT ![p] = o]

\* Goroutine p panics.  The deferred Unlock runs; the others go on if somebody
\* recovers the panic, as net/http does, and else the program stops here.
Panic(p) ==
  /\ Goto(p, "panic")
  /\ mux' = IF mux = p THEN None ELSE mux
  /\ UNCHANGED <<conn, buffer, cur, outcome, answer, ticket, issued>>
  /\ UNCHANGED serverVars
-----------------------------------------------------------------------------
(* Exec, and SetTimeout that calls it                                      *)

\* A goroutine calls Exec and queues for the lock.
ExecCall(p, c) ==
  /\ pc[p] = "idle"
  /\ Len(issued) < MaxCmds
  /\ Goto(p, "lock")
  /\ cur' = [cur EXCEPT ![p] = c]
  /\ Report(p, "none")
  /\ answer' = [answer EXCEPT ![p] = 0]
  /\ ticket' = [ticket EXCEPT ![p] = 0]
  /\ UNCHANGED <<conn, buffer, mux, issued>>
  /\ UNCHANGED serverVars

\* SetTimeout looks at connection.conn before it calls Exec.
SetTimeout(p) ==
  \/ conn # "nil" /\ ExecCall(p, TimeoutCmd)
  \/ /\ conn = "nil"
     /\ pc[p] = "idle"
     /\ Report(p, "unconnected")
     /\ UNCHANGED <<conn, buffer, mux, pc, cur, answer, ticket, issued>>
     /\ UNCHANGED serverVars

ExecLock(p) ==
  /\ pc[p] = "lock"
  /\ mux = None
  /\ mux' = p
  /\ Goto(p, "check")
  /\ UNCHANGED <<conn, buffer, cur, outcome, answer, ticket, issued>>
  /\ UNCHANGED serverVars

\* Mutant: the deferred Unlock is missing.
ExecReturnLocked(p, o) ==
  /\ UNCHANGED mux
  /\ Goto(p, "idle")
  /\ Report(p, o)

\* Exec returns: the deferred Unlock runs.
ExecReturn(p, o) ==
  /\ mux' = None
  /\ Goto(p, "idle")
  /\ Report(p, o)

\* Mutant: connection.conn is not tested.
ExecCheckBlindly(p) ==
  /\ pc[p] = "check"
  /\ buffer' = Append(buffer, cur[p])
  /\ issued' = Append(issued, cur[p])
  /\ IF cur[p] \in Cached
       THEN ExecReturn(p, "ok")
       ELSE Goto(p, "write") /\ UNCHANGED <<mux, outcome>>
  /\ UNCHANGED <<conn, cur, answer, ticket>>
  /\ UNCHANGED serverVars

\* Mutant: the command is put ahead of the cached ones.
ExecCheckAhead(p) ==
  /\ pc[p] = "check"
  /\ conn # "nil"
  /\ buffer' = <<cur[p]>> \o buffer
  /\ issued' = Append(issued, cur[p])
  /\ IF cur[p] \in Cached
       THEN ExecReturn(p, "ok")
       ELSE Goto(p, "write") /\ UNCHANGED <<mux, outcome>>
  /\ UNCHANGED <<conn, cur, answer, ticket>>
  /\ UNCHANGED serverVars

\* Exec tests connection.conn and encodes the command into the buffer; a
\* command without an answer is done.
ExecCheck(p) ==
  /\ pc[p] = "check"
  /\ \/ /\ conn = "nil"
        /\ ExecReturn(p, "unconnected")
        /\ UNCHANGED <<buffer, issued>>
     \/ /\ conn # "nil"
        /\ buffer' = Append(buffer, cur[p])
        /\ issued' = Append(issued, cur[p])
        /\ IF cur[p] \in Cached
             THEN ExecReturn(p, "ok")
             ELSE Goto(p, "write") /\ UNCHANGED <<mux, outcome>>
  /\ UNCHANGED <<conn, cur, answer, ticket>>
  /\ UNCHANGED serverVars

\* Mutant: the lock is given up before the answer is read.
ExecWriteUnlock(p) ==
  /\ pc[p] = "write"
  /\ conn = "open"
  /\ wire' = IF link = "up" THEN wire \o buffer ELSE wire
  /\ ticket' = [ticket EXCEPT ![p] = Len(applied) + Len(wire) + Len(buffer)]
  /\ buffer' = <<>>
  /\ mux' = None
  /\ Goto(p, "read")
  /\ UNCHANGED <<conn, cur, outcome, answer, issued>>
  /\ UNCHANGED <<link, applied, inbox, synced>>

\* Mutant: the buffer is not reset.
ExecWriteKeep(p) ==
  /\ pc[p] = "write"
  /\ conn = "open"
  /\ wire' = IF link = "up" THEN wire \o buffer ELSE wire
  /\ ticket' = [ticket EXCEPT ![p] = Len(applied) + Len(wire) + Len(buffer)]
  /\ Goto(p, "read")
  /\ UNCHANGED <<conn, buffer, mux, cur, outcome, answer, issued>>
  /\ UNCHANGED <<link, applied, inbox, synced>>

\* Mutant: the cached commands go out as one.
ExecWriteNested(p) ==
  /\ pc[p] = "write"
  /\ conn = "open"
  /\ wire' = IF link = "up" THEN Append(wire, buffer) ELSE wire
  /\ ticket' = [ticket EXCEPT ![p] = Len(applied) + Len(wire) + Len(buffer)]
  /\ buffer' = <<>>
  /\ Goto(p, "read")
  /\ UNCHANGED <<conn, mux, cur, outcome, answer, issued>>
  /\ UNCHANGED <<link, applied, inbox, synced>>

\* The write of everything cached succeeds, if only into the socket buffer of
\* a link that is down already.
ExecWrite(p) ==
  /\ pc[p] = "write"
  /\ conn = "open"
  /\ wire' = IF link = "up" THEN wire \o buffer ELSE wire
  /\ ticket' = [ticket EXCEPT ![p] = Len(applied) + Len(wire) + Len(buffer)]
  /\ buffer' = <<>>
  /\ Goto(p, "read")
  /\ UNCHANGED <<conn, mux, cur, outcome, answer, issued>>
  /\ UNCHANGED <<link, applied, inbox, synced>>

\* The write fails: the cached commands are dropped with it.
ExecWriteFail(p) ==
  /\ pc[p] = "write"
  /\ conn = "shut" \/ (conn = "open" /\ link = "down")
  /\ buffer' = <<>>
  /\ ExecReturn(p, "ioerror")
  /\ UNCHANGED <<conn, cur, answer, ticket, issued>>
  /\ UNCHANGED serverVars

\* Close has reset connection.conn since it was tested.
ExecWriteNil(p) ==
  /\ pc[p] = "write"
  /\ conn = "nil"
  /\ Panic(p)
-----------------------------------------------------------------------------
(* getResponse                                                             *)

\* getResponse loads connection.reader, which Close resets.
LoadReader(p, from, to) ==
  /\ pc[p] = from
  /\ IF conn = "nil"
       THEN Panic(p)
       ELSE /\ Goto(p, to)
            /\ UNCHANGED <<conn, buffer, mux, cur, outcome, answer, ticket, issued>>
            /\ UNCHANGED serverVars

\* getResponse returns m: the next response, an error, or, once a read has
\* stopped inside a response, whatever the bytes that follow look like.
GetResponse(m) ==
  \/ /\ synced /\ inbox # <<>>
     /\ m = Head(inbox)
     /\ inbox' = Tail(inbox)
     /\ UNCHANGED synced
  \/ /\ synced /\ inbox # <<>> /\ Split
     /\ m = ReadError
     /\ synced' = FALSE
     /\ UNCHANGED inbox
  \/ /\ ~synced /\ inbox # <<>>
     /\ m.to = 0
     /\ \E i \in 1 .. Len(inbox) + 1 : inbox' = SubSeq(inbox, i, Len(inbox))
     /\ synced' \in BOOLEAN
  \/ /\ conn # "open" \/ (link = "down" /\ inbox = <<>>)
     /\ m = ReadError
     /\ UNCHANGED <<inbox, synced>>

\* What a read can yield: the next response, an error, or bytes that merely
\* look like a response.
Readable ==
  {inbox[i] : i \in {1} \cap DOMAIN inbox} \cup {ReadError}
    \cup {Reply(0, k) : k \in ReplyKind}

\* The response that Exec accepts for a command.
Expected(c) == IF c \in Stream THEN "begin" ELSE "ok"

\* Exec takes the next response of the connection as the answer to its command.
ExecRead(p) ==
  /\ pc[p] = "wait"
  /\ \E m \in Readable :
       /\ GetResponse(m)
       /\ answer' = [answer EXCEPT ![p] = m.to]
       /\ \/ m = ReadError /\ ExecReturn(p, "ioerror")
          \/ m.kind = "err" /\ ExecReturn(p, "refused")
          \/ /\ m.kind \in ReplyKind \ {"err", Expected(cur[p])}
             /\ ExecReturn(p, "unexpected")
          \/ /\ m.kind = Expected(cur[p])
             /\ mux' = None
             /\ Goto(p, IF cur[p] \in Stream THEN "sread" ELSE "idle")
             /\ Report(p, "ok")
  /\ UNCHANGED <<conn, buffer, cur, ticket, issued>>
  /\ UNCHANGED <<link, wire, applied>>

\* Mutant: the loop ends with the first item.
StreamReadOne(p) ==
  /\ pc[p] = "swait"
  /\ \E m \in Readable :
       /\ GetResponse(m)
       /\ answer' = [answer EXCEPT ![p] = m.to]
       /\ Goto(p, "idle")
       /\ IF m = ReadError THEN Report(p, "ioerror") ELSE UNCHANGED outcome
  /\ UNCHANGED <<conn, buffer, mux, cur, ticket, issued>>
  /\ UNCHANGED <<link, wire, applied>>

\* The loops of Search and GetExpandedQuery: GetSearchResponse until the
\* RESULT_END, an error, or a response that is not an item; no lock is held.
StreamRead(p) ==
  /\ pc[p] = "swait"
  /\ \E m \in Readable :
       /\ GetResponse(m)
       /\ answer' = [answer EXCEPT ![p] = m.to]
       /\ \/ m.kind = "item" /\ Goto(p, "sread") /\ UNCHANGED outcome
          \/ m.kind = "end" /\ Goto(p, "idle") /\ UNCHANGED outcome
          \/ m = ReadError /\ Goto(p, "idle") /\ Report(p, "ioerror")
          \/ m.kind \in {"ok", "begin", "err"} /\ Goto(p, "idle") /\ Report(p, "unexpected")
  /\ UNCHANGED <<conn, buffer, mux, cur, ticket, issued>>
  /\ UNCHANGED <<link, wire, applied>>
-----------------------------------------------------------------------------
(* Close, Send and AsyncExec: none of them takes the lock                  *)

CloseCall(p) ==
  /\ pc[p] = "idle"
  /\ conn # "nil"
  /\ Goto(p, "close")
  /\ UNCHANGED <<conn, buffer, mux, cur, outcome, answer, ticket, issued>>
  /\ UNCHANGED serverVars

CloseSocket(p) ==
  /\ pc[p] = "close"
  /\ IF conn = "nil"
       THEN Panic(p)
       ELSE /\ conn' = "shut"
            /\ Goto(p, "clear")
            /\ UNCHANGED <<buffer, mux, cur, outcome, answer, ticket, issued>>
            /\ UNCHANGED serverVars

CloseClear(p) ==
  /\ pc[p] = "clear"
  /\ conn' = "nil"
  /\ Goto(p, "idle")
  /\ UNCHANGED <<buffer, mux, cur, outcome, answer, ticket, issued>>
  /\ UNCHANGED serverVars

\* Send writes at once, ahead of the cached commands, and reads no answer.
Send(p, c) ==
  /\ pc[p] = "idle"
  /\ Len(issued) < MaxCmds
  /\ answer' = [answer EXCEPT ![p] = 0]
  /\ ticket' = [ticket EXCEPT ![p] = 0]
  /\ \/ /\ conn = "nil"
        /\ Report(p, "unconnected")
        /\ UNCHANGED <<wire, issued>>
     \/ /\ conn = "shut" \/ (conn = "open" /\ link = "down")
        /\ Report(p, "ioerror")
        /\ UNCHANGED <<wire, issued>>
     \/ /\ conn = "open"
        /\ wire' = IF link = "up" THEN Append(wire, c) ELSE wire
        /\ issued' = Append(issued, c)
        /\ Report(p, "ok")
  /\ UNCHANGED <<conn, buffer, mux, pc, cur>>
  /\ UNCHANGED <<link, applied, inbox, synced>>

\* AsyncExec sends on connection.cmds, a channel that NewConnection leaves nil
\* and that no goroutine receives from: the caller blocks for ever.
AsyncExec(p, c) ==
  /\ pc[p] = "idle"
  /\ Goto(p, "async")
  /\ cur' = [cur EXCEPT ![p] = c]
  /\ UNCHANGED <<conn, buffer, mux, outcome, answer, ticket, issued>>
  /\ UNCHANGED serverVars
-----------------------------------------------------------------------------
(* The server and the link                                                 *)

\* A result list: RESULT_BEGIN, some items, and a last response of kind k.
Items(n) == {[i \in 1 .. m |-> Reply(n, "item")] : m \in 0 .. MaxItems}
Results(n, k) == {<<Reply(n, "begin")>> \o s \o <<Reply(n, k)>> : s \in Items(n)}

\* The answers the server may give to command c, the n-th it executes.
Answers(c, n) ==
  CASE c \in Cached -> {<<>>}
    [] c \in Call   -> {<<Reply(n, "ok")>>, <<Reply(n, "err")>>}
    [] OTHER        -> {<<Reply(n, "err")>>} \cup Results(n, "end") \cup Results(n, "err")

\* The server executes the next command and answers it.
Serve ==
  /\ wire # <<>>
  /\ wire' = Tail(wire)
  /\ applied' = Append(applied, Head(wire))
  /\ \E r \in Answers(Head(wire), Len(applied) + 1) :
       inbox' = IF link = "up" THEN inbox \o r ELSE inbox
  /\ UNCHANGED <<link, synced>>
  /\ UNCHANGED clientVars

\* The link fails; what was under way in either direction may be cut short.
LinkFail ==
  /\ Faulty
  /\ link = "up"
  /\ link' = "down"
  /\ \E i \in 0 .. Len(wire) : wire' = SubSeq(wire, 1, i)
  /\ \E i \in 0 .. Len(inbox) : inbox' = SubSeq(inbox, 1, i)
  /\ UNCHANGED <<applied, synced>>
  /\ UNCHANGED clientVars

\* No goroutine is in a call; the program may leave it at that.
Quiet ==
  /\ \A p \in Proc : pc[p] \in {"idle", "panic"}
  /\ UNCHANGED vars
-----------------------------------------------------------------------------
\* What a goroutine does without a choice of its own once it is in a call.
Step(p) ==
  \/ ExecCheck(p) \/ ExecWrite(p) \/ ExecWriteFail(p) \/ ExecWriteNil(p)
  \/ LoadReader(p, "read", "wait") \/ ExecRead(p)
  \/ LoadReader(p, "sread", "swait") \/ StreamRead(p)
  \/ CloseSocket(p) \/ CloseClear(p)

Enter(p) ==
  \/ \E c \in Command : ExecCall(p, c)
  \/ SetTimeout(p)
  \/ \E c \in Raw : Send(p, c)
  \/ p \in Closer /\ CloseCall(p)
  \/ p \in AsyncUser /\ \E c \in Command : AsyncExec(p, c)

Next ==
  \/ \E p \in Proc : Enter(p) \/ ExecLock(p) \/ Step(p)
  \/ Serve
  \/ LinkFail
  \/ Quiet

Spec == Init /\ [][Next]_vars

\* The server answers, goroutines run, and sync.Mutex starves nobody.
Fairness ==
  /\ WF_vars(Serve)
  /\ \A p \in Proc : WF_vars(Step(p)) /\ SF_vars(ExecLock(p))

FairSpec == Spec /\ Fairness
-----------------------------------------------------------------------------
(* Properties                                                              *)

Outcome == {"none", "ok", "refused", "unexpected", "ioerror", "unconnected"}
Pc == {"idle", "lock", "check", "write", "read", "wait", "sread", "swait",
       "close", "clear", "async", "panic"}

\* Every variable has its type, and a goroutine inside Exec or a result loop
\* has a command.
TypeOK ==
  /\ conn \in {"open", "shut", "nil"}
  /\ buffer \in Seq(Command)
  /\ mux \in Proc \cup {None}
  /\ pc \in [Proc -> Pc]
  /\ cur \in [Proc -> Command \cup {None}]
  /\ \A p \in Proc : pc[p] \in Locked \cup {"lock", "sread", "swait"} => cur[p] # None
  /\ outcome \in [Proc -> Outcome]
  /\ answer \in [Proc -> Nat]
  /\ ticket \in [Proc -> Nat]
  /\ issued \in Seq(Command)
  /\ link \in {"up", "down"}
  /\ wire \in Seq(Command)
  /\ applied \in Seq(Command)
  /\ inbox \in Seq(Response)
  /\ synced \in BOOLEAN

\* The answer a goroutine acts on, good or bad, is the server's answer to the
\* command that goroutine sent ("Exec XsCommand on server and get then
\* response").
OwnReply ==
  \A p \in Proc :
    outcome[p] \in {"ok", "refused", "unexpected"} => answer[p] = ticket[p]

\* As long as result lists are asked for on a connection that only one goroutine
\* executes commands on, everybody gets the own answer, whatever Close and the
\* link do meanwhile.
ListsArePrivate ==
  \/ \A i \in 1 .. Len(issued) : issued[i] \notin Stream
  \/ \A p, q \in Proc : cur[p] # None /\ cur[q] # None => p = q
OwnReplyIfPrivate == ListsArePrivate => OwnReply

\* However calls interleave and whatever fails, the server never executes a
\* command more often than the program issued it: nothing is sent twice.
Occurrences(s, c) == Cardinality({i \in 1 .. Len(s) : s[i] = c})
AtMostOnce ==
  \A c \in Command : Occurrences(applied \o wire, c) <= Occurrences(issued, c)

\* The only goroutine that calls Close never uses a connection or a reader that
\* Close has reset, whatever the others do; they may.
NoPanicForCloser ==
  \A p \in Proc : pc[p] = "panic" => \E q \in Closer \ {p} : TRUE

\* On an open connection the responses waiting to be read all answer one and the
\* same command, the one whose goroutine is still reading: no call leaves any
\* behind for the next one.
NoStaleReply ==
  conn = "open" /\ ListsArePrivate => \A i \in 1 .. Len(inbox) :
    \E p \in Proc : /\ pc[p] \in {"read", "wait", "sread", "swait"}
                    /\ inbox[i].to = ticket[p]

\* Commands are executed, travel and wait in the order in which they were
\* accepted, and while the connection is up none of them is lost: what waits in
\* the buffer is exactly the end of the log (if nobody uses Send).
Follows(s, n) == \A i \in 1 .. Len(s) : s[i] = issued[n + i]
InOrder ==
  /\ Len(applied) + Len(wire) <= Len(issued)
  /\ Follows(applied, 0)
  /\ Follows(wire, Len(applied))
  /\ conn = "open" /\ link = "up" =>
       /\ Len(applied) + Len(wire) + Len(buffer) = Len(issued)
       /\ Follows(buffer, Len(applied) + Len(wire))

\* The connection implements the command log: Exec accepts, the server
\* executes in the order of acceptance, caching and sharing notwithstanding.
Log == INSTANCE CommandLog WITH log <- issued, executed <- applied
ImplementsCommandLog == Log!Spec

\* A goroutine that enters Exec, a result loop or Close comes back, be it with a
\* panic: neither an error nor a panic of another one leaves it waiting.
CallsReturn ==
  \A p \in Proc : pc[p] \in Pc \ {"idle", "panic", "async"} ~> pc[p] \in {"idle", "panic"}

\* A command handed to AsyncExec is executed ("AsyncExec execute a command in
\* async mode").
AsyncIsExecuted ==
  \A p \in Proc, c \in Command :
    (pc[p] = "async" /\ cur[p] = c) ~> (\E i \in 1 .. Len(applied) : applied[i] = c)
=============================================================================
