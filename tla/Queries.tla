------------------------------ MODULE Queries ------------------------------
(***************************************************************************)
(* Queries of several Searchers of one program (query.go).  Before every   *)
(* query the fields it names are announced to the server of the Searcher   *)
(* (regQueryPrefix), under the lock mux that all Searchers share; to       *)
(* announce one takes the lock of the Searcher's connection, which a       *)
(* goroutine that awaits an answer holds.  PREFIX commands are cached and  *)
(* go out with the next command that has an answer (module Connection).    *)
(*                                                                         *)
(* A query is the sequence of the fields it names that regQueryPrefix      *)
(* announces: those of the schema but the body.                            *)
(***************************************************************************)
EXTENDS Naturals, Sequences, SequencesExt

CONSTANTS
  Thread,    \* goroutines
  Searcher,  \* Searchers
  UsedBy,    \* the Searcher each goroutine uses
  Closer,    \* goroutines that may close it
  Asked,     \* queries
  Silent,    \* Searchers whose server may fail to answer
  MaxCalls,  \* bound: calls
  None       \* no goroutine

Field == UNION {ToSet(q) : q \in Asked}

ASSUME UseAssumption == UsedBy \in [Thread -> Searcher] /\ Closer \subseteq Thread
ASSUME QueryAssumption == Asked \subseteq Seq(Field)
ASSUME SilentAssumption == Silent \subseteq Searcher /\ None \notin Thread
ASSUME BoundAssumption == MaxCalls \in Nat

VARIABLES
  mux,      \* the lock of query.go: a goroutine, or None
  thread,   \* where each goroutine is, its query, the fields still to announce
  session,  \* of each Searcher: its connection and the lock of it, keys of
            \* queryPrefix, commands cached, and commands sent
  calls     \* number of calls made

vars == <<mux, thread, session, calls>>

Idle == [pc |-> "idle", kind |-> "ask", query |-> <<>>, todo |-> <<>>]
Prefix(f) == [cmd |-> "prefix", of |-> <<f>>]
Command(t) == [cmd |-> thread[t].kind, of |-> thread[t].query]

Init ==
  /\ mux = None
  /\ thread = [t \in Thread |-> Idle]
  /\ session = [s \in Searcher |->
                  [conn |-> "open", lock |-> None, keys |-> {}, buffer |-> <<>>, sent |-> <<>>]]
  /\ calls = 0

Session(t) == session[UsedBy[t]]
At(t, l) == thread[t].pc = l
Goto(t, l) == thread' = [thread EXCEPT ![t].pc = l]

\* Mutant: Unlock is not deferred.
PanicLocked(t) ==
  /\ Goto(t, "panic")
  /\ UNCHANGED <<mux, session>>

\* The deferred Unlock runs; the program recovers the panic.
Panic(t) ==
  /\ Goto(t, "panic")
  /\ mux' = IF mux = t THEN None ELSE mux
  /\ UNCHANGED session
-----------------------------------------------------------------------------
(* preQueryString                                                          *)

\* Count, Search, Terms or GetQuery with a query ("ask"), or SetQuery or
\* AddQueryString ("parse").
Call(t, q, kind) ==
  /\ At(t, "idle") /\ calls < MaxCalls
  /\ calls' = calls + 1
  /\ thread' = [thread EXCEPT ![t] = [pc |-> "enter", kind |-> kind, query |-> q, todo |-> q]]
  /\ UNCHANGED <<mux, session>>

Enter(t) ==
  /\ At(t, "enter") /\ mux = None
  /\ mux' = t
  /\ Goto(t, "scan")
  /\ UNCHANGED session

\* The next field is in queryPrefix, or it is not: then searcher.conn is used.
Scan(t) ==
  LET f == Head(thread[t].todo)
  IN /\ At(t, "scan") /\ thread[t].todo # <<>>
     /\ \/ /\ f \in Session(t).keys
           /\ thread' = [thread EXCEPT ![t].todo = Tail(@)]
           /\ UNCHANGED <<mux, session>>
        \/ /\ f \notin Session(t).keys /\ Session(t).conn # "nil"
           /\ Goto(t, "announce")
           /\ UNCHANGED <<mux, session>>
        \/ /\ f \notin Session(t).keys /\ Session(t).conn = "nil"
           /\ Panic(t)

\* Mutant: a field is announced once for all Searchers.
AnnounceForAll(t) ==
  /\ At(t, "announce") /\ Session(t).lock = None
  /\ session' = [s \in Searcher |->
       [session[s] EXCEPT !.keys = @ \cup {Head(thread[t].todo)},
                          !.buffer = IF s = UsedBy[t] /\ session[s].conn = "open"
                                     THEN Append(@, Prefix(Head(thread[t].todo))) ELSE @]]
  /\ thread' = [thread EXCEPT ![t].pc = "scan", ![t].todo = Tail(@)]
  /\ UNCHANGED mux

\* Exec caches the command or, if the connection has been closed, fails; the field
\* gets its key in either case.
Announce(t) ==
  /\ At(t, "announce") /\ Session(t).lock = None
  /\ session' = [session EXCEPT
       ![UsedBy[t]].keys = @ \cup {Head(thread[t].todo)},
       ![UsedBy[t]].buffer = IF Session(t).conn = "open"
                             THEN Append(@, Prefix(Head(thread[t].todo))) ELSE @]
  /\ thread' = [thread EXCEPT ![t].pc = "scan", ![t].todo = Tail(@)]
  /\ UNCHANGED mux

\* Mutant: mux is kept until the query is answered.
LeaveLate(t) ==
  /\ At(t, "scan") /\ thread[t].todo = <<>>
  /\ Goto(t, "ask")
  /\ UNCHANGED <<mux, session>>

Leave(t) ==
  /\ At(t, "scan") /\ thread[t].todo = <<>>
  /\ mux' = None
  /\ Goto(t, "ask")
  /\ UNCHANGED session
-----------------------------------------------------------------------------
(* The query itself (Connection.Exec), and Close                           *)

\* Exec locks the connection.  A command with an answer goes out after those that
\* are cached; a PARSE command is cached too.
Ask(t) ==
  /\ At(t, "ask") /\ Session(t).lock = None /\ Session(t).conn = "open"
  /\ \/ /\ thread[t].kind = "ask"
        /\ session' = [session EXCEPT
             ![UsedBy[t]].lock = t,
             ![UsedBy[t]].sent = @ \o Session(t).buffer \o <<Command(t)>>,
             ![UsedBy[t]].buffer = <<>>]
        /\ Goto(t, "answer")
     \/ /\ thread[t].kind = "parse"
        /\ session' = [session EXCEPT ![UsedBy[t]].buffer = Append(@, Command(t))]
        /\ Goto(t, "idle")
  /\ UNCHANGED mux

\* Exec fails on a connection that has been closed; a Searcher that has been closed
\* has none, which the goroutine may or may not have read before.
AskClosed(t) ==
  /\ At(t, "ask")
  /\ \/ /\ Session(t).conn # "open" /\ Session(t).lock = None
        /\ Goto(t, "idle")
        /\ UNCHANGED <<mux, session>>
     \/ /\ Session(t).conn = "nil"
        /\ Panic(t)

\* The answer arrives, or the link has been closed.
Return(t) ==
  /\ At(t, "answer")
  /\ UsedBy[t] \notin Silent \/ Session(t).conn # "open"
  /\ session' = [session EXCEPT ![UsedBy[t]].lock = None]
  /\ Goto(t, "idle")
  /\ UNCHANGED mux

\* Searcher.Close closes the connection, and then forgets it.
Close(t) ==
  /\ t \in Closer /\ At(t, "idle")
  /\ \/ Session(t).conn = "open" /\ session' = [session EXCEPT ![UsedBy[t]].conn = "shut"]
     \/ Session(t).conn = "shut" /\ session' = [session EXCEPT ![UsedBy[t]].conn = "nil"]
  /\ UNCHANGED <<mux, thread>>

Step(t) == Scan(t) \/ Leave(t) \/ AskClosed(t) \/ Return(t)
Acquire(t) == Enter(t) \/ Announce(t) \/ Ask(t)

Next ==
  \/ \E t \in Thread : (Step(t) \/ Acquire(t) \/ Close(t)) /\ UNCHANGED calls
  \/ \E t \in Thread, q \in Asked, kind \in {"ask", "parse"} : Call(t, q, kind)

\* A goroutine that can run runs, servers that are not silent answer, and a
\* sync.Mutex starves nobody.
Fairness ==
  \A t \in Thread : /\ WF_vars(Step(t) /\ UNCHANGED calls)
                    /\ SF_vars(Acquire(t) /\ UNCHANGED calls)

Spec == Init /\ [][Next]_vars /\ Fairness
-----------------------------------------------------------------------------
(* Properties                                                              *)

\* Every variable has its type, and a lock is held by a goroutine that will
\* release it: one that is in preQueryString, or in Exec.
TypeOK ==
  /\ mux \in Thread \cup {None}
  /\ \A t \in Thread :
       /\ thread[t].pc \in {"idle", "enter", "scan", "announce", "ask", "answer", "panic"}
       /\ (mux = t) = (thread[t].pc \in {"scan", "announce"})
       /\ (Session(t).lock = t) = (thread[t].pc = "answer")
  /\ \A s \in Searcher :
       /\ session[s].conn \in {"open", "shut", "nil"}
       /\ session[s].lock \in Thread \cup {None}

\* A server gets the prefix of a field once, and before the first query that names
\* the field: whoever shares the Searcher, and whatever the other ones announce.
Cmds(s) == session[s].sent \o session[s].buffer
PrefixedOnce ==
  \A s \in Searcher : \A i \in DOMAIN Cmds(s) :
    LET c == Cmds(s)[i]
        before == {Cmds(s)[j] : j \in 1 .. i - 1}
    IN IF c.cmd = "prefix" THEN c \notin before
       ELSE \A f \in ToSet(c.of) : Prefix(f) \in before

\* A call on a Searcher whose server answers returns, although the lock of all
\* Searchers is held by calls on servers that do not: if no two goroutines share a
\* Searcher with such a server.
HealthyReturns ==
  \A t \in Thread : UsedBy[t] \notin Silent =>
    (At(t, "enter") ~> (At(t, "idle") \/ At(t, "panic")))
=============================================================================
