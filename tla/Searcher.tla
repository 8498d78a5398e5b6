------------------------------ MODULE Searcher ------------------------------
(***************************************************************************)
(* A Searcher (searcher.go) and the session its server keeps: which        *)
(* databases are searched, with which operator and page, what the default  *)
(* query consists of, and what the Searcher caches of it.                  *)
(*                                                                         *)
(* GetHotQuery and GetRelatedQuery search the log database on the same     *)
(* connection: they switch the server over, move page and operator,        *)
(* search, and have restoreDb switch back.  SetQuery and AddQueryString    *)
(* extend the query the server holds; Count, Search and Terms without an   *)
(* argument are about that query and keep what the server said; Search     *)
(* also has it logged.  Answers are what they were computed from, queries  *)
(* and databases, and a number of matches.                                 *)
(*                                                                         *)
(* One goroutine uses the Searcher.  The server may refuse a command; a    *)
(* broken connection, after which every call fails, is module              *)
(* Connection's.  Arguments are as preQueryString leaves them.             *)
(***************************************************************************)
EXTENDS Naturals, Sequences

CONSTANTS
  Query,          \* queries other than the empty one
  Plain,          \* those without an OR, NOT or XOR in them
  Spaced,         \* those with a space in them
  Short,          \* those with a term of less than three bytes that logQuery cuts
  Db,             \* databases the program selects
  Default,        \* the database of the project, which SetDB("") selects
  LogDb,          \* logDB
  LogCall,        \* calls the program makes: a subset of {"hot", "related"}
  Limits,         \* limits it gives
  DefaultLimit,   \* documents of a page if Limit says nothing (10)
  MaxMatches,     \* bound: documents that match a query
  Refusals,       \* TRUE if the server may refuse a command
  MaxCalls        \* bound: calls

ASSUME QueryAssumption == Plain \cup Spaced \cup Short \subseteq Query
ASSUME DbAssumption == Default # LogDb
ASSUME CallAssumption == LogCall \subseteq {"hot", "related"} /\ Limits \subseteq Nat
ASSUME SwitchAssumption == Refusals \in BOOLEAN
ASSUME BoundAssumption ==
  DefaultLimit \in Nat \ {0} /\ MaxMatches \in Nat /\ MaxCalls \in Nat

VARIABLES
  server,    \* its databases, the parts of the default query, the searches logged
  searcher,  \* fields of Searcher
  call,      \* what the call under way does next, with its locals
  program,   \* history: what the program has asked for and done
  calls      \* number of calls made

vars == <<server, searcher, call, program, calls>>

Nil == [of |-> <<>>, at |-> {}]
Idle == [step |-> "idle", kind |-> "own", lim |-> 0, op |-> "and", todo |-> {}, thin |-> FALSE]

\* What the server computes an answer from: its argument, or the default query
\* (q = <<>>), and its databases.
Basis(q) == [of |-> IF q = <<>> THEN server.parts ELSE q, at |-> server.dbs]
Arguments == {<<>>} \cup {<<q>> : q \in Query}

\* searcher.count is MaxUint32 (Nil), query, terms and the names "" or nil.
Init ==
  /\ server = [dbs |-> {Default}, parts |-> <<>>, log |-> <<>>]
  /\ searcher = [curDB |-> Default, lastDB |-> Default, curDBs |-> {},
                 defaultOp |-> "and", limit |-> 0, lastCount |-> 0,
                 query |-> <<>>, count |-> Nil, terms |-> Nil]
  /\ call = Idle
  /\ program = [dbs |-> {Default}, op |-> "and", lost |-> FALSE,
                current |-> FALSE, habit |-> {}]
  /\ calls = 0

Lesser(a, b) == IF a <= b THEN a ELSE b

\* Limit and Search replace a limit of 0 by the default.
Page(n) == IF n = 0 THEN DefaultLimit ELSE n

\* The program makes a call.
Begin == call = Idle /\ calls < MaxCalls /\ calls' = calls + 1
Goto(l) == call' = [call EXCEPT !.step = l]

\* The history after the program has changed the query or the databases, which
\* makes stale what it has cached.
Changed ==
  [program EXCEPT !.current = FALSE,
                  !.habit = @ \cup IF searcher.count = Nil /\ searcher.terms = Nil
                                   THEN {} ELSE {"change"}]

\* Mutant: the error of SetDB is noticed too late.
SwitchUnchecked(d) ==
  /\ server' \in {server, [server EXCEPT !.dbs = {d}]}
  /\ searcher' = [searcher EXCEPT !.lastDB = searcher.curDB, !.curDB = d]

\* Mutant: lastDB is set after curDB.
SwitchSwapped(d) ==
  /\ server' = [server EXCEPT !.dbs = {d}]
  /\ searcher' = [searcher EXCEPT !.lastDB = d, !.curDB = d]

\* SetDB that is accepted.
Switch(d) ==
  /\ server' = [server EXCEPT !.dbs = {d}]
  /\ searcher' = [searcher EXCEPT !.lastDB = searcher.curDB, !.curDB = d]

Refused == Refusals /\ UNCHANGED <<server, searcher>>
-----------------------------------------------------------------------------
(* Databases, operator, page and query                                     *)

SetDB(d) ==
  /\ Begin
  /\ \/ Refused /\ UNCHANGED program
     \/ Switch(d) /\ program' = [Changed EXCEPT !.dbs = {d}, !.lost = FALSE]
  /\ UNCHANGED call

AddDB(d) ==
  /\ Begin
  /\ \/ Refused /\ UNCHANGED program
     \/ /\ server' = [server EXCEPT !.dbs = @ \cup {d}]
        /\ searcher' = [searcher EXCEPT !.curDBs = @ \cup {d}]
        /\ program' = [Changed EXCEPT !.dbs = @ \cup {d}]
  /\ UNCHANGED call

Fuzzy(o) ==
  /\ Begin
  /\ searcher' = [searcher EXCEPT !.defaultOp = o]
  /\ program' = [program EXCEPT !.op = o]
  /\ UNCHANGED <<server, call>>

Limit(n) ==
  /\ Begin
  /\ searcher' = [searcher EXCEPT !.limit = Page(n)]
  /\ UNCHANGED <<server, call, program>>

\* QUERY_PARSE is a cached command and has no answer.
AddQueryString(q) ==
  /\ Begin
  /\ server' = [server EXCEPT !.parts = Append(@, q)]
  /\ program' = Changed
  /\ UNCHANGED <<searcher, call>>

\* So is QUERY_TERM, which adds terms instead of a text.
AddQueryTerm(q) ==
  /\ Begin
  /\ server' = [server EXCEPT !.parts = Append(@, q)]
  /\ program' = Changed
  /\ UNCHANGED <<searcher, call>>

SetQuery(q) ==
  /\ Begin
  /\ searcher' = [searcher EXCEPT !.query = <<q>>]
  /\ server' = [server EXCEPT !.parts = Append(@, q)]
  /\ program' = Changed
  /\ UNCHANGED call
-----------------------------------------------------------------------------
(* Count, Terms and Search                                                 *)

\* Mutant: the answer is cached whatever it is about.
CountAny(q) ==
  /\ Begin
  /\ searcher' = [searcher EXCEPT !.count = IF q = <<>> /\ @ # Nil THEN @ ELSE Basis(q)]
  /\ UNCHANGED <<server, call, program>>

\* Count answers from the cache, or asks the server and caches what is about
\* the default query; a refused Count is 0 and not cached.
Count(q) ==
  /\ Begin
  /\ \/ UNCHANGED searcher
     \/ /\ q = <<>> /\ searcher.count = Nil
        /\ searcher' = [searcher EXCEPT !.count = Basis(q)]
  /\ UNCHANGED <<server, call, program>>

\* What Terms(q) leaves in the cache: what was there, if q is empty; else the
\* answer, unless the server refuses it.
CacheTerms(q) ==
  \/ UNCHANGED searcher
  \/ /\ q # <<>> \/ searcher.terms = Nil
     /\ searcher' = [searcher EXCEPT !.terms = Basis(q)]

Terms(q) ==
  /\ Begin
  /\ CacheTerms(q)
  /\ program' = [program EXCEPT !.habit = @ \cup IF q = <<>> THEN {} ELSE {"terms"}]
  /\ UNCHANGED <<server, call>>

\* A result of m matches, of which the page has been read.
Found(m) == [searcher EXCEPT !.lastCount = m, !.limit = DefaultLimit]

\* logQuery skips a search without matches, and queries it does not want.
Logs(m) ==
  /\ m > 0
  /\ \E q \in Plain : searcher.query = <<q>> /\ ~(searcher.defaultOp = "or" /\ q \in Spaced)

\* Mutant: Search does not replace a count that is there.
SearchKeepCount(q) ==
  /\ Begin
  /\ \E m \in 0 .. MaxMatches :
       /\ searcher' = [Found(m) EXCEPT !.count = IF q = <<>> /\ @ = Nil THEN Basis(q) ELSE @]
       /\ program' = [program EXCEPT !.current = @ \/ q = <<>>]
  /\ UNCHANGED <<server, call>>

\* Search resets the page, unless the server refuses it.  A search for the default
\* query, except in log_db, caches its count and is logged.
Search(q) ==
  /\ Begin
  /\ \/ /\ Refusals
        /\ searcher' = [searcher EXCEPT !.limit = Page(@)]
        /\ UNCHANGED <<call, program>>
     \/ \E m \in 0 .. MaxMatches :
          IF q = <<>> /\ searcher.curDB # LogDb
          THEN /\ searcher' = [Found(m) EXCEPT !.count = Basis(q)]
               /\ program' = [program EXCEPT !.current = TRUE]
               /\ IF Logs(m) THEN Goto("terms") ELSE UNCHANGED call
          ELSE searcher' = Found(m) /\ UNCHANGED <<call, program>>
  /\ UNCHANGED server

\* Mutant: logQuery asks for the terms of Searcher.query.
LogTermsOfQuery ==
  /\ call.step = "terms"
  /\ searcher' = [searcher EXCEPT !.terms = Basis(searcher.query)]
  /\ Goto("text")
  /\ UNCHANGED <<server, program, calls>>

\* logQuery calls Terms("").
LogTerms ==
  /\ call.step = "terms"
  /\ CacheTerms(<<>>)
  /\ call' = IF searcher'.terms = Nil THEN Idle ELSE [call EXCEPT !.step = "text"]
  /\ UNCHANGED <<server, program, calls>>

\* logQuery makes a text of the cached terms that it finds in Searcher.query.  One
\* found before the place it has come to loses its first three bytes, and logQuery
\* panics if there are fewer; the text may be too short to be logged.  Of what
\* becomes of terms that are not those of the query alone nothing is assumed.
Texts(query, terms) ==
  IF terms.of # query THEN {"none", "some", "cut short"}
  ELSE IF \E q \in Short : query = <<q>> THEN {"cut short"} ELSE {"none", "some"}
LogText ==
  /\ call.step = "text"
  /\ \E text \in Texts(searcher.query, searcher.terms) :
       \/ text = "none" /\ call' = Idle
       \/ text = "some" /\ Goto("log")
       \/ text = "cut short" /\ Goto("panic")
  /\ UNCHANGED <<server, searcher, program, calls>>

\* The text is logged for the query, unless the server refuses it; an entry names
\* the terms that the text was made of.
AddSearchLog ==
  /\ call.step = "log"
  /\ LET entry == [query |-> searcher.query, terms |-> searcher.terms]
     IN server' \in {server, [server EXCEPT !.log = Append(@, entry)]}
  /\ call' = Idle
  /\ UNCHANGED <<searcher, program, calls>>
-----------------------------------------------------------------------------
(* GetHotQuery and GetRelatedQuery                                         *)

GetLogQuery(kind, lim) ==
  /\ Begin
  /\ call' = [step |-> "enter", kind |-> kind, lim |-> lim,
              op |-> searcher.defaultOp, todo |-> {}, thin |-> FALSE]
  /\ UNCHANGED <<server, searcher, program>>

\* Mutant: Fuzzy comes before the early return.
EnterLogFuzzy ==
  /\ call.step = "enter"
  /\ \/ /\ Refusals
        /\ searcher' = [searcher EXCEPT !.defaultOp = "or"]
        /\ call' = Idle
        /\ UNCHANGED server
     \/ Switch(LogDb) /\ Goto("move")
  /\ UNCHANGED <<program, calls>>

\* SetDB(logDB), whose error ends the call.
EnterLog ==
  /\ call.step = "enter"
  /\ \/ Refused /\ call' = Idle
     \/ Switch(LogDb) /\ Goto("move")
  /\ UNCHANGED <<program, calls>>

\* Mutant: GetRelatedQuery asks for as many queries as it returns.
MoveExact ==
  /\ call.step = "move"
  /\ searcher' = [searcher EXCEPT !.limit = Page(call.lim),
                                  !.defaultOp = IF call.kind = "related" THEN "or" ELSE @]
  /\ Goto("search")
  /\ UNCHANGED <<server, program, calls>>

\* Limit and, in GetRelatedQuery, which asks for one query more than it returns,
\* Fuzzy(true).
Move ==
  /\ call.step = "move"
  /\ searcher' = IF call.kind = "hot" THEN [searcher EXCEPT !.limit = Page(call.lim)]
                 ELSE [searcher EXCEPT !.limit = call.lim + 1, !.defaultOp = "or"]
  /\ Goto("search")
  /\ UNCHANGED <<server, program, calls>>

\* With m matches Search returns a slice of length m, of which the documents the
\* server sent are the first n; the rest is nil.  The loop over it stops early only
\* in GetRelatedQuery, when it has as many queries as it wants; it skips the
\* query itself, which is document number same, or none if that is 0.
Collected(k, same) == IF same \in 1 .. k THEN k - 1 ELSE k
Enough(n, same) ==
  IF call.kind = "hot" THEN {}
  ELSE {k \in 1 .. n : k # same /\ Collected(k, same) = call.lim}
ReadsNil(m, n, same) == m > n /\ Enough(n, same) = {}

\* The number of matches is an estimate: the server may send fewer documents than
\* there should be on the page.  After the loop, or if the server refuses the search, GetRelatedQuery resets
\* the operator; a panic skips that and restoreDb.
AfterLoop(s) == IF call.kind = "related" THEN [s EXCEPT !.defaultOp = call.op] ELSE s
SearchLog ==
  /\ call.step = "search"
  /\ \/ Refusals /\ searcher' = AfterLoop(searcher) /\ Goto("restore")
     \/ \E m \in 0 .. MaxMatches : \E n \in 0 .. Lesser(m, searcher.limit) : \E same \in 0 .. n :
          IF ReadsNil(m, n, same)
          THEN /\ searcher' = Found(m)
               /\ call' = [call EXCEPT !.step = "panic",
                                       !.thin = n < Lesser(m, searcher.limit)]
          ELSE searcher' = AfterLoop(Found(m)) /\ Goto("restore")
  /\ UNCHANGED <<server, program, calls>>

\* restoreDb selects lastDB and adds the others again, in any order; it ignores
\* what goes wrong.
Lose == program' = [program EXCEPT !.lost = TRUE]
Restore ==
  /\ call.step = "restore"
  /\ \/ Refused /\ Lose
     \/ Switch(searcher.lastDB) /\ UNCHANGED program
  /\ call' = [call EXCEPT !.step = "add", !.todo = searcher.curDBs]
  /\ UNCHANGED calls

RestoreAdd(d) ==
  /\ call.step = "add" /\ d \in call.todo
  /\ \/ Refused /\ Lose
     \/ server' = [server EXCEPT !.dbs = @ \cup {d}] /\ UNCHANGED <<searcher, program>>
  /\ call' = [call EXCEPT !.todo = @ \ {d}]
  /\ UNCHANGED calls

Return ==
  /\ call.step = "add" /\ call.todo = {}
  /\ call' = Idle
  /\ UNCHANGED <<server, searcher, program, calls>>

\* The program makes no more calls.
Done == call.step \in {"idle", "panic"} /\ UNCHANGED vars

Next ==
  \/ \E d \in Db : SetDB(d) \/ AddDB(d)
  \/ \E o \in {"and", "or"} : Fuzzy(o)
  \/ \E n \in Limits : Limit(n)
  \/ \E q \in Query : SetQuery(q) \/ AddQueryString(q) \/ AddQueryTerm(q)
  \/ \E q \in Arguments : Count(q) \/ Search(q) \/ Terms(q)
  \/ LogTerms \/ LogText \/ AddSearchLog
  \/ \E k \in LogCall, n \in Limits : GetLogQuery(k, n)
  \/ EnterLog \/ Move \/ SearchLog \/ Restore \/ Return
  \/ \E d \in Db : RestoreAdd(d)
  \/ Done

Spec == Init /\ [][Next]_vars
-----------------------------------------------------------------------------
(* Properties                                                              *)

Answer == [of : Seq(Query), at : SUBSET (Db \cup {Default, LogDb})]

\* Every variable has its type, and the Searcher's curDB, which decides by which
\* schema results are read, is a database the server searches.
TypeOK ==
  /\ server.dbs \subseteq Db \cup {Default, LogDb}
  /\ server.parts \in Seq(Query)
  /\ server.log \in Seq([query : Seq(Query), terms : Answer])
  /\ searcher.curDB \in server.dbs
  /\ searcher.lastDB \in Db \cup {Default, LogDb}
  /\ searcher.curDBs \subseteq Db
  /\ {searcher.defaultOp, call.op, program.op} \subseteq {"and", "or"}
  /\ {searcher.limit, searcher.lastCount} \subseteq Nat
  /\ searcher.query \in Seq(Query)
  /\ {searcher.count, searcher.terms} \subseteq Answer
  /\ call.step \in {"idle", "terms", "text", "log", "enter", "move", "search", "restore", "add", "panic"}
  /\ call.kind \in {"own", "hot", "related"}
  /\ call.todo \subseteq searcher.curDBs
  /\ program.dbs \subseteq Db \cup {Default}
  /\ {program.lost, program.current} \subseteq BOOLEAN
  /\ calls \in 0 .. MaxCalls

\* Between two calls the server searches the databases the program selected, no
\* more and no fewer, whatever log queries came in between ("SetDB to search");
\* a restoring command that was refused is the one excuse.
SelectionKept == call = Idle /\ ~program.lost => server.dbs = program.dbs

\* They are kept unless AddDB was called before SetDB, for a database that SetDB
\* then dropped and nobody added again.
SelectionKeptIfCurrent == searcher.curDBs \subseteq program.dbs => SelectionKept

\* Between two calls the operator is the one the program chose, even if the
\* server refused any of the commands of GetRelatedQuery.
OpKept == call = Idle => searcher.defaultOp = program.op

\* No call dereferences one of the nil documents that Search returns when there
\* are more matches than a page holds ("GetHotQuery" returns a list), nor cuts a
\* term that is shorter than what it cuts off.
NoPanic == call.step # "panic"

\* GetRelatedQuery reads none of the nil documents, because it asks for one query
\* more than it returns, if it is to return any and the server sends as many
\* documents as its estimate has on the page.
RelatedReadsNoNil ==
  call.step = "panic" /\ call.lim > 0 /\ ~call.thin => call.kind # "related"

\* It reads none whatever the server sends ("GetRelatedQuery" returns a list).
RelatedNeverPanics == call.step = "panic" /\ call.lim > 0 => call.kind # "related"

\* GetLastCount is the number of matches of the last search of the program ("the
\* estimated number of matches of the latest search"): no log query changes it.
LastCountIsOwn ==
  [][call.kind # "own" => searcher'.lastCount = searcher.lastCount]_vars

\* Log queries leave the page alone that Limit has chosen for the next Search
\* ("Limit the result set").
PageIsOwn == [][call.kind # "own" => searcher'.limit = searcher.limit]_vars

\* The program is between two calls and its databases are selected.
Settled == call = Idle /\ ~program.lost /\ server.dbs = program.dbs

\* After a search for the default query, and until the program changes query or
\* databases, Count("") is the count of that search in those databases ("if the
\* query is that of the latest Search"), whatever else was counted, searched or cut
\* into terms, and whatever log queries came in between.
CountOfLastSearch == Settled /\ program.current => searcher.count = Basis(<<>>)

\* Count("") is about the query and the databases as they are now ("the default
\* query is used by Count, Search and Terms without an argument").
CountFresh == Settled /\ searcher.count # Nil => searcher.count = Basis(<<>>)

\* It is if the program builds its query and selects its databases first.
CountFreshIfBuilt == "change" \notin program.habit => CountFresh

\* Terms("") is about the default query as it is now (the same comment).
TermsFresh == searcher.terms # Nil => searcher.terms.of = server.parts

\* In a program that builds its query first and gives Terms no argument, the text
\* logged for a search is made of the terms of the query that was searched for, and
\* of no terms that another Terms or an earlier query has left in the cache.
LogMatches ==
  program.habit = {} => \A i \in DOMAIN server.log : server.log[i].terms.of = server.parts

\* SetQuery sets the default query ("SetQuery sets the default query").
SetQueryReplaces ==
  [][searcher'.query # searcher.query => server'.parts = searcher'.query]_vars
=============================================================================
