--------------------------- MODULE SearcherProofs ---------------------------
(***************************************************************************)
(* Theorems about module Searcher, for every program: any queries,         *)
(* databases and limits, any number of calls, a server that refuses what   *)
(* it likes.                                                               *)
(***************************************************************************)
EXTENDS Searcher, SequenceTheorems, TLAPS

-----------------------------------------------------------------------------
(* The inductive invariant                                                 *)

AllDb == Db \cup {Default, LogDb}
Op == {"and", "or"}
Own == {"idle", "terms", "text", "log"}  \* steps of Search, or none
Away == {"move", "search", "restore"}    \* the server is at log_db
Entry == [query : Seq(Query), terms : Answer]

TypeInv ==
  /\ server \in [dbs : SUBSET AllDb, parts : Seq(Query), log : Seq(Entry)]
  /\ searcher \in [curDB : AllDb, lastDB : AllDb, curDBs : SUBSET Db, defaultOp : Op,
                   limit : Nat, lastCount : Nat, query : Seq(Query),
                   count : Answer, terms : Answer]
  /\ call \in [step : Own \cup Away \cup {"enter", "add", "panic"},
               kind : {"own", "hot", "related"}, lim : Nat, op : Op, todo : SUBSET Db, thin : BOOLEAN]
  /\ program \in [dbs : SUBSET (Db \cup {Default}), op : Op, lost : BOOLEAN,
                  current : BOOLEAN, habit : SUBSET {"change", "terms"}]
  /\ calls \in 0 .. MaxCalls

\* The locals of the call under way.
CallInv ==
  /\ call.step = "idle" => call = Idle
  /\ call.step \in Own => call.kind = "own"
  /\ call.kind = "own" => call.step \in Own \cup {"panic"}
  /\ call.todo \subseteq searcher.curDBs

\* The operator is the program's, or GetRelatedQuery has kept it and is about to
\* reset it.
OpInv ==
  /\ call.kind = "related" => call.op = program.op
  /\ call.step # "panic" /\ ~(call.step = "search" /\ call.kind = "related") =>
       searcher.defaultOp = program.op

PageInv ==
  /\ call.step = "search" /\ call.kind = "related" => searcher.limit = call.lim + 1
  /\ call.step = "panic" /\ call.lim > 0 /\ ~call.thin => call.kind # "related"

\* The database SetDB has selected, and the databases searched, once a log query
\* under way has restored them.
Cur == IF call.step \in Away THEN searcher.lastDB ELSE searcher.curDB
Sel == IF call.step \in Away \cup {"add"} THEN {Cur} \cup searcher.curDBs ELSE server.dbs

\* The program's databases are searched, and perhaps others that AddDB once added.
DbInv ==
  /\ searcher.curDB \in server.dbs
  /\ ~program.lost /\ call.step # "panic" =>
       /\ Cur \in program.dbs
       /\ program.dbs \subseteq Sel
       /\ Sel \subseteq {Cur} \cup searcher.curDBs
  /\ ~program.lost /\ call.step = "add" =>
       /\ server.dbs \subseteq Sel
       /\ Sel \subseteq server.dbs \cup call.todo

\* A count that the program may rely on is about the query as it is, and about the
\* databases of the program; about no more of them than are searched.
CountInv ==
  /\ ~program.lost /\ call.step # "panic"
  /\ program.current \/ ("change" \notin program.habit /\ searcher.count # Nil)
  => /\ searcher.count.of = server.parts
     /\ program.dbs \subseteq searcher.count.at
     /\ searcher.count.at \subseteq Sel

\* Nothing is logged before there are terms, so a program that had no terms cached
\* when it changed its query has logged nothing yet.
LogInv ==
  /\ call.step \in {"text", "log"} \/ server.log # <<>> => searcher.terms # Nil
  /\ program.habit = {} =>
       /\ searcher.terms # Nil => searcher.terms.of = server.parts
       /\ \A i \in DOMAIN server.log : server.log[i].terms.of = server.parts

IInv == TypeInv /\ CallInv /\ OpInv /\ PageInv /\ DbInv /\ CountInv /\ LogInv

-----------------------------------------------------------------------------
(* What the steps have in common                                           *)

LEMMA InitInv == Init => IInv
<1> SUFFICES ASSUME Init
             PROVE  IInv
  OBVIOUS
<1>1. Nil \in Answer
  BY DEF Nil, Answer
<1>2. TypeInv
  BY <1>1, BoundAssumption DEF Init, TypeInv, AllDb, Op, Own, Away, Entry, Idle
<1>3. CallInv /\ OpInv /\ PageInv
  BY DEF Init, CallInv, OpInv, PageInv, Own, Idle
<1>4. DbInv
  BY DEF Init, DbInv, Cur, Sel, Away, Idle
<1>5. CountInv
  BY DEF Init, CountInv
<1>6. LogInv
  BY DEF Init, LogInv, Idle
<1> QED
  BY <1>2, <1>3, <1>4, <1>5, <1>6 DEF IInv

\* An answer is about what the server had then, which is never nothing.
LEMMA BasisAnswer ==
  ASSUME TypeInv, DbInv, NEW q \in Arguments
  PROVE  /\ Basis(q) \in Answer
         /\ Basis(q) # Nil
         /\ Basis(q).at = server.dbs
         /\ Basis(<<>>).of = server.parts
<1>1. server.dbs \in SUBSET AllDb /\ server.parts \in Seq(Query)
  BY DEF TypeInv
<1>2. Basis(q).at = server.dbs /\ Basis(<<>>).of = server.parts
  BY DEF Basis
<1>3. Nil.at = {}
  BY DEF Nil
<1>4. server.dbs # {}
  BY DEF DbInv
<1>5. q \in Seq(Query)
  <2>1. \A r \in Query : <<r>> \in Seq(Query)
    OBVIOUS
  <2>2. <<>> \in Seq(Query)
    OBVIOUS
  <2> QED
    BY <2>1, <2>2 DEF Arguments
<1>6. (IF q = <<>> THEN server.parts ELSE q) \in Seq(Query)
  BY <1>1, <1>5
<1>7. Basis(q) \in Answer
  BY <1>1, <1>6 DEF Basis, Answer, AllDb
<1> QED
  BY <1>2, <1>3, <1>4, <1>7

\* The program makes a call between two others.
LEMMA BeginFacts ==
  ASSUME TypeInv, Begin
  PROVE  /\ call = Idle /\ call.step = "idle" /\ call.kind = "own" /\ call.todo = {}
         /\ calls' \in 0 .. MaxCalls
BY BoundAssumption DEF TypeInv, Begin, Idle

LEMMA Stuttering ==
  ASSUME IInv, UNCHANGED <<server, searcher, call, program>>, calls' \in 0 .. MaxCalls
  PROVE  IInv'
BY DEF IInv, TypeInv, CallInv, OpInv, PageInv, DbInv, CountInv, LogInv, Cur, Sel

-----------------------------------------------------------------------------
(* Databases, operator, page and query                                     *)

LEMMA SetDBInv ==
  ASSUME IInv, NEW d \in Db, SetDB(d)
  PROVE  IInv'
<1> USE DEF IInv
<1>1. /\ call = Idle /\ call.step = "idle" /\ call.kind = "own" /\ call.todo = {}
      /\ calls' \in 0 .. MaxCalls
      /\ UNCHANGED call
  BY BeginFacts DEF SetDB
<1>2. CASE Refused /\ UNCHANGED program
  BY <1>1, <1>2, Stuttering DEF Refused
<1>3. CASE Switch(d) /\ program' = [Changed EXCEPT !.dbs = {d}, !.lost = FALSE]
  <2>1. /\ server' = [server EXCEPT !.dbs = {d}]
        /\ searcher' = [searcher EXCEPT !.lastDB = searcher.curDB, !.curDB = d]
        /\ program' = [program EXCEPT
             !.current = FALSE, !.dbs = {d}, !.lost = FALSE,
             !.habit = @ \cup IF searcher.count = Nil /\ searcher.terms = Nil
                              THEN {} ELSE {"change"}]
    BY <1>3 DEF Switch, Changed, TypeInv
  <2>2. TypeInv'
    <3>1. /\ server \in [dbs : SUBSET AllDb, parts : Seq(Query), log : Seq(Entry)]
          /\ searcher \in [curDB : AllDb, lastDB : AllDb, curDBs : SUBSET Db, defaultOp : Op,
                          limit : Nat, lastCount : Nat, query : Seq(Query),
                          count : Answer, terms : Answer]
          /\ program \in [dbs : SUBSET (Db \cup {Default}), op : Op, lost : BOOLEAN,
                         current : BOOLEAN, habit : SUBSET {"change", "terms"}]
      BY DEF TypeInv
    <3>2. /\ d \in AllDb /\ {d} \in SUBSET AllDb /\ {d} \in SUBSET (Db \cup {Default})
          /\ searcher.curDB \in AllDb
      BY <3>1 DEF AllDb
    <3>3. server' \in [dbs : SUBSET AllDb, parts : Seq(Query), log : Seq(Entry)]
      BY <2>1, <3>1, <3>2
    <3>4. searcher' \in [curDB : AllDb, lastDB : AllDb, curDBs : SUBSET Db, defaultOp : Op,
                           limit : Nat, lastCount : Nat, query : Seq(Query),
                           count : Answer, terms : Answer]
      BY <2>1, <3>1, <3>2
    <3>5. program' \in [dbs : SUBSET (Db \cup {Default}), op : Op, lost : BOOLEAN,
                       current : BOOLEAN, habit : SUBSET {"change", "terms"}]
      BY <2>1, <3>1, <3>2
    <3> QED
      BY <1>1, <3>3, <3>4, <3>5 DEF TypeInv
  <2>3. CallInv' /\ OpInv' /\ PageInv'
    BY <1>1, <2>1 DEF TypeInv, CallInv, OpInv, PageInv
  <2>4. DbInv'
    BY <1>1, <2>1 DEF TypeInv, DbInv, Cur, Sel, Away
  <2>5. CountInv'
    BY <1>1, <2>1 DEF TypeInv, CountInv
  <2>6. LogInv'
    BY <1>1, <2>1 DEF TypeInv, LogInv
  <2> QED
    BY <2>2, <2>3, <2>4, <2>5, <2>6
<1> QED
  BY <1>2, <1>3 DEF SetDB

LEMMA AddDBInv ==
  ASSUME IInv, NEW d \in Db, AddDB(d)
  PROVE  IInv'
<1> USE DEF IInv
<1>1. /\ call = Idle /\ call.step = "idle" /\ call.kind = "own" /\ call.todo = {}
      /\ calls' \in 0 .. MaxCalls
      /\ UNCHANGED call
  BY BeginFacts DEF AddDB
<1>2. CASE Refused /\ UNCHANGED program
  BY <1>1, <1>2, Stuttering DEF Refused
<1>3. CASE /\ server' = [server EXCEPT !.dbs = @ \cup {d}]
           /\ searcher' = [searcher EXCEPT !.curDBs = @ \cup {d}]
           /\ program' = [Changed EXCEPT !.dbs = @ \cup {d}]
  <2>1. server.dbs \cup {d} \in SUBSET AllDb /\ searcher.curDBs \cup {d} \in SUBSET Db
        /\ program.dbs \cup {d} \in SUBSET (Db \cup {Default})
    BY DEF TypeInv, AllDb
  <2>2. /\ server' = [server EXCEPT !.dbs = server.dbs \cup {d}]
        /\ searcher' = [searcher EXCEPT !.curDBs = searcher.curDBs \cup {d}]
        /\ program' = [program EXCEPT
             !.current = FALSE, !.dbs = program.dbs \cup {d},
             !.habit = @ \cup IF searcher.count = Nil /\ searcher.terms = Nil
                              THEN {} ELSE {"change"}]
    BY <1>3 DEF Changed, TypeInv
  <2>3. TypeInv'
    BY <1>1, <2>1, <2>2 DEF TypeInv
  <2>4. CallInv' /\ OpInv' /\ PageInv'
    BY <1>1, <2>2 DEF TypeInv, CallInv, OpInv, PageInv
  <2>5. DbInv'
    BY <1>1, <2>2 DEF TypeInv, DbInv, Cur, Sel, Away
  <2>6. CountInv'
    BY <1>1, <2>2 DEF TypeInv, CountInv
  <2>7. LogInv'
    BY <1>1, <2>2 DEF TypeInv, LogInv
  <2> QED
    BY <2>3, <2>4, <2>5, <2>6, <2>7
<1> QED
  BY <1>2, <1>3 DEF AddDB

LEMMA FuzzyInv ==
  ASSUME IInv, NEW o \in {"and", "or"}, Fuzzy(o)
  PROVE  IInv'
<1> USE DEF IInv
<1>1. /\ call = Idle /\ call.step = "idle" /\ call.kind = "own" /\ call.todo = {}
      /\ calls' \in 0 .. MaxCalls
  BY BeginFacts DEF Fuzzy
<1>2. /\ searcher' = [searcher EXCEPT !.defaultOp = o]
      /\ program' = [program EXCEPT !.op = o]
      /\ UNCHANGED <<server, call>>
  BY DEF Fuzzy
<1>3. TypeInv'
  BY <1>1, <1>2 DEF TypeInv, Op
<1>4. CallInv' /\ OpInv' /\ PageInv'
  BY <1>1, <1>2 DEF TypeInv, CallInv, OpInv, PageInv
<1>5. DbInv'
  BY <1>1, <1>2 DEF TypeInv, DbInv, Cur, Sel, Away
<1>6. CountInv'
  BY <1>1, <1>2 DEF TypeInv, CountInv, Sel, Away
<1>7. LogInv'
  BY <1>1, <1>2 DEF TypeInv, LogInv
<1> QED
  BY <1>3, <1>4, <1>5, <1>6, <1>7

LEMMA LimitInv ==
  ASSUME IInv, NEW n \in Limits, Limit(n)
  PROVE  IInv'
<1> USE DEF IInv
<1>1. /\ call = Idle /\ call.step = "idle" /\ call.kind = "own" /\ call.todo = {}
      /\ calls' \in 0 .. MaxCalls
  BY BeginFacts DEF Limit
<1>2. /\ searcher' = [searcher EXCEPT !.limit = Page(n)]
      /\ UNCHANGED <<server, call, program>>
      /\ Page(n) \in Nat
  BY CallAssumption, BoundAssumption DEF Limit, Page
<1>3. TypeInv'
  BY <1>1, <1>2 DEF TypeInv
<1>4. CallInv' /\ OpInv' /\ PageInv'
  BY <1>1, <1>2 DEF TypeInv, CallInv, OpInv, PageInv
<1>5. DbInv'
  BY <1>1, <1>2 DEF TypeInv, DbInv, Cur, Sel, Away
<1>6. CountInv'
  BY <1>1, <1>2 DEF TypeInv, CountInv, Sel, Away
<1>7. LogInv'
  BY <1>1, <1>2 DEF TypeInv, LogInv
<1> QED
  BY <1>3, <1>4, <1>5, <1>6, <1>7

\* AddQueryString, AddQueryTerm and SetQuery: the query of the server grows, and
\* what the program has cached is about another one.
LEMMA PartsInv ==
  ASSUME IInv, Begin, NEW q \in Query, NEW query \in Seq(Query),
         server' = [server EXCEPT !.parts = Append(@, q)],
         searcher' = [searcher EXCEPT !.query = query],
         program' = Changed,
         UNCHANGED call
  PROVE  IInv'
<1> USE DEF IInv
<1>1. /\ call = Idle /\ call.step = "idle" /\ call.kind = "own" /\ call.todo = {}
      /\ calls' \in 0 .. MaxCalls
  BY BeginFacts
<1>2. Append(server.parts, q) \in Seq(Query)
  BY DEF TypeInv
<1>3. program' = [program EXCEPT
        !.current = FALSE,
        !.habit = @ \cup IF searcher.count = Nil /\ searcher.terms = Nil
                         THEN {} ELSE {"change"}]
  BY DEF Changed
<1>4. TypeInv'
  <2>1. server' \in [dbs : SUBSET AllDb, parts : Seq(Query), log : Seq(Entry)]
    BY <1>2 DEF TypeInv
  <2>2. searcher' \in [curDB : AllDb, lastDB : AllDb, curDBs : SUBSET Db, defaultOp : Op,
                       limit : Nat, lastCount : Nat, query : Seq(Query),
                       count : Answer, terms : Answer]
    BY DEF TypeInv
  <2>3. program' \in [dbs : SUBSET (Db \cup {Default}), op : Op, lost : BOOLEAN,
                      current : BOOLEAN, habit : SUBSET {"change", "terms"}]
    <3> DEFINE h == program.habit \cup IF searcher.count = Nil /\ searcher.terms = Nil
                                       THEN {} ELSE {"change"}
    <3>1. h \in SUBSET {"change", "terms"}
      BY DEF TypeInv
    <3>2. program' = [program EXCEPT !.current = FALSE, !.habit = h]
      BY <1>3
    <3> HIDE DEF h
    <3> QED
      BY <3>1, <3>2 DEF TypeInv
  <2> QED
    BY <1>1, <2>1, <2>2, <2>3 DEF TypeInv
<1>5. CallInv' /\ OpInv' /\ PageInv'
  BY <1>1, <1>3 DEF TypeInv, CallInv, OpInv, PageInv
<1>6. DbInv'
  BY <1>1, <1>3 DEF TypeInv, DbInv, Cur, Sel, Away
<1>7. CountInv'
  BY <1>1, <1>3 DEF TypeInv, CountInv
<1>8. LogInv'
  <2>1. server'.log = server.log /\ searcher'.terms = searcher.terms
    BY DEF TypeInv
  <2>2. program'.habit = {} => searcher.terms = Nil
    BY <1>3 DEF TypeInv
  <2>3. DOMAIN <<>> = {}
    OBVIOUS
  <2> QED
    BY <1>1, <2>1, <2>2, <2>3 DEF LogInv
<1> QED
  BY <1>4, <1>5, <1>6, <1>7, <1>8

LEMMA QueryInv ==
  ASSUME IInv, NEW q \in Query, SetQuery(q) \/ AddQueryString(q) \/ AddQueryTerm(q)
  PROVE  IInv'
<1>1. <<q>> \in Seq(Query) /\ searcher.query \in Seq(Query)
  BY DEF IInv, TypeInv
<1>2. UNCHANGED searcher => searcher' = [searcher EXCEPT !.query = searcher.query]
  BY DEF IInv, TypeInv
<1> QED
  BY <1>1, <1>2, PartsInv DEF SetQuery, AddQueryString, AddQueryTerm

-----------------------------------------------------------------------------
(* Count, Terms and Search                                                 *)

\* Between two calls the databases of a count that is new are the program's.
LEMMA CountInvLemma ==
  ASSUME IInv, NEW q \in Arguments, Count(q)
  PROVE  IInv'
<1> USE DEF IInv
<1>1. /\ call = Idle /\ call.step = "idle" /\ call.kind = "own" /\ call.todo = {}
      /\ calls' \in 0 .. MaxCalls
      /\ UNCHANGED <<server, call, program>>
  BY BeginFacts DEF Count
<1>2. CASE UNCHANGED searcher
  BY <1>1, <1>2, Stuttering
<1>3. CASE q = <<>> /\ searcher' = [searcher EXCEPT !.count = Basis(q)]
  <2>1. searcher' = [searcher EXCEPT !.count = Basis(<<>>)]
    BY <1>3
  <2>2. /\ Basis(<<>>) \in Answer
        /\ Basis(<<>>).at = server.dbs /\ Basis(<<>>).of = server.parts
    BY BasisAnswer DEF Arguments
  <2>3. TypeInv'
    BY <1>1, <2>1, <2>2 DEF TypeInv
  <2>4. CallInv' /\ OpInv' /\ PageInv'
    BY <1>1, <2>1 DEF TypeInv, CallInv, OpInv, PageInv
  <2>5. DbInv'
    BY <1>1, <2>1 DEF TypeInv, DbInv, Cur, Sel, Away
  <2>6. CountInv'
    BY <1>1, <2>1, <2>2 DEF TypeInv, CountInv, DbInv, Cur, Sel, Away
  <2>7. LogInv'
    BY <1>1, <2>1 DEF TypeInv, LogInv
  <2> QED
    BY <2>3, <2>4, <2>5, <2>6, <2>7
<1> QED
  BY <1>2, <1>3 DEF Count

LEMMA TermsInv ==
  ASSUME IInv, NEW q \in Arguments, Terms(q)
  PROVE  IInv'
<1> USE DEF IInv
<1>1. /\ call = Idle /\ call.step = "idle" /\ call.kind = "own" /\ call.todo = {}
      /\ calls' \in 0 .. MaxCalls
      /\ UNCHANGED <<server, call>>
      /\ program' = [program EXCEPT !.habit = @ \cup IF q = <<>> THEN {} ELSE {"terms"}]
  BY BeginFacts DEF Terms
<1>2. PICK terms \in Answer :
        /\ searcher' = [searcher EXCEPT !.terms = terms]
        /\ \/ terms = searcher.terms
           \/ terms # Nil /\ (q = <<>> => terms.of = server.parts)
  <2>1. CASE UNCHANGED searcher
    BY <2>1 DEF TypeInv
  <2>2. CASE searcher' = [searcher EXCEPT !.terms = Basis(q)]
    BY <2>2, BasisAnswer
  <2> QED
    BY <2>1, <2>2 DEF Terms, CacheTerms
<1>3. TypeInv'
  BY <1>1, <1>2 DEF TypeInv
<1>4. CallInv' /\ OpInv' /\ PageInv'
  BY <1>1, <1>2 DEF TypeInv, CallInv, OpInv, PageInv
<1>5. DbInv'
  BY <1>1, <1>2 DEF TypeInv, DbInv, Cur, Sel, Away
<1>6. CountInv'
  BY <1>1, <1>2 DEF TypeInv, CountInv, Sel, Away
<1>7. LogInv'
  BY <1>1, <1>2 DEF TypeInv, LogInv
<1> QED
  BY <1>3, <1>4, <1>5, <1>6, <1>7

\* A search for the default query renews the count; its page is read.
LEMMA SearchInv ==
  ASSUME IInv, NEW q \in Arguments, Search(q)
  PROVE  IInv'
<1> USE DEF IInv
<1>1. /\ call = Idle /\ call.step = "idle" /\ call.kind = "own" /\ call.todo = {}
      /\ calls' \in 0 .. MaxCalls
      /\ UNCHANGED server
  BY BeginFacts DEF Search
<1>2. CASE searcher' = [searcher EXCEPT !.limit = Page(@)] /\ UNCHANGED <<call, program>>
  <2>1. Page(searcher.limit) \in Nat
    BY BoundAssumption DEF TypeInv, Page
  <2>2. TypeInv'
    BY <1>1, <1>2, <2>1 DEF TypeInv
  <2>3. CallInv' /\ OpInv' /\ PageInv'
    BY <1>1, <1>2 DEF TypeInv, CallInv, OpInv, PageInv
  <2>4. DbInv'
    BY <1>1, <1>2 DEF TypeInv, DbInv, Cur, Sel, Away
  <2>5. CountInv'
    BY <1>1, <1>2 DEF TypeInv, CountInv, Sel, Away
  <2>6. LogInv'
    BY <1>1, <1>2 DEF TypeInv, LogInv
  <2> QED
    BY <2>2, <2>3, <2>4, <2>5, <2>6
<1>3. ASSUME NEW m \in 0 .. MaxMatches, searcher' = Found(m), UNCHANGED <<call, program>>
      PROVE  IInv'
  <2>1. searcher' = [searcher EXCEPT !.lastCount = m, !.limit = DefaultLimit]
        /\ m \in Nat /\ DefaultLimit \in Nat
    BY <1>3, BoundAssumption DEF Found
  <2>2. TypeInv'
    <3>1. searcher \in [curDB : AllDb, lastDB : AllDb, curDBs : SUBSET Db, defaultOp : Op,
                          limit : Nat, lastCount : Nat, query : Seq(Query),
                          count : Answer, terms : Answer]
      BY DEF TypeInv
    <3>2. searcher' \in [curDB : AllDb, lastDB : AllDb, curDBs : SUBSET Db, defaultOp : Op,
                           limit : Nat, lastCount : Nat, query : Seq(Query),
                           count : Answer, terms : Answer]
      BY <2>1, <3>1
    <3> QED
      BY <1>1, <1>3, <3>2 DEF TypeInv
  <2>3. CallInv' /\ OpInv' /\ PageInv'
    BY <1>1, <1>3, <2>1 DEF TypeInv, CallInv, OpInv, PageInv
  <2>4. DbInv'
    BY <1>1, <1>3, <2>1 DEF TypeInv, DbInv, Cur, Sel, Away
  <2>5. CountInv'
    BY <1>1, <1>3, <2>1 DEF TypeInv, CountInv, Sel, Away
  <2>6. LogInv'
    BY <1>1, <1>3, <2>1 DEF TypeInv, LogInv
  <2> QED
    BY <2>2, <2>3, <2>4, <2>5, <2>6
<1>4. ASSUME NEW m \in 0 .. MaxMatches, q = <<>>,
             searcher' = [Found(m) EXCEPT !.count = Basis(q)],
             program' = [program EXCEPT !.current = TRUE],
             Goto("terms") \/ UNCHANGED call
      PROVE  IInv'
  <2>1. /\ Basis(<<>>) \in Answer
        /\ Basis(<<>>).at = server.dbs /\ Basis(<<>>).of = server.parts
    BY BasisAnswer DEF Arguments
  <2>2. /\ searcher' = [searcher EXCEPT !.lastCount = m, !.limit = DefaultLimit,
                                        !.count = Basis(<<>>)]
        /\ m \in Nat /\ DefaultLimit \in Nat
    BY <1>4, BoundAssumption DEF Found
  <2>3. /\ call' \in [step : Own \cup Away \cup {"enter", "add", "panic"},
                      kind : {"own", "hot", "related"}, lim : Nat, op : Op, todo : SUBSET Db, thin : BOOLEAN]
        /\ call'.step \in {"idle", "terms"} /\ call'.kind = "own" /\ call'.todo = {}
        /\ call'.step = "idle" => call' = Idle
    BY <1>1, <1>4 DEF TypeInv, Goto, Own
  <2>4. TypeInv'
    <3> DEFINE b == Basis(<<>>)
    <3>1. b \in Answer
      BY <2>1
    <3>2. searcher' = [searcher EXCEPT !.lastCount = m, !.limit = DefaultLimit, !.count = b]
      BY <2>2
    <3> HIDE DEF b
    <3>3. searcher' \in [curDB : AllDb, lastDB : AllDb, curDBs : SUBSET Db, defaultOp : Op,
                         limit : Nat, lastCount : Nat, query : Seq(Query),
                         count : Answer, terms : Answer]
      <4>1. searcher \in [curDB : AllDb, lastDB : AllDb, curDBs : SUBSET Db, defaultOp : Op,
                            limit : Nat, lastCount : Nat, query : Seq(Query),
                            count : Answer, terms : Answer]
        BY DEF TypeInv
      <4>2. m \in Nat /\ DefaultLimit \in Nat
        BY <2>2
      <4> QED
        BY <3>1, <3>2, <4>1, <4>2
    <3> QED
      BY <1>1, <1>4, <2>3, <3>3 DEF TypeInv
  <2>5. CallInv' /\ OpInv' /\ PageInv'
    BY <1>1, <1>4, <2>2, <2>3 DEF TypeInv, CallInv, OpInv, PageInv, Own
  <2>6. DbInv'
    BY <1>1, <1>4, <2>2, <2>3 DEF TypeInv, DbInv, Cur, Sel, Away
  <2>7. CountInv'
    BY <1>1, <1>4, <2>1, <2>2, <2>3 DEF TypeInv, CountInv, DbInv, Cur, Sel, Away
  <2>8. LogInv'
    BY <1>1, <1>4, <2>2, <2>3 DEF TypeInv, LogInv
  <2> QED
    BY <2>4, <2>5, <2>6, <2>7, <2>8
<1> QED
  BY <1>2, <1>3, <1>4 DEF Search

LEMMA LogTermsInv ==
  ASSUME IInv, LogTerms
  PROVE  IInv'
<1> USE DEF IInv
<1>1. /\ call.step = "terms" /\ call.kind = "own"
      /\ call' = IF searcher'.terms = Nil THEN Idle ELSE [call EXCEPT !.step = "text"]
      /\ UNCHANGED <<server, program, calls>>
  BY DEF LogTerms, CallInv, Own
<1>2. PICK terms \in Answer :
        /\ searcher' = [searcher EXCEPT !.terms = terms]
        /\ \/ terms = searcher.terms
           \/ terms # Nil /\ terms.of = server.parts
  <2>1. CASE UNCHANGED searcher
    BY <2>1 DEF TypeInv
  <2>2. CASE searcher' = [searcher EXCEPT !.terms = Basis(<<>>)]
    BY <2>2, BasisAnswer DEF Arguments
  <2> QED
    BY <2>1, <2>2 DEF LogTerms, CacheTerms
<1>3. /\ call' \in [step : Own \cup Away \cup {"enter", "add", "panic"},
                    kind : {"own", "hot", "related"}, lim : Nat, op : Op, todo : SUBSET Db, thin : BOOLEAN]
      /\ call'.step \in {"idle", "text"} /\ call'.kind = "own"
      /\ call'.todo \subseteq searcher.curDBs
      /\ call'.step = "idle" => call' = Idle
      /\ call'.step = "text" => terms # Nil
  <2>1. searcher'.terms = terms
    BY <1>2 DEF TypeInv
  <2> QED
    BY <1>1, <2>1 DEF TypeInv, CallInv, Own, Op, Idle
<1>4. TypeInv'
  BY <1>1, <1>2, <1>3 DEF TypeInv
<1>5. CallInv' /\ OpInv' /\ PageInv'
  BY <1>1, <1>2, <1>3 DEF TypeInv, CallInv, OpInv, PageInv, Own
<1>6. DbInv'
  BY <1>1, <1>2, <1>3 DEF TypeInv, DbInv, Cur, Sel, Away
<1>7. CountInv'
  BY <1>1, <1>2, <1>3 DEF TypeInv, CountInv, Cur, Sel, Away
<1>8. LogInv'
  BY <1>1, <1>2, <1>3 DEF TypeInv, LogInv
<1> QED
  BY <1>4, <1>5, <1>6, <1>7, <1>8

\* The call returns, goes on to log the text, or panics.
LEMMA LogTextInv ==
  ASSUME IInv, LogText
  PROVE  IInv'
<1> USE DEF IInv
<1>1. /\ call.step = "text" /\ call.kind = "own" /\ searcher.terms # Nil
      /\ UNCHANGED <<server, searcher, program, calls>>
      /\ \/ call' = Idle
         \/ call' = [call EXCEPT !.step = "log"]
         \/ call' = [call EXCEPT !.step = "panic"]
  BY DEF LogText, CallInv, LogInv, Own, Goto
<1>2. /\ call' \in [step : Own \cup Away \cup {"enter", "add", "panic"},
                    kind : {"own", "hot", "related"}, lim : Nat, op : Op, todo : SUBSET Db, thin : BOOLEAN]
      /\ call'.step \in {"idle", "log", "panic"} /\ call'.kind = "own"
      /\ call'.todo \subseteq searcher.curDBs
      /\ call'.step = "idle" => call' = Idle
  <2>1. CASE call' = Idle
    BY <2>1 DEF Own, Op, Idle
  <2>2. ASSUME NEW l \in {"log", "panic"}, call' = [call EXCEPT !.step = l]
        PROVE  /\ call' \in [step : Own \cup Away \cup {"enter", "add", "panic"},
                              kind : {"own", "hot", "related"}, lim : Nat, op : Op,
                              todo : SUBSET Db, thin : BOOLEAN]
               /\ call'.step = l /\ call'.kind = "own" /\ call'.todo = call.todo
    BY <1>1, <2>2 DEF TypeInv, Own
  <2> QED
    BY <1>1, <2>1, <2>2 DEF CallInv
<1>3. TypeInv'
  BY <1>1, <1>2 DEF TypeInv
<1>4. CallInv' /\ OpInv' /\ PageInv'
  BY <1>1, <1>2 DEF CallInv, OpInv, PageInv, Own
<1>5. DbInv'
  BY <1>1, <1>2 DEF DbInv, Cur, Sel, Away
<1>6. CountInv'
  BY <1>1, <1>2 DEF CountInv, Cur, Sel, Away
<1>7. LogInv'
  BY <1>1, <1>2 DEF LogInv
<1> QED
  BY <1>3, <1>4, <1>5, <1>6, <1>7

LEMMA AddSearchLogInv ==
  ASSUME IInv, AddSearchLog
  PROVE  IInv'
<1> USE DEF IInv
<1> DEFINE entry == [query |-> searcher.query, terms |-> searcher.terms]
           log == Append(server.log, entry)
<1>1. /\ call.step = "log" /\ call.kind = "own" /\ call' = Idle
      /\ UNCHANGED <<searcher, program, calls>>
      /\ server' \in {server, [server EXCEPT !.log = log]}
  BY DEF AddSearchLog, CallInv, Own
<1>2. entry \in Entry /\ entry.terms = searcher.terms /\ server.log \in Seq(Entry)
  BY DEF TypeInv, Entry
<1> HIDE DEF entry
<1>3. /\ log \in Seq(Entry)
      /\ DOMAIN server.log = 1 .. Len(server.log) /\ Len(server.log) \in Nat
      /\ DOMAIN log = 1 .. Len(server.log) + 1
      /\ \A i \in 1 .. Len(server.log) : log[i] = server.log[i]
      /\ log[Len(server.log) + 1] = entry
  BY <1>2, AppendProperties
<1> HIDE DEF log
<1>4. /\ call'.step = "idle" /\ call'.kind = "own" /\ call'.todo = {} /\ Idle.op \in Op
      /\ Idle \in [step : Own \cup Away \cup {"enter", "add", "panic"},
                   kind : {"own", "hot", "related"}, lim : Nat, op : Op, todo : SUBSET Db, thin : BOOLEAN]
  BY <1>1 DEF Idle, Op, Own
<1>5. /\ server'.dbs = server.dbs /\ server'.parts = server.parts
      /\ server'.log \in {server.log, log}
      /\ server' \in [dbs : SUBSET AllDb, parts : Seq(Query), log : Seq(Entry)]
  <2>1. server \in [dbs : SUBSET AllDb, parts : Seq(Query), log : Seq(Entry)]
    BY DEF TypeInv
  <2>2. CASE server' = server
    BY <2>1, <2>2
  <2>3. CASE server' = [server EXCEPT !.log = log]
    <3>1. server' \in [dbs : SUBSET AllDb, parts : Seq(Query), log : Seq(Entry)]
      BY <1>3, <2>1, <2>3
    <3> QED
      BY <2>1, <2>3, <3>1
  <2> QED
    BY <1>1, <2>2, <2>3
<1>6. TypeInv'
  BY <1>1, <1>4, <1>5 DEF TypeInv
<1>7. CallInv' /\ OpInv' /\ PageInv'
  BY <1>1, <1>4 DEF CallInv, OpInv, PageInv, Own
<1>8. DbInv'
  BY <1>1, <1>4, <1>5 DEF DbInv, Cur, Sel, Away
<1>9. CountInv'
  BY <1>1, <1>4, <1>5 DEF CountInv, Cur, Sel, Away
<1>10. LogInv'
  <2>1. searcher.terms # Nil
    BY <1>1 DEF LogInv
  <2>2. \A i \in DOMAIN log :
          \/ log[i] = entry
          \/ i \in DOMAIN server.log /\ log[i] = server.log[i]
    <3> SUFFICES ASSUME NEW i \in 1 .. Len(server.log) + 1
                 PROVE  \/ log[i] = entry
                        \/ i \in DOMAIN server.log /\ log[i] = server.log[i]
      BY <1>3
    <3>1. i \in 1 .. Len(server.log) \/ i = Len(server.log) + 1
      BY <1>3
    <3> QED
      BY <1>3, <3>1
  <2>3. ASSUME program.habit = {}
        PROVE  \A i \in DOMAIN server'.log : server'.log[i].terms.of = server.parts
    <3>1. /\ searcher.terms.of = server.parts
          /\ \A i \in DOMAIN server.log : server.log[i].terms.of = server.parts
      BY <2>1, <2>3 DEF LogInv
    <3>2. \A i \in DOMAIN log : log[i].terms.of = server.parts
      BY <1>2, <2>2, <3>1
    <3> QED
      BY <1>5, <3>1, <3>2
  <2> QED
    BY <1>1, <1>4, <1>5, <2>1, <2>3 DEF LogInv
<1> QED
  BY <1>6, <1>7, <1>8, <1>9, <1>10

-----------------------------------------------------------------------------
(* GetHotQuery and GetRelatedQuery                                         *)

LEMMA GetLogQueryInv ==
  ASSUME IInv, NEW k \in LogCall, NEW n \in Limits, GetLogQuery(k, n)
  PROVE  IInv'
<1> USE DEF IInv
<1>1. /\ call = Idle /\ call.step = "idle" /\ call.kind = "own" /\ call.todo = {}
      /\ calls' \in 0 .. MaxCalls
      /\ UNCHANGED <<server, searcher, program>>
  BY BeginFacts DEF GetLogQuery
<1>2. /\ call' \in [step : Own \cup Away \cup {"enter", "add", "panic"},
                    kind : {"own", "hot", "related"}, lim : Nat, op : Op, todo : SUBSET Db, thin : BOOLEAN]
      /\ call'.step = "enter" /\ call'.kind \in {"hot", "related"} /\ call'.todo = {}
      /\ call'.op = searcher.defaultOp
  BY CallAssumption DEF GetLogQuery, TypeInv
<1>3. TypeInv'
  BY <1>1, <1>2 DEF TypeInv
<1>4. CallInv' /\ OpInv' /\ PageInv'
  BY <1>1, <1>2 DEF CallInv, OpInv, PageInv, Own
<1>5. DbInv'
  BY <1>1, <1>2 DEF DbInv, Cur, Sel, Away
<1>6. CountInv'
  BY <1>1, <1>2 DEF CountInv, Cur, Sel, Away
<1>7. LogInv'
  BY <1>1, <1>2 DEF LogInv
<1> QED
  BY <1>3, <1>4, <1>5, <1>6, <1>7

\* The call ends before it has changed anything, or the server is at log_db.
LEMMA EnterLogInv ==
  ASSUME IInv, EnterLog
  PROVE  IInv'
<1> USE DEF IInv
<1>1. /\ call.step = "enter" /\ call.kind \in {"hot", "related"}
      /\ UNCHANGED <<program, calls>>
  BY DEF EnterLog, CallInv, Own, TypeInv
<1>2. CASE UNCHANGED <<server, searcher>> /\ call' = Idle
  <2>1. /\ call'.step = "idle" /\ call'.kind = "own" /\ call'.todo = {}
        /\ Idle \in [step : Own \cup Away \cup {"enter", "add", "panic"},
                     kind : {"own", "hot", "related"}, lim : Nat, op : Op, todo : SUBSET Db, thin : BOOLEAN]
    BY <1>2 DEF Idle, Op, Own
  <2>2. TypeInv'
    BY <1>1, <1>2, <2>1 DEF TypeInv
  <2>3. CallInv' /\ OpInv' /\ PageInv'
    BY <1>1, <1>2, <2>1 DEF CallInv, OpInv, PageInv, Own
  <2>4. DbInv'
    BY <1>1, <1>2, <2>1 DEF DbInv, Cur, Sel, Away
  <2>5. CountInv'
    BY <1>1, <1>2, <2>1 DEF CountInv, Cur, Sel, Away
  <2>6. LogInv'
    BY <1>1, <1>2, <2>1 DEF LogInv
  <2> QED
    BY <2>2, <2>3, <2>4, <2>5, <2>6
<1>3. CASE Switch(LogDb) /\ Goto("move")
  <2>1. /\ server' = [server EXCEPT !.dbs = {LogDb}]
        /\ searcher' = [searcher EXCEPT !.lastDB = searcher.curDB, !.curDB = LogDb]
        /\ call' = [call EXCEPT !.step = "move"]
    BY <1>3 DEF Switch, Goto
  <2>2. TypeInv'
    BY <1>1, <2>1 DEF TypeInv, AllDb, Away
  <2>3. CallInv' /\ OpInv' /\ PageInv'
    BY <1>1, <2>1 DEF TypeInv, CallInv, OpInv, PageInv, Own
  <2>4. DbInv'
    BY <1>1, <2>1 DEF TypeInv, DbInv, Cur, Sel, Away
  <2>5. CountInv'
    BY <1>1, <2>1 DEF TypeInv, CountInv, DbInv, Cur, Sel, Away
  <2>6. LogInv'
    BY <1>1, <2>1 DEF TypeInv, LogInv
  <2> QED
    BY <2>2, <2>3, <2>4, <2>5, <2>6
<1> QED
  BY <1>2, <1>3 DEF EnterLog, Refused

LEMMA MoveInv ==
  ASSUME IInv, Move
  PROVE  IInv'
<1> USE DEF IInv
<1>1. /\ call.step = "move" /\ call.kind \in {"hot", "related"}
      /\ UNCHANGED <<server, program, calls>>
      /\ call' = [call EXCEPT !.step = "search"]
  BY DEF Move, CallInv, Own, TypeInv, Goto
<1>2. Page(call.lim) \in Nat /\ call.lim + 1 \in Nat
  BY BoundAssumption DEF Page, TypeInv
<1>3. searcher' = IF call.kind = "hot" THEN [searcher EXCEPT !.limit = Page(call.lim)]
                  ELSE [searcher EXCEPT !.limit = call.lim + 1, !.defaultOp = "or"]
  BY DEF Move
<1>4. TypeInv'
  BY <1>1, <1>2, <1>3 DEF TypeInv, Away, Op
<1>5. CallInv'
  BY <1>1, <1>3 DEF TypeInv, CallInv, Own
<1>6. OpInv'
  BY <1>1, <1>3 DEF TypeInv, OpInv
<1>7. PageInv'
  BY <1>1, <1>2, <1>3 DEF TypeInv, PageInv
<1>8. DbInv'
  BY <1>1, <1>3 DEF TypeInv, DbInv, Cur, Sel, Away
<1>9. CountInv'
  BY <1>1, <1>3 DEF TypeInv, CountInv, Cur, Sel, Away
<1>10. LogInv'
  BY <1>1, <1>3 DEF TypeInv, LogInv
<1> QED
  BY <1>4, <1>5, <1>6, <1>7, <1>8, <1>9, <1>10

\* GetRelatedQuery has its queries before it comes to a document that is missing, if
\* all that should be on the page have come: it holds one document more than are
\* wanted, and the query itself is at most one of them.
LEMMA RelatedHasEnough ==
  ASSUME TypeInv, PageInv, call.step = "search", call.kind = "related", call.lim > 0,
         NEW m \in Nat, NEW same \in 0 .. Lesser(m, searcher.limit)
  PROVE  ~ReadsNil(m, Lesser(m, searcher.limit), same)
<1> DEFINE n == Lesser(m, searcher.limit)
           lim == call.lim
<1> SUFFICES ASSUME m > n
             PROVE  \E k \in 1 .. n : k # same /\ Collected(k, same) = lim
  BY DEF ReadsNil, Enough
<1>1. lim \in Nat \ {0} /\ searcher.limit = lim + 1
  BY DEF TypeInv, PageInv
<1>2. n = lim + 1
  BY <1>1 DEF Lesser
<1> HIDE DEF n, lim
<1>3. same \in 0 .. n
  BY DEF n
<1>4. CASE same \in 1 .. lim
  <2>1. n \in 1 .. n /\ n # same /\ same \in 1 .. n /\ n - 1 = lim
    BY <1>1, <1>2, <1>4
  <2>2. Collected(n, same) = lim
    BY <2>1 DEF Collected
  <2> QED
    BY <2>1, <2>2
<1>5. CASE same \notin 1 .. lim
  <2>1. lim \in 1 .. n /\ lim # same
    BY <1>1, <1>2, <1>3, <1>5
  <2>2. Collected(lim, same) = lim
    BY <1>5 DEF Collected
  <2> QED
    BY <2>1, <2>2
<1> QED
  BY <1>4, <1>5

LEMMA SearchLogInv ==
  ASSUME IInv, SearchLog
  PROVE  IInv'
<1> USE DEF IInv
<1>1. /\ call.step = "search" /\ call.kind \in {"hot", "related"}
      /\ UNCHANGED <<server, program, calls>>
  BY DEF SearchLog, CallInv, Own, TypeInv
<1>2. ASSUME NEW s \in {searcher} \cup {Found(m) : m \in 0 .. MaxMatches},
             searcher' = AfterLoop(s), Goto("restore")
      PROVE  IInv'
  <2>1. PICK last \in Nat, page \in Nat :
          s = [searcher EXCEPT !.lastCount = last, !.limit = page]
    <3>1. CASE s = searcher
      <4>1. /\ searcher.lastCount \in Nat /\ searcher.limit \in Nat
            /\ searcher = [searcher EXCEPT !.lastCount = searcher.lastCount,
                                           !.limit = searcher.limit]
        BY DEF TypeInv
      <4> QED
        BY <3>1, <4>1
    <3>2. ASSUME NEW m \in 0 .. MaxMatches, s = Found(m)
          PROVE  s = [searcher EXCEPT !.lastCount = m, !.limit = DefaultLimit]
      BY <3>2 DEF Found
    <3>3. DefaultLimit \in Nat /\ \A m \in 0 .. MaxMatches : m \in Nat
      BY BoundAssumption
    <3> QED
      BY <3>1, <3>2, <3>3
  <2>2. /\ searcher' = IF call.kind = "related" THEN [s EXCEPT !.defaultOp = call.op] ELSE s
        /\ call' = [call EXCEPT !.step = "restore"]
    BY <1>2 DEF AfterLoop, Goto
  <2>3. TypeInv'
    BY <1>1, <2>1, <2>2 DEF TypeInv, Away
  <2>4. CallInv'
    BY <1>1, <2>1, <2>2 DEF TypeInv, CallInv, Own
  <2>5. OpInv'
    BY <1>1, <2>1, <2>2 DEF TypeInv, OpInv
  <2>6. PageInv'
    BY <2>2 DEF TypeInv, PageInv
  <2>7. DbInv'
    BY <1>1, <2>1, <2>2 DEF TypeInv, DbInv, Cur, Sel, Away
  <2>8. CountInv'
    BY <1>1, <2>1, <2>2 DEF TypeInv, CountInv, Cur, Sel, Away
  <2>9. LogInv'
    BY <1>1, <2>1, <2>2 DEF TypeInv, LogInv
  <2> QED
    BY <2>3, <2>4, <2>5, <2>6, <2>7, <2>8, <2>9
<1>3. ASSUME NEW m \in 0 .. MaxMatches, NEW n \in 0 .. Lesser(m, searcher.limit),
             NEW same \in 0 .. n,
             ReadsNil(m, n, same),
             searcher' = Found(m),
             call' = [call EXCEPT !.step = "panic", !.thin = n < Lesser(m, searcher.limit)]
      PROVE  IInv'
  <2>1. /\ searcher' = [searcher EXCEPT !.lastCount = m, !.limit = DefaultLimit]
        /\ m \in Nat /\ DefaultLimit \in Nat
        /\ Lesser(m, searcher.limit) \in Nat /\ n \in Nat
        /\ (n < Lesser(m, searcher.limit)) \in BOOLEAN
    BY <1>3, BoundAssumption DEF Found, Lesser, TypeInv
  <2>2. call.lim > 0 /\ n >= Lesser(m, searcher.limit) => call.kind # "related"
    <3> SUFFICES ASSUME call.lim > 0, n >= Lesser(m, searcher.limit), call.kind = "related"
                 PROVE  FALSE
      OBVIOUS
    <3>1. n = Lesser(m, searcher.limit)
      BY <2>1
    <3> QED
      BY <1>1, <1>3, <2>1, <3>1, RelatedHasEnough
  <2>3. TypeInv'
    <3>1. PICK thin \in BOOLEAN : thin = (n < Lesser(m, searcher.limit))
      BY <2>1
    <3>2. call' = [call EXCEPT !.step = "panic", !.thin = thin]
      BY <1>3, <3>1
    <3>3. call' \in [step : Own \cup Away \cup {"enter", "add", "panic"},
                    kind : {"own", "hot", "related"}, lim : Nat, op : Op, todo : SUBSET Db,
                    thin : BOOLEAN]
      BY <3>2 DEF TypeInv
    <3>4. searcher' \in [curDB : AllDb, lastDB : AllDb, curDBs : SUBSET Db, defaultOp : Op,
                        limit : Nat, lastCount : Nat, query : Seq(Query),
                        count : Answer, terms : Answer]
      BY <2>1 DEF TypeInv
    <3>5. UNCHANGED <<server, program, calls>>
      BY <1>1
    <3> QED
      BY <3>3, <3>4, <3>5 DEF TypeInv
  <2>4. CallInv' /\ OpInv'
    BY <1>1, <1>3, <2>1 DEF TypeInv, CallInv, OpInv, Own
  <2>5. PageInv'
    <3>1. /\ call'.step = "panic" /\ call'.lim = call.lim /\ call'.kind = call.kind
          /\ call'.thin = (n < Lesser(m, searcher.limit))
      BY <1>3 DEF TypeInv
    <3>2. ~(n < Lesser(m, searcher.limit)) => n >= Lesser(m, searcher.limit)
      BY <2>1
    <3> QED
      BY <2>2, <3>1, <3>2 DEF PageInv
  <2>6. DbInv'
    BY <1>1, <1>3, <2>1 DEF TypeInv, DbInv
  <2>7. CountInv'
    BY <1>1, <1>3, <2>1 DEF TypeInv, CountInv
  <2>8. LogInv'
    BY <1>1, <1>3, <2>1 DEF TypeInv, LogInv
  <2> QED
    BY <2>3, <2>4, <2>5, <2>6, <2>7, <2>8
<1> QED
  BY <1>2, <1>3 DEF SearchLog

LEMMA RestoreInv ==
  ASSUME IInv, Restore
  PROVE  IInv'
<1> USE DEF IInv
<1>1. /\ call.step = "restore" /\ call.kind \in {"hot", "related"}
      /\ call' = [call EXCEPT !.step = "add", !.todo = searcher.curDBs]
      /\ UNCHANGED calls
  BY DEF Restore, CallInv, Own, TypeInv
<1>2. CASE UNCHANGED <<server, searcher>> /\ program' = [program EXCEPT !.lost = TRUE]
  <2>1. TypeInv'
    BY <1>1, <1>2 DEF TypeInv
  <2>2. CallInv' /\ OpInv' /\ PageInv'
    BY <1>1, <1>2 DEF TypeInv, CallInv, OpInv, PageInv, Own
  <2>3. DbInv'
    BY <1>1, <1>2 DEF TypeInv, DbInv
  <2>4. CountInv'
    BY <1>1, <1>2 DEF TypeInv, CountInv
  <2>5. LogInv'
    BY <1>1, <1>2 DEF TypeInv, LogInv
  <2> QED
    BY <2>1, <2>2, <2>3, <2>4, <2>5
<1>3. CASE Switch(searcher.lastDB) /\ UNCHANGED program
  <2>1. /\ server' = [server EXCEPT !.dbs = {searcher.lastDB}]
        /\ searcher' = [searcher EXCEPT !.lastDB = searcher.curDB, !.curDB = searcher.lastDB]
        /\ UNCHANGED program
    BY <1>3 DEF Switch
  <2>2. TypeInv'
    BY <1>1, <2>1 DEF TypeInv
  <2>3. CallInv' /\ OpInv' /\ PageInv'
    BY <1>1, <2>1 DEF TypeInv, CallInv, OpInv, PageInv, Own
  <2>4. DbInv'
    BY <1>1, <2>1 DEF TypeInv, DbInv, Cur, Sel, Away
  <2>5. CountInv'
    BY <1>1, <2>1 DEF TypeInv, CountInv, Cur, Sel, Away
  <2>6. LogInv'
    BY <1>1, <2>1 DEF TypeInv, LogInv
  <2> QED
    BY <2>2, <2>3, <2>4, <2>5, <2>6
<1> QED
  BY <1>2, <1>3 DEF Restore, Refused, Lose

LEMMA RestoreAddInv ==
  ASSUME IInv, NEW d \in Db, RestoreAdd(d)
  PROVE  IInv'
<1> USE DEF IInv
<1>1. /\ call.step = "add" /\ call.kind \in {"hot", "related"}
      /\ d \in call.todo
      /\ call' = [call EXCEPT !.todo = @ \ {d}]
      /\ UNCHANGED <<searcher, calls>>
  BY DEF RestoreAdd, Refused, CallInv, Own, TypeInv
<1>2. CASE UNCHANGED server /\ program' = [program EXCEPT !.lost = TRUE]
  <2>1. TypeInv'
    BY <1>1, <1>2 DEF TypeInv
  <2>2. CallInv' /\ OpInv' /\ PageInv'
    BY <1>1, <1>2 DEF TypeInv, CallInv, OpInv, PageInv, Own
  <2>3. DbInv'
    BY <1>1, <1>2 DEF TypeInv, DbInv
  <2>4. CountInv'
    BY <1>1, <1>2 DEF TypeInv, CountInv
  <2>5. LogInv'
    BY <1>1, <1>2 DEF TypeInv, LogInv
  <2> QED
    BY <2>1, <2>2, <2>3, <2>4, <2>5
<1>3. CASE server' = [server EXCEPT !.dbs = @ \cup {d}] /\ UNCHANGED program
  <2>1. /\ server' = [server EXCEPT !.dbs = server.dbs \cup {d}]
        /\ server.dbs \cup {d} \in SUBSET AllDb
    BY <1>3 DEF TypeInv, AllDb
  <2>2. TypeInv'
    BY <1>1, <1>3, <2>1 DEF TypeInv
  <2>3. CallInv' /\ OpInv' /\ PageInv'
    BY <1>1, <1>3 DEF TypeInv, CallInv, OpInv, PageInv, Own
  <2>4. DbInv'
    BY <1>1, <1>3, <2>1 DEF TypeInv, CallInv, DbInv, Cur, Sel, Away
  <2>5. CountInv'
    BY <1>1, <1>3, <2>1 DEF TypeInv, CountInv, Cur, Sel, Away
  <2>6. LogInv'
    BY <1>1, <1>3, <2>1 DEF TypeInv, LogInv
  <2> QED
    BY <2>2, <2>3, <2>4, <2>5, <2>6
<1> QED
  BY <1>2, <1>3 DEF RestoreAdd, Refused, Lose

LEMMA ReturnInv ==
  ASSUME IInv, Return
  PROVE  IInv'
<1> USE DEF IInv
<1>1. /\ call.step = "add" /\ call.todo = {} /\ call' = Idle
      /\ call.kind \in {"hot", "related"}
      /\ UNCHANGED <<server, searcher, program, calls>>
  BY DEF Return, CallInv, Own, TypeInv
<1>2. /\ call'.step = "idle" /\ call'.kind = "own" /\ call'.todo = {}
      /\ Idle \in [step : Own \cup Away \cup {"enter", "add", "panic"},
                   kind : {"own", "hot", "related"}, lim : Nat, op : Op, todo : SUBSET Db, thin : BOOLEAN]
  BY <1>1 DEF Idle, Op, Own
<1>3. TypeInv'
  BY <1>1, <1>2 DEF TypeInv
<1>4. CallInv' /\ OpInv' /\ PageInv'
  BY <1>1, <1>2 DEF CallInv, OpInv, PageInv, Own
<1>5. DbInv'
  BY <1>1, <1>2 DEF DbInv, Cur, Sel, Away
<1>6. CountInv'
  BY <1>1, <1>2 DEF CountInv, DbInv, Cur, Sel, Away
<1>7. LogInv'
  BY <1>1, <1>2 DEF LogInv
<1> QED
  BY <1>3, <1>4, <1>5, <1>6, <1>7

LEMMA NextInv ==
  ASSUME IInv, [Next]_vars
  PROVE  IInv'
<1>1. CASE UNCHANGED vars
  BY <1>1, Stuttering DEF vars, IInv, TypeInv
<1>2. CASE Next
  <2>1. CASE \E d \in Db : SetDB(d) \/ AddDB(d) \/ RestoreAdd(d)
    BY <2>1, SetDBInv, AddDBInv, RestoreAddInv
  <2>2. CASE \E o \in {"and", "or"} : Fuzzy(o)
    BY <2>2, FuzzyInv
  <2>3. CASE \E n \in Limits : Limit(n)
    BY <2>3, LimitInv
  <2>4. CASE \E q \in Query : SetQuery(q) \/ AddQueryString(q) \/ AddQueryTerm(q)
    BY <2>4, QueryInv
  <2>5. CASE \E q \in Arguments : Count(q) \/ Search(q) \/ Terms(q)
    BY <2>5, CountInvLemma, SearchInv, TermsInv
  <2>6. CASE \E k \in LogCall, n \in Limits : GetLogQuery(k, n)
    BY <2>6, GetLogQueryInv
  <2>7. CASE LogTerms \/ LogText \/ AddSearchLog \/ EnterLog \/ Move \/ SearchLog \/ Restore \/ Return
    BY <2>7, LogTermsInv, LogTextInv, AddSearchLogInv, EnterLogInv, MoveInv, SearchLogInv, RestoreInv,
       ReturnInv
  <2>8. CASE Done
    BY <1>1, <2>8 DEF Done
  <2> QED
    BY <1>2, <2>1, <2>2, <2>3, <2>4, <2>5, <2>6, <2>7, <2>8 DEF Next
<1> QED
  BY <1>1, <1>2

-----------------------------------------------------------------------------
(* Theorems                                                                *)

LEMMA Invariant == Spec => []IInv
BY InitInv, NextInv, PTL DEF Spec

\* Every variable has its type, and curDB is a database the server searches.
THEOREM TypeCorrect == Spec => []TypeOK
<1>1. IInv => TypeOK
  <2> SUFFICES ASSUME IInv
               PROVE  TypeOK
    OBVIOUS
  <2> QED
    BY DEF IInv, TypeInv, CallInv, DbInv, TypeOK, AllDb, Op, Own, Away, Entry
<1> QED
  BY <1>1, Invariant, PTL

\* Log queries leave the operator as the program chose it, whatever the server
\* refuses.
THEOREM OperatorKept == Spec => []OpKept
<1>1. IInv => OpKept
  BY DEF IInv, CallInv, OpInv, OpKept, Idle
<1> QED
  BY <1>1, Invariant, PTL

\* GetRelatedQuery, if it is to return a query at all and the server sends as many
\* documents as its estimate has on the page, never reads a document that Search has
\* not filled in, however many match.
THEOREM RelatedSafe == Spec => []RelatedReadsNoNil
<1>1. IInv => RelatedReadsNoNil
  BY DEF IInv, PageInv, RelatedReadsNoNil
<1> QED
  BY <1>1, Invariant, PTL

\* Log queries give the program its databases back, unless the server refuses a
\* restoring command or AddDB added one that SetDB then dropped.
THEOREM SelectionRestored == Spec => []SelectionKeptIfCurrent
<1>1. IInv => SelectionKeptIfCurrent
  BY DEF IInv, DbInv, SelectionKeptIfCurrent, SelectionKept, Cur, Sel, Away, Idle
<1> QED
  BY <1>1, Invariant, PTL

\* Count("") after a search for the default query is the count of that search.
THEOREM CountIsOfLastSearch == Spec => []CountOfLastSearch
<1>1. IInv => CountOfLastSearch
  <2> SUFFICES ASSUME IInv, Settled, program.current
               PROVE  searcher.count = Basis(<<>>)
    BY DEF CountOfLastSearch
  <2>1. searcher.count.of = server.parts /\ searcher.count.at = server.dbs
    BY DEF IInv, CountInv, Sel, Away, Settled, Idle
  <2>2. searcher.count \in Answer
    BY DEF IInv, TypeInv
  <2> QED
    BY <2>1, <2>2 DEF Answer, Basis
<1> QED
  BY <1>1, Invariant, PTL

\* The cached count of a program that builds its query and selects its databases
\* before it counts is about both as they are.
THEOREM CountIsFresh == Spec => []CountFreshIfBuilt
<1>1. IInv => CountFreshIfBuilt
  <2> SUFFICES ASSUME IInv, "change" \notin program.habit, Settled, searcher.count # Nil
               PROVE  searcher.count = Basis(<<>>)
    BY DEF CountFreshIfBuilt, CountFresh
  <2>1. searcher.count.of = server.parts /\ searcher.count.at = server.dbs
    BY DEF IInv, CountInv, Sel, Away, Settled, Idle
  <2>2. searcher.count \in Answer
    BY DEF IInv, TypeInv
  <2> QED
    BY <2>1, <2>2 DEF Answer, Basis
<1> QED
  BY <1>1, Invariant, PTL

\* Such a program, if it gives Terms no argument, has its searches logged with a text
\* made of terms of the query they were searches for, and of no others.
THEOREM LogIsTrue == Spec => []LogMatches
<1>1. IInv => LogMatches
  BY DEF IInv, LogInv, LogMatches
<1> QED
  BY <1>1, Invariant, PTL
=============================================================================
