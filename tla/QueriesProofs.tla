--------------------------- MODULE QueriesProofs ---------------------------
(***************************************************************************)
(* Theorems about module Queries, for every set of goroutines and          *)
(* Searchers, every assignment of the one to the other and every query.    *)
(***************************************************************************)
EXTENDS Queries, SequenceTheorems, TLAPS

-----------------------------------------------------------------------------
(* The inductive invariant                                                 *)

Pc == {"idle", "enter", "scan", "announce", "ask", "answer", "panic"}
Cmd == [cmd : {"prefix", "ask", "parse"}, of : Seq(Field)]
ThreadState == [pc : Pc, kind : {"ask", "parse"}, query : Seq(Field), todo : Seq(Field)]
SessionState ==
  [conn : {"open", "shut", "nil"}, lock : Thread \cup {None}, keys : SUBSET Field,
   buffer : Seq(Cmd), sent : Seq(Cmd)]

TypeInv ==
  /\ mux \in Thread \cup {None}
  /\ thread \in [Thread -> ThreadState]
  /\ session \in [Searcher -> SessionState]

\* The lock of query.go and that of a connection are held by those who will
\* release them.
LockInv ==
  \A t \in Thread : /\ mux = t <=> thread[t].pc \in {"scan", "announce"}
                    /\ Session(t).lock = t <=> thread[t].pc = "answer"

\* Whatever a query names has a key, or is still to be looked at; a field that is
\* being announced has none, for nobody else is in preQueryString.
TodoInv ==
  \A t \in Thread :
    /\ At(t, "announce") =>
         thread[t].todo # <<>> /\ Head(thread[t].todo) \notin Session(t).keys
    /\ thread[t].pc \in {"enter", "scan", "announce"} =>
         ToSet(thread[t].query) \subseteq Session(t).keys \cup ToSet(thread[t].todo)
    /\ At(t, "ask") => ToSet(thread[t].query) \subseteq Session(t).keys

\* cs is a sequence of commands such as PrefixedOnce asks for.
Ordered(cs) ==
  \A i \in DOMAIN cs :
    LET c == cs[i]
        before == {cs[j] : j \in 1 .. i - 1}
    IN IF c.cmd = "prefix" THEN c \notin before
       ELSE \A f \in ToSet(c.of) : Prefix(f) \in before

\* Only fields that have a key were announced; on an open connection all of them
\* were.
Good(ss) ==
  LET cs == ss.sent \o ss.buffer
  IN /\ Ordered(cs)
     /\ \A c \in ToSet(cs) : c.cmd = "prefix" => \E f \in ss.keys : c = Prefix(f)
     /\ ss.conn = "open" => \A f \in ss.keys : Prefix(f) \in ToSet(cs)

KeyInv == \A s \in Searcher : Good(session[s])

IInv == TypeInv /\ LockInv /\ TodoInv /\ KeyInv

-----------------------------------------------------------------------------
(* Sequences of commands                                                   *)

LEMMA OrderedAppend ==
  ASSUME NEW cs \in Seq(Cmd), Ordered(cs), NEW c \in Cmd,
         IF c.cmd = "prefix" THEN c \notin ToSet(cs)
         ELSE \A f \in ToSet(c.of) : Prefix(f) \in ToSet(cs)
  PROVE  Ordered(Append(cs, c))
<1> DEFINE ds == Append(cs, c)
<1>1. /\ ds \in Seq(Cmd) /\ Len(ds) = Len(cs) + 1 /\ Len(cs) \in Nat
      /\ \A i \in 1 .. Len(cs) : ds[i] = cs[i]
      /\ ds[Len(cs) + 1] = c
      /\ DOMAIN ds = 1 .. Len(cs) + 1 /\ DOMAIN cs = 1 .. Len(cs)
  BY AppendProperties
<1> HIDE DEF ds
<1>2. ASSUME NEW i \in 1 .. Len(cs) + 1
      PROVE  {ds[j] : j \in 1 .. i - 1} = {cs[j] : j \in 1 .. i - 1}
  BY <1>1
<1>3. {cs[j] : j \in 1 .. (Len(cs) + 1) - 1} = ToSet(cs)
  BY <1>1 DEF ToSet
<1> SUFFICES ASSUME NEW i \in 1 .. Len(cs) + 1
             PROVE  IF ds[i].cmd = "prefix" THEN ds[i] \notin {ds[j] : j \in 1 .. i - 1}
                    ELSE \A f \in ToSet(ds[i].of) : Prefix(f) \in {ds[j] : j \in 1 .. i - 1}
  BY <1>1 DEF Ordered, ds
<1>4. CASE i \in 1 .. Len(cs)
  <2>1. ds[i] = cs[i] /\ {ds[j] : j \in 1 .. i - 1} = {cs[j] : j \in 1 .. i - 1}
    BY <1>1, <1>2, <1>4
  <2>2. IF cs[i].cmd = "prefix" THEN cs[i] \notin {cs[j] : j \in 1 .. i - 1}
        ELSE \A f \in ToSet(cs[i].of) : Prefix(f) \in {cs[j] : j \in 1 .. i - 1}
    BY <1>1, <1>4 DEF Ordered
  <2> QED
    BY <2>1, <2>2
<1>5. CASE i = Len(cs) + 1
  <2>1. ds[i] = c /\ {ds[j] : j \in 1 .. i - 1} = ToSet(cs)
    BY <1>1, <1>2, <1>3, <1>5
  <2> QED
    BY <2>1
<1> QED
  BY <1>1, <1>4, <1>5

LEMMA ToSetAppend ==
  ASSUME NEW S, NEW s \in Seq(S), NEW e \in S
  PROVE  ToSet(Append(s, e)) = ToSet(s) \cup {e}
<1>1. /\ Len(Append(s, e)) = Len(s) + 1 /\ Len(s) \in Nat
      /\ \A i \in 1 .. Len(s) : Append(s, e)[i] = s[i]
      /\ Append(s, e)[Len(s) + 1] = e
      /\ DOMAIN Append(s, e) = 1 .. Len(s) + 1 /\ DOMAIN s = 1 .. Len(s)
  BY AppendProperties
<1>2. \A i \in 1 .. Len(s) + 1 : i \in 1 .. Len(s) \/ i = Len(s) + 1
  BY <1>1
<1>3. Len(s) + 1 \in 1 .. Len(s) + 1 /\ \A i \in 1 .. Len(s) : i \in 1 .. Len(s) + 1
  BY <1>1
<1> QED
  BY <1>1, <1>2, <1>3 DEF ToSet

LEMMA ToSetHeadTail ==
  ASSUME NEW S, NEW s \in Seq(S), s # <<>>
  PROVE  /\ Head(s) \in S /\ Tail(s) \in Seq(S)
         /\ Head(s) \in ToSet(s)
         /\ ToSet(s) \subseteq {Head(s)} \cup ToSet(Tail(s))
<1> DEFINE t == Tail(s)
<1>1. /\ Head(s) \in S /\ t \in Seq(S) /\ Len(t) = Len(s) - 1 /\ Len(s) \in Nat \ {0}
      /\ \A i \in 1 .. Len(t) : t[i] = s[i + 1]
      /\ DOMAIN s = 1 .. Len(s) /\ DOMAIN t = 1 .. Len(t)
      /\ Head(s) = s[1]
  BY HeadTailProperties
<1> HIDE DEF t
<1>2. 1 \in 1 .. Len(s)
  BY <1>1
<1>3. ASSUME NEW i \in 1 .. Len(s), i # 1
      PROVE  i - 1 \in 1 .. Len(t) /\ t[i - 1] = s[i]
  <2>1. i - 1 \in 1 .. Len(t) /\ (i - 1) + 1 = i
    BY <1>1, <1>3
  <2> QED
    BY <1>1, <2>1
<1>4. ToSet(s) \subseteq {Head(s)} \cup ToSet(t)
  BY <1>1, <1>3 DEF ToSet
<1> QED
  BY <1>1, <1>2, <1>4 DEF ToSet, t

LEMMA ConcatType ==
  ASSUME NEW S, NEW a \in Seq(S), NEW b \in Seq(S)
  PROVE  a \o b \in Seq(S)
BY ConcatProperties

LEMMA ConcatAppend ==
  ASSUME NEW S, NEW a \in Seq(S), NEW b \in Seq(S), NEW e \in S
  PROVE  /\ Append(a \o b, e) = a \o Append(b, e)
         /\ a \o b \o <<e>> = Append(a \o b, e)
         /\ a \o <<>> = a
<1>1. a \o b \in Seq(S) /\ <<e>> \in Seq(S)
  BY ConcatType
<1>2. a \o b \o <<e>> = Append(a \o b, e)
  BY <1>1, AppendIsConcat
<1>3. a \o b \o <<e>> = a \o (b \o <<e>>)
  BY <1>1, ConcatAssociative
<1>4. b \o <<e>> = Append(b, e)
  BY AppendIsConcat
<1>5. a \o <<>> = a
  BY ConcatEmptySeq
<1> QED
  BY <1>2, <1>3, <1>4, <1>5

-----------------------------------------------------------------------------
(* What happens to one Searcher                                            *)

\* The server gets one command more.
LEMMA GoodAppend ==
  ASSUME NEW ss \in SessionState, NEW tt \in SessionState, NEW c \in Cmd, Good(ss),
         ss.conn = "open",
         tt.sent \o tt.buffer = Append(ss.sent \o ss.buffer, c),
         \/ c.cmd # "prefix" /\ ToSet(c.of) \subseteq ss.keys /\ tt.keys = ss.keys
         \/ \E f \in Field \ ss.keys : c = Prefix(f) /\ tt.keys = ss.keys \cup {f}
  PROVE  Good(tt)
<1> DEFINE cs == ss.sent \o ss.buffer
           ds == tt.sent \o tt.buffer
<1>1. cs \in Seq(Cmd)
  BY ConcatType DEF SessionState
<1>2. ds = Append(cs, c)
  OBVIOUS
<1>3. /\ Ordered(cs)
      /\ \A d \in ToSet(cs) : d.cmd = "prefix" => \E f \in ss.keys : d = Prefix(f)
      /\ \A f \in ss.keys : Prefix(f) \in ToSet(cs)
  BY DEF Good
<1> HIDE DEF cs, ds
<1>4. ToSet(ds) = ToSet(cs) \cup {c}
  BY <1>1, <1>2, ToSetAppend
<1>5. CASE c.cmd # "prefix" /\ ToSet(c.of) \subseteq ss.keys /\ tt.keys = ss.keys
  <2>1. Ordered(ds)
    BY <1>1, <1>2, <1>3, <1>5, OrderedAppend
  <2> QED
    BY <2>1, <1>3, <1>4, <1>5 DEF Good, ds
<1>6. ASSUME NEW f \in Field \ ss.keys, c = Prefix(f), tt.keys = ss.keys \cup {f}
      PROVE  Good(tt)
  <2>1. c.cmd = "prefix" /\ \A g : c = Prefix(g) => g = f
    BY <1>6 DEF Prefix
  <2>2. c \notin ToSet(cs)
    BY <2>1, <1>3, <1>6
  <2>3. Ordered(ds)
    BY <2>1, <2>2, <1>1, <1>2, <1>3, OrderedAppend
  <2> QED
    BY <2>3, <1>3, <1>4, <1>6 DEF Good, ds
<1> QED
  BY <1>5, <1>6

\* It gets none.
LEMMA GoodKept ==
  ASSUME NEW ss, NEW tt, Good(ss),
         tt.sent \o tt.buffer = ss.sent \o ss.buffer,
         ss.keys \subseteq tt.keys,
         tt.conn = "open" => ss.conn = "open" /\ tt.keys = ss.keys
  PROVE  Good(tt)
<1> DEFINE cs == ss.sent \o ss.buffer
<1>1. /\ Ordered(cs)
      /\ \A c \in ToSet(cs) : c.cmd = "prefix" => \E f \in ss.keys : c = Prefix(f)
      /\ ss.conn = "open" => \A f \in ss.keys : Prefix(f) \in ToSet(cs)
  BY DEF Good
<1>2. tt.sent \o tt.buffer = cs
  OBVIOUS
<1> HIDE DEF cs
<1> QED
  BY <1>1, <1>2 DEF Good

\* A step that changes neither the Searchers nor a goroutine's query keeps KeyInv.
LEMMA KeyKept ==
  ASSUME KeyInv, UNCHANGED session
  PROVE  KeyInv'
BY DEF KeyInv

\* A step that changes one Searcher.
LEMMA KeyStep ==
  ASSUME KeyInv, NEW s \in Searcher, Good(session'[s]),
         \A r \in Searcher : r # s => session'[r] = session[r]
  PROVE  KeyInv'
BY DEF KeyInv

-----------------------------------------------------------------------------
(* The invariant is inductive                                              *)

LEMMA InitInv == Init => IInv
<1> SUFFICES ASSUME Init
             PROVE  IInv
  OBVIOUS
<1>1. TypeInv
  BY DEF Init, TypeInv, ThreadState, SessionState, Pc, Idle
<1>2. LockInv
  BY UseAssumption, SilentAssumption DEF Init, LockInv, Idle, Session
<1>3. TodoInv
  BY DEF Init, TodoInv, At, Idle
<1>4. ASSUME NEW s \in Searcher
      PROVE  Good(session[s])
  <2>1. session[s].sent \o session[s].buffer = <<>> /\ session[s].keys = {}
    <3>1. <<>> \o <<>> = <<>>
      BY ConcatEmptySeq, EmptySeq
    <3> QED
      BY <3>1 DEF Init
  <2>2. DOMAIN <<>> = {} /\ ToSet(<<>>) = {}
    BY DEF ToSet
  <2> QED
    BY <2>1, <2>2 DEF Good, Ordered
<1> QED
  BY <1>1, <1>2, <1>3, <1>4 DEF IInv, KeyInv

LEMMA SessionOf ==
  ASSUME TypeInv, NEW t \in Thread
  PROVE  /\ UsedBy[t] \in Searcher
         /\ session[UsedBy[t]] \in SessionState
         /\ thread[t] \in ThreadState
BY UseAssumption DEF TypeInv

\* A step of one goroutine that changes neither the Searchers nor mux.
LEMMA CallInv ==
  ASSUME IInv, NEW t \in Thread, NEW q \in Asked, NEW kind \in {"ask", "parse"},
         Call(t, q, kind)
  PROVE  IInv'
<1> USE DEF IInv
<1>1. q \in Seq(Field)
  BY QueryAssumption
<1>2. /\ UNCHANGED <<mux, session>>
      /\ thread[t].pc = "idle"
      /\ thread' = [thread EXCEPT ![t] = [pc |-> "enter", kind |-> kind, query |-> q, todo |-> q]]
  BY DEF Call, At
<1>3. TypeInv'
  BY <1>1, <1>2 DEF TypeInv, ThreadState, Pc
<1>4. thread \in [Thread -> ThreadState]
  BY DEF TypeInv
<1>5. LockInv'
  BY <1>2, <1>4 DEF LockInv, Session
<1>6. TodoInv'
  BY <1>2, <1>4 DEF TodoInv, At, Session
<1>7. KeyInv'
  BY <1>2, KeyKept
<1> QED
  BY <1>3, <1>5, <1>6, <1>7

LEMMA EnterInv ==
  ASSUME IInv, NEW t \in Thread, Enter(t)
  PROVE  IInv'
<1> USE DEF IInv
<1>1. /\ UNCHANGED session /\ mux = None /\ mux' = t
      /\ thread[t].pc = "enter" /\ thread' = [thread EXCEPT ![t].pc = "scan"]
  BY DEF Enter, At, Goto
<1>2. thread \in [Thread -> ThreadState] /\ thread[t] \in ThreadState
  BY DEF TypeInv
<1>3. TypeInv'
  BY <1>1, <1>2 DEF TypeInv, ThreadState, Pc
<1>4. LockInv'
  <2> SUFFICES ASSUME NEW u \in Thread
               PROVE  /\ mux' = u <=> thread'[u].pc \in {"scan", "announce"}
                      /\ session[UsedBy[u]].lock = u <=> thread'[u].pc = "answer"
    BY <1>1 DEF LockInv, Session
  <2>1. /\ mux = u <=> thread[u].pc \in {"scan", "announce"}
        /\ session[UsedBy[u]].lock = u <=> thread[u].pc = "answer"
    BY DEF LockInv, Session
  <2>2. mux # u
    BY <1>1, SilentAssumption
  <2>3. CASE u = t
    BY <1>1, <1>2, <2>1, <2>3
  <2>4. CASE u # t
    BY <1>1, <1>2, <2>1, <2>2, <2>4
  <2> QED
    BY <2>3, <2>4
<1>5. TodoInv'
  BY <1>1, <1>2 DEF TodoInv, At, Session, ThreadState
<1>6. KeyInv'
  BY <1>1, KeyKept
<1> QED
  BY <1>3, <1>4, <1>5, <1>6

LEMMA PanicInv ==
  ASSUME IInv, NEW t \in Thread, Panic(t), thread[t].pc \in {"scan", "ask"}
  PROVE  IInv'
<1> USE DEF IInv
<1>1. /\ UNCHANGED session /\ mux' = IF mux = t THEN None ELSE mux
      /\ thread' = [thread EXCEPT ![t].pc = "panic"]
  BY DEF Panic, Goto
<1>2. thread \in [Thread -> ThreadState] /\ thread[t] \in ThreadState
  BY DEF TypeInv
<1>3. TypeInv'
  BY <1>1, <1>2 DEF TypeInv, ThreadState, Pc
<1>4. LockInv'
  <2> SUFFICES ASSUME NEW u \in Thread
               PROVE  /\ mux' = u <=> thread'[u].pc \in {"scan", "announce"}
                      /\ session[UsedBy[u]].lock = u <=> thread'[u].pc = "answer"
    BY <1>1 DEF LockInv, Session
  <2>1. /\ mux = u <=> thread[u].pc \in {"scan", "announce"}
        /\ session[UsedBy[u]].lock = u <=> thread[u].pc = "answer"
    BY DEF LockInv, Session
  <2>2. None # u
    BY SilentAssumption
  <2>3. CASE u = t
    BY <1>1, <1>2, <2>1, <2>2, <2>3
  <2>4. CASE u # t
    BY <1>1, <1>2, <2>1, <2>2, <2>4
  <2> QED
    BY <2>3, <2>4
<1>5. TodoInv'
  BY <1>1, <1>2 DEF TodoInv, At, Session, ThreadState
<1>6. KeyInv'
  BY <1>1, KeyKept
<1> QED
  BY <1>3, <1>4, <1>5, <1>6

\* A field that has its key is passed over, one that has none is announced.
LEMMA ScanInv ==
  ASSUME IInv, NEW t \in Thread, Scan(t)
  PROVE  IInv'
<1> DEFINE f == Head(thread[t].todo)
<1>1. thread[t].pc = "scan" /\ thread[t].todo # <<>>
  BY DEF Scan, At
<1>2. /\ thread \in [Thread -> ThreadState] /\ thread[t] \in ThreadState
      /\ thread[t].todo \in Seq(Field)
  BY DEF IInv, TypeInv, ThreadState
<1>3. /\ f \in Field /\ Tail(thread[t].todo) \in Seq(Field)
      /\ ToSet(thread[t].todo) \subseteq {f} \cup ToSet(Tail(thread[t].todo))
  BY <1>1, <1>2, ToSetHeadTail
<1>4. CASE /\ f \in Session(t).keys
           /\ thread' = [thread EXCEPT ![t].todo = Tail(@)]
           /\ UNCHANGED <<mux, session>>
  <2>1. TypeInv'
    BY <1>2, <1>3, <1>4 DEF IInv, TypeInv, ThreadState
  <2>2. LockInv'
    BY <1>2, <1>4 DEF IInv, LockInv, Session, ThreadState
  <2>3. TodoInv'
    <3> SUFFICES ASSUME NEW u \in Thread
                 PROVE  /\ thread'[u].pc = "announce" =>
                             /\ thread'[u].todo # <<>>
                             /\ Head(thread'[u].todo) \notin session[UsedBy[u]].keys
                        /\ thread'[u].pc \in {"enter", "scan", "announce"} =>
                             ToSet(thread'[u].query) \subseteq
                               session[UsedBy[u]].keys \cup ToSet(thread'[u].todo)
                        /\ thread'[u].pc = "ask" =>
                             ToSet(thread'[u].query) \subseteq session[UsedBy[u]].keys
      BY <1>4 DEF TodoInv, At, Session
    <3>1. CASE u # t
      BY <1>2, <1>4, <3>1 DEF IInv, TodoInv, At, Session
    <3>2. CASE u = t
      <4>1. /\ thread'[t].pc = "scan" /\ thread'[t].query = thread[t].query
            /\ thread'[t].todo = Tail(thread[t].todo)
        BY <1>1, <1>2, <1>4 DEF ThreadState
      <4>2. ToSet(thread[t].query) \subseteq session[UsedBy[t]].keys \cup ToSet(thread[t].todo)
        BY <1>1 DEF IInv, TodoInv, Session
      <4> QED
        BY <1>3, <1>4, <3>2, <4>1, <4>2 DEF Session
    <3> QED
      BY <3>1, <3>2
  <2>4. KeyInv'
    BY <1>4, KeyKept DEF IInv
  <2> QED
    BY <2>1, <2>2, <2>3, <2>4 DEF IInv
<1>5. CASE f \notin Session(t).keys /\ Goto(t, "announce") /\ UNCHANGED <<mux, session>>
  <2>1. thread' = [thread EXCEPT ![t].pc = "announce"]
    BY <1>5 DEF Goto
  <2>2. TypeInv'
    BY <1>2, <1>5, <2>1 DEF IInv, TypeInv, ThreadState, Pc
  <2>3. LockInv'
    BY <1>1, <1>2, <1>5, <2>1 DEF IInv, LockInv, Session, ThreadState
  <2>4. TodoInv'
    BY <1>1, <1>2, <1>5, <2>1 DEF IInv, TodoInv, At, Session, ThreadState
  <2>5. KeyInv'
    BY <1>5, KeyKept DEF IInv
  <2> QED
    BY <2>2, <2>3, <2>4, <2>5 DEF IInv
<1>6. CASE Panic(t)
  BY <1>1, <1>6, PanicInv
<1> QED
  BY <1>4, <1>5, <1>6 DEF Scan

\* The announced field gets its key; if the connection is open, the server gets its
\* prefix.  No other goroutine is announcing.
LEMMA AnnounceInv ==
  ASSUME IInv, NEW t \in Thread, Announce(t)
  PROVE  IInv'
<1> DEFINE s == UsedBy[t]
           f == Head(thread[t].todo)
           ss == session[s]
<1>1. /\ thread[t].pc = "announce" /\ UNCHANGED mux
      /\ thread' = [thread EXCEPT ![t].pc = "scan", ![t].todo = Tail(@)]
      /\ session' = [session EXCEPT
           ![s].keys = @ \cup {f},
           ![s].buffer = IF ss.conn = "open" THEN Append(@, Prefix(f)) ELSE @]
  BY DEF Announce, At, Session
<1>2. /\ thread \in [Thread -> ThreadState] /\ thread[t] \in ThreadState
      /\ thread[t].todo \in Seq(Field)
      /\ session \in [Searcher -> SessionState] /\ s \in Searcher /\ ss \in SessionState
      /\ ss.buffer \in Seq(Cmd) /\ ss.sent \in Seq(Cmd) /\ ss.keys \subseteq Field
  BY SessionOf DEF IInv, TypeInv, ThreadState, SessionState
<1>3. thread[t].todo # <<>> /\ f \notin ss.keys
  BY <1>1 DEF IInv, TodoInv, At, Session
<1>4. /\ f \in Field /\ Tail(thread[t].todo) \in Seq(Field)
      /\ ToSet(thread[t].todo) \subseteq {f} \cup ToSet(Tail(thread[t].todo))
  BY <1>2, <1>3, ToSetHeadTail
<1>5. Prefix(f) \in Cmd
  <2>1. <<f>> \in Seq(Field)
    BY <1>4
  <2> QED
    BY <2>1 DEF Prefix, Cmd
<1> DEFINE tt == session'[s]
           buf == IF ss.conn = "open" THEN Append(ss.buffer, Prefix(f)) ELSE ss.buffer
<1>6. buf \in Seq(Cmd)
  BY <1>2, <1>5
<1>7. tt = [ss EXCEPT !.keys = @ \cup {f}, !.buffer = buf]
  BY <1>1, <1>2
<1>8. /\ tt \in SessionState /\ tt.keys = ss.keys \cup {f} /\ tt.buffer = buf
      /\ tt.conn = ss.conn /\ tt.lock = ss.lock /\ tt.sent = ss.sent
  <2>1. ss.keys \cup {f} \in SUBSET Field
    BY <1>2, <1>4
  <2> HIDE DEF ss, tt, f, buf
  <2> QED
    BY <1>2, <1>6, <1>7, <2>1 DEF SessionState
<1>9. \A r \in Searcher : r # s => session'[r] = session[r]
  BY <1>1, <1>2
<1>10. session' \in [Searcher -> SessionState]
  BY <1>1, <1>2, <1>8, <1>9
<1>11. \A u \in Thread : u # t => thread'[u] = thread[u]
  BY <1>1, <1>2
<1>12. /\ thread'[t].pc = "scan" /\ thread'[t].todo = Tail(thread[t].todo)
       /\ thread'[t].query = thread[t].query
       /\ thread' \in [Thread -> ThreadState]
  BY <1>1, <1>2, <1>4 DEF ThreadState, Pc
<1>13. TypeInv'
  BY <1>1, <1>10, <1>12 DEF IInv, TypeInv
<1>14. \A r \in Searcher : session'[r].lock = session[r].lock /\ session[r].keys \subseteq session'[r].keys
  BY <1>8, <1>9
<1>15. LockInv'
  <2> SUFFICES ASSUME NEW u \in Thread
               PROVE  /\ mux' = u <=> thread'[u].pc \in {"scan", "announce"}
                      /\ session'[UsedBy[u]].lock = u <=> thread'[u].pc = "answer"
    BY DEF LockInv, Session
  <2>1. /\ mux = u <=> thread[u].pc \in {"scan", "announce"}
        /\ session[UsedBy[u]].lock = u <=> thread[u].pc = "answer"
    BY DEF IInv, LockInv, Session
  <2>2. session'[UsedBy[u]].lock = session[UsedBy[u]].lock
    BY <1>14, UseAssumption
  <2> QED
    BY <1>1, <1>11, <1>12, <2>1, <2>2
<1>16. TodoInv'
  <2> SUFFICES ASSUME NEW u \in Thread
               PROVE  /\ thread'[u].pc = "announce" =>
                           /\ thread'[u].todo # <<>>
                           /\ Head(thread'[u].todo) \notin session'[UsedBy[u]].keys
                      /\ thread'[u].pc \in {"enter", "scan", "announce"} =>
                           ToSet(thread'[u].query) \subseteq
                             session'[UsedBy[u]].keys \cup ToSet(thread'[u].todo)
                      /\ thread'[u].pc = "ask" =>
                           ToSet(thread'[u].query) \subseteq session'[UsedBy[u]].keys
    BY DEF TodoInv, At, Session
  <2>1. session[UsedBy[u]].keys \subseteq session'[UsedBy[u]].keys
    BY <1>14, UseAssumption
  <2>2. CASE u # t
    <3>1. thread[u].pc # "announce"
      BY <1>1, <2>2 DEF IInv, LockInv
    <3> QED
      BY <1>11, <2>1, <2>2, <3>1 DEF IInv, TodoInv, At, Session
  <2>3. CASE u = t
    <3>1. ToSet(thread[t].query) \subseteq ss.keys \cup ToSet(thread[t].todo)
      BY <1>1 DEF IInv, TodoInv, Session
    <3>2. ToSet(thread[t].query) \subseteq tt.keys \cup ToSet(Tail(thread[t].todo))
      BY <1>4, <1>8, <3>1
    <3> QED
      BY <1>12, <2>3, <3>2
  <2> QED
    BY <2>2, <2>3
<1>17. Good(ss)
  BY <1>2 DEF IInv, KeyInv
<1>18. Good(tt)
  <2>1. CASE ss.conn = "open"
    <3>1. tt.sent \o tt.buffer = Append(ss.sent \o ss.buffer, Prefix(f))
      <4>1. Append(ss.sent \o ss.buffer, Prefix(f)) = ss.sent \o Append(ss.buffer, Prefix(f))
        <5> DEFINE d == Prefix(f)
                   a == ss.sent
                   b == ss.buffer
        <5>1. a \in Seq(Cmd) /\ b \in Seq(Cmd) /\ d \in Cmd
          BY <1>2, <1>5
        <5> HIDE DEF a, b, d
        <5>2. Append(a \o b, d) = a \o Append(b, d)
          BY <5>1, ConcatAppend
        <5> QED
          BY <5>2 DEF a, b, d
      <4> QED
        BY <1>8, <2>1, <4>1
    <3>2. f \in Field \ ss.keys
      BY <1>3, <1>4
    <3> HIDE DEF tt, ss, f
    <3> QED
      BY <1>2, <1>5, <1>8, <1>17, <2>1, <3>1, <3>2, GoodAppend
  <2>2. CASE ss.conn # "open"
    <3>1. tt.sent \o tt.buffer = ss.sent \o ss.buffer
      BY <1>8, <2>2
    <3> HIDE DEF tt, ss, f
    <3> QED
      BY <1>8, <1>17, <2>2, <3>1, GoodKept
  <2> QED
    BY <2>1, <2>2
<1>19. KeyInv'
  BY <1>2, <1>9, <1>18, KeyStep DEF IInv
<1> QED
  BY <1>13, <1>15, <1>16, <1>19 DEF IInv

\* All fields of the query have their keys.
LEMMA LeaveInv ==
  ASSUME IInv, NEW t \in Thread, Leave(t)
  PROVE  IInv'
<1> USE DEF IInv
<1>1. /\ UNCHANGED session /\ mux' = None
      /\ thread[t].pc = "scan" /\ thread[t].todo = <<>>
      /\ thread' = [thread EXCEPT ![t].pc = "ask"]
  BY DEF Leave, At, Goto
<1>2. thread \in [Thread -> ThreadState] /\ thread[t] \in ThreadState
  BY DEF TypeInv
<1>3. TypeInv'
  BY <1>1, <1>2 DEF TypeInv, ThreadState, Pc
<1>4. LockInv'
  <2> SUFFICES ASSUME NEW u \in Thread
               PROVE  /\ mux' = u <=> thread'[u].pc \in {"scan", "announce"}
                      /\ session[UsedBy[u]].lock = u <=> thread'[u].pc = "answer"
    BY <1>1 DEF LockInv, Session
  <2>1. /\ mux = u <=> thread[u].pc \in {"scan", "announce"}
        /\ session[UsedBy[u]].lock = u <=> thread[u].pc = "answer"
        /\ mux = t
    BY <1>1 DEF LockInv, Session
  <2>2. None # u
    BY SilentAssumption
  <2>3. CASE u = t
    BY <1>1, <1>2, <2>1, <2>2, <2>3
  <2>4. CASE u # t
    BY <1>1, <1>2, <2>1, <2>2, <2>4
  <2> QED
    BY <2>3, <2>4
<1>5. ToSet(thread[t].query) \subseteq Session(t).keys
  <2>1. ToSet(thread[t].query) \subseteq Session(t).keys \cup ToSet(<<>>)
    BY <1>1 DEF TodoInv
  <2>2. DOMAIN <<>> = {} /\ ToSet(<<>>) = {}
    BY DEF ToSet
  <2> QED
    BY <2>1, <2>2
<1>6. TodoInv'
  BY <1>1, <1>2, <1>5 DEF TodoInv, At, Session, ThreadState
<1>7. KeyInv'
  BY <1>1, KeyKept
<1> QED
  BY <1>3, <1>4, <1>6, <1>7

\* The query goes out after the prefixes of its fields, or is cached after them.
LEMMA AskInv ==
  ASSUME IInv, NEW t \in Thread, Ask(t)
  PROVE  IInv'
<1> DEFINE s == UsedBy[t]
           ss == session[s]
           tt == session'[s]
           c == Command(t)
           l == IF thread[t].kind = "ask" THEN t ELSE ss.lock
           pc1 == IF thread[t].kind = "ask" THEN "answer" ELSE "idle"
<1>1. /\ thread[t].pc = "ask" /\ UNCHANGED mux /\ ss.lock = None /\ ss.conn = "open"
  BY DEF Ask, At, Session
<1>2. /\ thread \in [Thread -> ThreadState] /\ thread[t] \in ThreadState
      /\ session \in [Searcher -> SessionState] /\ s \in Searcher /\ ss \in SessionState
      /\ ss.buffer \in Seq(Cmd) /\ ss.sent \in Seq(Cmd) /\ ss.keys \subseteq Field
  BY SessionOf DEF IInv, TypeInv, SessionState
<1>3. c \in Cmd /\ c.cmd # "prefix" /\ c.of = thread[t].query
  BY <1>2 DEF Command, Cmd, ThreadState
<1>4. ToSet(c.of) \subseteq ss.keys
  BY <1>1, <1>3 DEF IInv, TodoInv, At, Session
<1>5. /\ thread' = [thread EXCEPT ![t].pc = pc1]
      /\ tt \in SessionState
      /\ \A r \in Searcher : r # s => session'[r] = session[r]
      /\ session' \in [Searcher -> SessionState]
      /\ tt.conn = ss.conn /\ tt.keys = ss.keys /\ tt.lock = l
      /\ tt.sent \o tt.buffer = Append(ss.sent \o ss.buffer, c)
  <2>1. /\ Append(ss.sent \o ss.buffer, c) = ss.sent \o Append(ss.buffer, c)
        /\ ss.sent \o ss.buffer \o <<c>> = Append(ss.sent \o ss.buffer, c)
        /\ Append(ss.buffer, c) \in Seq(Cmd)
        /\ ss.sent \o ss.buffer \o <<c>> \in Seq(Cmd)
        /\ ss.sent \o ss.buffer \o <<c>> \o <<>> = ss.sent \o ss.buffer \o <<c>>
    <3>1. <<c>> \in Seq(Cmd) /\ <<>> \in Seq(Cmd)
      BY <1>3
    <3>2. ss.sent \o ss.buffer \in Seq(Cmd) /\ ss.sent \o ss.buffer \o <<c>> \in Seq(Cmd)
      BY <1>2, <3>1, ConcatType
    <3>3. ss.sent \o ss.buffer \o <<c>> \o <<>> = ss.sent \o ss.buffer \o <<c>>
      BY <3>2, ConcatEmptySeq
    <3>4. Append(ss.buffer, c) \in Seq(Cmd)
      BY <1>2, <1>3, AppendProperties
    <3> DEFINE a == ss.sent
               b == ss.buffer
    <3>5. a \in Seq(Cmd) /\ b \in Seq(Cmd)
      BY <1>2
    <3>6. /\ Append(a \o b, c) = a \o Append(b, c)
          /\ a \o b \o <<c>> = Append(a \o b, c)
      <4> HIDE DEF a, b, c
      <4>1. Append(a \o b, c) = a \o Append(b, c)
        BY <1>3, <3>5, ConcatAppend
      <4>2. a \o b \o <<c>> = Append(a \o b, c)
        BY <1>3, <3>5, ConcatAppend
      <4> QED
        BY <4>1, <4>2
    <3> QED
      BY <3>2, <3>3, <3>4, <3>6
  <2>2. CASE /\ thread[t].kind = "ask"
             /\ session' = [session EXCEPT
                  ![s].lock = t, ![s].sent = @ \o ss.buffer \o <<c>>, ![s].buffer = <<>>]
             /\ Goto(t, "answer")
    <3>1. tt = [ss EXCEPT !.lock = t, !.sent = @ \o ss.buffer \o <<c>>, !.buffer = <<>>]
      BY <1>2, <2>2
    <3>2. \A r \in Searcher : r # s => session'[r] = session[r]
      BY <1>2, <2>2
    <3>3. /\ tt.lock = t /\ tt.sent = ss.sent \o ss.buffer \o <<c>> /\ tt.buffer = <<>>
          /\ tt.conn = ss.conn /\ tt.keys = ss.keys
          /\ tt \in SessionState
      <4> DEFINE all == ss.sent \o ss.buffer \o <<c>>
      <4> HIDE DEF ss, c
      <4>a. all \in Seq(Cmd)
        BY <2>1
      <4> HIDE DEF all
      <4>1. all \in Seq(Cmd) /\ <<>> \in Seq(Cmd) /\ t \in Thread \cup {None}
        BY <4>a
      <4> USE DEF ss, c, all
      <4>2. tt = [ss EXCEPT !.lock = t, !.sent = all, !.buffer = <<>>]
        BY <3>1
      <4> HIDE DEF tt, ss, c, all
      <4>3. tt.lock = t /\ tt.sent = all /\ tt.buffer = <<>> /\ tt.conn = ss.conn /\ tt.keys = ss.keys
        BY <1>2, <4>2 DEF SessionState
      <4>4. tt \in SessionState
        BY <1>2, <4>1, <4>2 DEF SessionState
      <4> QED
        BY <4>3, <4>4 DEF all
    <3>4. session' \in [Searcher -> SessionState]
      BY <1>2, <2>2, <3>2, <3>3
    <3>5. tt.sent \o tt.buffer = Append(ss.sent \o ss.buffer, c)
      BY <2>1, <3>3
    <3> QED
      BY <2>2, <3>2, <3>3, <3>4, <3>5 DEF Goto
  <2>3. CASE /\ thread[t].kind = "parse"
             /\ session' = [session EXCEPT ![s].buffer = Append(@, c)]
             /\ Goto(t, "idle")
    <3>1. tt = [ss EXCEPT !.buffer = Append(@, c)]
      BY <1>2, <2>3
    <3>2. \A r \in Searcher : r # s => session'[r] = session[r]
      BY <1>2, <2>3
    <3>3. /\ tt.lock = ss.lock /\ tt.sent = ss.sent /\ tt.buffer = Append(ss.buffer, c)
          /\ tt.conn = ss.conn /\ tt.keys = ss.keys
          /\ tt \in SessionState
      <4> HIDE DEF tt, ss, c
      <4> QED
        BY <1>2, <2>1, <3>1 DEF SessionState
    <3>4. session' \in [Searcher -> SessionState]
      BY <1>2, <2>3, <3>2, <3>3
    <3>5. tt.sent \o tt.buffer = Append(ss.sent \o ss.buffer, c)
      BY <2>1, <3>3
    <3> QED
      BY <2>3, <3>2, <3>3, <3>4, <3>5 DEF Goto
  <2> QED
    BY <2>2, <2>3 DEF Ask, Session
<1> HIDE DEF c, tt
<1>6. /\ thread' \in [Thread -> ThreadState]
      /\ thread'[t].pc = pc1 /\ thread'[t].query = thread[t].query
      /\ \A u \in Thread : u # t => thread'[u] = thread[u]
  BY <1>2, <1>5 DEF ThreadState, Pc
<1>7. TypeInv'
  BY <1>1, <1>5, <1>6 DEF IInv, TypeInv
<1>8. LockInv'
  <2> SUFFICES ASSUME NEW u \in Thread
               PROVE  /\ mux' = u <=> thread'[u].pc \in {"scan", "announce"}
                      /\ session'[UsedBy[u]].lock = u <=> thread'[u].pc = "answer"
    BY DEF LockInv, Session
  <2>1. /\ mux = u <=> thread[u].pc \in {"scan", "announce"}
        /\ session[UsedBy[u]].lock = u <=> thread[u].pc = "answer"
    BY DEF IInv, LockInv, Session
  <2>2. None # u /\ None # t /\ UsedBy[u] \in Searcher
    BY SilentAssumption, UseAssumption
  <2>3. CASE u = t
    <3>1. session'[UsedBy[u]].lock = l
      BY <1>5, <2>3 DEF tt
    <3> QED
      BY <1>1, <1>6, <2>1, <2>2, <2>3, <3>1
  <2>4. CASE u # t /\ UsedBy[u] = s
    <3>1. session'[UsedBy[u]].lock = l /\ session[UsedBy[u]].lock = None
      BY <1>1, <1>5, <2>4 DEF tt
    <3> QED
      BY <1>1, <1>6, <2>1, <2>2, <2>4, <3>1
  <2>5. CASE u # t /\ UsedBy[u] # s
    BY <1>1, <1>5, <1>6, <2>1, <2>2, <2>5
  <2> QED
    BY <2>3, <2>4, <2>5
<1>9. TodoInv'
  <2>1. \A r \in Searcher : session'[r].keys = session[r].keys
    BY <1>5 DEF tt
  <2> SUFFICES ASSUME NEW u \in Thread
               PROVE  /\ thread'[u].pc = "announce" =>
                           /\ thread'[u].todo # <<>>
                           /\ Head(thread'[u].todo) \notin session'[UsedBy[u]].keys
                      /\ thread'[u].pc \in {"enter", "scan", "announce"} =>
                           ToSet(thread'[u].query) \subseteq
                             session'[UsedBy[u]].keys \cup ToSet(thread'[u].todo)
                      /\ thread'[u].pc = "ask" =>
                           ToSet(thread'[u].query) \subseteq session'[UsedBy[u]].keys
    BY DEF TodoInv, At, Session
  <2>2. session'[UsedBy[u]].keys = session[UsedBy[u]].keys
    BY <2>1, UseAssumption
  <2>3. CASE u # t
    BY <1>6, <2>2, <2>3 DEF IInv, TodoInv, At, Session
  <2>4. CASE u = t
    BY <1>6, <2>4
  <2> QED
    BY <2>3, <2>4
<1>10. KeyInv'
  <2>1. Good(ss)
    BY <1>2 DEF IInv, KeyInv
  <2>2. Good(tt)
    <3> HIDE DEF ss
    <3> QED
      BY <1>1, <1>2, <1>3, <1>4, <1>5, <2>1, GoodAppend
  <2> QED
    BY <1>2, <1>5, <2>2, KeyStep DEF IInv, tt
<1> QED
  BY <1>7, <1>8, <1>9, <1>10 DEF IInv

\* The call fails, or panics.
LEMMA AskClosedInv ==
  ASSUME IInv, NEW t \in Thread, AskClosed(t)
  PROVE  IInv'
<1>1. thread[t].pc = "ask"
  BY DEF AskClosed, At
<1>2. CASE Panic(t)
  BY <1>1, <1>2, PanicInv
<1>3. CASE Goto(t, "idle") /\ UNCHANGED <<mux, session>>
  <2>1. /\ thread' = [thread EXCEPT ![t].pc = "idle"] /\ UNCHANGED <<mux, session>>
        /\ thread \in [Thread -> ThreadState] /\ thread[t] \in ThreadState
    BY <1>3 DEF Goto, IInv, TypeInv
  <2>2. TypeInv'
    BY <2>1 DEF IInv, TypeInv, ThreadState, Pc
  <2>3. LockInv'
    BY <1>1, <2>1 DEF IInv, LockInv, Session, ThreadState
  <2>4. TodoInv'
    BY <2>1 DEF IInv, TodoInv, At, Session, ThreadState
  <2>5. KeyInv'
    BY <2>1, KeyKept DEF IInv
  <2> QED
    BY <2>2, <2>3, <2>4, <2>5 DEF IInv
<1> QED
  BY <1>2, <1>3 DEF AskClosed

\* The lock of the connection is released by the goroutine that holds it.
LEMMA ReturnInv ==
  ASSUME IInv, NEW t \in Thread, Return(t)
  PROVE  IInv'
<1> DEFINE s == UsedBy[t]
<1>1. /\ thread[t].pc = "answer" /\ UNCHANGED mux
      /\ session' = [session EXCEPT ![s].lock = None]
      /\ thread' = [thread EXCEPT ![t].pc = "idle"]
  BY DEF Return, At, Goto
<1>2. /\ thread \in [Thread -> ThreadState] /\ thread[t] \in ThreadState
      /\ session \in [Searcher -> SessionState] /\ s \in Searcher /\ session[s] \in SessionState
  BY SessionOf DEF IInv, TypeInv
<1>3. /\ session' \in [Searcher -> SessionState]
      /\ session'[s].lock = None
      /\ \A r \in Searcher : r # s => session'[r] = session[r]
      /\ \A r \in Searcher : /\ session'[r].keys = session[r].keys
                             /\ session'[r].sent = session[r].sent
                             /\ session'[r].buffer = session[r].buffer
                             /\ session'[r].conn = session[r].conn
  BY <1>1, <1>2 DEF SessionState
<1>4. /\ thread' \in [Thread -> ThreadState]
      /\ thread'[t].pc = "idle"
      /\ \A u \in Thread : u # t => thread'[u] = thread[u]
  BY <1>1, <1>2 DEF ThreadState, Pc
<1>5. TypeInv'
  BY <1>1, <1>3, <1>4 DEF IInv, TypeInv
<1>6. LockInv'
  <2> SUFFICES ASSUME NEW u \in Thread
               PROVE  /\ mux' = u <=> thread'[u].pc \in {"scan", "announce"}
                      /\ session'[UsedBy[u]].lock = u <=> thread'[u].pc = "answer"
    BY DEF LockInv, Session
  <2>1. /\ mux = u <=> thread[u].pc \in {"scan", "announce"}
        /\ session[UsedBy[u]].lock = u <=> thread[u].pc = "answer"
        /\ session[s].lock = t
    BY <1>1 DEF IInv, LockInv, Session
  <2>2. None # u /\ UsedBy[u] \in Searcher
    BY SilentAssumption, UseAssumption
  <2>3. CASE u = t
    BY <1>1, <1>3, <1>4, <2>1, <2>2, <2>3
  <2>4. CASE u # t
    BY <1>1, <1>3, <1>4, <2>1, <2>2, <2>4
  <2> QED
    BY <2>3, <2>4
<1>7. TodoInv'
  <2> SUFFICES ASSUME NEW u \in Thread
               PROVE  /\ thread'[u].pc = "announce" =>
                           /\ thread'[u].todo # <<>>
                           /\ Head(thread'[u].todo) \notin session'[UsedBy[u]].keys
                      /\ thread'[u].pc \in {"enter", "scan", "announce"} =>
                           ToSet(thread'[u].query) \subseteq
                             session'[UsedBy[u]].keys \cup ToSet(thread'[u].todo)
                      /\ thread'[u].pc = "ask" =>
                           ToSet(thread'[u].query) \subseteq session'[UsedBy[u]].keys
    BY DEF TodoInv, At, Session
  <2>1. session'[UsedBy[u]].keys = session[UsedBy[u]].keys
    BY <1>3, UseAssumption
  <2>2. CASE u # t
    BY <1>4, <2>1, <2>2 DEF IInv, TodoInv, At, Session
  <2>3. CASE u = t
    BY <1>4, <2>3
  <2> QED
    BY <2>2, <2>3
<1>8. KeyInv'
  <2>1. Good(session[s])
    BY <1>2 DEF IInv, KeyInv
  <2>2. Good(session'[s])
    BY <1>2, <1>3, <2>1, GoodKept
  <2> QED
    BY <1>2, <1>3, <2>2, KeyStep DEF IInv
<1> QED
  BY <1>5, <1>6, <1>7, <1>8 DEF IInv

\* From then on the connection takes no command.
LEMMA CloseInv ==
  ASSUME IInv, NEW t \in Thread, Close(t)
  PROVE  IInv'
<1> DEFINE s == UsedBy[t]
<1>1. UNCHANGED <<mux, thread>>
  BY DEF Close
<1>2. PICK to \in {"shut", "nil"} : session' = [session EXCEPT ![s].conn = to]
  BY DEF Close
<1>3. session \in [Searcher -> SessionState] /\ s \in Searcher /\ session[s] \in SessionState
  BY SessionOf DEF IInv, TypeInv
<1>4. /\ session' \in [Searcher -> SessionState]
      /\ session'[s].conn # "open"
      /\ \A r \in Searcher : r # s => session'[r] = session[r]
      /\ \A r \in Searcher : /\ session'[r].keys = session[r].keys
                             /\ session'[r].sent = session[r].sent
                             /\ session'[r].buffer = session[r].buffer
                             /\ session'[r].lock = session[r].lock
  BY <1>2, <1>3 DEF SessionState
<1>5. TypeInv'
  BY <1>1, <1>4 DEF IInv, TypeInv
<1>6. \A u \in Thread : /\ session'[UsedBy[u]].keys = session[UsedBy[u]].keys
                        /\ session'[UsedBy[u]].lock = session[UsedBy[u]].lock
  BY <1>4, UseAssumption
<1>7. LockInv'
  BY <1>1, <1>6 DEF IInv, LockInv, Session
<1>8. TodoInv'
  BY <1>1, <1>6 DEF IInv, TodoInv, At, Session
<1>9. KeyInv'
  <2>1. Good(session[s])
    BY <1>3 DEF IInv, KeyInv
  <2>2. Good(session'[s])
    BY <1>3, <1>4, <2>1, GoodKept
  <2> QED
    BY <1>3, <1>4, <2>2, KeyStep DEF IInv
<1> QED
  BY <1>5, <1>7, <1>8, <1>9 DEF IInv

LEMMA NextInv ==
  ASSUME IInv, [Next]_vars
  PROVE  IInv'
<1>1. CASE UNCHANGED vars
  <2>1. UNCHANGED <<mux, thread, session>>
    BY <1>1 DEF vars
  <2>2. TypeInv'
    BY <2>1 DEF IInv, TypeInv
  <2>3. LockInv'
    BY <2>1 DEF IInv, LockInv, Session
  <2>4. TodoInv'
    BY <2>1 DEF IInv, TodoInv, At, Session
  <2>5. KeyInv'
    BY <2>1, KeyKept DEF IInv
  <2> QED
    BY <2>2, <2>3, <2>4, <2>5 DEF IInv
<1>2. CASE \E t \in Thread, q \in Asked, kind \in {"ask", "parse"} : Call(t, q, kind)
  BY <1>2, CallInv
<1>3. ASSUME NEW t \in Thread, Step(t) \/ Acquire(t) \/ Close(t)
      PROVE  IInv'
  BY <1>3, ScanInv, LeaveInv, AskClosedInv, ReturnInv, EnterInv, AnnounceInv, AskInv, CloseInv
     DEF Step, Acquire
<1> QED
  BY <1>1, <1>2, <1>3 DEF Next

-----------------------------------------------------------------------------
(* Theorems                                                                *)

\* Every variable has its type; the lock of query.go is held by the goroutine that
\* is in preQueryString and no other, that of a connection by the one that awaits
\* an answer on it: each will release it.
THEOREM TypeCorrect == Spec => []TypeOK
<1>1. IInv => TypeOK
  <2> SUFFICES ASSUME IInv
               PROVE  TypeOK
    OBVIOUS
  <2>1. \A t \in Thread :
          /\ thread[t].pc \in {"idle", "enter", "scan", "announce", "ask", "answer", "panic"}
          /\ (mux = t) = (thread[t].pc \in {"scan", "announce"})
          /\ (Session(t).lock = t) = (thread[t].pc = "answer")
    BY DEF IInv, TypeInv, LockInv, ThreadState, Pc
  <2>2. \A s \in Searcher : /\ session[s].conn \in {"open", "shut", "nil"}
                            /\ session[s].lock \in Thread \cup {None}
    BY DEF IInv, TypeInv, SessionState
  <2> QED
    BY <2>1, <2>2 DEF TypeOK, IInv, TypeInv
<1> QED
  BY <1>1, InitInv, NextInv, PTL DEF Spec

\* A server gets the prefix of a field once, and before the first query that names
\* it, however many goroutines use its Searcher and others.
THEOREM Prefixed == Spec => []PrefixedOnce
<1>1. IInv => PrefixedOnce
  BY DEF IInv, KeyInv, Good, Ordered, PrefixedOnce, Cmds
<1> QED
  BY <1>1, InitInv, NextInv, PTL DEF Spec
=============================================================================
