--------------------------- MODULE IndexerProofs ---------------------------
(***************************************************************************)
(* Theorems about modules IndexBuffer and IndexDocs: for every set of      *)
(* databases, every size of the buffer and of the commands; for any        *)
(* goroutines and any number of documents with any number of parts.        *)
(***************************************************************************)
EXTENDS IndexBuffer, IndexDocs, SequenceTheorems, FiniteSetTheorems, TLAPS

Executed == [no : Nat, kind : Kind, meant : Db, hit : Db]

-----------------------------------------------------------------------------
(* The synonym buffer: the inductive invariant                             *)

\* The numbers of the commands that were executed, and those of the synonyms.
Done == {changes[i].no : i \in DOMAIN changes}
DoneSynonyms == {changes[i].no : i \in {j \in DOMAIN changes : changes[j].kind = "synonym"}}
Numbers(s) == {s[i].no : i \in DOMAIN s}
SynonymNumbers(s) == {s[i].no : i \in {j \in DOMAIN s : s[j].kind = "synonym"}}

\* The commands s are numbered upwards, none of them was executed before, and
\* no synonym among them is older than one that was executed.
Due(s) ==
  /\ \A i, j \in DOMAIN s : i < j => s[i].no < s[j].no
  /\ \A i \in DOMAIN s : s[i].no \notin Done /\ \A k \in DoneSynonyms : k < s[i].no

\* No command has a number that was not given out yet, and the bound leaves one
\* for each command of the current call.
Numbered ==
  /\ issued + Len(todo) <= MaxCmds
  /\ \A k \in Done : k <= issued
  /\ \A i \in DOMAIN buffer : buffer[i].no <= issued /\ buffer[i].kind = "synonym"

IInv ==
  /\ TypeOK /\ Numbered /\ Due(buffer)
  /\ AtMostOnce /\ SynonymsInOrder /\ LossIsReported

-----------------------------------------------------------------------------
(* Execution of a sequence of commands                                     *)

\* What executed becomes when the first n of the commands s take effect.
LEMMA Executing ==
  ASSUME TypeOK, NEW s \in Seq(Command), NEW n \in 0 .. Len(s),
         changes' = changes \o Effects(SubSeq(s, 1, n))
  PROVE  /\ changes' \in Seq(Executed)
         /\ DOMAIN changes = 1 .. Len(changes) /\ Len(changes) \in Nat
         /\ DOMAIN changes' = 1 .. Len(changes) + n
         /\ DOMAIN s = 1 .. Len(s)
         /\ \A i \in DOMAIN changes : changes'[i] = changes[i]
         /\ \A i \in 1 .. n : changes'[Len(changes) + i] = Effect(s[i])
<1>1. /\ Len(s) \in Nat /\ DOMAIN s = 1 .. Len(s) /\ \A i \in 1 .. Len(s) : s[i] \in Command
  BY LenProperties, ElementOfSeq
<1> DEFINE t == SubSeq(s, 1, n)
<1>2. t \in Seq(Command) /\ Len(t) = n /\ \A i \in 1 .. n : t[i] = s[i]
  BY <1>1, SubSeqProperties
<1>3. DOMAIN t = 1 .. n
  BY <1>2, LenProperties
<1>4. \A i \in 1 .. n : Effect(t[i]) \in Executed
  <2> SUFFICES ASSUME NEW i \in 1 .. n
               PROVE  Effect(t[i]) \in Executed
    OBVIOUS
  <2>1. t[i] \in Command /\ db \in Db
    BY <1>1, <1>2 DEF TypeOK
  <2> QED
    BY <2>1 DEF Effect, Executed, Command
<1> HIDE DEF t
<1>5. Effects(t) = [i \in 1 .. n |-> Effect(t[i])]
  BY <1>3 DEF Effects
<1>6. /\ Effects(t) \in Seq(Executed) /\ Len(Effects(t)) = n
      /\ \A i \in 1 .. n : Effects(t)[i] = Effect(s[i])
  <2>1. [i \in 1 .. n |-> Effect(t[i])] \in Seq(Executed)
    BY <1>1, <1>4, IsASeq
  <2>2. \A i \in 1 .. n : [j \in 1 .. n |-> Effect(t[j])][i] = Effect(s[i])
    BY <1>2
  <2>3. Len(Effects(t)) = n
    BY <1>1, <1>5, <2>1, LenProperties
  <2> QED
    BY <1>5, <2>1, <2>2, <2>3
<1> DEFINE u == Effects(t)
<1>7. changes \in Seq(Executed) /\ changes' = changes \o u
  BY DEF TypeOK, Executed, t
<1>8. u \in Seq(Executed) /\ Len(u) = n /\ \A i \in 1 .. n : u[i] = Effect(s[i])
  BY <1>6
<1> HIDE DEF u
<1>9. /\ changes' \in Seq(Executed) /\ Len(changes') = Len(changes) + n
      /\ \A i \in 1 .. Len(changes) + n :
           changes'[i] = IF i <= Len(changes) THEN changes[i] ELSE u[i - Len(changes)]
  <2>1. /\ changes \o u \in Seq(Executed) /\ Len(changes \o u) = Len(changes) + Len(u)
        /\ \A i \in 1 .. Len(changes) + Len(u) :
             (changes \o u)[i] = IF i <= Len(changes) THEN changes[i] ELSE u[i - Len(changes)]
    BY <1>7, <1>8, ConcatProperties
  <2> QED
    BY <1>7, <1>8, <2>1
<1>10. /\ Len(changes) \in Nat /\ DOMAIN changes = 1 .. Len(changes)
       /\ DOMAIN changes' = 1 .. Len(changes) + n
  BY <1>7, <1>9, LenProperties
<1> DEFINE m == Len(changes)
<1>11. n \in Nat /\ m \in Nat
  BY <1>1, <1>10
<1> HIDE DEF m
<1>12. \A i \in 1 .. m : changes'[i] = changes[i]
  BY <1>9, <1>11 DEF m
<1>13. \A i \in 1 .. n : changes'[m + i] = u[i]
  <2> SUFFICES ASSUME NEW i \in 1 .. n
               PROVE  changes'[m + i] = u[i]
    OBVIOUS
  <2>1. m + i \in 1 .. m + n /\ ~(m + i <= m) /\ (m + i) - m = i
    BY <1>11
  <2>2. \A k \in 1 .. m + n : changes'[k] = IF k <= m THEN changes[k] ELSE u[k - m]
    BY <1>9 DEF m
  <2> QED
    BY <2>1, <2>2
<1> QED
  BY <1>1, <1>8, <1>9, <1>10, <1>12, <1>13 DEF m

\* A longer executed keeps the order if what is added was due.
LEMMA LongerInOrder ==
  ASSUME NEW m \in Nat, NEW n \in Nat, NEW s,
         DOMAIN changes = 1 .. m, DOMAIN changes' = 1 .. m + n, 1 .. n \subseteq DOMAIN s,
         \A i \in 1 .. m : changes'[i] = changes[i],
         \A i \in 1 .. n : changes'[m + i].no = s[i].no /\ changes'[m + i].kind = s[i].kind,
         \A i \in 1 .. n : s[i].no \in Nat,
         AtMostOnce, SynonymsInOrder, Due(s)
  PROVE  AtMostOnce' /\ SynonymsInOrder'
<1>1. ASSUME NEW i \in 1 .. m + n, ~(i \in 1 .. m)
      PROVE  /\ i - m \in 1 .. n
             /\ changes'[i].no = s[i - m].no /\ changes'[i].kind = s[i - m].kind
  <2>1. i - m \in 1 .. n /\ m + (i - m) = i
    BY <1>1
  <2> QED
    BY <2>1
<1>2. ASSUME NEW i \in 1 .. m + n, NEW j \in 1 .. m + n, i < j
      PROVE  /\ changes'[i].no # changes'[j].no
             /\ changes'[i].kind = "synonym" /\ changes'[j].kind = "synonym" =>
                  changes'[i].no < changes'[j].no
  <2>1. CASE j \in 1 .. m
    <3>1. i \in 1 .. m /\ i # j
      BY <1>2, <2>1
    <3> QED
      BY <1>2, <2>1, <3>1 DEF AtMostOnce, SynonymsInOrder
  <2>2. CASE i \in 1 .. m /\ ~(j \in 1 .. m)
    <3>1. j - m \in DOMAIN s /\ changes'[j].no = s[j - m].no
      BY <1>1, <2>2
    <3>2. changes[i].no \in Done /\ (changes[i].kind = "synonym" => changes[i].no \in DoneSynonyms)
      BY <2>2 DEF Done, DoneSynonyms
    <3> QED
      BY <2>2, <3>1, <3>2 DEF Due
  <2>3. CASE ~(i \in 1 .. m)
    <3>1. ~(j \in 1 .. m) /\ i - m < j - m
      BY <1>2, <2>3
    <3>2. /\ i - m \in 1 .. n /\ changes'[i].no = s[i - m].no
          /\ j - m \in 1 .. n /\ changes'[j].no = s[j - m].no
      BY <1>1, <2>3, <3>1
    <3>3. s[i - m].no < s[j - m].no
      BY <3>1, <3>2 DEF Due
    <3> QED
      BY <3>2, <3>3
  <2> QED
    BY <2>1, <2>2, <2>3
<1>3. AtMostOnce'
  <2>1. \A i, j \in 1 .. m + n : i # j => i < j \/ j < i
    OBVIOUS
  <2> QED
    BY <1>2, <2>1 DEF AtMostOnce
<1>4. SynonymsInOrder'
  BY <1>2 DEF SynonymsInOrder
<1> QED
  BY <1>3, <1>4

\* Commands that are due may be executed, all of them or some.
LEMMA ExecutingDue ==
  ASSUME TypeOK, AtMostOnce, SynonymsInOrder,
         NEW s \in Seq(Command), Due(s), NEW n \in 0 .. Len(s),
         changes' = changes \o Effects(SubSeq(s, 1, n))
  PROVE  /\ changes' \in Seq(Executed)
         /\ AtMostOnce' /\ SynonymsInOrder'
         /\ Done \subseteq Done' /\ Done' \subseteq Done \cup Numbers(s)
         /\ DoneSynonyms' \subseteq DoneSynonyms \cup SynonymNumbers(s)
         /\ n = Len(s) => Numbers(s) \subseteq Done'
<1> DEFINE m == Len(changes)
<1>1. /\ changes' \in Seq(Executed)
      /\ DOMAIN changes = 1 .. m /\ m \in Nat
      /\ DOMAIN changes' = 1 .. m + n
      /\ DOMAIN s = 1 .. Len(s)
      /\ \A i \in 1 .. m : changes'[i] = changes[i]
      /\ \A i \in 1 .. n : changes'[m + i] = Effect(s[i])
  BY Executing
<1>2. n \in Nat /\ 1 .. n \subseteq DOMAIN s /\ \A i \in 1 .. n : s[i].no \in Nat
  <2>1. Len(s) \in Nat /\ DOMAIN s = 1 .. Len(s)
    BY LenProperties
  <2>2. n \in Nat /\ 1 .. n \subseteq 1 .. Len(s)
    BY <2>1
  <2>3. \A i \in 1 .. n : s[i] \in Command
    BY <2>2, ElementOfSeq
  <2> QED
    BY <2>1, <2>2, <2>3 DEF Command
<1>3. \A i \in 1 .. n : changes'[m + i].no = s[i].no /\ changes'[m + i].kind = s[i].kind
  <2>1. \A i \in 1 .. n : Effect(s[i]).no = s[i].no /\ Effect(s[i]).kind = s[i].kind
    BY DEF Effect
  <2> QED
    BY <1>1, <2>1
<1> HIDE DEF m
<1>4. AtMostOnce' /\ SynonymsInOrder'
  BY <1>1, <1>2, <1>3, LongerInOrder
<1>5. ASSUME NEW i \in 1 .. m + n
      PROVE  i \in 1 .. m \/ (i - m \in 1 .. n /\ m + (i - m) = i)
  BY <1>1, <1>2
<1>6. \A i \in 1 .. m : i \in 1 .. m + n
  BY <1>1, <1>2
<1>7. \A k \in 1 .. n : m + k \in 1 .. m + n
  BY <1>1, <1>2
<1>8. Done \subseteq Done'
  BY <1>1, <1>6 DEF Done
<1>9. /\ Done' \subseteq Done \cup Numbers(s)
      /\ DoneSynonyms' \subseteq DoneSynonyms \cup SynonymNumbers(s)
  <2> SUFFICES ASSUME NEW i \in 1 .. m + n
               PROVE  /\ changes'[i].no \in Done \cup Numbers(s)
                      /\ changes'[i].kind = "synonym" =>
                           changes'[i].no \in DoneSynonyms \cup SynonymNumbers(s)
    <3>1. \A k \in Done' : \E i \in 1 .. m + n : k = changes'[i].no
      BY <1>1 DEF Done
    <3>2. \A k \in DoneSynonyms' : \E i \in 1 .. m + n : k = changes'[i].no /\ changes'[i].kind = "synonym"
      BY <1>1 DEF DoneSynonyms
    <3> QED
      BY <3>1, <3>2
  <2>1. CASE i \in 1 .. m
    BY <1>1, <2>1 DEF Done, DoneSynonyms
  <2>2. CASE i - m \in 1 .. n /\ m + (i - m) = i
    <3>1. changes'[i].no = s[i - m].no /\ changes'[i].kind = s[i - m].kind /\ i - m \in DOMAIN s
      BY <1>2, <1>3, <2>2
    <3> QED
      BY <3>1 DEF Numbers, SynonymNumbers
  <2> QED
    BY <1>5, <2>1, <2>2
<1>10. n = Len(s) => Numbers(s) \subseteq Done'
  <2> SUFFICES ASSUME n = Len(s), NEW k \in DOMAIN s
               PROVE  s[k].no \in Done'
    BY DEF Numbers
  <2>1. k \in 1 .. n
    BY <1>1
  <2>2. changes'[m + k].no = s[k].no /\ m + k \in DOMAIN changes'
    BY <1>1, <1>3, <1>7, <2>1
  <2> QED
    BY <2>2 DEF Done
<1> QED
  BY <1>1, <1>4, <1>8, <1>9, <1>10

-----------------------------------------------------------------------------
(* The synonym buffer: steps                                               *)

LEMMA InitInv == Init => IInv
<1> SUFFICES ASSUME Init
             PROVE  IInv
  OBVIOUS
<1>1. TypeOK
  <2>1. /\ buffer \in Seq(Command) /\ todo \in Seq(CmdSize) /\ Len(buffer) = 0
        /\ changes \in Seq([no : Nat, kind : Kind, meant : Db, hit : Db])
    BY EmptySeq DEF Init
  <2>2. {conn, open, failed} \subseteq BOOLEAN
    BY DEF Init
  <2>3. issued \in 0 .. MaxCmds /\ used \in Nat /\ db \in Db
    BY BoundAssumption DEF Init
  <2> QED
    BY <2>1, <2>2, <2>3 DEF Init, TypeOK
<1>2. DOMAIN buffer = {} /\ Done = {} /\ DoneSynonyms = {}
  BY DEF Init, Done, DoneSynonyms
<1>3. 1 .. issued = {} /\ issued + Len(todo) <= MaxCmds
  BY BoundAssumption, EmptySeq DEF Init
<1> QED
  BY <1>1, <1>2, <1>3
  DEF Init, IInv, Numbered, Due, AtMostOnce, SynonymsInOrder, LossIsReported

\* The command that a call is about to issue.
LEMMA NewCommand ==
  ASSUME TypeOK, Numbered, NEW k \in Kind, NEW size \in CmdSize
  PROVE  /\ New(k, size) \in Command /\ <<New(k, size)>> \in Seq(Command)
         /\ Due(<<New(k, size)>>)
         /\ New(k, size).no = issued + 1 /\ New(k, size).kind = k
<1> DEFINE c == New(k, size)
<1>1. issued \in Nat /\ db \in Db
  BY BoundAssumption DEF TypeOK
<1>2. c \in Command /\ c.no = issued + 1 /\ c.kind = k
  BY <1>1 DEF New, Command
<1> HIDE DEF c
<1>3. \A n \in Done : n \in Nat /\ n <= issued
  <2>1. changes \in Seq(Executed)
    BY DEF TypeOK, Executed
  <2>2. \A j \in DOMAIN changes : changes[j] \in Executed
    BY <2>1, LenProperties, ElementOfSeq
  <2> QED
    BY <2>2 DEF Done, Executed, Numbered
<1>a. DoneSynonyms \subseteq Done
  BY DEF Done, DoneSynonyms
<1>4. DOMAIN <<c>> = {1} /\ <<c>>[1] = c
  OBVIOUS
<1>5. Due(<<c>>)
  BY <1>1, <1>2, <1>3, <1>a, <1>4 DEF Due
<1>6. <<c>> \in Seq(Command)
  BY <1>2
<1> QED
  BY <1>2, <1>5, <1>6 DEF c

\* A command of the current call.
LEMMA ThisCommand ==
  ASSUME TypeOK, Numbered, todo # <<>>
  PROVE  /\ This \in Command /\ <<This>> \in Seq(Command) /\ Len(<<This>>) = 1
         /\ Due(<<This>>)
         /\ This.no = issued + 1 /\ This.kind = "synonym" /\ This.size \in Nat \ {0}
         /\ Tail(todo) \in Seq(CmdSize)
<1>1. Head(todo) \in CmdSize /\ Tail(todo) \in Seq(CmdSize)
  BY HeadTailProperties DEF TypeOK
<1>2. This.size = Head(todo)
  BY DEF This, New
<1> QED
  BY <1>1, <1>2, NewCommand, SizeAssumption DEF This, Kind

\* What a failing Exec leaves, and what a successful one adds to that.
LEMMA ExecStep ==
  ASSUME TypeOK, AtMostOnce, SynonymsInOrder, NEW s \in Seq(Command), Due(s),
         Partly(s) \/ ExecOK(s)
  PROVE  /\ changes' \in Seq([no : Nat, kind : Kind, meant : Db, hit : Db])
         /\ AtMostOnce' /\ SynonymsInOrder'
         /\ Done \subseteq Done' /\ Done' \subseteq Done \cup Numbers(s)
         /\ DoneSynonyms' \subseteq DoneSynonyms \cup SynonymNumbers(s)
         /\ ExecOK(s) => Numbers(s) \subseteq Done'
<1>1. Len(s) \in 0 .. Len(s) /\ SubSeq(s, 1, Len(s)) = s
  BY LenProperties, SubSeqFull
<1>2. CASE Partly(s) /\ ~ExecOK(s)
  <2>1. PICK n \in 0 .. Len(s) : changes' = changes \o Effects(SubSeq(s, 1, n))
    BY <1>2 DEF Partly
  <2> QED
    BY <1>2, <2>1, ExecutingDue DEF Executed
<1>3. CASE ExecOK(s)
  <2>1. changes' = changes \o Effects(SubSeq(s, 1, Len(s)))
    BY <1>1, <1>3 DEF ExecOK
  <2> QED
    BY <1>1, <2>1, ExecutingDue DEF Executed
<1> QED
  BY <1>2, <1>3

\* The same of flushBuffer.
LEMMA FlushStep ==
  ASSUME IInv, FlushOK \/ FlushFails \/ Partly(buffer)
  PROVE  /\ changes' \in Seq([no : Nat, kind : Kind, meant : Db, hit : Db])
         /\ AtMostOnce' /\ SynonymsInOrder'
         /\ Done \subseteq Done' /\ Done' \subseteq Done \cup Numbers(buffer)
         /\ DoneSynonyms' \subseteq DoneSynonyms \cup Numbers(buffer)
         /\ FlushOK => Numbers(buffer) \subseteq Done' /\ failed' = failed
         /\ FlushFails => failed' = TRUE
<1>1. CASE buffer = <<>> /\ FlushOK
  <2>1. changes' = changes /\ failed' = failed
    BY <1>1 DEF FlushOK
  <2>2. Numbers(buffer) = {} /\ ~FlushFails
    BY <1>1 DEF Numbers, FlushFails
  <2> QED
    BY <2>1, <2>2 DEF IInv, TypeOK, AtMostOnce, SynonymsInOrder, Done, DoneSynonyms
<1>2. CASE ~(buffer = <<>> /\ FlushOK)
  <2>1. Partly(buffer) \/ ExecOK(buffer)
    BY <1>2 DEF FlushOK, FlushFails, ExecFails
  <2>2. FlushOK => ExecOK(buffer) /\ failed' = failed
    BY <1>2 DEF FlushOK, ExecOK
  <2>3. FlushFails => failed' = TRUE
    BY DEF FlushFails, ExecFails
  <2>4. buffer \in Seq(Command) /\ SynonymNumbers(buffer) \subseteq Numbers(buffer)
    BY DEF IInv, TypeOK, SynonymNumbers, Numbers
  <2> QED
    BY <2>1, <2>2, <2>3, <2>4, ExecStep DEF IInv
<1> QED
  BY <1>1, <1>2

LEMMA NextInv ==
  ASSUME IInv, [Next]_vars
  PROVE  IInv'
<1> USE DEF IInv
<1>0. /\ issued \in 0 .. MaxCmds /\ MaxCmds \in Nat /\ issued \in Nat
      /\ \A n \in Nat : 1 .. n + 1 = (1 .. n) \cup {n + 1}
      /\ Len(buffer) \in Nat /\ DOMAIN buffer = 1 .. Len(buffer)
      /\ Reached = Done \cup Numbers(buffer) /\ Reached' = (Done \cup Numbers(buffer))'
  BY BoundAssumption, LenProperties DEF TypeOK, Reached, Done, Numbers
<1>u. changes' = changes => Done' = Done /\ DoneSynonyms' = DoneSynonyms
  BY DEF Done, DoneSynonyms
<1>v. /\ \A k \in Done : k \in Nat /\ k <= issued
      /\ \A k \in Numbers(buffer) : k \in Nat /\ k <= issued
      /\ \A i \in DOMAIN buffer : buffer[i] \in Command /\ buffer[i].no \in Numbers(buffer)
  <2>1. \A j \in DOMAIN changes : changes[j] \in Executed
    BY LenProperties, ElementOfSeq DEF TypeOK, Executed
  <2>2. \A i \in DOMAIN buffer : buffer[i] \in Command
    BY LenProperties, ElementOfSeq DEF TypeOK
  <2> QED
    BY <2>1, <2>2 DEF Done, Executed, Numbered, Numbers, Command
<1>y. \A k \in Done \cup Numbers(buffer) : k \in Nat /\ k <= issued + 1 /\ k < issued + 1 /\ k # issued + 1
  BY <1>0, <1>v
<1>w. todo # <<>> => /\ <<This>> \in Seq(Command) /\ This \in Command /\ Due(<<This>>)
                     /\ Numbers(<<This>>) = {issued + 1} /\ This.no = issued + 1
                     /\ This.kind = "synonym" /\ This.size \in Nat \ {0} /\ Tail(todo) \in Seq(CmdSize)
                     /\ Len(todo) \in Nat \ {0} /\ Len(Tail(todo)) = Len(todo) - 1
  <2>1. Numbers(<<This>>) = {This.no}
    BY DEF Numbers
  <2> QED
    BY <2>1, ThisCommand, HeadTailProperties, EmptySeq DEF TypeOK
<1>x. DoneSynonyms \subseteq Done
  BY DEF Done, DoneSynonyms
<1>1. ASSUME NEW n \in 1 .. MaxSynonyms, NEW s \in [1 .. n -> CmdSize], Synonyms(s)
      PROVE  IInv'
  <2>1. s \in Seq(CmdSize)
    BY <1>1, BoundAssumption
  <2>2. TypeOK'
    BY <1>1, <2>1 DEF TypeOK, Synonyms
  <2> QED
    BY <1>1, <1>0, <1>u, <2>2 DEF Synonyms, Numbered, Due, AtMostOnce, SynonymsInOrder, LossIsReported
<1>2. CASE ExecNow
  <2>1. Partly(<<This>>) \/ ExecOK(<<This>>)
    BY <1>2 DEF ExecNow, ExecFails
  <2>2. /\ changes' \in Seq([no : Nat, kind : Kind, meant : Db, hit : Db])
        /\ AtMostOnce' /\ SynonymsInOrder'
        /\ Done \subseteq Done' /\ Done' \subseteq Done \cup {issued + 1}
        /\ ExecOK(<<This>>) => issued + 1 \in Done'
    BY <1>2, <1>w, <2>1, ExecStep DEF ExecNow
  <2>3. buffer = <<>> /\ buffer' = <<>> /\ used' = used /\ issued' = issued + 1
    BY <1>2 DEF ExecNow, TypeOK
  <2>4. /\ todo' \in Seq(CmdSize) /\ failed' \in BOOLEAN
        /\ failed' = TRUE \/ (ExecOK(<<This>>) /\ failed' = failed)
    BY <1>2, <1>w, EmptySeq DEF ExecNow, ExecOK, ExecFails, TypeOK
  <2>5. issued' \in 0 .. MaxCmds /\ issued' + Len(todo') <= MaxCmds
    BY <1>0, <1>2, <1>w, <2>3 DEF ExecNow, Numbered
  <2>6. TypeOK'
    BY <1>2, <2>2, <2>3, <2>4, <2>5 DEF ExecNow, TypeOK
  <2>7. Numbered' /\ Due(buffer)'
    BY <1>0, <1>v, <2>2, <2>3, <2>5 DEF Numbered, Due
  <2>8. LossIsReported'
    BY <1>2, <1>0, <2>2, <2>3, <2>4 DEF ExecNow, LossIsReported
  <2> QED
    BY <2>2, <2>6, <2>7, <2>8
<1>3. CASE Collect
  <2>1. /\ buffer' = Append(buffer, This) /\ used' = used + This.size /\ used' <= BufferSize
        /\ issued' = issued + 1 /\ todo' = Tail(todo) /\ todo # <<>>
        /\ UNCHANGED <<conn, open, failed, db, changes>> /\ open
    BY <1>3 DEF Collect, Fits
  <2>2. /\ buffer' \in Seq(Command)
        /\ DOMAIN buffer' = 1 .. Len(buffer) + 1
        /\ \A i \in 1 .. Len(buffer) : buffer'[i] = buffer[i]
        /\ buffer'[Len(buffer) + 1] = This
    BY <1>w, <2>1, AppendProperties, LenProperties DEF TypeOK
  <2>3. issued' \in 0 .. MaxCmds /\ issued' + Len(todo') <= MaxCmds
    BY <1>0, <1>w, <2>1 DEF Numbered
  <2>4. TypeOK'
    BY <1>w, <2>1, <2>2, <2>3 DEF TypeOK
  <2>5. Numbers(buffer)' = Numbers(buffer) \cup {issued + 1}
    <3>1. 1 .. Len(buffer) + 1 = (1 .. Len(buffer)) \cup {Len(buffer) + 1}
      BY <1>0
    <3>2. \A i \in DOMAIN buffer : i \in DOMAIN buffer' /\ buffer'[i].no = buffer[i].no
      BY <1>0, <2>2, <3>1
    <3>3. Len(buffer) + 1 \in DOMAIN buffer' /\ buffer'[Len(buffer) + 1].no = issued + 1
      BY <1>0, <1>w, <2>1, <2>2
    <3>4. \A i \in DOMAIN buffer' : i \in DOMAIN buffer \/ i = Len(buffer) + 1
      BY <1>0, <2>2, <3>1
    <3> QED
      BY <3>2, <3>3, <3>4 DEF Numbers
  <2>6. Numbered'
    <3>1. \A i \in DOMAIN buffer' : i \in 1 .. Len(buffer) \/ i = Len(buffer) + 1
      BY <1>0, <2>2
    <3>2. ASSUME NEW i \in DOMAIN buffer'
          PROVE  buffer'[i].no <= issued + 1 /\ buffer'[i].kind = "synonym"
      <4>1. CASE i \in 1 .. Len(buffer)
        BY <1>0, <1>v, <1>y, <2>2, <4>1 DEF Numbered
      <4>2. CASE i = Len(buffer) + 1
        BY <1>0, <1>w, <2>1, <2>2, <4>2
      <4> QED
        BY <3>1, <4>1, <4>2
    <3> QED
      BY <1>u, <1>y, <2>1, <2>3, <3>2 DEF Numbered
  <2>7. Due(buffer)'
    <3>1. \A i \in DOMAIN buffer' : i \in 1 .. Len(buffer) \/ i = Len(buffer) + 1
      BY <1>0, <2>2
    <3>2. ASSUME NEW i \in DOMAIN buffer', NEW j \in DOMAIN buffer', i < j
          PROVE  buffer'[i].no < buffer'[j].no
      <4>1. i \in 1 .. Len(buffer) /\ buffer'[i] = buffer[i]
        BY <1>0, <2>2, <3>1, <3>2
      <4>2. CASE j \in 1 .. Len(buffer)
        BY <1>0, <2>2, <3>2, <4>1, <4>2 DEF Due
      <4>3. CASE j = Len(buffer) + 1
        BY <1>0, <1>v, <1>w, <1>y, <2>1, <2>2, <4>1, <4>3
      <4> QED
        BY <3>1, <4>2, <4>3
    <3>3. ASSUME NEW i \in DOMAIN buffer'
          PROVE  buffer'[i].no \notin Done /\ \A k \in DoneSynonyms : k < buffer'[i].no
      <4>1. CASE i \in 1 .. Len(buffer)
        BY <1>0, <2>2, <4>1 DEF Due
      <4>2. CASE i = Len(buffer) + 1
        BY <1>w, <1>x, <1>y, <2>1, <2>2, <4>2
      <4> QED
        BY <3>1, <4>1, <4>2
    <3> QED
      BY <1>u, <2>1, <3>2, <3>3 DEF Due
  <2>8. LossIsReported'
    BY <1>0, <1>u, <2>1, <2>5 DEF LossIsReported
  <2> QED
    BY <2>1, <2>4, <2>6, <2>8, <2>7 DEF AtMostOnce, SynonymsInOrder
<1>4. CASE FlushAndCollect
  <2>1. /\ changes' \in Seq([no : Nat, kind : Kind, meant : Db, hit : Db])
        /\ AtMostOnce' /\ SynonymsInOrder'
        /\ Done \subseteq Done' /\ Done' \subseteq Done \cup Numbers(buffer)
        /\ DoneSynonyms' \subseteq DoneSynonyms \cup Numbers(buffer)
        /\ FlushOK => Numbers(buffer) \subseteq Done' /\ failed' = failed
        /\ FlushFails => failed' = TRUE
    BY <1>4, FlushStep DEF FlushAndCollect
  <2>2. /\ todo # <<>> /\ open /\ issued' = issued + 1 /\ UNCHANGED <<conn, open, db>>
        /\ \/ FlushOK /\ buffer' = <<This>> /\ used' = This.size /\ todo' = Tail(todo)
           \/ FlushFails /\ buffer' = <<>> /\ used' = 0 /\ todo' = <<>>
    BY <1>4 DEF FlushAndCollect
  <2>3. issued' \in 0 .. MaxCmds /\ issued' + Len(todo') <= MaxCmds
    BY <1>0, <1>w, <2>2 DEF Numbered
  <2>4. CASE FlushOK /\ buffer' = <<This>> /\ used' = This.size /\ todo' = Tail(todo)
    <3>1. TypeOK'
      BY <1>w, <2>1, <2>2, <2>3, <2>4 DEF TypeOK
    <3>2. Numbers(buffer)' = {issued + 1} /\ DOMAIN buffer' = {1} /\ buffer'[1] = This
      BY <1>w, <2>2, <2>4 DEF Numbers
    <3>3. Numbered' /\ Due(buffer)'
      <4>1. Numbered'
        BY <1>w, <1>y, <2>1, <2>2, <2>3, <3>2, <1>0, SMTT(60) DEF Numbered
      <4>2. \A k \in Done' : k \in Nat /\ k < issued + 1 /\ k # issued + 1
        BY <1>y, <2>1
      <4>3. DoneSynonyms' \subseteq Done'
        BY DEF Done, DoneSynonyms
      <4> QED
        BY <1>w, <2>2, <3>2, <4>1, <4>2, <4>3 DEF Due
    <3>4. LossIsReported'
      BY <1>0, <2>1, <2>2, <2>4, <3>2, SMTT(60) DEF LossIsReported
    <3> QED
      BY <2>1, <3>1, <3>3, <3>4
  <2>5. CASE FlushFails /\ buffer' = <<>> /\ used' = 0 /\ todo' = <<>>
    <3>1. TypeOK'
      BY <2>1, <2>2, <2>3, <2>5, EmptySeq DEF TypeOK
    <3>2. Numbered' /\ Due(buffer)'
      <4>1. \A k \in Done' : k <= issued + 1
        BY <1>y, <2>1
      <4>2. DOMAIN buffer' = {}
        BY <2>5
      <4> QED
        BY <2>2, <2>3, <4>1, <4>2 DEF Numbered, Due
    <3>3. LossIsReported'
      BY <2>1, <2>5 DEF LossIsReported
    <3> QED
      BY <2>1, <3>1, <3>2, <3>3
  <2> QED
    BY <2>2, <2>4, <2>5
<1>5. ASSUME NEW size \in {0, 1}, OpenBuffer(size)
      PROVE  IInv'
  <2>1. /\ changes' \in Seq([no : Nat, kind : Kind, meant : Db, hit : Db])
        /\ AtMostOnce' /\ SynonymsInOrder'
        /\ Done \subseteq Done' /\ Done' \subseteq Done \cup Numbers(buffer)
        /\ FlushOK => Numbers(buffer) \subseteq Done' /\ failed' = failed
        /\ FlushFails => failed' = TRUE
    BY <1>5, FlushStep DEF OpenBuffer
  <2>2. /\ buffer' = <<>> /\ used' = 0 /\ UNCHANGED <<todo, issued, db>>
        /\ conn' = conn /\ open' \in BOOLEAN /\ (FlushOK \/ FlushFails)
    <3>1. (size > 0) \in BOOLEAN
      OBVIOUS
    <3>2. open' \in BOOLEAN /\ (FlushOK \/ FlushFails)
      BY <1>5, <3>1 DEF OpenBuffer
    <3> QED
      BY <1>5, <3>2 DEF OpenBuffer
  <2>3. {conn, open, failed}' \subseteq BOOLEAN
    BY <2>1, <2>2 DEF TypeOK
  <2>4. TypeOK'
    BY <2>1, <2>2, <2>3, EmptySeq DEF TypeOK
  <2>5. Numbered' /\ Due(buffer)'
    BY <1>0, <1>v, <2>1, <2>2 DEF Numbered, Due
  <2>6. LossIsReported'
    BY <1>0, <2>1, <2>2 DEF LossIsReported
  <2> QED
    BY <2>1, <2>4, <2>5, <2>6
<1>6. ASSUME NEW d \in Db, SetDB(d)
      PROVE  IInv'
  <2>1. TypeOK'
    BY <1>6 DEF TypeOK, SetDB
  <2> QED
    BY <1>6, <1>0, <1>u, <2>1 DEF SetDB, Numbered, Due, AtMostOnce, SynonymsInOrder, LossIsReported
<1>7. ASSUME NEW size \in CmdSize, Direct(size)
      PROVE  IInv'
  <2> DEFINE s == <<New("direct", size)>>
  <2>0. /\ s \in Seq(Command) /\ Due(s) /\ New("direct", size).no = issued + 1
        /\ New("direct", size).kind = "direct"
    BY NewCommand DEF Kind
  <2>1. Numbers(s) = {issued + 1} /\ SynonymNumbers(s) = {}
    BY <2>0 DEF Numbers, SynonymNumbers
  <2>2. Partly(s) \/ ExecOK(s)
    BY <1>7 DEF Direct, ExecFails
  <2> HIDE DEF s
  <2>3. /\ changes' \in Seq([no : Nat, kind : Kind, meant : Db, hit : Db])
        /\ AtMostOnce' /\ SynonymsInOrder'
        /\ Done \subseteq Done' /\ Done' \subseteq Done \cup {issued + 1}
        /\ DoneSynonyms' \subseteq DoneSynonyms
        /\ ExecOK(s) => issued + 1 \in Done'
    BY <2>0, <2>1, <2>2, ExecStep
  <2>4. /\ issued' = issued + 1 /\ issued < MaxCmds /\ todo = <<>>
        /\ UNCHANGED <<conn, open, buffer, used, todo, db>>
        /\ failed' = TRUE \/ (ExecOK(s) /\ failed' = failed)
    BY <1>7 DEF Direct, Ready, ExecOK, ExecFails, s
  <2>5. TypeOK'
    <3>1. {conn, open, failed}' \subseteq BOOLEAN
      BY <2>4 DEF TypeOK
    <3>2. issued' \in 0 .. MaxCmds
      BY <1>0, <2>4
    <3> QED
      BY <2>3, <2>4, <3>1, <3>2 DEF TypeOK
  <2>6. Numbered' /\ Due(buffer)'
    <3>1. issued' + Len(todo') <= MaxCmds
      BY <1>0, <2>4, EmptySeq
    <3> QED
      <4>1. \A k \in Done' : k <= issued + 1
        BY <1>y, <1>0, <2>3
      <4>2. \A i \in DOMAIN buffer : buffer[i].no # issued + 1 /\ buffer[i].no <= issued + 1
        BY <1>v, <1>y
      <4> QED
        BY <2>3, <2>4, <3>1, <4>1, <4>2 DEF Numbered, Due
  <2>7. LossIsReported'
    <3>1. \A k \in 1 .. issued' : k \in 1 .. issued \/ k = issued + 1
      BY <1>0, <2>4
    <3>2. Reached = Done \cup Numbers(buffer) /\ Reached' = Done' \cup Numbers(buffer)
      BY <2>4 DEF Reached, Done, Numbers
    <3>3. failed' \/ (issued + 1 \in Done' /\ failed' = failed)
      BY <2>3, <2>4
    <3>4. conn' = conn /\ Done \subseteq Done'
      BY <2>3, <2>4
    <3>5. CASE ~conn \/ failed'
      BY <3>4, <3>5 DEF LossIsReported
    <3>6. CASE conn /\ ~failed'
      <4>1. 1 .. issued \subseteq Reached
        BY <1>0, <3>3, <3>6 DEF LossIsReported
      <4>2. 1 .. issued' \subseteq Reached'
        BY <3>1, <3>2, <3>3, <3>4, <3>6, <4>1
      <4> QED
        BY <4>2 DEF LossIsReported
    <3> QED
      BY <3>5, <3>6
  <2> QED
    BY <2>3, <2>5, <2>6, <2>7
<1>8. CASE Close
  <2>1. /\ changes' \in Seq([no : Nat, kind : Kind, meant : Db, hit : Db])
        /\ AtMostOnce' /\ SynonymsInOrder'
        /\ Done \subseteq Done' /\ Done' \subseteq Done \cup Numbers(buffer)
        /\ FlushOK => Numbers(buffer) \subseteq Done' /\ failed' = failed
        /\ FlushFails => failed' = TRUE
    BY <1>8, FlushStep DEF Close
  <2>2. /\ buffer' = <<>> /\ used' = 0 /\ UNCHANGED <<todo, issued, db>>
        /\ conn' = FALSE /\ open' = open /\ failed' = failed
    BY <1>8 DEF Close
  <2>3. {conn, open, failed}' \subseteq BOOLEAN
    BY <2>1, <2>2 DEF TypeOK
  <2>4. TypeOK'
    BY <2>1, <2>2, <2>3, EmptySeq DEF TypeOK
  <2>5. Numbered' /\ Due(buffer)'
    BY <1>0, <1>v, <2>1, <2>2 DEF Numbered, Due
  <2>6. LossIsReported'
    BY <1>0, <2>1, <2>2 DEF LossIsReported
  <2> QED
    BY <2>1, <2>4, <2>5, <2>6
<1>9. CASE UNCHANGED vars
  BY <1>9, <1>0, <1>u DEF vars, TypeOK, Numbered, Due, AtMostOnce, SynonymsInOrder, LossIsReported
<1> QED
  BY <1>1, <1>2, <1>3, <1>4, <1>5, <1>6, <1>7, <1>8, <1>9 DEF Next, Closed
-----------------------------------------------------------------------------
(* The synonym buffer: theorems                                            *)

LEMMA Invariant == Spec => []IInv
  BY InitInv, NextInv, PTL DEF Spec

\* Every variable of the synonym buffer keeps its type, and the buffer never
\* holds more than fits, unless it is a single command larger than it.
THEOREM TypeCorrect == Spec => []TypeOK
<1>1. IInv => TypeOK
  BY DEF IInv
<1> QED
  BY <1>1, Invariant, PTL

\* A command that bufferExec took is executed, waits in the buffer, or some
\* call has returned an error, until Close is called.
THEOREM LossesReported == Spec => []LossIsReported
<1>1. IInv => LossIsReported
  BY DEF IInv
<1> QED
  BY <1>1, Invariant, PTL

\* No command reaches the server twice, whatever flush fails half-way.
THEOREM ExecutedOnce == Spec => []AtMostOnce
<1>1. IInv => AtMostOnce
  BY DEF IInv
<1> QED
  BY <1>1, Invariant, PTL

\* Synonyms reach the server in the order of AddSynonym and DelSynonym.
THEOREM OrderKept == Spec => []SynonymsInOrder
<1>1. IInv => SynonymsInOrder
  BY DEF IInv
<1> QED
  BY <1>1, Invariant, PTL

-----------------------------------------------------------------------------
(* Documents: the inductive invariant                                      *)

AnyCommand == [cmd : Cmd, part : [doc : Nat, n : Nat]]

TypeInv ==
  /\ log \in Seq(AnyCommand) /\ executed \in Seq(AnyCommand)
  /\ Len(executed) <= Len(log)
  /\ pc \in [Proc -> {"idle", "request", "send", "wait"}]
  /\ doc \in [Proc -> Nat] /\ sent \in [Proc -> Nat] /\ want \in [Proc -> Nat]
  /\ docs \in Seq(Nat \ {0}) /\ Len(docs) <= MaxDocs
  /\ mixed \in BOOLEAN /\ broken \in BOOLEAN
  /\ result = [d \in Doc |-> result[d]]
  /\ request \subseteq [doc : Nat, n : Nat] /\ stored \in Seq(SUBSET [doc : Nat, n : Nat])
  /\ verdict \in Seq({"ok", "error"})

Of(c, d, n) == [cmd |-> c, part |-> [doc |-> d, n |-> n]]

\* One goroutine at a time is in update, with the latest document.
ActiveInv ==
  /\ \A p, q \in Proc : pc[p] # "idle" /\ pc[q] # "idle" => p = q
  /\ \A p \in Proc : pc[p] # "idle" =>
       /\ doc[p] = Len(docs) /\ Len(docs) # 0
       /\ want[p] = docs[doc[p]] /\ sent[p] <= want[p]
       /\ pc[p] = "request" => sent[p] = 0

\* A part in the log comes after the part before it, or the REQUEST; a SUBMIT
\* comes after the last part of its document.
Placed(i) ==
  LET d == log[i].part.doc
      n == log[i].part.n
  IN /\ d \in 1 .. Len(docs)
     /\ log[i].cmd = "part" =>
          /\ n \in 1 .. docs[d] /\ i > 1
          /\ log[i - 1] = IF n = 1 THEN Of("request", d, 0) ELSE Of("part", d, n - 1)
     /\ log[i].cmd = "submit" => i > 1 /\ log[i - 1] = Of("part", d, docs[d])

\* It comes once.
LogInv ==
  /\ \A i \in 1 .. Len(log) : Placed(i)
  /\ \A i, j \in 1 .. Len(log) :
       /\ log[i].cmd = "submit" /\ log[j].cmd = "submit"
       /\ log[i].part.doc = log[j].part.doc
       => i = j

\* The last command of the log is the last one that the goroutine has sent.
LastInv ==
  \A p \in Proc :
    /\ pc[p] \in {"request", "send"} =>
         \A i \in 1 .. Len(log) : log[i].cmd = "submit" => log[i].part.doc # doc[p]
    /\ pc[p] = "send" =>
         /\ Len(log) # 0
         /\ log[Len(log)] = IF sent[p] = 0 THEN Of("request", doc[p], 0)
                            ELSE Of("part", doc[p], sent[p])
    /\ pc[p] = "wait" => Len(log) # 0 /\ log[Len(log)] = Of("submit", doc[p], 0)

\* The server has gathered the parts of the document it is at, up to the last one
\* it has executed.
FirstParts(d, n) == {[doc |-> d, n |-> k] : k \in 1 .. n}
ServerInv ==
  LET e == Len(executed)
  IN /\ e = 0 \/ log[e].cmd # "part" => request = {}
     /\ e # 0 /\ log[e].cmd = "part" =>
          request = FirstParts(log[e].part.doc, log[e].part.n)

\* What it has stored are documents that were submitted, each once; of the last one
\* submitted the verdict tells, and update has returned what the verdict told.
IsStored(d) == \E i \in 1 .. Len(stored) : stored[i] = Whole(d)
Submitted(i) ==
  \E j \in 1 .. Len(executed) : log[j].cmd = "submit" /\ stored[i] = Whole(log[j].part.doc)
Judged ==
  LET e == Len(executed)
      v == Len(verdict)
  IN e # 0 /\ log[e].cmd = "submit" => v # 0 /\ (verdict[v] = "ok" => IsStored(log[e].part.doc))
StoredInv ==
  /\ \A i \in 1 .. Len(stored) : Submitted(i)
  /\ \A i, j \in 1 .. Len(stored) : stored[i] = stored[j] => i = j
  /\ Judged
  /\ \A d \in Doc : result[d] = "ok" => d <= Len(docs) /\ IsStored(d)

Alone == ActiveInv /\ LogInv /\ LastInv /\ ServerInv /\ StoredInv

DocsInv == TypeInv /\ (~mixed => Alone)

-----------------------------------------------------------------------------
(* Documents: lemmas                                                       *)

LEMMA AppendFacts ==
  ASSUME NEW S, NEW s \in Seq(S), NEW e \in S
  PROVE  /\ Append(s, e) \in Seq(S)
         /\ Len(s) \in Nat /\ Len(Append(s, e)) = Len(s) + 1
         /\ \A i \in 1 .. Len(s) : Append(s, e)[i] = s[i] /\ s[i] \in S
         /\ Append(s, e)[Len(s) + 1] = e
BY AppendProperties

\* The parts of two documents are not the same, for a document has one.
LEMMA WholeInjective ==
  ASSUME TypeInv, NEW c \in 1 .. Len(docs), NEW d \in 1 .. Len(docs), Whole(c) = Whole(d)
  PROVE  c = d
<1>1. docs[c] \in Nat \ {0} /\ docs[d] \in Nat \ {0}
  BY DEF TypeInv
<1>2. [doc |-> c, n |-> 1] \in Whole(c)
  BY <1>1 DEF Whole
<1>3. PICK k \in 1 .. docs[d] : [doc |-> c, n |-> 1] = [doc |-> d, n |-> k]
  BY <1>2 DEF Whole
<1> QED
  BY <1>3

LEMMA DocsInitInv == DocsInit => DocsInv
<1> SUFFICES ASSUME DocsInit
             PROVE  DocsInv
  OBVIOUS
<1>1. /\ log = <<>> /\ executed = <<>> /\ docs = <<>> /\ stored = <<>> /\ verdict = <<>>
      /\ Len(log) = 0 /\ Len(executed) = 0 /\ Len(docs) = 0 /\ Len(stored) = 0
  BY DEF DocsInit, Conn!Init
<1>2. /\ log \in Seq(AnyCommand) /\ executed \in Seq(AnyCommand) /\ docs \in Seq(Nat \ {0})
      /\ stored \in Seq(SUBSET [doc : Nat, n : Nat]) /\ verdict \in Seq({"ok", "error"})
  BY <1>1
<1>3. TypeInv
  <2>1. result = [d \in Doc |-> result[d]]
    BY DEF DocsInit
  <2>2. request \subseteq [doc : Nat, n : Nat] /\ mixed \in BOOLEAN /\ broken \in BOOLEAN
    BY DEF DocsInit
  <2>3. /\ pc \in [Proc -> {"idle", "request", "send", "wait"}]
        /\ doc \in [Proc -> Nat] /\ sent \in [Proc -> Nat] /\ want \in [Proc -> Nat]
    BY DEF DocsInit
  <2> QED
    BY <1>1, <1>2, <2>1, <2>2, <2>3, PartsAssumption DEF TypeInv
<1>4. ActiveInv /\ LogInv /\ LastInv
  BY <1>1 DEF DocsInit, ActiveInv, LogInv, LastInv
<1>5. ServerInv /\ StoredInv
  BY <1>1 DEF DocsInit, ServerInv, StoredInv, Judged
<1> QED
  BY <1>3, <1>4, <1>5 DEF DocsInv, Alone

\* A command that comes where it belongs is appended to the log; the server has not
\* executed it.
LEMMA LogStep ==
  ASSUME TypeInv, LogInv, ServerInv, StoredInv,
         NEW c \in AnyCommand, log' = Append(log, c),
         UNCHANGED <<executed, docs, result, serverVars>>,
         c.part.doc \in 1 .. Len(docs),
         c.cmd = "part" =>
           /\ c.part.n \in 1 .. docs[c.part.doc] /\ Len(log) # 0
           /\ log[Len(log)] = IF c.part.n = 1 THEN Of("request", c.part.doc, 0)
                              ELSE Of("part", c.part.doc, c.part.n - 1),
         c.cmd = "submit" =>
           /\ Len(log) # 0 /\ log[Len(log)] = Of("part", c.part.doc, docs[c.part.doc])
           /\ \A i \in 1 .. Len(log) : log[i].cmd = "submit" => log[i].part.doc # c.part.doc
  PROVE  LogInv' /\ ServerInv' /\ StoredInv'
<1> DEFINE n == Len(log)
           e == Len(executed)
<1>1. /\ n \in Nat /\ Len(log') = n + 1 /\ log'[n + 1] = c
      /\ \A i \in 1 .. n : log'[i] = log[i]
  BY AppendFacts DEF TypeInv
<1>2. UNCHANGED <<executed, docs, result, request, stored, verdict>>
  BY DEF serverVars
<1>3. e \in Nat /\ e <= n /\ \A i \in 1 .. e : log'[i] = log[i]
  BY <1>1 DEF TypeInv
<1> HIDE DEF n
<1>4. ASSUME NEW i \in 1 .. n + 1
      PROVE  Placed(i)'
  <2> SUFFICES
        /\ log'[i].part.doc \in 1 .. Len(docs)
        /\ log'[i].cmd = "part" =>
             /\ log'[i].part.n \in 1 .. docs[log'[i].part.doc] /\ i > 1
             /\ log'[i - 1] = IF log'[i].part.n = 1 THEN Of("request", log'[i].part.doc, 0)
                              ELSE Of("part", log'[i].part.doc, log'[i].part.n - 1)
        /\ log'[i].cmd = "submit" =>
             i > 1 /\ log'[i - 1] = Of("part", log'[i].part.doc, docs[log'[i].part.doc])
    BY <1>2 DEF Placed, Of
  <2>1. CASE i \in 1 .. n
    <3>1. log'[i] = log[i] /\ (i > 1 => log'[i - 1] = log[i - 1])
      BY <1>1, <2>1
    <3>2. Placed(i)
      BY <2>1 DEF LogInv, n
    <3> QED
      BY <3>1, <3>2 DEF Placed
  <2>2. CASE i = n + 1
    <3>1. log'[i] = c /\ i - 1 = n /\ (n # 0 => i > 1 /\ log'[n] = log[n])
      BY <1>1, <2>2
    <3> QED
      BY <3>1 DEF n
  <2> QED
    BY <1>1, <2>1, <2>2
<1>5. ASSUME NEW i \in 1 .. n + 1, NEW j \in 1 .. n + 1,
             log'[i].cmd = "submit", log'[j].cmd = "submit",
             log'[i].part.doc = log'[j].part.doc
      PROVE  i = j
  <2>1. \A k \in 1 .. n : log[k].cmd = "submit" /\ c.cmd = "submit" => log[k].part.doc # c.part.doc
    BY DEF n
  <2>2. i \in 1 .. n \/ i = n + 1
    BY <1>1
  <2>3. j \in 1 .. n \/ j = n + 1
    BY <1>1
  <2>4. CASE i \in 1 .. n /\ j \in 1 .. n
    BY <1>1, <1>5, <2>4 DEF LogInv, n
  <2>5. CASE i \in 1 .. n /\ j = n + 1
    BY <1>1, <1>5, <2>1, <2>5
  <2>6. CASE i = n + 1 /\ j \in 1 .. n
    BY <1>1, <1>5, <2>1, <2>6
  <2> QED
    BY <2>2, <2>3, <2>4, <2>5, <2>6
<1>6. LogInv'
  BY <1>1, <1>4, <1>5 DEF LogInv
<1>7. e # 0 => e \in 1 .. e
  BY <1>3
<1>8. ServerInv'
  <2>1. CASE e = 0
    BY <1>2, <2>1 DEF ServerInv
  <2>2. CASE e # 0
    <3>1. log'[e] = log[e]
      BY <1>3, <1>7, <2>2
    <3> QED
      BY <1>2, <2>2, <3>1 DEF ServerInv, FirstParts
  <2> QED
    BY <2>1, <2>2
<1>9. StoredInv'
  <2>1. ASSUME NEW i \in 1 .. Len(stored)
        PROVE  Submitted(i)'
    <3>1. PICK j \in 1 .. e : log[j].cmd = "submit" /\ stored[i] = Whole(log[j].part.doc)
      BY DEF StoredInv, Submitted
    <3>2. log'[j] = log[j]
      BY <1>3
    <3>3. Whole(log[j].part.doc)' = Whole(log[j].part.doc)
      BY <1>2, <3>2 DEF Whole
    <3>4. j \in 1 .. Len(executed') /\ (log[j].cmd = "submit" /\ stored[i] = Whole(log[j].part.doc))'
      BY <1>2, <3>1, <3>2, <3>3
    <3> QED
      BY <3>4 DEF Submitted
  <2>2. CASE e = 0
    BY <1>2, <2>1, <2>2 DEF StoredInv, Judged, IsStored, Whole
  <2>3. CASE e # 0
    <3>1. log'[e] = log[e]
      BY <1>3, <1>7, <2>3
    <3>2. Judged'
      BY <1>2, <3>1 DEF StoredInv, Judged, IsStored, Whole
    <3> QED
      BY <1>2, <2>1, <3>2 DEF StoredInv, IsStored, Whole
  <2> QED
    BY <2>2, <2>3
<1> QED
  BY <1>6, <1>8, <1>9

\* Exec appends a command to the log of the connection.
LEMMA ExecFacts ==
  ASSUME TypeInv, NEW p \in Proc, NEW c \in Cmd, NEW n \in Nat, Exec(p, c, n)
  PROVE  /\ Of(c, doc[p], n) \in AnyCommand
         /\ log' = Append(log, Of(c, doc[p], n)) /\ UNCHANGED executed
         /\ log' \in Seq(AnyCommand) /\ Len(log') = Len(log) + 1
         /\ log'[Len(log')] = Of(c, doc[p], n)
         /\ \A i \in 1 .. Len(log') : i = Len(log') \/ (i \in 1 .. Len(log) /\ log'[i] = log[i])
<1>1. Of(c, doc[p], n) \in AnyCommand
  BY DEF TypeInv, Of, AnyCommand
<1>2. log' = Append(log, Of(c, doc[p], n)) /\ UNCHANGED executed
  BY DEF Exec, Conn!Accept, Of
<1>3. log \in Seq(AnyCommand)
  BY DEF TypeInv
<1> HIDE DEF Of
<1>4. /\ log' \in Seq(AnyCommand) /\ Len(log) \in Nat /\ Len(log') = Len(log) + 1
      /\ \A i \in 1 .. Len(log) : log'[i] = log[i]
      /\ log'[Len(log) + 1] = Of(c, doc[p], n)
  BY <1>1, <1>2, <1>3, AppendFacts
<1> QED
  BY <1>1, <1>2, <1>4

\* What the types of the variables are, whoever is in update.
LEMMA TypeStep == TypeInv /\ [DocsNext]_docsVars => TypeInv'
<1> SUFFICES ASSUME TypeInv, [DocsNext]_docsVars
             PROVE  TypeInv'
  OBVIOUS
<1> USE DEF TypeInv
<1>1. ASSUME NEW p \in Proc, NEW n \in 1 .. MaxParts, Update(p, n)
      PROVE  TypeInv'
  <2>1. n \in Nat \ {0}
    BY PartsAssumption
  <2>2. docs' \in Seq(Nat \ {0}) /\ Len(docs') = Len(docs) + 1 /\ Len(docs) \in Nat
    BY <1>1, <2>1, AppendFacts DEF Update
  <2>3. /\ doc' \in [Proc -> Nat] /\ sent' \in [Proc -> Nat] /\ want' \in [Proc -> Nat]
        /\ pc' \in [Proc -> {"idle", "request", "send", "wait"}]
    BY <1>1, <2>1, <2>2 DEF Update, Goto
  <2>4. mixed' \in BOOLEAN
    BY <1>1 DEF Update
  <2>5. Len(docs') <= MaxDocs
    BY <1>1, <2>2, PartsAssumption DEF Update
  <2> QED
    BY <1>1, <2>2, <2>3, <2>4, <2>5 DEF Update, serverVars
<1>2. ASSUME NEW p \in Proc, SendRequest(p) \/ SendPart(p) \/ Submit(p)
      PROVE  TypeInv'
  <2>1. /\ log' \in Seq(AnyCommand) /\ Len(log') = Len(log) + 1 /\ executed' = executed
        /\ Len(log) \in Nat
    <3>1. PICK c \in Cmd, n \in Nat : Exec(p, c, n)
      <4>1. sent[p] + 1 \in Nat /\ 0 \in Nat
        OBVIOUS
      <4> QED
        BY <1>2, <4>1 DEF SendRequest, SendPart, Submit, Cmd
    <3> QED
      BY <3>1, ExecFacts
  <2>2. Len(executed') <= Len(log')
    BY <2>1
  <2>3. pc' \in [Proc -> {"idle", "request", "send", "wait"}]
    BY <1>2 DEF SendRequest, SendPart, Submit, Goto
  <2>5. sent' \in [Proc -> Nat]
    <3>1. sent[p] + 1 \in Nat
      OBVIOUS
    <3> QED
      BY <1>2, <3>1 DEF SendRequest, SendPart, Submit
  <2>4. UNCHANGED <<doc, want, docs, mixed, broken, result, request, stored, verdict>>
    BY <1>2 DEF SendRequest, SendPart, Submit, serverVars
  <2> QED
    BY <2>1, <2>2, <2>3, <2>4, <2>5
<1>3. ASSUME NEW p \in Proc, Fail(p) \/ Answer(p)
      PROVE  TypeInv'
  <2>1. PICK r : Return(p, r)
    BY <1>3 DEF Fail, Answer
  <2>2. pc' \in [Proc -> {"idle", "request", "send", "wait"}]
    BY <2>1 DEF Return, Goto
  <2>3. result' = [d \in Doc |-> result'[d]]
    BY <2>1 DEF Return
  <2> QED
    BY <2>1, <2>2, <2>3 DEF Return, serverVars
<1>4. CASE Serve
  <2> DEFINE c == log[Len(executed) + 1]
  <2>1. Len(executed) \in Nat /\ Len(log) \in Nat /\ Len(executed) < Len(log)
    BY <1>4 DEF Serve, Conn!Execute
  <2>2. c \in AnyCommand
    BY <2>1
  <2>3. executed' = Append(executed, c) /\ log' = log
    BY <1>4 DEF Serve, Conn!Execute
  <2>4. executed' \in Seq(AnyCommand) /\ Len(executed') = Len(executed) + 1
    <3> HIDE DEF c
    <3> QED
      BY <2>2, <2>3, AppendFacts
  <2>5. c.part \in [doc : Nat, n : Nat]
    BY <2>2 DEF AnyCommand
  <2>6. /\ request' \in {{}, request \cup {c.part}}
        /\ stored' \in {stored, Append(stored, request)}
        /\ verdict' \in {verdict, Append(verdict, "ok"), Append(verdict, "error")}
    BY <1>4 DEF Serve
  <2> HIDE DEF c
  <2>7. request' \subseteq [doc : Nat, n : Nat]
    BY <2>5, <2>6
  <2>8. stored' \in Seq(SUBSET [doc : Nat, n : Nat])
    <3>1. request \in SUBSET [doc : Nat, n : Nat]
      OBVIOUS
    <3>2. Append(stored, request) \in Seq(SUBSET [doc : Nat, n : Nat])
      BY <3>1, AppendFacts
    <3> QED
      BY <2>6, <3>2
  <2>9. verdict' \in Seq({"ok", "error"})
    <3>1. Append(verdict, "ok") \in Seq({"ok", "error"})
      BY AppendFacts
    <3>2. Append(verdict, "error") \in Seq({"ok", "error"})
      BY AppendFacts
    <3> QED
      BY <2>6, <3>1, <3>2
  <2> QED
    BY <1>4, <2>1, <2>3, <2>4, <2>7, <2>8, <2>9 DEF Serve, clientVars
<1>5. CASE Break
  BY <1>5 DEF Break, serverVars
<1>6. CASE Finished \/ UNCHANGED docsVars
  BY <1>6 DEF Finished, docsVars, clientVars, serverVars
<1> QED
  BY <1>1, <1>2, <1>3, <1>4, <1>5, <1>6 DEF DocsNext

\* A document is begun when no goroutine is in update.
LEMMA UpdateStep ==
  ASSUME TypeInv, TypeInv', Alone, NEW p \in Proc, NEW n \in 1 .. MaxParts, Update(p, n), ~mixed'
  PROVE  Alone'
<1> DEFINE D == Len(docs)
<1>1. /\ UNCHANGED <<log, executed, request, stored, verdict, result>>
      /\ \A q \in Proc : pc[q] = "idle"
  BY DEF Update, serverVars
<1>2. /\ D \in Nat /\ Len(docs') = D + 1 /\ docs'[D + 1] = n
      /\ \A d \in 1 .. D : docs'[d] = docs[d]
  <2>1. docs \in Seq(Nat \ {0}) /\ n \in Nat \ {0} /\ docs' = Append(docs, n)
    BY PartsAssumption DEF TypeInv, Update
  <2> QED
    BY <2>1, AppendFacts
<1>3. /\ pc'[p] = "request" /\ doc'[p] = D + 1 /\ want'[p] = n /\ sent'[p] = 0
      /\ \A q \in Proc : q # p => pc'[q] = "idle"
  BY <1>1 DEF Update, Goto, TypeInv
<1>4. \A d \in 1 .. D : Whole(d)' = Whole(d)
  BY <1>2 DEF Whole
<1> HIDE DEF D
<1>5. \A i \in 1 .. Len(log) : Placed(i) /\ log[i].part.doc \in 1 .. D /\ D + 1 \notin 1 .. D
  BY <1>2 DEF Alone, LogInv, Placed, D
<1>6. ActiveInv'
  BY <1>2, <1>3, PartsAssumption DEF ActiveInv
<1>7. LogInv'
  <2>1. ASSUME NEW i \in 1 .. Len(log)
        PROVE  Placed(i)'
    <3>1. /\ log' = log /\ Placed(i) /\ log[i].part.doc \in 1 .. D
          /\ docs'[log[i].part.doc] = docs[log[i].part.doc]
      BY <1>1, <1>2, <1>5
    <3>2. log[i].part.doc \in 1 .. Len(docs')
      BY <1>2, <3>1
    <3> QED
      BY <3>1, <3>2 DEF Placed, Of
  <2> QED
    BY <1>1, <2>1 DEF Alone, LogInv
<1>8. LastInv'
  BY <1>1, <1>3, <1>5 DEF LastInv
<1>9. ServerInv'
  BY <1>1 DEF Alone, ServerInv, FirstParts
<1>10. StoredInv'
  <2>1. \A i \in 1 .. Len(executed) : i \in 1 .. Len(log) /\ log[i].part.doc \in 1 .. D
    <3>1. Len(executed) \in Nat /\ Len(log) \in Nat /\ Len(executed) <= Len(log)
      BY DEF TypeInv
    <3> QED
      BY <1>5, <3>1
  <2>2. ASSUME NEW i \in 1 .. Len(stored)
        PROVE  Submitted(i)'
    <3>1. PICK j \in 1 .. Len(executed) :
               log[j].cmd = "submit" /\ stored[i] = Whole(log[j].part.doc)
      BY DEF Alone, StoredInv, Submitted
    <3>2. Whole(log[j].part.doc)' = Whole(log[j].part.doc)
      BY <1>1, <1>2, <2>1 DEF Whole
    <3> QED
      BY <1>1, <3>1, <3>2 DEF Submitted
  <2>3. \A d \in 1 .. D : IsStored(d) => IsStored(d)'
    BY <1>1, <1>4 DEF IsStored
  <2>4. Judged'
    <3> SUFFICES ASSUME Len(executed) # 0, log[Len(executed)].cmd = "submit"
                 PROVE  Judged'
      BY <1>1 DEF Judged
    <3>1. Len(executed) \in 1 .. Len(executed)
      BY DEF TypeInv
    <3>2. IsStored(log[Len(executed)].part.doc) => IsStored(log[Len(executed)].part.doc)'
      <4> DEFINE d == log[Len(executed)].part.doc
      <4>1. d \in 1 .. D /\ d' = d
        BY <1>1, <2>1, <3>1
      <4>2. Whole(d)' = Whole(d)
        BY <1>1, <1>2, <4>1 DEF Whole
      <4> QED
        BY <1>1, <4>2 DEF IsStored
    <3> QED
      BY <1>1, <3>2 DEF Alone, StoredInv, Judged
  <2>5. \A d \in Doc : result[d] = "ok" => d \in 1 .. D /\ IsStored(d)
    BY <1>2 DEF Alone, StoredInv, Doc, D
  <2>6. \A d \in Doc : result'[d] = "ok" => d <= Len(docs') /\ IsStored(d)'
    BY <1>1, <1>2, <2>3, <2>5
  <2> QED
    BY <1>1, <2>2, <2>4, <2>6 DEF Alone, StoredInv
<1> QED
  BY <1>6, <1>7, <1>8, <1>9, <1>10 DEF Alone

\* A command of update is sent.
LEMMA SendStep ==
  ASSUME TypeInv, TypeInv', Alone, NEW p \in Proc, SendRequest(p) \/ SendPart(p) \/ Submit(p)
  PROVE  Alone'
<1>1. /\ UNCHANGED <<docs, doc, want, result, serverVars>>
      /\ pc[p] \in {"request", "send"}
  BY DEF SendRequest, SendPart, Submit
<1>2. /\ doc[p] = Len(docs) /\ doc[p] \in 1 .. Len(docs) /\ docs[doc[p]] \in Nat \ {0}
      /\ want[p] = docs[doc[p]] /\ sent[p] \in Nat /\ sent[p] <= want[p]
      /\ pc[p] = "request" => sent[p] = 0
      /\ \A q \in Proc : q # p => pc[q] = "idle"
      /\ \A i \in 1 .. Len(log) : log[i].cmd = "submit" => log[i].part.doc # doc[p]
  BY <1>1 DEF TypeInv, Alone, ActiveInv, LastInv
<1>3. \A q \in Proc : q # p => pc'[q] = "idle"
  BY <1>2 DEF SendRequest, SendPart, Submit, Goto, TypeInv
<1>4. CASE SendRequest(p)
  <2>1. Exec(p, "request", 0) /\ pc'[p] = "send" /\ sent'[p] = 0 /\ pc[p] = "request"
    BY <1>2, <1>4 DEF SendRequest, Goto, TypeInv
  <2> DEFINE c == Of("request", doc[p], 0)
  <2>2. /\ c \in AnyCommand /\ log' = Append(log, c) /\ UNCHANGED executed
        /\ Len(log') # 0 /\ log'[Len(log')] = c
        /\ \A i \in 1 .. Len(log') : i = Len(log') \/ (i \in 1 .. Len(log) /\ log'[i] = log[i])
    <3>1. "request" \in Cmd /\ 0 \in Nat /\ Len(log) \in Nat
      BY <1>2 DEF Cmd, TypeInv
    <3>2. Len(log) + 1 # 0
      BY <3>1
    <3> HIDE DEF Exec, Of
    <3> QED
      BY <2>1, <3>1, <3>2, ExecFacts
  <2>3. c.cmd = "request" /\ c.part.doc = doc[p]
    BY DEF Of
  <2> HIDE DEF c
  <2>4. LogInv' /\ ServerInv' /\ StoredInv'
    BY <1>1, <1>2, <2>2, <2>3, LogStep DEF Alone
  <2>5. \A i \in 1 .. Len(log') : log'[i].cmd = "submit" => log'[i].part.doc # doc[p]
    BY <1>2, <2>2, <2>3
  <2>6. LastInv'
    BY <1>1, <1>3, <2>1, <2>2, <2>5 DEF LastInv, c, Of
  <2>7. ActiveInv'
    BY <1>1, <1>2, <1>3, <2>1 DEF ActiveInv
  <2> QED
    BY <2>4, <2>6, <2>7 DEF Alone
<1>5. CASE SendPart(p)
  <2>1. /\ Exec(p, "part", sent[p] + 1) /\ pc'[p] = "send" /\ sent'[p] = sent[p] + 1
        /\ pc[p] = "send" /\ sent[p] < want[p]
    BY <1>2, <1>5 DEF SendPart, TypeInv
  <2> DEFINE c == Of("part", doc[p], sent[p] + 1)
  <2>2. /\ c \in AnyCommand /\ log' = Append(log, c) /\ UNCHANGED executed
        /\ Len(log') # 0 /\ log'[Len(log')] = c
        /\ \A i \in 1 .. Len(log') : i = Len(log') \/ (i \in 1 .. Len(log) /\ log'[i] = log[i])
    <3>1. "part" \in Cmd /\ sent[p] + 1 \in Nat /\ Len(log) \in Nat
      BY <1>2 DEF Cmd, TypeInv
    <3>2. Len(log) + 1 # 0
      BY <3>1
    <3> HIDE DEF Exec, Of
    <3> QED
      BY <2>1, <3>1, <3>2, ExecFacts
  <2>3. c.cmd = "part" /\ c.part.doc = doc[p] /\ c.part.n = sent[p] + 1
    BY DEF Of
  <2>4. /\ Len(log) # 0
        /\ log[Len(log)] = IF sent[p] = 0 THEN Of("request", doc[p], 0)
                           ELSE Of("part", doc[p], sent[p])
    BY <2>1 DEF Alone, LastInv
  <2> HIDE DEF c
  <2>5. /\ c.part.n \in 1 .. docs[c.part.doc]
        /\ log[Len(log)] = IF c.part.n = 1 THEN Of("request", c.part.doc, 0)
                           ELSE Of("part", c.part.doc, c.part.n - 1)
    <3>1. /\ sent[p] + 1 \in 1 .. docs[doc[p]] /\ sent[p] + 1 - 1 = sent[p]
          /\ sent[p] = 0 <=> sent[p] + 1 = 1
      BY <1>2, <2>1
    <3>2. c.part.n \in 1 .. docs[c.part.doc]
      BY <2>3, <3>1
    <3>5. c.part.n - 1 = sent[p] /\ (c.part.n = 1 <=> sent[p] = 0)
      BY <1>2, <2>3
    <3> HIDE DEF Of
    <3>3. CASE sent[p] = 0
      BY <2>3, <2>4, <3>2, <3>3, <3>5
    <3>4. CASE sent[p] # 0
      BY <2>3, <2>4, <3>2, <3>4, <3>5
    <3> QED
      BY <3>3, <3>4
  <2>6. LogInv' /\ ServerInv' /\ StoredInv'
    BY <1>1, <1>2, <2>2, <2>3, <2>4, <2>5, LogStep DEF Alone
  <2>7. \A i \in 1 .. Len(log') : log'[i].cmd = "submit" => log'[i].part.doc # doc[p]
    BY <1>2, <2>2, <2>3
  <2>8. sent[p] + 1 # 0 /\ sent[p] + 1 <= want[p]
    <3>1. sent[p] \in Nat /\ want[p] \in Nat
      BY DEF Alone, TypeInv
    <3>. QED
      BY <2>1, <3>1
  <2>9. LastInv'
    BY <1>1, <1>3, <2>1, <2>2, <2>7, <2>8 DEF LastInv, c, Of
  <2>10. ActiveInv'
    BY <1>1, <1>2, <1>3, <2>1, <2>8 DEF ActiveInv
  <2> QED
    BY <2>6, <2>9, <2>10 DEF Alone
<1>6. CASE Submit(p)
  <2>1. /\ Exec(p, "submit", 0) /\ pc'[p] = "wait" /\ sent'[p] = sent[p]
        /\ pc[p] = "send" /\ sent[p] = want[p]
    BY <1>2, <1>6 DEF Submit, Goto, TypeInv
  <2> DEFINE c == Of("submit", doc[p], 0)
  <2>2. /\ c \in AnyCommand /\ log' = Append(log, c) /\ UNCHANGED executed
        /\ Len(log') # 0 /\ log'[Len(log')] = c
        /\ \A i \in 1 .. Len(log') : i = Len(log') \/ (i \in 1 .. Len(log) /\ log'[i] = log[i])
    <3>1. "submit" \in Cmd /\ 0 \in Nat /\ Len(log) \in Nat
      BY <1>2 DEF Cmd, TypeInv
    <3>2. Len(log) + 1 # 0
      BY <3>1
    <3> HIDE DEF Exec, Of
    <3> QED
      BY <2>1, <3>1, <3>2, ExecFacts
  <2>3. c.cmd = "submit" /\ c.part.doc = doc[p]
    BY DEF Of
  <2>4. Len(log) # 0 /\ log[Len(log)] = Of("part", doc[p], docs[doc[p]])
    BY <1>2, <2>1 DEF Alone, LastInv
  <2> HIDE DEF c
  <2>5. LogInv' /\ ServerInv' /\ StoredInv'
    BY <1>1, <1>2, <2>2, <2>3, <2>4, LogStep DEF Alone
  <2>6. LastInv'
    BY <1>1, <1>3, <2>1, <2>2 DEF LastInv, c, Of
  <2>7. ActiveInv'
    BY <1>1, <1>2, <1>3, <2>1 DEF ActiveInv
  <2> QED
    BY <2>5, <2>6, <2>7 DEF Alone
<1> QED
  BY <1>4, <1>5, <1>6

\* update returns: with an error, or with what the server has answered.
LEMMA ReturnStep ==
  ASSUME TypeInv, TypeInv', Alone, NEW p \in Proc, Fail(p) \/ Answer(p)
  PROVE  Alone'
<1>1. PICK r : Return(p, r) /\ (r = "ok" => Answer(p) /\ r = verdict[Len(verdict)])
  BY DEF Fail, Answer
<1>2. /\ UNCHANGED <<log, executed, docs, doc, sent, want, request, stored, verdict>>
      /\ \A q \in Proc : pc'[q] = IF q = p THEN "idle" ELSE pc[q]
      /\ \A d \in Doc : result'[d] = IF d = doc[p] THEN r ELSE result[d]
  BY <1>1 DEF Return, Goto, TypeInv, serverVars
<1>3. ActiveInv' /\ LastInv'
  BY <1>2 DEF Alone, ActiveInv, LastInv
<1>4. LogInv' /\ ServerInv'
  BY <1>2 DEF Alone, LogInv, Placed, ServerInv, FirstParts
<1>5. \A d : IsStored(d)' = IsStored(d)
  BY <1>2 DEF IsStored, Whole
<1>6. r = "ok" => doc[p] <= Len(docs) /\ IsStored(doc[p])
  <2> SUFFICES ASSUME r = "ok"
               PROVE  doc[p] <= Len(docs) /\ IsStored(doc[p])
    OBVIOUS
  <2>1. pc[p] = "wait" /\ Len(executed) = Len(log) /\ verdict[Len(verdict)] = "ok"
    BY <1>1 DEF Answer, Answered
  <2>2. Len(log) # 0 /\ log[Len(log)] = Of("submit", doc[p], 0)
    BY <2>1 DEF Alone, LastInv
  <2>3. log[Len(log)].cmd = "submit" /\ log[Len(log)].part.doc = doc[p]
    BY <2>2 DEF Of
  <2>4. IsStored(doc[p])
    BY <2>1, <2>2, <2>3 DEF Alone, StoredInv, Judged
  <2>5. doc[p] = Len(docs) /\ Len(docs) \in Nat
    BY <2>1 DEF Alone, ActiveInv, TypeInv
  <2> QED
    BY <2>4, <2>5
<1>7. StoredInv'
  <2>1. \A i \in 1 .. Len(stored) : Submitted(i)'
    BY <1>2 DEF Alone, StoredInv, Submitted, Whole
  <2>2. Judged'
    BY <1>2 DEF Alone, StoredInv, Judged, IsStored, Whole
  <2>3. \A d \in Doc : result'[d] = "ok" => d <= Len(docs') /\ IsStored(d)'
    BY <1>2, <1>5, <1>6 DEF Alone, StoredInv
  <2> QED
    BY <1>2, <2>1, <2>2, <2>3 DEF Alone, StoredInv
<1> QED
  BY <1>3, <1>4, <1>7 DEF Alone

\* The server executes a command.
LEMMA ServeStep ==
  ASSUME TypeInv, TypeInv', Alone, Serve
  PROVE  Alone'
<1>e. PICK e : e = Len(executed) + 1
  OBVIOUS
<1>c. PICK c : c = log[e]
  OBVIOUS
<1>d. PICK d : d = c.part.doc
  OBVIOUS
<1>1. /\ e \in Nat /\ e - 1 = Len(executed) /\ e \in 1 .. Len(log)
      /\ Len(executed') = e /\ \A j \in 1 .. Len(executed) : j \in 1 .. e /\ j # e
  <2>1. Len(executed) < Len(log) /\ Len(executed) \in Nat /\ Len(log) \in Nat
    BY DEF Serve, Conn!Execute, TypeInv
  <2>2. c \in AnyCommand /\ executed \in Seq(AnyCommand) /\ executed' = Append(executed, c)
    BY <1>e, <1>c, <2>1 DEF Serve, Conn!Execute, TypeInv
  <2>3. Len(executed') = Len(executed) + 1
    BY <2>2, AppendFacts
  <2> QED
    BY <1>e, <2>1, <2>3
<1>2. UNCHANGED <<log, pc, doc, sent, want, docs, result>>
  BY DEF Serve, Conn!Execute, clientVars
<1>3. /\ c \in AnyCommand /\ Placed(e)
  BY <1>c, <1>1 DEF TypeInv, Alone, LogInv
<1>4. /\ d \in 1 .. Len(docs) /\ c.part = [doc |-> d, n |-> c.part.n]
      /\ docs[d] \in Nat \ {0} /\ c.part.n \in Nat
  BY <1>c, <1>d, <1>3 DEF Placed, AnyCommand, TypeInv
<1>5. ActiveInv' /\ LogInv' /\ LastInv'
  BY <1>2 DEF Alone, ActiveInv, LogInv, LastInv, Placed
<1>6. \A k : Whole(k)' = Whole(k)
  BY <1>2 DEF Whole
<1>7. ASSUME NEW i \in 1 .. Len(stored), stored'[i] = stored[i]
      PROVE  Submitted(i)'
  <2>1. PICK j \in 1 .. Len(executed) :
             log[j].cmd = "submit" /\ stored[i] = Whole(log[j].part.doc)
    BY DEF Alone, StoredInv, Submitted
  <2>2. Whole(log[j].part.doc)' = Whole(log[j].part.doc)
    BY <1>2 DEF Whole
  <2>3. j \in 1 .. Len(executed')
    BY <1>1, <2>1
  <2> QED
    BY <1>2, <1>7, <2>1, <2>2, <2>3 DEF Submitted
<1>8. ASSUME c.cmd # "submit"
      PROVE  Alone'
  <2>1. UNCHANGED <<stored, verdict>>
    BY <1>e, <1>c, <1>8 DEF Serve
  <2>2. StoredInv'
    <3>1. Judged'
      BY <1>c, <1>1, <1>2, <1>8 DEF Judged
    <3>2. \A k : IsStored(k)' = IsStored(k)
      BY <1>2, <2>1 DEF IsStored, Whole
    <3> QED
      BY <1>2, <1>7, <2>1, <3>1, <3>2 DEF Alone, StoredInv
  <2>3. CASE c.cmd = "request"
    <3>1. request' = {}
      BY <1>e, <1>c, <2>3 DEF Serve
    <3>2. ServerInv'
      BY <1>c, <1>1, <1>2, <2>3, <3>1 DEF ServerInv
    <3> QED
      BY <1>5, <2>2, <3>2 DEF Alone
  <2>4. CASE c.cmd = "part"
    <3>1. request' = request \cup {[doc |-> d, n |-> c.part.n]}
      BY <1>e, <1>c, <1>4, <2>4 DEF Serve
    <3>2. /\ c.part.n \in 1 .. docs[d] /\ e > 1
          /\ log[e - 1] = IF c.part.n = 1 THEN Of("request", d, 0)
                          ELSE Of("part", d, c.part.n - 1)
      BY <1>c, <1>d, <1>3, <2>4 DEF Placed
    <3>3. Len(executed) # 0 /\ log[Len(executed)] = log[e - 1]
      BY <1>1, <3>2
    <3>4. request' = FirstParts(d, c.part.n)
      <4>1. CASE c.part.n = 1
        <5>1. log[Len(executed)].cmd = "request"
          BY <3>2, <3>3, <4>1 DEF Of
        <5>2. request = {}
          BY <5>1 DEF Alone, ServerInv
        <5> QED
          BY <3>1, <4>1, <5>2 DEF FirstParts
      <4>2. CASE c.part.n # 1
        <5>1. /\ log[Len(executed)].cmd = "part" /\ log[Len(executed)].part.doc = d
              /\ log[Len(executed)].part.n = c.part.n - 1
          BY <3>2, <3>3, <4>2 DEF Of
        <5>2. request = FirstParts(d, c.part.n - 1)
          BY <3>3, <5>1 DEF Alone, ServerInv
        <5>3. \A k : k \in 1 .. c.part.n <=> k \in 1 .. c.part.n - 1 \/ k = c.part.n
          BY <1>4, <3>2
        <5> QED
          BY <3>1, <5>2, <5>3 DEF FirstParts
      <4> QED
        BY <4>1, <4>2
    <3>7. ServerInv'
      BY <1>c, <1>d, <1>1, <1>2, <2>4, <3>4 DEF ServerInv, FirstParts
    <3> QED
      BY <1>5, <2>2, <3>7 DEF Alone
  <2>5. c.cmd \in Cmd
    BY <1>3 DEF AnyCommand
  <2> QED
    BY <1>8, <2>3, <2>4, <2>5 DEF Cmd
<1>9. ASSUME c.cmd = "submit"
      PROVE  Alone'
  <2>1. /\ request' = {}
        /\ \/ stored' = Append(stored, request) /\ verdict' = Append(verdict, "ok")
           \/ stored' = stored /\ verdict' = Append(verdict, "error")
    BY <1>e, <1>c, <1>9 DEF Serve
  <2>2. ServerInv'
    BY <1>c, <1>1, <1>2, <1>9, <2>1 DEF ServerInv
  <2>3. request = Whole(d)
    <3>1. e > 1 /\ log[e - 1] = Of("part", d, docs[d])
      BY <1>c, <1>d, <1>3, <1>9 DEF Placed
    <3>2. /\ Len(executed) # 0 /\ log[Len(executed)].cmd = "part"
          /\ log[Len(executed)].part.doc = d /\ log[Len(executed)].part.n = docs[d]
      BY <1>1, <3>1 DEF Of
    <3> QED
      BY <3>2 DEF Alone, ServerInv, FirstParts, Whole
  <2>4. CASE stored' = stored /\ verdict' = Append(verdict, "error")
    <3>1. Len(verdict') # 0 /\ verdict'[Len(verdict')] = "error"
      BY <2>4, AppendFacts DEF TypeInv
    <3>2. Judged'
      BY <3>1 DEF Judged
    <3>3. \A k : IsStored(k)' = IsStored(k)
      BY <1>2, <2>4 DEF IsStored, Whole
    <3>4. StoredInv'
      BY <1>2, <1>7, <2>4, <3>2, <3>3 DEF Alone, StoredInv
    <3> QED
      BY <1>5, <2>2, <3>4 DEF Alone
  <2>5. CASE stored' = Append(stored, request) /\ verdict' = Append(verdict, "ok")
    <3> DEFINE s == Len(stored)
    <3>1. /\ s \in Nat /\ Len(stored') = s + 1 /\ stored'[s + 1] = Whole(d)
          /\ \A i \in 1 .. s : stored'[i] = stored[i]
      <4>1. request \in SUBSET [doc : Nat, n : Nat] /\ stored \in Seq(SUBSET [doc : Nat, n : Nat])
        BY DEF TypeInv
      <4> QED
        BY <2>3, <2>5, <4>1, AppendFacts
    <3>2. Len(verdict') # 0
      BY <2>5, AppendFacts DEF TypeInv
    <3>3. \A k : IsStored(k) => IsStored(k)'
      BY <1>6, <3>1 DEF IsStored
    <3>4. IsStored(d)'
      BY <1>6, <3>1 DEF IsStored
    <3>5. Judged'
      BY <1>c, <1>d, <1>1, <1>2, <3>2, <3>4 DEF Judged
    <3>6. ASSUME NEW i \in 1 .. Len(stored')
          PROVE  Submitted(i)'
      <4>1. CASE i \in 1 .. s
        BY <1>7, <3>1, <4>1
      <4>2. CASE i = s + 1
        <5>1. e \in 1 .. Len(executed') /\ log'[e] = c /\ Whole(d)' = Whole(d)
          BY <1>c, <1>1, <1>2, <1>6
        <5> QED
          BY <1>c, <1>d, <1>2, <1>9, <3>1, <4>2, <5>1 DEF Submitted
      <4> QED
        BY <3>1, <4>1, <4>2
    <3>7. \A i \in 1 .. s : stored[i] # Whole(d)
      <4> SUFFICES ASSUME NEW i \in 1 .. s, stored[i] = Whole(d)
                   PROVE  FALSE
        OBVIOUS
      <4>1. PICK j \in 1 .. Len(executed) :
                 log[j].cmd = "submit" /\ stored[i] = Whole(log[j].part.doc)
        BY DEF Alone, StoredInv, Submitted
      <4>2. j \in 1 .. Len(log) /\ j # e
        BY <1>1, <4>1 DEF TypeInv
      <4>3. log[j].part.doc \in 1 .. Len(docs)
        BY <4>2 DEF Alone, LogInv, Placed
      <4>4. log[j].part.doc = d
        BY <1>4, <4>1, <4>3, WholeInjective
      <4> QED
        BY <1>c, <1>d, <1>1, <1>9, <4>1, <4>2, <4>4 DEF Alone, LogInv
    <3>8. \A i, j \in 1 .. Len(stored') : stored'[i] = stored'[j] => i = j
      <4> SUFFICES ASSUME NEW i \in 1 .. s + 1, NEW j \in 1 .. s + 1, stored'[i] = stored'[j]
                   PROVE  i = j
        BY <3>1
      <4>1. (i \in 1 .. s \/ i = s + 1) /\ (j \in 1 .. s \/ j = s + 1)
        BY <3>1
      <4>2. \A a, b \in 1 .. s : stored[a] = stored[b] => a = b
        BY DEF Alone, StoredInv
      <4> HIDE DEF s
      <4> QED
        BY <3>1, <3>7, <4>1, <4>2
    <3>9. StoredInv'
      BY <1>2, <3>3, <3>5, <3>6, <3>8 DEF Alone, StoredInv
    <3> QED
      BY <1>5, <2>2, <3>9 DEF Alone
  <2> QED
    BY <2>1, <2>4, <2>5
<1> QED
  BY <1>8, <1>9

LEMMA DocsNextInv == DocsInv /\ [DocsNext]_docsVars => DocsInv'
<1> SUFFICES ASSUME DocsInv, [DocsNext]_docsVars
             PROVE  DocsInv'
  OBVIOUS
<1>1. TypeInv /\ TypeInv'
  BY TypeStep DEF DocsInv
<1> SUFFICES ASSUME ~mixed'
             PROVE  Alone'
  BY <1>1 DEF DocsInv
<1>2. ASSUME NEW p \in Proc, NEW n \in 1 .. MaxParts, Update(p, n)
      PROVE  ~mixed /\ Alone'
  <2>1. ~mixed
    BY <1>2 DEF Update
  <2> QED
    BY <1>1, <1>2, <2>1, UpdateStep DEF DocsInv
<1>3. ASSUME NEW p \in Proc, SendRequest(p) \/ SendPart(p) \/ Submit(p)
      PROVE  Alone'
  <2>1. ~mixed
    BY <1>3 DEF SendRequest, SendPart, Submit
  <2> QED
    BY <1>1, <1>3, <2>1, SendStep DEF DocsInv
<1>4. ASSUME NEW p \in Proc, Fail(p) \/ Answer(p)
      PROVE  Alone'
  <2>1. ~mixed
    BY <1>4 DEF Fail, Answer, Return
  <2> QED
    BY <1>1, <1>4, <2>1, ReturnStep DEF DocsInv
<1>5. CASE Serve
  <2>1. ~mixed
    BY <1>5 DEF Serve, clientVars
  <2> QED
    BY <1>1, <1>5, <2>1, ServeStep DEF DocsInv
<1>6. CASE Break \/ Finished \/ UNCHANGED docsVars
  <2>1. /\ ~mixed
        /\ UNCHANGED <<log, executed, pc, doc, sent, want, docs, result, request, stored, verdict>>
    BY <1>6 DEF Break, Finished, docsVars, clientVars, serverVars
  <2>2. Alone
    BY <2>1 DEF DocsInv
  <2>3. ActiveInv' /\ LogInv' /\ LastInv' /\ ServerInv'
    BY <2>1, <2>2 DEF Alone, ActiveInv, LogInv, LastInv, ServerInv, Placed, FirstParts
  <2>4. \A d : IsStored(d)' = IsStored(d)
    BY <2>1 DEF IsStored, Whole
  <2>5. \A i : Submitted(i)' = Submitted(i)
    BY <2>1 DEF Submitted, Whole
  <2>6. Judged' = Judged
    BY <2>1 DEF Judged, IsStored, Whole
  <2>7. StoredInv'
    BY <2>1, <2>2, <2>4, <2>5, <2>6 DEF Alone, StoredInv
  <2> QED
    BY <2>3, <2>7 DEF Alone
<1> QED
  BY <1>2, <1>3, <1>4, <1>5, <1>6 DEF DocsNext

LEMMA Inductive == DocsSpec => []DocsInv
<1> QED
  BY DocsInitInv, DocsNextInv, PTL DEF DocsSpec

-----------------------------------------------------------------------------
(* Documents: theorems                                                     *)

\* As long as no two goroutines are in update at the same time, every document the
\* server has stored is whole: all the parts of one Add or Update and no other
\* (indexer.go, update).
THEOREM DocsWhole == DocsSpec => []DocIntactIfAlone
<1>1. DocsInv => DocIntactIfAlone
  <2> SUFFICES ASSUME TypeInv, Alone, NEW i \in 1 .. Len(stored)
               PROVE  \E d \in 1 .. Len(docs) : stored[i] = Whole(d)
    BY DEF DocsInv, DocIntactIfAlone, DocIntact
  <2>1. PICK j \in 1 .. Len(executed) :
             log[j].cmd = "submit" /\ stored[i] = Whole(log[j].part.doc)
    BY DEF Alone, StoredInv, Submitted
  <2>2. j \in 1 .. Len(log)
    BY <2>1 DEF TypeInv
  <2>3. log[j].part.doc \in 1 .. Len(docs)
    BY <2>2 DEF Alone, LogInv, Placed
  <2> QED
    BY <2>1, <2>3
<1> QED
  BY Inductive, <1>1, PTL

\* And it has stored each document at most once, exactly once if Add or Update has
\* returned without an error.
THEOREM AcknowledgedOnce == DocsSpec => []AcknowledgedStored
<1>1. DocsInv => AcknowledgedStored
  <2> SUFFICES ASSUME TypeInv, Alone, NEW d \in 1 .. Len(docs)
               PROVE  Copies(d) <= 1 /\ (result[d] = "ok" => Copies(d) = 1)
    BY DEF DocsInv, AcknowledgedStored
  <2> DEFINE At == {i \in 1 .. Len(stored) : stored[i] = Whole(d)}
  <2>1. \A i, j \in At : i = j
    BY DEF Alone, StoredInv
  <2>2. At = {} \/ \E i : At = {i}
    BY <2>1
  <2>3. (At = {} => Copies(d) = 0) /\ (At # {} => Copies(d) = 1)
    <3>1. Copies(d) = Cardinality(At)
      BY DEF Copies
    <3> HIDE DEF At
    <3>2. At = {} => Cardinality(At) = 0
      BY FS_EmptySet
    <3>3. \A i : At = {i} => Cardinality(At) = 1
      BY FS_Singleton
    <3> QED
      BY <2>2, <3>1, <3>2, <3>3
  <2>4. result[d] = "ok" => At # {}
    <3>1. d \in Doc
      BY PartsAssumption DEF TypeInv, Doc
    <3> QED
      BY <3>1 DEF Alone, StoredInv, IsStored
  <2> HIDE DEF At
  <2>5. Copies(d) = 0 \/ Copies(d) = 1
    BY <2>3
  <2> QED
    BY <2>3, <2>4, <2>5
<1> QED
  BY Inductive, <1>1, PTL
=============================================================================
