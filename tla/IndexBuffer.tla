---------------------------- MODULE IndexBuffer ----------------------------
(***************************************************************************)
(* The synonym buffer of an Indexer (indexer.go): AddSynonym and           *)
(* DelSynonym may collect their commands and send them in one EXDATA       *)
(* command; all other operations go to the server at once.  The Indexer is *)
(* used by one goroutine; Exec is what module Connection promises, and any *)
(* Exec may fail, before or after the server did its work.                 *)
(***************************************************************************)
EXTENDS Naturals, Sequences

CONSTANTS
  Db,          \* databases of the project
  CmdSize,     \* sizes of an encoded synonym command
  BufferSize,  \* size that OpenBuffer gives the buffer (30)
  MaxCmds,     \* bound: commands issued
  MaxSynonyms  \* bound: synonyms in one call

ASSUME SizeAssumption == CmdSize \subseteq Nat \ {0} /\ BufferSize \in Nat
ASSUME BoundAssumption == MaxCmds \in Nat /\ MaxSynonyms \in Nat

VARIABLES
  conn,      \* indexer.conn is not nil
  open,      \* indexer.buffer is not nil
  buffer,    \* the commands in indexer.buffer
  used,      \* indexer.buffer.Len(), in bytes
  todo,      \* sizes of the commands the current call has still to issue
  failed,    \* a call has returned an error
  issued,    \* history: number of commands issued
  db,        \* the server: current database
  changes    \* the server: commands executed, with the database they changed

vars == <<conn, open, buffer, used, todo, failed, issued, db, changes>>

\* Command no, issued while d was the current database.
Kind == {"synonym", "direct"}
Command == [no : Nat, kind : Kind, size : CmdSize, db : Db]
Effect(c) == [no |-> c.no, kind |-> c.kind, meant |-> c.db, hit |-> db]
Effects(s) == [i \in DOMAIN s |-> Effect(s[i])]

Init ==
  /\ conn = TRUE
  /\ open = FALSE
  /\ buffer = <<>> /\ used = 0
  /\ todo = <<>>
  /\ failed = FALSE
  /\ issued = 0
  /\ db \in Db
  /\ changes = <<>>

\* The program is between two calls.
Ready == conn /\ todo = <<>>

\* Exec of the commands s succeeds, or fails after some of them took effect.
ExecOK(s) == changes' = changes \o Effects(s) /\ UNCHANGED failed
Partly(s) == \E n \in 0 .. Len(s) : changes' = changes \o Effects(SubSeq(s, 1, n))
ExecFails(s) == Partly(s) /\ failed' = TRUE

\* flushBuffer empties the buffer whether its Exec succeeds or not.
FlushOK == IF buffer = <<>> THEN UNCHANGED <<changes, failed>> ELSE ExecOK(buffer)
FlushFails == buffer # <<>> /\ ExecFails(buffer)
-----------------------------------------------------------------------------
(* AddSynonym, DelSynonym and bufferExec                                   *)

Synonyms(s) ==
  /\ Ready
  /\ issued + Len(s) <= MaxCmds
  /\ todo' = s
  /\ UNCHANGED <<conn, open, buffer, used, failed, issued, db, changes>>

New(k, size) == [no |-> issued + 1, kind |-> k, size |-> size, db |-> db]
This == New("synonym", Head(todo))

Fits == used + This.size <= BufferSize

\* Without a buffer the command is executed at once.
ExecNow ==
  /\ todo # <<>> /\ ~open
  /\ issued' = issued + 1
  /\ \/ ExecOK(<<This>>) /\ todo' = Tail(todo)
     \/ ExecFails(<<This>>) /\ todo' = <<>>
  /\ UNCHANGED <<conn, open, buffer, used, db>>

Collect ==
  /\ todo # <<>> /\ open /\ Fits
  /\ issued' = issued + 1
  /\ buffer' = Append(buffer, This)
  /\ used' = used + This.size
  /\ todo' = Tail(todo)
  /\ UNCHANGED <<conn, open, failed, db, changes>>

\* Mutant: a command that does not fit overtakes those in the buffer.
Overtake ==
  /\ todo # <<>> /\ open /\ ~Fits
  /\ issued' = issued + 1
  /\ ExecOK(<<This>>) /\ todo' = Tail(todo)
  /\ UNCHANGED <<conn, open, buffer, used, db>>

\* Mutant: flushBuffer does not reset the buffer.
FlushAndKeep ==
  /\ todo # <<>> /\ open /\ ~Fits
  /\ issued' = issued + 1
  /\ FlushOK /\ buffer' = Append(buffer, This) /\ todo' = Tail(todo)
  /\ used' = used + This.size
  /\ UNCHANGED <<conn, open, db>>

\* A command that does not fit flushes the buffer first; if that fails, the
\* call returns and the command is gone with the buffer.
FlushAndCollect ==
  /\ todo # <<>> /\ open /\ ~Fits
  /\ issued' = issued + 1
  /\ \/ FlushOK /\ buffer' = <<This>> /\ used' = This.size /\ todo' = Tail(todo)
     \/ FlushFails /\ buffer' = <<>> /\ used' = 0 /\ todo' = <<>>
  /\ UNCHANGED <<conn, open, db>>
-----------------------------------------------------------------------------
(* The other operations                                                    *)

\* Mutant: the error of flushBuffer is not looked at.
OpenBufferBlindly(size) ==
  /\ Ready
  /\ buffer' = <<>> /\ used' = 0
  /\ open' = (size > 0)
  /\ \/ FlushOK
     \/ Partly(buffer) /\ UNCHANGED failed
  /\ UNCHANGED <<conn, todo, issued, db>>

\* OpenBuffer flushes an open buffer and makes a new one; Submit is OpenBuffer(0).
\* (bufferSize, which is 30 or 0, never equals size << 20 when a buffer is open.)
OpenBuffer(size) ==
  /\ Ready
  /\ buffer' = <<>> /\ used' = 0
  /\ \/ FlushOK /\ open' = (size > 0)
     \/ FlushFails /\ open' = FALSE
  /\ UNCHANGED <<conn, todo, issued, db>>

\* SetDB does not look at the buffer.
SetDB(d) ==
  /\ Ready
  /\ \/ db' = d /\ UNCHANGED failed
     \/ db' \in {d, db} /\ failed' = TRUE
  /\ UNCHANGED <<conn, open, buffer, used, todo, issued, changes>>

\* Neither do Clean, Del, FlushIndex and the rebuild operations.
Direct(size) ==
  /\ Ready
  /\ issued < MaxCmds
  /\ issued' = issued + 1
  /\ ExecOK(<<New("direct", size)>>) \/ ExecFails(<<New("direct", size)>>)
  /\ UNCHANGED <<conn, open, buffer, used, todo, db>>

\* Mutant: Close does not reset the Indexer's connection; the buffer is flushed
\* but kept.
CloseOnly ==
  /\ Ready
  /\ Partly(buffer)
  /\ open' = FALSE
  /\ UNCHANGED <<conn, buffer, used, todo, failed, issued, db>>

\* Close flushes the buffer and ignores the error.
Close ==
  /\ Ready
  /\ conn' = FALSE
  /\ Partly(buffer)
  /\ buffer' = <<>> /\ used' = 0
  /\ UNCHANGED <<open, todo, failed, issued, db>>

Closed == ~conn /\ UNCHANGED vars

Next ==
  \/ \E n \in 1 .. MaxSynonyms : \E s \in [1 .. n -> CmdSize] : Synonyms(s)
  \/ ExecNow
  \/ Collect
  \/ FlushAndCollect
  \/ \E size \in {0, 1} : OpenBuffer(size)
  \/ \E d \in Db : SetDB(d)
  \/ \E size \in CmdSize : Direct(size)
  \/ Close
  \/ Closed

Spec == Init /\ [][Next]_vars
-----------------------------------------------------------------------------
(* Properties                                                              *)

\* Every variable has its type, nothing waits in a buffer that is not open, and
\* no more than fits, unless it is a single command larger than the buffer.
TypeOK ==
  /\ {conn, open, failed} \subseteq BOOLEAN
  /\ buffer \in Seq(Command)
  /\ todo \in Seq(CmdSize)
  /\ issued \in 0 .. MaxCmds
  /\ db \in Db
  /\ changes \in Seq([no : Nat, kind : Kind, meant : Db, hit : Db])
  /\ ~open => buffer = <<>>
  /\ used \in Nat
  /\ used <= BufferSize \/ Len(buffer) <= 1

\* Every command that was issued is executed or still in the buffer, or a call
\* has returned an error; only Close may lose commands without a word.
Reached == {changes[i].no : i \in DOMAIN changes} \cup {buffer[i].no : i \in DOMAIN buffer}
LossIsReported == conn => (1 .. issued \subseteq Reached \/ failed)

\* No command is executed twice, even if a flush fails half-way and the
\* program goes on.
AtMostOnce ==
  \A i, j \in DOMAIN changes : changes[i].no = changes[j].no => i = j

\* Synonyms are executed in the order in which they were added and deleted,
\* whether they were buffered, did not fit, or were sent at once.
SynonymsInOrder ==
  \A i, j \in DOMAIN changes :
    i < j /\ changes[i].kind = "synonym" /\ changes[j].kind = "synonym" =>
      changes[i].no < changes[j].no

\* Buffering changes nothing but the number of round trips ("open buffer for
\* improving performance"): each command changes the database that was current
\* when it was issued.
HitsItsDb == \A i \in DOMAIN changes : changes[i].hit = changes[i].meant
=============================================================================
