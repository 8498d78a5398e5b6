----------------------------- MODULE IndexDocs -----------------------------
(***************************************************************************)
(* Add and Update (Indexer.update, indexer.go): one document becomes a     *)
(* REQUEST command, one command per term, text and value, and a SUBMIT.    *)
(* The calls of Exec are separate, and goroutines that share an Indexer    *)
(* share its connection, so their commands may mix.  The connection is the *)
(* command log it was shown to implement (module CommandLog); the server,  *)
(* as xunsearch does, gathers the parts of one document at a time.         *)
(***************************************************************************)
EXTENDS Naturals, Sequences, FiniteSets

CONSTANTS
  Proc,      \* goroutines that share the Indexer
  MaxParts,  \* bound: terms, texts and values of one document
  MaxDocs    \* bound: documents

ASSUME PartsAssumption == MaxParts \in Nat /\ MaxDocs \in Nat

VARIABLES
  log,       \* commands accepted by the connection
  executed,  \* commands executed by the server
  pc,        \* where each goroutine is: "idle", "request", "send", "wait"
  doc,       \* the document each goroutine is sending
  sent,      \* number of parts it has sent
  want,      \* number of parts its document has
  docs,      \* history: number of parts of every document begun
  mixed,     \* history: two goroutines were in update at the same time
  broken,    \* the link has failed
  result,    \* what update returned for each document: "none", "ok", "error"
  request,   \* the server: parts gathered since the last REQUEST
  stored,    \* the server: documents stored, as the parts they consist of
  verdict    \* the server: its answer to each SUBMIT, in order

clientVars == <<pc, doc, sent, want, docs, mixed, broken, result>>
serverVars == <<request, stored, verdict>>
docsVars == <<log, executed, clientVars, serverVars>>

Doc == 1 .. MaxDocs
Part == [doc : Doc, n : 0 .. MaxParts]   \* n = 0 in a REQUEST and a SUBMIT
Cmd == {"request", "part", "submit"}
DocCommand == [cmd : Cmd, part : Part]
Conn == INSTANCE CommandLog WITH Command <- DocCommand

DocsInit ==
  /\ Conn!Init
  /\ pc = [p \in Proc |-> "idle"]
  /\ doc = [p \in Proc |-> 0]
  /\ sent = [p \in Proc |-> 0]
  /\ want = [p \in Proc |-> 0]
  /\ docs = <<>>
  /\ mixed = FALSE
  /\ broken = FALSE
  /\ result = [d \in Doc |-> "none"]
  /\ request = {}
  /\ stored = <<>>
  /\ verdict = <<>>

Goto(p, l) == pc' = [pc EXCEPT ![p] = l]

\* Exec accepts the next command for the document of p; while the answer to a
\* SUBMIT is awaited its caller holds the lock of the connection.
Exec(p, c, n) ==
  /\ \A q \in Proc : pc[q] # "wait"
  /\ Conn!Accept([cmd |-> c, part |-> [doc |-> doc[p], n |-> n]])
-----------------------------------------------------------------------------
(* Indexer.update                                                          *)

\* update has the commands of a document built (buildCmd): n parts, at least the
\* value of the primary key, without which it refuses the document.
Update(p, n) ==
  /\ pc[p] = "idle"
  /\ Len(docs) < MaxDocs
  /\ docs' = Append(docs, n)
  /\ mixed' = (mixed \/ \E q \in Proc : pc[q] # "idle")
  /\ doc' = [doc EXCEPT ![p] = Len(docs) + 1]
  /\ want' = [want EXCEPT ![p] = n]
  /\ sent' = [sent EXCEPT ![p] = 0]
  /\ Goto(p, "request")
  /\ UNCHANGED <<log, executed, broken, result, serverVars>>

SendRequest(p) ==
  /\ pc[p] = "request"
  /\ Exec(p, "request", 0)
  /\ Goto(p, "send")
  /\ UNCHANGED <<doc, sent, want, docs, mixed, broken, result, serverVars>>

\* A part is only cached by the connection: Exec returns at once.
SendPart(p) ==
  /\ pc[p] = "send"
  /\ sent[p] < want[p]
  /\ Exec(p, "part", sent[p] + 1)
  /\ sent' = [sent EXCEPT ![p] = @ + 1]
  /\ UNCHANGED <<pc, doc, want, docs, mixed, broken, result, serverVars>>

\* Mutant: the last part is left out.
SubmitEarly(p) ==
  /\ pc[p] = "send"
  /\ sent[p] + 1 >= want[p]
  /\ Exec(p, "submit", 0)
  /\ Goto(p, "wait")
  /\ UNCHANGED <<doc, sent, want, docs, mixed, broken, result, serverVars>>

Submit(p) ==
  /\ pc[p] = "send"
  /\ sent[p] = want[p]
  /\ Exec(p, "submit", 0)
  /\ Goto(p, "wait")
  /\ UNCHANGED <<doc, sent, want, docs, mixed, broken, result, serverVars>>

Return(p, r) ==
  /\ Goto(p, "idle")
  /\ result' = [result EXCEPT ![doc[p]] = r]
  /\ UNCHANGED <<log, executed, doc, sent, want, docs, mixed, broken, serverVars>>

\* The SUBMIT whose answer is awaited is the last command of the log.
Answered == Len(executed) = Len(log)

\* Mutant: the error of the last Exec is dropped.
FailSilently(p) == pc[p] = "wait" /\ broken /\ Return(p, "ok")

\* The SUBMIT cannot be written, or its answer is lost.
Fail(p) == pc[p] = "wait" /\ broken /\ Return(p, "error")

\* The server answers OK_RQST_FINISHED or an error.
Answer(p) ==
  /\ pc[p] = "wait"
  /\ Answered
  /\ Return(p, verdict[Len(verdict)])
-----------------------------------------------------------------------------
(* The server and the link                                                 *)

\* The server executes the next command: a REQUEST begins a document, a SUBMIT
\* stores or refuses what was gathered since.
Serve ==
  /\ ~broken
  /\ Conn!Execute
  /\ LET c == log[Len(executed) + 1]
     IN \/ /\ c.cmd = "request"
           /\ request' = {}
           /\ UNCHANGED <<stored, verdict>>
        \/ /\ c.cmd = "part"
           /\ request' = request \cup {c.part}
           /\ UNCHANGED <<stored, verdict>>
        \/ /\ c.cmd = "submit"
           /\ request' = {}
           /\ \/ stored' = Append(stored, request) /\ verdict' = Append(verdict, "ok")
              \/ UNCHANGED stored /\ verdict' = Append(verdict, "error")
  /\ UNCHANGED clientVars

\* The link fails; what the server still executes of what it has received, it
\* executes before this step.
Break ==
  /\ ~broken
  /\ broken' = TRUE
  /\ UNCHANGED <<log, executed, pc, doc, sent, want, docs, mixed, result, serverVars>>

\* The program has no document left.
Finished ==
  /\ Len(docs) = MaxDocs
  /\ \A p \in Proc : pc[p] = "idle"
  /\ UNCHANGED docsVars
-----------------------------------------------------------------------------
DocsNext ==
  \/ \E p \in Proc :
       \/ \E n \in 1 .. MaxParts : Update(p, n)
       \/ SendRequest(p) \/ SendPart(p) \/ Submit(p) \/ Fail(p) \/ Answer(p)
  \/ Serve
  \/ Break
  \/ Finished

DocsSpec == DocsInit /\ [][DocsNext]_docsVars
-----------------------------------------------------------------------------
(* Properties                                                              *)

\* The parts of document d.
Whole(d) == {[doc |-> d, n |-> k] : k \in 1 .. docs[d]}

\* A document the server stores has all the parts of one Add or Update and no
\* part of another ("Add document to index server").
DocIntact ==
  \A i \in 1 .. Len(stored) : \E d \in 1 .. Len(docs) : stored[i] = Whole(d)

\* So it is as long as the goroutines do not call update at the same time.
DocIntactIfAlone == ~mixed => DocIntact

\* On the same condition the server stored a document exactly once if Add or
\* Update returned without an error, and at most once if it returned one.
Copies(d) == Cardinality({i \in 1 .. Len(stored) : stored[i] = Whole(d)})
AcknowledgedStored ==
  ~mixed => \A d \in 1 .. Len(docs) :
    Copies(d) <= 1 /\ (result[d] = "ok" => Copies(d) = 1)
=============================================================================
