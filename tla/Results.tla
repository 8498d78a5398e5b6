------------------------------ MODULE Results ------------------------------
(***************************************************************************)
(* What a Searcher sends to its server and reads back, byte by byte: the   *)
(* settings of a search, cached until the next command that has an answer, *)
(* the loop of Search that makes documents of the responses, and           *)
(* GetExpandedQuery.  One goroutine uses the Searcher; responses arrive    *)
(* whole (modules Connection and Frames are about the rest).               *)
(*                                                                         *)
(* No code asks the server for facets, so it sends none; the twenty bytes  *)
(* of a DOC response cannot fail to unpack.  The number of matches, which  *)
(* the answer begins with, is an estimate, but never less than the number  *)
(* of documents that follow.                                               *)
(***************************************************************************)
EXTENDS Codec, FiniteSets, TLC

CONSTANTS
  Percent,   \* arguments of SetCutOff: percents, and weights in tenths
  Weight,
  Scale,     \* arguments of SetSynonymScale, in hundredths
  Policy,    \* arguments of SetWeightingScheme
  Query,     \* queries, as bytes
  Meta,      \* meta data of documents, as bytes
  Vno,       \* numbers of their values
  VnoMap,    \* the names of numbers in the schema
  Word,      \* values and words, as bytes
  MaxDocs,   \* bound: documents of an answer
  MaxValues, \* bound: values of a document
  MaxMore,   \* bound: matches beyond the documents that come
  MaxCalls   \* bound: calls

\* The name of a value: that of its number, or the number for a name.
Name(n) == IF n \in DOMAIN VnoMap THEN VnoMap[n] ELSE ToString(n)

ASSUME BoundAssumption ==
  /\ {MaxDocs, MaxValues, MaxMore, MaxCalls} \subseteq Nat
  /\ Four(MaxDocs + MaxMore)
ASSUME ByteAssumption ==
  /\ Percent \cup Policy \cup Vno \subseteq Byte
  /\ \A b \in Query \cup Meta \cup Word : b \in Seq(Byte) /\ Four(Len(b))
  /\ <<>> \notin Meta
ASSUME NumberAssumption == Weight \cup Scale \subseteq Nat
ASSUME NameAssumption == \A m, n \in Vno : Name(m) = Name(n) => m = n

VARIABLES
  chosen,   \* history: the settings the program asked for last, and what it did before
  cached,   \* connection.buffer
  wire,     \* bytes written to the server, not read yet
  server,   \* the settings in force
  replies,  \* bytes written by the server, not read yet
  reader,   \* the call under way and its locals
  answer,   \* the answer the server is writing, and documents or words to come
  sent,     \* history: what the server has written of it
  calls     \* number of calls made

vars == <<chosen, cached, wire, server, replies, reader, answer, sent, calls>>

\* A nil document, the slice of nil documents that make returns, and a document.
Nil == [meta |-> <<>>, fields |-> {}, matched |-> <<>>]
Slice(n) == [i \in 1 .. n |-> Nil]
NewDocument(meta) == [Nil EXCEPT !.meta = meta]

\* The locals of a call: at is docIdx, the number of documents read.
Reader(step) == [step |-> step, count |-> 0, docs |-> <<>>, at |-> 0, words |-> <<>>]
Nothing == [count |-> 0, docs |-> <<>>, words |-> <<>>]

\* A server without settings: no cut-off, scheme 0 (BM25), scale 1.
Init ==
  /\ server = [percent |-> 0, weight |-> 0, matched |-> 0, policy |-> 0,
               scale |-> 100, flags |-> <<0, 7>>]
  /\ chosen = [set |-> server, past |-> {}]
  /\ cached = <<>> /\ wire = <<>> /\ replies = <<>>
  /\ reader = Reader("idle")
  /\ answer = [step |-> "idle", left |-> 0]
  /\ sent = Nothing
  /\ calls = 0

Begin == reader.step = "idle" /\ calls < MaxCalls /\ calls' = calls + 1
ClientOnly == UNCHANGED <<wire, server, replies, answer, sent>>
-----------------------------------------------------------------------------
(* Settings                                                                *)

\* The program chooses some settings; Exec caches the command.  In its past are
\* "scale", if it has set a synonym scale since it chose the cut-off, and "two", if
\* it has ever chosen weighting scheme 2.
Choose(set, past, c) ==
  /\ Begin
  /\ chosen' = [set |-> set, past |-> past]
  /\ cached' = cached \o Encode(c)
  /\ ClientOnly /\ UNCHANGED reader

Limited(n, low, high) == IF n < low THEN low ELSE Lower(n, high)
Cutoff(a1, a2) == NewCommand2(199, a1, a2, <<>>, <<>>)
Misc(a1, a2) == NewCommand2(200, a1, a2, <<>>, <<>>)

\* Mutant: the weight is not limited before it becomes a byte.
SetCutOffUnlimited(p, w) ==
  Choose([chosen.set EXCEPT !.percent = Lower(p, 100), !.weight = Limited(w, 1, Max8)],
         chosen.past \ {"scale"}, Cutoff(Lower(p, 100), w % 256))

SetCutOff(p, w) ==
  Choose([chosen.set EXCEPT !.percent = Lower(p, 100), !.weight = Limited(w, 1, Max8)],
         chosen.past \ {"scale"}, Cutoff(Lower(p, 100), Limited(w, 1, Max8)))

\* The command is SET_CUTOFF with the number of the scale as percent, and the
\* scale is multiplied by 10.
SetSynonymScale(x) ==
  Choose([chosen.set EXCEPT !.scale = Limited(x, 1, Max8)], chosen.past \cup {"scale"},
         Cutoff(1, Limited(x, 1, Max8) \div 10))

SetRequireMatchedTerm(on) ==
  Choose([chosen.set EXCEPT !.matched = on], chosen.past, Misc(2, on))

\* Only the last case of the switch has a body: 0 and 1 are never sent.
SetWeightingScheme(n) ==
  IF n = 2 THEN Choose([chosen.set EXCEPT !.policy = n], chosen.past \cup {"two"}, Misc(3, n))
  ELSE /\ Begin
       /\ chosen' = IF n \in {0, 1} THEN [chosen EXCEPT !.set.policy = n] ELSE chosen
       /\ UNCHANGED <<cached, reader>> /\ ClientOnly

\* BOOLEAN, PHRASE and LOVEHATE, and AUTO_MULTIWORD_SYNONYMS: 7 or 1543.
SetAutoSynonyms(auto) ==
  LET flags == IF auto THEN <<6, 7>> ELSE <<0, 7>>
  IN Choose([chosen.set EXCEPT !.flags = flags], chosen.past,
            NewCommand(231, flags[1] * 256 + flags[2], <<>>))
-----------------------------------------------------------------------------
(* The server                                                              *)

\* The server reads a command when it has answered the one before: a setting it
\* does, to a search or an expanded query it begins an answer.
Set(s) == server' = s /\ UNCHANGED <<replies, answer, sent>>
Respond(c, arg, buf) == replies' = replies \o Encode(NewCommand(c, arg, buf))
Begins(step, n, count) ==
  /\ Respond(128, 206, Bytes4(count))
  /\ answer' = [step |-> step, left |-> n]
  /\ sent' = [sent EXCEPT !.count = count]
  /\ UNCHANGED server

Serve ==
  LET c == Decode(Leading(wire))
  IN /\ answer.step = "idle"
     /\ HasHead(wire) /\ Size(wire) <= Len(wire)
     /\ wire' = Rest(wire)
     /\ \/ c.cmd = 199 /\ Set([server EXCEPT !.percent = c.arg1, !.weight = c.arg2])
        \/ c.cmd = 200 /\ c.arg1 = 1 /\ Set([server EXCEPT !.scale = c.arg2])
        \/ c.cmd = 200 /\ c.arg1 = 2 /\ Set([server EXCEPT !.matched = c.arg2])
        \/ c.cmd = 200 /\ c.arg1 = 3 /\ Set([server EXCEPT !.policy = c.arg2])
        \/ c.cmd = 231 /\ Set([server EXCEPT !.flags = <<c.arg1, c.arg2>>])
        \/ c.cmd = 66 /\ \E n \in 0 .. MaxDocs, more \in 0 .. MaxMore : Begins("docs", n, n + more)
        \/ c.cmd = 99 /\ \E n \in 0 .. Lower(c.arg1, MaxDocs) : Begins("words", n, 0)
  /\ UNCHANGED <<chosen, cached, reader, calls>>

\* It writes the answer: of each document META, its values, a number at most once,
\* and the matched words if they are required; or the words.
Writes(step, left) ==
  /\ answer' = [step |-> step, left |-> left]
  /\ UNCHANGED <<chosen, cached, wire, server, reader, calls>>
Done == answer.step = "docs" \/ (answer.step = "values" /\ server.matched = 0)

WriteDoc == \E m \in Meta :
  /\ Done /\ answer.left > 0
  /\ Respond(140, 0, m)
  /\ sent' = [sent EXCEPT !.docs = Append(@, [meta |-> m, values |-> {}, matched |-> <<>>])]
  /\ Writes("values", answer.left - 1)

WriteValue == \E n \in Vno, w \in Word :
  LET last == Len(sent.docs)
  IN /\ answer.step = "values"
     /\ Cardinality(sent.docs[last].values) < MaxValues
     /\ \A v \in sent.docs[last].values : v[1] # n
     /\ Respond(141, n, w)
     /\ sent' = [sent EXCEPT !.docs[last].values = @ \cup {<<n, w>>}]
     /\ Writes("values", answer.left)

WriteMatched == \E w \in Word :
  /\ answer.step = "values" /\ server.matched # 0
  /\ Respond(143, 0, w)
  /\ sent' = [sent EXCEPT !.docs[Len(sent.docs)].matched = w]
  /\ Writes("docs", answer.left)

WriteWord == \E w \in Word :
  /\ answer.step = "words" /\ answer.left > 0
  /\ Respond(141, 0, w)
  /\ sent' = [sent EXCEPT !.words = Append(@, w)]
  /\ Writes("words", answer.left - 1)

WriteEnd ==
  /\ Done \/ answer.step = "words"
  /\ answer.left = 0
  /\ Respond(128, 207, <<>>)
  /\ Writes("idle", 0) /\ UNCHANGED sent
-----------------------------------------------------------------------------
(* Search and GetExpandedQuery                                             *)

\* Exec sends what is cached and then the command.
Send(step, c) ==
  /\ Begin
  /\ wire' = wire \o cached \o Encode(c)
  /\ cached' = <<>>
  /\ reader' = Reader(step)
  /\ sent' = Nothing
  /\ UNCHANGED <<chosen, server, replies, answer>>

\* The page goes along as buf1: offset 0 and 10 documents.
Search(q) == Send("begin", NewCommand2(66, 0, 0, q, Bytes4(0) \o Bytes4(10)))
Limits == {<<>>, <<1>>}   \* the argument limit, left out or given
GetExpandedQuery(q, limits) ==
  Send("expand", NewCommand2(99, MaxLimit(limits), 0, q, <<>>))

\* The call is at step and gets a response c, of OK one with this argument.
First == Decode(Leading(replies))
Gets(step, c, arg) ==
  /\ reader.step = step
  /\ HasHead(replies) /\ Size(replies) <= Len(replies) /\ Decodable(Leading(replies))
  /\ First.cmd = c /\ (c = 128 => GetArg(First) = arg)
  /\ replies' = Rest(replies)
  /\ UNCHANGED <<chosen, cached, wire, server, answer, sent, calls>>

\* Exec returns the head of the answer: the number of matches, or of nothing.  Search
\* makes a slice of as many documents.
ReadCount ==
  LET count == UnPack4(First.buf, 1)
  IN /\ Gets("begin", 128, 206)
     /\ reader' = [reader EXCEPT !.step = "items", !.count = count, !.docs = Slice(count)]

ReadBegin ==
  /\ Gets("expand", 128, 206)
  /\ reader' = [reader EXCEPT !.step = "words"]

\* Mutant: docIdx is incremented before it is used.
ReadDocAfter ==
  /\ Gets("items", 140, 0)
  /\ reader' = IF reader.at + 1 < Len(reader.docs)
               THEN [reader EXCEPT !.at = @ + 1, !.docs[reader.at + 2] = NewDocument(First.buf)]
               ELSE [reader EXCEPT !.step = "panic"]

\* A document takes the next place of the slice; if there is none the index is out of
\* range.
ReadDoc ==
  /\ Gets("items", 140, 0)
  /\ reader' = IF reader.at < Len(reader.docs)
               THEN [reader EXCEPT !.at = @ + 1, !.docs[reader.at + 1] = NewDocument(First.buf)]
               ELSE [reader EXCEPT !.step = "panic"]

\* A value belongs to the document read last; before the first it is ignored.
ReadField ==
  LET name == Name(GetArg(First) % 256)
  IN /\ Gets("items", 141, 0)
     /\ reader' = IF reader.at = 0 THEN reader
                  ELSE [reader EXCEPT !.docs[reader.at].fields =
                          {v \in @ : v[1] # name} \cup {<<name, First.buf>>}]

\* So do matched words.  strings.Split(" ", words): the words, of which there are some,
\* are taken for the separator of " ".
Space == <<32>>
ReadMatched ==
  /\ Gets("items", 143, 0)
  /\ reader' = IF reader.at = 0 THEN reader
               ELSE [reader EXCEPT !.docs[reader.at].matched = <<Space>>]

ReadWord ==
  /\ Gets("words", 141, 0)
  /\ reader' = [reader EXCEPT !.words = Append(@, First.buf)]

\* Mutant: Search returns when it has as many documents as match.
ReadEndEarly ==
  /\ \/ Gets("words", 128, 207)
     \/ /\ reader.step = "items" /\ reader.at = reader.count
        /\ UNCHANGED <<chosen, cached, wire, server, replies, answer, sent, calls>>
  /\ reader' = [reader EXCEPT !.step = "idle"]

ReadEnd == \E step \in {"items", "words"} :
  /\ Gets(step, 128, 207)
  /\ reader' = [reader EXCEPT !.step = "idle"]

Setting ==
  \/ \E p \in Percent, w \in Weight : SetCutOff(p, w)
  \/ \E x \in Scale : SetSynonymScale(x)
  \/ \E on \in {0, 1} : SetRequireMatchedTerm(on)
  \/ \E n \in Policy : SetWeightingScheme(n)
  \/ \E auto \in BOOLEAN : SetAutoSynonyms(auto)

Writing == WriteDoc \/ WriteValue \/ WriteMatched \/ WriteWord \/ WriteEnd
Reading == ReadCount \/ ReadBegin \/ ReadDoc \/ ReadField \/ ReadMatched \/ ReadWord \/ ReadEnd

\* The program has made its calls.
Ended == reader.step = "idle" /\ calls = MaxCalls /\ UNCHANGED vars

Next ==
  \/ Setting \/ Serve \/ Writing \/ Reading
  \/ \E q \in Query : Search(q) \/ \E limits \in Limits : GetExpandedQuery(q, limits)
  \/ Ended

Spec == Init /\ [][Next]_vars
-----------------------------------------------------------------------------
(* Properties                                                              *)

\* Search does not panic.  What it returns has as many places as there are matches,
\* and in the first of them, in the order in which they came, all the documents that
\* the server sent: of each the meta data and, under the name of its number in the
\* schema, the value.  The other places are nil.  The words GetExpandedQuery returns
\* are those sent.
Named(values) == {<<Name(v[1]), v[2]>> : v \in values}
DocumentsAsSent ==
  /\ reader.step # "panic"
  /\ reader.step = "idle" =>
       /\ reader.count = sent.count /\ Len(reader.docs) = sent.count
       /\ Len(sent.docs) <= Len(reader.docs)
       /\ \A i \in 1 .. Len(reader.docs) :
            IF i <= Len(sent.docs)
            THEN /\ reader.docs[i].meta = sent.docs[i].meta
                 /\ reader.docs[i].fields = Named(sent.docs[i].values)
            ELSE reader.docs[i] = Nil
       /\ reader.words = sent.words

\* A call that has returned leaves nothing of its answer for the next one, and
\* nothing unsent but settings: whatever number of matches, documents and values
\* the server answers with.
InStep ==
  reader.step = "idle" => wire = <<>> /\ replies = <<>>

\* A search is done with the settings the program chose last, limited to their
\* range.  There are three exceptions: a synonym scale, which has no effect; the
\* cut-off, from the synonym scale that overwrites it to the next SetCutOff; and the
\* weighting schemes that are not sent, which are 1, and 0 once 2 was chosen.
Arrived == cached = <<>> /\ wire = <<>>
SettingsInForce ==
  Arrived =>
    /\ server.matched = chosen.set.matched
    /\ server.flags = chosen.set.flags
    /\ "scale" \notin chosen.past =>
         server.percent = chosen.set.percent /\ server.weight = chosen.set.weight
    /\ chosen.set.policy = 2 \/ (chosen.set.policy = 0 /\ "two" \notin chosen.past) =>
         server.policy = chosen.set.policy

\* Violated: each setting has the effect its comment describes (searcher.go:78-150).
SettingsAsChosen == Arrived => server = chosen.set

\* Violated: the matched words of a document are the words sent, as the comment of
\* SetRequireMatchedTerm has it.
MatchedAsSent ==
  reader.step = "idle" => \A i \in DOMAIN reader.docs :
    reader.docs[i].matched # <<>> => reader.docs[i].matched = <<sent.docs[i].matched>>
=============================================================================
