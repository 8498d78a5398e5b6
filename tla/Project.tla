------------------------------ MODULE Project ------------------------------
(***************************************************************************)
(* An Indexer and a Searcher of one project: each has loaded the           *)
(* configuration by itself (module Schema), the one writes documents       *)
(* (Indexer.update, DelByField), the other declares the fields to its      *)
(* server (initSpecialField, regQueryPrefix) and names the values it reads *)
(* (Search).  What they agree on is nothing but numbers of fields.         *)
(*                                                                         *)
(* A value is the set of words the tokenizer splits it into, in the        *)
(* capitals it was given; of one word there is nothing else in it.         *)
(* Commands of a document arrive; module IndexDocs is about what else may  *)
(* happen.  The index server is external: an update replaces, and a        *)
(* removal deletes, the documents that have the key it is given, byte by   *)
(* byte, as a term of the field.                                           *)
(***************************************************************************)
EXTENDS Schema

CONSTANTS
  Id,       \* ids of documents
  Text,     \* what a document may have in the other fields, by field
  MaxOps    \* bound: documents written and deleted

ASSUME OpsAssumption == MaxOps \in Nat
ASSUME WordsAssumption ==
  /\ \A text \in Text : text \in [Field -> SUBSET DOMAIN LowerCase]
  /\ Id \subseteq SUBSET DOMAIN LowerCase
  /\ \A id \in Id : \A v, w \in id : LowerCase[v] = LowerCase[w] => v = w

VARIABLES
  stored,   \* the server: documents, as what they were written with, the commands
            \* that index them, and the value kept under each number
  again,    \* history: ids given to Add when there was such a document
  ops       \* number of operations

vars == <<loaderVars, stored, again, ops>>

ProjectInit == Init /\ stored = {} /\ again = {} /\ ops = 0

Meta(l, f) == metas[l][f].meta
Vno(l, f) == metas[l][f].vno
IdField(l) == special[l]["id"]

\* update: the commands for the id, then those for the other fields D that the
\* document has, in any order.
Written(id, D, text) == [f \in D |-> IF f = IdField("indexer") THEN id ELSE text[f]]
IdOf(d) == d.doc[IdField("indexer")]
Commands(doc) ==
  UNION {BuildCmd(Meta("indexer", f), Vno("indexer", f), MixedVno, doc[f]) : f \in DOMAIN doc}

\* The server keeps, of several values with one number, the last one.
Values(cmds) ==
  LET vals == {c \in cmds : c.cmd = "value"}
  IN {v \in [{c.vno : c \in vals} -> vals] : \A n \in DOMAIN v : v[n].vno = n}

\* The server: documents that have key as a term in the field with this number.
Having(vno, key) ==
  {d \in stored : \E c \in d.cmds : c.cmd = "term" /\ c.vno = vno /\ c.of = key}

\* The program has an Indexer and a Searcher.
Begin ==
  /\ \A l \in Loader : result[l] = "ok"
  /\ ops < MaxOps
  /\ ops' = ops + 1
  /\ UNCHANGED loaderVars

\* A document needs its id.
Store(old, doc) ==
  LET cmds == Commands(doc)
  IN /\ IdField("indexer") \in DOMAIN doc
     /\ \E v \in Values(cmds) :
          stored' = (stored \ old) \cup {[no |-> ops, doc |-> doc, cmds |-> cmds, values |-> v]}

Add(id, D, text) ==
  /\ Begin
  /\ Store({}, Written(id, D, text))
  /\ again' = IF \E d \in stored : IdOf(d) = id THEN again \cup {id} ELSE again

\* The request has the id as it was given.
IdVno == Vno("indexer", IdField("indexer"))
Update(id, D, text) ==
  /\ Begin
  /\ Store(Having(IdVno, id), Written(id, D, text))
  /\ UNCHANGED again

\* Del: DelByField for the id field, with the ids in lower case.
Del(ids) ==
  /\ Begin
  /\ stored' = stored \ UNION {Having(IdVno, {LowerCase[x] : x \in id}) : id \in ids}
  /\ UNCHANGED again

ProjectNext ==
  \/ Load /\ UNCHANGED <<stored, again, ops>>
  \/ \E ids \in SUBSET Id : Del(ids)
  \/ \E id \in Id, D \in SUBSET Field, text \in Text : Add(id, D, text) \/ Update(id, D, text)
  \/ Loaded /\ UNCHANGED vars

ProjectSpec == ProjectInit /\ [][ProjectNext]_vars
-----------------------------------------------------------------------------
(* What the Searcher makes of it                                           *)

\* Search: the fields of a document, by the names of the numbers.
Shown(d) == {<<vnoMap["searcher"][n], d.values[n].of>> : n \in DOMAIN d.values}

\* regQueryPrefix: the documents a query for word w, in lower case, in field f finds.
Findable(f, w) == Having(Vno("searcher", f), {w})

\* initSpecialField: the numbers declared numeric.
Numeric == {Vno("searcher", f) : f \in {g \in Field : IsNumeric(Meta("searcher", g))}}
-----------------------------------------------------------------------------
(* Properties                                                              *)

\* A document is read back with the fields and values it was written with, and
\* the values stored as numbers are those the search server takes for numbers: if
\* no field has a fid and there are fewer than 256.
ReadsWhatWasWritten ==
  WithoutFids => \A d \in stored :
    /\ Shown(d) = {<<f, d.doc[f]>> : f \in DOMAIN d.doc}
    /\ \A n \in DOMAIN d.values : (d.values[n].arg = 128) = (n \in Numeric)

\* A query for a word, in a field that the Searcher takes for indexed, finds the
\* documents that were written with it there in whatever capitals, unless it was a
\* long one, and no other documents: if there are no fids (the body has no prefix).
FindsWhatWasWritten ==
  WithoutFids /\ Loaded => \A f \in DOMAIN metas["searcher"] :
    HasIndexSelf(Meta("searcher", f)) /\ Vno("searcher", f) # MixedVno =>
      \A w \in DOMAIN LowerCase :
        Findable(f, w) =
          {d \in stored : f \in DOMAIN d.doc /\ \E x \in d.doc[f] \ Long : LowerCase[x] = w}

\* Update replaces a document, whatever index the definition of the id asks for: of
\* each id there is one document, unless Add repeats it.  This is said of the ids that
\* are terms of their documents: of one word, not a long one and without capitals.
OneTerm(id) == \E x \in id : id = {x} /\ x \notin Long /\ LowerCase[x] = x
OnePerId ==
  \A id \in Id \ again : OneTerm(id) => Cardinality({d \in stored : IdOf(d) = id}) <= 1

\* Violated: it is so for every id ("Update document by id on index server").
EachIdOnce ==
  \A id \in Id \ again : Cardinality({d \in stored : IdOf(d) = id}) <= 1
=============================================================================
