------------------------------ MODULE FieldMeta ------------------------------
(***************************************************************************)
(* A field of a project: what newField (schema/field.go) makes of its      *)
(* definition, which commands Indexer.buildCmd makes of its value, and     *)
(* what a Searcher tells its server about it (query.go).                   *)
(***************************************************************************)
EXTENDS Naturals

CONSTANTS
  LowerCase,   \* strings.ToLower of each word
  Long         \* words of more than 200 bytes

ASSUME LongAssumption == Long \subseteq DOMAIN LowerCase

\* Field: a definition as the configuration gives it; "" and 0 if it does not.
Definition(t) ==
  [type |-> t, index |-> "", cutlen |-> 0, weight |-> 0, phrase |-> "", noBool |-> "", fid |-> 0]

\* The flags a type brings along.
TypeFlags(t) ==
  CASE t = "id" -> {"self"}
    [] t = "title" -> {"self", "mixed", "position"}
    [] t = "body" -> {"self", "position"}
    [] OTHER -> {}

IndexTypes == [self |-> {"self"}, mixed |-> {"mixed"}, both |-> {"self", "mixed"}]

\* Mutant: the id loses its index.
IndexFlagsOnly(def) ==
  IF def.type # "body" /\ def.index \in DOMAIN IndexTypes
  THEN (TypeFlags(def.type) \ {"self", "mixed"}) \cup IndexTypes[def.index]
  ELSE TypeFlags(def.type)

\* A known index setting replaces those of the type, except for the body; the id
\* keeps an index of its own.
IndexFlags(def) ==
  IF def.type # "body" /\ def.index \in DOMAIN IndexTypes
  THEN (TypeFlags(def.type) \ {"self", "mixed"}) \cup IndexTypes[def.index]
         \cup (IF def.type = "id" THEN {"self"} ELSE {})
  ELSE TypeFlags(def.type)

\* A case of a Go switch does not fall through: of the words for yes and no only
\* the last one has an effect.
Setting(flags, word, flag) ==
  CASE word = "Y" -> flags \cup {flag}
    [] word = "N" -> flags \ {flag}
    [] OTHER -> flags

\* The weight: fixed for a title, 1 if there is none, six bits for a body.
WeightOf(def) ==
  LET w == IF def.type = "title" THEN 5 ELSE IF def.weight = 0 THEN 1 ELSE def.weight
  IN IF def.type = "body" THEN w % 64 ELSE w

\* newField, but for the number, which newSchema sets.
NewField(def) ==
  [type |-> def.type,
   flags |-> Setting(Setting(IndexFlags(def), def.phrase, "position"), def.noBool, "nonbool"),
   cutlen |-> IF def.type = "body" THEN 300 ELSE def.cutlen,
   weight |-> WeightOf(def)]

IsBoolIndex(m) == m.type = "id" /\ "nonbool" \notin m.flags
IsNumeric(m) == m.type = "numeric"
HasIndexSelf(m) == "self" \in m.flags
HasIndexMixed(m) == "mixed" \in m.flags
-----------------------------------------------------------------------------
(* What is said about a field with number vno                              *)

\* uint8(weight | CHECKSTEM), where CHECKSTEM is bit 7; 1 for a boolean term.
Wdf(m) ==
  IF IsBoolIndex(m) THEN 1 ELSE 128 + (m.weight % 128)

\* The terms among the words a value is split into: not the long ones, and what is
\* left in lower case.
Terms(words) == {LowerCase[x] : x \in words \ Long}

\* Mutant: terms go to the mixed index when the field is in it.
BuildCmdMixed(m, vno, mixed, words) ==
  LET cmd(c, n, arg, x) == [cmd |-> c, vno |-> n, arg |-> arg, of |-> x]
  IN {cmd("value", vno, IF IsNumeric(m) THEN 128 ELSE 0, words)}
       \cup {cmd("term", IF HasIndexMixed(m) THEN mixed ELSE vno, Wdf(m), {x}) : x \in Terms(words)}

\* buildCmd: the terms of a value that is split into words, the text for the mixed
\* index, and the value, all with the number they go to.  Text and value are as
\* they were given.
BuildCmd(m, vno, mixed, words) ==
  LET cmd(c, n, arg, x) == [cmd |-> c, vno |-> n, arg |-> arg, of |-> x]
  IN {cmd("value", vno, IF IsNumeric(m) THEN 128 ELSE 0, words)}
       \cup {cmd("term", vno, Wdf(m), {x}) : x \in IF HasIndexSelf(m) THEN Terms(words) ELSE {}}
       \cup (IF HasIndexMixed(m) /\ words # {}
             THEN {cmd("text", mixed, m.weight % 256, words)} ELSE {})

\* initSpecialField: tens of characters to which a result is cut, as a byte.  The
\* conversion comes before the limit of 127, and drops what exceeds a byte.
Cut(m) ==
  LET tens == ((m.cutlen + 9) \div 10) % 256
  IN IF tens > 127 THEN 127 ELSE tens
=============================================================================
