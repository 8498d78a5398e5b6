------------------------------- MODULE Schema -------------------------------
(***************************************************************************)
(* LoadConf (schema/config.go) and newSchema (schema/schema.go) turn the   *)
(* configuration of a project into server addresses and numbered fields.   *)
(* newSchema ranges over a Go map, so every call sees the fields in an     *)
(* order of its own; yet the Indexer that writes documents and the         *)
(* Searcher that reads them each load the configuration, and must arrive   *)
(* at the same numbers.                                                    *)
(*                                                                         *)
(* A field is identified by its place in the sorted list of names.         *)
(***************************************************************************)
EXTENDS FieldMeta, FiniteSets

CONSTANTS
  Fields,   \* number of fields of the project
  Def,      \* definitions they may have
  Form,     \* forms of an address: "", "port", ":port", "host", "host:port"
  Byte      \* numbers of a uint8 (256)

ASSUME SizeAssumption == Fields \in Nat /\ Byte \in Nat \ {0, 1}
ASSUME DefAssumption == \A d \in Def : d.fid \in 0 .. Byte - 1
ASSUME FormAssumption == Form \subseteq {"", "port", ":port", "host", "host:port"}

Loader == {"indexer", "searcher"}
Field == 0 .. Fields - 1
Special == {"id", "title", "body"}
MixedVno == Byte - 1

VARIABLES
  conf,    \* the configuration: is there a name, addresses, fields
  todo,    \* the fields each call has not ranged over yet
  metas,   \* FieldMetas: the fields a call has accepted
  vnoMap,  \* their names by number
  special, \* the fields Id, Title and Body of a call
  result,  \* "none", "ok", "error"
  dialled  \* the address the loader connects to afterwards

loaderVars == <<conf, todo, metas, vnoMap, special, result, dialled>>

EmptyFunction == [x \in {} |-> 0]
NoAddress == [form |-> "none", of |-> "none"]

Init ==
  /\ conf \in [named : BOOLEAN, indexer : Form, searcher : Form, fields : [Field -> Def]]
  /\ todo = [l \in Loader |-> Field]
  /\ metas = [l \in Loader |-> EmptyFunction]
  /\ vnoMap = [l \in Loader |-> EmptyFunction]
  /\ special = [l \in Loader |-> EmptyFunction]
  /\ result = [l \in Loader |-> "none"]
  /\ dialled = [l \in Loader |-> NoAddress]

\* The function f with y at x.
Put(f, x, y) == [z \in DOMAIN f \cup {x} |-> IF z = x THEN y ELSE f[z]]

\* checkValid completes an address, or replaces it if there is none.  A bare port
\* as the address of the search server, completed, becomes that of the index
\* server.
Given(l) == [form |-> conf[l], of |-> l]
Complete(a) == [a EXCEPT !.form = IF @ = "host" THEN @ ELSE "host:port"]
Server(l) ==
  IF conf.searcher = "port"
  THEN IF l = "indexer" THEN Complete(Given("searcher")) ELSE Given(l)
  ELSE Complete(Given(l))

\* Mutant: a field is numbered as it comes.
NumberAsItComes(l, f) ==
  IF conf.fields[f].type = "body" THEN MixedVno ELSE Cardinality(DOMAIN metas[l]) % Byte

\* Mutant: places are counted from 1.
NumberFromOne(l, f) ==
  IF conf.fields[f].type = "body" THEN MixedVno
  ELSE IF conf.fields[f].fid > 0 THEN conf.fields[f].fid - 1 ELSE (f + 1) % Byte

\* The number of field f: fixed for the body, else from fid, else the place of
\* its name.
Number(l, f) ==
  IF conf.fields[f].type = "body" THEN MixedVno
  ELSE IF conf.fields[f].fid > 0 THEN conf.fields[f].fid - 1 ELSE f % Byte

\* A field the call comes to.
Comes(l, f) == conf.named /\ result[l] = "none" /\ f \in todo[l]

\* A project needs a name.
Unnamed(l) ==
  /\ ~conf.named /\ result[l] = "none"
  /\ result' = [result EXCEPT ![l] = "error"]
  /\ UNCHANGED <<conf, todo, metas, vnoMap, special, dialled>>

\* A second field of a special type ends the call.
Refuse(l, f) ==
  /\ Comes(l, f)
  /\ conf.fields[f].type \in DOMAIN special[l]
  /\ result' = [result EXCEPT ![l] = "error"]
  /\ UNCHANGED <<conf, todo, metas, vnoMap, special, dialled>>

\* The call numbers field f.
Enter(l, f) ==
  LET n == Number(l, f)
      t == conf.fields[f].type
  IN /\ todo' = [todo EXCEPT ![l] = @ \ {f}]
     /\ metas' = [metas EXCEPT ![l] =
                    Put(@, f, [meta |-> NewField(conf.fields[f]), vno |-> n])]
     /\ vnoMap' = [vnoMap EXCEPT ![l] = Put(@, n, f)]
     /\ special' = [special EXCEPT ![l] = IF t \in Special THEN Put(@, t, f) ELSE @]

Accept(l, f) ==
  /\ Comes(l, f)
  /\ conf.fields[f].type \notin DOMAIN special[l]
  /\ Enter(l, f)
  /\ UNCHANGED <<conf, result, dialled>>

\* A schema needs an id.  If it has one, the loader connects to its server.
Finish(l) ==
  /\ conf.named /\ result[l] = "none" /\ todo[l] = {}
  /\ \/ /\ "id" \in DOMAIN special[l]
        /\ result' = [result EXCEPT ![l] = "ok"]
        /\ dialled' = [dialled EXCEPT ![l] = Server(l)]
     \/ /\ "id" \notin DOMAIN special[l]
        /\ result' = [result EXCEPT ![l] = "error"]
        /\ UNCHANGED dialled
  /\ UNCHANGED <<conf, todo, metas, vnoMap, special>>

Load ==
  \E l \in Loader :
    \/ Unnamed(l) \/ Finish(l)
    \/ \E f \in Field : Refuse(l, f) \/ Accept(l, f)

Loaded == \A l \in Loader : result[l] # "none"
-----------------------------------------------------------------------------
(* Properties                                                              *)

\* Indexer and Searcher accept the same configurations and number the fields
\* alike, in whatever order each of them sees the fields.
NumbersAgree ==
  \A l, m \in Loader :
    /\ \A f \in DOMAIN metas[l] \cap DOMAIN metas[m] : metas[l][f].vno = metas[m][f].vno
    /\ "none" \notin {result[l], result[m]} => result[l] = result[m]

\* Violated: a value that is stored under the number of a field is read back as
\* that field ("VnoMap return then value of number of the field"): a number has
\* one field.
NamesComeBack == \A l \in Loader : \A f \in DOMAIN metas[l] : vnoMap[l][metas[l][f].vno] = f

\* There are fewer than 256 fields, and none has a fid.
WithoutFids == Fields < Byte /\ \A f \in Field : conf.fields[f].fid = 0

\* Violated: Indexer and Searcher each connect to a complete address of their own
\* server (the settings index_server and search_server), unless a host has no port.
OwnServer ==
  \A l \in Loader : result[l] = "ok" /\ conf[l] # "host" =>
    dialled[l] = [form |-> "host:port", of |-> l]
=============================================================================
