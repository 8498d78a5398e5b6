--------------------------- MODULE ProjectProofs ---------------------------
(***************************************************************************)
(* Theorems about modules Schema and Project, for every configuration:     *)
(* any number of fields with any definitions, any ids and documents.  A    *)
(* term is what buildCmd leaves of a word: in lower case, if not too long. *)
(***************************************************************************)
EXTENDS Project, FiniteSetTheorems, TLAPS

-----------------------------------------------------------------------------
(* The inductive invariant                                                 *)

Type(f) == conf.fields[f].type

\* What keeps a configuration from being loaded: two fields of one special type,
\* or no id.
Clash == \E f, g \in Field : f # g /\ Type(f) = Type(g) /\ Type(f) \in Special
NoId == \A f \in Field : Type(f) # "id"

TypeInv ==
  /\ conf \in [named : BOOLEAN, indexer : Form, searcher : Form, fields : [Field -> Def]]
  /\ todo \in [Loader -> SUBSET Field]
  /\ result \in [Loader -> {"none", "ok", "error"}]
  /\ DOMAIN metas = Loader /\ DOMAIN vnoMap = Loader /\ DOMAIN special = Loader

\* A field a call has ranged over is numbered by its definition and its place
\* alone; the names come from the numbers of these fields.
FieldsInv ==
  \A l \in Loader :
    /\ DOMAIN metas[l] = Field \ todo[l]
    /\ \A f \in Field \ todo[l] :
         metas[l][f] = [meta |-> NewField(conf.fields[f]), vno |-> Number(l, f)]
    /\ DOMAIN vnoMap[l] = {Number(l, f) : f \in Field \ todo[l]}
    /\ \A n \in DOMAIN vnoMap[l] :
         vnoMap[l][n] \in Field \ todo[l] /\ Number(l, vnoMap[l][n]) = n

\* Of the fields a call has ranged over at most one has any special type.
SpecialInv ==
  \A l \in Loader :
    /\ DOMAIN special[l] = {Type(f) : f \in Field \ todo[l]} \cap Special
    /\ \A t \in DOMAIN special[l] : special[l][t] \in Field /\ Type(special[l][t]) = t
    /\ \A f, g \in Field \ todo[l] : Type(f) = Type(g) /\ Type(f) \in Special => f = g

\* Why a call ended as it did: the reason is the configuration's.
ResultInv ==
  \A l \in Loader :
    /\ result[l] = "ok" => conf.named /\ todo[l] = {} /\ ~Clash /\ ~NoId
    /\ result[l] = "error" => ~conf.named \/ Clash \/ NoId

LoadInv == TypeInv /\ FieldsInv /\ SpecialInv /\ ResultInv

\* Documents are written by an Indexer that has loaded its configuration, as
\* update does it.
StoredInv ==
  \A d \in stored :
    /\ \A l \in Loader : result[l] = "ok"
    /\ DOMAIN d.doc \subseteq Field /\ IdField("indexer") \in DOMAIN d.doc
    /\ d.cmds = Commands(d.doc)
    /\ d.values \in Values(d.cmds)

IInv == LoadInv /\ StoredInv

\* Two documents have one id only if it is no term of theirs, or Add was given it for
\* the second one.
OneInv ==
  \A d, e \in stored : IdOf(d) = IdOf(e) /\ OneTerm(IdOf(d)) => d = e \/ IdOf(d) \in again

-----------------------------------------------------------------------------
(* Loading                                                                 *)

LEMMA InitInv == ProjectInit => IInv
<1> SUFFICES ASSUME ProjectInit
             PROVE  IInv
  OBVIOUS
<1>1. DOMAIN EmptyFunction = {}
  BY DEF EmptyFunction
<1>2. TypeInv
  BY DEF ProjectInit, Init, TypeInv
<1>3. FieldsInv
  BY <1>1 DEF ProjectInit, Init, FieldsInv
<1>4. SpecialInv
  BY <1>1 DEF ProjectInit, Init, SpecialInv
<1>5. ResultInv
  BY DEF ProjectInit, Init, ResultInv
<1>6. StoredInv
  BY DEF ProjectInit, StoredInv
<1> QED
  BY <1>2, <1>3, <1>4, <1>5, <1>6 DEF IInv, LoadInv

\* A call that ends, for a reason that the configuration gives.
LEMMA EndInv ==
  ASSUME LoadInv, NEW l \in Loader, NEW r \in {"ok", "error"},
         result' = [result EXCEPT ![l] = r],
         UNCHANGED <<conf, todo, metas, vnoMap, special>>,
         r = "ok" => conf.named /\ todo[l] = {} /\ ~Clash /\ ~NoId,
         r = "error" => ~conf.named \/ Clash \/ NoId
  PROVE  LoadInv'
<1> USE DEF LoadInv
<1>1. TypeInv'
  BY DEF TypeInv
<1>2. FieldsInv'
  BY DEF FieldsInv, Number
<1>3. SpecialInv'
  BY DEF SpecialInv, Type
<1>4. ResultInv'
  <2>1. (Clash <=> Clash') /\ (NoId <=> NoId')
    BY DEF Clash, NoId, Type
  <2> SUFFICES ASSUME NEW m \in Loader
               PROVE  /\ result'[m] = "ok" => conf.named /\ todo[m] = {} /\ ~Clash /\ ~NoId
                      /\ result'[m] = "error" => ~conf.named \/ Clash \/ NoId
    BY <2>1 DEF ResultInv
  <2>2. CASE m = l
    BY <2>2 DEF TypeInv
  <2>3. CASE m # l
    BY <2>3 DEF TypeInv, ResultInv
  <2> QED
    BY <2>2, <2>3
<1> QED
  BY <1>1, <1>2, <1>3, <1>4

LEMMA UnnamedInv ==
  ASSUME LoadInv, NEW l \in Loader, Unnamed(l)
  PROVE  LoadInv'
BY EndInv DEF Unnamed

\* The field of that type that the call has accepted is another one.
LEMMA RefuseInv ==
  ASSUME LoadInv, NEW l \in Loader, NEW f \in Field, Refuse(l, f)
  PROVE  LoadInv'
<1>1. f \in todo[l] /\ Type(f) \in DOMAIN special[l]
  BY DEF Refuse, Comes, Type
<1>2. PICK g \in Field \ todo[l] : Type(g) = Type(f)
  BY <1>1 DEF LoadInv, SpecialInv
<1>3. Type(f) \in Special
  BY <1>1 DEF LoadInv, SpecialInv
<1>4. Clash
  BY <1>1, <1>2, <1>3 DEF Clash
<1> QED
  BY <1>4, EndInv DEF Refuse

LEMMA FinishInv ==
  ASSUME LoadInv, NEW l \in Loader, Finish(l)
  PROVE  LoadInv'
<1>1. conf.named /\ todo[l] = {} /\ DOMAIN special[l] = {Type(f) : f \in Field} \cap Special
  BY DEF Finish, LoadInv, SpecialInv
<1>2. ~Clash
  BY <1>1 DEF LoadInv, SpecialInv, Clash
<1>3. "id" \in DOMAIN special[l] <=> ~NoId
  BY <1>1 DEF NoId, Special
<1> QED
  BY <1>1, <1>2, <1>3, EndInv DEF Finish

LEMMA AcceptInv ==
  ASSUME LoadInv, NEW l \in Loader, NEW f \in Field, Accept(l, f)
  PROVE  LoadInv'
<1> USE DEF LoadInv
<1> DEFINE n == Number(l, f)
           t == Type(f)
           meta == [meta |-> NewField(conf.fields[f]), vno |-> n]
           done == Field \ todo[l]
<1>1. /\ f \in todo[l] /\ t \notin DOMAIN special[l]
      /\ conf.named /\ result[l] = "none"
      /\ UNCHANGED <<conf, result, dialled>>
      /\ todo' = [todo EXCEPT ![l] = @ \ {f}]
      /\ metas' = [metas EXCEPT ![l] = Put(@, f, meta)]
      /\ vnoMap' = [vnoMap EXCEPT ![l] = Put(@, n, f)]
      /\ special' = [special EXCEPT ![l] = IF t \in Special THEN Put(@, t, f) ELSE @]
  BY DEF Accept, Comes, Enter, Type
<1>2. /\ \A g \in Field : Type(g)' = Type(g)
      /\ \A m \in Loader, g \in Field : Number(m, g)' = Number(m, g)
      /\ (Clash <=> Clash') /\ (NoId <=> NoId')
  BY <1>1 DEF Type, Number, Clash, NoId
<1>3. TypeInv'
  BY <1>1 DEF TypeInv
<1>4. /\ Field \ todo'[l] = done \cup {f} /\ f \notin done
      /\ metas'[l] = Put(metas[l], f, meta)
      /\ vnoMap'[l] = Put(vnoMap[l], n, f)
      /\ special'[l] = IF t \in Special THEN Put(special[l], t, f) ELSE special[l]
  BY <1>1 DEF TypeInv
<1>5. \A m \in Loader : m # l => /\ todo'[m] = todo[m] /\ metas'[m] = metas[m]
                                 /\ vnoMap'[m] = vnoMap[m] /\ special'[m] = special[m]
  BY <1>1 DEF TypeInv
<1> HIDE DEF n, t, meta, done
<1>6. FieldsInv'
  <2> SUFFICES ASSUME NEW m \in Loader
               PROVE  /\ DOMAIN metas'[m] = Field \ todo'[m]
                      /\ \A g \in Field \ todo'[m] :
                           metas'[m][g] = [meta |-> NewField(conf.fields[g]), vno |-> Number(m, g)]
                      /\ DOMAIN vnoMap'[m] = {Number(m, g) : g \in Field \ todo'[m]}
                      /\ \A k \in DOMAIN vnoMap'[m] :
                           /\ vnoMap'[m][k] \in Field \ todo'[m]
                           /\ Number(m, vnoMap'[m][k]) = k
    BY <1>1, <1>2 DEF FieldsInv
  <2>1. CASE m # l
    BY <1>5, <2>1 DEF FieldsInv
  <2>2. CASE m = l
    <3>1. /\ DOMAIN metas[l] = done
          /\ \A g \in done :
               metas[l][g] = [meta |-> NewField(conf.fields[g]), vno |-> Number(l, g)]
          /\ DOMAIN vnoMap[l] = {Number(l, g) : g \in done}
          /\ \A k \in DOMAIN vnoMap[l] : vnoMap[l][k] \in done /\ Number(l, vnoMap[l][k]) = k
      BY DEF FieldsInv, done
    <3>2. DOMAIN metas'[l] = done \cup {f}
      BY <1>4, <3>1 DEF Put
    <3>3. \A g \in done \cup {f} :
            metas'[l][g] = [meta |-> NewField(conf.fields[g]), vno |-> Number(l, g)]
      BY <1>4, <3>1 DEF Put, meta, n
    <3>4. DOMAIN vnoMap'[l] = {Number(l, g) : g \in done \cup {f}}
      <4>1. DOMAIN vnoMap'[l] = DOMAIN vnoMap[l] \cup {n}
        BY <1>4 DEF Put
      <4> QED
        BY <3>1, <4>1 DEF n
    <3>5. \A k \in DOMAIN vnoMap'[l] :
            vnoMap'[l][k] \in done \cup {f} /\ Number(l, vnoMap'[l][k]) = k
      <4> SUFFICES ASSUME NEW k \in DOMAIN vnoMap[l] \cup {n}
                   PROVE  vnoMap'[l][k] \in done \cup {f} /\ Number(l, vnoMap'[l][k]) = k
        BY <1>4 DEF Put
      <4>1. CASE k = n
        BY <1>4, <4>1 DEF Put, n
      <4>2. CASE k # n
        BY <1>4, <3>1, <4>2 DEF Put
      <4> QED
        BY <4>1, <4>2
    <3> QED
      BY <1>4, <2>2, <3>2, <3>3, <3>4, <3>5
  <2> QED
    BY <2>1, <2>2
<1>7. SpecialInv'
  <2> SUFFICES ASSUME NEW m \in Loader
               PROVE  /\ DOMAIN special'[m] = {Type(g) : g \in Field \ todo'[m]} \cap Special
                      /\ \A u \in DOMAIN special'[m] :
                           special'[m][u] \in Field /\ Type(special'[m][u]) = u
                      /\ \A g, h \in Field \ todo'[m] :
                           Type(g) = Type(h) /\ Type(g) \in Special => g = h
    BY <1>1, <1>2 DEF SpecialInv
  <2>1. CASE m # l
    BY <1>5, <2>1 DEF SpecialInv
  <2>2. CASE m = l
    <3>1. /\ DOMAIN special[l] = {Type(g) : g \in done} \cap Special
          /\ \A u \in DOMAIN special[l] : special[l][u] \in Field /\ Type(special[l][u]) = u
          /\ \A g, h \in done : Type(g) = Type(h) /\ Type(g) \in Special => g = h
      BY DEF SpecialInv, done
    <3>2. DOMAIN special'[l] = {Type(g) : g \in done \cup {f}} \cap Special
      <4>1. DOMAIN special'[l] = DOMAIN special[l] \cup ({t} \cap Special)
        BY <1>4 DEF Put
      <4> QED
        BY <3>1, <4>1 DEF t
    <3>3. \A g \in done : Type(g) = Type(f) => Type(f) \notin Special
      BY <1>1, <3>1 DEF t
    <3>4. \A g, h \in done \cup {f} : Type(g) = Type(h) /\ Type(g) \in Special => g = h
      BY <3>1, <3>3
    <3>5. ASSUME NEW u \in DOMAIN special'[l]
          PROVE  special'[l][u] \in Field /\ Type(special'[l][u]) = u
      <4>1. CASE u = t /\ t \in Special
        BY <1>4, <4>1 DEF Put, t
      <4>2. CASE ~(u = t /\ t \in Special)
        BY <1>4, <3>1, <4>2 DEF Put
      <4> QED
        BY <4>1, <4>2
    <3> QED
      BY <1>4, <2>2, <3>2, <3>4, <3>5
  <2> QED
    BY <2>1, <2>2
<1>8. ResultInv'
  <2> SUFFICES ASSUME NEW m \in Loader
               PROVE  /\ result[m] = "ok" => conf.named /\ todo'[m] = {} /\ ~Clash /\ ~NoId
                      /\ result[m] = "error" => ~conf.named \/ Clash \/ NoId
    BY <1>1, <1>2 DEF ResultInv
  <2>1. CASE m # l
    BY <1>5, <2>1 DEF ResultInv
  <2>2. CASE m = l
    BY <1>1, <2>2
  <2> QED
    BY <2>1, <2>2
<1> QED
  BY <1>3, <1>6, <1>7, <1>8

LEMMA LoadStep ==
  ASSUME LoadInv, Load
  PROVE  LoadInv'
BY UnnamedInv, RefuseInv, FinishInv, AcceptInv DEF Load

-----------------------------------------------------------------------------
(* Writing                                                                 *)

\* What has been loaded stays so, and with it the commands of a document.
LEMMA LoadedStays ==
  ASSUME StoredInv, Load, UNCHANGED stored
  PROVE  StoredInv'
<1>1. stored = {}
  <2> SUFFICES ASSUME NEW d \in stored
               PROVE  FALSE
    OBVIOUS
  <2>1. \A l \in Loader : result[l] = "ok"
    BY DEF StoredInv
  <2>2. \A l \in Loader : ~Unnamed(l) /\ ~Finish(l)
    BY <2>1 DEF Unnamed, Finish
  <2>3. \A l \in Loader, f \in Field : ~Refuse(l, f) /\ ~Accept(l, f)
    BY <2>1 DEF Refuse, Accept, Comes
  <2> QED
    BY <2>2, <2>3 DEF Load
<1> QED
  BY <1>1 DEF StoredInv

LEMMA LoadKept ==
  ASSUME LoadInv, UNCHANGED loaderVars
  PROVE  LoadInv'
<1>1. /\ UNCHANGED <<conf, todo, metas, vnoMap, special, result>>
  BY DEF loaderVars
<1>2. TypeInv'
  BY <1>1 DEF LoadInv, TypeInv
<1>3. FieldsInv'
  BY <1>1 DEF LoadInv, FieldsInv, Number
<1>4. SpecialInv'
  BY <1>1 DEF LoadInv, SpecialInv, Type
<1>5. ResultInv'
  BY <1>1 DEF LoadInv, ResultInv, Clash, NoId, Type
<1> QED
  BY <1>2, <1>3, <1>4, <1>5 DEF LoadInv

LEMMA CommandsKept ==
  ASSUME UNCHANGED loaderVars
  PROVE  \A doc : Commands(doc)' = Commands(doc)
BY DEF Commands, BuildCmd, Meta, Vno, loaderVars

\* Documents that were stored before, and those that are written now.
LEMMA StoredStep ==
  ASSUME StoredInv, UNCHANGED loaderVars,
         \A d \in stored' :
           \/ d \in stored
           \/ /\ \A l \in Loader : result[l] = "ok"
              /\ DOMAIN d.doc \subseteq Field /\ IdField("indexer") \in DOMAIN d.doc
              /\ d.cmds = Commands(d.doc)
              /\ d.values \in Values(d.cmds)
  PROVE  StoredInv'
<1>1. UNCHANGED result
  BY DEF loaderVars
<1>2. \A doc : Commands(doc)' = Commands(doc)
  BY CommandsKept
<1> SUFFICES ASSUME NEW d \in stored'
             PROVE  /\ \A l \in Loader : result[l] = "ok"
                    /\ DOMAIN d.doc \subseteq Field /\ IdField("indexer") \in DOMAIN d.doc
                    /\ d.cmds = Commands(d.doc)
                    /\ d.values \in Values(d.cmds)
  <2>1. IdField("indexer")' = IdField("indexer")
    BY DEF IdField, loaderVars
  <2> QED
    BY <1>1, <1>2, <2>1 DEF StoredInv
<1> QED
  BY DEF StoredInv

LEMMA StoreInv ==
  ASSUME StoredInv, Begin, NEW old, NEW id, NEW D \in SUBSET Field, NEW text,
         Store(old, Written(id, D, text))
  PROVE  StoredInv'
<1> DEFINE doc == Written(id, D, text)
           cmds == Commands(doc)
<1>1. UNCHANGED loaderVars /\ \A l \in Loader : result[l] = "ok"
  BY DEF Begin
<1>2. DOMAIN doc \subseteq Field /\ IdField("indexer") \in DOMAIN doc
  BY DEF Written, Store
<1>3. PICK v \in Values(cmds) :
        stored' = (stored \ old) \cup {[no |-> ops, doc |-> doc, cmds |-> cmds, values |-> v]}
  BY DEF Store
<1> DEFINE new == [no |-> ops, doc |-> doc, cmds |-> cmds, values |-> v]
<1>4. new.doc = doc /\ new.cmds = cmds /\ new.values = v
  OBVIOUS
<1> HIDE DEF new
<1>5. \A d \in stored' : d \in stored \/ d = new
  BY <1>3 DEF new
<1> HIDE DEF doc
<1> QED
  BY <1>1, <1>2, <1>3, <1>4, <1>5, StoredStep

LEMMA NextInv ==
  ASSUME IInv, [ProjectNext]_vars
  PROVE  IInv'
<1> USE DEF IInv
<1>1. CASE Load /\ UNCHANGED <<stored, again, ops>>
  BY <1>1, LoadStep, LoadedStays
<1>2. CASE \E ids \in SUBSET Id : Del(ids)
  <2>1. UNCHANGED loaderVars /\ stored' \subseteq stored
    BY <1>2 DEF Del, Begin
  <2> QED
    BY <2>1, LoadKept, StoredStep
<1>3. CASE \E id \in Id, D \in SUBSET Field, text \in Text : Add(id, D, text) \/ Update(id, D, text)
  <2> PICK id \in Id, D \in SUBSET Field, text \in Text : Add(id, D, text) \/ Update(id, D, text)
    BY <1>3
  <2>1. PICK old \in {{}, Having(IdVno, id)} : Begin /\ Store(old, Written(id, D, text))
    BY DEF Add, Update
  <2>2. UNCHANGED loaderVars
    BY <2>1 DEF Begin
  <2> QED
    BY <2>1, <2>2, LoadKept, StoreInv
<1>4. CASE UNCHANGED vars
  <2>1. UNCHANGED loaderVars /\ UNCHANGED stored
    BY <1>4 DEF vars
  <2> QED
    BY <2>1, LoadKept, StoredStep
<1> QED
  BY <1>1, <1>2, <1>3, <1>4 DEF ProjectNext

LEMMA Invariant == ProjectSpec => []IInv
BY InitInv, NextInv, PTL DEF ProjectSpec

-----------------------------------------------------------------------------
(* Numbers of fields, and the commands that carry them                     *)

LEMMA OneNumber ==
  ASSUME NEW l, NEW m, NEW f
  PROVE  Number(l, f) = Number(m, f)
BY DEF Number

\* Without fids, and with fewer than 256 fields, no two fields have one number:
\* the place of a name is never that of the body, and there is one body.
LEMMA NumberInjective ==
  ASSUME TypeInv, ~Clash, WithoutFids, NEW f \in Field, NEW g \in Field,
         Number("indexer", f) = Number("indexer", g)
  PROVE  f = g
<1>1. Byte \in Nat \ {0, 1} /\ Fields \in Nat /\ Fields < Byte
  BY SizeAssumption DEF WithoutFids
<1>2. ASSUME NEW h \in Field
      PROVE  /\ h \in Nat /\ h < Byte - 1
             /\ Type(h) = "body" => Number("indexer", h) = Byte - 1
             /\ Type(h) # "body" => Number("indexer", h) = h
  <2>1. h \in Nat /\ h < Byte - 1 /\ h < Byte
    BY <1>1 DEF Field
  <2>2. h % Byte = h
    BY <1>1, <2>1
  <2>3. ~(conf.fields[h].fid > 0)
    BY DEF WithoutFids
  <2> QED
    BY <2>1, <2>2, <2>3 DEF Number, MixedVno, Type
<1>3. CASE Type(f) = "body" /\ Type(g) = "body"
  BY <1>3 DEF Clash, Special
<1>4. CASE Type(f) # "body" \/ Type(g) # "body"
  BY <1>1, <1>2, <1>4
<1> QED
  BY <1>3, <1>4

\* The commands of a value: one of them stores the value.
LEMMA BuildCmdValue ==
  ASSUME NEW m, NEW vno, NEW mixed, NEW words
  PROVE  LET cmds == BuildCmd(m, vno, mixed, words)
             value == [cmd |-> "value", vno |-> vno,
                       arg |-> IF IsNumeric(m) THEN 128 ELSE 0, of |-> words]
         IN value \in cmds /\ \A c \in cmds : c.cmd = "value" => c = value
BY DEF BuildCmd

\* There is one for each of its terms if the field has an index of its own.
LEMMA BuildCmdTerms ==
  ASSUME NEW m, NEW vno, NEW mixed, NEW words
  PROVE  /\ \A c \in BuildCmd(m, vno, mixed, words) : c.cmd = "term" =>
              c.vno = vno /\ \E x \in Terms(words) : c.of = {x}
         /\ HasIndexSelf(m) => \A x \in Terms(words) :
              \E c \in BuildCmd(m, vno, mixed, words) :
                c.cmd = "term" /\ c.vno = vno /\ c.of = {x}
<1> DEFINE term(x) == [cmd |-> "term", vno |-> vno, arg |-> Wdf(m), of |-> {x}]
           cmds == BuildCmd(m, vno, mixed, words)
<1>1. \A c \in cmds : c.cmd = "term" => \E x \in Terms(words) : c = term(x)
  BY DEF BuildCmd
<1>2. HasIndexSelf(m) => \A x \in Terms(words) : term(x) \in cmds
  BY DEF BuildCmd
<1>3. \A x : term(x).cmd = "term" /\ term(x).vno = vno /\ term(x).of = {x}
  OBVIOUS
<1> HIDE DEF term, cmds
<1>4. /\ \A c \in cmds : c.cmd = "term" => c.vno = vno /\ \E x \in Terms(words) : c.of = {x}
      /\ HasIndexSelf(m) => \A x \in Terms(words) :
           \E c \in cmds : c.cmd = "term" /\ c.vno = vno /\ c.of = {x}
  BY <1>1, <1>2, <1>3
<1> QED
  BY <1>4 DEF cmds

\* What the Indexer tells its server about a document: one value per field, and the
\* terms of the fields that have an index of their own.
LEMMA CommandsFacts ==
  ASSUME NEW doc
  PROVE  LET val(f) == [cmd |-> "value", vno |-> Vno("indexer", f),
                        arg |-> IF IsNumeric(Meta("indexer", f)) THEN 128 ELSE 0,
                        of |-> doc[f]]
         IN /\ \A f \in DOMAIN doc : val(f) \in Commands(doc)
            /\ \A c \in Commands(doc) : c.cmd = "value" => \E f \in DOMAIN doc : c = val(f)
            /\ \A c \in Commands(doc) : c.cmd = "term" =>
                 \E f \in DOMAIN doc : /\ c.vno = Vno("indexer", f)
                                       /\ \E x \in Terms(doc[f]) : c.of = {x}
            /\ \A f \in DOMAIN doc : HasIndexSelf(Meta("indexer", f)) =>
                 \A x \in Terms(doc[f]) : \E c \in Commands(doc) :
                   c.cmd = "term" /\ c.vno = Vno("indexer", f) /\ c.of = {x}
<1> DEFINE val(f) == [cmd |-> "value", vno |-> Vno("indexer", f),
                      arg |-> IF IsNumeric(Meta("indexer", f)) THEN 128 ELSE 0, of |-> doc[f]]
           cmds(f) == BuildCmd(Meta("indexer", f), Vno("indexer", f), MixedVno, doc[f])
<1>1. Commands(doc) = UNION {cmds(f) : f \in DOMAIN doc}
  BY DEF Commands
<1>2. ASSUME NEW f \in DOMAIN doc
      PROVE  /\ val(f) \in cmds(f)
             /\ \A c \in cmds(f) : c.cmd = "value" => c = val(f)
             /\ \A c \in cmds(f) : c.cmd = "term" =>
                  c.vno = Vno("indexer", f) /\ \E x \in Terms(doc[f]) : c.of = {x}
             /\ HasIndexSelf(Meta("indexer", f)) => \A x \in Terms(doc[f]) :
                  \E c \in cmds(f) : c.cmd = "term" /\ c.vno = Vno("indexer", f) /\ c.of = {x}
  <2>1. PICK m : m = Meta("indexer", f)
    OBVIOUS
  <2>2. PICK n : n = Vno("indexer", f)
    OBVIOUS
  <2>3. PICK words : words = doc[f]
    OBVIOUS
  <2>4. cmds(f) = BuildCmd(m, n, MixedVno, words)
    BY <2>1, <2>2, <2>3
  <2>5. val(f) = [cmd |-> "value", vno |-> n, arg |-> IF IsNumeric(m) THEN 128 ELSE 0,
                  of |-> words]
    BY <2>1, <2>2, <2>3
  <2> HIDE DEF cmds, val
  <2>6. /\ val(f) \in cmds(f)
        /\ \A c \in cmds(f) : c.cmd = "value" => c = val(f)
    BY <2>4, <2>5, BuildCmdValue
  <2>7. \A c \in cmds(f) : c.cmd = "term" => c.vno = n /\ \E x \in Terms(words) : c.of = {x}
    BY <2>4, BuildCmdTerms
  <2>8. HasIndexSelf(m) => \A x \in Terms(words) :
          \E c \in cmds(f) : c.cmd = "term" /\ c.vno = n /\ c.of = {x}
    BY <2>4, BuildCmdTerms
  <2> QED
    BY <2>1, <2>2, <2>3, <2>6, <2>7, <2>8
<1> HIDE DEF val, cmds
<1>3. /\ \A f \in DOMAIN doc : val(f) \in Commands(doc)
      /\ \A c \in Commands(doc) : c.cmd = "value" => \E f \in DOMAIN doc : c = val(f)
      /\ \A c \in Commands(doc) : c.cmd = "term" =>
           \E f \in DOMAIN doc : /\ c.vno = Vno("indexer", f)
                                 /\ \E x \in Terms(doc[f]) : c.of = {x}
      /\ \A f \in DOMAIN doc : HasIndexSelf(Meta("indexer", f)) =>
           \A x \in Terms(doc[f]) : \E c \in Commands(doc) :
             c.cmd = "term" /\ c.vno = Vno("indexer", f) /\ c.of = {x}
  BY <1>1, <1>2
<1> QED
  BY <1>3 DEF val

\* Once both have loaded the configuration, Indexer and Searcher mean the same by
\* every field, and no two fields have one number.
LEMMA Agreement ==
  ASSUME LoadInv, WithoutFids, \A l \in Loader : result[l] = "ok"
  PROVE  /\ DOMAIN metas["searcher"] = Field
         /\ \A f \in Field : /\ Meta("indexer", f) = Meta("searcher", f)
                             /\ Vno("indexer", f) = Vno("searcher", f)
         /\ \A f, g \in Field : Vno("searcher", f) = Vno("searcher", g) => f = g
         /\ \A f \in Field : /\ Vno("searcher", f) \in DOMAIN vnoMap["searcher"]
                             /\ vnoMap["searcher"][Vno("searcher", f)] = f
<1>1. "indexer" \in Loader /\ "searcher" \in Loader
  BY DEF Loader
<1>2. ~Clash /\ todo["indexer"] = {} /\ todo["searcher"] = {}
  BY <1>1 DEF LoadInv, ResultInv
<1>3. ASSUME NEW f \in Field
      PROVE  /\ Meta("indexer", f) = NewField(conf.fields[f])
             /\ Meta("searcher", f) = NewField(conf.fields[f])
             /\ Vno("indexer", f) = Number("indexer", f)
             /\ Vno("searcher", f) = Number("indexer", f)
  <2>1. /\ metas["indexer"][f] = [meta |-> NewField(conf.fields[f]), vno |-> Number("indexer", f)]
        /\ metas["searcher"][f] = [meta |-> NewField(conf.fields[f]), vno |-> Number("searcher", f)]
    BY <1>1, <1>2 DEF LoadInv, FieldsInv
  <2> QED
    BY <2>1, OneNumber DEF Meta, Vno
<1>4. \A f, g \in Field : Vno("searcher", f) = Vno("searcher", g) => f = g
  BY <1>2, <1>3, NumberInjective DEF LoadInv
<1>5. ASSUME NEW f \in Field
      PROVE  /\ Vno("searcher", f) \in DOMAIN vnoMap["searcher"]
             /\ vnoMap["searcher"][Vno("searcher", f)] = f
  <2> DEFINE n == Number("searcher", f)
             g == vnoMap["searcher"][n]
  <2>1. n \in DOMAIN vnoMap["searcher"]
    BY <1>1, <1>2 DEF LoadInv, FieldsInv
  <2>2. g \in Field /\ Number("searcher", g) = n
    BY <1>1, <1>2, <2>1 DEF LoadInv, FieldsInv
  <2>3. g = f
    BY <1>2, <2>2, OneNumber, NumberInjective DEF LoadInv
  <2> QED
    BY <1>3, <2>1, <2>3, OneNumber
<1>6. DOMAIN metas["searcher"] = Field
  BY <1>1, <1>2 DEF LoadInv, FieldsInv
<1> QED
  BY <1>3, <1>4, <1>5, <1>6

-----------------------------------------------------------------------------
(* Theorems                                                                *)

\* Indexer and Searcher accept the same configurations and number the fields
\* alike, in whatever order each of them ranges over the fields.
THEOREM Agree == ProjectSpec => []NumbersAgree
<1>1. IInv => NumbersAgree
  <2> SUFFICES ASSUME IInv, NEW l \in Loader, NEW m \in Loader
               PROVE  /\ \A f \in DOMAIN metas[l] \cap DOMAIN metas[m] :
                           metas[l][f].vno = metas[m][f].vno
                      /\ "none" \notin {result[l], result[m]} => result[l] = result[m]
    BY DEF NumbersAgree
  <2>1. ASSUME NEW f \in DOMAIN metas[l] \cap DOMAIN metas[m]
        PROVE  metas[l][f].vno = metas[m][f].vno
    <3>1. metas[l][f].vno = Number(l, f) /\ metas[m][f].vno = Number(m, f)
      <4>1. f \in Field \ todo[l] /\ f \in Field \ todo[m]
        BY DEF IInv, LoadInv, FieldsInv
      <4>2. /\ metas[l][f] = [meta |-> NewField(conf.fields[f]), vno |-> Number(l, f)]
            /\ metas[m][f] = [meta |-> NewField(conf.fields[f]), vno |-> Number(m, f)]
        BY <4>1 DEF IInv, LoadInv, FieldsInv
      <4> QED
        BY <4>2
    <3> QED
      BY <3>1, OneNumber
  <2>2. result[l] \in {"none", "ok", "error"} /\ result[m] \in {"none", "ok", "error"}
    BY DEF IInv, LoadInv, TypeInv
  <2>3. "none" \notin {result[l], result[m]} => result[l] = result[m]
    BY <2>2 DEF IInv, LoadInv, ResultInv
  <2> QED
    BY <2>1, <2>3
<1> QED
  BY <1>1, Invariant, PTL

\* A document is read back with the fields and values it was written with, and its
\* numbers are stored as numbers: if no field has a fid and there are fewer than 256.
THEOREM ReadBack == ProjectSpec => []ReadsWhatWasWritten
<1>1. IInv => ReadsWhatWasWritten
  <2> SUFFICES ASSUME IInv, WithoutFids, NEW d \in stored
               PROVE  /\ Shown(d) = {<<f, d.doc[f]>> : f \in DOMAIN d.doc}
                      /\ \A n \in DOMAIN d.values : (d.values[n].arg = 128) = (n \in Numeric)
    BY DEF ReadsWhatWasWritten
  <2> DEFINE val(f) == [cmd |-> "value", vno |-> Vno("indexer", f),
                        arg |-> IF IsNumeric(Meta("indexer", f)) THEN 128 ELSE 0,
                        of |-> d.doc[f]]
             vals == {c \in d.cmds : c.cmd = "value"}
             vm == vnoMap["searcher"]
  <2>1. /\ \A l \in Loader : result[l] = "ok"
        /\ DOMAIN d.doc \subseteq Field
        /\ d.cmds = Commands(d.doc)
        /\ d.values \in Values(d.cmds)
    BY DEF IInv, StoredInv
  <2>2. /\ \A f \in Field : /\ Meta("indexer", f) = Meta("searcher", f)
                            /\ Vno("indexer", f) = Vno("searcher", f)
        /\ \A f, g \in Field : Vno("searcher", f) = Vno("searcher", g) => f = g
        /\ \A f \in Field : vm[Vno("searcher", f)] = f
    BY <2>1, Agreement DEF IInv
  <2>3. vals = {val(f) : f \in DOMAIN d.doc}
    <3>1. /\ \A f \in DOMAIN d.doc : val(f) \in d.cmds
          /\ \A c \in d.cmds : c.cmd = "value" => \E f \in DOMAIN d.doc : c = val(f)
      BY <2>1, CommandsFacts
    <3>2. \A f : val(f).cmd = "value"
      OBVIOUS
    <3> HIDE DEF val
    <3> QED
      BY <3>1, <3>2
  <2>4. \A f : /\ val(f).vno = Vno("indexer", f) /\ val(f).of = d.doc[f]
               /\ val(f).arg = IF IsNumeric(Meta("indexer", f)) THEN 128 ELSE 0
    OBVIOUS
  <2>5. /\ DOMAIN d.values = {c.vno : c \in vals}
        /\ \A n \in DOMAIN d.values : d.values[n] \in vals /\ d.values[n].vno = n
    BY <2>1 DEF Values
  <2> HIDE DEF val, vals, vm
  <2>6. ASSUME NEW n \in DOMAIN d.values
        PROVE  \E f \in DOMAIN d.doc : d.values[n] = val(f) /\ Vno("searcher", f) = n
    <3>1. PICK f \in DOMAIN d.doc : d.values[n] = val(f)
      BY <2>3, <2>5
    <3> QED
      BY <2>1, <2>2, <2>4, <2>5, <3>1
  <2>7. ASSUME NEW f \in DOMAIN d.doc
        PROVE  /\ Vno("searcher", f) \in DOMAIN d.values
               /\ d.values[Vno("searcher", f)] = val(f)
    <3>1. Vno("searcher", f) \in DOMAIN d.values
      BY <2>1, <2>2, <2>3, <2>4, <2>5
    <3>2. PICK g \in DOMAIN d.doc : /\ d.values[Vno("searcher", f)] = val(g)
                                    /\ Vno("searcher", g) = Vno("searcher", f)
      BY <2>6, <3>1
    <3> QED
      BY <2>1, <2>2, <3>1, <3>2
  <2>8. Shown(d) = {<<f, d.doc[f]>> : f \in DOMAIN d.doc}
    <3>1. Shown(d) = {<<vm[n], d.values[n].of>> : n \in DOMAIN d.values}
      BY DEF Shown, vm
    <3>2. ASSUME NEW n \in DOMAIN d.values
          PROVE  \E f \in DOMAIN d.doc : <<vm[n], d.values[n].of>> = <<f, d.doc[f]>>
      <4>1. PICK f \in DOMAIN d.doc : d.values[n] = val(f) /\ Vno("searcher", f) = n
        BY <2>6
      <4>2. vm[n] = f /\ d.values[n].of = d.doc[f]
        BY <2>1, <2>2, <2>4, <4>1
      <4> QED
        BY <4>2
    <3>3. ASSUME NEW f \in DOMAIN d.doc
          PROVE  \E n \in DOMAIN d.values : <<f, d.doc[f]>> = <<vm[n], d.values[n].of>>
      <4> DEFINE n == Vno("searcher", f)
      <4>1. n \in DOMAIN d.values /\ d.values[n] = val(f)
        BY <2>7
      <4>2. vm[n] = f /\ d.values[n].of = d.doc[f]
        BY <2>1, <2>2, <2>4, <4>1
      <4> QED
        BY <4>1, <4>2
    <3> QED
      BY <3>1, <3>2, <3>3
  <2>9. ASSUME NEW n \in DOMAIN d.values
        PROVE  d.values[n].arg = 128 <=> n \in Numeric
    <3>1. PICK f \in DOMAIN d.doc : d.values[n] = val(f) /\ Vno("searcher", f) = n
      BY <2>6
    <3>2. f \in Field
      BY <2>1
    <3>3. d.values[n].arg = 128 <=> IsNumeric(Meta("searcher", f))
      BY <2>2, <2>4, <3>1, <3>2
    <3>4. n \in Numeric <=> \E g \in Field : IsNumeric(Meta("searcher", g)) /\ n = Vno("searcher", g)
      BY DEF Numeric
    <3>5. n \in Numeric <=> IsNumeric(Meta("searcher", f))
      BY <2>2, <3>1, <3>2, <3>4
    <3> QED
      BY <3>3, <3>5
  <2> QED
    BY <2>8, <2>9
<1> QED
  BY <1>1, Invariant, PTL

\* A query for a word in an indexed field finds the documents that have the word there,
\* in whatever capitals and unless it is a long one, and no other documents: on the
\* same condition.
THEOREM Found == ProjectSpec => []FindsWhatWasWritten
<1>1. IInv => FindsWhatWasWritten
  <2> SUFFICES ASSUME IInv, WithoutFids, NEW f \in DOMAIN metas["searcher"],
                      HasIndexSelf(Meta("searcher", f)), NEW w
               PROVE  Findable(f, w) = {d \in stored :
                        f \in DOMAIN d.doc /\ \E x \in d.doc[f] \ Long : LowerCase[x] = w}
    BY DEF FindsWhatWasWritten
  <2> SUFFICES ASSUME NEW d \in stored
               PROVE  (\E c \in d.cmds : /\ c.cmd = "term" /\ c.vno = Vno("searcher", f)
                                         /\ c.of = {w})
                        <=> f \in DOMAIN d.doc /\ w \in Terms(d.doc[f])
    BY DEF Findable, Having, Terms
  <2>1. /\ \A l \in Loader : result[l] = "ok"
        /\ DOMAIN d.doc \subseteq Field
        /\ d.cmds = Commands(d.doc)
    BY DEF IInv, StoredInv
  <2>2. /\ DOMAIN metas["searcher"] = Field
        /\ \A g \in Field : /\ Meta("indexer", g) = Meta("searcher", g)
                            /\ Vno("indexer", g) = Vno("searcher", g)
        /\ \A g, h \in Field : Vno("searcher", g) = Vno("searcher", h) => g = h
    BY <2>1, Agreement DEF IInv
  <2>3. ASSUME NEW c \in d.cmds, c.cmd = "term", c.vno = Vno("searcher", f), c.of = {w}
        PROVE  f \in DOMAIN d.doc /\ w \in Terms(d.doc[f])
    <3>1. PICK g \in DOMAIN d.doc :
            c.vno = Vno("indexer", g) /\ \E x \in Terms(d.doc[g]) : c.of = {x}
      BY <2>1, <2>3, CommandsFacts
    <3>2. g = f
      BY <2>1, <2>2, <2>3, <3>1
    <3> QED
      BY <2>3, <3>1, <3>2
  <2>4. ASSUME f \in DOMAIN d.doc, w \in Terms(d.doc[f])
        PROVE  \E c \in d.cmds : c.cmd = "term" /\ c.vno = Vno("searcher", f) /\ c.of = {w}
    <3>1. HasIndexSelf(Meta("indexer", f)) /\ Vno("indexer", f) = Vno("searcher", f)
      BY <2>2
    <3>2. \E c \in Commands(d.doc) : c.cmd = "term" /\ c.vno = Vno("indexer", f) /\ c.of = {w}
      BY <2>4, <3>1, CommandsFacts
    <3> QED
      BY <2>1, <3>1, <3>2
  <2> QED
    BY <2>3, <2>4
<1> QED
  BY <1>1, Invariant, PTL

-----------------------------------------------------------------------------
(* One document per id                                                     *)

\* Whatever its definition says, an id has an index of its own.
LEMMA IdHasIndex ==
  ASSUME NEW def, def.type = "id"
  PROVE  HasIndexSelf(NewField(def))
<1>1. "self" \in IndexFlags(def)
  BY DEF IndexFlags, TypeFlags
<1>2. ASSUME NEW flags, NEW word, NEW flag, "self" \in flags, flag # "self"
      PROVE  "self" \in Setting(flags, word, flag)
  BY <1>2 DEF Setting
<1>3. "self" \in Setting(Setting(IndexFlags(def), def.phrase, "position"), def.noBool, "nonbool")
  BY <1>1, <1>2
<1> QED
  BY <1>3 DEF NewField, HasIndexSelf

\* So an id of one word is found by it, if it is neither a long one nor has capitals.
LEMMA IdIsTerm ==
  ASSUME IInv, NEW d \in stored, OneTerm(IdOf(d))
  PROVE  d \in Having(IdVno, IdOf(d))
<1>1. PICK x : IdOf(d) = {x} /\ x \notin Long /\ LowerCase[x] = x
  BY DEF OneTerm
<1> DEFINE f == IdField("indexer")
           c == [cmd |-> "term", vno |-> Vno("indexer", f), arg |-> Wdf(Meta("indexer", f)), of |-> {x}]
<1>2. /\ \A l \in Loader : result[l] = "ok"
      /\ f \in DOMAIN d.doc /\ d.doc[f] = {x} /\ d.cmds = Commands(d.doc)
  BY <1>1 DEF IInv, StoredInv, IdOf
<1>3. "indexer" \in Loader
  BY DEF Loader
<1>4. todo["indexer"] = {} /\ ~NoId
  BY <1>2, <1>3 DEF IInv, LoadInv, ResultInv
<1>5. PICK g \in Field : Type(g) = "id"
  BY <1>4 DEF NoId
<1>6. "id" \in DOMAIN special["indexer"]
  BY <1>3, <1>4, <1>5 DEF IInv, LoadInv, SpecialInv, Special
<1>7. f \in Field /\ Type(f) = "id"
  BY <1>3, <1>6 DEF IInv, LoadInv, SpecialInv, IdField
<1>8. metas["indexer"][f] = [meta |-> NewField(conf.fields[f]), vno |-> Number("indexer", f)]
  BY <1>3, <1>4, <1>7 DEF IInv, LoadInv, FieldsInv
<1>9. Meta("indexer", f) = NewField(conf.fields[f])
  BY <1>8 DEF Meta
<1>10. HasIndexSelf(Meta("indexer", f))
  BY <1>7, <1>9, IdHasIndex DEF Type
<1> HIDE DEF f
<1>11. c \in BuildCmd(Meta("indexer", f), Vno("indexer", f), MixedVno, {x})
  <2>1. x \in Terms({x})
    BY <1>1 DEF Terms
  <2> QED
    BY <1>10, <2>1 DEF BuildCmd
<1>12. c \in Commands(d.doc)
  BY <1>2, <1>11 DEF Commands
<1>13. c.cmd = "term" /\ c.vno = Vno("indexer", f) /\ c.of = {x}
  OBVIOUS
<1>14. c \in d.cmds /\ c.vno = IdVno /\ c.of = IdOf(d)
  BY <1>1, <1>2, <1>12, <1>13 DEF IdVno, f
<1> QED
  BY <1>13, <1>14 DEF Having

\* Update replaces a document, whatever index the definition of the id asks for: of
\* every id that has one word, neither a long one nor with capitals, there is one
\* document, unless Add repeats it.
THEOREM OneForEach == ProjectSpec => []OnePerId
<1>1. ProjectInit => OneInv
  BY DEF ProjectInit, OneInv
<1>2. ASSUME IInv, OneInv, [ProjectNext]_vars
      PROVE  OneInv'
  <2>1. ASSUME NEW doc, UNCHANGED special
        PROVE  IdOf(doc)' = IdOf(doc)
    BY <2>1 DEF IdOf, IdField
  <2>2. CASE Load /\ UNCHANGED <<stored, again, ops>>
    <3>1. CASE stored = {}
      BY <2>2, <3>1 DEF OneInv
    <3>2. CASE UNCHANGED special
      BY <1>2, <2>1, <2>2, <3>2 DEF OneInv
    <3>3. stored # {} => \A l \in Loader : result[l] = "ok"
      BY <1>2 DEF IInv, StoredInv
    <3> QED
      BY <2>2, <3>1, <3>2, <3>3 DEF Load, Unnamed, Refuse, Accept, Comes, Finish
  <2>3. CASE UNCHANGED special /\ stored' \subseteq stored /\ again \subseteq again'
    BY <1>2, <2>1, <2>3 DEF OneInv
  <2>4. CASE \E ids \in SUBSET Id : Del(ids)
    BY <2>3, <2>4 DEF Del, Begin, loaderVars
  <2>5. ASSUME NEW id \in Id, NEW D \in SUBSET Field, NEW text \in Text,
               Add(id, D, text) \/ Update(id, D, text)
        PROVE  OneInv'
    <3> DEFINE old == IF Add(id, D, text) THEN {} ELSE Having(IdVno, id)
               doc == Written(id, D, text)
    <3>1. UNCHANGED special
      BY <2>5 DEF Add, Update, Begin, loaderVars
    <3>2. PICK new : /\ IdOf(new) = id
                     /\ stored' = (stored \ old) \cup {new}
      <4>1. Store(old, doc)
        BY <2>5 DEF Add, Update
      <4>2. PICK v : stored' = (stored \ old) \cup
                       {[no |-> ops, doc |-> doc, cmds |-> Commands(doc), values |-> v]}
        BY <4>1 DEF Store
      <4>3. IdField("indexer") \in DOMAIN doc
        BY <4>1 DEF Store
      <4>4. doc[IdField("indexer")] = id
        BY <4>3 DEF Written
      <4> QED
        BY <4>2, <4>4 DEF IdOf
    <3>3. again \subseteq again'
      BY <2>5 DEF Add, Update
    <3>4. ASSUME NEW d \in stored \ old, IdOf(d) = id, OneTerm(id)
          PROVE  id \in again'
      <4>1. CASE Add(id, D, text)
        BY <3>4, <4>1 DEF Add
      <4>2. CASE ~Add(id, D, text)
        <5>1. d \in Having(IdVno, id)
          BY <1>2, <3>4, IdIsTerm
        <5> QED
          BY <3>4, <4>2, <5>1
      <4> QED
        BY <4>1, <4>2
    <3> HIDE DEF old
    <3>5. \A d \in stored' : IdOf(d)' = IdOf(d)
      BY <2>1, <3>1
    <3>6. ASSUME NEW d \in stored', NEW e \in stored', IdOf(d) = IdOf(e), OneTerm(IdOf(d))
          PROVE  d = e \/ IdOf(d) \in again'
      BY <1>2, <3>2, <3>3, <3>4, <3>6 DEF OneInv
    <3> QED
      BY <3>5, <3>6 DEF OneInv
  <2>6. CASE UNCHANGED vars
    BY <2>3, <2>6 DEF vars, loaderVars
  <2> QED
    BY <1>2, <2>2, <2>4, <2>5, <2>6 DEF ProjectNext
<1>3. IInv /\ OneInv => OnePerId
  <2> SUFFICES ASSUME OneInv, NEW id \in Id \ again, OneTerm(id)
               PROVE  Cardinality({d \in stored : IdOf(d) = id}) <= 1
    BY DEF OnePerId
  <2> DEFINE S == {d \in stored : IdOf(d) = id}
  <2>1. CASE S = {}
    <3>1. Cardinality(S) = 0
      BY <2>1, FS_EmptySet
    <3> QED
      BY <3>1
  <2>2. ASSUME NEW d \in S
        PROVE  Cardinality(S) <= 1
    <3>1. S = {d}
      BY DEF OneInv
    <3>2. Cardinality(S) = 1
      BY <3>1, FS_Singleton
    <3> QED
      BY <3>2
  <2> QED
    BY <2>1, <2>2
<1> QED
  BY <1>1, <1>2, <1>3, Invariant, PTL DEF ProjectSpec
=============================================================================
