--------------------------- MODULE ScwsPoolProofs ---------------------------
(***************************************************************************)
(* Theorems about module ScwsPool, for every finite set of goroutines and  *)
(* every value of the bounds. The inductive invariant says where a handle  *)
(* of the C library is in its life, and who is about to move it on.        *)
(***************************************************************************)
EXTENDS ScwsPool, SequenceTheorems, FiniteSetTheorems, TLAPS

-----------------------------------------------------------------------------
(* The inductive invariant                                                 *)

Queue == {closeCh[i] : i \in DOMAIN closeCh}
Distinct == \A i, j \in DOMAIN closeCh : i # j => closeCh[i] # closeCh[j]

\* Close is past its send for this handle.
Spent(h) == h \in Queue \/ h = freeing \/ freed[h] > 0

\* The goroutines that the bound keeps a handle for.
Claims == {p \in Proc : pc[p] \in {"lock", "new", "fork"}}
RoomInv == allocated + Cardinality(Claims) <= MaxHandles

\* Who closes a tokenizer has one, and sends its handle.
HoldInv ==
  \A p \in Proc :
    /\ pc[p] \in {"clear", "send", "wait"} => held[p] # 0
    /\ pc[p] = "wait" => at[p].h = held[p]
    /\ pc[p] = "qwait" => at[p].h # 0

\* Nobody knows a handle before the C library hands it out.
KnownInv ==
  /\ gscws <= allocated
  /\ freeing <= allocated
  /\ \A p \in Proc : held[p] <= allocated
  /\ \A h \in Queue : h <= allocated
  /\ \A h \in Handle : h > allocated => freed[h] = 0

\* A tokenizer has one owner: the program's global variable or one goroutine.
OwnerInv ==
  \A p \in Proc : held[p] # 0 =>
    /\ held[p] # gscws
    /\ \A q \in Proc : q # p => held[q] # held[p]

\* A handle is once on its way to being freed, and then no longer in use.
OnceInv ==
  /\ freeing = 0 <=> worker # "free"
  /\ Distinct
  /\ \A h \in Handle :
       /\ freed[h] <= 1
       /\ h \in Queue => h # freeing /\ freed[h] = 0
       /\ h = freeing => freed[h] = 0
       /\ Spent(h) => ~inUse[h]

\* Close sends a handle that nobody has sent before.
CloseInv ==
  \A p \in Proc :
    /\ pc[p] = "clear" => inUse[held[p]]
    /\ pc[p] \in {"send", "wait"} => ~inUse[held[p]] /\ ~Spent(held[p])

\* Where CloseScws is, when it is not blocked for ever on an old channel.
Quitting(p) ==
  \/ pc[p] \in {"qclear", "qsend", "qwait", "qsignal"}
  \/ pc[p] = "quit" /\ at[p].ch = gen

\* CloseScws clears the global tokenizer, sends its handle once, and only when it
\* has signalled does the background goroutine reset gscws.
QuitInv ==
  /\ \A p \in Proc :
       /\ pc[p] # "qpanic"
       /\ at[p].ch <= gen
       /\ pc[p] \in {"qclear", "qsend", "qwait", "qsignal", "quit"} => p \in Closer /\ closed
       /\ Quitting(p) => gscws # 0 /\ worker # "quit" /\ (inUse[gscws] <=> pc[p] = "qclear")
       /\ pc[p] \in {"qsend", "qwait"} => ~Spent(gscws)
       /\ pc[p] = "qwait" => at[p].h = gscws
  /\ worker = "quit" => closed /\ gscws # 0 /\ ~inUse[gscws]

\* InitScws is alone, finds no tokenizer and no background goroutine.
InitScwsInv ==
  /\ \A p \in Proc :
       /\ pc[p] \in {"new", "make"} => mutex = p /\ worker = "none"
       /\ pc[p] = "new" => gscws = 0
       /\ pc[p] = "make" => gscws # 0
  /\ gscws = 0 => worker = "none"

\* A tokenizer in use is not freed, and until CloseScws is called the global one
\* stays.
OpenInv ==
  /\ "open" \notin misused
  /\ closed \/ /\ gscws # 0 => inUse[gscws]
               /\ \A p \in Proc : pc[p] = "fork" => gscws # 0
               /\ "fork" \notin misused

\* At most one goroutine calls CloseScws: two of them may both find the
\* tokenizer in use and both send its handle.
OneCloser == \A p, q \in Closer : p = q

LifeInv ==
  (closed => OneCloser) =>
    /\ KnownInv /\ OwnerInv /\ OnceInv /\ CloseInv
    /\ QuitInv /\ InitScwsInv /\ OpenInv

IInv == TypeOK /\ RoomInv /\ HoldInv /\ LifeInv
-----------------------------------------------------------------------------
(* The channel and the bound                                               *)

\* A handle that joins closeCh is in it from then on, once.
LEMMA QueueAppend ==
  ASSUME closeCh \in Seq(Handle), NEW h \in Handle, closeCh' = Append(closeCh, h)
  PROVE  /\ Queue' = Queue \cup {h}
         /\ Distinct /\ h \notin Queue => Distinct'
<1>1. /\ Len(closeCh') = Len(closeCh) + 1
      /\ \A i \in 1 .. Len(closeCh) : closeCh'[i] = closeCh[i]
      /\ closeCh'[Len(closeCh) + 1] = h
  BY AppendProperties
<1>2. /\ Len(closeCh) \in Nat
      /\ DOMAIN closeCh = 1 .. Len(closeCh)
      /\ DOMAIN closeCh' = 1 .. Len(closeCh) + 1
  BY <1>1, LenProperties, AppendProperties
<1>3. Queue' = Queue \cup {h}
  BY <1>1, <1>2 DEF Queue
<1>4. ASSUME Distinct, h \notin Queue
      PROVE  Distinct'
  <2> SUFFICES ASSUME NEW i \in DOMAIN closeCh', NEW j \in DOMAIN closeCh', i # j
               PROVE  closeCh'[i] # closeCh'[j]
    BY DEF Distinct
  <2> QED
    BY <1>1, <1>2, <1>4 DEF Distinct, Queue
<1> QED
  BY <1>3, <1>4

\* The handle that leaves closeCh is in it no more.
LEMMA QueueTail ==
  ASSUME closeCh \in Seq(Handle), closeCh # <<>>, Distinct, closeCh' = Tail(closeCh)
  PROVE  /\ Head(closeCh) \in Queue
         /\ Queue' = Queue \ {Head(closeCh)}
         /\ Distinct'
<1>1. /\ Len(closeCh') = Len(closeCh) - 1
      /\ closeCh' \in Seq(Handle)
      /\ \A i \in 1 .. Len(closeCh') : closeCh'[i] = closeCh[i + 1]
  BY HeadTailProperties
<1>2. /\ Len(closeCh) \in Nat \ {0}
      /\ DOMAIN closeCh = 1 .. Len(closeCh)
      /\ DOMAIN closeCh' = 1 .. Len(closeCh')
      /\ Head(closeCh) = closeCh[1]
  BY <1>1, LenProperties, EmptySeq
<1>3. Head(closeCh) \in Queue
  BY <1>2 DEF Queue
<1>4. Queue' = Queue \ {Head(closeCh)}
  <2>1. \A h \in Queue' : h \in Queue /\ h # Head(closeCh)
    BY <1>1, <1>2 DEF Queue, Distinct
  <2>2. ASSUME NEW h \in Queue, h # Head(closeCh)
        PROVE  h \in Queue'
    <3>1. PICK i \in DOMAIN closeCh : closeCh[i] = h
      BY DEF Queue
    <3>2. i - 1 \in DOMAIN closeCh' /\ closeCh'[i - 1] = h
      BY <1>1, <1>2, <2>2, <3>1
    <3> QED
      BY <3>2 DEF Queue
  <2> QED
    BY <2>1, <2>2
<1>5. Distinct'
  BY <1>1, <1>2 DEF Distinct
<1> QED
  BY <1>3, <1>4, <1>5

LEMMA ClaimsFinite ==
  /\ IsFiniteSet(Claims) /\ Cardinality(Claims) \in Nat
  /\ IsFiniteSet(Claims') /\ Cardinality(Claims') \in Nat
<1>1. Claims \in SUBSET Proc /\ Claims' \in SUBSET Proc
  BY DEF Claims
<1> QED
  BY <1>1, ProcAssumption, FS_Subset, FS_CardinalityType

\* A goroutine that Room has let pass finds a handle left.
LEMMA HandleLeft ==
  ASSUME TypeOK, RoomInv, NEW p \in Proc, pc[p] \in {"new", "fork"}
  PROVE  allocated + 1 \in Handle
<1>1. p \in Claims
  BY DEF Claims
<1>2. Cardinality(Claims) > 0
  BY <1>1, ClaimsFinite, FS_EmptySet
<1> QED
  BY <1>2, ClaimsFinite, BoundAssumption DEF TypeOK, RoomInv, Handle

\* How the goroutine that moves changes the number of claims.
LEMMA ClaimsMove ==
  ASSUME TypeOK, NEW p \in Proc, NEW l, pc' = [pc EXCEPT ![p] = l]
  PROVE  Cardinality(Claims') =
           Cardinality(Claims) + (IF l \in {"lock", "new", "fork"} THEN 1 ELSE 0)
                               - (IF pc[p] \in {"lock", "new", "fork"} THEN 1 ELSE 0)
<1>1. CASE l \in {"lock", "new", "fork"} /\ pc[p] \in {"lock", "new", "fork"}
  <2>1. Claims' = Claims
    BY <1>1 DEF Claims, TypeOK
  <2> QED
    BY <1>1, <2>1, ClaimsFinite
<1>2. CASE l \in {"lock", "new", "fork"} /\ pc[p] \notin {"lock", "new", "fork"}
  <2>1. Claims' = Claims \cup {p} /\ p \notin Claims
    BY <1>2 DEF Claims, TypeOK
  <2> QED
    BY <1>2, <2>1, ClaimsFinite, FS_AddElement
<1>3. CASE l \notin {"lock", "new", "fork"} /\ pc[p] \in {"lock", "new", "fork"}
  <2>1. Claims' = Claims \ {p} /\ p \in Claims
    BY <1>3 DEF Claims, TypeOK
  <2> QED
    BY <1>3, <2>1, ClaimsFinite, FS_RemoveElement
<1>4. CASE l \notin {"lock", "new", "fork"} /\ pc[p] \notin {"lock", "new", "fork"}
  <2>1. Claims' = Claims
    BY <1>4 DEF Claims, TypeOK
  <2> QED
    BY <1>4, <2>1, ClaimsFinite
<1> QED
  BY <1>1, <1>2, <1>3, <1>4
-----------------------------------------------------------------------------
(* Types and the bound                                                     *)

LEMMA InitInv == Init => IInv
<1> SUFFICES ASSUME Init
             PROVE  IInv
  OBVIOUS
<1>1. TypeOK
  <2>1. closeCh \in Seq(Handle) /\ Len(closeCh) <= ChanCap
    BY BoundAssumption, EmptySeq DEF Init
  <2>2. mutex \in Proc \cup {None} /\ 0 \in 0 .. MaxHandles
    BY BoundAssumption DEF Init
  <2>3. \A p \in Proc : mutex = p <=> Locking(p)
    BY ProcAssumption DEF Init, Locking
  <2> QED
    BY <2>1, <2>2, <2>3 DEF Init, TypeOK, Pc
<1>2. RoomInv
  <2>1. Claims = {}
    BY DEF Init, Claims
  <2> QED
    BY <2>1, FS_EmptySet, BoundAssumption DEF RoomInv, Init
<1>3. HoldInv
  BY DEF Init, HoldInv
<1>4. LifeInv
  <2>1. Queue = {} /\ Distinct
    BY DEF Init, Queue, Distinct
  <2> QED
    BY <2>1 DEF Init, LifeInv, KnownInv, OwnerInv, OnceInv, CloseInv, QuitInv, Quitting,
                InitScwsInv, OpenInv, Spent, Handle
<1> QED
  BY <1>1, <1>2, <1>3, <1>4 DEF IInv

LEMMA MutexStep ==
  ASSUME TypeOK, [Next]_vars, NEW q \in Proc
  PROVE  mutex' = q <=> Locking(q)'
<1> USE ProcAssumption DEF TypeOK, Locking, Goto, Return, libVars, poolVars, procVars
<1>1. ASSUME NEW p \in Proc, InitCall(p) \/ GetCheck(p) \/ GetTokens(p) \/ CloseCheck(p) \/ Forget(p)
      PROVE  mutex' = q <=> Locking(q)'
  BY <1>1 DEF InitCall, GetCheck, GetTokens, CloseCheck, Forget
<1>2. ASSUME NEW p \in Proc, InitNew(p)
      PROVE  mutex' = q <=> Locking(q)'
  BY <1>2 DEF InitNew
<1>9. ASSUME NEW p \in Proc, InitLock(p)
      PROVE  mutex' = q <=> Locking(q)'
  <2>1. ~Locking(q) /\ pc[p] = "lock" /\ p # None /\ q # None
    BY <1>9 DEF InitLock
  <2>2. \/ mutex' = None /\ pc' = [pc EXCEPT ![p] = "idle"]
        \/ mutex' = p /\ pc' = [pc EXCEPT ![p] = "new"]
    BY <1>9 DEF InitLock
  <2> QED
    BY <2>1, <2>2
<1>3. ASSUME NEW p \in Proc, InitBadDict(p) \/ InitMake(p)
      PROVE  mutex' = q <=> Locking(q)'
  BY <1>3 DEF InitBadDict, InitMake
<1>4. ASSUME NEW p \in Proc, Fork(p)
      PROVE  mutex' = q <=> Locking(q)'
  BY <1>4 DEF Fork
<1>5. ASSUME NEW p \in Proc, CloseClear(p) \/ CloseSend(p) \/ CloseWait(p)
      PROVE  mutex' = q <=> Locking(q)'
  BY <1>5 DEF CloseClear, CloseSend, CloseWait
<1>6. ASSUME NEW p \in Proc, QuitCheck(p) \/ QuitClear(p) \/ WorkerQuit(p)
      PROVE  mutex' = q <=> Locking(q)'
  BY <1>6 DEF QuitCheck, QuitClear, WorkerQuit
<1>7. ASSUME NEW p \in Proc, QuitSend(p) \/ QuitWait(p) \/ QuitSignal(p)
      PROVE  mutex' = q <=> Locking(q)'
  BY <1>7 DEF QuitSend, QuitWait, QuitSignal
<1>8. CASE WorkerTake \/ WorkerFree \/ WorkerNil \/ UNCHANGED vars
  BY <1>8 DEF WorkerTake, WorkerFree, WorkerNil, vars
<1> QED
  BY <1>1, <1>2, <1>3, <1>4, <1>5, <1>6, <1>7, <1>8, <1>9 DEF Next, Enter, Step, Worker, Quiet

LEMMA TypeStep ==
  ASSUME TypeOK, RoomInv, HoldInv, [Next]_vars
  PROVE  TypeOK'
<1> \A q \in Proc : mutex' = q <=> Locking(q)'
  BY MutexStep
<1> USE DEF TypeOK, Goto, Return, Pc, libVars, poolVars, procVars
<1> allocated \in Nat /\ MaxHandles \in Nat /\ ChanCap \in Nat \ {0}
  BY BoundAssumption
<1>a. ASSUME NEW h \in Handle, closeCh' = Append(closeCh, h), Len(closeCh) < ChanCap
      PROVE  closeCh' \in Seq(Handle) /\ Len(closeCh') <= ChanCap
  BY <1>a, AppendProperties, LenProperties
<1>u. closeCh' = closeCh => closeCh' \in Seq(Handle) /\ Len(closeCh') <= ChanCap
  OBVIOUS
<1>t. ASSUME NEW h, NEW u \in {"fork", "open", "closed"}, Touch(h, u)
      PROVE  misused' \subseteq {"fork", "open", "closed"}
  BY <1>t DEF Touch
<1>1. ASSUME NEW p \in Proc, InitCall(p) \/ GetCheck(p) \/ GetTokens(p) \/ CloseCheck(p) \/ Forget(p)
      PROVE  TypeOK'
  <2>1. CASE GetTokens(p)
    BY <2>1, <1>t DEF GetTokens
  <2>2. CASE InitCall(p) \/ GetCheck(p)
    BY <2>2 DEF InitCall, GetCheck
  <2>3. CASE CloseCheck(p)
    <3>1. pc' = pc \/ pc' = [pc EXCEPT ![p] = "clear"]
      BY <2>3 DEF CloseCheck, Goto
    <3>2. pc' \in [Proc -> Pc]
      BY <3>1
    <3> QED
      BY <2>3, <3>2 DEF CloseCheck
  <2>4. CASE Forget(p)
    BY <2>4 DEF Forget
  <2> QED
    BY <1>1, <2>1, <2>2, <2>3, <2>4
<1>2. ASSUME NEW p \in Proc, InitLock(p)
      PROVE  TypeOK'
  BY <1>2 DEF InitLock
<1>3. ASSUME NEW p \in Proc, InitNew(p)
      PROVE  TypeOK'
  <2>1. allocated + 1 \in Handle
    BY <1>3, HandleLeft DEF InitNew
  <2> QED
    BY <1>3, <2>1, SMTT(30) DEF InitNew, NewHandle, Handle
<1>4. ASSUME NEW p \in Proc, InitBadDict(p)
      PROVE  TypeOK'
  <2>1. allocated + 1 \in Handle
    BY <1>4, HandleLeft DEF InitBadDict
  <2>2. closeCh' \in Seq(Handle) /\ Len(closeCh') <= ChanCap
    BY <1>4, <2>1, <1>a, <1>u DEF InitBadDict
  <2>3. allocated' \in 0 .. MaxHandles /\ inUse' \in [Handle -> BOOLEAN]
    BY <1>4, <2>1 DEF InitBadDict, NewHandle, Handle
  <2> QED
    BY <1>4, <2>2, <2>3 DEF InitBadDict
<1>5. ASSUME NEW p \in Proc, InitMake(p)
      PROVE  TypeOK'
  BY <1>5 DEF InitMake
<1>6. ASSUME NEW p \in Proc, Fork(p)
      PROVE  TypeOK'
  <2>1. allocated + 1 \in Handle
    BY <1>6, HandleLeft DEF Fork
  <2>2. misused' \subseteq {"fork", "open", "closed"}
    BY <1>6, <1>t DEF Fork
  <2>3. inUse' \in [Handle -> BOOLEAN]
    BY <1>6 DEF Fork, NewHandle
  <2>4. allocated' \in 0 .. MaxHandles /\ held' \in [Proc -> 0 .. MaxHandles]
    <3>1. allocated + 1 \in 0 .. MaxHandles
      BY <2>1 DEF Handle
    <3>2. \/ allocated' = allocated /\ held' = held
          \/ allocated' = allocated + 1 /\ held' = [held EXCEPT ![p] = allocated + 1]
      BY <1>6 DEF Fork, NewHandle
    <3>3. CASE allocated' = allocated /\ held' = held
      BY <3>3
    <3>4. CASE allocated' = allocated + 1 /\ held' = [held EXCEPT ![p] = allocated + 1]
      BY <3>1, <3>4
    <3> QED
      BY <3>2, <3>3, <3>4
  <2> QED
    BY <1>6, <2>2, <2>3, <2>4 DEF Fork
<1>7. ASSUME NEW p \in Proc, CloseClear(p)
      PROVE  TypeOK'
  BY <1>7 DEF CloseClear
<1>8. ASSUME NEW p \in Proc, CloseSend(p)
      PROVE  TypeOK'
  <2>1. held[p] \in Handle
    BY <1>8 DEF CloseSend, HoldInv, Handle
  <2>2. closeCh' \in Seq(Handle) /\ Len(closeCh') <= ChanCap
    BY <1>8, <2>1, <1>a, <1>u DEF CloseSend
  <2>3. at' \in [Proc -> [ch : Nat, h : 0 .. MaxHandles]]
    <3>1. at' = at \/ at' = [at EXCEPT ![p] = [ch |-> gen, h |-> held[p]]]
      BY <1>8 DEF CloseSend
    <3>2. [ch |-> gen, h |-> held[p]] \in [ch : Nat, h : 0 .. MaxHandles]
      OBVIOUS
    <3> QED
      BY <3>1, <3>2
  <2> QED
    BY <1>8, <2>2, <2>3 DEF CloseSend
<1>16. ASSUME NEW p \in Proc, CloseWait(p) \/ QuitWait(p)
       PROVE  TypeOK'
  <2>1. at[p].h \in Handle
    BY <1>16 DEF CloseWait, QuitWait, HoldInv, Handle
  <2>2. closeCh' \in Seq(Handle) /\ Len(closeCh') <= ChanCap
    BY <1>16, <2>1, <1>a DEF CloseWait, QuitWait, Sent
  <2> QED
    BY <1>16, <2>2 DEF CloseWait, QuitWait
<1>17. ASSUME NEW p \in Proc, QuitSignal(p)
       PROVE  TypeOK'
  BY <1>17 DEF QuitSignal
<1>9. ASSUME NEW p \in Proc, QuitCheck(p) \/ QuitClear(p)
      PROVE  TypeOK'
  BY <1>9 DEF QuitCheck, QuitClear
<1>10. ASSUME NEW p \in Proc, QuitSend(p)
       PROVE  TypeOK'
  <2>1. closeCh' \in Seq(Handle) /\ Len(closeCh') <= ChanCap
    BY <1>10, <1>a, <1>u DEF QuitSend, Handle
  <2>2. at' \in [Proc -> [ch : Nat, h : 0 .. MaxHandles]]
    <3>1. at' = at \/ at' = [at EXCEPT ![p] = [ch |-> gen, h |-> gscws]]
      BY <1>10 DEF QuitSend
    <3>2. [ch |-> gen, h |-> gscws] \in [ch : Nat, h : 0 .. MaxHandles]
      OBVIOUS
    <3> QED
      BY <3>1, <3>2
  <2>3. pc' \in [Proc -> Pc]
    <3>1. \E l \in {"qsignal", "qpanic", "stuck", "qwait"} : pc' = [pc EXCEPT ![p] = l]
      BY <1>10 DEF QuitSend
    <3> QED
      BY <3>1
  <2> QED
    BY <1>10, <2>1, <2>2, <2>3 DEF QuitSend
<1>11. CASE WorkerTake
  <2>1. Head(closeCh) \in Handle /\ Tail(closeCh) \in Seq(Handle) /\ Len(Tail(closeCh)) = Len(closeCh) - 1
    BY <1>11, HeadTailProperties DEF WorkerTake
  <2> QED
    BY <1>11, <2>1, SMTT(30) DEF WorkerTake, Handle
<1>12. CASE WorkerFree
  <2>1. freed' = [h \in Handle |-> IF h = freeing THEN freed[h] + 1 ELSE freed[h]]
    BY <1>12 DEF WorkerFree
  <2>2. freed' \in [Handle -> Nat]
    BY <2>1
  <2> QED
    BY <1>12, <2>2 DEF WorkerFree
<1>13. ASSUME NEW p \in Proc, WorkerQuit(p)
       PROVE  TypeOK'
  BY <1>13 DEF WorkerQuit
<1>14. CASE WorkerNil
  BY <1>14 DEF WorkerNil
<1>15. CASE UNCHANGED vars
  BY <1>15 DEF vars
<1> QED
  BY <1>1, <1>2, <1>3, <1>4, <1>5, <1>6, <1>7, <1>8, <1>9, <1>10, <1>11, <1>12, <1>13, <1>14, <1>15,
     <1>16, <1>17
  DEF Next, Enter, Step, Worker, Quiet

LEMMA RoomStep ==
  ASSUME TypeOK, RoomInv, [Next]_vars
  PROVE  RoomInv'
<1> USE BoundAssumption DEF TypeOK, Goto, Return, libVars, poolVars, procVars
<1>1. ASSUME NEW p \in Proc, NEW l, pc' = [pc EXCEPT ![p] = l],
             \/ allocated' = allocated /\ Room
             \/ allocated' = allocated /\ (l \in {"lock", "new", "fork"} => pc[p] \in {"lock", "new", "fork"})
             \/ allocated' = allocated + 1 /\ pc[p] \in {"new", "fork"} /\ l \notin {"lock", "new", "fork"}
      PROVE  RoomInv'
  <2>1. Cardinality(Claims) \in Nat /\ Cardinality(Claims') \in Nat
    BY ClaimsFinite
  <2>2. Room => allocated + Cardinality(Claims) < MaxHandles
    BY DEF Room, Claims
  <2>3. Cardinality(Claims') =
           Cardinality(Claims) + (IF l \in {"lock", "new", "fork"} THEN 1 ELSE 0)
                               - (IF pc[p] \in {"lock", "new", "fork"} THEN 1 ELSE 0)
    BY <1>1, ClaimsMove
  <2>4. allocated \in Nat /\ MaxHandles \in Nat
    OBVIOUS
  <2>5. allocated' + Cardinality(Claims') <= MaxHandles
    BY <1>1, <2>1, <2>2, <2>3, <2>4, SMTT(30) DEF RoomInv
  <2> QED
    BY <2>5 DEF RoomInv
<1>2. ASSUME allocated' = allocated, pc' = pc
      PROVE  RoomInv'
  BY <1>2 DEF RoomInv, Claims
<1>3. ASSUME NEW p \in Proc, InitCall(p)
      PROVE  RoomInv'
  BY <1>3, <1>1 DEF InitCall
<1>4. ASSUME NEW p \in Proc, GetCheck(p)
      PROVE  RoomInv'
  BY <1>4, <1>1 DEF GetCheck
<1>5. ASSUME NEW p \in Proc, InitLock(p)
      PROVE  RoomInv'
  BY <1>5, <1>1 DEF InitLock
<1>6. ASSUME NEW p \in Proc, InitNew(p) \/ InitBadDict(p) \/ Fork(p)
      PROVE  RoomInv'
  <2>1. CASE InitNew(p)
    BY <2>1, <1>1 DEF InitNew, NewHandle
  <2>2. CASE InitBadDict(p)
    BY <2>2, <1>1 DEF InitBadDict, NewHandle
  <2>3. CASE Fork(p)
    BY <2>3, <1>1 DEF Fork, NewHandle
  <2> QED
    BY <1>6, <2>1, <2>2, <2>3
<1>7. ASSUME NEW p \in Proc, InitMake(p) \/ CloseClear(p) \/ CloseSend(p) \/ CloseWait(p)
      PROVE  RoomInv'
  BY <1>7, <1>1 DEF InitMake, CloseClear, CloseSend, CloseWait
<1>8. ASSUME NEW p \in Proc, QuitCheck(p) \/ QuitClear(p) \/ QuitSend(p) \/ WorkerQuit(p) \/ CloseCheck(p)
      PROVE  RoomInv'
  BY <1>8, <1>1, <1>2 DEF QuitCheck, QuitClear, QuitSend, WorkerQuit, CloseCheck
<1>11. ASSUME NEW p \in Proc, QuitWait(p) \/ QuitSignal(p)
       PROVE  RoomInv'
  BY <1>11, <1>1 DEF QuitWait, QuitSignal
<1>9. ASSUME NEW p \in Proc, GetTokens(p) \/ Forget(p)
      PROVE  RoomInv'
  BY <1>9, <1>2 DEF GetTokens, Forget
<1>10. CASE WorkerTake \/ WorkerFree \/ WorkerNil \/ UNCHANGED vars
  BY <1>10, <1>2 DEF WorkerTake, WorkerFree, WorkerNil, vars
<1> QED
  BY <1>3, <1>4, <1>5, <1>6, <1>7, <1>8, <1>9, <1>10, <1>11 DEF Next, Enter, Step, Worker, Quiet

LEMMA HoldStep ==
  ASSUME TypeOK, HoldInv, [Next]_vars
  PROVE  HoldInv'
<1> USE DEF TypeOK, HoldInv, Goto, Return, libVars, poolVars, procVars
<1>1. ASSUME NEW p \in Proc, InitCall(p) \/ GetCheck(p) \/ InitLock(p)
      PROVE  HoldInv'
  BY <1>1 DEF InitCall, GetCheck, InitLock
<1>2. ASSUME NEW p \in Proc, InitNew(p) \/ InitBadDict(p) \/ InitMake(p)
      PROVE  HoldInv'
  BY <1>2 DEF InitNew, InitBadDict, InitMake
<1>3. ASSUME NEW p \in Proc, Fork(p) \/ GetTokens(p) \/ Forget(p)
      PROVE  HoldInv'
  BY <1>3 DEF Fork, GetTokens, Forget
<1>4. ASSUME NEW p \in Proc, CloseCheck(p)
      PROVE  HoldInv'
  BY <1>4 DEF CloseCheck
<1>5. ASSUME NEW p \in Proc, CloseClear(p) \/ CloseSend(p) \/ CloseWait(p)
      PROVE  HoldInv'
  BY <1>5 DEF CloseClear, CloseSend, CloseWait
<1>6. ASSUME NEW p \in Proc, QuitCheck(p) \/ QuitClear(p) \/ WorkerQuit(p)
      PROVE  HoldInv'
  BY <1>6 DEF QuitCheck, QuitClear, WorkerQuit
<1>7. ASSUME NEW p \in Proc, QuitSend(p) \/ QuitWait(p) \/ QuitSignal(p)
      PROVE  HoldInv'
  BY <1>7 DEF QuitSend, QuitWait, QuitSignal
<1>8. CASE WorkerTake \/ WorkerFree \/ WorkerNil \/ UNCHANGED vars
  BY <1>8 DEF WorkerTake, WorkerFree, WorkerNil, vars
<1> QED
  BY <1>1, <1>2, <1>3, <1>4, <1>5, <1>6, <1>7, <1>8 DEF Next, Enter, Step, Worker, Quiet

\* The life of a handle: every action keeps what LifeInv says of it.
LEMMA LifeStep ==
  ASSUME TypeOK, RoomInv, HoldInv, LifeInv, [Next]_vars
  PROVE  LifeInv'
<1> USE DEF TypeOK, Goto, Return, libVars, poolVars, procVars
<1> DEFINE Life == KnownInv /\ OwnerInv /\ OnceInv /\ CloseInv /\ QuitInv /\ InitScwsInv /\ OpenInv
<1>q. closeCh' = closeCh => Queue' = Queue /\ (Distinct' <=> Distinct)
  BY DEF Queue, Distinct
<1>h. Queue \subseteq Handle
  BY DEF Queue
\* A step of a goroutine outside CloseScws that leaves the global tokenizer alone.
<1>f. ASSUME NEW p \in Proc, QuitInv, UNCHANGED <<gscws, worker, gen, closed>>,
             pc[p] \notin {"qclear", "qsend", "qwait", "qsignal", "quit", "qpanic"},
             pc'[p] \notin {"qclear", "qsend", "qwait", "qsignal", "quit", "qpanic"},
             \A q \in Proc : q # p => pc'[q] = pc[q] /\ at'[q] = at[q],
             at'[p].ch <= gen,
             gscws # 0 => (inUse'[gscws] <=> inUse[gscws]) /\ (Spent(gscws)' <=> Spent(gscws))
      PROVE  QuitInv'
  <2>1. ASSUME NEW q \in Proc, q # p
        PROVE  Quitting(q)' <=> Quitting(q)
    BY <1>f, <2>1 DEF Quitting
  <2>2. ~Quitting(p) /\ ~Quitting(p)'
    BY <1>f DEF Quitting
  <2>3. ASSUME NEW q \in Proc, Quitting(q)'
        PROVE  gscws' # 0 /\ worker' # "quit" /\ (inUse'[gscws'] <=> pc'[q] = "qclear")
    <3>1. Quitting(q) /\ q # p
      BY <2>1, <2>2, <2>3
    <3>2. gscws # 0 /\ worker # "quit" /\ (inUse[gscws] <=> pc[q] = "qclear")
      BY <1>f, <3>1 DEF QuitInv
    <3> QED
      BY <1>f, <3>1, <3>2
  <2>4. ASSUME NEW q \in Proc, pc'[q] \in {"qsend", "qwait"}
        PROVE  ~Spent(gscws)' /\ (pc'[q] = "qwait" => at'[q].h = gscws')
    <3>1. q # p /\ pc[q] = pc'[q] /\ at[q] = at'[q]
      BY <1>f, <2>4
    <3>2. gscws # 0 /\ ~Spent(gscws) /\ (pc[q] = "qwait" => at[q].h = gscws)
      BY <1>f, <2>4, <3>1 DEF QuitInv, Quitting
    <3> QED
      BY <1>f, <3>1, <3>2
  <2>5. \A q \in Proc : /\ pc'[q] # "qpanic" /\ at'[q].ch <= gen'
                        /\ pc'[q] \in {"qclear", "qsend", "qwait", "qsignal", "quit"} => q \in Closer /\ closed'
    BY <1>f DEF QuitInv
  <2>6. worker' = "quit" => closed' /\ gscws' # 0 /\ ~inUse'[gscws']
    BY <1>f DEF QuitInv
  <2> QED
    BY <2>3, <2>4, <2>5, <2>6 DEF QuitInv
\* A step of nobody in CloseScws.
<1>g. ASSUME QuitInv, UNCHANGED <<gscws, gen, closed, pc, at, inUse>>, worker' # "quit" \/ worker' = worker,
             gscws # 0 => (Spent(gscws)' <=> Spent(gscws))
      PROVE  QuitInv'
  <2>1. \A q \in Proc : Quitting(q)' <=> Quitting(q)
    BY <1>g DEF Quitting
  <2>2. \A q \in Proc : Quitting(q) => gscws # 0 /\ worker # "quit" /\ (inUse[gscws] <=> pc[q] = "qclear")
    BY <1>g DEF QuitInv
  <2>3. ASSUME NEW q \in Proc, pc[q] \in {"qsend", "qwait"}
        PROVE  ~Spent(gscws)' /\ (pc[q] = "qwait" => at[q].h = gscws)
    <3>1. gscws # 0 /\ ~Spent(gscws) /\ (pc[q] = "qwait" => at[q].h = gscws)
      BY <1>g, <2>3 DEF QuitInv, Quitting
    <3> QED
      BY <1>g, <3>1
  <2>4. worker' = "quit" => closed /\ gscws # 0 /\ ~inUse[gscws]
    BY <1>g DEF QuitInv
  <2>5. \A q \in Proc : Quitting(q)' => worker' # "quit"
    BY <1>g, <2>1, <2>2
  <2> QED
    BY <1>g, <2>1, <2>2, <2>3, <2>4, <2>5 DEF QuitInv
\* What is true of the next handle.
<1>n. ASSUME NEW p \in Proc, pc[p] \in {"new", "fork"}, Life
      PROVE  /\ allocated + 1 \in Handle
             /\ allocated + 1 # gscws /\ allocated + 1 # freeing /\ allocated + 1 \notin Queue
             /\ freed[allocated + 1] = 0
             /\ \A q \in Proc : held[q] # allocated + 1
             /\ 0 # allocated + 1
             /\ gscws <= allocated + 1 /\ freeing <= allocated + 1
             /\ \A q \in Proc : held[q] <= allocated + 1
             /\ \A h \in Queue : h <= allocated + 1
             /\ \A h \in Handle : h > allocated + 1 => freed[h] = 0
  <2>1. allocated + 1 \in Handle
    BY <1>n, HandleLeft
  <2>2. allocated \in Nat /\ MaxHandles \in Nat
    BY BoundAssumption
  <2>3. \A h \in 0 .. MaxHandles : h <= allocated => h <= allocated + 1 /\ h # allocated + 1
    BY <2>2
  <2>4. Queue \subseteq 0 .. MaxHandles
    BY <1>h DEF Handle
  <2>5. \A h \in Handle : h > allocated + 1 => h > allocated
    BY <2>2 DEF Handle
  <2>6. 0 # allocated + 1 /\ allocated + 1 > allocated
    BY <2>2
  <2> QED
    BY <1>n, <2>1, <2>3, <2>4, <2>5, <2>6 DEF KnownInv
<1>1. ASSUME NEW p \in Proc, InitCall(p) \/ GetCheck(p) \/ GetTokens(p) \/ CloseCheck(p), Life
      PROVE  Life'
  <2>1. KnownInv' /\ OwnerInv' /\ OnceInv'
    BY <1>1, <1>q DEF InitCall, GetCheck, GetTokens, CloseCheck, KnownInv, OwnerInv, OnceInv, Spent
  <2>2. CloseInv'
    BY <1>1, <1>q DEF InitCall, GetCheck, GetTokens, CloseCheck, CloseInv, Spent
  <2>3. QuitInv'
    <3>1. CASE GetTokens(p)
      BY <1>1, <1>q, <1>g, <3>1 DEF GetTokens, Spent
    <3>2. CASE InitCall(p)
      BY <1>1, <1>q, <1>f, <3>2 DEF InitCall, QuitInv, Spent
    <3>3. CASE GetCheck(p)
      <4>1. /\ UNCHANGED <<gscws, worker, gen, closed, at, inUse, freed, freeing, closeCh>>
            /\ pc[p] = "idle" /\ pc'[p] \in {"idle", "fork", "clear"}
            /\ \A q \in Proc : q # p => pc'[q] = pc[q]
        BY <1>1, <3>3 DEF GetCheck, Goto, Return, Life, CloseInv, poolVars, libVars
      <4>2. QuitInv /\ at[p].ch <= gen
        BY <1>1 DEF Life, QuitInv
      <4>3. Spent(gscws)' <=> Spent(gscws)
        BY <1>q, <4>1 DEF Spent
      <4> QED
        BY <1>f, <4>1, <4>2, <4>3
    <3>4. CASE CloseCheck(p)
      <4>1. /\ UNCHANGED <<gscws, worker, gen, closed, at, inUse, freed, freeing, closeCh>>
            /\ pc[p] = "idle" /\ pc'[p] \in {"idle", "fork", "clear"}
            /\ \A q \in Proc : q # p => pc'[q] = pc[q]
        BY <1>1, <3>4 DEF CloseCheck, Goto, Return, Life, CloseInv, poolVars, libVars
      <4>2. QuitInv /\ at[p].ch <= gen
        BY <1>1 DEF Life, QuitInv
      <4>3. Spent(gscws)' <=> Spent(gscws)
        BY <1>q, <4>1 DEF Spent
      <4> QED
        BY <1>f, <4>1, <4>2, <4>3
    <3> QED
      BY <1>1, <3>1, <3>2, <3>3, <3>4
  <2>4. InitScwsInv'
    BY <1>1 DEF InitCall, GetCheck, GetTokens, CloseCheck, InitScwsInv
  <2>5. OpenInv'
    <3>1. misused' \subseteq misused \cup {"closed"}
      <4>1. CASE GetTokens(p)
        <5>1. held[p] \in Handle
          BY <4>1 DEF GetTokens, Handle
        <5>2. inUse[held[p]] => ~(freed[held[p]] > 0)
          BY <1>1, <5>1 DEF OnceInv, Spent
        <5>3. CASE inUse[held[p]]
          BY <4>1, <5>2, <5>3 DEF GetTokens, Touch
        <5>4. CASE ~inUse[held[p]]
          BY <4>1, <5>4 DEF GetTokens, Touch
        <5> QED
          BY <5>3, <5>4
      <4>2. CASE ~GetTokens(p)
        BY <1>1, <4>2 DEF InitCall, GetCheck, CloseCheck
      <4> QED
        BY <4>1, <4>2
    <3> QED
      BY <1>1, <3>1 DEF InitCall, GetCheck, GetTokens, CloseCheck, OpenInv
  <2> QED
    BY <2>1, <2>2, <2>3, <2>4, <2>5
<1>2. ASSUME NEW p \in Proc, Forget(p), Life
      PROVE  Life'
  <2>1. KnownInv' /\ OwnerInv' /\ OnceInv'
    BY <1>2, <1>q DEF Forget, KnownInv, OwnerInv, OnceInv, Spent
  <2>2. CloseInv'
    BY <1>2, <1>q DEF Forget, CloseInv, Spent
  <2>3. QuitInv'
    BY <1>2, <1>q, <1>g DEF Forget, Spent
  <2>4. InitScwsInv' /\ OpenInv'
    BY <1>2 DEF Forget, InitScwsInv, OpenInv
  <2> QED
    BY <2>1, <2>2, <2>3, <2>4
<1>3. ASSUME NEW p \in Closer, QuitCheck(p), Life
      PROVE  Life'
  <2> p \in Proc
    BY ProcAssumption
  <2>1. KnownInv' /\ OwnerInv' /\ OnceInv'
    BY <1>3, <1>q DEF QuitCheck, KnownInv, OwnerInv, OnceInv, Spent
  <2>2. CloseInv'
    BY <1>3, <1>q DEF QuitCheck, CloseInv, Spent
  <2>3. QuitInv'
    <3>1. \A q \in Proc : q # p => (Quitting(q)' <=> Quitting(q)) /\ pc'[q] = pc[q]
      BY <1>3 DEF QuitCheck, Quitting
    <3>2. ~Quitting(p) /\ (Spent(gscws)' <=> Spent(gscws))
      BY <1>3, <1>q DEF QuitCheck, Quitting, Spent
    <3>3. pc'[p] \in {"idle", "qclear"} /\ (Quitting(p)' => pc'[p] = "qclear" /\ gscws # 0 /\ inUse[gscws])
      BY <1>3 DEF QuitCheck, Quitting
    <3> QED
      BY <1>3, <3>1, <3>2, <3>3 DEF QuitCheck, QuitInv
  <2>4. InitScwsInv' /\ OpenInv'
    BY <1>3 DEF QuitCheck, InitScwsInv, OpenInv
  <2> QED
    BY <2>1, <2>2, <2>3, <2>4
<1>4. ASSUME NEW p \in Proc, InitLock(p), Life
      PROVE  Life'
  <2>1. KnownInv' /\ OwnerInv' /\ OnceInv'
    BY <1>4, <1>q DEF InitLock, KnownInv, OwnerInv, OnceInv, Spent
  <2>2. CloseInv'
    BY <1>4, <1>q DEF InitLock, CloseInv, Spent
  <2>3. QuitInv'
    <3>1. /\ UNCHANGED <<gscws, worker, gen, closed, inUse, at>> /\ (Spent(gscws)' <=> Spent(gscws))
          /\ pc[p] = "lock" /\ pc'[p] \in {"idle", "new"} /\ at[p].ch <= gen
          /\ \A q \in Proc : q # p => pc'[q] = pc[q]
      BY <1>4, <1>q DEF InitLock, QuitInv, Spent
    <3> QED
      BY <1>4, <1>f, <3>1
  <2>4. InitScwsInv'
    BY <1>4, ProcAssumption DEF InitLock, InitScwsInv
  <2>5. OpenInv'
    BY <1>4 DEF InitLock, OpenInv
  <2> QED
    BY <2>1, <2>2, <2>3, <2>4, <2>5
<1>5. ASSUME NEW p \in Proc, InitNew(p), Life
      PROVE  Life'
  <2>1. KnownInv'
    BY <1>5, <1>n, <1>q DEF InitNew, NewHandle, KnownInv, Handle
  <2>2. OwnerInv'
    BY <1>5, <1>n DEF InitNew, NewHandle, OwnerInv
  <2>3. OnceInv'
    BY <1>5, <1>n, <1>q DEF InitNew, NewHandle, OnceInv, Spent
  <2>4. CloseInv'
    BY <1>5, <1>n, <1>q DEF InitNew, NewHandle, CloseInv, Spent, HoldInv, Handle
  <2>5. QuitInv'
    <3>1. gscws = 0 /\ worker = "none"
      BY <1>5 DEF InitNew, InitScwsInv
    <3>2. \A q \in Proc : ~Quitting(q) /\ ~Quitting(q)'
      BY <1>5, <3>1 DEF InitNew, QuitInv, Quitting
    <3> QED
      BY <1>5, <3>1, <3>2 DEF InitNew, QuitInv, Quitting
  <2>6. InitScwsInv'
    BY <1>5, <1>n DEF InitNew, NewHandle, InitScwsInv
  <2>7. OpenInv'
    BY <1>5, <1>n DEF InitNew, NewHandle, OpenInv
  <2> QED
    BY <2>1, <2>2, <2>3, <2>4, <2>5, <2>6, <2>7
<1>6. ASSUME NEW p \in Proc, InitBadDict(p), Life
      PROVE  Life'
  <2> DEFINE n == allocated + 1
  <2>0. \/ Queue' = Queue /\ Distinct'
        \/ Queue' = Queue \cup {n} /\ Distinct'
    BY <1>6, <1>n, <1>q, QueueAppend DEF InitBadDict, OnceInv
  <2>1. KnownInv'
    BY <1>6, <1>n, <2>0 DEF InitBadDict, NewHandle, KnownInv, Handle
  <2>2. OwnerInv'
    BY <1>6, <1>n DEF InitBadDict, NewHandle, OwnerInv
  <2>3. OnceInv'
    BY <1>6, <1>n, <2>0 DEF InitBadDict, NewHandle, OnceInv, Spent
  <2>4. CloseInv'
    BY <1>6, <1>n, <2>0, SMTT(30) DEF InitBadDict, NewHandle, CloseInv, Spent, HoldInv, Handle
  <2>5. QuitInv'
    <3>1. gscws = 0 /\ UNCHANGED <<gscws, worker, gen, closed>>
      BY <1>6 DEF InitBadDict, InitScwsInv
    <3>2. /\ pc[p] = "new" /\ pc'[p] \in {"idle", "istuck"} /\ at' = at
          /\ \A q \in Proc : q # p => pc'[q] = pc[q]
      BY <1>6 DEF InitBadDict
    <3> QED
      BY <1>6, <1>f, <3>1, <3>2 DEF QuitInv
  <2>6. InitScwsInv'
    BY <1>6, <1>n DEF InitBadDict, NewHandle, InitScwsInv
  <2>7. OpenInv'
    BY <1>6, <1>n DEF InitBadDict, NewHandle, OpenInv
  <2> QED
    BY <2>1, <2>2, <2>3, <2>4, <2>5, <2>6, <2>7
<1>7. ASSUME NEW p \in Proc, InitMake(p), Life
      PROVE  Life'
  <2>0. Queue' = {} /\ Distinct'
    BY <1>7 DEF InitMake, Queue, Distinct
  <2>1. KnownInv'
    BY <1>7, <2>0 DEF InitMake, KnownInv
  <2>2. OwnerInv'
    BY <1>7 DEF InitMake, OwnerInv
  <2>3. OnceInv'
    BY <1>7, <2>0 DEF InitMake, OnceInv, Spent, InitScwsInv
  <2>4. CloseInv'
    BY <1>7, <2>0 DEF InitMake, CloseInv, Spent
  <2>5. QuitInv'
    <3>1. \A q \in Proc : Quitting(q)' => Quitting(q) /\ pc'[q] = pc[q] /\ pc[q] # "quit"
      BY <1>7 DEF InitMake, QuitInv, Quitting
    <3>2. gscws # 0 /\ worker' = "select" /\ (Spent(gscws)' => Spent(gscws))
      BY <1>7, <2>0 DEF InitMake, InitScwsInv, Spent
    <3>3. \A q \in Proc : pc'[q] # "idle" => pc'[q] = pc[q]
      BY <1>7 DEF InitMake
    <3> QED
      BY <1>7, <3>1, <3>2, <3>3 DEF InitMake, QuitInv
  <2>6. InitScwsInv'
    BY <1>7, ProcAssumption DEF InitMake, InitScwsInv
  <2>7. OpenInv'
    BY <1>7 DEF InitMake, OpenInv
  <2> QED
    BY <2>1, <2>2, <2>3, <2>4, <2>5, <2>6, <2>7
<1>8. ASSUME NEW p \in Proc, Fork(p), Life
      PROVE  Life'
  <2>1. CASE gscws = 0
    <3>1. KnownInv' /\ OwnerInv' /\ OnceInv'
      BY <1>8, <2>1, <1>q DEF Fork, KnownInv, OwnerInv, OnceInv, Spent
    <3>2. CloseInv'
      BY <1>8, <2>1, <1>q DEF Fork, CloseInv, Spent
    <3>4. QuitInv'
      BY <1>8, <2>1, <1>q, <1>f DEF Fork, QuitInv, Spent
    <3>3. InitScwsInv' /\ OpenInv'
      BY <1>8, <2>1 DEF Fork, InitScwsInv, OpenInv
    <3> QED
      BY <3>1, <3>2, <3>3, <3>4
  <2>2. CASE gscws # 0
    <3> DEFINE n == allocated + 1
    <3>1. /\ n \in Handle /\ n # gscws /\ n # freeing /\ n \notin Queue /\ 0 # n
          /\ freed[n] = 0 /\ \A q \in Proc : held[q] # n
      BY <1>8, <1>n DEF Fork
    <3>2. /\ allocated' = n /\ held' = [held EXCEPT ![p] = n]
          /\ inUse' = [inUse EXCEPT ![n] = TRUE] /\ pc' = [pc EXCEPT ![p] = "idle"]
          /\ misused' = IF freed[gscws] > 0 THEN misused \cup {"fork"} ELSE misused
          /\ UNCHANGED <<freed, gscws, mutex, gen, closeCh, worker, freeing, at, ready, closed>>
      BY <1>8, <2>2 DEF Fork, NewHandle, Touch
    <3>3. KnownInv'
      BY <1>8, <1>n, <1>q, <3>2 DEF Fork, KnownInv
    <3> HIDE DEF n
    <3>4. OwnerInv'
      BY <1>8, <3>1, <3>2 DEF OwnerInv
    <3>5. OnceInv'
      BY <1>8, <3>1, <3>2, <1>q DEF OnceInv, Spent
    <3>6. CloseInv'
      BY <1>8, <3>1, <3>2, <1>q DEF CloseInv, Spent, HoldInv, Handle
    <3>7. QuitInv'
      <4>1. Spent(gscws)' <=> Spent(gscws)
        BY <1>8, <3>2, <1>q DEF Spent
      <4>2. pc[p] = "fork" /\ pc'[p] = "idle" /\ at[p].ch <= gen
        BY <1>8, <3>2 DEF Fork, QuitInv
      <4> QED
        <5>1. gscws \in Handle /\ (inUse'[gscws] <=> inUse[gscws])
          BY <2>2, <3>1, <3>2 DEF Handle
        <5>2. \A q \in Proc : q # p => pc'[q] = pc[q] /\ at'[q] = at[q]
          BY <3>2
        <5>3. QuitInv /\ at'[p].ch <= gen
          BY <1>8, <3>2, <4>2
        <5> QED
          BY <3>2, <1>f, <4>1, <4>2, <5>1, <5>2, <5>3
    <3>8. InitScwsInv'
      BY <1>8, <2>2, <3>2 DEF InitScwsInv
    <3>9. OpenInv'
      <4>1. gscws \in Handle
        BY <2>2 DEF Handle
      <4> QED
        BY <1>8, <2>2, <3>1, <3>2, <4>1 DEF OpenInv, OnceInv, Spent
    <3> QED
      BY <3>3, <3>4, <3>5, <3>6, <3>7, <3>8, <3>9
  <2> QED
    BY <2>1, <2>2
<1>9. ASSUME NEW p \in Proc, CloseClear(p), Life
      PROVE  Life'
  <2>1. KnownInv' /\ OwnerInv' /\ OnceInv'
    BY <1>9, <1>q DEF CloseClear, KnownInv, OwnerInv, OnceInv, Spent, HoldInv
  <2>2. CloseInv'
    BY <1>9, <1>q DEF CloseClear, CloseInv, Spent, OwnerInv, OnceInv, HoldInv, Handle
  <2>3. QuitInv'
    <3>1. held[p] # gscws
      BY <1>9 DEF CloseClear, OwnerInv, HoldInv
    <3> QED
      <4>1. /\ UNCHANGED <<gscws, worker, gen, closed, at>> /\ (Spent(gscws)' <=> Spent(gscws))
            /\ pc[p] = "clear" /\ pc'[p] = "send" /\ at[p].ch <= gen
            /\ \A q \in Proc : q # p => pc'[q] = pc[q]
        BY <1>9, <1>q DEF CloseClear, QuitInv, Spent
      <4>2. inUse'[gscws] <=> inUse[gscws]
        BY <1>9, <3>1 DEF CloseClear
      <4> QED
        BY <1>9, <1>f, <4>1, <4>2
  <2>4. InitScwsInv' /\ OpenInv'
    BY <1>9 DEF CloseClear, InitScwsInv, OpenInv, OwnerInv, HoldInv
  <2> QED
    BY <2>1, <2>2, <2>3, <2>4
<1>10. ASSUME NEW p \in Proc, CloseSend(p), Life
      PROVE  Life'
  <2>h. held[p] \in Handle /\ held[p] # gscws /\ held[p] <= allocated
    BY <1>10 DEF CloseSend, HoldInv, Handle, OwnerInv, KnownInv
  <2>0. \/ Queue' = Queue /\ Distinct' /\ pc'[p] \notin {"clear", "send"}
        \/ Queue' = Queue \cup {held[p]} /\ Distinct' /\ pc'[p] = "idle"
    BY <1>10, <1>q, <2>h, QueueAppend DEF CloseSend, OnceInv, CloseInv, Spent
  <2>1. KnownInv'
    BY <1>10, <2>0, <2>h DEF CloseSend, KnownInv
  <2>2. OwnerInv'
    BY <1>10 DEF CloseSend, OwnerInv
  <2>3. OnceInv'
    BY <1>10, <2>0, <2>h DEF CloseSend, OnceInv, CloseInv, Spent
  <2>4. CloseInv'
    BY <1>10, <2>0, <2>h DEF CloseSend, CloseInv, OwnerInv, HoldInv, Spent
  <2>5. QuitInv'
    <3>1. /\ UNCHANGED <<gscws, worker, gen, closed, inUse>> /\ at'[p].ch <= gen
          /\ pc[p] \in {"send", "wait"} /\ pc'[p] \in {"idle", "wait", "stuck"}
          /\ \A q \in Proc : q # p => pc'[q] = pc[q] /\ at'[q] = at[q]
      BY <1>10 DEF CloseSend, QuitInv
    <3>2. Spent(gscws)' <=> Spent(gscws)
      BY <1>10, <2>0, <2>h DEF CloseSend, Spent
    <3> QED
      BY <1>10, <1>f, <3>1, <3>2
  <2>6. InitScwsInv' /\ OpenInv'
    BY <1>10 DEF CloseSend, InitScwsInv, OpenInv
  <2> QED
    BY <2>1, <2>2, <2>3, <2>4, <2>5, <2>6
<1>11. ASSUME NEW p \in Proc, CloseWait(p), Life
      PROVE  Life'
  <2>h. held[p] \in Handle /\ held[p] # gscws /\ held[p] <= allocated
    BY <1>11 DEF CloseWait, HoldInv, Handle, OwnerInv, KnownInv
  <2>0. Queue' = Queue \cup {held[p]} /\ Distinct' /\ pc'[p] = "idle"
    BY <1>11, <2>h, QueueAppend DEF CloseWait, Sent, HoldInv, OnceInv, CloseInv, Spent
  <2>1. KnownInv'
    BY <1>11, <2>0, <2>h DEF CloseWait, KnownInv
  <2>2. OwnerInv'
    BY <1>11 DEF CloseWait, OwnerInv
  <2>3. OnceInv'
    BY <1>11, <2>0, <2>h DEF CloseWait, OnceInv, CloseInv, Spent
  <2>4. CloseInv'
    BY <1>11, <2>0, <2>h DEF CloseWait, CloseInv, OwnerInv, HoldInv, Spent
  <2>5. QuitInv'
    <3>1. /\ UNCHANGED <<gscws, worker, gen, closed, inUse>> /\ at'[p].ch <= gen
          /\ pc[p] \in {"send", "wait"} /\ pc'[p] \in {"idle", "wait", "stuck"}
          /\ \A q \in Proc : q # p => pc'[q] = pc[q] /\ at'[q] = at[q]
      BY <1>11 DEF CloseWait, QuitInv
    <3>2. Spent(gscws)' <=> Spent(gscws)
      BY <1>11, <2>0, <2>h DEF CloseWait, Spent
    <3> QED
      BY <1>11, <1>f, <3>1, <3>2
  <2>6. InitScwsInv' /\ OpenInv'
    BY <1>11 DEF CloseWait, InitScwsInv, OpenInv
  <2> QED
    BY <2>1, <2>2, <2>3, <2>4, <2>5, <2>6
\* With one closer nobody else is in CloseScws.
<1>o. ASSUME NEW p \in Proc, closed => OneCloser, Life, Quitting(p)
      PROVE  \A q \in Proc : q # p => ~Quitting(q) /\ pc[q] \notin {"qclear", "qsend", "qwait", "qsignal", "quit"}
  BY <1>o DEF QuitInv, Quitting, OneCloser
<1>12. ASSUME NEW p \in Proc, QuitClear(p), closed' => OneCloser, Life
      PROVE  Life'
  <2>0. /\ gscws # 0 /\ inUse[gscws] /\ gscws \in Handle /\ worker # "quit"
        /\ inUse' = [inUse EXCEPT ![gscws] = FALSE] /\ pc' = [pc EXCEPT ![p] = "qsend"]
        /\ p \in Closer /\ closed /\ Quitting(p)
    BY <1>12 DEF QuitClear, QuitInv, Quitting, Handle
  <2>1. KnownInv' /\ OwnerInv'
    BY <1>12, <1>q, <2>0 DEF QuitClear, KnownInv, OwnerInv
  <2>2. OnceInv'
    BY <1>12, <1>q, <2>0 DEF QuitClear, OnceInv, Spent
  <2>3. CloseInv'
    <3>1. \A q \in Proc : pc'[q] \in {"clear", "send", "wait"} =>
                            pc'[q] = pc[q] /\ held[q] # gscws /\ held[q] \in Handle
      BY <1>12, <2>0 DEF OwnerInv, HoldInv, Handle
    <3> QED
      BY <1>12, <1>q, <2>0, <3>1 DEF QuitClear, CloseInv, Spent
  <2>4. QuitInv'
    <3>1. ~Spent(gscws) /\ (Spent(gscws)' <=> Spent(gscws))
      BY <1>12, <1>q, <2>0 DEF QuitClear, OnceInv, Spent
    <3>2. \A q \in Proc : q # p => ~Quitting(q)' /\ pc'[q] \notin {"qsend", "qwait"}
      BY <1>12, <1>o, <2>0 DEF QuitClear, Quitting
    <3> QED
      BY <1>12, <2>0, <3>1, <3>2 DEF QuitClear, QuitInv
  <2>5. InitScwsInv'
    BY <1>12, <2>0 DEF QuitClear, InitScwsInv
  <2>6. OpenInv'
    BY <1>12, <2>0 DEF QuitClear, OpenInv
  <2> QED
    BY <2>1, <2>2, <2>3, <2>4, <2>5, <2>6
<1>13. ASSUME NEW p \in Proc, QuitSend(p) \/ QuitWait(p), closed' => OneCloser, Life
      PROVE  Life'
  <2>h. /\ gscws # 0 /\ gscws \in Handle /\ worker # "quit" /\ p \in Closer /\ closed
        /\ ~inUse[gscws] /\ ~Spent(gscws) /\ Quitting(p)
    BY <1>13 DEF QuitSend, QuitWait, QuitInv, Quitting, Handle
  <2>u. UNCHANGED <<libVars, gscws, inUse, mutex, gen, worker, freeing, held, result, ready, closed>>
    BY <1>13 DEF QuitSend, QuitWait
  <2>0. \/ /\ Queue' = Queue /\ Distinct' /\ pc' = [pc EXCEPT ![p] = "stuck"]
           /\ at' = [at EXCEPT ![p] = [ch |-> gen, h |-> gscws]]
        \/ /\ Queue' = Queue /\ Distinct' /\ pc' = [pc EXCEPT ![p] = "qwait"]
           /\ at' = [at EXCEPT ![p] = [ch |-> gen, h |-> gscws]]
        \/ Queue' = Queue \cup {gscws} /\ Distinct' /\ pc' = [pc EXCEPT ![p] = "qsignal"] /\ at' = at
    <3>1. \/ closeCh' = Append(closeCh, gscws) /\ pc' = [pc EXCEPT ![p] = "qsignal"] /\ at' = at
          \/ /\ closeCh' = closeCh /\ pc' = [pc EXCEPT ![p] = "stuck"]
             /\ at' = [at EXCEPT ![p] = [ch |-> gen, h |-> gscws]]
          \/ /\ closeCh' = closeCh /\ pc' = [pc EXCEPT ![p] = "qwait"]
             /\ at' = [at EXCEPT ![p] = [ch |-> gen, h |-> gscws]]
      BY <1>13, <2>h DEF QuitSend, QuitWait, Sent, QuitInv
    <3>2. Distinct /\ gscws \notin Queue
      BY <1>13, <2>h DEF OnceInv, Spent
    <3> QED
      BY <1>q, <2>h, <3>1, <3>2, QueueAppend
  <2>1. KnownInv'
    BY <1>13, <2>0, <2>h, <2>u DEF KnownInv
  <2>2. OwnerInv'
    BY <1>13, <2>u DEF OwnerInv
  <2>3. OnceInv'
    BY <1>13, <2>0, <2>h, <2>u DEF OnceInv, Spent
  <2>4. CloseInv'
    <3>1. \A q \in Proc : pc'[q] \in {"clear", "send", "wait"} => pc'[q] = pc[q] /\ held[q] # gscws
      BY <1>13, <2>0, <2>u DEF OwnerInv, HoldInv
    <3> QED
      BY <1>13, <2>0, <2>u, <3>1 DEF CloseInv, Spent
  <2>5. QuitInv'
    <3>1. \A q \in Proc : q # p => ~Quitting(q)' /\ pc'[q] = pc[q] /\ at'[q] = at[q]
                                  /\ pc[q] \notin {"qclear", "qsend", "qwait", "qsignal", "quit"}
      BY <1>13, <1>o, <2>0, <2>h, <2>u DEF Quitting
    <3>2. pc'[p] = "qwait" => at'[p].h = gscws /\ ~Spent(gscws)'
      BY <2>0, <2>h, <2>u DEF Spent
    <3>3. pc'[p] \in {"stuck", "qwait", "qsignal"} /\ at'[p].ch <= gen
      BY <1>13, <2>0 DEF QuitInv
    <3> QED
      BY <1>13, <2>h, <2>u, <3>1, <3>2, <3>3 DEF QuitInv
  <2>6. InitScwsInv'
    <3>1. \A q \in Proc : pc'[q] \in {"new", "make"} => pc'[q] = pc[q]
      BY <2>0
    <3> QED
      BY <1>13, <2>u, <3>1 DEF InitScwsInv
  <2>7. OpenInv'
    BY <1>13, <2>h, <2>u DEF OpenInv
  <2> QED
    BY <2>1, <2>2, <2>3, <2>4, <2>5, <2>6, <2>7
<1>21. ASSUME NEW p \in Proc, QuitSignal(p), closed' => OneCloser, Life
      PROVE  Life'
  <2>h. /\ gscws # 0 /\ worker # "quit" /\ p \in Closer /\ closed
        /\ ~inUse[gscws] /\ Quitting(p)
    BY <1>21 DEF QuitSignal, QuitInv, Quitting
  <2>1. KnownInv' /\ OwnerInv'
    BY <1>21, <1>q DEF QuitSignal, KnownInv, OwnerInv
  <2>2. OnceInv'
    BY <1>21, <1>q DEF QuitSignal, OnceInv, Spent
  <2>3. CloseInv'
    BY <1>21, <1>q DEF QuitSignal, CloseInv, Spent
  <2>4. QuitInv'
    <3>1. \A q \in Proc : q # p => ~Quitting(q)' /\ pc'[q] = pc[q] /\ at'[q] = at[q]
                                  /\ pc[q] \notin {"qclear", "qsend", "qwait", "qsignal", "quit"}
      BY <1>21, <1>o, <2>h DEF QuitSignal, Quitting
    <3>2. pc'[p] = "quit" /\ at'[p].ch = gen
      BY <1>21 DEF QuitSignal
    <3> QED
      BY <1>21, <2>h, <3>1, <3>2 DEF QuitSignal, QuitInv
  <2>5. InitScwsInv' /\ OpenInv'
    BY <1>21, <2>h DEF QuitSignal, InitScwsInv, OpenInv
  <2> QED
    BY <2>1, <2>2, <2>3, <2>4, <2>5
<1>14. ASSUME WorkerTake, Life
      PROVE  Life'
  <2>0. /\ Head(closeCh) \in Queue /\ Head(closeCh) \in Handle
        /\ Queue' = Queue \ {Head(closeCh)} /\ Distinct'
    BY <1>14, <1>h, QueueTail DEF WorkerTake, OnceInv
  <2>1. KnownInv'
    BY <1>14, <2>0 DEF WorkerTake, KnownInv
  <2>2. OwnerInv'
    BY <1>14 DEF WorkerTake, OwnerInv
  <2>3. OnceInv'
    BY <1>14, <2>0 DEF WorkerTake, OnceInv, Spent, Handle
  <2>4. CloseInv'
    BY <1>14, <2>0 DEF WorkerTake, CloseInv, Spent
  <2>5. QuitInv'
    <3>1. gscws # 0 => (Spent(gscws)' <=> Spent(gscws))
      BY <1>14, <2>0 DEF WorkerTake, Spent, OnceInv
    <3> QED
      BY <1>14, <1>g, <3>1 DEF WorkerTake
  <2>6. InitScwsInv' /\ OpenInv'
    BY <1>14 DEF WorkerTake, InitScwsInv, OpenInv
  <2> QED
    BY <2>1, <2>2, <2>3, <2>4, <2>5, <2>6
<1>15. ASSUME WorkerFree, Life
      PROVE  Life'
  <2>0. /\ freeing \in Handle /\ freed[freeing] = 0 /\ freeing \notin Queue /\ freeing <= allocated
        /\ freed' = [h \in Handle |-> IF h = freeing THEN 1 ELSE freed[h]]
    <3>1. freeing \in Handle /\ freed[freeing] = 0 /\ freeing \notin Queue /\ freeing <= allocated
      BY <1>15 DEF WorkerFree, OnceInv, KnownInv, Handle
    <3>2. freed' = [h \in Handle |-> IF h = freeing THEN freed[h] + 1 ELSE freed[h]]
      BY <1>15 DEF WorkerFree
    <3>3. \A h \in Handle : freed'[h] = IF h = freeing THEN 1 ELSE freed[h]
      BY <3>1, <3>2
    <3> QED
      BY <3>1, <3>2, <3>3
  <2>1. KnownInv'
    BY <1>15, <1>q, <2>0 DEF WorkerFree, KnownInv
  <2>2. OwnerInv'
    BY <1>15 DEF WorkerFree, OwnerInv
  <2>3. OnceInv'
    BY <1>15, <1>q, <2>0 DEF WorkerFree, OnceInv, Spent, Handle
  <2>4. CloseInv'
    BY <1>15, <1>q, <2>0 DEF WorkerFree, CloseInv, Spent, HoldInv, Handle
  <2>5. QuitInv'
    <3>1. gscws # 0 => (Spent(gscws)' <=> Spent(gscws))
      BY <1>15, <1>q, <2>0 DEF WorkerFree, Spent, Handle
    <3> QED
      BY <1>15, <1>g, <3>1 DEF WorkerFree
  <2>6. InitScwsInv' /\ OpenInv'
    BY <1>15 DEF WorkerFree, InitScwsInv, OpenInv
  <2> QED
    BY <2>1, <2>2, <2>3, <2>4, <2>5, <2>6
<1>16. ASSUME NEW p \in Proc, WorkerQuit(p), closed' => OneCloser, Life
      PROVE  Life'
  <2>1. KnownInv' /\ OwnerInv'
    BY <1>16, <1>q DEF WorkerQuit, KnownInv, OwnerInv
  <2>2. OnceInv'
    BY <1>16, <1>q DEF WorkerQuit, OnceInv, Spent
  <2>3. CloseInv'
    BY <1>16, <1>q DEF WorkerQuit, CloseInv, Spent
  <2>4. QuitInv'
    <3>0. Quitting(p) /\ gscws # 0 /\ ~inUse[gscws] /\ closed
      BY <1>16 DEF WorkerQuit, QuitInv, Quitting
    <3>1. \A q \in Proc : q # p => ~Quitting(q)' /\ pc'[q] = pc[q]
                                  /\ pc[q] \notin {"qclear", "qsend", "qwait", "qsignal", "quit"}
      BY <1>16, <1>o, <3>0 DEF WorkerQuit, Quitting
    <3>2. pc'[p] = "idle"
      BY <1>16 DEF WorkerQuit
    <3>3. ~Quitting(p)'
      BY <3>2 DEF Quitting
    <3> QED
      BY <1>16, <3>0, <3>1, <3>2, <3>3 DEF WorkerQuit, QuitInv
  <2>5. InitScwsInv' /\ OpenInv'
    BY <1>16 DEF WorkerQuit, InitScwsInv, OpenInv, QuitInv
  <2> QED
    BY <2>1, <2>2, <2>3, <2>4, <2>5
<1>17. ASSUME WorkerNil, Life
      PROVE  Life'
  <2>1. KnownInv' /\ OwnerInv'
    BY <1>17, <1>q DEF WorkerNil, KnownInv, OwnerInv
  <2>2. OnceInv'
    BY <1>17, <1>q DEF WorkerNil, OnceInv, Spent
  <2>3. CloseInv'
    BY <1>17, <1>q DEF WorkerNil, CloseInv, Spent
  <2>4. QuitInv'
    <3>1. \A q \in Proc : ~Quitting(q) /\ ~Quitting(q)'
      BY <1>17 DEF WorkerNil, QuitInv, Quitting
    <3> QED
      BY <1>17, <3>1 DEF WorkerNil, QuitInv, Quitting
  <2>5. InitScwsInv'
    BY <1>17 DEF WorkerNil, InitScwsInv, QuitInv
  <2>6. OpenInv'
    BY <1>17 DEF WorkerNil, OpenInv, QuitInv
  <2> QED
    BY <2>1, <2>2, <2>3, <2>4, <2>5, <2>6
<1>18. ASSUME UNCHANGED vars, Life
      PROVE  Life'
  <2>1. KnownInv' /\ OwnerInv' /\ OnceInv'
    BY <1>18, <1>q DEF vars, KnownInv, OwnerInv, OnceInv, Spent
  <2>2. CloseInv'
    BY <1>18, <1>q DEF vars, CloseInv, Spent
  <2>3. QuitInv'
    BY <1>18, <1>q, <1>g DEF vars, Spent
  <2>4. InitScwsInv' /\ OpenInv'
    BY <1>18 DEF vars, InitScwsInv, OpenInv
  <2> QED
    BY <2>1, <2>2, <2>3, <2>4
<1>19. closed => closed'
  BY DEF Next, Enter, InitCall, GetCheck, GetTokens, CloseCheck, Forget, QuitCheck, InitLock,
         Step, InitNew, InitBadDict, InitMake, Fork, CloseClear, CloseSend, CloseWait,
         QuitClear, QuitSend, QuitWait, QuitSignal, Worker, WorkerTake, WorkerFree, WorkerQuit, WorkerNil, Quiet, vars
<1>20. ASSUME closed' => OneCloser
       PROVE  Life'
  <2>1. Life
    BY <1>19, <1>20 DEF LifeInv
  <2> HIDE DEF Life
  <2> QED
    BY <1>1, <1>2, <1>3, <1>4, <1>5, <1>6, <1>7, <1>8, <1>9, <1>10, <1>11, <1>12, <1>13,
       <1>14, <1>15, <1>16, <1>17, <1>18, <1>20, <1>21, <2>1 DEF Next, Enter, Step, Worker, Quiet
<1> QED
  BY <1>20 DEF LifeInv, OneCloser
-----------------------------------------------------------------------------
(* The theorems                                                            *)

LEMMA NextInv == IInv /\ [Next]_vars => IInv'
  BY TypeStep, RoomStep, HoldStep, LifeStep DEF IInv

LEMMA Invariant == Spec => []IInv
  BY InitInv, NextInv, PTL DEF Spec

\* Every variable of the tokenizer pool keeps its type: closeCh never holds
\* more than its capacity, and the handles the goroutines are on their way to
\* always exist.
THEOREM TypeCorrect == Spec => []TypeOK
<1>1. IInv => TypeOK
  BY DEF IInv
<1> QED
  BY <1>1, Invariant, PTL

\* Close and the background goroutine free no handle twice, whatever the
\* goroutines of the program, as long as no two of them call CloseScws.
THEOREM FreedOnce ==
  ASSUME OneCloser
  PROVE  Spec => []NoDoubleFree
<1>1. IInv => NoDoubleFree
  BY DEF IInv, LifeInv, OnceInv, NoDoubleFree
<1> QED
  BY <1>1, Invariant, PTL

\* A tokenizer that its holder has not closed is never freed behind it, also by
\* CloseScws and a new InitScws, and until CloseScws is called no freed handle is
\* forked.
THEOREM NoneUsedAfterFree ==
  ASSUME OneCloser
  PROVE  Spec => []NoUseAfterFree
<1>1. IInv => NoUseAfterFree
  BY DEF IInv, LifeInv, OpenInv, NoUseAfterFree
<1> QED
  BY <1>1, Invariant, PTL

\* The only goroutine that calls CloseScws never finds the global tokenizer gone
\* between its test and its uses, however often it calls CloseScws and others
\* InitScws.
THEOREM CloseScwsSafe ==
  ASSUME OneCloser
  PROVE  Spec => []CloseScwsNeverPanics
<1>1. IInv => CloseScwsNeverPanics
  BY DEF IInv, LifeInv, QuitInv, CloseScwsNeverPanics
<1> QED
  BY <1>1, Invariant, PTL
=============================================================================
