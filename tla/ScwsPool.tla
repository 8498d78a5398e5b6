------------------------------ MODULE ScwsPool ------------------------------
(***************************************************************************)
(* The life of scws handles (tokenizer/scws.go): the global tokenizer that *)
(* InitScws makes, the tokenizers forked from it for the goroutines of a   *)
(* program, and the background goroutine that frees those that are closed. *)
(* InitScws is serialised by a mutex; CloseScws, GetScwsTokenizer, Close   *)
(* and the background goroutine read and write the same variables without. *)
(* A call of the C library takes one step: fmutex is held during fork and  *)
(* free only.                                                              *)
(***************************************************************************)
EXTENDS Naturals, Sequences, FiniteSets

CONSTANTS
  Proc,        \* goroutines of the program
  Closer,      \* those of them that call CloseScws
  BadDict,     \* TRUE if InitScws may be given a dictionary that cannot be loaded
  ChanCap,     \* capacity of closeCh (4096)
  MaxHandles,  \* bound: handles the C library allocates
  None         \* no goroutine

ASSUME ProcAssumption == IsFiniteSet(Proc) /\ Closer \subseteq Proc /\ None \notin Proc
ASSUME SwitchAssumption == BadDict \in BOOLEAN
ASSUME BoundAssumption == ChanCap \in Nat \ {0} /\ MaxHandles \in Nat

Handle == 1 .. MaxHandles

VARIABLES
  allocated, \* number of handles allocated so far
  freed,     \* how often each handle was freed
  misused,   \* how a freed handle was passed to the C library: a set of uses
  gscws,     \* handle of the global tokenizer, 0 for nil
  inUse,     \* the inUse field of each handle's tokenizer
  mutex,     \* holder of mutex, or None
  gen,       \* which pair of channels closeCh and quitCh are, 0 for nil
  closeCh,   \* content of closeCh
  worker,    \* background goroutine: "none", "select", "free", "quit"
  freeing,   \* the handle it is about to free
  pc,        \* where each goroutine is
  held,      \* the tokenizer a goroutine has got, 0 for none
  at,        \* what it is blocked with: the pair of channels, and the handle it sends
  result,    \* result of its last call
  ready,     \* InitScws has returned, and CloseScws was not called since
  closed     \* history: CloseScws was called

libVars == <<allocated, freed, misused>>
poolVars == <<gscws, inUse, mutex, gen, closeCh, worker, freeing>>
procVars == <<pc, held, at, result, ready, closed>>
vars == <<libVars, poolVars, procVars>>

Init ==
  /\ allocated = 0
  /\ freed = [h \in Handle |-> 0]
  /\ misused = {}
  /\ gscws = 0
  /\ inUse = [h \in Handle |-> FALSE]
  /\ mutex = None
  /\ gen = 0
  /\ closeCh = <<>>
  /\ worker = "none"
  /\ freeing = 0
  /\ pc = [p \in Proc |-> "idle"]
  /\ held = [p \in Proc |-> 0]
  /\ at = [p \in Proc |-> [ch |-> 0, h |-> 0]]
  /\ result = [p \in Proc |-> "none"]
  /\ ready = FALSE
  /\ closed = FALSE

Goto(p, l) == pc' = [pc EXCEPT ![p] = l]
Return(p, r) == Goto(p, "idle") /\ result' = [result EXCEPT ![p] = r]

\* The bound leaves a handle for every goroutine already on its way to one.
Room == allocated + Cardinality({p \in Proc : pc[p] \in {"lock", "new", "fork"}}) < MaxHandles

\* The C library hands out a new handle, wrapped in a tokenizer.
NewHandle(used) ==
  /\ allocated' = allocated + 1
  /\ inUse' = [inUse EXCEPT ![allocated + 1] = used]

\* The C library is given handle h for a use.
Touch(h, use) == misused' = IF freed[h] > 0 THEN misused \cup {use} ELSE misused
-----------------------------------------------------------------------------
(* InitScws                                                                *)

InitCall(p) ==
  /\ pc[p] = "idle"
  /\ held[p] = 0
  /\ Room
  /\ Goto(p, "lock")
  /\ UNCHANGED <<libVars, poolVars, held, at, result, ready, closed>>

\* With the mutex held, InitScws looks for a global tokenizer.
InitLock(p) ==
  /\ pc[p] = "lock"
  /\ mutex = None
  /\ IF gscws # 0
       THEN Return(p, "ok") /\ ready' = TRUE /\ UNCHANGED mutex
       ELSE Goto(p, "new") /\ mutex' = p /\ UNCHANGED <<result, ready>>
  /\ UNCHANGED <<libVars, gscws, inUse, gen, closeCh, worker, freeing, held, at, closed>>

\* The new tokenizer is published before the channels are made.
InitNew(p) ==
  /\ pc[p] = "new"
  /\ NewHandle(TRUE)
  /\ gscws' = allocated + 1
  /\ Goto(p, "make")
  /\ UNCHANGED <<freed, misused, mutex, gen, closeCh, worker, freeing, held, at, result, ready, closed>>

\* The dictionary cannot be loaded: newScwsTokenizer closes its tokenizer, which
\* sends it to closeCh with the mutex held. That channel is nil on the first
\* InitScws; later nobody receives from it any more, as the background goroutine
\* has ended, and it may be full. Both block for ever.
InitBadDict(p) ==
  /\ pc[p] = "new"
  /\ BadDict
  /\ NewHandle(FALSE)
  /\ IF gen > 0 /\ Len(closeCh) < ChanCap
       THEN /\ closeCh' = Append(closeCh, allocated + 1)
            /\ mutex' = None
            /\ Return(p, "error")
       ELSE Goto(p, "istuck") /\ UNCHANGED <<mutex, closeCh, result>>
  /\ UNCHANGED <<freed, misused, gscws, gen, worker, freeing, held, at, ready, closed>>

\* Mutant: the deferred Unlock is missing.
InitMakeLocked(p) ==
  /\ pc[p] = "make"
  /\ gen' = gen + 1
  /\ closeCh' = <<>>
  /\ worker' = "select"
  /\ Return(p, "ok")
  /\ ready' = TRUE
  /\ UNCHANGED <<libVars, gscws, inUse, mutex, freeing, held, at, closed>>

\* InitScws makes the channels and starts the background goroutine.
InitMake(p) ==
  /\ pc[p] = "make"
  /\ gen' = gen + 1
  /\ closeCh' = <<>>
  /\ worker' = "select"
  /\ mutex' = None
  /\ Return(p, "ok")
  /\ ready' = TRUE
  /\ UNCHANGED <<libVars, gscws, inUse, freeing, held, at, closed>>
-----------------------------------------------------------------------------
(* GetScwsTokenizer ("must be called after InitScws") and GetTokens        *)

GetCheck(p) ==
  /\ pc[p] = "idle"
  /\ ready
  /\ held[p] = 0
  /\ Room
  /\ IF gscws = 0
       THEN Return(p, "denied")
       ELSE Goto(p, "fork") /\ UNCHANGED result
  /\ UNCHANGED <<libVars, poolVars, held, at, ready, closed>>

\* Mutant: the global tokenizer itself is handed out.
ForkNothing(p) ==
  /\ pc[p] = "fork"
  /\ gscws # 0
  /\ Touch(gscws, "fork")
  /\ held' = [held EXCEPT ![p] = gscws]
  /\ Return(p, "ok")
  /\ UNCHANGED <<allocated, freed, poolVars, at, ready, closed>>

\* gscws is read again for the fork.
Fork(p) ==
  /\ pc[p] = "fork"
  /\ IF gscws = 0
       THEN Goto(p, "panic") /\ UNCHANGED <<allocated, inUse, misused, held, result>>
       ELSE /\ Touch(gscws, "fork")
            /\ NewHandle(TRUE)
            /\ held' = [held EXCEPT ![p] = allocated + 1]
            /\ Return(p, "ok")
  /\ UNCHANGED <<freed, gscws, mutex, gen, closeCh, worker, freeing, at, ready, closed>>

\* GetTokens, as the setters do, tests whether the handle is nil, and Close
\* leaves it as it is: a tokenizer that was closed is passed on as well.
GetTokens(p) ==
  /\ pc[p] = "idle"
  /\ held[p] # 0
  /\ Touch(held[p], IF inUse[held[p]] THEN "open" ELSE "closed")
  /\ UNCHANGED <<allocated, freed, poolVars, procVars>>
-----------------------------------------------------------------------------
(* Close                                                                   *)

\* Close looks at inUse; a second Close of the same tokenizer does nothing.
CloseCheck(p) ==
  /\ pc[p] = "idle"
  /\ held[p] # 0
  /\ IF inUse[held[p]] THEN Goto(p, "clear") ELSE UNCHANGED pc
  /\ UNCHANGED <<libVars, poolVars, held, at, result, ready, closed>>

\* Mutant: Close does not reset inUse.
CloseNothing(p) ==
  /\ pc[p] = "clear"
  /\ Goto(p, "send")
  /\ UNCHANGED <<libVars, poolVars, held, at, result, ready, closed>>

CloseClear(p) ==
  /\ pc[p] = "clear"
  /\ inUse' = [inUse EXCEPT ![held[p]] = FALSE]
  /\ Goto(p, "send")
  /\ UNCHANGED <<libVars, gscws, mutex, gen, closeCh, worker, freeing, held, at, result, ready, closed>>

\* Close sends the handle; on a full channel it waits, on a nil one for ever.
CloseSend(p) ==
  /\ pc[p] = "send"
  /\ IF gen > 0 /\ Len(closeCh) < ChanCap
       THEN /\ closeCh' = Append(closeCh, held[p])
            /\ Goto(p, "idle")
            /\ UNCHANGED at
       ELSE /\ Goto(p, IF gen = 0 THEN "stuck" ELSE "wait")
            /\ at' = [at EXCEPT ![p] = [ch |-> gen, h |-> held[p]]]
            /\ UNCHANGED closeCh
  /\ UNCHANGED <<libVars, gscws, inUse, mutex, gen, worker, freeing, held, result, ready, closed>>

\* The channel a goroutine is blocked on takes the handle it sends.
Sent(p) ==
  /\ at[p].ch = gen
  /\ Len(closeCh) < ChanCap
  /\ closeCh' = Append(closeCh, at[p].h)

CloseWait(p) ==
  /\ pc[p] = "wait"
  /\ Sent(p)
  /\ Goto(p, "idle")
  /\ UNCHANGED <<libVars, gscws, inUse, mutex, gen, worker, freeing, held, at, result, ready, closed>>

\* The program lets go of a tokenizer it has closed.
Forget(p) ==
  /\ pc[p] = "idle"
  /\ held[p] # 0 /\ ~inUse[held[p]]
  /\ held' = [held EXCEPT ![p] = 0]
  /\ UNCHANGED <<libVars, poolVars, pc, at, result, ready, closed>>
-----------------------------------------------------------------------------
(* CloseScws                                                               *)

QuitCheck(p) ==
  /\ pc[p] = "idle"
  /\ held[p] = 0
  /\ ready' = FALSE
  /\ closed' = TRUE
  /\ IF gscws # 0 /\ inUse[gscws] THEN Goto(p, "qclear") ELSE UNCHANGED pc
  /\ UNCHANGED <<libVars, poolVars, held, at, result>>

\* Mutant: inUse of the global tokenizer is not reset.
QuitClearNot(p) ==
  /\ pc[p] = "qclear"
  /\ Goto(p, IF gscws = 0 THEN "qpanic" ELSE "qsend")
  /\ UNCHANGED <<libVars, poolVars, held, at, result, ready, closed>>

\* gscws is read again, here and for the send.
QuitClear(p) ==
  /\ pc[p] = "qclear"
  /\ IF gscws = 0
       THEN Goto(p, "qpanic") /\ UNCHANGED inUse
       ELSE Goto(p, "qsend") /\ inUse' = [inUse EXCEPT ![gscws] = FALSE]
  /\ UNCHANGED <<libVars, gscws, mutex, gen, closeCh, worker, freeing, held, at, result, ready, closed>>

QuitSend(p) ==
  /\ pc[p] = "qsend"
  /\ IF gscws # 0 /\ gen > 0 /\ Len(closeCh) < ChanCap
       THEN /\ closeCh' = Append(closeCh, gscws)
            /\ Goto(p, "qsignal")
            /\ UNCHANGED at
       ELSE /\ Goto(p, IF gscws = 0 THEN "qpanic" ELSE IF gen = 0 THEN "stuck" ELSE "qwait")
            /\ at' = [at EXCEPT ![p] = [ch |-> gen, h |-> gscws]]
            /\ UNCHANGED closeCh
  /\ UNCHANGED <<libVars, gscws, inUse, mutex, gen, worker, freeing, held, result, ready, closed>>

QuitWait(p) ==
  /\ pc[p] = "qwait"
  /\ Sent(p)
  /\ Goto(p, "qsignal")
  /\ UNCHANGED <<libVars, gscws, inUse, mutex, gen, worker, freeing, held, at, result, ready, closed>>

\* quitCh is read after the send: InitScws may have made a new pair in between.
QuitSignal(p) ==
  /\ pc[p] = "qsignal"
  /\ at' = [at EXCEPT ![p] = [ch |-> gen, h |-> 0]]
  /\ Goto(p, "quit")
  /\ UNCHANGED <<libVars, poolVars, held, result, ready, closed>>
-----------------------------------------------------------------------------
(* The background goroutine: select takes either channel if both are ready *)

WorkerTake ==
  /\ worker = "select"
  /\ closeCh # <<>>
  /\ freeing' = Head(closeCh)
  /\ closeCh' = Tail(closeCh)
  /\ worker' = "free"
  /\ UNCHANGED <<libVars, gscws, inUse, mutex, gen, procVars>>

\* Mutant: the goroutine ends after one handle.
WorkerFreeOnce ==
  /\ worker = "free"
  /\ freed' = [freed EXCEPT ![freeing] = @ + 1]
  /\ worker' = "none"
  /\ UNCHANGED <<allocated, misused, gscws, inUse, mutex, gen, closeCh, freeing, procVars>>

WorkerFree ==
  /\ worker = "free"
  /\ freed' = [freed EXCEPT ![freeing] = @ + 1]
  /\ freeing' = 0
  /\ worker' = "select"
  /\ UNCHANGED <<allocated, misused, gscws, inUse, mutex, gen, closeCh, procVars>>

\* quitCh has no buffer: the goroutine in CloseScws leaves in the same step.
WorkerQuit(p) ==
  /\ worker = "select"
  /\ pc[p] = "quit"
  /\ at[p].ch = gen
  /\ worker' = "quit"
  /\ Goto(p, "idle")
  /\ UNCHANGED <<libVars, gscws, inUse, mutex, gen, closeCh, freeing, held, at, result, ready, closed>>

WorkerNil ==
  /\ worker = "quit"
  /\ gscws' = 0
  /\ worker' = "none"
  /\ UNCHANGED <<libVars, inUse, mutex, gen, closeCh, freeing, procVars>>
-----------------------------------------------------------------------------
\* Steps of a goroutine inside a call.
Step(p) ==
  \/ InitNew(p) \/ InitBadDict(p) \/ InitMake(p)
  \/ Fork(p)
  \/ CloseClear(p) \/ CloseSend(p) \/ CloseWait(p)
  \/ QuitClear(p) \/ QuitSend(p) \/ QuitWait(p) \/ QuitSignal(p)

Enter(p) ==
  \/ InitCall(p) \/ GetCheck(p) \/ GetTokens(p) \/ CloseCheck(p) \/ Forget(p)
  \/ p \in Closer /\ QuitCheck(p)

Worker == WorkerTake \/ WorkerFree \/ WorkerNil \/ \E p \in Proc : WorkerQuit(p)

\* No goroutine is in a call, and the program makes no other.
Quiet ==
  /\ \A p \in Proc : pc[p] = "idle"
  /\ UNCHANGED vars

Next ==
  \/ \E p \in Proc : Enter(p) \/ InitLock(p) \/ Step(p)
  \/ Worker
  \/ Quiet

Spec == Init /\ [][Next]_vars

\* Goroutines run, and neither the mutex nor a channel starves one of them.
FairSpec ==
  /\ Spec
  /\ WF_vars(Worker)
  /\ \A p \in Proc :
       /\ WF_vars(Step(p))
       /\ SF_vars(InitLock(p)) /\ SF_vars(CloseWait(p) \/ QuitWait(p))
-----------------------------------------------------------------------------
(* Properties                                                              *)

Pc == {"idle", "lock", "new", "make", "istuck", "fork", "clear", "send", "wait", "stuck",
       "qclear", "qsend", "qwait", "qsignal", "quit", "panic", "qpanic"}

\* Who holds the mutex.
Locking(p) == pc[p] \in {"new", "make", "istuck"}

\* Every variable has its type, and the mutex is held by the one goroutine that
\* is making the global tokenizer, and by nobody when InitScws has returned.
TypeOK ==
  /\ allocated \in 0 .. MaxHandles
  /\ freed \in [Handle -> Nat]
  /\ misused \subseteq {"fork", "open", "closed"}
  /\ gscws \in 0 .. MaxHandles
  /\ inUse \in [Handle -> BOOLEAN]
  /\ mutex \in Proc \cup {None}
  /\ gen \in Nat
  /\ closeCh \in Seq(Handle) /\ Len(closeCh) <= ChanCap
  /\ worker \in {"none", "select", "free", "quit"}
  /\ freeing \in 0 .. MaxHandles
  /\ pc \in [Proc -> Pc]
  /\ held \in [Proc -> 0 .. MaxHandles]
  /\ at \in [Proc -> [ch : Nat, h : 0 .. MaxHandles]]
  /\ result \in [Proc -> {"none", "ok", "error", "denied"}]
  /\ ready \in BOOLEAN /\ closed \in BOOLEAN
  /\ \A p \in Proc : mutex = p <=> Locking(p)

\* No handle is freed twice, however Close, CloseScws and the background
\* goroutine interleave, if one goroutine of the program calls CloseScws.
NoDoubleFree == \A h \in Handle : freed[h] <= 1

\* The handle of a tokenizer that its holder has not closed is not freed, so that
\* GetTokens can use it, whatever CloseScws and InitScws do meanwhile; and until
\* CloseScws is called no freed handle is forked.
NoUseAfterFree ==
  /\ "open" \notin misused
  /\ closed \/ "fork" \notin misused

\* A tokenizer that was closed is not used any more: GetTokens does nothing, as
\* scws.go:160 has it for a nil handle and scws.go:230 and 244 ("scws is closed")
\* expect the handle of a closed tokenizer to be nil.
NoUseAfterClose == "closed" \notin misused

\* Once InitScws has returned, GetScwsTokenizer works ("must be called after
\* InitScws"), also if CloseScws was called before it.
ReopenUsable == \A p \in Proc : result[p] # "denied"

\* CloseScws reads gscws three times without a lock while the background
\* goroutine may reset it: if one goroutine calls CloseScws, also again and
\* again, none of its reads finds nil behind the test.
CloseScwsNeverPanics == \A p \in Proc : pc[p] # "qpanic"

\* GetScwsTokenizer returns an error and dereferences no nil ("please call
\* tokenizer.InitScws first", scws.go:103).
NoPanic == \A p \in Proc : pc[p] # "panic"

\* InitScws returns, with an error if need be.
Initialising(p) == pc[p] = "lock" \/ mutex = p
InitReturns == \A p \in Proc : Initialising(p) ~> (pc[p] = "idle" /\ mutex # p)

\* It does, unless a dictionary cannot be loaded while closeCh takes nothing: when
\* it is nil, on the very first InitScws, or full behind a CloseScws.
InitReturnsUnlessStuck ==
  \A p \in Proc : Initialising(p) ~>
    \/ pc[p] = "idle" /\ mutex # p
    \/ \E q \in Proc :
         /\ mutex = q /\ pc[q] = "istuck"
         /\ gen = 0 \/ (closed /\ worker = "none" /\ Len(closeCh) = ChanCap)

\* A tokenizer that a goroutine closes is freed ("Close tokenizer to free it's
\* memory"), even if closeCh is full.
ClosedIsFreed ==
  \A p \in Proc, h \in Handle : (pc[p] = "clear" /\ held[p] = h) ~> freed[h] > 0

\* It is, as long as CloseScws is not called.
ClosedIsFreedWhileOpen ==
  \A p \in Proc, h \in Handle :
    (pc[p] = "clear" /\ held[p] = h) ~> (freed[h] > 0 \/ closed)
=============================================================================
