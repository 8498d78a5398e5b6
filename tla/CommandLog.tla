----------------------------- MODULE CommandLog -----------------------------
(***************************************************************************)
(* What a Connection promises to the code above it: the commands handed to *)
(* Exec form one log, and the server executes that log from its beginning, *)
(* each command once and none skipped.  How far the server got is all that *)
(* a failure can change.                                                   *)
(***************************************************************************)
EXTENDS Naturals, Sequences

CONSTANT Command

VARIABLES
  log,       \* commands accepted by Exec, in the order it accepted them
  executed   \* commands the server has executed, in the order it did

vars == <<log, executed>>

Init ==
  /\ log = <<>>
  /\ executed = <<>>

\* Exec takes a command.
Accept(c) ==
  /\ log' = Append(log, c)
  /\ UNCHANGED executed

\* The server executes the first command it has not executed yet.
Execute ==
  /\ Len(executed) < Len(log)
  /\ executed' = Append(executed, log[Len(executed) + 1])
  /\ UNCHANGED log

Next == Execute \/ \E c \in Command : Accept(c)

Spec == Init /\ [][Next]_vars
=============================================================================
