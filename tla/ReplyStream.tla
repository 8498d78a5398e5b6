----------------------------- MODULE ReplyStream -----------------------------
(***************************************************************************)
(* What the code above getResponse may rely on, and what module Connection *)
(* assumes of its inbox: as long as no call has failed, the responses      *)
(* handed out are those the server sent, in order, none skipped and none   *)
(* changed.  After a failed call nothing is promised any more.             *)
(***************************************************************************)
EXTENDS Naturals, Sequences

VARIABLES
  sent,   \* responses the server has sent
  taken,  \* responses handed to callers
  intact  \* no call has failed

vars == <<sent, taken, intact>>

Init ==
  /\ sent = <<>>
  /\ taken = <<>>
  /\ intact = TRUE

\* t is s and one more response.
OneMore(s, t) == Len(t) = Len(s) + 1 /\ SubSeq(t, 1, Len(s)) = s

Send ==
  /\ OneMore(sent, sent')
  /\ UNCHANGED <<taken, intact>>

Take ==
  /\ intact
  /\ Len(taken) < Len(sent)
  /\ taken' = Append(taken, sent[Len(taken) + 1])
  /\ UNCHANGED <<sent, intact>>

Fail ==
  /\ intact' = FALSE
  /\ UNCHANGED <<sent, taken>>

\* A call after a failed one hands out anything.
TakeAnything ==
  /\ ~intact
  /\ OneMore(taken, taken')
  /\ UNCHANGED <<sent, intact>>

Next == Send \/ Take \/ Fail \/ TakeAnything

Spec == Init /\ [][Next]_vars
=============================================================================
