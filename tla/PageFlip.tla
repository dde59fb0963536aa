------------------------------- MODULE PageFlip -------------------------------
(***************************************************************************)
(* What a CRTC promises the compositor: every commit is answered by one    *)
(* completion event, in the order of the commits, at most MaxPending of    *)
(* them are outstanding, and each is answered in the end.                  *)
(***************************************************************************)
EXTENDS Naturals

CONSTANT MaxPending

VARIABLES
  committed,  \* commits made so far
  answered    \* commits whose event was delivered

Init == committed = 0 /\ answered = 0

Commit ==
  /\ committed - answered < MaxPending
  /\ committed' = committed + 1
  /\ UNCHANGED answered

Answer ==
  /\ answered < committed
  /\ answered' = answered + 1
  /\ UNCHANGED committed

(* A commit to a CRTC that is off and stays off is answered as it is made. *)
CommitAnswered ==
  /\ answered = committed
  /\ committed' = committed + 1
  /\ answered' = answered + 1

Next == Commit \/ Answer \/ CommitAnswered

Safety == Init /\ [][Next]_<<committed, answered>>

Spec == Safety /\ WF_<<committed, answered>>(Answer)
==============================================================================
