------------------------------ MODULE LogQueue ------------------------------
(***************************************************************************)
(* What the logger promises to the services that log                       *)
(* (src/src/services/logger/logger_service.h): a queue without bound whose *)
(* messages come out one by one, in the order they went in, and which is   *)
(* empty when the logger is gone.                                          *)
(***************************************************************************)
EXTENDS Naturals, Sequences

VARIABLES
  accepted,  \* messages accepted so far; the n-th is message n
  printed,   \* the messages that came out
  closed     \* is the logger gone?

vars == <<accepted, printed, closed>>

Init == accepted = 0 /\ printed = <<>> /\ closed = FALSE

Accept ==
  /\ ~closed
  /\ accepted' = accepted + 1
  /\ UNCHANGED <<printed, closed>>

Emit ==
  /\ Len(printed) < accepted
  /\ printed' = Append(printed, Len(printed) + 1)
  /\ UNCHANGED <<accepted, closed>>

Close ==
  /\ ~closed /\ Len(printed) = accepted
  /\ closed' = TRUE
  /\ UNCHANGED <<accepted, printed>>

Next == Accept \/ Emit \/ Close

Spec == Init /\ [][Next]_vars

\* A message that was accepted comes out.
FairSpec == Spec /\ WF_vars(Emit)
=============================================================================
