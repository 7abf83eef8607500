--------------------------- MODULE MessageStream ---------------------------
(***************************************************************************)
(* What the receiving half of the websocket promises: the messages, pings  *)
(* and the close frame of the gateway are handled in the order in which    *)
(* they were said, each of them once and with the bytes it was said with,  *)
(* until the connection is over.                                           *)
(***************************************************************************)
EXTENDS Naturals, Sequences

VARIABLES said,   \* what the gateway has said, oldest first
          heard,  \* what the client has handled
          over    \* the connection is closed or lost

vars == <<said, heard, over>>

Init ==
  /\ said = <<>>
  /\ heard = <<>>
  /\ over = FALSE

Say ==
  /\ Len(said') = Len(said) + 1
  /\ said = SubSeq(said', 1, Len(said))
  /\ UNCHANGED <<heard, over>>

Hear ==
  /\ ~over
  /\ Len(heard) < Len(said)
  /\ heard' = Append(heard, said[Len(heard) + 1])
  /\ over' \in BOOLEAN
  /\ UNCHANGED said

End ==
  /\ ~over
  /\ over' = TRUE
  /\ UNCHANGED <<said, heard>>

Next == Say \/ Hear \/ End

Spec == Init /\ [][Next]_vars

FairSpec == Spec /\ WF_vars(Hear)
=============================================================================
