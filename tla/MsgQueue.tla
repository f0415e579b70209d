------------------------------ MODULE MsgQueue ------------------------------
(***************************************************************************)
(* What one direction of a connection promises to both ends: messages come *)
(* out whole, in the order they went in, none twice and none invented,     *)
(* until the connection ends.                                              *)
(***************************************************************************)
EXTENDS Naturals, Sequences

CONSTANT Message

VARIABLES
  sent,      \* messages handed to the sender, in order
  received,  \* messages the receiver got, in order
  open       \* whether the receiver still listens

vars == <<sent, received, open>>

Init == sent = <<>> /\ received = <<>> /\ open = TRUE

Send(m) ==
  /\ sent' = Append(sent, m)
  /\ UNCHANGED <<received, open>>

Receive ==
  /\ open
  /\ Len(received) < Len(sent)
  /\ received' = Append(received, sent[Len(received) + 1])
  /\ UNCHANGED <<sent, open>>

End ==
  /\ open' = FALSE
  /\ UNCHANGED <<sent, received>>

Next == (\E m \in Message : Send(m)) \/ Receive \/ End

Spec == Init /\ [][Next]_vars

=============================================================================
