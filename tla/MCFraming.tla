----------------------------- MODULE MCFraming ------------------------------
(* Instances of Framing for TLC: two-valued bytes and a length of two digits,
   so that messages have zero to three bytes.  One message looks like a length. *)
EXTENDS Framing

Messages == {<<>>, <<1>>, <<0, 1>>, <<1, 1, 0>>}

=============================================================================
