---------------------------- MODULE MCLlmpBroker -----------------------------
(* Instances of LlmpBroker for TLC. *)
EXTENDS LlmpBroker

=============================================================================
