---------------------------- MODULE MCForkserver ----------------------------
(* Instances of Forkserver for TLC. *)
EXTENDS Forkserver

\* Every mix of options under a timeout that kills, the other signal, and the
\* plain executor that takes nothing the target offers.
AllExecutors ==
  [shm : BOOLEAN, dict : BOOLEAN, timeout : {TRUE}, sig : {"KILL"}]
  \cup {[shm |-> TRUE, dict |-> FALSE, timeout |-> TRUE, sig |-> "TERM"],
        [shm |-> FALSE, dict |-> FALSE, timeout |-> FALSE, sig |-> "KILL"]}

=============================================================================
