------------------------------ MODULE MCMaster ------------------------------
(* Instances of Master for TLC. *)
EXTENDS Master, TLC

CONSTANTS n1, c1, c2, c3

\* Three connections from one host: their set-ups share one element array.
OneHost == [c \in {c1, c2, c3} |-> n1]

\* Connections from the same host are interchangeable.
ConnSymmetry == Permutations({c1, c2, c3})

=============================================================================
