------------------------------ MODULE MCInfoDB ------------------------------
(* Instances of InfoDB for TLC. *)
EXTENDS InfoDB, TLC

CONSTANTS f1, f2, x, y, z

\* A crash whose coverage varies from run to run, an input the filter takes for
\* known, and one that it does not.
Flaky ==
  {[ID |-> 1, Cov |-> {x}, HasCrash |-> FALSE],
   [ID |-> 2, Cov |-> {x, y}, HasCrash |-> TRUE],
   [ID |-> 2, Cov |-> {}, HasCrash |-> FALSE],
   [ID |-> 3, Cov |-> {x, z}, HasCrash |-> FALSE]}

FuzzerSymmetry == Permutations({f1, f2})

=============================================================================
