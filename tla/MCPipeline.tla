----------------------------- MODULE MCPipeline -----------------------------
(* Instances of Pipeline for TLC. *)
EXTENDS Pipeline, TLC

CONSTANTS f1, e1, e2, c1, c2

\* An automatic node (fuzzer and evaler on one connection) and an evaler apart.
NodeAndEvaler == [x \in Fuzzer \cup Evaler |-> IF x = e2 THEN c2 ELSE c1]

=============================================================================
