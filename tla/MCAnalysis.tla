----------------------------- MODULE MCAnalysis -----------------------------
(* Instances of Analysis for TLC; fuzzers and indices are interchangeable. *)
EXTENDS Analysis, TLC

Interchangeable == Permutations(Fuzzer) \cup Permutations(Index)

=============================================================================
