------------------------------ MODULE MCTarget ------------------------------
(***************************************************************************)
(* Instances of Quarantine and CmpLog for TLC.  The two runtimes in the    *)
(* target share no state: a behaviour exercises one of them, and the other *)
(* stays where it started.                                                 *)
(***************************************************************************)
EXTENDS Quarantine, CmpLog, TLC

VARIABLE exercised   \* the runtime the target uses

TargetInit ==
  /\ Init
  /\ LogInit
  /\ exercised \in {"quarantine", "cmplog"}

TargetNext ==
  \/ exercised = "quarantine" /\ Next /\ UNCHANGED <<logvars, exercised>>
  \/ exercised = "cmplog" /\ LogNext /\ UNCHANGED <<vars, exercised>>

TargetSpec == TargetInit /\ [][TargetNext]_<<vars, logvars, exercised>>

Symmetric == Permutations(Chunk) \cup Permutations(Thread)

=============================================================================
