------------------------------- MODULE CmpLog -------------------------------
(***************************************************************************)
(* One column of the comparison log (libafl_targets/src/cmplog.h, cmplog.c *)
(* and cmplog.rs): instrumented instructions and routines of the target    *)
(* write their operands to it, the observer resets its header before a run *)
(* and reads it afterwards.  Instructions and routines share the memory of *)
(* the column: a routine's two arguments take the place of two             *)
(* instructions (four in the code).  A routine of which fewer bytes can be *)
(* read than a slot holds writes only the head of its slots.               *)
(***************************************************************************)
EXTENDS Integers

CONSTANTS
  H,          \* CMPLOG_MAP_H, a power of two
  HitsMod,    \* the values of the counter hits, 2^16 in the code
  MaxRuns,    \* bound: runs of the target
  MaxLogs     \* bound: logged comparisons of a run

ASSUME CmpLogAssumption ==
  /\ {H, HitsMod} \subseteq Nat \ {0}
  /\ {MaxRuns, MaxLogs} \subseteq Nat
  /\ H % 2 = 0
  /\ HitsMod % H = 0

RtnH == H \div 2

Ins == 0   \* CMPLOG_KIND_INS, also what a reset leaves
Rtn == 1

VARIABLES
  hits, shape, kind,  \* the header
  slot,      \* the memory: the run, the comparison of that run and the kind that
             \* wrote a slot's head, whether it wrote the whole slot, and the run
             \* and the comparison that wrote the tail
  enabled,   \* libafl_cmplog_enabled
  run,       \* runs so far
  total      \* comparisons of this run

logvars == <<hits, shape, kind, slot, enabled, run, total>>

LogInit ==
  /\ hits = 0
  /\ shape = 0
  /\ kind = Ins
  /\ slot = [i \in 0..(H - 1) |->
               [run |-> 0, n |-> 0, kind |-> Ins, whole |-> TRUE, tail |-> <<0, 0>>]]
  /\ enabled = FALSE
  /\ run = 0
  /\ total = 0

\* The header after a comparison of kind k and size s.
NewHeader(k, s) ==
  /\ kind' = k
  /\ IF kind # k THEN hits' = 1 /\ shape' = s
     ELSE /\ hits' = (hits + 1) % HitsMod
          /\ shape' = IF shape < s THEN s ELSE shape

Row_Unmasked(k, height) == IF kind # k THEN 0 ELSE hits

\* The row the operands go to: hits before this one, wrapped to the height.
Row(k, height) == (IF kind # k THEN 0 ELSE hits) % height

\* __libafl_targets_cmplog
LogInstruction(s) ==
  /\ enabled
  /\ total < MaxLogs
  /\ NewHeader(Ins, s)
  /\ slot' = [slot EXCEPT ![Row(Ins, H)] =
                 [run |-> run, n |-> total + 1, kind |-> Ins, whole |-> TRUE,
                  tail |-> <<run, total + 1>>]]
  /\ total' = total + 1
  /\ UNCHANGED <<enabled, run>>

\* __libafl_targets_cmplog_routines; s is 2 when the arguments can be read in
\* full and 1 when less of them can (area_is_valid).
LogRoutine(s) ==
  LET r == Row(Rtn, RtnH)
      Written(old) == [run |-> run, n |-> total + 1, kind |-> Rtn, whole |-> s = 2,
                       tail |-> IF s = 2 THEN <<run, total + 1>> ELSE old.tail]
  IN /\ enabled
     /\ total < MaxLogs
     /\ NewHeader(Rtn, s)
     /\ slot' = [slot EXCEPT ![2 * r] = Written(@), ![2 * r + 1] = Written(@)]
     /\ total' = total + 1
     /\ UNCHANGED <<enabled, run>>

PreExec_NoReset ==
  /\ ~enabled
  /\ run < MaxRuns
  /\ enabled' = TRUE
  /\ run' = run + 1
  /\ total' = 0
  /\ UNCHANGED <<hits, shape, kind, slot>>

\* pre_exec: "For performance, we reset just the headers"
PreExec ==
  /\ ~enabled
  /\ run < MaxRuns
  /\ hits' = 0
  /\ shape' = 0
  /\ kind' = Ins
  /\ enabled' = TRUE
  /\ run' = run + 1
  /\ total' = 0
  /\ UNCHANGED slot

PostExec ==
  /\ enabled
  /\ enabled' = FALSE
  /\ UNCHANGED <<hits, shape, kind, slot, run, total>>

LogNext ==
  \/ \E s \in {1, 2} : LogInstruction(s) \/ LogRoutine(s)
  \/ PreExec
  \/ PostExec

LogSpec == LogInit /\ [][LogNext]_logvars

-----------------------------------------------------------------------------
(* What the observer reads *)

Height == IF kind = Ins THEN H ELSE RtnH

usable_executions_for == IF hits < Height THEN hits ELSE Height

\* The slots of execution i.
SlotsOf(i) == IF kind = Ins THEN {i} ELSE {2 * i, 2 * i + 1}

-----------------------------------------------------------------------------
(* Properties *)

\* Every variable keeps its type, the counter its width.
LogTypeOK ==
  /\ hits \in 0..(HitsMod - 1)
  /\ shape \in 0..2
  /\ kind \in {Ins, Rtn}
  /\ slot \in [0..(H - 1) -> [run : 0..MaxRuns, n : 0..MaxLogs, kind : {Ins, Rtn},
                          whole : BOOLEAN, tail : (0..MaxRuns) \X (0..MaxLogs)]]
  /\ enabled \in BOOLEAN
  /\ run \in 0..MaxRuns
  /\ total \in 0..MaxLogs

\* The slots values_of returns for the usable executions.
Read == UNION {SlotsOf(i) : i \in 0..(usable_executions_for - 1)}

\* Although a reset leaves the operands and the two kinds overwrite each other,
\* what the observer reads begins with what a comparison of this run and of the
\* header's kind wrote, and goes on with what the same comparison wrote, unless
\* that was a routine with arguments shorter than a slot (cmplog.c:126-127).
FreshValues ==
  \A j \in Read : /\ slot[j].run = run
                  /\ slot[j].kind = kind
                  /\ slot[j].whole => slot[j].tail = <<run, slot[j].n>>

\* "A CmpObserver observes the traced comparisons during the current execution"
\* (cmp.rs:118): nothing that values_of returns (cmplog.rs:139-145) is of an
\* earlier run; what no run has written is zero.
CurrentExecution == \A j \in Read : {slot[j].run, slot[j].tail[1]} \subseteq {0, run}

\* The counter keeps its width, and the rows the observer reads hold the last
\* comparisons of the run, one each, with the counter wrapped any number of times.
NewestKept ==
  /\ LogTypeOK
  /\ {slot[j].n : j \in Read} = (total - usable_executions_for + 1)..total

=============================================================================
