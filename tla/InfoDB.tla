------------------------------- MODULE InfoDB -------------------------------
(***************************************************************************)
(* The master's database (core/infodb): the registered fuzzers, the        *)
(* coverage each of them reached, the coverage reached by all, the Bloom   *)
(* filter of saved testcases and the pool of seeds.                        *)
(*                                                                         *)
(* AddFuzzer, AddTestcases and DeleteFuzzer hold fuzzInfoDB.mu from their  *)
(* first to their last step: the variable op is the call that holds it.    *)
(* CreateAnalyze, which a timer starts, takes only the read lock of        *)
(* CovData.mu and runs in between.                                         *)
(***************************************************************************)
EXTENDS Integers, Sequences, FiniteSets, Functions

CONSTANTS
  FuzzerID,       \* identifiers of fuzzers
  Branch,         \* indices of the coverage map
  Evaluations,    \* testcases (by the hash of their input) and what an evaler
                  \* may report of them
  FalsePositives, \* testcases the Bloom filter may take for known ones
  MaxBatch,       \* bound: testcases of one AddTestcases call (bufferMaxSize)
  MaxCalls        \* bound: AddTestcases calls

ASSUME InfoDBAssumption ==
  /\ Evaluations \subseteq [ID : Nat, Cov : SUBSET Branch, HasCrash : BOOLEAN]
  /\ FalsePositives \subseteq Nat
  /\ IsFiniteSet(Branch)
  /\ MaxBatch \in Nat \ {0}
  /\ MaxCalls \in Nat

\* An evaluated testcase and the fuzzer that found it.
Testcase == [eval : Evaluations, by : FuzzerID]

VARIABLES
  fuzzerMap,        \* counters of the registered fuzzers
  covFuzzers,       \* CovData.Fuzzers: coverage and norm of each fuzzer
  generalCoverage,  \* branches marked in the general coverage
  bloom,            \* identifiers the Bloom filter answers "known" for
  seeds,            \* the entries of the red-black tree
  dirs,             \* fuzzers whose corpus directory exists
  op,               \* the call that holds fuzzInfoDB.mu
  analysis,         \* CreateAnalyze: fuzzers to visit, norms found
  known,            \* fuzzer identifiers ever registered
  calls,            \* AddTestcases calls so far
  writeFailed       \* a corpus file could not be written

fuzzerData == <<fuzzerMap, covFuzzers, known>>
pool == <<generalCoverage, bloom, seeds, dirs, writeFailed>>
vars == <<fuzzerData, pool, op, analysis, calls>>

Idle == [call |-> "none"]
NotAnalysing == [running |-> FALSE, todo |-> {}, norms |-> <<>>]

Init ==
  /\ fuzzerMap = <<>>
  /\ covFuzzers = <<>>
  /\ generalCoverage = {}
  /\ bloom = {}
  /\ seeds = {}
  /\ dirs = {}
  /\ op = Idle
  /\ analysis = NotAnalysing
  /\ known = {}
  /\ calls = 0
  /\ writeFailed = FALSE

\* The function f with x mapped to v; Go's m[x] = v.
Put(f, x, v) == [y \in DOMAIN f \cup {x} |-> IF y = x THEN v ELSE f[y]]

-----------------------------------------------------------------------------
(* AddFuzzer and DeleteFuzzer *)

\* The master never registers an identifier twice (Master!DbMutexReleased), so
\* the branch that returns with the mutex held is not taken.
AddFuzzer(f) ==
  /\ op = Idle
  /\ f \notin known
  /\ op' = [call |-> "AddFuzzer", id |-> f]
  /\ known' = known \cup {f}
  /\ UNCHANGED <<fuzzerMap, covFuzzers, pool, analysis, calls>>

\* CovData.AddFuzzer under the write lock, then the map and the directory,
\* whose error nobody looks at.  Only holders of fuzzInfoDB.mu see the latter
\* two, so they are part of the same step.
AddFuzzerRegisters(madeDir) ==
  /\ op.call = "AddFuzzer"
  /\ ~analysis.running
  /\ covFuzzers' = Put(covFuzzers, op.id, [Cov |-> {}, SqNorm |-> 0])
  /\ fuzzerMap' = Put(fuzzerMap, op.id,
                      [BugsFound |-> 0, TotalSaveTestcaseCount |-> 0])
  /\ dirs' = IF madeDir THEN dirs \cup {op.id} ELSE dirs
  /\ op' = Idle
  /\ UNCHANGED <<generalCoverage, bloom, seeds, writeFailed, analysis, known,
                 calls>>

DeleteFuzzer(f) ==
  /\ op = Idle
  /\ f \in DOMAIN fuzzerMap
  /\ fuzzerMap' = Restrict(fuzzerMap, DOMAIN fuzzerMap \ {f})
  /\ op' = [call |-> "DeleteFuzzer", id |-> f]
  /\ UNCHANGED <<covFuzzers, known, pool, analysis, calls>>

DeleteFuzzerForgets_NoLock ==
  /\ op.call = "DeleteFuzzer"
  /\ covFuzzers' = Restrict(covFuzzers, DOMAIN covFuzzers \ {op.id})
  /\ op' = Idle
  /\ UNCHANGED <<fuzzerMap, known, pool, analysis, calls>>

DeleteFuzzerForgets_Nothing ==
  /\ op.call = "DeleteFuzzer"
  /\ op' = Idle
  /\ UNCHANGED <<fuzzerData, pool, analysis, calls>>

\* CovData.DeleteFuzzer waits for the write lock.
DeleteFuzzerForgets ==
  /\ op.call = "DeleteFuzzer"
  /\ ~analysis.running
  /\ covFuzzers' = Restrict(covFuzzers, DOMAIN covFuzzers \ {op.id})
  /\ op' = Idle
  /\ UNCHANGED <<fuzzerMap, known, pool, analysis, calls>>

-----------------------------------------------------------------------------
(* AddTestcases *)

AddTestcases(tcList) ==
  /\ op = Idle
  /\ calls < MaxCalls
  /\ calls' = calls + 1
  /\ op' = [call |-> "AddTestcases", rest |-> tcList, pc |-> "cover"]
  /\ UNCHANGED <<fuzzerData, pool, analysis>>

\* The loop goes on with the next testcase, or the call returns.
NextTestcase ==
  op' = IF Len(op.rest) = 1 THEN Idle
        ELSE [op EXCEPT !.rest = Tail(@), !.pc = "cover"]

\* A testcase of a fuzzer that was deleted meanwhile is skipped.
SkipUnknown ==
  /\ op.call = "AddTestcases" /\ op.pc = "cover"
  /\ Head(op.rest).by \notin DOMAIN fuzzerMap
  /\ NextTestcase
  /\ UNCHANGED <<fuzzerData, pool, analysis, calls>>

\* CovData.AddTestcaseCoverage, under the read lock and the fuzzer's mutex.
AddTestcaseCoverage ==
  LET tc == Head(op.rest)
  IN /\ op.call = "AddTestcases" /\ op.pc = "cover"
     /\ tc.by \in DOMAIN fuzzerMap
     /\ covFuzzers' = IF tc.by \in DOMAIN covFuzzers
                      THEN [covFuzzers EXCEPT ![tc.by].Cov = @ \cup tc.eval.Cov]
                      ELSE covFuzzers
     /\ op' = [op EXCEPT !.pc = "save"]
     /\ UNCHANGED <<fuzzerMap, known, pool, analysis, calls>>

\* The Bloom filter knows the testcase.
SkipKnown ==
  /\ op.call = "AddTestcases" /\ op.pc = "save"
  /\ Head(op.rest).eval.ID \in bloom
  /\ NextTestcase
  /\ UNCHANGED <<fuzzerData, pool, analysis, calls>>

NewGeneralCov_NotMarked(cov) == UNCHANGED generalCoverage

\* NewGeneralCov marks the branches.
NewGeneralCov(cov) == generalCoverage' = generalCoverage \cup cov

NewCov_Old(cov) == Cardinality(cov)

\* The number of new branches it returns.
NewCov(cov) == Cardinality(cov \ generalCoverage)

\* Neither a crash nor a new branch: nothing is kept.
SkipUseless ==
  LET tc == Head(op.rest)
  IN /\ op.call = "AddTestcases" /\ op.pc = "save"
     /\ tc.eval.ID \notin bloom
     /\ ~tc.eval.HasCrash /\ NewCov(tc.eval.Cov) = 0
     /\ NewGeneralCov(tc.eval.Cov)
     /\ NextTestcase
     /\ UNCHANGED <<fuzzerData, bloom, seeds, dirs, writeFailed, analysis, calls>>

\* The counters are written back before the seed is saved.
CountSaved(f, crash) ==
  fuzzerMap' = [fuzzerMap EXCEPT
    ![f].TotalSaveTestcaseCount = @ + 1,
    ![f].BugsFound = @ + (IF crash THEN 1 ELSE 0)]

addToBloom_Forgets(id) == UNCHANGED bloom

\* A Bloom filter answers true for what was added, and from some addition on
\* perhaps for others.
addToBloom(id) ==
  \E fp \in SUBSET FalsePositives : bloom' = bloom \cup {id} \cup fp

\* AddSeed: the file, then the filter and the tree.
AddSeed(tc, written) ==
  IF written
  THEN /\ tc.by \in dirs
       /\ addToBloom(tc.eval.ID)
       /\ seeds' = seeds \cup {[ID |-> tc.eval.ID, Crash |-> tc.eval.HasCrash,
                                NewCov |-> NewCov(tc.eval.Cov), by |-> tc.by]}
       /\ UNCHANGED writeFailed
  ELSE /\ writeFailed' = TRUE
       /\ UNCHANGED <<bloom, seeds>>

SaveTestcase(written) ==
  LET tc == Head(op.rest)
  IN /\ op.call = "AddTestcases" /\ op.pc = "save"
     /\ tc.eval.ID \notin bloom
     /\ tc.eval.HasCrash \/ NewCov(tc.eval.Cov) # 0
     /\ NewGeneralCov(tc.eval.Cov)
     /\ CountSaved(tc.by, tc.eval.HasCrash)
     /\ AddSeed(tc, written)
     /\ NextTestcase
     /\ UNCHANGED <<covFuzzers, known, dirs, analysis, calls>>

-----------------------------------------------------------------------------
(* CreateAnalyze *)

\* The read lock of CovData.mu; the range over the map starts.
CreateAnalyze ==
  /\ ~analysis.running
  /\ analysis' = [running |-> TRUE, todo |-> DOMAIN covFuzzers, norms |-> <<>>]
  /\ UNCHANGED <<fuzzerData, pool, op, calls>>

\* One turn of calculate's loop, under the fuzzer's mutex.  The entries of Cov
\* are 0 or 1: the squared norm is the number of branches.
Calculate(f) ==
  LET old == covFuzzers[f].SqNorm
      new == Cardinality(covFuzzers[f].Cov)
  IN /\ analysis' = [analysis EXCEPT !.todo = @ \ {f},
                       !.norms = Put(@, f, [old |-> old, new |-> new])]
     /\ covFuzzers' = [covFuzzers EXCEPT ![f].SqNorm = new]

VisitFuzzer(f) ==
  /\ analysis.running
  /\ f \in analysis.todo \cap DOMAIN covFuzzers
  /\ Calculate(f)
  /\ UNCHANGED <<fuzzerMap, known, pool, op, calls>>

\* The read lock is released; what clustering makes of the result is not
\* followed here.
AnalyzeReturns ==
  /\ analysis.running
  /\ analysis.todo = {}
  /\ analysis' = [analysis EXCEPT !.running = FALSE]
  /\ UNCHANGED <<fuzzerData, pool, op, calls>>

-----------------------------------------------------------------------------
Batches == UNION {[1..n -> Testcase] : n \in 1..MaxBatch}

Next ==
  \/ \E f \in FuzzerID : AddFuzzer(f) \/ DeleteFuzzer(f) \/ VisitFuzzer(f)
  \/ \E ok \in BOOLEAN : AddFuzzerRegisters(ok) \/ SaveTestcase(ok)
  \/ DeleteFuzzerForgets
  \/ \E tcList \in Batches : AddTestcases(tcList)
  \/ SkipUnknown
  \/ AddTestcaseCoverage
  \/ SkipKnown
  \/ SkipUseless
  \/ CreateAnalyze
  \/ AnalyzeReturns

Spec == Init /\ [][Next]_vars

-----------------------------------------------------------------------------
(* Properties *)

Counters == [BugsFound : Nat, TotalSaveTestcaseCount : Nat]
FuzzerCov == [Cov : SUBSET Branch, SqNorm : 0..Cardinality(Branch)]

\* Every variable keeps its type.
TypeOK ==
  /\ known \subseteq FuzzerID
  /\ \E D \in SUBSET FuzzerID : fuzzerMap \in [D -> Counters]
  /\ \E D \in SUBSET FuzzerID : covFuzzers \in [D -> FuzzerCov]
  /\ generalCoverage \subseteq Branch
  /\ bloom \subseteq Nat
  /\ seeds \subseteq [ID : Nat, Crash : BOOLEAN, NewCov : Nat, by : FuzzerID]
  /\ dirs \subseteq FuzzerID
  /\ op.call \in {"none", "AddFuzzer", "DeleteFuzzer", "AddTestcases"}
  /\ analysis.running \in BOOLEAN
  /\ analysis.todo \subseteq FuzzerID
  /\ calls \in 0..MaxCalls
  /\ writeFailed \in BOOLEAN

\* Duplicates are the normal case (a stopped evaler's batch is resent, several
\* fuzzers find one input), yet an input becomes a seed only once.  The tree's
\* order relies on it: seedCmp takes equal identifiers for equal seeds.
SeedsUnique == \A s, t \in seeds : s.ID = t.ID => s = t

\* One element for each branch that a seed says it was the first to reach.
Claims == UNION {{s} \X (1..s.NewCov) : s \in seeds}

\* A branch is credited to one seed as new: what the seeds claim adds up to no
\* more than the general coverage, and to exactly that unless a file was lost.
NewCovAddsUp ==
  LET claimed == Cardinality(Claims)
  IN /\ claimed <= Cardinality(generalCoverage)
     /\ ~writeFailed => claimed = Cardinality(generalCoverage)

\* Every variable keeps its type, and between two calls the map of fuzzers and
\* the coverage data know the same fuzzers, although CreateAnalyze runs in the
\* middle of the calls.
MapsAgree ==
  /\ TypeOK
  /\ op = Idle => DOMAIN fuzzerMap = DOMAIN covFuzzers

\* CreateAnalyze sees one set of fuzzers from its first to its last step, and
\* reports for each that its coverage has not shrunk since the last analysis.
AnalysisConsistent ==
  LET seen == analysis.todo \cup DOMAIN analysis.norms
  IN /\ analysis.running => seen = DOMAIN covFuzzers
     /\ \A f \in DOMAIN analysis.norms :
          analysis.norms[f].old <= analysis.norms[f].new

\* Inputs whose coverage differs from one evaluation to the next.
Unstable ==
  {d.ID : d \in {e \in Evaluations :
                   \E g \in Evaluations : g.ID = e.ID /\ g.Cov # e.Cov}}

\* "The general coverage, gathered by the testcases that came to the master"
\* (infodb.go:25): between calls no registered fuzzer covers a branch that the
\* general coverage misses, but for the branches of inputs that the filter
\* takes for known by mistake or that were first evaluated differently.
GeneralCovComplete ==
  LET excused == UNION {e.Cov : e \in {d \in Evaluations :
                                d.ID \in FalsePositives \cup Unstable}}
  IN op = Idle =>
       \A f \in DOMAIN covFuzzers :
         covFuzzers[f].Cov \subseteq generalCoverage \cup excused

=============================================================================
