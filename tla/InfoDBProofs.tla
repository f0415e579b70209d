---------------------------- MODULE InfoDBProofs ----------------------------
(***************************************************************************)
(* Proofs about the master's database, for any number of fuzzers, any map  *)
(* of branches, any testcases and any false positives of the filter.       *)
(*                                                                         *)
(* The inductive invariant has three parts beside the types.  Domains says *)
(* how far apart the two maps of fuzzers may be while a call is under way. *)
(* Filter says why the Bloom filter may be trusted: what it holds came     *)
(* with a seed whose branches were marked first, or is a false positive.   *)
(* Covered says which branches of a fuzzer the general coverage may miss:  *)
(* the excused ones, and those of the testcase just being added.           *)
(*                                                                         *)
(* The last part is about the analysis of what the database holds, for any *)
(* number of fuzzers and any coverages: which fuzzers are candidates to be *)
(* advised against.  The groups of near fuzzers partition the registered   *)
(* ones, and two that cover the same are in one group.                     *)
(***************************************************************************)
EXTENDS InfoDB, Analysis, FiniteSetTheorems, SequenceTheorems, WellFoundedInduction,
        TLAPS

-----------------------------------------------------------------------------
(* The inductive invariant *)

\* A call under way.
OpType ==
  {Idle} \cup [call : {"AddFuzzer", "DeleteFuzzer"}, id : FuzzerID]
    \cup [call : {"AddTestcases"}, rest : Seq(Testcase) \ {<<>>},
          pc : {"cover", "save"}]

\* An analysis has these fields and no others.
AnalysisShape ==
  analysis = [running |-> analysis.running, todo |-> analysis.todo,
              norms |-> analysis.norms]

\* The two maps know the same fuzzers but for the one being deleted, and a
\* fuzzer being added is in neither.
Domains ==
  /\ DOMAIN covFuzzers \subseteq known
  /\ op.call = "AddFuzzer" => op.id \in known \ DOMAIN covFuzzers
  /\ IF op.call = "DeleteFuzzer"
     THEN /\ op.id \in DOMAIN covFuzzers
          /\ DOMAIN fuzzerMap = DOMAIN covFuzzers \ {op.id}
     ELSE DOMAIN fuzzerMap = DOMAIN covFuzzers

\* Every seed is in the filter, and what the filter holds is a false positive
\* or was evaluated to branches that are marked.
Filter ==
  /\ \A s \in seeds : s.ID \in bloom
  /\ \A id \in bloom :
       \/ id \in FalsePositives
       \/ \E e \in Evaluations : e.ID = id /\ e.Cov \subseteq generalCoverage

\* The norm of the last analysis is at most that of the present coverage.
NormsOK ==
  \A f \in DOMAIN covFuzzers :
    covFuzzers[f].SqNorm <= Cardinality(covFuzzers[f].Cov)

\* The branches GeneralCovComplete makes an exception of.
Excused ==
  UNION {e.Cov : e \in {d \in Evaluations : d.ID \in FalsePositives \cup Unstable}}

\* The testcase being added: its coverage is its fuzzer's already, and not yet
\* the general one.
Adding == op.call = "AddTestcases" /\ op.pc = "save"

Covered ==
  \A f \in DOMAIN covFuzzers : \A b \in covFuzzers[f].Cov :
    \/ b \in generalCoverage
    \/ b \in Excused
    \/ Adding /\ Head(op.rest).by = f /\ b \in Head(op.rest).eval.Cov

IInv ==
  /\ TypeOK
  /\ op \in OpType
  /\ AnalysisShape
  /\ Domains
  /\ SeedsUnique
  /\ Filter
  /\ NormsOK
  /\ AnalysisConsistent
  /\ Covered

-----------------------------------------------------------------------------
(* Maps, counts and batches *)

\* A function is one on its domain.
LEMMA MapTypes ==
  ASSUME TypeOK
  PROVE  /\ fuzzerMap \in [DOMAIN fuzzerMap -> Counters]
         /\ DOMAIN fuzzerMap \subseteq FuzzerID
         /\ covFuzzers \in [DOMAIN covFuzzers -> FuzzerCov]
         /\ DOMAIN covFuzzers \subseteq FuzzerID
<1>1. PICK D \in SUBSET FuzzerID : fuzzerMap \in [D -> Counters]
  BY DEF TypeOK
<1>2. PICK E \in SUBSET FuzzerID : covFuzzers \in [E -> FuzzerCov]
  BY DEF TypeOK
<1> QED
  BY <1>1, <1>2

\* A map keeps the type of its values when one more key is mapped ...
LEMMA PutType ==
  ASSUME NEW S, NEW T, NEW f, DOMAIN f \subseteq S, f \in [DOMAIN f -> T],
         NEW x \in S, NEW v \in T
  PROVE  \E D \in SUBSET S : Put(f, x, v) \in [D -> T]
<1>1. Put(f, x, v) \in [DOMAIN f \cup {x} -> T]
  BY DEF Put
<1> QED
  BY <1>1

\* ... and when one is forgotten.
LEMMA RestrictType ==
  ASSUME NEW S, NEW T, NEW f, DOMAIN f \subseteq S, f \in [DOMAIN f -> T], NEW x
  PROVE  \E D \in SUBSET S : Restrict(f, DOMAIN f \ {x}) \in [D -> T]
<1>1. Restrict(f, DOMAIN f \ {x}) \in [DOMAIN f \ {x} -> T]
  BY DEF Restrict
<1> QED
  BY <1>1

\* Counters go on counting.
LEMMA CountersGrow ==
  ASSUME NEW c \in Counters, NEW k \in Nat
  PROVE  [c EXCEPT !.TotalSaveTestcaseCount = @ + 1, !.BugsFound = @ + k] \in Counters
<1> DEFINE d == [c EXCEPT !.TotalSaveTestcaseCount = @ + 1]
<1>1. d \in Counters
  BY DEF Counters
<1> HIDE DEF d
<1>2. [d EXCEPT !.BugsFound = @ + k] \in Counters
  BY <1>1 DEF Counters
<1> QED
  BY <1>2 DEF d

\* Sets of branches are counted.
LEMMA BranchCount ==
  ASSUME NEW S \in SUBSET Branch
  PROVE  Cardinality(S) \in 0..Cardinality(Branch)
<1>1. IsFiniteSet(Branch) /\ IsFiniteSet(S)
  BY InfoDBAssumption, FS_Subset
<1>2. Cardinality(S) \in Nat /\ Cardinality(Branch) \in Nat
  BY <1>1, FS_CardinalityType
<1>3. Cardinality(S) <= Cardinality(Branch)
  BY <1>1, FS_Subset
<1> QED
  BY <1>2, <1>3

\* More branches count for more.
LEMMA CountGrows ==
  ASSUME NEW S \in SUBSET Branch, NEW T \in SUBSET S
  PROVE  Cardinality(T) <= Cardinality(S)
<1>1. IsFiniteSet(S)
  BY InfoDBAssumption, FS_Subset
<1> QED
  BY <1>1, FS_Subset

\* The testcase a call is at.
LEMMA AtTestcase ==
  ASSUME op \in OpType, op.call = "AddTestcases"
  PROVE  /\ op \in [call : {"AddTestcases"}, rest : Seq(Testcase) \ {<<>>},
                    pc : {"cover", "save"}]
         /\ Head(op.rest) \in Testcase
         /\ Head(op.rest).by \in FuzzerID
         /\ Head(op.rest).eval \in Evaluations
         /\ Head(op.rest).eval.ID \in Nat
         /\ Head(op.rest).eval.Cov \subseteq Branch
         /\ Head(op.rest).eval.HasCrash \in BOOLEAN
<1>1. op \in [call : {"AddTestcases"}, rest : Seq(Testcase) \ {<<>>},
              pc : {"cover", "save"}]
  BY DEF OpType, Idle
<1>2. Head(op.rest) \in Testcase
  BY <1>1, HeadTailProperties
<1> QED
  BY <1>1, <1>2, InfoDBAssumption DEF Testcase

\* The loop of a call over its testcases.
LEMMA LoopGoesOn ==
  ASSUME op \in OpType, op.call = "AddTestcases", NextTestcase
  PROVE  /\ op' \in OpType
         /\ op' = Idle \/ (op'.call = "AddTestcases" /\ op'.pc = "cover")
         /\ op'.call \in {"none", "AddTestcases"}
         /\ ~Adding'
<1>1. op.rest \in Seq(Testcase) \ {<<>>}
  BY AtTestcase
<1>2. CASE Len(op.rest) = 1
  BY <1>2 DEF NextTestcase, OpType, Idle, Adding
<1>3. CASE Len(op.rest) # 1
  <2> DEFINE t == Tail(op.rest)
  <2>1. t \in Seq(Testcase) /\ Len(t) = Len(op.rest) - 1 /\ Len(op.rest) \in Nat
    BY <1>1, HeadTailProperties, LenProperties
  <2>2. t # <<>>
    <3> HIDE DEF t
    <3>1. Len(t) # 0
      BY <1>3, <2>1
    <3> QED
      BY <3>1, EmptySeq
  <2>3. op' = [op EXCEPT !.rest = t, !.pc = "cover"]
    BY <1>3 DEF NextTestcase
  <2> HIDE DEF t
  <2>4. op' \in [call : {"AddTestcases"}, rest : Seq(Testcase) \ {<<>>},
                 pc : {"cover", "save"}] /\ op'.pc = "cover"
    BY AtTestcase, <2>1, <2>2, <2>3
  <2> QED
    BY <2>4 DEF OpType, Adding
<1> QED
  BY <1>2, <1>3

-----------------------------------------------------------------------------
(* The steps preserve it *)

LEMMA InitInv == Init => IInv
<1> SUFFICES ASSUME Init PROVE IInv
  OBVIOUS
<1>1. TypeOK
  <2>1. <<>> \in [{} -> Counters] /\ <<>> \in [{} -> FuzzerCov]
    OBVIOUS
  <2>2. /\ \E D \in SUBSET FuzzerID : fuzzerMap \in [D -> Counters]
        /\ \E D \in SUBSET FuzzerID : covFuzzers \in [D -> FuzzerCov]
    BY <2>1 DEF Init
  <2>3. /\ op.call = "none"
        /\ analysis.running = FALSE /\ analysis.todo = {}
        /\ calls \in 0..MaxCalls
    BY InfoDBAssumption DEF Init, Idle, NotAnalysing
  <2> QED
    BY <2>2, <2>3 DEF Init, TypeOK
<1>2. DOMAIN covFuzzers = {} /\ DOMAIN fuzzerMap = {} /\ DOMAIN analysis.norms = {}
  BY DEF Init, NotAnalysing
<1>3. op.call = "none" /\ op \in OpType /\ analysis.running = FALSE
  BY DEF Init, Idle, OpType, NotAnalysing
<1>4. AnalysisShape
  BY DEF Init, NotAnalysing, AnalysisShape
<1> QED
  BY <1>1, <1>2, <1>3, <1>4 DEF Init, IInv, Domains, SeedsUnique, Filter, NormsOK,
     AnalysisConsistent, Covered

LEMMA AddFuzzerInv ==
  ASSUME IInv, NEW f \in FuzzerID, AddFuzzer(f)
  PROVE  IInv'
<1> USE DEF AddFuzzer, fuzzerData, pool
<1>1. op.call = "none" /\ op'.call = "AddFuzzer" /\ op'.id = f /\ op' \in OpType
  BY DEF Idle, OpType
<1>2. TypeOK'
  BY <1>1 DEF IInv, TypeOK
<1>3. Domains'
  BY <1>1 DEF IInv, Domains
<1>4. Covered'
  BY <1>1 DEF IInv, Covered, Adding, Excused, Unstable
<1> QED
  BY <1>1, <1>2, <1>3, <1>4
  DEF IInv, SeedsUnique, Filter, NormsOK, AnalysisShape, AnalysisConsistent

LEMMA DeleteFuzzerInv ==
  ASSUME IInv, NEW f \in FuzzerID, DeleteFuzzer(f)
  PROVE  IInv'
<1>0. /\ op.call = "none" /\ op'.call = "DeleteFuzzer" /\ op'.id = f /\ op' \in OpType
      /\ fuzzerMap' = Restrict(fuzzerMap, DOMAIN fuzzerMap \ {f})
      /\ f \in DOMAIN fuzzerMap
      /\ UNCHANGED <<covFuzzers, known, pool, analysis, calls>>
  BY DEF DeleteFuzzer, Idle, OpType
<1> USE DEF pool
<1>1. \E D \in SUBSET FuzzerID : fuzzerMap' \in [D -> Counters]
  BY <1>0, MapTypes, RestrictType DEF IInv
<1>2. TypeOK'
  BY <1>0, <1>1 DEF IInv, TypeOK
<1>3. Domains'
  <2>1. DOMAIN fuzzerMap' = DOMAIN fuzzerMap \ {f}
    BY <1>0 DEF Restrict
  <2> QED
    BY <1>0, <2>1 DEF IInv, Domains
<1>4. Covered'
  BY <1>0 DEF IInv, Covered, Adding, Excused, Unstable
<1> QED
  BY <1>0, <1>2, <1>3, <1>4
  DEF IInv, SeedsUnique, Filter, NormsOK, AnalysisShape, AnalysisConsistent

LEMMA AddFuzzerRegistersInv ==
  ASSUME IInv, NEW madeDir \in BOOLEAN, AddFuzzerRegisters(madeDir)
  PROVE  IInv'
<1> DEFINE cov == [Cov |-> {}, SqNorm |-> 0]
           counts == [BugsFound |-> 0, TotalSaveTestcaseCount |-> 0]
<1>0. /\ op.call = "AddFuzzer" /\ ~analysis.running /\ op' = Idle
      /\ covFuzzers' = Put(covFuzzers, op.id, cov)
      /\ fuzzerMap' = Put(fuzzerMap, op.id, counts)
      /\ dirs' \subseteq dirs \cup {op.id}
      /\ UNCHANGED <<generalCoverage, bloom, seeds, writeFailed, analysis, known, calls>>
  BY DEF AddFuzzerRegisters
<1>1. op.id \in FuzzerID /\ op'.call = "none" /\ op' \in OpType
  BY <1>0 DEF IInv, OpType, Idle
<1>2. cov \in FuzzerCov /\ counts \in Counters /\ Cardinality({}) = 0
  <2>1. Cardinality({}) \in 0..Cardinality(Branch) /\ Cardinality({}) = 0
    BY BranchCount, FS_EmptySet
  <2> QED
    BY <2>1 DEF FuzzerCov, Counters
<1> HIDE DEF cov, counts
<1>3. TypeOK'
  <2>1. \E D \in SUBSET FuzzerID : fuzzerMap' \in [D -> Counters]
    BY <1>0, <1>1, <1>2, MapTypes, PutType DEF IInv
  <2>2. \E D \in SUBSET FuzzerID : covFuzzers' \in [D -> FuzzerCov]
    BY <1>0, <1>1, <1>2, MapTypes, PutType DEF IInv
  <2> QED
    BY <1>0, <1>1, <2>1, <2>2 DEF IInv, TypeOK
<1>4. /\ DOMAIN covFuzzers' = DOMAIN covFuzzers \cup {op.id}
      /\ DOMAIN fuzzerMap' = DOMAIN fuzzerMap \cup {op.id}
      /\ covFuzzers'[op.id] = cov
      /\ \A f \in DOMAIN covFuzzers \ {op.id} : covFuzzers'[f] = covFuzzers[f]
  BY <1>0 DEF Put
<1>5. Domains'
  BY <1>0, <1>1, <1>4 DEF IInv, Domains
<1>6. NormsOK'
  BY <1>2, <1>4 DEF IInv, NormsOK, cov
<1>7. AnalysisConsistent'
  BY <1>0 DEF IInv, AnalysisConsistent
<1>8. Covered'
  BY <1>0, <1>4 DEF IInv, Covered, Adding, Excused, Unstable, cov
<1> QED
  BY <1>0, <1>1, <1>3, <1>5, <1>6, <1>7, <1>8
  DEF IInv, SeedsUnique, Filter, AnalysisShape

LEMMA DeleteFuzzerForgetsInv ==
  ASSUME IInv, DeleteFuzzerForgets
  PROVE  IInv'
<1>0. /\ op.call = "DeleteFuzzer" /\ ~analysis.running /\ op' = Idle
      /\ covFuzzers' = Restrict(covFuzzers, DOMAIN covFuzzers \ {op.id})
      /\ UNCHANGED <<fuzzerMap, known, pool, analysis, calls>>
  BY DEF DeleteFuzzerForgets
<1> USE DEF pool
<1>1. op'.call = "none" /\ op' \in OpType
  BY <1>0 DEF OpType, Idle
<1>2. TypeOK'
  <2>1. \E D \in SUBSET FuzzerID : covFuzzers' \in [D -> FuzzerCov]
    BY <1>0, MapTypes, RestrictType DEF IInv
  <2> QED
    BY <1>0, <1>1, <2>1 DEF IInv, TypeOK
<1>3. /\ DOMAIN covFuzzers' = DOMAIN covFuzzers \ {op.id}
      /\ \A f \in DOMAIN covFuzzers' : covFuzzers'[f] = covFuzzers[f]
  BY <1>0 DEF Restrict
<1>4. Domains'
  BY <1>0, <1>1, <1>3 DEF IInv, Domains
<1>5. NormsOK'
  BY <1>3 DEF IInv, NormsOK
<1>6. AnalysisConsistent'
  BY <1>0 DEF IInv, AnalysisConsistent
<1>7. Covered'
  BY <1>0, <1>3 DEF IInv, Covered, Adding, Excused, Unstable
<1> QED
  BY <1>0, <1>1, <1>2, <1>4, <1>5, <1>6, <1>7
  DEF IInv, SeedsUnique, Filter, AnalysisShape

LEMMA AddTestcasesInv ==
  ASSUME IInv, NEW tcList \in Batches, AddTestcases(tcList)
  PROVE  IInv'
<1>0. /\ op.call = "none" /\ calls < MaxCalls /\ calls' = calls + 1
      /\ op' = [call |-> "AddTestcases", rest |-> tcList, pc |-> "cover"]
      /\ UNCHANGED <<fuzzerData, pool, analysis>>
  BY DEF AddTestcases, Idle
<1> USE DEF fuzzerData, pool
<1>1. tcList \in Seq(Testcase) \ {<<>>}
  <2>1. PICK n \in 1..MaxBatch : tcList \in [1..n -> Testcase]
    BY DEF Batches
  <2>2. n \in Nat /\ n # 0
    BY InfoDBAssumption
  <2>3. tcList \in Seq(Testcase) /\ Len(tcList) = n
    BY <2>1, <2>2
  <2> QED
    BY <2>2, <2>3
<1>2. op' \in OpType /\ op'.call = "AddTestcases" /\ op'.pc = "cover"
  BY <1>0, <1>1 DEF OpType
<1>3. TypeOK'
  BY <1>0, <1>2, InfoDBAssumption DEF IInv, TypeOK
<1>4. Domains'
  BY <1>0, <1>2 DEF IInv, Domains
<1>5. Covered'
  BY <1>0 DEF IInv, Covered, Adding, Excused, Unstable
<1> QED
  BY <1>0, <1>2, <1>3, <1>4, <1>5
  DEF IInv, SeedsUnique, Filter, NormsOK, AnalysisShape, AnalysisConsistent

\* What the three ways to skip a testcase have in common.
LEMMA SkipInv ==
  ASSUME IInv, op.call = "AddTestcases", NextTestcase,
         UNCHANGED <<fuzzerData, bloom, seeds, dirs, writeFailed, analysis, calls>>,
         generalCoverage \subseteq generalCoverage', generalCoverage' \subseteq Branch,
         Covered'
  PROVE  IInv'
<1>0. /\ op' \in OpType /\ op'.call \in {"none", "AddTestcases"}
  BY LoopGoesOn DEF IInv
<1>1. TypeOK'
  BY <1>0 DEF IInv, TypeOK, fuzzerData
<1>2. Domains'
  BY <1>0 DEF IInv, Domains, fuzzerData
<1>3. Filter'
  <2>1. ASSUME NEW id \in bloom, NEW e \in Evaluations,
               e.Cov \subseteq generalCoverage
        PROVE  e.Cov \subseteq generalCoverage'
    BY <2>1
  <2> QED
    BY <2>1 DEF IInv, Filter
<1> QED
  BY <1>0, <1>1, <1>2, <1>3
  DEF IInv, SeedsUnique, NormsOK, AnalysisShape, AnalysisConsistent, fuzzerData

LEMMA SkipUnknownInv ==
  ASSUME IInv, SkipUnknown
  PROVE  IInv'
<1>1. /\ op.call = "AddTestcases" /\ op.pc = "cover" /\ NextTestcase
      /\ UNCHANGED <<fuzzerData, pool, analysis, calls>>
  BY DEF SkipUnknown
<1>2. Covered'
  BY <1>1 DEF IInv, Covered, Adding, Excused, Unstable, fuzzerData, pool
<1> QED
  BY <1>1, <1>2, SkipInv DEF IInv, TypeOK, pool

\* What the filter knows is marked, excused, or was evaluated differently.
LEMMA SkipKnownInv ==
  ASSUME IInv, SkipKnown
  PROVE  IInv'
<1> DEFINE tc == Head(op.rest)
<1>1. /\ op.call = "AddTestcases" /\ op.pc = "save" /\ NextTestcase
      /\ tc.eval.ID \in bloom
      /\ UNCHANGED <<fuzzerData, pool, analysis, calls>>
  BY DEF SkipKnown
<1>2. tc.eval \in Evaluations
  BY <1>1, AtTestcase DEF IInv
<1> HIDE DEF tc
<1>3. \A b \in tc.eval.Cov : b \in generalCoverage \/ b \in Excused
  <2>1. CASE tc.eval.ID \in FalsePositives
    BY <1>2, <2>1 DEF Excused
  <2>2. ASSUME NEW e \in Evaluations, e.ID = tc.eval.ID, e.Cov \subseteq generalCoverage
        PROVE  \A b \in tc.eval.Cov : b \in generalCoverage \/ b \in Excused
    <3>1. CASE e.Cov = tc.eval.Cov
      BY <2>2, <3>1
    <3>2. CASE e.Cov # tc.eval.Cov
      <4>1. tc.eval.ID \in Unstable
        BY <1>2, <2>2, <3>2 DEF Unstable
      <4> QED
        BY <1>2, <4>1 DEF Excused
    <3> QED
      BY <3>1, <3>2
  <2> QED
    BY <1>1, <2>1, <2>2 DEF IInv, Filter
<1>4. Covered'
  BY <1>1, <1>3 DEF IInv, Covered, Excused, Unstable, fuzzerData, pool, tc
<1> QED
  BY <1>1, <1>4, SkipInv DEF IInv, TypeOK, pool

LEMMA SkipUselessInv ==
  ASSUME IInv, SkipUseless
  PROVE  IInv'
<1> DEFINE tc == Head(op.rest)
<1>1. /\ op.call = "AddTestcases" /\ op.pc = "save" /\ NextTestcase
      /\ generalCoverage' = generalCoverage \cup tc.eval.Cov
      /\ UNCHANGED <<fuzzerData, bloom, seeds, dirs, writeFailed, analysis, calls>>
  BY DEF SkipUseless, NewGeneralCov
<1>2. tc.eval.Cov \subseteq Branch
  BY <1>1, AtTestcase DEF IInv
<1>3. Covered'
  BY <1>1 DEF IInv, Covered, Excused, Unstable, fuzzerData
<1> HIDE DEF tc
<1>4. generalCoverage' \subseteq Branch /\ generalCoverage \subseteq generalCoverage'
  BY <1>1, <1>2 DEF IInv, TypeOK
<1> QED
  BY <1>1, <1>3, <1>4, SkipInv

LEMMA AddTestcaseCoverageInv ==
  ASSUME IInv, AddTestcaseCoverage
  PROVE  IInv'
<1> DEFINE by == Head(op.rest).by
           new == Head(op.rest).eval.Cov
<1>1. /\ op.call = "AddTestcases" /\ op.pc = "cover"
      /\ by \in DOMAIN fuzzerMap
      /\ covFuzzers' = IF by \in DOMAIN covFuzzers
                       THEN [covFuzzers EXCEPT ![by].Cov = @ \cup new]
                       ELSE covFuzzers
      /\ op' = [op EXCEPT !.pc = "save"]
      /\ UNCHANGED <<fuzzerMap, known, pool, analysis, calls>>
  BY DEF AddTestcaseCoverage
<1> USE DEF pool
<1>2. new \subseteq Branch /\ op' \in OpType
      /\ op'.call = "AddTestcases" /\ op'.pc = "save" /\ op'.rest = op.rest
  BY <1>1, AtTestcase DEF IInv, OpType
<1>3. Head(op'.rest).by = by /\ Head(op'.rest).eval.Cov = new
  BY <1>2
<1>4. by \in DOMAIN covFuzzers
  BY <1>1 DEF IInv, Domains
<1>5. /\ covFuzzers \in [DOMAIN covFuzzers -> FuzzerCov]
      /\ DOMAIN covFuzzers \subseteq FuzzerID
  BY MapTypes DEF IInv
<1> HIDE DEF by, new
<1>6. /\ DOMAIN covFuzzers' = DOMAIN covFuzzers
      /\ covFuzzers'[by] = [covFuzzers[by] EXCEPT !.Cov = @ \cup new]
      /\ \A f \in DOMAIN covFuzzers \ {by} : covFuzzers'[f] = covFuzzers[f]
  BY <1>1, <1>4
<1>7. covFuzzers[by].Cov \subseteq Branch /\ covFuzzers[by] \in FuzzerCov
      /\ covFuzzers[by].SqNorm \in Nat
  <2>1. covFuzzers[by] \in FuzzerCov
    BY <1>4, <1>5
  <2>2. Cardinality(Branch) \in Nat
    BY InfoDBAssumption, FS_CardinalityType
  <2> QED
    BY <2>1, <2>2 DEF FuzzerCov
<1>8. /\ covFuzzers'[by] \in FuzzerCov
      /\ covFuzzers'[by].Cov = covFuzzers[by].Cov \cup new
      /\ covFuzzers'[by].SqNorm = covFuzzers[by].SqNorm
  BY <1>2, <1>6, <1>7 DEF FuzzerCov
<1>9. TypeOK'
  <2>1. covFuzzers' \in [DOMAIN covFuzzers -> FuzzerCov]
    BY <1>1, <1>4, <1>5, <1>6, <1>8
  <2>2. \E D \in SUBSET FuzzerID : covFuzzers' \in [D -> FuzzerCov]
    BY <1>5, <2>1
  <2> QED
    BY <1>1, <1>2, <2>2 DEF IInv, TypeOK
<1>10. Domains'
  BY <1>1, <1>2, <1>6 DEF IInv, Domains
<1>11. NormsOK'
  <2>1. Cardinality(covFuzzers[by].Cov) <= Cardinality(covFuzzers'[by].Cov)
    BY <1>2, <1>7, <1>8, CountGrows
  <2>2. /\ Cardinality(covFuzzers[by].Cov) \in Nat
        /\ Cardinality(covFuzzers'[by].Cov) \in Nat
    BY <1>2, <1>7, <1>8, BranchCount
  <2>3. covFuzzers'[by].SqNorm <= Cardinality(covFuzzers'[by].Cov)
    BY <1>4, <1>7, <1>8, <2>1, <2>2 DEF IInv, NormsOK
  <2> QED
    BY <1>6, <2>3 DEF IInv, NormsOK
<1>12. AnalysisConsistent'
  BY <1>1, <1>6 DEF IInv, AnalysisConsistent
<1>13. Covered'
  <2>1. ASSUME NEW f \in DOMAIN covFuzzers, NEW b \in covFuzzers[f].Cov
        PROVE  b \in generalCoverage \/ b \in Excused
    BY <1>1 DEF IInv, Covered, Adding
  <2> QED
    BY <1>1, <1>2, <1>3, <1>6, <1>8, <2>1 DEF Covered, Adding, Excused, Unstable
<1> QED
  BY <1>1, <1>2, <1>9, <1>10, <1>11, <1>12, <1>13
  DEF IInv, SeedsUnique, Filter, AnalysisShape

LEMMA SaveTestcaseInv ==
  ASSUME IInv, NEW written \in BOOLEAN, SaveTestcase(written)
  PROVE  IInv'
<1> DEFINE tc == Head(op.rest)
           by == tc.by
           id == tc.eval.ID
           cov == tc.eval.Cov
           seed == [ID |-> id, Crash |-> tc.eval.HasCrash,
                    NewCov |-> NewCov(cov), by |-> by]
           counts == [fuzzerMap EXCEPT
                        ![by].TotalSaveTestcaseCount = @ + 1,
                        ![by].BugsFound = @ + (IF tc.eval.HasCrash THEN 1 ELSE 0)]
<1>1. /\ op.call = "AddTestcases" /\ op.pc = "save" /\ NextTestcase
      /\ id \notin bloom
      /\ generalCoverage' = generalCoverage \cup cov
      /\ fuzzerMap' = counts
      /\ UNCHANGED <<covFuzzers, known, dirs, analysis, calls>>
  BY DEF SaveTestcase, NewGeneralCov, CountSaved
<1>2. /\ \/ bloom' = bloom /\ seeds' = seeds
         \/ /\ seeds' = seeds \cup {seed}
            /\ \E fp \in SUBSET FalsePositives : bloom' = bloom \cup {id} \cup fp
      /\ writeFailed' \in {writeFailed, TRUE}
  BY DEF SaveTestcase, AddSeed, addToBloom
<1>3. /\ tc.eval \in Evaluations /\ by \in FuzzerID /\ id \in Nat
      /\ cov \subseteq Branch /\ tc.eval.HasCrash \in BOOLEAN
  BY <1>1, AtTestcase DEF IInv
<1>4. /\ op' \in OpType /\ op'.call \in {"none", "AddTestcases"} /\ ~Adding'
  BY <1>1, LoopGoesOn DEF IInv
<1>5. NewCov(cov) \in Nat
  <2>1. Cardinality(cov \ generalCoverage) \in 0..Cardinality(Branch)
    BY <1>3, BranchCount
  <2>2. Cardinality(Branch) \in Nat
    BY InfoDBAssumption, FS_CardinalityType
  <2> QED
    BY <2>1, <2>2 DEF NewCov
<1>6. seed \in [ID : Nat, Crash : BOOLEAN, NewCov : Nat, by : FuzzerID] /\ seed.ID = id
  BY <1>3, <1>5
<1>7. counts \in [DOMAIN fuzzerMap -> Counters] /\ DOMAIN fuzzerMap \subseteq FuzzerID
  <2>1. fuzzerMap \in [DOMAIN fuzzerMap -> Counters] /\ DOMAIN fuzzerMap \subseteq FuzzerID
    BY MapTypes DEF IInv
  <2> HIDE DEF by, tc
  <2>2. CASE by \in DOMAIN fuzzerMap
    <3>1. fuzzerMap[by] \in Counters
      BY <2>1, <2>2
    <3> DEFINE bugs == IF tc.eval.HasCrash THEN 1 ELSE 0
               new == [fuzzerMap[by] EXCEPT !.TotalSaveTestcaseCount = @ + 1,
                                            !.BugsFound = @ + bugs]
    <3>2. new \in Counters
      <4>1. bugs \in Nat
        OBVIOUS
      <4> HIDE DEF bugs
      <4> QED
        BY <3>1, <4>1, CountersGrow
    <3>3. counts = [fuzzerMap EXCEPT ![by] = new]
      BY <2>1, <2>2, <3>1 DEF Counters
    <3> HIDE DEF new
    <3> QED
      BY <2>1, <3>2, <3>3
  <2>3. CASE by \notin DOMAIN fuzzerMap
    BY <2>1, <2>3
  <2> QED
    BY <2>1, <2>2, <2>3
<1> HIDE DEF tc, by, id, cov, seed, counts
<1>8. bloom' \subseteq Nat
  BY <1>2, <1>3, InfoDBAssumption DEF IInv, TypeOK
<1>9. TypeOK'
  <2>1. \E D \in SUBSET FuzzerID : fuzzerMap' \in [D -> Counters]
    BY <1>1, <1>7
  <2>2. \E D \in SUBSET FuzzerID : covFuzzers' \in [D -> FuzzerCov]
    BY <1>1 DEF IInv, TypeOK
  <2>3. seeds' \subseteq [ID : Nat, Crash : BOOLEAN, NewCov : Nat, by : FuzzerID]
    BY <1>2, <1>6 DEF IInv, TypeOK
  <2>4. writeFailed' \in BOOLEAN
    BY <1>2 DEF IInv, TypeOK
  <2>5. generalCoverage' \subseteq Branch
    BY <1>1, <1>3 DEF IInv, TypeOK
  <2> QED
    BY <1>1, <1>4, <1>8, <2>1, <2>2, <2>3, <2>4, <2>5 DEF IInv, TypeOK
<1>10. Domains'
  <2>1. DOMAIN fuzzerMap' = DOMAIN fuzzerMap
    BY <1>1, <1>7
  <2> QED
    BY <1>1, <1>4, <2>1 DEF IInv, Domains
<1>11. SeedsUnique'
  <2>1. \A s \in seeds : s.ID # id
    BY <1>1 DEF IInv, Filter
  <2> QED
    BY <1>2, <1>6, <2>1 DEF IInv, SeedsUnique
<1>12. Filter'
  <2>1. \A s \in seeds' : s.ID \in bloom'
    BY <1>2, <1>6 DEF IInv, Filter
  <2>2. ASSUME NEW i \in bloom
        PROVE  \/ i \in FalsePositives
               \/ \E e \in Evaluations : e.ID = i /\ e.Cov \subseteq generalCoverage'
    <3>1. \A e \in Evaluations :
            e.Cov \subseteq generalCoverage => e.Cov \subseteq generalCoverage'
      BY <1>1
    <3> QED
      BY <3>1 DEF IInv, Filter
  <2>3. \E e \in Evaluations : e.ID = id /\ e.Cov \subseteq generalCoverage'
    BY <1>1, <1>3 DEF id, cov
  <2> QED
    BY <1>2, <2>1, <2>2, <2>3 DEF Filter
<1>13. NormsOK' /\ AnalysisConsistent'
  BY <1>1 DEF IInv, NormsOK, AnalysisShape, AnalysisConsistent
<1>14. Covered'
  BY <1>1 DEF IInv, Covered, Excused, Unstable, cov, tc
<1>15. AnalysisShape'
  BY <1>1 DEF IInv, AnalysisShape
<1> QED
  BY <1>4, <1>9, <1>10, <1>11, <1>12, <1>13, <1>14, <1>15 DEF IInv

LEMMA AnalyzeInv ==
  ASSUME IInv, CreateAnalyze \/ AnalyzeReturns
  PROVE  IInv'
<1>1. UNCHANGED <<fuzzerData, pool, op, calls>>
  BY DEF CreateAnalyze, AnalyzeReturns
<1>2. /\ analysis'.running \in BOOLEAN /\ analysis'.todo \subseteq FuzzerID
      /\ AnalysisConsistent'
  <2>1. CASE CreateAnalyze
    <3>1. /\ analysis'.running = TRUE /\ analysis'.todo = DOMAIN covFuzzers
          /\ analysis'.norms = <<>> /\ covFuzzers' = covFuzzers
      BY <2>1 DEF CreateAnalyze, fuzzerData
    <3>2. DOMAIN analysis'.norms = {}
      BY <3>1
    <3>3. DOMAIN covFuzzers \subseteq FuzzerID
      BY MapTypes DEF IInv
    <3> QED
      BY <3>1, <3>2, <3>3 DEF AnalysisConsistent
  <2>2. CASE AnalyzeReturns
    <3>1. analysis' = [analysis EXCEPT !.running = FALSE]
      BY <2>2 DEF AnalyzeReturns
    <3>2. /\ analysis'.running = FALSE /\ analysis'.todo = analysis.todo
          /\ analysis'.norms = analysis.norms
      BY <3>1 DEF IInv, AnalysisShape
    <3> QED
      BY <3>2 DEF IInv, TypeOK, AnalysisConsistent
  <2> QED
    BY <2>1, <2>2
<1>shape. AnalysisShape'
  BY DEF IInv, AnalysisShape, CreateAnalyze, AnalyzeReturns
<1>3. TypeOK'
  BY <1>1, <1>2 DEF IInv, TypeOK, fuzzerData, pool
<1> QED
  BY <1>1, <1>2, <1>shape, <1>3 DEF IInv, Domains, SeedsUnique, Filter, NormsOK, Covered,
     Adding, Excused, Unstable, fuzzerData, pool

LEMMA VisitFuzzerInv ==
  ASSUME IInv, NEW f \in FuzzerID, VisitFuzzer(f)
  PROVE  IInv'
<1> DEFINE n == Cardinality(covFuzzers[f].Cov)
           norm == [old |-> covFuzzers[f].SqNorm, new |-> n]
<1>1. /\ analysis.running /\ f \in analysis.todo /\ f \in DOMAIN covFuzzers
      /\ analysis' = [analysis EXCEPT !.todo = @ \ {f},
                        !.norms = Put(@, f, norm)]
      /\ covFuzzers' = [covFuzzers EXCEPT ![f].SqNorm = n]
      /\ UNCHANGED <<fuzzerMap, known, pool, op, calls>>
  BY DEF VisitFuzzer, Calculate
<1>2. /\ covFuzzers \in [DOMAIN covFuzzers -> FuzzerCov]
      /\ DOMAIN covFuzzers \subseteq FuzzerID
      /\ covFuzzers[f] \in FuzzerCov
  BY <1>1, MapTypes DEF IInv
<1>3. n \in 0..Cardinality(Branch) /\ n \in Nat
  <2>1. covFuzzers[f].Cov \subseteq Branch
    BY <1>2 DEF FuzzerCov
  <2>2. Cardinality(Branch) \in Nat
    BY InfoDBAssumption, FS_CardinalityType
  <2> QED
    BY <2>1, <2>2, BranchCount
<1>4. norm.old <= norm.new
  BY <1>1 DEF IInv, NormsOK
<1> HIDE DEF norm
<1>5. /\ DOMAIN covFuzzers' = DOMAIN covFuzzers
      /\ covFuzzers'[f] = [covFuzzers[f] EXCEPT !.SqNorm = n]
      /\ \A g \in DOMAIN covFuzzers \ {f} : covFuzzers'[g] = covFuzzers[g]
  BY <1>1
<1>6. /\ covFuzzers'[f] \in FuzzerCov
      /\ covFuzzers'[f].Cov = covFuzzers[f].Cov
      /\ covFuzzers'[f].SqNorm = n
  <2> HIDE DEF n
  <2> QED
    BY <1>2, <1>3, <1>5 DEF FuzzerCov
<1>7. /\ analysis'.running = analysis.running
      /\ analysis'.todo = analysis.todo \ {f}
      /\ analysis'.norms = Put(analysis.norms, f, norm)
  <2> QED
    BY <1>1 DEF IInv, AnalysisShape
<1>8. TypeOK'
  <2>1. covFuzzers' \in [DOMAIN covFuzzers -> FuzzerCov]
    <3> HIDE DEF n
    <3> QED
      BY <1>1, <1>2, <1>5, <1>6
  <2>2. \E D \in SUBSET FuzzerID : covFuzzers' \in [D -> FuzzerCov]
    BY <1>2, <2>1
  <2> QED
    BY <1>1, <1>7, <2>2 DEF IInv, TypeOK, pool
<1>9. NormsOK'
  <2>1. covFuzzers'[f].SqNorm <= Cardinality(covFuzzers'[f].Cov)
    BY <1>3, <1>6
  <2> QED
    BY <1>5, <2>1 DEF IInv, NormsOK
<1>10. AnalysisConsistent'
  <2>1. /\ DOMAIN analysis'.norms = DOMAIN analysis.norms \cup {f}
        /\ analysis'.norms[f] = norm
        /\ \A g \in DOMAIN analysis.norms \ {f} :
             analysis'.norms[g] = analysis.norms[g]
    BY <1>7 DEF Put
  <2>2. analysis'.todo \cup DOMAIN analysis'.norms = DOMAIN covFuzzers'
    <3>1. analysis.todo \cup DOMAIN analysis.norms = DOMAIN covFuzzers
      BY <1>1 DEF IInv, AnalysisConsistent
    <3> QED
      BY <3>1, <1>1, <1>5, <1>7, <2>1
  <2>3. \A g \in DOMAIN analysis'.norms : analysis'.norms[g].old <= analysis'.norms[g].new
    BY <1>4, <2>1 DEF IInv, AnalysisConsistent
  <2> QED
    BY <2>2, <2>3 DEF AnalysisConsistent
<1>11. Covered'
  BY <1>1, <1>5, <1>6 DEF IInv, Covered, Adding, Excused, Unstable, pool
<1>12. AnalysisShape'
  BY <1>1 DEF IInv, AnalysisShape
<1> QED
  BY <1>1, <1>5, <1>8, <1>9, <1>10, <1>11, <1>12
  DEF IInv, Domains, SeedsUnique, Filter, pool

LEMMA NextInv == IInv /\ [Next]_vars => IInv'
<1> SUFFICES ASSUME IInv, [Next]_vars PROVE IInv'
  OBVIOUS
<1>1. CASE Next
  BY <1>1, AddFuzzerInv, DeleteFuzzerInv, AddFuzzerRegistersInv, DeleteFuzzerForgetsInv,
     AddTestcasesInv, SkipUnknownInv, SkipKnownInv, SkipUselessInv,
     AddTestcaseCoverageInv, SaveTestcaseInv, AnalyzeInv, VisitFuzzerInv DEF Next
<1>2. CASE UNCHANGED vars
  <2>1. UNCHANGED <<fuzzerMap, covFuzzers, known, generalCoverage, bloom, seeds, dirs,
                    writeFailed, op, analysis, calls>>
    BY <1>2 DEF vars, fuzzerData, pool
  <2> QED
    BY <2>1 DEF IInv, TypeOK, Domains, SeedsUnique, Filter, NormsOK, AnalysisShape,
       AnalysisConsistent, Covered, Adding, Excused, Unstable
<1> QED
  BY <1>1, <1>2

\* The inductive invariant holds in every reachable state.
THEOREM InfoDBInvariant == Spec => []IInv
<1> QED
  BY InitInv, NextInv, PTL DEF Spec

-----------------------------------------------------------------------------
(* The properties *)

\* However often an input is resent or found again, it becomes a seed once.
THEOREM InfoDBSeedsUnique == Spec => []SeedsUnique
<1>1. IInv => SeedsUnique
  BY DEF IInv
<1> QED
  BY <1>1, InfoDBInvariant, PTL

\* Types, and between two calls both maps know the same fuzzers.
THEOREM InfoDBMapsAgree == Spec => []MapsAgree
<1>1. IInv => MapsAgree
  BY DEF IInv, MapsAgree, Domains, Idle
<1> QED
  BY <1>1, InfoDBInvariant, PTL

\* An analysis sees one set of fuzzers, none with less coverage than before.
THEOREM InfoDBAnalysisConsistent == Spec => []AnalysisConsistent
<1>1. IInv => AnalysisConsistent
  BY DEF IInv
<1> QED
  BY <1>1, InfoDBInvariant, PTL

\* Between calls the general coverage misses no branch but the excused ones.
THEOREM InfoDBGeneralCovComplete == Spec => []GeneralCovComplete
<1>1. ASSUME IInv PROVE GeneralCovComplete
  BY <1>1 DEF IInv, GeneralCovComplete, Covered, Adding, Excused, Idle
<1> QED
  BY <1>1, InfoDBInvariant, PTL

-----------------------------------------------------------------------------
(* What the seeds claim *)

\* A set and a part of what is outside it.
LEMMA DisjointCount ==
  ASSUME NEW S, IsFiniteSet(S), NEW T, IsFiniteSet(T), S \cap T = {}
  PROVE  /\ IsFiniteSet(S \cup T)
         /\ Cardinality(S \cup T) = Cardinality(S) + Cardinality(T)
         /\ Cardinality(S) \in Nat /\ Cardinality(T) \in Nat
<1>1. Cardinality(S \cap T) = 0
  BY FS_EmptySet
<1>2. Cardinality(S) \in Nat /\ Cardinality(T) \in Nat
  BY FS_CardinalityType
<1>3. /\ IsFiniteSet(S \cup T)
      /\ Cardinality(S \cup T) = Cardinality(S) + Cardinality(T) - Cardinality(S \cap T)
  BY FS_Union
<1> QED
  BY <1>1, <1>2, <1>3

\* A seed claims as many branches as it says.
LEMMA ClaimsOfOne ==
  ASSUME NEW s, NEW n \in Nat
  PROVE  /\ IsFiniteSet({s} \X (1..n))
         /\ Cardinality({s} \X (1..n)) = n
<1>1. IsFiniteSet({s}) /\ Cardinality({s}) = 1
  BY FS_Singleton
<1>2. IsFiniteSet(1..n) /\ Cardinality(1..n) = n
  <2>1. IsFiniteSet(1..n) /\ Cardinality(1..n) = IF 1 > n THEN 0 ELSE n - 1 + 1
    BY FS_Interval
  <2> QED
    BY <2>1
<1>3. /\ IsFiniteSet({s} \X (1..n))
      /\ Cardinality({s} \X (1..n)) = Cardinality({s}) * Cardinality(1..n)
  BY <1>1, <1>2, FS_Product
<1>4. 1 * n = n
  OBVIOUS
<1> QED
  BY <1>1, <1>2, <1>3, <1>4

\* New branches add to the general coverage what NewGeneralCov counts.
LEMMA MarkCounts ==
  ASSUME TypeOK, NEW cov \in SUBSET Branch, NewGeneralCov(cov)
  PROVE  /\ Cardinality(generalCoverage') = Cardinality(generalCoverage) + NewCov(cov)
         /\ Cardinality(generalCoverage) \in Nat /\ NewCov(cov) \in Nat
<1>1. IsFiniteSet(generalCoverage) /\ IsFiniteSet(cov \ generalCoverage)
  <2>1. generalCoverage \in SUBSET Branch /\ cov \ generalCoverage \in SUBSET Branch
    BY DEF TypeOK
  <2> QED
    BY <2>1, InfoDBAssumption, FS_Subset
<1>2. generalCoverage' = generalCoverage \cup (cov \ generalCoverage)
  BY DEF NewGeneralCov
<1>3. generalCoverage \cap (cov \ generalCoverage) = {}
  OBVIOUS
<1> QED
  BY <1>1, <1>2, <1>3, DisjointCount DEF NewCov

\* NewCovAddsUp as it is inductive: the claims are finitely many.
ClaimsInv == IsFiniteSet(Claims) /\ NewCovAddsUp

LEMMA SameClaims ==
  ASSUME ClaimsInv, UNCHANGED <<seeds, generalCoverage, writeFailed>>
  PROVE  ClaimsInv'
  BY DEF ClaimsInv, Claims, NewCovAddsUp

LEMMA UselessClaims ==
  ASSUME IInv, ClaimsInv, SkipUseless
  PROVE  ClaimsInv'
<1> DEFINE cov == Head(op.rest).eval.Cov
<1>1. /\ op.call = "AddTestcases" /\ NewCov(cov) = 0 /\ NewGeneralCov(cov)
      /\ UNCHANGED <<seeds, writeFailed>>
  BY DEF SkipUseless, pool
<1>2. cov \in SUBSET Branch
  BY <1>1, AtTestcase DEF IInv
<1> HIDE DEF cov
<1>3. Cardinality(generalCoverage') = Cardinality(generalCoverage)
  BY <1>1, <1>2, MarkCounts DEF IInv
<1>4. Claims' = Claims
  BY <1>1 DEF Claims
<1> QED
  BY <1>1, <1>3, <1>4 DEF ClaimsInv, NewCovAddsUp

LEMMA SaveClaims ==
  ASSUME IInv, ClaimsInv, NEW written \in BOOLEAN, SaveTestcase(written)
  PROVE  ClaimsInv'
<1> DEFINE tc == Head(op.rest)
           n == NewCov(tc.eval.Cov)
           s == [ID |-> tc.eval.ID, Crash |-> tc.eval.HasCrash, NewCov |-> n, by |-> tc.by]
<1>1. /\ op.call = "AddTestcases" /\ tc.eval.ID \notin bloom
      /\ NewGeneralCov(tc.eval.Cov) /\ AddSeed(tc, written)
  BY DEF SaveTestcase
<1>2. tc.eval.Cov \in SUBSET Branch
  BY <1>1, AtTestcase DEF IInv
<1>3. /\ Cardinality(generalCoverage') = Cardinality(generalCoverage) + n
      /\ Cardinality(generalCoverage) \in Nat /\ n \in Nat
  BY <1>1, <1>2, MarkCounts DEF IInv
<1>4. IsFiniteSet(Claims) /\ Cardinality(Claims) \in Nat
  BY FS_CardinalityType DEF ClaimsInv
<1>5. Cardinality(Claims) <= Cardinality(generalCoverage)
      /\ (~writeFailed => Cardinality(Claims) = Cardinality(generalCoverage))
  BY DEF ClaimsInv, NewCovAddsUp
<1>6. CASE written
  <2>1. seeds' = seeds \cup {s} /\ writeFailed' = writeFailed
    BY <1>1, <1>6 DEF AddSeed
  <2>2. s \notin seeds
    <3>1. s.ID = tc.eval.ID
      OBVIOUS
    <3>2. \A t \in seeds : t.ID \in bloom
      BY DEF IInv, Filter
    <3> HIDE DEF s, tc
    <3> QED
      BY <1>1, <3>1, <3>2
  <2>3. s.NewCov = n
    OBVIOUS
  <2> HIDE DEF s, n, tc
  <2>4. Claims' = Claims \cup ({s} \X (1..n))
    BY <2>1, <2>3 DEF Claims
  <2>5. Claims \cap ({s} \X (1..n)) = {}
    BY <2>2 DEF Claims
  <2>6. IsFiniteSet({s} \X (1..n)) /\ Cardinality({s} \X (1..n)) = n
    BY <1>3, ClaimsOfOne
  <2>7. IsFiniteSet(Claims') /\ Cardinality(Claims') = Cardinality(Claims) + n
    BY <1>4, <2>4, <2>5, <2>6, DisjointCount
  <2>8. /\ Cardinality(Claims') <= Cardinality(generalCoverage')
        /\ ~writeFailed' => Cardinality(Claims') = Cardinality(generalCoverage')
    BY <1>3, <1>4, <1>5, <2>1, <2>7
  <2> QED
    BY <2>7, <2>8 DEF ClaimsInv, NewCovAddsUp
<1>7. CASE ~written
  <2>1. writeFailed' = TRUE /\ seeds' = seeds
    BY <1>1, <1>7 DEF AddSeed
  <2>2. Claims' = Claims
    BY <2>1 DEF Claims
  <2> HIDE DEF s, n, tc
  <2>3. Cardinality(Claims) <= Cardinality(generalCoverage')
    BY <1>3, <1>4, <1>5
  <2> QED
    BY <1>4, <2>1, <2>2, <2>3 DEF ClaimsInv, NewCovAddsUp
<1> QED
  BY <1>6, <1>7

LEMMA NextClaims == IInv /\ ClaimsInv /\ [Next]_vars => ClaimsInv'
<1> SUFFICES ASSUME IInv, ClaimsInv, [Next]_vars PROVE ClaimsInv'
  OBVIOUS
<1>1. CASE SkipUseless
  BY <1>1, UselessClaims
<1>2. ASSUME NEW ok \in BOOLEAN, SaveTestcase(ok) PROVE ClaimsInv'
  BY <1>2, SaveClaims
<1>3. ASSUME \/ \E f \in FuzzerID : AddFuzzer(f) \/ DeleteFuzzer(f) \/ VisitFuzzer(f)
             \/ \E ok \in BOOLEAN : AddFuzzerRegisters(ok)
             \/ DeleteFuzzerForgets \/ \E tcList \in Batches : AddTestcases(tcList)
             \/ SkipUnknown \/ AddTestcaseCoverage \/ SkipKnown
             \/ CreateAnalyze \/ AnalyzeReturns \/ UNCHANGED vars
      PROVE  ClaimsInv'
  <2>1. UNCHANGED <<seeds, generalCoverage, writeFailed>>
    BY <1>3 DEF AddFuzzer, DeleteFuzzer, VisitFuzzer, AddFuzzerRegisters, DeleteFuzzerForgets,
       AddTestcases, SkipUnknown, AddTestcaseCoverage, SkipKnown, CreateAnalyze,
       AnalyzeReturns, vars, pool
  <2> QED
    BY <2>1, SameClaims
<1> QED
  BY <1>1, <1>2, <1>3 DEF Next

\* However many testcases of however many fuzzers reach a branch, NewGeneralCov
\* credits it to one seed (infodb.go:131-145): what the seeds claim is what the
\* general coverage holds, less what was lost with a file.
THEOREM InfoDBNewCovAddsUp == Spec => []NewCovAddsUp
<1>1. Init => ClaimsInv
  <2> SUFFICES ASSUME Init PROVE ClaimsInv
    OBVIOUS
  <2>1. Claims = {} /\ generalCoverage = {}
    BY DEF Init, Claims
  <2>2. IsFiniteSet({}) /\ Cardinality({}) = 0
    BY FS_EmptySet
  <2> QED
    BY <2>1, <2>2 DEF ClaimsInv, NewCovAddsUp
<1>2. ClaimsInv => NewCovAddsUp
  BY DEF ClaimsInv
<1> QED
  BY <1>1, <1>2, NextClaims, InfoDBInvariant, PTL DEF Spec

-----------------------------------------------------------------------------
(* The analysis: sizes and quantiles *)

\* Parts of a finite set are no larger than it.
LEMMA SizeGrows ==
  ASSUME NEW T, IsFiniteSet(T), NEW S \in SUBSET T
  PROVE  /\ IsFiniteSet(S)
         /\ Cardinality(S) \in Nat /\ Cardinality(T) \in Nat
         /\ Cardinality(S) <= Cardinality(T)
BY FS_Subset, FS_CardinalityType

\* A set with two elements in it is not counted as one or none.
LEMMA TwoOrMore ==
  ASSUME NEW T, IsFiniteSet(T), NEW f \in T, NEW g \in T, f # g
  PROVE  Cardinality(T) >= 2
<1>1. IsFiniteSet({g}) /\ Cardinality({g}) = 1
  BY FS_Singleton
<1>2. Cardinality({g} \cup {f}) = 2
  BY <1>1, FS_AddElement
<1> QED
  BY <1>2, SizeGrows

\* If a value is below a quantile, so is every value that is no larger.
LEMMA BelowDown ==
  ASSUME NEW D, IsFiniteSet(D), NEW v \in [D -> Int], NEW x \in Int, NEW y \in Int,
         y <= x, NEW percent \in Int, Below(x, v, percent)
  PROVE  Below(y, v, percent)
<1> DEFINE S(z) == {i \in D : v[i] <= z}
<1>1. S(y) \subseteq S(x) /\ S(x) \subseteq D
  OBVIOUS
<1>2. Cardinality(S(y)) <= Cardinality(S(x))
      /\ Cardinality(S(y)) \in Nat /\ Cardinality(S(x)) \in Nat /\ Cardinality(D) \in Nat
  BY <1>1, SizeGrows
<1>3. 100 * Cardinality(S(x)) < percent * Cardinality(D) + 50
  BY DEF Below
<1> HIDE DEF S
<1>4. percent * Cardinality(D) + 50 \in Int
  BY <1>2
<1>5. 100 * Cardinality(S(y)) < percent * Cardinality(D) + 50
  BY <1>2, <1>3, <1>4
<1> QED
  BY <1>5 DEF Below, S

-----------------------------------------------------------------------------
(* The analysis: distances *)

\* The registered fuzzers and their coverages, as far as the analysis needs them.
CovTyped ==
  /\ Registered \subseteq Fuzzer
  /\ \A f \in Registered : fuzzerCov[f] \subseteq Index

LEMMA PairsFinite ==
  ASSUME CovTyped
  PROVE  /\ IsFiniteSet(Registered) /\ IsFiniteSet(Pairs)
         /\ \A p \in Pairs : p \subseteq Registered /\ p # {}
<1>1. IsFiniteSet(Registered)
  BY AnalysisAssumption, FS_Subset DEF CovTyped
<1>2. IsFiniteSet(SUBSET Registered)
  BY <1>1, FS_SUBSET
<1>3. \A p \in Pairs : p \subseteq Registered /\ p # {}
  BY DEF Pairs
<1>4. Pairs \in SUBSET (SUBSET Registered)
  BY <1>3
<1> QED
  BY <1>1, <1>2, <1>3, <1>4, FS_Subset

\* What two fuzzers share is part of what they cover together ...
LEMMA DistanceIs ==
  ASSUME CovTyped, NEW p \in Pairs
  PROVE  SqDist(p) \in Nat
<1> DEFINE U == UNION {fuzzerCov[f] : f \in p}
           S == {b \in Index : \A f \in p : b \in fuzzerCov[f]}
<1>1. p \subseteq Registered /\ p # {}
  BY PairsFinite
<1>2. U \subseteq Index /\ S \subseteq U
  BY <1>1 DEF CovTyped
<1>3. IsFiniteSet(U)
  BY <1>2, AnalysisAssumption, SizeGrows
<1>4. Cardinality(U) \in Nat /\ Cardinality(S) \in Nat /\ Cardinality(S) <= Cardinality(U)
  BY <1>2, <1>3, SizeGrows
<1> HIDE DEF U, S
<1>5. Cardinality(U) - Cardinality(S) \in Nat
  BY <1>4
<1> QED
  BY <1>5 DEF SqDist, U, S

\* ... and all of it, if they cover the same.
LEMMA EqualsAreClose ==
  ASSUME CovTyped, NEW f \in Registered, NEW g \in Registered,
         fuzzerCov[f] = fuzzerCov[g]
  PROVE  {f, g} \in Pairs /\ SqDist({f, g}) = 0
<1>1. UNION {fuzzerCov[h] : h \in {f, g}} = fuzzerCov[f]
  OBVIOUS
<1>2. {b \in Index : \A h \in {f, g} : b \in fuzzerCov[h]} = fuzzerCov[f]
  BY DEF CovTyped
<1>3. Cardinality(fuzzerCov[f]) \in Nat
  BY AnalysisAssumption, SizeGrows DEF CovTyped
<1>4. SqDist({f, g}) = Cardinality(fuzzerCov[f]) - Cardinality(fuzzerCov[f])
  BY <1>1, <1>2 DEF SqDist
<1>5. {f, g} \in Pairs
  BY DEF Pairs
<1> QED
  BY <1>3, <1>4, <1>5

-----------------------------------------------------------------------------
(* The analysis: groups *)

Closed(near) == {S \in SUBSET Registered : \A p \in near : p \cap S # {} => p \subseteq S}

Group(near, f) == {g \in Registered : \A S \in Closed(near) : f \in S => g \in S}

LEMMA ClustersAre ==
  \A percent : Clusters(percent) =
    {C \in {Group(Near(percent), f) : f \in Registered} : Cardinality(C) > 1}
BY DEF Clusters, Group, Closed

\* The groups partition the registered fuzzers.
LEMMA GroupOfMember ==
  ASSUME NEW near, near \subseteq Pairs, NEW f \in Registered, NEW g \in Group(near, f)
  PROVE  Group(near, g) = Group(near, f)
<1>1. ASSUME NEW S \in Closed(near), g \in S PROVE f \in S
  <2>1. SUFFICES ASSUME f \notin S PROVE FALSE
    OBVIOUS
  <2>2. Registered \ S \in Closed(near)
    <3>1. ASSUME NEW p \in near, p \cap (Registered \ S) # {}
          PROVE  p \subseteq Registered \ S
      <4>1. p \subseteq Registered
        BY DEF Pairs
      <4>2. ~(p \subseteq S)
        BY <3>1
      <4>3. p \cap S = {}
        BY <1>1, <4>2 DEF Closed
      <4> QED
        BY <4>1, <4>3
    <3> QED
      BY <3>1 DEF Closed
  <2>3. g \in Registered \ S
    BY <2>1, <2>2 DEF Group
  <2> QED
    BY <1>1, <2>3
<1>2. g \in Registered /\ \A S \in Closed(near) : f \in S => g \in S
  BY DEF Group
<1> QED
  BY <1>1, <1>2 DEF Group

\* Near fuzzers are in one group, and who is near to nobody else is alone.
LEMMA GroupOfNear ==
  ASSUME NEW near, NEW f \in Registered, NEW g \in Registered, {f, g} \in near
  PROVE  f \in Group(near, f) /\ g \in Group(near, f)
BY DEF Group, Closed

LEMMA AloneInGroup ==
  ASSUME NEW near, near \subseteq Pairs, NEW f \in Registered,
         \A p \in near : f \in p => p = {f}
  PROVE  Group(near, f) = {f}
<1>1. {f} \in Closed(near)
  BY DEF Closed
<1> QED
  BY <1>1 DEF Group

\* If a cluster was found at all, fuzzers with equal coverage are near.
LEMMA EqualsAreNear ==
  ASSUME CovTyped, NEW percent \in Int, Clusters(percent) # {},
         NEW f \in Registered, NEW g \in Registered, fuzzerCov[f] = fuzzerCov[g]
  PROVE  {f, g} \in Near(percent)
<1>1. PICK h \in Registered : Cardinality(Group(Near(percent), h)) > 1
  BY ClustersAre
<1>2. Near(percent) # {}
  <2>1. SUFFICES ASSUME Near(percent) = {} PROVE FALSE
    OBVIOUS
  <2>2. Group(Near(percent), h) = {h}
    BY <2>1, AloneInGroup
  <2> QED
    BY <1>1, <2>2, FS_Singleton
<1>3. PICK p \in Pairs : Below(Distances[p], Distances, percent)
  BY <1>2 DEF Near
<1>4. Distances \in [Pairs -> Int] /\ Distances[p] >= 0
  BY DistanceIs DEF Distances
<1>5. {f, g} \in Pairs /\ Distances[{f, g}] = 0
  BY EqualsAreClose DEF Distances
<1>6. Below(0, Distances, percent)
  BY <1>3, <1>4, PairsFinite, BelowDown
<1> QED
  BY <1>5, <1>6 DEF Near

-----------------------------------------------------------------------------
(* The analysis: who is bad *)

\* A set of naturals has a least element ...
LEMMA LeastOf ==
  ASSUME NEW T \in SUBSET Nat, T # {}
  PROVE  \E m \in T : \A k \in T : m <= k
<1> DEFINE R == OpToRel(<, Nat)
<1>1. IsWellFoundedOn(R, Nat)
  BY NatLessThanWellFounded
<1>2. \A x, y \in Nat : x < y => <<x, y>> \in R
  BY DEF OpToRel
<1> HIDE DEF R
<1>3. PICK x \in T : \A y \in T : ~ (<<y, x>> \in R)
  BY <1>1, WFMin
<1>4. ASSUME NEW y \in T PROVE ~(y < x)
  BY <1>2, <1>3
<1> QED
  BY <1>4

\* ... so that the percentages that fit have a largest, the first one tried.
LEMMA LargestFits ==
  ASSUME NEW fits \in SUBSET Tried, fits # {}
  PROVE  Max(fits) \in fits
<1> DEFINE T == {i \in 0..19 : 50 - 2 * i \in fits}
<1>1. T \in SUBSET Nat /\ T # {}
  <2>1. PICK q \in fits : q \in Tried
    OBVIOUS
  <2>2. PICK i \in 0..19 : q = 50 - 2 * i
    BY <2>1 DEF Tried
  <2>3. 50 - 2 * i \in fits
    BY <2>1, <2>2
  <2>4. i \in T
    BY <2>3
  <2>5. 0..19 \in SUBSET Nat
    OBVIOUS
  <2>6. T \in SUBSET Nat
    BY <2>5
  <2> QED
    BY <2>4, <2>6
<1>2. PICK m \in T : \A k \in T : m <= k
  BY <1>1, LeastOf
<1>3. 50 - 2 * m \in fits /\ \A q \in fits : 50 - 2 * m >= q
  <2>1. ASSUME NEW q \in fits PROVE 50 - 2 * m >= q
    <3>1. PICK i \in 0..19 : q = 50 - 2 * i
      BY DEF Tried
    <3>2. i \in T /\ m \in 0..19
      BY <3>1
    <3>3. m <= i
      BY <1>2, <3>2
    <3> QED
      BY <3>1, <3>2, <3>3
  <2> QED
    BY <2>1
<1> QED
  BY <1>3 DEF Max

\* What the loop over the percentages comes to: nothing, or the groups at one of
\* them and the fuzzers that are in no cluster of it.
LEMMA ClusteringIs ==
  \/ Clustering = [clusters |-> {}, noise |-> {}]
  \/ \E q \in Tried : /\ Clustering = [clusters |-> Clusters(q),
                                       noise |-> Registered \ UNION Clusters(q)]
                      /\ ~(10 * Cardinality(Registered \ UNION Clusters(q))
                             >= 8 * Cardinality(Registered))
<1> DEFINE at == [q \in Tried |-> Clusters(q)]
           fits == {q \in Tried : \A C \in at[q] : ~TooLarge(C)}
           found == at[Max(fits)]
           noise == Registered \ UNION found
<1>1. Clustering = IF fits = {} \/ 10 * Cardinality(noise) >= 8 * Cardinality(Registered)
                   THEN [clusters |-> {}, noise |-> {}]
                   ELSE [clusters |-> found, noise |-> noise]
  BY DEF Clustering
<1>2. fits # {} => Max(fits) \in Tried
  BY LargestFits
<1> HIDE DEF fits
<1>3. fits # {} => found = Clusters(Max(fits))
  BY <1>2
<1> QED
  BY <1>1, <1>2, <1>3

\* No fuzzer is in two clusters.
LEMMA ClustersApart ==
  ASSUME NEW q, NEW C \in Clusters(q), NEW D \in Clusters(q), NEW f \in C, f \in D
  PROVE  C = D
<1>1. PICK c \in Registered : C = Group(Near(q), c)
  BY ClustersAre
<1>2. PICK d \in Registered : D = Group(Near(q), d)
  BY ClustersAre
<1>3. Near(q) \subseteq Pairs
  BY DEF Near
<1> QED
  BY <1>1, <1>2, <1>3, GroupOfMember

\* Candidates are registered, the noise and the clusters apart; of each of the
\* largest clusters at most one is.
LEMMA BadIs ==
  ASSUME CovTyped, NEW bad \in BadSets, bad # {}
  PROVE  \E q \in Tried :
           /\ Clusters(q) # {}
           /\ \A f \in bad : /\ f \in Registered
                             /\ \/ f \notin UNION Clusters(q)
                                \/ \E C \in Clusters(q) : f \in Weakest(C)
           /\ \A C \in Clusters(q) : \A f, g \in bad \cap Weakest(C) : f = g
<1> DEFINE clusters == Clustering.clusters
           noise == Clustering.noise
           weak == {Weakest(C) : C \in Largest(clusters)} \ {{}}
<1>1. PICK picks \in SUBSET UNION weak :
        /\ bad = BadNoise(noise) \cup picks
        /\ \A W \in weak : Cardinality(picks \cap W) = 1
  BY DEF BadSets
<1>2. BadNoise(noise) \subseteq noise
  BY DEF BadNoise
<1>3. \A C : Weakest(C) \subseteq C
  BY DEF Weakest
<1>4. Largest(clusters) \subseteq clusters
  BY DEF Largest
<1>5. PICK q \in Tried :
        /\ clusters = Clusters(q) /\ noise = Registered \ UNION Clusters(q)
        /\ ~(10 * Cardinality(Registered \ UNION Clusters(q))
                >= 8 * Cardinality(Registered))
  <2>1. CASE Clustering = [clusters |-> {}, noise |-> {}]
    <3>1. clusters = {} /\ noise = {}
      BY <2>1
    <3> HIDE DEF clusters, noise
    <3>2. bad = {}
      BY <1>1, <1>2, <1>4, <3>1
    <3> QED
      BY <3>2
  <2>2. ASSUME NEW q \in Tried,
               Clustering = [clusters |-> Clusters(q),
                             noise |-> Registered \ UNION Clusters(q)]
        PROVE  clusters = Clusters(q) /\ noise = Registered \ UNION Clusters(q)
    BY <2>2
  <2> HIDE DEF clusters, noise
  <2> QED
    BY <2>1, <2>2, ClusteringIs
<1> HIDE DEF clusters, noise
<1>6. \A C \in Clusters(q) : C \subseteq Registered
  BY ClustersAre DEF Group
<1>7. Clusters(q) # {}
  <2>1. SUFFICES ASSUME Clusters(q) = {} PROVE FALSE
    OBVIOUS
  <2>2. Registered \ UNION Clusters(q) = Registered
    BY <2>1
  <2>3. Cardinality(Registered) \in Nat
    BY PairsFinite, FS_CardinalityType
  <2>4. 10 * Cardinality(Registered) >= 8 * Cardinality(Registered)
    BY <2>3
  <2> QED
    BY <1>5, <2>2, <2>4
<1>8. ASSUME NEW f \in bad
      PROVE  /\ f \in Registered
             /\ \/ f \notin UNION Clusters(q)
                \/ \E C \in Clusters(q) : f \in Weakest(C)
  <2>1. CASE f \in noise
    BY <1>5, <2>1
  <2>2. CASE f \in picks
    <3>1. PICK C \in Largest(clusters) : f \in Weakest(C)
      BY <1>1, <2>2
    <3>2. C \in Clusters(q) /\ f \in C
      BY <1>3, <1>4, <1>5, <3>1
    <3> QED
      BY <1>6, <3>1, <3>2
  <2> QED
    BY <1>1, <1>2, <2>1, <2>2
<1>9. ASSUME NEW C \in Clusters(q), NEW f \in bad \cap Weakest(C),
             NEW g \in bad \cap Weakest(C), f # g
      PROVE  FALSE
  <2>1. f \in C /\ g \in C
    BY <1>3
  <2>2. f \in picks /\ g \in picks
    BY <1>1, <1>2, <1>5, <2>1
  <2>3. PICK D \in Largest(clusters) : f \in Weakest(D)
    BY <1>1, <2>2
  <2>4. D \in Clusters(q) /\ f \in D
    BY <1>3, <1>4, <1>5, <2>3
  <2>5. C = D
    BY <2>1, <2>4, ClustersApart
  <2>6. Weakest(C) \in weak
    BY <2>3, <2>5
  <2>7. Cardinality(picks \cap Weakest(C)) = 1
    BY <1>1, <2>6
  <2>8. IsFiniteSet(picks \cap Weakest(C))
    <3>1. picks \cap Weakest(C) \subseteq Registered
      BY <1>3, <1>6
    <3> QED
      BY <3>1, PairsFinite, SizeGrows
  <2>9. f \in picks \cap Weakest(C) /\ g \in picks \cap Weakest(C)
    BY <2>2
  <2>10. Cardinality(picks \cap Weakest(C)) >= 2
    BY <1>9, <2>8, <2>9, TwoOrMore
  <2> QED
    BY <2>7, <2>10
<1> QED
  BY <1>5, <1>7, <1>8, <1>9

\* Two candidates never cover the same.
LEMMA BadDiffer ==
  ASSUME CovTyped, NEW bad \in BadSets, NEW f \in bad, NEW g \in bad, f # g
  PROVE  fuzzerCov[f] # fuzzerCov[g]
<1> SUFFICES ASSUME fuzzerCov[f] = fuzzerCov[g] PROVE FALSE
  OBVIOUS
<1>1. PICK q \in Tried :
        /\ Clusters(q) # {}
        /\ \A h \in bad : /\ h \in Registered
                          /\ \/ h \notin UNION Clusters(q)
                             \/ \E C \in Clusters(q) : h \in Weakest(C)
        /\ \A C \in Clusters(q) : \A h, k \in bad \cap Weakest(C) : h = k
  BY BadIs
<1>2. q \in Int
  BY DEF Tried
<1>3. {f, g} \in Near(q)
  BY <1>1, <1>2, EqualsAreNear
<1> DEFINE C == Group(Near(q), f)
<1>4. f \in C /\ g \in C /\ C \subseteq Registered
  BY <1>1, <1>3, GroupOfNear DEF Group
<1>5. C \in Clusters(q)
  <2>1. IsFiniteSet(C)
    BY <1>4, PairsFinite, SizeGrows
  <2>2. Cardinality(C) \in Nat /\ Cardinality(C) >= 2
    BY <1>4, <2>1, TwoOrMore, FS_CardinalityType
  <2>3. C \in {Group(Near(q), h) : h \in Registered}
    BY <1>1
  <2> HIDE DEF C
  <2>4. Cardinality(C) > 1
    BY <2>2
  <2> QED
    BY <2>3, <2>4, ClustersAre
<1> HIDE DEF C
<1>6. \A D \in Clusters(q) : \A h \in Weakest(D) : h \in D
  BY DEF Weakest
<1>7. f \in Weakest(C) /\ g \in Weakest(C)
  <2>1. ASSUME NEW h \in {f, g} PROVE h \in Weakest(C)
    <3>1. PICK D \in Clusters(q) : h \in Weakest(D)
      BY <1>1, <1>4, <1>5
    <3>2. D = C
      BY <1>4, <1>5, <1>6, <3>1, ClustersApart
    <3> QED
      BY <3>1, <3>2
  <2> QED
    BY <2>1
<1> QED
  BY <1>1, <1>5, <1>7

-----------------------------------------------------------------------------
(* The analysis: its properties *)

LEMMA BadFinite ==
  ASSUME CovTyped, NEW bad \in BadSets
  PROVE  bad \subseteq Registered /\ IsFiniteSet(bad)
<1>1. bad \subseteq Registered
  BY BadIs
<1> QED
  BY <1>1, PairsFinite, SizeGrows

\* The detectors come back empty only if no candidate covers anything of its own.
LEMMA PanicsIs ==
  ASSUME NEW bad, Panics(bad), NEW f \in bad
  PROVE  Unique(f, bad) = {}
<1> DEFINE useless == {g \in bad : Unique(g, bad) = {}}
<1>1. {} \in detectByUniqueCoverage(bad)
  BY DEF Panics
<1>2. useless # {}
  <2>1. SUFFICES ASSUME useless = {} PROVE FALSE
    OBVIOUS
  <2>2. detectByUniqueCoverage(bad) =
          {{g} : g \in {h \in bad : \A k \in bad :
             Cardinality(Unique(h, bad)) <= Cardinality(Unique(k, bad))}}
    BY <2>1 DEF detectByUniqueCoverage
  <2> QED
    BY <1>1, <2>2
<1>3. detectByUniqueCoverage(bad) = {IF useless = bad THEN {} ELSE useless}
  BY <1>2 DEF detectByUniqueCoverage
<1>4. useless = bad
  BY <1>1, <1>2, <1>3
<1> QED
  BY <1>4

LEMMA TypedPanics ==
  ASSUME CovTyped, NEW bad \in BadSets, Panics(bad)
  PROVE  Cardinality(bad) >= 3
<1>1. IsFiniteSet(bad) /\ bad \subseteq Registered /\ Cardinality(bad) \in Nat
      /\ Cardinality(bad) > 1
  BY BadFinite, FS_CardinalityType DEF Panics
<1>2. PICK f \in bad : TRUE
  <2>1. bad # {}
    BY <1>1, FS_EmptySet
  <2> QED
    BY <2>1
<1>3. IsFiniteSet(bad \ {f}) /\ Cardinality(bad \ {f}) = Cardinality(bad) - 1
  BY <1>1, FS_RemoveElement
<1>4. PICK g \in bad \ {f} : TRUE
  <2>1. bad \ {f} # {}
    BY <1>1, <1>3, FS_EmptySet
  <2> QED
    BY <2>1
<1>5. fuzzerCov[f] # fuzzerCov[g]
  BY <1>4, BadDiffer
<1>6. SUFFICES ASSUME bad = {f, g} PROVE FALSE
  <2>1. IsFiniteSet((bad \ {f}) \ {g})
        /\ Cardinality((bad \ {f}) \ {g}) = Cardinality(bad) - 2
    <3>1. Cardinality((bad \ {f}) \ {g}) = Cardinality(bad \ {f}) - 1
          /\ IsFiniteSet((bad \ {f}) \ {g})
      BY <1>3, <1>4, FS_RemoveElement
    <3> QED
      BY <1>1, <1>3, <3>1
  <2>2. (bad \ {f}) \ {g} # {}
    BY <1>6, <1>4
  <2>3. Cardinality((bad \ {f}) \ {g}) # 0 /\ Cardinality((bad \ {f}) \ {g}) \in Nat
    BY <2>1, <2>2, FS_EmptySet, FS_CardinalityType
  <2> QED
    BY <1>1, <2>1, <2>3
<1>7. Unique(f, bad) = {} /\ Unique(g, bad) = {}
  BY PanicsIs
<1>8. fuzzerCov[f] \subseteq fuzzerCov[g] /\ fuzzerCov[g] \subseteq fuzzerCov[f]
  BY <1>4, <1>6, <1>7 DEF Unique
<1> QED
  BY <1>5, <1>8

\* The advice is one of the candidates.
LEMMA AdviceIs ==
  ASSUME NEW bad
  PROVE  /\ Advice(bad) \subseteq bad
         /\ ~(Cardinality(bad) <= 1) =>
              \A f \in Advice(bad) : \A g \in bad :
                \/ Unique(f, bad) = {}
                \/ Cardinality(Unique(f, bad)) <= Cardinality(Unique(g, bad))
<1> DEFINE useless == {f \in bad : Unique(f, bad) = {}}
           least == {f \in bad : \A g \in bad :
                       Cardinality(Unique(f, bad)) <= Cardinality(Unique(g, bad))}
<1>1. detectByUniqueCoverage(bad) =
        IF useless # {} THEN {IF useless = bad THEN {} ELSE useless}
        ELSE {{f} : f \in least}
  BY DEF detectByUniqueCoverage
<1>2. \A S \in detectByUniqueCoverage(bad) : S \subseteq useless \/ S \subseteq least
  <2> HIDE DEF useless, least
  <2>1. CASE useless # {}
    BY <1>1, <2>1
  <2>2. CASE useless = {}
    BY <1>1, <2>2
  <2> QED
    BY <2>1, <2>2
<1>3. CASE Cardinality(bad) <= 1
  BY <1>3 DEF Advice
<1>4. CASE ~(Cardinality(bad) <= 1)
  <2>1. \A f \in Advice(bad) : \E S \in detectByUniqueCoverage(bad) : f \in S
    BY <1>4 DEF Advice
  <2>2. Advice(bad) \subseteq useless \cup least
    BY <1>2, <2>1
  <2> QED
    BY <2>2
<1> QED
  BY <1>3, <1>4

LEMMA TypedSpares == CovTyped => AdviceSparesUnique
<1> SUFFICES ASSUME CovTyped, NEW bad \in BadSets, NEW f \in Advice(bad), NEW g \in bad
             PROVE  Cardinality(Unique(f, bad)) <= Cardinality(Unique(g, bad))
  BY DEF AdviceSparesUnique
<1>1. f \in bad /\ bad \subseteq Registered /\ IsFiniteSet(bad)
  BY AdviceIs, BadFinite
<1>2. \A h \in bad : Cardinality(Unique(h, bad)) \in Nat
  <2>1. ASSUME NEW h \in bad PROVE Unique(h, bad) \subseteq Index
    BY <1>1 DEF Unique, CovTyped
  <2> QED
    BY <2>1, AnalysisAssumption, SizeGrows
<1>3. CASE Cardinality(bad) <= 1
  <2>1. f = g
    <3>1. SUFFICES ASSUME f # g PROVE FALSE
      OBVIOUS
    <3>2. Cardinality(bad) >= 2 /\ Cardinality(bad) \in Nat
      BY <1>1, <3>1, TwoOrMore, FS_CardinalityType
    <3> QED
      BY <1>3, <3>2
  <2> QED
    BY <1>2, <2>1
<1>4. CASE ~(Cardinality(bad) <= 1)
  <2>1. \/ Unique(f, bad) = {}
        \/ Cardinality(Unique(f, bad)) <= Cardinality(Unique(g, bad))
    BY <1>4, AdviceIs
  <2>2. Cardinality({}) = 0
    BY FS_EmptySet
  <2>3. Unique(f, bad) = {} => Cardinality(Unique(f, bad)) = 0
    BY <2>2
  <2> QED
    BY <1>2, <2>1, <2>3
<1> QED
  BY <1>3, <1>4

LEMMA CovTypeIsTyped == CovTypeOK => CovTyped
BY DEF CovTypeOK, CovTyped

LEMMA CovTypeInit == CovInit => CovTypeOK
BY DEF CovInit, CovTypeOK, Registered

\* A fuzzer's coverage only grows, so that no norm falls below an earlier one.
LEMMA CovTypeNext == CovTypeOK /\ [CovNext]_covvars => CovTypeOK'
<1> SUFFICES ASSUME CovTypeOK, [CovNext]_covvars PROVE CovTypeOK'
  OBVIOUS
<1>1. /\ Registered \subseteq Fuzzer /\ DOMAIN sqNorm = Registered
      /\ \A f \in Registered : fuzzerCov[f] \subseteq Index /\ sqNorm[f] \in 0..Size(f)
      /\ advised \in Fuzzer \cup {Nobody} /\ status \in {"running", "panicked"}
  BY DEF CovTypeOK
<1>2. \A c \in SUBSET Index : IsFiniteSet(c) /\ Cardinality(c) \in Nat
  BY AnalysisAssumption, SizeGrows
<1>3. ASSUME NEW f \in Fuzzer, CovAddFuzzer(f) PROVE CovTypeOK'
  <2>1. /\ UNCHANGED <<advised, status>> /\ f \notin Registered
        /\ fuzzerCov' = [g \in Registered \cup {f} |-> IF g = f THEN {} ELSE fuzzerCov[g]]
        /\ sqNorm' = [g \in Registered \cup {f} |-> IF g = f THEN 0 ELSE sqNorm[g]]
    BY <1>3 DEF CovAddFuzzer
  <2>2. Registered' = Registered \cup {f} /\ DOMAIN sqNorm' = Registered'
    BY <2>1 DEF Registered
  <2>3. ASSUME NEW g \in Registered'
        PROVE  fuzzerCov'[g] \subseteq Index /\ sqNorm'[g] \in 0..Size(g)'
    <3>1. CASE g = f
      <4>1. fuzzerCov'[g] = {} /\ sqNorm'[g] = 0
        BY <2>1, <3>1
      <4>2. Cardinality(fuzzerCov'[g]) = 0
        BY <4>1, FS_EmptySet
      <4> QED
        BY <4>1, <4>2 DEF Size
    <3>2. CASE g # f
      <4>1. g \in Registered /\ fuzzerCov'[g] = fuzzerCov[g] /\ sqNorm'[g] = sqNorm[g]
        BY <2>1, <2>2, <3>2
      <4> QED
        BY <1>1, <4>1 DEF Size
    <3> QED
      BY <3>1, <3>2
  <2> QED
    BY <1>1, <2>1, <2>2, <2>3 DEF CovTypeOK
<1>4. ASSUME NEW f \in Fuzzer, CovDeleteFuzzer(f) PROVE CovTypeOK'
  <2>1. /\ UNCHANGED <<advised, status>>
        /\ fuzzerCov' = [g \in Registered \ {f} |-> fuzzerCov[g]]
        /\ sqNorm' = [g \in Registered \ {f} |-> sqNorm[g]]
    BY <1>4 DEF CovDeleteFuzzer
  <2>2. Registered' = Registered \ {f} /\ DOMAIN sqNorm' = Registered'
    BY <2>1 DEF Registered
  <2>3. ASSUME NEW g \in Registered'
        PROVE  fuzzerCov'[g] \subseteq Index /\ sqNorm'[g] \in 0..Size(g)'
    <3>1. g \in Registered /\ fuzzerCov'[g] = fuzzerCov[g] /\ sqNorm'[g] = sqNorm[g]
      BY <2>1, <2>2
    <3> QED
      BY <1>1, <3>1 DEF Size
  <2> QED
    BY <1>1, <2>1, <2>2, <2>3 DEF CovTypeOK
<1>5. ASSUME NEW f \in Fuzzer, NEW c \in SUBSET Index, CovAddTestcase(f, c)
      PROVE  CovTypeOK'
  <2>1. /\ UNCHANGED <<sqNorm, advised, status>> /\ f \in Registered
        /\ fuzzerCov' = [fuzzerCov EXCEPT ![f] = @ \cup c]
    BY <1>5 DEF CovAddTestcase
  <2>2. Registered' = Registered
    BY <2>1 DEF Registered
  <2>3. ASSUME NEW g \in Registered
        PROVE  fuzzerCov'[g] \subseteq Index /\ sqNorm'[g] \in 0..Size(g)'
    <3>1. fuzzerCov'[g] = IF g = f THEN fuzzerCov[g] \cup c ELSE fuzzerCov[g]
      BY <2>1 DEF Registered
    <3>2. fuzzerCov[g] \subseteq fuzzerCov'[g] /\ fuzzerCov'[g] \subseteq Index
      BY <1>1, <3>1
    <3>3. Cardinality(fuzzerCov[g]) <= Cardinality(fuzzerCov'[g])
          /\ Cardinality(fuzzerCov[g]) \in Nat /\ Cardinality(fuzzerCov'[g]) \in Nat
      BY <1>2, <3>2, SizeGrows
    <3>4. sqNorm'[g] \in 0..Cardinality(fuzzerCov[g])
      BY <1>1, <2>1 DEF Size
    <3> QED
      BY <3>2, <3>3, <3>4 DEF Size
  <2> QED
    BY <1>1, <2>1, <2>2, <2>3 DEF CovTypeOK
<1>6. CASE Analyse
  <2>1. UNCHANGED fuzzerCov /\ sqNorm' = [f \in Registered |-> Size(f)]
    BY <1>6 DEF Analyse
  <2>2. PICK bad \in BadSets :
          \/ status' = "panicked" /\ UNCHANGED advised
          \/ /\ advised' \in IF bad = {} THEN {Nobody} ELSE Advice(bad)
             /\ UNCHANGED status
    BY <1>6 DEF Analyse
  <2>3. status' \in {"running", "panicked"}
    BY <1>1, <2>2
  <2>4. advised' \in Fuzzer \cup {Nobody}
    <3>1. bad \subseteq Registered
      BY BadFinite, CovTypeIsTyped
    <3>2. Advice(bad) \subseteq Fuzzer
      BY <1>1, <3>1, AdviceIs
    <3> QED
      BY <1>1, <2>2, <3>2
  <2>5. Registered' = Registered /\ \A f : Size(f)' = Size(f)
    BY <2>1 DEF Registered, Size
  <2>6. \A f \in Registered : Size(f) \in 0..Size(f)
    BY <1>1, <1>2 DEF Size
  <2> QED
    BY <1>1, <2>1, <2>3, <2>4, <2>5, <2>6 DEF CovTypeOK
<1>7. CASE UNCHANGED covvars
  BY <1>1, <1>7 DEF covvars, CovTypeOK, Registered, Size
<1> QED
  BY <1>3, <1>4, <1>5, <1>6, <1>7 DEF CovNext

\* Type correctness of the analysis; no speed is negative.
THEOREM AnalysisTypeOK == CovSpec => []CovTypeOK
BY CovTypeInit, CovTypeNext, PTL DEF CovSpec

\* Fuzzers with equal coverage are at distance zero and so in one cluster, of
\* which one is taken: whatever the number of fuzzers, the detectors come back
\* empty (distance.go:161) only for three candidates or more.
THEOREM AnalysisPanicNeedsThree == CovSpec => []PanicNeedsThree
<1>1. CovTypeOK => PanicNeedsThree
  BY CovTypeIsTyped, TypedPanics DEF PanicNeedsThree
<1> QED
  BY <1>1, AnalysisTypeOK, PTL

\* Whoever is advised against covers no more of its own than any other candidate
\* (detectByUniqueCoverage).
THEOREM AnalysisSparesUnique == CovSpec => []AdviceSparesUnique
<1>1. CovTypeOK => AdviceSparesUnique
  BY CovTypeIsTyped, TypedSpares
<1> QED
  BY <1>1, AnalysisTypeOK, PTL

=============================================================================
