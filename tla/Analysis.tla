------------------------------ MODULE Analysis ------------------------------
(***************************************************************************)
(* The periodic analysis of the fuzzers' coverage: CreateAnalyze           *)
(* (core/infodb/coverage.go) groups the fuzzers by the distance of their   *)
(* coverages and startAnalysis (core/master/distance.go) advises to drop   *)
(* one.  Coverage is a set of branches, so that the norm of a fuzzer is    *)
(* the root of its size and the distance of two fuzzers the root of the    *)
(* size of their symmetric difference.                                     *)
(*                                                                         *)
(* External: the quantiles of tdigest, which for so few values interpolate *)
(* between neighbours, and DBSCAN, which for two points per neighbourhood  *)
(* returns the connected groups of near fuzzers and calls the rest noise.  *)
(***************************************************************************)
EXTENDS Integers, FiniteSets, FiniteSetsExt

CONSTANTS
  Fuzzer,   \* entities.ElementID of the fuzzers
  Index     \* indices of the coverage map

ASSUME AnalysisAssumption == IsFiniteSet(Fuzzer) /\ IsFiniteSet(Index)

VARIABLES
  fuzzerCov, \* CovData.Fuzzers: coverage of the registered fuzzers
  sqNorm,    \* fuzzer.SqNorm: its size at the last analysis
  advised,   \* the fuzzer of the last advice, or Nobody
  status     \* of the master process

covvars == <<fuzzerCov, sqNorm, advised, status>>

Nobody == "nobody"

Registered == DOMAIN fuzzerCov

CovInit ==
  /\ fuzzerCov = [f \in {} |-> {}]
  /\ sqNorm = [f \in {} |-> 0]
  /\ advised = Nobody
  /\ status = "running"

-----------------------------------------------------------------------------
(* Norms, distances and quantiles *)

\* math.Sqrt of the sizes there are, in thousandths.
Sqrt == [n \in 0 .. Cardinality(Index) |->
           CHOOSE r \in 0 .. 1000 * n :
             r * r <= 1000000 * n /\ (r + 1) * (r + 1) > 1000000 * n]

Size(f) == Cardinality(fuzzerCov[f])

\* Norm.Speed: how far the fuzzer moved since the last analysis.
Speed(f) == Sqrt[Size(f)] - Sqrt[sqNorm[f]]

\* x < Quantile(percent) of the values: fewer of them are at most x than the
\* rank of the upper neighbour of the quantile.
Below(x, values, percent) ==
  100 * Cardinality({i \in DOMAIN values : values[i] <= x})
    < percent * Cardinality(DOMAIN values) + 50

\* distFn of every pair; a fuzzer with itself counts as a pair.
Pairs == {{f, g} : f, g \in Registered}

SqDist(p) ==
  Cardinality(UNION {fuzzerCov[f] : f \in p})
    - Cardinality({b \in Index : \A f \in p : b \in fuzzerCov[f]})

Distances == [p \in Pairs |-> SqDist(p)]

-----------------------------------------------------------------------------
(* CreateAnalyze *)

\* DBSCAN with the quantile as its radius: pairs of fuzzers that are near, and
\* the groups that near fuzzers form.
Near(percent) ==
  LET dist == Distances
  IN {p \in Pairs : Below(dist[p], dist, percent)}

Clusters(percent) ==
  LET near == Near(percent)
      closed == {S \in SUBSET Registered : \A p \in near : p \cap S # {} => p \subseteq S}
      group(f) == {g \in Registered : \A S \in closed : f \in S => g \in S}
  IN {C \in {group(f) : f \in Registered} : Cardinality(C) > 1}

\* The percentages the loop tries.
Tried == {50 - 2 * i : i \in 0..19}

TooLarge(C) == 2 * Cardinality(C) > Cardinality(Registered)

\* The first radius at which no cluster holds more than half of the fuzzers,
\* unless four fifths of them are noise then: no result in that case.
Clustering ==
  LET at == [q \in Tried |-> Clusters(q)]
      fits == {q \in Tried : \A C \in at[q] : ~TooLarge(C)}
      found == at[Max(fits)]
      noise == Registered \ UNION found
  IN IF fits = {} \/ 10 * Cardinality(noise) >= 8 * Cardinality(Registered)
     THEN [clusters |-> {}, noise |-> {}]
     ELSE [clusters |-> found, noise |-> noise]

-----------------------------------------------------------------------------
(* startAnalysis *)

Norms == [f \in Registered |-> Size(f)]
Speeds == [f \in Registered |-> Speed(f)]

BadNoise(noise) ==
  LET norms == Norms
      speeds == Speeds
  IN {f \in noise : Below(norms[f], norms, 50) /\ Below(speeds[f], speeds, 50)}

\* The candidates of a cluster: of its slow fuzzers those with the least norm
\* (of several the one that comes first in the map's order).
Weakest(C) ==
  LET speeds == Speeds
      slow == {f \in C : Below(speeds[f], speeds, 66)}
  IN {f \in slow : \A g \in slow : Size(f) <= Size(g)}

Largest(clusters) ==
  {C \in clusters : \A D \in clusters : Cardinality(D) <= Cardinality(C)}

BadSets_EveryWeakest ==
  LET found == Clustering
  IN {BadNoise(found.noise) \cup UNION {Weakest(C) : C \in Largest(found.clusters)}}

\* What bad may be: the bad noise and one fuzzer of every largest cluster.
BadSets ==
  LET found == Clustering
      bad == BadNoise(found.noise)
      weak == {Weakest(C) : C \in Largest(found.clusters)} \ {{}}
  IN {bad \cup picks :
        picks \in {S \in SUBSET UNION weak : \A W \in weak : Cardinality(S \cap W) = 1}}

\* The branches that of all the bad only f covers.
Unique(f, bad) == {b \in fuzzerCov[f] : \A g \in bad \ {f} : b \notin fuzzerCov[g]}

detectByUniqueCoverage_NoSort(bad) == {{f} : f \in bad}

\* What it may return: nothing when no bad fuzzer has a branch of its own, all
\* that have none, or one with the fewest.
detectByUniqueCoverage(bad) ==
  LET useless == {f \in bad : Unique(f, bad) = {}}
  IN IF useless # {} THEN {IF useless = bad THEN {} ELSE useless}
     ELSE {{f} : f \in {g \in bad : \A h \in bad :
             Cardinality(Unique(g, bad)) <= Cardinality(Unique(h, bad))}}

\* The advice for one choice of bad: whom it may name.
Advice(bad) ==
  IF Cardinality(bad) <= 1 THEN bad
  ELSE UNION {{f \in S : \A g \in S : Size(f) <= Size(g)} :
                S \in detectByUniqueCoverage(bad)}

\* detectByNormAndSpeed takes the first of the fuzzers it is given.
Panics(bad) == Cardinality(bad) > 1 /\ {} \in detectByUniqueCoverage(bad)

-----------------------------------------------------------------------------
CovAddFuzzer(f) ==
  /\ status = "running"
  /\ f \notin Registered
  /\ fuzzerCov' = [g \in Registered \cup {f} |-> IF g = f THEN {} ELSE fuzzerCov[g]]
  /\ sqNorm' = [g \in Registered \cup {f} |-> IF g = f THEN 0 ELSE sqNorm[g]]
  /\ UNCHANGED <<advised, status>>

CovDeleteFuzzer(f) ==
  /\ status = "running"
  /\ f \in Registered
  /\ fuzzerCov' = [g \in Registered \ {f} |-> fuzzerCov[g]]
  /\ sqNorm' = [g \in Registered \ {f} |-> sqNorm[g]]
  /\ UNCHANGED <<advised, status>>

CovAddTestcase(f, c) ==
  /\ status = "running"
  /\ f \in Registered
  /\ fuzzerCov' = [fuzzerCov EXCEPT ![f] = @ \cup c]
  /\ UNCHANGED <<sqNorm, advised, status>>

\* The tick of the analysis: calculate also stores the new norms.
Analyse ==
  /\ status = "running"
  /\ sqNorm' = [f \in Registered |-> Size(f)]
  /\ \E bad \in BadSets :
       IF Panics(bad)
       THEN /\ status' = "panicked"
            /\ UNCHANGED advised
       ELSE /\ advised' \in IF bad = {} THEN {Nobody} ELSE Advice(bad)
            /\ UNCHANGED status
  /\ UNCHANGED fuzzerCov

CovNext ==
  \/ \E f \in Fuzzer : \/ CovAddFuzzer(f)
                       \/ CovDeleteFuzzer(f)
                       \/ \E c \in SUBSET Index : CovAddTestcase(f, c)
  \/ Analyse

CovSpec == CovInit /\ [][CovNext]_covvars

-----------------------------------------------------------------------------
(* Properties *)

\* Every variable keeps its type; a fuzzer's coverage never falls below what
\* the last analysis saw, so that no speed is negative.
CovTypeOK ==
  /\ Registered \subseteq Fuzzer
  /\ \A f \in Registered : fuzzerCov[f] \subseteq Index /\ sqNorm[f] \in 0..Size(f)
  /\ DOMAIN sqNorm = Registered
  /\ advised \in Fuzzer \cup {Nobody}
  /\ status \in {"running", "panicked"}

\* No speed is negative, and two bad fuzzers are never indistinguishable: equal
\* coverage is distance zero and one cluster, of which one member is taken.
\* detectByUniqueCoverage comes back empty (distance.go:161) only for three or
\* more.
PanicNeedsThree ==
  /\ CovTypeOK
  /\ \A bad \in BadSets : Panics(bad) => Cardinality(bad) >= 3

\* Whoever may be advised against has the fewest branches of its own among the
\* bad: where one of them covers nothing the others miss, so does the advised.
AdviceSparesUnique ==
  \A bad \in BadSets : \A f \in Advice(bad), g \in bad :
    Cardinality(Unique(f, bad)) <= Cardinality(Unique(g, bad))

=============================================================================
