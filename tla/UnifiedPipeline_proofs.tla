------------------------ MODULE UnifiedPipeline_proofs ------------------------
(***************************************************************************)
(* Proofs about recovery-path discovery and the pipeline built on it, for  *)
(* any graphs, probes and error budgets.                                   *)
(***************************************************************************)
EXTENDS UnifiedPipeline, DataInduction

AllVars == <<vars, pipelineVars>>

-----------------------------------------------------------------------------
(* Traces and survivors.                                                   *)

TraceOf(x) == [1..Experiment[x].buckets -> SUBSET Nodes]

LEMMA TraceTypes ==
  ASSUME NEW x \in Probes
  PROVE  /\ Experiment[x].buckets \in Nat
         /\ Experiment[x].checkpoints \subseteq Nodes
         /\ \A g \in Ids : PredictTrace[g][x] \in TraceOf(x)
<1>1. Experiment[x] \in DiscoveryExperiment
  BY GraphsAssumption
<1>2. Experiment[x].buckets \in Nat /\ Experiment[x].checkpoints \subseteq Nodes
  BY <1>1 DEF DiscoveryExperiment
<1>3. ASSUME NEW g \in Ids PROVE PredictTrace[g][x] \in TraceOf(x)
  BY <1>2 DEF PredictTrace, TraceOf
<1>. QED  BY <1>2, <1>3

\* Distances are numbers, and only equal traces have distance 0.
LEMMA DistanceType ==
  ASSUME NEW x \in Probes, NEW s \in TraceOf(x), NEW t \in TraceOf(x)
  PROVE  /\ TraceDistance(s, t) \in Nat
         /\ TraceDistance(s, t) = 0 => s = t
<1>. DEFINE wrong == { p \in (DOMAIN s) \X Nodes : (p[2] \in s[p[1]]) # (p[2] \in t[p[1]]) }
<1>1. TraceDistance(s, t) = Cardinality(wrong)
  BY DEF TraceDistance
<1>2. IsFiniteSet(wrong)
  <2>1. DOMAIN s = 1..Experiment[x].buckets
    BY DEF TraceOf
  <2>2. IsFiniteSet((DOMAIN s) \X Nodes)
    <3>1. IsFiniteSet(DOMAIN s) /\ IsFiniteSet(Nodes)
      BY <2>1, TraceTypes, FS_Interval, GraphsAssumption
    <3>. QED  BY <3>1, FS_Product
  <2>. QED  BY <2>2, FS_Subset
<1>3. wrong = {} => s = t
  <2>. SUFFICES ASSUME wrong = {} PROVE s = t
    OBVIOUS
  <2>1. ASSUME NEW k \in DOMAIN s PROVE s[k] = t[k]
    <3>1. \A n \in Nodes : <<k, n>> \notin wrong
      OBVIOUS
    <3>2. \A n \in Nodes : n \in s[k] <=> n \in t[k]
      BY <3>1
    <3>. QED  BY <3>2 DEF TraceOf
  <2>2. DOMAIN s = DOMAIN t /\ s = [k \in DOMAIN s |-> s[k]] /\ t = [k \in DOMAIN t |-> t[k]]
    BY DEF TraceOf
  <2>. QED  BY <2>1, <2>2
<1>. HIDE DEF wrong
<1>. QED  BY <1>1, <1>2, <1>3, FS_CardinalityType, FS_EmptySet
-----------------------------------------------------------------------------
(* Discovery: what has been observed is within the noise of the truth, and *)
(* probing has ended only where it should.                                 *)

TrialOK ==
  /\ trial \in Trials
  /\ DOMAIN observations \subseteq Probes
  /\ \A x \in DOMAIN observations : observations[x] \in TraceOf(x)

ObservedTruth ==
  \A x \in DOMAIN observations :
    TraceDistance(PredictTrace[trial.truth][x], observations[x]) <= trial.noise

ProbedOut == trial.planner = "minimax" /\ pc # "probe" => ~ Separable

DiscoveryInv == TrialOK /\ ObservedTruth /\ ProbedOut

LEMMA TrialTypes ==
  ASSUME TrialOK
  PROVE  /\ trial.truth \in Ids
         /\ trial.space \subseteq Ids /\ IsFiniteSet(trial.space)
         /\ trial.budget \in Nat /\ trial.noise \in Nat /\ trial.noise <= trial.budget
         /\ trial.planner = "policy" => trial.budget = 0 /\ trial.valid
<1>1. trial \in Trial /\ trial.noise <= trial.budget
      /\ (trial.planner = "policy" => trial.budget = 0 /\ trial.valid)
  BY TrialsAssumption DEF TrialOK
<1>2. /\ trial.truth \in Ids /\ trial.space \subseteq Ids
      /\ trial.budget \in Nat /\ trial.noise \in Nat
  BY <1>1 DEF Trial
<1>3. IsFiniteSet(trial.space)
  BY <1>2, FS_Subset, GraphsAssumption
<1>. QED  BY <1>1, <1>2, <1>3

\* One more observation, and what it is of.
LEMMA ObservedMore ==
  ASSUME TrialOK, ObservedTruth, NEW x \in Probes, NEW t \in Shown(x),
         observations' = Observed(x, t), trial' = trial
  PROVE  TrialOK' /\ ObservedTruth'
<1>1. /\ DOMAIN observations' = DOMAIN observations \union {x}
      /\ observations'[x] = t
      /\ \A y \in DOMAIN observations \ {x} : observations'[y] = observations[y]
  BY DEF Observed, Used
<1>2. /\ t \in TraceOf(x)
      /\ TraceDistance(PredictTrace[trial.truth][x], t) <= trial.noise
  <2>1. DOMAIN PredictTrace[trial.truth][x] = 1..Experiment[x].buckets
        /\ Experiment[x].checkpoints \subseteq Nodes
    BY TraceTypes, TrialTypes DEF TraceOf
  <2>. QED  BY <2>1 DEF Shown, TraceOf
<1>. QED  BY <1>1, <1>2 DEF TrialOK, ObservedTruth

\* Survivors depend on what was observed only.
LEMMA SameSurvivors ==
  ASSUME UNCHANGED <<trial, observations>>
  PROVE  /\ Surviving' = Surviving /\ Verdict' = Verdict
         /\ Separable' = Separable
BY DEF Surviving, Verdict, Separable, Stopped, Used

LEMMA DiscoveryStep ==
  ASSUME DiscoveryInv, [Next]_vars
  PROVE  DiscoveryInv'
<1>1. ASSUME UNCHANGED <<trial, observations, pc>> PROVE DiscoveryInv'
  BY <1>1, SameSurvivors DEF DiscoveryInv, TrialOK, ObservedTruth, ProbedOut
<1>2. ASSUME NEW x \in Probes, Probe(x) PROVE DiscoveryInv'
  <2>1. TrialOK' /\ ObservedTruth'
    BY <1>2, ObservedMore DEF Probe, DiscoveryInv
  <2>. QED  BY <1>2, <2>1 DEF Probe, DiscoveryInv, ProbedOut
<1>3. ASSUME NEW x \in Probes, FollowPolicy(x) PROVE DiscoveryInv'
  <2>1. TrialOK' /\ ObservedTruth'
    BY <1>3, ObservedMore DEF FollowPolicy, DiscoveryInv
  <2>. QED  BY <1>3, <2>1 DEF FollowPolicy, DiscoveryInv, ProbedOut
<1>4. CASE Decide
  BY <1>4, SameSurvivors DEF Decide, DiscoveryInv, TrialOK, ObservedTruth, ProbedOut
<1>5. CASE EndPolicy
  BY <1>5, SameSurvivors DEF EndPolicy, DiscoveryInv, TrialOK, ObservedTruth, ProbedOut
<1>6. CASE GiveUp
  BY <1>6, SameSurvivors DEF GiveUp, DiscoveryInv, TrialOK, ObservedTruth, ProbedOut
<1>7. CASE Guard
  BY <1>7, SameSurvivors DEF Guard, DiscoveryInv, TrialOK, ObservedTruth, ProbedOut
<1>8. CASE Round \/ EndReplay
  BY <1>8, SameSurvivors DEF Round, EndReplay, DiscoveryInv, TrialOK, ObservedTruth, ProbedOut
<1>. QED  BY <1>1, <1>2, <1>3, <1>4, <1>5, <1>6, <1>7, <1>8 DEF Next, Ended, vars

LEMMA DiscoveryStart == Init => DiscoveryInv
BY DEF Init, DiscoveryInv, TrialOK, ObservedTruth, ProbedOut

-----------------------------------------------------------------------------
\* The truth survives whatever was observed within the error budget.
LEMMA TruthSurvives ==
  ASSUME DiscoveryInv, TruthListed
  PROVE  trial.truth \in Surviving
<1>1. ASSUME NEW x \in DOMAIN observations
      PROVE  TraceDistance(PredictTrace[trial.truth][x], observations[x]) <= trial.budget
  <2>1. /\ TraceDistance(PredictTrace[trial.truth][x], observations[x]) \in Nat
        /\ TraceDistance(PredictTrace[trial.truth][x], observations[x]) <= trial.noise
        /\ trial.noise \in Nat /\ trial.budget \in Nat /\ trial.noise <= trial.budget
    BY <1>1, TrialTypes, TraceTypes, DistanceType DEF DiscoveryInv, TrialOK, ObservedTruth
  <2>. QED  BY <2>1
<1>. QED  BY <1>1 DEF Surviving, Survivors, TruthListed

LEMMA SurvivingFinite ==
  ASSUME TrialOK
  PROVE  Surviving \subseteq trial.space /\ Surviving \subseteq Ids /\ IsFiniteSet(Surviving)
<1>1. Surviving \subseteq trial.space
  BY DEF Surviving, Survivors
<1>. QED  BY <1>1, TrialTypes, FS_Subset

LEMMA ConfidentInvariant == DiscoveryInv => ConfidentIsRight
<1>. SUFFICES ASSUME DiscoveryInv, trial.valid, TruthListed
              PROVE  /\ trial.truth \in Surviving
                     /\ Verdict = "GRAPH_DISCOVERED" => Surviving = {trial.truth}
                     /\ Verdict = "PATH_CLASS_DISCOVERED" =>
                          \A g \in Surviving : RelevantSignature[g] = RelevantSignature[trial.truth]
  BY DEF ConfidentIsRight
<1>1. trial.truth \in Surviving /\ IsFiniteSet(Surviving)
  BY TruthSurvives, SurvivingFinite DEF DiscoveryInv
<1>2. ASSUME Verdict = "GRAPH_DISCOVERED" PROVE Surviving = {trial.truth}
  <2>1. Cardinality(Surviving) = 1
    BY <1>2 DEF Verdict, DiscoveryVerdict, Surviving
  <2>2. PICK g : Surviving = {g}
    BY <2>1, <1>1, FS_Singleton
  <2>. QED  BY <2>2, <1>1
<1>3. ASSUME Verdict = "PATH_CLASS_DISCOVERED", NEW g \in Surviving
      PROVE  RelevantSignature[g] = RelevantSignature[trial.truth]
  <2>1. Cardinality({ RelevantSignature[h] : h \in Surviving }) = 1
    BY <1>3 DEF Verdict, DiscoveryVerdict, Surviving
  <2>. QED  BY <2>1, <1>1, ImageFinite
<1>. QED  BY <1>1, <1>2, <1>3

\* Without noise an executed probe has shown the trace of every survivor.
LEMMA ExecutedDoNotSeparate ==
  ASSUME DiscoveryInv, trial.budget = 0, NEW x \in Used, NEW g \in Surviving
  PROVE  PredictTrace[g][x] = observations[x]
<1>1. /\ x \in Probes /\ g \in Ids /\ observations[x] \in TraceOf(x)
      /\ TraceDistance(PredictTrace[g][x], observations[x]) <= 0
  BY SurvivingFinite DEF DiscoveryInv, TrialOK, Surviving, Survivors, Used
<1>2. TraceDistance(PredictTrace[g][x], observations[x]) \in Nat
  BY <1>1, TraceTypes, DistanceType
<1>. QED  BY <1>1, <1>2, TraceTypes, DistanceType

LEMMA StopsInvariant == DiscoveryInv => StopsOnlyWhenInseparable
<1>. SUFFICES ASSUME DiscoveryInv, pc # "probe", trial.planner = "minimax",
                     trial.budget = 0, Surviving # {}, trial.valid,
                     NEW x \in Probes
              PROVE  Cardinality(Traces(Surviving, x)) = 1
  BY DEF StopsOnlyWhenInseparable
<1>. DEFINE traceOf == [g \in Surviving |-> PredictTrace[g][x]]
<1>1. IsFiniteSet(Surviving)
  BY SurvivingFinite DEF DiscoveryInv
<1>2. Traces(Surviving, x) = { traceOf[g] : g \in Surviving }
  BY DEF Traces
<1>3. CASE x \in Used
  <2>1. \A g, h \in Surviving : traceOf[g] = traceOf[h]
    BY <1>3, ExecutedDoNotSeparate
  <2>2. Cardinality({ traceOf[g] : g \in Surviving }) = 1
    <3>. HIDE DEF traceOf
    <3>. QED  BY <2>1, <1>1, ImageFinite
  <2>. QED  BY <2>2, <1>2
<1>4. CASE x \notin Used
  <2>1. Verdict \notin {"UNVERIFIED", "OUT_OF_HYPOTHESIS"}
    BY DEF Verdict, DiscoveryVerdict, Surviving
  <2>2. ~ Separates(Surviving, x)
    BY <1>4, <2>1 DEF DiscoveryInv, ProbedOut, Separable, Stopped, Candidates
  <2>3. IsFiniteSet(Traces(Surviving, x)) /\ Traces(Surviving, x) # {}
    <3>1. Traces(Surviving, x) # {}
      BY <1>2
    <3>. HIDE DEF traceOf
    <3>. QED  BY <3>1, <1>1, <1>2, ImageFinite
  <2>4. /\ Cardinality(Traces(Surviving, x)) \in Nat
        /\ Cardinality(Traces(Surviving, x)) # 0
    BY <2>3, FS_CardinalityType, FS_EmptySet
  <2>. QED  BY <2>2, <2>4 DEF Separates
<1>. QED  BY <1>3, <1>4

-----------------------------------------------------------------------------
(* Guards on recovery paths are enough: what cuts every recovery path of a *)
(* graph keeps its data away from the residual nodes, over all its edges.  *)

GraphOK(g) ==
  /\ Graph[g].edges \subseteq Edges
  /\ Graph[g].initial \subseteq Nodes /\ Graph[g].residual \subseteq Nodes

LEMMA GraphTypes == \A g \in Ids : GraphOK(g)
BY GraphsAssumption DEF GraphHypothesis, GraphOK

LEMMA NodesAlongChain ==
  ASSUME NEW start \in Nodes, NEW n \in Nat, NEW p \in [1..n -> Edges]
  PROVE  /\ NodesAlong(start, p) \in [1..(n + 1) -> Nodes]
         /\ Len(NodesAlong(start, p)) = n + 1
         /\ NodesAlong(start, p)[1] = start
         /\ \A k \in 1..n : NodesAlong(start, p)[k + 1] = TargetOf[p[k]]
<1>. DEFINE targets == [k \in DOMAIN p |-> TargetOf[p[k]]]
<1>1. targets \in [1..n -> Nodes] /\ \A k \in 1..n : targets[k] = TargetOf[p[k]]
  BY GraphsAssumption
<1>2. targets \in Seq(Nodes) /\ Len(targets) = n
  BY <1>1
<1>3. NodesAlong(start, p) = <<start>> \o targets
  BY DEF NodesAlong
<1>. HIDE DEF targets
<1>4. /\ Len(<<start>> \o targets) = n + 1 /\ <<start>> \o targets \in Seq(Nodes)
      /\ (<<start>> \o targets)[1] = start
      /\ \A k \in 1..n : (<<start>> \o targets)[k + 1] = targets[k]
  BY <1>2
<1>5. <<start>> \o targets \in [1..(n + 1) -> Nodes]
  <2>1. \A s \in Seq(Nodes) : s \in [1..Len(s) -> Nodes]
    OBVIOUS
  <2>. QED  BY <2>1, <1>4
<1>. QED  BY <1>1, <1>3, <1>4, <1>5

\* p is a walk of n edges among E, along different nodes that are not in R, from
\* start to last.
Trail(E, R, start, n, p, last) ==
  /\ p \in [1..n -> E]
  /\ \A k \in 1..n : SourceOf[p[k]] = NodesAlong(start, p)[k]
  /\ \A j, k \in 1..(n + 1) :
       NodesAlong(start, p)[j] = NodesAlong(start, p)[k] => j = k
  /\ \A k \in 1..(n + 1) : NodesAlong(start, p)[k] \notin R
  /\ NodesAlong(start, p)[n + 1] = last

\* Different nodes are no more than there are.
LEMMA ChainsAreShort ==
  ASSUME NEW n \in Nat, NEW node \in [1..n -> Nodes],
         \A j, k \in 1..n : node[j] = node[k] => j = k
  PROVE  n <= Cardinality(Nodes) /\ Cardinality(Nodes) \in Nat
<1>1. node \in Injection(1..n, Nodes)
  BY DEF Injection, IsInjective
<1>2. Cardinality(1..n) = n
  BY FS_Interval
<1>. QED  BY <1>1, <1>2, FS_Injection, FS_CardinalityType, GraphsAssumption

LEMMA TrailCut ==
  ASSUME NEW E \in SUBSET Edges, NEW R, NEW start \in Nodes, NEW n \in Nat, NEW p,
         NEW last, Trail(E, R, start, n, p, last),
         NEW j \in 1..(n + 1)
  PROVE  \E q : Trail(E, R, start, j - 1, q, NodesAlong(start, p)[j])
<1>. DEFINE q == [k \in 1..(j - 1) |-> p[k]]
<1>1. p \in [1..n -> Edges] /\ q \in [1..(j - 1) -> Edges] /\ j - 1 \in Nat
  BY DEF Trail
<1>2. /\ NodesAlong(start, p)[1] = start
      /\ \A k \in 1..n : NodesAlong(start, p)[k + 1] = TargetOf[p[k]]
  BY <1>1, NodesAlongChain
<1>3. /\ NodesAlong(start, q)[1] = start
      /\ \A k \in 1..(j - 1) : NodesAlong(start, q)[k + 1] = TargetOf[q[k]]
  <2>. HIDE DEF q
  <2>. QED  BY <1>1, NodesAlongChain
<1>4. ASSUME NEW k \in 1..j
      PROVE  NodesAlong(start, q)[k] = NodesAlong(start, p)[k]
  <2>1. CASE k = 1
    BY <2>1, <1>2, <1>3
  <2>2. CASE k # 1
    <3>1. k - 1 \in 1..(j - 1) /\ k - 1 \in 1..n /\ (k - 1) + 1 = k
      BY <2>2
    <3>. QED  BY <3>1, <1>2, <1>3
  <2>. QED  BY <2>1, <2>2
<1>5. q \in [1..(j - 1) -> E] /\ \A k \in 1..(j - 1) : q[k] = p[k]
  BY DEF Trail
<1>. HIDE DEF q
<1>. QED  BY <1>4, <1>5 DEF Trail

\* q is such a walk but for its last node, target, which may be in R.
Grown(R, start, n, q, target) ==
  LET node == NodesAlong(start, q)
  IN  /\ node \in [1..(n + 2) -> Nodes] /\ Len(node) = n + 2
      /\ node[1] = start /\ node[n + 2] = target
      /\ \A k \in 1..(n + 1) : /\ SourceOf[q[k]] = node[k]
                               /\ TargetOf[q[k]] = node[k + 1]
                               /\ node[k] \notin R
      /\ \A j, k \in 1..(n + 2) : node[j] = node[k] => j = k

\* A walk over one more edge, to a node that is not on it.
LEMMA TrailGrows ==
  ASSUME NEW E \in SUBSET Edges, NEW R, NEW start \in Nodes, NEW n \in Nat, NEW p,
         NEW last, Trail(E, R, start, n, p, last),
         NEW d \in E, SourceOf[d] = last,
         \A k \in 1..(n + 1) : NodesAlong(start, p)[k] # TargetOf[d]
  PROVE  \E q \in [1..(n + 1) -> E] : Grown(R, start, n, q, TargetOf[d])
<1>. DEFINE q == [k \in 1..(n + 1) |-> IF k = n + 1 THEN d ELSE p[k]]
            old == NodesAlong(start, p)
            node == NodesAlong(start, q)
<1>1. /\ p \in [1..n -> Edges] /\ q \in [1..(n + 1) -> Edges] /\ q \in [1..(n + 1) -> E]
      /\ \A k \in 1..n : q[k] = p[k]
      /\ q[n + 1] = d
  BY DEF Trail
<1>. HIDE DEF q
<1>2. old[1] = start /\ \A k \in 1..n : old[k + 1] = TargetOf[p[k]]
  BY <1>1, NodesAlongChain
<1>3. /\ node \in [1..(n + 2) -> Nodes] /\ Len(node) = n + 2
      /\ node[1] = start
      /\ \A k \in 1..(n + 1) : node[k + 1] = TargetOf[q[k]]
  <2>1. n + 1 \in Nat /\ (n + 1) + 1 = n + 2
    OBVIOUS
  <2>. QED  BY <1>1, <2>1, NodesAlongChain
<1>. HIDE DEF node, old
<1>4. ASSUME NEW k \in 1..(n + 1) PROVE node[k] = old[k]
  <2>1. CASE k = 1
    BY <2>1, <1>2, <1>3
  <2>2. CASE k # 1
    <3>1. k - 1 \in 1..n /\ k - 1 \in 1..(n + 1) /\ (k - 1) + 1 = k
      BY <2>2
    <3>2. node[(k - 1) + 1] = TargetOf[q[k - 1]]
      BY <3>1, <1>3
    <3>3. old[(k - 1) + 1] = TargetOf[p[k - 1]]
      BY <3>1, <1>2
    <3>. QED  BY <3>1, <3>2, <3>3, <1>1
  <2>. QED  BY <2>1, <2>2
<1>5. node[n + 2] = TargetOf[d]
  BY <1>1, <1>3, (n + 1) + 1 = n + 2
<1>6. /\ \A k \in 1..n : SourceOf[p[k]] = old[k]
      /\ \A j, k \in 1..(n + 1) : old[j] = old[k] => j = k
      /\ \A k \in 1..(n + 1) : old[k] \notin R /\ old[k] # TargetOf[d]
      /\ old[n + 1] = SourceOf[d]
  BY DEF Trail, old
<1>7. ASSUME NEW k \in 1..(n + 1)
      PROVE  SourceOf[q[k]] = node[k] /\ TargetOf[q[k]] = node[k + 1] /\ node[k] \notin R
  <2>1. CASE k = n + 1
    BY <2>1, <1>1, <1>3, <1>4, <1>6
  <2>2. CASE k # n + 1
    <3>1. k \in 1..n
      BY <2>2
    <3>. QED  BY <3>1, <1>1, <1>3, <1>4, <1>6
  <2>. QED  BY <2>1, <2>2
<1>8. ASSUME NEW j \in 1..(n + 2), NEW k \in 1..(n + 2), node[j] = node[k] PROVE j = k
  <2>1. CASE j # n + 2 /\ k # n + 2
    <3>1. j \in 1..(n + 1) /\ k \in 1..(n + 1)
      BY <2>1
    <3>. QED  BY <3>1, <1>4, <1>6, <1>8
  <2>2. CASE j = n + 2 /\ k # n + 2
    <3>1. k \in 1..(n + 1)
      BY <2>2
    <3>. QED  BY <2>2, <3>1, <1>4, <1>5, <1>6, <1>8
  <2>3. CASE j # n + 2 /\ k = n + 2
    <3>1. j \in 1..(n + 1)
      BY <2>3
    <3>. QED  BY <2>3, <3>1, <1>4, <1>5, <1>6, <1>8
  <2>. QED  BY <2>1, <2>2, <2>3
<1>9. q \in [1..(n + 1) -> E]
  BY <1>1
<1>. QED  BY <1>3, <1>5, <1>7, <1>8, <1>9 DEF node, Grown

\* The recovery paths a chain of that form is among.
LEMMA GrownIsRecovery ==
  ASSUME NEW g \in Ids, NEW start \in Graph[g].initial, NEW n \in Nat,
         NEW q \in [1..(n + 1) -> Graph[g].edges], NEW target \in Graph[g].residual,
         Grown(Graph[g].residual, start, n, q, target)
  PROVE  \A k \in 1..(n + 1) : q[k] \in RelevantEdges(g)
<1>. DEFINE node == NodesAlong(start, q)
<1>0. /\ node \in [1..(n + 2) -> Nodes] /\ Len(node) = n + 2
      /\ node[n + 2] \in Graph[g].residual
      /\ \A k \in 1..(n + 1) : SourceOf[q[k]] = node[k] /\ node[k] \notin Graph[g].residual
      /\ \A j, k \in 1..(n + 2) : node[j] = node[k] => j = k
  BY DEF Grown
<1>1. n + 2 <= Cardinality(Nodes) /\ Cardinality(Nodes) \in Nat
  <2>. HIDE DEF node
  <2>. QED  BY <1>0, ChainsAreShort, n + 2 \in Nat
<1>2. q \in Chains(Graph[g].edges)
  <2>1. n + 1 \in 0..(Cardinality(Nodes) - 1)
    BY <1>1
  <2>. QED  BY <2>1 DEF Chains
<1>3. DOMAIN q = 1..(n + 1) /\ DOMAIN node = 1..(n + 2)
  BY <1>0
<1>4. \A k \in DOMAIN node : node[k] \in Graph[g].residual <=> k = Len(node)
  <2>. SUFFICES ASSUME NEW k \in 1..(n + 2)
                PROVE  node[k] \in Graph[g].residual <=> k = n + 2
    BY <1>0, <1>3
  <2>1. CASE k = n + 2
    BY <1>0, <2>1
  <2>2. CASE k # n + 2
    <3>1. k \in 1..(n + 1)
      BY <2>2
    <3>. QED  BY <1>0, <3>1, <2>2
  <2>. QED  BY <2>1, <2>2
<1>5. IsInjective(node)
  BY <1>0, <1>3 DEF IsInjective
<1>6. q \in RecoveryPathsFrom(Graph[g], start)
  BY <1>0, <1>2, <1>3, <1>4, <1>5 DEF RecoveryPathsFrom
<1>7. q \in RelevantSignature[g]
  BY <1>6 DEF RelevantSignature
<1>. QED  BY <1>3, <1>7 DEF RelevantEdges, ToSet

\* A set that a chain starts in and its edges do not leave has its last node.
LEMMA ClosedAlong ==
  ASSUME NEW m \in Nat, NEW node, NEW closed, node[1] \in closed,
         \A k \in 1..m : node[k] \in closed => node[k + 1] \in closed
  PROVE  node[m + 1] \in closed
<1>. DEFINE out == { k \in 1..(m + 1) : node[k] \notin closed }
<1>. SUFFICES ASSUME out # {} PROVE FALSE
  OBVIOUS
<1>1. PICK k \in out : \A j \in out : k <= j
  <2>1. out \in SUBSET Nat
    OBVIOUS
  <2>. HIDE DEF out
  <2>. QED  BY <2>1, LeastNat
<1>2. k # 1 /\ k \in 1..(m + 1) /\ node[k] \notin closed
  BY <1>1
<1>3. k - 1 \in 1..m /\ k - 1 \in 1..(m + 1) /\ ~ (k <= k - 1) /\ (k - 1) + 1 = k
  BY <1>2
<1>4. node[k - 1] \in closed
  BY <1>1, <1>3
<1>. QED  BY <1>2, <1>3, <1>4

\* edges do not lead out of closed.
Closed(edges, closed) ==
  \A e \in edges : SourceOf[e] \in closed => TargetOf[e] \in closed

LEMMA GuardsAreEnough ==
  ASSUME NEW g \in Ids, NEW S, ScenarioHolds(g, S)
  PROVE  \E refuge \in SUBSET (Nodes \ Graph[g].residual) :
           Graph[g].initial \subseteq refuge /\ Closed(Graph[g].edges \ S, refuge)
<1>. DEFINE E == Graph[g].edges \ S
            R == Graph[g].residual
            At(n) == \E start \in Graph[g].initial, m \in Nat : \E p : Trail(E, R, start, m, p, n)
            refuge == { n \in Nodes : At(n) }
<1>0. GraphOK(g) /\ E \in SUBSET Edges
  BY GraphTypes DEF GraphOK
<1>1. PICK closed \in SUBSET (Nodes \ R) :
        /\ Graph[g].initial \subseteq closed
        /\ Closed(RelevantEdges(g) \ S, closed)
  BY DEF ScenarioHolds, Closed
<1>2. Graph[g].initial \subseteq refuge
  <2>. SUFFICES ASSUME NEW n \in Graph[g].initial PROVE n \in Nodes /\ At(n)
    OBVIOUS
  <2>1. n \in Nodes /\ n \notin R
    BY <1>0, <1>1 DEF GraphOK
  <2>2. /\ <<>> \in [1..0 -> Edges] /\ <<>> \in [1..0 -> E]
    OBVIOUS
  <2>3. NodesAlong(n, <<>>)[1] = n
    BY <2>1, <2>2, NodesAlongChain, 0 \in Nat
  <2>4. Trail(E, R, n, 0, <<>>, n)
    BY <2>1, <2>2, <2>3 DEF Trail
  <2>. HIDE DEF E, R
  <2>. QED  BY <2>1, <2>4
<1>3. refuge \subseteq Nodes \ R
  <2>. SUFFICES ASSUME NEW n \in refuge PROVE n \notin R
    OBVIOUS
  <2>0. PICK start \in Graph[g].initial, m \in Nat : \E p : Trail(E, R, start, m, p, n)
    OBVIOUS
  <2>1. PICK p : Trail(E, R, start, m, p, n)
    BY <2>0
  <2>. QED  BY <2>1, m + 1 \in 1..(m + 1) DEF Trail
<1>4. ASSUME NEW d \in E, SourceOf[d] \in refuge PROVE TargetOf[d] \in refuge
  <2>0. PICK start \in Graph[g].initial, n \in Nat : \E p : Trail(E, R, start, n, p, SourceOf[d])
    BY <1>4
  <2>1. PICK p : Trail(E, R, start, n, p, SourceOf[d])
    BY <2>0
  <2>2. start \in Nodes /\ start \in closed /\ TargetOf[d] \in Nodes
    BY <1>0, <1>1, <1>4, GraphsAssumption DEF GraphOK
  <2>3. CASE \E j \in 1..(n + 1) : NodesAlong(start, p)[j] = TargetOf[d]
    <3>1. PICK j \in 1..(n + 1) : NodesAlong(start, p)[j] = TargetOf[d]
      BY <2>3
    <3>2. \E q : Trail(E, R, start, j - 1, q, TargetOf[d])
      <4>. HIDE DEF E, R
      <4>. QED  BY <1>0, <2>1, <2>2, <3>1, TrailCut
    <3>3. j - 1 \in Nat
      OBVIOUS
    <3>. HIDE DEF E, R
    <3>. QED  BY <2>2, <3>2, <3>3
  <2>4. CASE \A j \in 1..(n + 1) : NodesAlong(start, p)[j] # TargetOf[d]
    <3>0. PICK q \in [1..(n + 1) -> E] : Grown(R, start, n, q, TargetOf[d])
      <4>. HIDE DEF E, R
      <4>. QED  BY <1>0, <1>4, <2>1, <2>2, <2>4, TrailGrows
    <3>. DEFINE node == NodesAlong(start, q)
    <3>1. /\ node \in [1..(n + 2) -> Nodes] /\ Len(node) = n + 2
          /\ node[1] = start /\ node[n + 2] = TargetOf[d]
          /\ \A k \in 1..(n + 1) : /\ SourceOf[q[k]] = node[k]
                                   /\ TargetOf[q[k]] = node[k + 1]
                                   /\ node[k] \notin R
          /\ \A j, k \in 1..(n + 2) : node[j] = node[k] => j = k
      BY <3>0 DEF Grown
    <3>2. CASE TargetOf[d] \in R
      <4>1. q \in [1..(n + 1) -> Graph[g].edges]
        BY <3>1
      <4>2. \A k \in 1..(n + 1) : q[k] \in RelevantEdges(g)
        BY <3>0, <3>2, <4>1, GrownIsRecovery
      <4>3. \A k \in 1..(n + 1) : q[k] \in RelevantEdges(g) \ S
        BY <3>1, <4>2
      <4>4. \A k \in 1..(n + 1) : node[k] \in closed => node[k + 1] \in closed
        BY <1>1, <3>1, <4>3 DEF Closed
      <4>5. node[(n + 1) + 1] \in closed
        <5>1. node[1] \in closed /\ n + 1 \in Nat
          BY <2>2, <3>1
        <5>. HIDE DEF node
        <5>. QED  BY <4>4, <5>1, ClosedAlong
      <4>. QED  BY <1>1, <3>1, <3>2, <4>5, (n + 1) + 1 = n + 2
    <3>3. CASE TargetOf[d] \notin R
      <4>1. Trail(E, R, start, n + 1, q, TargetOf[d])
        <5>1. (n + 1) + 1 = n + 2
          OBVIOUS
        <5>2. \A k \in 1..(n + 2) : node[k] \notin R
          <6>. SUFFICES ASSUME NEW k \in 1..(n + 2) PROVE node[k] \notin R
            OBVIOUS
          <6>1. k = n + 2 \/ k \in 1..(n + 1)
            OBVIOUS
          <6>. QED  BY <3>1, <3>3, <6>1
        <5>. HIDE DEF E, R
        <5>. QED  BY <3>1, <5>1, <5>2 DEF Trail
      <4>2. n + 1 \in Nat
        OBVIOUS
      <4>. HIDE DEF E, R
      <4>. QED  BY <2>2, <4>1, <4>2
    <3>. QED  BY <3>2, <3>3
  <2>. QED  BY <2>3, <2>4
<1>. HIDE DEF refuge, E, R
<1>5. refuge \in SUBSET (Nodes \ R) /\ Closed(E, refuge)
  BY <1>3, <1>4 DEF Closed
<1>. QED  BY <1>2, <1>5 DEF E, R

-----------------------------------------------------------------------------
\* Data does not spread out of a set that the edges do not leave.
LEMMA SpreadStays ==
  ASSUME NEW edges, NEW from, NEW n \in Nat, NEW closed,
         from \subseteq closed, Closed(edges, closed)
  PROVE  Spread(edges, from, n) \subseteq closed
<1>. DEFINE Grow(before) ==
              before \union { TargetOf[e] : e \in { d \in edges : SourceOf[d] \in before } }
            Is(f, m) == f = [k \in 0..m |-> IF k = 0 THEN from ELSE Grow(f[k - 1])]
            reached == CHOOSE f : Is(f, n)
<1>1. ASSUME NEW m \in 0..n PROVE \E f : Is(f, m)
  <2>. DEFINE bad == { k \in 0..n : ~ \E f : Is(f, k) }
  <2>. SUFFICES ASSUME bad # {} PROVE FALSE
    OBVIOUS
  <2>1. PICK k \in bad : \A l \in bad : k <= l
    <3>1. bad \in SUBSET Nat
      OBVIOUS
    <3>. HIDE DEF bad
    <3>. QED  BY <3>1, LeastNat
  <2>2. CASE k = 0
    <3>1. Is([i \in 0..0 |-> from], 0)
      OBVIOUS
    <3>. QED  BY <3>1, <2>1, <2>2
  <2>3. CASE k # 0
    <3>1. k - 1 \in 0..n /\ ~ (k <= k - 1) /\ k \in Nat
      BY <2>1, <2>3
    <3>2. PICK f : Is(f, k - 1)
      <4>. HIDE DEF Is
      <4>. QED  BY <2>1, <3>1
    <3>. DEFINE g == [i \in 0..k |-> IF i = k THEN Grow(f[k - 1]) ELSE f[i]]
    <3>3. \A i \in 0..(k - 1) : g[i] = f[i]
      BY <3>1
    <3>4. ASSUME NEW i \in 0..k PROVE g[i] = IF i = 0 THEN from ELSE Grow(g[i - 1])
      <4>1. CASE i = k
        <5>1. g[k - 1] = f[k - 1] /\ g[k] = Grow(f[k - 1])
          BY <3>1, <3>3, <2>3
        <5>. HIDE DEF Grow, g
        <5>. QED  BY <4>1, <5>1, <2>3
      <4>2. CASE i # k
        <5>1. i \in 0..(k - 1) /\ (i # 0 => i - 1 \in 0..(k - 1))
          BY <3>1, <4>2
        <5>2. f[i] = IF i = 0 THEN from ELSE Grow(f[i - 1])
          BY <3>2, <5>1
        <5>. HIDE DEF Grow, g
        <5>. QED  BY <3>3, <5>1, <5>2
      <4>. QED  BY <4>1, <4>2
    <3>5. Is(g, k)
      <4>1. DOMAIN g = 0..k /\ g = [i \in DOMAIN g |-> g[i]]
        OBVIOUS
      <4>. HIDE DEF g, Grow
      <4>. QED  BY <3>4, <4>1
    <3>. HIDE DEF Is, g
    <3>. QED  BY <3>5, <2>1
  <2>. QED  BY <2>2, <2>3
<1>2. Is(reached, n)
  <2>. HIDE DEF Is
  <2>. QED  BY <1>1, n \in 0..n
<1>3. Spread(edges, from, n) = reached[n]
  BY DEF Spread
<1>4. \A k \in 0..n : reached[k] = IF k = 0 THEN from ELSE Grow(reached[k - 1])
  <2>. HIDE DEF Grow, reached
  <2>. QED  BY <1>2
<1>. HIDE DEF reached, Is
<1>. DEFINE out == { k \in 0..n : ~ (reached[k] \subseteq closed) }
<1>. SUFFICES ASSUME out # {} PROVE FALSE
  BY <1>3, n \in 0..n
<1>5. PICK k \in out : \A l \in out : k <= l
  <2>1. out \in SUBSET Nat
    OBVIOUS
  <2>. HIDE DEF out
  <2>. QED  BY <2>1, LeastNat
<1>6. k # 0
  BY <1>4, <1>5
<1>7. k - 1 \in 0..n /\ ~ (k <= k - 1)
  BY <1>5, <1>6
<1>8. reached[k - 1] \subseteq closed
  BY <1>5, <1>7
<1>9. reached[k] = Grow(reached[k - 1])
  BY <1>4, <1>5, <1>6
<1>. QED  BY <1>5, <1>8, <1>9 DEF Closed

-----------------------------------------------------------------------------
(* The cut chosen is one of the cuts: the order on them is a linear order. *)

LEMMA EdgeSets ==
  ASSUME NEW S \in SUBSET Edges
  PROVE  Cardinality(S) \in Nat /\ S \subseteq Nat
BY GraphsAssumption, FS_Subset, FS_CardinalityType

LEMMA GuardsTotal ==
  ASSUME NEW S \in SUBSET Edges, NEW T \in SUBSET Edges, S # T
  PROVE  GuardsLess(S, T) \/ GuardsLess(T, S)
<1>1. /\ Cardinality(S) \in Nat /\ Cardinality(T) \in Nat
      /\ S \subseteq Nat /\ T \subseteq Nat
  BY EdgeSets
<1>2. PICK m \in (S \ T) \union (T \ S) :
        \A n \in (S \ T) \union (T \ S) : m <= n
  <2>1. (S \ T) \union (T \ S) # {} /\ (S \ T) \union (T \ S) \in SUBSET Nat
    BY <1>1
  <2>. QED  BY <2>1, LeastNat
<1>3. CASE m \in S \ T
  <2>1. \A f \in T \ S : m < f
    BY <1>1, <1>2, <1>3
  <2>. QED  BY <1>1, <1>3, <2>1 DEF GuardsLess
<1>4. CASE m \in T \ S
  <2>1. \A f \in S \ T : m < f
    BY <1>1, <1>2, <1>4
  <2>. QED  BY <1>1, <1>4, <2>1 DEF GuardsLess
<1>. QED  BY <1>2, <1>3, <1>4

LEMMA GuardsTransitive ==
  ASSUME NEW A \in SUBSET Edges, NEW B \in SUBSET Edges, NEW C \in SUBSET Edges,
         GuardsLess(A, B), GuardsLess(B, C)
  PROVE  GuardsLess(A, C)
<1>1. /\ Cardinality(A) \in Nat /\ Cardinality(B) \in Nat /\ Cardinality(C) \in Nat
      /\ A \subseteq Nat /\ B \subseteq Nat /\ C \subseteq Nat
  BY EdgeSets
<1>2. CASE Cardinality(A) < Cardinality(B) \/ Cardinality(B) < Cardinality(C)
  BY <1>1, <1>2 DEF GuardsLess
<1>3. CASE ~ (Cardinality(A) < Cardinality(B)) /\ ~ (Cardinality(B) < Cardinality(C))
  <2>1. Cardinality(A) = Cardinality(C)
    BY <1>1, <1>3 DEF GuardsLess
  <2>2. PICK x \in A \ B : \A y \in B \ A : x < y
    BY <1>3 DEF GuardsLess
  <2>3. PICK y \in B \ C : \A z \in C \ B : y < z
    BY <1>3 DEF GuardsLess
  <2>4. CASE x < y
    <3>1. x \notin C /\ \A z \in C \ A : x < z
      BY <1>1, <2>2, <2>3, <2>4
    <3>. QED  BY <2>1, <2>2, <3>1 DEF GuardsLess
  <2>5. CASE y < x
    <3>1. y \in A /\ \A z \in C \ A : y < z
      BY <1>1, <2>2, <2>3, <2>5
    <3>. QED  BY <2>1, <2>3, <3>1 DEF GuardsLess
  <2>. QED  BY <1>1, <2>2, <2>3, <2>4, <2>5
<1>. QED  BY <1>2, <1>3

LEMMA RobustCutIsCut ==
  ASSUME NEW cuts \in SUBSET SUBSET Edges, cuts # {}
  PROVE  RobustCut(cuts) \in cuts
<1>. DEFINE less == { pair \in cuts \X cuts : GuardsLess(pair[1], pair[2]) }
<1>1. IsFiniteSet(cuts)
  BY GraphsAssumption, FS_SUBSET, FS_Subset
<1>2. \A S, T \in cuts : S # T => <<S, T>> \in less \/ <<T, S>> \in less
  BY GuardsTotal
<1>3. \A S, T, V \in cuts : <<S, T>> \in less /\ <<T, V>> \in less => <<S, V>> \in less
  BY GuardsTransitive
<1>4. \E S \in cuts : \A T \in cuts \ {S} : <<S, T>> \in less
  <2>. HIDE DEF less
  <2>. QED  BY <1>1, <1>2, <1>3, LeastInOrder
<1>5. \E S \in cuts : \A T \in cuts \ {S} : GuardsLess(S, T)
  BY <1>4
<1>. QED  BY <1>5 DEF RobustCut

-----------------------------------------------------------------------------
(* The global policy.  Its recursion is over the probes left.              *)

Decisions == [feasible : BOOLEAN, cost : Nat, probes : Nat, next : Nat]

Scores4 == Nat \X Nat \X Nat \X Nat

LEMMA TupleOrder ==
  ASSUME NEW s \in Scores4, NEW t \in Scores4
  PROVE  TupleLess(s, t) <=>
           \/ s[1] < t[1]
           \/ s[1] = t[1] /\ s[2] < t[2]
           \/ s[1] = t[1] /\ s[2] = t[2] /\ s[3] < t[3]
           \/ s[1] = t[1] /\ s[2] = t[2] /\ s[3] = t[3] /\ s[4] < t[4]
<1>1. DOMAIN s = {1, 2, 3, 4}
  BY DEF Scores4
<1>2. /\ \A j : j \notin 1..(1 - 1)
      /\ \A j : j \in 1..(2 - 1) <=> j = 1
      /\ \A j : j \in 1..(3 - 1) <=> j \in {1, 2}
      /\ \A j : j \in 1..(4 - 1) <=> j \in {1, 2, 3}
  OBVIOUS
<1>3. TupleLess(s, t) <=>
        \E i \in {1, 2, 3, 4} : s[i] < t[i] /\ \A j \in 1..(i - 1) : s[j] = t[j]
  BY <1>1 DEF TupleLess
<1>. QED  BY <1>2, <1>3

LEMMA LeastIsScore ==
  ASSUME NEW scores \in SUBSET Scores4, scores # {}, IsFiniteSet(scores)
  PROVE  Least(scores) \in scores
<1>. DEFINE less == { pair \in scores \X scores : TupleLess(pair[1], pair[2]) }
<1>1. ASSUME NEW s \in scores, NEW t \in scores, s # t PROVE <<s, t>> \in less \/ <<t, s>> \in less
  <2>1. \/ s[1] # t[1] \/ s[2] # t[2] \/ s[3] # t[3] \/ s[4] # t[4]
    BY <1>1 DEF Scores4
  <2>2. s \in Scores4 /\ t \in Scores4
    OBVIOUS
  <2>3. s[1] \in Nat /\ s[2] \in Nat /\ s[3] \in Nat /\ s[4] \in Nat
        /\ t[1] \in Nat /\ t[2] \in Nat /\ t[3] \in Nat /\ t[4] \in Nat
    BY <2>2 DEF Scores4
  <2>4. TupleLess(s, t) \/ TupleLess(t, s)
    BY <2>1, <2>2, <2>3, TupleOrder
  <2>. QED  BY <2>4
<1>2. ASSUME NEW s \in scores, NEW t \in scores, NEW u \in scores, <<s, t>> \in less, <<t, u>> \in less
      PROVE  <<s, u>> \in less
  <2>1. s \in Scores4 /\ t \in Scores4 /\ u \in Scores4
    OBVIOUS
  <2>2. s[1] \in Nat /\ s[2] \in Nat /\ s[3] \in Nat /\ s[4] \in Nat
        /\ t[1] \in Nat /\ t[2] \in Nat /\ t[3] \in Nat /\ t[4] \in Nat
        /\ u[1] \in Nat /\ u[2] \in Nat /\ u[3] \in Nat /\ u[4] \in Nat
    BY <2>1 DEF Scores4
  <2>3. TupleLess(s, t) /\ TupleLess(t, u)
    BY <1>2
  <2>4. TupleLess(s, u)
    BY <2>1, <2>2, <2>3, TupleOrder
  <2>. QED  BY <2>4
<1>3. \E s \in scores : \A t \in scores \ {s} : <<s, t>> \in less
  <2>. HIDE DEF less
  <2>. QED  BY <1>1, <1>2, LeastInOrder
<1>4. \E s \in scores : \A t \in scores \ {s} : TupleLess(s, t)
  BY <1>3
<1>. QED  BY <1>4 DEF Least

\* A score bounds the cost and the probes of every way a probe can go on.
LEMMA ScoreMeaning ==
  ASSUME NEW x \in Probes, NEW value, IsFiniteSet(DOMAIN value), DOMAIN value # {},
         \A b \in DOMAIN value : value[b] \in Decisions
  PROVE  /\ (\E b \in DOMAIN value : ~ value[b].feasible) => PolicyScore(x, value) = {}
         /\ (\A b \in DOMAIN value : value[b].feasible) =>
              \E c, p, t \in Nat :
                /\ PolicyScore(x, value) = {<<c, p, t, x>>}
                /\ \A b \in DOMAIN value : /\ Experiment[x].cost + value[b].cost <= c
                                /\ 1 + value[b].probes <= p
<1>. DEFINE cost == [b \in DOMAIN value |-> value[b].cost]
            probes == [b \in DOMAIN value |-> value[b].probes]
            costs == { cost[b] : b \in DOMAIN value }
            counts == { probes[b] : b \in DOMAIN value }
<1>1. Experiment[x].cost \in Nat
  BY GraphsAssumption DEF DiscoveryExperiment
<1>2. \A b \in DOMAIN value : cost[b] \in Nat /\ probes[b] \in Nat
  BY DEF Decisions
<1>3. /\ costs \in SUBSET Nat /\ costs # {} /\ IsFiniteSet(costs)
      /\ counts \in SUBSET Nat /\ counts # {} /\ IsFiniteSet(counts)
  <2>1. costs # {} /\ counts # {} /\ costs \in SUBSET Nat /\ counts \in SUBSET Nat
    BY <1>2
  <2>2. IsFiniteSet(costs) /\ IsFiniteSet(counts)
    <3>. HIDE DEF cost, probes
    <3>. QED  BY ImageFinite
  <2>. QED  BY <2>1, <2>2
<1>4. /\ Max(costs) \in Nat /\ \A b \in DOMAIN value : cost[b] <= Max(costs)
      /\ Max(counts) \in Nat /\ \A b \in DOMAIN value : probes[b] <= Max(counts)
  <2>1. \A b \in DOMAIN value : cost[b] \in costs /\ probes[b] \in counts
    OBVIOUS
  <2>. HIDE DEF costs, counts, cost, probes
  <2>. QED  BY <1>3, <2>1, GreatestNat
<1>5. Total(cost, DOMAIN value) \in Nat
  <2>. HIDE DEF cost
  <2>. QED  BY <1>2, TotalType
<1>6. PolicyScore(x, value) =
        IF \A b \in DOMAIN value : value[b].feasible
        THEN {<<Experiment[x].cost + Max(costs), 1 + Max(counts), Total(cost, DOMAIN value), x>>}
        ELSE {}
  <2>1. Range(cost) = costs /\ counts = { value[b].probes : b \in DOMAIN value }
    BY DEF Range
  <2>. QED  BY <1>1, <2>1 DEF PolicyScore, WorstCase, Total, MapThenSumSet, MapThenFoldSet
<1>7. ASSUME \A b \in DOMAIN value : value[b].feasible
      PROVE  \E c, p, t \in Nat :
                /\ PolicyScore(x, value) = {<<c, p, t, x>>}
                /\ \A b \in DOMAIN value : /\ Experiment[x].cost + value[b].cost <= c
                                /\ 1 + value[b].probes <= p
  <2>1. \A b \in DOMAIN value : /\ Experiment[x].cost + value[b].cost <= Experiment[x].cost + Max(costs)
                     /\ 1 + value[b].probes <= 1 + Max(counts)
    <3>1. \A b \in DOMAIN value : value[b].cost = cost[b] /\ value[b].probes = probes[b]
      OBVIOUS
    <3>. HIDE DEF costs, counts, cost, probes
    <3>. QED  BY <1>1, <1>2, <1>4, <3>1
  <2>. HIDE DEF costs, counts, cost, probes
  <2>2. /\ PolicyScore(x, value) = {<<Experiment[x].cost + Max(costs), 1 + Max(counts),
                                     Total(cost, DOMAIN value), x>>}
        /\ Experiment[x].cost + Max(costs) \in Nat /\ 1 + Max(counts) \in Nat
    BY <1>1, <1>4, <1>6, <1>7
  <2>. QED  BY <1>5, <2>1, <2>2
<1>. HIDE DEF costs, counts, cost, probes
<1>. QED  BY <1>6, <1>7

\* One level of the recursion of build_global_policy, and what solves it.
Solved(f, ids, left) ==
  PolicyChoice(ids,
    UNION { PolicyScore(x, [b \in Buckets(ids, x) |-> f[<<b, left \ {x}>>]]) :
              x \in { y \in left : Separates(ids, y) } })

Situations(left) == (SUBSET Ids) \X (SUBSET left)

Solves(left, f) == f = [s \in Situations(left) |-> Solved(f, s[1], s[2])]

LEMMA SolvedAgrees ==
  ASSUME NEW f, NEW g, NEW ids \in SUBSET Ids, NEW left \in SUBSET Probes,
         \A x \in left : \A b \in SUBSET Ids : f[<<b, left \ {x}>>] = g[<<b, left \ {x}>>]
  PROVE  Solved(f, ids, left) = Solved(g, ids, left)
<1>. DEFINE valueF(x) == [b \in Buckets(ids, x) |-> f[<<b, left \ {x}>>]]
            valueG(x) == [b \in Buckets(ids, x) |-> g[<<b, left \ {x}>>]]
            which == { y \in left : Separates(ids, y) }
<1>1. \A x \in which : valueF(x) = valueG(x)
  <2>1. \A x \in which : Buckets(ids, x) \subseteq SUBSET Ids
    BY DEF Buckets, Bucket
  <2>. QED  BY <2>1
<1>2. UNION { PolicyScore(x, valueF(x)) : x \in which } = UNION { PolicyScore(x, valueG(x)) : x \in which }
  <2>. HIDE DEF valueF, valueG, which
  <2>. QED  BY <1>1
<1>. QED  BY <1>2 DEF Solved

LEMMA SolvesAgree ==
  ASSUME NEW A, NEW B, NEW f, NEW g, Solves(A, f), Solves(B, g),
         NEW left \in SUBSET Probes, left \subseteq A, left \subseteq B,
         NEW ids \in SUBSET Ids
  PROVE  f[<<ids, left>>] = g[<<ids, left>>]
<1>. DEFINE Agree(l) == \A b \in SUBSET Ids : f[<<b, l>>] = g[<<b, l>>]
            bad == { l \in SUBSET left : ~ Agree(l) }
<1>. SUFFICES ASSUME bad # {} PROVE FALSE
  OBVIOUS
<1>1. PICK l \in bad : \A m \in bad : m \subseteq l => m = l
  <2>1. \A m \in bad : IsFiniteSet(m)
    <3>1. \A m \in bad : m \in SUBSET Probes
      OBVIOUS
    <3>. HIDE DEF bad
    <3>. QED  BY <3>1, GraphsAssumption, FS_Subset
  <2>. HIDE DEF bad
  <2>. QED  BY <2>1, LeastSet
<1>2. l \in SUBSET A /\ l \in SUBSET B /\ l \in SUBSET Probes
  OBVIOUS
<1>3. ASSUME NEW x \in l PROVE Agree(l \ {x})
  <2>1. l \ {x} \in SUBSET left /\ l \ {x} \subseteq l /\ l \ {x} # l
    OBVIOUS
  <2>2. l \ {x} \notin bad
    <3>. HIDE DEF bad
    <3>. QED  BY <1>1, <2>1
  <2>. HIDE DEF Agree
  <2>. QED  BY <2>1, <2>2
<1>4. ASSUME NEW b \in SUBSET Ids PROVE f[<<b, l>>] = g[<<b, l>>]
  <2>1. f[<<b, l>>] = Solved(f, b, l) /\ g[<<b, l>>] = Solved(g, b, l)
    BY <1>2 DEF Solves, Situations
  <2>2. Solved(f, b, l) = Solved(g, b, l)
    BY <1>2, <1>3, SolvedAgrees
  <2>. QED  BY <2>1, <2>2
<1>5. Agree(l)
  BY <1>4
<1>. QED  BY <1>1, <1>5

LEMMA SolvesExist ==
  ASSUME NEW left \in SUBSET Probes
  PROVE  \E f : Solves(left, f)
<1>. DEFINE bad == { l \in SUBSET Probes : ~ \E f : Solves(l, f) }
<1>. SUFFICES ASSUME bad # {} PROVE FALSE
  OBVIOUS
<1>1. PICK l \in bad : \A m \in bad : m \subseteq l => m = l
  <2>1. \A m \in bad : IsFiniteSet(m)
    BY GraphsAssumption, FS_Subset
  <2>. HIDE DEF bad
  <2>. QED  BY <2>1, LeastSet
<1>2. l \in SUBSET Probes
  OBVIOUS
<1>3. \A m \in SUBSET l : m # l => \E f : Solves(m, f)
  BY <1>1, <1>2
<1>. DEFINE of == [m \in SUBSET l |-> CHOOSE f : Solves(m, f)]
            before == [s \in Situations(l) |-> of[s[2]][s]]
            f == [s \in Situations(l) |-> Solved(before, s[1], s[2])]
<1>4. \A m \in SUBSET l : m # l => Solves(m, of[m])
  BY <1>3
<1>5. ASSUME NEW s \in Situations(l), s[2] # l PROVE f[s] = before[s]
  <2>1. s[2] \in SUBSET l /\ s = <<s[1], s[2]>> /\ s \in Situations(s[2])
        /\ s[1] \in SUBSET Ids /\ s[2] \in SUBSET Probes
    BY <1>2 DEF Situations
  <2>2. Solves(s[2], of[s[2]])
    BY <1>4, <1>5, <2>1
  <2>3. before[s] = Solved(of[s[2]], s[1], s[2])
    BY <2>1, <2>2 DEF Solves
  <2>4. ASSUME NEW x \in s[2], NEW b \in SUBSET Ids
        PROVE  of[s[2]][<<b, s[2] \ {x}>>] = before[<<b, s[2] \ {x}>>]
    <3>. DEFINE m == s[2] \ {x}
    <3>1. m \in SUBSET l /\ m # l /\ m \subseteq s[2] /\ m \in SUBSET Probes /\ s[2] \in SUBSET Probes
      BY <1>2, <2>1
    <3>2. before[<<b, m>>] = of[m][<<b, m>>]
      BY <3>1 DEF Situations
    <3>3. Solves(m, of[m])
      BY <1>4, <3>1
    <3>. HIDE DEF of, before, m
    <3>4. of[s[2]][<<b, m>>] = of[m][<<b, m>>]
      BY <2>2, <3>1, <3>3, SolvesAgree
    <3>. QED  BY <3>2, <3>4 DEF m
  <2>5. Solved(of[s[2]], s[1], s[2]) = Solved(before, s[1], s[2])
    <3>. HIDE DEF of, before
    <3>. QED  BY <2>1, <2>4, SolvedAgrees
  <2>6. f[s] = Solved(before, s[1], s[2])
    OBVIOUS
  <2>. HIDE DEF of, before, f
  <2>. QED  BY <2>3, <2>5, <2>6
<1>6. Solves(l, f)
  <2>1. ASSUME NEW s \in Situations(l) PROVE f[s] = Solved(f, s[1], s[2])
    <3>1. f[s] = Solved(before, s[1], s[2]) /\ s[1] \in SUBSET Ids /\ s[2] \in SUBSET Probes
      BY <1>2 DEF Situations
    <3>2. ASSUME NEW x \in s[2], NEW b \in SUBSET Ids
          PROVE  before[<<b, s[2] \ {x}>>] = f[<<b, s[2] \ {x}>>]
      <4>1. <<b, s[2] \ {x}>> \in Situations(l) /\ <<b, s[2] \ {x}>>[2] # l
        BY DEF Situations
      <4>. HIDE DEF before, f
      <4>. QED  BY <4>1, <1>5
    <3>. HIDE DEF before, f
    <3>. QED  BY <3>1, <3>2, SolvedAgrees
  <2>2. f = [s \in Situations(l) |-> f[s]]
    OBVIOUS
  <2>. HIDE DEF f, before
  <2>. QED  BY <2>1, <2>2 DEF Solves
<1>. QED  BY <1>1, <1>6

LEMMA PolicyUnfolds ==
  ASSUME NEW ids \in SUBSET Ids, NEW left \in SUBSET Probes
  PROVE  Policy[<<ids, left>>] = Solved(Policy, ids, left)
<1>1. Policy = CHOOSE f : Solves(Probes, f)
  BY DEF Policy, Solves, Situations, Solved
<1>2. Solves(Probes, Policy)
  BY <1>1, SolvesExist
<1>. QED  BY <1>2 DEF Solves, Situations

LEMMA BucketFacts ==
  ASSUME NEW ids \in SUBSET Ids, NEW x \in Probes
  PROVE  /\ IsFiniteSet(ids)
         /\ Buckets(ids, x) \subseteq (SUBSET ids) \ {{}}
         /\ IsFiniteSet(Traces(ids, x)) /\ IsFiniteSet(Buckets(ids, x))
         /\ \A g \in ids : /\ Bucket(ids, x, PredictTrace[g][x]) \in Buckets(ids, x)
                           /\ g \in Bucket(ids, x, PredictTrace[g][x])
         /\ \A b \in Buckets(ids, x) : \A g, h \in b : PredictTrace[g][x] = PredictTrace[h][x]
<1>. DEFINE traceOf == [g \in ids |-> PredictTrace[g][x]]
            bucketOf == [t \in Traces(ids, x) |-> Bucket(ids, x, t)]
<1>1. IsFiniteSet(ids)
  BY GraphsAssumption, FS_Subset
<1>2. Traces(ids, x) = { traceOf[g] : g \in ids }
  BY DEF Traces
<1>3. IsFiniteSet(Traces(ids, x))
  <2>. HIDE DEF traceOf
  <2>. QED  BY <1>1, <1>2, ImageFinite
<1>4. Buckets(ids, x) = { bucketOf[t] : t \in Traces(ids, x) }
  BY DEF Buckets
<1>5. IsFiniteSet(Buckets(ids, x))
  <2>. HIDE DEF bucketOf
  <2>. QED  BY <1>3, <1>4, ImageFinite
<1>6. Buckets(ids, x) \subseteq (SUBSET ids) \ {{}}
  BY DEF Buckets, Bucket, Traces
<1>7. \A g \in ids : /\ Bucket(ids, x, PredictTrace[g][x]) \in Buckets(ids, x)
                     /\ g \in Bucket(ids, x, PredictTrace[g][x])
  BY DEF Buckets, Bucket, Traces
<1>8. \A b \in Buckets(ids, x) : \A g, h \in b : PredictTrace[g][x] = PredictTrace[h][x]
  BY DEF Buckets, Bucket
<1>. QED  BY <1>1, <1>3, <1>5, <1>6, <1>7, <1>8

\* Some probe left tells apart any two graphs that call for different actions.
Told(ids, left) ==
  \A g, h \in ids : ActionSignature[g] # ActionSignature[h] =>
    \E x \in left : PredictTrace[g][x] # PredictTrace[h][x]

SameAction(ids) == \A g, h \in ids : ActionSignature[g] = ActionSignature[h]

\* A decision that probes goes on with any bucket, within its own bounds.
GoesOn(v, ids, left) ==
  /\ v.feasible /\ v.next \in left
  /\ \A b \in Buckets(ids, v.next) :
       LET w == Policy[<<b, left \ {v.next}>>]
       IN  /\ w.feasible
           /\ Experiment[v.next].cost + w.cost <= v.cost
           /\ 1 + w.probes <= v.probes

DecisionRight(ids, left) ==
  LET v == Policy[<<ids, left>>]
  IN  /\ v \in Decisions
      /\ v.feasible <=> Told(ids, left)
      /\ v.feasible /\ v.next = 0 => SameAction(ids)
      /\ v.next # 0 => GoesOn(v, ids, left)

\* Graphs told apart by a probe are told apart within its buckets by the rest, and
\* the other way round.
LEMMA ToldByBuckets ==
  ASSUME NEW ids \in SUBSET Ids, NEW left \in SUBSET Probes, NEW x \in left
  PROVE  Told(ids, left) <=> \A b \in Buckets(ids, x) : Told(b, left \ {x})
<1>1. x \in Probes
  OBVIOUS
<1>2. ASSUME Told(ids, left), NEW b \in Buckets(ids, x) PROVE Told(b, left \ {x})
  BY <1>1, <1>2, BucketFacts DEF Told
<1>3. ASSUME \A b \in Buckets(ids, x) : Told(b, left \ {x}) PROVE Told(ids, left)
  <2>. SUFFICES ASSUME NEW g \in ids, NEW h \in ids, ActionSignature[g] # ActionSignature[h],
                       PredictTrace[g][x] = PredictTrace[h][x]
                PROVE  \E y \in left : PredictTrace[g][y] # PredictTrace[h][y]
    BY DEF Told
  <2>. DEFINE b == Bucket(ids, x, PredictTrace[g][x])
  <2>1. b \in Buckets(ids, x) /\ g \in b /\ h \in b
    <3>1. Bucket(ids, x, PredictTrace[g][x]) = Bucket(ids, x, PredictTrace[h][x])
      OBVIOUS
    <3>. QED  BY <1>1, <3>1, BucketFacts
  <2>. HIDE DEF b
  <2>. QED  BY <1>3, <2>1 DEF Told
<1>. QED  BY <1>2, <1>3

LEMMA SameActions ==
  ASSUME NEW ids \in (SUBSET Ids) \ {{}}
  PROVE  Cardinality(Actions(ids)) = 1 <=> SameAction(ids)
<1>1. IsFiniteSet(ids) /\ ids # {}
  BY GraphsAssumption, FS_Subset
<1>. DEFINE signature == [g \in ids |-> ActionSignature[g]]
            called == { signature[g] : g \in ids }
<1>2. called = Actions(ids) /\ \A g \in ids : signature[g] = ActionSignature[g]
  BY DEF Actions
<1>. HIDE DEF signature
<1>5. ASSUME NEW f
      PROVE  /\ Cardinality({ f[x] : x \in ids }) = 1 => \A g, h \in ids : f[g] = f[h]
             /\ (\A g, h \in ids : f[g] = f[h]) => Cardinality({ f[x] : x \in ids }) = 1
  <2>1. Cardinality({ f[x] : x \in ids }) = 1 => \A g, h \in ids : f[g] = f[h]
    BY ONLY <1>1, ImageFinite
  <2>2. (\A g, h \in ids : f[g] = f[h]) => Cardinality({ f[x] : x \in ids }) = 1
    BY ONLY <1>1, ImageFinite
  <2>. QED  BY <2>1, <2>2
<1>6. /\ Cardinality(called) = 1 => \A g, h \in ids : signature[g] = signature[h]
      /\ (\A g, h \in ids : signature[g] = signature[h]) => Cardinality(called) = 1
  BY <1>5
<1>3. ASSUME Cardinality(called) = 1, NEW g \in ids, NEW h \in ids PROVE signature[g] = signature[h]
  BY <1>3, <1>6
<1>4. ASSUME \A g, h \in ids : signature[g] = signature[h] PROVE Cardinality(called) = 1
  BY <1>4, <1>6
<1>. HIDE DEF called
<1>. QED  BY <1>2, <1>3, <1>4 DEF SameAction

LEMMA PolicyMeaning ==
  ASSUME NEW left \in SUBSET Probes, NEW ids \in (SUBSET Ids) \ {{}}
  PROVE  DecisionRight(ids, left)
<1>. DEFINE AllRight(l) == \A b \in (SUBSET Ids) \ {{}} : DecisionRight(b, l)
            bad == { l \in SUBSET Probes : ~ AllRight(l) }
<1>. SUFFICES ASSUME bad # {} PROVE FALSE
  OBVIOUS
<1>1. PICK l \in bad : \A m \in bad : m \subseteq l => m = l
  <2>1. \A m \in bad : IsFiniteSet(m)
    BY GraphsAssumption, FS_Subset
  <2>. HIDE DEF bad
  <2>. QED  BY <2>1, LeastSet
<1>2. l \in SUBSET Probes /\ l \subseteq Nat \ {0} /\ IsFiniteSet(l)
  <2>1. l \in SUBSET Probes
    OBVIOUS
  <2>. QED  BY <2>1, GraphsAssumption, FS_Subset
<1>3. ASSUME NEW x \in l PROVE AllRight(l \ {x})
  <2>1. l \ {x} \in SUBSET Probes /\ l \ {x} \subseteq l /\ l \ {x} # l
    OBVIOUS
  <2>2. l \ {x} \notin bad
    <3>. HIDE DEF bad
    <3>. QED  BY <1>1, <2>1
  <2>. HIDE DEF AllRight
  <2>. QED  BY <2>1, <2>2
<1>4. PICK graphsLeft \in (SUBSET Ids) \ {{}} : ~ DecisionRight(graphsLeft, l)
  BY <1>1
<1>. DEFINE G == graphsLeft
            value(x) == [b \in Buckets(G, x) |-> Policy[<<b, l \ {x}>>]]
            which == { y \in l : Separates(G, y) }
            scores == UNION { PolicyScore(x, value(x)) : x \in which }
            v == Policy[<<G, l>>]
<1>5. v = PolicyChoice(G, scores)
  BY <1>2, PolicyUnfolds DEF Solved
<1>6. ASSUME NEW x \in l
      PROVE  /\ IsFiniteSet(DOMAIN value(x)) /\ DOMAIN value(x) # {}
             /\ DOMAIN value(x) = Buckets(G, x)
             /\ \A b \in DOMAIN value(x) :
                  /\ value(x)[b] = Policy[<<b, l \ {x}>>]
                  /\ value(x)[b] \in Decisions
                  /\ value(x)[b].feasible <=> Told(b, l \ {x})
  <2>1. x \in Probes /\ DOMAIN value(x) = Buckets(G, x)
    BY <1>2
  <2>2. IsFiniteSet(Buckets(G, x)) /\ Buckets(G, x) # {} /\ Buckets(G, x) \subseteq (SUBSET Ids) \ {{}}
    BY <2>1, BucketFacts
  <2>3. ASSUME NEW b \in Buckets(G, x) PROVE DecisionRight(b, l \ {x})
    <3>1. b \in (SUBSET Ids) \ {{}}
      BY <2>2
    <3>. QED  BY <1>3, <3>1
  <2>. QED  BY <2>1, <2>2, <2>3 DEF DecisionRight
<1>. HIDE DEF value
<1>7. ASSUME NEW x \in l
      PROVE  /\ ~ Told(G, l) => PolicyScore(x, value(x)) = {}
             /\ Told(G, l) =>
                  \E c, p, t \in Nat :
                    /\ PolicyScore(x, value(x)) = {<<c, p, t, x>>}
                    /\ \A b \in Buckets(G, x) :
                         /\ Policy[<<b, l \ {x}>>].feasible
                         /\ Experiment[x].cost + Policy[<<b, l \ {x}>>].cost <= c
                         /\ 1 + Policy[<<b, l \ {x}>>].probes <= p
  <2>1. x \in Probes
    BY <1>2
  <2>2. Told(G, l) <=> \A b \in DOMAIN value(x) : value(x)[b].feasible
    <3>1. Told(G, l) <=> \A b \in Buckets(G, x) : Told(b, l \ {x})
      <4>. HIDE DEF G
      <4>1. G \in SUBSET Ids
        BY DEF G
      <4>. QED  BY <1>2, <4>1, ToldByBuckets
    <3>. QED  BY <1>6, <3>1
  <2>3. /\ (\E b \in DOMAIN value(x) : ~ value(x)[b].feasible) => PolicyScore(x, value(x)) = {}
        /\ (\A b \in DOMAIN value(x) : value(x)[b].feasible) =>
              \E c, p, t \in Nat :
                /\ PolicyScore(x, value(x)) = {<<c, p, t, x>>}
                /\ \A b \in DOMAIN value(x) : /\ Experiment[x].cost + value(x)[b].cost <= c
                                              /\ 1 + value(x)[b].probes <= p
    BY <1>6, <2>1, ScoreMeaning
  <2>. QED  BY <1>6, <2>2, <2>3
<1>. HIDE DEF which
<1>8. which \subseteq l /\ \A y \in l : y \in which <=> Separates(G, y)
  BY DEF which
<1>9. scores \in SUBSET Scores4 /\ IsFiniteSet(scores)
  <2>. DEFINE scoreOf == [x \in which |-> PolicyScore(x, value(x))]
  <2>1. ASSUME NEW x \in which
        PROVE  IsFiniteSet(PolicyScore(x, value(x))) /\ PolicyScore(x, value(x)) \subseteq Scores4
    <3>1. x \in l /\ x \in Nat
      BY <1>2, <1>8
    <3>2. CASE Told(G, l)
      <4>1. PICK c, p, t \in Nat : PolicyScore(x, value(x)) = {<<c, p, t, x>>}
        BY <1>7, <3>1, <3>2
      <4>2. IsFiniteSet({<<c, p, t, x>>}) /\ <<c, p, t, x>> \in Scores4
        BY <3>1, FS_Singleton DEF Scores4
      <4>. QED  BY <4>1, <4>2
    <3>3. CASE ~ Told(G, l)
      BY <1>7, <3>1, <3>3, FS_EmptySet
    <3>. QED  BY <3>2, <3>3
  <2>2. IsFiniteSet({ scoreOf[x] : x \in which })
    <3>1. IsFiniteSet(which)
      BY <1>2, <1>8, FS_Subset
    <3>. HIDE DEF scoreOf
    <3>. QED  BY <3>1, ImageFinite
  <2>3. scores = UNION { scoreOf[x] : x \in which }
    OBVIOUS
  <2>4. \A s \in { scoreOf[x] : x \in which } : IsFiniteSet(s) /\ s \subseteq Scores4
    BY <2>1
  <2>. HIDE DEF scores, scoreOf
  <2>. QED  BY <2>2, <2>3, <2>4, FS_UNION
<1>10. ASSUME NEW s \in scores
       PROVE  /\ Told(G, l) /\ s[4] \in l
              /\ \A b \in Buckets(G, s[4]) :
                   /\ Policy[<<b, l \ {s[4]}>>].feasible
                   /\ Experiment[s[4]].cost + Policy[<<b, l \ {s[4]}>>].cost <= s[1]
                   /\ 1 + Policy[<<b, l \ {s[4]}>>].probes <= s[2]
  <2>1. PICK x \in which : s \in PolicyScore(x, value(x))
    OBVIOUS
  <2>2. x \in l /\ Told(G, l)
    BY <1>7, <1>8, <2>1
  <2>3. PICK c, p, t \in Nat :
                    /\ PolicyScore(x, value(x)) = {<<c, p, t, x>>}
                    /\ \A b \in Buckets(G, x) :
                         /\ Policy[<<b, l \ {x}>>].feasible
                         /\ Experiment[x].cost + Policy[<<b, l \ {x}>>].cost <= c
                         /\ 1 + Policy[<<b, l \ {x}>>].probes <= p
    BY <1>7, <2>2
  <2>4. s = <<c, p, t, x>>
    BY <2>1, <2>3
  <2>5. s[1] = c /\ s[2] = p /\ s[4] = x
    BY <2>4
  <2>. QED  BY <2>2, <2>3, <2>5
<1>. HIDE DEF scores
<1>11. Cardinality(Actions(G)) = 1 <=> SameAction(G)
  BY SameActions
<1>12. Told(G, l) /\ ~ SameAction(G) => scores # {}
  <2>. SUFFICES ASSUME Told(G, l), ~ SameAction(G) PROVE scores # {}
    OBVIOUS
  <2>1. PICK g \in G, h \in G : ActionSignature[g] # ActionSignature[h]
    BY DEF SameAction
  <2>2. PICK x \in l : PredictTrace[g][x] # PredictTrace[h][x]
    BY <2>1 DEF Told
  <2>3. x \in which
    <3>1. IsFiniteSet(Traces(G, x)) /\ x \in Probes
      BY <1>2, BucketFacts
    <3>2. PredictTrace[g][x] \in Traces(G, x) /\ PredictTrace[h][x] \in Traces(G, x)
      BY DEF Traces
    <3>3. Cardinality(Traces(G, x)) \in Nat /\ Cardinality(Traces(G, x)) # 0
          /\ Cardinality(Traces(G, x)) # 1
      BY <2>2, <3>1, <3>2, FS_CardinalityType, FS_EmptySet, FS_Singleton
    <3>. QED  BY <1>8, <3>3 DEF Separates
  <2>4. PolicyScore(x, value(x)) # {}
    BY <1>7
  <2>. QED  BY <2>3, <2>4 DEF scores
<1>13. DecisionRight(G, l)
  <2>1. CASE SameAction(G)
    <3>1. v = Terminal
      BY <1>5, <1>11, <2>1 DEF PolicyChoice
    <3>2. Told(G, l)
      BY <2>1 DEF Told, SameAction
    <3>. HIDE DEF v, G
    <3>3. v \in Decisions /\ v.feasible /\ v.next = 0
      BY <3>1 DEF Terminal, Decisions
    <3>. QED  BY <2>1, <3>2, <3>3 DEF DecisionRight, v
  <2>2. CASE ~ SameAction(G) /\ scores = {}
    <3>1. v = NoPolicy
      BY <1>5, <1>11, <2>2 DEF PolicyChoice
    <3>2. ~ Told(G, l)
      BY <1>12, <2>2
    <3>3. v \in Decisions /\ v.feasible = FALSE /\ v.next = 0
      BY <3>1 DEF NoPolicy, Decisions
    <3>. HIDE DEF G
    <3>. QED  BY <3>2, <3>3 DEF DecisionRight
  <2>3. CASE ~ SameAction(G) /\ scores # {}
    <3>. DEFINE best == Least(scores)
    <3>1. best \in scores /\ best \in Scores4
      BY <1>9, <2>3, LeastIsScore
    <3>2. v = [feasible |-> TRUE, cost |-> best[1], probes |-> best[2], next |-> best[4]]
      BY <1>5, <1>11, <2>3 DEF PolicyChoice
    <3>3. Told(G, l) /\ best[4] \in l /\ best[4] # 0
      BY <1>2, <1>10, <3>1
    <3>4. v \in Decisions /\ v.feasible /\ v.next # 0
      BY <3>1, <3>2, <3>3 DEF Decisions, Scores4
    <3>5. GoesOn(v, G, l)
      <4>. HIDE DEF best, v, G
      <4>. QED  BY <1>10, <3>1, <3>2, <3>3 DEF GoesOn
    <3>. HIDE DEF best, G
    <3>. QED  BY <3>3, <3>4, <3>5 DEF DecisionRight
  <2>. QED  BY <2>1, <2>2, <2>3
<1>. QED  BY <1>4, <1>13

\* What a run of the policy keeps: the truth among the graphs it reckons with, and
\* what it has spent with what it may still spend within the certificate.
Root == Policy[<<trial.space, Probes>>]

PolicyRun ==
  /\ pc \in {"probe", "ended"}
  /\ graphs \in (SUBSET trial.space) \ {{}}
  /\ pc = "probe" =>
       /\ action = <<>>
       /\ TruthListed => trial.truth \in graphs
       /\ Root.feasible =>
            /\ Decision.feasible
            /\ Spent + Decision.cost <= Root.cost
            /\ Cardinality(Used) + Decision.probes <= Root.probes
  /\ Root.feasible => Spent <= Root.cost /\ Cardinality(Used) <= Root.probes
  /\ action # <<>> /\ TruthListed => action[1] = ActionSignature[trial.truth]
  /\ pc = "ended" /\ TruthListed /\ Root.feasible => action # <<>>

PolicyInv == trial.planner = "policy" => PolicyRun

LEMMA SpentIsTotal ==
  /\ Spent = Total(ProbeCost, Used)
  /\ Spent' = Total(ProbeCost, Used')
BY DEF Spent, Total, MapThenSumSet, MapThenFoldSet

LEMMA UsedFacts ==
  ASSUME TrialOK
  PROVE  /\ Used \subseteq Probes /\ IsFiniteSet(Used)
         /\ Spent \in Nat /\ Cardinality(Used) \in Nat
<1>1. Used \subseteq Probes /\ IsFiniteSet(Used)
  BY GraphsAssumption, FS_Subset DEF TrialOK, Used
<1>2. \A x \in Used : ProbeCost[x] \in Nat
  BY <1>1, GraphsAssumption DEF ProbeCost, DiscoveryExperiment
<1>. QED  BY <1>1, <1>2, SpentIsTotal, TotalType, FS_CardinalityType

LEMMA SpentGrows ==
  ASSUME TrialOK, NEW x \in Probes \ Used, NEW t, observations' = Observed(x, t)
  PROVE  /\ Used' = Used \union {x}
         /\ Spent' = Spent + Experiment[x].cost
         /\ Cardinality(Used') = Cardinality(Used) + 1
<1>1. Used' = Used \union {x}
  BY DEF Used, Observed
<1>2. IsFiniteSet(Used) /\ Used \subseteq Probes
  BY UsedFacts
<1>3. \A y \in Used \union {x} : ProbeCost[y] \in Nat
  BY <1>2, GraphsAssumption DEF ProbeCost, DiscoveryExperiment
<1>4. ProbeCost[x] = Experiment[x].cost
  BY DEF ProbeCost
<1>5. Spent' = Spent + Experiment[x].cost
  BY <1>1, <1>2, <1>3, <1>4, SpentIsTotal, TotalAdds
<1>6. Cardinality(Used \union {x}) = Cardinality(Used) + 1
  BY <1>2, FS_AddElement
<1>. QED  BY <1>1, <1>5, <1>6

\* The decision at hand, and that at the start.
LEMMA DecisionsRight ==
  ASSUME TrialOK, graphs \in (SUBSET trial.space) \ {{}}
  PROVE  /\ DecisionRight(trial.space, Probes) /\ DecisionRight(graphs, Probes \ Used)
         /\ graphs \in (SUBSET Ids) \ {{}} /\ IsFiniteSet(graphs)
<1>1. trial.space \in (SUBSET Ids) \ {{}} /\ graphs \in (SUBSET Ids) \ {{}}
  BY TrialTypes
<1>2. IsFiniteSet(graphs)
  BY <1>1, GraphsAssumption, FS_Subset
<1>3. Probes \ Used \in SUBSET Probes /\ Probes \in SUBSET Probes
  OBVIOUS
<1>. QED  BY <1>1, <1>2, <1>3, PolicyMeaning

LEMMA PolicyInvariant == TrialOK /\ PolicyInv => PolicyIsRight
<1>. SUFFICES ASSUME TrialOK, PolicyRun, trial.planner = "policy"
              PROVE  /\ Root.feasible => Spent <= Root.cost /\ Cardinality(Used) <= Root.probes
                     /\ action # <<>> /\ TruthListed => action[1] = ActionSignature[trial.truth]
                     /\ pc = "ended" /\ TruthListed /\ Root.feasible => action # <<>>
                     /\ Root.feasible <=> Witnesses(trial.space) = {}
  BY DEF PolicyInv, PolicyIsRight, Root
<1>1. Root.feasible <=> Told(trial.space, Probes)
  BY DecisionsRight DEF PolicyRun, DecisionRight, Root
<1>2. ASSUME Told(trial.space, Probes), NEW w \in Witnesses(trial.space) PROVE FALSE
  <2>1. /\ w[1] \in trial.space /\ w[2] \in trial.space
        /\ ActionSignature[w[1]] # ActionSignature[w[2]]
        /\ \A x \in Probes : PredictTrace[w[1]][x] = PredictTrace[w[2]][x]
    BY DEF Witnesses
  <2>. QED  BY <1>2, <2>1 DEF Told
<1>3. ASSUME Witnesses(trial.space) = {} PROVE Told(trial.space, Probes)
  <2>. SUFFICES ASSUME NEW g \in trial.space, NEW h \in trial.space,
                       ActionSignature[g] # ActionSignature[h],
                       \A x \in Probes : PredictTrace[g][x] = PredictTrace[h][x]
                PROVE  FALSE
    BY DEF Told
  <2>1. <<g, h>> \in Witnesses(trial.space)
    BY DEF Witnesses
  <2>. QED  BY <1>3, <2>1
<1>. QED  BY <1>1, <1>2, <1>3 DEF PolicyRun

LEMMA PolicyStart == Init => PolicyInv
<1>. SUFFICES ASSUME Init, trial.planner = "policy" PROVE PolicyRun
  BY DEF PolicyInv
<1>1. TrialOK
  BY DiscoveryStart DEF DiscoveryInv
<1>2. trial.space # {}
  BY <1>1, TrialsAssumption DEF TrialOK, Trial
<1>3. Used = {} /\ Decision = Root
  <2>1. Used = {}
    BY DEF Init, Used
  <2>2. Probes \ {} = Probes
    OBVIOUS
  <2>. QED  BY <2>1, <2>2 DEF Init, Decision, Root
<1>4. Spent = 0 /\ Cardinality(Used) = 0
  BY <1>3, SpentIsTotal, TotalUnfolds, FS_EmptySet
<1>5. graphs \in (SUBSET trial.space) \ {{}}
  BY <1>2 DEF Init
<1>6. Root \in Decisions
  BY <1>1, <1>5, DecisionsRight DEF DecisionRight, Root
<1>7. Root.cost \in Nat /\ Root.probes \in Nat
  BY <1>6 DEF Decisions
<1>. QED  BY <1>3, <1>4, <1>5, <1>7 DEF Init, PolicyRun, TruthListed

LEMMA FollowStep ==
  ASSUME DiscoveryInv, PolicyRun, trial.planner = "policy",
         NEW x \in Probes, FollowPolicy(x)
  PROVE  PolicyRun'
<1>1. TrialOK /\ pc = "probe" /\ Decision.next = x /\ x # 0
  BY GraphsAssumption DEF DiscoveryInv, FollowPolicy
<1>2. PICK t \in Shown(x) :
        /\ observations' = Observed(x, t)
        /\ IF t \in Traces(graphs, x)
           THEN graphs' = Bucket(graphs, x, t) /\ pc' = pc
           ELSE graphs' = graphs /\ pc' = "ended"
  BY DEF FollowPolicy
<1>3. UNCHANGED <<trial, action>> /\ Root' = Root /\ TruthListed' = TruthListed
  BY DEF FollowPolicy, Root, TruthListed
<1>4. /\ DecisionRight(graphs, Probes \ Used) /\ DecisionRight(trial.space, Probes)
      /\ graphs \in (SUBSET Ids) \ {{}} /\ IsFiniteSet(graphs)
  BY <1>1, DecisionsRight DEF PolicyRun
<1>5. GoesOn(Decision, graphs, Probes \ Used)
  BY <1>1, <1>4 DEF DecisionRight, Decision
<1>6. x \in Probes \ Used
  BY <1>1, <1>5 DEF GoesOn
<1>7. /\ Used' = Used \union {x} /\ Spent' = Spent + Experiment[x].cost
      /\ Cardinality(Used') = Cardinality(Used) + 1
      /\ Probes \ Used' = (Probes \ Used) \ {x}
  BY <1>1, <1>2, <1>6, SpentGrows
<1>8. /\ Spent \in Nat /\ Cardinality(Used) \in Nat /\ Experiment[x].cost \in Nat
      /\ Root.cost \in Nat /\ Root.probes \in Nat
      /\ Decision.cost \in Nat /\ Decision.probes \in Nat
  <2>1. Root \in Decisions /\ Decision \in Decisions
    BY <1>4 DEF DecisionRight, Root, Decision
  <2>2. Experiment[x].cost \in Nat
    BY GraphsAssumption DEF DiscoveryExperiment
  <2>. QED  BY <1>1, <2>1, <2>2, UsedFacts DEF Decisions
<1>9. ASSUME NEW b \in Buckets(graphs, x)
      PROVE  LET w == Policy[<<b, Probes \ Used'>>]
             IN  /\ w.feasible /\ w.cost \in Nat /\ w.probes \in Nat
                 /\ Experiment[x].cost + w.cost <= Decision.cost
                 /\ 1 + w.probes <= Decision.probes
  <2>1. b \in (SUBSET Ids) \ {{}} /\ Probes \ Used' \in SUBSET Probes
    BY <1>4, BucketFacts
  <2>2. Policy[<<b, Probes \ Used'>>] \in Decisions
    BY <2>1, PolicyMeaning DEF DecisionRight
  <2>. QED  BY <1>1, <1>5, <1>7, <2>2 DEF GoesOn, Decisions
\* What the system shows without noise is the trace of the truth.
<1>10. TruthListed => t = PredictTrace[trial.truth][x] /\ trial.truth \in graphs
  <2>1. trial.truth \in Ids /\ trial.noise <= 0
    BY <1>1, TrialTypes
  <2>2. PredictTrace[trial.truth][x] \in TraceOf(x)
    BY <2>1, TraceTypes
  <2>3. t \in TraceOf(x) /\ TraceDistance(PredictTrace[trial.truth][x], t) <= trial.noise
    <3>1. DOMAIN PredictTrace[trial.truth][x] = 1..Experiment[x].buckets
          /\ Experiment[x].checkpoints \subseteq Nodes
      BY <2>2, TraceTypes DEF TraceOf
    <3>. QED  BY <3>1 DEF Shown, TraceOf
  <2>4. TraceDistance(PredictTrace[trial.truth][x], t) \in Nat
    BY <2>2, <2>3, DistanceType
  <2>5. TraceDistance(PredictTrace[trial.truth][x], t) = 0
    BY <1>1, <2>1, <2>3, <2>4, TrialTypes
  <2>6. t = PredictTrace[trial.truth][x]
    BY <2>2, <2>3, <2>5, DistanceType
  <2>. QED  BY <1>1, <2>6 DEF PolicyRun
<1>11. Root.feasible => /\ Spent + Decision.cost <= Root.cost
                        /\ Cardinality(Used) + Decision.probes <= Root.probes
  BY <1>1 DEF PolicyRun
<1>12. Root.feasible => Spent' <= Root.cost /\ Cardinality(Used') <= Root.probes
  <2>. SUFFICES ASSUME Root.feasible
                PROVE  Spent' <= Root.cost /\ Cardinality(Used') <= Root.probes
    OBVIOUS
  <2>1. PICK b \in Buckets(graphs, x) : TRUE
    BY <1>4, BucketFacts
  <2>2. PICK c \in Nat, p \in Nat : /\ Experiment[x].cost + c <= Decision.cost
                                    /\ 1 + p <= Decision.probes
    BY <1>9, <2>1
  <2>. QED  BY <1>7, <1>8, <1>11, <2>2
<1>13. action = <<>>
  BY <1>1 DEF PolicyRun
<1>14. CASE t \in Traces(graphs, x)
  <2>1. graphs' = Bucket(graphs, x, t) /\ pc' = "probe" /\ Bucket(graphs, x, t) \in Buckets(graphs, x)
    BY <1>1, <1>2, <1>14 DEF Buckets
  <2>2. graphs' \in (SUBSET trial.space) \ {{}}
    BY <1>4, <2>1, BucketFacts DEF PolicyRun
  <2>3. TruthListed => trial.truth \in graphs'
    BY <1>10, <2>1 DEF Bucket
  <2>4. Decision' = Policy[<<graphs', Probes \ Used'>>]
    BY DEF Decision
  <2>5. Root.feasible =>
            /\ Decision'.feasible
            /\ Spent' + Decision'.cost <= Root.cost
            /\ Cardinality(Used') + Decision'.probes <= Root.probes
    <3>. DEFINE w == Decision'
    <3>1. /\ w.feasible /\ w.cost \in Nat /\ w.probes \in Nat
          /\ Experiment[x].cost + w.cost <= Decision.cost
          /\ 1 + w.probes <= Decision.probes
      BY <1>9, <2>1, <2>4
    <3>. HIDE DEF w
    <3>2. Root.feasible => /\ Spent' + w.cost <= Root.cost
                           /\ Cardinality(Used') + w.probes <= Root.probes
      BY <1>7, <1>8, <1>11, <3>1
    <3>. QED  BY <3>1, <3>2 DEF w
  <2>. QED  BY <1>3, <1>12, <1>13, <2>1, <2>2, <2>3, <2>5 DEF PolicyRun
<1>15. CASE t \notin Traces(graphs, x)
  <2>1. ~ TruthListed
    BY <1>10, <1>15 DEF Traces
  <2>. QED  BY <1>2, <1>3, <1>12, <1>13, <1>15, <2>1 DEF PolicyRun
<1>. QED  BY <1>14, <1>15

LEMMA PolicyStep == DiscoveryInv /\ PolicyInv /\ [PipelineNext]_AllVars => PolicyInv'
<1>. SUFFICES ASSUME DiscoveryInv, PolicyInv, [PipelineNext]_AllVars,
                     trial'.planner = "policy"
              PROVE  PolicyRun'
  BY DEF PolicyInv
<1>1. trial' = trial
  BY DEF PipelineNext, Next, Probe, Decide, FollowPolicy, EndPolicy, GiveUp, Guard, Round,
         EndReplay, Ended, RunEraSeMap, Flow, Drift, Tick, Issue, Alter, Check,
         AllVars, vars
<1>2. PolicyRun /\ trial.planner = "policy"
  BY <1>1 DEF PolicyInv
<1>3. ASSUME UNCHANGED <<trial, pc, observations, graphs, action>> PROVE PolicyRun'
  BY <1>2, <1>3, SpentIsTotal DEF PolicyRun, Root, Decision, Used, TruthListed
<1>4. ASSUME NEW x \in Probes, FollowPolicy(x) PROVE PolicyRun'
  BY <1>2, <1>4, FollowStep
<1>5. CASE EndPolicy
  <2>1. /\ pc = "probe" /\ Decision.next = 0 /\ pc' = "ended"
        /\ action' = IF Decision.feasible
                     THEN << CHOOSE a \in Actions(graphs) : TRUE >> ELSE <<>>
        /\ UNCHANGED <<trial, observations, graphs>>
    BY <1>5 DEF EndPolicy
  <2>2. DecisionRight(graphs, Probes \ Used) /\ graphs # {}
    BY <1>2, DecisionsRight DEF DiscoveryInv, PolicyRun
  <2>3. ASSUME Decision.feasible, TruthListed
        PROVE  (CHOOSE a \in Actions(graphs) : TRUE) = ActionSignature[trial.truth]
    <3>1. SameAction(graphs)
      BY <2>1, <2>2, <2>3 DEF DecisionRight, Decision
    <3>2. trial.truth \in graphs
      BY <1>2, <2>1, <2>3 DEF PolicyRun
    <3>3. Actions(graphs) = {ActionSignature[trial.truth]}
      BY <3>1, <3>2 DEF Actions, SameAction
    <3>. QED  BY <3>3
  <2>4. Root' = Root /\ TruthListed' = TruthListed /\ Spent' = Spent /\ Used' = Used
    BY <2>1, SpentIsTotal DEF Root, TruthListed, Used
  <2>5. Decision.feasible => action' # <<>> /\ action'[1] = CHOOSE a \in Actions(graphs) : TRUE
    BY <2>1
  <2>6. ~ Decision.feasible => action' = <<>>
    BY <2>1
  <2>7. Root.feasible => Decision.feasible
    BY <1>2, <2>1 DEF PolicyRun
  <2>. QED  BY <1>2, <2>1, <2>3, <2>4, <2>5, <2>6, <2>7 DEF PolicyRun
<1>6. CASE \E x \in Probes : Probe(x)
  BY <1>2, <1>6 DEF Probe
<1>7. CASE Decide
  BY <1>2, <1>7 DEF Decide
<1>8. CASE GiveUp \/ Guard \/ Round \/ EndReplay \/ RunEraSeMap
  BY <1>2, <1>8 DEF PolicyRun, GiveUp, Guard, Round, EndReplay, RunEraSeMap
<1>. QED  BY <1>3, <1>4, <1>5, <1>6, <1>7, <1>8
          DEF PipelineNext, Next, Ended, Flow, Drift, Tick, Issue, Alter, Check, AllVars, vars

-----------------------------------------------------------------------------
(* The pipeline.                                                           *)

LEMMA CutsAreEdges ==
  ASSUME NEW ids \in SUBSET Ids
  PROVE  Cuts(ids) \in SUBSET SUBSET Edges
<1>1. ASSUME NEW g \in ids PROVE RelevantEdges(g) \subseteq Edges
  <2>1. ASSUME NEW p \in RelevantSignature[g] PROVE ToSet(p) \subseteq Edges
    <3>1. PICK n \in Graph[g].initial : p \in RecoveryPathsFrom(Graph[g], n)
      BY DEF RelevantSignature
    <3>2. p \in Chains(Graph[g].edges)
      BY <3>1 DEF RecoveryPathsFrom
    <3>3. PICK k \in 0..(Cardinality(Nodes) - 1) : p \in [1..k -> Graph[g].edges]
      BY <3>2 DEF Chains
    <3>4. Graph[g].edges \subseteq Edges
      BY GraphTypes DEF GraphOK
    <3>. QED  BY <3>3, <3>4 DEF ToSet
  <2>. QED  BY <2>1 DEF RelevantEdges
<1>. QED  BY <1>1 DEF Cuts

\* A cut of several graphs leaves each of them a refuge.
LEMMA CutHolds ==
  ASSUME NEW ids \in SUBSET Ids, NEW S \in Cuts(ids), NEW g \in ids
  PROVE  \E refuge \in SUBSET (Nodes \ Graph[g].residual) :
           Graph[g].initial \subseteq refuge /\ Closed(Graph[g].edges \ S, refuge)
BY GuardsAreEnough DEF Cuts

\* What stands behind COMPLETE_WITHIN_ENVELOPE.
LEMMA CompletePlan ==
  ASSUME NEW d, NEW c \in Catalogues, NEW o,
         EraSeMapResult(d, c, o).verdict = "COMPLETE_WITHIN_ENVELOPE",
         d \in {"COMPLETE", "INCOMPLETE", "UNVERIFIED"}
  PROVE  LET returned == EraSeMapResult(d, c, o)
             ids == { c[g] : g \in Surviving }
         IN  /\ d = "COMPLETE"
             /\ trial.valid
             /\ ids \subseteq Ids
             /\ UNION { Range(e) : e \in ToSet(returned.envelope) } = ids
             /\ returned.plan.guards \in Cuts(ids)
<1>. DEFINE returned == EraSeMapResult(d, c, o)
            envelope == Envelope(c)
            ids == { c[g] : g \in Surviving }
            plan == IF envelope = <<>> THEN NoPlan ELSE PlanFor(envelope[1], o)
<1>1. /\ returned.verdict = EraSeMapVerdict(d, plan)
      /\ returned.plan = plan /\ returned.envelope = envelope
  BY DEF EraSeMapResult
<1>2. d = "COMPLETE" /\ plan.status = "OPTIMAL"
  BY <1>1 DEF EraSeMapVerdict
<1>3. envelope # <<>> /\ plan = PlanFor(envelope[1], o)
  BY <1>2 DEF NoPlan
<1>4. /\ trial.valid /\ Surviving \subseteq DOMAIN c
      /\ envelope = << [g \in Surviving |-> c[g]] >>
  BY <1>3 DEF Envelope
<1>5. ids \subseteq Ids
  BY <1>4, PipelineAssumption DEF Range
<1>6. Range(envelope[1]) = ids /\ ToSet(envelope) = {envelope[1]}
  BY <1>4 DEF Range, ToSet
<1>7. PlanFor(envelope[1], o).guards \in Cuts(ids)
  <2>. DEFINE permitted == IF o.built THEN UNION { RelevantEdges(g) : g \in ids } ELSE o.guards
              cuts == { S \in Cuts(ids) : S \subseteq permitted }
  <2>1. PlanFor(envelope[1], o).status = "OPTIMAL"
    BY <1>2, <1>3
  <2>2. cuts # {} /\ PlanFor(envelope[1], o).guards = RobustCut(cuts)
    BY <1>6, <2>1 DEF PlanFor, NoPlan
  <2>3. cuts \in SUBSET SUBSET Edges
    BY <1>5, CutsAreEdges
  <2>4. RobustCut(cuts) \in cuts
    <3>. HIDE DEF cuts
    <3>. QED  BY <2>2, <2>3, RobustCutIsCut
  <2>. QED  BY <2>2, <2>4
<1>. QED  BY <1>1, <1>2, <1>3, <1>4, <1>5, <1>6, <1>7

\* In the replay of a trial: what the target can reach is clean.
Safe ==
  \E refuge \in SUBSET (Nodes \ Truth.residual) :
    holders \subseteq refuge /\ Closed(Truth.edges \ GuardedEdges, refuge)

\* In the pipeline: the target is nowhere but where the edges have carried it.
Contained ==
  \A refuge \in SUBSET Nodes :
    StartHolders \subseteq refuge /\ Closed(Truth.edges \ GuardedEdges, refuge)
    => holders \subseteq refuge

ReplayInv ==
  /\ pc \in {"probe", "decided"} => guards = <<>>
  /\ pc # "serving" /\ guards # <<>> => Safe

ServingInv ==
  /\ drifts \in Nat
  /\ pc # "serving" => drifts = 0 /\ topology = Truth.edges /\ certificate = <<>>
  /\ pc = "serving" =>
       catalogue \in Catalogues /\ deletion \in {"COMPLETE", "INCOMPLETE", "UNVERIFIED"}
  /\ pc = "serving" /\ drifts = 0 =>
       /\ topology = Truth.edges
       /\ result = <<Replayed>> /\ guards = <<Replayed.plan.guards>>
       /\ deletion = "COMPLETE" => Contained

PipelineInv == DiscoveryInv /\ ReplayInv /\ ServingInv

LEMMA SameReplayed ==
  ASSUME UNCHANGED <<trial, observations, deletion, catalogue, offer>>
  PROVE  Replayed' = Replayed
BY SameSurvivors DEF Replayed, EraSeMapResult, Envelope

LEMMA StartIsInitial ==
  ASSUME TrialOK
  PROVE  GraphOK(trial.truth) /\ StartHolders \subseteq Truth.initial /\ StartHolders \subseteq Nodes
BY GraphTypes, TrialTypes DEF GraphOK, StartHolders, Truth

LEMMA ReplayStep ==
  ASSUME DiscoveryInv, ReplayInv, [PipelineNext]_AllVars
  PROVE  ReplayInv'
<1>1. ASSUME UNCHANGED <<trial, guards, holders>>,
             \/ pc' = pc
             \/ pc' = "decided" /\ pc = "probe"
             \/ pc' = "ended" /\ pc # "serving"
      PROVE  ReplayInv'
  BY <1>1 DEF ReplayInv, Safe, GuardedEdges, Truth
<1>2. CASE UNCHANGED AllVars
  BY <1>1, <1>2 DEF AllVars, vars
<1>3. ASSUME NEW x \in Probes, Probe(x) \/ FollowPolicy(x) PROVE ReplayInv'
  BY <1>1, <1>3 DEF Probe, FollowPolicy
<1>4. CASE Decide \/ EndPolicy \/ GiveUp \/ EndReplay
  BY <1>1, <1>4 DEF Decide, EndPolicy, GiveUp, EndReplay
<1>5. CASE Ended
  BY <1>1, <1>5 DEF Ended, vars
<1>6. CASE Guard
  <2>. DEFINE cuts == Cuts(Surviving)
  <2>1. /\ pc' = "replay" /\ holders' = StartHolders /\ UNCHANGED trial
        /\ guards' = IF cuts = {} THEN <<>> ELSE << RobustCut(cuts) >>
        /\ TruthListed
    BY <1>6 DEF Guard, Guardable
  <2>2. ASSUME cuts # {} PROVE Safe'
    <3>1. /\ Surviving \subseteq Ids /\ trial.truth \in Surviving
      BY <2>1, TruthSurvives, SurvivingFinite DEF DiscoveryInv
    <3>2. RobustCut(cuts) \in cuts
      BY <2>2, <3>1, CutsAreEdges, RobustCutIsCut
    <3>3. PICK refuge \in SUBSET (Nodes \ Truth.residual) :
            Truth.initial \subseteq refuge /\ Closed(Truth.edges \ RobustCut(cuts), refuge)
      BY <3>1, <3>2, CutHolds DEF Truth
    <3>4. GuardedEdges' = RobustCut(cuts) /\ Truth' = Truth
      BY <2>1, <2>2 DEF GuardedEdges, Truth
    <3>5. StartHolders \subseteq refuge
      BY <3>3, StartIsInitial DEF DiscoveryInv
    <3>. QED  BY <2>1, <3>3, <3>4, <3>5 DEF Safe
  <2>. QED  BY <2>1, <2>2 DEF ReplayInv
<1>7. CASE Round
  <2>1. /\ pc = "replay" /\ pc' = pc /\ UNCHANGED <<trial, guards>>
        /\ holders' = holders \union Arrivals
    BY <1>7 DEF Round
  <2>2. ASSUME Safe PROVE Safe'
    <3>1. PICK refuge \in SUBSET (Nodes \ Truth.residual) :
            holders \subseteq refuge /\ Closed(Truth.edges \ GuardedEdges, refuge)
      BY <2>2 DEF Safe
    <3>2. Arrivals \subseteq refuge
      BY <3>1 DEF Arrivals, Closed
    <3>3. GuardedEdges' = GuardedEdges /\ Truth' = Truth
      BY <2>1 DEF GuardedEdges, Truth
    <3>. QED  BY <2>1, <3>1, <3>2, <3>3 DEF Safe
  <2>. QED  BY <2>1, <2>2 DEF ReplayInv
<1>8. CASE RunEraSeMap
  BY <1>8 DEF RunEraSeMap, ReplayInv
<1>9. CASE Flow
  BY <1>9 DEF Flow, ReplayInv
<1>10. CASE Drift
  BY <1>10 DEF Drift, ReplayInv
<1>11. CASE Tick \/ Issue \/ Alter \/ Check
  BY <1>1, <1>11 DEF Tick, Issue, Alter, Check, vars
<1>. QED  BY <1>2, <1>3, <1>4, <1>5, <1>6, <1>7, <1>8, <1>9, <1>10, <1>11
          DEF PipelineNext, Next

LEMMA ServingStep ==
  ASSUME DiscoveryInv, ReplayInv, ServingInv, [PipelineNext]_AllVars
  PROVE  ServingInv'
<1>1. ASSUME UNCHANGED <<trial, observations, deletion, catalogue, offer, result,
                         topology, drifts, guards, holders, pc>>,
             certificate' = certificate \/ pc = "serving"
      PROVE  ServingInv'
  <2>1. Replayed' = Replayed
    BY <1>1, SameReplayed
  <2>2. Contained' = Contained /\ Truth' = Truth
    BY <1>1 DEF Contained, StartHolders, GuardedEdges, Truth
  <2>. QED  BY <1>1, <2>1, <2>2 DEF ServingInv
<1>2. CASE UNCHANGED AllVars
  BY <1>1, <1>2 DEF AllVars, vars, pipelineVars
<1>3. ASSUME Next, UNCHANGED pipelineVars PROVE ServingInv'
  <2>1. CASE Ended
    BY <1>1, <1>3, <2>1 DEF Ended, vars, pipelineVars
  <2>2. ASSUME ~ Ended PROVE trial' = trial /\ pc # "serving" /\ pc' # "serving"
    BY <1>3, <2>2 DEF Next, Probe, Decide, FollowPolicy, EndPolicy, GiveUp, Guard, Round,
                      EndReplay
  <2>3. CASE ~ Ended
    BY <1>3, <2>2, <2>3 DEF ServingInv, Truth, pipelineVars
  <2>. QED  BY <2>1, <2>3
<1>4. CASE RunEraSeMap
  <2>1. PICK d \in {"COMPLETE", "INCOMPLETE", "UNVERIFIED"}, c \in Catalogues, o \in Offers :
          /\ deletion' = d /\ catalogue' = c /\ offer' = o
          /\ result' = <<EraSeMapResult(d, c, o)>>
          /\ guards' = <<EraSeMapResult(d, c, o).plan.guards>>
          /\ holders' = IF d = "COMPLETE" THEN StartHolders
                        ELSE Truth.initial \union Truth.residual
    BY <1>4 DEF RunEraSeMap
  <2>2. /\ pc = "decided" /\ pc' = "serving"
        /\ UNCHANGED <<trial, observations, topology, drifts>>
    BY <1>4 DEF RunEraSeMap
  <2>3. Replayed' = EraSeMapResult(d, c, o)
    BY <2>1, <2>2, SameSurvivors DEF Replayed, EraSeMapResult, Envelope
  <2>4. Truth' = Truth /\ StartHolders' = StartHolders
    BY <2>2 DEF Truth, StartHolders
  <2>5. d = "COMPLETE" => Contained'
    BY <2>1, <2>4 DEF Contained
  <2>. QED  BY <2>1, <2>2, <2>3, <2>4, <2>5 DEF ServingInv
<1>5. CASE Flow
  <2>1. /\ pc = "serving" /\ pc' = pc /\ UNCHANGED <<trial, observations, guards, pipelineVars>>
        /\ holders' = holders \union
             { TargetOf[e] : e \in { f \in topology \ GuardedEdges : SourceOf[f] \in holders } }
    BY <1>5 DEF Flow
  <2>2. /\ Replayed' = Replayed /\ Truth' = Truth /\ GuardedEdges' = GuardedEdges
        /\ StartHolders' = StartHolders
    BY <2>1, SameReplayed DEF Truth, GuardedEdges, StartHolders, pipelineVars
  <2>3. ASSUME Contained, topology = Truth.edges PROVE Contained'
    <3>. SUFFICES ASSUME NEW refuge \in SUBSET Nodes,
                         StartHolders \subseteq refuge,
                         Closed(Truth.edges \ GuardedEdges, refuge)
                  PROVE  holders' \subseteq refuge
      BY <2>2 DEF Contained
    <3>1. holders \subseteq refuge
      BY <2>3 DEF Contained
    <3>. QED  BY <2>1, <2>3, <3>1 DEF Closed
  <2>. QED  BY <2>1, <2>2, <2>3 DEF ServingInv, pipelineVars
<1>6. CASE Drift
  <2>1. /\ pc = "serving" /\ pc' = pc /\ drifts' = drifts + 1 /\ deletion' = deletion
        /\ catalogue' = catalogue \/ catalogue' \in Catalogues
    BY <1>6 DEF Drift
  <2>. QED  BY <2>1 DEF ServingInv
<1>7. CASE Tick \/ Issue \/ Alter \/ Check
  <2>1. CASE pc = "serving"
    BY <1>1, <1>7, <2>1 DEF Tick, Issue, Alter, Check, vars, pipelineVars
  <2>2. CASE pc # "serving"
    <3>1. certificate = <<>>
      BY <2>2 DEF ServingInv
    <3>. QED  BY <1>7, <2>2, <3>1 DEF Tick, Issue, Alter, Check
  <2>. QED  BY <2>1, <2>2
<1>. QED  BY <1>2, <1>3, <1>4, <1>5, <1>6, <1>7 DEF PipelineNext

LEMMA PipelineStep == PipelineInv /\ [PipelineNext]_AllVars => PipelineInv'
<1>. SUFFICES ASSUME PipelineInv, [PipelineNext]_AllVars PROVE PipelineInv'
  OBVIOUS
<1>1. CASE Next
  BY <1>1, DiscoveryStep, ReplayStep, ServingStep DEF PipelineInv
<1>2. CASE UNCHANGED <<trial, observations, pc>>
  BY <1>2, DiscoveryStep, ReplayStep, ServingStep, SameSurvivors
  DEF PipelineInv, DiscoveryInv, TrialOK, ObservedTruth, ProbedOut
<1>3. CASE RunEraSeMap
  <2>1. DiscoveryInv'
    BY <1>3, SameSurvivors
    DEF RunEraSeMap, PipelineInv, DiscoveryInv, TrialOK, ObservedTruth, ProbedOut
  <2>. QED  BY <2>1, ReplayStep, ServingStep DEF PipelineInv
<1>. QED  BY <1>1, <1>2, <1>3
          DEF PipelineNext, Flow, Drift, Tick, Issue, Alter, Check, AllVars, vars, pipelineVars

LEMMA PipelineStart == PipelineInit => PipelineInv
BY DiscoveryStart DEF PipelineInit, PipelineInv, ReplayInv, ServingInv, Init

-----------------------------------------------------------------------------
\* No data comes back within a refuge.
LEMMA ErasedInvariant == PipelineInv => CertifiedStaysErased
<1>. SUFFICES ASSUME PipelineInv PROVE CertifiedStaysErased
  OBVIOUS
<1>0. DiscoveryInv /\ TrialOK /\ ServingInv /\ ReplayInv
  BY DEF PipelineInv, DiscoveryInv
<1>1. pc # "serving" /\ guards # <<>> => Clean
  BY <1>0 DEF ReplayInv, Safe, Clean
\* Data that the guarded topology carries stays in a refuge of a graph that is
\* like the truth but for its edges.
<1>2. ASSUME Replayed.verdict = "COMPLETE_WITHIN_ENVELOPE", pc = "serving",
             NEW g, g \in { catalogue[h] : h \in Surviving },
             Graph[g] = [Truth EXCEPT !.edges = topology],
             guards = <<Replayed.plan.guards>>
      PROVE  \E refuge \in SUBSET (Nodes \ Truth.residual) :
               StartHolders \subseteq refuge /\ Closed(topology \ GuardedEdges, refuge)
  <2>. DEFINE ids == { catalogue[h] : h \in Surviving }
  <2>1. ids \subseteq Ids /\ Replayed.plan.guards \in Cuts(ids)
    <3>1. catalogue \in Catalogues /\ deletion \in {"COMPLETE", "INCOMPLETE", "UNVERIFIED"}
      BY <1>0, <1>2 DEF ServingInv
    <3>. QED  BY <1>2, <3>1, CompletePlan DEF Replayed
  <2>2. PICK refuge \in SUBSET (Nodes \ Graph[g].residual) :
          /\ Graph[g].initial \subseteq refuge
          /\ Closed(Graph[g].edges \ Replayed.plan.guards, refuge)
    <3>1. g \in ids
      BY <1>2
    <3>. HIDE DEF ids
    <3>. QED  BY <2>1, <3>1, CutHolds
  <2>3. /\ Graph[g].edges = topology /\ Graph[g].initial = Truth.initial
        /\ Graph[g].residual = Truth.residual
    <3>1. Truth \in GraphHypothesis
      BY <1>0, TrialTypes, GraphsAssumption DEF Truth
    <3>. QED  BY <1>2, <3>1 DEF GraphHypothesis
  <2>4. GuardedEdges = Replayed.plan.guards
    BY <1>2 DEF GuardedEdges
  <2>5. StartHolders \subseteq Truth.initial
    BY <1>0, StartIsInitial
  <2>. QED  BY <2>2, <2>3, <2>4, <2>5
<1>3. ASSUME pc = "serving", drifts = 0, deletion = "COMPLETE",
             NEW refuge \in SUBSET (Nodes \ Truth.residual),
             StartHolders \subseteq refuge, Closed(topology \ GuardedEdges, refuge)
      PROVE  Clean
  BY <1>0, <1>3 DEF ServingInv, Contained, Clean
<1>4. ASSUME pc = "serving", drifts = 0,
             result[1].verdict = "COMPLETE_WITHIN_ENVELOPE",
             TruthListed, \A g \in Surviving : catalogue[g] = g
      PROVE  Clean
  <2>1. /\ result[1] = Replayed /\ topology = Truth.edges
        /\ guards = <<Replayed.plan.guards>>
        /\ catalogue \in Catalogues /\ deletion \in {"COMPLETE", "INCOMPLETE", "UNVERIFIED"}
    BY <1>0, <1>4 DEF ServingInv
  <2>2. deletion = "COMPLETE" /\ Replayed.verdict = "COMPLETE_WITHIN_ENVELOPE"
    BY <1>4, <2>1, CompletePlan DEF Replayed
  <2>3. trial.truth \in { catalogue[h] : h \in Surviving }
    BY <1>0, <1>4, TruthSurvives
  <2>4. Graph[trial.truth] = [Truth EXCEPT !.edges = topology]
    <3>1. Truth \in GraphHypothesis
      BY <1>0, TrialTypes, GraphsAssumption DEF Truth
    <3>. QED  BY <2>1, <3>1 DEF Truth, GraphHypothesis
  <2>. QED  BY <1>2, <1>3, <1>4, <2>1, <2>2, <2>3, <2>4
<1>5. ASSUME Decodes, certificate[1].payload.declared = "COMPLETE_WITHIN_ENVELOPE",
             Status = "VALID"
      PROVE  /\ Spread(topology \ GuardedEdges, StartHolders, Cardinality(Nodes))
                  \intersect Truth.residual = {}
             /\ drifts = 0 => Clean
  <2>1. pc = "serving" /\ catalogue \in Catalogues
        /\ deletion \in {"COMPLETE", "INCOMPLETE", "UNVERIFIED"}
    BY <1>0, <1>5 DEF ServingInv, Decodes
  <2>2. /\ Replayed.verdict = "COMPLETE_WITHIN_ENVELOPE"
        /\ CoverageComplete /\ ControlsReplayed /\ deletion = "COMPLETE"
    BY <1>5 DEF Status, Unfounded
  <2>3. PICK g \in { catalogue[h] : h \in Surviving } :
          Graph[g] = [Truth EXCEPT !.edges = topology]
    <3>1. UNION { Range(e) : e \in ToSet(Replayed.envelope) }
            = { catalogue[h] : h \in Surviving }
      BY <2>1, <2>2, CompletePlan DEF Replayed
    <3>. QED  BY <2>2, <3>1 DEF CoverageComplete
  <2>4. PICK refuge \in SUBSET (Nodes \ Truth.residual) :
          StartHolders \subseteq refuge /\ Closed(topology \ GuardedEdges, refuge)
    BY <1>2, <2>1, <2>2, <2>3 DEF ControlsReplayed
  <2>5. Spread(topology \ GuardedEdges, StartHolders, Cardinality(Nodes)) \subseteq refuge
    BY <2>4, SpreadStays, FS_CardinalityType, GraphsAssumption
  <2>. QED  BY <1>3, <2>1, <2>2, <2>4, <2>5
<1>. QED  BY <1>1, <1>4, <1>5 DEF CertifiedStaysErased

-----------------------------------------------------------------------------
\* The truth is never ruled out by traces within the error budget, and a
\* confident verdict names it (discovery_verdict of ghostgraph.py), for any
\* graphs, probes, noise and budget.
THEOREM ConfidentIsAlwaysRight == PipelineSpec => []ConfidentIsRight
<1>1. PipelineInv => ConfidentIsRight
  BY ConfidentInvariant DEF PipelineInv
<1>. QED  BY <1>1, PipelineStart, PipelineStep, PTL DEF PipelineSpec, AllVars

\* Without noise probing ends only when no registered probe, executed or not,
\* separates the survivors (select_next_experiment and the loop around it).
THEOREM StopsInTime == PipelineSpec => []StopsOnlyWhenInseparable
<1>1. PipelineInv => StopsOnlyWhenInseparable
  BY StopsInvariant DEF PipelineInv
<1>. QED  BY <1>1, PipelineStart, PipelineStep, PTL DEF PipelineSpec, AllVars

\* The global policy (build_global_policy, run_global_policy) recommends what the
\* true graph needs within the cost and the number of probes it certifies, and one
\* is found exactly where assess_action_identifiability has no witness.
THEOREM PolicyIsAlwaysRight == PipelineSpec => []PolicyIsRight
<1>. DEFINE Inv == PipelineInv /\ PolicyInv
<1>1. PipelineInit => Inv
  BY PipelineStart, PolicyStart DEF PipelineInit
<1>2. Inv /\ [PipelineNext]_AllVars => Inv'
  BY PipelineStep, PolicyStep DEF PipelineInv
<1>3. Inv => PolicyIsRight
  BY PolicyInvariant DEF PipelineInv, DiscoveryInv
<1>. QED  BY <1>1, <1>2, <1>3, PTL DEF PipelineSpec, AllVars

\* Guards on the recovery paths of the survivors hold in the true graph, a result
\* of run_erasemap holds until the first drift, and a certificate that
\* check_temporal_certificate finds valid holds for the topology as it is.
THEOREM CertifiedAlwaysStaysErased == PipelineSpec => []CertifiedStaysErased
<1>. QED  BY ErasedInvariant, PipelineStart, PipelineStep, PTL DEF PipelineSpec, AllVars
=============================================================================
