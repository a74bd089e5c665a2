------------------------------ MODULE GhostGraph ------------------------------
(***************************************************************************)
(* Recovery-path discovery of ghostgraph.py, ghostgraph_planner.py,        *)
(* ghostgraph_action.py and ghostgraph_bridge.py, as operators: what a     *)
(* graph predicts a probe to show, which graphs survive what was seen,     *)
(* what the survivors tell, which probe comes next, and the controls that  *)
(* cut every recovery path the survivors allow.                            *)
(*                                                                         *)
(* Graphs draw their edges from one catalogue, as the protocols of the     *)
(* experiments do.  A trace, bits per time bucket and checkpoint, is the   *)
(* sequence of the sets of checkpoints that hold the target.               *)
(***************************************************************************)
EXTENDS Integers, FiniteSets, SequencesExt

CONSTANTS
  Nodes, Operations,
  Edges,                            \* ranks of the edge ids
  SourceOf, TargetOf, OperationOf,  \* the edge catalogue
  Ids,                              \* ranks of the graph ids
  Graph,                            \* the graphs
  Probes,                           \* ranks of the experiment ids
  Experiment                        \* the registered experiments

GraphHypothesis ==
  [edges : SUBSET Edges, initial : (SUBSET Nodes) \ {{}}, residual : (SUBSET Nodes) \ {{}}]

DiscoveryExperiment ==
  [operations : SUBSET Operations, checkpoints : (SUBSET Nodes) \ {{}},
   buckets : 1..3, cost : Nat]

ASSUME GraphsAssumption ==
  /\ Edges \subseteq Nat /\ Ids \subseteq Nat /\ Probes \subseteq Nat \ {0}
  /\ IsFiniteSet(Nodes) /\ IsFiniteSet(Edges) /\ IsFiniteSet(Ids) /\ IsFiniteSet(Probes)
  /\ SourceOf \in [Edges -> Nodes] /\ TargetOf \in [Edges -> Nodes]
  /\ \A e \in Edges : SourceOf[e] # TargetOf[e]
  /\ OperationOf \in [Edges -> Operations]
  /\ Graph \in [Ids -> GraphHypothesis]
  /\ Experiment \in [Probes -> DiscoveryExperiment]

\* Nodes reached from a set of nodes in n rounds over a set of edges.
Spread(edges, from, n) ==
  LET reached[k \in 0..n] ==
        IF k = 0 THEN from
        ELSE LET before == reached[k - 1]
             IN  before \union { TargetOf[e] : e \in { d \in edges : SourceOf[d] \in before } }
  IN  reached[n]

PredictTrace ==
  [g \in Ids |-> [x \in Probes |->
     [k \in 1..Experiment[x].buckets |->
        Spread({ e \in Graph[g].edges : OperationOf[e] \in Experiment[x].operations },
               Graph[g].initial, k) \intersect Experiment[x].checkpoints]]]

TraceDistance(s, t) ==
  Cardinality({ bit \in (DOMAIN s) \X Nodes :
                  (bit[2] \in s[bit[1]]) # (bit[2] \in t[bit[1]]) })

-----------------------------------------------------------------------------
(* Recovery paths: edge sequences along simple node paths that start in an *)
(* initial node and end in the first residual node they meet.              *)

Chains(edges) ==
  UNION { [1..k -> edges] : k \in 0..(Cardinality(Nodes) - 1) }

\* The nodes a chain of edges passes.
NodesAlong(start, p) == <<start>> \o [k \in DOMAIN p |-> TargetOf[p[k]]]

RecoveryPathsFrom(graph, start) ==
  { p \in Chains(graph.edges) :
      LET node == NodesAlong(start, p)
      IN  /\ \A k \in DOMAIN p : SourceOf[p[k]] = node[k]
          /\ IsInjective(node)
          /\ \A k \in DOMAIN node : node[k] \in graph.residual <=> k = Len(node) }

\* relevant_signature; the operations it lists follow from the paths.
RelevantSignature ==
  [g \in Ids |-> UNION { RecoveryPathsFrom(Graph[g], n) : n \in Graph[g].initial }]

RelevantEdges(g) == UNION { ToSet(p) : p \in RelevantSignature[g] }

-----------------------------------------------------------------------------
(* The version space.  observations is a function on executed probes.      *)

\* A mutant: the error budget is one for all traces together.
SurvivorsInTotal(space, observations, budget) ==
  { g \in space :
      MapThenSumSet(LAMBDA x : TraceDistance(PredictTrace[g][x], observations[x]),
                    DOMAIN observations) <= budget }

Survivors(space, observations, budget) ==
  { g \in space :
      \A x \in DOMAIN observations :
        TraceDistance(PredictTrace[g][x], observations[x]) <= budget }

Dark(observations) ==
  \A x \in DOMAIN observations :
    \A k \in DOMAIN observations[x] : observations[x][k] = {}

DiscoveryVerdict(space, observations, budget, valid) ==
  LET surviving == Survivors(space, observations, budget)
  IN  IF ~ valid THEN "UNVERIFIED"
      ELSE IF surviving = {} THEN "OUT_OF_HYPOTHESIS"
      ELSE IF DOMAIN observations # {} /\ Dark(observations)
           THEN "NO_OBSERVED_RECURRENCE"
      ELSE IF Cardinality(surviving) = 1 THEN "GRAPH_DISCOVERED"
      ELSE IF Cardinality({ RelevantSignature[g] : g \in surviving }) = 1
           THEN "PATH_CLASS_DISCOVERED"
      ELSE "EQUIVALENCE_CLASS"

Actionable == {"GRAPH_DISCOVERED", "PATH_CLASS_DISCOVERED", "EQUIVALENCE_CLASS"}

-----------------------------------------------------------------------------
(* Probe selection.                                                        *)

Traces(graphs, x) == { PredictTrace[g][x] : g \in graphs }

Bucket(graphs, x, trace) == { g \in graphs : PredictTrace[g][x] = trace }

\* What a probe splits the graphs into.
Buckets(graphs, x) == { Bucket(graphs, x, t) : t \in Traces(graphs, x) }

Separates(graphs, x) == Cardinality(Traces(graphs, x)) > 1

\* Python tuples compare at the first index where they differ.
TupleLess(s, t) ==
  \E i \in DOMAIN s : s[i] < t[i] /\ \A j \in 1..(i - 1) : s[j] = t[j]

Least(scores) ==
  CHOOSE s \in scores : \A t \in scores \ {s} : TupleLess(s, t)

\* The largest bucket, the sum of the squares of their sizes (the pairs of
\* graphs left together), the cost, the experiment id.
PlannerScore(graphs, x) ==
  << Max({ Cardinality(b) : b \in Buckets(graphs, x) }),
     Cardinality({ pair \in graphs \X graphs :
                     PredictTrace[pair[1]][x] = PredictTrace[pair[2]][x] }),
     Experiment[x].cost, x >>

\* select_next_experiment: the probes among which the least score is taken.
Candidates(graphs, used) == { x \in Probes \ used : Separates(graphs, x) }

SelectNext(graphs, used) ==
  LET best == Least({ PlannerScore(graphs, x) : x \in Candidates(graphs, used) })
  IN  best[4]

-----------------------------------------------------------------------------
(* Actions and the global probing policy.                                  *)

OperationsOf(path) == { OperationOf[path[k]] : k \in DOMAIN path }

\* action_signature: the smallest sets of operations that hit every recovery
\* path; none if an initial node is residual.
ActionSignature ==
  [g \in Ids |->
     LET paths == RelevantSignature[g]
         operations == UNION { OperationsOf(p) : p \in paths }
         hitting == { S \in SUBSET operations :
                        \A p \in paths : S \intersect OperationsOf(p) # {} }
     IN  { S \in hitting : \A T \in hitting : Cardinality(S) <= Cardinality(T) }]

Actions(graphs) == { ActionSignature[g] : g \in graphs }

NoPolicy == [feasible |-> FALSE, cost |-> 0, probes |-> 0, next |-> 0]
Terminal == [feasible |-> TRUE, cost |-> 0, probes |-> 0, next |-> 0]

\* A mutant: a policy is valued by its luckiest run.
LuckiestCase(values) == Min(values)

WorstCase(values) == Max(values)

\* The score of a probe after which every bucket can be decided; value says how
\* each goes on.
PolicyScore(x, value) ==
  LET cost == [b \in DOMAIN value |-> value[b].cost]
  IN  IF \A b \in DOMAIN value : value[b].feasible
      THEN { << Experiment[x].cost + WorstCase(Range(cost)),
                1 + WorstCase({ value[b].probes : b \in DOMAIN value }),
                MapThenSumSet(LAMBDA b : cost[b], DOMAIN value), x >> }
      ELSE {}

PolicyChoice(graphs, scores) ==
  LET best == Least(scores)
  IN  IF Cardinality(Actions(graphs)) = 1 THEN Terminal
      ELSE IF scores = {} THEN NoPolicy
      ELSE [feasible |-> TRUE, cost |-> best[1], probes |-> best[2], next |-> best[4]]

\* build_global_policy: the decision for every set of graphs and of probes left;
\* next is 0 where no probe is selected.
Policy ==
  LET solve[s \in (SUBSET Ids) \X (SUBSET Probes)] ==
        PolicyChoice(s[1],
          UNION { PolicyScore(x, [b \in Buckets(s[1], x) |-> solve[<<b, s[2] \ {x}>>]]) :
                    x \in { y \in s[2] : Separates(s[1], y) } })
  IN  solve

\* assess_action_identifiability: the pairs no probe tells apart although they
\* call for different actions.
Witnesses(space) ==
  { pair \in space \X space :
      /\ ActionSignature[pair[1]] # ActionSignature[pair[2]]
      /\ \A x \in Probes : PredictTrace[pair[1]][x] = PredictTrace[pair[2]][x] }

-----------------------------------------------------------------------------
(* From survivors to guards.                                               *)

\* build_topology_envelope raises for these.
EnvelopeRaises(graphs) ==
  \/ Cardinality({ Graph[g].residual : g \in graphs }) > 1
  \/ \E g \in graphs : RelevantEdges(g) = {}

\* The scenario of a graph has its relevant edges only.  It holds if some set of
\* nodes that the unguarded ones do not leave has the start and no residual node.
ScenarioHolds(g, guarded) ==
  \E closed \in SUBSET (Nodes \ Graph[g].residual) :
    /\ Graph[g].initial \subseteq closed
    /\ \A e \in RelevantEdges(g) \ guarded :
         SourceOf[e] \in closed => TargetOf[e] \in closed

\* The robust cut over one guard of cost 1 per relevant edge.  The mutant looks
\* at the nominal scenario only.
NominalCuts(graphs) ==
  { S \in SUBSET UNION { RelevantEdges(g) : g \in graphs } :
      ScenarioHolds(Min(graphs), S) }

Cuts(graphs) ==
  { S \in SUBSET UNION { RelevantEdges(g) : g \in graphs } :
      \A g \in graphs : ScenarioHolds(g, S) }

GuardsLess(S, T) ==
  \/ Cardinality(S) < Cardinality(T)
  \/ /\ Cardinality(S) = Cardinality(T)
     /\ \E e \in S \ T : \A f \in T \ S : e < f

RobustCut(cuts) == CHOOSE S \in cuts : \A T \in cuts \ {S} : GuardsLess(S, T)
=============================================================================
