-------------------------- MODULE GhostGraphDiscovery --------------------------
(***************************************************************************)
(* A discovery trial (_trial of run_ghostgraph_v1.py): probe the system    *)
(* until no registered probe separates the surviving hypotheses, guard     *)
(* what they call for, and replay the true graph under the guards; or      *)
(* follow the global policy (run_global_policy) to an action.              *)
(*                                                                         *)
(* What a probe shows is the environment: the true graph's trace with at   *)
(* most as many wrong bits as the trial's noise.                           *)
(***************************************************************************)
EXTENDS GhostGraph

CONSTANT Trials

\* space holds the graphs that are hypotheses.  noise is what the system does to
\* traces, budget is trace_error_budget, valid says whether the discovery evidence
\* is.  The policy has no error budget.
Trial ==
  [space : (SUBSET Ids) \ {{}}, truth : Ids, budget : Nat, noise : Nat,
   valid : BOOLEAN, planner : {"minimax", "policy"}]

ASSUME TrialsAssumption ==
  /\ Trials \subseteq Trial
  /\ \A t \in Trials :
       /\ t.noise <= t.budget
       /\ t.planner = "policy" => t.budget = 0 /\ t.valid

VARIABLES trial,
          pc,            \* "probe", "decided", "replay" or "ended"
          observations,  \* the traces of the probes executed
          graphs,        \* the graphs the policy still reckons with
          action,        \* what the policy recommends, a singleton once it does
          guards,        \* edges guarded, a singleton once the cut has answered
          holders        \* nodes that hold the target in the replay

vars == <<trial, pc, observations, graphs, action, guards, holders>>

Used == DOMAIN observations
TruthListed == trial.truth \in trial.space
Truth == Graph[trial.truth]

Surviving == Survivors(trial.space, observations, trial.budget)
Verdict == DiscoveryVerdict(trial.space, observations, trial.budget, trial.valid)

Init ==
  /\ trial \in Trials
  /\ pc = "probe"
  /\ observations = <<>>
  /\ graphs = trial.space
  /\ action = <<>>
  /\ guards = <<>>
  /\ holders = {}

-----------------------------------------------------------------------------
(* The probing loop.                                                       *)

\* What the system may show for probe x.
Shown(x) ==
  LET expected == PredictTrace[trial.truth][x]
  IN  { t \in [DOMAIN expected -> SUBSET Experiment[x].checkpoints] :
          TraceDistance(expected, t) <= trial.noise }

\* The observations once probe x has shown trace t.
Observed(x, t) ==
  [y \in Used \union {x} |-> IF y = x THEN t ELSE observations[y]]

Stopped == Verdict \in {"UNVERIFIED", "OUT_OF_HYPOTHESIS"}

\* A mutant: one path class is enough to stop.
SeparableClasses ==
  /\ ~ Stopped /\ Verdict # "PATH_CLASS_DISCOVERED"
  /\ Candidates(Surviving, Used) # {}

Separable == ~ Stopped /\ Candidates(Surviving, Used) # {}

Probe(x) ==
  /\ pc = "probe" /\ trial.planner = "minimax"
  /\ Separable
  /\ x = SelectNext(Surviving, Used)
  /\ \E t \in Shown(x) : observations' = Observed(x, t)
  /\ UNCHANGED <<trial, pc, graphs, action, guards, holders>>

Decide ==
  /\ pc = "probe" /\ trial.planner = "minimax"
  /\ ~ Separable
  /\ pc' = "decided"
  /\ UNCHANGED <<trial, observations, graphs, action, guards, holders>>

-----------------------------------------------------------------------------
(* run_global_policy.                                                      *)

Decision == Policy[<<graphs, Probes \ Used>>]

\* A trace that no branch has ends the run without an action.
FollowPolicy(x) ==
  /\ pc = "probe" /\ trial.planner = "policy"
  /\ Decision.next = x
  /\ \E t \in Shown(x) :
       /\ observations' = Observed(x, t)
       /\ IF t \in Traces(graphs, x)
          THEN graphs' = Bucket(graphs, x, t) /\ pc' = pc
          ELSE graphs' = graphs /\ pc' = "ended"
  /\ UNCHANGED <<trial, action, guards, holders>>

EndPolicy ==
  /\ pc = "probe" /\ trial.planner = "policy"
  /\ Decision.next = 0
  /\ pc' = "ended"
  /\ action' = IF Decision.feasible
               THEN << CHOOSE a \in Actions(graphs) : TRUE >> ELSE <<>>
  /\ UNCHANGED <<trial, observations, graphs, guards, holders>>

-----------------------------------------------------------------------------
(* Guards and their physical trial.                                        *)

\* The trial only goes on for listed truths that can recur.
Guardable ==
  /\ Verdict \in Actionable
  /\ TruthListed
  /\ RelevantSignature[trial.truth] # {}

GiveUp ==
  /\ pc = "decided"
  /\ ~ Guardable \/ EnvelopeRaises(Surviving)
  /\ pc' = "ended"
  /\ UNCHANGED <<trial, observations, graphs, action, guards, holders>>

\* GhostGraphStateLab.reset.
StartHolders == Truth.initial \ Truth.residual

Guard ==
  /\ pc = "decided"
  /\ Guardable /\ ~ EnvelopeRaises(Surviving)
  /\ LET cuts == Cuts(Surviving)
     IN  guards' = IF cuts = {} THEN <<>> ELSE << RobustCut(cuts) >>
  /\ pc' = "replay"
  /\ holders' = StartHolders
  /\ UNCHANGED <<trial, observations, graphs, action>>

GuardedEdges == IF guards = <<>> THEN {} ELSE guards[1]

Arrivals ==
  { TargetOf[e] : e \in { d \in Truth.edges \ GuardedEdges :
                            SourceOf[d] \in holders } } \ holders

\* A round of replay: every unguarded edge passes on what its source held.
Round ==
  /\ pc = "replay"
  /\ Arrivals # {}
  /\ holders' = holders \union Arrivals
  /\ UNCHANGED <<trial, pc, observations, graphs, action, guards>>

EndReplay ==
  /\ pc = "replay"
  /\ Arrivals = {}
  /\ pc' = "ended"
  /\ UNCHANGED <<trial, observations, graphs, action, guards, holders>>

\* The trial has returned.
Ended == pc = "ended" /\ UNCHANGED vars

Next ==
  \/ \E x \in Probes : Probe(x)
  \/ Decide
  \/ \E x \in Probes : FollowPolicy(x)
  \/ EndPolicy
  \/ GiveUp \/ Guard \/ Round \/ EndReplay
  \/ Ended

Spec == Init /\ [][Next]_vars

-----------------------------------------------------------------------------
(* What discovery promises.                                                *)

\* As long as the truth is listed and traces are no worse than the budget, the
\* truth is never ruled out, so a confident verdict is right: the one survivor
\* is the truth, the one path class is that of the truth.
ConfidentIsRight ==
  trial.valid /\ TruthListed =>
    /\ trial.truth \in Surviving
    /\ Verdict = "GRAPH_DISCOVERED" => Surviving = {trial.truth}
    /\ Verdict = "PATH_CLASS_DISCOVERED" =>
         \A g \in Surviving : RelevantSignature[g] = RelevantSignature[trial.truth]

\* Probing stops with several survivors only if there is nothing left to learn:
\* without noise no registered probe, executed or not, tells them apart.
StopsOnlyWhenInseparable ==
  /\ pc # "probe" /\ trial.planner = "minimax"
  /\ trial.budget = 0 /\ Surviving # {} /\ trial.valid
  => \A x \in Probes : Cardinality(Traces(Surviving, x)) = 1

\* The policy recommends what the true graph needs, within the worst-case cost
\* and number of probes its certificate states.  It exists exactly for
\* identifiable actions: if any two hypotheses with different actions are told
\* apart by some probe, probing one by one suffices.
ProbeCost == [x \in Probes |-> Experiment[x].cost]
Spent == MapThenSumSet(LAMBDA x : ProbeCost[x], Used)

PolicyIsRight ==
  trial.planner = "policy" =>
    LET root == Policy[<<trial.space, Probes>>]
    IN  /\ root.feasible => Spent <= root.cost /\ Cardinality(Used) <= root.probes
        /\ action # <<>> /\ TruthListed => action[1] = ActionSignature[trial.truth]
        /\ pc = "ended" /\ TruthListed /\ root.feasible => action # <<>>
        /\ root.feasible <=> Witnesses(trial.space) = {}
=============================================================================
