-------------------------- MODULE GreedyDeletionCut --------------------------
(***************************************************************************)
(* greedy_cdc (cdc.py): as long as the graph is not COMPLETE, take the     *)
(* action that removes most violations for its cost; stop when none        *)
(* removes any.  The problem is that of CausalDeletionCut, without limit.  *)
(***************************************************************************)
EXTENDS Integers, FiniteSets

CONSTANT Actions  \* action ranks

VARIABLES problem,    \* the verdict and violations of every set of actions
          phase,      \* "run", "returned" or "raised"
          chosen,     \* the actions taken
          remaining,  \* the permitted actions that are left
          complete    \* the verdict of the plan returned is COMPLETE

greedyVars == <<phase, chosen, remaining, complete>>
vars == <<problem, greedyVars>>

NotStarted ==
  /\ phase = "run"
  /\ chosen = {}
  /\ remaining = problem.permitted
  /\ complete = FALSE

Incomplete == problem.verdict[chosen] # "COMPLETE"

Improvement(a) == problem.violations[chosen] - problem.violations[chosen \union {a}]

\* A mutant: one violation less is not worth it.
UsefulByTwo == { a \in remaining : Improvement(a) > 1 }

Useful == { a \in remaining : Improvement(a) > 0 }

\* improvement / cost, infinite for a free action; equal ratios go to the
\* cheaper action, then to the smaller id.
RatioGreater(a, b) ==
  /\ problem.cost[b] # 0
  /\ Improvement(a) * problem.cost[b] > Improvement(b) * problem.cost[a]

Before(a, b) ==
  \/ RatioGreater(a, b)
  \/ /\ ~ RatioGreater(b, a)
     /\ \/ problem.cost[a] < problem.cost[b]
        \/ problem.cost[a] = problem.cost[b] /\ a < b

EvaluationRaises ==
  /\ phase = "run"
  /\ Incomplete
  /\ \E a \in remaining : problem.verdict[chosen \union {a}] = "RAISED"
  /\ phase' = "raised"
  /\ UNCHANGED <<problem, chosen, remaining, complete>>

Evaluable == \A a \in remaining : problem.verdict[chosen \union {a}] # "RAISED"

Take(a) ==
  /\ phase = "run"
  /\ Incomplete /\ Evaluable
  /\ a \in Useful
  /\ \A b \in Useful \ {a} : Before(a, b)
  /\ chosen' = chosen \union {a}
  /\ remaining' = remaining \ {a}
  /\ UNCHANGED <<problem, phase, complete>>

ReturnComplete ==
  /\ phase = "run"
  /\ ~ Incomplete
  /\ phase' = "returned"
  /\ complete' = TRUE
  /\ UNCHANGED <<problem, chosen, remaining>>

ReturnIncomplete ==
  /\ phase = "run"
  /\ Incomplete /\ Evaluable
  /\ Useful = {}
  /\ phase' = "returned"
  /\ UNCHANGED <<problem, chosen, remaining, complete>>

Next ==
  \/ EvaluationRaises
  \/ \E a \in Actions : Take(a)
  \/ ReturnComplete \/ ReturnIncomplete
=============================================================================
