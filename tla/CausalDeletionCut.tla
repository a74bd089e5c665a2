-------------------------- MODULE CausalDeletionCut --------------------------
(***************************************************************************)
(* exact_cdc (cdc.py): the branch and bound for the cheapest set of        *)
(* permitted actions after which the graph verifies as COMPLETE.  The      *)
(* recursion search(index, chosen, cost) is a stack of pending calls.      *)
(* Unlike the stabilization cut, a call is evaluated before it is bounded, *)
(* actions may undo one another, and the search also remembers the plan    *)
(* with the fewest violations for the case that none is complete.          *)
(*                                                                         *)
(* Actions are numbered by the rank of their ids.                          *)
(***************************************************************************)
EXTENDS Integers, FiniteSets, Sequences

CONSTANTS
  Actions,   \* action ranks
  Problems   \* the problems the search may be called with

Verdicts == {"COMPLETE", "INCOMPLETE", "UNVERIFIED", "RAISED"}

\* verdict and violations are those of evaluate_actions for a set of actions,
\* total is their cost, limit is max_exact_actions of the protocol.
Problem ==
  [ limit : Nat,
    permitted : SUBSET Actions,
    cost : [Actions -> Nat],
    total : [SUBSET Actions -> Nat],
    verdict : [SUBSET Actions -> Verdicts],
    violations : [SUBSET Actions -> Nat] ]

ASSUME ActionsAssumption == Actions \subseteq Nat /\ IsFiniteSet(Actions)
ASSUME ProblemsAssumption ==
  /\ Problems \subseteq Problem
  /\ \A p \in Problems :
       /\ p.total[{}] = 0
       /\ \A a \in Actions : p.total[{a}] = p.cost[a]
       /\ \A A, B \in SUBSET Actions :
            A \intersect B = {} => p.total[A \union B] = p.total[A] + p.total[B]

VARIABLES problem,
          pc,       \* "check", "search" or "returned"
          stack,    \* pending calls of search
          best,     \* best_complete, <<>> or a singleton sequence
          partial,  \* best_partial, <<>> or a singleton sequence
          outcome   \* the CDCPlan returned: its status and its actions

vars == <<problem, pc, stack, best, partial, outcome>>

-----------------------------------------------------------------------------
(* evaluate_actions and the keys plans are compared by.                    *)

Verdict(chosen) == problem.verdict[chosen]
Violations(chosen) == problem.violations[chosen]

\* Sorted id tuples of one length compare at the least id not in both.
LexLess(A, B) == \E x \in A \ B : \A y \in B \ A : x < y

CompleteLess(p, q) ==
  \/ p.cost < q.cost
  \/ p.cost = q.cost /\ Cardinality(p.chosen) < Cardinality(q.chosen)
  \/ /\ p.cost = q.cost
     /\ Cardinality(p.chosen) = Cardinality(q.chosen)
     /\ LexLess(p.chosen, q.chosen)

PartialLess(p, q) ==
  \/ Violations(p.chosen) < Violations(q.chosen)
  \/ Violations(p.chosen) = Violations(q.chosen) /\ CompleteLess(p, q)

-----------------------------------------------------------------------------
EmptyPlan == [chosen |-> {}, cost |-> 0]

NotStarted ==
  /\ pc = "check"
  /\ stack = <<>>
  /\ best = <<>>
  /\ partial = <<>>
  /\ outcome = [status |-> "NONE", plan |-> EmptyPlan]

Init == problem \in Problems /\ NotStarted

Return(status, plan) ==
  /\ pc' = "returned"
  /\ outcome' = [status |-> status, plan |-> plan]
  /\ UNCHANGED <<problem, stack, best, partial>>

RejectSize ==
  /\ pc = "check"
  /\ Cardinality(problem.permitted) > problem.limit
  /\ Return("RAISED", EmptyPlan)

StartSearch ==
  /\ pc = "check"
  /\ Cardinality(problem.permitted) <= problem.limit
  /\ pc' = "search"
  /\ stack' = << [chosen |-> {}, undecided |-> problem.permitted, cost |-> 0] >>
  /\ UNCHANGED <<problem, best, partial, outcome>>

-----------------------------------------------------------------------------
(* One call of search.                                                     *)

Top == Head(stack)
TopPlan == [chosen |-> Top.chosen, cost |-> Top.cost]
InSearch == pc = "search" /\ stack # <<>>

EvaluationRaises ==
  /\ InSearch
  /\ Verdict(Top.chosen) = "RAISED"
  /\ Return("RAISED", EmptyPlan)

\* A mutant: the first complete plan found is kept.
KeepFirst ==
  /\ InSearch
  /\ Verdict(Top.chosen) = "COMPLETE"
  /\ best' = IF best = <<>> THEN << TopPlan >> ELSE best
  /\ stack' = Tail(stack)
  /\ UNCHANGED <<problem, pc, partial, outcome>>

Accept ==
  /\ InSearch
  /\ Verdict(Top.chosen) = "COMPLETE"
  /\ best' = IF best = <<>> \/ CompleteLess(TopPlan, best[1]) THEN << TopPlan >>
             ELSE best
  /\ stack' = Tail(stack)
  /\ UNCHANGED <<problem, pc, partial, outcome>>

Bounded ==
  /\ best # <<>>
  /\ \/ Top.cost > best[1].cost
     \/ /\ Top.cost = best[1].cost
        /\ Cardinality(Top.chosen) >= Cardinality(best[1].chosen)

Undone == Verdict(Top.chosen) \in {"INCOMPLETE", "UNVERIFIED"}

Prune ==
  /\ InSearch
  /\ Undone
  /\ Bounded
  /\ stack' = Tail(stack)
  /\ UNCHANGED <<problem, pc, best, partial, outcome>>

Remember ==
  partial' = IF partial = <<>> \/ PartialLess(TopPlan, partial[1])
             THEN << TopPlan >> ELSE partial

GiveUpLeaf ==
  /\ InSearch
  /\ Undone /\ ~ Bounded
  /\ Remember
  /\ Top.undecided = {}
  /\ stack' = Tail(stack)
  /\ UNCHANGED <<problem, pc, best, outcome>>

With(frame, a) ==
  [chosen |-> frame.chosen \union {a},
   undecided |-> frame.undecided \ {a},
   cost |-> frame.cost + problem.cost[a]]

Without(frame, a) == [frame EXCEPT !.undecided = @ \ {a}]

Branch(a) ==
  /\ InSearch
  /\ Undone /\ ~ Bounded
  /\ a \in Top.undecided
  /\ \A b \in Top.undecided : a <= b
  /\ Remember
  /\ stack' = << With(Top, a), Without(Top, a) >> \o Tail(stack)
  /\ UNCHANGED <<problem, pc, best, outcome>>

ReturnComplete ==
  /\ pc = "search"
  /\ stack = <<>>
  /\ best # <<>>
  /\ Return("OPTIMAL", best[1])

ReturnPartial ==
  /\ pc = "search"
  /\ stack = <<>>
  /\ best = <<>>
  /\ Return("INFEASIBLE", partial[1])

Next ==
  \/ RejectSize \/ StartSearch
  \/ EvaluationRaises \/ Accept \/ Prune \/ GiveUpLeaf
  \/ \E a \in Actions : Branch(a)
  \/ ReturnComplete \/ ReturnPartial

\* A function call: it runs to its end.
Spec == Init /\ [][Next]_vars /\ WF_vars(Next)

-----------------------------------------------------------------------------
(* What the cut promises.                                                  *)

PlanOf(chosen) == [chosen |-> chosen, cost |-> problem.total[chosen]]

\* exact_cdc is brute_force_cdc, although actions can reopen what others closed
\* and the bound skips subtrees: an OPTIMAL plan verifies, and no set of
\* permitted actions that verifies is before it by (cost, count, ids);
\* INFEASIBLE means that no set of them verifies, and the plan returned is the
\* first of all by (violations, cost, count, ids).
CutIsBruteForce ==
  /\ outcome.status = "OPTIMAL" =>
       /\ outcome.plan = PlanOf(outcome.plan.chosen)
       /\ outcome.plan.chosen \subseteq problem.permitted
       /\ Verdict(outcome.plan.chosen) = "COMPLETE"
       /\ \A S \in SUBSET problem.permitted :
            Verdict(S) = "COMPLETE" => ~ CompleteLess(PlanOf(S), outcome.plan)
  /\ outcome.status = "INFEASIBLE" =>
       \A S \in SUBSET problem.permitted :
         /\ Verdict(S) # "COMPLETE"
         /\ ~ PartialLess(PlanOf(S), outcome.plan)
=============================================================================
