------------------------ MODULE ExactStabilizationCut ------------------------
(***************************************************************************)
(* The branch and bound of exact_stabilization_cut (temporal.py) and of    *)
(* exact_robust_stabilization_cut (temporal_robust.py): find the cheapest  *)
(* set of permitted controls whose guards make the evaluation answer       *)
(* RSE_VERIFIED.  The recursion search(index, chosen, guarded, cost) is a  *)
(* stack of pending calls, the next one first; nothing happens in a call   *)
(* after its second recursive call, so the stack is the whole control.     *)
(*                                                                         *)
(* Controls are numbered by the rank of their ids.                         *)
(***************************************************************************)
EXTENDS Integers, FiniteSets, Sequences

CONSTANTS
  Controls,          \* control ranks
  TransitionIds,     \* what a control can guard
  Problems,          \* the problems the search may be called with
  MaxExactControls   \* the limit on permitted controls

\* robust says which of the two functions is called: the robust cut screens
\* coverage first.  verdict is the evaluation of the problem under a set of guards: that of
\* evaluate_rse, or RSE_VERIFIED if every scenario of an envelope has it.
\* total is the cost of a set of controls.
Problem ==
  [ robust : BOOLEAN,
    permitted : SUBSET Controls,
    known : SUBSET TransitionIds,
    guards : [Controls -> SUBSET TransitionIds],
    cost : [Controls -> Nat],
    total : [SUBSET Controls -> Nat],
    verdict : [SUBSET TransitionIds -> {"RSE_VERIFIED", "OTHER", "RAISED"}],
    coverageComplete : BOOLEAN ]

ASSUME ControlsAssumption == Controls \subseteq Nat /\ IsFiniteSet(Controls)
ASSUME LimitAssumption == MaxExactControls \in Nat
ASSUME ProblemsAssumption ==
  /\ Problems \subseteq Problem
  /\ \A p \in Problems :
       /\ p.total[{}] = 0
       /\ \A c \in Controls : p.total[{c}] = p.cost[c]
       /\ \A A, B \in SUBSET Controls :
            A \intersect B = {} => p.total[A \union B] = p.total[A] + p.total[B]

VARIABLES
  problem,  \* the arguments
  pc,       \* "check", "search" or "returned"
  stack,    \* pending calls of search
  best,     \* the best plan so far, <<>> or a singleton sequence
  outcome   \* the StabilizationPlan returned: its status and its controls

vars == <<problem, pc, stack, best, outcome>>

Frame == [chosen : SUBSET Controls, undecided : SUBSET Controls,
          guarded : SUBSET TransitionIds, cost : Nat]
Plan == [chosen : SUBSET Controls, cost : Nat]
Statuses == {"NONE", "OPTIMAL", "INFEASIBLE", "UNVERIFIED", "RAISED"}

\* The types: every pending call has natural cost and decides among controls.
TypeOK ==
  /\ problem \in Problems
  /\ pc \in {"check", "search", "returned"}
  /\ stack \in Seq(Frame)
  /\ best \in Seq(Plan)
  /\ outcome \in [status : Statuses, plan : Plan]

EmptyPlan == [chosen |-> {}, cost |-> 0]

-----------------------------------------------------------------------------
(* The key (cost, number of controls, ids).  Sorted id tuples of one       *)
(* length compare at the first place they differ: the tuple that has the   *)
(* least id not common to both is the smaller.                             *)

LexLess(A, B) == \E x \in A \ B : \A y \in B \ A : x < y

KeyLess(a, b) ==
  \/ a.cost < b.cost
  \/ a.cost = b.cost /\ Cardinality(a.chosen) < Cardinality(b.chosen)
  \/ /\ a.cost = b.cost
     /\ Cardinality(a.chosen) = Cardinality(b.chosen)
     /\ LexLess(a.chosen, b.chosen)

-----------------------------------------------------------------------------
NotStarted ==
  /\ pc = "check"
  /\ stack = <<>>
  /\ best = <<>>
  /\ outcome = [status |-> "NONE", plan |-> EmptyPlan]

Init == problem \in Problems /\ NotStarted

Return(status, plan) ==
  /\ pc' = "returned"
  /\ outcome' = [status |-> status, plan |-> plan]
  /\ UNCHANGED <<problem, stack, best>>

Valid ==
  /\ \A c \in Controls : problem.guards[c] \subseteq problem.known
  /\ Cardinality(problem.permitted) <= MaxExactControls

Baseline == problem.verdict[{}]

RejectArguments ==
  /\ pc = "check"
  /\ ~ Valid \/ Baseline = "RAISED"
  /\ Return("RAISED", EmptyPlan)

\* Only the robust cut gives up before the search when coverage is incomplete.
ScreenCoverage ==
  /\ pc = "check"
  /\ Valid /\ Baseline # "RAISED"
  /\ problem.robust /\ ~ problem.coverageComplete
  /\ Return("UNVERIFIED", EmptyPlan)

AcceptBaseline ==
  /\ pc = "check"
  /\ Valid
  /\ problem.robust => problem.coverageComplete
  /\ Baseline = "RSE_VERIFIED"
  /\ Return("OPTIMAL", EmptyPlan)

StartSearch ==
  /\ pc = "check"
  /\ Valid
  /\ problem.robust => problem.coverageComplete
  /\ Baseline = "OTHER"
  /\ pc' = "search"
  /\ stack' = << [chosen |-> {}, undecided |-> problem.permitted,
                  guarded |-> {}, cost |-> 0] >>
  /\ UNCHANGED <<problem, best, outcome>>

-----------------------------------------------------------------------------
(* One call of search.                                                     *)

Top == Head(stack)
InSearch == pc = "search" /\ stack # <<>>

\* A mutant: equal cost is enough to cut a subtree off.
BoundedByCost(frame) == best # <<>> /\ frame.cost >= best[1].cost

Bounded(frame) ==
  /\ best # <<>>
  /\ \/ frame.cost > best[1].cost
     \/ /\ frame.cost = best[1].cost
        /\ Cardinality(frame.chosen) > Cardinality(best[1].chosen)

Evaluation == problem.verdict[Top.guarded]

Prune ==
  /\ InSearch
  /\ Bounded(Top)
  /\ stack' = Tail(stack)
  /\ UNCHANGED <<problem, pc, best, outcome>>

EvaluationRaises ==
  /\ InSearch
  /\ ~ Bounded(Top)
  /\ Evaluation = "RAISED"
  /\ Return("RAISED", EmptyPlan)

TopPlan == [chosen |-> Top.chosen, cost |-> Top.cost]

Accept ==
  /\ InSearch
  /\ ~ Bounded(Top)
  /\ Evaluation = "RSE_VERIFIED"
  /\ best' = IF best = <<>> \/ KeyLess(TopPlan, best[1]) THEN << TopPlan >>
             ELSE best
  /\ stack' = Tail(stack)
  /\ UNCHANGED <<problem, pc, outcome>>

GiveUpLeaf ==
  /\ InSearch
  /\ ~ Bounded(Top)
  /\ Evaluation = "OTHER"
  /\ Top.undecided = {}
  /\ stack' = Tail(stack)
  /\ UNCHANGED <<problem, pc, best, outcome>>

With(frame, c) ==
  [chosen |-> frame.chosen \union {c},
   undecided |-> frame.undecided \ {c},
   guarded |-> frame.guarded \union problem.guards[c],
   cost |-> frame.cost + problem.cost[c]]

Without(frame, c) == [frame EXCEPT !.undecided = @ \ {c}]

Branch(c) ==
  /\ InSearch
  /\ ~ Bounded(Top)
  /\ Evaluation = "OTHER"
  /\ c \in Top.undecided
  /\ \A d \in Top.undecided : c <= d
  /\ stack' = << With(Top, c), Without(Top, c) >> \o Tail(stack)
  /\ UNCHANGED <<problem, pc, best, outcome>>

ReturnBest ==
  /\ pc = "search"
  /\ stack = <<>>
  /\ best # <<>>
  /\ Return("OPTIMAL", best[1])

ReturnNone ==
  /\ pc = "search"
  /\ stack = <<>>
  /\ best = <<>>
  /\ Return(IF problem.coverageComplete THEN "INFEASIBLE" ELSE "UNVERIFIED",
            EmptyPlan)

Next ==
  \/ RejectArguments \/ ScreenCoverage \/ AcceptBaseline \/ StartSearch
  \/ Prune \/ EvaluationRaises \/ Accept \/ GiveUpLeaf
  \/ \E c \in Controls : Branch(c)
  \/ ReturnBest \/ ReturnNone

\* A function call: it runs to its end.
Spec == Init /\ [][Next]_vars /\ WF_vars(Next)

-----------------------------------------------------------------------------
(* What the cut promises.                                                  *)

GuardsOf(controls) == UNION { problem.guards[c] : c \in controls }
PlanOf(controls) == [chosen |-> controls, cost |-> problem.total[controls]]
Feasible(controls) == problem.verdict[GuardsOf(controls)] = "RSE_VERIFIED"

\* An OPTIMAL plan uses permitted controls, verifies, and no set of permitted
\* controls that verifies has a smaller key (cost, count, ids), in spite of
\* the subtrees the bound never looked at.
PlanIsOptimal ==
  outcome.status = "OPTIMAL" =>
    /\ outcome.plan.chosen \subseteq problem.permitted
    /\ outcome.plan = PlanOf(outcome.plan.chosen)
    /\ Feasible(outcome.plan.chosen)
    /\ \A S \in SUBSET problem.permitted :
         Feasible(S) => ~ KeyLess(PlanOf(S), outcome.plan)

\* INFEASIBLE is a proof that no set of permitted controls verifies.
InfeasibleIsReal ==
  outcome.status = "INFEASIBLE" =>
    \A S \in SUBSET problem.permitted : ~ Feasible(S)

\* Whatever the bound never looked at: a plan that is returned is the optimum,
\* and a refusal is a proof.
CutIsExact == PlanIsOptimal /\ InfeasibleIsReal

-----------------------------------------------------------------------------
(* The inductive invariant behind CutIsExact.                              *)

\* The sets of controls that the pending call f can still consider.
Extends(S, f) == f.chosen \subseteq S /\ S \subseteq f.chosen \union f.undecided

FrameOK(f) ==
  /\ f.chosen \subseteq problem.permitted
  /\ f.undecided \subseteq problem.permitted
  /\ f.chosen \intersect f.undecided = {}
  /\ f.guarded = GuardsOf(f.chosen)
  /\ f.cost = problem.total[f.chosen]

StackOK == \A i \in 1..Len(stack) : FrameOK(stack[i])

BestOK ==
  best # <<>> =>
    /\ best[1].chosen \subseteq problem.permitted
    /\ best[1] = PlanOf(best[1].chosen)
    /\ Feasible(best[1].chosen)

\* Every set that verifies is either no better than the best plan so far or
\* still ahead in some pending call.
NothingLost ==
  pc = "search" =>
    \A S \in SUBSET problem.permitted :
      Feasible(S) =>
        \/ best # <<>> /\ ~ KeyLess(PlanOf(S), best[1])
        \/ \E i \in 1..Len(stack) : Extends(S, stack[i])

Undecided == pc # "returned" => outcome.status = "NONE"

IInv ==
  /\ TypeOK
  /\ StackOK
  /\ BestOK
  /\ NothingLost
  /\ Undecided
  /\ PlanIsOptimal
  /\ InfeasibleIsReal
=============================================================================
