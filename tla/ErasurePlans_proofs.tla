------------------------ MODULE ErasurePlans_proofs -------------------------
(***************************************************************************)
(* Proofs about the planners of a deletion, for every finite graph, set of *)
(* actions, costs and request.                                             *)
(*                                                                         *)
(* exact_cdc (CutInv).  While the search has found no complete plan it has *)
(* bounded nothing, so every set it is done with was remembered by its     *)
(* violations.  Once it has one, only complete sets count, and what it     *)
(* bounds is not better.  Evaluations need not be monotone.                *)
(*                                                                         *)
(* The plan carried out (ErasureInv).  The real system is always one that  *)
(* the graph allows after the actions done so far, for an unverified       *)
(* transition leaves UNKNOWN behind; and data that was with the subject or *)
(* a source when the last action was done has left a simple path of open   *)
(* nodes and edges behind it, which the evaluation would have listed had   *)
(* it led to a sink.                                                       *)
(*                                                                         *)
(* Refusals.  A listed path leaks in the system in which everything        *)
(* UNKNOWN is open, by induction along the path.                           *)
(*                                                                         *)
(* greedy_cdc.  Of the five kinds of violations some action of a complete  *)
(* plan removes one, and actions that only close add none: so long as a    *)
(* complete plan exists the greedy search has an action to take.           *)
(*                                                                         *)
(* Covers (CoverInv).  exact_plan is done with a set of actions once it    *)
(* knows a plan as cheap, or, knowing no complete one, a plan as close.    *)
(* greedy_plan: any complete plan covers the u artifacts still open, so    *)
(* one of its actions costs at most the u-th part of the plan per          *)
(* artifact, and the action picked costs no more.  The bound on the cost   *)
(* of what is picked is the sum of these parts.                            *)
(***************************************************************************)
EXTENDS ErasurePlans, DataInduction

\* A problem whose costs add up.
Additive(p) ==
  /\ p \in Problem
  /\ p.total[{}] = 0
  /\ \A a \in Actions : p.total[{a}] = p.cost[a]
  /\ \A A, B \in SUBSET Actions :
       A \intersect B = {} => p.total[A \union B] = p.total[A] + p.total[B]

Frame == [chosen : SUBSET Actions, undecided : SUBSET Actions, cost : Nat]
Plan == [chosen : SUBSET Actions, cost : Nat]

\* Everything in its type, and every pending call and every plan with the cost
\* of its actions.
FrameOK(f) ==
  /\ f.chosen \subseteq problem.permitted
  /\ f.undecided \subseteq problem.permitted
  /\ f.chosen \intersect f.undecided = {}
  /\ f.cost = problem.total[f.chosen]

PlanOK(p) == p.chosen \subseteq problem.permitted /\ p = PlanOf(p.chosen)

TypesOK ==
  /\ Additive(problem)
  /\ pc \in {"check", "search", "returned"}
  /\ stack \in Seq(Frame) /\ \A i \in 1..Len(stack) : FrameOK(stack[i])
  /\ best \in Seq(Plan) /\ partial \in Seq(Plan)
  /\ outcome \in [status : {"NONE", "OPTIMAL", "INFEASIBLE", "RAISED"}, plan : Plan]

PlansOK ==
  /\ best # <<>> => PlanOK(best[1]) /\ Verdict(best[1].chosen) = "COMPLETE"
  /\ partial # <<>> => PlanOK(partial[1])

\* The sets of actions that the pending call f can still consider.
Extends(S, f) == f.chosen \subseteq S /\ S \subseteq f.chosen \union f.undecided

\* The search is done with S: S is no better than what it has found.
SettledFor(S, b, p) ==
  IF b # <<>> THEN Verdict(S) = "COMPLETE" => ~ CompleteLess(PlanOf(S), b[1])
  ELSE /\ Verdict(S) \in {"INCOMPLETE", "UNVERIFIED"}
       /\ p # <<>> /\ ~ PartialLess(PlanOf(S), p[1])

NothingLost ==
  pc = "search" =>
    \A S \in SUBSET problem.permitted :
      SettledFor(S, best, partial) \/ \E i \in 1..Len(stack) : Extends(S, stack[i])

\* A refusal: every set was evaluated, and none raised or verified.
Refused ==
  outcome.status = "INFEASIBLE" =>
    \A S \in SUBSET problem.permitted : Verdict(S) \in {"INCOMPLETE", "UNVERIFIED"}

CutInv == TypesOK /\ PlansOK /\ NothingLost /\ CutIsBruteForce /\ Refused
          /\ (pc # "returned" => outcome.status = "NONE")

-----------------------------------------------------------------------------
(* The orders on plans.                                                    *)

\* A set of actions is finite; a subset is no larger, and as large only if it
\* is the whole set.
LEMMA ActionSets ==
  ASSUME NEW S \in SUBSET Actions
  PROVE  /\ IsFiniteSet(S)
         /\ Cardinality(S) \in Nat
         /\ \A R \in SUBSET S : /\ Cardinality(R) \in Nat
                                /\ Cardinality(R) <= Cardinality(S)
                                /\ Cardinality(R) = Cardinality(S) => R = S
<1>1. IsFiniteSet(S)
  BY ActionsAssumption, FS_Subset
<1>. QED  BY <1>1, FS_Subset, FS_CardinalityType

\* The two orders on plans are transitive.
LEMMA CompleteTransitive ==
  ASSUME NEW a \in Plan, NEW b \in Plan, NEW c \in Plan,
         CompleteLess(a, b), CompleteLess(b, c)
  PROVE  CompleteLess(a, c)
<1>1. /\ Cardinality(a.chosen) \in Nat /\ a.cost \in Nat
      /\ Cardinality(b.chosen) \in Nat /\ b.cost \in Nat
      /\ Cardinality(c.chosen) \in Nat /\ c.cost \in Nat
  BY ActionSets DEF Plan
<1>2. LexLess(a.chosen, b.chosen) /\ LexLess(b.chosen, c.chosen)
        => LexLess(a.chosen, c.chosen)
  <2>1. a.chosen \in SUBSET Nat /\ b.chosen \in SUBSET Nat /\ c.chosen \in SUBSET Nat
    BY ActionsAssumption DEF Plan
  <2>. QED  BY <2>1, LexTransitive DEF LexLess
<1>. QED  BY <1>1, <1>2 DEF CompleteLess

LEMMA PartialTransitive ==
  ASSUME TypesOK, NEW a \in Plan, NEW b \in Plan, NEW c \in Plan,
         PartialLess(a, b), PartialLess(b, c)
  PROVE  PartialLess(a, c)
<1>1. \A p \in Plan : Violations(p.chosen) \in Nat
  BY DEF Additive, TypesOK, Problem, Plan, Violations
<1>2. /\ Violations(a.chosen) \in Nat /\ Violations(b.chosen) \in Nat
      /\ Violations(c.chosen) \in Nat
  BY <1>1
<1>3. CompleteLess(a, b) /\ CompleteLess(b, c) => CompleteLess(a, c)
  BY CompleteTransitive
<1>. QED  BY <1>2, <1>3 DEF PartialLess

\* The cost of a set bounds the cost of its subsets.
LEMMA TotalMonotone ==
  ASSUME NEW p, Additive(p), NEW S \in SUBSET Actions, NEW R \in SUBSET S
  PROVE  /\ p.total[S] \in Nat /\ p.total[R] \in Nat
         /\ p.total[R] <= p.total[S]
<1>1. p.total \in [SUBSET Actions -> Nat]
  BY DEF Additive, Problem
<1>. DEFINE D == S \ R
<1>2. R \in SUBSET Actions /\ D \in SUBSET Actions /\ R \intersect D = {}
      /\ R \union D = S
  OBVIOUS
<1>. HIDE DEF D
<1>3. p.total[R \union D] = p.total[R] + p.total[D]
  BY <1>2 DEF Additive
<1>4. p.total[R] \in Nat /\ p.total[D] \in Nat /\ p.total[S] \in Nat
  BY <1>1, <1>2
<1>5. p.total[S] = p.total[R] + p.total[D]
  BY <1>2, <1>3
<1>. QED  BY <1>4, <1>5

\* The plan of a permitted set is a plan.
LEMMA PlanOfType ==
  ASSUME TypesOK, NEW S \in SUBSET problem.permitted
  PROVE  PlanOf(S) \in Plan /\ S \in SUBSET Actions
<1>1. problem \in Problem /\ S \in SUBSET Actions
  BY DEF Additive, TypesOK, Problem
<1>. QED  BY <1>1 DEF Problem, PlanOf, Plan

\* A set that extends a pending call costs at least as much and has at least
\* as many actions; it has as many only if it is the set chosen so far.
LEMMA ExtensionIsLarger ==
  ASSUME TypesOK, NEW f \in Frame, FrameOK(f),
         NEW S \in SUBSET problem.permitted, Extends(S, f)
  PROVE  /\ PlanOf(S).chosen = S /\ PlanOf(S).cost \in Nat /\ Cardinality(S) \in Nat
         /\ f.cost \in Nat /\ f.cost <= PlanOf(S).cost
         /\ Cardinality(f.chosen) \in Nat
         /\ Cardinality(f.chosen) <= Cardinality(S)
         /\ Cardinality(f.chosen) = Cardinality(S) => S = f.chosen
<1>1. /\ Additive(problem) /\ S \in SUBSET Actions
      /\ f.chosen \in SUBSET S
  BY PlanOfType DEF TypesOK, Extends
<1>2. /\ problem.total[S] \in Nat /\ problem.total[f.chosen] \in Nat
      /\ problem.total[f.chosen] <= problem.total[S]
  BY <1>1, TotalMonotone
<1>3. /\ Cardinality(f.chosen) \in Nat /\ Cardinality(S) \in Nat
      /\ Cardinality(f.chosen) <= Cardinality(S)
      /\ Cardinality(f.chosen) = Cardinality(S) => S = f.chosen
  BY <1>1, ActionSets
<1>. QED  BY <1>1, <1>2, <1>3 DEF PlanOf, FrameOK

\* The bound is sound although it cuts off equal counts: the call it cuts off
\* does not verify itself, and its other extensions have more actions.
LEMMA BoundIsSound ==
  ASSUME TypesOK, InSearch, Top \in Frame, FrameOK(Top), Undone, Bounded,
         NEW S \in SUBSET problem.permitted, Extends(S, Top), Verdict(S) = "COMPLETE"
  PROVE  ~ CompleteLess(PlanOf(S), best[1])
<1>1. best[1] \in Plan
  BY DEF TypesOK, Bounded
<1>2. best[1].cost \in Nat /\ Cardinality(best[1].chosen) \in Nat
  BY <1>1, ActionSets DEF Plan
<1>3. S # Top.chosen
  BY DEF Undone
<1>4. Cardinality(Top.chosen) < Cardinality(S)
  BY <1>3, ExtensionIsLarger
<1>. QED  BY <1>2, <1>4, ExtensionIsLarger DEF Bounded, CompleteLess

\* Stopping at a call that verifies is sound: its own plan is the best of its
\* extensions.
LEMMA AcceptIsSound ==
  ASSUME TypesOK, NEW f \in Frame, FrameOK(f),
         NEW S \in SUBSET problem.permitted, Extends(S, f)
  PROVE  LET own == [chosen |-> f.chosen, cost |-> f.cost]
         IN  /\ ~ CompleteLess(PlanOf(S), own)
             /\ PlanOf(S) = own \/ CompleteLess(own, PlanOf(S))
<1>1. ~ LexLess(f.chosen, f.chosen)
  BY DEF LexLess
<1>2. S = f.chosen => PlanOf(S) = [chosen |-> f.chosen, cost |-> f.cost]
  BY DEF PlanOf, FrameOK
<1>. QED  BY <1>1, <1>2, ExtensionIsLarger DEF CompleteLess

-----------------------------------------------------------------------------
(* The stack.                                                              *)

\* The recursive calls of a call: they are well formed, and a set of actions
\* that extends the call extends one of them.
LEMMA BranchCases ==
  ASSUME TypesOK, NEW f \in Frame, FrameOK(f), NEW a \in f.undecided
  PROVE  /\ With(f, a) \in Frame /\ FrameOK(With(f, a))
         /\ Without(f, a) \in Frame /\ FrameOK(Without(f, a))
         /\ \A S : Extends(S, f) => Extends(S, With(f, a)) \/ Extends(S, Without(f, a))
<1>1. /\ Additive(problem) /\ problem \in Problem
      /\ a \in Actions /\ a \in problem.permitted /\ a \notin f.chosen
      /\ f.chosen \in SUBSET Actions /\ {a} \in SUBSET Actions
  BY DEF Additive, TypesOK, Problem, FrameOK, Frame
<1>2. problem.cost[a] \in Nat
  BY <1>1 DEF Problem
<1>3. problem.total[f.chosen \union {a}] = f.cost + problem.cost[a]
  <2>1. f.chosen \intersect {a} = {}
    BY <1>1
  <2>2. problem.total[f.chosen \union {a}]
          = problem.total[f.chosen] + problem.total[{a}]
    BY <1>1, <2>1 DEF Additive
  <2>3. problem.total[{a}] = problem.cost[a]
    BY <1>1 DEF Additive
  <2>. QED  BY <2>2, <2>3 DEF FrameOK
<1>4. With(f, a) \in Frame
  BY <1>1, <1>2 DEF With, Frame
<1>5. FrameOK(With(f, a))
  BY <1>1, <1>3 DEF With, FrameOK
<1>6. Without(f, a) \in Frame /\ FrameOK(Without(f, a))
  BY <1>1 DEF Without, Frame, FrameOK
<1>7. ASSUME NEW S, Extends(S, f)
      PROVE  Extends(S, With(f, a)) \/ Extends(S, Without(f, a))
  <2>1. CASE a \in S
    BY <1>7, <2>1 DEF Extends, With
  <2>2. CASE a \notin S
    BY <1>7, <2>2 DEF Extends, Without, Frame
  <2>. QED  BY <2>1, <2>2
<1>. QED  BY <1>4, <1>5, <1>6, <1>7

\* What the running call is.
LEMMA TopCall ==
  ASSUME TypesOK, InSearch
  PROVE  /\ Top \in Frame /\ FrameOK(Top) /\ pc = "search"
         /\ stack \in Seq(Frame) /\ stack # <<>>
         /\ Tail(stack) \in Seq(Frame)
         /\ \A j \in 1..Len(Tail(stack)) : FrameOK(Tail(stack)[j])
         /\ TopPlan \in Plan /\ PlanOK(TopPlan) /\ TopPlan = PlanOf(Top.chosen)
<1>1. /\ stack \in Seq(Frame) /\ stack # <<>> /\ pc = "search"
      /\ \A i \in 1..Len(stack) : FrameOK(stack[i])
  BY DEF TypesOK, InSearch
<1>2. /\ Top \in Frame /\ FrameOK(Top) /\ Tail(stack) \in Seq(Frame)
      /\ \A j \in 1..Len(Tail(stack)) : FrameOK(Tail(stack)[j])
  BY <1>1, PopCases DEF Top
<1>3. TopPlan \in Plan /\ TopPlan = PlanOf(Top.chosen) /\ PlanOK(TopPlan)
  BY <1>2 DEF TopPlan, Plan, Frame, FrameOK, PlanOf, PlanOK
<1>. QED  BY <1>1, <1>2, <1>3

-----------------------------------------------------------------------------
(* Types and plans.                                                        *)

\* The problem is never replaced, nor what is defined from it.
LEMMA SameProblem ==
  ASSUME [Next]_vars
  PROVE  /\ problem' = problem
         /\ \A S : PlanOf(S)' = PlanOf(S) /\ Verdict(S)' = Verdict(S)
         /\ \A f : FrameOK(f)' <=> FrameOK(f)
         /\ \A p : PlanOK(p)' <=> PlanOK(p)
<1>1. problem' = problem
  BY DEF Next, vars, Return, RejectSize, StartSearch, EvaluationRaises, Accept, Prune,
         GiveUpLeaf, Branch, ReturnComplete, ReturnPartial
<1>. QED  BY <1>1 DEF PlanOf, Verdict, FrameOK, PlanOK

\* What a call may leave behind as partial.
LEMMA RememberedOK ==
  ASSUME TypesOK, PlansOK, InSearch, Remember
  PROVE  /\ partial' \in Seq(Plan) /\ partial' # <<>> /\ PlanOK(partial'[1])
         /\ partial' = << TopPlan >> \/ partial' = partial
<1>1. TopPlan \in Plan /\ PlanOK(TopPlan)
  BY TopCall
<1>2. CASE partial = <<>> \/ PartialLess(TopPlan, partial[1])
  BY <1>1, <1>2 DEF Remember
<1>3. CASE ~ (partial = <<>> \/ PartialLess(TopPlan, partial[1]))
  BY <1>3 DEF Remember, TypesOK, PlansOK
<1>. QED  BY <1>2, <1>3

\* Every step keeps types, frames and plans.
LEMMA StepTypes == CutInv /\ [Next]_vars => TypesOK' /\ PlansOK'
<1>. SUFFICES ASSUME CutInv, [Next]_vars PROVE TypesOK' /\ PlansOK'
  OBVIOUS
<1>0. TypesOK /\ PlansOK /\ problem \in Problem /\ EmptyPlan \in Plan
  BY DEF Additive, CutInv, TypesOK, EmptyPlan, Plan
<1>1. ASSUME NEW status \in {"NONE", "OPTIMAL", "INFEASIBLE", "RAISED"}, NEW which \in Plan,
             Return(status, which)
      PROVE  TypesOK' /\ PlansOK'
  BY <1>0, <1>1, SameProblem DEF Return, TypesOK, PlansOK
<1>2. CASE RejectSize \/ EvaluationRaises
  BY <1>0, <1>1, <1>2 DEF RejectSize, EvaluationRaises
<1>3. CASE StartSearch
  <2>. DEFINE root == [chosen |-> {}, undecided |-> problem.permitted, cost |-> 0]
  <2>1. root \in Frame
    BY <1>0 DEF Frame, Problem
  <2>2. problem.total[{}] = 0
    BY <1>0 DEF Additive, TypesOK
  <2>3. FrameOK(root)
    BY <2>2 DEF FrameOK
  <2>4. stack' = << root >> /\ pc' = "search" /\ UNCHANGED <<problem, best, partial, outcome>>
    BY <1>3 DEF StartSearch
  <2>. HIDE DEF root
  <2>. QED  BY <1>0, <2>1, <2>3, <2>4, SameProblem DEF TypesOK, PlansOK
\* A call is done and its frame popped.
<1>4. ASSUME InSearch, stack' = Tail(stack), pc' = pc, outcome' = outcome,
             best' \in Seq(Plan), partial' \in Seq(Plan), PlansOK'
      PROVE  TypesOK'
  BY <1>0, <1>4, TopCall, SameProblem DEF TypesOK
<1>5. CASE Accept
  <2>1. /\ InSearch /\ Verdict(Top.chosen) = "COMPLETE" /\ partial' = partial
        /\ best' = << TopPlan >> \/ best' = best
        /\ stack' = Tail(stack) /\ pc' = pc /\ outcome' = outcome
    BY <1>5 DEF Accept
  <2>2. /\ TopPlan \in Plan /\ PlanOK(TopPlan)
        /\ Verdict(TopPlan.chosen) = "COMPLETE"
    BY <1>0, <2>1, TopCall DEF TopPlan
  <2>3. best' \in Seq(Plan) /\ PlansOK'
    <3>1. CASE best' = << TopPlan >>
      <4>1. best' \in Seq(Plan) /\ best'[1] = TopPlan
        BY <2>2, <3>1
      <4>. QED  BY <1>0, <2>1, <2>2, <4>1, SameProblem DEF PlansOK
    <3>2. CASE best' = best
      BY <1>0, <2>1, <3>2, SameProblem DEF TypesOK, PlansOK
    <3>. QED  BY <2>1, <3>1, <3>2
  <2>4. partial' \in Seq(Plan)
    BY <1>0, <2>1 DEF TypesOK
  <2>. QED  BY <1>4, <2>1, <2>3, <2>4
<1>6. CASE Prune
  <2>1. /\ InSearch /\ partial' = partial /\ best' = best
        /\ stack' = Tail(stack) /\ pc' = pc /\ outcome' = outcome
    BY <1>6 DEF Prune
  <2>2. PlansOK' /\ best' \in Seq(Plan) /\ partial' \in Seq(Plan)
    BY <1>0, <2>1, SameProblem DEF TypesOK, PlansOK
  <2>. QED  BY <1>4, <2>1, <2>2
<1>7. CASE GiveUpLeaf
  <2>1. /\ InSearch /\ Remember /\ best' = best
        /\ stack' = Tail(stack) /\ pc' = pc /\ outcome' = outcome
    BY <1>7 DEF GiveUpLeaf
  <2>2. PlansOK' /\ best' \in Seq(Plan) /\ partial' \in Seq(Plan)
    BY <1>0, <2>1, SameProblem, RememberedOK DEF TypesOK, PlansOK
  <2>. QED  BY <1>4, <2>1, <2>2
<1>8. ASSUME NEW a \in Actions, Branch(a) PROVE TypesOK' /\ PlansOK'
  <2>. DEFINE t == Tail(stack)  f == With(Top, a)  g == Without(Top, a)
  <2>1. /\ InSearch /\ Remember /\ best' = best /\ a \in Top.undecided
        /\ pc' = pc /\ outcome' = outcome /\ stack' = << f, g >> \o t
    BY <1>8 DEF Branch
  <2>2. PlansOK' /\ best' \in Seq(Plan) /\ partial' \in Seq(Plan)
    BY <1>0, <2>1, SameProblem, RememberedOK DEF TypesOK, PlansOK
  <2>3. /\ f \in Frame /\ g \in Frame /\ t \in Seq(Frame)
        /\ FrameOK(f) /\ FrameOK(g) /\ \A j \in 1..Len(t) : FrameOK(t[j])
    BY <1>0, <2>1, TopCall, BranchCases
  <2>. HIDE DEF f, g, t
  <2>4. /\ stack' \in Seq(Frame)
        /\ \A k \in 1..Len(stack') :
             stack'[k] = f \/ stack'[k] = g \/ \E j \in 1..Len(t) : stack'[k] = t[j]
    BY <2>1, <2>3, PushCases
  <2>5. \A k \in 1..Len(stack') : FrameOK(stack'[k])
    BY <2>3, <2>4
  <2>. QED  BY <1>0, <2>1, <2>2, <2>4, <2>5, SameProblem DEF TypesOK
<1>9. CASE UNCHANGED vars
  BY <1>0, <1>9, SameProblem DEF vars, TypesOK, PlansOK
<1>10. ASSUME ReturnComplete \/ ReturnPartial PROVE TypesOK' /\ PlansOK'
  <2>1. CASE ReturnComplete
    <3>1. best[1] \in Plan
      BY <1>0, <2>1 DEF ReturnComplete, TypesOK
    <3>. QED  BY <1>1, <2>1, <3>1 DEF ReturnComplete
  <2>2. CASE ReturnPartial
    <3>1. pc = "search" /\ stack = <<>> /\ best = <<>>
      BY <2>2 DEF ReturnPartial
    <3>2. {} \in SUBSET problem.permitted
      OBVIOUS
    <3>3. partial # <<>>
      BY <3>1, <3>2 DEF CutInv, NothingLost, SettledFor
    <3>4. partial[1] \in Plan
      BY <1>0, <3>3 DEF TypesOK
    <3>. QED  BY <1>1, <2>2, <3>4 DEF ReturnPartial
  <2>. QED  BY <1>10, <2>1, <2>2
<1>. QED  BY <1>2, <1>3, <1>5, <1>6, <1>7, <1>8, <1>9, <1>10 DEF Next

-----------------------------------------------------------------------------
(* Nothing is lost.                                                        *)

\* What is settled stays settled while the closest plan only gets closer.
LEMMA SettledStays ==
  ASSUME TypesOK, NEW S \in SUBSET problem.permitted,
         NEW b, NEW p \in Seq(Plan), NEW q \in Seq(Plan), q # <<>>,
         p # <<>> => q = p \/ PartialLess(q[1], p[1]),
         SettledFor(S, b, p)
  PROVE  SettledFor(S, b, q)
<1>1. CASE b # <<>>
  BY <1>1 DEF SettledFor
<1>2. CASE b = <<>>
  <2>1. /\ Verdict(S) \in {"INCOMPLETE", "UNVERIFIED"}
        /\ p # <<>> /\ ~ PartialLess(PlanOf(S), p[1])
    BY <1>2 DEF SettledFor
  <2>2. PlanOf(S) \in Plan /\ p[1] \in Plan /\ q[1] \in Plan
    BY <2>1, PlanOfType
  <2>3. ~ PartialLess(PlanOf(S), q[1])
    BY <2>1, <2>2, PartialTransitive
  <2>. QED  BY <1>2, <2>1, <2>3 DEF SettledFor
<1>. QED  BY <1>1, <1>2

\* What is remembered is the closer of the running call and what was before.
LEMMA RememberImproves ==
  ASSUME TypesOK, PlansOK, InSearch, Remember
  PROVE  /\ partial \in Seq(Plan) /\ partial' \in Seq(Plan) /\ partial' # <<>>
         /\ ~ PartialLess(TopPlan, partial'[1])
         /\ partial # <<>> => partial' = partial \/ PartialLess(partial'[1], partial[1])
<1>1. partial \in Seq(Plan) /\ partial' \in Seq(Plan) /\ partial' # <<>>
  BY RememberedOK DEF TypesOK
<1>2. TopPlan \in Plan /\ ~ PartialLess(TopPlan, TopPlan)
  <2>1. TopPlan \in Plan /\ Violations(TopPlan.chosen) \in Nat
        /\ Cardinality(TopPlan.chosen) \in Nat /\ TopPlan.cost \in Nat
    <3>1. TopPlan \in Plan
      BY TopCall
    <3>2. TopPlan.chosen \in SUBSET Actions /\ TopPlan.cost \in Nat
      BY <3>1 DEF Plan
    <3>3. Violations(TopPlan.chosen) \in Nat
      BY <3>2 DEF Additive, TypesOK, Problem, Violations
    <3>. QED  BY <3>1, <3>2, <3>3, ActionSets
  <2>2. ~ LexLess(TopPlan.chosen, TopPlan.chosen)
    BY DEF LexLess
  <2>. QED  BY <2>1, <2>2 DEF PartialLess, CompleteLess
<1>3. CASE partial = <<>> \/ PartialLess(TopPlan, partial[1])
  <2>1. partial' = << TopPlan >> /\ partial'[1] = TopPlan
    BY <1>3 DEF Remember
  <2>. QED  BY <1>1, <1>2, <1>3, <2>1
<1>4. CASE ~ (partial = <<>> \/ PartialLess(TopPlan, partial[1]))
  <2>1. partial' = partial
    BY <1>4 DEF Remember
  <2>. QED  BY <1>1, <1>4, <2>1
<1>. QED  BY <1>3, <1>4

\* No step gives up a set that might be the answer: accepting, bounding and
\* branching leave it settled or still ahead in a pending call.
LEMMA StepNothingLost == CutInv /\ [Next]_vars => NothingLost'
<1>. SUFFICES ASSUME CutInv, [Next]_vars, pc' = "search",
                     NEW S \in SUBSET problem.permitted
              PROVE  \/ SettledFor(S, best', partial')
                     \/ \E i \in 1..Len(stack') : Extends(S, stack'[i])
  BY SameProblem DEF NothingLost, SettledFor, Extends, PartialLess, CompleteLess,
     Violations, LexLess
<1>0. TypesOK /\ PlansOK /\ NothingLost
  BY DEF CutInv
<1>1. CASE StartSearch
  <2>. DEFINE root == [chosen |-> {}, undecided |-> problem.permitted, cost |-> 0]
  <2>1. stack' = << root >> /\ Extends(S, root)
    BY <1>1 DEF StartSearch, Extends
  <2>. HIDE DEF root
  <2>. QED  BY <2>1
<1>2. ASSUME InSearch
      PROVE  \/ SettledFor(S, best, partial) \/ Extends(S, Top)
             \/ \E j \in 1..Len(Tail(stack)) : Extends(S, Tail(stack)[j])
  <2>1. stack \in Seq(Frame) /\ stack # <<>> /\ pc = "search"
    BY <1>0, <1>2, TopCall
  <2>. QED  BY <1>0, <2>1, PopCases DEF NothingLost, Top
<1>3. CASE Accept
  <2>1. /\ InSearch /\ Verdict(Top.chosen) = "COMPLETE" /\ partial' = partial
        /\ best' = IF best = <<>> \/ CompleteLess(TopPlan, best[1])
                   THEN << TopPlan >> ELSE best
        /\ stack' = Tail(stack)
    BY <1>3 DEF Accept
  <2>2. TopPlan \in Plan /\ PlanOf(S) \in Plan
    BY <1>0, <2>1, TopCall, PlanOfType
  <2>3. Extends(S, Top) => /\ ~ CompleteLess(PlanOf(S), TopPlan)
                           /\ PlanOf(S) = TopPlan \/ CompleteLess(TopPlan, PlanOf(S))
    BY <1>0, <2>1, TopCall, AcceptIsSound DEF TopPlan
  <2>4. CASE best = <<>> \/ CompleteLess(TopPlan, best[1])
    <3>1. best' # <<>> /\ best'[1] = TopPlan
      BY <2>1, <2>4
    <3>2. Extends(S, Top) => SettledFor(S, best', partial')
      BY <2>3, <3>1 DEF SettledFor
    <3>3. SettledFor(S, best, partial) => SettledFor(S, best', partial')
      <4>1. CASE best = <<>>
        BY <3>1, <4>1 DEF SettledFor
      <4>2. CASE best # <<>>
        <5>1. best[1] \in Plan /\ CompleteLess(TopPlan, best[1])
          BY <1>0, <2>4, <4>2 DEF TypesOK
        <5>2. CompleteLess(PlanOf(S), TopPlan) => CompleteLess(PlanOf(S), best[1])
          BY <2>2, <5>1, CompleteTransitive
        <5>. QED  BY <3>1, <4>2, <5>2 DEF SettledFor
      <4>. QED  BY <4>1, <4>2
    <3>. QED  BY <1>2, <2>1, <3>2, <3>3
  <2>5. CASE best # <<>> /\ ~ CompleteLess(TopPlan, best[1])
    <3>1. best' = best /\ best[1] \in Plan
      BY <1>0, <2>1, <2>5 DEF TypesOK
    <3>2. Extends(S, Top) => ~ CompleteLess(PlanOf(S), best[1])
      BY <2>2, <2>3, <2>5, <3>1, CompleteTransitive
    <3>3. Extends(S, Top) => SettledFor(S, best', partial')
      BY <2>5, <3>1, <3>2 DEF SettledFor
    <3>. QED  BY <1>2, <2>1, <3>1, <3>3
  <2>. QED  BY <2>4, <2>5
<1>4. CASE Prune
  <2>1. /\ InSearch /\ Undone /\ Bounded /\ best # <<>>
        /\ best' = best /\ partial' = partial /\ stack' = Tail(stack)
    BY <1>4 DEF Prune, Bounded
  <2>2. Extends(S, Top) => SettledFor(S, best, partial)
    BY <1>0, <2>1, TopCall, BoundIsSound DEF SettledFor
  <2>. QED  BY <1>2, <2>1, <2>2
<1>5. CASE GiveUpLeaf
  <2>1. /\ InSearch /\ Undone /\ Remember /\ best' = best /\ Top.undecided = {}
        /\ stack' = Tail(stack)
    BY <1>5 DEF GiveUpLeaf
  <2>2. SettledFor(S, best, partial) => SettledFor(S, best', partial')
    BY <1>0, <2>1, RememberImproves, SettledStays
  <2>3. ASSUME Extends(S, Top) PROVE SettledFor(S, best', partial')
    <3>1. S = Top.chosen /\ Verdict(S) \in {"INCOMPLETE", "UNVERIFIED"}
      <4>1. S = Top.chosen
        BY <2>1, <2>3 DEF Extends
      <4>. QED  BY <2>1, <4>1 DEF Undone
    <3>2. PlanOf(S) = TopPlan /\ partial' # <<>> /\ ~ PartialLess(TopPlan, partial'[1])
      BY <1>0, <2>1, <3>1, TopCall, RememberImproves
    <3>. QED  BY <2>1, <3>1, <3>2 DEF SettledFor
  <2>. QED  BY <1>2, <2>1, <2>2, <2>3
<1>6. ASSUME NEW a \in Actions, Branch(a)
      PROVE  \/ SettledFor(S, best', partial')
             \/ \E i \in 1..Len(stack') : Extends(S, stack'[i])
  <2>. DEFINE t == Tail(stack)  f == With(Top, a)  g == Without(Top, a)
  <2>1. /\ InSearch /\ Remember /\ best' = best /\ a \in Top.undecided
        /\ stack' = << f, g >> \o t
    BY <1>6 DEF Branch
  <2>2. /\ f \in Frame /\ g \in Frame /\ t \in Seq(Frame)
        /\ Extends(S, Top) => Extends(S, f) \/ Extends(S, g)
    BY <1>0, <2>1, TopCall, BranchCases
  <2>3. SettledFor(S, best, partial) => SettledFor(S, best', partial')
    BY <1>0, <2>1, RememberImproves, SettledStays
  <2>4. \/ SettledFor(S, best, partial) \/ Extends(S, Top)
        \/ \E j \in 1..Len(t) : Extends(S, t[j])
    BY <1>2, <2>1
  <2>. HIDE DEF f, g, t
  <2>5. /\ \A j \in 1..Len(t) : \E k \in 1..Len(stack') : stack'[k] = t[j]
        /\ \E k \in 1..Len(stack') : stack'[k] = f
        /\ \E k \in 1..Len(stack') : stack'[k] = g
    <3>1. /\ f \in Frame /\ g \in Frame /\ t \in Seq(Frame)
          /\ stack' = << f, g >> \o t
      BY <2>1, <2>2
    <3>2. \A j \in 1..Len(t) : \E k \in 1..Len(stack') : stack'[k] = t[j]
      <4>1. \A j \in 1..Len(t) : j + 2 \in 1..Len(stack') /\ stack'[j + 2] = t[j]
        BY ONLY <3>1, PushCases
      <4>. QED  BY ONLY <4>1
    <3>3. \E k \in 1..Len(stack') : stack'[k] = f
      BY ONLY <3>1, PushCases
    <3>4. \E k \in 1..Len(stack') : stack'[k] = g
      BY ONLY <3>1, PushCases
    <3>. QED  BY <3>2, <3>3, <3>4
  <2>. QED  BY <2>2, <2>3, <2>4, <2>5
<1>7. CASE UNCHANGED vars
  BY <1>7 DEF vars, CutInv, NothingLost
<1>. QED
  BY <1>1, <1>3, <1>4, <1>5, <1>6, <1>7
     DEF Next, Return, RejectSize, EvaluationRaises, ReturnComplete, ReturnPartial

-----------------------------------------------------------------------------
(* What is returned.                                                       *)

\* An empty stack leaves every set settled by what is returned.
LEMMA StepOutcome ==
  CutInv /\ [Next]_vars =>
    CutIsBruteForce' /\ Refused' /\ (pc' # "returned" => outcome'.status = "NONE")
<1>. SUFFICES ASSUME CutInv, [Next]_vars
              PROVE  CutIsBruteForce' /\ Refused' /\ (pc' # "returned" => outcome'.status = "NONE")
  OBVIOUS
<1>0. TypesOK /\ PlansOK /\ CutIsBruteForce /\ Refused /\ NothingLost
      /\ (pc # "returned" => outcome.status = "NONE")
  BY DEF CutInv
<1>1. CASE outcome' = outcome /\ (pc' # "returned" => pc # "returned")
  BY <1>0, <1>1, SameProblem
     DEF CutIsBruteForce, Refused, PartialLess, CompleteLess, Violations, LexLess
<1>2. CASE RejectSize \/ EvaluationRaises
  <2>1. outcome'.status = "RAISED" /\ pc' = "returned"
    BY <1>2 DEF RejectSize, EvaluationRaises, Return
  <2>. QED  BY <2>1 DEF CutIsBruteForce, Refused
<1>3. CASE ReturnComplete
  <2>1. /\ best # <<>> /\ pc = "search" /\ stack = <<>> /\ pc' = "returned"
        /\ outcome'.status = "OPTIMAL" /\ outcome'.plan = best[1]
    BY <1>3 DEF ReturnComplete, Return
  <2>2. \A S \in SUBSET problem.permitted :
          Verdict(S) = "COMPLETE" => ~ CompleteLess(PlanOf(S), best[1])
    BY <1>0, <2>1 DEF NothingLost, SettledFor
  <2>3. PlanOK(best[1]) /\ Verdict(best[1].chosen) = "COMPLETE"
    BY <1>0, <2>1 DEF PlansOK
  <2>. QED  BY <2>1, <2>2, <2>3, SameProblem
            DEF CutIsBruteForce, Refused, PlanOK, CompleteLess, LexLess
<1>4. CASE ReturnPartial
  <2>1. /\ best = <<>> /\ pc = "search" /\ stack = <<>> /\ pc' = "returned"
        /\ outcome'.status = "INFEASIBLE" /\ outcome'.plan = partial[1]
    BY <1>4 DEF ReturnPartial, Return
  <2>2. \A S \in SUBSET problem.permitted :
          /\ Verdict(S) \in {"INCOMPLETE", "UNVERIFIED"}
          /\ ~ PartialLess(PlanOf(S), partial[1])
    BY <1>0, <2>1 DEF NothingLost, SettledFor
  <2>. QED  BY <2>1, <2>2, SameProblem
            DEF CutIsBruteForce, Refused, PartialLess, CompleteLess, Violations, LexLess
<1>. QED
  BY <1>1, <1>2, <1>3, <1>4
     DEF Next, vars, StartSearch, Accept, Prune, GiveUpLeaf, Branch

\* The call starts with nothing found and nothing pending.
LEMMA InitCut == Additive(problem) /\ NotStarted => CutInv
BY ActionsAssumption
   DEF NotStarted, CutInv, TypesOK, PlansOK, NothingLost, CutIsBruteForce, Refused,
       EmptyPlan, Plan

LEMMA StepCut == CutInv /\ [Next]_vars => CutInv'
BY StepTypes, StepNothingLost, StepOutcome DEF CutInv

-----------------------------------------------------------------------------
(* The graph after a set of actions.                                       *)

Applied(graph, act, D, f) ==
  f = [s \in SUBSET D |-> IF s = {} THEN graph
                          ELSE ApplyAction(f[s \ {Max(s)}], act[Max(s)])]

LEMMA AfterIsApplied ==
  \A graph, act, S : After(graph, act, S) = (CHOOSE f : Applied(graph, act, Actions, f))[S]
BY DEF After, Applied

\* A set of actions has a last one.
LEMMA LastAction ==
  ASSUME NEW S \in SUBSET Actions, S # {}
  PROVE  Max(S) \in S /\ \A a \in S : a <= Max(S)
<1>1. S \in SUBSET Nat /\ IsFiniteSet(S)
  BY ActionsAssumption, FS_Subset
<1>. QED  BY <1>1, GreatestNat

LEMMA AppliedAgrees ==
  ASSUME NEW graph, NEW act, NEW A, NEW B, NEW f, NEW g,
         Applied(graph, act, A, f), Applied(graph, act, B, g),
         NEW S \in SUBSET Actions, S \subseteq A, S \subseteq B
  PROVE  f[S] = g[S]
<1>. DEFINE bad == { s \in SUBSET S : f[s] # g[s] }
<1>. SUFFICES ASSUME bad # {} PROVE FALSE
  OBVIOUS
<1>1. \A s \in bad : IsFiniteSet(s)
  BY ActionsAssumption, FS_Subset
<1>2. PICK s \in bad : \A u \in bad : u \subseteq s => u = s
  <2>. HIDE DEF bad
  <2>. QED  BY <1>1, LeastSet
<1>3. s \in SUBSET A /\ s \in SUBSET B /\ s \in SUBSET Actions
  OBVIOUS
<1>4. s # {}
  BY <1>3 DEF Applied
<1>5. Max(s) \in s
  BY <1>3, <1>4, LastAction
<1>. DEFINE u == s \ {Max(s)}
<1>6. f[u] = g[u]
  <2>1. u \in SUBSET S /\ u \subseteq s /\ u # s
    BY <1>5
  <2>. HIDE DEF u
  <2>. QED  BY <1>2, <2>1
<1>7. f[s] = ApplyAction(f[u], act[Max(s)]) /\ g[s] = ApplyAction(g[u], act[Max(s)])
  BY <1>3, <1>4 DEF Applied
<1>. HIDE DEF u
<1>. QED  BY <1>6, <1>7

LEMMA AppliedExists ==
  ASSUME NEW graph, NEW act
  PROVE  \E f : Applied(graph, act, Actions, f)
<1>. DEFINE bad == { s \in SUBSET Actions : ~ \E f : Applied(graph, act, s, f) }
<1>. SUFFICES ASSUME bad # {} PROVE FALSE
  OBVIOUS
<1>1. \A s \in bad : IsFiniteSet(s)
  BY ActionsAssumption, FS_Subset
<1>2. PICK s \in bad : \A u \in bad : u \subseteq s => u = s
  <2>. HIDE DEF bad
  <2>. QED  BY <1>1, LeastSet
<1>3. s \in SUBSET Actions /\ \A u \in SUBSET s : u # s => \E f : Applied(graph, act, u, f)
  BY <1>2
<1>. DEFINE of == [u \in SUBSET s |-> CHOOSE f : Applied(graph, act, u, f)]
            rest(u) == u \ {Max(u)}
            f == [u \in SUBSET s |-> IF u = {} THEN graph
                                     ELSE ApplyAction(of[rest(u)][rest(u)], act[Max(u)])]
<1>4. \A u \in SUBSET s : u # {} => rest(u) \in SUBSET s /\ rest(u) # s /\ rest(u) # u /\ rest(u) \subseteq u
  BY <1>3, LastAction
<1>5. \A u \in SUBSET s : u # s => Applied(graph, act, u, of[u])
  BY <1>3
<1>6. ASSUME NEW u \in SUBSET s, u # s PROVE f[u] = of[u][u]
  <2>1. Applied(graph, act, u, of[u])
    BY <1>5, <1>6
  <2>2. of[u][u] = IF u = {} THEN graph ELSE ApplyAction(of[u][rest(u)], act[Max(u)])
    BY <2>1 DEF Applied
  <2>3. u # {} => of[u][rest(u)] = of[rest(u)][rest(u)]
    <3>1. u # {} => Applied(graph, act, rest(u), of[rest(u)]) /\ rest(u) \subseteq u
                    /\ rest(u) \in SUBSET Actions
      BY <1>3, <1>4, <1>5
    <3>. HIDE DEF rest, of
    <3>. QED  BY <2>1, <3>1, AppliedAgrees
  <2>4. f[u] = IF u = {} THEN graph ELSE ApplyAction(of[rest(u)][rest(u)], act[Max(u)])
    OBVIOUS
  <2>. HIDE DEF rest, of, f
  <2>. QED  BY <2>2, <2>3, <2>4
<1>7. Applied(graph, act, s, f)
  <2>1. \A u \in SUBSET s : u # {} => f[rest(u)] = of[rest(u)][rest(u)]
    <3>. HIDE DEF rest, of, f
    <3>. QED  BY <1>4, <1>6
  <2>2. f = [u \in SUBSET s |-> IF u = {} THEN graph ELSE ApplyAction(f[rest(u)], act[Max(u)])]
    <3>1. \A u \in SUBSET s :
            f[u] = IF u = {} THEN graph ELSE ApplyAction(f[rest(u)], act[Max(u)])
      <4>1. \A u \in SUBSET s :
              f[u] = IF u = {} THEN graph ELSE ApplyAction(of[rest(u)][rest(u)], act[Max(u)])
        OBVIOUS
      <4>. HIDE DEF rest, of, f
      <4>. QED  BY <2>1, <4>1
    <3>2. f = [u \in SUBSET s |-> f[u]]
      OBVIOUS
    <3>. HIDE DEF rest, of, f
    <3>. QED  BY <3>1, <3>2
  <2>. QED  BY <2>2 DEF Applied
<1>. QED  BY <1>2, <1>7

\* The last action of a set is applied last.
LEMMA AfterUnfolds ==
  ASSUME NEW graph, NEW act, NEW S \in SUBSET Actions
  PROVE  After(graph, act, S) =
           IF S = {} THEN graph
           ELSE ApplyAction(After(graph, act, S \ {Max(S)}), act[Max(S)])
<1>. DEFINE f == CHOOSE h : Applied(graph, act, Actions, h)
<1>1. Applied(graph, act, Actions, f) /\ \A T : After(graph, act, T) = f[T]
  BY AppliedExists, AfterIsApplied
<1>. HIDE DEF f
<1>2. f[S] = IF S = {} THEN graph ELSE ApplyAction(f[S \ {Max(S)}], act[Max(S)])
  BY <1>1 DEF Applied
<1>. QED  BY <1>1, <1>2

LEMMA AfterLater ==
  ASSUME NEW graph, NEW act, NEW S \in SUBSET Actions, NEW a \in Actions, \A b \in S : b < a
  PROVE  After(graph, act, S \union {a}) = ApplyAction(After(graph, act, S), act[a])
<1>. DEFINE T == S \union {a}
<1>1. T \in SUBSET Actions /\ T # {}
  OBVIOUS
<1>2. Max(T) \in T /\ \A b \in T : b <= Max(T)
  BY <1>1, LastAction
<1>3. Max(T) = a /\ a \notin S
  <2>1. a \in Nat /\ \A b \in S : b \in Nat
    BY ActionsAssumption
  <2>2. Max(T) \in S \/ Max(T) = a
    BY <1>2
  <2>3. a <= Max(T)
    BY <1>2
  <2>4. a \notin S
    BY <2>1
  <2>5. Max(T) \in S => Max(T) < a /\ Max(T) \in Nat
    BY <2>1
  <2>. HIDE DEF T
  <2>. QED  BY <2>1, <2>2, <2>3, <2>4, <2>5
<1>4. T \ {a} = S
  BY <1>3
<1>5. After(graph, act, T) = ApplyAction(After(graph, act, T \ {Max(T)}), act[Max(T)])
  <2>. HIDE DEF T
  <2>. QED  BY <1>1, AfterUnfolds
<1>6. T \ {Max(T)} = S
  <2>. HIDE DEF T
  <2>. QED  BY <1>3, <1>4
<1>. HIDE DEF T
<1>. QED  BY <1>3, <1>5, <1>6 DEF T

LEMMA ApplyFacts ==
  ASSUME NEW graph \in Graph, NEW action \in Action
  PROVE  LET new == ApplyAction(graph, action)
         IN  /\ new \in Graph
             /\ \A n \in Nodes :
                  new.node[n] = IF n \in DOMAIN action.nodes THEN Settled(action.nodes[n])
                                ELSE graph.node[n]
             /\ \A e \in Edges :
                  new.edge[e] = IF e \in DOMAIN action.edges THEN Settled(action.edges[e])
                                ELSE graph.edge[e]
             /\ DOMAIN new.channel = DOMAIN action.channels \union DOMAIN graph.channel
             /\ \A c \in DOMAIN new.channel :
                  new.channel[c] = IF c \in DOMAIN action.channels THEN action.channels[c]
                                   ELSE graph.channel[c]
<1>. DEFINE new == ApplyAction(graph, action)
<1>1. PICK D \in SUBSET Nodes : action.nodes \in [D -> Transition]
  BY DEF Action, PartialFunctions
<1>2. PICK F \in SUBSET Edges : action.edges \in [F -> Transition]
  BY DEF Action, PartialFunctions
<1>3. PICK C \in SUBSET Channels : action.channels \in [C -> ChannelResult]
  BY DEF Action, PartialFunctions
<1>4. PICK H \in SUBSET Channels : graph.channel \in [H -> ChannelResult]
  BY DEF Graph, PartialFunctions
<1>5. graph.node \in [Nodes -> States] /\ graph.edge \in [Edges -> States]
  BY DEF Graph
<1>6. \A t \in Transition : Settled(t) \in States
  BY DEF Transition, Settled, States
<1>7. /\ new.node \in [Nodes -> States]
      /\ \A n \in Nodes : new.node[n] = IF n \in DOMAIN action.nodes THEN Settled(action.nodes[n])
                                        ELSE graph.node[n]
  BY <1>1, <1>5, <1>6 DEF ApplyAction, Overlay
<1>8. /\ new.edge \in [Edges -> States]
      /\ \A e \in Edges : new.edge[e] = IF e \in DOMAIN action.edges THEN Settled(action.edges[e])
                                        ELSE graph.edge[e]
  BY <1>2, <1>5, <1>6 DEF ApplyAction, Overlay
<1>9. /\ new.channel \in [C \union H -> ChannelResult]
      /\ DOMAIN new.channel = DOMAIN action.channels \union DOMAIN graph.channel
      /\ \A c \in DOMAIN new.channel :
           new.channel[c] = IF c \in DOMAIN action.channels THEN action.channels[c]
                            ELSE graph.channel[c]
  BY <1>3, <1>4 DEF ApplyAction, Overlay
<1>10. new.channel \in PartialFunctions(Channels, ChannelResult)
  <2>1. C \union H \in SUBSET Channels
    OBVIOUS
  <2>. HIDE DEF new
  <2>. QED  BY <1>9, <2>1 DEF PartialFunctions
<1>11. new = [node |-> new.node, edge |-> new.edge, channel |-> new.channel]
  BY DEF ApplyAction
<1>. HIDE DEF new
<1>12. new \in Graph
  BY <1>7, <1>8, <1>10, <1>11 DEF Graph
<1>. QED  BY <1>7, <1>8, <1>9, <1>12 DEF new

LEMMA AfterType ==
  ASSUME NEW graph \in Graph, NEW act \in [Actions -> Action], NEW S \in SUBSET Actions
  PROVE  After(graph, act, S) \in Graph
<1>. DEFINE bad == { s \in SUBSET Actions : After(graph, act, s) \notin Graph }
<1>. SUFFICES ASSUME bad # {} PROVE FALSE
  OBVIOUS
<1>1. \A s \in bad : IsFiniteSet(s)
  BY ActionsAssumption, FS_Subset
<1>2. PICK s \in bad : \A u \in bad : u \subseteq s => u = s
  <2>. HIDE DEF bad
  <2>. QED  BY <1>1, LeastSet
<1>3. s \in SUBSET Actions /\ After(graph, act, s) \notin Graph
  OBVIOUS
<1>4. CASE s = {}
  <2>1. After(graph, act, s) = graph
    BY <1>3, <1>4, AfterUnfolds
  <2>. QED  BY <1>3, <2>1
<1>5. CASE s # {}
  <2>. DEFINE u == s \ {Max(s)}
  <2>1. Max(s) \in s
    BY <1>3, <1>5, LastAction
  <2>2. After(graph, act, u) \in Graph /\ act[Max(s)] \in Action
    BY <1>2, <1>3, <2>1
  <2>3. After(graph, act, s) = ApplyAction(After(graph, act, u), act[Max(s)])
    BY <1>3, <1>5, AfterUnfolds
  <2>. HIDE DEF u
  <2>. QED  BY <1>3, <2>2, <2>3, ApplyFacts
<1>. QED  BY <1>4, <1>5

-----------------------------------------------------------------------------
(* Paths and verdicts.                                                     *)

\* What a simple path is, without Len and Last.
LEMMA PathFacts ==
  ASSUME NEW p \in SimplePaths
  PROVE  \E k \in 1..Cardinality(Nodes) :
           /\ p \in [1..k -> Nodes] /\ DOMAIN p = 1..k /\ Len(p) = k /\ Last(p) = p[k]
           /\ \A i, j \in 1..k : p[i] = p[j] => i = j
<1>1. Cardinality(Nodes) \in Nat
  BY GraphsAssumption, FS_CardinalityType
<1>2. PICK k \in 1..Cardinality(Nodes) : p \in [1..k -> Nodes] /\ IsInjective(p)
  BY DEF SimplePaths
<1>3. k \in Nat /\ p \in Seq(Nodes) /\ Len(p) = k /\ DOMAIN p = 1..k
  BY <1>1, <1>2
<1>. QED  BY <1>2, <1>3 DEF IsInjective, Last

\* A path that visits no node twice is among them.
LEMMA InjectivePath ==
  ASSUME NEW k \in Nat \ {0}, NEW p \in [1..k -> Nodes],
         \A i, j \in 1..k : p[i] = p[j] => i = j
  PROVE  p \in SimplePaths /\ k \in 1..Cardinality(Nodes)
<1>1. p \in Injection(1..k, Nodes)
  BY DEF Injection, IsInjective
<1>2. Cardinality(1..k) <= Cardinality(Nodes)
  BY <1>1, GraphsAssumption, FS_Injection
<1>3. Cardinality(1..k) = k /\ Cardinality(Nodes) \in Nat
  BY GraphsAssumption, FS_CardinalityType, FS_Interval
<1>4. k \in 1..Cardinality(Nodes)
  BY <1>2, <1>3
<1>. QED  BY <1>4 DEF SimplePaths, IsInjective

LEMMA SimplePathsFinite == IsFiniteSet(SimplePaths)
<1>. DEFINE N == Cardinality(Nodes)
            places == (1..N) \X Nodes
            places_of == [p \in SimplePaths |-> { x \in places : x[1] \in DOMAIN p /\ p[x[1]] = x[2] }]
<1>1. N \in Nat
  BY GraphsAssumption, FS_CardinalityType
<1>2. IsFiniteSet(SUBSET places)
  <2>1. IsFiniteSet(1..N) /\ IsFiniteSet(Nodes)
    BY <1>1, GraphsAssumption, FS_Interval
  <2>2. IsFiniteSet(places)
    <3>. HIDE DEF N
    <3>. QED  BY <2>1, FS_Product
  <2>. HIDE DEF places
  <2>. QED  BY <2>2, FS_SUBSET
<1>3. ASSUME NEW p \in SimplePaths, NEW q \in SimplePaths, places_of[p] = places_of[q]
      PROVE  p = q
  <2>1. PICK k \in 1..N : p \in [1..k -> Nodes] /\ DOMAIN p = 1..k
    BY PathFacts
  <2>2. PICK l \in 1..N : q \in [1..l -> Nodes] /\ DOMAIN q = 1..l
    BY PathFacts
  <2>3. \A i \in 1..k : <<i, p[i]>> \in places_of[p]
    BY <1>1, <2>1
  <2>4. \A i \in 1..l : <<i, q[i]>> \in places_of[q]
    BY <1>1, <2>2
  <2>5. \A i \in 1..k : i \in 1..l /\ q[i] = p[i]
    BY <1>3, <2>2, <2>3
  <2>6. \A i \in 1..l : i \in 1..k
    BY <1>3, <2>1, <2>4
  <2>. QED  BY <2>1, <2>2, <2>5, <2>6
<1>4. places_of \in Injection(SimplePaths, SUBSET places)
  <2>1. places_of \in [SimplePaths -> SUBSET places]
    OBVIOUS
  <2>2. DOMAIN places_of = SimplePaths
    OBVIOUS
  <2>. HIDE DEF places_of, places
  <2>. QED  BY <1>3, <2>1, <2>2 DEF Injection, IsInjective
<1>. HIDE DEF places_of, places
<1>. QED  BY <1>2, <1>4, FS_Injection

\* A path to a sink is active or unknown.
LEMMA SinkPathCases ==
  ASSUME NEW graph \in Graph, NEW protocol \in Protocol
  PROVE  SinkPaths(graph, protocol) = ActivePaths(graph, protocol) \union UnknownPaths(graph, protocol)
<1>1. ASSUME NEW p \in SinkPaths(graph, protocol), p \notin UnknownPaths(graph, protocol)
      PROVE  p \in ActivePaths(graph, protocol)
  <2>1. PICK k \in 1..Cardinality(Nodes) : p \in [1..k -> Nodes] /\ DOMAIN p = 1..k /\ Len(p) = k
    BY PathFacts DEF SinkPaths
  <2>2. graph.node \in [Nodes -> States] /\ graph.edge \in [Edges -> States]
    BY DEF Graph
  <2>3. \A i \in DOMAIN p : graph.node[p[i]] = "ACTIVE"
    BY <1>1, <2>1, <2>2 DEF SinkPaths, UnknownPaths, States
  <2>4. ASSUME NEW i \in 1..(Len(p) - 1)
        PROVE  \E e \in Steps(graph, protocol, p[i], p[i + 1]) : graph.edge[e] = "ACTIVE"
    <3>1. PICK e \in Steps(graph, protocol, p[i], p[i + 1]) : TRUE
      BY <1>1 DEF SinkPaths
    <3>2. graph.edge[e] # "UNKNOWN" /\ graph.edge[e] # "CLOSED" /\ e \in Edges
      BY <1>1 DEF UnknownPaths, Steps
    <3>. QED  BY <2>2, <3>1, <3>2 DEF States
  <2>. QED  BY <1>1, <2>3, <2>4 DEF ActivePaths
<1>. QED  BY <1>1 DEF ActivePaths, UnknownPaths

LEMMA ViolationsFinite ==
  ASSUME NEW graph \in Graph, NEW protocol \in Protocol
  PROVE  /\ IsFiniteSet(ActivePaths(graph, protocol)) /\ IsFiniteSet(UnknownPaths(graph, protocol))
         /\ \A d : IsFiniteSet(Deciding(graph, d))
         /\ IsFiniteSet(Missing(graph, protocol))
<1>1. /\ IsFiniteSet(ActivePaths(graph, protocol)) /\ IsFiniteSet(UnknownPaths(graph, protocol))
  <2>1. /\ ActivePaths(graph, protocol) \subseteq SimplePaths
        /\ UnknownPaths(graph, protocol) \subseteq SimplePaths
    BY DEF ActivePaths, UnknownPaths, SinkPaths
  <2>. QED  BY <2>1, SimplePathsFinite, FS_Subset
<1>2. \A d : IsFiniteSet(Deciding(graph, d))
  <2>1. \A d : Deciding(graph, d) \subseteq Channels
    BY DEF Deciding, Mandatory, Graph, PartialFunctions
  <2>. QED  BY <2>1, GraphsAssumption, FS_Subset
<1>3. IsFiniteSet(Missing(graph, protocol))
  <2>1. Missing(graph, protocol) \subseteq Names
    BY DEF Missing, Protocol
  <2>. QED  BY <2>1, GraphsAssumption, FS_Subset
<1>. QED  BY <1>1, <1>2, <1>3

\* When a graph verifies.
Clean(graph, protocol) ==
  /\ SinkPaths(graph, protocol) = {}
  /\ Deciding(graph, "FAIL") = {} /\ Deciding(graph, "UNKNOWN") = {}
  /\ Missing(graph, protocol) = {} /\ Mandatory(graph) # {}

LEMMA VerdictFacts ==
  ASSUME NEW graph \in Graph, NEW protocol \in Protocol
  PROVE  /\ GraphVerdict(graph, protocol) \in {"COMPLETE", "INCOMPLETE", "UNVERIFIED"}
         /\ GraphVerdict(graph, protocol) = "COMPLETE" <=> Clean(graph, protocol)
         /\ ViolationCount(graph, protocol) \in Nat
<1>4. ViolationCount(graph, protocol) \in Nat
  BY ViolationsFinite, FS_CardinalityType DEF ViolationCount
<1>5. GraphVerdict(graph, protocol) \in {"COMPLETE", "INCOMPLETE", "UNVERIFIED"}
  BY DEF GraphVerdict
<1>6. GraphVerdict(graph, protocol) = "COMPLETE" <=> Clean(graph, protocol)
  BY SinkPathCases DEF GraphVerdict, ChannelVerdict, Clean
<1>. QED  BY <1>4, <1>5, <1>6

-----------------------------------------------------------------------------
(* The problem a request becomes.                                          *)

GraphAfter(r, S) == After(r.graph, r.action, S)
Raises(r, S) == \E a \in S : r.action[a].unknownTarget

LEMMA CatalogueAdds == \A p \in Problems : Additive(p)
BY ProblemsAssumption DEF Additive

LEMMA RequestFacts ==
  ASSUME NEW r \in Requests
  PROVE  /\ r.graph \in Graph /\ r.protocol \in Protocol /\ r.action \in [Actions -> Action]
         /\ r.permitted \in SUBSET Actions /\ r.cost \in [Actions -> Nat] /\ r.limit \in Nat
         /\ \A S \in SUBSET Actions : GraphAfter(r, S) \in Graph
         /\ r # NoRequest
<1>1. r \in Request
  BY RequestsAssumption
<1>2. /\ r.graph \in Graph /\ r.protocol \in Protocol /\ r.action \in [Actions -> Action]
      /\ r.permitted \in SUBSET Actions /\ r.cost \in [Actions -> Nat] /\ r.limit \in Nat
  BY <1>1 DEF Request
<1>3. \A S \in SUBSET Actions : GraphAfter(r, S) \in Graph
  BY <1>2, AfterType DEF GraphAfter
<1>4. DOMAIN r # DOMAIN NoRequest
  <2>1. "graph" \in DOMAIN r
    BY <1>1 DEF Request
  <2>2. "graph" \notin DOMAIN NoRequest
    BY DEF NoRequest
  <2>. QED  BY <2>1, <2>2
<1>. QED  BY <1>2, <1>3, <1>4

LEMMA ProblemFacts ==
  ASSUME NEW r \in Requests
  PROVE  LET p == ProblemOf(r)
         IN  /\ Additive(p) /\ p.permitted = r.permitted
             /\ \A S \in SUBSET Actions :
                  /\ p.verdict[S] = IF Raises(r, S) THEN "RAISED"
                                    ELSE GraphVerdict(GraphAfter(r, S), r.protocol)
                  /\ p.violations[S] = IF Raises(r, S) THEN 0
                                       ELSE ViolationCount(GraphAfter(r, S), r.protocol)
<1>. DEFINE p == ProblemOf(r)
            reports == Reports(r)
            totals == [S \in SUBSET Actions |-> Total(r.cost, S)]
            verdicts == [S \in SUBSET Actions |-> reports[S].verdict]
            counts == [S \in SUBSET Actions |-> reports[S].violations]
<1>1. p = [limit |-> r.limit, permitted |-> r.permitted, cost |-> r.cost,
           total |-> totals, verdict |-> verdicts, violations |-> counts]
  BY DEF ProblemOf, Total
<1>2. ASSUME NEW S \in SUBSET Actions
      PROVE  /\ reports[S].verdict = IF Raises(r, S) THEN "RAISED"
                                     ELSE GraphVerdict(GraphAfter(r, S), r.protocol)
             /\ reports[S].violations = IF Raises(r, S) THEN 0
                                        ELSE ViolationCount(GraphAfter(r, S), r.protocol)
  BY DEF Reports, EvaluateActions, Raises, GraphAfter
<1>3. \A S \in SUBSET Actions :
        reports[S].verdict \in Verdicts /\ reports[S].violations \in Nat
  <2>. HIDE DEF reports
  <2>. QED  BY <1>2, RequestFacts, VerdictFacts DEF Verdicts
<1>4. \A S \in SUBSET Actions : IsFiniteSet(S) /\ \A a \in S : r.cost[a] \in Nat
  BY ActionsAssumption, FS_Subset, RequestFacts
<1>5. \A S \in SUBSET Actions : Total(r.cost, S) \in Nat
  BY <1>4, TotalType
<1>6. totals[{}] = 0
  <2>1. Total(r.cost, {}) = 0
    BY FS_EmptySet, TotalUnfolds
  <2>. QED  BY <2>1
<1>7. \A a \in Actions : totals[{a}] = r.cost[a]
  <2>1. \A a \in Actions : r.cost[a] \in Nat
    BY RequestFacts
  <2>2. \A a \in Actions : Total(r.cost, {a}) = r.cost[a]
    BY <2>1, TotalOfOne
  <2>. QED  BY <2>2
<1>8. ASSUME NEW A \in SUBSET Actions, NEW B \in SUBSET Actions, A \intersect B = {}
      PROVE  totals[A \union B] = totals[A] + totals[B]
  <2>1. \A x \in A \union B : r.cost[x] \in Nat
    BY <1>4
  <2>2. Total(r.cost, A \union B) = Total(r.cost, A) + Total(r.cost, B)
    BY <1>4, <1>8, <2>1, TotalOfUnion
  <2>. QED  BY <2>2
<1>9. totals \in [SUBSET Actions -> Nat]
  BY <1>5
<1>10. verdicts \in [SUBSET Actions -> Verdicts] /\ counts \in [SUBSET Actions -> Nat]
  <2>. HIDE DEF reports
  <2>. QED  BY <1>3
<1>11. \A S \in SUBSET Actions : verdicts[S] = reports[S].verdict /\ counts[S] = reports[S].violations
  <2>. HIDE DEF reports
  <2>. QED  OBVIOUS
<1>. HIDE DEF reports, totals, verdicts, counts, p
<1>12. p \in Problem
  BY <1>1, <1>9, <1>10, RequestFacts DEF Problem
<1>13. Additive(p)
  BY <1>1, <1>6, <1>7, <1>8, <1>12 DEF Additive
<1>. QED  BY <1>1, <1>2, <1>11, <1>13 DEF p

-----------------------------------------------------------------------------
(* Planning.                                                               *)

GreedyInv ==
  /\ chosen \subseteq problem.permitted /\ remaining = problem.permitted \ chosen
  /\ complete \in BOOLEAN
  /\ complete => ~ Greedy!Incomplete
  /\ phase # "returned" => ~ complete
  /\ phase = "returned" /\ ~ complete =>
       Greedy!Incomplete /\ Greedy!Evaluable /\ Greedy!Useful = {}

\* One planner is called; the variables of the other stay as they were.
PlannerInv ==
  /\ CutInv /\ GreedyInv
  /\ planner = "exact" => phase = "run"
  /\ planner = "greedy" => outcome.status = "NONE"

LEMMA InitPlanner ==
  ASSUME Additive(problem), NotStarted, Greedy!NotStarted
  PROVE  PlannerInv
<1>1. CutInv
  BY InitCut
<1>2. GreedyInv
  BY DEF Greedy!NotStarted, GreedyInv
<1>3. phase = "run" /\ outcome.status = "NONE"
  BY DEF NotStarted, Greedy!NotStarted
<1>. QED  BY <1>1, <1>2, <1>3 DEF PlannerInv

LEMMA GreedySame ==
  ASSUME GreedyInv, UNCHANGED <<problem, greedyVars>>
  PROVE  GreedyInv'
BY DEF GreedyInv, greedyVars, Greedy!Incomplete, Greedy!Evaluable, Greedy!Useful,
       Greedy!Improvement

LEMMA StepGreedy ==
  ASSUME GreedyInv, Greedy!Next
  PROVE  GreedyInv' /\ problem' = problem
<1>1. CASE Greedy!EvaluationRaises
  BY <1>1 DEF Greedy!EvaluationRaises, GreedyInv
<1>2. ASSUME NEW a \in Actions, Greedy!Take(a) PROVE GreedyInv' /\ problem' = problem
  <2>1. a \in remaining /\ chosen' = chosen \union {a} /\ remaining' = remaining \ {a}
        /\ phase = "run" /\ UNCHANGED <<problem, phase, complete>>
    BY <1>2 DEF Greedy!Take, Greedy!Useful
  <2>. QED  BY <2>1 DEF GreedyInv
<1>3. CASE Greedy!ReturnComplete
  <2>1. /\ ~ Greedy!Incomplete /\ phase' = "returned" /\ complete' = TRUE
        /\ UNCHANGED <<problem, chosen, remaining>>
    BY <1>3 DEF Greedy!ReturnComplete
  <2>2. ~ Greedy!Incomplete'
    BY <2>1 DEF Greedy!Incomplete
  <2>. QED  BY <2>1, <2>2 DEF GreedyInv
<1>4. CASE Greedy!ReturnIncomplete
  <2>1. /\ Greedy!Incomplete /\ Greedy!Evaluable /\ Greedy!Useful = {} /\ phase = "run"
        /\ phase' = "returned" /\ UNCHANGED <<problem, chosen, remaining, complete>>
    BY <1>4 DEF Greedy!ReturnIncomplete
  <2>2. Greedy!Incomplete' /\ Greedy!Evaluable' /\ Greedy!Useful' = {}
    BY <2>1 DEF Greedy!Incomplete, Greedy!Evaluable, Greedy!Useful, Greedy!Improvement
  <2>. QED  BY <2>1, <2>2 DEF GreedyInv
<1>. QED  BY <1>1, <1>2, <1>3, <1>4 DEF Greedy!Next

LEMMA StepPlanner ==
  ASSUME PlannerInv, [NextErasure]_erasureVars
  PROVE  PlannerInv' /\ problem' = problem /\ request' = request
<1>0. CutInv /\ GreedyInv
  BY DEF PlannerInv
<1>1. CASE PlanExactly
  <2>1. Next /\ planner = "exact" /\ UNCHANGED <<request, planner, greedyVars>>
    BY <1>1 DEF PlanExactly
  <2>2. CutInv' /\ problem' = problem
    BY <1>0, <2>1, StepCut, SameProblem
  <2>3. GreedyInv'
    BY <1>0, <2>1, <2>2, GreedySame
  <2>. QED  BY <2>1, <2>2, <2>3 DEF PlannerInv, greedyVars
<1>2. CASE PlanGreedily
  <2>1. Greedy!Next /\ planner = "greedy" /\ UNCHANGED <<request, planner, exactVars>>
    BY <1>2 DEF PlanGreedily
  <2>2. GreedyInv' /\ problem' = problem
    BY <1>0, <2>1, StepGreedy
  <2>3. UNCHANGED vars
    BY <2>1, <2>2 DEF exactVars, vars
  <2>4. CutInv'
    BY <1>0, <2>3, StepCut
  <2>. QED  BY <2>1, <2>2, <2>4 DEF PlannerInv, exactVars
<1>3. CASE UNCHANGED <<request, cutVars>>
  <2>1. UNCHANGED vars /\ UNCHANGED <<problem, greedyVars>> /\ UNCHANGED <<request, planner, outcome>>
    BY <1>3 DEF cutVars, exactVars, vars
  <2>2. CutInv' /\ GreedyInv'
    BY <1>0, <2>1, StepCut, GreedySame
  <2>. QED  BY <2>1, <2>2 DEF PlannerInv, greedyVars
<1>. QED
  BY <1>1, <1>2, <1>3 DEF NextErasure, Begin, Execute, Flow, erasureVars

-----------------------------------------------------------------------------
(* The plan carried out while data flows.                                  *)

Realities == [node : [Nodes -> {"ACTIVE", "CLOSED"}], edge : [Edges -> {"ACTIVE", "CLOSED"}]]

\* The actions T of the complete plan S are left, and all the others came before:
\* the real system is one that the graph after those allows.
Carrying(S, T) ==
  /\ todo = <<T>> /\ T \subseteq S /\ S \subseteq problem.permitted
  /\ Verdict(S) = "COMPLETE"
  /\ \A a \in T, b \in S \ T : b < a
  /\ real \in Resolutions(GraphAfter(request, S \ T))

\* p leads over k nodes, each once, along what is really open.
Trail(p, k) ==
  /\ p \in [1..k -> Nodes]
  /\ \A i, j \in 1..k : p[i] = p[j] => i = j
  /\ \A i \in 1..k : real.node[p[i]] = "ACTIVE"
  /\ \A i \in 1..(k - 1) :
       \E e \in Edges : /\ real.edge[e] = "ACTIVE"
                        /\ request.protocol.source[e] = p[i]
                        /\ request.protocol.target[e] = p[i + 1]

CameFrom(n) ==
  \E k \in Nat \ {0} : \E p : Trail(p, k) /\ p[1] \in origin /\ p[k] = n

RunInv ==
  /\ request \in Requests /\ problem = ProblemOf(request)
  /\ real \in Realities
  /\ at \subseteq Nodes /\ \A n \in at : real.node[n] = "ACTIVE"
  /\ todo = <<>> => real \in Resolutions(request.graph)
  /\ todo # <<>> => \E S, T : Carrying(S, T)
  /\ Done => \A n \in at : CameFrom(n)

\* Without a request nothing is ever carried out.
ErasureInv ==
  /\ PlannerInv
  /\ request = NoRequest => planner = "exact" /\ todo = <<>> /\ at = {}
  /\ request # NoRequest => RunInv

LEMMA ResolutionFacts ==
  \A graph, r : r \in Resolutions(graph) <=>
    /\ r \in Realities
    /\ \A n \in Nodes : r.node[n] \in Outcomes(graph.node[n])
    /\ \A e \in Edges : r.edge[e] \in Outcomes(graph.edge[e])
BY DEF Resolutions, Realities

\* Whatever an action does, the graph after it allows.
LEMMA EffectsResolve ==
  ASSUME NEW graph \in Graph, NEW action \in Action, real \in Resolutions(graph),
         NEW r \in Effects(action)
  PROVE  r \in Resolutions(ApplyAction(graph, action))
<1>. DEFINE new == ApplyAction(graph, action)
<1>1. r \in Realities
  BY DEF Effects, Realities
<1>2. ASSUME NEW n \in Nodes PROVE r.node[n] \in Outcomes(new.node[n])
  <2>1. r.node[n] \in {"ACTIVE", "CLOSED"}
    BY <1>1 DEF Realities
  <2>2. CASE n \in DOMAIN action.nodes
    <3>1. new.node[n] = Settled(action.nodes[n])
      BY <2>2, ApplyFacts
    <3>2. action.nodes[n].verified => r.node[n] \in Outcomes(action.nodes[n].state)
      BY <2>2 DEF Effects
    <3>. HIDE DEF new
    <3>. QED  BY <2>1, <3>1, <3>2 DEF Settled, Outcomes
  <2>3. CASE n \notin DOMAIN action.nodes
    <3>1. new.node[n] = graph.node[n]
      BY <2>3, ApplyFacts
    <3>2. r.node[n] = real.node[n] /\ real.node[n] \in Outcomes(graph.node[n])
      BY <2>3, ResolutionFacts DEF Effects
    <3>. HIDE DEF new
    <3>. QED  BY <3>1, <3>2
  <2>. QED  BY <2>2, <2>3
<1>3. ASSUME NEW e \in Edges PROVE r.edge[e] \in Outcomes(new.edge[e])
  <2>1. r.edge[e] \in {"ACTIVE", "CLOSED"}
    BY <1>1 DEF Realities
  <2>2. CASE e \in DOMAIN action.edges
    <3>1. new.edge[e] = Settled(action.edges[e])
      BY <2>2, ApplyFacts
    <3>2. action.edges[e].verified => r.edge[e] \in Outcomes(action.edges[e].state)
      BY <2>2 DEF Effects
    <3>. HIDE DEF new
    <3>. QED  BY <2>1, <3>1, <3>2 DEF Settled, Outcomes
  <2>3. CASE e \notin DOMAIN action.edges
    <3>1. new.edge[e] = graph.edge[e]
      BY <2>3, ApplyFacts
    <3>2. r.edge[e] = real.edge[e] /\ real.edge[e] \in Outcomes(graph.edge[e])
      BY <2>3, ResolutionFacts DEF Effects
    <3>. HIDE DEF new
    <3>. QED  BY <3>1, <3>2
  <2>. QED  BY <2>2, <2>3
<1>. HIDE DEF new
<1>4. r \in Resolutions(new)
  BY <1>1, <1>2, <1>3, ResolutionFacts
<1>. QED  BY <1>4 DEF new

LEMMA InitErasureInv == InitErasure => ErasureInv
<1>. SUFFICES ASSUME InitErasure PROVE ErasureInv
  OBVIOUS
<1>1. todo = <<>> /\ NotStarted /\ Greedy!NotStarted
  BY DEF InitErasure
<1>2. CASE request = NoRequest /\ planner = "exact" /\ problem \in Problems /\ at = {}
  <2>1. PlannerInv
    BY <1>1, <1>2, CatalogueAdds, InitPlanner
  <2>. QED  BY <1>1, <1>2, <2>1 DEF ErasureInv
<1>3. CASE /\ request \in Requests /\ problem = ProblemOf(request)
           /\ real \in Resolutions(request.graph)
           /\ \E n \in Holders(real, request.protocol) : at = {n}
  <2>1. PlannerInv /\ request # NoRequest
    <3>1. Additive(problem) /\ request # NoRequest
      BY <1>3, ProblemFacts, RequestFacts
    <3>. QED  BY <1>1, <3>1, InitPlanner
  <2>2. real \in Realities
    BY <1>3, ResolutionFacts
  <2>3. at \subseteq Nodes /\ \A n \in at : real.node[n] = "ACTIVE"
    <3>1. PICK n \in Holders(real, request.protocol) : at = {n}
      BY <1>3
    <3>2. request.protocol \in Protocol
      BY <1>3, RequestFacts
    <3>. QED  BY <3>1, <3>2 DEF Holders, Protocol
  <2>4. ~ Done
    BY <1>1 DEF Done
  <2>5. RunInv
    BY <1>1, <1>3, <2>2, <2>3, <2>4 DEF RunInv
  <2>. QED  BY <2>1, <2>5 DEF ErasureInv
<1>. QED  BY <1>2, <1>3 DEF InitErasure

LEMMA SamePlan ==
  ASSUME RunInv, UNCHANGED <<request, problem, real, todo, at, origin>>
  PROVE  RunInv'
<1>1. \A S, T : Carrying(S, T) => Carrying(S, T)'
  BY DEF Carrying, Verdict, GraphAfter, Resolutions
<1>2. \A p, k : Trail(p, k) => Trail(p, k)'
  BY DEF Trail
<1>3. \A n : CameFrom(n) => CameFrom(n)'
  BY <1>2 DEF CameFrom
<1>. QED  BY <1>1, <1>3 DEF RunInv, Done, Resolutions

LEMMA BeginInv ==
  ASSUME PlannerInv, RunInv, Begin
  PROVE  RunInv'
<1>1. /\ todo = <<>> /\ todo' = CompletePlan /\ CompletePlan # <<>>
      /\ UNCHANGED <<request, problem, real, at>>
      /\ CompletePlan = << {} >> => origin' = at
  BY DEF Begin, cutVars
<1>2. PICK S \in SUBSET problem.permitted : CompletePlan = <<S>> /\ Verdict(S) = "COMPLETE"
  <2>1. CASE outcome.status = "OPTIMAL"
    <3>1. outcome.plan.chosen \subseteq problem.permitted /\ Verdict(outcome.plan.chosen) = "COMPLETE"
      BY <2>1 DEF PlannerInv, CutInv, CutIsBruteForce
    <3>. QED  BY <2>1, <3>1 DEF CompletePlan
  <2>2. CASE outcome.status # "OPTIMAL"
    <3>1. complete /\ CompletePlan = <<chosen>>
      BY <1>1, <2>2 DEF CompletePlan
    <3>2. chosen \subseteq problem.permitted /\ problem.verdict[chosen] = "COMPLETE"
      BY <3>1 DEF PlannerInv, GreedyInv, Greedy!Incomplete
    <3>. QED  BY <3>1, <3>2 DEF Verdict
  <2>. QED  BY <2>1, <2>2
<1>3. GraphAfter(request, {}) = request.graph
  <2>1. {} \in SUBSET Actions
    OBVIOUS
  <2>. QED  BY <2>1, AfterUnfolds DEF GraphAfter
<1>4. real \in Resolutions(GraphAfter(request, S \ S))
  <2>1. S \ S = {}
    OBVIOUS
  <2>. QED  BY <1>1, <1>3, <2>1 DEF RunInv
<1>5. Carrying(S, S)'
  BY <1>1, <1>2, <1>4 DEF Carrying, Verdict, GraphAfter, Resolutions
<1>6. todo' # <<>>
  BY <1>1
<1>7. ASSUME Done', NEW n \in at' PROVE CameFrom(n)'
  <2>1. origin' = at /\ at' = at
    BY <1>1, <1>7 DEF Done
  <2>2. n \in at /\ n \in Nodes /\ real.node[n] = "ACTIVE"
    BY <1>7, <2>1 DEF RunInv
  <2>. DEFINE p == [i \in 1..1 |-> n]
  <2>3. Trail(p, 1) /\ p[1] = n
    BY <2>2 DEF Trail
  <2>. HIDE DEF p
  <2>4. Trail(p, 1)'
    BY <1>1, <2>3 DEF Trail
  <2>. QED  BY <1>7, <2>1, <2>3, <2>4 DEF CameFrom
<1>. QED  BY <1>1, <1>5, <1>6, <1>7 DEF RunInv

LEMMA ExecuteInv ==
  ASSUME PlannerInv, RunInv, NEW a \in Actions, Execute(a)
  PROVE  RunInv'
<1>1. /\ todo # <<>> /\ a \in todo[1] /\ \A b \in todo[1] : a <= b
      /\ real' \in Effects(request.action[a])
      /\ at' = { n \in at : real'.node[n] = "ACTIVE" }
      /\ todo' = << todo[1] \ {a} >>
      /\ origin' = IF todo[1] = {a} THEN at' ELSE origin
      /\ UNCHANGED <<request, problem>>
  BY DEF Execute, cutVars
<1>2. PICK S, T : Carrying(S, T)
  BY <1>1 DEF RunInv
<1>3. /\ todo = <<T>> /\ todo[1] = T /\ T \subseteq S /\ S \subseteq problem.permitted
      /\ Verdict(S) = "COMPLETE"
      /\ \A c \in T, b \in S \ T : b < c
      /\ real \in Resolutions(GraphAfter(request, S \ T))
  BY <1>2 DEF Carrying
<1>4. /\ request \in Requests /\ problem = ProblemOf(request)
      /\ problem.permitted \in SUBSET Actions
      /\ request.action[a] \in Action
  <2>1. request \in Requests /\ problem = ProblemOf(request)
    BY DEF RunInv
  <2>2. problem.permitted = request.permitted
    BY <2>1, ProblemFacts
  <2>. QED  BY <2>1, <2>2, RequestFacts
<1>. DEFINE before == S \ T
            after == S \ (T \ {a})
<1>5. before \in SUBSET Actions /\ after = before \union {a} /\ \A b \in before : b < a
  BY <1>1, <1>3, <1>4
<1>6. GraphAfter(request, after) = ApplyAction(GraphAfter(request, before), request.action[a])
  <2>. HIDE DEF before, after
  <2>. QED  BY <1>5, AfterLater DEF GraphAfter
<1>7. GraphAfter(request, before) \in Graph
  <2>. HIDE DEF before
  <2>. QED  BY <1>4, <1>5, RequestFacts
<1>8. real' \in Resolutions(GraphAfter(request, after))
  <2>1. real \in Resolutions(GraphAfter(request, before))
    BY <1>3
  <2>. HIDE DEF before, after
  <2>. QED  BY <1>1, <1>4, <1>6, <1>7, <2>1, EffectsResolve
<1>9. \A c \in T \ {a}, b \in S \ (T \ {a}) : b < c
  <2>1. \A x \in S : x \in Nat
    BY <1>3, <1>4, ActionsAssumption
  <2>2. ASSUME NEW c \in T \ {a}, NEW b \in S \ (T \ {a}) PROVE b < c
    <3>1. c \in Nat /\ b \in Nat /\ a \in Nat /\ a <= c /\ a # c
      BY <1>1, <1>3, <2>1
    <3>2. b \in S \ T \/ b = a
      OBVIOUS
    <3>. QED  BY <1>3, <3>1, <3>2
  <2>. QED  BY <2>2
<1>10. Carrying(S, T \ {a})'
  <2>1. real' \in Resolutions(GraphAfter(request, S \ (T \ {a})))'
    BY <1>1, <1>8 DEF GraphAfter, Resolutions
  <2>2. todo' = <<T \ {a}>> /\ Verdict(S)' = "COMPLETE" /\ S \subseteq problem'.permitted
    BY <1>1, <1>3 DEF Verdict
  <2>. QED  BY <1>3, <1>9, <2>1, <2>2 DEF Carrying
<1>11. real' \in Realities /\ at' \subseteq Nodes /\ \A n \in at' : real'.node[n] = "ACTIVE"
  BY <1>1 DEF RunInv, Effects, Realities
<1>12. ASSUME Done', NEW n \in at' PROVE CameFrom(n)'
  <2>1. T \ {a} = {}
    BY <1>1, <1>3, <1>12 DEF Done
  <2>2. T = {a} /\ origin' = at'
    BY <1>1, <1>3, <2>1
  <2>3. n \in Nodes /\ real'.node[n] = "ACTIVE"
    BY <1>11, <1>12
  <2>. DEFINE p == [i \in 1..1 |-> n]
  <2>4. Trail(p, 1)'
    BY <2>3 DEF Trail
  <2>5. p[1] \in origin' /\ p[1] = n
    BY <1>12, <2>2
  <2>. HIDE DEF p
  <2>. QED  BY <2>4, <2>5 DEF CameFrom
<1>. QED  BY <1>1, <1>4, <1>10, <1>11, <1>12 DEF RunInv

\* What flows on from the end of a trail is at the end of a trail: of the first
\* part, if it was there before.
LEMMA TrailGoesOn ==
  ASSUME NEW k \in Nat \ {0}, NEW p, Trail(p, k),
         NEW n \in Nodes, real.node[n] = "ACTIVE",
         NEW e \in Edges, real.edge[e] = "ACTIVE",
         request.protocol.source[e] = p[k], request.protocol.target[e] = n
  PROVE  \E l \in Nat \ {0} : \E q : Trail(q, l) /\ q[1] = p[1] /\ q[l] = n
<1>0. p \in [1..k -> Nodes]
  BY DEF Trail
<1>1. CASE \E i \in 1..k : p[i] = n
  <2>1. PICK l \in 1..k : p[l] = n
    BY <1>1
  <2>. DEFINE q == [j \in 1..l |-> p[j]]
  <2>2. l \in Nat \ {0} /\ \A j \in 1..l : j \in 1..k
    BY <2>1
  <2>3. \A j \in 1..(l - 1) : j \in 1..(k - 1) /\ j \in 1..l /\ j + 1 \in 1..l
    BY <2>1
  <2>4. q \in [1..l -> Nodes] /\ \A j \in 1..l : q[j] = p[j]
    BY <1>0, <2>2
  <2>5. 1 \in 1..l /\ l \in 1..l
    BY <2>2
  <2>. HIDE DEF q
  <2>6. Trail(q, l)
    BY <2>2, <2>3, <2>4 DEF Trail
  <2>. QED  BY <2>1, <2>2, <2>4, <2>5, <2>6
<1>2. CASE \A i \in 1..k : p[i] # n
  <2>. DEFINE l == k + 1
              q == [j \in 1..l |-> IF j = l THEN n ELSE p[j]]
  <2>1. l \in Nat \ {0} /\ 1 \in 1..k /\ 1 # l /\ \A j \in 1..l : j = l \/ j \in 1..k
    OBVIOUS
  <2>2. \A j \in 1..k : j \in 1..l /\ j # l
    OBVIOUS
  <2>3. q \in [1..l -> Nodes] /\ q[l] = n /\ \A j \in 1..k : q[j] = p[j]
    BY <1>0, <2>1, <2>2
  <2>4. \A j \in 1..(l - 1) : j \in 1..k /\ (j = k \/ (j \in 1..(k - 1) /\ j + 1 \in 1..k))
    OBVIOUS
  <2>5. l = k + 1 /\ k \in 1..k
    OBVIOUS
  <2>. HIDE DEF q, l
  <2>6. \A i, j \in 1..l : q[i] = q[j] => i = j
    BY <1>2, <2>1, <2>3 DEF Trail
  <2>7. \A i \in 1..l : real.node[q[i]] = "ACTIVE"
    BY <2>1, <2>3 DEF Trail
  <2>8. ASSUME NEW j \in 1..(l - 1)
        PROVE  \E d \in Edges : /\ real.edge[d] = "ACTIVE"
                                /\ request.protocol.source[d] = q[j]
                                /\ request.protocol.target[d] = q[j + 1]
    <3>1. CASE j = k
      BY <2>3, <2>5, <3>1
    <3>2. CASE j \in 1..(k - 1) /\ j + 1 \in 1..k
      <4>1. q[j] = p[j] /\ q[j + 1] = p[j + 1]
        BY <2>3, <2>4, <3>2
      <4>. QED  BY <3>2, <4>1 DEF Trail
    <3>. QED  BY <2>4, <3>1, <3>2
  <2>9. Trail(q, l)
    BY <2>3, <2>6, <2>7, <2>8 DEF Trail
  <2>. QED  BY <2>1, <2>3, <2>9
<1>. QED  BY <1>1, <1>2

LEMMA FlowInv ==
  ASSUME RunInv, NEW e \in Edges, Flow(e)
  PROVE  RunInv'
<1>. DEFINE n == request.protocol.target[e]
            m == request.protocol.source[e]
<1>1. /\ real.edge[e] = "ACTIVE" /\ m \in at /\ real.node[n] = "ACTIVE" /\ at' = {n}
      /\ UNCHANGED <<request, problem, real, todo, origin>>
  BY DEF Flow, cutVars
<1>2. n \in Nodes
  <2>1. request.protocol \in Protocol
    BY RequestFacts DEF RunInv
  <2>. QED  BY <2>1 DEF Protocol
<1>3. \A S, T : Carrying(S, T) => Carrying(S, T)'
  BY <1>1 DEF Carrying, Verdict, GraphAfter, Resolutions
<1>4. \A p, k : Trail(p, k) => Trail(p, k)'
  BY <1>1 DEF Trail
<1>5. \A o : CameFrom(o) => CameFrom(o)'
  BY <1>1, <1>4 DEF CameFrom
<1>6. Done => CameFrom(n)
  <2>. SUFFICES ASSUME Done PROVE CameFrom(n)
    OBVIOUS
  <2>1. CameFrom(m)
    BY <1>1 DEF RunInv
  <2>2. PICK k \in Nat \ {0} : \E p : Trail(p, k) /\ p[1] \in origin /\ p[k] = m
    BY <2>1 DEF CameFrom
  <2>3. PICK p : Trail(p, k) /\ p[1] \in origin /\ p[k] = m
    BY <2>2
  <2>4. PICK l \in Nat \ {0} : \E q : Trail(q, l) /\ q[1] = p[1] /\ q[l] = n
    <3>. HIDE DEF n
    <3>1. request.protocol.target[e] = n
      BY DEF n
    <3>. QED  BY <1>1, <1>2, <2>3, <3>1, TrailGoesOn
  <2>. HIDE DEF n
  <2>. QED  BY <2>3, <2>4 DEF CameFrom
<1>7. Done' => \A o \in at' : CameFrom(o)'
  <2>1. Done' => Done
    BY <1>1 DEF Done
  <2>. HIDE DEF n
  <2>. QED  BY <1>1, <1>5, <1>6, <2>1
<1>. HIDE DEF n
<1>8. at' \subseteq Nodes /\ \A o \in at' : real'.node[o] = "ACTIVE"
  BY <1>1, <1>2
<1>9. todo' = <<>> => real' \in Resolutions(request'.graph)
  BY <1>1 DEF RunInv, Resolutions
<1>. QED  BY <1>1, <1>3, <1>7, <1>8, <1>9 DEF RunInv

LEMMA StepErasure == ErasureInv /\ [NextErasure]_erasureVars => ErasureInv'
<1>. SUFFICES ASSUME ErasureInv, [NextErasure]_erasureVars PROVE ErasureInv'
  OBVIOUS
<1>1. PlannerInv /\ PlannerInv' /\ UNCHANGED <<problem, request>>
  BY StepPlanner DEF ErasureInv
<1>2. CASE request = NoRequest
  <2>1. planner = "exact" /\ todo = <<>> /\ at = {}
    BY <1>2 DEF ErasureInv
  <2>2. planner' = "exact" /\ todo' = <<>> /\ at' = {}
    BY <1>2, <2>1
       DEF NextErasure, PlanExactly, PlanGreedily, Begin, Execute, Flow, erasureVars, cutVars
  <2>. QED  BY <1>1, <1>2, <2>2 DEF ErasureInv, NoRequest
<1>3. CASE request # NoRequest
  <2>0. RunInv
    BY <1>3 DEF ErasureInv
  <2>1. ASSUME UNCHANGED <<real, todo, at, origin>> PROVE RunInv'
    BY <1>1, <2>0, <2>1, SamePlan
  <2>2. RunInv'
    BY <1>1, <2>0, <2>1, BeginInv, ExecuteInv, FlowInv, SamePlan
       DEF NextErasure, PlanExactly, PlanGreedily, erasureVars
  <2>. QED  BY <1>1, <1>3, <2>2 DEF ErasureInv, NoRequest
<1>. QED  BY <1>2, <1>3

\* What a resolution has open the graph does not have closed.
LEMMA OpenIsNotClosed ==
  ASSUME NEW graph, real \in Resolutions(graph)
  PROVE  /\ \A n \in Nodes : real.node[n] = "ACTIVE" => graph.node[n] # "CLOSED"
         /\ \A e \in Edges : real.edge[e] = "ACTIVE" => graph.edge[e] # "CLOSED"
<1>1. "ACTIVE" \notin Outcomes("CLOSED")
  BY DEF Outcomes
<1>. QED  BY <1>1, ResolutionFacts

\* A trail from where the request holds data to a sink is a path the evaluation
\* of the graph finds.
LEMMA TrailIsSinkPath ==
  ASSUME NEW graph, real \in Resolutions(graph), NEW k \in Nat \ {0}, NEW p, Trail(p, k),
         p[1] \in request.protocol.own \union request.protocol.sources,
         p[k] \in request.protocol.sinks
  PROVE  p \in SinkPaths(graph, request.protocol)
<1>1. p \in [1..k -> Nodes] /\ p \in SimplePaths
  BY InjectivePath DEF Trail
<1>2. DOMAIN p = 1..k /\ Len(p) = k /\ Last(p) = p[k]
  <2>1. p \in Seq(Nodes) /\ Len(p) = k /\ DOMAIN p = 1..k
    BY <1>1
  <2>. QED  BY <2>1 DEF Last
<1>3. \A i \in 1..k : p[i] \in Nodes /\ graph.node[p[i]] # "CLOSED"
  BY <1>1, OpenIsNotClosed DEF Trail
<1>4. p[1] \in RequestStarts(graph, request.protocol)
  BY <1>3 DEF RequestStarts
<1>5. ASSUME NEW i \in 1..(k - 1)
      PROVE  Steps(graph, request.protocol, p[i], p[i + 1]) # {}
  <2>1. PICK e \in Edges : /\ real.edge[e] = "ACTIVE"
                           /\ request.protocol.source[e] = p[i]
                           /\ request.protocol.target[e] = p[i + 1]
    BY DEF Trail
  <2>. QED  BY <2>1, OpenIsNotClosed DEF Steps
<1>. QED  BY <1>1, <1>2, <1>3, <1>4, <1>5 DEF SinkPaths

LEMMA DoneIsSafe == ErasureInv => ErasedDataStaysOut
<1>. SUFFICES ASSUME ErasureInv, Done,
                     origin \subseteq request.protocol.own \union request.protocol.sources,
                     NEW n \in at, n \in request.protocol.sinks
              PROVE  FALSE
  BY DEF ErasedDataStaysOut
<1>1. RunInv /\ todo # <<>>
  BY DEF ErasureInv, Done
<1>2. PICK S, T : Carrying(S, T)
  BY <1>1 DEF RunInv
<1>3. /\ T = {} /\ S \subseteq problem.permitted /\ Verdict(S) = "COMPLETE"
      /\ real \in Resolutions(GraphAfter(request, S \ T))
  BY <1>2 DEF Carrying, Done
<1>4. /\ request \in Requests /\ problem = ProblemOf(request) /\ S \in SUBSET Actions
      /\ S \ T = S
  <2>1. request \in Requests /\ problem = ProblemOf(request)
    BY <1>1 DEF RunInv
  <2>2. problem.permitted = request.permitted /\ request.permitted \in SUBSET Actions
    BY <2>1, ProblemFacts, RequestFacts
  <2>. QED  BY <1>3, <2>1, <2>2
<1>. DEFINE graph == GraphAfter(request, S)
<1>5. real \in Resolutions(graph) /\ graph \in Graph /\ request.protocol \in Protocol
  BY <1>3, <1>4, RequestFacts
<1>6. GraphVerdict(graph, request.protocol) = "COMPLETE"
  BY <1>3, <1>4, ProblemFacts DEF Verdict
<1>. HIDE DEF graph
<1>7. SinkPaths(graph, request.protocol) = {}
  BY <1>5, <1>6, VerdictFacts DEF Clean
<1>8. CameFrom(n)
  BY <1>1 DEF RunInv
<1>9. PICK k \in Nat \ {0} : \E p : Trail(p, k) /\ p[1] \in origin /\ p[k] = n
  BY <1>8 DEF CameFrom
<1>10. PICK p : Trail(p, k) /\ p[1] \in origin /\ p[k] = n
  BY <1>9
<1>11. p \in SinkPaths(graph, request.protocol)
  BY <1>5, <1>10, TrailIsSinkPath
<1>. QED  BY <1>7, <1>11

-----------------------------------------------------------------------------
(* Refusals.                                                               *)

\* Data gets along a path, at most one step per node.
LEMMA SpreadFollows ==
  ASSUME NEW r, NEW protocol, NEW N, N = Cardinality(Nodes), NEW k \in 1..N, NEW p,
         p[1] \in { n \in RequestStarts(r, protocol) : r.node[n] = "ACTIVE" },
         \A i \in 1..(k - 1) :
           \E e \in Edges : /\ r.edge[e] = "ACTIVE"
                            /\ protocol.source[e] = p[i] /\ protocol.target[e] = p[i + 1]
                            /\ r.node[p[i + 1]] = "ACTIVE"
  PROVE  p[k] \in Spread(r, protocol)
<1>. DEFINE start == { n \in RequestStarts(r, protocol) : r.node[n] = "ACTIVE" }
            Grow(before) ==
              before \union { protocol.target[e] :
                e \in { d \in Edges : /\ r.edge[d] = "ACTIVE" /\ protocol.source[d] \in before
                                      /\ r.node[protocol.target[d]] = "ACTIVE" } }
            Is(f, m) == f = [j \in 0..m |-> IF j = 0 THEN start ELSE Grow(f[j - 1])]
            reached == CHOOSE f : Is(f, N)
<1>0. N \in Nat
  BY GraphsAssumption, FS_CardinalityType
<1>1. ASSUME NEW m \in 0..N PROVE \E f : Is(f, m)
  <2>. DEFINE bad == { j \in 0..N : ~ \E f : Is(f, j) }
  <2>. SUFFICES ASSUME bad # {} PROVE FALSE
    OBVIOUS
  <2>1. PICK j \in bad : \A l \in bad : j <= l
    <3>1. bad \in SUBSET Nat
      BY <1>0
    <3>. HIDE DEF bad
    <3>. QED  BY <3>1, LeastNat
  <2>2. CASE j = 0
    <3>1. Is([i \in 0..0 |-> start], 0)
      OBVIOUS
    <3>. QED  BY <3>1, <2>1, <2>2
  <2>3. CASE j # 0
    <3>1. j - 1 \in 0..N /\ ~ (j <= j - 1) /\ j \in Nat
      BY <1>0, <2>1, <2>3
    <3>2. PICK f : Is(f, j - 1)
      <4>. HIDE DEF Is
      <4>. QED  BY <2>1, <3>1
    <3>. DEFINE g == [i \in 0..j |-> IF i = j THEN Grow(f[j - 1]) ELSE f[i]]
    <3>3. \A i \in 0..(j - 1) : g[i] = f[i]
      BY <3>1
    <3>4. ASSUME NEW i \in 0..j PROVE g[i] = IF i = 0 THEN start ELSE Grow(g[i - 1])
      <4>1. CASE i = j
        <5>1. g[j - 1] = f[j - 1] /\ g[j] = Grow(f[j - 1])
          BY <3>1, <3>3, <2>3
        <5>. HIDE DEF Grow, g
        <5>. QED  BY <4>1, <5>1, <2>3
      <4>2. CASE i # j
        <5>1. i \in 0..(j - 1) /\ (i # 0 => i - 1 \in 0..(j - 1))
          BY <3>1, <4>2
        <5>2. f[i] = IF i = 0 THEN start ELSE Grow(f[i - 1])
          <6>. HIDE DEF Grow, start
          <6>. QED  BY <3>2, <5>1
        <5>. HIDE DEF Grow, g, start
        <5>. QED  BY <3>3, <5>1, <5>2
      <4>. QED  BY <4>1, <4>2
    <3>5. Is(g, j)
      <4>1. DOMAIN g = 0..j /\ g = [i \in DOMAIN g |-> g[i]]
        OBVIOUS
      <4>. HIDE DEF g, Grow, start
      <4>. QED  BY <3>4, <4>1
    <3>. HIDE DEF Is, g
    <3>. QED  BY <3>5, <2>1
  <2>. QED  BY <2>2, <2>3
<1>2. Is(reached, N)
  <2>. HIDE DEF Is
  <2>. QED  BY <1>0, <1>1, N \in 0..N
<1>3. Spread(r, protocol) = reached[N]
  BY DEF Spread
<1>4. \A j \in 0..N : reached[j] = IF j = 0 THEN start ELSE Grow(reached[j - 1])
  <2>. HIDE DEF Grow, reached, start
  <2>. QED  BY <1>2
<1>. HIDE DEF reached, Is
<1>. DEFINE bad == { j \in 0..N : \E i \in 1..k : i <= j + 1 /\ p[i] \notin reached[j] }
<1>. SUFFICES ASSUME bad # {} PROVE FALSE
  <2>1. N \notin bad
    OBVIOUS
  <2>. QED  BY <1>0, <1>3, <2>1
<1>5. PICK j \in bad : \A l \in bad : j <= l
  <2>1. bad \in SUBSET Nat
    BY <1>0
  <2>. HIDE DEF bad
  <2>. QED  BY <2>1, LeastNat
<1>6. PICK i \in 1..k : i <= j + 1 /\ p[i] \notin reached[j]
  BY <1>5
<1>7. j # 0
  <2>. SUFFICES ASSUME j = 0 PROVE FALSE
    OBVIOUS
  <2>1. i = 1
    BY <1>0, <1>6
  <2>2. 0 \in 0..N
    BY <1>0
  <2>3. reached[0] = start
    <3>. HIDE DEF start, Grow
    <3>. QED  BY <1>4, <2>2
  <2>. QED  BY <1>6, <2>1, <2>3
<1>8. j - 1 \in 0..N /\ ~ (j <= j - 1) /\ j \in 0..N
  BY <1>0, <1>5, <1>7
<1>9. \A l \in 1..k : l <= (j - 1) + 1 => p[l] \in reached[j - 1]
  BY <1>5, <1>8
<1>10. reached[j] = Grow(reached[j - 1])
  BY <1>4, <1>7, <1>8
<1>11. CASE i <= j
  <2>1. p[i] \in reached[j - 1]
    BY <1>0, <1>8, <1>9, <1>11
  <2>. QED  BY <1>6, <1>10, <2>1
<1>12. CASE i = j + 1
  <2>1. j \in 1..k /\ j \in 1..(k - 1) /\ p[j] \in reached[j - 1]
    BY <1>0, <1>6, <1>7, <1>8, <1>9, <1>12
  <2>2. PICK e \in Edges : /\ r.edge[e] = "ACTIVE"
                           /\ protocol.source[e] = p[j] /\ protocol.target[e] = p[j + 1]
                           /\ r.node[p[j + 1]] = "ACTIVE"
    BY <2>1
  <2>3. protocol.target[e] \in Grow(reached[j - 1])
    BY <2>1, <2>2
  <2>. QED  BY <1>6, <1>10, <1>12, <2>2, <2>3
<1>13. i <= j \/ i = j + 1
  BY <1>0, <1>6, <1>8
<1>. QED  BY <1>11, <1>12, <1>13

\* Everything UNKNOWN may be open.
Opened(graph) ==
  [node |-> [n \in Nodes |-> IF graph.node[n] = "CLOSED" THEN "CLOSED" ELSE "ACTIVE"],
   edge |-> [e \in Edges |-> IF graph.edge[e] = "CLOSED" THEN "CLOSED" ELSE "ACTIVE"]]

\* A path to a sink is one that data may take.
LEMMA SinkPathMayLeak ==
  ASSUME NEW graph \in Graph, NEW protocol \in Protocol, NEW p \in SinkPaths(graph, protocol)
  PROVE  \E r \in Resolutions(graph) : Spread(r, protocol) \intersect protocol.sinks # {}
<1>. DEFINE r == Opened(graph)
            N == Cardinality(Nodes)
<1>1. /\ r \in Realities
      /\ \A n \in Nodes : r.node[n] = IF graph.node[n] = "CLOSED" THEN "CLOSED" ELSE "ACTIVE"
      /\ \A e \in Edges : r.edge[e] = IF graph.edge[e] = "CLOSED" THEN "CLOSED" ELSE "ACTIVE"
  BY DEF Opened, Realities
<1>. HIDE DEF r
<1>2. r \in Resolutions(graph)
  <2>1. graph.node \in [Nodes -> States] /\ graph.edge \in [Edges -> States]
    BY DEF Graph
  <2>2. /\ \A n \in Nodes : r.node[n] \in Outcomes(graph.node[n])
        /\ \A e \in Edges : r.edge[e] \in Outcomes(graph.edge[e])
    BY <1>1, <2>1 DEF Outcomes, States
  <2>. QED  BY <1>1, <2>2, ResolutionFacts
<1>3. PICK k \in 1..N :
        /\ p \in [1..k -> Nodes] /\ DOMAIN p = 1..k /\ Len(p) = k /\ Last(p) = p[k]
  BY PathFacts DEF SinkPaths
<1>4. N \in Nat /\ k \in Nat \ {0} /\ 1 \in 1..k /\ k \in 1..k
      /\ \A i \in 1..(k - 1) : i \in 1..k /\ i + 1 \in 1..k
  BY GraphsAssumption, FS_CardinalityType
<1>5. /\ p[1] \in RequestStarts(graph, protocol) /\ p[k] \in protocol.sinks
      /\ \A i \in 1..k : p[i] \in Nodes /\ r.node[p[i]] = "ACTIVE"
      /\ \A i \in 1..(k - 1) : Steps(graph, protocol, p[i], p[i + 1]) # {}
  BY <1>1, <1>3 DEF SinkPaths
<1>6. p[1] \in { n \in RequestStarts(r, protocol) : r.node[n] = "ACTIVE" }
  <2>1. protocol.own \subseteq Nodes /\ protocol.scoped \subseteq Edges
    BY DEF Protocol
  <2>2. p[1] \in RequestStarts(r, protocol)
    <3>1. CASE p[1] \in protocol.own \union protocol.sources
      BY <1>4, <1>5, <3>1 DEF RequestStarts
    <3>2. CASE \E e \in protocol.scoped : protocol.source[e] = p[1] /\ graph.edge[e] # "CLOSED"
      <4>1. PICK e \in protocol.scoped : protocol.source[e] = p[1] /\ graph.edge[e] # "CLOSED"
        BY <3>2
      <4>2. r.edge[e] # "CLOSED"
        BY <1>1, <2>1, <4>1
      <4>. QED  BY <4>1, <4>2 DEF RequestStarts
    <3>. QED  BY <1>5, <3>1, <3>2 DEF RequestStarts
  <2>. QED  BY <1>4, <1>5, <2>2
<1>7. ASSUME NEW i \in 1..(k - 1)
      PROVE  \E e \in Edges : /\ r.edge[e] = "ACTIVE"
                              /\ protocol.source[e] = p[i] /\ protocol.target[e] = p[i + 1]
                              /\ r.node[p[i + 1]] = "ACTIVE"
  <2>1. PICK e \in Edges : /\ protocol.source[e] = p[i] /\ protocol.target[e] = p[i + 1]
                           /\ graph.edge[e] # "CLOSED"
    BY <1>5 DEF Steps
  <2>. QED  BY <1>1, <1>4, <1>5, <2>1
<1>8. p[k] \in Spread(r, protocol)
  BY <1>4, <1>6, <1>7, SpreadFollows
<1>. QED  BY <1>2, <1>5, <1>8

\* Without a path to a sink it is the channels.
LEMMA ChannelsAreTheReason ==
  ASSUME NEW graph \in Graph, NEW protocol \in Protocol,
         SinkPaths(graph, protocol) = {}, ChannelsPass(graph, protocol)
  PROVE  Clean(graph, protocol)
BY DEF Clean, ChannelsPass, Deciding, Missing, Mandatory

LEMMA RefusalsAreRight == ErasureInv => RefusalHasAReason
<1>. SUFFICES ASSUME ErasureInv, outcome.status = "INFEASIBLE", request # NoRequest,
                     NEW S \in SUBSET request.permitted,
                     ChannelsPass(GraphAfter(request, S), request.protocol)
              PROVE  \E r \in Resolutions(GraphAfter(request, S)) :
                       Spread(r, request.protocol) \intersect request.protocol.sinks # {}
  BY DEF RefusalHasAReason, GraphAfter
<1>1. request \in Requests /\ problem = ProblemOf(request)
  BY DEF ErasureInv, RunInv
<1>2. S \in SUBSET problem.permitted /\ S \in SUBSET Actions
  BY <1>1, ProblemFacts, RequestFacts
<1>3. problem.verdict[S] \in {"INCOMPLETE", "UNVERIFIED"}
  BY <1>2 DEF ErasureInv, PlannerInv, CutInv, Refused, Verdict
<1>. DEFINE graph == GraphAfter(request, S)
<1>4. graph \in Graph /\ request.protocol \in Protocol
  BY <1>1, <1>2, RequestFacts
<1>5. GraphVerdict(graph, request.protocol) # "COMPLETE"
  BY <1>1, <1>2, <1>3, ProblemFacts
<1>. HIDE DEF graph
<1>6. ~ Clean(graph, request.protocol)
  BY <1>4, <1>5, VerdictFacts
<1>7. SinkPaths(graph, request.protocol) # {}
  BY <1>4, <1>6, ChannelsAreTheReason DEF graph
<1>. QED  BY <1>4, <1>7, SinkPathMayLeak DEF graph

-----------------------------------------------------------------------------
(* Greedy search among actions that only close.                            *)

ClosesNode(S, n) == \E a \in S : n \in DOMAIN request.action[a].nodes
ClosesEdge(S, e) == \E a \in S : e \in DOMAIN request.action[a].edges
Reported(S, c) == \E a \in S : c \in DOMAIN request.action[a].channels

\* What a set of such actions makes of a graph, whatever their order.
ClosedGraph(S, g) ==
  /\ \A n \in Nodes : g.node[n] = IF ClosesNode(S, n) THEN "CLOSED" ELSE request.graph.node[n]
  /\ \A e \in Edges : g.edge[e] = IF ClosesEdge(S, e) THEN "CLOSED" ELSE request.graph.edge[e]
  /\ \A c : c \in DOMAIN g.channel <=> c \in DOMAIN request.graph.channel \/ Reported(S, c)
  /\ \A c \in DOMAIN g.channel :
       IF Reported(S, c) THEN g.channel[c].decision = "PASS" /\ g.channel[c].mandatory
       ELSE g.channel[c] = request.graph.channel[c]

LEMMA ClosedStep ==
  ASSUME request \in Requests, ClosesOnly, NEW a \in request.permitted, NEW S, NEW T,
         T = S \union {a}, NEW g \in Graph, ClosedGraph(S, g)
  PROVE  ClosedGraph(T, ApplyAction(g, request.action[a]))
<1>. DEFINE action == request.action[a]
            new == ApplyAction(g, action)
<1>1. action \in Action
  BY RequestFacts
<1>2. /\ \A n \in DOMAIN action.nodes : Settled(action.nodes[n]) = "CLOSED"
      /\ \A e \in DOMAIN action.edges : Settled(action.edges[e]) = "CLOSED"
      /\ \A c \in DOMAIN action.channels :
           action.channels[c].decision = "PASS" /\ action.channels[c].mandatory
  BY DEF ClosesOnly
<1>3. /\ \A n : ClosesNode(T, n) <=> ClosesNode(S, n) \/ n \in DOMAIN action.nodes
      /\ \A e : ClosesEdge(T, e) <=> ClosesEdge(S, e) \/ e \in DOMAIN action.edges
      /\ \A c : Reported(T, c) <=> Reported(S, c) \/ c \in DOMAIN action.channels
  BY DEF ClosesNode, ClosesEdge, Reported
<1>. HIDE DEF action
<1>4. /\ \A n \in Nodes :
           new.node[n] = IF n \in DOMAIN action.nodes THEN Settled(action.nodes[n]) ELSE g.node[n]
      /\ \A e \in Edges :
           new.edge[e] = IF e \in DOMAIN action.edges THEN Settled(action.edges[e]) ELSE g.edge[e]
      /\ DOMAIN new.channel = DOMAIN action.channels \union DOMAIN g.channel
      /\ \A c \in DOMAIN new.channel :
           new.channel[c] = IF c \in DOMAIN action.channels THEN action.channels[c] ELSE g.channel[c]
  BY <1>1, ApplyFacts
<1>. HIDE DEF new
<1>5. ASSUME NEW n \in Nodes
      PROVE  new.node[n] = IF ClosesNode(T, n) THEN "CLOSED" ELSE request.graph.node[n]
  <2>1. g.node[n] = IF ClosesNode(S, n) THEN "CLOSED" ELSE request.graph.node[n]
    BY DEF ClosedGraph
  <2>2. new.node[n] = IF n \in DOMAIN action.nodes THEN "CLOSED" ELSE g.node[n]
    BY <1>2, <1>4
  <2>3. ClosesNode(T, n) <=> ClosesNode(S, n) \/ n \in DOMAIN action.nodes
    BY <1>3
  <2>. QED  BY <2>1, <2>2, <2>3
<1>6. ASSUME NEW e \in Edges
      PROVE  new.edge[e] = IF ClosesEdge(T, e) THEN "CLOSED" ELSE request.graph.edge[e]
  <2>1. g.edge[e] = IF ClosesEdge(S, e) THEN "CLOSED" ELSE request.graph.edge[e]
    BY DEF ClosedGraph
  <2>2. new.edge[e] = IF e \in DOMAIN action.edges THEN "CLOSED" ELSE g.edge[e]
    BY <1>2, <1>4
  <2>3. ClosesEdge(T, e) <=> ClosesEdge(S, e) \/ e \in DOMAIN action.edges
    BY <1>3
  <2>. QED  BY <2>1, <2>2, <2>3
<1>7. \A c : c \in DOMAIN new.channel <=> c \in DOMAIN request.graph.channel \/ Reported(T, c)
  BY <1>3, <1>4 DEF ClosedGraph
<1>8. ASSUME NEW c \in DOMAIN new.channel
      PROVE  IF Reported(T, c) THEN new.channel[c].decision = "PASS" /\ new.channel[c].mandatory
             ELSE new.channel[c] = request.graph.channel[c]
  <2>1. CASE c \in DOMAIN action.channels
    BY <1>2, <1>3, <1>4, <2>1
  <2>2. CASE c \notin DOMAIN action.channels
    <3>1. new.channel[c] = g.channel[c] /\ c \in DOMAIN g.channel
      BY <1>4, <2>2
    <3>2. Reported(T, c) <=> Reported(S, c)
      BY <1>3, <2>2
    <3>. QED  BY <3>1, <3>2 DEF ClosedGraph
  <2>. QED  BY <2>1, <2>2
<1>9. ClosedGraph(T, new)
  BY <1>5, <1>6, <1>7, <1>8 DEF ClosedGraph
<1>. QED  BY <1>9 DEF new, action

LEMMA ClosedAfter ==
  ASSUME request \in Requests, ClosesOnly, NEW S \in SUBSET request.permitted
  PROVE  ClosedGraph(S, GraphAfter(request, S))
<1>. DEFINE bad == { s \in SUBSET request.permitted : ~ ClosedGraph(s, GraphAfter(request, s)) }
<1>. SUFFICES ASSUME bad # {} PROVE FALSE
  OBVIOUS
<1>0. request.permitted \in SUBSET Actions
  BY RequestFacts
<1>1. \A s \in bad : IsFiniteSet(s)
  BY <1>0, ActionsAssumption, FS_Subset
<1>2. PICK s \in bad : \A u \in bad : u \subseteq s => u = s
  <2>. HIDE DEF bad
  <2>. QED  BY <1>1, LeastSet
<1>3. /\ s \in SUBSET request.permitted /\ s \in SUBSET Actions
      /\ ~ ClosedGraph(s, GraphAfter(request, s))
  BY <1>0
<1>4. CASE s = {}
  <2>1. GraphAfter(request, s) = request.graph
    BY <1>3, <1>4, AfterUnfolds DEF GraphAfter
  <2>2. ClosedGraph({}, request.graph)
    BY DEF ClosedGraph, ClosesNode, ClosesEdge, Reported
  <2>. QED  BY <1>3, <1>4, <2>1, <2>2
<1>5. CASE s # {}
  <2>. DEFINE u == s \ {Max(s)}
  <2>1. Max(s) \in s
    BY <1>3, <1>5, LastAction
  <2>2. /\ u \in SUBSET request.permitted /\ u \in SUBSET Actions /\ u \subseteq s /\ u # s
        /\ s = u \union {Max(s)} /\ Max(s) \in request.permitted
    BY <1>3, <2>1
  <2>3. ClosedGraph(u, GraphAfter(request, u))
    BY <1>2, <2>2
  <2>4. GraphAfter(request, s) = ApplyAction(GraphAfter(request, u), request.action[Max(s)])
    BY <1>3, <1>5, AfterUnfolds DEF GraphAfter
  <2>. HIDE DEF u, bad
  <2>5. GraphAfter(request, u) \in Graph
    BY <2>2, RequestFacts
  <2>6. ClosedGraph(s, ApplyAction(GraphAfter(request, u), request.action[Max(s)]))
    BY <2>2, <2>3, <2>5, ClosedStep
  <2>. QED  BY <1>3, <2>4, <2>6
<1>. QED  BY <1>4, <1>5

\* h is g with some things closed.
LessOpen(g, h) ==
  /\ \A n \in Nodes : h.node[n] \in {g.node[n], "CLOSED"}
  /\ \A e \in Edges : h.edge[e] \in {g.edge[e], "CLOSED"}

\* Closing things adds no path of any kind.
LEMMA ClosingAddsNoPath ==
  ASSUME NEW g \in Graph, NEW h \in Graph, NEW protocol \in Protocol, LessOpen(g, h)
  PROVE  /\ SinkPaths(h, protocol) \subseteq SinkPaths(g, protocol)
         /\ ActivePaths(h, protocol) \subseteq ActivePaths(g, protocol)
         /\ UnknownPaths(h, protocol) \subseteq UnknownPaths(g, protocol)
<1>1. /\ \A n \in Nodes : h.node[n] # "CLOSED" => h.node[n] = g.node[n] /\ g.node[n] # "CLOSED"
      /\ \A e \in Edges : h.edge[e] # "CLOSED" => h.edge[e] = g.edge[e] /\ g.edge[e] # "CLOSED"
  BY DEF LessOpen
<1>2. \A m, n : Steps(h, protocol, m, n) \subseteq Steps(g, protocol, m, n)
  BY <1>1 DEF Steps
<1>3. \A m, n : \A e \in Steps(h, protocol, m, n) : g.edge[e] = h.edge[e]
  BY <1>1 DEF Steps
<1>4. RequestStarts(h, protocol) \subseteq RequestStarts(g, protocol)
  <2>1. protocol.own \subseteq Nodes /\ protocol.scoped \subseteq Edges
    BY DEF Protocol
  <2>. QED  BY <1>1, <2>1 DEF RequestStarts
<1>5. ASSUME NEW p \in SinkPaths(h, protocol)
      PROVE  /\ p \in SinkPaths(g, protocol)
             /\ \A i \in DOMAIN p : g.node[p[i]] = h.node[p[i]]
  <2>1. PICK k \in 1..Cardinality(Nodes) : p \in [1..k -> Nodes] /\ DOMAIN p = 1..k /\ Len(p) = k
    BY PathFacts DEF SinkPaths
  <2>2. \A i \in DOMAIN p : g.node[p[i]] = h.node[p[i]] /\ g.node[p[i]] # "CLOSED"
    BY <1>1, <2>1 DEF SinkPaths
  <2>3. p \in SimplePaths /\ p[1] \in RequestStarts(g, protocol) /\ Last(p) \in protocol.sinks
    BY <1>4 DEF SinkPaths
  <2>4. \A i \in 1..(Len(p) - 1) : Steps(g, protocol, p[i], p[i + 1]) # {}
    <3>1. \A i \in 1..(Len(p) - 1) : Steps(h, protocol, p[i], p[i + 1]) # {}
      BY DEF SinkPaths
    <3>. QED  BY <1>2, <3>1
  <2>. QED  BY <2>2, <2>3, <2>4 DEF SinkPaths
<1>6. ASSUME NEW p \in ActivePaths(h, protocol) PROVE p \in ActivePaths(g, protocol)
  <2>1. /\ p \in SinkPaths(h, protocol) /\ \A i \in DOMAIN p : h.node[p[i]] = "ACTIVE"
        /\ \A i \in 1..(Len(p) - 1) :
             \E e \in Steps(h, protocol, p[i], p[i + 1]) : h.edge[e] = "ACTIVE"
    BY DEF ActivePaths
  <2>2. \A i \in 1..(Len(p) - 1) :
             \E e \in Steps(g, protocol, p[i], p[i + 1]) : g.edge[e] = "ACTIVE"
    BY <1>2, <1>3, <2>1
  <2>. QED  BY <1>5, <2>1, <2>2 DEF ActivePaths
<1>7. ASSUME NEW p \in UnknownPaths(h, protocol) PROVE p \in UnknownPaths(g, protocol)
  <2>1. p \in SinkPaths(h, protocol)
    BY DEF UnknownPaths
  <2>2. CASE \E i \in DOMAIN p : h.node[p[i]] = "UNKNOWN"
    BY <1>5, <2>1, <2>2 DEF UnknownPaths
  <2>3. CASE \E i \in 1..(Len(p) - 1) :
               \E e \in Steps(h, protocol, p[i], p[i + 1]) : h.edge[e] = "UNKNOWN"
    <3>1. \E i \in 1..(Len(p) - 1) :
             \E e \in Steps(g, protocol, p[i], p[i + 1]) : g.edge[e] = "UNKNOWN"
      BY <1>2, <1>3, <2>3
    <3>. QED  BY <1>5, <2>1, <3>1 DEF UnknownPaths
  <2>. QED  BY <2>2, <2>3 DEF UnknownPaths
<1>. QED  BY <1>5, <1>6, <1>7

\* Violations of one kind that go while none of any kind come: there are fewer.
LEMMA FewerOfFive ==
  ASSUME NEW a, NEW b, NEW c, NEW d, NEW e, NEW f, NEW g, NEW h, NEW i, NEW j,
         IsFiniteSet(a), IsFiniteSet(b), IsFiniteSet(c), IsFiniteSet(d), IsFiniteSet(e),
         f \subseteq a, g \subseteq b, h \subseteq c, i \subseteq d, j \subseteq e,
         f # a \/ g # b \/ h # c \/ i # d \/ j # e
  PROVE  Cardinality(f) + Cardinality(g) + Cardinality(h) + Cardinality(i) + Cardinality(j)
           < Cardinality(a) + Cardinality(b) + Cardinality(c) + Cardinality(d) + Cardinality(e)
<1>1. \A x, y : IsFiniteSet(x) /\ y \subseteq x =>
        /\ Cardinality(x) \in Nat /\ Cardinality(y) \in Nat /\ Cardinality(y) <= Cardinality(x)
        /\ y # x => Cardinality(y) < Cardinality(x)
  <2>. SUFFICES ASSUME NEW x, NEW y, IsFiniteSet(x), y \subseteq x
                PROVE  /\ Cardinality(x) \in Nat /\ Cardinality(y) \in Nat
                       /\ Cardinality(y) <= Cardinality(x)
                       /\ y # x => Cardinality(y) < Cardinality(x)
    OBVIOUS
  <2>1. IsFiniteSet(y) /\ Cardinality(y) <= Cardinality(x)
        /\ (Cardinality(y) = Cardinality(x) => y = x)
    BY FS_Subset
  <2>2. Cardinality(x) \in Nat /\ Cardinality(y) \in Nat
    BY <2>1, FS_CardinalityType
  <2>. QED  BY <2>1, <2>2
<1>. QED  BY <1>1

Stricter(g, h, protocol) ==
  /\ SinkPaths(h, protocol) \subseteq SinkPaths(g, protocol)
  /\ ActivePaths(h, protocol) \subseteq ActivePaths(g, protocol)
  /\ UnknownPaths(h, protocol) \subseteq UnknownPaths(g, protocol)
  /\ Deciding(h, "FAIL") \subseteq Deciding(g, "FAIL")
  /\ Deciding(h, "UNKNOWN") \subseteq Deciding(g, "UNKNOWN")
  /\ Missing(h, protocol) \subseteq Missing(g, protocol)

LEMMA StricterCounts ==
  ASSUME NEW g \in Graph, NEW h \in Graph, NEW protocol \in Protocol, Stricter(g, h, protocol),
         \/ SinkPaths(h, protocol) # SinkPaths(g, protocol)
         \/ Deciding(h, "FAIL") # Deciding(g, "FAIL")
         \/ Deciding(h, "UNKNOWN") # Deciding(g, "UNKNOWN")
         \/ Missing(h, protocol) # Missing(g, protocol)
  PROVE  ViolationCount(h, protocol) < ViolationCount(g, protocol)
<1>4. SinkPaths(h, protocol) # SinkPaths(g, protocol) =>
        \/ ActivePaths(h, protocol) # ActivePaths(g, protocol)
        \/ UnknownPaths(h, protocol) # UnknownPaths(g, protocol)
  BY SinkPathCases
<1>. QED  BY <1>4, ViolationsFinite, FewerOfFive DEF Stricter, ViolationCount

\* One action more is never worse.
LEMMA OneMoreIsStricter ==
  ASSUME request \in Requests, ClosesOnly, NEW C \in SUBSET request.permitted,
         NEW a \in request.permitted
  PROVE  Stricter(GraphAfter(request, C), GraphAfter(request, C \union {a}), request.protocol)
<1>. DEFINE g == GraphAfter(request, C)
            D == C \union {a}
            h == GraphAfter(request, D)
<1>1. /\ g \in Graph /\ h \in Graph /\ request.protocol \in Protocol
      /\ C \in SUBSET request.permitted /\ D \in SUBSET request.permitted
  BY RequestFacts
<1>2. ClosedGraph(C, g) /\ ClosedGraph(D, h)
  <2>. HIDE DEF D
  <2>. QED  BY <1>1, ClosedAfter
<1>3. /\ \A n : ClosesNode(C, n) => ClosesNode(D, n)
      /\ \A e : ClosesEdge(C, e) => ClosesEdge(D, e)
      /\ \A c : Reported(C, c) => Reported(D, c)
  BY DEF ClosesNode, ClosesEdge, Reported
<1>. HIDE DEF g, h, D
<1>4. LessOpen(g, h)
  BY <1>2, <1>3 DEF LessOpen, ClosedGraph
<1>5. ASSUME NEW d \in {"FAIL", "UNKNOWN"} PROVE Deciding(h, d) \subseteq Deciding(g, d)
  <2>. SUFFICES ASSUME NEW c \in Deciding(h, d) PROVE c \in Deciding(g, d)
    OBVIOUS
  <2>1. c \in DOMAIN h.channel /\ h.channel[c].mandatory /\ h.channel[c].decision = d
    BY DEF Deciding, Mandatory
  <2>2. ~ Reported(D, c)
    BY <1>2, <2>1 DEF ClosedGraph
  <2>3. c \in DOMAIN g.channel /\ g.channel[c] = h.channel[c]
    BY <1>2, <1>3, <2>1, <2>2 DEF ClosedGraph
  <2>. QED  BY <2>1, <2>3 DEF Deciding, Mandatory
<1>6. Mandatory(g) \subseteq Mandatory(h)
  <2>. SUFFICES ASSUME NEW c \in Mandatory(g) PROVE c \in Mandatory(h)
    OBVIOUS
  <2>1. c \in DOMAIN g.channel /\ g.channel[c].mandatory
    BY DEF Mandatory
  <2>2. c \in DOMAIN h.channel
    BY <1>2, <1>3, <2>1 DEF ClosedGraph
  <2>3. CASE Reported(D, c)
    BY <1>2, <2>2, <2>3 DEF ClosedGraph, Mandatory
  <2>4. CASE ~ Reported(D, c)
    <3>1. h.channel[c] = g.channel[c]
      BY <1>2, <1>3, <2>1, <2>2, <2>4 DEF ClosedGraph
    <3>. QED  BY <2>1, <2>2, <3>1 DEF Mandatory
  <2>. QED  BY <2>3, <2>4
<1>7. Missing(h, request.protocol) \subseteq Missing(g, request.protocol)
  BY <1>6 DEF Missing
<1>8. Stricter(g, h, request.protocol)
  BY <1>1, <1>4, <1>5, <1>7, ClosingAddsNoPath DEF Stricter
<1>. QED  BY <1>8 DEF g, h, D

\* A path that some set of actions cuts one of them cuts.
LEMMA SomeActionCuts ==
  ASSUME request \in Requests, ClosesOnly,
         NEW C \in SUBSET request.permitted, NEW S \in SUBSET request.permitted,
         NEW p \in SinkPaths(GraphAfter(request, C), request.protocol),
         p \notin SinkPaths(GraphAfter(request, S), request.protocol)
  PROVE  \E a \in S \ C :
           p \notin SinkPaths(GraphAfter(request, C \union {a}), request.protocol)
<1>. DEFINE g == GraphAfter(request, C)
            s == GraphAfter(request, S)
            protocol == request.protocol
<1>1. /\ g \in Graph /\ s \in Graph /\ protocol \in Protocol
      /\ request.permitted \in SUBSET Actions
      /\ ClosedGraph(C, g) /\ ClosedGraph(S, s)
  BY RequestFacts, ClosedAfter
<1>2. ASSUME NEW a \in S
      PROVE  /\ C \union {a} \in SUBSET request.permitted
             /\ ClosedGraph(C \union {a}, GraphAfter(request, C \union {a}))
  <2>1. C \union {a} \in SUBSET request.permitted
    OBVIOUS
  <2>. QED  BY <2>1, ClosedAfter
<1>. HIDE DEF g, s
<1>3. PICK k \in 1..Cardinality(Nodes) :
        /\ p \in [1..k -> Nodes] /\ DOMAIN p = 1..k /\ Len(p) = k /\ Last(p) = p[k]
  BY PathFacts DEF SinkPaths
<1>4. /\ p \in SimplePaths /\ p[1] \in RequestStarts(g, protocol) /\ p[k] \in protocol.sinks
      /\ \A i \in 1..k : p[i] \in Nodes /\ g.node[p[i]] # "CLOSED"
      /\ \A i \in 1..(k - 1) : Steps(g, protocol, p[i], p[i + 1]) # {}
  BY <1>3 DEF SinkPaths, g
<1>5. 1 \in 1..k /\ protocol.own \subseteq Nodes /\ protocol.scoped \subseteq Edges
      /\ \A i \in 1..(k - 1) : i \in 1..k /\ i + 1 \in 1..k
  BY <1>1, <1>3, GraphsAssumption, FS_CardinalityType DEF Protocol
<1>6. \/ \E i \in 1..k : s.node[p[i]] = "CLOSED"
      \/ /\ \A i \in 1..k : s.node[p[i]] # "CLOSED"
         /\ p[1] \notin RequestStarts(s, protocol)
      \/ \E i \in 1..(k - 1) : Steps(s, protocol, p[i], p[i + 1]) = {}
  BY <1>3, <1>4 DEF SinkPaths, s
\* An edge that S closes and C does not is closed by an action that is not in C,
\* and its open siblings with it.
<1>7. ASSUME NEW e \in Edges, g.edge[e] # "CLOSED", s.edge[e] = "CLOSED"
      PROVE  \E a \in S \ C : \A d \in Edges :
               Siblings(protocol, d, e) => GraphAfter(request, C \union {a}).edge[d] = "CLOSED"
  <2>1. ClosesEdge(S, e) /\ ~ ClosesEdge(C, e)
    BY <1>1, <1>7 DEF ClosedGraph
  <2>2. PICK a \in S \ C : e \in DOMAIN request.action[a].edges
    BY <2>1 DEF ClosesEdge
  <2>3. ASSUME NEW d \in Edges, Siblings(protocol, d, e)
        PROVE  GraphAfter(request, C \union {a}).edge[d] = "CLOSED"
    <3>1. CASE request.graph.edge[d] = "CLOSED"
      BY <1>2, <2>2, <3>1 DEF ClosedGraph
    <3>2. CASE request.graph.edge[d] # "CLOSED"
      <4>1. d \in DOMAIN request.action[a].edges
        BY <2>2, <2>3, <3>2 DEF ClosesOnly
      <4>2. ClosesEdge(C \union {a}, d)
        BY <4>1 DEF ClosesEdge
      <4>. QED  BY <1>2, <2>2, <4>2 DEF ClosedGraph
    <3>. QED  BY <3>1, <3>2
  <2>. QED  BY <2>2, <2>3
<1>8. CASE \E i \in 1..k : s.node[p[i]] = "CLOSED"
  <2>1. PICK i \in 1..k : s.node[p[i]] = "CLOSED"
    BY <1>8
  <2>2. ClosesNode(S, p[i]) /\ ~ ClosesNode(C, p[i]) /\ p[i] \in Nodes
    BY <1>1, <1>4, <2>1 DEF ClosedGraph
  <2>3. PICK a \in S \ C : p[i] \in DOMAIN request.action[a].nodes
    BY <2>2 DEF ClosesNode
  <2>4. ClosesNode(C \union {a}, p[i])
    BY <2>3 DEF ClosesNode
  <2>5. GraphAfter(request, C \union {a}).node[p[i]] = "CLOSED"
    BY <1>2, <2>2, <2>3, <2>4 DEF ClosedGraph
  <2>. QED  BY <1>3, <2>3, <2>5 DEF SinkPaths
<1>9. CASE \E i \in 1..(k - 1) : Steps(s, protocol, p[i], p[i + 1]) = {}
  <2>1. PICK i \in 1..(k - 1) : Steps(s, protocol, p[i], p[i + 1]) = {}
    BY <1>9
  <2>2. PICK e \in Edges : /\ protocol.source[e] = p[i] /\ protocol.target[e] = p[i + 1]
                           /\ g.edge[e] # "CLOSED"
    BY <1>4, <2>1 DEF Steps
  <2>3. s.edge[e] = "CLOSED"
    BY <2>1, <2>2 DEF Steps
  <2>4. PICK a \in S \ C : \A d \in Edges :
          Siblings(protocol, d, e) => GraphAfter(request, C \union {a}).edge[d] = "CLOSED"
    BY <1>7, <2>2, <2>3
  <2>5. \A d \in Edges : protocol.source[d] = p[i] /\ protocol.target[d] = p[i + 1]
                           => Siblings(protocol, d, e)
    BY <2>2 DEF Siblings
  <2>6. Steps(GraphAfter(request, C \union {a}), protocol, p[i], p[i + 1]) = {}
    BY <2>4, <2>5 DEF Steps
  <2>. QED  BY <1>3, <2>4, <2>6 DEF SinkPaths
<1>10. CASE /\ \A i \in 1..k : s.node[p[i]] # "CLOSED"
            /\ p[1] \notin RequestStarts(s, protocol)
  <2>1. p[1] \notin protocol.own \union protocol.sources
    BY <1>5, <1>10 DEF RequestStarts
  <2>2. PICK e \in protocol.scoped : protocol.source[e] = p[1] /\ g.edge[e] # "CLOSED"
    BY <1>4, <2>1 DEF RequestStarts
  <2>3. e \in Edges /\ s.edge[e] = "CLOSED"
    BY <1>5, <1>10, <2>2 DEF RequestStarts
  <2>4. PICK a \in S \ C : \A d \in Edges :
          Siblings(protocol, d, e) => GraphAfter(request, C \union {a}).edge[d] = "CLOSED"
    BY <1>7, <2>2, <2>3
  <2>5. \A d \in protocol.scoped : protocol.source[d] = p[1] =>
          d \in Edges /\ Siblings(protocol, d, e)
    BY <1>5, <2>1, <2>2 DEF Siblings
  <2>6. p[1] \notin RequestStarts(GraphAfter(request, C \union {a}), protocol)
    BY <2>1, <2>4, <2>5 DEF RequestStarts
  <2>. QED  BY <2>4, <2>6 DEF SinkPaths
<1>. QED  BY <1>6, <1>8, <1>9, <1>10

\* As long as some set of actions leaves no violation and the actions taken do,
\* some action of the set that was not taken leaves fewer.
LEMMA SomeActionHelps ==
  ASSUME request \in Requests, ClosesOnly, request.protocol.mandatory # {},
         NEW C \in SUBSET request.permitted, NEW S \in SUBSET request.permitted,
         Clean(GraphAfter(request, S), request.protocol),
         ~ Clean(GraphAfter(request, C), request.protocol)
  PROVE  \E a \in S \ C : ViolationCount(GraphAfter(request, C \union {a}), request.protocol)
                            < ViolationCount(GraphAfter(request, C), request.protocol)
<1>. DEFINE g == GraphAfter(request, C)
            s == GraphAfter(request, S)
            after(a) == GraphAfter(request, C \union {a})
            protocol == request.protocol
<1>1. /\ g \in Graph /\ s \in Graph /\ protocol \in Protocol
      /\ ClosedGraph(C, g) /\ ClosedGraph(S, s)
  BY RequestFacts, ClosedAfter
<1>2. ASSUME NEW a \in S
      PROVE  after(a) \in Graph /\ ClosedGraph(C \union {a}, after(a))
             /\ Stricter(g, after(a), protocol)
  <2>1. C \union {a} \in SUBSET request.permitted /\ C \union {a} \in SUBSET Actions
    BY RequestFacts
  <2>. QED  BY <2>1, RequestFacts, ClosedAfter, OneMoreIsStricter
<1>. HIDE DEF g, s, after, protocol
<1>3. SUFFICES \E a \in S \ C :
                 \/ SinkPaths(after(a), protocol) # SinkPaths(g, protocol)
                 \/ Deciding(after(a), "FAIL") # Deciding(g, "FAIL")
                 \/ Deciding(after(a), "UNKNOWN") # Deciding(g, "UNKNOWN")
                 \/ Missing(after(a), protocol) # Missing(g, protocol)
  BY <1>1, <1>2, StricterCounts DEF g, after, protocol
<1>4. CASE SinkPaths(g, protocol) # {}
  <2>1. PICK p \in SinkPaths(g, protocol) : TRUE
    BY <1>4
  <2>2. p \notin SinkPaths(s, protocol)
    BY DEF Clean, s, protocol
  <2>3. \E a \in S \ C : p \notin SinkPaths(after(a), protocol)
    BY <2>1, <2>2, SomeActionCuts DEF g, s, after, protocol
  <2>. QED  BY <2>1, <2>3
<1>5. ASSUME NEW d \in {"FAIL", "UNKNOWN"}, NEW c \in Deciding(g, d)
      PROVE  \E a \in S \ C : Deciding(after(a), d) # Deciding(g, d)
  <2>1. c \in DOMAIN g.channel /\ g.channel[c].mandatory /\ g.channel[c].decision = d
    BY <1>5 DEF Deciding, Mandatory
  <2>2. ~ Reported(C, c) /\ g.channel[c] = request.graph.channel[c] /\ c \in DOMAIN request.graph.channel
    BY <1>1, <2>1 DEF ClosedGraph
  <2>3. Reported(S, c)
    <3>. SUFFICES ASSUME ~ Reported(S, c) PROVE FALSE
      OBVIOUS
    <3>1. c \in DOMAIN s.channel /\ s.channel[c] = g.channel[c]
      BY <1>1, <2>2 DEF ClosedGraph
    <3>2. c \in Deciding(s, d)
      BY <2>1, <3>1 DEF Deciding, Mandatory
    <3>. QED  BY <3>2 DEF Clean, s, protocol
  <2>4. PICK a \in S \ C : c \in DOMAIN request.action[a].channels
    BY <2>2, <2>3 DEF Reported
  <2>5. Reported(C \union {a}, c)
    BY <2>4 DEF Reported
  <2>6. c \notin Deciding(after(a), d)
    BY <1>2, <2>4, <2>5 DEF ClosedGraph, Deciding, Mandatory
  <2>. QED  BY <1>5, <2>4, <2>6
<1>6. ASSUME NEW m \in Missing(g, protocol)
      PROVE  \E a \in S \ C : Missing(after(a), protocol) # Missing(g, protocol)
  <2>1. m \in protocol.mandatory /\ \A c \in Mandatory(g) : NameOf[c] # m
    BY DEF Missing
  <2>2. PICK c \in Mandatory(s) : NameOf[c] = m
    BY <2>1 DEF Clean, Missing, s, protocol
  <2>3. c \in DOMAIN s.channel /\ s.channel[c].mandatory /\ c \notin Mandatory(g)
    BY <2>1, <2>2 DEF Mandatory
  <2>4. ~ Reported(C, c)
    <3>. SUFFICES ASSUME Reported(C, c) PROVE FALSE
      OBVIOUS
    <3>1. c \in DOMAIN g.channel /\ g.channel[c].mandatory
      BY <1>1 DEF ClosedGraph
    <3>. QED  BY <2>3, <3>1 DEF Mandatory
  <2>5. Reported(S, c)
    <3>. SUFFICES ASSUME ~ Reported(S, c) PROVE FALSE
      OBVIOUS
    <3>1. c \in DOMAIN request.graph.channel /\ s.channel[c] = request.graph.channel[c]
      BY <1>1, <2>3 DEF ClosedGraph
    <3>2. c \in DOMAIN g.channel /\ g.channel[c] = s.channel[c]
      BY <1>1, <2>4, <3>1 DEF ClosedGraph
    <3>. QED  BY <2>3, <3>2 DEF Mandatory
  <2>6. PICK a \in S \ C : c \in DOMAIN request.action[a].channels
    BY <2>4, <2>5 DEF Reported
  <2>7. Reported(C \union {a}, c)
    BY <2>6 DEF Reported
  <2>8. c \in Mandatory(after(a))
    BY <1>2, <2>6, <2>7 DEF ClosedGraph, Mandatory
  <2>9. m \notin Missing(after(a), protocol)
    BY <2>2, <2>8 DEF Missing
  <2>. QED  BY <2>6, <2>9
<1>7. CASE Mandatory(g) = {}
  <2>1. Missing(g, protocol) # {}
    BY <1>7 DEF Missing, protocol
  <2>. QED  BY <1>6, <2>1
<1>8. \/ SinkPaths(g, protocol) # {} \/ Deciding(g, "FAIL") # {} \/ Deciding(g, "UNKNOWN") # {}
      \/ Missing(g, protocol) # {} \/ Mandatory(g) = {}
  BY DEF Clean, g, protocol
<1>. QED  BY <1>4, <1>5, <1>6, <1>7, <1>8

LEMMA GreedyIsRight == ErasureInv /\ request # NoRequest => GreedyFindsACut
<1>. SUFFICES ASSUME ErasureInv, request # NoRequest, phase = "returned", ~ complete,
                     ClosesOnly, request.protocol.mandatory # {},
                     NEW S \in SUBSET request.permitted, problem.verdict[S] = "COMPLETE"
              PROVE  FALSE
  BY DEF GreedyFindsACut
<1>1. /\ request \in Requests /\ problem = ProblemOf(request)
      /\ chosen \subseteq problem.permitted /\ remaining = problem.permitted \ chosen
      /\ Greedy!Incomplete /\ Greedy!Useful = {}
  BY DEF ErasureInv, RunInv, PlannerInv, GreedyInv
<1>2. /\ problem.permitted = request.permitted /\ request.permitted \in SUBSET Actions
      /\ chosen \in SUBSET request.permitted /\ request.protocol \in Protocol
  BY <1>1, ProblemFacts, RequestFacts
<1>3. ASSUME NEW T \in SUBSET request.permitted
      PROVE  /\ GraphAfter(request, T) \in Graph
             /\ problem.verdict[T] = GraphVerdict(GraphAfter(request, T), request.protocol)
             /\ problem.violations[T] = ViolationCount(GraphAfter(request, T), request.protocol)
             /\ problem.violations[T] \in Nat
  <2>1. ~ Raises(request, T)
    BY DEF Raises, ClosesOnly
  <2>2. T \in SUBSET Actions
    BY <1>2
  <2>3. GraphAfter(request, T) \in Graph
    BY <1>1, <2>2, RequestFacts
  <2>4. /\ problem.verdict[T] = GraphVerdict(GraphAfter(request, T), request.protocol)
        /\ problem.violations[T] = ViolationCount(GraphAfter(request, T), request.protocol)
    BY <1>1, <2>1, <2>2, ProblemFacts
  <2>. QED  BY <1>2, <2>3, <2>4, VerdictFacts
<1>4. Clean(GraphAfter(request, S), request.protocol)
  BY <1>2, <1>3, VerdictFacts
<1>5. ~ Clean(GraphAfter(request, chosen), request.protocol)
  BY <1>1, <1>2, <1>3, VerdictFacts DEF Greedy!Incomplete
<1>6. PICK a \in S \ chosen :
        ViolationCount(GraphAfter(request, chosen \union {a}), request.protocol)
          < ViolationCount(GraphAfter(request, chosen), request.protocol)
  BY <1>1, <1>2, <1>4, <1>5, SomeActionHelps
<1>7. a \in remaining /\ chosen \union {a} \in SUBSET request.permitted
  BY <1>1, <1>2
<1>8. problem.violations[chosen \union {a}] < problem.violations[chosen]
      /\ problem.violations[chosen \union {a}] \in Nat /\ problem.violations[chosen] \in Nat
  BY <1>2, <1>3, <1>6, <1>7
<1>9. a \in Greedy!Useful
  BY <1>7, <1>8 DEF Greedy!Useful, Greedy!Improvement
<1>. QED  BY <1>1, <1>9

-----------------------------------------------------------------------------
(* Factorials.                                                             *)

FactorialUpTo(f, m) == f = [n \in 0..m |-> IF n = 0 THEN 1 ELSE n * f[n - 1]]

LEMMA FactorialsAgree ==
  ASSUME NEW m \in Nat, NEW k \in Nat, NEW f, NEW g,
         FactorialUpTo(f, m), FactorialUpTo(g, k),
         NEW n \in Nat, n <= m, n <= k
  PROVE  f[n] = g[n]
<1>. DEFINE bad == { i \in 0..n : f[i] # g[i] }
<1>. SUFFICES ASSUME bad # {} PROVE FALSE
  OBVIOUS
<1>1. PICK i \in bad : \A j \in bad : i <= j
  <2>1. bad \in SUBSET Nat
    OBVIOUS
  <2>. HIDE DEF bad
  <2>. QED  BY <2>1, LeastNat
<1>2. i \in Nat /\ i \in 0..m /\ i \in 0..k /\ i \in 0..n
  OBVIOUS
<1>3. f[i] = (IF i = 0 THEN 1 ELSE i * f[i - 1]) /\ g[i] = (IF i = 0 THEN 1 ELSE i * g[i - 1])
  BY <1>2 DEF FactorialUpTo
<1>4. i # 0
  BY <1>3
<1>5. f[i - 1] = g[i - 1]
  <2>1. i - 1 \in 0..n /\ ~ (i <= i - 1)
    BY <1>2, <1>4
  <2>. QED  BY <1>1, <2>1
<1>. QED  BY <1>3, <1>4, <1>5

LEMMA FactorialsExist ==
  ASSUME NEW m \in Nat
  PROVE  \E f : FactorialUpTo(f, m)
<1>. DEFINE bad == { k \in Nat : ~ \E f : FactorialUpTo(f, k) }
<1>. SUFFICES ASSUME bad # {} PROVE FALSE
  OBVIOUS
<1>1. PICK k \in bad : \A j \in bad : k <= j
  <2>1. bad \in SUBSET Nat
    OBVIOUS
  <2>. HIDE DEF bad
  <2>. QED  BY <2>1, LeastNat
<1>2. k \in Nat /\ ~ \E f : FactorialUpTo(f, k)
  OBVIOUS
<1>3. CASE k = 0
  <2>. DEFINE f == [n \in 0..0 |-> 1]
  <2>1. \A n \in 0..0 : n = 0
    OBVIOUS
  <2>2. f = [n \in 0..0 |-> IF n = 0 THEN 1 ELSE n * f[n - 1]]
    BY <2>1
  <2>. QED  BY <1>2, <1>3, <2>2 DEF FactorialUpTo
<1>4. CASE k # 0
  <2>1. k - 1 \in Nat /\ k - 1 \notin bad
    BY <1>1, <1>2, <1>4
  <2>2. PICK g : FactorialUpTo(g, k - 1)
    BY <2>1
  <2>. DEFINE f == [n \in 0..k |-> IF n = k THEN k * g[k - 1] ELSE g[n]]
  <2>3. ASSUME NEW n \in 0..k PROVE f[n] = IF n = 0 THEN 1 ELSE n * f[n - 1]
    <3>1. CASE n = k
      <4>1. k - 1 \in 0..k /\ k - 1 # k
        BY <1>2, <1>4
      <4>2. f[n - 1] = g[n - 1]
        BY <3>1, <4>1
      <4>. QED  BY <1>4, <3>1, <4>2
    <3>2. CASE n # k
      <4>1. n \in 0..(k - 1)
        BY <1>2, <3>2
      <4>2. f[n] = g[n]
        BY <3>2
      <4>3. g[n] = IF n = 0 THEN 1 ELSE n * g[n - 1]
        BY <2>2, <4>1 DEF FactorialUpTo
      <4>4. n # 0 => f[n - 1] = g[n - 1]
        <5>1. n # 0 => n - 1 \in 0..k /\ n - 1 # k
          BY <1>2, <4>1
        <5>. QED  BY <5>1
      <4>. HIDE DEF f
      <4>. QED  BY <4>2, <4>3, <4>4
    <3>. QED  BY <3>1, <3>2
  <2>4. f = [n \in 0..k |-> f[n]]
    OBVIOUS
  <2>. HIDE DEF f
  <2>5. FactorialUpTo(f, k)
    BY <2>3, <2>4 DEF FactorialUpTo
  <2>. QED  BY <1>2, <2>5
<1>. QED  BY <1>3, <1>4

LEMMA FactorialUnfolds ==
  ASSUME NEW n \in Nat
  PROVE  Factorial[n] = IF n = 0 THEN 1 ELSE n * Factorial[n - 1]
<1>. DEFINE of == [m \in Nat |-> CHOOSE f : FactorialUpTo(f, m)]
            f == [m \in Nat |-> of[m][m]]
            Is(h) == h = [m \in Nat |-> IF m = 0 THEN 1 ELSE m * h[m - 1]]
<1>1. \A m \in Nat : FactorialUpTo(of[m], m)
  BY FactorialsExist
<1>2. ASSUME NEW m \in Nat PROVE f[m] = IF m = 0 THEN 1 ELSE m * f[m - 1]
  <2>1. of[m][m] = IF m = 0 THEN 1 ELSE m * of[m][m - 1]
    <3>1. m \in 0..m
      OBVIOUS
    <3>. HIDE DEF of
    <3>. QED  BY <1>1, <3>1 DEF FactorialUpTo
  <2>2. m # 0 => of[m][m - 1] = of[m - 1][m - 1]
    <3>1. m # 0 => m - 1 \in Nat /\ m - 1 <= m
      OBVIOUS
    <3>. HIDE DEF of
    <3>. QED  BY <1>1, <3>1, FactorialsAgree
  <2>3. f[m] = of[m][m] /\ (m # 0 => f[m - 1] = of[m - 1][m - 1])
    OBVIOUS
  <2>. HIDE DEF of, f
  <2>. QED  BY <2>1, <2>2, <2>3
<1>3. f = [m \in Nat |-> f[m]]
  OBVIOUS
<1>4. Is(f)
  <2>. HIDE DEF f
  <2>. QED  BY <1>2, <1>3
<1>5. Factorial = CHOOSE h : Is(h)
  BY DEF Factorial
<1>6. Is(Factorial)
  <2>. HIDE DEF f, Is
  <2>. QED  BY <1>4, <1>5
<1>. HIDE DEF f
<1>. QED  BY <1>6

\* The factorial of n is a positive multiple of every number up to n.
LEMMA FactorialDivides ==
  ASSUME NEW n \in Nat
  PROVE  /\ Factorial[n] \in Nat /\ Factorial[n] > 0
         /\ \A i \in 1..n : \E k \in Nat : Factorial[n] = i * k
<1>. DEFINE Divides(m) == /\ Factorial[m] \in Nat /\ Factorial[m] > 0
                          /\ \A i \in 1..m : \E k \in Nat : Factorial[m] = i * k
            bad == { m \in Nat : ~ Divides(m) }
<1>. SUFFICES ASSUME bad # {} PROVE FALSE
  OBVIOUS
<1>1. PICK m \in bad : \A j \in bad : m <= j
  <2>1. bad \in SUBSET Nat
    OBVIOUS
  <2>. HIDE DEF bad
  <2>. QED  BY <2>1, LeastNat
<1>2. m \in Nat /\ ~ Divides(m)
  OBVIOUS
<1>3. m # 0
  <2>. SUFFICES ASSUME m = 0 PROVE FALSE
    OBVIOUS
  <2>1. Factorial[0] = 1
    BY FactorialUnfolds
  <2>. QED  BY <1>2, <2>1
<1>4. m - 1 \in Nat /\ m - 1 \notin bad
  <2>1. m - 1 \in Nat /\ ~ (m <= m - 1)
    BY <1>2, <1>3
  <2>. HIDE DEF bad
  <2>. QED  BY <1>1, <2>1
<1>5. Divides(m - 1)
  <2>. HIDE DEF Divides
  <2>. QED  BY <1>4
<1>. DEFINE p == Factorial[m - 1]
<1>6. p \in Nat /\ p > 0 /\ Factorial[m] = m * p
  BY <1>2, <1>3, <1>5, FactorialUnfolds
<1>. HIDE DEF p
<1>7. m * p \in Nat /\ m * p > 0
  <2>1. m > 0
    BY <1>2, <1>3
  <2>. QED  BY <1>2, <1>6, <2>1
<1>8. ASSUME NEW i \in 1..m PROVE \E k \in Nat : Factorial[m] = i * k
  <2>1. CASE i = m
    BY <1>6, <2>1
  <2>2. CASE i # m
    <3>1. i \in 1..(m - 1)
      BY <1>2, <2>2
    <3>2. PICK k \in Nat : p = i * k
      BY <1>5, <3>1 DEF p
    <3>3. m * p = i * (m * k) /\ m * k \in Nat
      BY <1>2, <3>1, <3>2
    <3>. QED  BY <1>6, <3>3
  <2>. QED  BY <2>1, <2>2
<1>. QED  BY <1>2, <1>6, <1>7, <1>8

-----------------------------------------------------------------------------
(* Sums of parts.                                                          *)

LEMMA HarmonicUnfolds ==
  ASSUME NEW F \in Nat
  PROVE  /\ HarmonicTimes(F, 0) = 0
         /\ \A k \in Nat : HarmonicTimes(F, k) \in Nat
         /\ \A k \in Nat : HarmonicTimes(F, k + 1) = HarmonicTimes(F, k) + (F \div (k + 1))
<1>. DEFINE part(k) == [i \in 1..k |-> F \div i]
<1>1. \A k : HarmonicTimes(F, k) = Total(part(k), 1..k)
  BY DEF HarmonicTimes, Total, MapThenSumSet, MapThenFoldSet
<1>2. ASSUME NEW k \in Nat
      PROVE  IsFiniteSet(1..k) /\ \A i \in 1..k : part(k)[i] \in Nat /\ part(k)[i] = F \div i
  <2>1. \A i \in 1..k : F \div i \in Nat
    OBVIOUS
  <2>. QED  BY <2>1, FS_Interval
<1>3. 1..0 = {}
  OBVIOUS
<1>4. HarmonicTimes(F, 0) = 0
  <2>1. IsFiniteSet({})
    BY FS_EmptySet
  <2>. HIDE DEF part
  <2>. QED  BY <1>1, <1>3, <2>1, TotalUnfolds
<1>5. ASSUME NEW k \in Nat PROVE HarmonicTimes(F, k) \in Nat
  <2>. HIDE DEF part
  <2>. QED  BY <1>1, <1>2, TotalType
<1>6. ASSUME NEW k \in Nat
      PROVE  HarmonicTimes(F, k + 1) = HarmonicTimes(F, k) + (F \div (k + 1))
  <2>1. (1..k) \union {k + 1} = 1..(k + 1) /\ k + 1 \notin 1..k /\ k + 1 \in Nat
    OBVIOUS
  <2>2. \A i \in 1..k : part(k + 1)[i] = part(k)[i]
    OBVIOUS
  <2>3. \A i \in (1..k) \union {k + 1} : part(k + 1)[i] \in Nat
    BY <1>2, <2>1
  <2>4. part(k + 1)[k + 1] = F \div (k + 1)
    OBVIOUS
  <2>. HIDE DEF part
  <2>5. Total(part(k + 1), (1..k) \union {k + 1}) = Total(part(k + 1), 1..k) + part(k + 1)[k + 1]
    BY <1>2, <2>1, <2>3, TotalAdds
  <2>6. Total(part(k + 1), 1..k) = Total(part(k), 1..k)
    BY <1>2, <2>2, TotalSame
  <2>. QED  BY <1>1, <2>1, <2>4, <2>5, <2>6
<1>. QED  BY <1>4, <1>5, <1>6

LEMMA SmallerPart ==
  ASSUME NEW F \in Nat, NEW i \in Nat, NEW u \in Nat, i > 0, i <= u
  PROVE  F \div u <= F \div i
<1>. DEFINE q == F \div u
            p == F \div i
<1>1. q \in Nat /\ u * q <= F
  OBVIOUS
<1>2. p \in Nat /\ F < i * (p + 1)
  OBVIOUS
<1>. HIDE DEF p, q
<1>. SUFFICES ASSUME p + 1 <= q PROVE FALSE
  BY <1>1, <1>2 DEF p, q
<1>3. i * (p + 1) <= i * q
  BY <1>1, <1>2
<1>4. i * q <= u * q
  BY <1>1
<1>5. i * q \in Nat /\ u * q \in Nat /\ i * (p + 1) \in Nat
  BY <1>1, <1>2
<1>. QED  BY <1>1, <1>2, <1>3, <1>4, <1>5

\* The last g of u parts are each as large as the last.
LEMMA HarmonicGrows ==
  ASSUME NEW F \in Nat, NEW u \in Nat, u > 0, NEW g \in Nat, g <= u
  PROVE  g * (F \div u) <= HarmonicTimes(F, u) - HarmonicTimes(F, u - g)
<1>. DEFINE H(k) == HarmonicTimes(F, k)
            q == F \div u
            Grows(k) == k * q <= H(u) - H(u - k)
            bad == { k \in 0..u : ~ Grows(k) }
<1>. SUFFICES ASSUME bad # {} PROVE FALSE
  <2>1. g \in 0..u /\ g \notin bad
    <3>1. g \in 0..u
      OBVIOUS
    <3>. HIDE DEF bad
    <3>. QED  BY <3>1
  <2>2. Grows(g)
    <3>. HIDE DEF Grows
    <3>. QED  BY <2>1
  <2>. QED  BY <2>2
<1>1. PICK k \in bad : \A j \in bad : k <= j
  <2>1. bad \in SUBSET Nat
    OBVIOUS
  <2>. HIDE DEF bad
  <2>. QED  BY <2>1, LeastNat
<1>2. k \in 0..u /\ ~ Grows(k)
  OBVIOUS
<1>3. q \in Nat /\ \A j \in Nat : H(j) \in Nat
  <2>1. q \in Nat
    OBVIOUS
  <2>. QED  BY <2>1, HarmonicUnfolds
<1>4. k # 0
  <2>. SUFFICES ASSUME k = 0 PROVE FALSE
    OBVIOUS
  <2>1. u - 0 = u /\ 0 * q = 0
    BY <1>3
  <2>2. Grows(0)
    BY <1>3, <2>1
  <2>. QED  BY <1>2, <2>2
<1>5. Grows(k - 1)
  <2>1. k - 1 \in 0..u /\ ~ (k <= k - 1)
    BY <1>2, <1>4
  <2>2. k - 1 \notin bad
    <3>. HIDE DEF bad
    <3>. QED  BY <1>1, <2>1
  <2>. HIDE DEF Grows
  <2>. QED  BY <2>1, <2>2
<1>. DEFINE i == u - k
<1>6. i \in Nat /\ i + 1 = u - (k - 1) /\ i + 1 <= u
  BY <1>2, <1>4
<1>7. H(i + 1) = H(i) + (F \div (i + 1))
  BY <1>6, HarmonicUnfolds
<1>8. q <= F \div (i + 1)
  <2>. HIDE DEF i
  <2>. QED  BY <1>6, SmallerPart
<1>9. k * q = (k - 1) * q + q
  BY <1>2, <1>3
<1>10. (k - 1) * q <= H(u) - H(i + 1)
  BY <1>5, <1>6
<1>11. F \div (i + 1) \in Nat /\ H(i) \in Nat /\ H(i + 1) \in Nat /\ H(u) \in Nat /\ (k - 1) * q \in Nat
  BY <1>2, <1>3, <1>4, <1>6
<1>12. k * q <= H(u) - H(i)
  <2>. HIDE DEF H, q, i
  <2>. QED  BY <1>3, <1>7, <1>8, <1>9, <1>10, <1>11
<1>. QED  BY <1>2, <1>12

-----------------------------------------------------------------------------
(* Tasks.                                                                  *)

LEMMA TaskFacts ==
  ASSUME task \in Tasks
  PROVE  /\ IsFiniteSet(task.required) /\ IsFiniteSet(task.permitted)
         /\ task.permitted \subseteq Remediations /\ Remediations \subseteq Nat
         /\ \A a \in Remediations :
              /\ task.cost[a] \in Nat
              /\ IsFiniteSet(task.covers[a])
<1>1. task \in Task /\ IsFiniteSet(Remediations) /\ IsFiniteSet(Artifacts)
  BY TasksAssumption
<1>2. /\ task.required \subseteq Artifacts /\ task.permitted \subseteq Remediations
      /\ \A a \in Remediations : task.cost[a] \in Nat /\ task.covers[a] \subseteq Artifacts
  BY <1>1 DEF Task
<1>. QED  BY <1>1, <1>2, FS_Subset, TasksAssumption

LEMMA CostFacts ==
  ASSUME task \in Tasks, NEW S \in SUBSET Remediations
  PROVE  /\ IsFiniteSet(S) /\ Cardinality(S) \in Nat /\ CostOf(S) \in Nat
         /\ \A R \in SUBSET S : CostOf(R) <= CostOf(S)
         /\ \A a \in Remediations \ S : CostOf(S \union {a}) = CostOf(S) + task.cost[a]
         /\ CostOf({}) = 0
<1>1. \A T : CostOf(T) = Total(task.cost, T)
  BY DEF CostOf, Total, MapThenSumSet, MapThenFoldSet
<1>2. \A a \in Remediations : task.cost[a] \in Nat
  BY TaskFacts
<1>3. \A T \in SUBSET Remediations : IsFiniteSet(T) /\ Total(task.cost, T) \in Nat
  <2>1. \A T \in SUBSET Remediations : IsFiniteSet(T)
    BY TasksAssumption, FS_Subset
  <2>. QED  BY <1>2, <2>1, TotalType
<1>4. ASSUME NEW R \in SUBSET S PROVE CostOf(R) <= CostOf(S)
  <2>. DEFINE T == S \ R
  <2>1. R \union T = S /\ R \intersect T = {} /\ T \in SUBSET Remediations /\ R \in SUBSET Remediations
    OBVIOUS
  <2>. HIDE DEF T
  <2>2. Total(task.cost, R \union T) = Total(task.cost, R) + Total(task.cost, T)
    <3>1. IsFiniteSet(R) /\ IsFiniteSet(T) /\ \A x \in R \union T : task.cost[x] \in Nat
      BY <1>2, <1>3, <2>1
    <3>. QED  BY <2>1, <3>1, TotalOfUnion
  <2>3. Total(task.cost, R) \in Nat /\ Total(task.cost, T) \in Nat
    BY <1>3, <2>1
  <2>4. CostOf(R) = Total(task.cost, R) /\ CostOf(S) = Total(task.cost, R) + Total(task.cost, T)
    BY <1>1, <2>1, <2>2
  <2>. QED  BY <2>3, <2>4
<1>5. ASSUME NEW a \in Remediations \ S
      PROVE  CostOf(S \union {a}) = CostOf(S) + task.cost[a]
  <2>1. IsFiniteSet(S) /\ \A x \in S \union {a} : task.cost[x] \in Nat
    BY <1>2, <1>3
  <2>. QED  BY <1>1, <2>1, TotalAdds
<1>6. CostOf({}) = 0
  <2>1. IsFiniteSet({})
    BY FS_EmptySet
  <2>. QED  BY <1>1, <2>1, TotalUnfolds
<1>. QED  BY <1>1, <1>3, <1>4, <1>5, <1>6, FS_CardinalityType

LEMMA CoverFacts ==
  ASSUME task \in Tasks, NEW S
  PROVE  /\ CoveredBy(S) \subseteq task.required
         /\ IsFiniteSet(CoveredBy(S)) /\ Cardinality(CoveredBy(S)) \in Nat
         /\ \A R \in SUBSET S : CoveredBy(R) \subseteq CoveredBy(S)
         /\ \A a : CoveredBy(S \union {a}) = CoveredBy(S) \union (task.covers[a] \intersect task.required)
         /\ CoveredBy({}) = {}
<1>1. CoveredBy(S) \subseteq task.required
  BY DEF CoveredBy
<1>2. IsFiniteSet(CoveredBy(S)) /\ Cardinality(CoveredBy(S)) \in Nat
  BY <1>1, TaskFacts, FS_Subset, FS_CardinalityType
<1>3. \A R \in SUBSET S : CoveredBy(R) \subseteq CoveredBy(S)
  BY DEF CoveredBy
<1>4. ASSUME NEW a
      PROVE  CoveredBy(S \union {a}) = CoveredBy(S) \union (task.covers[a] \intersect task.required)
  <2>1. UNION { task.covers[b] : b \in S \union {a} }
          = (UNION { task.covers[b] : b \in S }) \union task.covers[a]
    OBVIOUS
  <2>. QED  BY <2>1 DEF CoveredBy
<1>5. CoveredBy({}) = {}
  BY DEF CoveredBy
<1>. QED  BY <1>1, <1>2, <1>3, <1>4, <1>5

-----------------------------------------------------------------------------
(* The greedy planner.                                                     *)

Open == task.required \ CoveredBy(picked)

LEMMA GainFacts ==
  ASSUME task \in Tasks, picked \subseteq Remediations, NEW a \in Remediations
  PROVE  /\ IsFiniteSet(Open) /\ Cardinality(Open) \in Nat
         /\ Gain(a) = Cardinality(task.covers[a] \intersect Open)
         /\ IsFiniteSet(task.covers[a] \intersect Open)
         /\ Gain(a) \in Nat /\ Gain(a) <= Cardinality(Open)
         /\ a \in picked => Gain(a) = 0
<1>1. IsFiniteSet(Open)
  BY TaskFacts, FS_Subset DEF Open
<1>2. Gain(a) = Cardinality(task.covers[a] \intersect Open)
  BY DEF Gain, Open
<1>3. IsFiniteSet(task.covers[a] \intersect Open)
      /\ Cardinality(task.covers[a] \intersect Open) <= Cardinality(Open)
  BY <1>1, FS_Subset
<1>4. ASSUME a \in picked PROVE task.covers[a] \intersect Open = {}
  BY <1>4 DEF Open, CoveredBy
<1>. QED  BY <1>1, <1>2, <1>3, <1>4, FS_CardinalityType, FS_EmptySet

\* The action picked is not dearer per artifact than any that there is.
LEMMA PickIsCheap ==
  ASSUME task \in Tasks, picked \subseteq Remediations,
         NEW a \in UsefulActions, \A b \in UsefulActions \ {a} : CheaperPerArtifact(a, b),
         NEW b \in task.permitted
  PROVE  task.cost[a] * Gain(b) <= task.cost[b] * Gain(a)
<1>1. /\ a \in Remediations /\ b \in Remediations
      /\ task.cost[a] \in Nat /\ task.cost[b] \in Nat
  BY TaskFacts DEF UsefulActions
<1>2. Gain(a) \in Nat /\ Gain(b) \in Nat /\ (b \in picked => Gain(b) = 0)
  BY <1>1, GainFacts
<1>3. CASE Gain(b) = 0
  <2>1. task.cost[a] * Gain(b) = 0 /\ task.cost[b] * Gain(a) >= 0
    BY <1>1, <1>2, <1>3
  <2>. QED  BY <2>1
<1>4. CASE Gain(b) # 0
  <2>1. b \in UsefulActions
    BY <1>2, <1>4 DEF UsefulActions
  <2>2. CASE b = a
    BY <1>1, <1>2, <2>2
  <2>3. CASE b # a
    <3>1. CheaperPerArtifact(a, b)
      BY <2>1, <2>3
    <3>2. task.cost[a] * Gain(b) \in Nat /\ task.cost[b] * Gain(a) \in Nat
      BY <1>1, <1>2
    <3>. QED  BY <3>1, <3>2 DEF CheaperPerArtifact
  <2>. QED  BY <2>2, <2>3
<1>. QED  BY <1>3, <1>4

\* Nor than any set of actions together.
LEMMA PickIsAverage ==
  ASSUME task \in Tasks, picked \subseteq Remediations,
         NEW a \in UsefulActions, \A b \in UsefulActions \ {a} : CheaperPerArtifact(a, b),
         NEW S \in SUBSET task.permitted
  PROVE  task.cost[a] * Cardinality(CoveredBy(S) \intersect Open) <= CostOf(S) * Gain(a)
<1>. DEFINE Covers(T) == CoveredBy(T) \intersect Open
            Average(T) == task.cost[a] * Cardinality(Covers(T)) <= CostOf(T) * Gain(a)
            bad == { T \in SUBSET S : ~ Average(T) }
<1>. SUFFICES ASSUME bad # {} PROVE FALSE
  <2>1. S \in SUBSET S
    OBVIOUS
  <2>2. Average(S)
    <3>. HIDE DEF Average
    <3>. QED  BY <2>1
  <2>. QED  BY <2>2
<1>1. /\ S \subseteq Remediations /\ a \in Remediations /\ a \in task.permitted
      /\ task.cost[a] \in Nat /\ Gain(a) \in Nat /\ IsFiniteSet(Open)
  BY TaskFacts, GainFacts DEF UsefulActions
<1>2. \A T \in SUBSET S : IsFiniteSet(T) /\ CostOf(T) \in Nat
  BY <1>1, CostFacts
<1>3. PICK T \in bad : \A R \in bad : R \subseteq T => R = T
  <2>1. \A T \in bad : IsFiniteSet(T)
    BY <1>2
  <2>. HIDE DEF bad
  <2>. QED  BY <2>1, LeastSet
<1>4. T \in SUBSET S /\ ~ Average(T)
  OBVIOUS
<1>5. T # {}
  <2>. SUFFICES ASSUME T = {} PROVE FALSE
    OBVIOUS
  <2>1. Covers({}) = {}
    BY CoverFacts
  <2>2. Cardinality(Covers({})) = 0 /\ CostOf({}) = 0
    BY <1>1, <2>1, FS_EmptySet, CostFacts
  <2>3. task.cost[a] * 0 = 0 /\ 0 * Gain(a) = 0
    BY <1>1
  <2>. QED  BY <1>4, <2>2, <2>3
<1>6. PICK b \in T : TRUE
  BY <1>5
<1>. DEFINE R == T \ {b}
<1>7. /\ R \in SUBSET S /\ R \subseteq T /\ R # T /\ R \union {b} = T
      /\ b \in Remediations \ R /\ b \in task.permitted
  BY <1>1, <1>4, <1>6
<1>8. Average(R)
  <2>1. R \notin bad
    <3>. HIDE DEF bad, R
    <3>. QED  BY <1>3, <1>7
  <2>. HIDE DEF Average, R
  <2>. QED  BY <1>7, <2>1
<1>. HIDE DEF R, bad
<1>9. task.cost[b] \in Nat /\ Gain(b) \in Nat /\ task.cost[a] * Gain(b) <= task.cost[b] * Gain(a)
  BY <1>1, <1>7, TaskFacts, GainFacts, PickIsCheap
<1>10. CostOf(T) = CostOf(R) + task.cost[b] /\ CostOf(R) \in Nat
  <2>1. R \in SUBSET Remediations
    BY <1>1, <1>7
  <2>. QED  BY <1>2, <1>7, <2>1, CostFacts
<1>11. /\ Cardinality(Covers(T)) <= Cardinality(Covers(R)) + Gain(b)
       /\ Cardinality(Covers(T)) \in Nat /\ Cardinality(Covers(R)) \in Nat
  <2>. DEFINE B == task.covers[b] \intersect Open
  <2>1. Covers(T) = Covers(R) \union B
    <3>1. CoveredBy(T) = CoveredBy(R) \union (task.covers[b] \intersect task.required)
      BY <1>7, CoverFacts
    <3>. QED  BY <3>1 DEF Open
  <2>2. IsFiniteSet(Covers(R)) /\ IsFiniteSet(B) /\ Gain(b) = Cardinality(B)
    <3>1. IsFiniteSet(B) /\ Gain(b) = Cardinality(B)
      BY <1>7, GainFacts
    <3>2. IsFiniteSet(Covers(R))
      BY CoverFacts, FS_Subset
    <3>. QED  BY <3>1, <3>2
  <2>. HIDE DEF Covers, B
  <2>3. IsFiniteSet(Covers(T)) /\ IsFiniteSet(Covers(R) \intersect B)
        /\ Cardinality(Covers(T))
             = Cardinality(Covers(R)) + Cardinality(B) - Cardinality(Covers(R) \intersect B)
    BY <2>1, <2>2, FS_Union, FS_Intersection
  <2>. QED  BY <2>2, <2>3, FS_CardinalityType
<1>. DEFINE x == Cardinality(Covers(T))
            y == Cardinality(Covers(R))
            c == task.cost[a]
            g == Gain(a)
<1>12. c * x <= c * (y + Gain(b)) /\ c * (y + Gain(b)) = c * y + c * Gain(b)
  <2>. HIDE DEF x, y, c, g
  <2>. QED  BY <1>1, <1>9, <1>11 DEF x, y, c, g
<1>13. CostOf(T) * g = CostOf(R) * g + task.cost[b] * g
  BY <1>1, <1>9, <1>10
<1>14. c * y <= CostOf(R) * g
  BY <1>8
<1>15. /\ c * x \in Nat /\ c * y \in Nat /\ c * Gain(b) \in Nat /\ c * (y + Gain(b)) \in Nat
       /\ CostOf(R) * g \in Nat /\ task.cost[b] * g \in Nat
  BY <1>1, <1>9, <1>10, <1>11
<1>16. c * x <= CostOf(T) * g
  <2>. HIDE DEF x, y, c, g
  <2>1. c * Gain(b) <= task.cost[b] * g
    BY <1>9 DEF c, g
  <2>. QED  BY <1>12, <1>13, <1>14, <1>15, <2>1
<1>. QED  BY <1>4, <1>16

\* What is picked costs a plan of the cheapest cost at most as many harmonic
\* parts as artifacts were covered so far.
ShareOf(items) ==
  HarmonicTimes(Factorial[Cardinality(task.required)], Cardinality(task.required))
  - HarmonicTimes(Factorial[Cardinality(task.required)],
                  Cardinality(task.required \ CoveredBy(items)))

CheapPicks ==
  { P \in SUBSET task.permitted :
      \A S \in Coverings :
        CostOf(P) * Factorial[Cardinality(task.required)] <= CostOf(S) * ShareOf(P) }

PickedIsCheap == picked \in CheapPicks

LEMMA NothingPicked == task \in Tasks /\ picked = {} => PickedIsCheap
<1>. SUFFICES ASSUME task \in Tasks, picked = {}, NEW S \in Coverings
     PROVE  CostOf(picked) * Factorial[Cardinality(task.required)] <= CostOf(S) * ShareOf(picked)
  BY DEF PickedIsCheap, CheapPicks
<1>. DEFINE n == Cardinality(task.required)
            F == Factorial[n]
<1>1. n \in Nat /\ F \in Nat
  BY TaskFacts, FS_CardinalityType, FactorialDivides
<1>2. Open = task.required /\ CostOf(picked) = 0
  BY CoverFacts, CostFacts DEF Open
<1>3. HarmonicTimes(F, n) \in Nat
  <2>. HIDE DEF F, n
  <2>. QED  BY <1>1, HarmonicUnfolds
<1>4. ShareOf(picked) = 0
  <2>1. task.required \ CoveredBy(picked) = task.required
    BY <1>2 DEF Open
  <2>2. ShareOf(picked) = HarmonicTimes(F, n) - HarmonicTimes(F, n)
    BY <2>1 DEF ShareOf
  <2>. HIDE DEF F, n
  <2>. QED  BY <1>3, <2>2
<1>5. CostOf(S) \in Nat
  BY TaskFacts, CostFacts DEF Coverings
<1>. QED  BY <1>1, <1>2, <1>4, <1>5

LEMMA PickStaysCheap ==
  ASSUME task \in Tasks, PickedIsCheap,
         NEW a \in UsefulActions, \A b \in UsefulActions \ {a} : CheaperPerArtifact(a, b),
         NEW next, next = picked \union {a}
  PROVE  next \in CheapPicks
<1>0. next \in SUBSET task.permitted
  BY DEF PickedIsCheap, CheapPicks, UsefulActions
<1>. SUFFICES ASSUME NEW S \in Coverings
              PROVE  CostOf(next) * Factorial[Cardinality(task.required)] <= CostOf(S) * ShareOf(next)
  BY <1>0 DEF CheapPicks
<1>. DEFINE open == Cardinality(task.required \ CoveredBy(next))
            n == Cardinality(task.required)
            F == Factorial[n]
            H(k) == HarmonicTimes(F, k)
            u == Cardinality(Open)
            g == Gain(a)
            c == task.cost[a]
            s == CostOf(S)
            p == CostOf(picked)
<1>1. /\ picked \subseteq Remediations /\ a \in Remediations /\ a \notin picked
      /\ c \in Nat /\ g \in Nat /\ g > 0 /\ u \in Nat /\ g <= u
      /\ IsFiniteSet(Open) /\ g = Cardinality(task.covers[a] \intersect Open)
      /\ IsFiniteSet(task.required) /\ n \in Nat
  BY TaskFacts, GainFacts, FS_CardinalityType DEF UsefulActions, PickedIsCheap, CheapPicks
<1>2. S \in SUBSET task.permitted /\ S \subseteq Remediations /\ CoveredBy(S) = task.required
      /\ s \in Nat
  BY TaskFacts, CostFacts DEF Coverings, IsComplete
<1>3. p \in Nat /\ CostOf(next) = p + c
  BY <1>1, CostFacts
<1>4. open = u - g
  <2>1. CoveredBy(next) = CoveredBy(picked) \union (task.covers[a] \intersect task.required)
    BY CoverFacts
  <2>2. task.required \ CoveredBy(next) = Open \ (task.covers[a] \intersect Open)
    BY <2>1 DEF Open
  <2>3. Cardinality(Open \ (task.covers[a] \intersect Open))
          = Cardinality(Open) - Cardinality(Open \intersect (task.covers[a] \intersect Open))
    BY <1>1, FS_Difference
  <2>4. Open \intersect (task.covers[a] \intersect Open) = task.covers[a] \intersect Open
    OBVIOUS
  <2>. QED  BY <1>1, <2>2, <2>3, <2>4
<1>5. u <= n /\ F \in Nat /\ F > 0
  <2>1. u <= n
    BY <1>1, FS_Subset DEF Open
  <2>. QED  BY <1>1, <2>1, FactorialDivides
<1>6. PICK q \in Nat : F = u * q
  <2>1. u \in 1..n
    BY <1>1, <1>5
  <2>. QED  BY <1>1, <2>1, FactorialDivides
<1>7. F \div u = q
  BY <1>1, <1>6
<1>8. c * u <= s * g
  <2>1. CoveredBy(S) \intersect Open = Open
    BY <1>2 DEF Open
  <2>. QED  BY <1>1, <1>2, <2>1, PickIsAverage
<1>9. p * F <= s * (H(n) - H(u))
  BY DEF PickedIsCheap, CheapPicks, ShareOf, Open
<1>10. g * q <= H(u) - H(u - g)
  <2>1. u > 0
    BY <1>1
  <2>. HIDE DEF F, u, g
  <2>. QED  BY <1>1, <1>5, <1>7, <2>1, HarmonicGrows
<1>11. H(n) \in Nat /\ H(u) \in Nat /\ H(u - g) \in Nat
  <2>1. u - g \in Nat
    BY <1>1
  <2>. HIDE DEF F, u, g, n
  <2>. QED  BY <1>1, <1>5, <2>1, HarmonicUnfolds
<1>. DEFINE x == H(n)  y == H(u)  z == H(u - g)
<1>12. (p + c) * F <= s * (x - z)
  <2>. HIDE DEF F, H, u, g, c, s, p, x, y, z
  <2>1. (p + c) * F = p * F + c * F
    BY <1>1, <1>3, <1>5
  <2>2. c * F = (c * u) * q
    BY <1>1, <1>6
  <2>3. (c * u) * q <= (s * g) * q
    BY <1>1, <1>2, <1>6, <1>8
  <2>4. (s * g) * q = s * (g * q)
    BY <1>1, <1>2, <1>6
  <2>5. s * (g * q) <= s * (y - z)
    <3>1. g * q \in Nat /\ y - z \in Int /\ g * q <= y - z
      BY <1>1, <1>6, <1>10, <1>11 DEF x, y, z
    <3>. QED  BY <1>2, <3>1
  <2>6. p * F <= s * (x - y)
    BY <1>9 DEF x, y
  <2>7. s * (x - y) + s * (y - z) = s * (x - z)
    BY <1>2, <1>11 DEF x, y, z
  <2>8. p * F \in Int /\ c * F \in Int /\ (s * g) * q \in Int /\ (c * u) * q \in Int
        /\ s * (x - y) \in Int /\ s * (y - z) \in Int /\ s * (x - z) \in Int
    BY <1>1, <1>2, <1>3, <1>5, <1>6, <1>11 DEF x, y, z
  <2>. QED  BY <2>1, <2>2, <2>3, <2>4, <2>5, <2>6, <2>7, <2>8
<1>. QED  BY <1>3, <1>4, <1>12 DEF ShareOf

\* Picking ends with all that can be covered.
LEMMA GreedyIsBest ==
  ASSUME task \in Tasks, PickedIsCheap, UsefulActions = {}
  PROVE  LET n == Cardinality(task.required)
             F == Factorial[n]
         IN  /\ IsComplete(picked) <=> Coverings # {}
             /\ CoveredBy(picked) = CoveredBy(task.permitted)
             /\ \A S \in Coverings : CostOf(picked) * F <= CostOf(S) * HarmonicTimes(F, n)
<1>. DEFINE n == Cardinality(task.required)
            F == Factorial[n]
            u == Cardinality(Open)
<1>0. picked \in SUBSET task.permitted
  BY DEF PickedIsCheap, CheapPicks
<1>1. CoveredBy(picked) = CoveredBy(task.permitted)
  <2>1. ASSUME NEW a \in task.permitted, NEW r \in task.covers[a] \intersect task.required
        PROVE  r \in CoveredBy(picked)
    <3>1. a \in Remediations /\ IsFiniteSet(task.covers[a] \intersect Open) /\ Gain(a) \in Nat
          /\ Gain(a) = Cardinality(task.covers[a] \intersect Open)
      BY <1>0, TaskFacts, GainFacts
    <3>2. CASE a \in picked
      BY <3>2 DEF CoveredBy
    <3>3. CASE a \notin picked
      <4>1. Gain(a) = 0
        BY <3>1, <3>3 DEF UsefulActions
      <4>2. task.covers[a] \intersect Open = {}
        BY <3>1, <4>1, FS_EmptySet
      <4>. QED  BY <4>2 DEF Open
    <3>. QED  BY <3>2, <3>3
  <2>2. CoveredBy(task.permitted) \subseteq CoveredBy(picked)
    BY <2>1 DEF CoveredBy
  <2>3. CoveredBy(picked) \subseteq CoveredBy(task.permitted)
    BY <1>0, CoverFacts
  <2>. QED  BY <2>2, <2>3
<1>2. IsComplete(picked) => Coverings # {}
  BY <1>0 DEF Coverings
<1>3. ASSUME NEW S \in Coverings PROVE IsComplete(picked)
  <2>1. S \in SUBSET task.permitted /\ CoveredBy(S) = task.required
    BY DEF Coverings, IsComplete
  <2>2. CoveredBy(S) \subseteq CoveredBy(task.permitted) /\ CoveredBy(picked) \subseteq task.required
    BY <2>1, CoverFacts
  <2>. QED  BY <1>1, <2>1, <2>2 DEF IsComplete
<1>4. ASSUME NEW S \in Coverings
      PROVE  CostOf(picked) * F <= CostOf(S) * HarmonicTimes(F, n)
  <2>1. n \in Nat /\ u \in Nat
    BY TaskFacts, FS_Subset, FS_CardinalityType DEF Open
  <2>2. F \in Nat
    <3>. HIDE DEF n
    <3>. QED  BY <2>1, FactorialDivides
  <2>3. HarmonicTimes(F, n) \in Nat /\ HarmonicTimes(F, u) \in Nat
    <3>. HIDE DEF F, n, u
    <3>. QED  BY <2>1, <2>2, HarmonicUnfolds
  <2>4. CostOf(S) \in Nat /\ CostOf(picked) \in Nat
    BY <1>0, TaskFacts, CostFacts DEF Coverings
  <2>5. CostOf(picked) * F <= CostOf(S) * (HarmonicTimes(F, n) - HarmonicTimes(F, u))
    BY DEF PickedIsCheap, CheapPicks, ShareOf, Open
  <2>. DEFINE s == CostOf(S)  x == HarmonicTimes(F, n)  y == HarmonicTimes(F, u)
  <2>6. s * (x - y) <= s * x
    <3>. HIDE DEF s, x, y
    <3>. QED  BY <2>3, <2>4 DEF s, x, y
  <2>7. s * (x - y) \in Int /\ s * x \in Int /\ CostOf(picked) * F \in Int
    BY <2>2, <2>3, <2>4
  <2>. HIDE DEF F, u, n, s, x, y
  <2>8. CostOf(picked) * F <= s * (x - y)
    BY <2>5 DEF s, x, y
  <2>9. CostOf(picked) * F <= s * x
    BY <2>6, <2>7, <2>8
  <2>. QED  BY <2>9 DEF s, x
<1>. QED  BY <1>1, <1>2, <1>3, <1>4

-----------------------------------------------------------------------------
(* The exact planner.                                                      *)

Calls == [chosen : SUBSET task.permitted, left : SUBSET task.permitted]

\* The sets of actions that the pending call f can still consider.
Within(S, f) == f.chosen \subseteq S /\ S \subseteq f.chosen \union f.left

Costs == [S \in SUBSET task.permitted |-> CostOf(S)]

Closer ==
  { p \in (SUBSET task.permitted) \X (SUBSET task.permitted) : PartialKeyLess(p[1], p[2]) }

\* The search is done with S: while it knows no complete plan it cuts nothing off.
DoneWith(S) ==
  IF cheapest # <<>> THEN S \in Coverings => Costs[cheapest[1]] <= Costs[S]
  ELSE S \notin Coverings /\ <<S, closest>> \notin Closer

SearchInv ==
  /\ calls \in Seq(Seq(Calls)) /\ Len(calls) <= 1
  /\ cheapest \in Seq(SUBSET task.permitted)
  /\ cheapest # <<>> => cheapest[1] \in Coverings
  /\ closest \in SUBSET task.permitted
  /\ plan = NotReturned /\ calls # <<>> =>
       \A S \in SUBSET task.permitted :
         DoneWith(S) \/ \E i \in 1..Len(calls[1]) : Within(S, calls[1][i])

CoverInv ==
  /\ task \in Tasks
  /\ PickedIsCheap
  /\ SearchInv
  /\ CoverIsBest

LEMMA KeyFacts ==
  ASSUME task \in Tasks, NEW S \in SUBSET task.permitted
  PROVE  /\ Cardinality(CoveredBy(S)) \in Nat /\ CostOf(S) \in Nat /\ Cardinality(S) \in Nat
         /\ S \in SUBSET Nat
BY TaskFacts, CostFacts, CoverFacts

LEMMA ClosenessOrder ==
  ASSUME task \in Tasks,
         NEW A \in SUBSET task.permitted, NEW B \in SUBSET task.permitted,
         NEW C \in SUBSET task.permitted
  PROVE  /\ ~ PartialKeyLess(A, A)
         /\ PartialKeyLess(A, B) /\ PartialKeyLess(B, C) => PartialKeyLess(A, C)
<1>1. /\ Cardinality(CoveredBy(A)) \in Nat /\ CostOf(A) \in Nat /\ Cardinality(A) \in Nat
      /\ Cardinality(CoveredBy(B)) \in Nat /\ CostOf(B) \in Nat /\ Cardinality(B) \in Nat
      /\ Cardinality(CoveredBy(C)) \in Nat /\ CostOf(C) \in Nat /\ Cardinality(C) \in Nat
      /\ A \in SUBSET Nat /\ B \in SUBSET Nat /\ C \in SUBSET Nat
  BY KeyFacts
<1>2. IdsLess(A, B) /\ IdsLess(B, C) => IdsLess(A, C)
  BY <1>1, LexTransitive DEF IdsLess
<1>3. ~ IdsLess(A, A)
  BY DEF IdsLess
<1>4. CompleteKeyLess(A, B) /\ CompleteKeyLess(B, C) => CompleteKeyLess(A, C)
  BY <1>1, <1>2 DEF CompleteKeyLess
<1>5. ~ CompleteKeyLess(A, A)
  BY <1>1, <1>3 DEF CompleteKeyLess
<1>6. PartialKeyLess(A, B) /\ PartialKeyLess(B, C) => PartialKeyLess(A, C)
  BY <1>1, <1>4 DEF PartialKeyLess
<1>. QED  BY <1>1, <1>5, <1>6 DEF PartialKeyLess

\* What a call and its predecessors are.
LEMMA CallFacts ==
  ASSUME SearchInv, InCall
  PROVE  /\ Call \in Calls /\ calls[1] \in Seq(Calls) /\ calls[1] # <<>>
         /\ Tail(calls[1]) \in Seq(Calls)
         /\ << Tail(calls[1]) >> \in Seq(Seq(Calls)) /\ Len(<< Tail(calls[1]) >>) = 1
         /\ \A i \in 1..Len(calls[1]) :
              calls[1][i] = Call \/ \E j \in 1..Len(Tail(calls[1])) : Tail(calls[1])[j] = calls[1][i]
         /\ plan = NotReturned /\ calls # <<>> /\ solver = "exact"
<1>1. calls \in Seq(Seq(Calls)) /\ calls # <<>> /\ calls[1] # <<>>
      /\ plan = NotReturned /\ solver = "exact"
  BY DEF SearchInv, InCall, Planning
<1>2. calls[1] \in Seq(Calls)
  <2>1. Len(calls) \in Nat /\ Len(calls) > 0
    BY <1>1
  <2>. QED  BY <1>1, <2>1
<1>. DEFINE r == calls[1]
<1>3. /\ Head(r) \in Calls /\ Tail(r) \in Seq(Calls)
      /\ \A i \in 1..Len(r) : r[i] = Head(r) \/ \E j \in 1..Len(Tail(r)) : Tail(r)[j] = r[i]
  <2>. HIDE DEF r
  <2>. QED  BY <1>1, <1>2, PopCases DEF r
<1>. QED  BY <1>1, <1>2, <1>3 DEF Call

\* A call whose sets are all done with can go.
LEMMA PopDone ==
  ASSUME SearchInv, InCall, NEW S \in SUBSET task.permitted,
         ~ DoneWith(S)
  PROVE  \/ Within(S, Call)
         \/ \E j \in 1..Len(Tail(calls[1])) : Within(S, Tail(calls[1])[j])
<1>1. \E i \in 1..Len(calls[1]) : Within(S, calls[1][i])
  BY CallFacts DEF SearchInv
<1>. QED  BY <1>1, CallFacts

\* The plan closest to complete only gets closer.
LEMMA RememberFacts ==
  ASSUME task \in Tasks, SearchInv, InCall, RememberClosest
  PROVE  /\ closest' \in SUBSET task.permitted
         /\ ~ PartialKeyLess(Call.chosen, closest')
         /\ \A S \in SUBSET task.permitted :
              ~ PartialKeyLess(S, closest) => ~ PartialKeyLess(S, closest')
<1>1. Call.chosen \in SUBSET task.permitted /\ closest \in SUBSET task.permitted
  BY CallFacts DEF SearchInv, Calls
<1>2. CASE PartialKeyLess(Call.chosen, closest)
  <2>1. closest' = Call.chosen
    BY <1>2 DEF RememberClosest
  <2>2. ~ PartialKeyLess(Call.chosen, Call.chosen)
    BY <1>1, ClosenessOrder
  <2>3. ASSUME NEW S \in SUBSET task.permitted, PartialKeyLess(S, Call.chosen)
        PROVE  PartialKeyLess(S, closest)
    BY <1>1, <1>2, <2>3, ClosenessOrder
  <2>. QED  BY <1>1, <2>1, <2>2, <2>3
<1>3. CASE ~ PartialKeyLess(Call.chosen, closest)
  <2>1. closest' = closest
    BY <1>3 DEF RememberClosest
  <2>. QED  BY <1>1, <1>3, <2>1
<1>. QED  BY <1>2, <1>3

LEMMA InitSearch == CoverInit => CoverInv
<1>. SUFFICES ASSUME CoverInit PROVE CoverInv
  OBVIOUS
<1>1. task \in Tasks /\ picked = {} /\ PickedIsCheap
  BY NothingPicked DEF CoverInit
<1>2. SearchInv
  BY DEF CoverInit, SearchInv
<1>3. CoverIsBest
  BY DEF CoverInit, CoverIsBest, NotReturned
<1>. QED  BY <1>1, <1>2, <1>3 DEF CoverInv

\* What the task alone decides stays as it is.
LEMMA SameTask ==
  ASSUME task' = task
  PROVE  /\ \A S : CostOf(S)' = CostOf(S) /\ CoveredBy(S)' = CoveredBy(S)
         /\ Calls' = Calls
         /\ Costs' = Costs /\ Coverings' = Coverings /\ Closer' = Closer
         /\ CheapPicks' = CheapPicks
<1>1. \A S : CostOf(S) = Total(task.cost, S)
  BY DEF CostOf, Total, MapThenSumSet, MapThenFoldSet
<1>2. \A S : CostOf(S)' = Total(task.cost', S)
  BY DEF CostOf, Total, MapThenSumSet, MapThenFoldSet
<1>3. \A S : CostOf(S)' = CostOf(S) /\ CoveredBy(S)' = CoveredBy(S)
  BY <1>1, <1>2 DEF CoveredBy
<1>4. Costs' = Costs
  BY <1>3 DEF Costs
<1>5. Coverings' = Coverings
  BY <1>3 DEF Coverings, IsComplete
<1>6. \A S, T : PartialKeyLess(S, T)' <=> PartialKeyLess(S, T)
  BY <1>3 DEF PartialKeyLess, CompleteKeyLess
<1>7. Closer' = Closer
  BY <1>6 DEF Closer
<1>8. CheapPicks' = CheapPicks
  BY <1>3, <1>5 DEF CheapPicks, ShareOf
<1>. QED  BY <1>3, <1>4, <1>5, <1>7, <1>8 DEF Calls

\* What a planner may return.
BestPlans ==
  { cover \in SUBSET task.permitted :
      LET n == Cardinality(task.required)
      IN  /\ cover \in Coverings <=> Coverings # {}
          /\ solver = "exact" /\ Coverings # {} => \A S \in Coverings : CostOf(cover) <= CostOf(S)
          /\ solver = "exact" /\ Coverings = {} =>
               \A S \in SUBSET task.permitted : <<S, cover>> \notin Closer
          /\ solver = "greedy" =>
               /\ CoveredBy(cover) = CoveredBy(task.permitted)
               /\ \A S \in Coverings :
                    CostOf(cover) * Factorial[n] <= CostOf(S) * HarmonicTimes(Factorial[n], n) }

LEMMA BestIsBest == plan.status = "returned" => (CoverIsBest <=> plan.chosen \in BestPlans)
<1>. SUFFICES ASSUME plan.status = "returned", NEW cover, cover = plan.chosen
              PROVE  CoverIsBest <=> cover \in BestPlans
  OBVIOUS
<1>1. cover \in SUBSET task.permitted => (IsComplete(cover) <=> cover \in Coverings)
  BY DEF Coverings
<1>2. cover \in SUBSET task.permitted =>
        \A S \in SUBSET task.permitted : PartialKeyLess(S, cover) <=> <<S, cover>> \in Closer
  BY DEF Closer
<1>. QED  BY <1>1, <1>2 DEF CoverIsBest, BestPlans

LEMMA BestIsBestNext ==
  (plan.status = "returned" => (CoverIsBest <=> plan.chosen \in BestPlans))'
BY BestIsBest, PTL

LEMMA SameBest ==
  ASSUME task' = task, solver' = solver
  PROVE  BestPlans' = BestPlans
BY SameTask DEF BestPlans

\* The invariant when a plan is returned, and while none is.
LEMMA StepReturned ==
  ASSUME task' = task, solver' = solver,
         plan' = NotReturned \/ plan'.status = "raised" \/ (plan'.status = "returned" /\ plan'.chosen \in BestPlans)
  PROVE  CoverIsBest'
<1>1. CASE plan'.status = "returned" /\ plan'.chosen \in BestPlans
  BY <1>1, SameBest, BestIsBestNext
<1>2. CASE plan' = NotReturned \/ plan'.status = "raised"
  BY <1>2 DEF CoverIsBest, NotReturned
<1>. QED  BY <1>1, <1>2

-----------------------------------------------------------------------------
(* The steps of the search.                                                *)

\* Once no call is pending for S the search is done with it.
Handled(S) == DoneWith(S) \/ \E i \in 1..Len(calls[1]) : Within(S, calls[1][i])

LEMMA CostOrder ==
  ASSUME task \in Tasks, NEW S \in SUBSET task.permitted
  PROVE  /\ Costs[S] = CostOf(S) /\ Costs[S] \in Nat
         /\ \A R \in SUBSET S : Costs[R] <= Costs[S] /\ R \in SUBSET task.permitted
         /\ \A R \in SUBSET S : R \in Coverings => S \in Coverings
         /\ IsComplete(S) <=> S \in Coverings
<1>1. S \in SUBSET Remediations
  BY TaskFacts
<1>2. Costs[S] = CostOf(S) /\ Costs[S] \in Nat
  BY KeyFacts DEF Costs
<1>3. ASSUME NEW R \in SUBSET S
      PROVE  /\ Costs[R] <= Costs[S] /\ R \in SUBSET task.permitted
             /\ R \in Coverings => S \in Coverings
  <2>1. R \in SUBSET task.permitted
    OBVIOUS
  <2>2. Costs[R] = CostOf(R) /\ CostOf(R) <= CostOf(S)
    BY <1>1, <2>1, CostFacts DEF Costs
  <2>3. CoveredBy(R) \subseteq CoveredBy(S) /\ CoveredBy(S) \subseteq task.required
    BY CoverFacts
  <2>. QED  BY <1>2, <2>1, <2>2, <2>3 DEF Coverings, IsComplete
<1>. QED  BY <1>2, <1>3 DEF Coverings

\* Without a complete plan, or with the same one, what is done stays done.
LEMMA DoneStays ==
  ASSUME task \in Tasks, SearchInv, InCall, RememberClosest,
         task' = task, cheapest' = cheapest,
         NEW S \in SUBSET task.permitted, DoneWith(S)
  PROVE  DoneWith(S)'
<1>1. Costs' = Costs /\ Coverings' = Coverings /\ Closer' = Closer
  BY SameTask
<1>2. closest \in SUBSET task.permitted /\ closest' \in SUBSET task.permitted
  BY RememberFacts DEF SearchInv
<1>3. <<S, closest>> \notin Closer => <<S, closest'>> \notin Closer
  BY <1>2, RememberFacts DEF Closer
<1>. QED  BY <1>1, <1>3 DEF DoneWith

LEMMA SearchKept ==
  ASSUME task' = task, calls' \in Seq(Seq(Calls)), Len(calls') <= 1,
         cheapest' \in Seq(SUBSET task.permitted),
         cheapest' # <<>> => cheapest'[1] \in Coverings,
         closest' \in SUBSET task.permitted,
         \A S \in SUBSET task.permitted :
           DoneWith(S)' \/ \E i \in 1..Len(calls'[1]) : Within(S, calls'[1][i])
  PROVE  SearchInv'
<1>1. Calls' = Calls /\ Coverings' = Coverings
  BY SameTask
<1>. QED  BY <1>1 DEF SearchInv, Within

LEMMA StartKeeps ==
  ASSUME CoverInv, StartCover
  PROVE  SearchInv'
<1>. DEFINE root == [chosen |-> {}, left |-> task.permitted]
<1>1. /\ task' = task /\ cheapest' = cheapest /\ closest' = closest
      /\ calls' = << << root >> >> /\ Calls' = Calls /\ Coverings' = Coverings
  BY SameTask DEF StartCover
<1>2. root \in Calls
  BY DEF Calls
<1>3. \A S \in SUBSET task.permitted : Within(S, root)
  BY DEF Within
<1>. HIDE DEF root
<1>4. calls' \in Seq(Seq(Calls)) /\ Len(calls') = 1 /\ calls'[1] = << root >>
  BY <1>1, <1>2
<1>5. \A S \in SUBSET task.permitted : \E i \in 1..Len(calls'[1]) : Within(S, calls'[1][i])
  BY <1>3, <1>4
<1>. QED  BY <1>1, <1>4, <1>5 DEF SearchInv, CoverInv, Within

LEMMA AcceptKeeps ==
  ASSUME CoverInv, AcceptCover
  PROVE  SearchInv'
<1>. DEFINE c == Call.chosen
            t == Tail(calls[1])
<1>1. /\ task \in Tasks /\ SearchInv /\ InCall /\ RememberClosest /\ task' = task
      /\ cheapest' = IF cheapest = <<>> \/ CompleteKeyLess(c, cheapest[1]) THEN << c >> ELSE cheapest
      /\ calls' = << t >> /\ plan' = plan
  BY DEF AcceptCover, CoverInv
<1>2. Calls' = Calls /\ Coverings' = Coverings /\ Costs' = Costs
  BY <1>1, SameTask
<1>3. /\ c \in SUBSET task.permitted /\ c \in Coverings
      /\ << t >> \in Seq(Seq(Calls)) /\ Len(<< t >>) = 1
  BY <1>1, CallFacts DEF Calls, AcceptCover, Coverings
<1>4. closest' \in SUBSET task.permitted
  BY <1>1, RememberFacts
<1>5. cheapest \in Seq(SUBSET task.permitted) /\ (cheapest # <<>> => cheapest[1] \in Coverings)
  BY <1>1 DEF SearchInv
<1>6. /\ cheapest' \in Seq(SUBSET task.permitted) /\ cheapest' # <<>>
      /\ cheapest'[1] \in Coverings /\ Costs[cheapest'[1]] <= Costs[c]
      /\ cheapest # <<>> => Costs[cheapest'[1]] <= Costs[cheapest[1]]
  <2>1. CASE cheapest = <<>> \/ CompleteKeyLess(c, cheapest[1])
    <3>1. cheapest' = << c >>
      BY <1>1, <2>1
    <3>2. cheapest # <<>> => Costs[c] <= Costs[cheapest[1]]
      <4>. SUFFICES ASSUME cheapest # <<>> PROVE Costs[c] <= Costs[cheapest[1]]
        OBVIOUS
      <4>1. cheapest[1] \in SUBSET task.permitted
        BY <1>5 DEF Coverings
      <4>2. /\ Costs[c] = CostOf(c) /\ Costs[c] \in Nat
            /\ Costs[cheapest[1]] = CostOf(cheapest[1]) /\ Costs[cheapest[1]] \in Nat
        BY <1>1, <1>3, <4>1, CostOrder
      <4>3. CompleteKeyLess(c, cheapest[1])
        BY <2>1
      <4>. QED  BY <4>2, <4>3 DEF CompleteKeyLess
    <3>3. Costs[c] \in Nat
      BY <1>1, <1>3, CostOrder
    <3>. HIDE DEF c
    <3>4. cheapest' \in Seq(SUBSET task.permitted) /\ cheapest' # <<>> /\ cheapest'[1] = c
      <4>. DEFINE sets == SUBSET task.permitted
      <4>1. c \in sets
        BY <1>3
      <4>. HIDE DEF sets
      <4>2. << c >> \in Seq(sets) /\ << c >> # <<>> /\ << c >>[1] = c
        BY <4>1
      <4>. QED  BY <3>1, <4>2 DEF sets
    <3>. QED  BY <1>3, <3>2, <3>3, <3>4
  <2>2. CASE cheapest # <<>> /\ ~ CompleteKeyLess(c, cheapest[1])
    <3>1. cheapest' = cheapest
      BY <1>1, <2>2
    <3>2. cheapest[1] \in SUBSET task.permitted
      BY <1>5, <2>2 DEF Coverings
    <3>3. /\ Costs[c] = CostOf(c) /\ Costs[c] \in Nat
          /\ Costs[cheapest[1]] = CostOf(cheapest[1]) /\ Costs[cheapest[1]] \in Nat
      BY <1>1, <1>3, <3>2, CostOrder
    <3>4. Costs[cheapest[1]] <= Costs[c]
      BY <2>2, <3>3 DEF CompleteKeyLess
    <3>. QED  BY <1>5, <2>2, <3>1, <3>3, <3>4
  <2>. QED  BY <2>1, <2>2
<1>7. ASSUME NEW S \in SUBSET task.permitted, S \in Coverings,
             \/ DoneWith(S)
             \/ Within(S, Call)
      PROVE  Costs[cheapest'[1]] <= Costs[S]
  <2>1. cheapest'[1] \in SUBSET task.permitted
    BY <1>6 DEF Coverings
  <2>2. Costs[S] \in Nat /\ Costs[cheapest'[1]] \in Nat /\ Costs[c] \in Nat
    BY <1>1, <1>3, <2>1, CostOrder
  <2>3. CASE DoneWith(S)
    <3>1. cheapest # <<>> /\ Costs[cheapest[1]] <= Costs[S]
      BY <1>7, <2>3 DEF DoneWith
    <3>2. cheapest[1] \in SUBSET task.permitted
      BY <1>5, <3>1 DEF Coverings
    <3>3. Costs[cheapest[1]] \in Nat
      BY <1>1, <3>2, CostOrder
    <3>. QED  BY <1>6, <2>2, <3>1, <3>3
  <2>4. CASE Within(S, Call)
    <3>1. c \in SUBSET S
      BY <2>4 DEF Within
    <3>2. Costs[c] <= Costs[S]
      BY <1>1, <3>1, CostOrder
    <3>. QED  BY <1>6, <2>2, <3>2
  <2>. QED  BY <1>7, <2>3, <2>4
<1>8. ASSUME NEW S \in SUBSET task.permitted
      PROVE  DoneWith(S)' \/ \E i \in 1..Len(t) : Within(S, t[i])
  <2>1. DoneWith(S) \/ Within(S, Call) \/ \E i \in 1..Len(t) : Within(S, t[i])
    BY <1>1, PopDone
  <2>2. DoneWith(S) \/ Within(S, Call) => DoneWith(S)'
    BY <1>2, <1>6, <1>7 DEF DoneWith
  <2>. QED  BY <2>1, <2>2
<1>9. calls' = << t >> /\ calls'[1] = t
  BY <1>1
<1>. HIDE DEF c, t
<1>10. \A S \in SUBSET task.permitted : DoneWith(S)' \/ \E i \in 1..Len(calls'[1]) : Within(S, calls'[1][i])
  BY <1>8, <1>9
<1>11. calls' \in Seq(Seq(Calls)) /\ Len(calls') <= 1
  BY <1>3, <1>9
<1>. QED  BY <1>1, <1>4, <1>6, <1>10, <1>11, SearchKept

LEMMA DropKeeps ==
  ASSUME CoverInv, DropCall
  PROVE  SearchInv'
<1>. DEFINE c == Call.chosen
            t == Tail(calls[1])
<1>1. /\ task \in Tasks /\ SearchInv /\ InCall /\ RememberClosest /\ task' = task
      /\ cheapest' = cheapest /\ calls' = << t >> /\ plan' = plan
      /\ ~ IsComplete(c) /\ (Call.left = {} \/ CutOff)
  BY DEF DropCall, CoverInv
<1>2. Calls' = Calls /\ Coverings' = Coverings /\ Costs' = Costs /\ Closer' = Closer
  BY <1>1, SameTask
<1>3. /\ c \in SUBSET task.permitted /\ Call.left \in SUBSET task.permitted
      /\ << t >> \in Seq(Seq(Calls)) /\ Len(<< t >>) = 1
  BY <1>1, CallFacts DEF Calls
<1>4. closest' \in SUBSET task.permitted /\ ~ PartialKeyLess(c, closest')
  BY <1>1, RememberFacts
<1>5. cheapest \in Seq(SUBSET task.permitted) /\ (cheapest # <<>> => cheapest[1] \in Coverings)
  BY <1>1 DEF SearchInv
<1>6. ASSUME NEW S \in SUBSET task.permitted, Within(S, Call)
      PROVE  DoneWith(S)'
  <2>1. CASE Call.left = {}
    <3>1. S = c
      BY <1>6, <2>1 DEF Within
    <3>2. S \notin Coverings
      BY <1>1, <3>1 DEF Coverings
    <3>3. <<S, closest'>> \notin Closer
      BY <1>4, <3>1 DEF Closer
    <3>. QED  BY <1>2, <3>2, <3>3 DEF DoneWith
  <2>2. CASE CutOff
    <3>1. cheapest # <<>> /\ cheapest[1] \in SUBSET task.permitted
      BY <1>5, <2>2 DEF CutOff, Coverings
    <3>2. CASE CostOf(c) >= CostOf(cheapest[1])
      <4>1. c \in SUBSET S
        BY <1>6 DEF Within
      <4>2. /\ Costs[c] = CostOf(c) /\ Costs[cheapest[1]] = CostOf(cheapest[1])
            /\ Costs[c] \in Nat /\ Costs[cheapest[1]] \in Nat /\ Costs[S] \in Nat
            /\ Costs[c] <= Costs[S]
        BY <1>1, <1>3, <3>1, <4>1, CostOrder
      <4>3. Costs[cheapest[1]] <= Costs[S]
        BY <3>2, <4>2
      <4>. QED  BY <1>1, <1>2, <3>1, <4>3 DEF DoneWith
    <3>3. CASE ~ IsComplete(c \union Call.left)
      <4>. DEFINE all == c \union Call.left
      <4>1. all \in SUBSET task.permitted /\ S \in SUBSET all
        BY <1>3, <1>6 DEF Within
      <4>2. all \notin Coverings
        BY <3>3 DEF Coverings
      <4>. HIDE DEF all
      <4>3. S \notin Coverings
        BY <1>1, <4>1, <4>2, CostOrder
      <4>. QED  BY <1>1, <1>2, <3>1, <4>3 DEF DoneWith
    <3>. QED  BY <2>2, <3>2, <3>3 DEF CutOff
  <2>. QED  BY <1>1, <2>1, <2>2
<1>7. ASSUME NEW S \in SUBSET task.permitted
      PROVE  DoneWith(S)' \/ \E i \in 1..Len(t) : Within(S, t[i])
  <2>1. DoneWith(S) \/ Within(S, Call) \/ \E i \in 1..Len(t) : Within(S, t[i])
    BY <1>1, PopDone
  <2>2. DoneWith(S) => DoneWith(S)'
    BY <1>1, DoneStays
  <2>. QED  BY <1>6, <2>1, <2>2
<1>8. calls' = << t >> /\ calls'[1] = t
  BY <1>1
<1>. HIDE DEF c, t
<1>9. \A S \in SUBSET task.permitted : DoneWith(S)' \/ \E i \in 1..Len(calls'[1]) : Within(S, calls'[1][i])
  BY <1>7, <1>8
<1>. QED  BY <1>1, <1>2, <1>3, <1>4, <1>5, <1>8, <1>9 DEF SearchInv, Within

LEMMA BranchKeeps ==
  ASSUME CoverInv, NEW a, BranchOn(a)
  PROVE  SearchInv'
<1>. DEFINE c == Call.chosen
            t == Tail(calls[1])
            f == [chosen |-> Call.chosen \union {a}, left |-> Call.left \ {a}]
            g == [chosen |-> Call.chosen, left |-> Call.left \ {a}]
<1>1. /\ task \in Tasks /\ SearchInv /\ InCall /\ RememberClosest /\ task' = task
      /\ cheapest' = cheapest /\ calls' = << << f, g >> \o t >> /\ plan' = plan
      /\ Call.left # {} /\ a = Min(Call.left)
  BY DEF BranchOn, CoverInv
<1>2. Calls' = Calls /\ Coverings' = Coverings
  BY <1>1, SameTask
<1>3. Call \in Calls /\ t \in Seq(Calls)
  BY <1>1, CallFacts
<1>4. a \in Call.left
  <2>1. Call.left \in SUBSET Nat /\ Call.left # {}
    BY <1>1, <1>3, TaskFacts DEF Calls
  <2>2. \E m \in Call.left : \A n \in Call.left : m <= n
    BY <2>1, LeastNat
  <2>. QED  BY <1>1, <2>2 DEF Min
<1>5. f \in Calls /\ g \in Calls
  BY <1>3, <1>4 DEF Calls
<1>6. ASSUME NEW S, Within(S, Call) PROVE Within(S, f) \/ Within(S, g)
  <2>1. CASE a \in S
    BY <1>6, <2>1 DEF Within
  <2>2. CASE a \notin S
    BY <1>6, <2>2 DEF Within
  <2>. QED  BY <2>1, <2>2
<1>7. closest' \in SUBSET task.permitted
  BY <1>1, RememberFacts
<1>8. cheapest \in Seq(SUBSET task.permitted) /\ (cheapest # <<>> => cheapest[1] \in Coverings)
  BY <1>1 DEF SearchInv
<1>9. ASSUME NEW S \in SUBSET task.permitted
      PROVE  DoneWith(S)' \/ Within(S, f) \/ Within(S, g) \/ \E i \in 1..Len(t) : Within(S, t[i])
  <2>1. DoneWith(S) \/ Within(S, Call) \/ \E i \in 1..Len(t) : Within(S, t[i])
    BY <1>1, PopDone
  <2>2. DoneWith(S) => DoneWith(S)'
    BY <1>1, DoneStays
  <2>. QED  BY <1>6, <2>1, <2>2
<1>. DEFINE w == << f, g >> \o t
<1>10. calls' = << w >> /\ calls'[1] = w
  BY <1>1
<1>. HIDE DEF c, t, f, g
<1>11. /\ w \in Seq(Calls)
       /\ \A j \in 1..Len(t) : j + 2 \in 1..Len(w) /\ w[j + 2] = t[j]
       /\ \E k \in 1..Len(w) : w[k] = f
       /\ \E k \in 1..Len(w) : w[k] = g
  BY <1>3, <1>5, PushCases
<1>. HIDE DEF w
<1>12. ASSUME NEW S \in SUBSET task.permitted
       PROVE  DoneWith(S)' \/ \E k \in 1..Len(w) : Within(S, w[k])
  BY <1>9, <1>11
<1>13. calls' \in Seq(Seq(Calls)) /\ Len(calls') = 1
  BY <1>10, <1>11
<1>14. \A S \in SUBSET task.permitted : DoneWith(S)' \/ \E i \in 1..Len(calls'[1]) : Within(S, calls'[1][i])
  BY <1>10, <1>12
<1>15. /\ task' = task /\ Len(calls') <= 1
       /\ cheapest' \in Seq(SUBSET task.permitted)
       /\ cheapest' # <<>> => cheapest'[1] \in Coverings
  BY <1>1, <1>8, <1>13
<1>. QED  BY ONLY <1>7, <1>13, <1>14, <1>15, SearchKept

\* When no call is pending the search has found a best plan.
LEMMA SearchIsBest ==
  ASSUME task \in Tasks, SearchInv, solver = "exact", plan = NotReturned, calls = << <<>> >>,
         NEW cover, cover = IF cheapest # <<>> THEN cheapest[1] ELSE closest
  PROVE  cover \in BestPlans
<1>1. \A S \in SUBSET task.permitted : DoneWith(S)
  BY DEF SearchInv
<1>2. /\ closest \in SUBSET task.permitted
      /\ cheapest # <<>> => cheapest[1] \in Coverings
  BY DEF SearchInv
<1>3. CASE cheapest # <<>>
  <2>1. cover \in Coverings /\ cover \in SUBSET task.permitted
    BY <1>2, <1>3 DEF Coverings
  <2>2. ASSUME NEW S \in Coverings PROVE CostOf(cover) <= CostOf(S)
    <3>1. S \in SUBSET task.permitted
      BY DEF Coverings
    <3>2. Costs[cover] <= Costs[S]
      BY <1>1, <1>3, <3>1 DEF DoneWith
    <3>. QED  BY <2>1, <3>1, <3>2, CostOrder
  <2>. QED  BY <2>1, <2>2 DEF BestPlans
<1>4. CASE cheapest = <<>>
  <2>1. \A S \in SUBSET task.permitted : S \notin Coverings /\ <<S, cover>> \notin Closer
    BY <1>1, <1>4 DEF DoneWith
  <2>2. Coverings = {}
    BY <2>1 DEF Coverings
  <2>. QED  BY <1>2, <1>4, <2>1, <2>2 DEF BestPlans
<1>. QED  BY <1>3, <1>4

\* Nothing required is covered by nothing.
LEMMA NothingIsBest ==
  ASSUME task \in Tasks, solver = "exact", task.required = {}
  PROVE  {} \in BestPlans
<1>1. {} \in Coverings
  BY CoverFacts DEF Coverings, IsComplete
<1>2. ASSUME NEW S \in Coverings PROVE CostOf({}) <= CostOf(S)
  <2>1. S \in SUBSET Remediations
    BY TaskFacts DEF Coverings
  <2>. QED  BY <2>1, CostFacts
<1>. QED  BY <1>1, <1>2 DEF BestPlans

LEMMA StepCover == CoverInv /\ [CoverNext]_coverVars => CoverInv'
<1>. SUFFICES ASSUME CoverInv, [CoverNext]_coverVars PROVE CoverInv'
  OBVIOUS
<1>0. task \in Tasks /\ PickedIsCheap /\ SearchInv /\ CoverIsBest
  BY DEF CoverInv
<1>1. task' = task /\ solver' = solver
  BY DEF CoverNext, coverVars, ReturnAtOnce, StartCover, AcceptCover, DropCall, BranchOn, Pick,
         ReturnCover, ReturnGreedy
<1>2. CheapPicks' = CheapPicks /\ Calls' = Calls /\ Coverings' = Coverings
      /\ Costs' = Costs /\ Closer' = Closer
  BY <1>1, SameTask
<1>3. ASSUME picked' = picked PROVE PickedIsCheap'
  BY <1>0, <1>2, <1>3 DEF PickedIsCheap
<1>4. ASSUME calls' = calls, cheapest' = cheapest, closest' = closest,
             plan = NotReturned \/ plan' = plan
      PROVE  SearchInv'
  <2>1. plan' = NotReturned => plan = NotReturned
    BY <1>4
  <2>2. \A S : DoneWith(S)' <=> DoneWith(S)
    BY <1>2, <1>4 DEF DoneWith
  <2>. QED  BY <1>0, <1>1, <1>2, <1>4, <2>1, <2>2 DEF SearchInv, Within
<1>5. CASE ReturnAtOnce
  <2>1. /\ picked' = picked /\ calls' = calls /\ cheapest' = cheapest /\ closest' = closest
        /\ plan = NotReturned /\ solver = "exact"
    BY <1>5 DEF ReturnAtOnce, Planning
  <2>2. plan'.status = "raised" \/ (plan'.status = "returned" /\ plan'.chosen \in BestPlans)
    <3>1. CASE Cardinality(task.permitted) > MaxExact /\ plan' = [status |-> "raised", chosen |-> {}]
      BY <3>1
    <3>2. CASE task.required = {} /\ plan' = Returned({})
      BY <1>0, <2>1, <3>2, NothingIsBest DEF Returned
    <3>. QED  BY <1>5, <3>1, <3>2 DEF ReturnAtOnce
  <2>3. CoverIsBest'
    BY <1>1, <2>2, StepReturned
  <2>. QED  BY <1>0, <1>1, <1>3, <1>4, <2>1, <2>3 DEF CoverInv
<1>6. ASSUME picked' = picked, SearchInv', plan' = NotReturned PROVE CoverInv'
  <2>1. CoverIsBest'
    BY <1>1, <1>6, StepReturned
  <2>. QED  BY <1>0, <1>1, <1>3, <1>6, <2>1 DEF CoverInv
<1>7. CASE StartCover
  BY <1>6, <1>7, StartKeeps DEF StartCover, Planning
<1>8. CASE AcceptCover
  BY <1>6, <1>8, AcceptKeeps DEF AcceptCover, InCall, Planning
<1>9. CASE DropCall
  BY <1>6, <1>9, DropKeeps DEF DropCall, InCall, Planning
<1>10. ASSUME NEW a \in Remediations, BranchOn(a) PROVE CoverInv'
  BY <1>6, <1>10, BranchKeeps DEF BranchOn, InCall, Planning
<1>11. ASSUME NEW a \in Remediations, Pick(a) PROVE CoverInv'
  <2>1. /\ plan = NotReturned /\ plan' = plan /\ picked' = picked \union {a}
        /\ a \in UsefulActions /\ \A b \in UsefulActions \ {a} : CheaperPerArtifact(a, b)
        /\ calls' = calls /\ cheapest' = cheapest /\ closest' = closest
    BY <1>11 DEF Pick, Planning
  <2>2. PickedIsCheap'
    <3>1. picked' \in CheapPicks
      BY <1>0, <2>1, PickStaysCheap
    <3>. QED  BY <1>2, <3>1 DEF PickedIsCheap
  <2>3. CoverIsBest'
    BY <1>1, <2>1, StepReturned
  <2>. QED  BY <1>0, <1>1, <1>4, <2>1, <2>2, <2>3 DEF CoverInv
<1>12. CASE ReturnCover
  <2>. DEFINE cover == IF cheapest # <<>> THEN cheapest[1] ELSE closest
  <2>1. /\ picked' = picked /\ calls' = calls /\ cheapest' = cheapest /\ closest' = closest
        /\ plan = NotReturned /\ solver = "exact" /\ calls = << <<>> >> /\ plan' = Returned(cover)
    BY <1>12 DEF ReturnCover, Planning
  <2>2. cover \in BestPlans
    BY <1>0, <2>1, SearchIsBest
  <2>3. CoverIsBest'
    <3>. HIDE DEF cover
    <3>1. plan'.status = "returned" /\ plan'.chosen \in BestPlans
      BY <2>1, <2>2 DEF Returned
    <3>. QED  BY <1>1, <3>1, StepReturned
  <2>. QED  BY <1>0, <1>1, <1>3, <1>4, <2>1, <2>3 DEF CoverInv
<1>13. CASE ReturnGreedy
  <2>1. /\ picked' = picked /\ calls' = calls /\ cheapest' = cheapest /\ closest' = closest
        /\ plan = NotReturned /\ solver = "greedy" /\ UsefulActions = {} /\ plan' = Returned(picked)
    BY <1>13 DEF ReturnGreedy, Planning
  <2>2. picked \in SUBSET task.permitted
    BY <1>0 DEF PickedIsCheap, CheapPicks
  <2>3. picked \in BestPlans
    <3>1. IsComplete(picked) <=> picked \in Coverings
      BY <2>2 DEF Coverings
    <3>. QED  BY <1>0, <2>1, <2>2, <3>1, GreedyIsBest DEF BestPlans
  <2>4. CoverIsBest'
    <3>1. plan'.status = "returned" /\ plan'.chosen \in BestPlans
      BY <2>1, <2>3 DEF Returned
    <3>. QED  BY <1>1, <3>1, StepReturned
  <2>. QED  BY <1>0, <1>1, <1>3, <1>4, <2>1, <2>4 DEF CoverInv
<1>14. CASE UNCHANGED coverVars
  <2>1. /\ picked' = picked /\ calls' = calls /\ cheapest' = cheapest /\ closest' = closest
        /\ plan' = plan
    BY <1>14 DEF coverVars
  <2>2. plan.status = "returned" => plan.chosen \in BestPlans
    BY <1>0, BestIsBest
  <2>3. CoverIsBest'
    <3>1. CASE plan.status = "returned"
      BY <1>1, <2>1, <2>2, <3>1, StepReturned
    <3>2. CASE plan.status # "returned"
      BY <2>1, <3>2 DEF CoverIsBest
    <3>. QED  BY <3>1, <3>2
  <2>. QED  BY <1>0, <1>1, <1>3, <1>4, <2>1, <2>3 DEF CoverInv
<1>. QED  BY <1>5, <1>7, <1>8, <1>9, <1>10, <1>11, <1>12, <1>13, <1>14 DEF CoverNext

-----------------------------------------------------------------------------
(* The theorems.                                                           *)

\* A request is planned, or a cover; the one leaves the other alone.
PlansInv ==
  \/ task = NoTask /\ ErasureInv /\ plan = NotReturned
  \/ /\ task # NoTask /\ CoverInv
     /\ outcome.status = "NONE" /\ phase = "run" /\ todo = <<>>

LEMMA InitPlans == PlansInit => PlansInv
<1>1. ASSUME Idle, CoverInit PROVE PlansInv
  <2>1. task \in Task
    BY <1>1, TasksAssumption DEF CoverInit
  <2>2. "permitted" \in DOMAIN task /\ "permitted" \notin DOMAIN NoTask
    BY <2>1 DEF Task, NoTask
  <2>3. CoverInv
    BY <1>1, InitSearch
  <2>. QED  BY <1>1, <2>2, <2>3 DEF Idle, NotStarted, Greedy!NotStarted, PlansInv
<1>. QED  BY <1>1, InitErasureInv DEF PlansInit, PlansInv

LEMMA StepPlans == PlansInv /\ [PlansNext]_<<erasureVars, coverVars>> => PlansInv'
<1>. SUFFICES ASSUME PlansInv, [PlansNext]_<<erasureVars, coverVars>> PROVE PlansInv'
  OBVIOUS
<1>1. task' = task
  BY DEF PlansNext, coverVars, CoverNext, ReturnAtOnce, StartCover, AcceptCover, DropCall,
         BranchOn, Pick, ReturnCover, ReturnGreedy
<1>2. CASE task = NoTask
  <2>1. [NextErasure]_erasureVars
    BY <1>2 DEF PlansNext
  <2>2. ErasureInv /\ plan' = plan /\ plan = NotReturned
    BY <1>2 DEF PlansInv, PlansNext, coverVars, NoTask, CoverInv
  <2>. QED  BY <1>1, <1>2, <2>1, <2>2, StepErasure DEF PlansInv
<1>3. CASE task # NoTask
  <2>1. UNCHANGED erasureVars
    BY <1>3 DEF PlansNext
  <2>2. [CoverNext]_coverVars /\ CoverInv
    BY <1>3 DEF PlansNext, PlansInv
  <2>3. CoverInv'
    BY <2>2, StepCover
  <2>4. outcome' = outcome /\ phase' = phase /\ todo' = todo
    BY <2>1 DEF erasureVars, cutVars, exactVars, greedyVars
  <2>. QED  BY <1>1, <1>3, <2>3, <2>4 DEF PlansInv, NoTask
<1>. QED  BY <1>2, <1>3

LEMMA PlansInvariant == PlansSpec => []PlansInv
BY InitPlans, StepPlans, PTL DEF PlansSpec

\* For every set of actions, costs and evaluation, monotone or not, exact_cdc
\* returns what brute_force_cdc would: the first complete plan, or, if there is
\* none, the one with the fewest violations (cdc.py).  For every audit, actions
\* and costs, exact_plan returns a plan as cheap as any that covers all, or as
\* close as any; greedy_plan one that covers all that can be covered, at most
\* the harmonic factor dearer (planning.py).
THEOREM PlansAreAlwaysBest == PlansSpec => []PlansAreBest
<1>1. PlansInv => CutIsBruteForce
  BY DEF PlansInv, ErasureInv, PlannerInv, CutInv, CutIsBruteForce
<1>2. PlansInv => CoverIsBest
  BY DEF PlansInv, CoverInv, CoverIsBest, NotReturned
<1>3. PlansInv => PlansAreBest
  BY <1>1, <1>2 DEF PlansAreBest
<1>. QED  BY <1>3, PlansInvariant, PTL

\* For every graph, request and plan, exact or greedy: once a plan that verified
\* as COMPLETE was carried out, data that was then with the subject or a source
\* never gets to a sink, however UNKNOWN and unverified things turned out and
\* whatever flowed while the actions were done (evaluate_actions).
THEOREM ErasedDataAlwaysStaysOut == PlansSpec => []ErasedDataStaysOut
<1>1. PlansInv => ErasedDataStaysOut
  BY DoneIsSafe DEF PlansInv, ErasedDataStaysOut, Done
<1>. QED  BY <1>1, PlansInvariant, PTL

\* When exact_cdc refuses a request, then after every permitted set of actions
\* the channels do not pass or the system may be such that data gets to a sink.
THEOREM RefusalsAlwaysHaveAReason == PlansSpec => []RefusalHasAReason
<1>1. PlansInv => RefusalHasAReason
  BY RefusalsAreRight DEF PlansInv, RefusalHasAReason
<1>. QED  BY <1>1, PlansInvariant, PTL

\* When actions only close, and siblings together, greedy_cdc finds a complete
\* plan whenever there is one, for every graph, cost and order of ids.
THEOREM GreedyAlwaysFindsACut == PlansSpec => []GreedyFindsACut
<1>1. PlansInv => GreedyFindsACut
  <2>1. ASSUME ErasureInv, request = NoRequest PROVE GreedyFindsACut
    BY <2>1 DEF ErasureInv, PlannerInv, GreedyFindsACut
  <2>. QED  BY <2>1, GreedyIsRight DEF PlansInv, GreedyFindsACut
<1>. QED  BY <1>1, PlansInvariant, PTL
=============================================================================
