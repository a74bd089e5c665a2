-------------------- MODULE StabilizationAndTofu_proofs --------------------
(***************************************************************************)
(* Proofs about the exact cut and the world it is installed in, and about  *)
(* the TOFU campaigns.                                                     *)
(*                                                                         *)
(* The branch and bound: whatever the controls, their costs and the        *)
(* evaluation, the plan it returns is minimal in (cost, count, ids) and    *)
(* INFEASIBLE is never wrong.                                              *)
(*                                                                         *)
(* An installed plan holds, whatever the envelope.  The cut only returns   *)
(* sets of controls whose guards verify in every topology.  Where they     *)
(* verify, coverage is complete, so that what runs is registered, and some *)
(* set of clean states has the snapshot and is closed under what is        *)
(* registered and not guarded; the real topology never leaves that set.    *)
(*                                                                         *)
(* The TOFU campaigns, however many processes share a directory and        *)
(* whatever is edited, fails or is killed: whoever makes the directory     *)
(* writes all its files, and what a file says agrees with what its writer  *)
(* read and measured, its authors included unless an edit fell into one of *)
(* two windows.  Hence what the verifiers accept is due.  The selection by *)
(* scanning paths is the robust one.                                       *)
(***************************************************************************)
EXTENDS StabilizedWorld, TofuCampaign, DataInduction, SequenceTheorems

-----------------------------------------------------------------------------
(* The invariant of the cut.  Most of it needs of a problem only that the  *)
(* costs of sets add up, and so holds too for the problems that stem from  *)
(* envelopes.                                                              *)

Priced(p) ==
  /\ p \in Problem
  /\ p.total[{}] = 0
  /\ \A c \in Controls : p.total[{c}] = p.cost[c]
  /\ \A A, B \in SUBSET Controls :
       A \intersect B = {} => p.total[A \union B] = p.total[A] + p.total[B]

Typed ==
  /\ Priced(problem)
  /\ pc \in {"check", "search", "returned"}
  /\ stack \in Seq(Frame)
  /\ best \in Seq(Plan)
  /\ outcome \in [status : Statuses, plan : Plan]

\* UNVERIFIED says that coverage is incomplete.
UnverifiedIsReal == outcome.status = "UNVERIFIED" => ~ problem.coverageComplete

CutInv ==
  /\ Typed
  /\ StackOK
  /\ BestOK
  /\ NothingLost
  /\ Undecided
  /\ PlanIsOptimal
  /\ InfeasibleIsReal
  /\ UnverifiedIsReal

-----------------------------------------------------------------------------
(* The order on keys.                                                      *)

\* A set of controls is finite; a subset is no larger, and as large only if it
\* is the whole set.
LEMMA ControlSets ==
  ASSUME NEW S \in SUBSET Controls
  PROVE  /\ IsFiniteSet(S)
         /\ Cardinality(S) \in Nat
         /\ \A R \in SUBSET S : /\ Cardinality(R) \in Nat
                                /\ Cardinality(R) <= Cardinality(S)
                                /\ Cardinality(R) = Cardinality(S) => R = S
<1>1. IsFiniteSet(S)
  BY ControlsAssumption, FS_Subset
<1>. QED  BY <1>1, FS_Subset, FS_CardinalityType

\* The order on keys is transitive.
LEMMA KeyTransitive ==
  ASSUME NEW a \in Plan, NEW b \in Plan, NEW c \in Plan,
         KeyLess(a, b), KeyLess(b, c)
  PROVE  KeyLess(a, c)
<1>1. /\ Cardinality(a.chosen) \in Nat /\ a.cost \in Nat
      /\ Cardinality(b.chosen) \in Nat /\ b.cost \in Nat
      /\ Cardinality(c.chosen) \in Nat /\ c.cost \in Nat
  BY ControlSets DEF Plan
<1>2. LexLess(a.chosen, b.chosen) /\ LexLess(b.chosen, c.chosen)
        => LexLess(a.chosen, c.chosen)
  <2>1. a.chosen \in SUBSET Nat /\ b.chosen \in SUBSET Nat /\ c.chosen \in SUBSET Nat
    BY ControlsAssumption DEF Plan
  <2>. QED  BY <2>1, LexTransitive DEF LexLess
<1>. QED  BY <1>1, <1>2 DEF KeyLess

\* The cost of a set bounds the cost of its subsets.
LEMMA TotalMonotone ==
  ASSUME NEW p, Priced(p), NEW S \in SUBSET Controls, NEW R \in SUBSET S
  PROVE  /\ p.total[S] \in Nat /\ p.total[R] \in Nat
         /\ p.total[R] <= p.total[S]
<1>1. p.total \in [SUBSET Controls -> Nat]
  BY DEF Priced, Problem
<1>. DEFINE D == S \ R
<1>2. R \in SUBSET Controls /\ D \in SUBSET Controls /\ R \intersect D = {}
      /\ R \union D = S
  OBVIOUS
<1>. HIDE DEF D
<1>3. p.total[R \union D] = p.total[R] + p.total[D]
  BY <1>2 DEF Priced
<1>4. p.total[R] \in Nat /\ p.total[D] \in Nat /\ p.total[S] \in Nat
  BY <1>1, <1>2
<1>5. p.total[S] = p.total[R] + p.total[D]
  BY <1>2, <1>3
<1>. QED  BY <1>4, <1>5

\* A set that extends a pending call costs at least as much and has at least
\* as many controls; it has as many only if it is the set chosen so far.
LEMMA ExtensionIsLarger ==
  ASSUME Typed, NEW f \in Frame, FrameOK(f),
         NEW S \in SUBSET problem.permitted, Extends(S, f)
  PROVE  /\ PlanOf(S) \in Plan
         /\ f.cost \in Nat /\ f.cost <= PlanOf(S).cost
         /\ Cardinality(f.chosen) \in Nat
         /\ Cardinality(f.chosen) <= Cardinality(S)
         /\ Cardinality(f.chosen) = Cardinality(S) => S = f.chosen
<1>1. /\ Priced(problem) /\ S \in SUBSET Controls
      /\ f.chosen \in SUBSET S
  BY DEF Priced, Typed, Problem, Extends
<1>2. /\ problem.total[S] \in Nat /\ problem.total[f.chosen] \in Nat
      /\ problem.total[f.chosen] <= problem.total[S]
  BY <1>1, TotalMonotone
<1>3. /\ Cardinality(f.chosen) \in Nat
      /\ Cardinality(f.chosen) <= Cardinality(S)
      /\ Cardinality(f.chosen) = Cardinality(S) => S = f.chosen
  BY <1>1, ControlSets
<1>. QED  BY <1>1, <1>2, <1>3 DEF PlanOf, Plan, FrameOK

\* The bound is sound: no extension of a bounded call beats the best plan.
LEMMA BoundIsSound ==
  ASSUME Typed, best # <<>>, NEW f \in Frame, FrameOK(f), Bounded(f),
         NEW S \in SUBSET problem.permitted, Extends(S, f)
  PROVE  ~ KeyLess(PlanOf(S), best[1])
<1>1. best[1] \in Plan
  BY DEF Typed
<1>2. best[1].cost \in Nat /\ Cardinality(best[1].chosen) \in Nat
  BY <1>1, ControlSets DEF Plan
<1>3. PlanOf(S).chosen = S /\ PlanOf(S).cost \in Nat /\ Cardinality(S) \in Nat
  BY ExtensionIsLarger, ControlSets DEF PlanOf, Plan
<1>. QED  BY <1>2, <1>3, ExtensionIsLarger DEF Bounded, KeyLess

\* Stopping at a call that verifies is sound: its own plan is the best of its
\* extensions.
LEMMA AcceptIsSound ==
  ASSUME Typed, NEW f \in Frame, FrameOK(f),
         NEW S \in SUBSET problem.permitted, Extends(S, f)
  PROVE  LET plan == [chosen |-> f.chosen, cost |-> f.cost]
         IN  /\ ~ KeyLess(PlanOf(S), plan)
             /\ PlanOf(S) = plan \/ KeyLess(plan, PlanOf(S))
<1>1. PlanOf(S).chosen = S /\ PlanOf(S).cost \in Nat /\ Cardinality(S) \in Nat
  BY ExtensionIsLarger, ControlSets DEF PlanOf, Plan
<1>2. ~ LexLess(f.chosen, f.chosen)
  BY DEF LexLess
<1>3. S = f.chosen => PlanOf(S) = [chosen |-> f.chosen, cost |-> f.cost]
  BY DEF PlanOf, FrameOK
<1>. QED  BY <1>1, <1>2, <1>3, ExtensionIsLarger DEF KeyLess

-----------------------------------------------------------------------------
(* The stack.                                                              *)

\* The recursive calls of a call: they are well formed, and a set of controls
\* that extends the call extends one of them.
LEMMA BranchCases ==
  ASSUME Typed, NEW f \in Frame, FrameOK(f), NEW c \in f.undecided
  PROVE  /\ With(f, c) \in Frame /\ FrameOK(With(f, c))
         /\ Without(f, c) \in Frame /\ FrameOK(Without(f, c))
         /\ \A S : Extends(S, f) => Extends(S, With(f, c)) \/ Extends(S, Without(f, c))
<1>. DEFINE g == With(f, c)
<1>0. Priced(problem) /\ problem \in Problem /\ f.undecided \subseteq Controls
  BY DEF Priced, Typed, Frame
<1>1. /\ Priced(problem) /\ problem \in Problem
      /\ c \in Controls /\ c \in problem.permitted /\ c \notin f.chosen
      /\ f.chosen \in SUBSET Controls /\ {c} \in SUBSET Controls
  BY <1>0 DEF FrameOK, Frame
<1>2. problem.guards[c] \in SUBSET TransitionIds /\ problem.cost[c] \in Nat
  BY <1>1 DEF Problem
<1>3. problem.total[f.chosen \union {c}] = f.cost + problem.cost[c]
  <2>1. f.chosen \intersect {c} = {}
    BY <1>1
  <2>2. problem.total[f.chosen \union {c}]
          = problem.total[f.chosen] + problem.total[{c}]
    BY <1>1, <2>1 DEF Priced
  <2>3. problem.total[{c}] = problem.cost[c]
    BY <1>1 DEF Priced
  <2>. QED  BY <2>2, <2>3 DEF FrameOK
<1>4. GuardsOf(f.chosen \union {c}) = f.guarded \union problem.guards[c]
  BY DEF GuardsOf, FrameOK
<1>5. With(f, c) \in Frame
  BY <1>1, <1>2 DEF With, Frame
<1>6. FrameOK(With(f, c))
  BY <1>1, <1>3, <1>4 DEF With, FrameOK
<1>7. Without(f, c) \in Frame /\ FrameOK(Without(f, c))
  BY <1>1 DEF Without, Frame, FrameOK
<1>8. ASSUME NEW S, Extends(S, f)
      PROVE  Extends(S, With(f, c)) \/ Extends(S, Without(f, c))
  <2>1. CASE c \in S
    BY <1>8, <2>1 DEF Extends, With
  <2>2. CASE c \notin S
    BY <1>8, <2>2 DEF Extends, Without, Frame
  <2>. QED  BY <2>1, <2>2
<1>. QED  BY <1>5, <1>6, <1>7, <1>8

-----------------------------------------------------------------------------
(* The type invariant.                                                     *)

\* The search starts in its types: nothing pending, nothing found.
LEMMA InitTyped == Priced(problem) /\ NotStarted => Typed
BY ControlsAssumption, FS_EmptySet DEF NotStarted, Typed, EmptyPlan, Plan, Statuses

\* Given well-formed calls, a step keeps every variable in its type.
LEMMA StepTyped == Typed /\ StackOK /\ [Next]_vars => Typed'
<1>. SUFFICES ASSUME Typed, StackOK, [Next]_vars
              PROVE  Typed'
  OBVIOUS
<1>. USE DEF Typed
<1>1. EmptyPlan \in Plan /\ problem \in Problem
  BY DEF Priced, EmptyPlan, Plan
<1>2. ASSUME NEW status \in Statuses, NEW plan \in Plan, Return(status, plan)
      PROVE  Typed'
  BY <1>2 DEF Return
<1>3. CASE RejectArguments \/ ScreenCoverage \/ AcceptBaseline \/ EvaluationRaises
  BY <1>1, <1>2, <1>3
     DEF RejectArguments, ScreenCoverage, AcceptBaseline, EvaluationRaises, Statuses
<1>4. CASE StartSearch
  <2>1. [chosen |-> {}, undecided |-> problem.permitted,
         guarded |-> {}, cost |-> 0] \in Frame
    BY <1>1 DEF Frame, Problem
  <2>2. stack' \in Seq(Frame)
    BY <1>4, <2>1 DEF StartSearch
  <2>. QED  BY <1>4, <2>2 DEF StartSearch
<1>5. CASE Prune \/ GiveUpLeaf
  <2>1. stack \in Seq(Frame) /\ stack # <<>> /\ stack' = Tail(stack)
    BY <1>5 DEF Prune, GiveUpLeaf, InSearch
  <2>2. stack' \in Seq(Frame)
    BY <2>1, PopCases
  <2>. QED  BY <1>5, <2>2 DEF Prune, GiveUpLeaf
<1>6. CASE Accept
  <2>1. Top \in Frame
    BY <1>6, PopCases DEF Accept, InSearch, Top
  <2>2. TopPlan \in Plan
    BY <2>1 DEF TopPlan, Plan, Frame
  <2>3. best' \in Seq(Plan)
    BY <1>6, <2>2 DEF Accept
  <2>. QED  BY <1>6, <2>3, PopCases DEF Accept, InSearch
<1>7. ASSUME NEW c \in Controls, Branch(c)
      PROVE  Typed'
  <2>1. Top \in Frame /\ FrameOK(Top) /\ c \in Top.undecided
        /\ Tail(stack) \in Seq(Frame)
    BY <1>7, PopCases DEF Branch, InSearch, Top, StackOK
  <2>2. With(Top, c) \in Frame /\ Without(Top, c) \in Frame
    BY <2>1, BranchCases
  <2>3. stack' \in Seq(Frame)
    BY <1>7, <2>1, <2>2, PushCases DEF Branch
  <2>. QED  BY <1>7, <2>3 DEF Branch
<1>8. CASE ReturnBest
  <2>1. best[1] \in Plan
    BY <1>8 DEF ReturnBest
  <2>. QED  BY <1>2, <1>8, <2>1 DEF ReturnBest, Statuses
<1>9. CASE ReturnNone
  BY <1>1, <1>2, <1>9 DEF ReturnNone, Statuses
<1>10. CASE UNCHANGED vars
  BY <1>10 DEF vars
<1>. QED
  BY <1>3, <1>4, <1>5, <1>6, <1>7, <1>8, <1>9, <1>10 DEF Next

-----------------------------------------------------------------------------
(* The pending calls and the best plan are well formed.                    *)

\* A pending call carries the guards and the cost of exactly the controls it
\* has chosen, and choices it has not made yet stay apart from them.
LEMMA StepStackOK == Typed /\ StackOK /\ [Next]_vars => StackOK'
<1>. SUFFICES ASSUME Typed, StackOK, [Next]_vars
              PROVE  StackOK'
  OBVIOUS
<1>0. stack \in Seq(Frame)
  BY DEF Typed
<1>1. ASSUME problem' = problem
      PROVE  \A f : FrameOK(f)' <=> FrameOK(f)
  BY <1>1 DEF FrameOK, GuardsOf
<1>2. CASE UNCHANGED <<problem, stack>>
  BY <1>1, <1>2 DEF StackOK
<1>3. CASE StartSearch
  <2>. DEFINE whole == [chosen |-> {}, undecided |-> problem.permitted,
                        guarded |-> {}, cost |-> 0]
  <2>1. problem.total[{}] = 0
    BY DEF Priced, Typed
  <2>2. FrameOK(whole)
    BY <2>1 DEF FrameOK, GuardsOf
  <2>3. stack' = << whole >> /\ problem' = problem
    BY <1>3 DEF StartSearch
  <2>. HIDE DEF whole
  <2>. QED  BY <1>1, <2>2, <2>3 DEF StackOK
<1>4. CASE InSearch /\ stack' = Tail(stack) /\ problem' = problem
  BY <1>0, <1>1, <1>4, PopCases DEF StackOK, InSearch
<1>5. ASSUME NEW c \in Controls, Branch(c)
      PROVE  StackOK'
  <2>1. /\ Top \in Frame /\ FrameOK(Top) /\ c \in Top.undecided
        /\ Tail(stack) \in Seq(Frame)
        /\ \A j \in 1..Len(Tail(stack)) : FrameOK(Tail(stack)[j])
    BY <1>0, <1>5, PopCases DEF Branch, InSearch, Top, StackOK
  <2>2. /\ With(Top, c) \in Frame /\ Without(Top, c) \in Frame
        /\ FrameOK(With(Top, c)) /\ FrameOK(Without(Top, c))
    BY <2>1, BranchCases
  <2>. DEFINE t == Tail(stack)  f == With(Top, c)  g == Without(Top, c)
  <2>3. /\ t \in Seq(Frame) /\ f \in Frame /\ g \in Frame
        /\ FrameOK(f) /\ FrameOK(g) /\ \A j \in 1..Len(t) : FrameOK(t[j])
        /\ stack' = << f, g >> \o t
    BY <1>5, <2>1, <2>2 DEF Branch
  <2>. HIDE DEF t, f, g
  <2>4. \A k \in 1..Len(stack') :
          stack'[k] = f \/ stack'[k] = g \/ \E j \in 1..Len(t) : stack'[k] = t[j]
    <3>. DEFINE q == << f, g >> \o t
    <3>1. \A k \in 1..Len(q) : q[k] = f \/ q[k] = g \/ \E j \in 1..Len(t) : q[k] = t[j]
      BY <2>3, PushCases
    <3>2. stack' = q
      BY <2>3
    <3>. HIDE DEF q
    <3>. QED  BY <3>1, <3>2
  <2>5. \A k \in 1..Len(stack') : FrameOK(stack'[k])
    BY <2>3, <2>4
  <2>. QED  BY <1>1, <1>5, <2>5 DEF Branch, StackOK
<1>. QED
  BY <1>2, <1>3, <1>4, <1>5
     DEF Next, vars, Return, RejectArguments, ScreenCoverage, AcceptBaseline,
         Prune, EvaluationRaises, Accept, GiveUpLeaf, ReturnBest, ReturnNone

\* The best plan so far is always a permitted set that verifies.
LEMMA StepBestOK == Typed /\ StackOK /\ BestOK /\ [Next]_vars => BestOK'
<1>. SUFFICES ASSUME Typed, StackOK, BestOK, [Next]_vars
              PROVE  BestOK'
  OBVIOUS
<1>1. CASE UNCHANGED <<problem, best>>
  BY <1>1 DEF BestOK, PlanOf, Feasible, GuardsOf
<1>2. CASE Accept
  <2>1. FrameOK(Top) /\ problem' = problem
        /\ problem.verdict[Top.guarded] = "RSE_VERIFIED"
        /\ (best' = << TopPlan >> \/ best' = best)
    BY <1>2, PopCases DEF Accept, InSearch, Top, StackOK, Typed, Evaluation
  <2>2. /\ TopPlan.chosen \subseteq problem.permitted
        /\ TopPlan = PlanOf(TopPlan.chosen)
        /\ Feasible(TopPlan.chosen)
    BY <2>1 DEF TopPlan, FrameOK, PlanOf, Feasible
  <2>3. \A R : PlanOf(R)' = PlanOf(R) /\ (Feasible(R)' <=> Feasible(R))
    BY <2>1 DEF PlanOf, Feasible, GuardsOf
  <2>4. CASE best' = << TopPlan >>
    BY <2>1, <2>2, <2>3, <2>4 DEF BestOK
  <2>5. CASE best' = best
    BY <2>1, <2>3, <2>5 DEF BestOK
  <2>. QED  BY <2>1, <2>4, <2>5
<1>. QED
  BY <1>1, <1>2
     DEF Next, vars, Return, RejectArguments, ScreenCoverage, AcceptBaseline,
         StartSearch, Prune, EvaluationRaises, GiveUpLeaf, Branch, ReturnBest,
         ReturnNone

-----------------------------------------------------------------------------
(* No set of controls that verifies is lost by pruning, by stopping at a   *)
(* call that verifies, or by branching.                                    *)

\* Popping a call keeps the promise if the sets that extend the popped call
\* are no better than the (new) best plan and the best plan has not worsened.
LEMMA PopKeepsPromise ==
  ASSUME Typed, NothingLost, InSearch,
         NEW b \in Seq(Plan), b # <<>>,
         best = <<>> \/ b = best \/ KeyLess(b[1], best[1]),
         \A S \in SUBSET problem.permitted :
           Feasible(S) /\ Extends(S, Top) => ~ KeyLess(PlanOf(S), b[1]),
         NEW S \in SUBSET problem.permitted, Feasible(S)
  PROVE  \/ ~ KeyLess(PlanOf(S), b[1])
         \/ \E j \in 1..Len(Tail(stack)) : Extends(S, Tail(stack)[j])
<1>1. stack \in Seq(Frame) /\ stack # <<>> /\ pc = "search"
  BY DEF Typed, InSearch
<1>2. CASE best # <<>> /\ ~ KeyLess(PlanOf(S), best[1])
  <2>1. best[1] \in Plan /\ b[1] \in Plan
    BY <1>2 DEF Typed
  <2>2. PlanOf(S) \in Plan
    <3>1. problem \in Problem /\ S \in SUBSET Controls
      BY DEF Priced, Typed, Problem
    <3>. QED  BY <3>1 DEF Problem, PlanOf, Plan
  <2>3. KeyLess(PlanOf(S), b[1]) /\ KeyLess(b[1], best[1])
          => KeyLess(PlanOf(S), best[1])
    BY <2>1, <2>2, KeyTransitive
  <2>. QED  BY <1>2, <2>3
<1>3. CASE \E i \in 1..Len(stack) : Extends(S, stack[i])
  BY <1>1, <1>3, PopCases DEF Top
<1>. QED  BY <1>1, <1>2, <1>3 DEF NothingLost

\* No step gives up a set that verifies: pruning, accepting and branching leave
\* it beaten by the best plan or still ahead in a pending call.
LEMMA StepNothingLost ==
  Typed /\ StackOK /\ NothingLost /\ [Next]_vars => NothingLost'
<1>. SUFFICES ASSUME Typed, StackOK, NothingLost, [Next]_vars,
                     pc' = "search",
                     NEW S \in SUBSET problem'.permitted, Feasible(S)'
              PROVE  \/ best' # <<>> /\ ~ KeyLess(PlanOf(S)', best'[1])
                     \/ \E i \in 1..Len(stack') : Extends(S, stack'[i])
  BY DEF NothingLost, Extends, KeyLess
<1>0. /\ problem' = problem /\ PlanOf(S)' = PlanOf(S) /\ Feasible(S)
      /\ S \in SUBSET problem.permitted
  <2>1. problem' = problem
    BY DEF Next, vars, Return, RejectArguments, ScreenCoverage, AcceptBaseline,
           StartSearch, Prune, EvaluationRaises, Accept, GiveUpLeaf, Branch,
           ReturnBest, ReturnNone
  <2>. QED  BY <2>1 DEF PlanOf, Feasible, GuardsOf
<1>1. CASE StartSearch
  <2>. DEFINE whole == [chosen |-> {}, undecided |-> problem.permitted,
                        guarded |-> {}, cost |-> 0]
  <2>1. stack' = << whole >>
    BY <1>1 DEF StartSearch
  <2>2. Extends(S, whole)
    BY <1>0 DEF Extends
  <2>. HIDE DEF whole
  <2>. QED  BY <2>1, <2>2
<1>2. ASSUME InSearch
      PROVE  /\ Top \in Frame /\ FrameOK(Top)
             /\ stack \in Seq(Frame) /\ stack # <<>> /\ pc = "search"
  BY <1>2, PopCases DEF InSearch, Top, StackOK, Typed
<1>3. CASE Prune
  <2>1. InSearch /\ best # <<>> /\ best \in Seq(Plan) /\ Bounded(Top)
        /\ stack' = Tail(stack) /\ best' = best
    BY <1>3 DEF Prune, Bounded, Typed
  <2>2. \A R \in SUBSET problem.permitted :
          Feasible(R) /\ Extends(R, Top) => ~ KeyLess(PlanOf(R), best[1])
    BY <1>2, <2>1, BoundIsSound
  <2>3. \/ ~ KeyLess(PlanOf(S), best[1])
        \/ \E j \in 1..Len(Tail(stack)) : Extends(S, Tail(stack)[j])
    BY <1>0, <2>1, <2>2, PopKeepsPromise
  <2>. QED  BY <1>0, <2>1, <2>3
<1>4. CASE Accept
  <2>1. /\ InSearch /\ stack' = Tail(stack)
        /\ best' = IF best = <<>> \/ KeyLess(TopPlan, best[1])
                   THEN << TopPlan >> ELSE best
    BY <1>4 DEF Accept
  <2>2. TopPlan \in Plan
    BY <1>2, <2>1 DEF TopPlan, Plan, Frame
  <2>3. \A R \in SUBSET problem.permitted :
          Extends(R, Top) => ~ KeyLess(PlanOf(R), TopPlan)
    BY <1>2, <2>1, AcceptIsSound DEF TopPlan
  <2>4. CASE best = <<>> \/ KeyLess(TopPlan, best[1])
    <3>. DEFINE b == << TopPlan >>
    <3>1. b \in Seq(Plan) /\ b # <<>> /\ b[1] = TopPlan /\ best' = b
      BY <2>1, <2>2, <2>4
    <3>. HIDE DEF b
    <3>2. \/ ~ KeyLess(PlanOf(S), b[1])
          \/ \E j \in 1..Len(Tail(stack)) : Extends(S, Tail(stack)[j])
      BY <1>0, <2>1, <2>3, <2>4, <3>1, PopKeepsPromise
    <3>. QED  BY <1>0, <2>1, <3>1, <3>2
  <2>5. CASE best # <<>> /\ ~ KeyLess(TopPlan, best[1])
    <3>1. best' = best /\ best \in Seq(Plan)
      BY <2>1, <2>5 DEF Typed
    <3>2. ASSUME NEW R \in SUBSET problem.permitted, Extends(R, Top)
          PROVE  ~ KeyLess(PlanOf(R), best[1])
      <4>1. PlanOf(R) = TopPlan \/ KeyLess(TopPlan, PlanOf(R))
        BY <1>2, <2>1, <3>2, AcceptIsSound DEF TopPlan
      <4>2. PlanOf(R) \in Plan /\ best[1] \in Plan
        BY <1>2, <2>1, <2>5, <3>2, ExtensionIsLarger DEF Typed
      <4>. QED  BY <2>2, <2>5, <4>1, <4>2, KeyTransitive
    <3>3. \/ ~ KeyLess(PlanOf(S), best[1])
          \/ \E j \in 1..Len(Tail(stack)) : Extends(S, Tail(stack)[j])
      BY <1>0, <2>1, <2>5, <3>1, <3>2, PopKeepsPromise
    <3>. QED  BY <1>0, <2>1, <2>5, <3>1, <3>3
  <2>. QED  BY <2>4, <2>5
<1>5. CASE GiveUpLeaf
  <2>1. InSearch /\ stack' = Tail(stack) /\ best' = best
        /\ problem.verdict[Top.guarded] = "OTHER" /\ Top.undecided = {}
    BY <1>5 DEF GiveUpLeaf, Evaluation
  <2>2. ~ Extends(S, Top)
    <3>1. Extends(S, Top) => S = Top.chosen
      BY <2>1 DEF Extends
    <3>2. ~ Feasible(Top.chosen)
      BY <1>2, <2>1 DEF Feasible, FrameOK
    <3>. QED  BY <1>0, <3>1, <3>2
  <2>3. stack \in Seq(Frame) /\ stack # <<>>
    BY <1>0, <2>1 DEF Typed, InSearch
  <2>4. \A i \in 1..Len(stack) :
          stack[i] = Top \/ \E j \in 1..Len(Tail(stack)) : Tail(stack)[j] = stack[i]
    BY <2>3, PopCases DEF Top
  <2>. QED  BY <1>0, <1>2, <2>1, <2>2, <2>4 DEF NothingLost
<1>6. ASSUME NEW c \in Controls, Branch(c)
      PROVE  \/ best' # <<>> /\ ~ KeyLess(PlanOf(S)', best'[1])
             \/ \E i \in 1..Len(stack') : Extends(S, stack'[i])
  <2>. DEFINE t == Tail(stack)  f == With(Top, c)  g == Without(Top, c)
  <2>1. /\ InSearch /\ best' = best /\ c \in Top.undecided
        /\ stack' = << f, g >> \o t
    BY <1>6 DEF Branch
  <2>2. /\ f \in Frame /\ g \in Frame /\ t \in Seq(Frame)
        /\ Extends(S, Top) => Extends(S, f) \/ Extends(S, g)
    BY <1>2, <2>1, BranchCases, PopCases
  <2>. HIDE DEF f, g
  <2>3. /\ \A j \in 1..Len(t) : \E k \in 1..Len(stack') : stack'[k] = t[j]
        /\ \E k \in 1..Len(stack') : stack'[k] = f
        /\ \E k \in 1..Len(stack') : stack'[k] = g
    <3>. DEFINE w == << f, g >> \o t
    <3>. HIDE DEF t
    <3>1. \A j \in 1..Len(t) : \E k \in 1..Len(w) : w[k] = t[j]
      <4>1. \A j \in 1..Len(t) : j + 2 \in 1..Len(w) /\ w[j + 2] = t[j]
        BY <2>2, PushCases
      <4>. QED  BY <4>1
    <3>2. \E k \in 1..Len(w) : w[k] = f
      BY <2>2, PushCases
    <3>3. \E k \in 1..Len(w) : w[k] = g
      BY <2>2, PushCases
    <3>4. stack' = w
      BY <2>1
    <3>. HIDE DEF w
    <3>. QED  BY <3>1, <3>2, <3>3, <3>4
  <2>4. \/ best # <<>> /\ ~ KeyLess(PlanOf(S), best[1])
        \/ Extends(S, Top)
        \/ \E j \in 1..Len(t) : Extends(S, t[j])
    BY <1>0, <1>2, <2>1, PopCases DEF NothingLost, Top
  <2>. QED  BY <1>0, <2>1, <2>2, <2>3, <2>4
<1>7. CASE UNCHANGED vars
  <2>1. pc = "search" /\ best' = best /\ stack' = stack
    BY <1>7 DEF vars
  <2>. QED  BY <1>0, <2>1 DEF NothingLost
<1>. QED
  BY <1>1, <1>3, <1>4, <1>5, <1>6, <1>7
     DEF Next, Return, RejectArguments, ScreenCoverage, AcceptBaseline,
         EvaluationRaises, ReturnBest, ReturnNone

-----------------------------------------------------------------------------
(* What is returned.                                                       *)

\* Nothing beats the empty plan.
LEMMA EmptyPlanIsLeast ==
  ASSUME Typed
  PROVE  /\ PlanOf({}) = EmptyPlan /\ GuardsOf({}) = {}
         /\ \A S \in SUBSET problem.permitted : ~ KeyLess(PlanOf(S), EmptyPlan)
<1>1. Priced(problem) /\ problem \in Problem /\ problem.total[{}] = 0
  BY DEF Priced, Typed
<1>2. ASSUME NEW S \in SUBSET problem.permitted
      PROVE  ~ KeyLess(PlanOf(S), EmptyPlan)
  <2>1. S \in SUBSET Controls
    BY <1>1 DEF Problem
  <2>2. problem.total[S] \in Nat
    BY <1>1, <2>1 DEF Problem
  <2>3. Cardinality(S) \in Nat /\ (Cardinality(S) = 0 => S = {})
    BY <2>1, ControlSets, FS_EmptySet
  <2>4. Cardinality({}) = 0 /\ ~ LexLess({}, {})
    BY FS_EmptySet DEF LexLess
  <2>. QED  BY <2>2, <2>3, <2>4 DEF KeyLess, PlanOf, EmptyPlan
<1>. QED  BY <1>1, <1>2 DEF PlanOf, EmptyPlan, GuardsOf

\* What is returned when the stack is empty is optimal, or nothing verifies.
LEMMA StepOutcome == CutInv /\ [Next]_vars => PlanIsOptimal' /\ InfeasibleIsReal'
<1>. SUFFICES ASSUME CutInv, [Next]_vars
              PROVE  PlanIsOptimal' /\ InfeasibleIsReal'
  OBVIOUS
<1>. USE DEF CutInv
<1>0. problem' = problem
  BY DEF Next, vars, Return, RejectArguments, ScreenCoverage, AcceptBaseline,
         StartSearch, Prune, EvaluationRaises, Accept, GiveUpLeaf, Branch,
         ReturnBest, ReturnNone
<1>1. \A S : PlanOf(S)' = PlanOf(S) /\ (Feasible(S)' <=> Feasible(S))
  BY <1>0 DEF PlanOf, Feasible, GuardsOf
<1>2. CASE outcome' = outcome
  BY <1>0, <1>1, <1>2 DEF PlanIsOptimal, InfeasibleIsReal, KeyLess
<1>3. CASE RejectArguments \/ ScreenCoverage \/ EvaluationRaises
  BY <1>3 DEF RejectArguments, ScreenCoverage, EvaluationRaises, Return,
              PlanIsOptimal, InfeasibleIsReal
<1>4. CASE AcceptBaseline
  <2>1. outcome' = [status |-> "OPTIMAL", plan |-> EmptyPlan]
        /\ problem.verdict[{}] = "RSE_VERIFIED"
    BY <1>4 DEF AcceptBaseline, Return, Baseline
  <2>2. EmptyPlan.chosen = {} /\ Feasible({})
    BY <2>1, EmptyPlanIsLeast DEF EmptyPlan, Feasible
  <2>3. outcome'.plan = EmptyPlan /\ outcome'.status = "OPTIMAL"
    BY <2>1
  <2>4. InfeasibleIsReal'
    BY <2>3 DEF InfeasibleIsReal
  <2>5. \A S \in SUBSET problem.permitted : ~ KeyLess(PlanOf(S), EmptyPlan)
    BY EmptyPlanIsLeast
  <2>6. PlanIsOptimal'
    BY <1>0, <1>1, <2>2, <2>3, <2>5, EmptyPlanIsLeast DEF PlanIsOptimal, KeyLess
  <2>. QED  BY <2>4, <2>6
<1>5. CASE ReturnBest
  <2>1. outcome' = [status |-> "OPTIMAL", plan |-> best[1]]
        /\ best # <<>> /\ pc = "search" /\ stack = <<>>
    BY <1>5 DEF ReturnBest, Return
  <2>2. \A S \in SUBSET problem.permitted :
          Feasible(S) => ~ KeyLess(PlanOf(S), best[1])
    BY <2>1 DEF NothingLost
  <2>3. outcome'.plan = best[1] /\ outcome'.status = "OPTIMAL"
    BY <2>1
  <2>. QED
    BY <1>0, <1>1, <2>1, <2>2, <2>3
       DEF BestOK, PlanIsOptimal, InfeasibleIsReal, KeyLess
<1>6. CASE ReturnNone
  <2>1. outcome'.status # "OPTIMAL" /\ best = <<>> /\ pc = "search" /\ stack = <<>>
    BY <1>6 DEF ReturnNone, Return
  <2>2. \A S \in SUBSET problem.permitted : ~ Feasible(S)
    BY <2>1 DEF NothingLost
  <2>. QED  BY <1>0, <1>1, <2>1, <2>2 DEF PlanIsOptimal, InfeasibleIsReal
<1>. QED
  BY <1>2, <1>3, <1>4, <1>5, <1>6
     DEF Next, vars, StartSearch, Prune, Accept, GiveUpLeaf, Branch

-----------------------------------------------------------------------------
(* The theorems.                                                           *)

\* The conjunction of all of these is an inductive invariant.
LEMMA CutStarts == Priced(problem) /\ NotStarted => CutInv
BY InitTyped DEF NotStarted, CutInv, StackOK, BestOK, NothingLost, Undecided,
                 PlanIsOptimal, InfeasibleIsReal, UnverifiedIsReal

LEMMA CutSteps == CutInv /\ [Next]_vars => CutInv' /\ problem' = problem
<1>1. CutInv /\ [Next]_vars => Undecided' /\ problem' = problem
  BY DEF CutInv, Undecided, Next, vars, Return, RejectArguments, ScreenCoverage,
         AcceptBaseline, StartSearch, Prune, EvaluationRaises, Accept,
         GiveUpLeaf, Branch, ReturnBest, ReturnNone
<1>2. CutInv /\ [Next]_vars => UnverifiedIsReal'
  <2>. SUFFICES ASSUME CutInv, [Next]_vars PROVE UnverifiedIsReal'
    OBVIOUS
  <2>1. CASE UNCHANGED <<problem, outcome>>
    BY <2>1 DEF CutInv, UnverifiedIsReal
  <2>2. CASE ScreenCoverage \/ ReturnNone
    BY <2>2 DEF ScreenCoverage, ReturnNone, Return, UnverifiedIsReal
  <2>3. CASE RejectArguments \/ AcceptBaseline \/ EvaluationRaises \/ ReturnBest
    BY <2>3 DEF RejectArguments, AcceptBaseline, EvaluationRaises, ReturnBest, Return,
                UnverifiedIsReal
  <2>. QED  BY <2>1, <2>2, <2>3
              DEF Next, vars, StartSearch, Prune, Accept, GiveUpLeaf, Branch
<1>. QED
  BY <1>1, <1>2, StepTyped, StepStackOK, StepBestOK, StepNothingLost, StepOutcome
     DEF CutInv

LEMMA InvariantHolds == Init /\ [][Next]_vars => [](CutInv /\ problem \in Problems)
<1>1. Init => CutInv /\ problem \in Problems
  BY CutStarts, ProblemsAssumption DEF Init, Priced
<1>2. CutInv /\ problem \in Problems /\ [Next]_vars => (CutInv /\ problem \in Problems)'
  BY CutSteps
<1>. QED  BY <1>1, <1>2, PTL

\* Type correctness of every behaviour.
THEOREM CutTypeCorrect == Spec => []TypeOK
<1>1. CutInv /\ problem \in Problems => TypeOK
  BY DEF CutInv, Typed, TypeOK
<1>. QED  BY <1>1, InvariantHolds, PTL DEF Spec

\* For every set of controls, costs and evaluation, pruning and stopping early
\* never cost the search its optimum, down to the tie-break on ids.
THEOREM CutIsOptimal == Spec => []PlanIsOptimal
<1>1. CutInv => PlanIsOptimal
  BY DEF CutInv
<1>. QED  BY <1>1, InvariantHolds, PTL DEF Spec

\* INFEASIBLE is answered only when no permitted set of controls verifies.
THEOREM InfeasibleIsProved == Spec => []InfeasibleIsReal
<1>1. CutInv => InfeasibleIsReal
  BY DEF CutInv
<1>. QED  BY <1>1, InvariantHolds, PTL DEF Spec

\* What the search answers is exact: the optimum, or that there is none.
THEOREM CutIsAlwaysExact == Spec => []CutIsExact
<1>1. PlanIsOptimal /\ InfeasibleIsReal => CutIsExact
  BY DEF CutIsExact
<1>. QED  BY <1>1, CutIsOptimal, InfeasibleIsProved, PTL

-----------------------------------------------------------------------------
(* The world a plan is installed in.                                       *)

\* Clean states that the workflows of topology do not leave under the guards.
Refuge(states, guarded) ==
  /\ \A s \in states : ~ Temporal!HoldsSubjectData(s)
  /\ \A s \in states : \A t \in topology.running \ guarded :
       Temporal!Enables(topology.workflows[t], s)
         => Temporal!Result(topology.workflows[t], s) \in states

Planned ==
  /\ envelope \in Envelopes
  /\ problem = ProblemOf(envelope)
  /\ topology \in envelope.scenarios
  /\ CutInv
  /\ installed = <<>> => world = topology.snapshot
  /\ installed # <<>> => \E states : world \in states /\ Refuge(states, installed[1])

\* Problems without an envelope are planned and no more.
WorldInv == (envelope = NoEnvelope /\ installed = <<>>) \/ Planned

-----------------------------------------------------------------------------
\* A problem that stems from an envelope is a problem, and its costs add up.
LEMMA ProblemOfEnvelope ==
  ASSUME NEW e \in Envelopes
  PROVE  /\ Priced(ProblemOf(e))
         /\ \A G \in SUBSET TransitionIds :
              ProblemOf(e).verdict[G] = EnvelopeVerdict(e, G)
<1>. DEFINE p == ProblemOf(e)
<1>1. /\ e.robust \in BOOLEAN /\ e.permitted \in SUBSET Controls
      /\ e.guards \in [Controls -> SUBSET TransitionIds]
      /\ e.cost \in [Controls -> Nat] /\ e.scenarios \in SUBSET Temporal!Case
  BY EnvelopesAssumption DEF Envelope
<1>2. /\ p.robust = e.robust /\ p.permitted = e.permitted
      /\ p.known = UNION { s.registered : s \in e.scenarios }
      /\ p.guards = e.guards /\ p.cost = e.cost
      /\ p.coverageComplete = (\A s \in e.scenarios : Temporal!CoverageComplete(s))
      /\ p.verdict = [G \in SUBSET TransitionIds |-> EnvelopeVerdict(e, G)]
      /\ p.total = [S \in SUBSET Controls |-> Total(e.cost, S)]
      /\ p = [robust |-> p.robust, permitted |-> p.permitted, known |-> p.known,
              guards |-> p.guards, cost |-> p.cost, total |-> p.total,
              verdict |-> p.verdict, coverageComplete |-> p.coverageComplete]
  BY DEF ProblemOf, Total
<1>. HIDE DEF p
<1>3. ASSUME NEW S \in SUBSET Controls
      PROVE  IsFiniteSet(S) /\ Total(e.cost, S) \in Nat /\ p.total[S] = Total(e.cost, S)
  BY <1>1, <1>2, ControlSets, TotalType
<1>4. p \in Problem
  <2>1. p.known \in SUBSET TransitionIds
    BY <1>1, <1>2 DEF Temporal!Case
  <2>2. p.total \in [SUBSET Controls -> Nat]
    BY <1>2, <1>3
  <2>3. p.verdict \in [SUBSET TransitionIds -> {"RSE_VERIFIED", "OTHER", "RAISED"}]
    BY <1>2 DEF EnvelopeVerdict
  <2>4. p.coverageComplete \in BOOLEAN
    BY <1>2
  <2>5. p.robust \in BOOLEAN /\ p.permitted \in SUBSET Controls
        /\ p.guards \in [Controls -> SUBSET TransitionIds] /\ p.cost \in [Controls -> Nat]
    BY <1>1, <1>2
  <2>6. p = [robust |-> p.robust, permitted |-> p.permitted, known |-> p.known,
             guards |-> p.guards, cost |-> p.cost, total |-> p.total,
             verdict |-> p.verdict, coverageComplete |-> p.coverageComplete]
    BY <1>2
  <2>. QED  BY ONLY <2>1, <2>2, <2>3, <2>4, <2>5, <2>6 DEF Problem
<1>5. p.total[{}] = 0 /\ \A c \in Controls : p.total[{c}] = p.cost[c]
  <2>1. p.total[{}] = Total(e.cost, {}) /\ \A c \in Controls : p.total[{c}] = Total(e.cost, {c})
    BY <1>3
  <2>2. Total(e.cost, {}) = 0
    BY FS_EmptySet, TotalUnfolds
  <2>3. \A c \in Controls : Total(e.cost, {c}) = e.cost[c]
    BY <1>1, TotalOfOne
  <2>. QED  BY <1>2, <2>1, <2>2, <2>3
<1>6. ASSUME NEW A \in SUBSET Controls, NEW B \in SUBSET Controls, A \intersect B = {}
      PROVE  p.total[A \union B] = p.total[A] + p.total[B]
  <2>1. A \union B \in SUBSET Controls
    OBVIOUS
  <2>2. \A x \in A \union B : e.cost[x] \in Nat
    BY <1>1
  <2>3. IsFiniteSet(A) /\ IsFiniteSet(B)
    BY <1>3
  <2>4. Total(e.cost, A \union B) = Total(e.cost, A) + Total(e.cost, B)
    BY <1>6, <2>2, <2>3, TotalOfUnion
  <2>. QED  BY <1>3, <2>1, <2>4
<1>7. \A G \in SUBSET TransitionIds : p.verdict[G] = EnvelopeVerdict(e, G)
  BY <1>2
<1>. QED  BY <1>4, <1>5, <1>6, <1>7 DEF Priced, p

\* What the cut verified holds in each topology: coverage makes every running
\* workflow registered, so the reachable states are a refuge.
LEMMA VerifiedHasRefuge ==
  ASSUME envelope \in Envelopes, topology \in envelope.scenarios,
         NEW G \in SUBSET TransitionIds, EnvelopeVerdict(envelope, G) = "RSE_VERIFIED"
  PROVE  \E states : topology.snapshot \in states /\ Refuge(states, G)
<1>. DEFINE c == [topology EXCEPT !.guarded = G \intersect topology.registered]
            reached == Temporal!Reachable(c)
<1>1. topology \in Temporal!Case /\ Temporal!SensorsAreExhaustive(topology)
  BY EnvelopesAssumption DEF Envelope
<1>2. /\ c.snapshot = topology.snapshot /\ c.workflows = topology.workflows
      /\ c.registered = topology.registered /\ c.observations = topology.observations
      /\ c.requiredSensors = topology.requiredSensors /\ c.running = topology.running
      /\ Temporal!Unguarded(c) = topology.registered \ G
  BY <1>1 DEF Temporal!Case, Temporal!Unguarded
<1>3. Temporal!RSEVerdict(c) = "RSE_VERIFIED"
  BY DEF EnvelopeVerdict, Evaluate
<1>. HIDE DEF c, reached
<1>4. Temporal!StaysClean(c) /\ Temporal!CoverageComplete(c)
  BY <1>3 DEF Temporal!RSEVerdict
<1>5. topology.running \subseteq topology.registered
  <2>. SUFFICES ASSUME NEW t \in topology.running PROVE t \in topology.registered
    OBVIOUS
  <2>1. SensorOf[t] \in Temporal!ReportingSensors(c)
    BY <1>1, <1>2, <1>4 DEF Temporal!SensorsAreExhaustive, Temporal!CoverageComplete
  <2>2. SensorOf[t] \in Temporal!ReportingSensors(topology)
    BY <1>2, <2>1 DEF Temporal!ReportingSensors, Temporal!VerifiedObservations
  <2>3. PICK o \in topology.observations : o.transition = t
    BY <1>1, <2>2 DEF Temporal!SensorsAreExhaustive
  <2>. QED  BY <1>2, <1>4, <2>3 DEF Temporal!CoverageComplete
<1>6. /\ topology.snapshot \in reached
      /\ Temporal!Successors(c, reached) \subseteq reached
      /\ \A s \in reached : ~ Temporal!HoldsSubjectData(s)
  BY <1>2, <1>4 DEF Temporal!StaysClean, reached
<1>7. ASSUME NEW s \in reached, NEW t \in topology.running \ G,
             Temporal!Enables(topology.workflows[t], s)
      PROVE  Temporal!Result(topology.workflows[t], s) \in reached
  <2>1. Temporal!Result(topology.workflows[t], s) \in Temporal!Successors(c, reached)
    BY <1>2, <1>5, <1>7 DEF Temporal!Successors
  <2>. QED  BY <1>6, <2>1
<1>. QED  BY <1>6, <1>7 DEF Refuge

\* The guards of controls are transitions.
LEMMA GuardsFacts ==
  ASSUME CutInv, NEW S \in SUBSET Controls
  PROVE  GuardsOf(S) \in SUBSET TransitionIds
BY DEF CutInv, Typed, Priced, Problem, GuardsOf

-----------------------------------------------------------------------------
(* The invariant.                                                          *)

LEMMA InitWorldInv == InitWorld => WorldInv
<1>. SUFFICES ASSUME InitWorld PROVE WorldInv
  OBVIOUS
<1>1. CASE envelope \in Envelopes /\ problem = ProblemOf(envelope)
           /\ topology \in envelope.scenarios /\ world = topology.snapshot
  <2>1. Priced(problem) /\ NotStarted /\ installed = <<>>
    BY <1>1, ProblemOfEnvelope DEF InitWorld
  <2>. QED  BY <1>1, <2>1, CutStarts DEF WorldInv, Planned
<1>2. CASE envelope = NoEnvelope
  BY <1>2 DEF InitWorld, WorldInv
<1>. QED  BY <1>1, <1>2 DEF InitWorld

LEMMA StepWorldInv == WorldInv /\ [NextWorld]_worldVars => WorldInv'
<1>. SUFFICES ASSUME WorldInv, [NextWorld]_worldVars PROVE WorldInv'
  OBVIOUS
<1>1. CASE envelope = NoEnvelope /\ installed = <<>>
  BY <1>1 DEF NextWorld, worldVars, PlanControls, Install, RunWorkflow, WorldInv
<1>. SUFFICES ASSUME Planned PROVE Planned'
  BY <1>1 DEF WorldInv
<1>2. CASE PlanControls
  <2>1. [Next]_vars /\ UNCHANGED <<envelope, topology, world, installed>>
    BY <1>2 DEF PlanControls
  <2>2. CutInv' /\ problem' = problem
    BY <2>1, CutSteps DEF Planned
  <2>3. ProblemOf(envelope)' = ProblemOf(envelope)
    BY <2>1
  <2>. QED  BY <2>1, <2>2, <2>3 DEF Planned, Refuge
<1>3. ASSUME UNCHANGED <<vars, envelope, topology>>
      PROVE  CutInv' /\ problem' = problem /\ ProblemOf(envelope)' = ProblemOf(envelope)
             /\ \A R, G : Refuge(R, G)' <=> Refuge(R, G)
  <2>1. problem' = problem /\ [Next]_vars
    BY <1>3 DEF vars
  <2>. QED  BY <1>3, <2>1, CutSteps DEF Planned, Refuge
<1>4. CASE Install
  <2>. DEFINE G == GuardsOf(outcome.plan.chosen)
  <2>1. /\ UNCHANGED <<vars, envelope, topology>> /\ world' = world
        /\ installed = <<>> /\ installed' = << G >> /\ outcome.status = "OPTIMAL"
    BY <1>4 DEF Install
  <2>2. outcome.plan.chosen \in SUBSET Controls /\ problem.verdict[G] = "RSE_VERIFIED"
    BY <2>1 DEF Planned, CutInv, Typed, Plan, PlanIsOptimal, Feasible
  <2>3. G \in SUBSET TransitionIds
    BY <2>2, GuardsFacts DEF Planned
  <2>4. EnvelopeVerdict(envelope, G) = "RSE_VERIFIED"
    BY <2>2, <2>3, ProblemOfEnvelope DEF Planned
  <2>. HIDE DEF G
  <2>5. \E states : world \in states /\ Refuge(states, G)
    BY <2>1, <2>3, <2>4, VerifiedHasRefuge DEF Planned
  <2>6. installed' # <<>> /\ installed'[1] = G
    BY <2>1
  <2>. QED  BY <1>3, <2>1, <2>5, <2>6 DEF Planned
<1>5. ASSUME NEW t \in TransitionIds, RunWorkflow(t) PROVE Planned'
  <2>1. /\ UNCHANGED <<vars, envelope, topology>> /\ installed' = installed
        /\ installed # <<>> /\ t \in topology.running \ installed[1]
        /\ Temporal!Enables(topology.workflows[t], world)
        /\ world' = Temporal!Result(topology.workflows[t], world)
    BY <1>5 DEF RunWorkflow, Temporal!Moves
  <2>2. PICK states : world \in states /\ Refuge(states, installed[1])
    BY <2>1 DEF Planned
  <2>3. world' \in states
    BY <2>1, <2>2 DEF Refuge
  <2>. QED  BY <1>3, <2>1, <2>2, <2>3 DEF Planned
<1>6. CASE UNCHANGED worldVars
  BY <1>3, <1>6 DEF worldVars, Planned
<1>. QED  BY <1>2, <1>4, <1>5, <1>6 DEF NextWorld

\* For every envelope, set of controls and costs: once an OPTIMAL plan is
\* installed no subject data comes back, whichever topology is the real one
\* and whatever its workflows do (temporal.py, temporal_robust.py).
THEOREM InstalledPlanAlwaysHolds == SpecWorld => []InstalledPlanHolds
<1>1. WorldInv => InstalledPlanHolds
  BY DEF WorldInv, Planned, Refuge, InstalledPlanHolds
<1>. QED  BY <1>1, InitWorldInv, StepWorldInv, PTL DEF SpecWorld

-----------------------------------------------------------------------------
(* What is given up is not there to be had.                                *)

\* The reachable states include the snapshot and have no way out.
LEMMA ReachableIsClosed ==
  ASSUME NEW c \in Temporal!Case
  PROVE  LET reached == Temporal!Reachable(c)
         IN  /\ c.snapshot \in reached
             /\ Temporal!Successors(c, reached) \subseteq reached
<1>. DEFINE D == SUBSET Facts
            step == [states \in SUBSET D |-> Temporal!Successors(c, states)]
            Is(f) == f = [states \in SUBSET D |->
                            LET grown == states \union Temporal!Successors(c, states)
                            IN  IF grown = states THEN states ELSE f[grown]]
            closure == CHOOSE f : Is(f)
<1>1. IsFiniteSet(D)
  BY EnvelopesAssumption, FS_SUBSET
<1>2. /\ c.snapshot \in D /\ Temporal!Unguarded(c) \subseteq TransitionIds
      /\ c.workflows \in [TransitionIds -> Temporal!Transition]
  BY DEF Temporal!Case, Temporal!Unguarded
<1>3. ASSUME NEW t \in Temporal!Unguarded(c), NEW s \in D
      PROVE  Temporal!Result(c.workflows[t], s) \in D
  BY <1>2 DEF Temporal!Transition, Temporal!Result
<1>4. \A states \in SUBSET D : step[states] \subseteq D
  BY <1>3 DEF Temporal!Successors
<1>5. \A R, S \in SUBSET D : R \subseteq S => step[R] \subseteq step[S]
  BY DEF Temporal!Successors
<1>6. ASSUME NEW f PROVE Is(f) <=> Closes(D, step, f)
  BY DEF Closes
<1>7. \E f : Closes(D, step, f)
  <2>. HIDE DEF D, step
  <2>. QED  BY <1>4, <1>5, ClosureExists
<1>8. Closes(D, step, closure)
  <2>. HIDE DEF D, step, Is
  <2>. QED  BY <1>6, <1>7
<1>9. Temporal!Reachable(c) = closure[{c.snapshot}]
  BY DEF Temporal!Reachable
<1>10. {c.snapshot} \in SUBSET D
  BY <1>2
<1>. DEFINE reached == closure[{c.snapshot}]
<1>11. /\ reached \in SUBSET D /\ {c.snapshot} \subseteq reached
       /\ step[reached] \subseteq reached
  <2>. DEFINE start == {c.snapshot}
  <2>1. start \in SUBSET D
    BY <1>10
  <2>. HIDE DEF D, step, closure, start
  <2>2. /\ closure[start] \in SUBSET D /\ start \subseteq closure[start]
        /\ step[closure[start]] \subseteq closure[start]
    BY ONLY <1>1, <1>4, <1>5, <1>8, <2>1, ClosureIsLeast
  <2>. QED  BY <2>2 DEF start
<1>12. step[reached] = Temporal!Successors(c, reached)
  <2>. HIDE DEF reached
  <2>. QED  BY <1>11
<1>. HIDE DEF reached, step
<1>. QED  BY <1>9, <1>11, <1>12 DEF reached

\* Where an envelope with complete coverage does not verify, subject data comes
\* back in one of its topologies.
LEMMA UnverifiedRegenerates ==
  ASSUME envelope \in Envelopes, NEW G \in SUBSET TransitionIds,
         EnvelopeVerdict(envelope, G) # "RSE_VERIFIED",
         \A s \in envelope.scenarios : Temporal!CoverageComplete(s)
  PROVE  SomeTopologyRegenerates(G)
<1>1. PICK s \in envelope.scenarios : Evaluate(s, G) # "RSE_VERIFIED"
  BY DEF EnvelopeVerdict
<1>2. s \in Temporal!Case
  BY EnvelopesAssumption DEF Envelope
<1>. DEFINE c == [s EXCEPT !.guarded = s.registered \intersect G]
<1>3. c \in Temporal!Case /\ c.snapshot = s.snapshot
      /\ (Temporal!CoverageComplete(s) => Temporal!CoverageComplete(c))
  BY <1>2 DEF Temporal!Case, Temporal!CoverageComplete, Temporal!ReportingSensors,
              Temporal!VerifiedObservations
<1>4. c = [s EXCEPT !.guarded = G \intersect s.registered]
  BY <1>2 DEF Temporal!Case
<1>5. Temporal!RSEVerdict(c) # "RSE_VERIFIED"
  <2>. HIDE DEF c
  <2>. QED  BY <1>1, <1>4 DEF Evaluate
<1>. SUFFICES \E state \in Temporal!Reachable(c) : Temporal!HoldsSubjectData(state)
  BY DEF SomeTopologyRegenerates
<1>. HIDE DEF c
<1>6. Temporal!HoldsSubjectData(c.snapshot) \/ ~ Temporal!StaysClean(c)
  BY <1>3, <1>5 DEF Temporal!RSEVerdict
<1>. QED  BY <1>3, <1>6, ReachableIsClosed DEF Temporal!StaysClean

\* An envelope verifies only under complete coverage.
LEMMA VerifiedIsCovered ==
  ASSUME envelope \in Envelopes, NEW G,
         EnvelopeVerdict(envelope, G) = "RSE_VERIFIED", NEW s \in envelope.scenarios
  PROVE  Temporal!CoverageComplete(s)
<1>. DEFINE c == [s EXCEPT !.guarded = G \intersect s.registered]
<1>1. s \in Temporal!Case
  BY EnvelopesAssumption DEF Envelope
<1>2. Temporal!CoverageComplete(c) => Temporal!CoverageComplete(s)
  BY <1>1 DEF Temporal!Case, Temporal!CoverageComplete, Temporal!ReportingSensors,
              Temporal!VerifiedObservations
<1>3. Temporal!RSEVerdict(c) = "RSE_VERIFIED"
  BY DEF EnvelopeVerdict, Evaluate
<1>. HIDE DEF c
<1>. QED  BY <1>2, <1>3 DEF Temporal!RSEVerdict

\* For every envelope: the cut asks for no more control than the envelope needs.
\* Any cheaper permitted set leaves a topology in which subject data comes back,
\* and a refusal under complete coverage means that all of the permitted controls
\* together do (exact_stabilization_cut, exact_robust_stabilization_cut).
THEOREM CutIsAlwaysNeeded == SpecWorld => []CutIsNeeded
<1>1. ASSUME Planned, envelope # NoEnvelope PROVE CutIsNeeded
  <2>0. /\ envelope \in Envelopes /\ problem = ProblemOf(envelope) /\ CutInv
        /\ Priced(problem) /\ problem.permitted = envelope.permitted
        /\ problem.permitted \in SUBSET Controls
        /\ problem.coverageComplete =
             (\A s \in envelope.scenarios : Temporal!CoverageComplete(s))
    <3>1. envelope \in Envelopes /\ problem = ProblemOf(envelope) /\ CutInv
      BY <1>1 DEF Planned
    <3>2. Priced(problem) /\ problem.permitted = envelope.permitted
          /\ problem.coverageComplete =
               (\A s \in envelope.scenarios : Temporal!CoverageComplete(s))
      BY <3>1, ProblemOfEnvelope DEF ProblemOf
    <3>. QED  BY <3>1, <3>2 DEF Priced, Problem
  <2>1. ASSUME NEW S \in SUBSET problem.permitted, ~ Feasible(S)
        PROVE  EnvelopeVerdict(envelope, GuardsOf(S)) # "RSE_VERIFIED"
               /\ GuardsOf(S) \in SUBSET TransitionIds
    <3>1. GuardsOf(S) \in SUBSET TransitionIds
      BY <2>0, GuardsFacts
    <3>. QED  BY <2>0, <2>1, <3>1, ProblemOfEnvelope DEF Feasible
  <2>2. CASE outcome.status = "UNVERIFIED"
    BY <2>0, <2>2 DEF CutInv, UnverifiedIsReal, CutIsNeeded
  <2>3. CASE outcome.status = "INFEASIBLE"
    <3>1. ~ Feasible(problem.permitted)
      BY <2>0, <2>3 DEF CutInv, InfeasibleIsReal
    <3>2. (\A s \in envelope.scenarios : Temporal!CoverageComplete(s))
            => SomeTopologyRegenerates(GuardsOf(problem.permitted))
      BY <2>0, <2>1, <3>1, UnverifiedRegenerates
    <3>. QED  BY <2>0, <2>3, <3>2 DEF CutIsNeeded
  <2>4. CASE outcome.status = "OPTIMAL"
    <3>1. /\ outcome.plan.chosen \in SUBSET problem.permitted
          /\ Feasible(outcome.plan.chosen)
          /\ \A S \in SUBSET problem.permitted :
               Feasible(S) => ~ KeyLess(PlanOf(S), outcome.plan)
      BY <2>0, <2>4 DEF CutInv, PlanIsOptimal
    <3>2. GuardsOf(outcome.plan.chosen) \in SUBSET TransitionIds
      BY <2>0, <3>1, GuardsFacts
    <3>3. EnvelopeVerdict(envelope, GuardsOf(outcome.plan.chosen)) = "RSE_VERIFIED"
      BY <2>0, <3>1, <3>2, ProblemOfEnvelope DEF Feasible
    <3>4. \A s \in envelope.scenarios : Temporal!CoverageComplete(s)
      BY <2>0, <3>3, VerifiedIsCovered
    <3>5. ASSUME NEW S \in SUBSET problem.permitted, problem.total[S] < outcome.plan.cost
          PROVE  SomeTopologyRegenerates(GuardsOf(S))
      <4>1. ~ Feasible(S)
        BY <3>1, <3>5 DEF KeyLess, PlanOf
      <4>. QED  BY <2>0, <2>1, <3>4, <4>1, UnverifiedRegenerates
    <3>. QED  BY <2>0, <2>4, <3>5 DEF CutIsNeeded
  <2>5. CASE outcome.status \notin {"UNVERIFIED", "INFEASIBLE", "OPTIMAL"}
    BY <2>5 DEF CutIsNeeded
  <2>. QED  BY <2>2, <2>3, <2>4, <2>5
<1>2. WorldInv => CutIsNeeded
  BY <1>1 DEF WorldInv, CutIsNeeded
<1>. QED  BY <1>2, InitWorldInv, StepWorldInv, PTL DEF SpecWorld

-----------------------------------------------------------------------------
(* The TOFU campaigns.  The program of a process says what it has written,  *)
(* so that the invariant relates the files to its counter and its locals.   *)

Kinds == {"v1", "v2", "v3", "empty", "smoke", "shard"}
StateNames == {"state-00", "state-01", "state-02", "state-03", "state-04", "state-05"}

\* Where a program makes the directory; "empty" goes on in it.
RootAt == [v1 |-> 2, v2 |-> 2, v3 |-> 5, empty |-> 0, smoke |-> 4, shard |-> 3]
Openings == {"readProtocol", "look", "parseProtocol", "hashProtocol"}

Configs ==
  {NoCandidate} \union {RobustChoice[w][v] : w \in DOMAIN Worlds, v \in DOMAIN Protocols}
                \union {GridChoice[w][v] : w \in DOMAIN Worlds, v \in DOMAIN Protocols}
Seeds == {Protocols[v].seeds[i] : v \in DOMAIN Protocols, i \in {1, 2}}
Trials ==
  [block : {"only", "primary", "replication"}, seed : Seeds, config : Configs,
   recipe : {Protocols[v].recipe : v \in DOMAIN Protocols}, measured : Measures]
Process ==
  [kind : Kinds, pc : Nat \ {0}, status : {"running", "raised", "killed", "done"},
   proto : DOMAIN Protocols, hash : DOMAIN Protocols, journal : {"none"} \union StateNames,
   selected : Configs, trials : Seq(Trials)]

Length(p) == Len(Programs[proc[p].kind])
TofuTypes ==
  /\ protocol \in DOMAIN Protocols /\ measurable \in DOMAIN Worlds
  /\ root \in BOOLEAN /\ early \in BOOLEAN /\ quiet \in BOOLEAN
  /\ files = [n \in DOMAIN files |-> files[n]]
  /\ proc \in [DOMAIN proc -> Process]
  /\ \A p \in DOMAIN proc :
       /\ proc[p].status # "done" => proc[p].pc <= Length(p)
       /\ proc[p].status = "done" => proc[p].pc = Length(p) + 1

\* One process at most has made the directory; the files are its files.
HasRoot(p) == proc[p].pc > RootAt[proc[p].kind]
RootInv ==
  /\ \A p \in DOMAIN proc : HasRoot(p) => root
  /\ \A p, r \in DOMAIN proc : HasRoot(p) /\ HasRoot(r) => p = r
  /\ DOMAIN files # {} => \E p \in DOMAIN proc : HasRoot(p)

\* What is written before the step n of a program.
Earlier(kind, n) ==
  {Programs[kind][m].arg : m \in {m \in 1..(n - 1) : Programs[kind][m].op = "write"}}
Inherited(kind) == IF kind = "empty" THEN {"state-00"} ELSE {}
Written(p) == Earlier(proc[p].kind, proc[p].pc) \union Inherited(proc[p].kind)
Cut(p) == IF proc[p].status = "killed" /\ Here(p).op = "write" THEN {Here(p).arg} ELSE {}
FilesOf(p) ==
  /\ Written(p) \subseteq DOMAIN files
  /\ \A name \in DOMAIN files :
       /\ files[name].by = p /\ files[name].torn \in BOOLEAN
       /\ IF files[name].torn THEN name \in Cut(p) ELSE name \in Written(p)
FilesInv == \A p \in DOMAIN proc : HasRoot(p) => FilesOf(p)

\* Until it is edited, everybody reads the first version.
ReadsFirst(p) == proc[p].proto = 1 /\ proc[p].hash = 1
VersionInv ==
  /\ ~ early /\ ~ root => protocol = 1
  /\ ~ early => \A p \in DOMAIN proc : HasRoot(p) \/ ~ root => ReadsFirst(p)
  /\ quiet => /\ protocol = 1 /\ ~ early
              /\ \A p \in DOMAIN proc : ReadsFirst(p) /\ proc[p].status # "killed"
  /\ \A p \in DOMAIN proc :
       /\ quiet /\ proc[p].kind = "v3" /\ proc[p].pc > 3 => Protocols[1].frozen
       /\ quiet /\ proc[p].kind = "smoke" /\ proc[p].pc > 2 => Protocols[1].frozen
       /\ quiet /\ proc[p].kind = "empty" => Protocols[1].frozen

\* The confirmation trials of a program, and how many come before its step n.
TrialPlan(kind) ==
  CASE kind \in {"v1", "v2"} -> <<<<"only", 1>>, <<"only", 2>>>>
    [] kind = "v3" -> <<<<"primary", 1>>, <<"replication", 1>>,
                        <<"primary", 2>>, <<"replication", 2>>>>
    [] OTHER -> <<>>
Taken(kind, n) ==
  CASE kind = "v1" -> IF n <= 4 THEN 0 ELSE IF n <= 6 THEN 1 ELSE 2
    [] kind = "v2" -> IF n <= 10 THEN 0 ELSE IF n <= 12 THEN 1 ELSE 2
    [] kind = "v3" -> IF n <= 18 THEN 0 ELSE IF n <= 20 THEN 1 ELSE IF n <= 22 THEN 2
                      ELSE IF n <= 24 THEN 3 ELSE 4
    [] OTHER -> 0
HasChosen(p) == \/ proc[p].kind = "v2" /\ proc[p].pc > 8
                \/ proc[p].kind = "v3" /\ proc[p].pc > 12
LocalsOf(p) ==
  /\ proc[p].selected = IF HasChosen(p) THEN Choice(proc[p].kind, proc[p].proto) ELSE NoCandidate
  /\ proc[p].kind = "v3" /\ HasChosen(p) => proc[p].selected # NoCandidate
  /\ Len(proc[p].trials) = Taken(proc[p].kind, proc[p].pc)
  /\ \A i \in DOMAIN proc[p].trials :
       /\ proc[p].trials[i].config = proc[p].selected
       /\ proc[p].trials[i].recipe = Protocols[proc[p].proto].recipe
       /\ proc[p].trials[i].block = TrialPlan(proc[p].kind)[i][1]
       /\ proc[p].trials[i].seed = Protocols[proc[p].proto].seeds[TrialPlan(proc[p].kind)[i][2]]
  /\ proc[p].kind = "empty" => /\ RobustChoice[measurable][proc[p].proto] = NoCandidate
LocalsInv == \A p \in DOMAIN proc : LocalsOf(p)

\* What the files of a process say.
OwnHash(p, hash) == /\ IsV3(p) => hash = proc[p].hash
                    /\ quiet => hash = 1
Says(p, name) ==
  /\ name = "development" =>
       /\ files[name].bar = Bar(p) /\ files[name].selected = proc[p].selected
       /\ files[name].decision = DevelopmentDecision(p)
  /\ name = "selection" =>
       /\ files[name].selected = proc[p].selected /\ OwnHash(p, files[name].hash)
       /\ files[name].development = files["development"]
  /\ name = "trials" /\ ~ (proc[p].kind = "v1" /\ proc[p].pc = 7) =>
       files[name].rows = proc[p].trials
  /\ name = "secondary" =>
       files[name].of = {<<t.block, t.seed>> : t \in ToSet(proc[p].trials)}
  /\ name = "summary" =>
       /\ OwnHash(p, files[name].hash) /\ files[name].selected = proc[p].selected
       /\ proc[p].trials = <<>> =>
            files[name].decision = DevelopmentDecision(p) /\ files[name].rulings = <<>>
       /\ proc[p].trials # <<>> =>
            /\ files[name].decision = Summarize(Measured(proc[p].trials), Bar(p)).decision
            /\ files[name].rulings = Rulings(proc[p].trials, Bar(p))
  /\ name \in {"manifest", "shard-manifest"} =>
       OwnHash(p, files[name].hash) /\ files[name].files = AllBut({name})
ContentInv ==
  \A p \in DOMAIN proc : HasRoot(p) =>
    \A name \in DOMAIN files : ~ files[name].torn => Says(p, name)

\* The journal is at the last state, and every state names the one before.
Latest(numbers) == IF numbers = {} THEN "none" ELSE States[Max(numbers)]
LatestFile(numbers) == IF numbers = {} THEN <<>> ELSE <<files[States[Max(numbers)]]>>
ChainInv ==
  /\ \A p \in DOMAIN proc : ~ HasRoot(p) => proc[p].journal = "none"
  /\ \A p \in DOMAIN proc : HasRoot(p) /\ proc[p].status = "running" =>
       proc[p].journal = Latest(Present)
  /\ \A i \in Present : ~ files[States[i]].torn =>
       files[States[i]].previous = LatestFile(PresentBefore(i))

TofuInv ==
  TofuTypes /\ RootInv /\ FilesInv /\ VersionInv /\ LocalsInv /\ ContentInv /\ ChainInv

-----------------------------------------------------------------------------
(* The programs by themselves.                                              *)

LEMMA ProgramsAre ==
  /\ Programs["v1"] = V1Program /\ Programs["v2"] = V2Program /\ Programs["v3"] = V3Program
  /\ Programs["empty"] = EmptyProgram /\ Programs["smoke"] = SmokeProgram
  /\ Programs["shard"] = ShardProgram
  /\ Len(V1Program) = 9 /\ Len(V2Program) = 17 /\ Len(V3Program) = 34
  /\ Len(EmptyProgram) = 5 /\ Len(SmokeProgram) = 10 /\ Len(ShardProgram) = 8
BY DEF Programs, V1Program, V2Program, V3Program, EmptyProgram, SmokeProgram, ShardProgram

\* Where the steps of a program stand, and which trial a confirmation adds.
Passing == {"openData", "train", "develop", "baseline", "relearn", "openConfirmation"}
Turn(kind, n) ==
  LET step == Programs[kind][n]
  IN  /\ step.op \in Openings \union Passing \union {"makeRoot", "select", "confirm", "write"}
      /\ step.op \in Openings <=> n < RootAt[kind]
      /\ step.op = "makeRoot" <=> n = RootAt[kind]
      /\ step.op = "readProtocol" => kind \in {"v1", "v2", "v3", "shard"} /\ n = 1
      /\ step.op = "parseProtocol" <=> (kind = "v3" /\ n = 3) \/ (kind = "smoke" /\ n = 2)
      /\ step.op = "select" <=> (kind = "v2" /\ n = 8) \/ (kind = "v3" /\ n = 12)
      /\ step.op = "confirm" =>
           /\ Taken(kind, n) + 1 \in 1..Len(TrialPlan(kind))
           /\ step.arg = TrialPlan(kind)[Taken(kind, n) + 1]
           /\ (kind = "v2" /\ n > 8) \/ (kind = "v3" /\ n > 12) \/ kind = "v1"
      /\ Taken(kind, n + 1) = Taken(kind, n) + (IF step.op = "confirm" THEN 1 ELSE 0)

LEMMA V1Turns == \A n \in 1..9 : Turn("v1", n)
BY ProgramsAre
   DEF Turn, V1Program, Do, Write, Confirm, Step, RootAt, Openings, Passing, Taken, TrialPlan

LEMMA V2Turns == \A n \in 1..17 : Turn("v2", n)
<1>. TAKE n \in 1..17
<1>. DEFINE step == V2Program[n]
<1>1. /\ step.op \in Openings \union Passing \union {"makeRoot", "select", "confirm", "write"}
      /\ step.op \in Openings <=> n < 2
      /\ step.op = "makeRoot" <=> n = 2
      /\ step.op = "readProtocol" => n = 1
  BY DEF V2Program, Do, Write, Confirm, Step, Openings, Passing
<1>2. /\ step.op = "parseProtocol" <=> FALSE
      /\ step.op = "select" <=> n = 8
  BY DEF V2Program, Do, Write, Confirm, Step
<1>3. step.op = "confirm" => n > 8
  BY DEF V2Program, Do, Write, Confirm, Step
<1>4. step.op = "confirm" =>
        /\ Taken("v2", n) + 1 \in 1..Len(TrialPlan("v2"))
        /\ step.arg = TrialPlan("v2")[Taken("v2", n) + 1]
  BY DEF V2Program, Do, Write, Confirm, Step, Taken, TrialPlan
<1>5. Taken("v2", n + 1) = Taken("v2", n) + (IF step.op = "confirm" THEN 1 ELSE 0)
  BY DEF V2Program, Do, Write, Confirm, Step, Taken
<1>. QED  BY <1>1, <1>2, <1>3, <1>4, <1>5, ProgramsAre DEF Turn, RootAt

LEMMA V3Turns == \A n \in 1..34 : Turn("v3", n)
<1>. TAKE n \in 1..34
<1>. DEFINE step == V3Program[n]
<1>1. /\ step.op \in Openings \union Passing \union {"makeRoot", "select", "confirm", "write"}
      /\ step.op \in Openings <=> n < 5
      /\ step.op = "makeRoot" <=> n = 5
      /\ step.op = "readProtocol" => n = 1
  BY DEF V3Program, Do, Write, Confirm, Step, Openings, Passing
<1>2. /\ step.op = "parseProtocol" <=> n = 3
      /\ step.op = "select" <=> n = 12
  BY DEF V3Program, Do, Write, Confirm, Step
<1>3. step.op = "confirm" => n > 12
  BY DEF V3Program, Do, Write, Confirm, Step
<1>4. step.op = "confirm" =>
        /\ Taken("v3", n) + 1 \in 1..Len(TrialPlan("v3"))
        /\ step.arg = TrialPlan("v3")[Taken("v3", n) + 1]
  <2>1. step.op = "confirm" =>
          \/ n = 18 /\ step.arg = <<"primary", 1>>
          \/ n = 20 /\ step.arg = <<"replication", 1>>
          \/ n = 22 /\ step.arg = <<"primary", 2>>
          \/ n = 24 /\ step.arg = <<"replication", 2>>
    BY DEF V3Program, Do, Write, Confirm, Step
  <2>2. /\ Taken("v3", 18) = 0 /\ Taken("v3", 20) = 1 /\ Taken("v3", 22) = 2 /\ Taken("v3", 24) = 3
        /\ Len(TrialPlan("v3")) = 4
        /\ TrialPlan("v3")[1] = <<"primary", 1>> /\ TrialPlan("v3")[2] = <<"replication", 1>>
        /\ TrialPlan("v3")[3] = <<"primary", 2>> /\ TrialPlan("v3")[4] = <<"replication", 2>>
    BY DEF Taken, TrialPlan
  <2>. QED  BY <2>1, <2>2
<1>5. Taken("v3", n + 1) = Taken("v3", n) + (IF step.op = "confirm" THEN 1 ELSE 0)
  BY DEF V3Program, Do, Write, Confirm, Step, Taken
<1>. QED  BY <1>1, <1>2, <1>3, <1>4, <1>5, ProgramsAre DEF Turn, RootAt

LEMMA EmptyTurns == \A n \in 1..5 : Turn("empty", n)
BY ProgramsAre
   DEF Turn, EmptyProgram, Do, Write, Confirm, Step, RootAt, Openings, Passing, Taken, TrialPlan

LEMMA SmokeTurns == \A n \in 1..10 : Turn("smoke", n)
BY ProgramsAre
   DEF Turn, SmokeProgram, Do, Write, Confirm, Step, RootAt, Openings, Passing, Taken, TrialPlan

LEMMA ShardTurns == \A n \in 1..8 : Turn("shard", n)
BY ProgramsAre
   DEF Turn, ShardProgram, Do, Write, Confirm, Step, RootAt, Openings, Passing, Taken, TrialPlan

LEMMA Turns ==
  ASSUME NEW kind \in Kinds, NEW n \in 1..Len(Programs[kind])
  PROVE  Turn(kind, n)
BY ProgramsAre, V1Turns, V2Turns, V3Turns, EmptyTurns, SmokeTurns, ShardTurns DEF Kinds

LEMMA Lengths ==
  ASSUME NEW kind \in Kinds
  PROVE  /\ Len(Programs[kind]) \in Nat /\ RootAt[kind] \in Nat
         /\ RootAt[kind] < Len(Programs[kind])
<1>1. /\ RootAt["v1"] = 2 /\ RootAt["v2"] = 2 /\ RootAt["v3"] = 5 /\ RootAt["empty"] = 0
      /\ RootAt["smoke"] = 4 /\ RootAt["shard"] = 3
  BY DEF RootAt
<1>2. ASSUME NEW k, kind = k,
              k = "v1" \/ k = "v2" \/ k = "v3" \/ k = "empty" \/ k = "smoke" \/ k = "shard"
      PROVE  /\ Len(Programs[k]) \in Nat /\ RootAt[k] \in Nat
             /\ RootAt[k] < Len(Programs[k])
  <2>1. CASE k = "v1"
    BY <2>1, <1>1, ProgramsAre
  <2>2. CASE k = "v2"
    BY <2>2, <1>1, ProgramsAre
  <2>3. CASE k = "v3"
    BY <2>3, <1>1, ProgramsAre
  <2>4. CASE k = "empty"
    BY <2>4, <1>1, ProgramsAre
  <2>5. CASE k = "smoke"
    BY <2>5, <1>1, ProgramsAre
  <2>6. CASE k = "shard"
    BY <2>6, <1>1, ProgramsAre
  <2>. QED  BY <1>2, <2>1, <2>2, <2>3, <2>4, <2>5, <2>6
<1>. QED  BY <1>2 DEF Kinds

\* Which files a program has written before a step.
LEMMA EarlierIs ==
  \A kind, n, name :
    name \in Earlier(kind, n) <=>
      \E m \in 1..(n - 1) : Programs[kind][m].op = "write" /\ Programs[kind][m].arg = name
BY DEF Earlier

LEMMA V1Writes ==
  \A n \in 1..9 : V1Program[n].op = "write" =>
    \/ n = 5 /\ V1Program[n].arg = "trials"
    \/ n = 7 /\ V1Program[n].arg = "trials"
    \/ n = 8 /\ V1Program[n].arg = "summary"
    \/ n = 9 /\ V1Program[n].arg = "manifest"
BY DEF V1Program, Do, Write, Confirm, Step

LEMMA V1Earlier ==
  ASSUME NEW n \in 1..10
  PROVE  LET W == Earlier("v1", n)
         IN  /\ "trials" \in W <=> n > 5
             /\ "summary" \in W <=> n > 8
             /\ "manifest" \in W <=> n > 9
             /\ W \subseteq {"trials", "summary", "manifest"}
<1>1. /\ V1Program[5].op = "write" /\ V1Program[5].arg = "trials"
      /\ V1Program[8].op = "write" /\ V1Program[8].arg = "summary"
      /\ V1Program[9].op = "write" /\ V1Program[9].arg = "manifest"
  BY DEF V1Program, Write, Step
<1>. QED  BY <1>1, V1Writes, EarlierIs, ProgramsAre

LEMMA V2Writes ==
  \A n \in 1..17 : V2Program[n].op = "write" =>
    \/ n = 9 /\ V2Program[n].arg = "development"
    \/ n = 14 /\ V2Program[n].arg = "trials"
    \/ n = 15 /\ V2Program[n].arg = "baselines"
    \/ n = 16 /\ V2Program[n].arg = "summary"
    \/ n = 17 /\ V2Program[n].arg = "manifest"
BY DEF V2Program, Do, Write, Confirm, Step

LEMMA V2Earlier ==
  ASSUME NEW n \in 1..18
  PROVE  LET W == Earlier("v2", n)
         IN  /\ "development" \in W <=> n > 9
             /\ "trials" \in W <=> n > 14
             /\ "baselines" \in W <=> n > 15
             /\ "summary" \in W <=> n > 16
             /\ "manifest" \in W <=> n > 17
             /\ W \subseteq {"development", "trials", "baselines", "summary", "manifest"}
<1>1. /\ V2Program[9].op = "write" /\ V2Program[9].arg = "development"
      /\ V2Program[14].op = "write" /\ V2Program[14].arg = "trials"
      /\ V2Program[15].op = "write" /\ V2Program[15].arg = "baselines"
      /\ V2Program[16].op = "write" /\ V2Program[16].arg = "summary"
      /\ V2Program[17].op = "write" /\ V2Program[17].arg = "manifest"
  BY DEF V2Program, Write, Step
<1>. DEFINE W == Earlier("v2", n)
<1>2. ASSUME NEW name
      PROVE  name \in W <=>
               \E m \in 1..(n - 1) : V2Program[m].op = "write" /\ V2Program[m].arg = name
  BY EarlierIs, ProgramsAre
<1>. HIDE DEF W
<1>3. /\ "development" \in W <=> n > 9
      /\ "trials" \in W <=> n > 14
      /\ "baselines" \in W <=> n > 15
  BY <1>1, <1>2, V2Writes
<1>4. /\ "summary" \in W <=> n > 16
      /\ "manifest" \in W <=> n > 17
  BY <1>1, <1>2, V2Writes
<1>5. W \subseteq {"development", "trials", "baselines", "summary", "manifest"}
  BY <1>2, V2Writes
<1>. QED  BY <1>3, <1>4, <1>5 DEF W

LEMMA V3Writes ==
  \A n \in 1..34 : V3Program[n].op = "write" =>
    \/ n = 6 /\ V3Program[n].arg = "state-00"
    \/ n = 13 /\ V3Program[n].arg = "development"
    \/ n = 14 /\ V3Program[n].arg = "state-01"
    \/ n = 15 /\ V3Program[n].arg = "selection"
    \/ n = 16 /\ V3Program[n].arg = "state-02"
    \/ n = 26 /\ V3Program[n].arg = "trials"
    \/ n = 27 /\ V3Program[n].arg = "baselines"
    \/ n = 28 /\ V3Program[n].arg = "state-03"
    \/ n = 30 /\ V3Program[n].arg = "secondary"
    \/ n = 31 /\ V3Program[n].arg = "state-04"
    \/ n = 32 /\ V3Program[n].arg = "summary"
    \/ n = 33 /\ V3Program[n].arg = "state-05"
    \/ n = 34 /\ V3Program[n].arg = "manifest"
BY DEF V3Program, Do, Write, Confirm, Step

LEMMA V3Earlier ==
  ASSUME NEW n \in 1..35
  PROVE  LET W == Earlier("v3", n)
         IN  /\ "state-00" \in W <=> n > 6
             /\ "development" \in W <=> n > 13
             /\ "state-01" \in W <=> n > 14
             /\ "selection" \in W <=> n > 15
             /\ "state-02" \in W <=> n > 16
             /\ "trials" \in W <=> n > 26
             /\ "baselines" \in W <=> n > 27
             /\ "state-03" \in W <=> n > 28
             /\ "secondary" \in W <=> n > 30
             /\ "state-04" \in W <=> n > 31
             /\ "summary" \in W <=> n > 32
             /\ "state-05" \in W <=> n > 33
             /\ "manifest" \in W <=> n > 34
             /\ W \subseteq {"state-00", "development", "state-01", "selection", "state-02",
                             "trials", "baselines", "state-03", "secondary", "state-04",
                             "summary", "state-05", "manifest"}
<1>1. /\ V3Program[6].op = "write" /\ V3Program[6].arg = "state-00"
      /\ V3Program[13].op = "write" /\ V3Program[13].arg = "development"
      /\ V3Program[14].op = "write" /\ V3Program[14].arg = "state-01"
      /\ V3Program[15].op = "write" /\ V3Program[15].arg = "selection"
      /\ V3Program[16].op = "write" /\ V3Program[16].arg = "state-02"
      /\ V3Program[26].op = "write" /\ V3Program[26].arg = "trials"
      /\ V3Program[27].op = "write" /\ V3Program[27].arg = "baselines"
      /\ V3Program[28].op = "write" /\ V3Program[28].arg = "state-03"
      /\ V3Program[30].op = "write" /\ V3Program[30].arg = "secondary"
      /\ V3Program[31].op = "write" /\ V3Program[31].arg = "state-04"
      /\ V3Program[32].op = "write" /\ V3Program[32].arg = "summary"
      /\ V3Program[33].op = "write" /\ V3Program[33].arg = "state-05"
      /\ V3Program[34].op = "write" /\ V3Program[34].arg = "manifest"
  BY DEF V3Program, Write, Step
<1>. DEFINE W == Earlier("v3", n)
<1>2. ASSUME NEW name
      PROVE  name \in W <=>
               \E m \in 1..(n - 1) : V3Program[m].op = "write" /\ V3Program[m].arg = name
  BY EarlierIs, ProgramsAre
<1>. HIDE DEF W
<1>3. /\ "state-00" \in W <=> n > 6
      /\ "development" \in W <=> n > 13
      /\ "state-01" \in W <=> n > 14
  BY <1>1, <1>2, V3Writes
<1>4. /\ "selection" \in W <=> n > 15
      /\ "state-02" \in W <=> n > 16
      /\ "trials" \in W <=> n > 26
  BY <1>1, <1>2, V3Writes
<1>5. /\ "baselines" \in W <=> n > 27
      /\ "state-03" \in W <=> n > 28
      /\ "secondary" \in W <=> n > 30
  BY <1>1, <1>2, V3Writes
<1>6. /\ "state-04" \in W <=> n > 31
      /\ "summary" \in W <=> n > 32
      /\ "state-05" \in W <=> n > 33
  BY <1>1, <1>2, V3Writes
<1>7. /\ "manifest" \in W <=> n > 34
  BY <1>1, <1>2, V3Writes
<1>8. W \subseteq {"state-00", "development", "state-01", "selection", "state-02", "trials",
                    "baselines", "state-03", "secondary", "state-04", "summary", "state-05",
                    "manifest"}
  BY <1>2, V3Writes
<1>. QED  BY <1>3, <1>4, <1>5, <1>6, <1>7, <1>8 DEF W

LEMMA EmptyWrites ==
  \A n \in 1..5 : EmptyProgram[n].op = "write" =>
    \/ n = 1 /\ EmptyProgram[n].arg = "development"
    \/ n = 2 /\ EmptyProgram[n].arg = "state-01"
    \/ n = 3 /\ EmptyProgram[n].arg = "summary"
    \/ n = 4 /\ EmptyProgram[n].arg = "state-05"
    \/ n = 5 /\ EmptyProgram[n].arg = "manifest"
BY DEF EmptyProgram, Do, Write, Confirm, Step

LEMMA EmptyEarlier ==
  ASSUME NEW n \in 1..6
  PROVE  LET W == Earlier("empty", n)
         IN  /\ "development" \in W <=> n > 1
             /\ "state-01" \in W <=> n > 2
             /\ "summary" \in W <=> n > 3
             /\ "state-05" \in W <=> n > 4
             /\ "manifest" \in W <=> n > 5
             /\ W \subseteq {"development", "state-01", "summary", "state-05", "manifest"}
<1>1. /\ EmptyProgram[1].op = "write" /\ EmptyProgram[1].arg = "development"
      /\ EmptyProgram[2].op = "write" /\ EmptyProgram[2].arg = "state-01"
      /\ EmptyProgram[3].op = "write" /\ EmptyProgram[3].arg = "summary"
      /\ EmptyProgram[4].op = "write" /\ EmptyProgram[4].arg = "state-05"
      /\ EmptyProgram[5].op = "write" /\ EmptyProgram[5].arg = "manifest"
  BY DEF EmptyProgram, Write, Step
<1>. DEFINE W == Earlier("empty", n)
<1>2. ASSUME NEW name
      PROVE  name \in W <=>
               \E m \in 1..(n - 1) : EmptyProgram[m].op = "write" /\ EmptyProgram[m].arg = name
  BY EarlierIs, ProgramsAre
<1>. HIDE DEF W
<1>3. /\ "development" \in W <=> n > 1
      /\ "state-01" \in W <=> n > 2
      /\ "summary" \in W <=> n > 3
  BY <1>1, <1>2, EmptyWrites
<1>4. /\ "state-05" \in W <=> n > 4
      /\ "manifest" \in W <=> n > 5
  BY <1>1, <1>2, EmptyWrites
<1>5. W \subseteq {"development", "state-01", "summary", "state-05", "manifest"}
  BY <1>2, EmptyWrites
<1>. QED  BY <1>3, <1>4, <1>5 DEF W

LEMMA SmokeWrites ==
  \A n \in 1..10 : SmokeProgram[n].op = "write" =>
    \/ n = 5 /\ SmokeProgram[n].arg = "state-00"
    \/ n = 6 /\ SmokeProgram[n].arg = "development"
    \/ n = 7 /\ SmokeProgram[n].arg = "state-01"
    \/ n = 8 /\ SmokeProgram[n].arg = "summary"
    \/ n = 9 /\ SmokeProgram[n].arg = "state-05"
    \/ n = 10 /\ SmokeProgram[n].arg = "manifest"
BY DEF SmokeProgram, Do, Write, Confirm, Step

LEMMA SmokeEarlier ==
  ASSUME NEW n \in 1..11
  PROVE  LET W == Earlier("smoke", n)
         IN  /\ "state-00" \in W <=> n > 5
             /\ "development" \in W <=> n > 6
             /\ "state-01" \in W <=> n > 7
             /\ "summary" \in W <=> n > 8
             /\ "state-05" \in W <=> n > 9
             /\ "manifest" \in W <=> n > 10
             /\ W \subseteq {"state-00", "development", "state-01", "summary", "state-05",
                             "manifest"}
<1>1. /\ SmokeProgram[5].op = "write" /\ SmokeProgram[5].arg = "state-00"
      /\ SmokeProgram[6].op = "write" /\ SmokeProgram[6].arg = "development"
      /\ SmokeProgram[7].op = "write" /\ SmokeProgram[7].arg = "state-01"
      /\ SmokeProgram[8].op = "write" /\ SmokeProgram[8].arg = "summary"
      /\ SmokeProgram[9].op = "write" /\ SmokeProgram[9].arg = "state-05"
      /\ SmokeProgram[10].op = "write" /\ SmokeProgram[10].arg = "manifest"
  BY DEF SmokeProgram, Write, Step
<1>. DEFINE W == Earlier("smoke", n)
<1>2. ASSUME NEW name
      PROVE  name \in W <=>
               \E m \in 1..(n - 1) : SmokeProgram[m].op = "write" /\ SmokeProgram[m].arg = name
  BY EarlierIs, ProgramsAre
<1>. HIDE DEF W
<1>3. /\ "state-00" \in W <=> n > 5
      /\ "development" \in W <=> n > 6
      /\ "state-01" \in W <=> n > 7
  BY <1>1, <1>2, SmokeWrites
<1>4. /\ "summary" \in W <=> n > 8
      /\ "state-05" \in W <=> n > 9
      /\ "manifest" \in W <=> n > 10
  BY <1>1, <1>2, SmokeWrites
<1>5. W \subseteq {"state-00", "development", "state-01", "summary", "state-05", "manifest"}
  BY <1>2, SmokeWrites
<1>. QED  BY <1>3, <1>4, <1>5 DEF W

LEMMA ShardWrites ==
  \A n \in 1..8 : ShardProgram[n].op = "write" =>
    \/ n = 7 /\ ShardProgram[n].arg = "shard-trials"
    \/ n = 8 /\ ShardProgram[n].arg = "shard-manifest"
BY DEF ShardProgram, Do, Write, Confirm, Step

LEMMA ShardEarlier ==
  ASSUME NEW n \in 1..9
  PROVE  LET W == Earlier("shard", n)
         IN  /\ "shard-trials" \in W <=> n > 7
             /\ "shard-manifest" \in W <=> n > 8
             /\ W \subseteq {"shard-trials", "shard-manifest"}
<1>1. /\ ShardProgram[7].op = "write" /\ ShardProgram[7].arg = "shard-trials"
      /\ ShardProgram[8].op = "write" /\ ShardProgram[8].arg = "shard-manifest"
  BY DEF ShardProgram, Write, Step
<1>. QED  BY <1>1, ShardWrites, EarlierIs, ProgramsAre

\* The order of the writes.
Names == StateNames \union
  {"development", "selection", "trials", "baselines", "secondary", "summary", "manifest",
   "shard-trials", "shard-manifest"}
InHand(kind, n) == Earlier(kind, n) \union Inherited(kind)
Orderly(kind, n) ==
  LET W == InHand(kind, n)
      step == Programs[kind][n]
  IN  /\ step.op = "select" =>
           W \subseteq {"state-00"} /\ (kind = "v3" => "state-00" \in W)
      /\ step.op = "confirm" =>
           /\ W \intersect {"secondary", "summary", "manifest", "shard-manifest"} = {}
           /\ "trials" \in W => kind = "v1" /\ n = 6
      /\ step.op = "write" =>
           /\ step.arg \in Names
           /\ step.arg \in W => kind = "v1" /\ n = 7 /\ step.arg = "trials"
           /\ W \intersect {"manifest", "shard-manifest"} = {}
           /\ step.arg = "development" => "selection" \notin W
           /\ \A i, j \in 1..6 : step.arg = States[i] /\ States[j] \in W => j < i
      /\ kind = "v1" /\ n = 7 => step.op = "write" /\ step.arg = "trials"

LEMMA StatesAre ==
  /\ Len(States) = 6 /\ DOMAIN States = 1..6
  /\ States[1] = "state-00" /\ States[2] = "state-01" /\ States[3] = "state-02"
  /\ States[4] = "state-03" /\ States[5] = "state-04" /\ States[6] = "state-05"
  /\ ToSet(States) = StateNames
BY DEF States, ToSet, StateNames

LEMMA V1Order == \A n \in 1..9 : Orderly("v1", n)
<1>. TAKE n \in 1..9
<1>. DEFINE W == InHand("v1", n)
            step == V1Program[n]
<1>1. /\ step.op = "select" => FALSE
      /\ step.op = "confirm" => n = 4 \/ n = 6
  BY DEF V1Program, Do, Write, Confirm, Step
<1>2. n \in 1..10 /\ InHand("v1", n) = Earlier("v1", n) \union Inherited("v1")
  BY DEF InHand
<1>3. Inherited("v1") = {}
  BY DEF Inherited
<1>. HIDE DEF W
<1>4. W = Earlier("v1", n) \union {}
  BY <1>2, <1>3 DEF W
<1>5. /\ step.op = "select" =>
           W \subseteq {"state-00"} /\ ("v1" = "v3" => "state-00" \in W)
      /\ step.op = "confirm" =>
           /\ W \intersect {"secondary", "summary", "manifest", "shard-manifest"} = {}
           /\ "trials" \in W => "v1" = "v1" /\ n = 6
  BY <1>1, <1>2, <1>4, V1Earlier
<1>6. step.op = "write" =>
        /\ step.arg \in Names
        /\ step.arg \in W => "v1" = "v1" /\ n = 7 /\ step.arg = "trials"
        /\ W \intersect {"manifest", "shard-manifest"} = {}
        /\ step.arg = "development" => "selection" \notin W
  BY <1>2, <1>4, V1Writes, V1Earlier DEF Names, StateNames
<1>7. step.op = "write" =>
        \A i, j \in 1..6 : step.arg = States[i] /\ States[j] \in W => j < i
  BY <1>2, <1>4, V1Writes, V1Earlier, StatesAre
<1>8. "v1" = "v1" /\ n = 7 => step.op = "write" /\ step.arg = "trials"
  BY DEF V1Program, Do, Write, Confirm, Step
<1>. QED  BY <1>5, <1>6, <1>7, <1>8, ProgramsAre DEF W, Orderly

LEMMA V2Order == \A n \in 1..17 : Orderly("v2", n)
<1>. TAKE n \in 1..17
<1>. DEFINE W == InHand("v2", n)
            step == V2Program[n]
<1>1. /\ step.op = "select" => n = 8
      /\ step.op = "confirm" => n < 13
  BY DEF V2Program, Do, Write, Confirm, Step
<1>2. n \in 1..18 /\ InHand("v2", n) = Earlier("v2", n) \union Inherited("v2")
  BY DEF InHand
<1>3. Inherited("v2") = {}
  BY DEF Inherited
<1>. HIDE DEF W
<1>4. W = Earlier("v2", n) \union {}
  BY <1>2, <1>3 DEF W
<1>5. /\ step.op = "select" =>
           W \subseteq {"state-00"} /\ ("v2" = "v3" => "state-00" \in W)
      /\ step.op = "confirm" =>
           /\ W \intersect {"secondary", "summary", "manifest", "shard-manifest"} = {}
           /\ "trials" \in W => "v2" = "v1" /\ n = 6
  BY <1>1, <1>2, <1>4, V2Earlier
<1>6. step.op = "write" =>
        /\ step.arg \in Names
        /\ step.arg \in W => "v2" = "v1" /\ n = 7 /\ step.arg = "trials"
        /\ W \intersect {"manifest", "shard-manifest"} = {}
        /\ step.arg = "development" => "selection" \notin W
  BY <1>2, <1>4, V2Writes, V2Earlier DEF Names, StateNames
<1>7. step.op = "write" =>
        \A i, j \in 1..6 : step.arg = States[i] /\ States[j] \in W => j < i
  BY <1>2, <1>4, V2Writes, V2Earlier, StatesAre
<1>8. "v2" = "v1" /\ n = 7 => step.op = "write" /\ step.arg = "trials"
  BY DEF V2Program, Do, Write, Confirm, Step
<1>. QED  BY <1>5, <1>6, <1>7, <1>8, ProgramsAre DEF W, Orderly

LEMMA V3Order == \A n \in 1..34 : Orderly("v3", n)
<1>. TAKE n \in 1..34
<1>. DEFINE W == InHand("v3", n)
            step == V3Program[n]
<1>1. /\ step.op = "select" => n = 12
      /\ step.op = "confirm" => n < 25
  BY DEF V3Program, Do, Write, Confirm, Step
<1>2. n \in 1..35 /\ InHand("v3", n) = Earlier("v3", n) \union Inherited("v3")
  BY DEF InHand
<1>3. Inherited("v3") = {}
  BY DEF Inherited
<1>. HIDE DEF W
<1>4. W = Earlier("v3", n) \union {}
  BY <1>2, <1>3 DEF W
<1>5. /\ step.op = "select" =>
           W \subseteq {"state-00"} /\ ("v3" = "v3" => "state-00" \in W)
      /\ step.op = "confirm" =>
           /\ W \intersect {"secondary", "summary", "manifest", "shard-manifest"} = {}
           /\ "trials" \in W => "v3" = "v1" /\ n = 6
  BY <1>1, <1>2, <1>4, V3Earlier
<1>6. step.op = "write" =>
        /\ step.arg \in Names
        /\ step.arg \in W => "v3" = "v1" /\ n = 7 /\ step.arg = "trials"
        /\ W \intersect {"manifest", "shard-manifest"} = {}
        /\ step.arg = "development" => "selection" \notin W
  BY <1>2, <1>4, V3Writes, V3Earlier DEF Names, StateNames
<1>7. step.op = "write" =>
        \A i, j \in 1..6 : step.arg = States[i] /\ States[j] \in W => j < i
  BY <1>2, <1>4, V3Writes, V3Earlier, StatesAre
<1>8. "v3" = "v1" /\ n = 7 => step.op = "write" /\ step.arg = "trials"
  BY DEF V3Program, Do, Write, Confirm, Step
<1>. QED  BY <1>5, <1>6, <1>7, <1>8, ProgramsAre DEF W, Orderly

LEMMA EmptyOrder == \A n \in 1..5 : Orderly("empty", n)
<1>. TAKE n \in 1..5
<1>. DEFINE W == InHand("empty", n)
            step == EmptyProgram[n]
<1>1. /\ step.op = "select" => FALSE
      /\ step.op = "confirm" => FALSE
  BY DEF EmptyProgram, Do, Write, Confirm, Step
<1>2. n \in 1..6 /\ InHand("empty", n) = Earlier("empty", n) \union Inherited("empty")
  BY DEF InHand
<1>3. Inherited("empty") = {"state-00"}
  BY DEF Inherited
<1>. HIDE DEF W
<1>4. W = Earlier("empty", n) \union {"state-00"}
  BY <1>2, <1>3 DEF W
<1>5. /\ step.op = "select" =>
           W \subseteq {"state-00"} /\ ("empty" = "v3" => "state-00" \in W)
      /\ step.op = "confirm" =>
           /\ W \intersect {"secondary", "summary", "manifest", "shard-manifest"} = {}
           /\ "trials" \in W => "empty" = "v1" /\ n = 6
  BY <1>1, <1>2, <1>4, EmptyEarlier
<1>6. step.op = "write" =>
        /\ step.arg \in Names
        /\ step.arg \in W => "empty" = "v1" /\ n = 7 /\ step.arg = "trials"
        /\ W \intersect {"manifest", "shard-manifest"} = {}
        /\ step.arg = "development" => "selection" \notin W
  BY <1>2, <1>4, EmptyWrites, EmptyEarlier DEF Names, StateNames
<1>7. step.op = "write" =>
        \A i, j \in 1..6 : step.arg = States[i] /\ States[j] \in W => j < i
  BY <1>2, <1>4, EmptyWrites, EmptyEarlier, StatesAre
<1>8. "empty" = "v1" /\ n = 7 => step.op = "write" /\ step.arg = "trials"
  BY DEF EmptyProgram, Do, Write, Confirm, Step
<1>. QED  BY <1>5, <1>6, <1>7, <1>8, ProgramsAre DEF W, Orderly

LEMMA SmokeOrder == \A n \in 1..10 : Orderly("smoke", n)
<1>. TAKE n \in 1..10
<1>. DEFINE W == InHand("smoke", n)
            step == SmokeProgram[n]
<1>1. /\ step.op = "select" => FALSE
      /\ step.op = "confirm" => FALSE
  BY DEF SmokeProgram, Do, Write, Confirm, Step
<1>2. n \in 1..11 /\ InHand("smoke", n) = Earlier("smoke", n) \union Inherited("smoke")
  BY DEF InHand
<1>3. Inherited("smoke") = {}
  BY DEF Inherited
<1>. HIDE DEF W
<1>4. W = Earlier("smoke", n) \union {}
  BY <1>2, <1>3 DEF W
<1>5. /\ step.op = "select" =>
           W \subseteq {"state-00"} /\ ("smoke" = "v3" => "state-00" \in W)
      /\ step.op = "confirm" =>
           /\ W \intersect {"secondary", "summary", "manifest", "shard-manifest"} = {}
           /\ "trials" \in W => "smoke" = "v1" /\ n = 6
  BY <1>1, <1>2, <1>4, SmokeEarlier
<1>6. step.op = "write" =>
        /\ step.arg \in Names
        /\ step.arg \in W => "smoke" = "v1" /\ n = 7 /\ step.arg = "trials"
        /\ W \intersect {"manifest", "shard-manifest"} = {}
        /\ step.arg = "development" => "selection" \notin W
  BY <1>2, <1>4, SmokeWrites, SmokeEarlier DEF Names, StateNames
<1>7. step.op = "write" =>
        \A i, j \in 1..6 : step.arg = States[i] /\ States[j] \in W => j < i
  BY <1>2, <1>4, SmokeWrites, SmokeEarlier, StatesAre
<1>8. "smoke" = "v1" /\ n = 7 => step.op = "write" /\ step.arg = "trials"
  BY DEF SmokeProgram, Do, Write, Confirm, Step
<1>. QED  BY <1>5, <1>6, <1>7, <1>8, ProgramsAre DEF W, Orderly

LEMMA ShardOrder == \A n \in 1..8 : Orderly("shard", n)
<1>. TAKE n \in 1..8
<1>. DEFINE W == InHand("shard", n)
            step == ShardProgram[n]
<1>1. /\ step.op = "select" => FALSE
      /\ step.op = "confirm" => FALSE
  BY DEF ShardProgram, Do, Write, Confirm, Step
<1>2. n \in 1..9 /\ InHand("shard", n) = Earlier("shard", n) \union Inherited("shard")
  BY DEF InHand
<1>3. Inherited("shard") = {}
  BY DEF Inherited
<1>. HIDE DEF W
<1>4. W = Earlier("shard", n) \union {}
  BY <1>2, <1>3 DEF W
<1>5. /\ step.op = "select" =>
           W \subseteq {"state-00"} /\ ("shard" = "v3" => "state-00" \in W)
      /\ step.op = "confirm" =>
           /\ W \intersect {"secondary", "summary", "manifest", "shard-manifest"} = {}
           /\ "trials" \in W => "shard" = "v1" /\ n = 6
  BY <1>1, <1>2, <1>4, ShardEarlier
<1>6. step.op = "write" =>
        /\ step.arg \in Names
        /\ step.arg \in W => "shard" = "v1" /\ n = 7 /\ step.arg = "trials"
        /\ W \intersect {"manifest", "shard-manifest"} = {}
        /\ step.arg = "development" => "selection" \notin W
  BY <1>2, <1>4, ShardWrites, ShardEarlier DEF Names, StateNames
<1>7. step.op = "write" =>
        \A i, j \in 1..6 : step.arg = States[i] /\ States[j] \in W => j < i
  BY <1>2, <1>4, ShardWrites, ShardEarlier, StatesAre
<1>8. "shard" = "v1" /\ n = 7 => step.op = "write" /\ step.arg = "trials"
  BY DEF ShardProgram, Do, Write, Confirm, Step
<1>. QED  BY <1>5, <1>6, <1>7, <1>8, ProgramsAre DEF W, Orderly

LEMMA Orders ==
  ASSUME NEW kind \in Kinds, NEW n \in 1..Len(Programs[kind])
  PROVE  Orderly(kind, n)
BY ProgramsAre, V1Order, V2Order, V3Order, EmptyOrder, SmokeOrder, ShardOrder DEF Kinds

-----------------------------------------------------------------------------
(* The steps, by what they do to the process that makes them.               *)

\* The process stops where it is, or goes on without touching its locals.
Stops(p) == proc[p].status = "running" /\ Raise(p) /\ OnDisk
Fails(p) ==
  /\ proc[p].status = "running" /\ Raise(p)
  /\ left' = left - 1 /\ quiet' = FALSE
  /\ UNCHANGED <<protocol, root, files, measurable, early>>
Passes(p) ==
  /\ proc[p].status = "running"
  /\ Here(p).op \in {"look", "parseProtocol"} \union Passing
  /\ Here(p).op = "parseProtocol" => Protocols[protocol].frozen
  /\ Advance(p, proc[p]) /\ OnDisk
Reads(p) ==
  /\ Doing(p, "readProtocol")
  /\ Advance(p, [proc[p] EXCEPT !.proto = protocol]) /\ OnDisk
Hashes(p) ==
  /\ Doing(p, "hashProtocol")
  /\ Advance(p, [proc[p] EXCEPT !.hash = protocol]) /\ OnDisk
Makes(p) ==
  /\ Doing(p, "makeRoot") /\ ~ root /\ root' = TRUE
  /\ Advance(p, proc[p])
  /\ UNCHANGED <<protocol, files, measurable, faults>>
TurnsAway(p) ==
  /\ Doing(p, "select") /\ proc[p].kind = "v3"
  /\ Choice(proc[p].kind, proc[p].proto) = NoCandidate
  /\ proc' = [proc EXCEPT ![p].kind = "empty", ![p].pc = 1]
  /\ OnDisk
Chooses(p) ==
  /\ Doing(p, "select")
  /\ proc[p].kind = "v3" => Choice(proc[p].kind, proc[p].proto) # NoCandidate
  /\ Advance(p, [proc[p] EXCEPT !.selected = Choice(proc[p].kind, proc[p].proto)])
  /\ OnDisk
Writes(p) ==
  /\ Doing(p, "write") /\ MayWrite(p, Here(p).arg)
  /\ files' = Put(Here(p).arg, Content(p, Here(p).arg))
  /\ Advance(p, IF Here(p).arg \in ToSet(States)
                THEN [proc[p] EXCEPT !.journal = Here(p).arg] ELSE proc[p])
  /\ UNCHANGED <<protocol, root, measurable, faults>>
StepOf(p) ==
  \/ Stops(p) \/ Fails(p) \/ Passes(p) \/ Reads(p) \/ Hashes(p) \/ Makes(p)
  \/ TurnsAway(p) \/ Chooses(p) \/ ConfirmTrial(p) \/ Writes(p) \/ Kill(p)

\* A step that looks at the protocol file, for the author split only.
Idles == UNCHANGED <<protocol, root, files, measurable, proc, faults>>

LEMMA Classes ==
  ASSUME TofuNext
  PROVE  (\E p \in DOMAIN proc : StepOf(p)) \/ Edit \/ Idles
<1>1. ASSUME NEW p \in DOMAIN proc,
             \/ ReadProtocol(p) \/ Look(p) \/ ParseProtocol(p) \/ HashProtocol(p)
      PROVE  StepOf(p)
  BY <1>1 DEF ReadProtocol, Look, ParseProtocol, HashProtocol, Doing, StepOf, Stops, Passes,
              Reads, Hashes
<1>2. ASSUME NEW p \in DOMAIN proc, MakeRoot(p)
      PROVE  StepOf(p)
  <2>1. CASE root
    BY <1>2, <2>1 DEF MakeRoot, Doing, StepOf, Stops, OnDisk
  <2>2. CASE ~ root
    BY <1>2, <2>2 DEF MakeRoot, StepOf, Makes
  <2>. QED  BY <2>1, <2>2
<1>3. ASSUME NEW p \in DOMAIN proc,
             \/ OpenData(p) \/ TrainTarget(p) \/ EvaluatePaths(p)
             \/ RunBaselines(p) \/ Relearn(p) \/ OpenConfirmation(p) \/ ReadConfirmation(p)
      PROVE  StepOf(p) \/ Idles
  <2>1. CASE OpenData(p)
    BY <2>1 DEF OpenData, Doing, Passing, StepOf, Stops, Passes
  <2>2. CASE TrainTarget(p) \/ EvaluatePaths(p) \/ RunBaselines(p) \/ Relearn(p)
    BY <2>2 DEF TrainTarget, EvaluatePaths, RunBaselines, Relearn, Computes, Doing, Passing,
                StepOf, Passes
  <2>3. CASE OpenConfirmation(p)
    BY <2>3 DEF OpenConfirmation, Doing, Passing, StepOf, Stops, Passes
  <2>4. CASE ReadConfirmation(p)
    BY <2>4 DEF ReadConfirmation, Doing, StepOf, Stops, Idles, OnDisk
  <2>. QED  BY <1>3, <2>1, <2>2, <2>3, <2>4
<1>4. ASSUME NEW p \in DOMAIN proc, SelectPoint(p)
      PROVE  StepOf(p)
  <2>1. CASE proc[p].kind = "v3" /\ Choice(proc[p].kind, proc[p].proto) = NoCandidate
    BY <1>4, <2>1 DEF SelectPoint, StepOf, TurnsAway
  <2>2. CASE ~ (proc[p].kind = "v3" /\ Choice(proc[p].kind, proc[p].proto) = NoCandidate)
    BY <1>4, <2>2 DEF SelectPoint, StepOf, Chooses
  <2>. QED  BY <2>1, <2>2
<1>5. ASSUME NEW p \in DOMAIN proc, Fail(p)
      PROVE  StepOf(p)
  BY <1>5 DEF Fail, Disturb, StepOf, Fails
<1>6. ASSUME NEW p \in DOMAIN proc, WriteFile(p)
      PROVE  StepOf(p)
  <2>1. CASE MayWrite(p, Here(p).arg)
    BY <1>6, <2>1 DEF WriteFile, StepOf, Writes
  <2>2. CASE ~ MayWrite(p, Here(p).arg)
    BY <1>6, <2>2 DEF WriteFile, Doing, StepOf, Stops, OnDisk
  <2>. QED  BY <2>1, <2>2
<1>7. ASSUME NEW p \in DOMAIN proc, HashExpected(p)
      PROVE  Idles
  BY <1>7 DEF HashExpected, OnDisk, Idles
<1>8. UNCHANGED tofuVars => Idles
  BY DEF tofuVars, Idles
<1>. QED  BY <1>1, <1>2, <1>3, <1>4, <1>5, <1>6, <1>7, <1>8 DEF TofuNext, Ended, StepOf

\* One step further, with the locals of next.
LEMMA Advancing ==
  ASSUME TofuTypes, NEW p \in DOMAIN proc, proc[p].status = "running",
         NEW next \in Process, next.kind = proc[p].kind, next.pc = proc[p].pc,
         next.status = "running", Advance(p, next)
  PROVE  /\ proc' \in [DOMAIN proc -> Process] /\ DOMAIN proc' = DOMAIN proc
         /\ \A r \in DOMAIN proc : r # p => proc'[r] = proc[r]
         /\ proc'[p].kind = proc[p].kind /\ proc'[p].pc = proc[p].pc + 1
         /\ proc'[p].proto = next.proto /\ proc'[p].hash = next.hash
         /\ proc'[p].journal = next.journal /\ proc'[p].selected = next.selected
         /\ proc'[p].trials = next.trials
         /\ proc'[p].status \in {"running", "done"}
         /\ proc'[p].status = "done" <=> proc[p].pc = Length(p)
<1>. DEFINE status == IF proc[p].pc = Len(Programs[next.kind]) THEN "done" ELSE "running"
            now == [next EXCEPT !.pc = @ + 1, !.status = status]
<1>1. proc' = [proc EXCEPT ![p] = now]
  BY DEF Advance
<1>2. proc \in [DOMAIN proc -> Process]
  BY DEF TofuTypes
<1>3. now \in Process
  <2>1. next.pc + 1 \in Nat \ {0} /\ status \in {"running", "raised", "killed", "done"}
    BY DEF Process
  <2>. QED  BY <2>1 DEF Process
<1>4. proc'[p] = now /\ \A r \in DOMAIN proc : r # p => proc'[r] = proc[r]
  BY <1>1, <1>2
<1>5. /\ now.kind = next.kind /\ now.pc = next.pc + 1 /\ now.proto = next.proto
      /\ now.hash = next.hash /\ now.journal = next.journal /\ now.selected = next.selected
      /\ now.trials = next.trials /\ now.status = status
  BY DEF Process
<1>. HIDE DEF now
<1>6. proc' \in [DOMAIN proc -> Process]
  BY <1>1, <1>2, <1>3
<1>7. DOMAIN proc' = DOMAIN proc
  BY <1>6
<1>. QED  BY <1>4, <1>5, <1>6, <1>7 DEF Length

LEMMA Stopping ==
  ASSUME TofuTypes, NEW p \in DOMAIN proc, NEW status \in {"raised", "killed"},
         proc' = [proc EXCEPT ![p].status = status]
  PROVE  /\ proc' \in [DOMAIN proc -> Process] /\ DOMAIN proc' = DOMAIN proc
         /\ \A r \in DOMAIN proc : r # p => proc'[r] = proc[r]
         /\ proc'[p].kind = proc[p].kind /\ proc'[p].pc = proc[p].pc
         /\ proc'[p].proto = proc[p].proto /\ proc'[p].hash = proc[p].hash
         /\ proc'[p].journal = proc[p].journal /\ proc'[p].selected = proc[p].selected
         /\ proc'[p].trials = proc[p].trials /\ proc'[p].status = status
<1>. DEFINE now == [proc[p] EXCEPT !.status = status]
<1>1. proc \in [DOMAIN proc -> Process]
  BY DEF TofuTypes
<1>2. proc[p] \in Process
  BY <1>1
<1>3. now \in Process
  BY <1>2 DEF Process
<1>4. proc'[p] = now /\ \A r \in DOMAIN proc : r # p => proc'[r] = proc[r]
  BY <1>1
<1>5. /\ now.kind = proc[p].kind /\ now.pc = proc[p].pc /\ now.proto = proc[p].proto
      /\ now.hash = proc[p].hash /\ now.journal = proc[p].journal
      /\ now.selected = proc[p].selected /\ now.trials = proc[p].trials /\ now.status = status
  BY <1>2 DEF Process
<1>6. proc' = [proc EXCEPT ![p] = now]
  BY <1>1
<1>. HIDE DEF now
<1>7. proc' \in [DOMAIN proc -> Process]
  BY <1>1, <1>3, <1>6
<1>8. DOMAIN proc' = DOMAIN proc
  BY <1>7
<1>. QED  BY <1>4, <1>5, <1>7, <1>8

LEMMA AtStep ==
  ASSUME TofuTypes, NEW p \in DOMAIN proc, proc[p].status # "done"
  PROVE  /\ proc[p] \in Process /\ proc[p].kind \in Kinds
         /\ proc[p].pc \in 1..Length(p) /\ Length(p) \in Nat
         /\ Here(p) = Programs[proc[p].kind][proc[p].pc]
         /\ Turn(proc[p].kind, proc[p].pc) /\ Orderly(proc[p].kind, proc[p].pc)
<1>1. proc[p] \in Process /\ proc[p].pc <= Length(p)
  BY DEF TofuTypes
<1>2. proc[p].kind \in Kinds /\ proc[p].pc \in Nat \ {0}
  BY <1>1 DEF Process
<1>3. Length(p) \in Nat
  BY <1>2, Lengths DEF Length
<1>4. proc[p].pc \in 1..Len(Programs[proc[p].kind])
  BY <1>1, <1>2, <1>3 DEF Length
<1>. QED  BY <1>1, <1>2, <1>3, <1>4, Turns, Orders DEF Here, Length

LEMMA ChoiceIsConfig ==
  ASSUME TofuTypes, NEW kind, NEW version \in DOMAIN Protocols
  PROVE  Choice(kind, version) \in Configs
BY DEF TofuTypes, Choice, Configs

LEMMA PlannedIs ==
  \A kind \in Kinds : \A i \in 1..Len(TrialPlan(kind)) :
    /\ TrialPlan(kind)[i][1] \in {"only", "primary", "replication"}
    /\ TrialPlan(kind)[i][2] \in {1, 2}
<1>1. \A i \in 1..Len(TrialPlan("v1")) :
        TrialPlan("v1")[i][1] \in {"only", "primary", "replication"} /\ TrialPlan("v1")[i][2] \in {1, 2}
  BY DEF TrialPlan
<1>2. \A i \in 1..Len(TrialPlan("v3")) :
        TrialPlan("v3")[i][1] \in {"only", "primary", "replication"} /\ TrialPlan("v3")[i][2] \in {1, 2}
  BY DEF TrialPlan
<1>3. TrialPlan("v2") = TrialPlan("v1")
  BY DEF TrialPlan
<1>4. \A kind \in Kinds : kind \notin {"v1", "v2", "v3"} => TrialPlan(kind) = <<>>
  BY DEF TrialPlan, Kinds
<1>5. Len(<<>>) = 0
  OBVIOUS
<1>. QED  BY <1>1, <1>2, <1>3, <1>4, <1>5

\* The trial that a confirmation adds.
NewTrial(p, measured) ==
  [block |-> Here(p).arg[1], seed |-> Protocols[proc[p].proto].seeds[Here(p).arg[2]],
   config |-> proc[p].selected, recipe |-> Protocols[proc[p].proto].recipe,
   measured |-> measured]

LEMMA NewTrialIs ==
  ASSUME TofuTypes, NEW p \in DOMAIN proc, Doing(p, "confirm"), NEW measured \in Measures
  PROVE  NewTrial(p, measured) \in Trials
<1>1. /\ proc[p] \in Process /\ proc[p].kind \in Kinds
      /\ Here(p).arg = TrialPlan(proc[p].kind)[Taken(proc[p].kind, proc[p].pc) + 1]
      /\ Taken(proc[p].kind, proc[p].pc) + 1 \in 1..Len(TrialPlan(proc[p].kind))
  BY AtStep DEF Doing, Turn
<1>2. Here(p).arg[1] \in {"only", "primary", "replication"} /\ Here(p).arg[2] \in {1, 2}
  BY <1>1, PlannedIs
<1>3. proc[p].proto \in DOMAIN Protocols /\ proc[p].selected \in Configs
  BY <1>1 DEF Process
<1>4. Protocols[proc[p].proto].seeds[Here(p).arg[2]] \in Seeds
  BY <1>2, <1>3 DEF Seeds
<1>. QED  BY <1>2, <1>3, <1>4 DEF NewTrial, Trials

\* Who changes what: only the process that makes the step changes, and it goes
\* on, unless it stops or turns away from the selection.
GoesOn(p) == /\ proc'[p].kind = proc[p].kind /\ proc'[p].pc = proc[p].pc + 1
             /\ proc'[p].status \in {"running", "done"}
             /\ proc'[p].status = "done" <=> proc[p].pc = Length(p)
Halts(p) == /\ proc'[p].kind = proc[p].kind /\ proc'[p].pc = proc[p].pc
            /\ proc'[p].status \in {"raised", "killed"}
Keeps(p) == /\ proc'[p].proto = proc[p].proto /\ proc'[p].hash = proc[p].hash
            /\ proc'[p].journal = proc[p].journal /\ proc'[p].selected = proc[p].selected
            /\ proc'[p].trials = proc[p].trials
Effect(p) ==
  \/ (Stops(p) \/ Fails(p) \/ Kill(p)) /\ Halts(p) /\ Keeps(p)
  \/ (Passes(p) \/ Makes(p)) /\ GoesOn(p) /\ Keeps(p)
  \/ /\ Reads(p) /\ GoesOn(p) /\ proc'[p].proto = protocol /\ proc'[p].hash = proc[p].hash
     /\ proc'[p].selected = proc[p].selected /\ proc'[p].trials = proc[p].trials
     /\ proc'[p].journal = proc[p].journal
  \/ /\ Hashes(p) /\ GoesOn(p) /\ proc'[p].hash = protocol /\ proc'[p].proto = proc[p].proto
     /\ proc'[p].selected = proc[p].selected /\ proc'[p].trials = proc[p].trials
     /\ proc'[p].journal = proc[p].journal
  \/ /\ TurnsAway(p) /\ Keeps(p)
     /\ proc'[p].kind = "empty" /\ proc'[p].pc = 1 /\ proc'[p].status = "running"
  \/ /\ Chooses(p) /\ GoesOn(p)
     /\ proc'[p].selected = Choice(proc[p].kind, proc[p].proto)
     /\ proc'[p].proto = proc[p].proto /\ proc'[p].hash = proc[p].hash
     /\ proc'[p].trials = proc[p].trials /\ proc'[p].journal = proc[p].journal
  \/ /\ ConfirmTrial(p) /\ GoesOn(p)
     /\ \E measured \in Measures : proc'[p].trials = Append(proc[p].trials, NewTrial(p, measured))
     /\ proc'[p].proto = proc[p].proto /\ proc'[p].hash = proc[p].hash
     /\ proc'[p].selected = proc[p].selected /\ proc'[p].journal = proc[p].journal
  \/ /\ Writes(p) /\ GoesOn(p)
     /\ proc'[p].proto = proc[p].proto /\ proc'[p].hash = proc[p].hash
     /\ proc'[p].selected = proc[p].selected /\ proc'[p].trials = proc[p].trials
     /\ proc'[p].journal = IF Here(p).arg \in StateNames THEN Here(p).arg ELSE proc[p].journal

Rest(p) == /\ proc' \in [DOMAIN proc -> Process] /\ DOMAIN proc' = DOMAIN proc
           /\ \A r \in DOMAIN proc : r # p => proc'[r] = proc[r]

LEMMA Effects ==
  ASSUME TofuTypes, NEW p \in DOMAIN proc, StepOf(p)
  PROVE  Effect(p) /\ Rest(p)
<1>1. CASE Stops(p) \/ Fails(p) \/ Kill(p)
  <2>1. \E status \in {"raised", "killed"} : proc' = [proc EXCEPT ![p].status = status]
    BY <1>1 DEF Stops, Fails, Kill, Raise
  <2>. QED  BY <1>1, <2>1, Stopping DEF Effect, Halts, Keeps, Rest
<1>2. ASSUME proc[p].status = "running"
      PROVE  proc[p] \in Process
  BY <1>2, AtStep
<1>3. CASE Passes(p) \/ Makes(p)
  <2>1. proc[p].status = "running" /\ Advance(p, proc[p])
    BY <1>3 DEF Passes, Makes, Doing
  <2>. QED  BY <1>2, <1>3, <2>1, Advancing DEF Effect, GoesOn, Keeps, Rest
<1>4. CASE Reads(p)
  <2>. DEFINE next == [proc[p] EXCEPT !.proto = protocol]
  <2>1. proc[p].status = "running" /\ Advance(p, next)
    BY <1>4 DEF Reads, Doing
  <2>2. /\ next \in Process /\ next.kind = proc[p].kind /\ next.pc = proc[p].pc
        /\ next.status = "running" /\ next.proto = protocol /\ next.hash = proc[p].hash
        /\ next.journal = proc[p].journal /\ next.selected = proc[p].selected
        /\ next.trials = proc[p].trials
    BY <1>2, <2>1 DEF Process, TofuTypes
  <2>. HIDE DEF next
  <2>. QED  BY <1>4, <2>1, <2>2, Advancing DEF Effect, GoesOn, Rest
<1>5. CASE Hashes(p)
  <2>. DEFINE next == [proc[p] EXCEPT !.hash = protocol]
  <2>1. proc[p].status = "running" /\ Advance(p, next)
    BY <1>5 DEF Hashes, Doing
  <2>2. /\ next \in Process /\ next.kind = proc[p].kind /\ next.pc = proc[p].pc
        /\ next.status = "running" /\ next.hash = protocol /\ next.proto = proc[p].proto
        /\ next.journal = proc[p].journal /\ next.selected = proc[p].selected
        /\ next.trials = proc[p].trials
    BY <1>2, <2>1 DEF Process, TofuTypes
  <2>. HIDE DEF next
  <2>. QED  BY <1>5, <2>1, <2>2, Advancing DEF Effect, GoesOn, Rest
<1>6. CASE TurnsAway(p)
  <2>. DEFINE now == [proc[p] EXCEPT !.kind = "empty", !.pc = 1]
  <2>1. proc \in [DOMAIN proc -> Process] /\ proc[p] \in Process /\ proc[p].status = "running"
    BY <1>2, <1>6 DEF TofuTypes, TurnsAway, Doing
  <2>2. /\ now \in Process /\ now.kind = "empty" /\ now.pc = 1 /\ now.status = "running"
        /\ now.proto = proc[p].proto /\ now.hash = proc[p].hash
        /\ now.journal = proc[p].journal /\ now.selected = proc[p].selected
        /\ now.trials = proc[p].trials
    <3>1. 1 \in Nat \ {0} /\ "empty" \in Kinds
      BY DEF Kinds
    <3>. QED  BY <2>1, <3>1 DEF Process
  <2>3. proc' = [proc EXCEPT ![p] = now]
    BY <1>6, <2>1 DEF TurnsAway
  <2>. HIDE DEF now
  <2>4. /\ proc' \in [DOMAIN proc -> Process] /\ proc'[p] = now
        /\ \A r \in DOMAIN proc : r # p => proc'[r] = proc[r]
    BY <2>1, <2>2, <2>3
  <2>5. DOMAIN proc' = DOMAIN proc
    BY <2>4
  <2>. QED  BY <1>6, <2>2, <2>4, <2>5 DEF Effect, Keeps, Rest
<1>7. CASE Chooses(p)
  <2>. DEFINE choice == Choice(proc[p].kind, proc[p].proto)
              next == [proc[p] EXCEPT !.selected = choice]
  <2>1. proc[p].status = "running" /\ Advance(p, next)
    BY <1>7 DEF Chooses, Doing
  <2>2. choice \in Configs
    BY <1>2, <2>1, ChoiceIsConfig DEF Process
  <2>. HIDE DEF choice
  <2>3. /\ next \in Process /\ next.kind = proc[p].kind /\ next.pc = proc[p].pc
        /\ next.status = "running" /\ next.hash = proc[p].hash /\ next.proto = proc[p].proto
        /\ next.journal = proc[p].journal /\ next.selected = choice
        /\ next.trials = proc[p].trials
    BY <1>2, <2>1, <2>2 DEF Process
  <2>. HIDE DEF next
  <2>. QED  BY <1>7, <2>1, <2>3, Advancing DEF Effect, GoesOn, Rest, choice
<1>8. CASE ConfirmTrial(p)
  <2>1. PICK measured \in Measures :
          Advance(p, [proc[p] EXCEPT !.trials = Append(@, NewTrial(p, measured))])
    BY <1>8 DEF ConfirmTrial, NewTrial
  <2>. DEFINE new == NewTrial(p, measured)
              next == [proc[p] EXCEPT !.trials = Append(@, new)]
  <2>2. proc[p].status = "running" /\ Advance(p, next) /\ new \in Trials
    BY <1>8, <2>1, NewTrialIs DEF ConfirmTrial, Doing
  <2>. HIDE DEF new
  <2>3. proc[p].trials \in Seq(Trials) /\ Append(proc[p].trials, new) \in Seq(Trials)
    BY <1>2, <2>2 DEF Process
  <2>4. /\ next \in Process /\ next.kind = proc[p].kind /\ next.pc = proc[p].pc
        /\ next.status = "running" /\ next.hash = proc[p].hash /\ next.proto = proc[p].proto
        /\ next.journal = proc[p].journal /\ next.selected = proc[p].selected
        /\ next.trials = Append(proc[p].trials, new)
    BY <1>2, <2>2, <2>3 DEF Process
  <2>. HIDE DEF next
  <2>. QED  BY <1>8, <2>2, <2>4, Advancing DEF Effect, GoesOn, Rest, new
<1>9. CASE Writes(p)
  <2>. DEFINE next == IF Here(p).arg \in ToSet(States)
                      THEN [proc[p] EXCEPT !.journal = Here(p).arg] ELSE proc[p]
  <2>1. proc[p].status = "running" /\ Advance(p, next)
    BY <1>9 DEF Writes, Doing
  <2>2. /\ next \in Process /\ next.kind = proc[p].kind /\ next.pc = proc[p].pc
        /\ next.status = "running" /\ next.hash = proc[p].hash /\ next.proto = proc[p].proto
        /\ next.journal = IF Here(p).arg \in StateNames THEN Here(p).arg ELSE proc[p].journal
        /\ next.selected = proc[p].selected /\ next.trials = proc[p].trials
    BY <1>2, <2>1, StatesAre DEF Process
  <2>. HIDE DEF next
  <2>. QED  BY <1>9, <2>1, <2>2, Advancing DEF Effect, GoesOn, Rest
<1>. QED  BY <1>1, <1>3, <1>4, <1>5, <1>6, <1>7, <1>8, <1>9 DEF StepOf

LEMMA PutIs ==
  ASSUME NEW name, NEW content
  PROVE  /\ DOMAIN Put(name, content) = DOMAIN files \union {name}
         /\ Put(name, content)[name] = content
         /\ \A n \in DOMAIN files : n # name => Put(name, content)[n] = files[n]
BY DEF Put

LEMMA FilesAre ==
  ASSUME NEW p, StepOf(p)
  PROVE  \/ files' = files
         \/ \E name, content : files' = Put(name, content)
BY DEF StepOf, Stops, Fails, Passes, Reads, Hashes, Makes, TurnsAway, Chooses, ConfirmTrial,
       Writes, Kill, OnDisk

LEMMA TypesKept ==
  ASSUME TofuTypes, NEW p \in DOMAIN proc, StepOf(p)
  PROVE  TofuTypes'
<1>1. Effect(p) /\ Rest(p)
  BY Effects
<1>2. /\ protocol' \in DOMAIN Protocols /\ measurable' \in DOMAIN Worlds
      /\ root' \in BOOLEAN /\ early' \in BOOLEAN /\ quiet' \in BOOLEAN
  <2>1. /\ protocol' = protocol /\ measurable' = measurable /\ early' = early
        /\ root' = root \/ root' = TRUE
        /\ quiet' = quiet \/ quiet' = FALSE
    BY DEF StepOf, Stops, Fails, Passes, Reads, Hashes, Makes, TurnsAway, Chooses, ConfirmTrial,
           Writes, Kill, OnDisk, Disturb, faults
  <2>. QED  BY <2>1 DEF TofuTypes
<1>3. files' = [n \in DOMAIN files' |-> files'[n]]
  <2>1. CASE files' = files
    <3>1. files = [n \in DOMAIN files |-> files[n]]
      BY DEF TofuTypes
    <3>. QED  BY <2>1, <3>1
  <2>2. ASSUME NEW name, NEW content, files' = Put(name, content)
        PROVE  files' = [n \in DOMAIN files' |-> files'[n]]
    BY <2>2 DEF Put
  <2>. QED  BY <2>1, <2>2, FilesAre
<1>4. ASSUME NEW r \in DOMAIN proc
      PROVE  /\ proc'[r].status # "done" => proc'[r].pc <= Length(r)'
             /\ proc'[r].status = "done" => proc'[r].pc = Length(r)' + 1
  <2>1. CASE r # p
    <3>1. proc'[r] = proc[r]
      BY <1>1, <2>1 DEF Rest
    <3>. QED  BY <3>1 DEF TofuTypes, Length
  <2>2. CASE r = p /\ GoesOn(p)
    <3>1. proc[p].status = "running"
      BY DEF StepOf, Stops, Fails, Passes, Reads, Hashes, Makes, TurnsAway, Chooses,
             ConfirmTrial, Writes, Kill, Doing
    <3>2. proc[p].pc \in 1..Length(p) /\ Length(p) \in Nat
      BY <3>1, AtStep
    <3>3. Length(p)' = Length(p)
      BY <2>2 DEF GoesOn, Length
    <3>. QED  BY <2>2, <3>2, <3>3 DEF GoesOn
  <2>3. CASE r = p /\ Halts(p)
    <3>1. proc[p].status = "running"
      BY DEF StepOf, Stops, Fails, Passes, Reads, Hashes, Makes, TurnsAway, Chooses,
             ConfirmTrial, Writes, Kill, Doing
    <3>. QED  BY <2>3, <3>1, AtStep DEF Halts, Length
  <2>4. CASE r = p /\ proc'[p].kind = "empty" /\ proc'[p].pc = 1 /\ proc'[p].status = "running"
    BY <2>4, ProgramsAre DEF Length
  <2>. QED  BY <1>1, <2>1, <2>2, <2>3, <2>4 DEF Effect
<1>5. \A r \in DOMAIN proc' :
        /\ proc'[r].status # "done" => proc'[r].pc <= Length(r)'
        /\ proc'[r].status = "done" => proc'[r].pc = Length(r)' + 1
  BY <1>1, <1>4 DEF Rest
<1>6. proc' \in [DOMAIN proc' -> Process]
  BY <1>1 DEF Rest
<1>. QED  BY <1>2, <1>3, <1>5, <1>6 DEF TofuTypes

\* Before it makes the directory a process only reads and looks; afterwards it
\* does not read the protocol any more.
LEMMA Rooted ==
  ASSUME TofuTypes, NEW p \in DOMAIN proc, StepOf(p)
  PROVE  /\ proc[p].status = "running"
         /\ HasRoot(p) <=> Here(p).op \notin Openings \union {"makeRoot"}
         /\ HasRoot(p)' <=> HasRoot(p) \/ Makes(p)
<1>1. proc[p].status = "running"
  BY DEF StepOf, Stops, Fails, Passes, Reads, Hashes, Makes, TurnsAway, Chooses, ConfirmTrial,
         Writes, Kill, Doing
<1>2. /\ proc[p].pc \in 1..Length(p) /\ Length(p) \in Nat /\ RootAt[proc[p].kind] \in Nat
      /\ Turn(proc[p].kind, proc[p].pc) /\ Here(p) = Programs[proc[p].kind][proc[p].pc]
  BY <1>1, AtStep, Lengths
<1>3. /\ Here(p).op \in Openings <=> proc[p].pc < RootAt[proc[p].kind]
      /\ Here(p).op = "makeRoot" <=> proc[p].pc = RootAt[proc[p].kind]
  BY <1>2 DEF Turn
<1>4. HasRoot(p) <=> Here(p).op \notin Openings \union {"makeRoot"}
  BY <1>2, <1>3 DEF HasRoot
<1>5. Effect(p)
  BY Effects
<1>6. Makes(p) => Here(p).op = "makeRoot"
  BY DEF Makes, Doing
<1>7. CASE Halts(p) /\ (Stops(p) \/ Fails(p) \/ Kill(p))
  <2>1. HasRoot(p)' <=> HasRoot(p)
    BY <1>7 DEF Halts, HasRoot
  <2>2. ~ Makes(p)
    <3>1. proc[p] \in Process
      BY <1>1, AtStep
    <3>2. Makes(p) => proc'[p].status \in {"running", "done"}
      BY <1>1, <3>1, Advancing DEF Makes
    <3>. QED  BY <1>7, <3>2 DEF Halts
  <2>. QED  BY <1>1, <1>4, <2>1, <2>2
<1>8. CASE TurnsAway(p) /\ proc'[p].kind = "empty" /\ proc'[p].pc = 1
  <2>1. RootAt["empty"] = 0
    BY DEF RootAt
  <2>2. Here(p).op = "select"
    BY <1>8 DEF TurnsAway, Doing
  <2>3. HasRoot(p)
    BY <1>4, <2>2 DEF Openings
  <2>4. HasRoot(p)'
    BY <1>8, <2>1 DEF HasRoot
  <2>. QED  BY <1>1, <1>4, <2>3, <2>4
<1>9. CASE GoesOn(p) /\ (Here(p).op = "makeRoot" => Makes(p))
  <2>1. HasRoot(p)' <=> proc[p].pc + 1 > RootAt[proc[p].kind]
    BY <1>9 DEF GoesOn, HasRoot
  <2>2. HasRoot(p)' <=> HasRoot(p) \/ Here(p).op = "makeRoot"
    BY <1>2, <1>3, <2>1 DEF HasRoot
  <2>. QED  BY <1>1, <1>4, <1>6, <1>9, <2>2
<1>10. \/ Halts(p) /\ (Stops(p) \/ Fails(p) \/ Kill(p))
       \/ TurnsAway(p) /\ proc'[p].kind = "empty" /\ proc'[p].pc = 1
       \/ GoesOn(p) /\ (Here(p).op = "makeRoot" => Makes(p))
  BY <1>5 DEF Effect, Passes, Reads, Hashes, Chooses, ConfirmTrial, Writes, Doing, Passing
<1>. QED  BY <1>7, <1>8, <1>9, <1>10

LEMMA EarlierGrows ==
  ASSUME NEW kind \in Kinds, NEW n \in 1..Len(Programs[kind])
  PROVE  Earlier(kind, n + 1) = Earlier(kind, n) \union
           (IF Programs[kind][n].op = "write" THEN {Programs[kind][n].arg} ELSE {})
<1>1. Len(Programs[kind]) \in Nat
  BY Lengths
<1>2. \A m : m \in 1..(n + 1 - 1) <=> m \in 1..(n - 1) \/ m = n
  BY <1>1
<1>3. ASSUME NEW name
      PROVE  name \in Earlier(kind, n + 1) <=>
               \/ name \in Earlier(kind, n)
               \/ Programs[kind][n].op = "write" /\ Programs[kind][n].arg = name
  <2>1. name \in Earlier(kind, n + 1) <=>
          \E m \in 1..(n + 1 - 1) : Programs[kind][m].op = "write" /\ Programs[kind][m].arg = name
    BY EarlierIs
  <2>2. name \in Earlier(kind, n) <=>
          \E m \in 1..(n - 1) : Programs[kind][m].op = "write" /\ Programs[kind][m].arg = name
    BY EarlierIs
  <2>. QED  BY <1>2, <2>1, <2>2, Zenon
<1>4. Programs[kind][n].op # "write" => Earlier(kind, n + 1) = Earlier(kind, n)
  BY <1>3
<1>5. Programs[kind][n].op = "write" =>
        Earlier(kind, n + 1) = Earlier(kind, n) \union {Programs[kind][n].arg}
  BY <1>3
<1>. QED  BY <1>4, <1>5

\* What is written under each name.
LEMMA StateIs ==
  ASSUME NEW p, NEW name \in StateNames
  PROVE  Content(p, name).previous = IF proc[p].journal = "none" THEN <<>>
                                     ELSE <<files[proc[p].journal]>>
BY StatesAre DEF Content, StateNames

LEMMA DevelopmentIs ==
  ASSUME NEW p
  PROVE  LET content == Content(p, "development")
         IN  /\ content.bar = Bar(p) /\ content.selected = proc[p].selected
             /\ content.decision = DevelopmentDecision(p)
BY StatesAre DEF Content, StateNames

LEMMA SelectionIs ==
  ASSUME NEW p
  PROVE  LET content == Content(p, "selection")
         IN  /\ content.selected = proc[p].selected /\ content.hash = RecordedHash(p)
             /\ content.development = files["development"]
BY StatesAre DEF Content, StateNames

LEMMA TrialsAre ==
  ASSUME NEW p
  PROVE  Content(p, "trials").rows = proc[p].trials
BY StatesAre DEF Content, StateNames

LEMMA SecondaryIs ==
  ASSUME NEW p
  PROVE  Content(p, "secondary").of = {<<t.block, t.seed>> : t \in ToSet(proc[p].trials)}
BY StatesAre DEF Content, StateNames

LEMMA SummaryIs ==
  ASSUME NEW p
  PROVE  LET content == Content(p, "summary")
         IN  /\ content.hash = RecordedHash(p) /\ content.selected = proc[p].selected
             /\ content.decision = IF proc[p].trials = <<>> THEN DevelopmentDecision(p)
                                   ELSE Summarize(Measured(proc[p].trials), Bar(p)).decision
             /\ content.rulings = IF proc[p].trials = <<>> THEN <<>>
                                  ELSE Rulings(proc[p].trials, Bar(p))
BY StatesAre DEF Content, StateNames

LEMMA ManifestIs ==
  ASSUME NEW p, NEW name \in {"manifest", "shard-manifest"}
  PROVE  Content(p, name).files = files /\ Content(p, name).hash = RecordedHash(p)
BY StatesAre DEF Content, StateNames

LEMMA ContentIsWhole ==
  ASSUME NEW p, NEW name \in Names
  PROVE  Content(p, name).by = p /\ Content(p, name).torn = FALSE
<1>1. CASE name \in StateNames
  BY <1>1, StatesAre DEF Content, StateNames
<1>2. CASE name = "development"
  BY <1>2, StatesAre DEF Content, StateNames
<1>3. CASE name = "selection"
  BY <1>3, StatesAre DEF Content, StateNames
<1>4. CASE name = "trials"
  BY <1>4, StatesAre DEF Content, StateNames
<1>5. CASE name \in {"baselines", "shard-trials"}
  BY <1>5, StatesAre DEF Content, StateNames
<1>6. CASE name = "secondary"
  BY <1>6, StatesAre DEF Content, StateNames
<1>7. CASE name = "summary"
  BY <1>7, StatesAre DEF Content, StateNames
<1>8. CASE name \in {"manifest", "shard-manifest"}
  BY <1>8, StatesAre DEF Content, StateNames
<1>. QED  BY <1>1, <1>2, <1>3, <1>4, <1>5, <1>6, <1>7, <1>8 DEF Names

LEMMA NothingYet ==
  ASSUME NEW kind \in Kinds, NEW n \in 1..Len(Programs[kind]), n = RootAt[kind]
  PROVE  Earlier(kind, n + 1) = {}
<1>1. ASSUME NEW m \in 1..(n + 1 - 1)
      PROVE  Programs[kind][m].op # "write"
  <2>1. m \in 1..Len(Programs[kind]) /\ m <= RootAt[kind]
    BY Lengths
  <2>2. Turn(kind, m)
    BY <2>1, Turns
  <2>3. "write" \notin Openings \union {"makeRoot"}
    BY DEF Openings
  <2>4. m = RootAt[kind] \/ m < RootAt[kind]
    BY <2>1, Lengths
  <2>. QED  BY <2>2, <2>3, <2>4 DEF Turn
<1>2. ASSUME NEW name
      PROVE  name \notin Earlier(kind, n + 1)
  BY <1>1, EarlierIs
<1>. QED  BY <1>2

\* Only the process that has made the directory touches a file.
LEMMA WhoWrites ==
  ASSUME TofuTypes, NEW p \in DOMAIN proc, StepOf(p)
  PROVE  /\ files' # files => HasRoot(p) /\ (Writes(p) \/ Kill(p)) /\ Here(p).op = "write"
         /\ Makes(p) => files' = files
<1>1. files' # files => (Writes(p) \/ Kill(p)) /\ Here(p).op = "write"
  BY DEF StepOf, Stops, Fails, Passes, Reads, Hashes, Makes, TurnsAway, Chooses, ConfirmTrial,
         Writes, Kill, OnDisk, Doing
<1>2. "write" \notin Openings \union {"makeRoot"}
  BY DEF Openings
<1>. QED  BY <1>1, <1>2, Rooted DEF Makes

LEMMA RootKept ==
  ASSUME TofuTypes, RootInv, NEW p \in DOMAIN proc, StepOf(p)
  PROVE  /\ RootInv'
         /\ Makes(p) => \A r \in DOMAIN proc : ~ HasRoot(r)
<1>1. Rest(p) /\ (HasRoot(p)' <=> HasRoot(p) \/ Makes(p))
  BY Effects, Rooted
<1>2. \A r \in DOMAIN proc : r # p => (HasRoot(r)' <=> HasRoot(r))
  BY <1>1 DEF Rest, HasRoot
<1>3. Makes(p) => ~ root /\ root' = TRUE /\ \A r \in DOMAIN proc : ~ HasRoot(r)
  BY DEF Makes, RootInv
<1>4. root => root'
  BY DEF StepOf, Stops, Fails, Passes, Reads, Hashes, Makes, TurnsAway, Chooses, ConfirmTrial,
         Writes, Kill, OnDisk
<1>5. DOMAIN proc' = DOMAIN proc
  BY <1>1 DEF Rest
<1>6. \A r \in DOMAIN proc : HasRoot(r)' => root'
  BY <1>1, <1>2, <1>3, <1>4 DEF RootInv
<1>7. \A r, q \in DOMAIN proc : HasRoot(r)' /\ HasRoot(q)' => r = q
  BY <1>1, <1>2, <1>3 DEF RootInv
<1>8. DOMAIN files' # {} => \E r \in DOMAIN proc : HasRoot(r)'
  BY <1>1, <1>2, WhoWrites DEF RootInv
<1>. QED  BY <1>3, <1>5, <1>6, <1>7, <1>8 DEF RootInv

LEMMA FilesKept ==
  ASSUME TofuTypes, RootInv, FilesInv, NEW p \in DOMAIN proc, StepOf(p)
  PROVE  FilesInv'
<1>1. /\ Effect(p) /\ Rest(p) /\ proc[p].status = "running"
      /\ HasRoot(p)' <=> HasRoot(p) \/ Makes(p)
  BY Effects, Rooted
<1>2. /\ proc[p].kind \in Kinds /\ proc[p].pc \in 1..Length(p) /\ Length(p) \in Nat
      /\ Here(p) = Programs[proc[p].kind][proc[p].pc]
      /\ Turn(proc[p].kind, proc[p].pc) /\ Orderly(proc[p].kind, proc[p].pc)
  BY <1>1, AtStep
<1>3. Cut(p) = {}
  BY <1>1 DEF Cut
<1>4. ASSUME NEW r \in DOMAIN proc, r # p, HasRoot(r)'
      PROVE  FilesOf(r)'
  <2>1. proc'[r] = proc[r] /\ HasRoot(r)
    BY <1>1, <1>4 DEF Rest, HasRoot
  <2>2. files' = files
    BY <1>4, <2>1, WhoWrites DEF RootInv
  <2>3. Written(r)' = Written(r) /\ Cut(r)' = Cut(r)
    BY <2>1 DEF Written, Cut, Here
  <2>. QED  BY <2>1, <2>2, <2>3 DEF FilesInv, FilesOf
<1>5. ASSUME Makes(p)
      PROVE  FilesOf(p)'
  <2>1. DOMAIN files = {} /\ files' = files
    BY <1>5, RootKept, WhoWrites DEF RootInv
  <2>2. Here(p).op = "makeRoot" /\ GoesOn(p)
    <3>1. proc[p] \in Process
      BY <1>1, AtStep
    <3>2. Advance(p, proc[p])
      BY <1>5 DEF Makes
    <3>3. GoesOn(p)
      BY <1>1, <3>1, <3>2, Advancing DEF GoesOn
    <3>. QED  BY <1>5, <3>3 DEF Makes, Doing
  <2>3. proc[p].pc = RootAt[proc[p].kind]
    BY <1>2, <2>2 DEF Turn
  <2>4. Earlier(proc[p].kind, proc[p].pc + 1) = {}
    BY <1>2, <2>3, NothingYet DEF Length
  <2>5. proc[p].kind # "empty"
    BY <1>2, <2>3 DEF RootAt
  <2>6. Written(p)' = {}
    BY <2>2, <2>4, <2>5 DEF GoesOn, Written, Inherited
  <2>. QED  BY <2>1, <2>6 DEF FilesOf
<1>6. ASSUME HasRoot(p), Stops(p) \/ Fails(p), Halts(p)
      PROVE  FilesOf(p)'
  <2>1. files' = files /\ Written(p)' = Written(p)
    BY <1>6 DEF Stops, Fails, OnDisk, Halts, Written
  <2>2. \A name \in DOMAIN files : ~ files[name].torn
    BY <1>3, <1>6 DEF FilesInv, FilesOf
  <2>. QED  BY <1>6, <2>1, <2>2 DEF FilesInv, FilesOf
<1>7. ASSUME HasRoot(p), Kill(p), Halts(p)
      PROVE  FilesOf(p)'
  <2>1. Written(p)' = Written(p) /\ Here(p)' = Here(p)
    BY <1>7 DEF Halts, Written, Here
  <2>2. FilesOf(p) /\ \A name \in DOMAIN files : ~ files[name].torn
    BY <1>3, <1>7 DEF FilesInv, FilesOf
  <2>3. CASE files' = files
    BY <2>1, <2>2, <2>3 DEF FilesOf
  <2>4. CASE /\ Here(p).op = "write"
             /\ files' = Put(Here(p).arg, [by |-> p, torn |-> TRUE])
    <3>. DEFINE cut == [by |-> p, torn |-> TRUE]
    <3>1. cut.by = p /\ cut.torn = TRUE
      OBVIOUS
    <3>2. Cut(p)' = {Here(p).arg}
      <4>1. proc'[p].status = "killed"
        <5>1. proc \in [DOMAIN proc -> Process]
          BY DEF TofuTypes
        <5>2. proc' = [proc EXCEPT ![p].status = "killed"]
          BY <1>7 DEF Kill
        <5>. QED  BY <5>2, Stopping
      <4>. QED  BY <2>1, <2>4, <4>1 DEF Cut
    <3>3. /\ DOMAIN files' = DOMAIN files \union {Here(p).arg} /\ files'[Here(p).arg] = cut
          /\ \A n \in DOMAIN files : n # Here(p).arg => files'[n] = files[n]
      BY <2>4, PutIs
    <3>. HIDE DEF cut
    <3>. QED  BY <2>1, <2>2, <3>1, <3>2, <3>3 DEF FilesOf
  <2>. QED  BY <1>7, <2>3, <2>4 DEF Kill
<1>8. ASSUME HasRoot(p), TurnsAway(p), proc'[p].kind = "empty", proc'[p].pc = 1
      PROVE  FilesOf(p)'
  <2>1. Written(p) = {"state-00"}
    BY <1>2, <1>8 DEF TurnsAway, Doing, Orderly, InHand, Written
  <2>2. Written(p)' = {"state-00"}
    <3>1. Earlier("empty", 1) = {}
      BY EarlierIs
    <3>. QED  BY <1>8, <3>1 DEF Written, Inherited
  <2>3. files' = files
    BY <1>8 DEF TurnsAway, OnDisk
  <2>. QED  BY <1>3, <1>8, <2>1, <2>2, <2>3 DEF FilesInv, FilesOf
<1>9. ASSUME HasRoot(p), GoesOn(p), ~ Makes(p)
      PROVE  FilesOf(p)'
  <2>1. Written(p)' = Written(p) \union (IF Here(p).op = "write" THEN {Here(p).arg} ELSE {})
    <3>1. proc'[p].kind = proc[p].kind /\ proc'[p].pc = proc[p].pc + 1
      BY <1>9 DEF GoesOn
    <3>2. Earlier(proc[p].kind, proc[p].pc + 1) =
            Earlier(proc[p].kind, proc[p].pc)
              \union (IF Here(p).op = "write" THEN {Here(p).arg} ELSE {})
      <4>1. proc[p].kind \in Kinds /\ proc[p].pc \in 1..Len(Programs[proc[p].kind])
        BY <1>2 DEF Length
      <4>2. Here(p) = Programs[proc[p].kind][proc[p].pc]
        BY <1>2
      <4>. QED  BY <4>1, <4>2, EarlierGrows
    <3>. QED  BY <3>1, <3>2 DEF Written
  <2>2. FilesOf(p) /\ \A name \in DOMAIN files : ~ files[name].torn
    BY <1>3, <1>9 DEF FilesInv, FilesOf
  <2>3. CASE Writes(p)
    <3>1. PICK name \in Names :
            Here(p).op = "write" /\ files' = Put(name, Content(p, name)) /\ name = Here(p).arg
      BY <1>2, <2>3 DEF Writes, Doing, Orderly
    <3>2. /\ DOMAIN files' = DOMAIN files \union {name} /\ files'[name] = Content(p, name)
          /\ \A n \in DOMAIN files : n # name => files'[n] = files[n]
      BY <3>1 DEF Put
    <3>3. Content(p, name).by = p /\ Content(p, name).torn = FALSE
      BY ContentIsWhole
    <3>4. Written(p)' = Written(p) \union {name}
      BY <2>1, <3>1
    <3>. QED  BY <2>2, <3>2, <3>3, <3>4 DEF FilesOf
  <2>4. CASE ~ Writes(p)
    <3>1. ~ (Stops(p) \/ Fails(p) \/ Kill(p))
      <4>1. ASSUME Stops(p) \/ Fails(p) \/ Kill(p)
            PROVE  \E status \in {"raised", "killed"} : proc' = [proc EXCEPT ![p].status = status]
        BY <4>1 DEF Stops, Fails, Kill, Raise
      <4>. QED  BY <1>9, <4>1, Stopping DEF GoesOn
    <3>2. files' = files /\ Here(p).op # "write"
      BY <2>4, <1>9, <3>1 DEF StepOf, Passes, Reads, Hashes, TurnsAway, Chooses, ConfirmTrial,
         Doing, OnDisk, Passing
    <3>. QED  BY <2>1, <2>2, <3>2 DEF FilesOf
  <2>. QED  BY <2>3, <2>4
<1>10. HasRoot(p)' => FilesOf(p)'
  BY <1>1, <1>5, <1>6, <1>7, <1>8, <1>9 DEF Effect
<1>11. DOMAIN proc' = DOMAIN proc
  BY <1>1 DEF Rest
<1>. QED  BY <1>4, <1>10, <1>11 DEF FilesInv

\* What a step of a process leaves alone.
LEMMA Steady ==
  ASSUME NEW p, StepOf(p)
  PROVE  /\ protocol' = protocol /\ measurable' = measurable /\ early' = early
         /\ root' = root \/ (Makes(p) /\ ~ root /\ root' = TRUE)
         /\ (quiet' = quiet /\ ~ Kill(p) /\ ~ Fails(p)) \/ quiet' = FALSE
<1>1. CASE Stops(p) \/ Passes(p) \/ Reads(p) \/ Hashes(p) \/ Makes(p) \/ TurnsAway(p)
           \/ Chooses(p) \/ ConfirmTrial(p) \/ Writes(p)
  <2>1. /\ protocol' = protocol /\ measurable' = measurable /\ early' = early /\ quiet' = quiet
        /\ root' = root \/ (Makes(p) /\ ~ root /\ root' = TRUE)
    BY <1>1 DEF Stops, Passes, Reads, Hashes, Makes, TurnsAway, Chooses, ConfirmTrial, Writes,
                OnDisk, faults
  <2>2. Kill(p) \/ Fails(p) => quiet' = FALSE
    BY DEF Kill, Fails, Disturb
  <2>. QED  BY <2>1, <2>2
<1>2. CASE Fails(p) \/ Kill(p)
  BY <1>2 DEF Fails, Kill, Disturb
<1>. QED  BY <1>1, <1>2 DEF StepOf

LEMMA VersionKept ==
  ASSUME TofuTypes, RootInv, VersionInv, NEW p \in DOMAIN proc, StepOf(p)
  PROVE  VersionInv'
<1>1. /\ Effect(p) /\ Rest(p) /\ proc[p].status = "running"
      /\ HasRoot(p)' <=> HasRoot(p) \/ Makes(p)
      /\ HasRoot(p) <=> Here(p).op \notin Openings \union {"makeRoot"}
  BY Effects, Rooted
<1>2. /\ proc[p].kind \in Kinds /\ proc[p].pc \in 1..Length(p) /\ Length(p) \in Nat
      /\ Here(p) = Programs[proc[p].kind][proc[p].pc]
      /\ Turn(proc[p].kind, proc[p].pc)
  BY <1>1, AtStep
<1>3. /\ protocol' = protocol /\ early' = early
      /\ root' = root \/ (Makes(p) /\ ~ root /\ root' = TRUE)
      /\ quiet' => quiet /\ ~ Kill(p)
      /\ root' \in BOOLEAN /\ root \in BOOLEAN
  BY Steady, TypesKept DEF TofuTypes
<1>4. \A r \in DOMAIN proc : r # p => proc'[r] = proc[r] /\ (HasRoot(r)' <=> HasRoot(r))
  BY <1>1 DEF Rest, HasRoot
<1>5. DOMAIN proc' = DOMAIN proc
  BY <1>1 DEF Rest
<1>6. /\ HasRoot(p) => proc'[p].proto = proc[p].proto /\ proc'[p].hash = proc[p].hash
      /\ proc'[p].proto = proc[p].proto \/ proc'[p].proto = protocol
      /\ proc'[p].hash = proc[p].hash \/ proc'[p].hash = protocol
      /\ Makes(p) => proc'[p].proto = proc[p].proto /\ proc'[p].hash = proc[p].hash
  <2>1. Reads(p) \/ Hashes(p) => Here(p).op \in Openings
    BY DEF Reads, Hashes, Doing, Openings
  <2>2. Makes(p) => Here(p).op \notin Openings
    BY DEF Makes, Doing, Openings
  <2>. QED  BY <1>1, <2>1, <2>2 DEF Effect, Keeps
<1>7. ~ early' /\ ~ root' => protocol' = 1
  BY <1>3 DEF VersionInv
<1>8. ASSUME ~ early', NEW r \in DOMAIN proc, HasRoot(r)' \/ ~ root'
      PROVE  ReadsFirst(r)'
  <2>1. CASE ~ root
    BY <1>3, <1>4, <1>6, <1>8, <2>1 DEF VersionInv, ReadsFirst
  <2>2. CASE root
    <3>1. HasRoot(r) /\ ReadsFirst(r)
      <4>1. ~ Makes(p)
        BY <2>2 DEF Makes
      <4>. QED  BY <1>1, <1>3, <1>4, <1>8, <2>2, <4>1 DEF VersionInv
    <3>. QED  BY <1>4, <1>6, <3>1 DEF ReadsFirst
  <2>. QED  BY <2>1, <2>2
<1>9. ASSUME quiet'
      PROVE  /\ protocol' = 1 /\ ~ early'
             /\ \A r \in DOMAIN proc : ReadsFirst(r)' /\ proc'[r].status # "killed"
  <2>1. protocol = 1 /\ ~ early /\ \A r \in DOMAIN proc : ReadsFirst(r) /\ proc[r].status # "killed"
    BY <1>3, <1>9 DEF VersionInv
  <2>2. \A r \in DOMAIN proc : ReadsFirst(r)'
    BY <1>4, <1>6, <2>1 DEF ReadsFirst
  <2>3. proc'[p].status # "killed"
    <3>1. Stops(p) \/ Fails(p) => proc'[p].status = "raised"
      <4>1. Stops(p) \/ Fails(p) => proc' = [proc EXCEPT ![p].status = "raised"]
        BY DEF Stops, Fails, Raise
      <4>. QED  BY <4>1, Stopping
    <3>. QED  BY <1>1, <1>3, <1>9, <3>1 DEF Effect, GoesOn
  <2>. QED  BY <1>3, <1>4, <2>1, <2>2, <2>3
<1>10. ASSUME NEW r \in DOMAIN proc, quiet'
       PROVE  /\ proc'[r].kind = "v3" /\ proc'[r].pc > 3 => Protocols[1].frozen
              /\ proc'[r].kind = "smoke" /\ proc'[r].pc > 2 => Protocols[1].frozen
              /\ proc'[r].kind = "empty" => Protocols[1].frozen
  <2>1. quiet /\ protocol = 1
    BY <1>3, <1>10 DEF VersionInv
  <2>2. /\ proc[r].kind = "v3" /\ proc[r].pc > 3 => Protocols[1].frozen
        /\ proc[r].kind = "smoke" /\ proc[r].pc > 2 => Protocols[1].frozen
        /\ proc[r].kind = "empty" => Protocols[1].frozen
    BY <2>1 DEF VersionInv
  <2>3. CASE r # p \/ Halts(p)
    BY <1>4, <2>2, <2>3 DEF Halts
  <2>4. CASE r = p /\ GoesOn(p) /\ (Here(p).op = "parseProtocol" => Passes(p))
    <3>1. Here(p).op = "parseProtocol" => Protocols[1].frozen
      BY <2>1, <2>4 DEF Passes
    <3>2. /\ proc[p].kind = "v3" /\ proc[p].pc = 3 => Here(p).op = "parseProtocol"
          /\ proc[p].kind = "smoke" /\ proc[p].pc = 2 => Here(p).op = "parseProtocol"
      BY <1>2 DEF Turn
    <3>. QED  BY <1>2, <2>2, <2>4, <3>1, <3>2 DEF GoesOn
  <2>5. CASE r = p /\ TurnsAway(p) /\ proc'[p].kind = "empty"
    <3>1. proc[p].kind = "v3" /\ proc[p].pc = 12
      BY <1>2, <2>5 DEF TurnsAway, Doing, Turn
    <3>. QED  BY <2>2, <2>5, <3>1
  <2>. QED  BY <1>1, <2>3, <2>4, <2>5
            DEF Effect, Passes, Makes, Reads, Hashes, Chooses, ConfirmTrial, Writes, Doing
<1>. QED  BY <1>5, <1>7, <1>8, <1>9, <1>10 DEF VersionInv

\* Where nothing is chosen and no trial added, the locals stay what they are.
LEMMA LocalsStay ==
  ASSUME TofuTypes, NEW p \in DOMAIN proc, LocalsOf(p), measurable' = measurable,
         proc[p].status = "running", GoesOn(p), Here(p).op \notin {"select", "confirm"},
         proc'[p].proto = proc[p].proto, proc'[p].selected = proc[p].selected,
         proc'[p].trials = proc[p].trials
  PROVE  LocalsOf(p)'
<1>1. /\ proc[p].kind \in Kinds /\ proc[p].pc \in 1..Length(p) /\ Length(p) \in Nat
      /\ Here(p) = Programs[proc[p].kind][proc[p].pc]
      /\ Turn(proc[p].kind, proc[p].pc)
  BY AtStep
<1>2. HasChosen(p)' <=> HasChosen(p)
  <2>1. /\ proc[p].kind = "v2" => proc[p].pc # 8
        /\ proc[p].kind = "v3" => proc[p].pc # 12
    BY <1>1 DEF Turn
  <2>. QED  BY <1>1, <2>1 DEF HasChosen, GoesOn
<1>3. Taken(proc'[p].kind, proc'[p].pc) = Taken(proc[p].kind, proc[p].pc)
  <2>1. Taken(proc[p].kind, proc[p].pc + 1) = Taken(proc[p].kind, proc[p].pc) + 0
    BY <1>1 DEF Turn
  <2>2. Taken(proc[p].kind, proc[p].pc) \in Nat
    BY DEF Taken
  <2>. QED  BY <2>1, <2>2 DEF GoesOn
<1>4. Choice(proc[p].kind, proc[p].proto)' = Choice(proc[p].kind, proc[p].proto)
  BY DEF Choice, GoesOn
<1>. QED  BY <1>2, <1>3, <1>4 DEF LocalsOf, GoesOn

LEMMA LocalsKept ==
  ASSUME TofuTypes, LocalsInv, NEW p \in DOMAIN proc, StepOf(p)
  PROVE  LocalsInv'
<1>1. Effect(p) /\ Rest(p) /\ proc[p].status = "running" /\ measurable' = measurable
  BY Effects, Rooted, Steady
<1>2. /\ proc[p].kind \in Kinds /\ proc[p].pc \in 1..Length(p) /\ Length(p) \in Nat
      /\ Here(p) = Programs[proc[p].kind][proc[p].pc] /\ proc[p] \in Process
      /\ Turn(proc[p].kind, proc[p].pc)
  BY <1>1, AtStep
<1>3. LocalsOf(p) /\ DOMAIN proc' = DOMAIN proc
  BY <1>1 DEF LocalsInv, Rest
<1>4. ASSUME NEW r \in DOMAIN proc, r # p
      PROVE  LocalsOf(r)'
  <2>1. proc'[r] = proc[r] /\ LocalsOf(r)
    BY <1>1, <1>4 DEF Rest, LocalsInv
  <2>2. HasChosen(r)' <=> HasChosen(r)
    BY <2>1 DEF HasChosen
  <2>3. \A kind, version : Choice(kind, version)' = Choice(kind, version)
    BY <1>1 DEF Choice
  <2>. QED  BY <1>1, <2>1, <2>2, <2>3 DEF LocalsOf
<1>5. ASSUME Halts(p), Keeps(p)
      PROVE  LocalsOf(p)'
  <2>1. HasChosen(p)' <=> HasChosen(p)
    BY <1>5 DEF HasChosen, Halts
  <2>2. \A kind, version : Choice(kind, version)' = Choice(kind, version)
    BY <1>1 DEF Choice
  <2>. QED  BY <1>1, <1>3, <1>5, <2>1, <2>2 DEF LocalsOf, Halts, Keeps
<1>6. ASSUME GoesOn(p), Here(p).op \notin {"select", "confirm"},
             proc'[p].proto = proc[p].proto, proc'[p].selected = proc[p].selected,
             proc'[p].trials = proc[p].trials
      PROVE  LocalsOf(p)'
  BY <1>1, <1>3, <1>6, LocalsStay
<1>7. ASSUME Taken(proc[p].kind, proc[p].pc) = 0
      PROVE  proc[p].trials = <<>>
  BY <1>2, <1>3, <1>7 DEF LocalsOf, Process
<1>8. ASSUME Reads(p), GoesOn(p), proc'[p].selected = proc[p].selected,
             proc'[p].trials = proc[p].trials
      PROVE  LocalsOf(p)'
  <2>1. proc[p].kind \in {"v1", "v2", "v3", "shard"} /\ proc[p].pc = 1
    BY <1>2, <1>8 DEF Reads, Doing, Turn
  <2>2. Taken(proc[p].kind, 1) = 0 /\ Taken(proc[p].kind, 2) = 0
    BY <2>1 DEF Taken
  <2>3. proc[p].trials = <<>>
    BY <1>7, <2>1, <2>2
  <2>4. ~ HasChosen(p) /\ ~ HasChosen(p)'
    BY <1>8, <2>1 DEF HasChosen, GoesOn
  <2>5. DOMAIN proc'[p].trials = {} /\ Len(proc'[p].trials) = 0
    BY <1>8, <2>3
  <2>. QED  BY <1>3, <1>8, <2>1, <2>2, <2>4, <2>5 DEF LocalsOf, GoesOn
<1>9. ASSUME TurnsAway(p), Keeps(p), proc'[p].kind = "empty", proc'[p].pc = 1
      PROVE  LocalsOf(p)'
  <2>1. proc[p].kind = "v3" /\ proc[p].pc = 12
    BY <1>2, <1>9 DEF TurnsAway, Doing, Turn
  <2>2. Taken("v3", 12) = 0 /\ Taken("empty", 1) = 0
    BY DEF Taken
  <2>3. proc[p].trials = <<>>
    BY <1>7, <2>1, <2>2
  <2>4. ~ HasChosen(p) /\ ~ HasChosen(p)'
    BY <1>9, <2>1 DEF HasChosen
  <2>5. DOMAIN proc'[p].trials = {} /\ Len(proc'[p].trials) = 0
    BY <1>9, <2>3 DEF Keeps
  <2>6. RobustChoice[measurable][proc[p].proto] = NoCandidate
    BY <1>9 DEF TurnsAway, Choice
  <2>7. RobustChoice' = RobustChoice
    BY DEF RobustChoice
  <2>. QED  BY <1>1, <1>3, <1>9, <2>2, <2>4, <2>5, <2>6, <2>7 DEF LocalsOf, Keeps
<1>10. ASSUME Chooses(p), GoesOn(p), proc'[p].selected = Choice(proc[p].kind, proc[p].proto),
              proc'[p].proto = proc[p].proto, proc'[p].trials = proc[p].trials
       PROVE  LocalsOf(p)'
  <2>1. (proc[p].kind = "v2" /\ proc[p].pc = 8) \/ (proc[p].kind = "v3" /\ proc[p].pc = 12)
    BY <1>2, <1>10 DEF Chooses, Doing, Turn
  <2>2. /\ Taken(proc[p].kind, proc[p].pc) = 0
        /\ Taken(proc[p].kind, proc[p].pc + 1) = 0
    BY <2>1 DEF Taken
  <2>3. proc[p].trials = <<>>
    BY <1>7, <2>2
  <2>4. HasChosen(p)' /\ (proc'[p].kind = "v3" => proc'[p].selected # NoCandidate)
    BY <1>10, <2>1 DEF HasChosen, GoesOn, Chooses
  <2>5. DOMAIN proc'[p].trials = {} /\ Len(proc'[p].trials) = 0
    BY <1>10, <2>3
  <2>6. Choice(proc[p].kind, proc[p].proto)' = Choice(proc[p].kind, proc[p].proto)
    BY <1>1, <1>10 DEF Choice, GoesOn
  <2>. QED  BY <1>10, <2>1, <2>2, <2>4, <2>5, <2>6 DEF LocalsOf, GoesOn
<1>11. ASSUME ConfirmTrial(p), GoesOn(p), NEW measured \in Measures,
              proc'[p].trials = Append(proc[p].trials, NewTrial(p, measured)),
              proc'[p].proto = proc[p].proto, proc'[p].selected = proc[p].selected
       PROVE  LocalsOf(p)'
  <2>. DEFINE n == Taken(proc[p].kind, proc[p].pc)
              new == NewTrial(p, measured)
  <2>1. /\ Here(p).op = "confirm" /\ Here(p).arg = TrialPlan(proc[p].kind)[n + 1]
        /\ Taken(proc[p].kind, proc[p].pc + 1) = n + 1 /\ n \in Nat
        /\ proc[p].kind # "empty"
    <3>1. Here(p).op = "confirm"
      BY <1>11 DEF ConfirmTrial, Doing
    <3>2. n \in Nat
      BY DEF Taken
    <3>. QED  BY <1>2, <3>1, <3>2 DEF Turn
  <2>2. HasChosen(p)' <=> HasChosen(p)
    <3>1. /\ proc[p].kind = "v2" => proc[p].pc # 8
          /\ proc[p].kind = "v3" => proc[p].pc # 12
      BY <1>2, <2>1 DEF Turn
    <3>. QED  BY <1>2, <1>11, <3>1 DEF HasChosen, GoesOn
  <2>3. Choice(proc[p].kind, proc[p].proto)' = Choice(proc[p].kind, proc[p].proto)
    BY <1>1, <1>11 DEF Choice, GoesOn
  <2>4. /\ new.config = proc[p].selected /\ new.recipe = Protocols[proc[p].proto].recipe
        /\ new.block = TrialPlan(proc[p].kind)[n + 1][1]
        /\ new.seed = Protocols[proc[p].proto].seeds[TrialPlan(proc[p].kind)[n + 1][2]]
    BY <2>1 DEF NewTrial
  <2>5. proc[p].trials \in Seq(Trials) /\ Len(proc[p].trials) = n
    BY <1>2, <1>3 DEF Process, LocalsOf
  <2>. HIDE DEF n, new
  <2>6. proc'[p].trials = Append(proc[p].trials, new)
    BY <1>11 DEF new
  <2>7. /\ Len(proc'[p].trials) = n + 1 /\ DOMAIN proc'[p].trials = 1..(n + 1)
        /\ proc'[p].trials[n + 1] = new
        /\ \A i \in 1..n : proc'[p].trials[i] = proc[p].trials[i]
        /\ DOMAIN proc[p].trials = 1..n
    BY <2>1, <2>5, <2>6
  <2>8. ASSUME NEW i \in DOMAIN proc'[p].trials
        PROVE  /\ proc'[p].trials[i].config = proc[p].selected
               /\ proc'[p].trials[i].recipe = Protocols[proc[p].proto].recipe
               /\ proc'[p].trials[i].block = TrialPlan(proc[p].kind)[i][1]
               /\ proc'[p].trials[i].seed
                    = Protocols[proc[p].proto].seeds[TrialPlan(proc[p].kind)[i][2]]
    <3>1. CASE i = n + 1
      BY <2>4, <2>7, <3>1
    <3>2. CASE i \in 1..n
      BY <1>3, <2>7, <3>2 DEF LocalsOf
    <3>. QED  BY <2>1, <2>7, <2>8, <3>1, <3>2
  <2>9. Len(proc'[p].trials) = Taken(proc'[p].kind, proc'[p].pc)
    BY <1>11, <2>1, <2>7 DEF GoesOn, n
  <2>. QED  BY <1>3, <1>11, <2>1, <2>2, <2>3, <2>8, <2>9 DEF LocalsOf, GoesOn
<1>12. LocalsOf(p)'
  <2>1. Passes(p) \/ Makes(p) \/ Hashes(p) \/ Writes(p) =>
          Here(p).op \notin {"select", "confirm"}
    BY DEF Passes, Passing, Makes, Hashes, Writes, Doing
  <2>2. CASE (Stops(p) \/ Fails(p) \/ Kill(p)) /\ Halts(p) /\ Keeps(p)
    BY <1>5, <2>2
  <2>3. CASE (Passes(p) \/ Makes(p)) /\ GoesOn(p) /\ Keeps(p)
    BY <1>6, <2>1, <2>3 DEF Keeps
  <2>. QED  BY <1>1, <1>6, <1>8, <1>9, <1>10, <1>11, <2>1, <2>2, <2>3 DEF Effect
<1>. QED  BY <1>3, <1>4, <1>12 DEF LocalsInv

\* What a file says stays true as long as it and what it is about stay.
LEMMA SaysStay ==
  ASSUME NEW p, NEW name, Says(p, name), files'[name] = files[name],
         name = "selection" => files'["development"] = files["development"],
         name \in {"manifest", "shard-manifest"} => files' = files,
         proc'[p].kind = proc[p].kind, proc'[p].proto = proc[p].proto,
         proc'[p].hash = proc[p].hash, proc'[p].selected = proc[p].selected,
         quiet' => quiet,
         proc'[p].trials = proc[p].trials \/ name \notin {"trials", "secondary", "summary"},
         name = "trials" /\ proc[p].kind = "v1" /\ proc[p].pc = 7 =>
           proc'[p].kind = "v1" /\ proc'[p].pc = 7
  PROVE  Says(p, name)'
<1>1. /\ Bar(p)' = Bar(p) /\ DevelopmentDecision(p)' = DevelopmentDecision(p)
      /\ IsV3(p)' <=> IsV3(p)
  BY DEF Bar, DevelopmentDecision, IsV3
<1>2. \A hash : OwnHash(p, hash) => OwnHash(p, hash)'
  BY <1>1 DEF OwnHash
<1>3. OwnHash(p, files[name].hash) => OwnHash(p, files[name].hash)'
  BY <1>1 DEF OwnHash
<1>4. CASE name = "development"
  BY <1>1, <1>4 DEF Says
<1>5. CASE name = "selection"
  BY <1>3, <1>5 DEF Says
<1>6. CASE name = "trials"
  BY <1>6 DEF Says
<1>7. CASE name = "secondary"
  BY <1>7 DEF Says
<1>8. CASE name = "summary"
  BY <1>1, <1>3, <1>8 DEF Says
<1>9. CASE name \in {"manifest", "shard-manifest"}
  <2>1. AllBut({name})' = AllBut({name})
    BY <1>9 DEF AllBut
  <2>. QED  BY <1>3, <1>9, <2>1 DEF Says
<1>10. CASE name \notin {"development", "selection", "trials", "secondary", "summary",
                         "manifest", "shard-manifest"}
  BY <1>10 DEF Says
<1>. QED  BY <1>4, <1>5, <1>6, <1>7, <1>8, <1>9, <1>10

\* A file that has just been written says what its writer has in memory.
LEMMA SaysNow ==
  ASSUME TofuTypes, VersionInv, NEW p \in DOMAIN proc, NEW name \in Names,
         name \notin DOMAIN files \/ name = "trials",
         name = "selection" => "development" \in DOMAIN files,
         files' = Put(name, Content(p, name)), quiet' => quiet,
         proc'[p].kind = proc[p].kind, proc'[p].proto = proc[p].proto,
         proc'[p].hash = proc[p].hash, proc'[p].selected = proc[p].selected,
         proc'[p].trials = proc[p].trials
  PROVE  Says(p, name)'
<1>1. /\ Bar(p)' = Bar(p) /\ DevelopmentDecision(p)' = DevelopmentDecision(p)
      /\ IsV3(p)' <=> IsV3(p)
  BY DEF Bar, DevelopmentDecision, IsV3
<1>2. /\ files'[name] = Content(p, name)
      /\ name = "selection" => files'["development"] = files["development"]
  BY DEF Put
<1>3. files'[name].hash = RecordedHash(p) => OwnHash(p, files[name].hash)'
  BY <1>1 DEF OwnHash, RecordedHash, VersionInv, ReadsFirst
<1>4. CASE name = "development"
  BY <1>1, <1>2, <1>4, DevelopmentIs DEF Says
<1>6. CASE name = "trials"
  BY <1>2, <1>6, TrialsAre DEF Says
<1>7. CASE name = "secondary"
  <2>1. files'[name].of = {<<t.block, t.seed>> : t \in ToSet(proc[p].trials)}
    BY <1>2, <1>7, SecondaryIs
  <2>. QED  BY <1>7, <2>1 DEF Says
<1>8. CASE name = "summary"
  <2>1. /\ files'[name].hash = RecordedHash(p) /\ files'[name].selected = proc[p].selected
        /\ proc[p].trials = <<>> =>
             files'[name].decision = DevelopmentDecision(p) /\ files'[name].rulings = <<>>
        /\ proc[p].trials # <<>> =>
             /\ files'[name].decision = Summarize(Measured(proc[p].trials), Bar(p)).decision
             /\ files'[name].rulings = Rulings(proc[p].trials, Bar(p))
    BY <1>2, <1>8, SummaryIs
  <2>. QED  BY <1>1, <1>3, <1>8, <2>1 DEF Says
<1>9. CASE name \in {"manifest", "shard-manifest"}
  <2>1. files'[name].hash = RecordedHash(p) /\ files'[name].files = files
    BY <1>2, <1>9, ManifestIs
  <2>2. AllBut({name})' = files
    <3>1. files = [n \in DOMAIN files |-> files[n]] /\ name \notin DOMAIN files
      BY <1>9 DEF TofuTypes
    <3>2. DOMAIN files' \ {name} = DOMAIN files
      BY <3>1 DEF Put
    <3>3. \A n \in DOMAIN files : files'[n] = files[n]
      BY <3>1 DEF Put
    <3>. QED  BY <3>1, <3>2, <3>3 DEF AllBut
  <2>. QED  BY <1>3, <1>9, <2>1, <2>2 DEF Says
<1>5. CASE name = "selection"
  <2>1. /\ files'[name].selected = proc[p].selected /\ files'[name].hash = RecordedHash(p)
        /\ files'[name].development = files["development"]
    BY <1>2, <1>5, SelectionIs
  <2>. QED  BY <1>2, <1>3, <1>5, <2>1 DEF Says
<1>10. CASE name \notin {"development", "selection", "trials", "secondary", "summary",
                         "manifest", "shard-manifest"}
  BY <1>10 DEF Says
<1>. QED  BY <1>4, <1>5, <1>6, <1>7, <1>8, <1>9, <1>10

LEMMA ChosenIsDeveloped ==
  ASSUME NEW kind \in Kinds, NEW n \in 1..Len(Programs[kind]),
         Programs[kind][n].op = "write", Programs[kind][n].arg = "selection"
  PROVE  "development" \in Earlier(kind, n)
<1>1. kind = "v3" /\ n = 15
  <2>1. CASE kind = "v1" \/ kind = "v2"
    BY <2>1, ProgramsAre, V1Writes, V2Writes
  <2>2. CASE kind = "v3"
    BY <2>2, ProgramsAre, V3Writes
  <2>3. CASE kind = "empty"
    BY <2>3, ProgramsAre, EmptyWrites
  <2>4. CASE kind = "smoke"
    BY <2>4, ProgramsAre, SmokeWrites
  <2>5. CASE kind = "shard"
    BY <2>5, ProgramsAre, ShardWrites
  <2>. QED  BY <2>1, <2>2, <2>3, <2>4, <2>5 DEF Kinds
<1>. QED  BY <1>1, V3Earlier

LEMMA OnceDeveloped ==
  ASSUME NEW kind \in Kinds, NEW n \in 1..Len(Programs[kind]),
         "selection" \in InHand(kind, n)
  PROVE  "development" \in InHand(kind, n)
<1>1. Inherited(kind) \subseteq {"state-00"}
  BY DEF Inherited
<1>2. "selection" \in Earlier(kind, n)
  BY <1>1 DEF InHand
<1>3. PICK m \in 1..(n - 1) : Programs[kind][m].op = "write" /\ Programs[kind][m].arg = "selection"
  BY <1>2, EarlierIs
<1>4. m \in 1..Len(Programs[kind])
  BY Lengths
<1>5. PICK i \in 1..(m - 1) :
        Programs[kind][i].op = "write" /\ Programs[kind][i].arg = "development"
  BY <1>3, <1>4, ChosenIsDeveloped, EarlierIs
<1>6. i \in 1..(n - 1)
  BY <1>4
<1>7. "development" \in Earlier(kind, n)
  BY <1>5, <1>6, EarlierIs
<1>. QED  BY <1>7 DEF InHand

\* While it runs, the files of the process are what it has written so far.
LEMMA InFiles ==
  ASSUME TofuTypes, FilesInv, NEW p \in DOMAIN proc, proc[p].status = "running", HasRoot(p)
  PROVE  /\ DOMAIN files = Written(p) /\ Written(p) = InHand(proc[p].kind, proc[p].pc)
         /\ \A name \in DOMAIN files : files[name].by = p /\ ~ files[name].torn
<1>1. Cut(p) = {} /\ FilesOf(p)
  BY DEF Cut, FilesInv
<1>. QED  BY <1>1 DEF FilesOf, Written, InHand

LEMMA ContentKept ==
  ASSUME TofuTypes, RootInv, FilesInv, VersionInv, ContentInv, NEW p \in DOMAIN proc, StepOf(p)
  PROVE  ContentInv'
<1>1. /\ Effect(p) /\ Rest(p) /\ proc[p].status = "running"
      /\ HasRoot(p)' <=> HasRoot(p) \/ Makes(p)
      /\ HasRoot(p) <=> Here(p).op \notin Openings \union {"makeRoot"}
      /\ quiet' => quiet
  BY Effects, Rooted, Steady
<1>2. /\ proc[p].kind \in Kinds /\ proc[p].pc \in 1..Length(p) /\ Length(p) \in Nat
      /\ Here(p) = Programs[proc[p].kind][proc[p].pc]
      /\ Orderly(proc[p].kind, proc[p].pc)
  BY <1>1, AtStep
<1>3. DOMAIN proc' = DOMAIN proc
  BY <1>1 DEF Rest
<1>4. ASSUME NEW r \in DOMAIN proc, r # p, HasRoot(r)', NEW name \in DOMAIN files',
             ~ files'[name].torn
      PROVE  Says(r, name)'
  <2>1. proc'[r] = proc[r] /\ HasRoot(r)
    BY <1>1, <1>4 DEF Rest, HasRoot
  <2>2. files' = files
    BY <1>4, <2>1, WhoWrites DEF RootInv
  <2>3. Says(r, name)
    BY <1>4, <2>1, <2>2 DEF ContentInv
  <2>. QED  BY <1>1, <2>1, <2>2, <2>3, SaysStay
<1>5. ASSUME Makes(p)
      PROVE  DOMAIN files' = {}
  BY <1>5, RootKept, WhoWrites DEF RootInv
<1>6. ASSUME HasRoot(p)
      PROVE  /\ DOMAIN files = Written(p) /\ Written(p) = InHand(proc[p].kind, proc[p].pc)
             /\ \A name \in DOMAIN files : ~ files[name].torn /\ Says(p, name)
  BY <1>1, <1>6, InFiles DEF ContentInv
<1>7. ASSUME HasRoot(p), Halts(p), Keeps(p), Stops(p) \/ Fails(p),
             NEW name \in DOMAIN files', ~ files'[name].torn
      PROVE  Says(p, name)'
  <2>1. files' = files
    BY <1>7 DEF Stops, Fails, OnDisk
  <2>. QED  BY <1>1, <1>6, <1>7, <2>1, SaysStay DEF Halts, Keeps
<1>8. ASSUME HasRoot(p), Halts(p), Keeps(p), Kill(p),
             NEW name \in DOMAIN files', ~ files'[name].torn
      PROVE  Says(p, name)'
  <2>1. CASE files' = files
    BY <1>1, <1>6, <1>8, <2>1, SaysStay DEF Halts, Keeps
  <2>2. CASE /\ Here(p).op = "write"
             /\ files' = Put(Here(p).arg, [by |-> p, torn |-> TRUE])
    <3>1. name # Here(p).arg
      <4>1. files'[Here(p).arg] = [by |-> p, torn |-> TRUE]
        BY <2>2 DEF Put
      <4>. QED  BY <1>8, <4>1
    <3>2. name \in DOMAIN files /\ files'[name] = files[name]
      BY <1>8, <2>2, <3>1 DEF Put
    <3>3. name = "selection" => Here(p).arg # "development" /\ "development" \in DOMAIN files'
      BY <1>2, <1>6, <1>8, <2>2, <3>2, OnceDeveloped DEF Orderly, Put, Length
    <3>4. name = "selection" => files'["development"] = files["development"]
      BY <2>2, <3>3 DEF Put
    <3>5. name \notin {"manifest", "shard-manifest"}
      BY <1>2, <1>6, <1>8, <2>2, <3>2 DEF Orderly
    <3>. QED  BY <1>1, <1>6, <1>8, <3>2, <3>4, <3>5, SaysStay DEF Halts, Keeps
  <2>. QED  BY <1>8, <2>1, <2>2 DEF Kill
<1>9. ASSUME HasRoot(p), TurnsAway(p) \/ Chooses(p), NEW name \in DOMAIN files'
      PROVE  Says(p, name)'
  <2>1. files' = files /\ Here(p).op = "select"
    BY <1>9 DEF TurnsAway, Chooses, OnDisk, Doing
  <2>2. name = "state-00"
    BY <1>2, <1>6, <1>9, <2>1 DEF Orderly
  <2>. QED  BY <2>2 DEF Says
<1>10. ASSUME HasRoot(p), ConfirmTrial(p), GoesOn(p), NEW name \in DOMAIN files',
              proc'[p].proto = proc[p].proto, proc'[p].hash = proc[p].hash,
              proc'[p].selected = proc[p].selected
       PROVE  Says(p, name)'
  <2>1. files' = files /\ Here(p).op = "confirm"
    BY <1>10 DEF ConfirmTrial, OnDisk, Doing
  <2>2. /\ name \notin {"secondary", "summary", "manifest", "shard-manifest"}
        /\ name = "trials" => proc[p].kind = "v1" /\ proc[p].pc = 6
    BY <1>2, <1>6, <1>10, <2>1 DEF Orderly
  <2>3. CASE name = "trials"
    <3>1. proc'[p].kind = "v1" /\ proc'[p].pc = 7
      BY <1>10, <2>2, <2>3 DEF GoesOn
    <3>. QED  BY <2>3, <3>1 DEF Says
  <2>4. CASE name # "trials"
    <3>1. Says(p, name) /\ files'[name] = files[name]
      BY <1>6, <1>10, <2>1
    <3>. QED  BY <1>1, <1>10, <2>1, <2>2, <2>4, <3>1, SaysStay DEF GoesOn
  <2>. QED  BY <2>3, <2>4
<1>11. ASSUME HasRoot(p), Passes(p), GoesOn(p), Keeps(p), NEW name \in DOMAIN files'
       PROVE  Says(p, name)'
  <2>1. files' = files /\ Here(p).op # "write"
    BY <1>11 DEF Passes, OnDisk, Passing
  <2>2. ~ (proc[p].kind = "v1" /\ proc[p].pc = 7)
    BY <1>2, <2>1 DEF Orderly
  <2>3. Says(p, name)
    BY <1>6, <1>11, <2>1
  <2>. QED  BY <1>1, <1>11, <2>1, <2>2, <2>3, SaysStay DEF GoesOn, Keeps
<1>12. ASSUME HasRoot(p), Writes(p), GoesOn(p), NEW n \in DOMAIN files',
              proc'[p].proto = proc[p].proto, proc'[p].hash = proc[p].hash,
              proc'[p].selected = proc[p].selected, proc'[p].trials = proc[p].trials
       PROVE  Says(p, n)'
  <2>1. PICK name \in Names :
          Here(p).op = "write" /\ files' = Put(name, Content(p, name)) /\ name = Here(p).arg
    BY <1>2, <1>12 DEF Writes, Doing, Orderly
  <2>2. /\ name \in DOMAIN files => name = "trials"
        /\ proc[p].kind = "v1" /\ proc[p].pc = 7 => name = "trials"
        /\ DOMAIN files \intersect {"manifest", "shard-manifest"} = {}
        /\ name = "development" => "selection" \notin DOMAIN files
    <3>1. /\ proc[p].kind = "v1" /\ proc[p].pc = 7 => name = "trials"
          /\ name \in DOMAIN files => name = "trials"
      BY <1>2, <1>6, <1>12, <2>1 DEF Orderly
    <3>2. InHand(proc[p].kind, proc[p].pc) \intersect {"manifest", "shard-manifest"} = {}
      BY <1>2, <2>1 DEF Orderly
    <3>3. name = "development" => "selection" \notin InHand(proc[p].kind, proc[p].pc)
      BY <1>2, <2>1 DEF Orderly
    <3>4. DOMAIN files = InHand(proc[p].kind, proc[p].pc)
      BY <1>6, <1>12
    <3>. QED  BY <3>1, <3>2, <3>3, <3>4
  <2>3. CASE n = name
    <3>1. name = "selection" => "development" \in DOMAIN files
      <4>1. name = "selection" => "development" \in Earlier(proc[p].kind, proc[p].pc)
        BY <1>2, <2>1, ChosenIsDeveloped DEF Length
      <4>. QED  BY <1>6, <1>12, <4>1 DEF InHand
    <3>. QED  BY <1>1, <1>12, <2>1, <2>2, <2>3, <3>1, SaysNow DEF GoesOn
  <2>4. CASE n # name
    <3>1. n \in DOMAIN files /\ files'[n] = files[n]
      BY <1>12, <2>1, <2>4 DEF Put
    <3>2. n = "selection" => files'["development"] = files["development"]
      <4>1. n = "selection" => name # "development" /\ "development" \in DOMAIN files
        BY <1>2, <1>6, <1>12, <2>2, <3>1, OnceDeveloped DEF Length
      <4>. QED  BY <2>1, <4>1 DEF Put
    <3>3. Says(p, n) /\ n \notin {"manifest", "shard-manifest"}
      BY <1>6, <1>12, <2>2, <3>1
    <3>4. ~ (n = "trials" /\ proc[p].kind = "v1" /\ proc[p].pc = 7)
      BY <2>2, <2>4
    <3>. QED  BY <1>1, <1>12, <3>1, <3>2, <3>3, <3>4, SaysStay DEF GoesOn
  <2>. QED  BY <2>3, <2>4
<1>13. ASSUME HasRoot(p), NEW name \in DOMAIN files', ~ files'[name].torn
       PROVE  Says(p, name)'
  <2>1. ~ Reads(p) /\ ~ Hashes(p) /\ ~ Makes(p)
    BY <1>1, <1>13 DEF Reads, Hashes, Makes, Doing, Openings
  <2>. QED  BY <1>1, <1>7, <1>8, <1>9, <1>10, <1>11, <1>12, <1>13, <2>1 DEF Effect
<1>. QED  BY <1>1, <1>3, <1>4, <1>5, <1>13 DEF ContentInv

LEMMA MaxIs ==
  ASSUME NEW S \in SUBSET (1..6), S # {}
  PROVE  Max(S) \in S /\ \A y \in S : y <= Max(S)
<1>0. \A y \in S : y = 1 \/ y = 2 \/ y = 3 \/ y = 4 \/ y = 5 \/ y = 6
  OBVIOUS
<1>1. \E x \in S : \A y \in S : x >= y
  <2>1. CASE 6 \in S
    BY <2>1
  <2>2. CASE 6 \notin S /\ 5 \in S
    BY <2>2
  <2>3. CASE S \intersect {5, 6} = {} /\ 4 \in S
    BY <2>3
  <2>4. CASE S \intersect {4, 5, 6} = {} /\ 3 \in S
    BY <2>4
  <2>5. CASE S \intersect {3, 4, 5, 6} = {} /\ 2 \in S
    BY <2>5
  <2>6. CASE S \intersect {2, 3, 4, 5, 6} = {}
    <3>1. \A y \in S : y = 1
      BY <1>0, <2>6
    <3>2. 1 \in S
      BY <3>1
    <3>. QED  BY <3>1, <3>2
  <2>. QED  BY <2>1, <2>2, <2>3, <2>4, <2>5, <2>6
<1>. QED  BY <1>1 DEF Max

LEMMA PresentIs ==
  /\ Present \subseteq 1..6
  /\ \A i \in 1..6 : i \in Present <=> States[i] \in DOMAIN files
  /\ \A i \in 1..6 : PresentBefore(i) \subseteq 1..6
BY StatesAre DEF Present, PresentBefore

\* A file that is no state, and the state that comes next.
LEMMA OtherPresent ==
  ASSUME NEW name, name \notin StateNames, NEW content, files' = Put(name, content)
  PROVE  /\ Present' = Present
         /\ \A i \in Present : files'[States[i]] = files[States[i]]
<1>1. \A i \in 1..6 : States[i] # name
  BY StatesAre DEF StateNames
<1>. QED  BY <1>1, StatesAre DEF Present, Put

LEMMA NextPresent ==
  ASSUME NEW k \in 1..6, NEW content, files' = Put(States[k], content),
         \A j \in Present : j < k
  PROVE  /\ Present' = Present \union {k}
         /\ \A i \in Present : files'[States[i]] = files[States[i]]
         /\ \A i \in Present : PresentBefore(i)' = PresentBefore(i)
         /\ PresentBefore(k)' = Present
         /\ Max(Present \union {k}) = k
<1>1. \A i \in 1..6 : States[i] = States[k] => i = k
  BY StatesAre
<1>2. Present' = Present \union {k}
  BY <1>1, StatesAre DEF Present, Put
<1>3. Present \subseteq 1..6
  BY PresentIs
<1>4. \A i \in Present : files'[States[i]] = files[States[i]]
  BY <1>1, <1>3, StatesAre DEF Present, Put
<1>5. \A i \in Present : PresentBefore(i)' = PresentBefore(i)
  BY <1>2, <1>3 DEF PresentBefore
<1>6. PresentBefore(k)' = Present
  <2>1. PresentBefore(k)' = {j \in Present \union {k} : j < k}
    BY <1>2 DEF PresentBefore
  <2>2. ~ (k < k) /\ k \notin Present
    OBVIOUS
  <2>. QED  BY <2>1, <2>2
<1>7. Max(Present \union {k}) = k
  <2>1. Present \union {k} \in SUBSET (1..6) /\ Present \union {k} # {}
    BY <1>3
  <2>2. Max(Present \union {k}) \in Present \union {k} /\ k <= Max(Present \union {k})
    BY <2>1, MaxIs
  <2>3. Max(Present \union {k}) \in Present => Max(Present \union {k}) < k
    OBVIOUS
  <2>. HIDE DEF Max
  <2>4. Max(Present \union {k}) \in 1..6
    BY <2>1, <2>2
  <2>. QED  BY <2>2, <2>3, <2>4
<1>. QED  BY <1>2, <1>4, <1>5, <1>6, <1>7

LEMMA ChainKept ==
  ASSUME TofuTypes, RootInv, FilesInv, ChainInv, NEW p \in DOMAIN proc, StepOf(p)
  PROVE  ChainInv'
<1>1. /\ Effect(p) /\ Rest(p) /\ proc[p].status = "running"
      /\ HasRoot(p)' <=> HasRoot(p) \/ Makes(p)
      /\ HasRoot(p) <=> Here(p).op \notin Openings \union {"makeRoot"}
  BY Effects, Rooted
<1>2. /\ proc[p].kind \in Kinds /\ proc[p].pc \in 1..Length(p)
      /\ Here(p) = Programs[proc[p].kind][proc[p].pc]
      /\ Orderly(proc[p].kind, proc[p].pc)
  BY <1>1, AtStep
<1>3. DOMAIN proc' = DOMAIN proc /\ \A r \in DOMAIN proc : r # p => proc'[r] = proc[r]
  BY <1>1 DEF Rest
<1>4. ASSUME files' = files
      PROVE  /\ Present' = Present
             /\ \A i \in Present' : ~ files'[States[i]].torn =>
                  files'[States[i]].previous = LatestFile(PresentBefore(i))'
  <2>1. Present' = Present
    BY <1>4 DEF Present
  <2>2. \A i \in Present : PresentBefore(i)' = PresentBefore(i)
    BY <2>1 DEF PresentBefore
  <2>. QED  BY <1>4, <2>1, <2>2 DEF ChainInv, LatestFile
<1>5. ASSUME HasRoot(p), NEW k \in 1..6, Here(p).op = "write", Here(p).arg = States[k]
      PROVE  \A j \in Present : j < k
  <2>1. DOMAIN files = InHand(proc[p].kind, proc[p].pc)
    BY <1>1, <1>5, InFiles
  <2>2. \A i, j \in 1..6 :
          Here(p).arg = States[i] /\ States[j] \in InHand(proc[p].kind, proc[p].pc) => j < i
    BY <1>2, <1>5 DEF Orderly
  <2>. QED  BY <1>5, <2>1, <2>2, PresentIs
<1>6. ASSUME NEW content, HasRoot(p), Here(p).op = "write", files' = Put(Here(p).arg, content),
             Here(p).arg \in StateNames => \/ content.torn
                                           \/ content.previous = LatestFile(Present)
      PROVE  /\ Latest(Present)' = IF Here(p).arg \in StateNames THEN Here(p).arg
                                   ELSE Latest(Present)
             /\ \A i \in Present' : ~ files'[States[i]].torn =>
                  files'[States[i]].previous = LatestFile(PresentBefore(i))'
  <2>1. CASE Here(p).arg \notin StateNames
    <3>1. Present' = Present /\ \A i \in Present : files'[States[i]] = files[States[i]]
      BY <1>6, <2>1, OtherPresent
    <3>2. ASSUME NEW i \in Present
          PROVE  LatestFile(PresentBefore(i))' = LatestFile(PresentBefore(i))
      <4>1. PresentBefore(i)' = PresentBefore(i)
        BY <3>1 DEF PresentBefore
      <4>2. PresentBefore(i) # {} => Max(PresentBefore(i)) \in Present
        <5>1. PresentBefore(i) \in SUBSET (1..6) /\ PresentBefore(i) \subseteq Present
          BY PresentIs DEF PresentBefore
        <5>. QED  BY <5>1, MaxIs
      <4>. QED  BY <3>1, <4>1, <4>2 DEF LatestFile
    <3>3. Latest(Present)' = Latest(Present)
      BY <3>1 DEF Latest
    <3>. QED  BY <2>1, <3>1, <3>2, <3>3 DEF ChainInv
  <2>2. CASE Here(p).arg \in StateNames
    <3>1. PICK k \in 1..6 : Here(p).arg = States[k]
      BY <2>2, StatesAre DEF StateNames
    <3>2. \A j \in Present : j < k
      BY <1>5, <1>6, <3>1
    <3>3. files' = Put(States[k], content)
      BY <1>6, <3>1
    <3>4. /\ Present' = Present \union {k}
          /\ \A i \in Present : files'[States[i]] = files[States[i]]
          /\ \A i \in Present : PresentBefore(i)' = PresentBefore(i)
          /\ PresentBefore(k)' = Present
          /\ Max(Present \union {k}) = k
      BY <3>2, <3>3, NextPresent
    <3>5. ASSUME NEW S \in SUBSET Present
          PROVE  LatestFile(S)' = LatestFile(S)
      <4>1. S # {} => Max(S) \in Present
        <5>1. S \in SUBSET (1..6)
          BY PresentIs
        <5>. QED  BY <5>1, MaxIs
      <4>. QED  BY <3>4, <4>1 DEF LatestFile
    <3>6. ASSUME NEW i \in Present, ~ files'[States[i]].torn
          PROVE  files'[States[i]].previous = LatestFile(PresentBefore(i))'
      <4>1. PresentBefore(i) \subseteq Present
        BY DEF PresentBefore
      <4>2. files'[States[i]].previous = LatestFile(PresentBefore(i))
        BY <3>4, <3>6 DEF ChainInv
      <4>3. LatestFile(PresentBefore(i))' = LatestFile(PresentBefore(i))
        BY <3>4, <3>5, <4>1 DEF LatestFile
      <4>. QED  BY <4>2, <4>3
    <3>7. ASSUME ~ files'[States[k]].torn
          PROVE  files'[States[k]].previous = LatestFile(PresentBefore(k))'
      <4>1. files'[States[k]] = content
        BY <3>3 DEF Put
      <4>2. content.previous = LatestFile(Present)
        BY <1>6, <2>2, <3>7, <4>1
      <4>3. LatestFile(PresentBefore(k))' = LatestFile(Present)
        BY <3>4, <3>5 DEF LatestFile
      <4>. QED  BY <4>1, <4>2, <4>3
    <3>8. Latest(Present)' = Here(p).arg
      BY <3>1, <3>4 DEF Latest
    <3>. QED  BY <2>2, <3>4, <3>6, <3>7, <3>8
  <2>. QED  BY <2>1, <2>2
<1>7. ASSUME HasRoot(p)
      PROVE  /\ proc[p].journal = Latest(Present)
             /\ LatestFile(Present) = IF proc[p].journal = "none" THEN <<>>
                                      ELSE <<files[proc[p].journal]>>
  <2>1. proc[p].journal = Latest(Present)
    BY <1>1, <1>7 DEF ChainInv
  <2>2. Present # {} => States[Max(Present)] # "none"
    <3>1. Present # {} => Max(Present) \in 1..6
      BY PresentIs, MaxIs
    <3>. QED  BY <3>1, StatesAre
  <2>. QED  BY <2>1, <2>2 DEF Latest, LatestFile
<1>8. ASSUME files' = files, proc'[p].journal = proc[p].journal
      PROVE  ChainInv'
  <2>1. Present' = Present
    BY <1>4, <1>8
  <2>2. Latest(Present)' = Latest(Present)
    BY <2>1 DEF Latest
  <2>3. Makes(p) => proc[p].journal = "none" /\ Latest(Present) = "none"
    <3>1. Makes(p) => ~ HasRoot(p) /\ DOMAIN files = {}
      BY RootKept DEF RootInv
    <3>2. DOMAIN files = {} => Present = {}
      BY DEF Present
    <3>. QED  BY <3>1, <3>2 DEF ChainInv, Latest
  <2>4. ASSUME NEW r \in DOMAIN proc
        PROVE  /\ ~ HasRoot(r)' => proc'[r].journal = "none"
               /\ HasRoot(r)' /\ proc'[r].status = "running" => proc'[r].journal = Latest(Present)'
    <3>1. CASE r = p
      BY <1>1, <1>7, <1>8, <2>2, <2>3, <3>1 DEF ChainInv
    <3>2. CASE r # p
      <4>1. proc'[r] = proc[r] /\ (HasRoot(r)' <=> HasRoot(r))
        BY <1>3, <3>2 DEF HasRoot
      <4>. QED  BY <2>2, <4>1 DEF ChainInv
    <3>. QED  BY <3>1, <3>2
  <2>. QED  BY <1>3, <1>4, <1>8, <2>4 DEF ChainInv
<1>9. ASSUME HasRoot(p), HasRoot(p)',
             proc'[p].status = "running" => proc'[p].journal = Latest(Present)',
             \A i \in Present' : ~ files'[States[i]].torn =>
               files'[States[i]].previous = LatestFile(PresentBefore(i))'
      PROVE  ChainInv'
  <2>1. ASSUME NEW r \in DOMAIN proc, r # p
        PROVE  ~ HasRoot(r)' /\ proc'[r].journal = "none"
    <3>1. proc'[r] = proc[r] /\ (HasRoot(r)' <=> HasRoot(r))
      BY <1>3, <2>1 DEF HasRoot
    <3>. QED  BY <1>9, <2>1, <3>1 DEF ChainInv, RootInv
  <2>. QED  BY <1>3, <1>9, <2>1 DEF ChainInv
<1>10. ASSUME Writes(p), GoesOn(p),
              proc'[p].journal = IF Here(p).arg \in StateNames THEN Here(p).arg ELSE proc[p].journal
       PROVE  ChainInv'
  <2>1. HasRoot(p) /\ Here(p).op = "write"
    BY <1>1, <1>10 DEF Writes, Doing, Openings
  <2>. DEFINE content == Content(p, Here(p).arg)
  <2>2. Here(p).arg \in StateNames => content.previous = LatestFile(Present)
    BY <1>7, <2>1, StateIs
  <2>3. files' = Put(Here(p).arg, content)
    BY <1>10 DEF Writes
  <2>. HIDE DEF content
  <2>4. /\ Latest(Present)' = IF Here(p).arg \in StateNames THEN Here(p).arg ELSE Latest(Present)
        /\ \A i \in Present' : ~ files'[States[i]].torn =>
             files'[States[i]].previous = LatestFile(PresentBefore(i))'
    BY <1>6, <2>1, <2>2, <2>3
  <2>. QED  BY <1>1, <1>7, <1>9, <1>10, <2>1, <2>4
<1>11. ASSUME Kill(p), Halts(p), Here(p).op = "write",
              files' = Put(Here(p).arg, [by |-> p, torn |-> TRUE])
       PROVE  ChainInv'
  <2>1. HasRoot(p)
    BY <1>1, <1>11 DEF Openings
  <2>. DEFINE content == [by |-> p, torn |-> TRUE]
  <2>2. content.torn /\ files' = Put(Here(p).arg, content)
    BY <1>11
  <2>. HIDE DEF content
  <2>3. \A i \in Present' : ~ files'[States[i]].torn =>
          files'[States[i]].previous = LatestFile(PresentBefore(i))'
    BY <1>6, <1>11, <2>1, <2>2
  <2>4. proc'[p].status # "running"
    BY <1>11 DEF Halts
  <2>. QED  BY <1>1, <1>9, <2>1, <2>3, <2>4
<1>12. Stops(p) \/ Fails(p) \/ Passes(p) \/ Makes(p) \/ Reads(p) \/ Hashes(p) \/ TurnsAway(p)
       \/ Chooses(p) \/ ConfirmTrial(p) => files' = files
  BY DEF Stops, Fails, Passes, Makes, Reads, Hashes, TurnsAway, Chooses, ConfirmTrial, OnDisk
<1>13. Kill(p) => \/ files' = files
                 \/ /\ Here(p).op = "write"
                    /\ files' = Put(Here(p).arg, [by |-> p, torn |-> TRUE])
  BY DEF Kill
<1>. QED  BY <1>1, <1>8, <1>10, <1>11, <1>12, <1>13 DEF Effect, Keeps

-----------------------------------------------------------------------------
(* The invariant.                                                           *)

LEMMA StepKeeps ==
  ASSUME TofuInv, NEW p \in DOMAIN proc, StepOf(p)
  PROVE  TofuInv'
BY TypesKept, RootKept, FilesKept, VersionKept, LocalsKept, ContentKept, ChainKept DEF TofuInv

\* Nothing but the protocol file and the disturbances may change.
LEMMA RestKeeps ==
  ASSUME TofuInv, UNCHANGED <<root, files, measurable, proc>>,
         protocol' \in DOMAIN Protocols, early' \in BOOLEAN, quiet' \in BOOLEAN, VersionInv',
         quiet' => quiet
  PROVE  TofuInv'
<1>1. TofuTypes'
  BY DEF TofuInv, TofuTypes, Length
<1>2. \A p : HasRoot(p)' <=> HasRoot(p)
  BY DEF HasRoot
<1>3. RootInv'
  BY <1>2 DEF TofuInv, RootInv
<1>4. FilesInv'
  <2>1. \A p : Written(p)' = Written(p) /\ Cut(p)' = Cut(p)
    BY DEF Written, Cut, Here
  <2>2. \A p : FilesOf(p)' <=> FilesOf(p)
    BY <2>1 DEF FilesOf
  <2>. QED  BY <1>2, <2>2 DEF TofuInv, FilesInv
<1>5. LocalsInv'
  <2>1. \A kind, version : Choice(kind, version)' = Choice(kind, version)
    BY DEF Choice
  <2>2. \A p : HasChosen(p)' <=> HasChosen(p)
    BY DEF HasChosen
  <2>. QED  BY <2>1, <2>2 DEF TofuInv, LocalsInv, LocalsOf
<1>6. ContentInv'
  <2>1. ASSUME NEW p \in DOMAIN proc, HasRoot(p), NEW name \in DOMAIN files, ~ files[name].torn
        PROVE  Says(p, name)'
    <3>1. Says(p, name)
      BY <2>1 DEF TofuInv, ContentInv
    <3>. QED  BY <3>1, SaysStay
  <2>. QED  BY <1>2, <2>1 DEF ContentInv
<1>7. ChainInv'
  <2>1. Present' = Present
    BY DEF Present
  <2>2. \A i : PresentBefore(i)' = PresentBefore(i)
    BY <2>1 DEF PresentBefore
  <2>3. \A numbers : LatestFile(numbers)' = LatestFile(numbers)
    BY DEF LatestFile
  <2>4. Latest(Present)' = Latest(Present)
    BY <2>1 DEF Latest
  <2>5. \A i : LatestFile(PresentBefore(i))' = LatestFile(PresentBefore(i))
    BY <2>2 DEF LatestFile
  <2>. QED  BY <1>2, <2>1, <2>4, <2>5 DEF TofuInv, ChainInv
<1>. QED  BY <1>1, <1>3, <1>4, <1>5, <1>6, <1>7 DEF TofuInv

LEMMA EditKeeps ==
  ASSUME TofuInv, Edit
  PROVE  TofuInv'
<1>1. /\ UNCHANGED <<root, files, measurable, proc>> /\ quiet' = FALSE
      /\ protocol' \in DOMAIN Protocols
      /\ early' = (early \/ ~ root)
  BY DEF Edit, Disturb
<1>2. root \in BOOLEAN /\ early \in BOOLEAN /\ early' \in BOOLEAN
  BY <1>1 DEF TofuInv, TofuTypes
<1>3. VersionInv'
  <2>1. ~ early' => ~ early /\ root' = TRUE
    BY <1>1, <1>2
  <2>2. \A p : HasRoot(p)' <=> HasRoot(p)
    BY <1>1 DEF HasRoot
  <2>3. \A p : ReadsFirst(p)' <=> ReadsFirst(p)
    BY <1>1 DEF ReadsFirst
  <2>. QED  BY <1>1, <2>1, <2>2, <2>3 DEF TofuInv, VersionInv
<1>. QED  BY <1>1, <1>2, <1>3, RestKeeps

LEMMA StutterKeeps ==
  ASSUME TofuInv, Idles
  PROVE  TofuInv'
<1>1. UNCHANGED <<root, files, measurable, proc>> /\ UNCHANGED <<protocol, early, quiet>>
  BY DEF Idles, faults
<1>2. VersionInv'
  <2>1. \A p : HasRoot(p)' <=> HasRoot(p)
    BY <1>1 DEF HasRoot
  <2>2. \A p : ReadsFirst(p)' <=> ReadsFirst(p)
    BY <1>1 DEF ReadsFirst
  <2>. QED  BY <1>1, <2>1, <2>2 DEF TofuInv, VersionInv
<1>. QED  BY <1>1, <1>2, RestKeeps DEF TofuInv, TofuTypes

LEMMA TofuStarts ==
  ASSUME TofuInit
  PROVE  TofuInv
<1>1. PICK s \in Scenarios :
        measurable = s.world /\ proc = [i \in DOMAIN s.start |-> Fresh(s.start[i])]
  BY DEF TofuInit
<1>2. /\ protocol = 1 /\ root = FALSE /\ files = <<>> /\ early = FALSE /\ quiet = TRUE
      /\ DOMAIN files = {}
  BY DEF TofuInit
<1>3. s.world \in DOMAIN Worlds /\ s.start \in Seq({"v1", "v2", "v3", "smoke", "shard"})
  BY ScenariosAssumption
<1>4. ASSUME NEW p \in DOMAIN proc
      PROVE  /\ proc[p] = Fresh(proc[p].kind)
             /\ proc[p].kind \in {"v1", "v2", "v3", "smoke", "shard"}
  BY <1>1, <1>3 DEF Fresh
<1>5. ASSUME NEW p \in DOMAIN proc
      PROVE  /\ proc[p].pc = 1 /\ proc[p].status = "running" /\ proc[p].proto = 1
             /\ proc[p].hash = 1 /\ proc[p].journal = "none" /\ proc[p].selected = NoCandidate
             /\ proc[p].trials = <<>> /\ proc[p].kind \in Kinds \ {"empty"}
             /\ proc[p] \in Process
  <2>1. proc[p] = Fresh(proc[p].kind) /\ proc[p].kind \in Kinds \ {"empty"}
    BY <1>4 DEF Kinds
  <2>2. NoCandidate \in Configs /\ 1 \in DOMAIN Protocols /\ 1 \in Nat \ {0}
    BY SeedsAssumption DEF Configs
  <2>3. <<>> \in Seq(Trials)
    OBVIOUS
  <2>4. PICK kind : proc[p] = Fresh(kind) /\ kind \in Kinds \ {"empty"}
    BY <2>1
  <2>5. Fresh(kind) \in Process
    BY <2>2, <2>3, <2>4 DEF Fresh, Process
  <2>. QED  BY <2>4, <2>5 DEF Fresh
<1>6. TofuTypes
  <2>1. proc \in [DOMAIN proc -> Process]
    BY <1>1, <1>5
  <2>2. files = [n \in DOMAIN files |-> files[n]]
    BY <1>2
  <2>3. \A p \in DOMAIN proc : proc[p].pc <= Length(p)
    BY <1>5, Lengths DEF Length
  <2>. QED  BY <1>1, <1>2, <1>3, <1>5, <2>1, <2>2, <2>3, SeedsAssumption DEF TofuTypes
<1>7. \A p \in DOMAIN proc : ~ HasRoot(p)
  BY <1>5 DEF HasRoot, RootAt, Kinds
<1>8. VersionInv
  BY <1>2, <1>5 DEF VersionInv, ReadsFirst
<1>9. LocalsInv
  <2>1. ASSUME NEW p \in DOMAIN proc
        PROVE  LocalsOf(p)
    <3>1. ~ HasChosen(p)
      BY <1>5 DEF HasChosen
    <3>2. Taken(proc[p].kind, 1) = 0
      BY <1>5 DEF Taken, Kinds
    <3>3. DOMAIN proc[p].trials = {} /\ Len(proc[p].trials) = 0
      BY <1>5
    <3>. QED  BY <1>5, <3>1, <3>2, <3>3 DEF LocalsOf
  <2>. QED  BY <2>1 DEF LocalsInv
<1>10. RootInv /\ FilesInv /\ ContentInv
  BY <1>2, <1>7 DEF RootInv, FilesInv, ContentInv
<1>11. ChainInv
  <2>1. Present = {}
    BY <1>2 DEF Present
  <2>. QED  BY <1>5, <1>7, <2>1 DEF ChainInv
<1>. QED  BY <1>6, <1>8, <1>9, <1>10, <1>11 DEF TofuInv

LEMMA TofuStays ==
  ASSUME TofuInv, [TofuNext]_tofuVars
  PROVE  TofuInv'
<1>1. UNCHANGED tofuVars => Idles
  BY DEF tofuVars, Idles
<1>. QED  BY <1>1, Classes, StepKeeps, EditKeeps, StutterKeeps DEF TofuInv

\* Who makes the directory writes all its files; what they say agrees with what
\* their writer measured and read.
THEOREM TofuInvariant == TofuSpec => []TofuInv
BY TofuStarts, TofuStays, PTL DEF TofuSpec

-----------------------------------------------------------------------------
(* What the invariant says of the results.                                  *)

LEMMA Counters ==
  ASSUME TofuTypes, NEW p \in DOMAIN proc
  PROVE  /\ proc[p] \in Process /\ proc[p].kind \in Kinds
         /\ Length(p) \in Nat /\ proc[p].pc \in 1..(Length(p) + 1)
<1>1. proc[p] \in Process
  BY DEF TofuTypes
<1>2. proc[p].kind \in Kinds /\ proc[p].pc \in Nat \ {0}
      /\ proc[p].status \in {"running", "raised", "killed", "done"}
  BY <1>1 DEF Process
<1>3. Length(p) \in Nat
  BY <1>2, Lengths DEF Length
<1>4. proc[p].pc <= Length(p) + 1
  BY <1>2, <1>3 DEF TofuTypes
<1>. QED  BY <1>1, <1>2, <1>3, <1>4

\* What is intact was written by the process that has made the directory, and
\* says what that process has in memory.
LEMMA Writer ==
  ASSUME TofuInv, NEW name, Intact(name)
  PROVE  \E p \in DOMAIN proc :
           /\ HasRoot(p)
           /\ \A n : Intact(n) => /\ n \in InHand(proc[p].kind, proc[p].pc)
                                  /\ files[n].by = p /\ Says(p, n)
<1>1. DOMAIN files # {}
  BY DEF Intact
<1>2. PICK p \in DOMAIN proc : HasRoot(p)
  BY <1>1 DEF TofuInv, RootInv
<1>3. FilesOf(p)
  BY <1>2 DEF TofuInv, FilesInv
<1>4. ASSUME NEW n, Intact(n)
      PROVE  /\ n \in InHand(proc[p].kind, proc[p].pc)
             /\ files[n].by = p /\ Says(p, n)
  BY <1>2, <1>3, <1>4 DEF Intact, FilesOf, Written, InHand, TofuInv, ContentInv
<1>. QED  BY <1>2, <1>4

\* What a process has written stays intact, but for the trials of v1, which are
\* written again.
LEMMA Solid ==
  ASSUME TofuInv, NEW p \in DOMAIN proc, HasRoot(p),
         NEW name, name \in InHand(proc[p].kind, proc[p].pc),
         proc[p].kind # "v1" \/ proc[p].status = "done"
  PROVE  Intact(name) /\ files[name].by = p /\ Says(p, name)
<1>1. FilesOf(p) /\ Written(p) = InHand(proc[p].kind, proc[p].pc)
  BY DEF TofuInv, FilesInv, Written, InHand
<1>2. name \notin Cut(p)
  <2>1. CASE proc[p].status = "killed" /\ Here(p).op = "write" /\ name = Here(p).arg
    <3>1. Orderly(proc[p].kind, proc[p].pc) /\ Here(p) = Programs[proc[p].kind][proc[p].pc]
      BY <2>1, AtStep DEF TofuInv
    <3>2. proc[p].kind = "v1"
      BY <2>1, <3>1 DEF Orderly
    <3>. QED  BY <2>1, <3>2
  <2>. QED  BY <2>1 DEF Cut
<1>3. Intact(name) /\ files[name].by = p
  BY <1>1, <1>2 DEF FilesOf, Intact
<1>. QED  BY <1>3 DEF Intact, TofuInv, ContentInv

\* Who has confirmed anything.
LEMMA Confirmed ==
  ASSUME TofuInv, NEW p \in DOMAIN proc, proc[p].trials # <<>>
  PROVE  /\ proc[p].kind \in {"v1", "v2", "v3"} /\ HasRoot(p)
         /\ proc[p].kind = "v2" => proc[p].pc > 10
         /\ proc[p].kind = "v3" => proc[p].pc > 18
<1>1. proc[p].kind \in Kinds /\ proc[p].pc \in Nat \ {0} /\ proc[p].trials \in Seq(Trials)
  BY Counters DEF TofuInv, Process
<1>2. Len(proc[p].trials) = Taken(proc[p].kind, proc[p].pc)
  BY DEF TofuInv, LocalsInv, LocalsOf
<1>3. Taken(proc[p].kind, proc[p].pc) # 0
  BY <1>1, <1>2
<1>4. /\ proc[p].kind \in {"v1", "v2", "v3"}
      /\ proc[p].kind = "v1" => proc[p].pc > 4
      /\ proc[p].kind = "v2" => proc[p].pc > 10
      /\ proc[p].kind = "v3" => proc[p].pc > 18
  BY <1>1, <1>3 DEF Taken
<1>5. RootAt["v1"] = 2 /\ RootAt["v2"] = 2 /\ RootAt["v3"] = 5
  BY DEF RootAt
<1>. QED  BY <1>1, <1>4, <1>5 DEF HasRoot

LEMMA V3Has ==
  ASSUME NEW n \in 1..35, n > 18
  PROVE  \A name \in {"development", "selection", "state-02"} : name \in InHand("v3", n)
<1>1. n > 13 /\ n > 15 /\ n > 16
  OBVIOUS
<1>2. "development" \in Earlier("v3", n)
  BY <1>1, V3Earlier
<1>3. "selection" \in Earlier("v3", n)
  BY <1>1, V3Earlier
<1>4. "state-02" \in Earlier("v3", n)
  BY <1>1, V3Earlier
<1>. QED  BY <1>2, <1>3, <1>4 DEF InHand

LEMMA V2Has ==
  ASSUME NEW n \in 1..18, n > 10
  PROVE  "development" \in InHand("v2", n)
<1>1. n > 9
  OBVIOUS
<1>2. "development" \in Earlier("v2", n)
  BY <1>1, V2Earlier
<1>. QED  BY <1>2 DEF InHand

LEMMA BlindByInv ==
  ASSUME TofuInv
  PROVE  ConfirmationIsBlind
<1>. SUFFICES ASSUME NEW p \in DOMAIN proc, NEW t \in ToSet(proc[p].trials)
              PROVE  /\ proc[p].kind = "v3" =>
                          /\ AllIntact({"development", "selection", "state-02"})
                          /\ files["selection"].by = p /\ files["selection"].selected = t.config
                          /\ files["selection"].development = files["development"]
                     /\ proc[p].kind = "v2" =>
                          /\ Intact("development")
                          /\ files["development"].by = p
                          /\ files["development"].selected = t.config
  BY DEF ConfirmationIsBlind
<1>1. t.config = proc[p].selected /\ proc[p].trials # <<>>
  <2>1. PICK i \in DOMAIN proc[p].trials : t = proc[p].trials[i]
    BY DEF ToSet
  <2>2. proc[p].trials # <<>>
    BY <2>1
  <2>. QED  BY <2>1, <2>2 DEF TofuInv, LocalsInv, LocalsOf
<1>2. /\ HasRoot(p)
      /\ proc[p].kind = "v2" => proc[p].pc > 10
      /\ proc[p].kind = "v3" => proc[p].pc > 18
      /\ proc[p].pc \in 1..(Len(Programs[proc[p].kind]) + 1)
  BY <1>1, Confirmed, Counters DEF TofuInv, Length
<1>3. ASSUME proc[p].kind = "v3"
      PROVE  /\ AllIntact({"development", "selection", "state-02"})
             /\ files["selection"].by = p /\ files["selection"].selected = t.config
             /\ files["selection"].development = files["development"]
  <2>1. proc[p].pc \in 1..35
    BY <1>2, <1>3, ProgramsAre
  <2>2. \A name \in {"development", "selection", "state-02"} : name \in InHand("v3", proc[p].pc)
    BY <1>2, <1>3, <2>1, V3Has
  <2>3. \A name \in {"development", "selection", "state-02"} :
          Intact(name) /\ files[name].by = p /\ Says(p, name)
    BY <1>2, <1>3, <2>2, Solid
  <2>. QED  BY <1>1, <2>3 DEF AllIntact, Says
<1>4. ASSUME proc[p].kind = "v2"
      PROVE  /\ Intact("development")
             /\ files["development"].by = p /\ files["development"].selected = t.config
  <2>1. proc[p].pc \in 1..18
    BY <1>2, <1>4, ProgramsAre
  <2>2. "development" \in InHand("v2", proc[p].pc)
    BY <1>2, <1>4, <2>1, V2Has
  <2>3. Intact("development") /\ files["development"].by = p /\ Says(p, "development")
    BY <1>2, <1>4, <2>2, Solid
  <2>. QED  BY <1>1, <2>3 DEF Says
<1>. QED  BY <1>3, <1>4

\* What a v3 verifier accepts, a v3 process has written to the end.
LEMMA ByV3 ==
  ASSUME NEW kind \in Kinds, NEW n \in 1..(Len(Programs[kind]) + 1),
         "state-05" \in InHand(kind, n)
  PROVE  /\ kind \in {"v3", "empty", "smoke"}
         /\ kind = "v3" => n > 33
<1>1. Inherited(kind) \subseteq {"state-00"}
  BY DEF Inherited
<1>2. "state-05" \in Earlier(kind, n)
  BY <1>1 DEF InHand
<1>3. kind # "v1"
  <2>1. ASSUME kind = "v1"
        PROVE  n \in 1..10 /\ "state-05" \in Earlier("v1", n)
    BY <1>2, <2>1, ProgramsAre
  <2>. QED  BY <2>1, V1Earlier
<1>4. kind # "v2"
  <2>1. ASSUME kind = "v2"
        PROVE  n \in 1..18 /\ "state-05" \in Earlier("v2", n)
    BY <1>2, <2>1, ProgramsAre
  <2>. QED  BY <2>1, V2Earlier
<1>5. kind # "shard"
  <2>1. ASSUME kind = "shard"
        PROVE  n \in 1..9 /\ "state-05" \in Earlier("shard", n)
    BY <1>2, <2>1, ProgramsAre
  <2>. QED  BY <2>1, ShardEarlier
<1>6. kind = "v3" => n > 33
  <2>1. ASSUME kind = "v3"
        PROVE  n \in 1..35 /\ "state-05" \in Earlier("v3", n)
    BY <1>2, <2>1, ProgramsAre
  <2>. QED  BY <2>1, V3Earlier
<1>. QED  BY <1>3, <1>4, <1>5, <1>6 DEF Kinds

LEMMA AcceptedV3 ==
  ASSUME TofuInv, VerifiesV3
  PROVE  \E p \in DOMAIN proc :
           /\ HasRoot(p) /\ IsV3(p) /\ Summary.by = p /\ proc[p].hash = protocol
           /\ proc[p].kind = "v3" => proc[p].pc > 33
           /\ \A n : Intact(n) => /\ n \in InHand(proc[p].kind, proc[p].pc)
                                  /\ files[n].by = p /\ Says(p, n)
<1>1. Intact("summary") /\ Intact("state-05") /\ Summary.hash = protocol
  <2>1. StateChain /\ AllIntact({"manifest", "summary"}) /\ Summary.hash = protocol
    BY DEF VerifiesV3
  <2>2. 6 \in Present /\ \A i \in Present : Intact(States[i])
    BY <2>1 DEF StateChain
  <2>. QED  BY <2>1, <2>2, StatesAre DEF AllIntact
<1>2. PICK p \in DOMAIN proc :
        /\ HasRoot(p)
        /\ \A n : Intact(n) => /\ n \in InHand(proc[p].kind, proc[p].pc)
                               /\ files[n].by = p /\ Says(p, n)
  BY <1>1, Writer
<1>3. proc[p].kind \in Kinds /\ proc[p].pc \in 1..(Len(Programs[proc[p].kind]) + 1)
  BY Counters DEF TofuInv, Length
<1>4. /\ proc[p].kind \in {"v3", "empty", "smoke"}
      /\ proc[p].kind = "v3" => proc[p].pc > 33
  BY <1>1, <1>2, <1>3, ByV3
<1>5. IsV3(p)
  BY <1>4 DEF IsV3
<1>6. proc[p].hash = protocol
  BY <1>1, <1>2, <1>5 DEF Says, OwnHash, Summary
<1>. QED  BY <1>1, <1>2, <1>4, <1>5, <1>6 DEF Summary

\* A view is of the first version's authors, unless the file was edited within
\* the window that "swapped" names.  Without an edit before the directory, the
\* confirmation view is opened with the hash of the first version only.
View == [developed : Nat, expected : {NotRead} \union DOMAIN Protocols, read : Nat,
         confirmed : Nat]
First == Protocols[1].authors
Sees(p) ==
  /\ views[p].developed = NotRead <=> proc[p].kind = "v3" /\ proc[p].pc <= 7
  /\ <<p, "development">> \notin swapped =>
       IF views[p].developed = NotRead THEN protocol = 1 ELSE views[p].developed = First
  /\ proc[p].kind = "v3" =>
       /\ views[p].confirmed = NotRead <=> proc[p].pc <= 17
       /\ views[p].read # NotRead => views[p].expected # NotRead
       /\ <<p, "confirmation">> \notin swapped =>
            IF views[p].confirmed = NotRead
            THEN views[p].read # NotRead => views[p].read = Protocols[protocol].authors
            ELSE ~ early => views[p].confirmed = First
ViewInv ==
  /\ views \in [DOMAIN proc -> View]
  /\ \A p \in DOMAIN proc : proc[p].kind \in {"v3", "empty"} => Sees(p)

\* Where v3 opens its views.
LEMMA V3Opens ==
  \A n \in 1..34 : /\ V3Program[n].op = "openData" <=> n = 7
                   /\ V3Program[n].op = "openConfirmation" <=> n = 17
<1>1. V3Program[7].op = "openData" /\ V3Program[17].op = "openConfirmation"
  BY DEF V3Program, Do, Write, Confirm, Step
<1>2. \A n \in 1..34 : V3Program[n].op = "openData" => n = 7
  BY DEF V3Program, Do, Write, Confirm, Step
<1>3. \A n \in 1..34 : V3Program[n].op = "openConfirmation" => n = 17
  BY DEF V3Program, Do, Write, Confirm, Step
<1>. TAKE n \in 1..34
<1>4. n = 7 => V3Program[n].op = "openData"
  BY <1>1
<1>5. n = 17 => V3Program[n].op = "openConfirmation"
  BY <1>1
<1>6. V3Program[n].op = "openData" => n = 7
  BY <1>2
<1>7. V3Program[n].op = "openConfirmation" => n = 17
  BY <1>3
<1>. QED  BY <1>4, <1>5, <1>6, <1>7

LEMMA OpensAt ==
  ASSUME TofuTypes, NEW p \in DOMAIN proc, proc[p].status = "running", proc[p].kind = "v3"
  PROVE  /\ proc[p].pc \in 1..34
         /\ Here(p).op = "openData" <=> proc[p].pc = 7
         /\ Here(p).op = "openConfirmation" <=> proc[p].pc = 17
<1>1. proc[p].pc \in 1..Length(p) /\ Here(p) = Programs[proc[p].kind][proc[p].pc]
  BY AtStep
<1>2. proc[p].pc \in 1..34 /\ Here(p) = V3Program[proc[p].pc]
  BY <1>1, ProgramsAre DEF Length
<1>. QED  BY <1>2, V3Opens

LEMMA OpensNothing ==
  ASSUME TofuTypes, NEW p \in DOMAIN proc, proc[p].status = "running"
  PROVE  /\ proc[p].kind = "empty" => Here(p).op = "write"
         /\ Here(p).op = "openConfirmation" => proc[p].kind = "v3"
<1>1. /\ proc[p].kind \in Kinds /\ proc[p].pc \in 1..Len(Programs[proc[p].kind])
      /\ Here(p) = Programs[proc[p].kind][proc[p].pc]
  BY AtStep DEF Length
<1>2. \A n \in 1..5 : EmptyProgram[n].op = "write"
  BY DEF EmptyProgram, Write, Step
<1>3. \A n \in 1..9 : V1Program[n].op # "openConfirmation"
  BY DEF V1Program, Do, Write, Confirm, Step
<1>4. \A n \in 1..17 : V2Program[n].op # "openConfirmation"
  BY DEF V2Program, Do, Write, Confirm, Step
<1>5. \A n \in 1..10 : SmokeProgram[n].op # "openConfirmation"
  BY DEF SmokeProgram, Do, Write, Step
<1>6. \A n \in 1..8 : ShardProgram[n].op # "openConfirmation"
  BY DEF ShardProgram, Do, Write, Step
<1>7. ASSUME proc[p].kind = "empty"
      PROVE  Here(p).op = "write"
  <2>1. Here(p) = EmptyProgram[proc[p].pc] /\ proc[p].pc \in 1..5
    BY <1>1, <1>7, ProgramsAre
  <2>. QED  BY <1>2, <2>1
<1>8. proc[p].kind = "v1" => Here(p).op # "openConfirmation"
  BY <1>1, <1>3, ProgramsAre
<1>9. proc[p].kind = "v2" => Here(p).op # "openConfirmation"
  BY <1>1, <1>4, ProgramsAre
<1>10. proc[p].kind = "smoke" => Here(p).op # "openConfirmation"
  BY <1>1, <1>5, ProgramsAre
<1>11. proc[p].kind = "shard" => Here(p).op # "openConfirmation"
  BY <1>1, <1>6, ProgramsAre
<1>. QED  BY <1>1, <1>7, <1>8, <1>9, <1>10, <1>11 DEF Kinds

\* A step that keeps the views passes by none of the two openings of v3.
Overlooks(p) ==
  /\ StepOf(p) /\ UNCHANGED <<views, swapped>>
  /\ \/ proc'[p].kind = proc[p].kind /\ proc'[p].pc = proc[p].pc
     \/ Here(p).op \notin {"openData", "openConfirmation"}
     \/ proc[p].kind \notin {"v3", "shard"}

\* A step that opens a view goes on and leaves everything else alone.
Opens(p) ==
  /\ proc[p].status = "running" /\ GoesOn(p) /\ Rest(p)
  /\ UNCHANGED <<protocol, early, swapped>>
OpensDevelopment(p) ==
  /\ Here(p).op = "openData" /\ Opens(p)
  /\ views' = [views EXCEPT ![p].developed = Protocols[protocol].authors]
OpensConfirmation(p) ==
  /\ Here(p).op = "openConfirmation" /\ Opens(p) /\ views[p].read # NotRead
  /\ Intact("selection") /\ files["selection"].hash = protocol
  /\ views' = [views EXCEPT ![p].confirmed = views[p].read]
Looks(p) ==
  /\ Doing(p, "openConfirmation") /\ UNCHANGED proc
  /\ UNCHANGED <<protocol, early, swapped>>
  /\ \/ views' = [views EXCEPT ![p].expected = protocol]
     \/ /\ views[p].expected # NotRead
        /\ views' = [views EXCEPT ![p].read = Protocols[protocol].authors]

LEMMA Passed ==
  ASSUME TofuTypes, NEW p \in DOMAIN proc, proc[p].status = "running", Advance(p, proc[p])
  PROVE  GoesOn(p) /\ Rest(p)
BY AtStep, Advancing DEF GoesOn, Rest

LEMMA Raised ==
  ASSUME TofuTypes, NEW p \in DOMAIN proc, NEW status \in {"raised", "killed"},
         proc' = [proc EXCEPT ![p].status = status]
  PROVE  proc'[p].kind = proc[p].kind /\ proc'[p].pc = proc[p].pc
BY Stopping

LEMMA Sights ==
  ASSUME TofuTypes, TofuNext
  PROVE  \/ \E p \in DOMAIN proc :
              Overlooks(p) \/ OpensDevelopment(p) \/ OpensConfirmation(p) \/ Looks(p)
         \/ Edit
         \/ UNCHANGED tofuVars
<1>1. ASSUME NEW p \in DOMAIN proc, UNCHANGED views,
             \/ ReadProtocol(p) \/ Look(p) \/ ParseProtocol(p) \/ HashProtocol(p)
             \/ MakeRoot(p) \/ TrainTarget(p) \/ EvaluatePaths(p) \/ RunBaselines(p)
             \/ Relearn(p) \/ SelectPoint(p) \/ ConfirmTrial(p) \/ WriteFile(p)
      PROVE  Overlooks(p)
  <2>1. StepOf(p)
    <3>1. CASE ReadProtocol(p) \/ Look(p) \/ ParseProtocol(p) \/ HashProtocol(p)
      BY <3>1 DEF ReadProtocol, Look, ParseProtocol, HashProtocol, Doing, StepOf, Stops,
                  Passes, Reads, Hashes
    <3>2. CASE MakeRoot(p)
      BY <3>2 DEF MakeRoot, Doing, StepOf, Stops, OnDisk, Makes
    <3>3. CASE TrainTarget(p) \/ EvaluatePaths(p) \/ RunBaselines(p) \/ Relearn(p)
      BY <3>3 DEF TrainTarget, EvaluatePaths, RunBaselines, Relearn, Computes, Doing, Passing,
                  StepOf, Passes
    <3>4. CASE SelectPoint(p)
      <4>1. CASE proc[p].kind = "v3" /\ Choice(proc[p].kind, proc[p].proto) = NoCandidate
        BY <3>4, <4>1 DEF SelectPoint, StepOf, TurnsAway
      <4>2. CASE ~ (proc[p].kind = "v3" /\ Choice(proc[p].kind, proc[p].proto) = NoCandidate)
        BY <3>4, <4>2 DEF SelectPoint, StepOf, Chooses
      <4>. QED  BY <4>1, <4>2
    <3>5. CASE WriteFile(p)
      <4>1. CASE MayWrite(p, Here(p).arg)
        BY <3>5, <4>1 DEF WriteFile, StepOf, Writes
      <4>2. CASE ~ MayWrite(p, Here(p).arg)
        BY <3>5, <4>2 DEF WriteFile, Doing, StepOf, Stops, OnDisk
      <4>. QED  BY <4>1, <4>2
    <3>. QED  BY <1>1, <3>1, <3>2, <3>3, <3>4, <3>5 DEF StepOf
  <2>2. Here(p).op \notin {"openData", "openConfirmation"}
    BY <1>1 DEF ReadProtocol, Look, ParseProtocol, HashProtocol, MakeRoot, TrainTarget,
                EvaluatePaths, RunBaselines, Relearn, Computes, SelectPoint, ConfirmTrial,
                WriteFile, Doing
  <2>3. UNCHANGED swapped
    BY <1>1 DEF ReadProtocol, Look, ParseProtocol, HashProtocol, MakeRoot, TrainTarget,
                EvaluatePaths, RunBaselines, Relearn, Computes, SelectPoint, ConfirmTrial,
                WriteFile, OnDisk, faults
  <2>. QED  BY <1>1, <2>1, <2>2, <2>3 DEF Overlooks
<1>2. ASSUME NEW p \in DOMAIN proc, UNCHANGED views, Fail(p) \/ Kill(p)
      PROVE  Overlooks(p)
  <2>1. StepOf(p) /\ UNCHANGED swapped
    BY <1>2 DEF Fail, Kill, Disturb, StepOf, Fails
  <2>2. \E status \in {"raised", "killed"} : proc' = [proc EXCEPT ![p].status = status]
    BY <1>2 DEF Fail, Kill, Raise
  <2>. QED  BY <1>2, <2>1, <2>2, Raised DEF Overlooks
<1>3. ASSUME NEW p \in DOMAIN proc, OpenData(p)
      PROVE  Overlooks(p) \/ OpensDevelopment(p)
  <2>1. proc[p].status = "running" /\ Here(p).op = "openData" /\ OnDisk
    BY <1>3 DEF OpenData, Doing
  <2>2. UNCHANGED <<protocol, early, swapped>>
    BY <2>1 DEF OnDisk, faults
  <2>3. CASE Raise(p)
    <3>1. StepOf(p)
      BY <2>1, <2>3 DEF StepOf, Stops
    <3>2. proc'[p].kind = proc[p].kind /\ proc'[p].pc = proc[p].pc
      BY <2>3, Raised DEF Raise
    <3>3. UNCHANGED views \/ Advance(p, proc[p])
      BY <1>3 DEF OpenData
    <3>4. ~ Advance(p, proc[p])
      BY <2>1, <3>2, Passed, AtStep DEF GoesOn
    <3>. QED  BY <2>2, <3>1, <3>2, <3>3, <3>4 DEF Overlooks
  <2>4. CASE Advance(p, proc[p])
    <3>1. GoesOn(p) /\ Rest(p)
      BY <2>1, <2>4, Passed
    <3>2. StepOf(p)
      BY <2>1, <2>4 DEF StepOf, Passes, Passing
    <3>3. CASE UNCHANGED views /\ proc[p].kind \notin {"v3", "shard"}
      BY <2>2, <3>2, <3>3 DEF Overlooks
    <3>4. CASE views' = [views EXCEPT ![p].developed = Protocols[protocol].authors]
      BY <2>1, <2>2, <3>1, <3>4 DEF OpensDevelopment, Opens
    <3>5. ~ Raise(p)
      <4>1. Raise(p) => proc'[p].pc = proc[p].pc
        BY Raised DEF Raise
      <4>. QED  BY <2>1, <3>1, <4>1, AtStep DEF GoesOn
    <3>. QED  BY <1>3, <3>3, <3>4, <3>5 DEF OpenData
  <2>. QED  BY <1>3, <2>3, <2>4 DEF OpenData
<1>4. ASSUME NEW p \in DOMAIN proc, HashExpected(p)
      PROVE  Looks(p)
  BY <1>4 DEF HashExpected, Looks, OnDisk, faults
<1>5. ASSUME NEW p \in DOMAIN proc, ReadConfirmation(p)
      PROVE  Overlooks(p) \/ Looks(p)
  <2>1. CASE Protocols[protocol].frozen
    BY <1>5, <2>1 DEF ReadConfirmation, Looks, OnDisk, faults
  <2>2. CASE ~ Protocols[protocol].frozen
    <3>1. StepOf(p) /\ UNCHANGED <<views, swapped>> /\ Raise(p)
      BY <1>5, <2>2 DEF ReadConfirmation, Doing, StepOf, Stops, OnDisk, faults
    <3>. QED  BY <3>1, Raised DEF Overlooks, Raise
  <2>. QED  BY <2>1, <2>2
<1>6. ASSUME NEW p \in DOMAIN proc, OpenConfirmation(p)
      PROVE  Overlooks(p) \/ OpensConfirmation(p)
  <2>1. /\ proc[p].status = "running" /\ Here(p).op = "openConfirmation" /\ OnDisk
        /\ UNCHANGED <<protocol, early, swapped>> /\ views[p].read # NotRead
    BY <1>6 DEF OpenConfirmation, Doing, OnDisk, faults
  <2>2. CASE Raise(p) /\ UNCHANGED views
    BY <2>1, <2>2, Raised DEF Overlooks, Raise, StepOf, Stops
  <2>3. CASE /\ Intact("selection") /\ files["selection"].hash = protocol
             /\ Advance(p, proc[p])
             /\ views' = [views EXCEPT ![p].confirmed = views[p].read]
    BY <2>1, <2>3, Passed DEF OpensConfirmation, Opens
  <2>. QED  BY <1>6, <2>2, <2>3 DEF OpenConfirmation
<1>. QED  BY <1>1, <1>2, <1>3, <1>4, <1>5, <1>6 DEF TofuNext, Ended

LEMMA ViewStarts ==
  ASSUME TofuInit
  PROVE  ViewInv
<1>1. PICK s \in Scenarios :
        /\ proc = [i \in DOMAIN s.start |-> Fresh(s.start[i])]
        /\ views = [i \in DOMAIN s.start |-> Unopened]
  BY DEF TofuInit
<1>2. s.start \in Seq({"v1", "v2", "v3", "smoke", "shard"}) /\ protocol = 1
  BY ScenariosAssumption DEF TofuInit
<1>3. Unopened \in View
  BY DEF Unopened, View, NotRead
<1>4. ASSUME NEW p \in DOMAIN proc
      PROVE  proc[p].pc = 1 /\ proc[p].kind # "empty" /\ views[p] = Unopened
  <2>1. p \in DOMAIN s.start /\ proc[p] = Fresh(s.start[p]) /\ views[p] = Unopened
    BY <1>1
  <2>2. s.start[p] # "empty"
    BY <1>2, <2>1
  <2>. QED  BY <2>1, <2>2 DEF Fresh
<1>5. ASSUME NEW p \in DOMAIN proc, proc[p].kind \in {"v3", "empty"}
      PROVE  Sees(p)
  BY <1>2, <1>4, <1>5 DEF Sees, Unopened, NotRead
<1>6. views \in [DOMAIN proc -> View]
  BY <1>1, <1>3
<1>. QED  BY <1>5, <1>6 DEF ViewInv

\* What v3 records with its selection is the first version's hash, unless the
\* file was edited before there was a directory.
LEMMA SelectionIsOfFirst ==
  ASSUME TofuInv, ~ early, NEW p \in DOMAIN proc, proc[p].kind = "v3", HasRoot(p),
         Intact("selection")
  PROVE  files["selection"].hash = 1
<1>1. PICK q \in DOMAIN proc : HasRoot(q) /\ Says(q, "selection")
  BY Writer
<1>2. q = p
  BY <1>1 DEF TofuInv, RootInv
<1>3. files["selection"].hash = proc[p].hash
  BY <1>1, <1>2 DEF Says, OwnHash, IsV3
<1>. QED  BY <1>3 DEF TofuInv, VersionInv, ReadsFirst

\* The other processes see what they saw.
LEMMA OthersSee ==
  ASSUME NEW p, NEW r, r # p, Sees(r), proc'[r] = proc[r], views'[r] = views[r],
         UNCHANGED <<protocol, early, swapped>>
  PROVE  Sees(r)'
BY DEF Sees

LEMMA OverlookingStays ==
  ASSUME TofuInv, ViewInv, NEW p \in DOMAIN proc, Overlooks(p)
  PROVE  ViewInv'
<1>1. Effect(p) /\ Rest(p) /\ UNCHANGED <<views, swapped, protocol, early>>
  BY Effects, Steady DEF Overlooks, TofuInv
<1>2. proc[p].status = "running"
  BY Rooted DEF Overlooks, TofuInv
<1>3. /\ proc[p].kind \in Kinds /\ proc[p].pc \in 1..Length(p) /\ Length(p) \in Nat
      /\ Turn(proc[p].kind, proc[p].pc) /\ Here(p) = Programs[proc[p].kind][proc[p].pc]
  BY <1>2, AtStep DEF TofuInv
<1>4. \/ Halts(p) \/ GoesOn(p)
      \/ proc[p].kind = "v3" /\ proc[p].pc = 12 /\ proc'[p].kind = "empty" /\ proc'[p].pc = 1
  BY <1>1, <1>3 DEF Effect, TurnsAway, Doing, Turn
<1>5. ASSUME proc'[p].kind \in {"v3", "empty"}
      PROVE  Sees(p)'
  <2>1. proc[p].kind \in {"v3", "empty"} /\ Sees(p)
    BY <1>4, <1>5 DEF Halts, GoesOn, ViewInv
  <2>2. CASE Halts(p)
    BY <1>1, <2>1, <2>2 DEF Halts, Sees
  <2>3. CASE GoesOn(p) /\ proc[p].kind = "empty"
    BY <1>1, <2>1, <2>3 DEF GoesOn, Sees
  <2>4. CASE GoesOn(p) /\ proc[p].kind = "v3"
    <3>1. proc[p].pc \in 1..34 /\ proc[p].pc # 7 /\ proc[p].pc # 17
      BY <1>2, <1>3, <2>4, OpensAt DEF Overlooks, GoesOn, TofuInv
    <3>2. /\ proc'[p].pc <= 7 <=> proc[p].pc <= 7
          /\ proc'[p].pc <= 17 <=> proc[p].pc <= 17
          /\ proc'[p].kind = "v3"
      BY <2>4, <3>1 DEF GoesOn
    <3>. QED  BY <1>1, <2>1, <2>4, <3>2 DEF Sees
  <2>5. CASE proc[p].kind = "v3" /\ proc[p].pc = 12 /\ proc'[p].kind = "empty"
    BY <1>1, <2>1, <2>5 DEF Sees
  <2>. QED  BY <1>4, <2>1, <2>2, <2>3, <2>4, <2>5
<1>6. ASSUME NEW r \in DOMAIN proc, r # p, proc'[r].kind \in {"v3", "empty"}
      PROVE  Sees(r)'
  BY <1>1, <1>6, OthersSee DEF Rest, ViewInv
<1>. QED  BY <1>1, <1>5, <1>6 DEF ViewInv, Rest

LEMMA DevelopmentStays ==
  ASSUME TofuInv, ViewInv, NEW p \in DOMAIN proc, OpensDevelopment(p)
  PROVE  ViewInv'
<1>. DEFINE authors == Protocols[protocol].authors
<1>1. /\ proc[p].status = "running" /\ GoesOn(p) /\ Rest(p)
      /\ UNCHANGED <<protocol, early, swapped>> /\ Here(p).op = "openData"
      /\ views' = [views EXCEPT ![p].developed = authors]
  BY DEF OpensDevelopment, Opens
<1>2. authors \in Nat /\ authors # NotRead
  BY AuthorsAssumption DEF TofuInv, TofuTypes, NotRead
<1>. HIDE DEF authors
<1>3. /\ views'[p] = [views[p] EXCEPT !.developed = authors] /\ views[p] \in View
      /\ \A r \in DOMAIN proc : r # p => views'[r] = views[r]
  BY <1>1 DEF ViewInv
<1>4. /\ views'[p].developed = authors /\ views'[p].expected = views[p].expected
      /\ views'[p].read = views[p].read /\ views'[p].confirmed = views[p].confirmed
      /\ views'[p] \in View
  BY <1>2, <1>3 DEF View
<1>5. views' \in [DOMAIN proc -> View]
  BY <1>1, <1>4 DEF ViewInv
<1>6. ASSUME proc'[p].kind \in {"v3", "empty"}
      PROVE  Sees(p)'
  <2>1. proc[p].kind = "v3" /\ proc[p].pc = 7
    BY <1>1, <1>6, OpensNothing, OpensAt DEF GoesOn, TofuInv
  <2>2. Sees(p) /\ proc'[p].kind = "v3" /\ proc'[p].pc = 8
    BY <1>1, <2>1 DEF ViewInv, GoesOn
  <2>3. <<p, "development">> \notin swapped => authors = First
    BY <2>1, <2>2 DEF Sees, First, authors
  <2>. QED  BY <1>1, <1>2, <1>4, <2>1, <2>2, <2>3 DEF Sees
<1>7. ASSUME NEW r \in DOMAIN proc, r # p, proc'[r].kind \in {"v3", "empty"}
      PROVE  Sees(r)'
  BY <1>1, <1>3, <1>7, OthersSee DEF Rest, ViewInv
<1>. QED  BY <1>1, <1>5, <1>6, <1>7 DEF ViewInv, Rest

LEMMA ConfirmationStays ==
  ASSUME TofuInv, ViewInv, NEW p \in DOMAIN proc, OpensConfirmation(p)
  PROVE  ViewInv'
<1>1. /\ proc[p].status = "running" /\ GoesOn(p) /\ Rest(p) /\ views[p].read # NotRead
      /\ UNCHANGED <<protocol, early, swapped>> /\ Here(p).op = "openConfirmation"
      /\ Intact("selection") /\ files["selection"].hash = protocol
      /\ views' = [views EXCEPT ![p].confirmed = views[p].read]
  BY DEF OpensConfirmation, Opens
<1>2. proc[p].kind = "v3" /\ proc[p].pc = 17
  BY <1>1, OpensNothing, OpensAt DEF TofuInv
<1>3. /\ views'[p] = [views[p] EXCEPT !.confirmed = views[p].read] /\ views[p] \in View
      /\ \A r \in DOMAIN proc : r # p => views'[r] = views[r]
  BY <1>1 DEF ViewInv
<1>4. /\ views'[p].developed = views[p].developed /\ views'[p].expected = views[p].expected
      /\ views'[p].read = views[p].read /\ views'[p].confirmed = views[p].read
      /\ views'[p] \in View
  BY <1>3 DEF View
<1>5. views' \in [DOMAIN proc -> View]
  BY <1>1, <1>4 DEF ViewInv
<1>6. Sees(p)'
  <2>1. Sees(p) /\ proc'[p].kind = "v3" /\ proc'[p].pc = 18
    BY <1>1, <1>2 DEF ViewInv, GoesOn
  <2>2. HasRoot(p)
    BY <1>2 DEF HasRoot, RootAt
  <2>3. ~ early => protocol = 1
    BY <1>1, <1>2, <2>2, SelectionIsOfFirst
  <2>4. <<p, "confirmation">> \notin swapped /\ ~ early => views[p].read = First
    BY <1>1, <1>2, <2>1, <2>3 DEF Sees, First
  <2>. QED  BY <1>1, <1>2, <1>4, <2>1, <2>4 DEF Sees
<1>7. ASSUME NEW r \in DOMAIN proc, r # p, proc'[r].kind \in {"v3", "empty"}
      PROVE  Sees(r)'
  BY <1>1, <1>3, <1>7, OthersSee DEF Rest, ViewInv
<1>. QED  BY <1>1, <1>5, <1>6, <1>7 DEF ViewInv, Rest

LEMMA LookingStays ==
  ASSUME TofuInv, ViewInv, NEW p \in DOMAIN proc, Looks(p)
  PROVE  ViewInv'
<1>1. /\ proc[p].status = "running" /\ Here(p).op = "openConfirmation"
      /\ UNCHANGED <<proc, protocol, early, swapped>>
  BY DEF Looks, Doing
<1>2. proc[p].kind = "v3" /\ proc[p].pc = 17 /\ Sees(p) /\ views[p] \in View
  BY <1>1, OpensNothing, OpensAt DEF TofuInv, ViewInv
<1>3. /\ protocol # NotRead /\ protocol \in DOMAIN Protocols
      /\ Protocols[protocol].authors \in Nat
  BY AuthorsAssumption DEF TofuInv, TofuTypes, NotRead
<1>4. /\ views'[p] \in View /\ views'[p].developed = views[p].developed
      /\ views'[p].confirmed = views[p].confirmed
      /\ \/ views'[p].expected = protocol /\ views'[p].read = views[p].read
         \/ /\ views'[p].expected = views[p].expected /\ views[p].expected # NotRead
            /\ views'[p].read = Protocols[protocol].authors
  <2>1. CASE views' = [views EXCEPT ![p].expected = protocol]
    <3>1. views'[p] = [views[p] EXCEPT !.expected = protocol]
      BY <2>1 DEF ViewInv
    <3>. QED  BY <1>2, <1>3, <3>1 DEF View
  <2>2. CASE /\ views[p].expected # NotRead
             /\ views' = [views EXCEPT ![p].read = Protocols[protocol].authors]
    <3>1. views'[p] = [views[p] EXCEPT !.read = Protocols[protocol].authors]
      BY <2>2 DEF ViewInv
    <3>. QED  BY <1>2, <1>3, <2>2, <3>1 DEF View
  <2>. QED  BY <2>1, <2>2 DEF Looks
<1>5. views' \in [DOMAIN proc -> View] /\ \A r \in DOMAIN proc : r # p => views'[r] = views[r]
  BY <1>4 DEF Looks, ViewInv
<1>6. Sees(p)'
  BY <1>1, <1>2, <1>3, <1>4 DEF Sees
<1>7. ASSUME NEW r \in DOMAIN proc, r # p, proc'[r].kind \in {"v3", "empty"}
      PROVE  Sees(r)'
  BY <1>1, <1>5, <1>7, OthersSee DEF ViewInv
<1>. QED  BY <1>1, <1>5, <1>6, <1>7 DEF ViewInv

\* An edit falls into the windows of all the processes that are in one.
LEMMA EditingStays ==
  ASSUME TofuInv, ViewInv, Edit
  PROVE  ViewInv'
<1>1. UNCHANGED <<proc, views>> /\ swapped \subseteq swapped'
      /\ (early => early')
      /\ \A p \in DOMAIN proc :
           /\ views[p].developed = NotRead => <<p, "development">> \in swapped'
           /\ Confirming(p) => <<p, "confirmation">> \in swapped'
  BY DEF Edit
<1>2. ASSUME NEW p \in DOMAIN proc, Sees(p)
      PROVE  Sees(p)'
  <2>1. early \in BOOLEAN /\ early' \in BOOLEAN /\ root \in BOOLEAN
    BY DEF Edit, TofuInv, TofuTypes
  <2>2. <<p, "development">> \notin swapped' => views[p].developed = First
    BY <1>1, <1>2 DEF Sees
  <2>3. proc[p].kind = "v3" /\ <<p, "confirmation">> \notin swapped' =>
          IF views[p].confirmed = NotRead THEN views[p].read = NotRead
          ELSE ~ early' => views[p].confirmed = First
    BY <1>1, <1>2, <2>1 DEF Sees, Confirming
  <2>. QED  BY <1>1, <1>2, <2>2, <2>3 DEF Sees
<1>. QED  BY <1>1, <1>2 DEF ViewInv

LEMMA ViewStays ==
  ASSUME TofuInv, ViewInv, [TofuNext]_tofuVars
  PROVE  ViewInv'
<1>1. CASE UNCHANGED tofuVars
  <2>1. UNCHANGED <<protocol, proc, views, early, swapped>>
    BY <1>1 DEF tofuVars, faults
  <2>. QED  BY <2>1 DEF ViewInv, Sees
<1>2. CASE TofuNext
  BY <1>1, <1>2, Sights, OverlookingStays, DevelopmentStays, ConfirmationStays, LookingStays,
     EditingStays DEF TofuInv
<1>. QED  BY <1>1, <1>2

LEMMA RanByInv ==
  ASSUME TofuInv, ViewInv
  PROVE  RanItsProtocol
<1>. SUFFICES ASSUME VerifiesV3, ~ early
              PROVE  LET p == Summary.by
                         Unless(view, split) ==
                           <<p, view>> \in swapped \/ split = Protocols[protocol].authors
                     IN  /\ \A r \in ToSet(proc[p].trials) :
                              r.recipe = Protocols[protocol].recipe
                         /\ proc[p].kind # "smoke" => Unless("development", views[p].developed)
                         /\ proc[p].kind = "v3" => Unless("confirmation", views[p].confirmed)
  BY DEF RanItsProtocol
<1>1. PICK p \in DOMAIN proc :
        /\ HasRoot(p) /\ IsV3(p) /\ Summary.by = p /\ proc[p].hash = protocol
        /\ proc[p].kind = "v3" => proc[p].pc > 33
  BY AcceptedV3
<1>2. proc[p].proto = 1 /\ protocol = 1
  BY <1>1 DEF TofuInv, VersionInv, ReadsFirst
<1>3. ASSUME NEW r \in ToSet(proc[p].trials)
      PROVE  r.recipe = Protocols[protocol].recipe
  <2>1. PICK i \in DOMAIN proc[p].trials : r = proc[p].trials[i]
    BY DEF ToSet
  <2>. QED  BY <1>2, <2>1 DEF TofuInv, LocalsInv, LocalsOf
<1>4. proc[p].pc \in Nat
  BY <1>1, Counters DEF TofuInv
<1>5. proc[p].kind \in {"v3", "empty"} => Sees(p) /\ ~ (proc[p].kind = "v3" /\ proc[p].pc <= 17)
  BY <1>1, <1>4 DEF ViewInv
<1>6. ASSUME proc[p].kind # "smoke"
      PROVE  <<p, "development">> \in swapped \/ views[p].developed = Protocols[protocol].authors
  <2>1. proc[p].kind \in {"v3", "empty"}
    BY <1>1, <1>6 DEF IsV3
  <2>2. Sees(p) /\ ~ (proc[p].kind = "v3" /\ proc[p].pc <= 7)
    BY <1>1, <1>4, <1>5, <2>1
  <2>. QED  BY <1>2, <2>2 DEF Sees, First
<1>7. ASSUME proc[p].kind = "v3"
      PROVE  <<p, "confirmation">> \in swapped \/ views[p].confirmed = Protocols[protocol].authors
  BY <1>2, <1>5, <1>7 DEF Sees, First
<1>. QED  BY <1>1, <1>3, <1>6, <1>7

LEMMA CombinedIs ==
  ASSUME NEW trials, NEW bar
  PROVE  Rulings(trials, bar).combined = Summarize(Measured(trials), bar)
<1>1. CASE OfBlock(trials, "primary") = <<>>
  BY <1>1 DEF Rulings
<1>2. CASE OfBlock(trials, "primary") # <<>>
  BY <1>2 DEF Rulings
<1>. QED  BY <1>1, <1>2

\* A published decision which was computed from the published trials is the one
\* of the protocol on disk as soon as the rulings are.
LEMMA Due ==
  ASSUME TofuInv, NEW p \in DOMAIN proc, Says(p, "trials"), Says(p, "summary"),
         proc[p].kind = "v1" => proc[p].pc # 7,
         NEW blocks, NEW b \in blocks, Covered = Wanted(blocks),
         Summary.rulings = Rulings(Rows, BarNow)
  PROVE  /\ Rows = proc[p].trials /\ Rows # <<>>
         /\ Summary.decision = Summarize(Measured(Rows), BarNow).decision
<1>1. Rows = proc[p].trials
  BY DEF Says, Rows
<1>2. Rows # <<>>
  <2>1. <<b, Protocols[protocol].seeds[1]>> \in Covered
    BY DEF Wanted
  <2>2. PICK r \in ToSet(Rows) : TRUE
    BY <2>1 DEF Covered
  <2>3. ToSet(<<>>) = {}
    BY DEF ToSet
  <2>. QED  BY <2>2, <2>3
<1>3. /\ Summary.decision = Summarize(Measured(Rows), Bar(p)).decision
      /\ Summary.rulings = Rulings(Rows, Bar(p))
  BY <1>1, <1>2 DEF Says, Summary
<1>4. Summarize(Measured(Rows), Bar(p)) = Summarize(Measured(Rows), BarNow)
  <2>1. Rulings(Rows, Bar(p)) = Rulings(Rows, BarNow)
    BY <1>3
  <2>2. Rulings(Rows, Bar(p)).combined = Rulings(Rows, BarNow).combined
    BY <2>1
  <2>. QED  BY <2>2, CombinedIs
<1>. QED  BY <1>1, <1>2, <1>3, <1>4

\* Which programs write the files that tell them apart.
LEMMA ByBaselines ==
  ASSUME NEW kind \in Kinds, NEW n \in 1..(Len(Programs[kind]) + 1),
         "baselines" \in InHand(kind, n)
  PROVE  kind \in {"v2", "v3"}
<1>1. Inherited(kind) \subseteq {"state-00"}
  BY DEF Inherited
<1>2. "baselines" \in Earlier(kind, n)
  BY <1>1 DEF InHand
<1>3. kind # "v1"
  <2>1. ASSUME kind = "v1"
        PROVE  n \in 1..10 /\ "baselines" \in Earlier("v1", n)
    BY <1>2, <2>1, ProgramsAre
  <2>. QED  BY <2>1, V1Earlier
<1>4. kind # "empty"
  <2>1. ASSUME kind = "empty"
        PROVE  n \in 1..6 /\ "baselines" \in Earlier("empty", n)
    BY <1>2, <2>1, ProgramsAre
  <2>. QED  BY <2>1, EmptyEarlier
<1>5. kind # "smoke"
  <2>1. ASSUME kind = "smoke"
        PROVE  n \in 1..11 /\ "baselines" \in Earlier("smoke", n)
    BY <1>2, <2>1, ProgramsAre
  <2>. QED  BY <2>1, SmokeEarlier
<1>6. kind # "shard"
  <2>1. ASSUME kind = "shard"
        PROVE  n \in 1..9 /\ "baselines" \in Earlier("shard", n)
    BY <1>2, <2>1, ProgramsAre
  <2>. QED  BY <2>1, ShardEarlier
<1>. QED  BY <1>3, <1>4, <1>5, <1>6 DEF Kinds

LEMMA V1Ended ==
  ASSUME NEW n \in 1..(Len(Programs["v1"]) + 1), "manifest" \in InHand("v1", n)
  PROVE  n > 9
<1>1. n \in 1..10 /\ "manifest" \in Earlier("v1", n)
  BY ProgramsAre DEF InHand, Inherited
<1>. QED  BY <1>1, V1Earlier

LEMMA AcceptedV1 ==
  ASSUME TofuInv, VerifiesV1
  PROVE  Summary.decision = Summarize(Measured(Rows), BarNow).decision
<1>1. /\ Intact("summary") /\ Intact("trials") /\ Intact("manifest")
      /\ Covered = Wanted({"only"}) /\ Summary.rulings = Rulings(Rows, BarNow)
  BY DEF VerifiesV1, AllIntact
<1>2. PICK p \in DOMAIN proc :
        \A n : Intact(n) => n \in InHand(proc[p].kind, proc[p].pc) /\ Says(p, n)
  BY <1>1, Writer
<1>3. proc[p].pc \in 1..(Len(Programs[proc[p].kind]) + 1)
  BY Counters DEF TofuInv, Length
<1>4. proc[p].kind = "v1" => proc[p].pc # 7
  BY <1>1, <1>2, <1>3, V1Ended
<1>. QED  BY <1>1, <1>2, <1>4, Due

LEMMA AcceptedV2 ==
  ASSUME TofuInv, VerifiesV2
  PROVE  /\ Summary.decision = Summarize(Measured(Rows), BarNow).decision
         /\ \A r \in ToSet(Rows) : r.config = Choice(proc[files["summary"].by].kind, protocol)
<1>1. /\ Intact("summary") /\ Intact("trials") /\ Intact("baselines")
      /\ Covered = Wanted({"only"}) /\ Summary.rulings = Rulings(Rows, BarNow)
      /\ \A r \in ToSet(Rows) : r.config = GridChoice[measurable][protocol]
  BY DEF VerifiesV2, AllIntact
<1>2. PICK p \in DOMAIN proc :
        \A n : Intact(n) => /\ n \in InHand(proc[p].kind, proc[p].pc)
                            /\ files[n].by = p /\ Says(p, n)
  BY <1>1, Writer
<1>3. proc[p].kind \in Kinds /\ proc[p].pc \in 1..(Len(Programs[proc[p].kind]) + 1)
  BY Counters DEF TofuInv, Length
<1>4. proc[p].kind \in {"v2", "v3"}
  BY <1>1, <1>2, <1>3, ByBaselines
<1>5. /\ Rows = proc[p].trials /\ Rows # <<>>
      /\ Summary.decision = Summarize(Measured(Rows), BarNow).decision
  BY <1>1, <1>2, <1>4, Due
<1>6. proc[p].kind # "v3"
  <2>1. ASSUME proc[p].kind = "v3"
        PROVE  FALSE
    <3>1. proc[p].trials \in Seq(Trials)
      BY Counters DEF TofuInv, Process
    <3>2. 1 \in DOMAIN Rows /\ Rows[1] \in ToSet(Rows)
      BY <1>5, <3>1 DEF ToSet
    <3>3. Rows[1].block = TrialPlan("v3")[1][1]
      BY <1>5, <2>1, <3>2 DEF TofuInv, LocalsInv, LocalsOf
    <3>4. Rows[1].block = "primary"
      BY <3>3 DEF TrialPlan
    <3>5. <<Rows[1].block, Rows[1].seed>> \in Wanted({"only"})
      BY <1>1, <3>2 DEF Covered
    <3>6. Rows[1].block = "only"
      BY <3>5 DEF Wanted
    <3>. QED  BY <3>4, <3>6
  <2>. QED  BY <2>1
<1>7. Choice(proc[files["summary"].by].kind, protocol) = GridChoice[measurable][protocol]
  BY <1>1, <1>2, <1>4, <1>6 DEF Choice
<1>. QED  BY <1>1, <1>5, <1>7

\* Without a selection v3 has not come to its trials.
LEMMA BySelection ==
  ASSUME NEW n \in 1..35, n > 33
  PROVE  "selection" \in InHand("v3", n)
<1>1. n > 15
  OBVIOUS
<1>2. "selection" \in Earlier("v3", n)
  BY <1>1, V3Earlier
<1>. QED  BY <1>2 DEF InHand

LEMMA ByTrials ==
  ASSUME NEW kind \in {"v3", "empty", "smoke"}, NEW n \in 1..(Len(Programs[kind]) + 1),
         "trials" \in InHand(kind, n)
  PROVE  kind = "v3"
<1>1. Inherited(kind) \subseteq {"state-00"}
  BY DEF Inherited
<1>2. "trials" \in Earlier(kind, n)
  BY <1>1 DEF InHand
<1>3. kind # "empty"
  <2>1. ASSUME kind = "empty"
        PROVE  n \in 1..6 /\ "trials" \in Earlier("empty", n)
    BY <1>2, <2>1, ProgramsAre
  <2>. QED  BY <2>1, EmptyEarlier
<1>4. kind # "smoke"
  <2>1. ASSUME kind = "smoke"
        PROVE  n \in 1..11 /\ "trials" \in Earlier("smoke", n)
    BY <1>2, <2>1, ProgramsAre
  <2>. QED  BY <2>1, SmokeEarlier
<1>. QED  BY <1>3, <1>4

LEMMA AcceptedWithTrials ==
  ASSUME TofuInv, VerifiesV3, Summary.decision \in {"PASS", "FAIL"}
  PROVE  /\ Summary.decision = Summarize(Measured(Rows), BarNow).decision
         /\ \A r \in ToSet(Rows) : r.config = Choice(proc[files["summary"].by].kind, protocol)
<1>1. /\ AllIntact({"selection", "trials", "baselines", "secondary"})
      /\ Replays(files["selection"].selected)
      /\ Covered = Wanted({"primary", "replication"})
      /\ Summary.rulings = Rulings(Rows, BarNow)
      /\ AllIntact({"manifest", "summary"})
  BY DEF VerifiesV3
<1>2. Intact("selection") /\ Intact("trials") /\ Intact("summary")
  BY <1>1 DEF AllIntact
<1>3. PICK p \in DOMAIN proc :
        /\ IsV3(p) /\ Summary.by = p
        /\ \A n : Intact(n) => n \in InHand(proc[p].kind, proc[p].pc) /\ Says(p, n)
  BY AcceptedV3
<1>4. proc[p].pc \in 1..(Len(Programs[proc[p].kind]) + 1)
  BY Counters DEF TofuInv, Length
<1>5. proc[p].kind = "v3"
  BY <1>2, <1>3, <1>4, ByTrials DEF IsV3
<1>6. /\ Rows = proc[p].trials
      /\ Summary.decision = Summarize(Measured(Rows), BarNow).decision
  <2>1. "primary" \in {"primary", "replication"}
    OBVIOUS
  <2>. QED  BY <1>1, <1>2, <1>3, <1>5, <2>1, Due
<1>7. ASSUME NEW r \in ToSet(Rows)
      PROVE  r.config = Choice(proc[files["summary"].by].kind, protocol)
  <2>1. r.config = proc[p].selected
    <3>1. PICK i \in DOMAIN proc[p].trials : r = proc[p].trials[i]
      BY <1>6, <1>7 DEF ToSet
    <3>. QED  BY <3>1 DEF TofuInv, LocalsInv, LocalsOf
  <2>2. files["selection"].selected = proc[p].selected
    BY <1>2, <1>3 DEF Says
  <2>3. files["selection"].selected = RobustChoice[measurable][protocol]
    BY <1>1 DEF Replays
  <2>. QED  BY <1>3, <1>5, <2>1, <2>2, <2>3 DEF Choice, Summary
<1>. QED  BY <1>6, <1>7

LEMMA AcceptedWithout ==
  ASSUME TofuInv, VerifiesV3, Summary.decision = "NO_CANDIDATE"
  PROVE  /\ RobustChoice[measurable][protocol] = NoCandidate
         /\ \A p \in DOMAIN proc : proc[p].trials = <<>>
<1>1. {"selection", "trials"} \intersect DOMAIN files = {} /\ Replays(NoCandidate)
  BY DEF VerifiesV3
<1>2. RobustChoice[measurable][protocol] = NoCandidate
  BY <1>1 DEF Replays
<1>3. PICK p \in DOMAIN proc :
        HasRoot(p) /\ IsV3(p) /\ (proc[p].kind = "v3" => proc[p].pc > 33)
  BY AcceptedV3
<1>4. proc[p].kind # "v3"
  <2>1. ASSUME proc[p].kind = "v3"
        PROVE  FALSE
    <3>1. proc[p].pc \in 1..35 /\ proc[p].pc > 33
      <4>1. proc[p].pc \in 1..(Len(Programs[proc[p].kind]) + 1)
        BY Counters DEF TofuInv, Length
      <4>. QED  BY <1>3, <2>1, <4>1, ProgramsAre
    <3>2. "selection" \in InHand(proc[p].kind, proc[p].pc)
      BY <2>1, <3>1, BySelection
    <3>3. Intact("selection")
      BY <1>3, <2>1, <3>2, Solid
    <3>. QED  BY <1>1, <3>3 DEF Intact
  <2>. QED  BY <2>1
<1>5. ASSUME NEW r \in DOMAIN proc, proc[r].trials # <<>>
      PROVE  FALSE
  <2>1. HasRoot(r) /\ proc[r].kind \in {"v1", "v2", "v3"}
    BY <1>5, Confirmed
  <2>2. r = p
    BY <1>3, <2>1 DEF TofuInv, RootInv
  <2>. QED  BY <1>3, <1>4, <2>1, <2>2 DEF IsV3
<1>. QED  BY <1>2, <1>5

LEMMA DueByInv ==
  ASSUME TofuInv
  PROVE  AcceptedIsDue
BY AcceptedV1, AcceptedV2, AcceptedWithTrials, AcceptedWithout DEF AcceptedIsDue

-----------------------------------------------------------------------------
(* A process that has ended by itself, with nobody interfering.             *)

LEMMA Finished ==
  ASSUME TofuInv, NEW p \in DOMAIN proc, proc[p].status = "done", quiet
  PROVE  /\ proc[p].kind \in Kinds /\ proc[p].pc = Len(Programs[proc[p].kind]) + 1
         /\ HasRoot(p) /\ DOMAIN files = InHand(proc[p].kind, proc[p].pc)
         /\ \A name \in DOMAIN files : Intact(name) /\ Says(p, name)
         /\ protocol = 1 /\ proc[p].proto = 1 /\ proc[p].hash = 1 /\ Bar(p) = BarNow
<1>1. proc[p].kind \in Kinds /\ proc[p].pc = Len(Programs[proc[p].kind]) + 1
  BY Counters DEF TofuInv, TofuTypes, Length
<1>2. HasRoot(p)
  BY <1>1, Lengths DEF HasRoot
<1>3. Cut(p) = {} /\ FilesOf(p) /\ Written(p) = InHand(proc[p].kind, proc[p].pc)
  BY <1>2 DEF Cut, TofuInv, FilesInv, Written, InHand
<1>4. DOMAIN files = InHand(proc[p].kind, proc[p].pc) /\ \A name \in DOMAIN files : Intact(name)
  BY <1>3 DEF FilesOf, Intact
<1>5. \A name \in DOMAIN files : Says(p, name)
  BY <1>2, <1>4 DEF TofuInv, ContentInv, Intact
<1>6. protocol = 1 /\ proc[p].proto = 1 /\ proc[p].hash = 1
  BY DEF TofuInv, VersionInv, ReadsFirst
<1>7. Bar(p) = BarNow
  BY <1>6 DEF Bar, BarNow
<1>. QED  BY <1>1, <1>2, <1>4, <1>5, <1>6, <1>7

\* What each program leaves.
LEMMA V1Leaves == {"summary", "trials", "manifest"} \subseteq InHand("v1", 10)
<1>1. 10 \in 1..10 /\ 10 > 5 /\ 10 > 8 /\ 10 > 9
  OBVIOUS
<1>2. "summary" \in Earlier("v1", 10) /\ "trials" \in Earlier("v1", 10)
      /\ "manifest" \in Earlier("v1", 10)
  BY <1>1, V1Earlier
<1>. QED  BY <1>2 DEF InHand

LEMMA V2Leaves ==
  {"baselines", "development", "summary", "trials", "manifest"} \subseteq InHand("v2", 18)
<1>1. 18 \in 1..18 /\ 18 > 9 /\ 18 > 14 /\ 18 > 15 /\ 18 > 16 /\ 18 > 17
  OBVIOUS
<1>2. "development" \in Earlier("v2", 18) /\ "trials" \in Earlier("v2", 18)
      /\ "baselines" \in Earlier("v2", 18) /\ "summary" \in Earlier("v2", 18)
      /\ "manifest" \in Earlier("v2", 18)
  BY <1>1, V2Earlier
<1>. QED  BY <1>2 DEF InHand

LEMMA V3Leaves ==
  /\ {"development", "selection", "trials", "baselines", "secondary", "summary", "manifest"}
       \subseteq InHand("v3", 35)
  /\ {"state-00", "state-01", "state-05"} \subseteq InHand("v3", 35)
<1>1. /\ 35 \in 1..35 /\ 35 > 13 /\ 35 > 15 /\ 35 > 26 /\ 35 > 27 /\ 35 > 30 /\ 35 > 32
      /\ 35 > 34 /\ 35 > 6 /\ 35 > 14 /\ 35 > 33
  OBVIOUS
<1>2. "development" \in Earlier("v3", 35) /\ "selection" \in Earlier("v3", 35)
      /\ "trials" \in Earlier("v3", 35)
  BY <1>1, V3Earlier
<1>3. "baselines" \in Earlier("v3", 35) /\ "secondary" \in Earlier("v3", 35)
      /\ "summary" \in Earlier("v3", 35) /\ "manifest" \in Earlier("v3", 35)
  BY <1>1, V3Earlier
<1>4. "state-00" \in Earlier("v3", 35) /\ "state-01" \in Earlier("v3", 35)
      /\ "state-05" \in Earlier("v3", 35)
  BY <1>1, V3Earlier
<1>. QED  BY <1>2, <1>3, <1>4 DEF InHand

LEMMA EmptyLeaves ==
  /\ {"development", "summary", "manifest", "state-00", "state-01", "state-05"}
       \subseteq InHand("empty", 6)
  /\ {"selection", "trials"} \intersect InHand("empty", 6) = {}
<1>1. 6 \in 1..6 /\ 6 > 1 /\ 6 > 2 /\ 6 > 3 /\ 6 > 4 /\ 6 > 5
  OBVIOUS
<1>2. "development" \in Earlier("empty", 6) /\ "state-01" \in Earlier("empty", 6)
      /\ "summary" \in Earlier("empty", 6) /\ "state-05" \in Earlier("empty", 6)
      /\ "manifest" \in Earlier("empty", 6)
  BY <1>1, EmptyEarlier
<1>3. Earlier("empty", 6) \subseteq {"development", "state-01", "summary", "state-05", "manifest"}
  BY <1>1, EmptyEarlier
<1>. QED  BY <1>2, <1>3 DEF InHand, Inherited

LEMMA SmokeLeaves ==
  {"development", "summary", "manifest", "state-00", "state-01", "state-05"}
    \subseteq InHand("smoke", 11)
<1>1. 11 \in 1..11 /\ 11 > 5 /\ 11 > 6 /\ 11 > 7 /\ 11 > 8 /\ 11 > 9 /\ 11 > 10
  OBVIOUS
<1>2. "state-00" \in Earlier("smoke", 11) /\ "development" \in Earlier("smoke", 11)
      /\ "state-01" \in Earlier("smoke", 11) /\ "summary" \in Earlier("smoke", 11)
      /\ "state-05" \in Earlier("smoke", 11) /\ "manifest" \in Earlier("smoke", 11)
  BY <1>1, SmokeEarlier
<1>. QED  BY <1>2 DEF InHand

LEMMA ShardLeaves == {"shard-trials", "shard-manifest"} \subseteq InHand("shard", 9)
<1>1. 9 \in 1..9 /\ 9 > 7 /\ 9 > 8
  OBVIOUS
<1>2. "shard-trials" \in Earlier("shard", 9) /\ "shard-manifest" \in Earlier("shard", 9)
  BY <1>1, ShardEarlier
<1>. QED  BY <1>2 DEF InHand

\* The journal has its first, its second and its last state.
LEMMA Chained ==
  ASSUME TofuInv, \A name \in DOMAIN files : Intact(name),
         {"state-00", "state-01", "state-05"} \subseteq DOMAIN files
  PROVE  StateChain
<1>1. {1, 2, 6} \subseteq Present
  BY StatesAre, PresentIs
<1>2. Cardinality(Present) >= 3
  <2>1. IsFiniteSet(Present)
    <3>1. IsFiniteSet(1..6)
      <4>1. 1 \in Int /\ 6 \in Int
        OBVIOUS
      <4>. QED  BY <4>1, FS_Interval, Zenon
    <3>. QED  BY <3>1, PresentIs, FS_Subset
  <2>2. Cardinality({1, 2, 6}) = 3 /\ IsFiniteSet({1, 2, 6})
    <3>1. IsFiniteSet({6}) /\ Cardinality({6}) = 1
      BY FS_Singleton
    <3>2. IsFiniteSet({6} \union {2}) /\ Cardinality({6} \union {2}) = 2
      BY <3>1, FS_AddElement
    <3>3. IsFiniteSet(({6} \union {2}) \union {1}) /\ Cardinality(({6} \union {2}) \union {1}) = 3
      <4>1. 1 \notin {6} \union {2}
        OBVIOUS
      <4>2. /\ IsFiniteSet(({6} \union {2}) \union {1})
            /\ Cardinality(({6} \union {2}) \union {1}) = Cardinality({6} \union {2}) + 1
        BY <3>2, <4>1, FS_AddElement, Zenon
      <4>. QED  BY <3>2, <4>2
    <3>4. ({6} \union {2}) \union {1} = {1, 2, 6}
      OBVIOUS
    <3>. QED  BY <3>3, <3>4
  <2>3. Cardinality({1, 2, 6}) <= Cardinality(Present)
    BY <1>1, <2>1, FS_Subset
  <2>. QED  BY <2>1, <2>2, <2>3, FS_CardinalityType
<1>3. ASSUME NEW i \in Present
      PROVE  /\ Intact(States[i])
             /\ files[States[i]].previous =
                  IF PresentBefore(i) = {} THEN <<>> ELSE <<files[States[Max(PresentBefore(i))]]>>
  <2>1. Intact(States[i])
    BY DEF Present
  <2>. QED  BY <2>1 DEF TofuInv, ChainInv, Intact, LatestFile
<1>. QED  BY <1>1, <1>2, <1>3 DEF StateChain

\* The trials of v1 and v2, and of v3.
LEMMA TwoTrials ==
  ASSUME TofuInv, NEW p \in DOMAIN proc, Rows = proc[p].trials, protocol = proc[p].proto,
         proc[p].kind \in {"v1", "v2"}, Taken(proc[p].kind, proc[p].pc) = 2
  PROVE  Covered = Wanted({"only"}) /\ Rows # <<>>
<1>1. Rows \in Seq(Trials) /\ Len(Rows) = 2
  BY Counters DEF TofuInv, Process, LocalsInv, LocalsOf
<1>2. DOMAIN Rows = {1, 2}
  BY <1>1
<1>3. \A i \in {1, 2} : /\ Rows[i].block = TrialPlan(proc[p].kind)[i][1]
                        /\ Rows[i].seed = Protocols[protocol].seeds[TrialPlan(proc[p].kind)[i][2]]
  BY <1>2 DEF TofuInv, LocalsInv, LocalsOf
<1>4. TrialPlan(proc[p].kind) = <<<<"only", 1>>, <<"only", 2>>>>
  BY DEF TrialPlan
<1>5. /\ Rows[1].block = "only" /\ Rows[1].seed = Protocols[protocol].seeds[1]
      /\ Rows[2].block = "only" /\ Rows[2].seed = Protocols[protocol].seeds[2]
  BY <1>3, <1>4
<1>6. ToSet(Rows) = {Rows[1], Rows[2]}
  BY <1>2 DEF ToSet
<1>7. Covered = {<<"only", Protocols[protocol].seeds[1]>>, <<"only", Protocols[protocol].seeds[2]>>}
  BY <1>5, <1>6 DEF Covered
<1>8. Wanted({"only"}) =
        {<<"only", Protocols[protocol].seeds[1]>>, <<"only", Protocols[protocol].seeds[2]>>}
  BY DEF Wanted
<1>. QED  BY <1>1, <1>7, <1>8

LEMMA FourTrials ==
  ASSUME TofuInv, NEW p \in DOMAIN proc, Rows = proc[p].trials, protocol = proc[p].proto,
         proc[p].kind = "v3", Taken(proc[p].kind, proc[p].pc) = 4, protocol = 1
  PROVE  /\ Covered = Wanted({"primary", "replication"}) /\ Rows # <<>>
         /\ Len(Rows) = Cardinality(Covered)
<1>. DEFINE one == Protocols[protocol].seeds[1]
            two == Protocols[protocol].seeds[2]
            all == {<<"primary", one>>, <<"replication", one>>,
                    <<"primary", two>>, <<"replication", two>>}
<1>1. Rows \in Seq(Trials) /\ Len(Rows) = 4
  BY Counters DEF TofuInv, Process, LocalsInv, LocalsOf
<1>2. DOMAIN Rows = {1, 2, 3, 4}
  BY <1>1
<1>3. \A i \in {1, 2, 3, 4} :
        /\ Rows[i].block = TrialPlan("v3")[i][1]
        /\ Rows[i].seed = Protocols[protocol].seeds[TrialPlan("v3")[i][2]]
  <2>1. LocalsOf(p)
    BY DEF TofuInv, LocalsInv
  <2>2. \A i \in DOMAIN proc[p].trials :
          /\ proc[p].trials[i].block = TrialPlan("v3")[i][1]
          /\ proc[p].trials[i].seed = Protocols[proc[p].proto].seeds[TrialPlan("v3")[i][2]]
    BY <2>1 DEF LocalsOf
  <2>. QED  BY <1>2, <2>2
<1>4. /\ TrialPlan("v3")[1] = <<"primary", 1>> /\ TrialPlan("v3")[2] = <<"replication", 1>>
      /\ TrialPlan("v3")[3] = <<"primary", 2>> /\ TrialPlan("v3")[4] = <<"replication", 2>>
  BY DEF TrialPlan
<1>5. /\ Rows[1].block = "primary" /\ Rows[1].seed = one
      /\ Rows[2].block = "replication" /\ Rows[2].seed = one
      /\ Rows[3].block = "primary" /\ Rows[3].seed = two
      /\ Rows[4].block = "replication" /\ Rows[4].seed = two
  BY <1>3, <1>4
<1>6. ToSet(Rows) = {Rows[1], Rows[2], Rows[3], Rows[4]}
  BY <1>2 DEF ToSet
<1>7. one # two
  BY SeedsAssumption
<1>8. Wanted({"primary", "replication"}) = all
  BY DEF Wanted
<1>. HIDE DEF one, two
<1>9. Covered = all
  BY <1>5, <1>6 DEF Covered
<1>10. Cardinality(all) = 4
  <2>. DEFINE a == <<"primary", one>>
              b == <<"replication", one>>
              c == <<"primary", two>>
              d == <<"replication", two>>
  <2>1. a # b /\ a # c /\ a # d /\ b # c /\ b # d /\ c # d
    BY <1>7
  <2>. HIDE DEF a, b, c, d
  <2>2. IsFiniteSet({a}) /\ Cardinality({a}) = 1
    BY FS_Singleton
  <2>3. IsFiniteSet({a} \union {b}) /\ Cardinality({a} \union {b}) = 2
    <3>1. b \notin {a}
      BY <2>1
    <3>2. IsFiniteSet({a} \union {b}) /\ Cardinality({a} \union {b}) = Cardinality({a}) + 1
      BY <2>2, <3>1, FS_AddElement, Zenon
    <3>. QED  BY <2>2, <3>2
  <2>4. IsFiniteSet(({a} \union {b}) \union {c}) /\ Cardinality(({a} \union {b}) \union {c}) = 3
    <3>1. c \notin ({a} \union {b})
      BY <2>1
    <3>2. /\ IsFiniteSet(({a} \union {b}) \union {c})
          /\ Cardinality(({a} \union {b}) \union {c}) = Cardinality(({a} \union {b})) + 1
      BY <2>3, <3>1, FS_AddElement, Zenon
    <3>. QED  BY <2>3, <3>2
  <2>5. Cardinality((({a} \union {b}) \union {c}) \union {d}) = 4
    <3>1. d \notin (({a} \union {b}) \union {c})
      BY <2>1
    <3>2. Cardinality((({a} \union {b}) \union {c}) \union {d})
            = Cardinality((({a} \union {b}) \union {c})) + 1
      BY <2>4, <3>1, FS_AddElement, Zenon
    <3>. QED  BY <2>4, <3>2
  <2>6. all = (({a} \union {b}) \union {c}) \union {d}
    BY DEF a, b, c, d
  <2>. QED  BY <2>5, <2>6
<1>. QED  BY <1>1, <1>8, <1>9, <1>10

LEMMA EndsAt ==
  ASSUME TofuInv, NEW p \in DOMAIN proc, proc[p].status = "done", quiet
  PROVE  /\ proc[p].kind = "v1" => proc[p].pc = 10
         /\ proc[p].kind = "v2" => proc[p].pc = 18
         /\ proc[p].kind = "v3" => proc[p].pc = 35 /\ IsV3(p)
         /\ proc[p].kind = "empty" => proc[p].pc = 6 /\ IsV3(p)
         /\ proc[p].kind = "smoke" => proc[p].pc = 11 /\ IsV3(p)
         /\ proc[p].kind = "shard" => proc[p].pc = 9
<1>1. proc[p].pc = Len(Programs[proc[p].kind]) + 1
  BY Finished
<1>2. /\ Len(Programs["v1"]) = 9 /\ Len(Programs["v2"]) = 17 /\ Len(Programs["v3"]) = 34
      /\ Len(Programs["empty"]) = 5 /\ Len(Programs["smoke"]) = 10 /\ Len(Programs["shard"]) = 8
  BY ProgramsAre
<1>3. /\ proc[p].kind = "v1" => proc[p].pc = 10
      /\ proc[p].kind = "v2" => proc[p].pc = 18
      /\ proc[p].kind = "v3" => proc[p].pc = 35
      /\ proc[p].kind = "empty" => proc[p].pc = 6
      /\ proc[p].kind = "smoke" => proc[p].pc = 11
      /\ proc[p].kind = "shard" => proc[p].pc = 9
  <2>1. ASSUME proc[p].kind = "v1"
        PROVE  proc[p].pc = 10
    <3>1. proc[p].pc = Len(Programs["v1"]) + 1
      BY <1>1, <2>1
    <3>2. Len(Programs["v1"]) + 1 = 10
      BY <1>2
    <3>. QED  BY <3>1, <3>2
  <2>2. ASSUME proc[p].kind = "v2"
        PROVE  proc[p].pc = 18
    <3>1. proc[p].pc = Len(Programs["v2"]) + 1
      BY <1>1, <2>2
    <3>2. Len(Programs["v2"]) + 1 = 18
      BY <1>2
    <3>. QED  BY <3>1, <3>2
  <2>3. ASSUME proc[p].kind = "v3"
        PROVE  proc[p].pc = 35
    <3>1. proc[p].pc = Len(Programs["v3"]) + 1
      BY <1>1, <2>3
    <3>2. Len(Programs["v3"]) + 1 = 35
      BY <1>2
    <3>. QED  BY <3>1, <3>2
  <2>4. ASSUME proc[p].kind = "empty"
        PROVE  proc[p].pc = 6
    <3>1. proc[p].pc = Len(Programs["empty"]) + 1
      BY <1>1, <2>4
    <3>2. Len(Programs["empty"]) + 1 = 6
      BY <1>2
    <3>. QED  BY <3>1, <3>2
  <2>5. ASSUME proc[p].kind = "smoke"
        PROVE  proc[p].pc = 11
    <3>1. proc[p].pc = Len(Programs["smoke"]) + 1
      BY <1>1, <2>5
    <3>2. Len(Programs["smoke"]) + 1 = 11
      BY <1>2
    <3>. QED  BY <3>1, <3>2
  <2>6. ASSUME proc[p].kind = "shard"
        PROVE  proc[p].pc = 9
    <3>1. proc[p].pc = Len(Programs["shard"]) + 1
      BY <1>1, <2>6
    <3>2. Len(Programs["shard"]) + 1 = 9
      BY <1>2
    <3>. QED  BY <3>1, <3>2
  <2>. QED  BY <2>1, <2>2, <2>3, <2>4, <2>5, <2>6
<1>4. proc[p].kind \in {"v3", "empty", "smoke"} => IsV3(p)
  BY DEF IsV3
<1>. QED  BY <1>3, <1>4

LEMMA QuietV1 ==
  ASSUME TofuInv, NEW p \in DOMAIN proc, proc[p].status = "done", quiet, proc[p].kind = "v1"
  PROVE  VerifiesV1
<1>1. proc[p].pc = 10
  BY EndsAt
<1>2. \A name \in {"summary", "trials", "manifest"} : Intact(name) /\ Says(p, name)
  BY <1>1, Finished, V1Leaves
<1>3. protocol = 1 /\ proc[p].proto = 1 /\ Bar(p) = BarNow
  BY Finished
<1>4. Rows = proc[p].trials
  BY <1>1, <1>2 DEF Says, Rows
<1>5. Taken("v1", 10) = 2
  BY DEF Taken
<1>6. Covered = Wanted({"only"}) /\ Rows # <<>>
  BY <1>1, <1>3, <1>4, <1>5, TwoTrials
<1>7. Summary.hash = protocol /\ Summary.rulings = Rulings(Rows, BarNow)
  BY <1>2, <1>3, <1>4, <1>6 DEF Says, OwnHash, Summary
<1>8. files["manifest"].files = AllBut({"manifest"}) /\ files["manifest"].hash = protocol
  BY <1>2, <1>3 DEF Says, OwnHash
<1>. QED  BY <1>2, <1>6, <1>7, <1>8 DEF VerifiesV1, AllIntact

LEMMA QuietV2 ==
  ASSUME TofuInv, NEW p \in DOMAIN proc, proc[p].status = "done", quiet, proc[p].kind = "v2"
  PROVE  VerifiesV2
<1>1. proc[p].pc = 18
  BY EndsAt
<1>2. \A name \in {"baselines", "development", "summary", "trials", "manifest"} :
        Intact(name) /\ Says(p, name)
  BY <1>1, Finished, V2Leaves
<1>3. protocol = 1 /\ proc[p].proto = 1 /\ Bar(p) = BarNow
  BY Finished
<1>4. Rows = proc[p].trials
  BY <1>1, <1>2 DEF Says, Rows
<1>5. Taken("v2", 18) = 2
  BY DEF Taken
<1>6. Covered = Wanted({"only"}) /\ Rows # <<>>
  BY <1>1, <1>3, <1>4, <1>5, TwoTrials
<1>7. proc[p].selected = GridChoice[measurable][protocol]
  <2>1. HasChosen(p)
    BY <1>1 DEF HasChosen
  <2>2. LocalsOf(p)
    BY DEF TofuInv, LocalsInv
  <2>. QED  BY <1>3, <2>1, <2>2 DEF LocalsOf, Choice
<1>8. /\ Summary.hash = protocol /\ Summary.rulings = Rulings(Rows, BarNow)
      /\ Summary.selected = proc[p].selected
  BY <1>2, <1>3, <1>4, <1>6 DEF Says, OwnHash, Summary
<1>9. files["manifest"].files = AllBut({"manifest"}) /\ files["manifest"].hash = protocol
  BY <1>2, <1>3 DEF Says, OwnHash
<1>10. files["development"].bar = BarNow /\ files["development"].selected = proc[p].selected
  BY <1>2, <1>3 DEF Says
<1>11. \A r \in ToSet(Rows) : r.config = proc[p].selected
  BY <1>4 DEF ToSet, TofuInv, LocalsInv, LocalsOf
<1>12. AllIntact({"baselines", "development", "summary", "trials", "manifest"})
  BY <1>2 DEF AllIntact
<1>. QED  BY <1>6, <1>7, <1>8, <1>9, <1>10, <1>11, <1>12 DEF VerifiesV2

\* What every result of v3 has.
LEMMA QuietJournal ==
  ASSUME TofuInv, NEW p \in DOMAIN proc, proc[p].status = "done", quiet, IsV3(p),
         {"development", "summary", "manifest", "state-00", "state-01", "state-05"}
           \subseteq DOMAIN files
  PROVE  /\ Protocols[protocol].frozen
         /\ AllIntact({"manifest", "summary"})
         /\ files["manifest"].hash = protocol /\ files["manifest"].files = AllBut({"manifest"})
         /\ StateChain
         /\ Summary.hash = protocol
<1>1. /\ protocol = 1 /\ proc[p].hash = 1
      /\ \A name \in DOMAIN files : Intact(name) /\ Says(p, name)
      /\ proc[p].pc = Len(Programs[proc[p].kind]) + 1
  BY Finished
<1>2. Protocols[1].frozen
  <2>1. /\ proc[p].kind = "v3" => proc[p].pc = 35
        /\ proc[p].kind = "smoke" => proc[p].pc = 11
    BY EndsAt
  <2>2. VersionInv
    BY DEF TofuInv
  <2>. QED  BY <2>1, <2>2 DEF VersionInv, IsV3
<1>3. StateChain
  BY <1>1, Chained
<1>4. Intact("manifest") /\ Says(p, "manifest") /\ Intact("summary") /\ Says(p, "summary")
  BY <1>1
<1>5. files["manifest"].hash = protocol /\ files["manifest"].files = AllBut({"manifest"})
  BY <1>1, <1>4 DEF Says, OwnHash
<1>6. Summary.hash = protocol
  BY <1>1, <1>4 DEF Says, OwnHash, Summary
<1>. QED  BY <1>1, <1>2, <1>3, <1>4, <1>5, <1>6 DEF AllIntact

LEMMA QuietV3 ==
  ASSUME TofuInv, NEW p \in DOMAIN proc, proc[p].status = "done", quiet, proc[p].kind = "v3"
  PROVE  VerifiesV3
<1>1. proc[p].pc = 35 /\ IsV3(p)
  BY EndsAt
<1>2. \A name \in {"development", "selection", "trials", "baselines", "secondary", "summary",
                   "manifest"} : Intact(name) /\ Says(p, name)
  BY <1>1, Finished, V3Leaves
<1>3. protocol = 1 /\ proc[p].proto = 1 /\ proc[p].hash = 1 /\ Bar(p) = BarNow
  BY Finished
<1>4. /\ Protocols[protocol].frozen
      /\ AllIntact({"manifest", "summary"})
      /\ files["manifest"].hash = protocol /\ files["manifest"].files = AllBut({"manifest"})
      /\ StateChain
      /\ Summary.hash = protocol
  <2>1. {"development", "summary", "manifest", "state-00", "state-01", "state-05"}
          \subseteq DOMAIN files
    BY <1>1, Finished, V3Leaves
  <2>. QED  BY <1>1, <2>1, QuietJournal
<1>5. Rows = proc[p].trials
  BY <1>1, <1>2 DEF Says, Rows
<1>6. /\ Covered = Wanted({"primary", "replication"}) /\ Rows # <<>>
      /\ Len(Rows) = Cardinality(Covered)
  <2>1. Taken("v3", 35) = 4
    BY DEF Taken
  <2>. QED  BY <1>1, <1>3, <1>5, <2>1, FourTrials
<1>7. proc[p].selected = RobustChoice[measurable][protocol] /\ proc[p].selected # NoCandidate
  <2>1. HasChosen(p)
    BY <1>1 DEF HasChosen
  <2>2. LocalsOf(p)
    BY DEF TofuInv, LocalsInv
  <2>. QED  BY <1>3, <2>1, <2>2 DEF LocalsOf, Choice
<1>8. /\ files["selection"].selected = proc[p].selected /\ files["selection"].hash = protocol
      /\ files["selection"].development = files["development"]
  BY <1>1, <1>2, <1>3 DEF Says, OwnHash
<1>9. files["development"].bar = BarNow
  BY <1>2, <1>3 DEF Says
<1>10. Replays(files["selection"].selected)
  BY <1>2, <1>7, <1>8, <1>9 DEF Replays
<1>11. /\ Summary.decision = Summarize(Measured(Rows), BarNow).decision
       /\ Summary.rulings = Rulings(Rows, BarNow)
  BY <1>2, <1>3, <1>5, <1>6 DEF Says, Summary
<1>12. Summary.decision = Summary.rulings.combined.decision
  <2>1. Rulings(Rows, BarNow).combined = Summarize(Measured(Rows), BarNow)
    BY CombinedIs
  <2>. QED  BY <1>11, <2>1
<1>13. Summary.decision \in {"PASS", "FAIL"}
  <2>1. \A trials, bar : Summarize(trials, bar).decision \in {"PASS", "FAIL"}
    BY DEF Summarize
  <2>. QED  BY <1>11, <2>1
<1>14. files["secondary"].of = Covered
  BY <1>2, <1>5 DEF Says, Covered
<1>15. AllIntact({"selection", "trials", "baselines", "secondary"})
  BY <1>2 DEF AllIntact
<1>. QED  BY <1>4, <1>6, <1>7, <1>8, <1>10, <1>11, <1>12, <1>13, <1>14, <1>15 DEF VerifiesV3

LEMMA QuietEmpty ==
  ASSUME TofuInv, NEW p \in DOMAIN proc, proc[p].status = "done", quiet, proc[p].kind = "empty"
  PROVE  VerifiesV3
<1>1. proc[p].pc = 6 /\ IsV3(p)
  BY EndsAt
<1>2. DOMAIN files = InHand("empty", 6) /\ \A name \in DOMAIN files : Intact(name) /\ Says(p, name)
  BY <1>1, Finished
<1>3. protocol = 1 /\ proc[p].proto = 1 /\ proc[p].hash = 1 /\ Bar(p) = BarNow
  BY Finished
<1>4. /\ Protocols[protocol].frozen
      /\ AllIntact({"manifest", "summary"})
      /\ files["manifest"].hash = protocol /\ files["manifest"].files = AllBut({"manifest"})
      /\ StateChain
      /\ Summary.hash = protocol
  BY <1>1, <1>2, EmptyLeaves, QuietJournal
<1>5. /\ Intact("development") /\ Says(p, "development")
      /\ Says(p, "summary")
  BY <1>2, EmptyLeaves
<1>6. proc[p].trials = <<>>
  BY Confirmed
<1>7. DevelopmentDecision(p) = "NO_CANDIDATE"
  BY DEF DevelopmentDecision
<1>8. Summary.decision = "NO_CANDIDATE" /\ files["development"].decision = "NO_CANDIDATE"
  BY <1>5, <1>6, <1>7 DEF Says, Summary
<1>9. {"selection", "trials"} \intersect DOMAIN files = {}
  BY <1>2, EmptyLeaves
<1>10. Replays(NoCandidate)
  <2>1. files["development"].bar = BarNow
    BY <1>3, <1>5 DEF Says
  <2>2. RobustChoice[measurable][protocol] = NoCandidate
    BY <1>3 DEF TofuInv, LocalsInv, LocalsOf
  <2>. QED  BY <1>5, <2>1, <2>2 DEF Replays
<1>. QED  BY <1>4, <1>8, <1>9, <1>10 DEF VerifiesV3

LEMMA QuietSmoke ==
  ASSUME TofuInv, NEW p \in DOMAIN proc, proc[p].status = "done", quiet, proc[p].kind = "smoke"
  PROVE  VerifiesV3
<1>1. proc[p].pc = 11 /\ IsV3(p)
  BY EndsAt
<1>2. DOMAIN files = InHand("smoke", 11) /\ \A name \in DOMAIN files : Intact(name) /\ Says(p, name)
  BY <1>1, Finished
<1>3. /\ Protocols[protocol].frozen
      /\ AllIntact({"manifest", "summary"})
      /\ files["manifest"].hash = protocol /\ files["manifest"].files = AllBut({"manifest"})
      /\ StateChain
      /\ Summary.hash = protocol
  BY <1>1, <1>2, SmokeLeaves, QuietJournal
<1>4. Says(p, "summary")
  BY <1>2, SmokeLeaves
<1>5. proc[p].trials = <<>>
  BY Confirmed
<1>6. DevelopmentDecision(p) = "NON_SCIENTIFIC_SMOKE"
  BY DEF DevelopmentDecision
<1>7. Summary.decision = "NON_SCIENTIFIC_SMOKE"
  BY <1>4, <1>5, <1>6 DEF Says, Summary
<1>. QED  BY <1>3, <1>7 DEF VerifiesV3

LEMMA QuietShard ==
  ASSUME TofuInv, NEW p \in DOMAIN proc, proc[p].status = "done", quiet, proc[p].kind = "shard"
  PROVE  VerifiesShard
<1>1. proc[p].pc = 9
  BY EndsAt
<1>2. \A name \in {"shard-trials", "shard-manifest"} : Intact(name) /\ Says(p, name)
  BY <1>1, Finished, ShardLeaves
<1>3. protocol = 1
  BY Finished
<1>. QED  BY <1>2, <1>3 DEF VerifiesShard, AllIntact, Says, OwnHash

LEMMA QuietByInv ==
  ASSUME TofuInv
  PROVE  QuietRunIsAccepted
<1>. SUFFICES ASSUME NEW p \in DOMAIN proc, proc[p].status = "done", quiet
              PROVE  Verifies(proc[p].kind)
  BY DEF QuietRunIsAccepted
<1>1. proc[p].kind \in Kinds
  BY Finished
<1>2. CASE proc[p].kind = "v1"
  BY <1>2, QuietV1 DEF Verifies
<1>3. CASE proc[p].kind = "v2"
  BY <1>3, QuietV2 DEF Verifies
<1>4. CASE proc[p].kind = "v3"
  BY <1>4, QuietV3 DEF Verifies
<1>5. CASE proc[p].kind = "empty"
  BY <1>5, QuietEmpty DEF Verifies
<1>6. CASE proc[p].kind = "smoke"
  BY <1>6, QuietSmoke DEF Verifies
<1>7. CASE proc[p].kind = "shard"
  BY <1>7, QuietShard DEF Verifies
<1>. QED  BY <1>1, <1>2, <1>3, <1>4, <1>5, <1>6, <1>7 DEF Kinds

\* Whatever happened to the protocol file during the run, an accepted result
\* says what the protocol on disk says of the trials.
THEOREM AcceptedTofuIsDue == TofuSpec => []AcceptedIsDue
<1>1. TofuInv => AcceptedIsDue
  BY DueByInv
<1>. QED  BY <1>1, TofuInvariant, PTL

\* The views of the author blocks are those of the first version, unless the file
\* was edited while one of them was still to be read.
LEMMA ViewInvariant == TofuSpec => []ViewInv
BY ViewStarts, ViewStays, TofuInvariant, PTL DEF TofuSpec

\* Unless the file was edited before there was a directory, an accepted result
\* of v3 was measured with the recipe of the protocol that it names, and with its
\* authors where no edit fell into the window of a view.
THEOREM AcceptedRanItsProtocol == TofuSpec => []RanItsProtocol
<1>1. TofuInv /\ ViewInv => RanItsProtocol
  BY RanByInv
<1>. QED  BY <1>1, TofuInvariant, ViewInvariant, PTL

\* A confirmation trial measures a choice that is on disk before it.
THEOREM ConfirmationStaysBlind == TofuSpec => []ConfirmationIsBlind
<1>1. TofuInv => ConfirmationIsBlind
  BY BlindByInv
<1>. QED  BY <1>1, TofuInvariant, PTL

\* What a process has ended with, nobody interfering, its verifier accepts.
THEOREM QuietTofuRunIsAccepted == TofuSpec => []QuietRunIsAccepted
<1>1. TofuInv => QuietRunIsAccepted
  BY QuietByInv
<1>. QED  BY <1>1, TofuInvariant, PTL

-----------------------------------------------------------------------------
(* The selection of a point.                                               *)

\* The least and the greatest of finitely many numbers.
LEMMA LeastInt ==
  ASSUME NEW S \in SUBSET Int, IsFiniteSet(S), S # {}
  PROVE  Min(S) \in S /\ \A n \in S : Min(S) <= n
<1>. DEFINE less == {q \in S \X S : q[1] < q[2]}
<1>1. \A a, b \in S : <<a, b>> \in less <=> a < b
  OBVIOUS
<1>2. /\ \A a, b \in S : a # b => <<a, b>> \in less \/ <<b, a>> \in less
      /\ \A a, b, c \in S : <<a, b>> \in less /\ <<b, c>> \in less => <<a, c>> \in less
  <2>. HIDE DEF less
  <2>. QED  BY <1>1
<1>3. PICK a \in S : \A b \in S \ {a} : <<a, b>> \in less
  <2>. HIDE DEF less
  <2>. QED  BY <1>2, LeastInOrder
<1>4. ASSUME NEW b \in S PROVE a <= b
  <2>1. a \in Int /\ b \in Int
    OBVIOUS
  <2>2. a = b \/ a < b
    <3>. HIDE DEF less
    <3>. QED  BY <1>1, <1>3
  <2>. QED  BY <2>1, <2>2
<1>. QED  BY <1>4 DEF Min

LEMMA GreatestInt ==
  ASSUME NEW S \in SUBSET Int, IsFiniteSet(S), S # {}
  PROVE  Max(S) \in S /\ \A n \in S : Max(S) >= n
<1>. DEFINE more == {q \in S \X S : q[1] > q[2]}
<1>1. \A a, b \in S : <<a, b>> \in more <=> a > b
  OBVIOUS
<1>2. /\ \A a, b \in S : a # b => <<a, b>> \in more \/ <<b, a>> \in more
      /\ \A a, b, c \in S : <<a, b>> \in more /\ <<b, c>> \in more => <<a, c>> \in more
  <2>. HIDE DEF more
  <2>. QED  BY <1>1
<1>3. PICK a \in S : \A b \in S \ {a} : <<a, b>> \in more
  <2>. HIDE DEF more
  <2>. QED  BY <1>2, LeastInOrder
<1>4. ASSUME NEW b \in S PROVE a >= b
  <2>1. a \in Int /\ b \in Int
    OBVIOUS
  <2>2. a = b \/ a > b
    <3>. HIDE DEF more
    <3>. QED  BY <1>1, <1>3
  <2>. QED  BY <2>1, <2>2
<1>. QED  BY <1>4 DEF Max

\* Of one metric of a list of trials.
LEMMA ExtremesOf ==
  ASSUME NEW n \in Nat \ {0}, NEW f, \A i \in 1..n : f[i] \in Int
  PROVE  LET S == {f[i] : i \in 1..n}
         IN  /\ Min(S) \in S /\ \A i \in 1..n : Min(S) <= f[i]
             /\ Max(S) \in S /\ \A i \in 1..n : Max(S) >= f[i]
             /\ Min(S) \in Int /\ Max(S) \in Int
<1>. DEFINE S == {f[i] : i \in 1..n}
<1>1. S \in SUBSET Int /\ S # {}
  <2>1. f[1] \in S
    OBVIOUS
  <2>. QED  BY <2>1
<1>2. IsFiniteSet(S)
  <2>1. IsFiniteSet(1..n)
    BY FS_Interval
  <2>. QED  BY <2>1, ImageFinite
<1>3. \A i \in 1..n : f[i] \in S
  OBVIOUS
<1>4. Min(S) \in S /\ (\A m \in S : Min(S) <= m) /\ Max(S) \in S /\ (\A m \in S : Max(S) >= m)
  <2>. HIDE DEF S
  <2>. QED  BY <1>1, <1>2, LeastInt, GreatestInt
<1>5. Min(S) \in Int /\ Max(S) \in Int
  <2>. HIDE DEF S
  <2>. QED  BY <1>1, <1>4
<1>6. \A i \in 1..n : Min(S) <= f[i] /\ Max(S) >= f[i]
  <2>. HIDE DEF S
  <2>. QED  BY <1>3, <1>4
<1>. QED  BY <1>4, <1>5, <1>6

-----------------------------------------------------------------------------
(* The scan of a row.                                                       *)

\* A wide run of feasible points.
Wide(row, width, lo, hi) == width <= hi - lo + 1 /\ IsRun(row, lo, hi)
\* The runs of row that end before a have been found, and nothing else.
FoundRuns(row, width, found, a) ==
  /\ \A i \in 1..Len(found) : \E lo, hi \in 1..Len(row) :
       hi < a /\ Wide(row, width, lo, hi) /\ found[i] = SubSeq(row, lo, hi)
  /\ \A lo, hi \in 1..Len(row) : hi < a /\ Wide(row, width, lo, hi) =>
       \E i \in 1..Len(found) : found[i] = SubSeq(row, lo, hi)
\* The run that lasts at a.
LastRun(row, current, a) ==
  LET c == Len(current)
  IN  /\ c <= a
      /\ \A i \in 1..c : current[i] = row[a - c + i] /\ row[a - c + i].feasible
      /\ a - c > 0 => ~ row[a - c].feasible
\* What the scan has after a points: the current run and the runs before it.
ScanInv(P, row, width, scan, a) ==
  /\ scan \in [current : Seq(P), found : Seq(Seq(P))]
  /\ LastRun(row, scan.current, a)
  /\ FoundRuns(row, width, scan.found, a)

\* A run that cannot be extended is found when it is closed.
LEMMA CloseFinds ==
  ASSUME NEW P, NEW row \in Seq(P), \A p \in P : p.feasible \in BOOLEAN,
         NEW width \in Nat \ {0}, NEW scan, NEW a \in 0..Len(row),
         ScanInv(P, row, width, scan, a), a < Len(row) => ~ row[a + 1].feasible
  PROVE  /\ Closed(scan, width) \in Seq(Seq(P))
         /\ FoundRuns(row, width, Closed(scan, width), a + 1)
<1>. DEFINE cur == scan.current
            found == scan.found
            c == Len(cur)
            first == a - c + 1
<1>1. /\ cur \in Seq(P) /\ found \in Seq(Seq(P)) /\ c \in Nat /\ c <= a /\ a \in Nat
      /\ Len(found) \in Nat /\ Len(row) \in Nat /\ a <= Len(row)
  BY DEF ScanInv, LastRun
<1>2. \A i \in 1..c : cur[i] = row[a - c + i] /\ row[a - c + i].feasible
  BY DEF ScanInv, LastRun
<1>3. a - c > 0 => ~ row[a - c].feasible
  BY DEF ScanInv, LastRun
<1>0. Len(cur) = c /\ first = a - c + 1 /\ first \in Int
  BY <1>1
<1>. HIDE DEF cur, found, c
<1>4. \A lo \in 1..Len(row) : a > 0 /\ lo <= a /\ IsRun(row, lo, a) => lo = first
  <2>. SUFFICES ASSUME NEW lo \in 1..Len(row), a > 0, lo <= a, IsRun(row, lo, a), lo # first
                PROVE  FALSE
    OBVIOUS
  <2>1. CASE lo < first
    <3>1. a - c \in lo..a /\ a - c > 0
      BY <1>1, <2>1
    <3>. QED  BY <1>3, <3>1 DEF IsRun
  <2>2. CASE lo > first
    <3>1. lo - 1 \in DOMAIN row /\ lo - 1 - (a - c) \in 1..c
      BY <1>1, <2>2
    <3>2. row[lo - 1].feasible
      <4>1. row[a - c + (lo - 1 - (a - c))].feasible
        BY <1>2, <3>1
      <4>. QED  BY <1>1, <4>1
    <3>. QED  BY <3>1, <3>2 DEF IsRun
  <2>. QED  BY <1>1, <2>1, <2>2
<1>5. c > 0 => /\ first \in 1..Len(row) /\ a \in 1..Len(row) /\ first <= a
               /\ IsRun(row, first, a) /\ cur = SubSeq(row, first, a)
  <2>. SUFFICES ASSUME c > 0
                PROVE  /\ first \in 1..Len(row) /\ a \in 1..Len(row) /\ first <= a
                       /\ IsRun(row, first, a) /\ cur = SubSeq(row, first, a)
    OBVIOUS
  <2>1. first \in 1..Len(row) /\ a \in 1..Len(row) /\ first <= a
    BY <1>1
  <2>2. ASSUME NEW j \in first..a PROVE row[j].feasible
    <3>1. j - (a - c) \in 1..c /\ a - c + (j - (a - c)) = j
      BY <1>1
    <3>. QED  BY <1>2, <3>1
  <2>3. \A j \in {first - 1, a + 1} \intersect DOMAIN row : ~ row[j].feasible
    <3>1. first - 1 = a - c /\ DOMAIN row = 1..Len(row)
      BY <1>1
    <3>2. a - c \in DOMAIN row => ~ row[a - c].feasible
      BY <1>1, <1>3
    <3>3. a + 1 \in DOMAIN row => ~ row[a + 1].feasible
      BY <1>1
    <3>. HIDE DEF first
    <3>. QED  BY <3>1, <3>2, <3>3
  <2>4. cur = SubSeq(row, first, a)
    <3>1. Len(SubSeq(row, first, a)) = c /\ SubSeq(row, first, a) \in Seq(P)
      BY <1>1, <2>1, SubSeqProperties
    <3>2. \A i \in 1..c : SubSeq(row, first, a)[i] = row[first + i - 1]
      <4>1. a - first + 1 = c
        BY <1>1
      <4>. QED  BY <1>1, <2>1, <4>1, SubSeqProperties
    <3>3. \A i \in 1..c : SubSeq(row, first, a)[i] = cur[i]
      <4>. SUFFICES ASSUME NEW i \in 1..c  PROVE SubSeq(row, first, a)[i] = cur[i]
        OBVIOUS
      <4>1. first + i - 1 = a - c + i
        BY <1>0, <1>1
      <4>2. SubSeq(row, first, a)[i] = row[first + i - 1]
        BY <3>2
      <4>3. cur[i] = row[a - c + i]
        BY <1>2
      <4>. HIDE DEF first
      <4>. QED  BY <4>1, <4>2, <4>3
    <3>. QED  BY <1>0, <1>1, <3>1, <3>3, SeqEqual
  <2>. QED  BY <2>1, <2>2, <2>3, <2>4 DEF IsRun
<1>6. FoundRuns(row, width, found, a)
  BY DEF ScanInv, found
<1>7. CASE c >= width
  <2>1. Closed(scan, width) = Append(found, cur)
    BY <1>7 DEF Closed, found, cur, c
  <2>. DEFINE more == Append(found, cur)
  <2>2. /\ more \in Seq(Seq(P)) /\ Len(more) = Len(found) + 1 /\ more[Len(found) + 1] = cur
        /\ \A i \in 1..Len(found) : more[i] = found[i]
    BY <1>1, AppendProperties
  <2>3. c > 0 /\ width <= a - first + 1
    BY <1>1, <1>7
  <2>4. ASSUME NEW i \in 1..Len(more)
        PROVE  \E lo, hi \in 1..Len(row) :
                 hi < a + 1 /\ Wide(row, width, lo, hi) /\ more[i] = SubSeq(row, lo, hi)
    <3>1. CASE i = Len(found) + 1
      <4>1. a < a + 1 /\ c > 0
        BY <1>1, <2>3
      <4>2. more[i] = SubSeq(row, first, a) /\ Wide(row, width, first, a)
        <5>. HIDE DEF first, more
        <5>. QED  BY <1>5, <2>2, <2>3, <3>1 DEF Wide
      <4>. HIDE DEF first, more
      <4>. QED  BY <1>5, <4>1, <4>2
    <3>2. CASE i # Len(found) + 1
      <4>1. i \in 1..Len(found)
        BY <1>1, <2>2, <3>2
      <4>2. PICK lo, hi \in 1..Len(row) :
              hi < a /\ Wide(row, width, lo, hi) /\ found[i] = SubSeq(row, lo, hi)
        BY <1>6, <4>1 DEF FoundRuns
      <4>3. hi < a + 1
        BY <1>1, <4>2
      <4>. QED  BY <2>2, <4>1, <4>2, <4>3
    <3>. QED  BY <3>1, <3>2
  <2>5. ASSUME NEW lo \in 1..Len(row), NEW hi \in 1..Len(row), hi < a + 1,
               Wide(row, width, lo, hi)
        PROVE  \E i \in 1..Len(more) : more[i] = SubSeq(row, lo, hi)
    <3>1. CASE hi < a
      <4>1. PICK i \in 1..Len(found) : found[i] = SubSeq(row, lo, hi)
        BY <1>6, <2>5, <3>1 DEF FoundRuns
      <4>2. i \in 1..Len(more)
        BY <1>1, <2>2
      <4>. QED  BY <2>2, <4>1, <4>2
    <3>2. CASE hi = a
      <4>1. lo = first
        BY <1>1, <1>4, <2>5, <3>2 DEF Wide
      <4>2. Len(found) + 1 \in 1..Len(more)
        BY <1>1, <2>2
      <4>3. cur = SubSeq(row, first, a)
        <5>. HIDE DEF first
        <5>. QED  BY <1>5, <2>3
      <4>. HIDE DEF first, more
      <4>. QED  BY <2>2, <3>2, <4>1, <4>2, <4>3
    <3>3. hi < a \/ hi = a
      BY <1>1, <2>5
    <3>. HIDE DEF more
    <3>. QED  BY <3>1, <3>2, <3>3
  <2>. HIDE DEF more
  <2>6. FoundRuns(row, width, more, a + 1)
    BY <2>4, <2>5 DEF FoundRuns
  <2>. QED  BY <2>1, <2>2, <2>6 DEF more
<1>8. CASE ~ (c >= width)
  <2>1. Closed(scan, width) = found
    BY <1>8 DEF Closed, found, cur, c
  <2>2. ASSUME NEW i \in 1..Len(found)
        PROVE  \E lo, hi \in 1..Len(row) :
                 hi < a + 1 /\ Wide(row, width, lo, hi) /\ found[i] = SubSeq(row, lo, hi)
    <3>1. PICK lo, hi \in 1..Len(row) :
            hi < a /\ Wide(row, width, lo, hi) /\ found[i] = SubSeq(row, lo, hi)
      BY <1>6 DEF FoundRuns
    <3>2. hi < a + 1
      BY <1>1, <3>1
    <3>. QED  BY <3>1, <3>2
  <2>3. ASSUME NEW lo \in 1..Len(row), NEW hi \in 1..Len(row), hi < a + 1,
               Wide(row, width, lo, hi)
        PROVE  hi < a
    <3>1. CASE hi = a
      <4>1. lo = first
        BY <1>1, <1>4, <2>3, <3>1 DEF Wide
      <4>. QED  BY <1>1, <1>8, <2>3, <3>1, <4>1 DEF Wide
    <3>. QED  BY <1>1, <2>3, <3>1
  <2>4. FoundRuns(row, width, found, a + 1)
    <3>. QED  BY <1>6, <2>2, <2>3 DEF FoundRuns
  <2>. QED  BY <1>1, <2>1, <2>4
<1>. QED  BY <1>1, <1>7, <1>8

\* What the next point does to what has been scanned.
LEMMA ScanStep ==
  ASSUME NEW P, NEW row \in Seq(P), \A p \in P : p.feasible \in BOOLEAN,
         NEW width \in Nat \ {0}, NEW scan, NEW a \in 1..Len(row),
         ScanInv(P, row, width, scan, a - 1)
  PROVE  ScanInv(P, row, width, Scanned(scan, row[a], width), a)
<1>. DEFINE next == Scanned(scan, row[a], width)
            c == Len(scan.current)
<1>1. /\ scan \in [current : Seq(P), found : Seq(Seq(P))] /\ scan.current \in Seq(P)
      /\ c \in Nat /\ c <= a - 1 /\ a \in Nat /\ Len(row) \in Nat /\ a <= Len(row)
      /\ row[a] \in P /\ a - 1 \in 0..Len(row) /\ row[a].feasible \in BOOLEAN
  BY DEF ScanInv, LastRun
<1>2. CASE row[a].feasible
  <2>. DEFINE cur == Append(scan.current, row[a])
  <2>1. next = [scan EXCEPT !.current = cur]
    BY <1>2 DEF Scanned
  <2>2. /\ cur \in Seq(P) /\ Len(cur) = c + 1 /\ cur[c + 1] = row[a]
        /\ \A i \in 1..c : cur[i] = scan.current[i]
    BY <1>1, AppendProperties
  <2>3. /\ next \in [current : Seq(P), found : Seq(Seq(P))]
        /\ next.current = cur /\ next.found = scan.found
    <3>. HIDE DEF cur, next
    <3>. QED  BY <1>1, <2>1, <2>2
  <2>4. LastRun(row, cur, a)
    <3>1. /\ \A i \in 1..c : scan.current[i] = row[a - 1 - c + i] /\ row[a - 1 - c + i].feasible
          /\ a - 1 - c > 0 => ~ row[a - 1 - c].feasible
      BY DEF ScanInv, LastRun
    <3>. HIDE DEF c, cur
    <3>2. a - (c + 1) = a - 1 - c /\ c + 1 <= a /\ a - 1 - c + (c + 1) = a
      BY <1>1
    <3>3. ASSUME NEW i \in 1..(c + 1)
          PROVE  cur[i] = row[a - 1 - c + i] /\ row[a - 1 - c + i].feasible
      <4>1. i \in 1..c \/ i = c + 1
        BY <1>1
      <4>. QED  BY <1>2, <2>2, <3>1, <3>2, <4>1
    <3>. QED  BY <2>2, <3>1, <3>2, <3>3 DEF LastRun
  <2>5. FoundRuns(row, width, scan.found, a)
    <3>1. FoundRuns(row, width, scan.found, a - 1)
      BY DEF ScanInv
    <3>2. ASSUME NEW lo \in 1..Len(row), NEW hi \in 1..Len(row), hi < a,
                 Wide(row, width, lo, hi)
          PROVE  hi < a - 1
      <4>1. CASE hi + 1 = a
        <5>1. hi + 1 \in DOMAIN row
          BY <4>1
        <5>. QED  BY <1>2, <3>2, <4>1, <5>1 DEF Wide, IsRun
      <4>. QED  BY <1>1, <3>2, <4>1
    <3>3. \A hi \in 1..Len(row) : hi < a - 1 => hi < a
      BY <1>1
    <3>. QED  BY <3>1, <3>2, <3>3 DEF FoundRuns
  <2>. HIDE DEF cur, next
  <2>. QED  BY <2>3, <2>4, <2>5 DEF ScanInv, next
<1>3. CASE ~ row[a].feasible
  <2>1. next = [current |-> <<>>, found |-> Closed(scan, width)]
    BY <1>3 DEF Scanned
  <2>2. a - 1 + 1 = a
    BY <1>1
  <2>3. /\ Closed(scan, width) \in Seq(Seq(P))
        /\ FoundRuns(row, width, Closed(scan, width), a - 1 + 1)
    BY <1>1, <1>3, <2>2, CloseFinds
  <2>4. LastRun(row, <<>>, a)
    BY <1>1, <1>3 DEF LastRun
  <2>. HIDE DEF next
  <2>5. next.current = <<>> /\ next.found = Closed(scan, width)
        /\ next \in [current : Seq(P), found : Seq(Seq(P))]
    BY <2>1, <2>3
  <2>. QED  BY <2>2, <2>3, <2>4, <2>5 DEF ScanInv, next
<1>. QED  BY <1>1, <1>2, <1>3

\* Before the first point nothing is found.
LEMMA ScanBegins ==
  ASSUME NEW P, NEW row \in Seq(P), NEW width
  PROVE  ScanInv(P, row, width, Begun, 0)
<1>1. Begun.current = <<>> /\ Begun.found = <<>>
      /\ Begun \in [current : Seq(P), found : Seq(Seq(P))]
  BY DEF Begun
<1>2. \A hi \in 1..Len(row) : ~ (hi < 0)
  OBVIOUS
<1>. QED  BY <1>1, <1>2 DEF ScanInv, LastRun, FoundRuns

\* The recursion of PathIntervals.
IsScan(row, width, f) ==
  f = [a \in 0..Len(row) |-> IF a = 0 THEN Begun ELSE Scanned(f[a - 1], row[a], width)]

\* The intervals are what the scan leaves, closed.
LEMMA IntervalsByScan ==
  \A row, width :
    PathIntervals(row, width) = Closed((CHOOSE f : IsScan(row, width, f))[Len(row)], width)
BY DEF PathIntervals, IsScan

\* There is a scan of every row, built point by point.
LEMMA ScanExists ==
  ASSUME NEW P, NEW row \in Seq(P), \A p \in P : p.feasible \in BOOLEAN,
         NEW width \in Nat \ {0}
  PROVE  \E f : IsScan(row, width, f)
<1>. DEFINE D == [current : Seq(P), found : Seq(Seq(P))]
            n == Len(row)
            step == [a \in 1..n |-> [s \in D |-> Scanned(s, row[a], width)]]
<1>1. n \in Nat /\ \A a \in 1..n : row[a] \in P
  OBVIOUS
<1>2. Begun \in D
  BY DEF Begun
<1>3. ASSUME NEW a \in 1..n, NEW s \in D PROVE Scanned(s, row[a], width) \in D
  <2>1. row[a] \in P /\ row[a].feasible \in BOOLEAN /\ s.current \in Seq(P) /\ s.found \in Seq(Seq(P))
    BY <1>1
  <2>2. Append(s.current, row[a]) \in Seq(P) /\ Append(s.found, s.current) \in Seq(Seq(P))
    BY <2>1
  <2>3. Closed(s, width) \in Seq(Seq(P))
    BY <2>1, <2>2 DEF Closed
  <2>4. [current |-> <<>>, found |-> Closed(s, width)] \in D
    BY <2>3
  <2>5. [s EXCEPT !.current = Append(s.current, row[a])] \in D
    BY <2>1, <2>2
  <2>. HIDE DEF D
  <2>. QED  BY <2>4, <2>5 DEF Scanned
<1>4. step \in [1..n -> [D -> D]]
  <2>. HIDE DEF D
  <2>. QED  BY <1>3
<1>5. PICK f : Iterates(D, Begun, n, step, f)
  <2>. HIDE DEF D, step, n
  <2>. QED  BY <1>1, <1>2, <1>4, IteratesExist
<1>6. f \in [0..n -> D] /\ f[0] = Begun /\ \A a \in 1..n : f[a] = step[a][f[a - 1]]
  BY <1>5 DEF Iterates
<1>7. ASSUME NEW a \in 0..n
      PROVE  f[a] = IF a = 0 THEN Begun ELSE Scanned(f[a - 1], row[a], width)
  <2>1. CASE a # 0
    <3>1. a \in 1..n /\ a - 1 \in 0..n
      BY <1>1, <2>1
    <3>2. f[a - 1] \in D
      <4>. HIDE DEF D
      <4>. QED  BY <1>6, <3>1
    <3>. HIDE DEF D
    <3>3. step[a][f[a - 1]] = Scanned(f[a - 1], row[a], width)
      BY <3>1, <3>2
    <3>. HIDE DEF step
    <3>. QED  BY <1>6, <2>1, <3>1, <3>3
  <2>. QED  BY <1>6, <2>1
<1>8. f = [a \in 0..n |-> f[a]]
  <2>. HIDE DEF D
  <2>. QED  BY <1>6
<1>9. f = [a \in 0..Len(row) |-> IF a = 0 THEN Begun ELSE Scanned(f[a - 1], row[a], width)]
  <2>. HIDE DEF D, step
  <2>. QED  BY <1>7, <1>8
<1>. QED  BY <1>9 DEF IsScan

\* The intervals of a row are its runs that cannot be extended and are wide.
LEMMA IntervalsAreRuns ==
  ASSUME NEW P, NEW row \in Seq(P), \A p \in P : p.feasible \in BOOLEAN,
         NEW width \in Nat \ {0}
  PROVE  /\ PathIntervals(row, width) \in Seq(Seq(P))
         /\ FoundRuns(row, width, PathIntervals(row, width), Len(row) + 1)
<1>. DEFINE f == CHOOSE g : IsScan(row, width, g)
            n == Len(row)
<1>1. IsScan(row, width, f)
  BY ScanExists
<1>. HIDE DEF f
<1>2. n \in Nat
  OBVIOUS
<1>3. f[0] = Begun /\ \A a \in 1..n : f[a] = Scanned(f[a - 1], row[a], width)
  <2>1. \A a \in 1..n : a \in 0..n /\ a # 0
    BY <1>2
  <2>2. \A a \in 0..n : f[a] = IF a = 0 THEN Begun ELSE Scanned(f[a - 1], row[a], width)
    BY <1>1 DEF IsScan
  <2>3. 0 \in 0..n
    BY <1>2
  <2>. QED  BY <2>1, <2>2, <2>3
<1>4. \A a \in 0..n : ScanInv(P, row, width, f[a], a)
  <2>. DEFINE bad == {a \in 0..n : ~ ScanInv(P, row, width, f[a], a)}
  <2>. SUFFICES ASSUME bad # {} PROVE FALSE
    OBVIOUS
  <2>1. bad \in SUBSET Nat
    OBVIOUS
  <2>2. PICK a \in bad : \A b \in bad : a <= b
    <3>. HIDE DEF bad
    <3>. QED  BY <2>1, LeastNat
  <2>3. a # 0
    BY <1>3, <2>2, ScanBegins
  <2>4. a \in 1..n /\ a - 1 \in 0..n /\ ~ (a <= a - 1)
    BY <1>2, <2>2, <2>3
  <2>5. ScanInv(P, row, width, f[a - 1], a - 1)
    BY <2>2, <2>4
  <2>6. ScanInv(P, row, width, f[a], a)
    BY <1>3, <2>4, <2>5, ScanStep
  <2>. QED  BY <2>2, <2>6
<1>5. n \in 0..n /\ ~ (n < Len(row)) /\ ScanInv(P, row, width, f[n], n)
  BY <1>2, <1>4
<1>6. /\ Closed(f[n], width) \in Seq(Seq(P))
      /\ FoundRuns(row, width, Closed(f[n], width), n + 1)
  BY <1>5, CloseFinds
<1>. QED  BY <1>6, IntervalsByScan DEF f

\* FlattenSeq loses no element and adds none.
IsFlat(seqs, f) ==
  f = [i \in 1..Len(seqs) |-> IF i = 1 THEN seqs[i] ELSE f[i - 1] \o seqs[i]]
SameElements(seqs, flat, m) ==
  /\ \A i \in 1..Len(flat) : \E j \in 1..m : \E k \in 1..Len(seqs[j]) : flat[i] = seqs[j][k]
  /\ \A j \in 1..m : \A k \in 1..Len(seqs[j]) : \E i \in 1..Len(flat) : flat[i] = seqs[j][k]

\* The fold that flattens, built sequence by sequence.
LEMMA FlatExists ==
  ASSUME NEW X, NEW seqs \in Seq(Seq(X)), Len(seqs) > 0
  PROVE  \E f : IsFlat(seqs, f) /\ f \in [1..Len(seqs) -> Seq(X)]
<1>. DEFINE n == Len(seqs)
            step == [k \in 1..(n - 1) |-> [s \in Seq(X) |-> s \o seqs[k + 1]]]
<1>1. n \in Nat /\ n - 1 \in Nat /\ \A i \in 1..n : seqs[i] \in Seq(X)
  OBVIOUS
<1>2. step \in [1..(n - 1) -> [Seq(X) -> Seq(X)]]
  <2>1. ASSUME NEW k \in 1..(n - 1), NEW s \in Seq(X) PROVE s \o seqs[k + 1] \in Seq(X)
    <3>1. k + 1 \in 1..n
      BY <1>1
    <3>. HIDE DEF n
    <3>. QED  BY <1>1, <3>1
  <2>. HIDE DEF n
  <2>. QED  BY <2>1
<1>3. seqs[1] \in Seq(X)
  BY <1>1
<1>4. PICK g : Iterates(Seq(X), seqs[1], n - 1, step, g)
  <2>. HIDE DEF n, step
  <2>. QED  BY <1>1, <1>2, <1>3, IteratesExist
<1>5. g \in [0..(n - 1) -> Seq(X)] /\ g[0] = seqs[1] /\ \A k \in 1..(n - 1) : g[k] = step[k][g[k - 1]]
  <2>. HIDE DEF n, step
  <2>. QED  BY <1>4 DEF Iterates
<1>. DEFINE f == [i \in 1..n |-> g[i - 1]]
<1>6. \A i \in 1..n : i - 1 \in 0..(n - 1) /\ f[i] = g[i - 1] /\ f[i] \in Seq(X)
  <2>1. \A i \in 1..n : i - 1 \in 0..(n - 1)
    BY <1>1
  <2>. HIDE DEF n, step
  <2>. QED  BY <1>5, <2>1
<1>7. ASSUME NEW i \in 1..n
      PROVE  f[i] = IF i = 1 THEN seqs[i] ELSE f[i - 1] \o seqs[i]
  <2>1. CASE i # 1
    <3>1. i - 1 \in 1..(n - 1) /\ i - 1 \in 1..n /\ i - 1 + 1 = i /\ i - 1 - 1 \in 0..(n - 1)
      BY <1>1, <2>1
    <3>. HIDE DEF n
    <3>2. g[i - 1 - 1] \in Seq(X)
      BY <1>5, <3>1
    <3>3. step[i - 1][g[i - 1 - 1]] = g[i - 1 - 1] \o seqs[i - 1 + 1]
      BY <3>1, <3>2
    <3>. HIDE DEF step, f
    <3>. QED  BY <1>5, <1>6, <2>1, <3>1, <3>3
  <2>2. CASE i = 1
    <3>. HIDE DEF n, step, f
    <3>. QED  BY <1>5, <1>6, <2>2
  <2>. QED  BY <2>1, <2>2
<1>8. f \in [1..n -> Seq(X)]
  <2>. HIDE DEF n, step
  <2>. QED  BY <1>6
<1>9. f = [i \in 1..n |-> IF i = 1 THEN seqs[i] ELSE f[i - 1] \o seqs[i]]
  <2>1. DOMAIN f = 1..n /\ f = [i \in DOMAIN f |-> f[i]]
    OBVIOUS
  <2>. HIDE DEF n, step, f
  <2>. QED  BY <1>7, <2>1
<1>. HIDE DEF f, step
<1>. QED  BY <1>8, <1>9 DEF IsFlat

\* Flattening keeps the elements.
LEMMA FlattenFacts ==
  ASSUME NEW X, NEW seqs \in Seq(Seq(X))
  PROVE  /\ FlattenSeq(seqs) \in Seq(X)
         /\ SameElements(seqs, FlattenSeq(seqs), Len(seqs))
<1>. DEFINE n == Len(seqs)
<1>1. CASE n = 0
  <2>1. FlattenSeq(seqs) = <<>> /\ Len(seqs) = 0
    BY <1>1 DEF FlattenSeq
  <2>. QED  BY <2>1 DEF SameElements
<1>2. CASE n # 0
  <2>. DEFINE f == CHOOSE g : IsFlat(seqs, g)
  <2>1. n \in Nat /\ n > 0 /\ n \in 1..n /\ \A j \in 1..n : seqs[j] \in Seq(X)
    BY <1>2
  <2>2. FlattenSeq(seqs) = f[n]
    BY <1>2 DEF FlattenSeq, IsFlat
  <2>3. IsFlat(seqs, f)
    <3>1. \E g : IsFlat(seqs, g)
      BY <2>1, FlatExists
    <3>. QED  BY <3>1
  <2>. HIDE DEF f
  <2>4. \A i \in 1..n : f[i] = IF i = 1 THEN seqs[i] ELSE f[i - 1] \o seqs[i]
    BY <2>3 DEF IsFlat
  <2>. DEFINE Good(m) == f[m] \in Seq(X) /\ SameElements(seqs, f[m], m)
  <2>5. ASSUME NEW m \in 1..n, m # 1, Good(m - 1) PROVE Good(m)
    <3>. DEFINE old == f[m - 1]
                add == seqs[m]
                new == old \o add
    <3>1. /\ m \in Nat /\ m - 1 \in 1..n /\ old \in Seq(X) /\ add \in Seq(X)
          /\ SameElements(seqs, old, m - 1)
      BY <2>1, <2>5
    <3>2. f[m] = new
      BY <2>4, <2>5
    <3>3. /\ new \in Seq(X) /\ Len(new) = Len(old) + Len(add)
          /\ Len(old) \in Nat /\ Len(add) \in Nat
          /\ \A i \in 1..Len(new) : new[i] = IF i <= Len(old) THEN old[i] ELSE add[i - Len(old)]
      <4>. HIDE DEF old, add
      <4>. QED  BY <3>1, ConcatProperties
    <3>. HIDE DEF old, new
    <3>4. ASSUME NEW i \in 1..Len(new)
          PROVE  \E j \in 1..m : \E k \in 1..Len(seqs[j]) : new[i] = seqs[j][k]
      <4>1. CASE i <= Len(old)
        <5>1. i \in 1..Len(old)
          BY <3>3, <4>1
        <5>2. PICK j \in 1..(m - 1) : \E k \in 1..Len(seqs[j]) : old[i] = seqs[j][k]
          BY <3>1, <5>1 DEF SameElements
        <5>3. j \in 1..m /\ new[i] = old[i]
          BY <3>1, <3>3, <4>1
        <5>. QED  BY <5>2, <5>3
      <4>2. CASE ~ (i <= Len(old))
        <5>1. i - Len(old) \in 1..Len(add) /\ m \in 1..m
          BY <3>1, <3>3, <4>2
        <5>2. new[i] = seqs[m][i - Len(old)]
          BY <3>3, <4>2
        <5>. QED  BY <5>1, <5>2
      <4>. QED  BY <4>1, <4>2
    <3>5. ASSUME NEW j \in 1..m, NEW k \in 1..Len(seqs[j])
          PROVE  \E i \in 1..Len(new) : new[i] = seqs[j][k]
      <4>1. CASE j = m
        <5>1. k \in 1..Len(add)
          BY <4>1
        <5>. HIDE DEF add
        <5>2. k + Len(old) \in 1..Len(new) /\ ~ (k + Len(old) <= Len(old))
              /\ k + Len(old) - Len(old) = k
          BY <3>3, <5>1
        <5>3. new[k + Len(old)] = add[k]
          BY <3>3, <5>2
        <5>. QED  BY <4>1, <5>2, <5>3 DEF add
      <4>2. CASE j # m
        <5>1. j \in 1..(m - 1)
          BY <3>1, <4>2
        <5>2. PICK i \in 1..Len(old) : old[i] = seqs[j][k]
          BY <3>1, <5>1 DEF SameElements
        <5>. HIDE DEF add
        <5>3. i \in 1..Len(new) /\ i <= Len(old)
          BY <3>3
        <5>4. new[i] = old[i]
          BY <3>3, <5>3
        <5>. QED  BY <5>2, <5>3, <5>4
      <4>. QED  BY <4>1, <4>2
    <3>. QED  BY <3>2, <3>3, <3>4, <3>5 DEF SameElements
  <2>6. Good(1)
    <3>1. f[1] = seqs[1] /\ seqs[1] \in Seq(X) /\ 1 \in 1..1
      BY <2>1, <2>4
    <3>2. \A j \in 1..1 : j = 1
      OBVIOUS
    <3>. QED  BY <3>1, <3>2 DEF SameElements
  <2>7. Good(n)
    <3>. DEFINE bad == {m \in 1..n : ~ Good(m)}
    <3>. SUFFICES ASSUME bad # {} PROVE FALSE
      BY <2>1
    <3>1. bad \in SUBSET Nat
      OBVIOUS
    <3>2. PICK m \in bad : \A k \in bad : m <= k
      <4>. HIDE DEF bad
      <4>. QED  BY <3>1, LeastNat
    <3>3. m \in 1..n /\ ~ Good(m)
      OBVIOUS
    <3>4. m # 1
      <4>. HIDE DEF Good, bad
      <4>. QED  BY <2>6, <3>3
    <3>5. m - 1 \in 1..n /\ ~ (m <= m - 1)
      BY <2>1, <3>3, <3>4
    <3>6. Good(m - 1)
      <4>. HIDE DEF Good
      <4>. QED  BY <3>2, <3>5
    <3>. HIDE DEF Good, bad
    <3>. QED  BY <2>5, <3>3, <3>4, <3>6
  <2>. QED  BY <2>2, <2>7
<1>. QED  BY <1>1, <1>2

-----------------------------------------------------------------------------
(* The order of keys.                                                       *)

Keys == Int \X Int \X Int \X Int \X Int

\* The order of keys, component by component.
LEMMA BeforeIs ==
  ASSUME NEW k \in Keys, NEW l \in Keys
  PROVE  /\ k[1] \in Int /\ k[2] \in Int /\ k[3] \in Int /\ k[4] \in Int /\ k[5] \in Int
         /\ Before(k, l) <=>
              \/ k[1] < l[1]
              \/ k[1] = l[1] /\ k[2] < l[2]
              \/ k[1] = l[1] /\ k[2] = l[2] /\ k[3] < l[3]
              \/ k[1] = l[1] /\ k[2] = l[2] /\ k[3] = l[3] /\ k[4] < l[4]
              \/ k[1] = l[1] /\ k[2] = l[2] /\ k[3] = l[3] /\ k[4] = l[4] /\ k[5] < l[5]
<1>1. k[1] \in Int /\ k[2] \in Int /\ k[3] \in Int /\ k[4] \in Int /\ k[5] \in Int
  BY DEF Keys
<1>2. DOMAIN k = 1..5
  BY DEF Keys
<1>. DEFINE At(i) == k[i] < l[i] /\ \A j \in 1..(i - 1) : k[j] = l[j]
<1>3. Before(k, l) <=> At(1) \/ At(2) \/ At(3) \/ At(4) \/ At(5)
  <2>1. \A i \in 1..5 : i = 1 \/ i = 2 \/ i = 3 \/ i = 4 \/ i = 5
    OBVIOUS
  <2>2. Before(k, l) <=> \E i \in 1..5 : At(i)
    BY <1>2 DEF Before
  <2>. HIDE DEF At
  <2>. QED  BY <2>1, <2>2
<1>4. 1..(1 - 1) = {} /\ 1..(2 - 1) = {1} /\ 1..(3 - 1) = {1, 2}
      /\ 1..(4 - 1) = {1, 2, 3} /\ 1..(5 - 1) = {1, 2, 3, 4}
  OBVIOUS
<1>5. /\ At(1) <=> k[1] < l[1]
      /\ At(2) <=> k[1] = l[1] /\ k[2] < l[2]
      /\ At(3) <=> k[1] = l[1] /\ k[2] = l[2] /\ k[3] < l[3]
      /\ At(4) <=> k[1] = l[1] /\ k[2] = l[2] /\ k[3] = l[3] /\ k[4] < l[4]
      /\ At(5) <=> k[1] = l[1] /\ k[2] = l[2] /\ k[3] = l[3] /\ k[4] = l[4] /\ k[5] < l[5]
  BY <1>4
<1>. HIDE DEF At
<1>. QED  BY <1>1, <1>3, <1>5

\* It is a strict total order.
LEMMA BeforeOrders ==
  /\ \A k, l \in Keys : Before(k, l) => ~ Before(l, k)
  /\ \A k, l, m \in Keys : Before(k, l) /\ Before(l, m) => Before(k, m)
  /\ \A k, l \in Keys : k # l => Before(k, l) \/ Before(l, k)
<1>1. \A k, l \in Keys : Before(k, l) => ~ Before(l, k)
  BY BeforeIs
<1>2. \A k, l, m \in Keys : Before(k, l) /\ Before(l, m) => Before(k, m)
  <2>. SUFFICES ASSUME NEW k \in Keys, NEW l \in Keys, NEW m \in Keys, Before(k, l), Before(l, m)
                PROVE  Before(k, m)
    OBVIOUS
  <2>. QED  BY BeforeIs
<1>3. ASSUME NEW k \in Keys, NEW l \in Keys, k # l PROVE Before(k, l) \/ Before(l, k)
  <2>1. k = <<k[1], k[2], k[3], k[4], k[5]>> /\ l = <<l[1], l[2], l[3], l[4], l[5]>>
    BY DEF Keys
  <2>2. ~ (k[1] = l[1] /\ k[2] = l[2] /\ k[3] = l[3] /\ k[4] = l[4] /\ k[5] = l[5])
    BY <1>3, <2>1
  <2>. QED  BY <2>2, BeforeIs
<1>. QED  BY <1>1, <1>2, <1>3

\* Of rows with keys there is a first.
LEMMA FirstExists ==
  ASSUME NEW n \in Nat \ {0}, NEW key, \A i \in 1..n : key[i] \in Keys
  PROVE  \E i \in 1..n : /\ \A j \in 1..n : ~ Before(key[j], key[i])
                         /\ \A j \in 1..(i - 1) : Before(key[i], key[j])
<1>. DEFINE D == 1..n
            less == {q \in D \X D : \/ Before(key[q[1]], key[q[2]])
                                    \/ key[q[1]] = key[q[2]] /\ q[1] < q[2]}
<1>1. \A a, b \in D : <<a, b>> \in less <=>
        Before(key[a], key[b]) \/ (key[a] = key[b] /\ a < b)
  OBVIOUS
<1>2. IsFiniteSet(D) /\ D # {}
  <2>1. 1 \in D
    OBVIOUS
  <2>. QED  BY <2>1, FS_Interval
<1>3. \A a \in D : key[a] \in Keys /\ a \in Int
  OBVIOUS
<1>. HIDE DEF D, less
<1>4. \A a, b \in D : a # b => <<a, b>> \in less \/ <<b, a>> \in less
  <2>. SUFFICES ASSUME NEW a \in D, NEW b \in D, a # b
                PROVE  <<a, b>> \in less \/ <<b, a>> \in less
    OBVIOUS
  <2>1. a < b \/ b < a
    BY <1>3
  <2>. QED  BY <1>1, <1>3, <2>1, BeforeOrders
<1>5. \A a, b, c \in D : <<a, b>> \in less /\ <<b, c>> \in less => <<a, c>> \in less
  <2>. SUFFICES ASSUME NEW a \in D, NEW b \in D, NEW c \in D, <<a, b>> \in less, <<b, c>> \in less
                PROVE  <<a, c>> \in less
    OBVIOUS
  <2>1. a < b /\ b < c => a < c
    BY <1>3
  <2>. QED  BY <1>1, <1>3, <2>1, BeforeOrders
<1>6. PICK i \in D : \A j \in D \ {i} : <<i, j>> \in less
  BY <1>2, <1>4, <1>5, LeastInOrder
<1>7. ASSUME NEW j \in D PROVE ~ Before(key[j], key[i])
  <2>1. j # i => Before(key[i], key[j]) \/ key[i] = key[j]
    BY <1>1, <1>6
  <2>. QED  BY <1>3, <2>1, BeforeOrders
<1>8. ASSUME NEW j \in 1..(i - 1) PROVE Before(key[i], key[j])
  <2>1. j \in D /\ j # i /\ ~ (i < j)
    BY <1>3 DEF D
  <2>. QED  BY <1>1, <1>6, <2>1
<1>. QED  BY <1>7, <1>8 DEF D

-----------------------------------------------------------------------------
(* The selection.                                                           *)

PathPoints == [path : Int, alpha : Int, feasible : BOOLEAN, margin : Int, speed : Int, gap : Int]

\* Where the intervals of a table of points come from.
IsInterval(points, width, path, lo, hi) ==
  /\ path \in DOMAIN points
  /\ lo \in 1..Len(points[path]) /\ hi \in 1..Len(points[path])
  /\ Wide(points[path], width, lo, hi)

\* Every interval is found, and only intervals are.
LEMMA IntervalsFacts ==
  ASSUME NEW points \in Seq(Seq(PathPoints)), NEW width \in Nat \ {0}
  PROVE  /\ RobustIntervals(points, width) \in Seq(Seq(PathPoints))
         /\ \A i \in 1..Len(RobustIntervals(points, width)) : \E path, lo, hi :
              /\ IsInterval(points, width, path, lo, hi)
              /\ RobustIntervals(points, width)[i] = SubSeq(points[path], lo, hi)
         /\ \A path, lo, hi : IsInterval(points, width, path, lo, hi) =>
              \E i \in 1..Len(RobustIntervals(points, width)) :
                RobustIntervals(points, width)[i] = SubSeq(points[path], lo, hi)
<1>. DEFINE seqs == [path \in DOMAIN points |-> PathIntervals(points[path], width)]
            flat == RobustIntervals(points, width)
            n == Len(points)
<1>1. n \in Nat /\ DOMAIN points = 1..n /\ \A path \in 1..n : points[path] \in Seq(PathPoints)
  OBVIOUS
<1>2. \A p \in PathPoints : p.feasible \in BOOLEAN
  BY DEF PathPoints
<1>3. \A path \in 1..n : /\ PathIntervals(points[path], width) \in Seq(Seq(PathPoints))
                         /\ FoundRuns(points[path], width, PathIntervals(points[path], width),
                                      Len(points[path]) + 1)
  BY <1>1, <1>2, IntervalsAreRuns
<1>4. /\ seqs \in Seq(Seq(Seq(PathPoints))) /\ Len(seqs) = n
      /\ \A path \in 1..n : seqs[path] = PathIntervals(points[path], width)
  <2>. HIDE DEF n
  <2>. QED  BY <1>1, <1>3
<1>5. flat = FlattenSeq(seqs)
  BY DEF RobustIntervals
<1>. HIDE DEF seqs, flat, n
<1>6. flat \in Seq(Seq(PathPoints)) /\ SameElements(seqs, flat, n)
  BY <1>4, <1>5, FlattenFacts
<1>7. ASSUME NEW i \in 1..Len(flat)
      PROVE  \E path, lo, hi : /\ IsInterval(points, width, path, lo, hi)
                               /\ flat[i] = SubSeq(points[path], lo, hi)
  <2>1. PICK path \in 1..n : \E k \in 1..Len(seqs[path]) : flat[i] = seqs[path][k]
    BY <1>6 DEF SameElements
  <2>2. PICK k \in 1..Len(seqs[path]) : flat[i] = seqs[path][k]
    BY <2>1
  <2>3. FoundRuns(points[path], width, seqs[path], Len(points[path]) + 1)
    BY <1>3, <1>4
  <2>4. PICK lo, hi \in 1..Len(points[path]) :
          Wide(points[path], width, lo, hi) /\ seqs[path][k] = SubSeq(points[path], lo, hi)
    BY <2>3 DEF FoundRuns
  <2>. QED  BY <1>1, <2>2, <2>4 DEF IsInterval
<1>8. ASSUME NEW path, NEW lo, NEW hi, IsInterval(points, width, path, lo, hi)
      PROVE  \E i \in 1..Len(flat) : flat[i] = SubSeq(points[path], lo, hi)
  <2>1. /\ path \in 1..n /\ lo \in 1..Len(points[path]) /\ hi \in 1..Len(points[path])
        /\ Wide(points[path], width, lo, hi)
    BY <1>1, <1>8 DEF IsInterval
  <2>2. FoundRuns(points[path], width, seqs[path], Len(points[path]) + 1)
    BY <1>3, <1>4, <2>1
  <2>3. hi < Len(points[path]) + 1
    BY <1>1, <2>1
  <2>4. PICK k \in 1..Len(seqs[path]) : seqs[path][k] = SubSeq(points[path], lo, hi)
    BY <2>1, <2>2, <2>3 DEF FoundRuns
  <2>5. PICK i \in 1..Len(flat) : flat[i] = seqs[path][k]
    BY <1>6, <2>1 DEF SameElements
  <2>. QED  BY <2>4, <2>5
<1>. QED  BY <1>6, <1>7, <1>8 DEF flat

\* The key and the lower middle of an interval.
LEMMA IntervalIs ==
  ASSUME NEW points \in Seq(Seq(PathPoints)), NEW width \in Nat \ {0}, NEW path, NEW lo, NEW hi,
         IsInterval(points, width, path, lo, hi)
  PROVE  LET x == SubSeq(points[path], lo, hi)
         IN  /\ x \in Seq(PathPoints) /\ Len(x) = hi - lo + 1 /\ Len(x) >= width
             /\ \A i \in 1..Len(x) : x[i] = points[path][lo + i - 1]
             /\ IntervalKey(x) \in Keys
<1>. DEFINE row == points[path]
            x == SubSeq(row, lo, hi)
            m == hi - lo + 1
<1>1. /\ row \in Seq(PathPoints) /\ lo \in 1..Len(row) /\ hi \in 1..Len(row)
      /\ m >= width /\ Len(row) \in Nat /\ m \in Nat \ {0}
  BY DEF IsInterval, Wide
<1>2. /\ x \in Seq(PathPoints) /\ Len(x) = m /\ \A i \in 1..m : x[i] = row[lo + i - 1]
  <2>1. \A i \in lo..hi : row[i] \in PathPoints
    BY <1>1
  <2>2. lo <= hi /\ lo \in Int /\ hi \in Int
    BY <1>1
  <2>. HIDE DEF row
  <2>. QED  BY <2>1, <2>2, SubSeqProperties
<1>. HIDE DEF x, m
<1>3. \A i \in 1..m : x[i] \in PathPoints
  BY <1>2
<1>4. \A i \in 1..m : /\ x[i].margin \in Int /\ x[i].gap \in Int /\ x[i].speed \in Int
                      /\ x[i].path \in Int
  BY <1>3 DEF PathPoints
<1>5. DOMAIN x = 1..m
  BY <1>2
<1>6. Least(x, "margin") \in Int /\ Least(x, "speed") \in Int /\ Greatest(x, "gap") \in Int
  <2>. DEFINE margins == [i \in 1..m |-> x[i].margin]
              speeds == [i \in 1..m |-> x[i].speed]
              gaps == [i \in 1..m |-> x[i].gap]
  <2>1. /\ Least(x, "margin") = Min({margins[i] : i \in 1..m})
        /\ Least(x, "speed") = Min({speeds[i] : i \in 1..m})
        /\ Greatest(x, "gap") = Max({gaps[i] : i \in 1..m})
    BY <1>5 DEF Least, Greatest
  <2>2. \A i \in 1..m : margins[i] \in Int /\ speeds[i] \in Int /\ gaps[i] \in Int
    BY <1>4
  <2>. HIDE DEF margins, speeds, gaps
  <2>3. Min({margins[i] : i \in 1..m}) \in Int
    BY <1>1, <2>2, ExtremesOf
  <2>4. Min({speeds[i] : i \in 1..m}) \in Int
    BY <1>1, <2>2, ExtremesOf
  <2>5. Max({gaps[i] : i \in 1..m}) \in Int
    BY <1>1, <2>2, ExtremesOf
  <2>. QED  BY <2>1, <2>3, <2>4, <2>5
<1>7. Len(x) \in Int /\ x[1].path \in Int
  <2>1. Len(x) \in Int
    BY <1>1, <1>2
  <2>2. 1 \in 1..m
    BY <1>1
  <2>. QED  BY <1>4, <2>1, <2>2
<1>8. IntervalKey(x) \in Keys
  <2>1. /\ - Len(x) \in Int /\ - Least(x, "margin") \in Int /\ - Least(x, "speed") \in Int
    BY <1>6, <1>7
  <2>. QED  BY <1>6, <1>7, <2>1 DEF IntervalKey, Keys
<1>. QED  BY <1>1, <1>2, <1>8 DEF x, m

\* What is selected is the lower middle of an interval that none comes before.
LEMMA SelectedIs ==
  ASSUME NEW points \in Seq(Seq(PathPoints)), NEW width \in Nat \ {0}
  PROVE  \/ /\ SelectRobustPoint(points, width) = NoCandidate
            /\ \A path, lo, hi : ~ IsInterval(points, width, path, lo, hi)
         \/ \E path, lo, hi :
              /\ IsInterval(points, width, path, lo, hi)
              /\ (lo + hi) \div 2 \in lo..hi
              /\ SelectRobustPoint(points, width) = Config(points[path][(lo + hi) \div 2])
              /\ \A other, first, last : IsInterval(points, width, other, first, last) =>
                   ~ Before(IntervalKey(SubSeq(points[other], first, last)),
                            IntervalKey(SubSeq(points[path], lo, hi)))
<1>. DEFINE all == RobustIntervals(points, width)
            n == Len(all)
            key == [i \in 1..n |-> IntervalKey(all[i])]
            win == FirstBy(IntervalKey, all)
<1>1. all \in Seq(Seq(PathPoints)) /\ n \in Nat /\ DOMAIN all = 1..n
  BY IntervalsFacts
<1>2. \A i \in 1..n : \E path, lo, hi : /\ IsInterval(points, width, path, lo, hi)
                                        /\ all[i] = SubSeq(points[path], lo, hi)
  BY IntervalsFacts
<1>3. \A path, lo, hi : IsInterval(points, width, path, lo, hi) =>
        \E i \in 1..n : all[i] = SubSeq(points[path], lo, hi)
  BY IntervalsFacts
<1>4. SelectRobustPoint(points, width) =
        IF all = <<>> THEN NoCandidate ELSE Config(win[1 + (Len(win) - 1) \div 2])
  BY DEF SelectRobustPoint
<1>5. win = all[CHOOSE i \in 1..n : /\ \A j \in 1..n : ~ Before(IntervalKey(all[j]), IntervalKey(all[i]))
                                    /\ \A j \in 1..(i - 1) : Before(IntervalKey(all[i]), IntervalKey(all[j]))]
  BY <1>1 DEF FirstBy
<1>. HIDE DEF all, n, win
<1>6. CASE all = <<>>
  <2>1. n = 0
    BY <1>6 DEF n
  <2>. QED  BY <1>3, <1>4, <1>6, <2>1
<1>7. CASE all # <<>>
  <2>1. n \in Nat \ {0}
    BY <1>1, <1>7 DEF n
  <2>2. ASSUME NEW i \in 1..n PROVE IntervalKey(all[i]) \in Keys
    <3>1. PICK path, lo, hi : IsInterval(points, width, path, lo, hi)
                              /\ all[i] = SubSeq(points[path], lo, hi)
      BY <1>2
    <3>2. IntervalKey(SubSeq(points[path], lo, hi)) \in Keys
      BY <3>1, IntervalIs
    <3>. QED  BY <3>1, <3>2
  <2>3. \E i \in 1..n : /\ \A j \in 1..n : ~ Before(IntervalKey(all[j]), IntervalKey(all[i]))
                        /\ \A j \in 1..(i - 1) : Before(IntervalKey(all[i]), IntervalKey(all[j]))
    <3>1. \A i \in 1..n : key[i] = IntervalKey(all[i]) /\ key[i] \in Keys
      BY <2>2
    <3>2. \A i \in 1..n : \A j \in 1..(i - 1) : j \in 1..n
      BY <2>1
    <3>. HIDE DEF key
    <3>3. PICK i \in 1..n : /\ \A j \in 1..n : ~ Before(key[j], key[i])
                            /\ \A j \in 1..(i - 1) : Before(key[i], key[j])
      BY <2>1, <3>1, FirstExists
    <3>. QED  BY <3>1, <3>2, <3>3
  <2>4. PICK i \in 1..n : /\ win = all[i]
                          /\ \A j \in 1..n : ~ Before(IntervalKey(all[j]), IntervalKey(all[i]))
    BY <1>5, <2>3
  <2>5. PICK path, lo, hi : IsInterval(points, width, path, lo, hi)
                            /\ all[i] = SubSeq(points[path], lo, hi)
    BY <1>2
  <2>6. /\ Len(win) = hi - lo + 1 /\ Len(win) >= width
        /\ \A k \in 1..Len(win) : win[k] = points[path][lo + k - 1]
    BY <2>4, <2>5, IntervalIs
  <2>7. lo \in Nat /\ hi \in Nat
    BY <2>5 DEF IsInterval
  <2>8. /\ 1 + (Len(win) - 1) \div 2 \in 1..Len(win)
        /\ lo + (1 + (Len(win) - 1) \div 2) - 1 = (lo + hi) \div 2
        /\ (lo + hi) \div 2 \in lo..hi
    BY <2>6, <2>7
  <2>9. SelectRobustPoint(points, width) = Config(points[path][(lo + hi) \div 2])
    BY <1>4, <1>7, <2>6, <2>8
  <2>10. ASSUME NEW other, NEW first, NEW last, IsInterval(points, width, other, first, last)
         PROVE  ~ Before(IntervalKey(SubSeq(points[other], first, last)),
                         IntervalKey(SubSeq(points[path], lo, hi)))
    BY <1>3, <2>4, <2>5, <2>10
  <2>. QED  BY <2>5, <2>8, <2>9, <2>10
<1>. QED  BY <1>6, <1>7

-----------------------------------------------------------------------------
(* The points of the tables, and what is selected of them.                *)
\* What every unit measured at an alpha of a path.
At(tables, path, alpha) == [unit \in DOMAIN tables |-> tables[unit][path][alpha]]

\* The tables of a development are measured at every unit, path and alpha.
LEMMA TableIs ==
  ASSUME NEW tables \in Tables
  PROVE  /\ DOMAIN tables = 1..Len(tables) /\ Len(tables) \in Nat \ {0}
         /\ tables[1] \in Seq(Seq(Metrics))
         /\ \A path \in DOMAIN tables[1] : Len(tables[1][path]) <= Alphas
         /\ \A path \in DOMAIN tables[1] : \A alpha \in DOMAIN tables[1][path] :
              \A unit \in DOMAIN tables : tables[unit][path][alpha] \in Metrics
<1>1. tables \in Seq(Seq(Seq(Metrics))) /\ tables # <<>>
  BY TablesAssumption
<1>2. DOMAIN tables = 1..Len(tables) /\ Len(tables) \in Nat \ {0} /\ 1 \in DOMAIN tables
  BY <1>1
<1>3. \A unit \in DOMAIN tables : tables[unit] \in Seq(Seq(Metrics))
  BY <1>1, <1>2
<1>4. ASSUME NEW path \in DOMAIN tables[1], NEW alpha \in DOMAIN tables[1][path],
             NEW unit \in DOMAIN tables
      PROVE  tables[unit][path][alpha] \in Metrics
  <2>1. path \in DOMAIN tables[unit] /\ alpha \in DOMAIN tables[unit][path]
    BY TablesAssumption
  <2>2. tables[unit][path] \in Seq(Metrics)
    BY <1>3, <2>1
  <2>. QED  BY <2>1, <2>2
<1>5. \A path \in DOMAIN tables[1] : Len(tables[1][path]) <= Alphas
  BY <1>2, TablesAssumption
<1>. QED  BY <1>2, <1>3, <1>4, <1>5

\* A point sums the trials of its alpha up; it is feasible only if they pass.
LEMMA PointIs ==
  ASSUME NEW tables \in Tables, NEW bar \in Metrics,
         NEW path \in DOMAIN tables[1], NEW alpha \in DOMAIN tables[1][path]
  PROVE  LET p == Point(path, alpha, At(tables, path, alpha), bar)
         IN  /\ p \in PathPoints /\ p.path = path /\ p.alpha = alpha
             /\ p.feasible => Summarize(At(tables, path, alpha), bar).decision = "PASS"
<1>. DEFINE trials == At(tables, path, alpha)
            n == Len(tables)
<1>1. n \in Nat \ {0} /\ DOMAIN trials = 1..n /\ \A unit \in 1..n : trials[unit] \in Metrics
  BY TableIs DEF At
<1>2. bar.gain \in Int /\ bar.gap \in Int /\ bar.speed \in Int
  BY DEF Metrics
<1>3. path \in Int /\ alpha \in Int
  <2>1. tables[1] \in Seq(Seq(Metrics)) /\ tables[1][path] \in Seq(Metrics)
    BY TableIs
  <2>. QED  BY <2>1
<1>. HIDE DEF trials, n
<1>4. \A unit \in 1..n : /\ trials[unit].gain \in Int /\ trials[unit].gap \in Int
                         /\ trials[unit].speed \in Int
  BY <1>1 DEF Metrics
<1>. DEFINE gains == [unit \in 1..n |-> trials[unit].gain]
            speeds == [unit \in 1..n |-> trials[unit].speed]
            gaps == [unit \in 1..n |-> trials[unit].gap]
            three(unit) == [k \in 1..3 |-> IF k = 1 THEN gains[unit] - bar.gain
                                           ELSE IF k = 2 THEN speeds[unit] - bar.speed
                                           ELSE bar.gap - gaps[unit]]
            margins == [unit \in 1..n |-> Min({three(unit)[k] : k \in 1..3})]
<1>5. \A unit \in 1..n : /\ gains[unit] = trials[unit].gain /\ gains[unit] \in Int
                         /\ speeds[unit] = trials[unit].speed /\ speeds[unit] \in Int
                         /\ gaps[unit] = trials[unit].gap /\ gaps[unit] \in Int
  BY <1>4
<1>6. /\ Least(trials, "gain") = Min({gains[unit] : unit \in 1..n})
      /\ Least(trials, "speed") = Min({speeds[unit] : unit \in 1..n})
      /\ Greatest(trials, "gap") = Max({gaps[unit] : unit \in 1..n})
  BY <1>1 DEF Least, Greatest
<1>. HIDE DEF gains, speeds, gaps
<1>7. ASSUME NEW unit \in 1..n
      PROVE  /\ margins[unit] \in Int
             /\ margins[unit] <= gains[unit] - bar.gain
             /\ margins[unit] <= speeds[unit] - bar.speed
             /\ margins[unit] <= bar.gap - gaps[unit]
             /\ margins[unit] = Min({gains[unit] - bar.gain, speeds[unit] - bar.speed,
                                     bar.gap - gaps[unit]})
  <2>. DEFINE t == three(unit)
  <2>1. /\ t[1] = gains[unit] - bar.gain /\ t[2] = speeds[unit] - bar.speed
        /\ t[3] = bar.gap - gaps[unit]
        /\ \A k \in 1..3 : t[k] \in Int
    BY <1>2, <1>5
  <2>. HIDE DEF t
  <2>2. /\ Min({t[k] : k \in 1..3}) \in Int
        /\ \A j \in 1..3 : Min({t[k] : k \in 1..3}) <= t[j]
    <3>1. 3 \in Nat \ {0} /\ \A k \in 1..3 : t[k] \in Int
      BY <2>1
    <3>. QED  BY <3>1, ExtremesOf
  <2>3. {t[k] : k \in 1..3} = {t[1], t[2], t[3]}
    OBVIOUS
  <2>4. margins[unit] = Min({t[k] : k \in 1..3})
    BY DEF t
  <2>5. 1 \in 1..3 /\ 2 \in 1..3 /\ 3 \in 1..3
    OBVIOUS
  <2>. HIDE DEF margins
  <2>. QED  BY <2>1, <2>2, <2>3, <2>4, <2>5
<1>8. {margins[unit] : unit \in 1..n} =
        {Min({trials[i].gain - bar.gain, trials[i].speed - bar.speed, bar.gap - trials[i].gap}) :
           i \in DOMAIN trials}
  <2>1. \A i \in 1..n :
          margins[i] = Min({trials[i].gain - bar.gain, trials[i].speed - bar.speed,
                            bar.gap - trials[i].gap})
    <3>. HIDE DEF margins, three
    <3>. QED  BY <1>5, <1>7
  <2>. HIDE DEF margins, three
  <2>. QED  BY <1>1, <2>1
<1>. HIDE DEF margins, three
<1>9. /\ Min({margins[unit] : unit \in 1..n}) \in Int
      /\ \A u \in 1..n : Min({margins[unit] : unit \in 1..n}) <= margins[u]
  <2>1. n \in Nat \ {0} /\ \A i \in 1..n : margins[i] \in Int
    BY <1>1, <1>7
  <2>. QED  BY <2>1, ExtremesOf
<1>10. /\ Min({gains[unit] : unit \in 1..n}) \in {gains[unit] : unit \in 1..n}
       /\ Min({gains[unit] : unit \in 1..n}) \in Int
  <2>1. n \in Nat \ {0} /\ \A i \in 1..n : gains[i] \in Int
    BY <1>1, <1>5
  <2>. QED  BY <2>1, ExtremesOf
<1>11. /\ Min({speeds[unit] : unit \in 1..n}) \in {speeds[unit] : unit \in 1..n}
       /\ Min({speeds[unit] : unit \in 1..n}) \in Int
  <2>1. n \in Nat \ {0} /\ \A i \in 1..n : speeds[i] \in Int
    BY <1>1, <1>5
  <2>. QED  BY <2>1, ExtremesOf
<1>12. /\ Max({gaps[unit] : unit \in 1..n}) \in {gaps[unit] : unit \in 1..n}
       /\ Max({gaps[unit] : unit \in 1..n}) \in Int
  <2>1. n \in Nat \ {0} /\ \A i \in 1..n : gaps[i] \in Int
    BY <1>1, <1>5
  <2>. QED  BY <2>1, ExtremesOf
<1>. DEFINE least == Min({margins[unit] : unit \in 1..n})
            p == Point(path, alpha, trials, bar)
<1>13. /\ p = [path |-> path, alpha |-> alpha, feasible |-> least >= 0, margin |-> least,
              speed |-> Least(trials, "speed"), gap |-> Greatest(trials, "gap")]
  BY <1>8 DEF Point
<1>14. p \in PathPoints /\ p.path = path /\ p.alpha = alpha /\ p.feasible = (least >= 0)
  <2>. HIDE DEF p, least
  <2>1. least \in Int /\ (least >= 0) \in BOOLEAN
    BY <1>9 DEF least
  <2>. QED  BY <1>3, <1>6, <1>11, <1>12, <1>13, <2>1 DEF PathPoints
<1>15. ASSUME least >= 0 PROVE Summarize(trials, bar).decision = "PASS"
  <2>1. ASSUME NEW unit \in 1..n
        PROVE  gains[unit] >= bar.gain /\ speeds[unit] >= bar.speed /\ gaps[unit] <= bar.gap
    <3>1. least \in Int /\ least <= margins[unit]
      BY <1>9
    <3>2. /\ margins[unit] \in Int /\ margins[unit] <= gains[unit] - bar.gain
          /\ margins[unit] <= speeds[unit] - bar.speed /\ margins[unit] <= bar.gap - gaps[unit]
      BY <1>7
    <3>3. gains[unit] \in Int /\ speeds[unit] \in Int /\ gaps[unit] \in Int
      BY <1>5
    <3>. HIDE DEF least
    <3>. QED  BY <1>2, <1>15, <3>1, <3>2, <3>3
  <2>2. /\ Least(trials, "gain") >= bar.gain /\ Least(trials, "speed") >= bar.speed
        /\ Greatest(trials, "gap") <= bar.gap
    BY <1>6, <1>10, <1>11, <1>12, <2>1
  <2>. QED  BY <2>2 DEF Summarize
<1>. HIDE DEF p, least
<1>. QED  BY <1>14, <1>15 DEF p, trials

\* The points of the tables, and what it takes to be a feasible one.
LEMMA PointsAre ==
  ASSUME NEW tables \in Tables, NEW bar \in Metrics
  PROVE  /\ Points(tables, bar) \in Seq(Seq(PathPoints))
         /\ \A path \in DOMAIN Points(tables, bar) :
              \A alpha \in DOMAIN Points(tables, bar)[path] :
                LET p == Points(tables, bar)[path][alpha]
                IN  /\ p.path = path /\ p.alpha = alpha
                    /\ p.feasible => Summarize(At(tables, path, alpha), bar).decision = "PASS"
         /\ \A path \in DOMAIN Points(tables, bar) : Len(Points(tables, bar)[path]) <= Alphas
<1>. DEFINE first == tables[1]
            points == Points(tables, bar)
            row(path) == [alpha \in DOMAIN first[path] |->
                            Point(path, alpha, At(tables, path, alpha), bar)]
<1>1. first \in Seq(Seq(Metrics)) /\ \A path \in DOMAIN first : Len(first[path]) <= Alphas
  BY TableIs
<1>2. points = [path \in DOMAIN first |-> row(path)]
  BY DEF Points, At
<1>3. \A path \in DOMAIN first : \A alpha \in DOMAIN first[path] :
        LET p == Point(path, alpha, At(tables, path, alpha), bar)
        IN  /\ p \in PathPoints /\ p.path = path /\ p.alpha = alpha
            /\ p.feasible => Summarize(At(tables, path, alpha), bar).decision = "PASS"
  BY PointIs
<1>. HIDE DEF first, points
<1>4. ASSUME NEW path \in DOMAIN first
      PROVE  row(path) \in Seq(PathPoints) /\ Len(row(path)) = Len(first[path])
  <2>1. first[path] \in Seq(Metrics)
    BY <1>1
  <2>2. DOMAIN first[path] = 1..Len(first[path]) /\ Len(first[path]) \in Nat
    BY <2>1
  <2>3. row(path) \in [1..Len(first[path]) -> PathPoints]
    BY <1>3, <2>2
  <2>. HIDE DEF row
  <2>. QED  BY <2>2, <2>3
<1>5. DOMAIN first = 1..Len(first) /\ Len(first) \in Nat
  BY <1>1
<1>6. points \in [1..Len(first) -> Seq(PathPoints)]
  <2>. HIDE DEF row
  <2>. QED  BY <1>2, <1>4, <1>5
<1>7. points \in Seq(Seq(PathPoints)) /\ DOMAIN points = DOMAIN first
  BY <1>5, <1>6
<1>8. \A path \in DOMAIN first : points[path] = row(path)
  <2>. HIDE DEF row
  <2>. QED  BY <1>2
<1>9. ASSUME NEW path \in DOMAIN first
      PROVE  /\ Len(points[path]) <= Alphas
             /\ \A alpha \in DOMAIN points[path] :
                  points[path][alpha] = Point(path, alpha, At(tables, path, alpha), bar)
                  /\ alpha \in DOMAIN first[path]
  BY <1>1, <1>4, <1>8
<1>. HIDE DEF row
<1>10. ASSUME NEW path \in DOMAIN first, NEW alpha \in DOMAIN points[path]
       PROVE  LET p == points[path][alpha]
              IN  /\ p.path = path /\ p.alpha = alpha
                  /\ p.feasible => Summarize(At(tables, path, alpha), bar).decision = "PASS"
  BY <1>3, <1>9
<1>. QED  BY <1>7, <1>9, <1>10 DEF points

\* The runs of the property are the intervals of the scan.
LEMMA RunsAreIntervals ==
  ASSUME NEW points \in Seq(Seq(PathPoints)),
         \A path \in DOMAIN points : Len(points[path]) <= Alphas
  PROVE  \A path, lo, hi :
           <<path, lo, hi>> \in Runs(points) <=> IsInterval(points, Width, path, lo, hi)
<1>. SUFFICES ASSUME NEW path, NEW lo, NEW hi
              PROVE  <<path, lo, hi>> \in Runs(points) <=> IsInterval(points, Width, path, lo, hi)
  OBVIOUS
<1>1. <<path, lo, hi>> \in Runs(points) <=>
        /\ path \in DOMAIN points /\ lo \in 1..Alphas /\ hi \in 1..Alphas
        /\ hi \in DOMAIN points[path] /\ hi - lo >= Width - 1 /\ IsRun(points[path], lo, hi)
  BY DEF Runs
<1>2. ASSUME path \in DOMAIN points
      PROVE  /\ points[path] \in Seq(PathPoints) /\ Len(points[path]) \in Nat
             /\ DOMAIN points[path] = 1..Len(points[path]) /\ Len(points[path]) <= Alphas
  BY <1>2
<1>3. Width \in Nat \ {0} /\ Alphas \in Nat
  BY WidthAssumption
<1>4. ASSUME path \in DOMAIN points, lo \in Int, hi \in DOMAIN points[path]
      PROVE  /\ hi - lo >= Width - 1 <=> Width <= hi - lo + 1
             /\ hi \in 1..Len(points[path]) /\ hi \in 1..Alphas
             /\ Width <= hi - lo + 1 /\ lo >= 1 => lo \in 1..Len(points[path]) /\ lo \in 1..Alphas
  BY <1>2, <1>3, <1>4
<1>5. ASSUME <<path, lo, hi>> \in Runs(points) PROVE IsInterval(points, Width, path, lo, hi)
  <2>1. /\ path \in DOMAIN points /\ lo \in Int /\ lo >= 1 /\ hi \in DOMAIN points[path]
        /\ hi - lo >= Width - 1 /\ IsRun(points[path], lo, hi)
    BY <1>1, <1>3, <1>5
  <2>. QED  BY <1>4, <2>1 DEF IsInterval, Wide
<1>6. ASSUME IsInterval(points, Width, path, lo, hi) PROVE <<path, lo, hi>> \in Runs(points)
  <2>1. /\ path \in DOMAIN points /\ lo \in Int /\ lo >= 1 /\ hi \in DOMAIN points[path]
        /\ Width <= hi - lo + 1 /\ IsRun(points[path], lo, hi)
    BY <1>2, <1>6 DEF IsInterval, Wide
  <2>. QED  BY <1>1, <1>4, <2>1
<1>. QED  BY <1>5, <1>6

\* What is selected passes and comes first; nothing is only where no run is.
LEMMA AlwaysRobust ==
  ASSUME NEW tables \in Tables, NEW bar \in Metrics
  PROVE  IsRobust(tables, bar)
<1>. DEFINE points == Points(tables, bar)
            chosen == SelectRobustPoint(points, Width)
            Key(r) == IntervalKey(SubSeq(points[r[1]], r[2], r[3]))
<1>1. points \in Seq(Seq(PathPoints)) /\ \A path \in DOMAIN points : Len(points[path]) <= Alphas
  BY PointsAre
<1>2. \A path \in DOMAIN points : \A alpha \in DOMAIN points[path] :
        LET p == points[path][alpha]
        IN  /\ p.path = path /\ p.alpha = alpha
            /\ p.feasible => Summarize(At(tables, path, alpha), bar).decision = "PASS"
  BY PointsAre
<1>. HIDE DEF points
<1>3. \A path, lo, hi :
        <<path, lo, hi>> \in Runs(points) <=> IsInterval(points, Width, path, lo, hi)
  BY <1>1, RunsAreIntervals
<1>4. \A r \in Runs(points) : r = <<r[1], r[2], r[3]>>
  BY DEF Runs
<1>5. Width \in Nat \ {0}
  BY WidthAssumption
<1>6. CASE /\ chosen = NoCandidate
           /\ \A path, lo, hi : ~ IsInterval(points, Width, path, lo, hi)
  <2>1. Runs(points) = {}
    BY <1>3, <1>4, <1>6
  <2>. QED  BY <1>6, <2>1 DEF IsRobust, points
<1>7. CASE \E path, lo, hi :
              /\ IsInterval(points, Width, path, lo, hi)
              /\ (lo + hi) \div 2 \in lo..hi
              /\ chosen = Config(points[path][(lo + hi) \div 2])
              /\ \A other, first, last : IsInterval(points, Width, other, first, last) =>
                   ~ Before(IntervalKey(SubSeq(points[other], first, last)),
                            IntervalKey(SubSeq(points[path], lo, hi)))
  <2>1. PICK path, lo, hi :
              /\ IsInterval(points, Width, path, lo, hi)
              /\ (lo + hi) \div 2 \in lo..hi
              /\ chosen = Config(points[path][(lo + hi) \div 2])
              /\ \A other, first, last : IsInterval(points, Width, other, first, last) =>
                   ~ Before(IntervalKey(SubSeq(points[other], first, last)),
                            IntervalKey(SubSeq(points[path], lo, hi)))
    BY <1>7
  <2>. DEFINE chosenRun == <<path, lo, hi>>
              middle == (lo + hi) \div 2
  <2>2. /\ path \in DOMAIN points /\ lo \in 1..Len(points[path]) /\ hi \in 1..Len(points[path])
        /\ IsRun(points[path], lo, hi) /\ points[path] \in Seq(PathPoints)
    BY <1>1, <2>1 DEF IsInterval, Wide
  <2>3. middle \in DOMAIN points[path] /\ points[path][middle].feasible
    <3>1. middle \in lo..hi
      BY <2>1
    <3>. HIDE DEF middle
    <3>2. middle \in 1..Len(points[path])
      BY <2>2, <3>1
    <3>. QED  BY <2>2, <3>1, <3>2 DEF IsRun
  <2>4. /\ chosen = [path |-> path, alpha |-> middle]
        /\ Summarize(At(tables, path, middle), bar).decision = "PASS"
    <3>1. chosen = Config(points[path][middle])
      BY <2>1
    <3>. HIDE DEF middle, chosen
    <3>. QED  BY <1>2, <2>2, <2>3, <3>1 DEF Config
  <2>5. chosenRun \in Runs(points)
    BY <1>3, <2>1
  <2>6. ASSUME NEW r \in Runs(points) PROVE ~ Before(Key(r), Key(chosenRun))
    <3>1. IsInterval(points, Width, r[1], r[2], r[3])
      BY <1>3, <1>4
    <3>. QED  BY <2>1, <3>1
  <2>7. Summarize([u \in DOMAIN tables |-> tables[u][chosen.path][chosen.alpha]], bar).decision
          = "PASS"
    <3>. HIDE DEF middle, chosen
    <3>. QED  BY <2>4 DEF At
  <2>8. chosen = [path |-> chosenRun[1], alpha |-> (chosenRun[2] + chosenRun[3]) \div 2]
    BY <2>4
  <2>. HIDE DEF chosenRun, middle, chosen, Key
  <2>9. /\ Runs(points) # {}
        /\ \E b \in Runs(points) : /\ chosen = [path |-> b[1], alpha |-> (b[2] + b[3]) \div 2]
                                   /\ \A r \in Runs(points) : ~ Before(Key(r), Key(b))
    BY <2>5, <2>6, <2>8
  <2>. QED  BY <2>7, <2>9 DEF IsRobust, points, chosen, Key
<1>. QED  BY <1>1, <1>5, <1>6, <1>7, SelectedIs

\* For every development, bar and width, the one pass selects what the protocol's
\* selection order says, and what it selects passes the gates.
THEOREM SelectionIsAlwaysRobust == TofuSpec => []SelectionIsRobust
<1>1. \A v \in DOMAIN Protocols : Protocols[v].bar \in Metrics
  BY TablesAssumption
<1>2. SelectionIsRobust
  BY <1>1, AlwaysRobust DEF SelectionIsRobust
<1>. QED  BY <1>2, PTL

=============================================================================
