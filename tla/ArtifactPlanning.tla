--------------------------- MODULE ArtifactPlanning ---------------------------
(***************************************************************************)
(* planning.py: the cheapest permitted actions that cover the artifacts    *)
(* whose erasure an audit found no valid evidence for (the plan command),  *)
(* by branch and bound or greedily.  The recursion search(index, chosen,   *)
(* covered, cost) is a stack of pending calls.                             *)
(*                                                                         *)
(* Actions are numbered by the rank of their ids; a plan is its actions.   *)
(***************************************************************************)
EXTENDS Integers, FiniteSetsExt, Sequences

CONSTANTS
  Artifacts,
  Remediations,  \* action ranks
  MaxExact,      \* the 30 permitted actions exact_plan supports
  Tasks          \* what the planners may be called with

Task ==
  [required : SUBSET Artifacts, permitted : SUBSET Remediations,
   covers : [Remediations -> (SUBSET Artifacts) \ {{}}], cost : [Remediations -> Nat]]

ASSUME TasksAssumption ==
  /\ Remediations \subseteq Nat /\ IsFiniteSet(Remediations) /\ IsFiniteSet(Artifacts)
  /\ Tasks \subseteq Task /\ MaxExact \in Nat

VARIABLES task,
          solver,    \* "exact" or "greedy"
          calls,     \* pending calls of search, a singleton sequence of them
          cheapest,  \* best_complete, <<>> or a singleton
          closest,   \* best_partial
          picked,    \* what the greedy planner has chosen
          plan       \* the plan returned, once the status is not "none"

coverVars == <<task, solver, calls, cheapest, closest, picked, plan>>

CoveredBy(chosen) == task.required \intersect UNION { task.covers[a] : a \in chosen }
CostOf(chosen) == MapThenSumSet(LAMBDA a : task.cost[a], chosen)
IsComplete(chosen) == CoveredBy(chosen) = task.required

\* Sorted id tuples of one length compare at the least id not in both.
IdsLess(S, T) == \E a \in S \ T : \A b \in T \ S : a < b

CompleteKeyLess(S, T) ==
  \/ CostOf(S) < CostOf(T)
  \/ CostOf(S) = CostOf(T) /\ Cardinality(S) < Cardinality(T)
  \/ CostOf(S) = CostOf(T) /\ Cardinality(S) = Cardinality(T) /\ IdsLess(S, T)

PartialKeyLess(S, T) ==
  \/ Cardinality(CoveredBy(S)) > Cardinality(CoveredBy(T))
  \/ Cardinality(CoveredBy(S)) = Cardinality(CoveredBy(T)) /\ CompleteKeyLess(S, T)

NotReturned == [status |-> "none", chosen |-> {}]
Returned(chosen) == [status |-> "returned", chosen |-> chosen]

CoverInit ==
  /\ task \in Tasks
  /\ solver \in {"exact", "greedy"}
  /\ calls = <<>> /\ cheapest = <<>> /\ closest = {}
  /\ picked = {} /\ plan = NotReturned

-----------------------------------------------------------------------------
(* exact_plan.                                                             *)

Planning(who) == plan = NotReturned /\ solver = who

\* Too many actions raise, even when nothing is required.
ReturnAtOnce ==
  /\ Planning("exact") /\ calls = <<>>
  /\ \/ /\ Cardinality(task.permitted) > MaxExact
        /\ plan' = [status |-> "raised", chosen |-> {}]
     \/ /\ Cardinality(task.permitted) <= MaxExact
        /\ task.required = {}
        /\ plan' = Returned({})
  /\ UNCHANGED <<task, solver, calls, cheapest, closest, picked>>

StartCover ==
  /\ Planning("exact") /\ calls = <<>>
  /\ Cardinality(task.permitted) <= MaxExact /\ task.required # {}
  /\ calls' = << << [chosen |-> {}, left |-> task.permitted] >> >>
  /\ UNCHANGED <<task, solver, cheapest, closest, picked, plan>>

InCall == Planning("exact") /\ calls # <<>> /\ calls[1] # <<>>
Call == Head(calls[1])

\* Every call first compares what it has with the best partial plan.
RememberClosest ==
  closest' = IF PartialKeyLess(Call.chosen, closest) THEN Call.chosen ELSE closest

AcceptCover ==
  /\ InCall /\ IsComplete(Call.chosen)
  /\ RememberClosest
  /\ cheapest' = IF cheapest = <<>> \/ CompleteKeyLess(Call.chosen, cheapest[1])
                 THEN << Call.chosen >> ELSE cheapest
  /\ calls' = << Tail(calls[1]) >>
  /\ UNCHANGED <<task, solver, picked, plan>>

\* A mutant: the suffix begins behind the next action.
SuffixTooShort ==
  cheapest # <<>> /\ (\/ CostOf(Call.chosen) >= CostOf(cheapest[1])
                      \/ ~ IsComplete(Call.chosen \union { b \in Call.left : \E a \in Call.left : a < b }))

\* No cheaper plan can be below: neither by cost nor by what is left to choose.
CutOff ==
  cheapest # <<>> /\ (\/ CostOf(Call.chosen) >= CostOf(cheapest[1])
                      \/ ~ IsComplete(Call.chosen \union Call.left))

DropCall ==
  /\ InCall /\ ~ IsComplete(Call.chosen)
  /\ Call.left = {} \/ CutOff
  /\ RememberClosest
  /\ calls' = << Tail(calls[1]) >>
  /\ UNCHANGED <<task, solver, cheapest, picked, plan>>

BranchOn(a) ==
  /\ InCall /\ ~ IsComplete(Call.chosen)
  /\ Call.left # {} /\ ~ CutOff
  /\ a = Min(Call.left)
  /\ RememberClosest
  /\ calls' = << << [chosen |-> Call.chosen \union {a}, left |-> Call.left \ {a}],
                    [chosen |-> Call.chosen, left |-> Call.left \ {a}] >>
                 \o Tail(calls[1]) >>
  /\ UNCHANGED <<task, solver, cheapest, picked, plan>>

ReturnCover ==
  /\ Planning("exact") /\ calls = << <<>> >>
  /\ plan' = Returned(IF cheapest # <<>> THEN cheapest[1] ELSE closest)
  /\ UNCHANGED <<task, solver, calls, cheapest, closest, picked>>

-----------------------------------------------------------------------------
(* greedy_plan.                                                            *)

Gain(a) == Cardinality(task.covers[a] \intersect (task.required \ CoveredBy(picked)))

UsefulActions == { a \in task.permitted \ picked : Gain(a) > 0 }

\* The least cost per artifact newly covered, then the least id.
CheaperPerArtifact(a, b) ==
  \/ task.cost[a] * Gain(b) < task.cost[b] * Gain(a)
  \/ task.cost[a] * Gain(b) = task.cost[b] * Gain(a) /\ a < b

Pick(a) ==
  /\ Planning("greedy")
  /\ a \in UsefulActions
  /\ \A b \in UsefulActions \ {a} : CheaperPerArtifact(a, b)
  /\ picked' = picked \union {a}
  /\ UNCHANGED <<task, solver, calls, cheapest, closest, plan>>

ReturnGreedy ==
  /\ Planning("greedy")
  /\ UsefulActions = {}
  /\ plan' = Returned(picked)
  /\ UNCHANGED <<task, solver, calls, cheapest, closest, picked>>

CoverNext ==
  \/ ReturnAtOnce \/ StartCover \/ AcceptCover \/ DropCall
  \/ \E a \in Remediations : BranchOn(a) \/ Pick(a)
  \/ ReturnCover \/ ReturnGreedy

-----------------------------------------------------------------------------
Coverings == { S \in SUBSET task.permitted : IsComplete(S) }

\* 1 + 1/2 + ... + 1/n, times n!.
HarmonicTimes(factorial, n) ==
  LET part == [i \in 1..n |-> factorial \div i]
  IN  MapThenSumSet(LAMBDA i : part[i], 1..n)

Factorial[n \in Nat] == IF n = 0 THEN 1 ELSE n * Factorial[n - 1]

\* Both planners find a complete plan exactly if there is one.  The exact one is
\* as cheap as any, or covers as much as any at the least cost, although the
\* search is cut off at plans of equal cost; the greedy one covers all that can
\* be covered and is at most the harmonic factor of the artifacts dearer.
CoverIsBest ==
  plan.status = "returned" =>
    LET returned == plan.chosen
        n == Cardinality(task.required)
    IN  /\ returned \subseteq task.permitted
        /\ IsComplete(returned) <=> Coverings # {}
        /\ solver = "exact" /\ Coverings # {} =>
             \A S \in Coverings : CostOf(returned) <= CostOf(S)
        /\ solver = "exact" /\ Coverings = {} =>
             \A S \in SUBSET task.permitted : ~ PartialKeyLess(S, returned)
        /\ solver = "greedy" =>
             /\ CoveredBy(returned) = CoveredBy(task.permitted)
             /\ \A S \in Coverings :
                  CostOf(returned) * Factorial[n] <= CostOf(S) * HarmonicTimes(Factorial[n], n)
=============================================================================
