----------------------------- MODULE ErasurePlans -----------------------------
(***************************************************************************)
(* The planners of a deletion: a request planned over the causal graph and *)
(* carried out (CausalErasure), or a cover of audited artifacts            *)
(* (ArtifactPlanning).  They share no state; one of them is called.        *)
(***************************************************************************)
EXTENDS CausalErasure, ArtifactPlanning

NoTask == [required |-> {}]

Idle ==
  /\ request = NoRequest /\ planner = "exact"
  /\ problem = CHOOSE p \in Problems : TRUE
  /\ real = [node |-> <<>>, edge |-> [e \in Edges |-> "CLOSED"]]
  /\ at = {} /\ todo = <<>> /\ origin = {}
  /\ NotStarted /\ Greedy!NotStarted

PlansInit ==
  \/ /\ InitErasure
     /\ task = NoTask /\ solver = "none"
     /\ calls = <<>> /\ cheapest = <<>> /\ closest = {}
     /\ picked = {} /\ plan = NotReturned
  \/ Idle /\ CoverInit

PlansNext ==
  \/ task = NoTask /\ NextErasure /\ UNCHANGED coverVars
  \/ task # NoTask /\ CoverNext /\ UNCHANGED erasureVars

PlansSpec ==
  PlansInit /\ [][PlansNext]_<<erasureVars, coverVars>>
  /\ WF_<<erasureVars, coverVars>>(task = NoTask /\ (PlanExactly \/ PlanGreedily)
                                   /\ UNCHANGED coverVars)

\* Every exact planner answers like brute force: exact_cdc with the first plan,
\* exact_plan with one as cheap as any; greedy_plan is as complete.
PlansAreBest == CutIsBruteForce /\ CoverIsBest
=============================================================================
