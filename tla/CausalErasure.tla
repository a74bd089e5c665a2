---------------------------- MODULE CausalErasure ----------------------------
(***************************************************************************)
(* A deletion request from its graph to its effect: the graph is turned    *)
(* into a problem, CausalDeletionCut or GreedyDeletionCut plans, the       *)
(* actions of the plan are carried out one by one, and all the while the   *)
(* subject's data flows in the real system.                                *)
(*                                                                         *)
(* The executor and the flow are the environment: the graph says what they *)
(* can do.  Where it says UNKNOWN, either may be the case, and a           *)
(* transition that was not verified may or may not have had its effect.    *)
(*                                                                         *)
(* Problems that stem from no request have evaluations that no graph       *)
(* gives; with them the exact cut is run alone.                            *)
(***************************************************************************)
EXTENDS CausalDeletionCut, SequencesExt

CONSTANTS
  Nodes, Edges, Channels, Names, NameOf,  \* those of CausalGraph
  Requests

ASSUME ChannelsAssumption == NameOf \in [Channels -> Names]
ASSUME GraphsAssumption ==
  IsFiniteSet(Nodes) /\ IsFiniteSet(Edges) /\ IsFiniteSet(Channels) /\ IsFiniteSet(Names)

INSTANCE CausalGraph

ASSUME RequestsAssumption == Requests \subseteq Request

VARIABLES
  request,  \* the request planned for, if the problem stems from one
  planner,  \* who plans, "exact" or "greedy"
  phase, chosen, remaining, complete,          \* the greedy one
  real,    \* which nodes and edges really are open
  todo,    \* the actions of the plan still to do, a singleton once planned
  at,      \* where the data is, {} once it is deleted
  origin   \* where the data was when the last action was done

ProblemOf(r) ==
  LET reports == Reports(r)
  IN  [ limit |-> r.limit,
        permitted |-> r.permitted,
        cost |-> r.cost,
        total |-> [S \in SUBSET Actions |-> MapThenSumSet(LAMBDA a : r.cost[a], S)],
        verdict |-> [S \in SUBSET Actions |-> reports[S].verdict],
        violations |-> [S \in SUBSET Actions |-> reports[S].violations] ]

Greedy == INSTANCE GreedyDeletionCut

NoRequest == [permitted |-> {}]

exactVars == <<pc, stack, best, partial, outcome>>
greedyVars == <<phase, chosen, remaining, complete>>
cutVars == <<planner, problem, exactVars, greedyVars>>
erasureVars == <<request, cutVars, real, todo, at, origin>>

-----------------------------------------------------------------------------
\* What UNKNOWN can turn out to be.
Outcomes(state) == IF state = "UNKNOWN" THEN {"ACTIVE", "CLOSED"} ELSE {state}

Resolutions(graph) ==
  { r \in [node : [Nodes -> {"ACTIVE", "CLOSED"}],
           edge : [Edges -> {"ACTIVE", "CLOSED"}]] :
      /\ \A n \in Nodes : r.node[n] \in Outcomes(graph.node[n])
      /\ \A e \in Edges : r.edge[e] \in Outcomes(graph.edge[e]) }

\* Where data may be to start with, in the real system r.
Holders(r, protocol) ==
  { n \in protocol.own \union protocol.sources : r.node[n] = "ACTIVE" }

InitErasure ==
  /\ \/ /\ request \in Requests
        /\ planner \in {"exact", "greedy"}
        /\ problem = ProblemOf(request)
        /\ real \in Resolutions(request.graph)
        /\ \E n \in Holders(real, request.protocol) : at = {n}
     \/ /\ request = NoRequest
        /\ planner = "exact"
        /\ problem \in Problems
        /\ real = [node |-> <<>>, edge |-> [e \in Edges |-> "CLOSED"]]
        /\ at = {}
  /\ NotStarted
  /\ Greedy!NotStarted
  /\ todo = <<>>
  /\ origin = {}

PlanExactly ==
  /\ planner = "exact"
  /\ Next
  /\ UNCHANGED <<request, planner, greedyVars, real, todo, at, origin>>

PlanGreedily ==
  /\ planner = "greedy"
  /\ Greedy!Next
  /\ UNCHANGED <<request, planner, exactVars, real, todo, at, origin>>

\* The complete plan to carry out, a singleton sequence if there is one.
CompletePlan ==
  IF outcome.status = "OPTIMAL" THEN << outcome.plan.chosen >>
  ELSE IF complete THEN << chosen >> ELSE <<>>

Begin ==
  /\ request # NoRequest
  /\ todo = <<>>
  /\ CompletePlan # <<>>
  /\ todo' = CompletePlan
  /\ origin' = IF CompletePlan = << {} >> THEN at ELSE origin
  /\ UNCHANGED <<request, cutVars, real, at>>

\* What an action does: results that were verified are real, others need not be.
Effects(action) ==
  { r \in [node : [Nodes -> {"ACTIVE", "CLOSED"}],
           edge : [Edges -> {"ACTIVE", "CLOSED"}]] :
      /\ \A n \in Nodes :
           IF n \in DOMAIN action.nodes
           THEN IF action.nodes[n].verified
                THEN r.node[n] \in Outcomes(action.nodes[n].state)
                ELSE TRUE
           ELSE r.node[n] = real.node[n]
      /\ \A e \in Edges :
           IF e \in DOMAIN action.edges
           THEN IF action.edges[e].verified
                THEN r.edge[e] \in Outcomes(action.edges[e].state)
                ELSE TRUE
           ELSE r.edge[e] = real.edge[e] }

\* Closing a node deletes what it holds.
Execute(a) ==
  /\ todo # <<>> /\ a \in todo[1]
  /\ \A b \in todo[1] : a <= b
  /\ real' \in Effects(request.action[a])
  /\ at' = { n \in at : real'.node[n] = "ACTIVE" }
  /\ todo' = << todo[1] \ {a} >>
  /\ origin' = IF todo[1] = {a} THEN at' ELSE origin
  /\ UNCHANGED <<request, cutVars>>

Flow(e) ==
  /\ real.edge[e] = "ACTIVE"
  /\ request.protocol.source[e] \in at
  /\ real.node[request.protocol.target[e]] = "ACTIVE"
  /\ at' = {request.protocol.target[e]}
  /\ UNCHANGED <<request, cutVars, real, todo, origin>>

NextErasure ==
  \/ PlanExactly \/ PlanGreedily
  \/ Begin
  \/ \E a \in Actions : Execute(a)
  \/ \E e \in Edges : Flow(e)

\* Planning is a function call: it runs to its end.
SpecErasure ==
  InitErasure /\ [][NextErasure]_erasureVars
  /\ WF_erasureVars(PlanExactly \/ PlanGreedily)

-----------------------------------------------------------------------------
Done == todo = << {} >>

\* A complete plan that was carried out holds: from then on data that was in a
\* node of the subject or in a source never gets to a sink, whatever UNKNOWN
\* and unverified things turned out to be and whatever flowed meanwhile.
ErasedDataStaysOut ==
  Done /\ origin \subseteq request.protocol.own \union request.protocol.sources
    => at \intersect request.protocol.sinks = {}

\* The nodes data can get to in the real system r within k steps.
Spread(r, protocol) ==
  LET spread[k \in 0..Cardinality(Nodes)] ==
        IF k = 0
        THEN { n \in RequestStarts(r, protocol) : r.node[n] = "ACTIVE" }
        ELSE spread[k - 1] \union
             { protocol.target[e] :
                 e \in { d \in Edges : /\ r.edge[d] = "ACTIVE"
                                       /\ protocol.source[d] \in spread[k - 1]
                                       /\ r.node[protocol.target[d]] = "ACTIVE" } }
  IN  spread[Cardinality(Nodes)]

ChannelsPass(graph, protocol) ==
  LET counted == { c \in DOMAIN graph.channel : graph.channel[c].mandatory }
  IN  /\ counted # {}
      /\ protocol.mandatory \subseteq { NameOf[c] : c \in counted }
      /\ \A c \in counted : graph.channel[c].decision = "PASS"

\* The cut refuses only with a reason: after every permitted set of actions
\* either the channels do not pass, or the system may be such that data still
\* gets to a sink.
RefusalHasAReason ==
  outcome.status = "INFEASIBLE" /\ request # NoRequest =>
    \A S \in SUBSET request.permitted :
      LET graph == After(request.graph, request.action, S)
      IN  \/ ~ ChannelsPass(graph, request.protocol)
          \/ \E r \in Resolutions(graph) :
               Spread(r, request.protocol) \intersect request.protocol.sinks # {}

\* Edges that keep one thing open together: they lead from one node to another,
\* or they make one node a start that is neither the subject's nor a source.
Siblings(protocol, d, e) ==
  /\ protocol.source[d] = protocol.source[e]
  /\ \/ protocol.target[d] = protocol.target[e]
     \/ /\ d \in protocol.scoped /\ e \in protocol.scoped
        /\ protocol.source[e] \notin protocol.own \union protocol.sources

\* Every permitted action only closes things, with evidence, and siblings
\* together; a channel it reports is mandatory and passes.
ClosesOnly ==
  \A a \in request.permitted :
    LET action == request.action[a]
    IN  /\ \A n \in DOMAIN action.nodes : Settled(action.nodes[n]) = "CLOSED"
        /\ \A e \in DOMAIN action.edges : Settled(action.edges[e]) = "CLOSED"
        /\ \A e \in DOMAIN action.edges, d \in Edges :
             Siblings(request.protocol, d, e) /\ request.graph.edge[d] # "CLOSED"
               => d \in DOMAIN action.edges
        /\ \A c \in DOMAIN action.channels :
             action.channels[c].decision = "PASS" /\ action.channels[c].mandatory
        /\ ~ action.unknownTarget

\* Greedy search is approximate in cost only: when actions only close, it finds
\* a complete plan whenever there is one, for then each of its stops would
\* leave a violation that some remaining action removes.  Were siblings closed
\* by different actions, each alone would remove nothing and the search would
\* stop.  A channel that is required by name is what makes the absence of
\* channels a violation.
GreedyFindsACut ==
  /\ phase = "returned" /\ ~ complete
  /\ ClosesOnly /\ request.protocol.mandatory # {}
  => \A S \in SUBSET request.permitted : problem.verdict[S] # "COMPLETE"
=============================================================================
