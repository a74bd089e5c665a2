----------------------------- MODULE CausalGraph -----------------------------
(***************************************************************************)
(* The personal-data graph of pcug_domain.py and its evaluation: how an    *)
(* action rewrites node, edge and channel states (_apply_action), which    *)
(* paths still carry the subject's data to a sink (_classified_paths), and *)
(* the verdict evaluate_actions gives (cdc.py, multiview_verifier.py).     *)
(*                                                                         *)
(* The recursive walk over outgoing edges is its result, the simple paths  *)
(* that end in a sink; numeric channel values are their PASS, FAIL or      *)
(* UNKNOWN decision; evidence ids and active_sink flags, which evaluation  *)
(* never reads, are left out.                                              *)
(***************************************************************************)
EXTENDS Integers, FiniteSets, SequencesExt

CONSTANTS
  Nodes, Edges,
  Channels,     \* channel keys, (name, stratum) in the code
  Names,        \* channel names
  NameOf,       \* the name of each channel key
  Actions       \* ranks of the action ids

States == {"ACTIVE", "CLOSED", "UNKNOWN"}
Decisions == {"PASS", "FAIL", "UNKNOWN"}
ChannelResult == [decision : Decisions, mandatory : BOOLEAN]

PartialFunctions(D, R) == UNION { [S -> R] : S \in SUBSET D }

Graph ==
  [node : [Nodes -> States], edge : [Edges -> States],
   channel : PartialFunctions(Channels, ChannelResult)]

Transition == [state : States, verified : BOOLEAN]

\* unknownTarget: a transition names a node or edge the graph does not have.
Action ==
  [nodes : PartialFunctions(Nodes, Transition),
   edges : PartialFunctions(Edges, Transition),
   channels : PartialFunctions(Channels, ChannelResult),
   unknownTarget : BOOLEAN]

\* Who is asking and about what: own and scoped are the nodes and the
\* request-scoped edges of the subject.
Protocol ==
  [source : [Edges -> Nodes], target : [Edges -> Nodes],
   own : SUBSET Nodes, scoped : SUBSET Edges,
   sources : SUBSET Nodes, sinks : SUBSET Nodes, mandatory : SUBSET Names]

-----------------------------------------------------------------------------
\* A mutant: the result is believed whether or not it was verified.
Believed(transition) == transition.state

\* What a transition leaves behind: its result only if that was verified.
Settled(transition) ==
  IF transition.verified THEN transition.state ELSE "UNKNOWN"

\* The dict old after an update by the dict new.
Overlay(new, old) ==
  [x \in DOMAIN new \union DOMAIN old |-> IF x \in DOMAIN new THEN new[x] ELSE old[x]]

ApplyAction(graph, action) ==
  [node |-> Overlay([n \in DOMAIN action.nodes |-> Settled(action.nodes[n])], graph.node),
   edge |-> Overlay([e \in DOMAIN action.edges |-> Settled(action.edges[e])], graph.edge),
   channel |-> Overlay(action.channels, graph.channel)]

RequestStarts(graph, protocol) ==
  { n \in protocol.own : graph.node[n] # "CLOSED" }
  \union protocol.sources
  \union { protocol.source[e] :
             e \in { d \in protocol.scoped : graph.edge[d] # "CLOSED" } }

\* The edges a walk may take from m to n.
Steps(graph, protocol, m, n) ==
  { e \in Edges : /\ protocol.source[e] = m
                  /\ protocol.target[e] = n
                  /\ graph.edge[e] # "CLOSED" }

SimplePaths ==
  UNION { { p \in [1..k -> Nodes] : IsInjective(p) } : k \in 1..Cardinality(Nodes) }

SinkPaths(graph, protocol) ==
  { p \in SimplePaths :
      /\ p[1] \in RequestStarts(graph, protocol)
      /\ Last(p) \in protocol.sinks
      /\ \A i \in DOMAIN p : graph.node[p[i]] # "CLOSED"
      /\ \A i \in 1..(Len(p) - 1) :
           Steps(graph, protocol, p[i], p[i + 1]) # {} }

\* Parallel edges can make one node path both active and unknown.
ActivePaths(graph, protocol) ==
  { p \in SinkPaths(graph, protocol) :
      /\ \A i \in DOMAIN p : graph.node[p[i]] = "ACTIVE"
      /\ \A i \in 1..(Len(p) - 1) :
           \E e \in Steps(graph, protocol, p[i], p[i + 1]) :
             graph.edge[e] = "ACTIVE" }

UnknownPaths(graph, protocol) ==
  { p \in SinkPaths(graph, protocol) :
      \/ \E i \in DOMAIN p : graph.node[p[i]] = "UNKNOWN"
      \/ \E i \in 1..(Len(p) - 1) :
           \E e \in Steps(graph, protocol, p[i], p[i + 1]) :
             graph.edge[e] = "UNKNOWN" }

-----------------------------------------------------------------------------
(* compose_channels: only mandatory channels count.                        *)

\* A mutant: optional channels count too.
EveryChannel(graph) == DOMAIN graph.channel

Mandatory(graph) ==
  { c \in DOMAIN graph.channel : graph.channel[c].mandatory }

Deciding(graph, decision) ==
  { c \in Mandatory(graph) : graph.channel[c].decision = decision }

Missing(graph, protocol) ==
  protocol.mandatory \ { NameOf[c] : c \in Mandatory(graph) }

ChannelVerdict(graph, protocol) ==
  IF Deciding(graph, "FAIL") # {} THEN "INCOMPLETE"
  ELSE IF \/ Missing(graph, protocol) # {}
          \/ Deciding(graph, "UNKNOWN") # {}
          \/ Mandatory(graph) = {}
  THEN "UNVERIFIED" ELSE "COMPLETE"

GraphVerdict(graph, protocol) ==
  IF ActivePaths(graph, protocol) # {} \/ ChannelVerdict(graph, protocol) = "INCOMPLETE"
  THEN "INCOMPLETE"
  ELSE IF UnknownPaths(graph, protocol) # {} \/ ChannelVerdict(graph, protocol) = "UNVERIFIED"
  THEN "UNVERIFIED" ELSE "COMPLETE"

ViolationCount(graph, protocol) ==
  Cardinality(ActivePaths(graph, protocol))
  + Cardinality(UnknownPaths(graph, protocol))
  + Cardinality(Deciding(graph, "FAIL"))
  + Cardinality(Deciding(graph, "UNKNOWN"))
  + Cardinality(Missing(graph, protocol))

\* The graph after a set of actions, applied by ascending id.
After(graph, action, chosen) ==
  LET after[S \in SUBSET Actions] ==
        IF S = {} THEN graph ELSE ApplyAction(after[S \ {Max(S)}], action[Max(S)])
  IN  after[chosen]


\* What exact_cdc and greedy_cdc are called with.
Request ==
  [ graph : Graph, protocol : Protocol,
    action : [Actions -> Action],
    permitted : SUBSET Actions,
    cost : [Actions -> Nat],
    limit : Nat ]

EvaluateActions(request, chosen) ==
  LET graph == After(request.graph, request.action, chosen)
  IN  IF \E a \in chosen : request.action[a].unknownTarget
      THEN [verdict |-> "RAISED", violations |-> 0]
      ELSE [verdict |-> GraphVerdict(graph, request.protocol),
            violations |-> ViolationCount(graph, request.protocol)]

Reports(request) == [S \in SUBSET Actions |-> EvaluateActions(request, S)]
=============================================================================
