--------------------------- MODULE MCCausalErasure ---------------------------
(* An account that reaches a sink by a copy and directly, by two parallel  *)
(* edges; actions that close, fail to verify, reopen and probe.  And       *)
(* abstract problems: three actions whose sets verify, fail or raise in    *)
(* every combination the pools allow, under costs with and without ties.   *)
EXTENDS ErasurePlans

MCNodes == {"account", "copy", "sink"}
MCEdges == {"clone", "export", "direct", "direct2"}
MCNames == {"residue"}
MCChannels == {"residue", "residue@old"}
MCNameOf == [c \in MCChannels |-> "residue"]
MCActions == 1..3

MCProtocol(own) ==
  [source |-> ("clone" :> "account") @@ ("export" :> "copy")
              @@ ("direct" :> "account") @@ ("direct2" :> "account"),
   target |-> ("clone" :> "copy") @@ ("export" :> "sink")
              @@ ("direct" :> "sink") @@ ("direct2" :> "sink"),
   own |-> own, scoped |-> {"export"},
   sources |-> {"account"}, sinks |-> {"sink"}, mandatory |-> {"residue"}]

Nothing == <<>>
To(state) == [state |-> state, verified |-> TRUE]
Unsure(state) == [state |-> state, verified |-> FALSE]
Says(decision) == [decision |-> decision, mandatory |-> TRUE]

Act(nodes, edges, channels) ==
  [nodes |-> nodes, edges |-> edges, channels |-> channels, unknownTarget |-> FALSE]

CloseExport == Act(Nothing, "export" :> To("CLOSED"), Nothing)
PurgeCopy == Act("copy" :> To("CLOSED"), Nothing, "residue" :> Says("PASS"))
HopePurge == Act("copy" :> Unsure("CLOSED"),
                 ("direct" :> To("CLOSED")) @@ ("direct2" :> To("CLOSED")), Nothing)
CloseDirect == Act(Nothing, ("direct" :> To("CLOSED")) @@ ("direct2" :> To("CLOSED")),
                   "residue" :> Says("PASS"))
CloseAccount == Act("account" :> To("CLOSED"), Nothing, "residue@old" :> Says("FAIL"))
Relink == Act(Nothing, ("direct" :> Unsure("CLOSED")) @@ ("export" :> To("ACTIVE")),
              ("residue@old" :> Says("PASS")) @@ ("residue" :> Says("PASS")))
CloseBoth == Act("copy" :> To("CLOSED"), ("direct" :> To("CLOSED"))
                 @@ ("direct2" :> To("CLOSED")), "residue" :> Says("PASS"))
Broken == [CloseExport EXCEPT !.unknownTarget = TRUE]

MCPlans == { <<CloseExport, PurgeCopy, CloseDirect>>,
             <<CloseExport, HopePurge, CloseDirect>>,
             <<PurgeCopy, HopePurge, CloseAccount>>,
             <<HopePurge, CloseExport, Relink>>,
             <<Relink, CloseExport, HopePurge>>,
             <<CloseDirect, PurgeCopy, Relink>>,
             <<CloseDirect, CloseAccount, PurgeCopy>>,
             <<CloseDirect, Broken, PurgeCopy>>,
             <<CloseAccount, CloseExport, CloseBoth>> }

MCRequestCosts == { <<1, 1, 1>>, <<2, 1, 0>> }

Edge(export, direct2) ==
  ("clone" :> "ACTIVE") @@ ("direct" :> "ACTIVE") @@ ("export" :> export)
  @@ ("direct2" :> direct2)

MCGraphs ==
  { [node |-> [n \in MCNodes |-> IF n = "copy" THEN c ELSE "ACTIVE"],
     edge |-> Edge(e, d), channel |-> h] :
      c \in {"ACTIVE", "UNKNOWN"},
      e \in {"ACTIVE", "CLOSED"}, d \in {"UNKNOWN", "CLOSED"},
      h \in { Nothing, "residue" :> Says("UNKNOWN"), "residue" :> Says("PASS"),
            ("residue" :> Says("PASS"))
            @@ ("residue@old" :> [decision |-> "FAIL", mandatory |-> FALSE]) } }

MCRequests ==
  { [graph |-> g, protocol |-> MCProtocol(o), action |-> a, permitted |-> MCActions,
     cost |-> c, limit |-> 3] :
      g \in MCGraphs, o \in {{"account"}, {"account", "copy"}},
      a \in MCPlans, c \in MCRequestCosts }
-----------------------------------------------------------------------------
MCCosts == { <<0, 0, 0>>, <<1, 1, 2>>, <<0, 2, 1>>, <<2, 0, 2>> }

\* Every choice of the complete sets, also those where more is less; what is
\* not complete has fewer violations with more actions, with fewer, or with one.
MCVerdict(closing, raised) ==
  [S \in SUBSET MCActions |->
     IF S \intersect raised # {} THEN "RAISED"
     ELSE IF S \in closing THEN "COMPLETE"
     ELSE IF 1 \in S THEN "INCOMPLETE" ELSE "UNVERIFIED"]

MCViolations ==
  { [S \in SUBSET MCActions |-> 3 - Cardinality(S)],
    [S \in SUBSET MCActions |-> Cardinality(S \ {2})],
    [S \in SUBSET MCActions |-> IF Cardinality(S) = 1 THEN 0 ELSE 1] }

MCProblem(limit, permitted, cost, verdict, violations) ==
  [limit |-> limit, permitted |-> permitted, cost |-> cost,
   total |-> [S \in SUBSET MCActions |-> MapThenSumSet(LAMBDA a : cost[a], S)],
   verdict |-> verdict, violations |-> violations]

MCProblems ==
  { MCProblem(3, MCActions, c, MCVerdict(k, {}), [S \in SUBSET MCActions |-> 1]) :
      c \in MCCosts, k \in SUBSET SUBSET MCActions }
  \union
  { MCProblem(l, p, c, MCVerdict(k, r), v) :
      l \in {2, 3}, p \in {MCActions, {1, 3}}, c \in MCCosts, r \in {{}, {3}},
      k \in {{}, {{1, 2}}, {{}, {1}}}, v \in MCViolations }
-----------------------------------------------------------------------------
MCArtifacts == {"record", "vector", "export"}
MCRemediations == 1..5

\* Any three actions and one that covers everything, with free and equal costs;
\* two plans of one cost, the smaller of which is cut off; nothing required.
MCTasks ==
  { [required |-> r, permitted |-> p, covers |-> c \o <<MCArtifacts, MCArtifacts>>, cost |-> k] :
      r \in {{"record", "vector"}, MCArtifacts}, p \in {1..3, 1..4},
      c \in [1..3 -> (SUBSET MCArtifacts) \ {{}}],
      k \in {<<1, 1, 1, 2, 0>>, <<0, 2, 1, 2, 0>>, <<2, 3, 6, 7, 0>>} }
  \union
  { [required |-> {}, permitted |-> p, covers |-> [a \in MCRemediations |-> MCArtifacts],
     cost |-> [a \in MCRemediations |-> 1]] : p \in {{}, MCRemediations} }
  \union
  { [required |-> MCArtifacts, permitted |-> 1..4,
     covers |-> <<{"vector"}, {"export"}, {"record"}, {"vector", "export"}, {"record"}>>,
     cost |-> <<0, 0, k, 0, 0>>] : k \in 0..2 }
=============================================================================
