------------------------- MODULE MCGhostGraphDiscovery -------------------------
(* A source, a cache, a backup and the primary store that must stay clean, *)
(* with copies, replays and restores that may exist between them.          *)
EXTENDS UnifiedPipeline

MCNodes == {"source", "cache", "backup", "primary"}
MCOperations == {"copy", "replay", "restore"}
MCEdges == 1..6
MCSourceOf == <<"source", "source", "cache", "backup", "cache", "backup">>
MCTargetOf == <<"cache", "backup", "primary", "primary", "backup", "primary">>
MCOperationOf == <<"copy", "copy", "replay", "restore", "copy", "restore">>
MCIds == 1..10
MCProbes == 1..3

MCExperiment ==
  << [operations |-> {"copy", "replay"}, checkpoints |-> {"primary"},
      buckets |-> 2, cost |-> 1],
     [operations |-> {"copy", "restore"}, checkpoints |-> {"backup", "primary"},
      buckets |-> 2, cost |-> 2],
     [operations |-> MCOperations, checkpoints |-> {"primary"},
      buckets |-> 3, cost |-> 1] >>

G(edges) == [edges |-> edges, initial |-> {"source"}, residual |-> {"primary"}]

\* By cache, by backup, by both, by the cache's backup; clean; from two starts;
\* already dirty; with another idea of residual; by cache with an idle backup; by
\* backup with another restore job.
MCGraph ==
  << G({1, 3}), G({2, 4}), G({1, 2, 3, 4}), G({1, 4, 5}), G({1, 2, 5}),
     [G({1, 3, 5}) EXCEPT !.initial = {"source", "cache"}],
     [G({1, 3}) EXCEPT !.initial = {"source", "primary"}],
     [G({2, 4}) EXCEPT !.residual = {"backup", "primary"}],
     G({1, 2, 3}), G({2, 6}) >>

Spaces == { S \in SUBSET MCIds : Cardinality(S) \in {1, 3} }

T(space, truth, budget, valid, planner) ==
  [space |-> space, truth |-> truth, budget |-> budget, noise |-> budget,
   valid |-> valid, planner |-> planner]

MCTrials ==
  { T(s, t, 0, TRUE, p) : s \in Spaces, t \in MCIds, p \in {"minimax", "policy"} }
  \union
  { T(s, t, 1, v, "minimax") :
      s \in { S \in Spaces : Cardinality(S) = 3 }, t \in {1, 4, 6}, v \in BOOLEAN }

\* Requests whose truth is listed, is not, and whose evidence is invalid.
MCRequests ==
  { T({1, 3, 4}, t, 0, TRUE, "minimax") : t \in {1, 2} }
  \union { T({1, 2, 7}, 1, 0, TRUE, "minimax"), T({2}, 2, 0, TRUE, "minimax"),
           T({1, 4, 6}, 4, 1, FALSE, "minimax") }

\* The catalogue of discovery; without graph 1; with graph 1 registered anew.
MCCatalogues ==
  LET same == [g \in MCIds |-> g]
  IN  { same, [g \in MCIds \ {1} |-> g], [same EXCEPT ![1] = 2] }

\* The guards of the envelope, none, and guards of edges it does not have.
MCOffers ==
  { [built |-> TRUE, guards |-> {}], [built |-> FALSE, guards |-> {}],
    [built |-> FALSE, guards |-> MCEdges] }
MCDriftEdges == {4, 5}
=============================================================================
