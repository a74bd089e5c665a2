---------------------------- MODULE MCTofuCampaign ----------------------------
(* Five versions of the protocol, five developments, and two processes that *)
(* are started on one output directory.                                     *)
EXTENDS TofuCampaign

Low == [gain |-> 1, gap |-> 2, speed |-> 1]
High == [gain |-> 2, gap |-> 2, speed |-> 1]
Version(seeds, bar, recipe, authors) ==
  [frozen |-> TRUE, seeds |-> seeds, bar |-> bar, recipe |-> recipe, authors |-> authors]
MCProtocols ==
  <<Version(<<1, 2>>, Low, 1, 1),
    Version(<<1, 2>>, High, 1, 1),
    Version(<<1, 2>>, Low, 2, 2),
    Version(<<1, 3>>, Low, 1, 1),
    [Version(<<1, 2>>, Low, 1, 1) EXCEPT !.frozen = FALSE]>>

Trial(g) == [gain |-> g, gap |-> 1, speed |-> 2]
Row(gains) == [a \in DOMAIN gains |-> Trial(gains[a])]
Slow(gains) == [a \in DOMAIN gains |-> [Trial(gains[a]) EXCEPT !.speed = 1]]
Table(first, second) == <<first, second>>
MCWorlds ==
  << \* no run of three; feasible in one unit, not in the other
     <<Table(Row(<<1, 1, 0, 1, 1>>), Row(<<0, 1, 1, 1, 1>>)),
       Table(Row(<<1, 1, 1, 1, 1>>), Row(<<1, 0, 1, 0, 1>>))>>,
     \* the same choice under both bars
     <<Table(Row(<<2, 2, 2, 0, 2>>), Row(<<0, 1, 1, 0, 1>>)),
       Table(Row(<<2, 2, 2, 2, 2>>), Row(<<0, 1, 0, 1, 1>>))>>,
     \* a wider run under the low bar, another one under the high bar
     <<Table(Row(<<1, 1, 1, 1, 0>>), Row(<<0, 2, 2, 2, 0>>)),
       Table(Row(<<1, 1, 1, 1, 1>>), Row(<<0, 2, 2, 2, 0>>))>>,
     \* a candidate under the low bar only; a tie that the speed decides
     <<Table(Slow(<<1, 1, 1, 0, 0>>), Row(<<0, 0, 1, 1, 1>>)),
       Table(Row(<<1, 1, 1, 0, 0>>), Row(<<0, 0, 1, 1, 1>>))>>,
     \* two runs on one path, a tie that the path decides
     <<Table(Row(<<1, 1, 1, 0, 2>>), Row(<<1, 1, 1, 0, 2>>)),
       Table(Row(<<1, 1, 1, 0, 2>>), Row(<<1, 1, 1, 0, 2>>))>> >>

MCTables ==
  {MCWorlds[w] : w \in DOMAIN MCWorlds}
    \union {<<Table(Row(first), Slow(second))>> :
              first \in [1..4 -> {0, 1}], second \in [1..4 -> {0, 1, 2}]}
MCMeasures == {Trial(1), Trial(2)}
Scenario(w, start, n) == [world |-> w, start |-> start, left |-> n]
MCScenarios ==
  {Scenario(w, <<kind>>, 1) : w \in DOMAIN MCWorlds, kind \in {"v2", "v3"}}
    \union {Scenario(1, <<kind>>, 2) : kind \in {"v1", "v2", "v3", "smoke", "shard"}}
    \union {Scenario(2, <<"v3">>, 2)}
    \union {Scenario(5, <<kind, kind>>, 1) : kind \in {"v1", "v2", "v3", "shard"}}
    \union {Scenario(5, <<"v3", "smoke">>, 1)}
=============================================================================
