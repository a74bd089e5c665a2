-------------------------- MODULE MCSealedChallenge --------------------------
EXTENDS SealedChallenge

\* As sources, 7 has other excerpts than 1 and the same cases.
MCPublics == 1..7
MCIds == <<"x", "x", "y", "x", "x", "x", "x">>
MCDefect == <<"none", "none", "none", "duplicate", "few", "unrunnable", "none">>
MCTruthOf == <<"t1", "t2", "t1", "t1", "t1", "t1", "t1">>
MCBuilt == [p \in MCPublics |-> Suite(IF p \in {2, 3} THEN 3 ELSE 1, "t1")]
MCAlgorithm == <<"right", "right", "wrong">>
MCSuites == {Suite(1, "t1"), Suite(1, "t2"), Suite(2, "t2"), Suite(7, "t1")}
Kinds == DOMAIN Books
Scenario(k, suite, inside_, left_) ==
  [kind |-> k, suite |-> suite, inside |-> inside_, left |-> left_]
MCSubstitutes == 1..3
MCScenarios ==
  {Scenario(k, Suite(1, "t1"), FALSE, 2) : k \in Kinds \ {"transfer"}}
    \cup {Scenario("transfer", Suite(1, "t1"), FALSE, 3)}
    \cup {Scenario("temporal", Suite(1, "t1"), TRUE, 1)}
    \cup {Scenario(k, Suite(p, "t1"), FALSE, 1) :
            k \in Kinds \ {"transfer"}, p \in {2, 4, 5, 6}}
=============================================================================
