-------------------------- MODULE MCStabilizedWorld --------------------------
(* Envelopes of a nominal topology and one mutation of it, single          *)
(* registered topologies, and abstract problems: every way the guard sets  *)
(* of two transitions can verify, fail or raise, with and without ties.    *)
EXTENDS StabilizedWorld

MCFacts == {"backup", "queue", "source"}
MCResidual == {"source"}
MCTransitionIds == 1..3
MCSensors == {"audit"}
MCSensorOf == [t \in MCTransitionIds |-> "audit"]
MCControls == 1..3

T(requires, forbids, adds, removes) ==
  [requires |-> requires, forbids |-> forbids, adds |-> adds, removes |-> removes]

Restore == T({"backup"}, {}, {"source"}, {})
Enqueue == T({"backup"}, {}, {"queue"}, {})
Replay == T({"queue"}, {}, {"source"}, {"queue"})
Rotate == T({}, {}, {}, {"backup"})
LateReplay == T({"queue"}, {"backup"}, {"source"}, {})

Nominal == { <<Restore, Enqueue, Replay>>, <<Rotate, Enqueue, LateReplay>>,
             <<Rotate, Enqueue, Replay>>, <<Rotate, Rotate, Restore>> }

Topology(workflows, registered, observed) ==
  [workflows |-> workflows, registered |-> registered, guarded |-> {},
   snapshot |-> {"backup"}, requiredSensors |-> MCSensors,
   observations |-> { [sensor |-> "audit", transition |-> t, verified |-> TRUE] :
                        t \in observed },
   running |-> observed]

\* One mutation replaces or drops a transition of the nominal topology, or an
\* observation of it.
Mutations(w) ==
  { Topology([w EXCEPT ![t] = u], {1, 2, 3}, {1, 2, 3}) :
      t \in {1, 3}, u \in {Restore, LateReplay, Rotate} }
  \union { Topology(w, r, r) : r \in {{1, 2}, {2, 3}} }
  \union { Topology(w, {1, 2, 3}, {1, 3}), Topology(w, {1, 2}, {1, 2, 3}) }

MCEnvelopeGuards == { <<{1}, {2}, {1, 3}>>, <<{1}, {3}, {1, 2, 3}>> }
MCEnvelopeCosts == { <<2, 2, 3>>, <<1, 2, 4>> }

MCEnvelopes ==
  UNION { { [robust |-> r,
             scenarios |-> IF r THEN {Topology(w, {1, 2, 3}, {1, 2, 3}), m} ELSE {m},
             permitted |-> p, guards |-> g, cost |-> c] :
              r \in BOOLEAN, m \in Mutations(w),
              p \in {MCControls, {1, 2}}, g \in MCEnvelopeGuards, c \in MCEnvelopeCosts } :
          w \in Nominal }
-----------------------------------------------------------------------------
\* The transitions that the abstract problems guard: three controls overlap.
MCGuarded == 1..2
MCGuards == { <<{1}, {2}, {1, 2}>>, <<{1}, {1}, {2}>> }

MCCosts == { <<0, 0, 0>>, <<1, 1, 1>>, <<1, 1, 2>>, <<2, 1, 1>>,
             <<0, 2, 1>>, <<2, 0, 2>>, <<1, 2, 2>> }

\* A guard only takes reachable states away, so verified stays verified.
MCVerdicts ==
  { v \in [SUBSET MCGuarded -> {"RSE_VERIFIED", "OTHER", "RAISED"}] :
      \A G, H \in SUBSET MCGuarded :
        G \subseteq H /\ v[G] = "RSE_VERIFIED" => v[H] = "RSE_VERIFIED" }

MCProblem(robust, permitted, known, guards, cost, verdict, complete) ==
  [robust |-> robust, permitted |-> permitted, known |-> known, guards |-> guards, cost |-> cost,
   total |-> [S \in SUBSET MCControls |-> MapThenSumSet(LAMBDA c : cost[c], S)],
   verdict |-> [G \in SUBSET MCTransitionIds |-> verdict[G \intersect MCGuarded]],
   coverageComplete |-> complete]

\* Without complete coverage no evaluation verifies.
MCProblems ==
  { MCProblem(FALSE, MCControls, MCGuarded, g, w, v, TRUE) :
      g \in MCGuards, w \in MCCosts, v \in MCVerdicts }
  \union
  { MCProblem(r, p, k, <<{1}, {2}, {1, 2}>>, <<1, 1, 2>>, v, FALSE) :
      r \in BOOLEAN,
      p \in {MCControls, {2, 3}},
      k \in {MCGuarded, {1}},
      v \in [SUBSET MCGuarded -> {"OTHER", "RAISED"}] }
=============================================================================
