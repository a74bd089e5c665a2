--------------------------- MODULE StabilizedWorld ---------------------------
(***************************************************************************)
(* The stabilization cut at work: an envelope of topologies is turned into *)
(* a problem of ExactStabilizationCut, the plan that comes back is         *)
(* installed, and then the workflows of any one topology of the envelope   *)
(* run, in any order, against the installed guards.  A single registered   *)
(* case (temporal.py) is an envelope with one topology.                    *)
(*                                                                         *)
(* An evaluation is the answer of evaluate_rse in one step (RSEVerdict).   *)
(* The default limit of 65536 states is out of reach of the few facts of   *)
(* an instance, so no evaluation of an envelope raises here.  The problems *)
(* that stem from no envelope have evaluations that raise as well: with    *)
(* them the cut is run alone.                                              *)
(***************************************************************************)
EXTENDS ExactStabilizationCut, FiniteSetsExt

CONSTANTS
  Facts, Residual, Sensors, SensorOf,  \* those of TemporalTransitions
  Envelopes   \* the envelopes planned for

Temporal == INSTANCE TemporalTransitions

Envelope ==
  [ robust : BOOLEAN,
    scenarios : SUBSET Temporal!Case,
    permitted : SUBSET Controls,
    guards : [Controls -> SUBSET TransitionIds],
    cost : [Controls -> Nat] ]

\* A state is a finite set of facts.  Coverage relies on sensors that report
\* what they see, in every topology.
ASSUME EnvelopesAssumption ==
  /\ IsFiniteSet(Facts)
  /\ Envelopes \subseteq Envelope
  /\ \A e \in Envelopes : \A s \in e.scenarios : Temporal!SensorsAreExhaustive(s)

\* A mutant: the guards are not handed on.
EvaluateUnguarded(scenario, guarded) ==
  Temporal!RSEVerdict([scenario EXCEPT !.guarded = {}])

\* A topology evaluated under the guards that it knows.
Evaluate(scenario, guarded) ==
  Temporal!RSEVerdict(
    [scenario EXCEPT !.guarded = guarded \intersect scenario.registered])

\* A mutant: any(...) instead of all(...).
AnyScenarioVerdict(envelope, guarded) ==
  IF \E s \in envelope.scenarios : Evaluate(s, guarded) = "RSE_VERIFIED"
  THEN "RSE_VERIFIED" ELSE "OTHER"

\* _reports and the all(...) over it.
EnvelopeVerdict(envelope, guarded) ==
  IF \A s \in envelope.scenarios : Evaluate(s, guarded) = "RSE_VERIFIED"
  THEN "RSE_VERIFIED" ELSE "OTHER"

ProblemOf(envelope) ==
  [ robust |-> envelope.robust,
    permitted |-> envelope.permitted,
    known |-> UNION { s.registered : s \in envelope.scenarios },
    guards |-> envelope.guards,
    cost |-> envelope.cost,
    total |-> [S \in SUBSET Controls |->
                 MapThenSumSet(LAMBDA c : envelope.cost[c], S)],
    verdict |-> [G \in SUBSET TransitionIds |-> EnvelopeVerdict(envelope, G)],
    coverageComplete |-> \A s \in envelope.scenarios : Temporal!CoverageComplete(s) ]

VARIABLES
  envelope,  \* the envelope planned for, if the problem stems from one
  topology,  \* the topology that turns out to be the real one
  world,     \* the facts that hold in it
  installed  \* the guards in force, a singleton sequence once installed

worldVars == <<vars, envelope, topology, world, installed>>

NoEnvelope == [scenarios |-> {}]
NoTopology == [running |-> {}]

InitWorld ==
  /\ NotStarted
  /\ installed = <<>>
  /\ \/ /\ envelope \in Envelopes
        /\ problem = ProblemOf(envelope)
        /\ topology \in envelope.scenarios
        /\ world = topology.snapshot
     \/ /\ envelope = NoEnvelope
        /\ problem \in Problems
        /\ topology = NoTopology
        /\ world = {}

PlanControls == Next /\ UNCHANGED <<envelope, topology, world, installed>>

\* The trials reset the stores to the snapshot before they install the plan.
Install ==
  /\ envelope # NoEnvelope
  /\ outcome.status = "OPTIMAL"
  /\ installed = <<>>
  /\ installed' = << GuardsOf(outcome.plan.chosen) >>
  /\ UNCHANGED <<vars, envelope, topology, world>>

RunWorkflow(t) ==
  /\ installed # <<>>
  /\ t \in topology.running \ installed[1]
  /\ Temporal!Moves(topology.workflows[t], world)
  /\ world' = Temporal!Result(topology.workflows[t], world)
  /\ UNCHANGED <<vars, envelope, topology, installed>>

NextWorld == PlanControls \/ Install \/ \E t \in TransitionIds : RunWorkflow(t)

SpecWorld == InitWorld /\ [][NextWorld]_worldVars

-----------------------------------------------------------------------------
\* An installed OPTIMAL plan holds in every topology of the envelope: whichever
\* of them is real, and whatever its workflows do, no subject data comes back.
InstalledPlanHolds ==
  installed # <<>> => ~ Temporal!HoldsSubjectData(world)

\* Under a set of guards some topology of the envelope has a run that
\* regenerates.
SomeTopologyRegenerates(guarded) ==
  \E s \in envelope.scenarios :
    \E state \in Temporal!Reachable(
                   [s EXCEPT !.guarded = s.registered \intersect guarded]) :
      Temporal!HoldsSubjectData(state)

\* The cut does what the envelope needs, no less and no more: a refusal under
\* full coverage comes only from an envelope that no permitted controls
\* stabilize, and for every permitted set of controls cheaper than the plan
\* some topology of the envelope regenerates.
CutIsNeeded ==
  envelope # NoEnvelope =>
    /\ outcome.status \in {"INFEASIBLE", "UNVERIFIED"} =>
         \/ \E s \in envelope.scenarios : ~ Temporal!CoverageComplete(s)
         \/ SomeTopologyRegenerates(GuardsOf(envelope.permitted))
    /\ outcome.status = "OPTIMAL" =>
         \A S \in SUBSET envelope.permitted :
           problem.total[S] < outcome.plan.cost =>
             SomeTopologyRegenerates(GuardsOf(S))
=============================================================================
