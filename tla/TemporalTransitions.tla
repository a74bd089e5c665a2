------------------------- MODULE TemporalTransitions -------------------------
(***************************************************************************)
(* The pure part of temporal.py: a system state is the set of facts that   *)
(* hold (a carrier or a store holds subject data), and a registered        *)
(* workflow (restore a backup, rebuild an index, ...) is a guarded         *)
(* transition on such sets.  A control stops the transitions it guards.    *)
(*                                                                         *)
(* Transition ids are the positive integers that rank them in the sorted   *)
(* order the code visits them in.                                          *)
(***************************************************************************)
EXTENDS Integers, FiniteSets, Sequences

CONSTANTS
  Facts,          \* fact names
  Residual,       \* the facts that mean subject data is back
  TransitionIds,  \* ids a registry, a guard or an observation can name
  Sensors,        \* sensors that report which transitions run
  SensorOf        \* the sensor in whose scope a transition runs

ASSUME FactsAreFinite == IsFiniteSet(Facts)
ASSUME ResidualAssumption == Residual \subseteq Facts /\ Residual # {}
ASSUME TransitionIdsAssumption == TransitionIds \subseteq Nat
ASSUME SensorOfAssumption == SensorOf \in [TransitionIds -> Sensors]

\* A TemporalTransition, with the checks of its __post_init__.
Transition ==
  { t \in [requires : SUBSET Facts, forbids : SUBSET Facts,
           adds : SUBSET Facts, removes : SUBSET Facts] :
      /\ t.adds \union t.removes # {}
      /\ t.adds \intersect t.removes = {}
      /\ t.requires \intersect t.forbids = {} }

Observation == [sensor : Sensors, transition : TransitionIds, verified : BOOLEAN]

Enables(t, state) ==
  /\ t.requires \subseteq state
  /\ t.forbids \intersect state = {}

Result(t, state) == (state \ t.removes) \union t.adds

\* apply() answers a state only when the transition is enabled and has an
\* effect; otherwise it answers None.
Moves(t, state) == Enables(t, state) /\ Result(t, state) # state

HoldsSubjectData(state) == state \intersect Residual # {}

-----------------------------------------------------------------------------
(* One case handed to evaluate_rse, with the part of its environment that  *)
(* the coverage report is about: the workflows that really run.            *)

Case ==
  [ workflows : [TransitionIds -> Transition], \* what each id does
    registered : SUBSET TransitionIds,         \* the transitions argument
    guarded : SUBSET TransitionIds,
    snapshot : SUBSET Facts,                   \* initial_state
    requiredSensors : (SUBSET Sensors) \ {{}},
    observations : SUBSET Observation,
    running : SUBSET TransitionIds ]           \* environment

VerifiedObservations(c) == { o \in c.observations : o.verified }

ReportingSensors(c) == { o.sensor : o \in VerifiedObservations(c) }

\* A mutant: the observations of unregistered transitions are not reported.
CoverageIgnoresUnregistered(c) ==
  /\ c.requiredSensors \subseteq ReportingSensors(c)
  /\ c.registered \subseteq { o.transition : o \in VerifiedObservations(c) }
  /\ \A o \in c.observations : o.verified

\* evaluate_coverage(...).complete
CoverageComplete(c) ==
  /\ c.requiredSensors \subseteq ReportingSensors(c)
  /\ c.registered \subseteq { o.transition : o \in VerifiedObservations(c) }
  /\ { o.transition : o \in c.observations } \subseteq c.registered
  /\ \A o \in c.observations : o.verified

\* What coverage takes for granted about the outside world: every workflow
\* that runs is in the scope of a required sensor, and a sensor that reports
\* at all reports every workflow it sees.
SensorsAreExhaustive(c) ==
  \A t \in c.running :
    /\ SensorOf[t] \in c.requiredSensors
    /\ SensorOf[t] \in ReportingSensors(c) =>
         \E o \in c.observations : o.transition = t

Unguarded(c) == c.registered \ c.guarded

Successors(c, states) ==
  UNION { { Result(c.workflows[t], s) :
              t \in { u \in Unguarded(c) : Enables(c.workflows[u], s) } } :
          s \in states }

\* The states reached in at most n steps of unguarded registered transitions.
\* No path that the search follows leaves a state that holds subject data.
ReachableWithin(c, n) ==
  LET level[k \in 0..n] ==
        IF k = 0 THEN {c.snapshot}
        ELSE LET known == level[k-1] IN known \union Successors(c, known)
  IN  level[n]

Reachable(c) ==
  LET closure[states \in SUBSET (SUBSET Facts)] ==
        LET grown == states \union Successors(c, states)
        IN  IF grown = states THEN states ELSE closure[grown]
  IN  closure[{c.snapshot}]

\* Some clean states include the snapshot, and no transition leads out of them:
\* the reachable states, if any.  That they are closed is part of what it means.
StaysClean(c) ==
  LET reached == Reachable(c)
  IN  /\ c.snapshot \in reached
      /\ Successors(c, reached) \subseteq reached
      /\ \A s \in reached : ~ HoldsSubjectData(s)

\* The verdict of evaluate_rse in one step, without its state limit.
RSEVerdict(c) ==
  IF HoldsSubjectData(c.snapshot) THEN "SNAPSHOT_INCOMPLETE"
  ELSE IF ~ StaysClean(c) THEN "REGENERATION_RISK"
  ELSE IF CoverageComplete(c) THEN "RSE_VERIFIED"
  ELSE "INCOMPLETE_COVERAGE"
=============================================================================
