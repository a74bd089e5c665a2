---------------------------- MODULE UnifiedPipeline ----------------------------
(***************************************************************************)
(* The decision pipeline of unified.py on what discovery found, and the    *)
(* certificate of temporal_certificate.py that is issued for its verdict,  *)
(* sent, and checked while the system it speaks of goes on: data flows,    *)
(* jobs and hypotheses change, guards are lifted, time passes.             *)
(*                                                                         *)
(* A commitment is the value it digests.  A signature is the payload and   *)
(* the key it was made with.                                               *)
(***************************************************************************)
EXTENDS GhostGraphDiscovery

CONSTANTS
  Requests,          \* trials whose discovery report may go to run_erasemap
  Catalogues,        \* graph_by_id as it may be: the graph an id names by now
  Offers,            \* temporal_controls: built or given, the edges of permitted guards
  DriftEdges,        \* jobs that may appear and disappear
  MaxExactControls,
  Lifetime,          \* not_after_epoch - issued_epoch
  MaxEpoch, MaxDrifts

ASSUME PipelineAssumption ==
  /\ Requests \subseteq Trials
  /\ \A c \in Catalogues : DOMAIN c \subseteq Ids /\ Range(c) \subseteq Ids
  /\ Offers \subseteq [built : BOOLEAN, guards : SUBSET Edges]
  /\ DriftEdges \subseteq Edges
  /\ MaxExactControls \in Nat /\ Lifetime \in Nat \ {0}
  /\ MaxEpoch \in Nat /\ MaxDrifts \in Nat

VARIABLES deletion,     \* the verdict of the deletion plan
          catalogue, offer,
          result,       \* what run_erasemap returned, a singleton once it has
          topology,     \* edges of the true system
          epoch, drifts,
          certificate   \* as its holder has it, a singleton once issued

pipelineVars == <<deletion, catalogue, offer, result, topology, epoch, drifts,
                  certificate>>

PipelineInit ==
  /\ Init
  /\ deletion = "UNVERIFIED" /\ catalogue = <<>> /\ offer = <<>>
  /\ result = <<>> /\ topology = Truth.edges
  /\ epoch = 0 /\ drifts = 0
  /\ certificate = <<>>

-----------------------------------------------------------------------------
(* run_erasemap.                                                           *)

\* build_topology_envelope, as the pipeline calls it: the scenario of every
\* surviving id, none if the evidence is insufficient or cannot be reconciled.
Envelope(c) ==
  IF /\ Verdict \in Actionable
     /\ trial.valid
     /\ Surviving \subseteq DOMAIN c
     /\ ~ EnvelopeRaises({ c[g] : g \in Surviving })
  THEN << [g \in Surviving |-> c[g]] >>
  ELSE <<>>

NoPlan == [status |-> "NONE", guards |-> {}]

\* Controls that guard something else raise, as too many do.
PlanFor(envelope, o) ==
  LET graphsOf == Range(envelope)
      edges == UNION { RelevantEdges(g) : g \in graphsOf }
      permitted == IF o.built THEN edges ELSE o.guards
      cuts == { S \in Cuts(graphsOf) : S \subseteq permitted }
  IN  IF ~ (permitted \subseteq edges) \/ Cardinality(permitted) > MaxExactControls
      THEN NoPlan
      ELSE IF cuts = {} THEN [status |-> "INFEASIBLE", guards |-> {}]
      ELSE [status |-> "OPTIMAL", guards |-> RobustCut(cuts)]

EraSeMapVerdict(d, plan) ==
  IF d # "COMPLETE" THEN d
  ELSE IF plan.status = "OPTIMAL" THEN "COMPLETE_WITHIN_ENVELOPE"
  ELSE IF plan.status = "NONE" THEN "UNVERIFIED"
  ELSE "INCOMPLETE"

\* The early returns of the code are the case without an envelope.
EraSeMapResult(d, c, o) ==
  LET envelope == Envelope(c)
      plan == IF envelope = <<>> THEN NoPlan ELSE PlanFor(envelope[1], o)
      verdict == EraSeMapVerdict(d, plan)
  IN  [verdict |-> verdict, envelope |-> envelope, plan |-> plan,
       find |-> IF envelope = <<>> THEN "UNVERIFIED" ELSE "COMPLETE",
       erase |-> d,
       prove |-> IF verdict = "COMPLETE_WITHIN_ENVELOPE" THEN "COMPLETE" ELSE verdict]

\* The plans are carried out; what no deletion plan completes leaves residuals.
RunEraSeMap ==
  /\ pc = "decided" /\ trial \in Requests
  /\ \E d \in {"COMPLETE", "INCOMPLETE", "UNVERIFIED"}, c \in Catalogues, o \in Offers :
       LET returned == EraSeMapResult(d, c, o)
       IN  /\ deletion' = d /\ catalogue' = c /\ offer' = o
           /\ result' = <<returned>>
           /\ guards' = <<returned.plan.guards>>
           /\ holders' = IF d = "COMPLETE" THEN StartHolders
                         ELSE Truth.initial \union Truth.residual
  /\ pc' = "serving"
  /\ UNCHANGED <<trial, observations, graphs, action, topology, epoch, drifts, certificate>>

-----------------------------------------------------------------------------
(* The system goes on.                                                     *)

Flow ==
  /\ pc = "serving"
  /\ LET arrivals == { TargetOf[e] : e \in { d \in topology \ GuardedEdges :
                                               SourceOf[d] \in holders } }
     IN  /\ ~ (arrivals \subseteq holders)
         /\ holders' = holders \union arrivals
  /\ UNCHANGED <<trial, pc, observations, graphs, action, guards, pipelineVars>>

\* A job appears or disappears; the catalogue is registered anew; guards are
\* lifted or installed again.
Drift ==
  /\ pc = "serving" /\ drifts < MaxDrifts
  /\ drifts' = drifts + 1
  /\ \/ /\ \E e \in DriftEdges :
             topology' = IF e \in topology THEN topology \ {e} ELSE topology \union {e}
        /\ UNCHANGED <<catalogue, guards>>
     \/ /\ catalogue' \in Catalogues \ {catalogue}
        /\ UNCHANGED <<topology, guards>>
     \/ /\ guards' \in { <<{}>>, <<result[1].plan.guards>> } \ {guards}
        /\ UNCHANGED <<topology, catalogue>>
  /\ UNCHANGED <<trial, pc, observations, graphs, action, holders,
                 deletion, offer, result, epoch, certificate>>

Tick ==
  /\ certificate # <<>> /\ epoch < MaxEpoch
  /\ epoch' = epoch + 1
  /\ UNCHANGED <<vars, deletion, catalogue, offer, result, topology, drifts, certificate>>

-----------------------------------------------------------------------------
(* The certificate.                                                        *)

Replayed == EraSeMapResult(deletion, catalogue, offer)

Commitments ==
  [topology |-> topology, envelope |-> Replayed.envelope, models |-> catalogue,
   observations |-> observations, bundle |-> deletion, action |-> Replayed.plan]

\* What an independent context measures.  Coverage: the topology is one the
\* envelope has a scenario of.
CoverageComplete ==
  \E g \in UNION { Range(e) : e \in ToSet(Replayed.envelope) } :
    Graph[g] = [Truth EXCEPT !.edges = topology]

ControlsReplayed == guards = <<Replayed.plan.guards>>

Payload(issued, declared, key) ==
  [issued |-> issued, notAfter |-> issued + Lifetime, commitments |-> Commitments,
   declared |-> declared, key |-> key]

\* Nothing here asks for certificate_ready: the caller may declare what it likes.
Issue ==
  /\ pc = "serving" /\ certificate = <<>>
  /\ \E issued \in {epoch, epoch + 1}, key \in {"registered", "unknown"},
        declared \in {Replayed.verdict, "COMPLETE_WITHIN_ENVELOPE"} :
       LET payload == Payload(issued, declared, key)
       IN  certificate' = <<[payload |-> payload, signature |-> payload, whole |-> TRUE]>>
  /\ UNCHANGED <<vars, deletion, catalogue, offer, result, topology, epoch, drifts>>

\* A certificate edited after it was signed: prolonged, declared anew, or with a
\* field lost or gained.
Alter ==
  /\ pc = "serving" /\ certificate # <<>>
  /\ certificate[1].payload = certificate[1].signature /\ certificate[1].whole
  /\ \/ certificate' = [certificate EXCEPT ![1].whole = FALSE]
     \/ certificate' = [certificate EXCEPT ![1].payload.notAfter = @ + 1]
     \/ certificate' =
          [certificate EXCEPT ![1].payload.declared = "COMPLETE_WITHIN_ENVELOPE",
                              ![1].payload.commitments = Commitments]
  /\ UNCHANGED <<vars, deletion, catalogue, offer, result, topology, epoch, drifts>>

Rejected(payload, signature) ==
  \/ payload.key # "registered"
  \/ payload # signature
  \/ epoch < payload.issued

Outdated(payload) ==
  \/ epoch > payload.notAfter
  \/ payload.commitments # Commitments

\* A mutant: whoever signed has looked at the topology.
WithoutCoverage(payload) ==
  \/ payload.declared # Replayed.verdict
  \/ payload.declared = "COMPLETE_WITHIN_ENVELOPE" /\ ~ (trial.valid /\ ControlsReplayed)

Unfounded(payload) ==
  \/ payload.declared # Replayed.verdict
  \/ /\ payload.declared = "COMPLETE_WITHIN_ENVELOPE"
     /\ ~ (CoverageComplete /\ trial.valid /\ ControlsReplayed /\ deletion = "COMPLETE")

\* decode_temporal_certificate raises otherwise.
Decodes == certificate # <<>> /\ certificate[1].whole

\* check_temporal_certificate.
Status ==
  LET payload == certificate[1].payload
  IN  IF Rejected(payload, certificate[1].signature) THEN "INVALID"
      ELSE IF Outdated(payload) THEN "EXPIRED"
      ELSE IF Unfounded(payload) THEN "INVALID"
      ELSE "VALID"

\* A check changes nothing, and there may always be another.
Check == certificate # <<>> /\ UNCHANGED <<vars, pipelineVars>>

PipelineNext ==
  \/ Next /\ UNCHANGED pipelineVars
  \/ RunEraSeMap
  \/ Flow \/ Drift \/ Tick
  \/ Issue \/ Alter \/ Check

PipelineSpec == PipelineInit /\ [][PipelineNext]_<<vars, pipelineVars>>

-----------------------------------------------------------------------------
Clean == holders \intersect Truth.residual = {}

\* The data of a guarded system does not return.
\*  - Guards found from the survivors hold in the true graph, whose edges are all
\*    replayed, the ones on no recovery path of any survivor included.
\*  - COMPLETE_WITHIN_ENVELOPE holds until the first drift, if the truth is listed
\*    and the catalogue still names the graphs discovery reported.
\*  - While a certificate declared complete is valid, no start regains a residual
\*    in the topology as it is, under the guards as they are: whatever drifted and
\*    was undone, whoever declared or altered it, and even for a catalogue that was
\*    registered anew.  Without a drift nothing has returned.
CertifiedStaysErased ==
  /\ pc # "serving" /\ guards # <<>> => Clean
  /\ /\ pc = "serving" /\ drifts = 0
     /\ result[1].verdict = "COMPLETE_WITHIN_ENVELOPE"
     /\ TruthListed
     /\ \A g \in Surviving : catalogue[g] = g
     => Clean
  /\ /\ Decodes
     /\ certificate[1].payload.declared = "COMPLETE_WITHIN_ENVELOPE"
     /\ Status = "VALID"
     => /\ Spread(topology \ GuardedEdges, StartHolders, Cardinality(Nodes))
             \intersect Truth.residual = {}
        /\ drifts = 0 => Clean
=============================================================================
