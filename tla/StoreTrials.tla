----------------------------- MODULE StoreTrials -----------------------------
(***************************************************************************)
(* The trials that drive the stores of storage_lab.py, as the sequences of *)
(* store operations each one makes, and what the analyses say of them:     *)
(* "risk", "safe" and "coverage" of temporal_multipath.py, "shift" of      *)
(* temporal_robust_lab.py, "single" of temporal_lab.py, "storage" of       *)
(* run_registered_storage_lab.py and "pilot" of                            *)
(* run_egov_pilot_simulator.py.                                            *)
(***************************************************************************)
EXTENDS Integers, FiniteSets, Sequences, FiniteSetsExt

CONSTANTS
  Subjects,   \* the subjects of the pilot, in order; the other trials have one
  Deletions   \* how many of them, from the first, the pilot erases

ASSUME SubjectsAssumption ==
  /\ Subjects \in Seq(STRING) /\ Cardinality({Subjects[i] : i \in DOMAIN Subjects}) = Len(Subjects)
  /\ Deletions \in 1..(Len(Subjects) - 1)

Online == {"postgres", "vector-index", "cache", "model"}
AllCarriers == {"carrier-backup", "carrier-checkpoint", "carrier-export",
                "carrier-queue"}
LatentFiles == AllCarriers \ {"carrier-backup"}
Facts == Online \union AllCarriers

-----------------------------------------------------------------------------
(* multipath_transitions and multipath_controls, by rank of their ids.     *)

BackupRestore == 1
CheckpointRedeploy == 2
LegacyImport == 3
ModelRetrain == 4
NightlyEtl == 5
QueueReplay == 6
VectorRebuild == 7
TransitionIds == 1..7
Reactivations == {BackupRestore, CheckpointRedeploy, LegacyImport, QueueReplay}
CarrierOf == <<"carrier-backup", "carrier-checkpoint", "carrier-export", "", "", "carrier-queue">>

Copies(from, to) ==
  [requires |-> {from}, forbids |-> {}, adds |-> {to}, removes |-> {}]

Workflows ==
  << Copies("carrier-backup", "postgres"), Copies("carrier-checkpoint", "model"),
     Copies("carrier-export", "postgres"), Copies("vector-index", "model"),
     Copies("postgres", "cache"), Copies("carrier-queue", "cache"),
     Copies("postgres", "vector-index") >>

Sensors == {"backup-audit", "model-registry-audit", "export-audit", "pipeline-audit",
            "queue-audit"}
SensorOf == << "backup-audit", "model-registry-audit", "export-audit", "pipeline-audit",
               "pipeline-audit", "queue-audit", "pipeline-audit" >>

DestroyAll == 3
Tombstone == 5
Controls == 1..6
Guarded == << {BackupRestore}, {CheckpointRedeploy}, Reactivations,
              {LegacyImport}, Reactivations, {QueueReplay} >>
Cost == << 3, 5, 60, 4, 7, 2 >>

GuardIds(chosen) == UNION { Guarded[c] : c \in chosen }
CostOf == [S \in SUBSET Controls |-> MapThenSumSet(LAMBDA c : Cost[c], S)]

TT == INSTANCE TemporalTransitions WITH Residual <- Online

-----------------------------------------------------------------------------
(* The topologies the trials assume, and the plans made for them.          *)

\* scenario_from_mask: which of the optional transitions a shift brings.
Optional == {CheckpointRedeploy, LegacyImport, QueueReplay}
Always == TransitionIds \ Optional
Masks == SUBSET Optional
Scenario(mask) ==
  [transitions |-> Always \union mask,
   latent |-> { CarrierOf[t] : t \in mask \union {BackupRestore} }]

\* registered_temporal_case: the backup and the rebuilds only.
SingleCase == [transitions |-> Always, latent |-> {"carrier-backup"}]
SingleControls == {DestroyAll, Tombstone}
SinglePrice == [c \in SingleControls |-> IF c = Tombstone THEN 7 ELSE 40]
SingleCost == [S \in SUBSET SingleControls |-> MapThenSumSet(LAMBDA c : SinglePrice[c], S)]

\* multipath_coverage: one attestation per transition, one of which may be
\* unverified.
Coverage(transitions, fault) ==
  { [sensor |-> SensorOf[t], transition |-> t, verified |-> t # fault] : t \in transitions }

\* The report of evaluate_rse on what is left after the online deletion.
Report(topology, chosen, fault) ==
  TT!RSEVerdict(
    [workflows |-> Workflows, registered |-> topology.transitions,
     guarded |-> GuardIds(chosen) \intersect topology.transitions,
     snapshot |-> topology.latent,
     requiredSensors |-> { SensorOf[t] : t \in topology.transitions },
     observations |-> Coverage(topology.transitions, fault), running |-> topology.transitions])
Verifies(topology, chosen) == Report(topology, chosen, 0) = "RSE_VERIFIED"

\* What exact_stabilization_cut and exact_robust_stabilization_cut answer:
\* ExactStabilizationCut shows that their search returns the first set of
\* controls, by cost and count, that verifies in every topology.
PlanFor(topologies, cost) ==
  LET feasible == { S \in DOMAIN cost : \A t \in topologies : Verifies(t, S) }
      Less(S, R) == \/ cost[S] < cost[R]
                    \/ cost[S] = cost[R] /\ Cardinality(S) < Cardinality(R)
  IN  CHOOSE S \in feasible : \A R \in feasible : ~ Less(R, S)

Carriers(latent) == [transitions |-> TransitionIds, latent |-> latent]
RiskPlan == [latent \in SUBSET AllCarriers |-> PlanFor({Carriers(latent)}, CostOf)]
NominalPlan == PlanFor({Scenario({})}, CostOf)
RobustPlan == PlanFor({ Scenario(m) : m \in Masks }, CostOf)
SinglePlan == PlanFor({SingleCase}, SingleCost)

-----------------------------------------------------------------------------
(* What the trials do to the stores, write by write.                       *)

Each(verb, names, who) ==
  [i \in DOMAIN names |-> [do |-> verb, what |-> names[i], who |-> who]]
Once(verb, who) == Each(verb, <<"all">>, who)

Enroll(s) == Each("put", <<"postgres", "vector-index", "cache", "cipher", "key", "model">>, s)
DropOnline(s) == Each("drop", <<"postgres", "vector-index", "cache", "model">>, s)
WriteCarriers(s) ==
  Each("write", <<"carrier-export", "carrier-queue", "carrier-checkpoint">>, s)
    \o Once("drop unused key", s)
Rebuilds(s) == Each("rebuild", <<"vector-index", "cache", "model">>, s)
Replay(s) ==
  Once("read controls", s) \o Each("run", <<BackupRestore, LegacyImport, QueueReplay, CheckpointRedeploy>>, s)
    \o Rebuilds(s) \o Once("look", s)
Install(s) ==
  Each("install", <<"controls", "tombstone", "key", "carrier-export", "carrier-queue",
                    "carrier-checkpoint">>, s)
\* remediate
Remediate(s) ==
  Each("drop", <<"vector-index", "cache">>, s) \o Once("destroy key", s)
    \o Each("drop", <<"model">>, s)
Audit(s) == Once("audit", s)

Stage(mode, plan, does) == [mode |-> mode, plan |-> plan, does |-> does]

\* The stages of the trials, each with the plan that its install carries out
\* and with what the analysis has promised by then.  The trials on latent
\* carriers have one subject.
One == Subjects[1]
Construct == Stage("preparing", {}, Enroll(One) \o WriteCarriers(One) \o DropOnline(One))
Reset == Stage("preparing", {}, DropOnline(One))
InstallPlan(plan) == Stage("preparing", plan, Install(One))
ReplayAs(mode) == Stage(mode, {}, Replay(One))
CreateOutput == Once("refuse existing", One) \o Once("create", One)

RiskTrial(latent) ==
  << Construct, ReplayAs("running"), Reset, InstallPlan(RiskPlan[latent]), ReplayAs("promised") >>

SafeTrial == << Construct, InstallPlan({Tombstone}), ReplayAs("promised") >>
CoverageFaultTrial == << Construct, InstallPlan({Tombstone}) >>

RobustPhysicalTrial ==
  << Construct, ReplayAs("running"), Reset, InstallPlan(NominalPlan), ReplayAs("running"),
     Reset, InstallPlan(RobustPlan), ReplayAs("promised") >>

TemporalLabTrial ==
  LET restore == Each("run", <<BackupRestore>>, One) \o Rebuilds(One) \o Once("look", One)
  IN  << Stage("preparing", {}, Enroll(One) \o DropOnline(One) \o Once("look", One)),
         Stage("running", {}, restore),
         Reset,
         Stage("preparing", SinglePlan, Each("install", <<"tombstone">>, One)),
         Stage("promised", {}, restore) >>

RegisteredStorageTrial ==
  << Stage("preparing", {}, CreateOutput \o Enroll(One) \o Each("drop", <<"postgres">>, One)
                              \o Audit(One) \o Remediate(One) \o Audit(One)) >>

\* One deletion of the pilot, from the request to the verified receipt.
Deletion(s) ==
  Each("drop", <<"postgres">>, s) \o Audit(s) \o Remediate(s) \o Audit(s)
    \o Once("issue", s) \o Once("verify", s)

EnrollAll ==
  LET enrolls[i \in 0..Len(Subjects)] ==
        IF i = 0 THEN CreateOutput ELSE enrolls[i - 1] \o Enroll(Subjects[i])
  IN  enrolls[Len(Subjects)]

PilotTrial ==
  << Stage("preparing", {}, EnrollAll) >>
    \o [i \in 1..Deletions |->
          Stage(IF i = 1 THEN "preparing" ELSE "promised", {}, Deletion(Subjects[i]))]
    \o << Stage("promised", {}, Once("conclude", One)) >>

Program(t) ==
  CASE t.kind = "risk" -> RiskTrial(t.latent)
    [] t.kind = "safe" -> SafeTrial
    [] t.kind = "coverage" -> CoverageFaultTrial
    [] t.kind = "shift" -> RobustPhysicalTrial
    [] t.kind = "single" -> TemporalLabTrial
    [] t.kind = "storage" -> RegisteredStorageTrial
    [] t.kind = "pilot" -> PilotTrial

\* The arguments a trial can have.
Trial ==
  [kind : {"risk", "safe", "coverage", "shift", "single", "storage", "pilot"},
   latent : SUBSET AllCarriers, mask : SUBSET Optional, fault : 0..7]

\* The carriers that construction leaves; every trial without latent files
\* keeps the backup.
LatentOf(t) ==
  CASE t.kind = "risk" -> t.latent
    [] t.kind = "shift" -> Scenario(t.mask).latent
    [] t.kind \in {"safe", "coverage"} -> AllCarriers
    [] OTHER -> {"carrier-backup"}

-----------------------------------------------------------------------------
(* What the trials have to show (the gates of the experiments).            *)

\* The snapshot graph of snapshot_pcug_verdict has its edges closed and its
\* channel passed whatever the stores hold.
SnapshotVerdict == "COMPLETE"

\* The results of the replays that the analysis predicts.
Predicted(t) ==
  LET Regenerates(topology, chosen) == Report(topology, chosen, 0) = "REGENERATION_RISK"
  IN  CASE t.kind = "risk" ->
             << Regenerates(Carriers(t.latent), {}),
                Regenerates(Carriers(t.latent), RiskPlan[t.latent]) >>
        [] t.kind = "safe" -> << Regenerates(Carriers(AllCarriers), {Tombstone}) >>
        [] t.kind = "shift" ->
             << Regenerates(Scenario(t.mask), {}),
                Regenerates(Scenario(t.mask), NominalPlan),
                Regenerates(Scenario(t.mask), RobustPlan) >>
        [] t.kind = "single" ->
             << FALSE, Regenerates(SingleCase, {}), Regenerates(SingleCase, SinglePlan) >>
        [] OTHER -> <<>>

\* The families the second experiment has registered.
Families == { {c} : c \in AllCarriers } \union {AllCarriers}

\* run of run_regeneration_safe_erasure_v1.py, for one trial.
FirstGates(results) == results = << FALSE, TRUE, FALSE >> /\ SingleCost[SinglePlan] <= 7

\* run of run_regeneration_safe_erasure_v2.py, for one trial of a registered
\* family.
SecondGates(t, results) ==
  CASE t.kind = "risk" ->
         t.latent \in Families =>
           /\ Report(Carriers(t.latent), {}, 0) = "REGENERATION_RISK"
           /\ SnapshotVerdict = "COMPLETE" /\ results = << TRUE, FALSE >>
           /\ CostOf[RiskPlan[t.latent]] <= 7
    [] t.kind = "safe" -> Report(Carriers(AllCarriers), {Tombstone}, 0) = "RSE_VERIFIED"
    [] t.kind = "coverage" ->
         Report(Carriers(AllCarriers), {Tombstone}, t.fault) = "INCOMPLETE_COVERAGE"

\* run_robust_physical_trial raises unless the nominal plan fails on the shift.
MeetsGates(t, results) ==
  CASE t.kind \in {"risk", "safe", "coverage"} -> SecondGates(t, results)
    [] t.kind = "shift" ->
         /\ Report(Scenario(t.mask), NominalPlan, 0) = "REGENERATION_RISK"
         /\ results[3] = FALSE
    [] t.kind = "single" -> FirstGates(results)
    [] OTHER -> TRUE

-----------------------------------------------------------------------------
(* Receipts.                                                               *)

\* receipt_hash and the signature are the values they are taken of.
Payload(r) == << r.request, r.root, r.status, r.issued, r.nonce, r.previous >>
Receipt(request, root, state, issued, nonce, previous) ==
  LET r == [request |-> request, root |-> root, status |-> state, issued |-> issued,
            nonce |-> nonce, previous |-> previous]
  IN  [payload |-> r, signature |-> Payload(r)]

\* verify_receipt without an age limit.
VerifyReceipt(receipt, ledger, now, previous) ==
  /\ receipt.payload.previous = previous
  /\ receipt.payload.nonce \notin ledger
  /\ receipt.payload.issued <= now
  /\ receipt.signature = Payload(receipt.payload)

\* audit_subject on the graph of the storage audit: every other store hangs on
\* the source record, which is the root whatever its state, and a store that
\* does not hold the subject comes with its evidence of absence.
StoreEdges == { <<"postgres", store>> : store \in {"vector-index", "cache", "backup", "model"} }
AuditStatus(present) ==
  LET reachable == {"postgres"} \union { e[2] : e \in StoreEdges }
  IN  IF present \intersect reachable # {} THEN "INCOMPLETE" ELSE "COMPLETE"
=============================================================================
