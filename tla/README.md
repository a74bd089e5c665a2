# EraSeMap: TLA+ models, model checking and proofs

EraSeMap is a Python package (`src/src/erasemap`) that decides whether a
subject's data has been erased and will stay erased. It plans deletions on
graphs of stores and data flows, searches whether registered workflows can
regenerate what was deleted, computes cheapest sets of controls against that,
discovers unknown recovery paths by probing, and backs its verdicts with signed
evidence. Its verdicts (`COMPLETE`, `RSE_VERIFIED`, `STABILIZED`, ...) are
promises about a running system. The models here put the algorithm and that
system side by side, and ask whether the promise is kept.

Contents

1. Inventory of the system
2. The modules
3. What each run checks
4. Bounds
5. Fairness and termination
6. What is proved
7. Findings
8. Abstractions and what is not modelled
9. Plan

## 1. Inventory of the system

Paths are relative to `src/src/erasemap/` unless they start with `src/`.

| Component | State it keeps | Operations | Hard behaviour | Correct when |
|---|---|---|---|---|
| Regeneration analysis (`temporal.py`) | queue, visited set, paths during a search | `evaluate_coverage`, `evaluate_rse` | cyclic workflows, a state limit, a registry older than the system | the verdict is the one reachability defines; after `RSE_VERIFIED` nothing regenerates |
| Exact stabilization cuts (`temporal.py`, `temporal_robust.py`) | best plan during recursion | `exact_stabilization_cut`, `exact_robust_stabilization_cut` | pruning with ties and zero costs, evaluations that raise, many topologies | no cheaper plan exists; `INFEASIBLE` is real; the plan holds in every topology |
| Multi-carrier storage lab (`storage_lab.py`, `temporal_multipath.py`) | SQLite and JSON stores, backup ciphertext and key, tombstones, carriers, control file | enroll, delete online, four reactivations, rebuild, `install_controls`, `run_risk_trial` | several writes per operation, crash and rerun on the same root | stores do what the analysis predicts and stay erased under the controls |
| Evidence envelopes (`evidence_envelopes.py`, signed branch of `cli._audit`) | SQLite table of consumed nonces, one in-memory set per ledger object | `record`, `contains`, `consume`, verification, `audit_signed_subject` | processes between SELECT and INSERT, crash after the commit, reruns | a nonce backs one run; `COMPLETE` rests on the run's own evidence |
| Bank control plane (`bank_control_plane.py`, `synthetic_bank_control_plane.py`) | stage and event log per customer; `currentId` and snapshot per page | `execute_action`, HTTP handlers, page script | two pages, stale screens, answers out of order | the lifecycle is never skipped or repeated; screens never show too much |
| Causal deletion cut (`pcug_domain.py`, `multiview_verifier.py`, `cdc.py`) | best and partial plan during recursion; chosen actions of the greedy loop | classify paths, combine channels, `exact_cdc`, `greedy_cdc`, `brute_force_cdc` | actions that undo one another, UNKNOWN states, unverified effects, evaluations that raise | the cheapest complete plan, the closest partial one; carried out, the plan keeps data from the sinks |
| GhostGraph discovery (`ghostgraph*.py`, `src/experiments/run_ghostgraph_v1.py`) | version space, observations, policy memo, replay state | `update_version_space`, `select_next_experiment`, `build_global_policy`, `run_global_policy`, `build_topology_envelope`, replay | disturbed traces, hypotheses no probe separates, guards that meet edges no scenario lists | a confident verdict is right; guards hold in the real graph; the policy keeps its certificate |
| Unified pipeline (`unified.py`) | none between calls | `run_erasemap`, `build_topology_envelope` | verdicts of three stages that rest on different evidence | the overall verdict is no stronger than its weakest stage |
| Temporal certificates (`temporal_certificate.py`) | none; certificates are documents | `issue_...`, `check_...` | topology drift between issue and check | a certificate is valid only while what it covers is unchanged |
| Subject audit (`audit.py`, `evidence.py`, `domain.py`) | none between calls | `audit_subject`, `validate_evidence` | reachability, evidence rules per artifact type | `COMPLETE` only if every reachable artifact is inactive on valid evidence |
| Artifact remediation planning (`planning.py`) | best plan during recursion | `exact_plan`, `greedy_plan` | two prunings (`cost >= best`, suffix coverage), free actions | no cheaper plan is pruned; greedy is as complete |
| Receipts (`receipts.py`, `src/pilot/`) | ledger of the caller | `issue_receipt`, `verify_receipt`, nonce ledger | verify and record are two calls; a deletion that half happened | a receipt is accepted once; what it says stays true |
| Robust lab (`temporal_robust_lab.py`, `temporal_lab.py`, the registered storage lab) | the stores of the storage lab | shift, single and storage trials | as the multi-carrier lab, with shifted topologies | as the multi-carrier lab |
| Open transfer campaign (`open_transfer.py`, `open_transfer_evidence.py`, `src/experiments/open_transfer_*.py`, `run_open_transfer_v1.py`) | three stock services in containers, JSONL ledgers with a hash chain, output files | adapters' cases, ledger `append`, decisions and gates, bundle, verifier | docker and HTTP failures, services that answer without acting, a killed run, edits of the hashed core | what is reported erased is gone; a PASS is of one core and of its own evidence |
| Qwen-TOFU campaigns (`src/experiments/run_qwen_tofu_kaggle_v1..v3.py`, `llm_unlearning_v*.py`, `src/scripts/verify_qwen_tofu_kaggle_v*.py`) | protocol, trials, selection and result files | development, selection, confirmation, smoke run, shards, verifiers | the protocol edited during the run, two processes on one directory, kills between and inside writes | an accepted result is due under its protocol; confirmation is blind |
| Sealed challenges (`src/external_challenge`, `src/external_temporal_challenge`, `src/external_ghostgraph_challenge`, `src/external_transfer`, source-locked holdout) | suites, keys, packages, predictions, scores, attestations on disk | seal, predict, freeze, score, sign, verify | hand edits, losses and kills between any two statements; tools out of turn; a moving worktree | a verifier's PASS was earned on what was sealed |
| Measured service experiments (`src/experiments/run_measured_multiservice_v1.py`, `run_postgres_physical_pilot.py`) | PostgreSQL, Redis and Qdrant, models, output directory | start, populate, two strategies, audit, tear down | any command may raise, kills anywhere, reruns | verdicts are true of the stores; services are not left behind |
| Proof bundles (`proof_bundle.py`) | none | recompute a declared bundle | - | accepts only what it recomputes |
| Conformance (`rse_conformance.py`, `formal_conformance.py`, `ghostgraph_conformance.py`) | none | compare with the Lean statements | - | equal on enumerated inputs |
| Model remediation | none | decision tables and hashes | - | stateless |
| Baselines, benchmarks, metrics, unlearning measurements, privacy attacks | none that outlives a call | generated cases, statistics, training | floating point | out of reach here |
| CLI, codec, showcase, reports | none | parsing, printing, HTML | - | formatting |
| Other experiment services (`src/experiments/`) | containers of third-party services | Docker and HTTP drivers | network | I/O around the parts above |

How they interact. `evaluate_rse` is the oracle of both stabilization cuts; the
labs install the plan a cut returns and replay the workflows the analysis was
told about. GhostGraph turns surviving hypotheses into the topology envelope of
the robust cut. `exact_cdc` and `greedy_cdc` call path classification and the
multi-view verifier on each candidate set. The subject audit consults the
evidence ledger envelope by envelope. `run_erasemap` strings discovery, deletion
cut and robust cut together, and a temporal certificate is issued on the result.
The control plane drives one customer's demonstration through fixed stages. The
campaigns and challenges put programs around these algorithms that communicate by
files: what one tool wrote is what the next one, or a verifier on another day,
believes.

## 2. The modules

| Module | Models | State and actions against the code |
|---|---|---|
| `TemporalTransitions` | transitions, coverage and the reference verdict | operators only: `CoverageComplete` is `evaluate_coverage`; `Reachable` and `RSEVerdict` define what the search must compute |
| `RegenerationSearch` | `evaluate_rse`, and the system its verdict is about | `queue`, `visited`, `current`, `pending` are its locals; one action per branch of the loop (`Dequeue`, `Skip`, `FindRegeneration`, `Discover`, `ExceedLimit`, `Exhaust`); `RunWorkflow` is the environment and interleaves with the search |
| `RegisteredWorld` | the promise, abstractly | a set of facts that is prepared, then changes only by unguarded registered transitions; `PromiseKept` is what a verdict promises |
| `ExactStabilizationCut` | both branch and bounds, one recursion step per action | `stack` holds the pending calls of `search`, `best` the plan so far, `problem` the evaluation of each guard set |
| `StabilizedWorld` | cut, envelope and real topology composed | extends the cut with problems computed from envelopes; `Install` puts the plan in force, `RunWorkflow` runs any one topology of the envelope; problems without an envelope run the cut alone |
| `StoreTrials` | the trials that drive the stores | operators: a trial is the sequence of store operations it makes; the two planners and what the analysis predicts |
| `MultiCarrierLab` | the stores, write by write | `todo` is the list of operations still to make; each write is an action; `Crash` and `KillInWrite` start the trial again on the disk as it is; receipts, their chain and the nonces of the pilot |
| `ServiceStudy` | the two experiments on real services | `script` is what the process still has to do; each command and file operation is a step that may raise; `__exit__` and `finally` are scripts of their own |
| `EvidenceEnvelopes` | ledger, verification and audits as processes | `Pass` is the SELECT and the checks, `Consume` the INSERT; `consumed` is the table, `noted` the in-memory set of each ledger object; `Expired`, `Attested` and `Waits` are `validate_evidence`, `AuditStatus` is `audit_subject` |
| `ControlPlane` | server and pages | `Serve` runs one handler under the lock; a call is sent, answered and received in three steps; `Select` and `Approve` are the page script's handlers up to their `await` |
| `CausalGraph` | graphs, actions, paths, channels, verdicts | operators; `After` applies actions in id order, `Settled` is what an unverified effect counts as |
| `CausalDeletionCut` | `exact_cdc`, one recursion step per action | as the stabilization cut, with the partial plan |
| `GreedyDeletionCut` | `greedy_cdc`, one round per action | `chosen`, `remaining` and the ratio rule |
| `CausalErasure` | a request planned exactly or greedily, then carried out while data flows | `real` resolves every UNKNOWN one way; `Execute` does one action of the plan, `Flow` moves data along a real edge |
| `GhostGraph` | traces, version space, planner, policy, guards | operators over a catalogue of edges |
| `GhostGraphDiscovery` | one trial of the experiment, or one run of the policy | `Probe` is a round of the loop with any trace the noise allows; `Guard`, `Round` are the cut and the replay in the real graph |
| `UnifiedPipeline` | `run_erasemap`, then a certificate, while the system drifts | extends `GhostGraphDiscovery`; `RunEraSeMap` joins the verdicts and installs the plan, `Issue` signs, `Alter` edits the certificate on its way, `Drift`, `Flow` and `Tick` are the environment; `Check` changes nothing, and its answer is evaluated in every state |
| `ArtifactPlanning` | `exact_plan`, `greedy_plan` | `calls` holds the pending calls of `search`; `cheapest` and `closest` are its two results |
| `ErasurePlans` | a deletion planned over the graph, or a cover planned over artifacts | extends `CausalErasure` and `ArtifactPlanning`, which share no state |
| `OpenTransfer` | decisions, plan search, gates of `open_transfer.py` | operators |
| `TransferCampaign` | one process of the campaign and its verifier | `at`, `line` are the part of the run and its next step: a run is a sequence of parts (`FullRun`, `SmokeRun`), a case of an adapter a sequence of steps (`CaseOps`); each docker command, request and file operation is a step that may fail, and `status` says whether an exception unwinds; `containers`, `ledger` and `files` are what is left behind |
| `TofuSelection` | gates, robust point, development candidate | operators over numbered paths and alphas |
| `TofuCampaign` | the campaigns file by file, and their verifiers | `proc` holds each process' program, its counter and its locals; `files` is the directory they share, `protocol` the version of the protocol file, `views` the author splits that each process takes from later reads of it |
| `ChallengeTools` | the tools of six challenges as sequences of statements | operators: a tool is a sequence of statements (`Refuses`, `Reads`, `Hashes`, `Matches`, `Checks`, `Writes`, `Do`), a book the tools in the order of the instructions |
| `SealedChallenge` | a challenge on disk, from authorship to verification | `at`, `line` is the statement that runs, `mem` and `bytes` what it parsed and hashed, `fixed` what each sealing fixed (in a holdout the cases `Built` from the sources); the disturbances are `Edit`, `Lose`, `EditCode`, `Kill`, `KillInWrite`, `StopAdapter` and `Jump` (a tool out of turn) |

`MC*` modules give the constants of the runs. `*_proofs` modules hold theorems,
and `DataInduction` the lemmas about finite data that several of them cite:

| Proofs | About |
|---|---|
| `SearchAndTransfer_proofs` | `evaluate_rse` and the world its verdict is about; the open transfer campaign |
| `StabilizationAndTofu_proofs` | the stabilization cut, the world a plan is installed in; the TOFU campaigns |
| `MultiCarrierLab_proofs` | the stores: their backups, the abstract world they implement, its promise, the pilot's receipts |
| `Protocols_proofs` | the nonce ledger and the audits on it; the bank control plane; the sealed challenges |
| `ServiceStudy_proofs` | the measured experiments: their scripts, audits and clean-up |
| `ErasurePlans_proofs` | the deletion cut, its execution, both greedy planners, the artifact planners |
| `UnifiedPipeline_proofs` | discovery, the global policy, guards, the pipeline and its certificates |
| `DataInduction` | least elements, sums over finite sets, functions on `0..n`, closures, stacks |

In every module, a definition that a comment calls "a mutant" is a plausible bug:
the property it belongs to fails once the real definition is replaced by it.

Abstract specifications and refinement. `RegisteredWorld` is the abstract
specification of everything that runs under an RSE verdict. `MultiCarrierLab`
maps its files to facts (a backup is a fact only while its key opens it), its
control file to guards and its stage to a mode, and implements the abstract
specification (`ImplementsWorld`): every physical write during a replay is one
registered, unguarded transition or a stutter. The pure search algorithms are
refined in another way: the recursion, with its pruning, is compared state by
state with a definition of the answer (`RSEVerdict`, the minimum over all sets of
controls, the least violations).

## 3. What each run checks

| Run | Shows | Properties | Distinct states |
|---|---|---|---|
| `regeneration_search` | the search answers what reachability defines, with a shortest witness that replays; it raises only over the limit; no interleaving of running workflows breaks `RSE_VERIFIED`; it returns | `AnswerIsExact`, `VerifiedNeverRegenerates`, `SearchReturns` | 96,385 |
| `stabilized_world` | pruning loses no optimum in (cost, count, ids), and `INFEASIBLE` is real; the installed plan holds in whichever topology is real; nothing cheaper does; a refusal is justified | `CutIsExact`, `InstalledPlanHolds`, `CutIsNeeded` | 11,181 |
| `carrier_lab` | every trial on the stores, write by write, killed between or inside writes and rerun: they implement the abstract world and behave as predicted, receipts stay true; the experiments on real services report what is so and clean up | `PredictionMatchesStores`, `ReadersSeeOneGeneration`, `ReceiptsAreTrue`, `MeasuredErasureIsReal`, `StudyCleansUp`, `ImplementsWorld` | 52,026 |
| `evidence_envelopes` | two audits on one ledger, killed and rerun | `AcceptedOnce`, `EvidenceBacksItsRun`, `AuditsEnd` | 576,633 |
| `recorded_nonce` | expected violation, see Findings | `RecordedIsNotAccepted` | - |
| `control_plane` | two pages on the same customers | `LogIsLifecycle`, `ScreenIsThePast`, `StaleApprovalIsRefused` | 91,520 |
| `wrong_customer` | expected violation, see Findings | `ApprovalIsForShownCustomer` | - |
| `causal_erasure` | `exact_cdc` is `brute_force_cdc`, complete and partial plans alike; `exact_plan` finds no dearer plan than there is, `greedy_plan` is as complete and within the harmonic factor; a plan carried out keeps data out, whatever UNKNOWN was; refusals have a reason; greedy cuts miss no complete plan when actions only close | `PlansAreBest`, `ErasedDataStaysOut`, `RefusalHasAReason`, `GreedyFindsACut` | 246,843 |
| `ghostgraph_discovery` | confident verdicts are right; probing stops only when nothing can be learnt; guards, the pipeline's verdict and certificates hold in the real, drifting graph; the policy keeps its certificate and exists exactly for identifiable spaces | `ConfidentIsRight`, `StopsOnlyWhenInseparable`, `CertifiedStaysErased`, `PolicyIsRight` | 1,247,356 |
| `transfer_campaign` | a campaign whose commands, requests and services fail, that is edited and killed: reported erasure is real, evidence belongs to its case, only docker itself leaks, a PASS is of one core, an undisturbed run passes, the plan search finds the oracle's plan | `ReportedErasureIsReal`, `EvidenceIsOwn`, `LeaksAreDockers`, `PassIsOfOneCore`, `QuietRunPasses`, `SearchFindsOraclePlan` | 114,108 |
| `tofu_campaign` | two processes on one directory, with the protocol edited under them: an accepted result is due under the protocol on disk, was run with its recipe and author splits (v3, two windows excepted), and was confirmed only after its choice was written; the selection is the robust one | `AcceptedIsDue`, `RanItsProtocol`, `ConfirmationIsBlind`, `QuietRunIsAccepted`, `SelectionIsRobust` | 141,165 |
| `sealed_challenge` | whatever is replaced, lost, torn, killed or run out of turn, a verifier's PASS was earned against the sealed answers, and on the sealed cases unless a blind package was replaced; left alone, every challenge gets there | `PassIsEarned`, `BundleIsWhatWasJudged`, `QuietChallengeIsAccepted` | 1,146,017 |

Things worth knowing about what holds:

- `VerifiedNeverRegenerates` needs `SensorsAreExhaustive`: every workflow that
  runs belongs to a required sensor, and a sensor that reports at all reports
  each of its running workflows. This is what the code relies on and cannot check.
- `ConfidentIsRight` needs the real graph among the hypotheses and traces no
  worse than `trace_error_budget`; both are fields of `DiscoveryEvidence` that a
  caller vouches for. The runs include trials whose real graph is not listed:
  there the code may well answer `GRAPH_DISCOVERED`, and the experiment counts it.
- `CertifiedStaysErased` says first that guards hold in the real graph, which is
  not evident: scenarios list relevant edges only, while the real graph replays
  all of its edges. It holds because an edge outside every simple recovery path
  cannot bring the target to a residual node.
- `build_topology_envelope` looks survivors up by id and never compares
  `path_signatures`. A graph registered anew under an id that discovery reported
  is taken for the discovered one, and the pipeline may answer
  `COMPLETE_WITHIN_ENVELOPE`, although `unified.py:133` calls a stale report
  "uncertainty, never success". The property therefore covers the verdict only
  while the catalogue still names the graphs that were discovered. A valid
  certificate is covered in any case, by the coverage obligation of its context.
- A drift that is undone before the next check may have brought data back while
  the certificate is `VALID` at every check. What is promised past the first drift
  is only that, while the certificate is valid, no start regains a residual.
- `exact_plan` prunes at `cost >= best` although plans of equal cost are ranked by
  count: with free actions it may return `{1, 2, 3}` where `{3, 4}` costs the
  same. Cost and completeness are right, which is what `PlansAreBest` says of it.
- The verifiers of v1 and v2 of the TOFU campaign accept a result whose run began
  under another recipe, as those programs hash the protocol at the end only;
  `RanItsProtocol` is about v3, which hashes it before it creates its directory.
  An edit before there is a directory is excluded there.
- v3 takes the author blocks not from the protocol it hashed but from later reads:
  the development pairs from one when it opens the data (line 951 of the runner,
  `qwen_tofu_v3_data.py:246`), the confirmation blocks from one between two
  hashes (`run_qwen_tofu_kaggle_v3.py:397`, `qwen_tofu_v3_data.py:306`). A version
  put in for just such a read and taken out again leaves a result that the
  verifier accepts though it was developed, or confirmed, on other authors.
  `RanItsProtocol` says that there are no other such windows.
- The commitment in a blind package is not keyed and is compared only with the
  cases beside it (`seal.py:80`, `seal.py:86`). Who replaces both before the
  predictions are made has them scored, and `submission.py:136` accepts: no tool
  consults a commitment published elsewhere. Of a replaced package `PassIsEarned`
  says that its cases have the ids of the sealed ones, and that its commitment is
  another than the sealed one unless the cases are the same.
- A holdout commits to the cases and verdicts that are derived from families and
  mapping ids, not to excerpts, locators and rationales: other sources that
  give the same cases pass (`external_cases.py:43`, `holdout_commitment.py:72`).
- The transfer campaign checks neither the status of Qdrant's snapshot `DELETE`
  nor, per seed, the shared artifact root of MLflow before a fault; the order of
  faults is what makes `QuietRunPasses` hold. `ReportedErasureIsReal` lets an
  unchecked snapshot stay.
- The temporal challenge's score reads the answers and predictions again after
  their hash was compared; `BundleIsWhatWasJudged` excepts a replacement while a
  verifier runs. Its documented commands, run inside the worktree, are refused by
  the runner's own check for a clean tree.
- A service study that fails in `__enter__` never reaches `__exit__`: services
  leak. Its output directory exists by then, so no rerun can produce a result;
  `StudyCleansUp` says both.
- `ErasedDataStaysOut` is restricted to data that, when the last action is done,
  is in a node of the subject or in a source. Data that has flowed further may
  still arrive in a sink; the graph promises nothing about it.
- `GreedyFindsACut` needs actions that only close things and a channel required
  by name. Without the first, greedy search stops in states from which two
  actions together would help. It also needs siblings closed together: with two
  parallel edges that different actions close, each action alone removes no path,
  no candidate improves anything, and `greedy_cdc` gives up although both actions
  make a complete plan. (The proof found this; the smaller instances had not.)
- An audit that dies between its commit and its report has spent its nonces: the
  same evidence file cannot become `COMPLETE` again. Two audits that race for one
  file may both end without `COMPLETE`. Both are the safe side and allowed.
- `COMPLETE` may rest on evidence that has expired: `evidence.py:38` lets the
  attested destruction of an erased backup's key outlive its `expires_epoch`, which
  `InItsWindow` says; the command line's bound on its age still holds. The original
  plan asks for "non-expired evidence [...] for every kind"
  (`docs/superpowers/plans/2026-08-21-erasemap-core-audit.md:474`). Evidence that
  names no expiry never lapses.
- The same holds for the programs that refuse an existing output (transfer, TOFU,
  pilot, storage and service experiments): killed once, they are never resumed,
  and their torn files are never accepted.

## 4. Bounds

| Run | Bound | Why it is enough |
|---|---|---|
| `regeneration_search` | 4 facts, 3 workflows out of 7 shapes, `MaxReachableStates = 4` | cycles, consuming and forbidding workflows, dead ends and joins all occur; the limit is met and missed by one; every registry, every set of observations with each flag, foreign sensors |
| `stabilized_world` | 3 workflows, 2 topologies per envelope; without an envelope 3 controls, 2 guarded transitions, all monotone verdicts with RAISED anywhere; `MaxExactControls = 3` | a nominal topology and one mutation is the least in which a plan may hold in one and not in the other; every shape of tie (equal cost with other count, equal count with other ids, zero costs); depth 3 has all prune and give-up positions |
| `carrier_lab` | all 16 carrier sets, every unverified attestation, every shift of the topology, a pilot that erases 2 of 3 subjects; `MaxCrashes = 2`; 5 studies of 2 or 3 people, 3 timings, `MaxRuns = 2` | two kills reach every pair of half-finished trials on one root; with a third subject a deletion can hurt somebody else and a receipt has a predecessor and a successor; study seeds of both parities and every remainder, one seed in both lists |
| `evidence_envelopes` | 2 processes, 3 runs, 2 epochs, 4 files, 2 graphs | a race, a crash and a rerun fit; at epoch 1 one evidence is of the future, one has expired, one still propagates and one has expired and counts nevertheless; at epoch 2 others are too old |
| `control_plane` | 2 pages, 2 customers, `MaxCalls = 3` per page | the first call loads the page, two more can cross; `Begun = {4}` puts the other customer near the end so that `COMPLETE` is reached |
| `causal_erasure` | 3 nodes, 4 edges with a parallel pair, 3 actions out of 9 plans; without a graph 3 actions, all 256 choices of complete sets; for artifacts 3 of them and 5 actions, `MaxExact = 4` | a direct and an indirect path, an UNKNOWN node, an UNKNOWN parallel edge, an old channel; non-monotone problems (more actions, worse result); free actions, ties and the limit of permitted actions |
| `ghostgraph_discovery` | 4 nodes, 6 edges, 10 graphs, spaces of 1 and 3, 3 probes, noise 0 and 1; 5 of the trials go on to the pipeline, with 3 catalogues, 3 offers of controls, `DriftEdges = {4, 5}`, `MaxDrifts = 2`, `Lifetime = 1`, `MaxEpoch = 2`, `MaxExactControls = 4` | clean, dirty, two-start, same-trace and same-path graphs; one disturbed bit in each probe separates budget per trace from budget in total; two drifts can undo one another, the certificate expires within the run, a missing and a re-registered graph |
| `transfer_campaign` | one seed, 3 families, 4 faults; `MaxFull = 2` disturbances of a full run, `MaxSmoke = 3` of a smoke run; all catalogues of up to 3 small controls | a failure and the failure of its clean-up, or an edit and its undoing, is the least that could hide; the smoke run has the same steps in fewer cases |
| `tofu_campaign` | 5 protocol versions, 5 developments, 2 units, 2 paths of 5 alphas, `Width = 3`; 1 or 2 disturbances; 1 or 2 processes | versions that differ in bar, recipe, author split, seeds and freezing; developments with no run of three, two runs, ties; an edit and its undoing needs two disturbances |
| `sealed_challenge` | 7 public contents, 3 commits, 2 disturbances (3 for transfer, 1 for defective suites) | replacing two files consistently, or one file twice, takes two; one of the contents is other sources for the same holdout cases; suites with a leak, a duplicate, too few or an unrunnable case are sealed too |

Bounds on counters (`MaxCrashes`, `MaxRuns`, `MaxCalls`, `MaxDrifts`, `MaxEpoch`,
`MaxFull`, `MaxSmoke`, `left` of a scenario) are constants in guards of
environment actions; no step of the code is cut off by them. Deadlock checking
is off where the modelled call returns or where users may stop acting; the
modules of trials, campaigns, challenges and discovery have an explicit step for
the end instead, so that TLC reports any other stop.

## 5. Fairness and termination

- A function call runs to its end: weak fairness of `SearchStep`, with which
  `SearchReturns` is checked, and of planning in `CausalErasure` and
  `ErasurePlans`. Nothing of the environment (workflows, data flow, execution of a
  plan) is fair.
- An audit process runs until it reports or dies: weak fairness of `AuditStep`
  per process, for `AuditsEnd`. Starting, recording and crashing are not fair.
- The evaluator of a challenge goes on: weak fairness of `StartTool \/ Statement` in
  `SealedChallenge`, for `QuietChallengeIsAccepted`. A tool is a straight sequence
  of statements, and whoever takes part runs the next one when one has ended.
  Disturbances are not fair and are bounded.
- The HTTP server is a `ThreadingHTTPServer` and the page awaits answers: weak
  fairness per page of serving or receiving some call. Clicks are not fair.
- The other specifications state safety only. `QuietRunPasses` and
  `QuietRunIsAccepted` speak of runs that ended, and a run that stops short of its
  end would be a deadlock.
- Symmetry is not used: ids take part in comparisons.

## 6. What is proved

Eight modules hold theorems, for every value of the constants under the named
assumptions of the modules. What is assumed of data that a Python program always
has finitely much of is that it is finite (facts, nodes, edges, actions,
channels, probes, graphs, artifacts, remediations) and that ids are numbers.
A claim about finite data that needs induction is proved by its least
counterexample: `DataInduction` shows that a nonempty set of naturals, or of
subsets of a finite set, has a least member, and from that that a function
defined by recursion over `0..n` or over subsets exists and is unique.

`SearchAndTransfer_proofs`, the search: `TypeCorrect`, `VerifiedIsSafe`, `AnswerIsAlwaysExact`.
For `VerifiedIsSafe` the invariant `IInv` says that each visited state is expanded,
queued, or being expanded with only pending transitions open (`Frontier`), that
visited states are clean, that a clean verdict is given with queue and pending empty
and complete coverage (`Finished`), and that the world is in every set of states that
has the snapshot and is closed under the running workflows (`WorldIsReachable`). At
`RSE_VERIFIED` coverage makes every running workflow registered and `Frontier` makes
`visited` such a closed set, so the world is visited, hence clean. For
`AnswerIsAlwaysExact`, `ExactInv` adds what breadth-first search knows: entries come
with runs that lead to them (`EntriesLead`); the queue is sorted by length, in two
lengths at most, everything within the length of the current path is visited, and no
queued state is within reach of a shorter run (`BreadthFirst`). `Frontier` carries
`BreadthFirst` over the moment at which the lengths grow: before the first longer path
is taken, the level before has been expanded. That `Reachable` is the least closed set
with the snapshot (`ReachableIsLeast`) makes the visited states the reachable ones.

`SearchAndTransfer_proofs`, the campaign: `CampaignInvariant`, `LeaksAreOfDocker`,
`PassMeansOneCore`, `EvidenceIsOfTheCase`, `ErasureReportsAreReal`, for any number of
disturbances of a full and of a smoke run. The program is a fixed sequence of parts and
steps, so what the ten cases have in common is stated once of the sequences: which steps a
case has and where it marks and records (`Belongs`), in which order it looks and applies
controls (`InOrder`), what is done before it records (`IsComplete`), and where Keycloak is
up (`ServiceRuns`). On these rest the parts of `CampaignInv`:

- `RunOK`: the run is at a step of its part, or an exception unwinds from there.
- `DockerInv`: a service runs only where its part is between start and stop, and the other
  containers that exist are no more than the failures of docker. This is what makes the
  `finally` clauses needed: without one, a container would be left that nobody counts.
- `CoreInv`: records carry the hash taken before the first case, and provenance is written
  only at the end of a full run.
- `EvidenceInv`: the lines of the case at hand are consecutive and start at `mark`, no line of
  a later case is there, and a live client numbers the next line with its place.
- `ErasureInv`: with `Done`, the looks and controls of the case so far, what the service
  holds agrees with what was seen (`QdrantInv`, `MlflowInv`, `KeycloakInv`): a `no` stays
  true because whatever comes later in the case brings nothing back.

The plan search of the campaign has a theorem of its own, `SearchAlwaysFindsOraclePlan`,
for catalogues of any length (`CataloguesAssumption`). A call is a function of its index,
chosen ids and best plan, and such a function exists because a call only makes calls of
a greater index: it is put together one index after the other. `GoodAnswer` says what a
call answers: the best of what it was given and of all complete extensions of its ids
by controls that are left, in the order of (cost, count, ids).

`StabilizationAndTofu_proofs`, the cut: `CutTypeCorrect`, `CutIsAlwaysExact`,
`InstalledPlanAlwaysHolds`, `CutIsAlwaysNeeded`. `NothingLost` is the heart of the cut:
every permitted set that verifies is no better than the best plan, or extends some
pending frame of the stack. Pruning keeps it because a subtree's cost and count only
grow; a leaf that is given up has itself been evaluated. An empty stack leaves only the
first alternative. Assumed is that the total of a set is the sum of its costs
(`ProblemsAssumption`); verdicts need not be monotone. An envelope verifies only if each
of its topologies does; there coverage makes what runs registered, and the reachable
states are a set of clean states that nothing unguarded leads out of (`Refuge`); from
the installation on, the real topology is in such a set. Conversely, a set of controls
that does not verify an envelope with complete coverage leaves a topology with a
reachable state that holds subject data, since reachable states are closed
(`ReachableIsClosed`): refusals and costs are needed. Assumed: envelopes are well typed
and their sensors exhaustive (`EnvelopesAssumption`).

`StabilizationAndTofu_proofs`, the campaigns: `TofuInvariant`, `AcceptedTofuIsDue`,
`AcceptedRanItsProtocol`, `ConfirmationStaysBlind`, `QuietTofuRunIsAccepted`, for any
versions of the protocol, any measurements and any number of processes on one
directory. The programs are fixed sequences of steps, so the proof first states of the
sequences what a step of theirs is (`Turn`): where the directory is made, which trial a
confirmation adds, what is written before. The parts of `TofuInv` are then about counters:

- `RootInv`, `FilesInv`: only one process gets past making the directory, and every file is
  its file; what is there is what its program has written so far, and only the file
  at which it was killed is torn.
- `VersionInv`: a protocol that nobody edits early has been read by everybody in
  its first version.
- `LocalsInv`: the choice of a process is the one that its version of the protocol gives,
  and its trials are the planned blocks up to its counter, with that choice and recipe.
- `ViewInv`: the splits a process develops and confirms with are those of the version it
  read first, or there was an edit in one of the two windows (`swapped`); the hash it
  expects is the one of that version while nobody edits within the second.
- `ContentInv`: what an intact file says agrees with these locals: decisions and rulings
  are those of the trials, the selection names the development file that is there,
  manifests list the other files.
- `ChainInv`: the journal stands at the last state, and each state names the one before.

A verifier reads only files, and each thing it compares is one of these facts at the end
of the program: that an accepted result is due follows from what the verifier has
recomputed itself and from `LocalsInv`; that a quiet result is accepted, from all parts
together. Assumed are two different confirmation seeds in the first version
(`SeedsAssumption`), author splits that are told from none (`AuthorsAssumption`), and that
a scenario names a world and known programs (`ScenariosAssumption`).

`SelectionIsAlwaysRobust` is about the selection alone, for every table of measurements
that fits together (`TablesAssumption`). The scan of a path is a function on `0..n`,
and after `a` points it holds the run of feasible points that ends there and the wide
enough runs that ended before; joining the paths keeps every interval; the order of the
keys is linear, so the first in it is the least, and its lower middle is feasible.

`Protocols_proofs`, the nonce ledger: `NonceIsAcceptedOnce`, `EnvelopesTypeCorrect`,
`EvidenceAlwaysBacksItsRun`, for any number of processes, crashes and reruns. Used
nonces are consumed nonces (`UsesAreConsumed`), and a use is only added for a nonce
not yet consumed, in one step with its insertion. `EvidenceInv` follows the
evidence of one run from its check to its report: a consumed nonce was used by an
envelope that passed (`ConsumedIsUsed`); a run about to insert
holds an envelope that passes (`AboutToConsume`); a verified artifact has a use
of this run (`VerifiedIsUsed`); and a report `COMPLETE` is what `audit_subject` says of
the graph and the evidence the run has (`ReportIsFounded`), from which the window of each
evidence follows, with the exception for destroyed backup keys. The expiry `None` is no
number (`NeverAssumption`), and there are artifacts (`GraphsAssumption`).

`Protocols_proofs`, the control plane: `LogAlwaysLifecycle`, `ScreensShowThePast`,
`StaleApprovalsAreRefused`, for any number of customers, pages and calls, answers
in any order. `PageInv` says that stages only grow within the lifecycle
(`StagesOK`), and that every snapshot on a page or in an answer is no further than
its customer, while an approval on its way asks for the action that follows the
stage its page showed (`ScreensOK`). The lifecycle has no action twice, so a
customer who accepts that action is at that stage: this turns the invariant into
the action property.

`Protocols_proofs`, the sealed challenges: `AcceptedPassIsEarned`, `JudgedIsDeclared`, for
any suites, substitutes, histories of the algorithm and number of disturbances. The
tools are fixed, the order in which they run is not, and neither is what lies on the disk
when they do. So the invariant `ChallengeInv` says two kinds of things.

- Of each file, wherever its content came from, what any content of its name satisfies
  (`Legit`, `ContentsInv`): a package carries a ciphertext that was sealed, and
  the public cases sealed with it unless the package was edited; a temporal commitment names a sealed suite;
  predictions are what the commit they name predicts, unless they were edited or the
  worktree changed meanwhile (`PredictionsHold`); a manifest names exactly the files of its
  protocol, and in a holdout a summary that was computed and a provenance whose sources
  give its cases (`BuiltAssumption`). Hand edits change fields that none of this is about (`EditsLegit`), a torn file is
  never parsed, and a lost or stale one is at worst an old one. The only tools that could break it
  are those that write such files (`WhoWrites`, `WritesLegit`).
- Of the tool that runs, what its statements so far have established: `Done` is their
  number, `ReadInv` what has been parsed and hashed. `TemporalPredictInv` and
  `HoldoutPredictInv` follow the two runs whose outputs are later trusted, one invariant
  per verifier what each check has shown, and `BundleInv` that a compared file stays
  what it was compared with while the verifier runs. A kill, a failure or a tool out of turn
  falls back to `Done = 0`, where the first kind is all that is needed.

A step touches one statement, one hand edit or one begin (`ChallengeStepsAre`), and per
verifier one lemma treats its statements (`BlindVerifyGoes` and its siblings), another
everything else (`BlindVerifyStays`). At acceptance all statements of the verifier are
done, and the property follows from its invariant and from `Legit` of what was parsed.

`ErasurePlans_proofs`: `PlansAreAlwaysBest`, `ErasedDataAlwaysStaysOut`,
`RefusalsAlwaysHaveAReason`, `GreedyAlwaysFindsACut`.

- `exact_cdc` (`CutInv`): every permitted set is ahead in a pending call or `Settled`:
  while no complete plan is known nothing has been cut off, so a settled set is
  incomplete and its violations were weighed against `partial`; once one is known, only
  complete sets count, and one that was cut off costs more, or as much with more
  actions. `SettledStays` carries a set from the first meaning to the second. Verdicts
  need not be monotone, which is the point: actions undo one another.
- Execution (`ErasureInv`): the real system is always one that the graph, changed by the
  actions done so far, allows; data that left the subject or a source after the last
  action followed a `Trail` through it; a trail into a sink would be a path of the graph
  after the plan (`TrailIsSinkPath`), of which a complete plan leaves none.
- Refusals: with every UNKNOWN part open, a listed path of a refused set is a real leak.
- The greedy cut: in a graph that only closes, a violation that is left and that the
  better set removes is removed by one action of it, siblings together
  (`SomeActionHelps`), so the greedy planner never stops early.
- Covers (`CoverInv`): `exact_plan` is done with a set of actions once it is dearer than
  what is known or no closer; suffix coverage cuts off only sets that cannot complete.
  The greedy cover pays for each artifact it newly covers at most an average price of
  the open artifacts in any complete plan (`PickIsAverage`), which sums up to the
  harmonic factor; the model's sums of fractions are over a common denominator
  (`FactorialDivides`, `HarmonicGrows`).

`UnifiedPipeline_proofs`: `ConfidentIsAlwaysRight`, `StopsInTime`, `PolicyIsAlwaysRight`,
`CertifiedAlwaysStaysErased`. What has been observed is within the noise of the truth, so
the real graph survives (`TruthSurvives`). Guards that cut every recovery path of a graph
keep the target from its residual nodes in the whole graph, by a shortest trail that
could be made a simple path (`GuardsAreEnough`): edges outside every recovery path do not
help. That the cut chosen is one of the cuts needs that the order on sets of edges is
linear (`GuardsTotal`, `GuardsTransitive`). The policy recurses over the probes left;
`PolicyMeaning` says what its decision promises for each set of graphs and probes, and
`PolicyRun` that the run stays within the promise. A certificate is valid only while the
topology and everything it covers are what they were when the guards were computed
(`ServingInv`).

`MultiCarrierLab_proofs`: `ReadersAlwaysSeeOneGeneration`, `StoresImplementWorld`,
`PromiseIsKept`, `PromisedStoresStayEmpty`, `PilotReceiptsAreTrue`, for any subjects of the
pilot, any trials and any number of kills between two writes or inside one.

- `BaseInv`: the operations still to make are a suffix of those of the stage. What the
  proofs need of the operation sequences is stated of sequences in general (`Contains`,
  `Follows`, `Never`, `Uses`) and proved of each stage from its parts
  (`ProgramsArePlanned`): only the first stage puts data; a ciphertext is followed by its
  key; construction drops what it put; a replay rebuilds the vector index after the
  workflows and before the model.
- Backups (`GenInv`): a key that does not open the ciphertext, and a ciphertext that is
  half written, is going to be replaced before anybody reads it; after a kill this holds
  again since the trial starts over with the stage that puts both.
- The refinement (`HoldInv`): in the stage that empties the stores, every subject entry
  still there has its drop to come (`Clearing`); then nothing is there, and the controls
  and the tombstone are installed or their installation is to come (`Installing`); a key
  that the trial does not leave is dropped (`KeyGoes`, `Destroying`). None of this speaks of
  what earlier, killed trials left, and so a rerun re-establishes it from any disk. When the
  stage is over, the facts are carriers whose reactivations are guarded: that is `Stable`,
  since the search answers a verified plan only for those (`VerdictClean`, `LatentPlans`,
  `SinglePlanIs`: what `exact_stabilization_cut` must return on the registered workflows is
  derived, not tabulated).
- In a replay each write is one `Run` of the world (`ReplayStep`); the rebuild of the
  model is `ModelRetrain`, whose requirement holds as the vector index was rebuilt before
  (`Rebuilding`, `ModelComesLast`).
- The promise: the facts stay in a `Refuge`, a set of clean states that no unguarded
  transition leads out of.
- The receipts (`PilotInv`): until all subjects are enrolled, each file is there or its put
  is to come, and nothing has been audited or issued (`Enrolled`), which a killed pilot
  re-establishes from any disk. From then on `Progress` counts the operations done for the
  subject in hand, and all that is on disk and on record is a function of it: which
  stores hold which subject (`StoresErased`), how many audits there are and what they found
  (`AuditsMade`), and every receipt down to its link to the one before (`ReceiptsMade`). So
  a deletion finds only its own subject's entries gone, each receipt is accepted by its
  own verification and by no later one, and the pilot's final comparison succeeds.

`ServiceStudy_proofs`: `ErasureIsMeasured`, `StudiesCleanUp`, for any number of people,
any lists of seeds and any measured times. The process follows its script until an
exception, so the invariant `StudyIInv` is about how far it is.

- The scripts, by themselves: a trial is a block of 25 operations in one of two orders,
  every audit of a study is inside such a block, every holdout seed is audited twice
  before the result is written, and a `stop` follows everything done inside the services
  (`ScriptInv` says where in this the process is).
- `TrialsInv`: for a block that starts at offset `b`, the stores of both strategies hold
  everybody up to a certain operation and everybody but the target from then on
  (`TrialFacts`), a table for each of the two orders of the remediations. This
  is re-established by every trial, from whatever the one before left. So each audit
  finds its target gone and nobody else, whichever strategy it measures.
- The planner is pure whatever the calibration measured: of the complete plans, all four
  targeted actions cost one part each, and a rebuild added to anything
  is beaten by the rebuild alone (`PlanIsPure`).
- `StudyPlace` and `PilotPlace`: which services, directories and records there are at each
  operation; every way out leads through the clean-up once the services are entered.

Only model-checked are

- liveness (`SearchReturns`, `AuditsEnd`, `QuietChallengeIsAccepted`), as fairness
  and ENABLED are out of the prover's reach;
- of the stores `PredictionMatchesStores`, which speaks of a fresh root: there the run
  goes through every trial there is, so that nothing is left to a proof;
- of `TransferCampaign` `QuietRunPasses`, which speaks of the one run without
  disturbances.

## 7. Findings

- `recorded_nonce`. `SqliteEvidenceEnvelopeLedger` inherits `record`, which writes
  to a set in memory that its own `contains` and `consume` never read. A nonce
  recorded that way is accepted afterwards (`evidence_envelopes.py:73`), although
  the class is documented as a process-safe replay ledger.
- `wrong_customer`. The page's `selectCustomer` sets `currentId` before it awaits
  the new snapshot, and `executeAction` posts the shown snapshot's action to
  `currentId`. A click in between executes an action for a customer whose dry run
  was not on the page (`synthetic_bank_control_plane.py:28`).

Section 3 names more places where the code promises less than a reader may
expect; there the properties state what does hold.

## 8. Abstractions and what is not modelled

- One evaluation is one step where a cut is the subject: `StabilizedWorld` and
  `CausalErasure` tabulate `evaluate_rse` and `evaluate` per set of controls; the
  search itself is stepwise in `RegenerationSearch`.
- In `MultiCarrierLab` a document that was cut off inside a write makes every later
  reader raise, so the trial fails; a torn carrier file counts as existing. A torn
  commitment key and ties between plans that ids decide are left out.
- Ids are numbers with the order of the strings. Hashes, signatures and JSON are
  their outcome (trusted, signed, in window).
- In `GhostGraph` all graphs share one edge catalogue, as in the protocols of the
  experiments; a trace is the sequence of sets of dark and lit checkpoints. The
  retained subject is left out: no guard applies to it.
- `GhostGraph` guards are computed as the least holding set; that the robust cut
  finds it is the subject of `ExactStabilizationCut`.
- Numeric channel values enter as their decision; the list and overview endpoints
  of the control plane are read-only and left out; duplicate-id errors cannot
  arise because functions map each id once.
- Commitments, digests and ciphers are the values they are taken of, a signature
  the value and the key. In `UnifiedPipeline` the context of a certificate
  (coverage, replayed controls, revisions), which callers supply, measures what it
  names; schema versions and malformed values are left out; the verdict of the
  deletion plan is any of its values. An `UNVERIFIED` robust plan does not occur
  because the envelopes that are built have complete coverage.
- `TransferCampaign`: one seed stands for all; a response is whether a record is
  in it. A developer edit between importing and hashing the core, or one that is
  undone between two hashes, cannot be seen by the program and is left out.
- `TofuCampaign`: training and scoring are what the world measures, one metric of
  each kind; margins are not scaled; adapter directories, which no manifest lists,
  and the merging of shards, which no code does, are left out.
- `SealedChallenge`: what a case or an answer says is a value, and `Built` stands for
  the cases that `build_source_cases` makes; each sealing draws a key of its own;
  published commitments are not edited. The `core` of the transfer challenge stands for the bundle whose hash is named. Identities and
  timestamps, which are only declared, are left out, and so are
  `verify_external_freeze` and `src/external_evaluator`.
- `ServiceStudy`: Qdrant collections are counted, ciphertexts are not told apart
  from keys, the four targeted actions have one cost, and timings are what the
  clock may say. Two pilots that start at once are not modelled.
- `EvidenceEnvelopes` starts from the reachable artifacts of a subject; what the
  rules of each artifact type ask of an envelope's content is the set of states it
  is `sound` for. Roots and paths of audit graphs other than the store graph are not
  modelled; the subject audit is partial for that reason.
- Not modelled: floating-point measurement and training, generated benchmarks,
  HTML and CLI formatting, the remaining Docker and HTTP drivers, proof bundles and
  Lean conformance, GhostGraph oracles. These keep no protocol state that the
  properties could speak of.

## 9. Plan

The components that keep state or follow a protocol are modelled. What could
still be added:

1. `SubjectAudit`: roots, reachability and the content rules per artifact type,
   below `Applies` and `Attested` of `EvidenceEnvelopes`.
2. `ProofBundle`: the bundles that replay the results of the modelled components.
3. The in-memory evidence ledger shared by threads of a library caller.
4. `src/external_evaluator` and `verify_external_freeze`, as two more challenges.

Of the safety properties the runs check, `PredictionMatchesStores` and
`QuietRunPasses` have no theorem (end of section 6).
