--------------------------- MODULE TransferCampaign ---------------------------
(***************************************************************************)
(* One process of run_open_transfer_v1.py: it prepares the assets, hashes  *)
(* the core files, drives three stock services in containers through every *)
(* case, writes the evidence ledgers as it goes and the result bundle at   *)
(* the end.  Docker commands and requests fail or time out, a service may  *)
(* answer without acting, somebody edits the core files, the process is    *)
(* killed.  verify_open_transfer_v1.py may read the output at any time.    *)
(***************************************************************************)
EXTENDS OpenTransfer

CONSTANTS
  MaxFull, MaxSmoke,   \* disturbances of a full and of a smoke run
  Catalogues           \* control catalogues the plan search is checked on

ASSUME BoundsAssumption == MaxFull \in Nat /\ MaxSmoke \in Nat
ASSUME CataloguesAssumption == Catalogues \subseteq Seq(Control)

(* The steps of a case: what is exported or snapshotted is put back in a    *)
(* replayed case, and a case without coverage looks at nothing else.        *)

\* QdrantBiometricAdapter.run_case
QdrantPlain ==
  <<"mark", "create", "putSubject", "countBefore", "nativeDelete", "lookPrimary",
    "lookDerivative", "countAfter", "control", "purge", "lookAgain", "countLast", "record">>
QdrantReplay ==
  <<"mark", "create", "putSubject", "countBefore", "snapshot", "nativeDelete", "lookPrimary",
    "lookDerivative", "recover", "lookRecovered", "countAfter", "control", "purge",
    "lookAgain", "countLast", "record">>
QdrantUnchecked ==
  <<"mark", "create", "putSubject", "countBefore", "snapshot", "nativeDelete", "lookPrimary",
    "countLast", "record">>

\* _keycloak_case
KeycloakPlain ==
  <<"mark", "start", "wait", "token", "create", "putSubject", "putRetained", "countBefore",
    "nativeDelete", "lookPrimary", "lookDerivative", "countAfter", "control", "purge",
    "lookAgain", "record", "finally">>
KeycloakExported ==
  <<"mark", "start", "wait", "token", "create", "putSubject", "putRetained", "countBefore",
    "stopGracefully", "export", "start", "wait", "token", "findSubject", "nativeDelete",
    "lookPrimary", "lookDerivative", "countAfter", "control", "purge", "lookAgain", "record",
    "finally">>
KeycloakReplay ==
  <<"mark", "start", "wait", "token", "create", "putSubject", "putRetained", "countBefore",
    "stopGracefully", "export", "start", "wait", "token", "findSubject", "nativeDelete",
    "lookPrimary", "lookDerivative", "stop", "import", "bootstrap", "start", "wait", "token",
    "lookRecovered", "countAfter", "control", "purge", "lookAgain", "record", "finally">>
KeycloakUnchecked ==
  <<"mark", "start", "wait", "token", "create", "putSubject", "putRetained", "countBefore",
    "stopGracefully", "export", "start", "wait", "token", "findSubject", "nativeDelete",
    "lookPrimary", "record", "finally">>

\* The body of run_mlflow_family's loop.
MlflowPlain ==
  <<"mark", "create", "putSubject", "logArtifact", "nativeDelete", "lookPrimary",
    "lookDerivative", "control", "purge", "lookAgain", "record">>
MlflowReplay ==
  <<"mark", "create", "putSubject", "logArtifact", "nativeDelete", "lookPrimary",
    "lookDerivative", "recover", "lookRecovered", "control", "purge", "lookAgain", "record">>
MlflowUnchecked ==
  <<"mark", "create", "putSubject", "logArtifact", "nativeDelete", "lookPrimary", "record">>

CaseOps ==
  [keycloak |-> [safe_native |-> KeycloakPlain, surviving_derivative |-> KeycloakExported,
                 recovery_regeneration |-> KeycloakReplay, coverage_fault |-> KeycloakUnchecked],
   mlflow |-> [safe_native |-> MlflowPlain, surviving_derivative |-> MlflowPlain,
               recovery_regeneration |-> MlflowReplay, coverage_fault |-> MlflowUnchecked],
   qdrant |-> [safe_native |-> QdrantPlain, surviving_derivative |-> QdrantPlain,
               recovery_regeneration |-> QdrantReplay, coverage_fault |-> QdrantUnchecked]]

-----------------------------------------------------------------------------
(* A run is a sequence of parts, a part a sequence of steps.  The runner    *)
(* opens and ends it; run_keycloak_family starts a service per case, the    *)
(* others serve all their cases with one.                                   *)

Part(name, family, fault) == [name |-> name, family |-> family, fault |-> fault]
CaseOf(family, fault) == Part("case", family, fault)
Opening == Part("open", "none", "none")
Serve(family) == Part("serve", family, "none")
Close(family) == Part("close", family, "none")

\* run_live_experiment and run_live_families
FullRun ==
  <<Opening,
    CaseOf("keycloak", FaultStates[1]), CaseOf("keycloak", FaultStates[2]),
    CaseOf("keycloak", FaultStates[3]), CaseOf("keycloak", FaultStates[4]),
    Serve("mlflow"), CaseOf("mlflow", FaultStates[1]), CaseOf("mlflow", FaultStates[2]),
    CaseOf("mlflow", FaultStates[3]), CaseOf("mlflow", FaultStates[4]), Close("mlflow"),
    Serve("qdrant"), CaseOf("qdrant", FaultStates[1]), CaseOf("qdrant", FaultStates[2]),
    CaseOf("qdrant", FaultStates[3]), CaseOf("qdrant", FaultStates[4]), Close("qdrant"),
    Part("bundle", "none", "none")>>
SmokeRun ==
  <<Opening, CaseOf("keycloak", "recovery_regeneration"),
    Serve("mlflow"), CaseOf("mlflow", "recovery_regeneration"), Close("mlflow"),
    Serve("qdrant"), CaseOf("qdrant", "recovery_regeneration"), Close("qdrant"),
    Part("smoke", "none", "none")>>

Steps(part) ==
  CASE part.name = "open" -> <<"openAssets", "prepareAssets", "hashCore">>
    [] part.name = "serve" -> <<"start", "wait">>
    [] part.name = "case" -> CaseOps[part.family][part.fault]
    [] part.name = "close" -> <<"finally">>
    [] part.name = "bundle" ->
         <<"writeTrials", "hashCoreAgain", "writeResult", "writeProvenance">>
    [] part.name = "smoke" -> <<"writeSmoke">>

-----------------------------------------------------------------------------
VARIABLES
  smoke,        \* argument of the run
  at, line,     \* the part of the run, and its next step
  status,       \* "running", "unwinding" an exception, or how it ended
  core,         \* the core files on disk, by version
  frozen,       \* core_hash, taken before the first case
  sealed,       \* selected_core_hash, taken by the bundle
  containers,   \* docker containers that exist, by the step that ran them
  service,      \* the DockerService that is _running, by the step that ran it
  held,         \* what the service holds of the subject of this case
  artifacts,    \* cases of this seed whose MLflow artifacts exist
  retained,     \* the records of the others are still there
  outcome,      \* locals of the case that become its PhysicalOutcome
  again,        \* post_control_recurrence
  ledger,       \* evidence lines of each family, by the case that wrote them
  client,       \* _sequence of the live EvidenceHttpClient
  mark,         \* evidence_start
  records,      \* the records of the finished cases
  files,        \* what the output directory holds besides the ledgers
  disturbances, dockerFaults

caseState == <<held, artifacts, retained, outcome, again>>
evidence == <<ledger, client, mark, records>>
docker == <<containers, service, dockerFaults>>
campaignVars == <<smoke, at, line, status, core, frozen, sealed, caseState, evidence,
                  docker, files, disturbances>>

None == <<>>   \* no service runs

Unseen == [absent |-> FALSE, derivative |-> "unseen", recurrence |-> "unseen",
           covered |-> FALSE, before |-> 1, after |-> 1]

CampaignInit ==
  /\ smoke \in BOOLEAN
  /\ at = 1 /\ line = 1 /\ status = "running"
  /\ core = 0 /\ frozen = 0 /\ sealed = 0
  /\ containers = {} /\ service = None /\ dockerFaults = 0
  /\ held = {} /\ artifacts = {} /\ retained = TRUE
  /\ outcome = Unseen /\ again = FALSE
  /\ ledger = [f \in {Families[i] : i \in DOMAIN Families} |-> <<>>]
  /\ client = 0 /\ mark = 0 /\ records = <<>>
  /\ files = {}
  /\ disturbances = 0

Parts == IF smoke THEN SmokeRun ELSE FullRun
Here == Parts[at]
Op == Steps(Here)[line]
Doing(op) == status = "running" /\ Op = op
Advance ==
  IF line < Len(Steps(Here)) THEN line' = line + 1 /\ UNCHANGED <<at, status>>
  ELSE IF at < Len(Parts) THEN at' = at + 1 /\ line' = 1 /\ UNCHANGED status
  ELSE status' = "done" /\ UNCHANGED <<at, line>>

Disturb ==
  /\ disturbances < IF smoke THEN MaxSmoke ELSE MaxFull
  /\ disturbances' = disturbances + 1

\* A mutant: _start_keycloak does not stop what it has started.
RaiseInStart ==
  /\ status' = IF service # None /\ Op \notin {"wait", "token"} THEN "unwinding"
               ELSE "raised"
  /\ UNCHANGED <<at, line>>

\* An exception runs the finally and except clauses, which stop the service.
Raise ==
  /\ status' = IF service # None THEN "unwinding" ELSE "raised"
  /\ UNCHANGED <<at, line>>

-----------------------------------------------------------------------------
(* Containers.                                                              *)

\* service.start: docker run --detach, then _running.
StartService ==
  /\ Doing("start")
  /\ \/ /\ Advance
        /\ containers' = containers \union {<<at, line>>}
        /\ service' = <<at, line>>
        /\ client' = IF Here.family = "none" THEN client ELSE Len(ledger[Here.family])
        /\ UNCHANGED <<dockerFaults, disturbances>>
     \/ /\ Disturb
        /\ dockerFaults' = dockerFaults + 1
        /\ Raise
        /\ containers' \in {containers, containers \union {<<at, line>>}}
        /\ UNCHANGED <<service, client>>
  /\ UNCHANGED <<smoke, core, frozen, sealed, caseState, ledger, mark, records, files>>

\* docker rm -f without check: gone; refused and forgotten; or timed out,
\* which raises and leaves the service _running.
Removal ==
  \/ /\ containers' = containers \ {service}
     /\ service' = None
     /\ UNCHANGED <<dockerFaults, disturbances>>
  \/ /\ Disturb
     /\ dockerFaults' = dockerFaults + 1
     /\ service' = None
     /\ UNCHANGED containers
RemovalTimesOut ==
  /\ Disturb
  /\ dockerFaults' = dockerFaults + 1
  /\ containers' \in {containers, containers \ {service}}
  /\ UNCHANGED service

StopService ==
  /\ \/ Doing("stop") \/ Doing("stopGracefully")
  /\ IF service = None THEN Advance /\ UNCHANGED <<docker, disturbances>>
     ELSE \/ Removal /\ Advance
          \/ RemovalTimesOut /\ Raise
  /\ UNCHANGED <<smoke, core, frozen, sealed, caseState, evidence, files>>

\* finally: nothing stops the service once its removal has timed out.
Finally ==
  /\ Doing("finally")
  /\ \/ Removal /\ Advance
     \/ RemovalTimesOut /\ status' = "raised" /\ UNCHANGED <<at, line>>
  /\ UNCHANGED <<smoke, core, frozen, sealed, caseState, evidence, files>>

Unwind ==
  /\ status = "unwinding"
  /\ status' = "raised"
  /\ Removal \/ RemovalTimesOut
  /\ UNCHANGED <<smoke, at, line, core, frozen, sealed, caseState, evidence, files>>

\* What the one-shot containers of Keycloak do to the case's directories.
OneShot == [export |-> {"derivative"}, import |-> {"restored"}, bootstrap |-> {}]

\* _one_shot_container: a timeout kills the client, not the container.
RunOneShot ==
  /\ Op \in DOMAIN OneShot /\ Doing(Op)
  /\ \/ /\ Advance
        /\ held' = held \union OneShot[Op]
        /\ retained' = (retained \/ Op = "import")
        /\ UNCHANGED <<containers, dockerFaults, disturbances>>
     \/ /\ Disturb
        /\ dockerFaults' = dockerFaults + 1
        /\ Raise
        /\ containers' \in {containers, containers \union {<<at, line>>}}
        /\ UNCHANGED <<held, retained>>
  /\ UNCHANGED <<smoke, core, frozen, sealed, service, artifacts, outcome, again,
                 evidence, files>>

-----------------------------------------------------------------------------
(* The steps of a case.                                                     *)

ThisCase == <<Here.family, Here.fault>>
Of(family) == Here.family = family

\* EvidenceHttpClient.request appends a line before it returns, so a request
\* that fails may have left one and may have acted.
Appends(lines) ==
  /\ ledger' = [ledger EXCEPT ![Here.family] =
                  @ \o [i \in 1..lines |-> Here.fault]]
  /\ client' = client + lines
Silently == UNCHANGED <<ledger, client>>

InCase == UNCHANGED <<smoke, core, frozen, sealed, docker, files>>

CallsOut ==
  \/ Op \in {"wait", "token", "create", "putSubject", "putRetained",
                   "countBefore", "logArtifact", "snapshot", "findSubject",
                   "nativeDelete", "lookPrimary", "recover", "lookRecovered",
                   "countAfter", "countLast"}
  \/ Op = "lookDerivative" /\ Of("qdrant")
  \/ Op = "lookAgain" /\ ~ Of("mlflow")
  \/ Op = "control" /\ (outcome.recurrence = "yes" \/ Of("qdrant"))
  \/ Op = "purge" /\ ~ Of("keycloak")

\* A request with an unexpected status, a readiness timeout, a failed exec.
Fail ==
  /\ status = "running" /\ CallsOut
  /\ Disturb /\ Raise
  /\ Appends(1) \/ Silently
  /\ InCase /\ UNCHANGED <<caseState, mark, records>>

\* A mutant: the slice starts where the ledger does.
MarkStart ==
  /\ Doing("mark") /\ Advance
  /\ mark' = 0
  /\ outcome' = Unseen /\ again' = FALSE /\ held' = {} /\ retained' = TRUE
  /\ InCase /\ UNCHANGED <<artifacts, ledger, client, records, disturbances>>

Mark ==
  /\ Doing("mark") /\ Advance
  /\ mark' = Len(ledger[Here.family])
  /\ outcome' = Unseen /\ again' = FALSE /\ held' = {} /\ retained' = TRUE
  /\ InCase /\ UNCHANGED <<artifacts, ledger, client, records, disturbances>>

Setup ==
  [wait |-> {}, token |-> {}, create |-> {}, findSubject |-> {}, putRetained |-> {},
   putSubject |-> {"primary"}, snapshot |-> {"carrier"}]

\* Calls that put something into the service; qdrant's upsert writes the
\* materialized derivative too, keycloak looks every user up again.
Prepare ==
  /\ Op \in DOMAIN Setup /\ Doing(Op)
  /\ Advance
  /\ held' = held \union Setup[Op]
               \union (IF /\ Op = "putSubject" /\ Of("qdrant")
                          /\ Here.fault = "surviving_derivative"
                       THEN {"derivative"} ELSE {})
  /\ Appends(IF Of("keycloak") /\ Op \in {"putSubject", "putRetained"} THEN 2 ELSE 1)
  /\ InCase
  /\ UNCHANGED <<artifacts, retained, outcome, again, mark, records, disturbances>>

\* The artifact of a safe case names nobody.
LogArtifact ==
  /\ Doing("logArtifact") /\ Advance
  /\ artifacts' = IF Here.fault = "safe_native" THEN artifacts
                  ELSE artifacts \union {Here.fault}
  /\ InCase
  /\ UNCHANGED <<held, retained, outcome, again, evidence, disturbances>>

\* mlflow deletes a run by hiding it.
Deleted ==
  (held \ {"primary"}) \union (IF Of("mlflow") THEN {"hidden"} ELSE {})

\* A service may answer and not act, or take other records along.
NativeDelete ==
  /\ Doing("nativeDelete") /\ Advance /\ Appends(1)
  /\ \/ held' = Deleted /\ UNCHANGED <<retained, disturbances>>
     \/ Disturb /\ UNCHANGED <<held, retained>>
     \/ Disturb /\ held' = Deleted /\ retained' = FALSE /\ ~ Of("mlflow")
  /\ InCase /\ UNCHANGED <<artifacts, outcome, again, mark, records>>

\* Putting a snapshot, an export or a hidden run back.
Recover ==
  /\ Doing("recover") /\ Advance /\ Appends(1)
  /\ \/ /\ held' = (held \ {"hidden"}) \union {"primary"}
        /\ retained' = TRUE
        /\ UNCHANGED disturbances
     \/ Disturb /\ UNCHANGED <<held, retained>>
  /\ InCase /\ UNCHANGED <<artifacts, outcome, again, mark, records>>

-----------------------------------------------------------------------------
(* What the case sees.                                                      *)

YesNo(fact) == IF fact THEN "yes" ELSE "no"
ActivePrimary ==
  IF Of("keycloak") /\ Here.fault = "recovery_regeneration" THEN "restored" ELSE "primary"

\* _points_for_subject, export_contains_username, artifact_contains_subject,
\* which reads the artifacts of every case of the seed.
DerivativeSeen ==
  CASE Of("qdrant") -> held \intersect {"primary", "derivative"} # {}
    [] Of("keycloak") -> "derivative" \in held
    [] Of("mlflow") -> artifacts # {}
RecurrenceSeen ==
  IF Of("qdrant") THEN DerivativeSeen ELSE ActivePrimary \in held

Observe(op, lines, seen) ==
  /\ Doing(op) /\ Advance
  /\ Appends(lines)
  /\ outcome' = seen
  /\ InCase
  /\ UNCHANGED <<held, artifacts, retained, again, mark, records, disturbances>>

Count == IF retained THEN 1 ELSE 0

CountBefore == Observe("countBefore", 1, [outcome EXCEPT !.before = Count])
LookPrimary ==
  Observe("lookPrimary", 1,
          [outcome EXCEPT !.absent = ("primary" \notin held), !.after = outcome.before])
LookDerivative ==
  Observe("lookDerivative", IF Of("qdrant") THEN 1 ELSE 0,
          [outcome EXCEPT !.derivative = YesNo(DerivativeSeen),
                          !.recurrence = "no", !.covered = TRUE])
LookRecovered ==
  Observe("lookRecovered", 1, [outcome EXCEPT !.recurrence = YesNo(RecurrenceSeen)])
CountAfter == Observe("countAfter", 1, [outcome EXCEPT !.after = Count])
CountLast ==
  Observe("countLast", 1, [outcome EXCEPT !.after = IF Count < outcome.before
                                                     THEN Count ELSE @])

-----------------------------------------------------------------------------
(* The controls of a case, after it has seen what it will report.           *)

Recurred == outcome.recurrence = "yes"
\* A mutant: only a recurrence is acted on.
NeededOnRecurrence == Recurred

Needed == outcome.derivative = "yes" \/ Recurred

\* qdrant deletes every point of the subject, the others the recovered
\* object, keycloak after another search.
ApplyControl ==
  /\ Doing("control") /\ Advance
  /\ LET acts == IF Of("qdrant") THEN Needed ELSE Recurred
         erased == IF Of("qdrant") THEN held \ {"primary", "derivative"}
                   ELSE IF Of("keycloak") THEN held \ {"restored"} ELSE Deleted
     IN  IF acts
         THEN /\ Appends(IF Of("keycloak") THEN 2 ELSE 1)
              /\ \/ held' = erased /\ UNCHANGED disturbances
                 \/ Disturb /\ UNCHANGED held
         ELSE Silently /\ UNCHANGED <<held, disturbances>>
  /\ InCase
  /\ UNCHANGED <<artifacts, retained, outcome, again, mark, records>>

\* Nobody reads the status of qdrant's snapshot DELETE; mlflow gc does not
\* collect a run that is live, and then the case raises.
Purge ==
  /\ Doing("purge")
  /\ IF ~ Needed
     THEN Advance /\ Silently /\ UNCHANGED <<held, artifacts, disturbances>>
     ELSE \/ /\ Of("qdrant") /\ Advance
             /\ IF "carrier" \in held THEN Appends(1) ELSE Silently
             /\ \/ held' = held \ {"carrier"} /\ UNCHANGED disturbances
                \/ "carrier" \in held /\ Disturb /\ UNCHANGED held
             /\ UNCHANGED artifacts
          \/ /\ Of("keycloak") /\ Advance /\ Silently
             /\ held' = held \ {"derivative"}
             /\ UNCHANGED <<artifacts, disturbances>>
          \/ /\ Of("mlflow") /\ "primary" \notin held /\ Advance /\ Silently
             /\ \/ /\ held' = held \ {"hidden"}
                   /\ artifacts' = artifacts \ {Here.fault}
                   /\ UNCHANGED disturbances
                \/ Disturb /\ UNCHANGED <<held, artifacts>>
          \/ /\ Of("mlflow") /\ "primary" \in held /\ Raise /\ Silently
             /\ UNCHANGED <<held, artifacts, disturbances>>
  /\ InCase
  /\ UNCHANGED <<retained, outcome, again, mark, records>>

LookAgain ==
  /\ Doing("lookAgain") /\ Advance
  /\ again' = IF Of("keycloak") THEN ActivePrimary \in held
              ELSE IF Of("qdrant") THEN Needed /\ DerivativeSeen ELSE DerivativeSeen
  /\ IF Of("keycloak") \/ (Of("qdrant") /\ Needed) THEN Appends(1) ELSE Silently
  /\ InCase
  /\ UNCHANGED <<held, artifacts, retained, outcome, mark, records, disturbances>>

\* _record, with the ledger slice of the case.  left is not in the record: it
\* is what the service holds of the subject when the case ends.
RecordHere ==
  [decided |-> Decide(outcome, Controls), recurs |-> again, core |-> frozen,
   evidence |-> SubSeq(ledger[Here.family], mark + 1, Len(ledger[Here.family])),
   left |-> held \union (IF Of("mlflow") /\ Here.fault \in artifacts THEN {"derivative"}
                         ELSE {})]
Record ==
  /\ Doing("record") /\ Advance
  /\ records' = [c \in DOMAIN records \union {ThisCase} |->
                   IF c = ThisCase THEN RecordHere ELSE records[c]]
  /\ InCase /\ UNCHANGED <<caseState, ledger, client, mark, disturbances>>

-----------------------------------------------------------------------------
(* The runner, and what happens around it.                                  *)

Runs == UNCHANGED <<smoke, caseState, evidence, docker>>

\* The directory of the assets is made first, so an output whose download
\* failed is not empty any more.
OpenAssets ==
  /\ Doing("openAssets") /\ Advance
  /\ files' = {"assetsDirectory"}
  /\ Runs /\ UNCHANGED <<core, frozen, sealed, disturbances>>

PrepareAssets ==
  /\ Doing("prepareAssets")
  /\ \/ Advance /\ files' = files \union {"assets"} /\ UNCHANGED disturbances
     \/ Disturb /\ Raise /\ UNCHANGED files
  /\ Runs /\ UNCHANGED <<core, frozen, sealed>>

HashCore ==
  /\ Doing("hashCore") /\ Advance
  /\ frozen' = core
  /\ Runs /\ UNCHANGED <<core, sealed, files, disturbances>>

\* write_result_bundle takes the hash of the core files once more.
HashCoreAgain ==
  /\ Doing("hashCoreAgain") /\ Advance
  /\ sealed' = core
  /\ Runs /\ UNCHANGED <<core, frozen, files, disturbances>>

\* _write_atomic of the three files of the bundle, in this order.
Bundle ==
  [trials |-> "writeTrials", result |-> "writeResult", provenance |-> "writeProvenance",
   smoke |-> "writeSmoke"]
WriteBundle ==
  /\ \E file \in DOMAIN Bundle :
       /\ Doing(Bundle[file])
       /\ \/ Advance /\ files' = files \union {file} /\ UNCHANGED disturbances
          \/ Disturb /\ Raise /\ UNCHANGED files
  /\ Runs /\ UNCHANGED <<core, frozen, sealed>>

\* Somebody edits a core file, or undoes the edit.
Edit ==
  /\ Disturb
  /\ core' = 1 - core
  /\ Runs /\ UNCHANGED <<at, line, status, frozen, sealed, files>>

\* The process is killed; inside _write_atomic the temporary file stays.
Kill ==
  /\ status \in {"running", "unwinding"}
  /\ Disturb
  /\ status' = "killed"
  /\ \/ UNCHANGED files
     \/ \E file \in DOMAIN Bundle : /\ Doing(Bundle[file])
                                    /\ files' = files \union {"temporary"}
  /\ Runs /\ UNCHANGED <<at, line, core, frozen, sealed>>

\* run_live_experiment refuses an output directory that is not empty.
Rerun ==
  /\ status \in {"done", "raised", "killed"}
  /\ IF files = {} THEN status' = "running" /\ at' = 1 /\ line' = 1
     ELSE status' = "refused" /\ UNCHANGED <<at, line>>
  /\ Runs /\ UNCHANGED <<core, frozen, sealed, files, disturbances>>

Ended == status = "refused" /\ UNCHANGED campaignVars

CampaignNext ==
  \/ StartService \/ StopService \/ Finally \/ Unwind \/ RunOneShot
  \/ Fail \/ Mark \/ Prepare \/ LogArtifact \/ NativeDelete \/ Recover
  \/ CountBefore \/ LookPrimary \/ LookDerivative \/ LookRecovered
  \/ CountAfter \/ CountLast \/ ApplyControl \/ Purge \/ LookAgain \/ Record
  \/ OpenAssets \/ PrepareAssets \/ HashCore \/ HashCoreAgain \/ WriteBundle
  \/ Edit \/ Kill \/ Rerun \/ Ended

CampaignSpec == CampaignInit /\ [][CampaignNext]_campaignVars

\* verify_result reads the bundle and the core files of the moment.
Expected == {"assetsDirectory", "assets", "trials", "result", "provenance"}
Verifies ==
  /\ {"result", "provenance"} \subseteq files
  /\ sealed = core
  /\ files = Expected
  /\ DOMAIN records = Matrix
Passes == Verifies /\ Decision(records, core) = "PASS"

-----------------------------------------------------------------------------
(* Properties.                                                              *)

OnlineFacts == {"primary", "derivative", "restored"}

\* A case reported COMPLETE left nothing of the subject online, and neither
\* did a case whose native deletion worked and whose controls report no
\* recurrence; only a snapshot whose deletion nobody checked can stay.
ReportedErasureIsReal ==
  \A c \in DOMAIN records :
    LET r == records[c]
        reports == \/ r.decided.verdict = "COMPLETE"
                   \/ r.decided.verdict = "INCOMPLETE" /\ r.decided.native /\ ~ r.recurs
    IN  reports => /\ r.left \intersect OnlineFacts = {}
                   /\ "carrier" \in r.left => disturbances > 0

\* The evidence a record is bound to is every line its own case wrote and no
\* other, and a live client numbers the next line with its place in the file.
EvidenceIsOwn ==
  /\ \A c \in DOMAIN records :
       LET lines == ledger[c[1]]
           own == { i \in DOMAIN lines : lines[i] = c[2] }
       IN  /\ own # {}
           /\ \E from \in 0..Len(lines) :
                /\ own = from + 1 .. from + Len(records[c].evidence)
                /\ records[c].evidence
                     = SubSeq(lines, from + 1, from + Len(records[c].evidence))
  /\ status = "running" /\ service # None /\ ~ Of("none") /\ Op # "finally" =>
       client = Len(ledger[Here.family])

\* A container outlives the run only if docker itself failed, one for each
\* failure, or the process was killed: no exception path forgets a service.
LeaksAreDockers ==
  status \in {"done", "raised"} => Cardinality(containers) <= dockerFaults

\* What the verifier passes is a whole bundle of a finished run whose core
\* files were the same before the first case, at the end and now, with no
\* unsafe case called complete in any family.
PassIsOfOneCore ==
  Passes => /\ status \in {"done", "refused"}
            /\ frozen = sealed /\ sealed = core
            /\ FalseCompletes(records) = {}
            /\ ~ smoke

\* A full run nothing disturbed passes all gates and the verifier, although
\* its mlflow cases share one artifact root.
QuietRunPasses == status = "done" /\ ~ smoke /\ disturbances = 0 => Passes

\* Over the catalogues of the model, the pruned search returns the brute-force
\* plan for every set of risks.
SearchFindsOraclePlan ==
  at = 1 /\ line = 1 /\ status = "running" =>
    \A catalogue \in Catalogues, required \in SUBSET {"primary", "derivative", "recovery"} :
      ExactControlPlan(required, catalogue) = BruteForceControlPlan(required, catalogue)
=============================================================================
