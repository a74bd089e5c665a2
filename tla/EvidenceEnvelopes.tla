-------------------------- MODULE EvidenceEnvelopes --------------------------
(***************************************************************************)
(* Signed audits (audit_signed_subject in evidence_envelopes.py, run by    *)
(* `erasemap audit`) that share one SQLite nonce ledger.  Every audit is a *)
(* process with its own connection; it walks its evidence file and for     *)
(* each envelope first SELECTs the nonce and later, in a transaction of    *)
(* its own, INSERTs it.  Other audits run between the two, and a process   *)
(* can die between any two steps, after which the audit is run again.      *)
(***************************************************************************)
EXTENDS Integers, Sequences, FiniteSets

CONSTANTS
  Auditors,   \* audit processes
  Artifacts,  \* the reachable artifacts of the subject
  Backups,    \* those of type BACKUP_COPY
  Graphs,     \* the states a graph file may give them
  Envelopes,  \* the signed evidence that exists
  Files,      \* the evidence files audits are started with
  Epochs,     \* values of --now
  MaxAge,     \* --max-evidence-age
  Recordable, \* bound: tokens that callers pass to record
  Never,      \* expires_epoch None
  MaxRuns     \* bound on the audit runs started

ArtifactStates == {"ACTIVE", "ERASED", "BLOCKED", "WAITING_EXPIRY", "UNVERIFIED"}

EvidenceKinds ==
  {"ABSENCE_CHECK", "CACHE_INVALIDATION", "EXPIRY_SCHEDULE", "CRYPTO_ERASURE",
   "MODEL_AUDIT", "SIGNED_STATEMENT"}

Envelope ==
  [artifact : Artifacts, token : Nat,        \* token: key id and nonce
   supported : BOOLEAN, trusted : BOOLEAN,   \* schema version, key id
   signed : BOOLEAN,                         \* the signature fits the payload
   kind : EvidenceKinds,
   issued : Nat, expires : Nat \union {Never},
   deadline : Nat,                           \* propagation_deadline, 0 if not a cache's
   sound : SUBSET ArtifactStates]            \* states whose other rules it satisfies

Tokens == { e.token : e \in Envelopes }

ASSUME EnvelopesAssumption == Envelopes \subseteq Envelope
\* `erasemap audit` refuses a file with two envelopes of one artifact.
ASSUME FilesAssumption ==
  /\ Files \subseteq Seq(Envelopes)
  /\ \A file \in Files : \A i, j \in 1..Len(file) :
       file[i].artifact = file[j].artifact => i = j
ASSUME GraphsAssumption ==
  /\ Artifacts # {} /\ Backups \subseteq Artifacts
  /\ Graphs # {} /\ Graphs \subseteq [Artifacts -> ArtifactStates]
ASSUME NeverAssumption == Never \notin Nat
ASSUME RecordableAssumption == Recordable \subseteq Tokens
ASSUME EpochsAssumption == Epochs \subseteq Nat /\ MaxAge \in Nat /\ MaxRuns \in Nat

VARIABLES
  consumed,  \* table consumed_nonces
  noted,     \* _nonces of each process's ledger object
  started,   \* runs started so far
  run,       \* number of the auditor's current run
  pc,        \* "idle", "check", "consume" or "reported"
  graph,     \* artifact states of the graph file the run has read
  todo,      \* envelopes of the file still to verify
  now,       \* now_epoch of the run
  verified,  \* envelopes the run has accepted
  report,    \* status of the run's AuditResult
  uses       \* history: which run accepted which envelope

vars == <<consumed, noted, started, run, pc, graph, todo, now, verified, report, uses>>

\* The types: only tokens of existing evidence are consumed, a run in progress
\* has a number, and whoever is about to INSERT has an envelope to verify.
TypeOK ==
  /\ consumed \in SUBSET Tokens
  /\ noted \in [Auditors -> SUBSET Tokens]
  /\ started \in 0..MaxRuns
  /\ run \in [Auditors -> 0..started]
  /\ pc \in [Auditors -> {"idle", "check", "consume", "reported"}]
  /\ graph \in [Auditors -> Graphs]
  /\ todo \in [Auditors -> Seq(Envelopes)]
  /\ \A a \in Auditors : pc[a] = "consume" => todo[a] # <<>>
  /\ \A a \in Auditors : pc[a] # "idle" => run[a] # 0
  /\ now \in [Auditors -> Epochs \union {0}]
  /\ verified \in [Auditors -> SUBSET Envelopes]
  /\ report \in [Auditors -> {"NONE", "COMPLETE", "INCOMPLETE", "UNVERIFIED"}]
  /\ uses \in SUBSET [run : 1..started, envelope : Envelopes]

\* Some value for the graph of a process that has not read one.
Unread == CHOOSE states \in Graphs : TRUE

Init ==
  /\ consumed = {}
  /\ noted = [a \in Auditors |-> {}]
  /\ started = 0
  /\ run = [a \in Auditors |-> 0]
  /\ pc = [a \in Auditors |-> "idle"]
  /\ graph = [a \in Auditors |-> Unread]
  /\ todo = [a \in Auditors |-> <<>>]
  /\ now = [a \in Auditors |-> 0]
  /\ verified = [a \in Auditors |-> {}]
  /\ report = [a \in Auditors |-> "NONE"]
  /\ uses = {}

-----------------------------------------------------------------------------
Start(a) ==
  /\ pc[a] \in {"idle", "reported"}
  /\ started < MaxRuns
  /\ started' = started + 1
  /\ run' = [run EXCEPT ![a] = started']
  /\ pc' = [pc EXCEPT ![a] = "check"]
  /\ \E states \in Graphs : graph' = [graph EXCEPT ![a] = states]
  /\ \E file \in Files : todo' = [todo EXCEPT ![a] = file]
  /\ \E epoch \in Epochs : now' = [now EXCEPT ![a] = epoch]
  /\ noted' = [noted EXCEPT ![a] = {}]
  /\ verified' = [verified EXCEPT ![a] = {}]
  /\ report' = [report EXCEPT ![a] = "NONE"]
  /\ UNCHANGED <<consumed, uses>>

\* EvidenceEnvelopeLedger.record, which the SQLite ledger inherits: it writes
\* to the set in memory, which the SQLite ledger's contains never reads.
Record(a, token) ==
  /\ pc[a] = "check"
  /\ noted' = [noted EXCEPT ![a] = @ \union {token}]
  /\ UNCHANGED <<consumed, started, run, pc, graph, todo, now, verified, report, uses>>

Contains(token) == token \in consumed

Fresh(e, epoch) ==
  /\ e.issued <= epoch
  /\ epoch - e.issued <= MaxAge

\* The checks of verify_evidence_envelope that come before consume.
PassesChecks(e, epoch) ==
  /\ e.supported
  /\ e.trusted
  /\ ~ Contains(e.token)
  /\ Fresh(e, epoch)
  /\ e.signed

Verifying(a) == pc[a] = "check" /\ todo[a] # <<>>

\* A mutant: the loop stays where it is.
RejectStays(a) ==
  /\ Verifying(a)
  /\ ~ PassesChecks(Head(todo[a]), now[a])
  /\ UNCHANGED vars

Reject(a) ==
  /\ Verifying(a)
  /\ ~ PassesChecks(Head(todo[a]), now[a])
  /\ todo' = [todo EXCEPT ![a] = Tail(@)]
  /\ UNCHANGED <<consumed, noted, started, run, pc, graph, now, verified, report, uses>>

Pass(a) ==
  /\ Verifying(a)
  /\ PassesChecks(Head(todo[a]), now[a])
  /\ pc' = [pc EXCEPT ![a] = "consume"]
  /\ UNCHANGED <<consumed, noted, started, run, graph, todo, now, verified, report, uses>>

\* A mutant: contains is not asked again, as in a record() of its own.
ConsumeUnchecked(a) ==
  /\ pc[a] = "consume"
  /\ LET e == Head(todo[a])
     IN  /\ consumed' = consumed \union {e.token}
         /\ verified' = [verified EXCEPT ![a] = @ \union {e}]
         /\ uses' = uses \union {[run |-> run[a], envelope |-> e]}
  /\ pc' = [pc EXCEPT ![a] = "check"]
  /\ todo' = [todo EXCEPT ![a] = Tail(@)]
  /\ UNCHANGED <<noted, started, run, graph, now, report>>

\* INSERT OR IGNORE and commit; rowcount tells whether the row is new.
Consume(a) ==
  /\ pc[a] = "consume"
  /\ LET e == Head(todo[a])
     IN  IF Contains(e.token)
         THEN UNCHANGED <<consumed, verified, uses>>
         ELSE /\ consumed' = consumed \union {e.token}
              /\ verified' = [verified EXCEPT ![a] = @ \union {e}]
              /\ uses' = uses \union {[run |-> run[a], envelope |-> e]}
  /\ pc' = [pc EXCEPT ![a] = "check"]
  /\ todo' = [todo EXCEPT ![a] = Tail(@)]
  /\ UNCHANGED <<noted, started, run, graph, now, report>>

\* A mutant: nothing lapses about an artifact that is erased.
ExpiredUnlessErased(artifact, state, e, epoch) ==
  /\ e.expires # Never
  /\ e.expires <= epoch
  /\ state # "ERASED"

\* Evidence lapses at expires_epoch, but for the destruction of the key of a
\* backup that is erased, and for evidence that names no such time.
Expired(artifact, state, e, epoch) ==
  /\ e.expires # Never
  /\ e.expires <= epoch
  /\ ~ (artifact \in Backups /\ state = "ERASED" /\ e.kind = "CRYPTO_ERASURE")

\* validate_evidence up to the rules of the artifact's type.
Applies(artifact, state, e, epoch) ==
  /\ e.artifact = artifact
  /\ ~ Expired(artifact, state, e, epoch)
  /\ state \notin {"ACTIVE", "UNVERIFIED"}

\* validate_evidence finds the verified evidence about artifact valid.
Attested(artifact, state, evidence, epoch) ==
  \E e \in evidence :
    /\ Applies(artifact, state, e, epoch)
    /\ e.deadline <= epoch
    /\ state \in e.sound

\* The effective state of its check is WAITING_EXPIRY, be the evidence valid (a
\* pending backup) or not (a cache invalidation that is still propagating).
Waits(artifact, state, evidence, epoch) ==
  \/ state = "WAITING_EXPIRY" /\ Attested(artifact, state, evidence, epoch)
  \/ \E e \in evidence : Applies(artifact, state, e, epoch) /\ epoch < e.deadline

\* audit_subject on the verified evidence.
AuditStatus(states, evidence, epoch) ==
  IF \E artifact \in Artifacts : states[artifact] = "ACTIVE"
  THEN "INCOMPLETE"
  ELSE IF \A artifact \in Artifacts :
            /\ Attested(artifact, states[artifact], evidence, epoch)
            /\ ~ Waits(artifact, states[artifact], evidence, epoch)
       THEN "COMPLETE"
       ELSE "UNVERIFIED"

Report(a) ==
  /\ pc[a] = "check"
  /\ todo[a] = <<>>
  /\ report' = [report EXCEPT ![a] = AuditStatus(graph[a], verified[a], now[a])]
  /\ pc' = [pc EXCEPT ![a] = "reported"]
  /\ noted' = [noted EXCEPT ![a] = {}]   \* the process ends
  /\ UNCHANGED <<consumed, started, run, graph, todo, now, verified, uses>>

\* The process dies; the table survives it.
Crash(a) ==
  /\ pc[a] \in {"check", "consume"}
  /\ pc' = [pc EXCEPT ![a] = "idle"]
  /\ graph' = [graph EXCEPT ![a] = Unread]
  /\ todo' = [todo EXCEPT ![a] = <<>>]
  /\ now' = [now EXCEPT ![a] = 0]
  /\ noted' = [noted EXCEPT ![a] = {}]
  /\ verified' = [verified EXCEPT ![a] = {}]
  /\ UNCHANGED <<consumed, started, run, report, uses>>

AuditStep(a) == Reject(a) \/ Pass(a) \/ Consume(a) \/ Report(a)

Next ==
  \E a \in Auditors :
    \/ Start(a)
    \/ \E token \in Recordable : Record(a, token)
    \/ AuditStep(a)
    \/ Crash(a)

\* A started audit runs on until it reports or dies; nobody has to start one.
Spec == Init /\ [][Next]_vars /\ \A a \in Auditors : WF_vars(AuditStep(a))

-----------------------------------------------------------------------------
\* One nonce backs one run at most, although SELECT and INSERT of concurrent
\* audits interleave and crashed audits are run again on the same table.
AcceptedOnce ==
  \A u, v \in uses : u.envelope.token = v.envelope.token => u = v

\* At epoch, e is neither from the future, nor older than MaxAge, nor past its
\* expiry; only what it says of a destroyed backup key stays true after that.
InItsWindow(e, state, epoch) ==
  /\ e.issued <= epoch /\ epoch <= e.issued + MaxAge
  /\ \/ e.expires = Never
     \/ epoch < e.expires
     \/ e.kind = "CRYPTO_ERASURE" /\ e.artifact \in Backups /\ state = "ERASED"

\* Evidence is spent only on a run that had it, and COMPLETE rests only on its
\* own: every nonce that is gone was used, by an envelope that was supported,
\* trusted and signed, so that an altered copy never spends the nonce of a good
\* one; and behind COMPLETE every artifact is erased or blocked and there is, for
\* each, evidence of this very run that says so, in its time window, with no
\* propagation pending, that no other run reported with.
EvidenceBacksItsRun ==
  /\ \A token \in consumed :
       \E u \in uses :
         /\ u.envelope.token = token
         /\ u.envelope.supported /\ u.envelope.trusted /\ u.envelope.signed
  /\ \A a \in Auditors :
       report[a] = "COMPLETE" =>
         \A artifact \in Artifacts :
           /\ graph[a][artifact] \in {"ERASED", "BLOCKED"}
           /\ \E u \in uses :
                /\ u.run = run[a]
                /\ u.envelope.artifact = artifact
                /\ graph[a][artifact] \in u.envelope.sound
                /\ InItsWindow(u.envelope, graph[a][artifact], now[a])
                /\ u.envelope.deadline <= now[a]
                /\ \A v \in uses : v.envelope.token = u.envelope.token => v.run = run[a]

\* Every started audit reports or dies.
AuditsEnd == \A a \in Auditors : pc[a] = "check" ~> pc[a] \in {"reported", "idle"}

\* "Process-safe replay ledger": a nonce that a process has recorded in its
\* ledger is not accepted by that process afterwards.
RecordedIsNotAccepted ==
  [][\A a \in Auditors, token \in Tokens :
       token \in noted[a] /\ run'[a] = run[a] =>
         ~ \E u \in uses' \ uses : u.run = run[a] /\ u.envelope.token = token]_vars

-----------------------------------------------------------------------------
(* The inductive invariant behind AcceptedOnce.                            *)

UsesAreConsumed == { u.envelope.token : u \in uses } \subseteq consumed

IInv == TypeOK /\ UsesAreConsumed /\ AcceptedOnce
=============================================================================
