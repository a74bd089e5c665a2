---------------------------- MODULE Protocols_proofs ----------------------------
(***************************************************************************)
(* Theorems about the protocols by which somebody else checks or approves  *)
(* what the program did: the nonce ledger with its audits, and the bank    *)
(* control plane.                                                          *)
(*                                                                         *)
(* The nonce ledger, for any number of auditors, envelopes and runs: types, *)
(* and that a nonce backs one run at most.  The invariant adds that the    *)
(* table holds every token ever accepted; INSERT OR IGNORE then refuses a  *)
(* second acceptance.  That evidence backs its run needs the checks to     *)
(* outlive the INSERT: an envelope that is about to be consumed has passed *)
(* them, and so has each envelope a run has verified, which is in the      *)
(* history under its number.                                               *)
(***************************************************************************)
EXTENDS EvidenceEnvelopes, ControlPlane, SealedChallenge, SequenceTheorems, TLAPS

\* What holds when the ledger is empty and no audit has been started.
LEMMA InitInvariant == Init => IInv
<1>. SUFFICES ASSUME Init PROVE IInv
  OBVIOUS
<1>1. TypeOK
  <2>1. Unread \in Graphs
    BY GraphsAssumption DEF Unread
  <2>. QED  BY <2>1, EpochsAssumption DEF Init, TypeOK
<1>2. UsesAreConsumed /\ AcceptedOnce
  BY DEF Init, UsesAreConsumed, AcceptedOnce
<1>. QED  BY <1>1, <1>2 DEF IInv

\* Every step keeps the types: a run's number is never above the counter.
LEMMA StepTypeOK == TypeOK /\ [Next]_vars => TypeOK'
<1>. SUFFICES ASSUME TypeOK, [Next]_vars PROVE TypeOK'
  OBVIOUS
<1>. USE EnvelopesAssumption, FilesAssumption, EpochsAssumption,
         RecordableAssumption DEF TypeOK
<1>1. ASSUME NEW a \in Auditors, Start(a) PROVE TypeOK'
  <2>1. /\ started \in 0..MaxRuns /\ started < MaxRuns /\ started' = started + 1
        /\ started' \in 0..MaxRuns
    BY <1>1 DEF Start
  <2>2. run' \in [Auditors -> 0..started']
    BY <1>1, <2>1 DEF Start
  <2>3. uses' \in SUBSET [run : 1..started', envelope : Envelopes]
    BY <1>1, <2>1 DEF Start
  <2>4. /\ todo' \in [Auditors -> Seq(Envelopes)]
        /\ now' \in [Auditors -> Epochs \union {0}]
        /\ graph' \in [Auditors -> Graphs]
        /\ pc' \in [Auditors -> {"idle", "check", "consume", "reported"}]
        /\ \A b \in Auditors : pc'[b] = "consume" => todo'[b] # <<>>
    BY <1>1 DEF Start
  <2>. QED  BY <1>1, <2>1, <2>2, <2>3, <2>4 DEF Start
<1>2. ASSUME NEW a \in Auditors, NEW token \in Recordable, Record(a, token)
      PROVE  TypeOK'
  BY <1>2 DEF Record
<1>3. ASSUME NEW a \in Auditors, Reject(a) PROVE TypeOK'
  <2>1. Tail(todo[a]) \in Seq(Envelopes)
    BY <1>3 DEF Reject, Verifying
  <2>. QED  BY <1>3, <2>1 DEF Reject, Verifying
<1>4. ASSUME NEW a \in Auditors, Pass(a) PROVE TypeOK'
  BY <1>4 DEF Pass, Verifying
<1>5. ASSUME NEW a \in Auditors, Consume(a) PROVE TypeOK'
  <2>. DEFINE e == Head(todo[a])
  <2>1. e \in Envelopes /\ Tail(todo[a]) \in Seq(Envelopes)
    BY <1>5 DEF Consume
  <2>2. e.token \in Tokens
    BY <2>1 DEF Tokens
  <2>3. /\ todo' \in [Auditors -> Seq(Envelopes)]
        /\ pc' \in [Auditors -> {"idle", "check", "consume", "reported"}]
        /\ \A b \in Auditors : pc'[b] = "consume" => todo'[b] # <<>>
    BY <1>5, <2>1 DEF Consume
  <2>. HIDE DEF e
  <2>4. CASE Contains(e.token)
    BY <1>5, <2>3, <2>4 DEF Consume, e
  <2>5. CASE ~ Contains(e.token)
    <3>1. /\ consumed' = consumed \union {e.token}
          /\ verified' = [verified EXCEPT ![a] = @ \union {e}]
          /\ uses' = uses \union {[run |-> run[a], envelope |-> e]}
      BY <1>5, <2>5 DEF Consume, e
    <3>2. run[a] \in 1..started
      BY <1>5 DEF Consume
    <3>. QED  BY <1>5, <2>1, <2>2, <2>3, <3>1, <3>2 DEF Consume
  <2>. QED  BY <2>4, <2>5
<1>6. ASSUME NEW a \in Auditors, Report(a) PROVE TypeOK'
  <2>1. AuditStatus(graph[a], verified[a], now[a]) \in {"COMPLETE", "INCOMPLETE", "UNVERIFIED"}
    BY DEF AuditStatus
  <2>. QED  BY <1>6, <2>1 DEF Report
<1>7. ASSUME NEW a \in Auditors, Crash(a) PROVE TypeOK'
  <2>1. Unread \in Graphs
    BY GraphsAssumption DEF Unread
  <2>. QED  BY <1>7, <2>1 DEF Crash
<1>8. CASE UNCHANGED vars
  BY <1>8 DEF vars
<1>. QED
  BY <1>1, <1>2, <1>3, <1>4, <1>5, <1>6, <1>7, <1>8 DEF Next, AuditStep

\* Only Consume adds to the table and to the history, and only a token that is
\* not in the table yet.
LEMMA StepAcceptedOnce ==
  TypeOK /\ UsesAreConsumed /\ AcceptedOnce /\ [Next]_vars
    => (UsesAreConsumed /\ AcceptedOnce)'
<1>. SUFFICES ASSUME TypeOK, UsesAreConsumed, AcceptedOnce, [Next]_vars
              PROVE  (UsesAreConsumed /\ AcceptedOnce)'
  OBVIOUS
<1>1. ASSUME NEW a \in Auditors, Consume(a)
      PROVE  (UsesAreConsumed /\ AcceptedOnce)'
  <2>. DEFINE token == Head(todo[a]).token
              use == [run |-> run[a], envelope |-> Head(todo[a])]
  <2>1. CASE Contains(token)
    BY <1>1, <2>1 DEF Consume, UsesAreConsumed, AcceptedOnce
  <2>2. CASE ~ Contains(token)
    <3>1. consumed' = consumed \union {token} /\ uses' = uses \union {use}
      BY <1>1, <2>2 DEF Consume
    <3>2. \A u \in uses : u.envelope.token # token
      BY <2>2 DEF Contains, UsesAreConsumed
    <3>3. use.envelope.token = token
      OBVIOUS
    <3>. HIDE DEF token, use
    <3>. QED  BY <3>1, <3>2, <3>3 DEF UsesAreConsumed, AcceptedOnce
  <2>. QED  BY <2>1, <2>2
<1>2. CASE UNCHANGED <<consumed, uses>>
  BY <1>2 DEF UsesAreConsumed, AcceptedOnce
<1>. QED
  BY <1>1, <1>2 DEF Next, vars, Start, Record, AuditStep, Reject, Pass, Report, Crash

\* IInv holds in every state of every behaviour.
THEOREM InvariantHolds == Spec => []IInv
<1>1. IInv /\ [Next]_vars => IInv'
  BY StepTypeOK, StepAcceptedOnce DEF IInv
<1>. QED  BY InitInvariant, <1>1, PTL DEF Spec

\* However many processes audit with one SQLite ledger, and wherever they are
\* interrupted, a nonce is accepted by one run at most (evidence_envelopes.py).
THEOREM NonceIsAcceptedOnce == Spec => []AcceptedOnce
<1>1. IInv => AcceptedOnce
  BY DEF IInv
<1>. QED  BY InvariantHolds, <1>1, PTL

\* The types of the ledger, the processes and the history.
THEOREM EnvelopesTypeCorrect == Spec => []TypeOK
<1>1. IInv => TypeOK
  BY DEF IInv
<1>. QED  BY InvariantHolds, <1>1, PTL

-----------------------------------------------------------------------------
\* What verify_evidence_envelope checks but for the ledger.
Trustworthy(e, epoch) ==
  e.supported /\ e.trusted /\ e.signed /\ Fresh(e, epoch)

Supported(u) == u.envelope.supported /\ u.envelope.trusted /\ u.envelope.signed

\* Every token that is gone was used by an envelope that was good for it.
ConsumedIsUsed ==
  \A token \in consumed : \E u \in uses : u.envelope.token = token /\ Supported(u)

AboutToConsume ==
  \A a \in Auditors : pc[a] = "consume" => Trustworthy(Head(todo[a]), now[a])

VerifiedIsUsed ==
  \A a \in Auditors : \A e \in verified[a] :
    /\ Fresh(e, now[a])
    /\ [run |-> run[a], envelope |-> e] \in uses

ReportIsFounded ==
  \A a \in Auditors : report[a] = "COMPLETE" =>
    /\ pc[a] = "reported"
    /\ AuditStatus(graph[a], verified[a], now[a]) = "COMPLETE"

EvidenceInv ==
  IInv /\ ConsumedIsUsed /\ AboutToConsume /\ VerifiedIsUsed /\ ReportIsFounded

LEMMA InitEvidence == Init => EvidenceInv
  BY InitInvariant
     DEF Init, EvidenceInv, ConsumedIsUsed, AboutToConsume, VerifiedIsUsed, ReportIsFounded

\* What a step leaves alone for a process keeps what is known of it.
LEMMA OthersKeepEvidence ==
  ASSUME EvidenceInv, NEW a \in Auditors, uses \subseteq uses',
         \A b \in Auditors \ {a} :
           /\ pc'[b] = pc[b] /\ graph'[b] = graph[b] /\ todo'[b] = todo[b]
           /\ now'[b] = now[b] /\ run'[b] = run[b]
           /\ verified'[b] = verified[b] /\ report'[b] = report[b],
         ConsumedIsUsed',
         pc'[a] = "consume" => Trustworthy(Head(todo'[a]), now'[a]),
         \A e \in verified'[a] :
           Fresh(e, now'[a]) /\ [run |-> run'[a], envelope |-> e] \in uses',
         report'[a] = "COMPLETE" =>
           /\ pc'[a] = "reported"
           /\ AuditStatus(graph'[a], verified'[a], now'[a]) = "COMPLETE"
  PROVE  (ConsumedIsUsed /\ AboutToConsume /\ VerifiedIsUsed /\ ReportIsFounded)'
<1>1. AboutToConsume'
  BY DEF EvidenceInv, AboutToConsume
<1>2. VerifiedIsUsed'
  BY DEF EvidenceInv, VerifiedIsUsed
<1>3. ReportIsFounded'
  BY DEF EvidenceInv, ReportIsFounded
<1>. QED  BY <1>1, <1>2, <1>3

\* Consume is the only step that adds evidence, and Report the only one that
\* draws on it; both act on the run's own.
LEMMA StepEvidence == EvidenceInv /\ [Next]_vars => EvidenceInv'
<1>. SUFFICES ASSUME EvidenceInv, [Next]_vars
              PROVE  (ConsumedIsUsed /\ AboutToConsume /\ VerifiedIsUsed /\ ReportIsFounded)'
  BY StepTypeOK, StepAcceptedOnce DEF EvidenceInv, IInv
<1>. DEFINE Kept == (ConsumedIsUsed /\ AboutToConsume /\ VerifiedIsUsed /\ ReportIsFounded)'
<1>0. TypeOK
  BY DEF EvidenceInv, IInv
<1>1. ASSUME NEW a \in Auditors, Start(a) PROVE Kept
  <2>1. ConsumedIsUsed'
    BY <1>1 DEF Start, EvidenceInv, ConsumedIsUsed
  <2>2. verified'[a] = {} /\ report'[a] = "NONE" /\ pc'[a] = "check" /\ uses' = uses
    BY <1>0, <1>1 DEF Start, TypeOK
  <2>3. \A b \in Auditors \ {a} :
          /\ pc'[b] = pc[b] /\ graph'[b] = graph[b] /\ todo'[b] = todo[b]
           /\ now'[b] = now[b] /\ run'[b] = run[b]
          /\ verified'[b] = verified[b] /\ report'[b] = report[b]
    BY <1>0, <1>1 DEF Start, TypeOK
  <2>. QED  BY <2>1, <2>2, <2>3, OthersKeepEvidence
<1>2. ASSUME NEW a \in Auditors, NEW token \in Recordable, Record(a, token) PROVE Kept
  BY <1>2 DEF Record, EvidenceInv, ConsumedIsUsed, AboutToConsume, VerifiedIsUsed,
              ReportIsFounded
<1>3. ASSUME NEW a \in Auditors, Reject(a) PROVE Kept
  <2>1. ConsumedIsUsed'
    BY <1>3 DEF Reject, EvidenceInv, ConsumedIsUsed
  <2>2. /\ pc' = pc /\ pc[a] = "check" /\ graph' = graph /\ now' = now /\ run' = run /\ verified' = verified
        /\ report' = report /\ uses' = uses
        /\ \A b \in Auditors \ {a} : todo'[b] = todo[b]
    BY <1>0, <1>3 DEF Reject, Verifying, TypeOK
  <2>3. /\ \A e \in verified[a] :
             Fresh(e, now[a]) /\ [run |-> run[a], envelope |-> e] \in uses
        /\ report[a] # "COMPLETE"
    BY <2>2 DEF EvidenceInv, VerifiedIsUsed, ReportIsFounded
  <2>. QED  BY <2>1, <2>2, <2>3, OthersKeepEvidence
<1>4. ASSUME NEW a \in Auditors, Pass(a) PROVE Kept
  <2>1. ConsumedIsUsed'
    BY <1>4 DEF Pass, EvidenceInv, ConsumedIsUsed
  <2>2. /\ graph' = graph /\ todo' = todo /\ now' = now /\ run' = run /\ verified' = verified
        /\ report' = report /\ uses' = uses
        /\ \A b \in Auditors \ {a} : pc'[b] = pc[b]
        /\ Trustworthy(Head(todo[a]), now[a]) /\ pc[a] = "check"
    BY <1>0, <1>4 DEF Pass, Verifying, PassesChecks, Trustworthy, TypeOK
  <2>3. /\ \A e \in verified[a] :
             Fresh(e, now[a]) /\ [run |-> run[a], envelope |-> e] \in uses
        /\ report[a] # "COMPLETE"
    BY <2>2 DEF EvidenceInv, VerifiedIsUsed, ReportIsFounded
  <2>. QED  BY <2>1, <2>2, <2>3, OthersKeepEvidence
<1>5. ASSUME NEW a \in Auditors, Consume(a) PROVE Kept
  <2>. DEFINE e == Head(todo[a])
              use == [run |-> run[a], envelope |-> e]
  <2>1. /\ graph' = graph /\ now' = now /\ run' = run /\ report' = report
        /\ pc[a] = "consume" /\ pc'[a] = "check"
        /\ \A b \in Auditors \ {a} : pc'[b] = pc[b] /\ todo'[b] = todo[b]
    BY <1>0, <1>5 DEF Consume, TypeOK
  <2>2. Trustworthy(e, now[a])
    BY <2>1 DEF EvidenceInv, AboutToConsume
  <2>3. /\ \A d \in verified[a] :
             Fresh(d, now[a]) /\ [run |-> run[a], envelope |-> d] \in uses
        /\ report[a] # "COMPLETE"
    BY <2>1 DEF EvidenceInv, VerifiedIsUsed, ReportIsFounded
  <2>4. CASE Contains(e.token)
    <3>1. UNCHANGED <<consumed, verified, uses>>
      BY <1>5, <2>4 DEF Consume
    <3>2. ConsumedIsUsed'
      BY <3>1 DEF EvidenceInv, ConsumedIsUsed
    <3>. QED  BY <2>1, <2>3, <3>1, <3>2, OthersKeepEvidence
  <2>5. CASE ~ Contains(e.token)
    <3>1. /\ consumed' = consumed \union {e.token}
          /\ verified' = [verified EXCEPT ![a] = @ \union {e}]
          /\ uses' = uses \union {use}
      BY <1>5, <2>5 DEF Consume
    <3>2. use.envelope = e /\ Supported(use) /\ Fresh(e, now[a])
      BY <2>2 DEF Trustworthy, Supported
    <3>3. verified'[a] = verified[a] \union {e} /\ \A b \in Auditors \ {a} : verified'[b] = verified[b]
      BY <1>0, <3>1 DEF TypeOK
    <3>4. [run |-> run'[a], envelope |-> e] \in uses'
      BY <2>1, <3>1
    <3>. HIDE DEF e, use
    <3>5. ConsumedIsUsed'
      BY <3>1, <3>2 DEF EvidenceInv, ConsumedIsUsed
    <3>. QED  BY <2>1, <2>3, <3>1, <3>2, <3>3, <3>4, <3>5, OthersKeepEvidence
  <2>. QED  BY <2>4, <2>5
<1>6. ASSUME NEW a \in Auditors, Report(a) PROVE Kept
  <2>1. ConsumedIsUsed'
    BY <1>6 DEF Report, EvidenceInv, ConsumedIsUsed
  <2>2. /\ graph' = graph /\ todo' = todo /\ now' = now /\ run' = run
        /\ verified' = verified /\ uses' = uses
        /\ pc'[a] = "reported"
        /\ \A b \in Auditors \ {a} : pc'[b] = pc[b] /\ report'[b] = report[b]
    BY <1>0, <1>6 DEF Report, TypeOK
  <2>3. report'[a] = "COMPLETE" =>
          AuditStatus(graph[a], verified[a], now[a]) = "COMPLETE"
    BY <1>0, <1>6 DEF Report, TypeOK
  <2>4. \A e \in verified[a] :
          Fresh(e, now[a]) /\ [run |-> run[a], envelope |-> e] \in uses
    BY DEF EvidenceInv, VerifiedIsUsed
  <2>. QED  BY <2>1, <2>2, <2>3, <2>4, OthersKeepEvidence
<1>7. ASSUME NEW a \in Auditors, Crash(a) PROVE Kept
  <2>1. ConsumedIsUsed'
    BY <1>7 DEF Crash, EvidenceInv, ConsumedIsUsed
  <2>2. /\ run' = run /\ report' = report /\ uses' = uses
        /\ pc[a] # "reported" /\ pc'[a] = "idle" /\ verified'[a] = {}
        /\ \A b \in Auditors \ {a} :
             /\ pc'[b] = pc[b] /\ graph'[b] = graph[b] /\ todo'[b] = todo[b]
             /\ now'[b] = now[b]
             /\ verified'[b] = verified[b]
    BY <1>0, <1>7 DEF Crash, TypeOK
  <2>3. report[a] # "COMPLETE"
    BY <2>2 DEF EvidenceInv, ReportIsFounded
  <2>. QED  BY <2>1, <2>2, <2>3, OthersKeepEvidence
<1>8. CASE UNCHANGED vars
  BY <1>8 DEF vars, EvidenceInv, ConsumedIsUsed, AboutToConsume, VerifiedIsUsed,
              ReportIsFounded
<1>. QED
  BY <1>1, <1>2, <1>3, <1>4, <1>5, <1>6, <1>7, <1>8 DEF Next, AuditStep

\* For any number of processes, envelopes, crashes and reruns: evidence that is
\* spent was good and was spent on a run, and COMPLETE rests on evidence of that
\* very run, about the state each artifact has and in its window (or of a backup
\* key's destruction, evidence.py lets that outlive its expiry), that backs no
\* other run (audit_signed_subject, validate_evidence).
THEOREM EvidenceAlwaysBacksItsRun == Spec => []EvidenceBacksItsRun
<1>1. EvidenceInv /\ [Next]_vars => EvidenceInv'
  BY StepEvidence
<1>2. EvidenceInv => EvidenceBacksItsRun
  <2>. SUFFICES ASSUME EvidenceInv PROVE EvidenceBacksItsRun
    OBVIOUS
  <2>1. TypeOK /\ AcceptedOnce /\ ConsumedIsUsed /\ VerifiedIsUsed /\ ReportIsFounded
    BY DEF EvidenceInv, IInv
  <2>. DEFINE Backed(a, artifact) ==
         /\ graph[a][artifact] \in {"ERASED", "BLOCKED"}
         /\ \E u \in uses :
              /\ u.run = run[a]
              /\ u.envelope.artifact = artifact
              /\ graph[a][artifact] \in u.envelope.sound
              /\ InItsWindow(u.envelope, graph[a][artifact], now[a])
              /\ u.envelope.deadline <= now[a]
              /\ \A v \in uses : v.envelope.token = u.envelope.token => v.run = run[a]
  <2>2. ASSUME NEW a \in Auditors, report[a] = "COMPLETE", NEW artifact \in Artifacts
        PROVE  Backed(a, artifact)
    <3>. DEFINE state == graph[a][artifact]
    <3>0. /\ state \in {"ERASED", "BLOCKED"}
          /\ Attested(artifact, state, verified[a], now[a])
      <4>1. AuditStatus(graph[a], verified[a], now[a]) = "COMPLETE"
        BY <2>1, <2>2 DEF ReportIsFounded
      <4>2. /\ state # "ACTIVE"
            /\ Attested(artifact, state, verified[a], now[a])
            /\ ~ Waits(artifact, state, verified[a], now[a])
        BY <4>1 DEF AuditStatus
      <4>3. state \in ArtifactStates
        BY <2>1, GraphsAssumption DEF TypeOK
      <4>. QED  BY <4>2, <4>3 DEF Waits, Attested, Applies, ArtifactStates
    <3>1. PICK e \in verified[a] :
            Applies(artifact, state, e, now[a]) /\ e.deadline <= now[a] /\ state \in e.sound
      BY <3>0 DEF Attested
    <3>2. Fresh(e, now[a]) /\ [run |-> run[a], envelope |-> e] \in uses
      BY <2>1 DEF VerifiedIsUsed
    <3>. DEFINE use == [run |-> run[a], envelope |-> e]
    <3>3. use.run = run[a] /\ use.envelope = e
      OBVIOUS
    <3>4. \A v \in uses : v.envelope.token = use.envelope.token => v.run = run[a]
      BY <2>1, <3>2, <3>3 DEF AcceptedOnce
    <3>5. e \in Envelope /\ now[a] \in Nat
      <4>1. verified[a] \in SUBSET Envelopes /\ now[a] \in Epochs \union {0}
        BY <2>1 DEF TypeOK
      <4>2. e \in Envelope
        BY <4>1, EnvelopesAssumption, Zenon
      <4>3. 0 \in Nat
        OBVIOUS
      <4>4. now[a] \in Nat
        BY <4>1, <4>3, EpochsAssumption, Zenon
      <4>. QED  BY <4>2, <4>4
    <3>6. InItsWindow(e, state, now[a])
      <4>1. e.issued \in Nat /\ e.expires \in Nat \union {Never} /\ MaxAge \in Nat
        BY <3>5, EpochsAssumption DEF Envelope
      <4>2. e.artifact = artifact /\ ~ Expired(artifact, state, e, now[a])
        BY <3>1 DEF Applies
      <4>. QED  BY <3>2, <3>5, <4>1, <4>2, NeverAssumption DEF Fresh, InItsWindow, Expired
    <3>7. e.artifact = artifact
      BY <3>1 DEF Applies
    <3>. HIDE DEF use
    <3>. QED  BY <3>0, <3>1, <3>2, <3>3, <3>4, <3>6, <3>7 DEF use
  <2>. QED  BY <2>1, <2>2 DEF EvidenceBacksItsRun, ConsumedIsUsed, Supported
<1>. QED  BY InitEvidence, <1>1, <1>2, PTL DEF Spec

-----------------------------------------------------------------------------
(***************************************************************************)
(* For any number of customers, pages and calls: the event log is always   *)
(* the lifecycle up to the customer's stage.  The server's lock makes      *)
(* execute_action one step, and its check of the expected action is all    *)
(* that the argument needs: nothing about pages or their stale screens.    *)
(*                                                                         *)
(* The screens need an invariant of their own: every snapshot, on a page,  *)
(* in an answer or behind an approval, is no further than its customer,    *)
(* and an approval on its way asks for the action after its basis.         *)
(***************************************************************************)

\* The part of the types that the argument needs.
StagesOK == stage \in [Customers -> Stages] /\ eventLog \in [Customers -> Seq(Actions)]

\* One more action makes the log the next longer part of the lifecycle.
LEMMA LifecycleGrows ==
  ASSUME NEW n \in 0..5
  PROVE  Append(SubSeq(Lifecycle, 1, n), Lifecycle[n + 1]) = SubSeq(Lifecycle, 1, n + 1)
<1>1. Lifecycle \in Seq(Actions) /\ Len(Lifecycle) = 6
  BY DEF Lifecycle, Actions
<1>. HIDE DEF Lifecycle
<1>. QED  BY <1>1

\* Each step either leaves stages and logs alone or is Execute.
LEMMA StepLog ==
  StagesOK /\ LogIsLifecycle /\ [ControlNext]_controlVars => (StagesOK /\ LogIsLifecycle)'
<1>. SUFFICES ASSUME StagesOK, LogIsLifecycle, [ControlNext]_controlVars
              PROVE  (StagesOK /\ LogIsLifecycle)'
  OBVIOUS
<1>0. Verified = 6 /\ Stages = 0..6
  BY DEF Verified, Lifecycle, Stages
<1>1. ASSUME NEW p \in Pages, NEW i \in CallIds(p), Execute(p, i)
      PROVE  (StagesOK /\ LogIsLifecycle)'
  <2>. DEFINE c == calls[p][i].customer
              a == calls[p][i].action
  <2>1. /\ a \in Expected(c)
        /\ stage' = [stage EXCEPT ![c] = @ + 1]
        /\ eventLog' = [eventLog EXCEPT ![c] = Append(@, a)]
    BY <1>1 DEF Execute
  <2>. HIDE DEF c, a
  <2>2. CASE c \in Customers
    <3>1. stage[c] \in 0..5 /\ a = Lifecycle[stage[c] + 1]
      BY <2>1, <2>2, <1>0 DEF Expected, StagesOK
    <3>2. a \in Actions
      BY <3>1 DEF Actions, Lifecycle
    <3>3. StagesOK'
      BY <2>1, <2>2, <3>1, <3>2, <1>0 DEF StagesOK
    <3>4. eventLog'[c] = SubSeq(Lifecycle, 1, stage'[c])
      BY <2>1, <2>2, <3>1, LifecycleGrows DEF StagesOK, LogIsLifecycle
    <3>. QED  BY <2>1, <2>2, <3>3, <3>4 DEF StagesOK, LogIsLifecycle
  <2>3. CASE c \notin Customers
    BY <2>1, <2>3 DEF StagesOK, LogIsLifecycle
  <2>. QED  BY <2>2, <2>3
<1>2. CASE UNCHANGED <<stage, eventLog>>
  BY <1>2 DEF StagesOK, LogIsLifecycle
<1>. QED
  BY <1>1, <1>2 DEF ControlNext, controlVars, Select, Approve, Serve, ServeView, Refuse, Receive

\* The log starts as the lifecycle up to the stage already reached.
LEMMA InitLog == ControlInit => StagesOK /\ LogIsLifecycle
<1>. SUFFICES ASSUME ControlInit PROVE StagesOK /\ LogIsLifecycle
  OBVIOUS
<1>1. Lifecycle \in Seq(Actions) /\ Len(Lifecycle) = 6 /\ Stages = 0..6
  BY DEF Actions, Lifecycle, Stages, Verified
<1>2. stage \in [Customers -> Stages]
  BY BegunAssumption DEF ControlInit
<1>3. \A n \in 0..6 : SubSeq(Lifecycle, 1, n) \in Seq(Actions)
  <2>. HIDE DEF Lifecycle, Actions
  <2>1. TAKE n \in 0..6
  <2>2. ASSUME NEW k \in 1..n PROVE Lifecycle[k] \in Actions
    <3>1. k \in 1..6
      BY <2>2
    <3>. QED  BY <1>1, <3>1, ElementOfSeq
  <2>. QED  BY <2>2, SubSeqProperties
<1>4. eventLog \in [Customers -> Seq(Actions)]
  BY <1>1, <1>2, <1>3 DEF ControlInit
<1>. QED  BY <1>2, <1>4 DEF ControlInit, StagesOK, LogIsLifecycle

\* Racing pages, double clicks and stale screens never make the server skip,
\* repeat or reorder an action of the lifecycle (execute_action).
THEOREM LogAlwaysLifecycle == ControlSpec => []LogIsLifecycle
<1>. QED  BY InitLog, StepLog, PTL DEF ControlSpec

-----------------------------------------------------------------------------
Snapshot == [customer : Customers, stage : -1..6]
Call ==
  [customer : Customers, action : Actions \union {"view"}, basis : Snapshot,
   state : {"sent", "answered", "refused", "received"}, reply : Snapshot]

\* Pages, their screens and their calls.
PagesOK ==
  /\ selected \in [Pages -> Customers]
  /\ shown \in [Pages -> Snapshot]
  /\ calls \in [Pages -> Seq(Call)]

Past(snapshot, stages) == snapshot.stage <= stages[snapshot.customer]

\* An approval on its way asks for what follows the stage its page showed.
FollowsBasis(call) ==
  call.state = "sent" /\ call.action # "view" =>
    call.basis.stage \in 0..5 /\ call.action = Lifecycle[call.basis.stage + 1]

CallOK(call, stages) == Past(call.reply, stages) /\ FollowsBasis(call)

ScreensOK ==
  \A p \in Pages :
    Past(shown[p], stage) /\ \A i \in CallIds(p) : CallOK(calls[p][i], stage)

PageInv == StagesOK /\ PagesOK /\ ScreensOK

\* The lifecycle has six different actions, none of which is a view.
LEMMA LifecycleFacts ==
  /\ Verified = 6 /\ Stages = 0..6
  /\ \A i \in 1..6 : Lifecycle[i] \in Actions /\ Lifecycle[i] # "view"
  /\ \A i, j \in 1..6 : Lifecycle[i] = Lifecycle[j] => i = j
  /\ "view" \notin Actions
<1>1. Verified = 6 /\ Stages = 0..6
  BY DEF Verified, Lifecycle, Stages
<1>2. /\ Lifecycle[1] = "create-request" /\ Lifecycle[2] = "delete-visible"
      /\ Lifecycle[3] = "simulate-recovery" /\ Lifecycle[4] = "run-probes"
      /\ Lifecycle[5] = "apply-exact-cut" /\ Lifecycle[6] = "verify-replay"
      /\ Len(Lifecycle) = 6
  BY DEF Lifecycle
<1>3. Actions = { Lifecycle[i] : i \in 1..6 }
  BY <1>2 DEF Actions
<1>4. \A i \in 1..6 : i = 1 \/ i = 2 \/ i = 3 \/ i = 4 \/ i = 5 \/ i = 6
  OBVIOUS
<1>. HIDE DEF Lifecycle
<1>5. \A i \in 1..6 : Lifecycle[i] \in Actions /\ Lifecycle[i] # "view"
  BY <1>2, <1>3, <1>4
<1>6. \A i, j \in 1..6 : Lifecycle[i] = Lifecycle[j] => i = j
  BY <1>2, <1>4
<1>. QED  BY <1>1, <1>3, <1>5, <1>6

\* A page that starts shows nothing and has asked for the demo customer.
LEMMA InitPages == ControlInit => PageInv
<1>. SUFFICES ASSUME ControlInit PROVE PageInv
  OBVIOUS
<1>1. StagesOK
  BY InitLog
<1>2. Blank \in Snapshot /\ View(Demo) \in Call /\ Past(Blank, stage) /\ CallOK(View(Demo), stage)
  <2>1. Blank \in Snapshot /\ stage[Demo] \in 0..6
    BY <1>1, DemoAssumption, LifecycleFacts DEF Blank, Snapshot, StagesOK
  <2>. QED  BY <2>1, DemoAssumption DEF View, Call, Blank, Past, CallOK, FollowsBasis
<1>3. PagesOK /\ ScreensOK
  BY <1>2, DemoAssumption DEF ControlInit, PagesOK, ScreensOK, CallIds
<1>. QED  BY <1>1, <1>3 DEF PageInv

\* No customer is taken back.
NoStepBack(before, after) == \A c \in Customers : before[c] <= after[c]

\* What was no further than its customer stays so.
LEMMA PastStays ==
  ASSUME NEW before \in [Customers -> Stages], NEW after \in [Customers -> Stages],
         NoStepBack(before, after), NEW s \in Snapshot, Past(s, before)
  PROVE  Past(s, after)
<1>1. before[s.customer] \in 0..6 /\ after[s.customer] \in 0..6 /\ s.stage \in -1..6
  BY LifecycleFacts DEF Snapshot
<1>. QED  BY <1>1 DEF Past, NoStepBack, Snapshot

\* A call is added to a page, or one of its calls is replaced.
LEMMA CallsStayOK ==
  ASSUME NEW before \in [Customers -> Stages], NEW after \in [Customers -> Stages],
         NoStepBack(before, after),
         NEW old \in [Pages -> Seq(Call)], NEW new,
         \A q \in Pages : \A i \in 1..Len(old[q]) : CallOK(old[q][i], before),
         NEW p \in Pages, NEW call \in Call, CallOK(call, after),
         \/ new = [old EXCEPT ![p] = Append(@, call)]
         \/ \E i \in 1..Len(old[p]) : new = [old EXCEPT ![p][i] = call]
  PROVE  /\ new \in [Pages -> Seq(Call)]
         /\ \A q \in Pages : \A i \in 1..Len(new[q]) : CallOK(new[q][i], after)
<1>1. \A q \in Pages : \A i \in 1..Len(old[q]) : CallOK(old[q][i], after)
  <2>1. TAKE q \in Pages
  <2>2. TAKE i \in 1..Len(old[q])
  <2>3. old[q][i] \in Call
    OBVIOUS
  <2>4. old[q][i].reply \in Snapshot
    BY <2>3 DEF Call
  <2>. QED  BY <2>4, PastStays DEF CallOK
<1>2. CASE new = [old EXCEPT ![p] = Append(@, call)]
  <2>1. new \in [Pages -> Seq(Call)]
    BY <1>2
  <2>2. \A i \in 1..Len(new[p]) :
          \/ new[p][i] = call
          \/ i \in 1..Len(old[p]) /\ new[p][i] = old[p][i]
    BY <1>2
  <2>3. \A q \in Pages \ {p} : new[q] = old[q]
    BY <1>2
  <2>. QED  BY <1>1, <2>1, <2>2, <2>3
<1>3. ASSUME NEW j \in 1..Len(old[p]), new = [old EXCEPT ![p][j] = call]
      PROVE  /\ new \in [Pages -> Seq(Call)]
             /\ \A q \in Pages : \A i \in 1..Len(new[q]) : CallOK(new[q][i], after)
  <2>1. new[p] = [old[p] EXCEPT ![j] = call] /\ new = [old EXCEPT ![p] = new[p]]
    BY <1>3
  <2>2. new[p] \in Seq(Call) /\ Len(new[p]) = Len(old[p])
    BY <2>1
  <2>3. \A i \in 1..Len(new[p]) : new[p][i] = call \/ new[p][i] = old[p][i]
    BY <2>1, <2>2
  <2>4. \A q \in Pages \ {p} : new[q] = old[q]
    BY <2>1
  <2>5. new \in [Pages -> Seq(Call)]
    BY <2>1, <2>2
  <2>. QED  BY <1>1, <2>2, <2>3, <2>4, <2>5
<1>. QED  BY <1>2, <1>3

\* Only Execute moves a customer, by one and to a stage that exists.
LEMMA StagesGrow ==
  StagesOK /\ LogIsLifecycle /\ [ControlNext]_controlVars => NoStepBack(stage, stage')
<1>. SUFFICES ASSUME StagesOK, [ControlNext]_controlVars PROVE NoStepBack(stage, stage')
  OBVIOUS
<1>1. ASSUME NEW p \in Pages, NEW i \in CallIds(p), Execute(p, i)
      PROVE  NoStepBack(stage, stage')
  <2>1. stage' = [stage EXCEPT ![calls[p][i].customer] = @ + 1]
    BY <1>1 DEF Execute
  <2>2. \A c \in Customers : stage[c] \in Int /\ DOMAIN stage = Customers
    BY LifecycleFacts DEF StagesOK
  <2>3. ASSUME NEW c \in Customers PROVE stage[c] <= stage'[c]
    <3>1. stage'[c] = stage[c] \/ stage'[c] = stage[c] + 1
      BY <2>1, <2>2
    <3>. QED  BY <2>2, <3>1
  <2>. QED  BY <2>3 DEF NoStepBack
<1>2. CASE UNCHANGED stage
  <2>1. \A c \in Customers : stage[c] \in Int
    BY LifecycleFacts DEF StagesOK
  <2>2. \A c \in Customers : stage[c] <= stage[c]
    BY <2>1
  <2>. QED  BY <1>2, <2>2 DEF NoStepBack
<1>3. ASSUME NEW p \in Pages, (\E c \in Customers : Select(p, c)) \/ Approve(p)
      PROVE  UNCHANGED stage
  BY <1>3 DEF Select, Approve
<1>4. ASSUME NEW p \in Pages, NEW i \in CallIds(p), ServeView(p, i) \/ Refuse(p, i) \/ Receive(p, i)
      PROVE  UNCHANGED stage
  BY <1>4 DEF ServeView, Refuse, Receive
<1>5. CASE UNCHANGED controlVars
  BY <1>2, <1>5 DEF controlVars
<1>6. CASE ControlNext
  BY <1>1, <1>2, <1>3, <1>4, <1>6 DEF ControlNext, Serve
<1>. QED  BY <1>5, <1>6

\* Every step of a page or of the server keeps all snapshots in the past.
LEMMA StepPages ==
  PageInv /\ LogIsLifecycle /\ [ControlNext]_controlVars => PageInv'
<1>. SUFFICES ASSUME PageInv, LogIsLifecycle, [ControlNext]_controlVars PROVE PageInv'
  OBVIOUS
<1>. USE DEF PageInv
<1>1. /\ StagesOK' /\ NoStepBack(stage, stage')
      /\ stage \in [Customers -> Stages] /\ stage' \in [Customers -> Stages]
  BY StepLog, StagesGrow DEF StagesOK
<1>2. /\ shown \in [Pages -> Snapshot] /\ calls \in [Pages -> Seq(Call)]
      /\ \A q \in Pages : Past(shown[q], stage) /\ Past(shown[q], stage')
      /\ \A q \in Pages : \A i \in 1..Len(calls[q]) : CallOK(calls[q][i], stage)
  BY <1>1, PastStays DEF PagesOK, ScreensOK, CallIds
\* A step that adds or replaces one call, and leaves the screens alone or shows
\* a snapshot in the past.
<1>3. ASSUME NEW p \in Pages, NEW call \in Call, CallOK(call, stage'),
             \/ calls' = [calls EXCEPT ![p] = Append(@, call)]
             \/ \E i \in 1..Len(calls[p]) : calls' = [calls EXCEPT ![p][i] = call],
             selected' \in [Pages -> Customers],
             shown' \in [Pages -> Snapshot], \A q \in Pages : Past(shown'[q], stage')
      PROVE  PageInv'
  <2>1. /\ calls' \in [Pages -> Seq(Call)]
        /\ \A q \in Pages : \A i \in 1..Len(calls'[q]) : CallOK(calls'[q][i], stage')
    BY <1>1, <1>2, <1>3, CallsStayOK
  <2>. QED  BY <1>1, <1>3, <2>1 DEF PagesOK, ScreensOK, CallIds
<1>4. ASSUME NEW p \in Pages, NEW c \in Customers, Select(p, c) PROVE PageInv'
  <2>1. /\ calls' = [calls EXCEPT ![p] = Append(@, View(c))]
        /\ selected' = [selected EXCEPT ![p] = c] /\ shown' = shown /\ stage' = stage
    BY <1>4 DEF Select, Send
  <2>2. Blank \in Snapshot /\ Past(Blank, stage')
    BY <1>1, DemoAssumption, LifecycleFacts DEF Blank, Snapshot, Past
  <2>3. View(c) \in Call /\ CallOK(View(c), stage')
    BY <2>2 DEF View, Call, CallOK, FollowsBasis
  <2>4. selected' \in [Pages -> Customers]
    BY <2>1 DEF PagesOK
  <2>. QED  BY <1>2, <1>3, <2>1, <2>3, <2>4
<1>5. ASSUME NEW p \in Pages, Approve(p) PROVE PageInv'
  <2>. DEFINE call == [customer |-> selected[p], action |-> Lifecycle[shown[p].stage + 1],
                       basis |-> shown[p], state |-> "sent", reply |-> Blank]
  <2>1. /\ calls' = [calls EXCEPT ![p] = Append(@, call)]
        /\ selected' = selected /\ shown' = shown /\ stage' = stage
        /\ shown[p].stage \in 0..5
    BY <1>5, LifecycleFacts DEF Approve, Send
  <2>2. Blank \in Snapshot /\ Past(Blank, stage')
    BY <1>1, DemoAssumption, LifecycleFacts DEF Blank, Snapshot, Past
  <2>3. call.action \in Actions /\ call \in Call
    <3>1. shown[p].stage + 1 \in 1..6
      BY <2>1
    <3>2. Lifecycle[shown[p].stage + 1] \in Actions
      BY <3>1, LifecycleFacts
    <3>. QED  BY <1>2, <2>2, <3>2 DEF Call, PagesOK
  <2>4. CallOK(call, stage')
    BY <2>1, <2>2 DEF CallOK, FollowsBasis
  <2>. HIDE DEF call
  <2>. QED  BY <1>2, <1>3, <2>1, <2>3, <2>4 DEF PagesOK
<1>6. ASSUME NEW p \in Pages, NEW i \in CallIds(p), Receive(p, i) PROVE PageInv'
  <2>. DEFINE call == [calls[p][i] EXCEPT !.state = "received",
                                          !.basis = Blank, !.reply = Blank]
  <2>1. /\ calls' = [calls EXCEPT ![p][i] = call]
        /\ selected' = selected /\ stage' = stage
        /\ \/ shown' = [shown EXCEPT ![p] = calls[p][i].reply]
           \/ shown' = shown
    BY <1>6 DEF Receive
  <2>2. Blank \in Snapshot /\ Past(Blank, stage')
    BY <1>1, DemoAssumption, LifecycleFacts DEF Blank, Snapshot, Past
  <2>3. calls[p][i] \in Call /\ CallOK(calls[p][i], stage)
    BY <1>2 DEF CallIds
  <2>4. call \in Call /\ CallOK(call, stage')
    BY <2>2, <2>3 DEF Call, CallOK, FollowsBasis
  <2>5. calls[p][i].reply \in Snapshot /\ Past(calls[p][i].reply, stage')
    BY <2>1, <2>3 DEF Call, CallOK
  <2>6. shown' \in [Pages -> Snapshot] /\ \A q \in Pages : Past(shown'[q], stage')
    BY <1>2, <2>1, <2>5
  <2>7. selected' \in [Pages -> Customers] /\ i \in 1..Len(calls[p])
    BY <2>1 DEF PagesOK, CallIds
  <2>. HIDE DEF call
  <2>. QED  BY <1>3, <2>1, <2>4, <2>6, <2>7
\* The server answers with the stage that the customer then has.
<1>7. ASSUME NEW p \in Pages, NEW i \in CallIds(p), ServeView(p, i) \/ Execute(p, i)
      PROVE  PageInv'
  <2>. DEFINE c == calls[p][i].customer
              call == [calls[p][i] EXCEPT !.state = "answered",
                                          !.reply = [customer |-> c, stage |-> stage'[c]]]
  <2>1. /\ calls' = [calls EXCEPT ![p][i].state = "answered",
                                  ![p][i].reply = [customer |-> c, stage |-> stage'[c]]]
        /\ selected' = selected /\ shown' = shown
    BY <1>7 DEF ServeView, Execute, Answer
  <2>2. calls[p][i] \in Call
    BY <1>2 DEF CallIds
  <2>3. calls' = [calls EXCEPT ![p][i] = call]
    BY <1>2, <2>1, <2>2 DEF Call, CallIds
  <2>4. call \in Call /\ CallOK(call, stage')
    <3>1. c \in Customers
      BY <2>2 DEF Call
    <3>2. stage'[c] \in 0..6
      BY <1>1, <3>1, LifecycleFacts
    <3>3. call \in Call
      <4>1. [customer |-> c, stage |-> stage'[c]] \in Snapshot
        BY <3>1, <3>2 DEF Snapshot
      <4>2. \A k \in Call, r \in Snapshot :
              [k EXCEPT !.state = "answered", !.reply = r] \in Call
        BY DEF Call
      <4>. QED  BY <2>2, <4>1, <4>2
    <3>4. call.state = "answered" /\ Past(call.reply, stage')
      BY <2>2, <3>2 DEF Call, Past
    <3>. QED  BY <3>3, <3>4 DEF CallOK, FollowsBasis
  <2>5. selected' \in [Pages -> Customers] /\ i \in 1..Len(calls[p])
    BY <2>1 DEF PagesOK, CallIds
  <2>. HIDE DEF call
  <2>. QED  BY <1>2, <1>3, <2>1, <2>3, <2>4, <2>5
<1>8. ASSUME NEW p \in Pages, NEW i \in CallIds(p), Refuse(p, i) PROVE PageInv'
  <2>. DEFINE call == [calls[p][i] EXCEPT !.state = "refused"]
  <2>1. /\ calls' = [calls EXCEPT ![p][i].state = "refused"]
        /\ selected' = selected /\ shown' = shown /\ stage' = stage
    BY <1>8 DEF Refuse
  <2>2. calls[p][i] \in Call /\ CallOK(calls[p][i], stage)
    BY <1>2 DEF CallIds
  <2>3. calls' = [calls EXCEPT ![p][i] = call]
    BY <1>2, <2>1 DEF CallIds
  <2>4. call \in Call /\ CallOK(call, stage')
    BY <2>1, <2>2 DEF Call, CallOK, FollowsBasis
  <2>5. selected' \in [Pages -> Customers] /\ i \in 1..Len(calls[p])
    BY <2>1 DEF PagesOK, CallIds
  <2>. HIDE DEF call
  <2>. QED  BY <1>2, <1>3, <2>1, <2>3, <2>4, <2>5
<1>9. CASE UNCHANGED controlVars
  BY <1>1, <1>9 DEF controlVars, PagesOK, ScreensOK, CallIds
<1>. QED
  BY <1>4, <1>5, <1>6, <1>7, <1>8, <1>9 DEF ControlNext, Serve

LEMMA PagesAlwaysOK == ControlSpec => [](PageInv /\ LogIsLifecycle)
<1>1. PageInv /\ LogIsLifecycle /\ [ControlNext]_controlVars => (PageInv /\ LogIsLifecycle)'
  BY StepPages, StepLog DEF PageInv
<1>. QED  BY InitPages, InitLog, <1>1, PTL DEF ControlSpec

\* However late answers arrive and in whatever order, a page never shows a
\* customer further than he is, and a screen that says COMPLETE is right for
\* good (selectCustomer, executeAction, customer_snapshot).
THEOREM ScreensShowThePast == ControlSpec => []ScreenIsThePast
<1>1. PageInv => ScreenIsThePast
  <2>. SUFFICES ASSUME PageInv, NEW p \in Pages
                PROVE  /\ shown[p].stage <= stage[shown[p].customer]
                       /\ Verdict(shown[p].stage) = "COMPLETE" =>
                            Verdict(stage[shown[p].customer]) = "COMPLETE"
    BY DEF ScreenIsThePast
  <2>1. /\ shown[p].stage \in -1..6 /\ stage[shown[p].customer] \in 0..6
        /\ shown[p].stage <= stage[shown[p].customer]
    BY LifecycleFacts DEF PageInv, PagesOK, StagesOK, ScreensOK, Past, Snapshot
  <2>2. \A n \in -1..6 : Verdict(n) = "COMPLETE" <=> n = 6
    BY LifecycleFacts DEF Verdict
  <2>3. Verdict(shown[p].stage) = "COMPLETE" => stage[shown[p].customer] = 6
    BY <2>1, <2>2
  <2>. QED  BY <2>1, <2>2, <2>3
<1>. QED  BY PagesAlwaysOK, <1>1, PTL

\* The one step that answers a call for an action is its execution.
LEMMA OnlyExecuteExecutes ==
  ASSUME PageInv, [ControlNext]_controlVars, NEW p \in Pages, NEW i \in CallIds(p), Executes(p, i)
  PROVE  Execute(p, i)
<1>1. /\ calls[p][i].state = "sent" /\ calls'[p][i].state = "answered"
      /\ calls[p][i].action # "view" /\ calls \in [Pages -> Seq(Call)]
  BY DEF Executes, PageInv, PagesOK
<1>2. ASSUME NEW q \in Pages, NEW call, calls' = [calls EXCEPT ![q] = Append(@, call)]
      PROVE  FALSE
  <2>1. calls'[p][i] = calls[p][i]
    BY <1>1, <1>2 DEF CallIds
  <2>. QED  BY <1>1, <2>1
<1>3. ASSUME NEW q \in Pages, NEW j \in CallIds(q), NEW call,
             calls' = [calls EXCEPT ![q][j] = call]
      PROVE  q = p /\ j = i /\ call.state = "answered"
  <2>1. q # p \/ j # i => calls'[p][i] = calls[p][i]
    BY <1>1, <1>3 DEF CallIds
  <2>2. q = p /\ j = i => calls'[p][i] = call
    BY <1>1, <1>3 DEF CallIds
  <2>. QED  BY <1>1, <2>1, <2>2
<1>4. ASSUME NEW q \in Pages, NEW c \in Customers, Select(q, c) PROVE FALSE
  BY <1>2, <1>4 DEF Select, Send
<1>5. ASSUME NEW q \in Pages, Approve(q) PROVE FALSE
  BY <1>2, <1>5 DEF Approve, Send
<1>6. ASSUME NEW q \in Pages, NEW j \in CallIds(q), Receive(q, j) PROVE FALSE
  <2>. DEFINE call == [calls[q][j] EXCEPT !.state = "received",
                                          !.basis = Blank, !.reply = Blank]
  <2>1. calls' = [calls EXCEPT ![q][j] = call]
    BY <1>6 DEF Receive
  <2>2. calls[q][j] \in Call
    BY <1>1 DEF CallIds
  <2>3. call.state = "received"
    BY <2>2 DEF Call
  <2>. HIDE DEF call
  <2>. QED  BY <1>3, <2>1, <2>3
<1>7. ASSUME NEW q \in Pages, NEW j \in CallIds(q), ServeView(q, j) \/ Execute(q, j) \/ Refuse(q, j)
      PROVE  q = p /\ j = i /\ calls[q][j].state = "sent" /\ ~ Refuse(q, j)
  <2>1. calls[q][j] \in Call
    BY <1>1 DEF CallIds
  <2>2. PICK r, s : /\ calls' = [calls EXCEPT ![q][j] = [calls[q][j] EXCEPT !.state = s, !.reply = r]]
                    /\ Refuse(q, j) => s = "refused"
    <3>1. CASE Refuse(q, j)
      <4>1. calls' = [calls EXCEPT ![q][j].state = "refused"]
        BY <3>1 DEF Refuse
      <4>2. calls' = [calls EXCEPT ![q][j] = [calls[q][j] EXCEPT !.state = "refused",
                                                                 !.reply = calls[q][j].reply]]
        BY <1>1, <2>1, <4>1 DEF Call, CallIds
      <4>. QED  BY <4>2
    <3>2. CASE ~ Refuse(q, j)
      <4>1. PICK r : calls' = [calls EXCEPT ![q][j].state = "answered", ![q][j].reply = r]
        BY <1>7, <3>2 DEF ServeView, Execute, Answer
      <4>2. calls' = [calls EXCEPT ![q][j] = [calls[q][j] EXCEPT !.state = "answered",
                                                                 !.reply = r]]
        BY ZenonT(30), <1>1, <2>1, <4>1 DEF Call, CallIds
      <4>. QED  BY <3>2, <4>2
    <3>. QED  BY <3>1, <3>2
  <2>. DEFINE call == [calls[q][j] EXCEPT !.state = s, !.reply = r]
  <2>3. call.state = s
    BY <2>1 DEF Call
  <2>4. q = p /\ j = i /\ call.state = "answered"
    <3>. HIDE DEF call
    <3>. QED  BY <1>3, <2>2 DEF call
  <2>. QED  BY <1>1, <2>2, <2>3, <2>4
<1>8. CASE UNCHANGED controlVars
  BY <1>1, <1>8 DEF controlVars
<1>. QED
  BY <1>1, <1>4, <1>5, <1>6, <1>7, <1>8 DEF ControlNext, Serve, ServeView

\* Two pages, or two clicks on one page, never move a customer on twice: an
\* approval is executed only at the stage that its page showed (execute_action
\* checks the expected action).
THEOREM StaleApprovalsAreRefused == ControlSpec => StaleApprovalIsRefused
<1>1. ASSUME PageInv, [ControlNext]_controlVars, NEW p \in Pages, NEW i \in CallIds(p),
             Executes(p, i), calls[p][i].basis.customer = calls[p][i].customer
      PROVE  /\ stage[calls[p][i].customer] = calls[p][i].basis.stage
             /\ calls'[p][i].reply.stage = calls[p][i].basis.stage + 1
  <2>. DEFINE c == calls[p][i].customer
  <2>1. /\ calls[p][i].action \in Expected(c)
        /\ stage' = [stage EXCEPT ![c] = @ + 1]
        /\ Answer(p, i, [customer |-> c, stage |-> stage'[c]])
    BY <1>1, OnlyExecuteExecutes DEF Execute
  <2>2. calls \in [Pages -> Seq(Call)] /\ calls[p][i] \in Call /\ CallOK(calls[p][i], stage)
    BY <1>1 DEF PageInv, PagesOK, ScreensOK, CallIds
  <2>3. c \in Customers /\ stage[c] \in 0..6
    BY <1>1, <2>2, LifecycleFacts DEF Call, PageInv, StagesOK
  <2>4. stage[c] \in 0..5 /\ calls[p][i].action = Lifecycle[stage[c] + 1]
    BY <2>1, <2>3, LifecycleFacts DEF Expected
  <2>5. /\ calls[p][i].basis.stage \in 0..5
        /\ calls[p][i].action = Lifecycle[calls[p][i].basis.stage + 1]
    BY <1>1, <2>2 DEF CallOK, FollowsBasis, Executes
  <2>6. stage[c] = calls[p][i].basis.stage
    <3>1. stage[c] + 1 \in 1..6 /\ calls[p][i].basis.stage + 1 \in 1..6
      BY <2>4, <2>5
    <3>2. stage[c] + 1 = calls[p][i].basis.stage + 1
      BY <2>4, <2>5, <3>1, LifecycleFacts
    <3>. QED  BY <2>4, <2>5, <3>2
  <2>7. calls'[p][i].reply.stage = stage'[c]
    BY <2>1, <2>2 DEF Answer, Call, CallIds
  <2>8. stage'[c] = stage[c] + 1
    BY <1>1, <2>1, <2>3 DEF PageInv, StagesOK
  <2>. QED  BY <2>6, <2>7, <2>8
<1>2. PageInv /\ [ControlNext]_controlVars =>
        [\A p \in Pages : \A i \in CallIds(p) :
           Executes(p, i) /\ calls[p][i].basis.customer = calls[p][i].customer =>
             /\ stage[calls[p][i].customer] = calls[p][i].basis.stage
             /\ calls'[p][i].reply.stage = calls[p][i].basis.stage + 1]_controlVars
  BY <1>1
<1>. QED  BY PagesAlwaysOK, <1>2, PTL DEF ControlSpec, StaleApprovalIsRefused

-----------------------------------------------------------------------------
(* Sealed challenges: the invariant.                                       *)

\* How many statements the tool that runs has behind it.
Done == IF status = "accepted" THEN Len(Does) ELSE IF line > 0 THEN line - 1 ELSE 0
Running(k, t) == kind = k /\ at = t /\ (line > 0 \/ status = "accepted")
VerifierRuns == at = Len(Book) /\ (line > 0 \/ status = "accepted")

ProcessOK ==
  /\ kind \in DOMAIN Books
  /\ at \in 1..Len(Book) /\ line \in 0..Len(Does)
  /\ status \in {"ready", "failed", "accepted"}
  /\ line > 0 => status = "ready"
  /\ status = "accepted" => at = Len(Book) /\ line = 0
  /\ DOMAIN disk = FileNames
  /\ fixed \in Seq(SuiteRecords)

\* What a file of each name may hold, wherever it was read or written.
IsPackage(c) ==
  /\ c = [public |-> c.public, cases |-> c.cases, answers |-> c.answers, cipher |-> c.cipher]
  /\ c.cipher \in DOMAIN fixed
  /\ ~Disturbed("package", AnyTool) => c.public = fixed[c.cipher].public

PredictionsHold(c) ==
  ~(Disturbed("public", {"predict"}) \/ Disturbed("code", {"predict"})
      \/ Disturbed("predictions", AnyTool))
    => c.says = Predict(Algorithm[c.commit], c.public)

IsSummary(c) == c = [cases |-> c.cases, says |-> c.says, decision |-> c.decision]
SummaryHolds(c) ==
  ~Disturbed("summary", {"predict"})
    => /\ c.cases \in Sealed
       /\ c.decision = Decision(c.cases.truth, c.says, "strict", c.cases.public)

ManifestFiles ==
  IF kind = "blind" THEN {"frozen", "package", "key", "score"}
  ELSE IF kind = "holdout" THEN {"records", "summary", "provenance"} ELSE {"result", "core"}

IsManifest(c) ==
  /\ DOMAIN c.files = ManifestFiles
  /\ kind # "holdout" => c = [files |-> c.files, commit |-> c.commit]
  /\ kind = "holdout" =>
       /\ IsSummary(c.files["summary"]) /\ SummaryHolds(c.files["summary"])
       /\ ~Disturbed("suite", {"predict"}) =>
            Built[c.files["provenance"].suite.public] = c.files["summary"].cases

Legit(f, c) ==
  /\ f = "suite" => c \in SuiteRecords
  /\ f = "package" => IsPackage(c)
  /\ f = "commitment" /\ kind = "temporal" =>
       c.answers \in Sealed /\ c.public = c.answers.public
  /\ f = "commitment" /\ kind = "holdout" => c.cases \in Sealed
  /\ f = "predictions" /\ kind = "temporal" => PredictionsHold(c)
  /\ f = "sealed" => c \in DOMAIN fixed
  /\ f = "truth" => c \in Sealed
  /\ f = "summary" => IsSummary(c)
  /\ f = "manifest" => IsManifest(c)

ContentsInv ==
  /\ \A f \in FileNames : disk[f] \notin {Absent, Torn} => Legit(f, disk[f])
  /\ \A f \in DOMAIN mem : Legit(f, mem[f])

\* What has been read and hashed is in memory.
ReadInv ==
  \A i \in 1..Done :
    /\ Does[i][1] = "read" => Does[i][2] \in DOMAIN mem
    /\ Does[i][1] = "hash" => Does[i][2] \in DOMAIN bytes

Seals == {"blind", "temporal", "passive", "active", "holdout"}
GeneratedAt == [blind |-> 4, temporal |-> 3, passive |-> 3, active |-> 3, holdout |-> 5]
SealInv ==
  kind \in Seals /\ at = 1 /\ Done >= GeneratedAt[kind] =>
    fixed # <<>> /\ Fixes = fixed[Len(fixed)]

TemporalPredictInv ==
  Running("temporal", 2) =>
    /\ ~Disturbed("code", {"predict"}) =>
         /\ code = work
         /\ Done >= 4 => work = Algorithm[head]
         /\ Done >= 5 => bytes["commit"] = head
    /\ ~Disturbed("public", {"predict"}) =>
         /\ Done >= 1 => bytes["public"] = disk["public"]
         /\ Done >= 2 => mem["public"] = bytes["public"]

HoldoutPredictInv ==
  Running("holdout", 2) =>
    /\ ~Disturbed("suite", {"predict"}) =>
         /\ Done >= 3 => disk["suite"] = mem["suite"]
         /\ Done >= 12 => bytes["suite"] = mem["suite"]
    /\ Done >= 7 => Built[mem["suite"].public] \in Sealed
    /\ Done >= 9 => /\ IsSummary(disk["summary"]) /\ SummaryHolds(disk["summary"])
                    /\ disk["summary"].cases = Built[mem["suite"].public]
    /\ Done >= 13 => disk["provenance"].suite = bytes["suite"]

Recomputed ==
  /\ mem["frozen"].predictions.says = Predict(code, mem["package"].public)
  /\ Ids[mem["frozen"].predictions.public] = Ids[mem["package"].public]

BlindVerifyInv ==
  Running("blind", 8) =>
    /\ Done >= 2 /\ ~Disturbed("code", {"verify"}) =>
         Algorithm[bytes["commit"]] = Algorithm[head]
    /\ Done >= 5 => mem["manifest"].commit = bytes["commit"]
    /\ Done >= 11 => Recomputed
    /\ Done >= 15 => Holds("rescored")
    /\ Done >= 17 => BlindAttested

TemporalVerifyInv ==
  Running("temporal", 3) =>
    /\ ~Disturbed("public", {"verify"}) =>
         /\ Done >= 1 => bytes["public"] = disk["public"]
         /\ Done >= 3 => mem["public"] = bytes["public"]
    /\ ~Disturbed("answers", {"verify"}) =>
         /\ Done >= 2 => bytes["answers"] = disk["answers"]
         /\ Done >= 5 => mem["answers"] = bytes["answers"]
    /\ Done >= 9 => Committed
    /\ Done >= 10 => mem["score"].decision = Decision(mem["answers"].truth,
                                         mem["predictions"].says, mem["protocol"], mem["public"])
    /\ Done >= 11 => mem["score"].decision = "PASS"

PassiveVerifyInv ==
  Running("passive", 6) =>
    /\ Done >= 7 => mem["public"] = mem["truth"].public
    /\ Done >= 11 => mem["result"] = PassiveResult
    /\ Done >= 14 => SignedManifest
    /\ Done >= 15 => mem["result"].says \in {mem["truth"].truth, "unsure"}

ActiveVerifyInv ==
  Running("active", 7) =>
    /\ Done >= 7 => mem["public"] = mem["truth"].public
    /\ Done >= 12 => mem["result"].public = mem["public"]
    /\ Done >= 13 => mem["result"].says = Concludes(mem["core"], mem["truth"].truth)
    /\ Done >= 14 => mem["result"].says \in {mem["truth"].truth, "unsure"}
    /\ Done >= 16 => SignedManifest

HoldoutVerifyInv ==
  Running("holdout", 3) =>
    LET declared == mem["manifest"].files["summary"]
    IN  /\ Done >= 4 => /\ IsSummary(disk["summary"]) /\ disk["summary"].cases = declared.cases
                        /\ (~Disturbed("summary", {"verify"}) => disk["summary"] = declared)
        /\ Done >= 5 => /\ mem["summary"].cases = declared.cases
                        /\ (~Disturbed("summary", {"verify"}) => mem["summary"] = declared)
        /\ Done >= 6 => mem["summary"].decision = "PASS"

TransferVerifyInv == Running("transfer", 3) /\ Done >= 5 => SignedManifest

\* While a verifier runs, what it has read or compared stays on the disk.
BundleInv ==
  VerifierRuns /\ kind # "temporal" =>
    \A f \in FileNames : ~Disturbed(f, {"verify"}) =>
      /\ f \in DOMAIN mem => mem[f] = disk[f]
      /\ \A i \in 1..Done : Does[i] = Matches(f) => mem["manifest"].files[f] = disk[f]

ChallengeInv ==
  /\ ProcessOK /\ ContentsInv /\ ReadInv /\ SealInv
  /\ TemporalPredictInv /\ HoldoutPredictInv
  /\ BlindVerifyInv /\ TemporalVerifyInv /\ PassiveVerifyInv /\ ActiveVerifyInv
  /\ HoldoutVerifyInv /\ TransferVerifyInv /\ BundleInv

-----------------------------------------------------------------------------
(* The tools.                                                               *)

\* The verifier comes last.
LEMMA BlindBook ==
  LET b == Books["blind"]
  IN  /\ "blind" \in DOMAIN Books /\ Len(b) = 8 /\ DOMAIN b = 1..8
      /\ b[1].does = BlindSeal /\ b[1].name = "seal"
      /\ b[2].does = BlindPredict /\ b[2].name = "predict"
      /\ b[3].does = BlindFreeze /\ b[3].name = "freeze"
      /\ b[4].does = BlindReveal /\ b[4].name = "reveal"
      /\ b[5].does = BlindScoring /\ b[5].name = "score"
      /\ b[6].does = BlindDeclare /\ b[6].name = "declare"
      /\ b[7].does = BlindSign /\ b[7].name = "sign"
      /\ b[8].does = BlindVerify /\ b[8].name = "verify"
BY DEF Books, Tool

LEMMA TemporalBook ==
  LET b == Books["temporal"]
  IN  /\ "temporal" \in DOMAIN Books /\ Len(b) = 3 /\ DOMAIN b = 1..3
      /\ b[1].does = TemporalSeal /\ b[1].name = "seal"
      /\ b[2].does = TemporalPredict /\ b[2].name = "predict"
      /\ b[3].does = TemporalVerify /\ b[3].name = "verify"
BY DEF Books, Tool

LEMMA PassiveBook ==
  LET b == Books["passive"]
  IN  /\ "passive" \in DOMAIN Books /\ Len(b) = 6 /\ DOMAIN b = 1..6
      /\ b[1].does = GhostSeal /\ b[1].name = "seal"
      /\ b[2].does = PassivePredict /\ b[2].name = "predict"
      /\ b[3].does = GhostReveal /\ b[3].name = "reveal"
      /\ b[4].does = Declare /\ b[4].name = "declare"
      /\ b[5].does = Sign /\ b[5].name = "sign"
      /\ b[6].does = PassiveVerify /\ b[6].name = "verify"
BY DEF Books, Tool

LEMMA ActiveBook ==
  LET b == Books["active"]
  IN  /\ "active" \in DOMAIN Books /\ Len(b) = 7 /\ DOMAIN b = 1..7
      /\ b[1].does = GhostSeal /\ b[1].name = "seal"
      /\ b[2].does = ActiveServe /\ b[2].name = "serve"
      /\ b[3].does = ActivePredict /\ b[3].name = "predict"
      /\ b[4].does = GhostReveal /\ b[4].name = "reveal"
      /\ b[5].does = Declare /\ b[5].name = "declare"
      /\ b[6].does = Sign /\ b[6].name = "sign"
      /\ b[7].does = ActiveVerify /\ b[7].name = "verify"
BY DEF Books, Tool

LEMMA HoldoutBook ==
  LET b == Books["holdout"]
  IN  /\ "holdout" \in DOMAIN Books /\ Len(b) = 3 /\ DOMAIN b = 1..3
      /\ b[1].does = HoldoutSeal /\ b[1].name = "seal"
      /\ b[2].does = HoldoutPredict /\ b[2].name = "predict"
      /\ b[3].does = HoldoutVerify /\ b[3].name = "verify"
BY DEF Books, Tool

LEMMA TransferBook ==
  LET b == Books["transfer"]
  IN  /\ "transfer" \in DOMAIN Books /\ Len(b) = 3 /\ DOMAIN b = 1..3
      /\ b[1].does = Declare /\ b[1].name = "declare"
      /\ b[2].does = Sign /\ b[2].name = "sign"
      /\ b[3].does = TransferVerify /\ b[3].name = "verify"
BY DEF Books, Tool

LEMMA BookLength ==
  ASSUME NEW k \in DOMAIN Books
  PROVE  /\ Len(Books[k]) \in Nat /\ Len(Books[k]) >= 3 /\ DOMAIN Books[k] = 1..Len(Books[k])
         /\ Books[k][Len(Books[k])].name = "verify"
<1>1. k \in {"blind", "temporal", "passive", "active", "holdout", "transfer"}
  BY DEF Books
<1>2. CASE k = "blind"
  BY <1>2, BlindBook
<1>3. CASE k = "temporal"
  BY <1>3, TemporalBook
<1>4. CASE k = "passive"
  BY <1>4, PassiveBook
<1>5. CASE k = "active"
  BY <1>5, ActiveBook
<1>6. CASE k = "holdout"
  BY <1>6, HoldoutBook
<1>7. CASE k = "transfer"
  BY <1>7, TransferBook
<1>. QED  BY <1>1, <1>2, <1>3, <1>4, <1>5, <1>6, <1>7

\* Every tool has statements.
IsTool(d) == Len(d) \in Nat /\ Len(d) >= 2 /\ DOMAIN d = 1..Len(d)

LEMMA ToolsAre ==
  ASSUME NEW k \in DOMAIN Books, NEW t \in 1..Len(Books[k])
  PROVE  IsTool(Books[k][t].does)
<1>1. IsTool(BlindSeal)
  BY DEF IsTool, BlindSeal
<1>2. IsTool(BlindPredict)
  BY DEF IsTool, BlindPredict
<1>3. IsTool(BlindFreeze)
  BY DEF IsTool, BlindFreeze
<1>4. IsTool(BlindReveal)
  BY DEF IsTool, BlindReveal
<1>5. IsTool(BlindScoring)
  BY DEF IsTool, BlindScoring
<1>6. IsTool(BlindDeclare)
  BY DEF IsTool, BlindDeclare
<1>7. IsTool(BlindSign)
  BY DEF IsTool, BlindSign
<1>8. IsTool(BlindVerify)
  BY DEF IsTool, BlindVerify
<1>9. IsTool(TemporalSeal)
  BY DEF IsTool, TemporalSeal
<1>10. IsTool(TemporalPredict)
  BY DEF IsTool, TemporalPredict
<1>11. IsTool(TemporalVerify)
  BY DEF IsTool, TemporalVerify
<1>12. IsTool(GhostSeal)
  BY DEF IsTool, GhostSeal
<1>13. IsTool(PassivePredict)
  BY DEF IsTool, PassivePredict
<1>14. IsTool(GhostReveal)
  BY DEF IsTool, GhostReveal
<1>15. IsTool(Declare)
  BY DEF IsTool, Declare
<1>16. IsTool(Sign)
  BY DEF IsTool, Sign
<1>17. IsTool(PassiveVerify)
  BY DEF IsTool, PassiveVerify
<1>18. IsTool(ActiveServe)
  BY DEF IsTool, ActiveServe
<1>19. IsTool(ActivePredict)
  BY DEF IsTool, ActivePredict
<1>20. IsTool(ActiveVerify)
  BY DEF IsTool, ActiveVerify
<1>21. IsTool(HoldoutSeal)
  BY DEF IsTool, HoldoutSeal
<1>22. IsTool(HoldoutPredict)
  BY DEF IsTool, HoldoutPredict
<1>23. IsTool(HoldoutVerify)
  BY DEF IsTool, HoldoutVerify
<1>24. IsTool(TransferVerify)
  BY DEF IsTool, TransferVerify
<1>50. k \in {"blind", "temporal", "passive", "active", "holdout", "transfer"}
  BY DEF Books
<1>51. CASE k = "blind"
  <2>1. t \in 1..8
    BY <1>51, BlindBook
  <2>. QED
    BY <1>51, <2>1, <1>1, <1>2, <1>3, <1>4, <1>5, <1>6, <1>7, <1>8, BlindBook
<1>52. CASE k = "temporal"
  <2>1. t \in 1..3
    BY <1>52, TemporalBook
  <2>. QED
    BY <1>52, <2>1, <1>9, <1>10, <1>11, TemporalBook
<1>53. CASE k = "passive"
  <2>1. t \in 1..6
    BY <1>53, PassiveBook
  <2>. QED
    BY <1>53, <2>1, <1>12, <1>13, <1>14, <1>15, <1>16, <1>17, PassiveBook
<1>54. CASE k = "active"
  <2>1. t \in 1..7
    BY <1>54, ActiveBook
  <2>. QED
    BY <1>54, <2>1, <1>12, <1>18, <1>19, <1>14, <1>15, <1>16, <1>20, ActiveBook
<1>55. CASE k = "holdout"
  <2>1. t \in 1..3
    BY <1>55, HoldoutBook
  <2>. QED
    BY <1>55, <2>1, <1>21, <1>22, <1>23, HoldoutBook
<1>56. CASE k = "transfer"
  <2>1. t \in 1..3
    BY <1>56, TransferBook
  <2>. QED
    BY <1>56, <2>1, <1>15, <1>16, <1>24, TransferBook
<1>. QED  BY <1>50, <1>51, <1>52, <1>53, <1>54, <1>55, <1>56

-----------------------------------------------------------------------------
(* What a step does to the process.                                         *)

LEMMA ToolFacts ==
  ASSUME ProcessOK
  PROVE  /\ IsTool(Does) /\ Len(Book) \in Nat /\ Len(Book) >= 3
         /\ Book[Len(Book)].name = "verify"
         /\ Done \in 0..Len(Does) /\ (line > 0 => Done = line - 1 /\ line \in 1..Len(Does))
<1>1. kind \in DOMAIN Books /\ at \in 1..Len(Books[kind]) /\ line \in 0..Len(Does)
  BY DEF ProcessOK, Book
<1>2. IsTool(Does)
  BY <1>1, ToolsAre DEF Does, Book
<1>3. Len(Book) \in Nat /\ Len(Book) >= 3 /\ Book[Len(Book)].name = "verify"
  BY <1>1, BookLength DEF Book
<1>4. Len(Does) \in Nat
  BY <1>2 DEF IsTool
<1>. HIDE DEF Does
<1>5. Done \in 0..Len(Does) /\ (line > 0 => Done = line - 1 /\ line \in 1..Len(Does))
  BY <1>1, <1>4 DEF Done, ProcessOK
<1>. QED  BY <1>2, <1>3, <1>5

\* A tool goes on, or begins, or is over.
Advances ==
  /\ line > 0 /\ at' = at /\ code' = code
  /\ \/ line < Len(Does) /\ line' = line + 1 /\ status' = status
     \/ line = Len(Does) /\ at = Len(Book) /\ line' = 0 /\ status' = "accepted"
Stands == UNCHANGED <<at, line, mem, bytes, code, status, fixed>>
Begins ==
  /\ line = 0 /\ at' \in 1..Len(Book) /\ line' = 1 /\ code' = work /\ status' = "ready"
  /\ mem' = <<>> /\ bytes' = <<>> /\ fixed' = fixed
Stops == at' \in 1..Len(Book) /\ line' = 0 /\ status' \in {"ready", "failed"}

LEMMA ChallengeStepsAre ==
  ASSUME ProcessOK, [ChallengeNext]_challengeVars
  PROVE  /\ kind' = kind /\ inside' = inside
         /\ \/ Statement /\ (Advances \/ Stops)
            \/ Stands /\ (Edit \/ Lose \/ EditCode \/ StopAdapter \/ UNCHANGED challengeVars)
            \/ Begins /\ (StartTool \/ Jump)
            \/ Stops /\ fixed' = fixed /\ (StartTool \/ Kill \/ KillInWrite)
<1>1. /\ IsTool(Does) /\ Len(Book) \in Nat /\ Len(Book) >= 3
      /\ at \in 1..Len(Book) /\ status \in {"ready", "failed", "accepted"}
      /\ line > 0 => line \in 1..Len(Does) /\ status = "ready"
  BY ToolFacts DEF ProcessOK
<1>2. CASE Statement
  <2>1. /\ kind' = kind /\ inside' = inside /\ line > 0
        /\ Raise \/ Proceed
    BY <1>2 DEF Statement, Read, Hash, Match, RefuseExisting, CheckIt, Generate, Revision,
                ServeAdapter, Query, Write, Doing, Setting
  <2>2. CASE Raise
    BY <1>1, <1>2, <2>1, <2>2 DEF Raise, Stops
  <2>3. CASE Proceed
    <3>1. CASE line < Len(Does)
      BY <1>1, <1>2, <2>1, <2>3, <3>1 DEF Proceed, Advances
    <3>2. CASE line = Len(Does) /\ at < Len(Book)
      BY <1>1, <1>2, <2>1, <2>3, <3>2 DEF Proceed, Stops, IsTool
    <3>3. CASE line = Len(Does) /\ ~(at < Len(Book))
      BY <1>1, <1>2, <2>1, <2>3, <3>3 DEF Proceed, Advances, IsTool
    <3>. QED  BY <1>1, <2>1, <3>1, <3>2, <3>3 DEF IsTool
  <2>. QED  BY <2>1, <2>2, <2>3
<1>3. CASE StartTool
  <2>1. kind' = kind /\ inside' = inside /\ fixed' = fixed /\ line = 0
    BY <1>3 DEF StartTool, Setting
  <2>2. CASE Made(at)
    <3>1. at' = at + 1 /\ line' = 0 /\ status' = "ready" /\ status = "ready"
      BY <1>3, <2>1, <2>2 DEF StartTool
    <3>2. Does[1][1] = "refuse"
      BY <2>2 DEF Made, Does
    <3>3. at # Len(Book)
      <4>1. /\ kind \in DOMAIN Books
            /\ kind \in {"blind", "temporal", "passive", "active", "holdout", "transfer"}
        BY DEF ProcessOK, Books
      <4>2. /\ BlindVerify[1][1] # "refuse" /\ TemporalVerify[1][1] # "refuse"
            /\ PassiveVerify[1][1] # "refuse" /\ ActiveVerify[1][1] # "refuse"
            /\ HoldoutVerify[1][1] # "refuse" /\ TransferVerify[1][1] # "refuse"
        BY DEF BlindVerify, TemporalVerify, PassiveVerify, ActiveVerify, HoldoutVerify,
               TransferVerify, Reads, Hashes
      <4>3. ASSUME at = Len(Book)
            PROVE  Does \in {BlindVerify, TemporalVerify, PassiveVerify, ActiveVerify,
                             HoldoutVerify, TransferVerify}
        <5>1. CASE kind = "blind"
          BY <4>3, <5>1, BlindBook DEF Does, Book
        <5>2. CASE kind = "temporal"
          BY <4>3, <5>2, TemporalBook DEF Does, Book
        <5>3. CASE kind = "passive"
          BY <4>3, <5>3, PassiveBook DEF Does, Book
        <5>4. CASE kind = "active"
          BY <4>3, <5>4, ActiveBook DEF Does, Book
        <5>5. CASE kind = "holdout"
          BY <4>3, <5>5, HoldoutBook DEF Does, Book
        <5>6. CASE kind = "transfer"
          BY <4>3, <5>6, TransferBook DEF Does, Book
        <5>. QED  BY <4>1, <5>1, <5>2, <5>3, <5>4, <5>5, <5>6
      <4>. QED  BY <3>2, <4>2, <4>3
    <3>4. Stops
      BY <1>1, <3>1, <3>3 DEF Stops
    <3>. QED  BY <1>3, <2>1, <3>4
  <2>3. CASE ~Made(at)
    BY <1>1, <1>3, <2>1, <2>3 DEF StartTool, Begin, Begins
  <2>. QED  BY <2>2, <2>3
<1>4. CASE Kill \/ KillInWrite
  BY <1>1, <1>4 DEF Kill, KillInWrite, Disturb, Stops, Doing
<1>5. CASE Jump
  <2>1. DOMAIN Book = 1..Len(Book)
    BY BookLength DEF ProcessOK, Book
  <2>. QED  BY <1>5, <2>1 DEF Jump, Disturb, Begin, Begins
<1>6. CASE Edit \/ Lose \/ EditCode \/ StopAdapter
  BY <1>6 DEF Edit, Lose, EditCode, StopAdapter, Disturb, Stands, process
<1>7. CASE UNCHANGED challengeVars
  BY <1>7 DEF challengeVars, process, outside, Stands
<1>. QED
  BY <1>2, <1>3, <1>4, <1>5, <1>6, <1>7 DEF ChallengeNext, Ended

-----------------------------------------------------------------------------
(* The effect of one statement and of one disturbance.                      *)

\* What a statement that succeeds does.
Goes ==
  /\ Statement /\ Advances
  /\ Done' = Done + 1 /\ Done + 1 \in 1..Len(Does) /\ Here = Does[Done + 1]
  /\ Does' = Does /\ Book' = Book /\ kind' = kind
  /\ UNCHANGED <<at, code, head, work, edited>>

LEMMA GoesIs ==
  ASSUME ProcessOK, Statement, Advances, kind' = kind
  PROVE  Goes
<1>1. /\ IsTool(Does) /\ line > 0 /\ line \in 1..Len(Does) /\ Done = line - 1
      /\ Len(Book) \in Nat /\ at \in 1..Len(Book) /\ status = "ready"
  BY ToolFacts DEF Advances, ProcessOK
<1>2. Does' = Does /\ Book' = Book
  BY DEF Advances, Does, Book
<1>3. Here = Does[Done + 1]
  <2>1. Done + 1 = line
    BY <1>1 DEF IsTool
  <2>. QED  BY <2>1 DEF Here
<1>4. Done' = Done + 1
  <2>. HIDE DEF Does
  <2>1. CASE line < Len(Does) /\ line' = line + 1 /\ status' = status
    BY <1>1, <1>2, <2>1 DEF Done, IsTool
  <2>2. CASE line = Len(Does) /\ line' = 0 /\ status' = "accepted"
    BY <1>1, <1>2, <2>2 DEF Done, IsTool
  <2>. QED  BY <2>1, <2>2 DEF Advances
<1>5. UNCHANGED <<head, work, edited>>
  BY DEF Statement, Read, Hash, Match, RefuseExisting, CheckIt, Generate, Revision,
         ServeAdapter, Query, Write, Setting, outside
<1>6. Done + 1 \in 1..Len(Does)
  <2>. HIDE DEF Does, Done
  <2>. QED  BY <1>1 DEF IsTool
<1>. QED
  <2>. HIDE DEF Does, Done, Here
  <2>. QED  BY <1>2, <1>3, <1>4, <1>5, <1>6 DEF Goes, Advances

LEMMA Kept ==
  ASSUME ProcessOK, Advances, Keep
  PROVE  mem' = mem /\ bytes' = bytes
BY DEF Advances, Keep

LEMMA EffectOf ==
  ASSUME ProcessOK, Goes
  PROVE  LET f == Here[2]
         IN /\ Here[1] = "read" => /\ disk[f] \notin {Absent, Torn}
                                   /\ mem' = With(mem, f, disk[f])
                                   /\ UNCHANGED <<bytes, disk, fixed>>
            /\ Here[1] = "hash" => /\ disk[f] # Absent /\ bytes' = With(bytes, f, disk[f])
                                   /\ UNCHANGED <<mem, disk, fixed>>
            /\ Here[1] = "match" => /\ disk[f] = mem["manifest"].files[f]
                                    /\ UNCHANGED <<mem, bytes, disk, fixed>>
            /\ Here[1] = "refuse" => UNCHANGED <<mem, bytes, disk, fixed>>
            /\ Here[1] = "check" => /\ Holds(f) /\ UNCHANGED <<mem, disk, fixed>>
                                    /\ f # "registered" => UNCHANGED bytes
                                    /\ f = "registered" =>
                                         bytes' = With(bytes, "commit", mem["manifest"].commit)
            /\ Here[1] = "generate" => /\ fixed' = Append(fixed, Fixes)
                                       /\ UNCHANGED <<mem, bytes, disk>>
            /\ Here[1] = "revision" => /\ bytes' = With(bytes, "commit", head)
                                       /\ UNCHANGED <<mem, disk, fixed>>
            /\ Here[1] = "serve" => UNCHANGED <<mem, bytes, disk, fixed>>
            /\ Here[1] = "query" => /\ \E c : bytes' = With(bytes, "adapter", c)
                                    /\ UNCHANGED <<mem, disk, fixed>>
            /\ Here[1] = "write" => /\ disk' = [disk EXCEPT ![f] = Content(f)]
                                    /\ UNCHANGED <<bytes, fixed>>
                                    /\ \/ mem' = mem
                                       \/ mem' = With(mem, f, Content(f))
                                    /\ f = "score" /\ line < Len(Does) =>
                                         mem' = With(mem, f, Content(f))
                                    /\ f \notin {"score", "summary"} => mem' = mem
<1>. DEFINE h == Here  len == Len(Does)
<1>1. Statement /\ Advances /\ line > 0
  BY DEF Goes, Advances
<1>2. ~Raise
  BY <1>1 DEF Advances, Raise, Goes, ProcessOK
<1>3. Keep => mem' = mem /\ bytes' = bytes
  BY <1>1, Kept
<1>4. CASE Read
  BY <1>2, <1>4 DEF Read, Doing, Arg
<1>5. CASE Hash
  BY <1>2, <1>5 DEF Hash, Doing, Arg
<1>6. CASE Match
  BY <1>2, <1>3, <1>6 DEF Match, Doing, Arg
<1>7. CASE RefuseExisting
  BY <1>2, <1>3, <1>7 DEF RefuseExisting, Doing, Arg
<1>8. CASE CheckIt
  <2>. HIDE DEF Holds
  <2>1. /\ Here[1] = "check" /\ Holds(Arg) /\ UNCHANGED <<mem, disk, fixed>>
        /\ Arg # "registered" => UNCHANGED bytes
        /\ Arg = "registered" => bytes' = With(bytes, "commit", mem["manifest"].commit)
    BY <1>2, <1>3, <1>8 DEF CheckIt, Doing
  <2>. QED  BY <2>1 DEF Arg
<1>9. CASE Generate
  BY <1>3, <1>9 DEF Generate, Doing
<1>10. CASE Revision
  BY <1>10 DEF Revision, Doing
<1>11. CASE ServeAdapter
  BY <1>3, <1>11 DEF ServeAdapter, Doing
<1>12. CASE Query
  BY <1>2, <1>12 DEF Query, Doing
<1>13. CASE Write
  <2>. HIDE DEF Content
  <2>1. /\ Here[1] = "write" /\ disk' = [disk EXCEPT ![Arg] = Content(Arg)]
        /\ UNCHANGED <<bytes, fixed>>
        /\ mem' = mem \/ mem' = With(mem, Arg, Content(Arg))
        /\ Arg = "score" /\ line < Len(Does) => mem' = With(mem, Arg, Content(Arg))
        /\ Arg \notin {"score", "summary"} => mem' = mem
    BY <1>3, <1>13 DEF Write, Doing
  <2>. QED  BY <2>1 DEF Arg
<1>. QED
  BY <1>1, <1>4, <1>5, <1>6, <1>7, <1>8, <1>9, <1>10, <1>11, <1>12, <1>13 DEF Statement


\* What a statement does not touch stays.
LEMMA KeptBy ==
  ASSUME ProcessOK, Goes
  PROVE  LET g == Here[2]
         IN /\ \A f \in DOMAIN mem :
                 /\ f \in DOMAIN mem'
                 /\ ~(Here[1] \in {"read", "write"} /\ g = f) => mem'[f] = mem[f]
            /\ \A f \in DOMAIN bytes :
                 /\ f \in DOMAIN bytes'
                 /\ ~(Here[1] = "hash" /\ g = f) /\ f \notin {"commit", "adapter"} =>
                      bytes'[f] = bytes[f]
                 /\ f = "commit" /\ Here[1] # "revision" /\ g \notin {"commit", "registered"} =>
                      bytes'[f] = bytes[f]
            /\ Here[1] \notin {"read", "write"} => mem' = mem
            /\ Here[1] \notin {"hash", "revision", "query"} /\ g # "registered" => bytes' = bytes
            /\ DOMAIN disk' = FileNames
            /\ \A f \in FileNames : ~(Here[1] = "write" /\ g = f) => disk'[f] = disk[f]
            /\ Here[1] # "generate" => fixed' = fixed
            /\ Here[1] = "read" => g \in DOMAIN mem' /\ mem'[g] = disk[g]
            /\ Here[1] = "hash" => g \in DOMAIN bytes' /\ bytes'[g] = disk[g]
<1>1. Here[1] \in {"read", "hash", "match", "refuse", "check", "generate", "revision", "serve",
                   "query", "write"}
  BY DEF Goes, Statement, Read, Hash, Match, RefuseExisting, CheckIt, Generate, Revision,
         ServeAdapter, Query, Write, Doing
<1>2. DOMAIN disk = FileNames
  BY DEF ProcessOK
<1>. HIDE DEF Here, FileNames
<1>3. CASE Here[1] = "read"
  <2>1. mem' = With(mem, Here[2], disk[Here[2]]) /\ UNCHANGED <<bytes, disk, fixed>>
    BY <1>3, EffectOf
  <2>5. /\ DOMAIN With(mem, Here[2], disk[Here[2]]) = DOMAIN mem \union {Here[2]}
        /\ With(mem, Here[2], disk[Here[2]])[Here[2]] = disk[Here[2]]
        /\ \A f \in DOMAIN mem : f # Here[2] => With(mem, Here[2], disk[Here[2]])[f] = mem[f]
    BY DEF With
  <2>. QED  BY <1>2, <1>3, <2>1, <2>5
<1>4. CASE Here[1] = "hash"
  <2>1. bytes' = With(bytes, Here[2], disk[Here[2]]) /\ UNCHANGED <<mem, disk, fixed>>
    BY <1>4, EffectOf
  <2>5. /\ DOMAIN With(bytes, Here[2], disk[Here[2]]) = DOMAIN bytes \union {Here[2]}
        /\ With(bytes, Here[2], disk[Here[2]])[Here[2]] = disk[Here[2]]
        /\ \A f \in DOMAIN bytes : f # Here[2] => With(bytes, Here[2], disk[Here[2]])[f] = bytes[f]
    BY DEF With
  <2>. QED  BY <1>2, <1>4, <2>1, <2>5
<1>5. CASE Here[1] \in {"match", "refuse", "generate", "serve"}
  <2>1. /\ UNCHANGED <<mem, bytes, disk>>
        /\ Here[1] # "generate" => fixed' = fixed
    BY <1>5, EffectOf
  <2>. QED  BY <1>2, <1>5, <2>1
<1>6. CASE Here[1] = "check"
  <2>1. /\ UNCHANGED <<mem, disk, fixed>>
        /\ Here[2] # "registered" => bytes' = bytes
        /\ Here[2] = "registered" => bytes' = With(bytes, "commit", mem["manifest"].commit)
    BY <1>6, EffectOf
  <2>5. /\ DOMAIN With(bytes, "commit", mem["manifest"].commit) = DOMAIN bytes \union {"commit"}
        /\ With(bytes, "commit", mem["manifest"].commit)["commit"] = mem["manifest"].commit
        /\ \A f \in DOMAIN bytes : f # "commit" => With(bytes, "commit", mem["manifest"].commit)[f] = bytes[f]
    BY DEF With
  <2>. QED  BY <1>2, <1>6, <2>1, <2>5
<1>7. CASE Here[1] = "revision"
  <2>1. bytes' = With(bytes, "commit", head) /\ UNCHANGED <<mem, disk, fixed>>
    BY <1>7, EffectOf
  <2>5. /\ DOMAIN With(bytes, "commit", head) = DOMAIN bytes \union {"commit"}
        /\ With(bytes, "commit", head)["commit"] = head
        /\ \A f \in DOMAIN bytes : f # "commit" => With(bytes, "commit", head)[f] = bytes[f]
    BY DEF With
  <2>. QED  BY <1>2, <1>7, <2>1, <2>5
<1>8. CASE Here[1] = "query"
  <2>1. PICK c : bytes' = With(bytes, "adapter", c)
    BY <1>8, EffectOf
  <2>2. UNCHANGED <<mem, disk, fixed>>
    BY <1>8, EffectOf
  <2>5. /\ DOMAIN With(bytes, "adapter", c) = DOMAIN bytes \union {"adapter"}
        /\ With(bytes, "adapter", c)["adapter"] = c
        /\ \A f \in DOMAIN bytes : f # "adapter" => With(bytes, "adapter", c)[f] = bytes[f]
    BY DEF With
  <2>. QED  BY <1>2, <1>8, <2>1, <2>2, <2>5
<1>9. CASE Here[1] = "write"
  <2>1. /\ disk' = [disk EXCEPT ![Here[2]] = Content(Here[2])] /\ UNCHANGED <<bytes, fixed>>
        /\ mem' = mem \/ mem' = With(mem, Here[2], Content(Here[2]))
    BY <1>9, EffectOf
  <2>. HIDE DEF Content
  <2>5. /\ DOMAIN With(mem, Here[2], Content(Here[2])) = DOMAIN mem \union {Here[2]}
        /\ With(mem, Here[2], Content(Here[2]))[Here[2]] = Content(Here[2])
        /\ \A f \in DOMAIN mem : f # Here[2] => With(mem, Here[2], Content(Here[2]))[f] = mem[f]
    BY DEF With
  <2>. QED  BY <1>2, <1>9, <2>1, <2>5
<1>. QED  BY <1>1, <1>3, <1>4, <1>5, <1>6, <1>7, <1>8, <1>9

\* The seals and the record of disturbances only grow.
Grows ==
  /\ kind' = kind /\ edited \subseteq edited'
  /\ \A k \in DOMAIN fixed : k \in DOMAIN fixed' /\ fixed'[k] = fixed[k]

LEMMA DisturbedGrows ==
  ASSUME edited \subseteq edited', NEW what, NEW tools, Disturbed(what, tools)
  PROVE  Disturbed(what, tools)'
BY DEF Disturbed

LEMMA LegitGrows ==
  ASSUME Grows
  PROVE  \A f, c : Legit(f, c) => Legit(f, c)'
<1>1. \A what, tools : Disturbed(what, tools) => Disturbed(what, tools)'
  BY DisturbedGrows DEF Grows
<1>2. \A c : c \in Sealed => c \in Sealed'
  BY DEF Grows, Sealed
<1>3. AnyTool' = AnyTool
  BY DEF Grows, AnyTool, Book
<1>4. \A c : IsPackage(c) => IsPackage(c)'
  <2>1. Disturbed("package", AnyTool) => Disturbed("package", AnyTool)'
    BY <1>1, <1>3
  <2>. QED  BY <2>1 DEF Grows, IsPackage
<1>5. \A c : PredictionsHold(c) => PredictionsHold(c)'
  BY <1>1, <1>3 DEF PredictionsHold
<1>6. \A c : IsSummary(c) => IsSummary(c)'
  BY DEF IsSummary
<1>7. \A c : SummaryHolds(c) => SummaryHolds(c)'
  BY <1>1, <1>2 DEF SummaryHolds
<1>8. \A c : IsManifest(c) => IsManifest(c)'
  <2>1. ManifestFiles' = ManifestFiles /\ kind' = kind
    BY DEF ManifestFiles, Grows
  <2>. QED  BY <1>1, <1>6, <1>7, <2>1 DEF IsManifest
<1>9. \A c : c \in DOMAIN fixed => c \in DOMAIN fixed'
  BY DEF Grows
<1>10. kind' = kind
  BY DEF Grows
<1>. QED  BY <1>2, <1>4, <1>5, <1>6, <1>8, <1>9, <1>10 DEF Legit

\* A disturbance leaves a trace.
LEMMA StandsIs ==
  ASSUME ProcessOK, Stands, kind' = kind,
         Edit \/ Lose \/ EditCode \/ StopAdapter \/ UNCHANGED challengeVars
  PROVE  /\ Done' = Done /\ Does' = Does /\ Book' = Book /\ edited \subseteq edited'
         /\ DOMAIN disk' = FileNames
         /\ \A f \in FileNames : disk'[f] = disk[f] \/ <<f, During>> \in edited'
         /\ (head' = head /\ work' = work) \/ <<"code", During>> \in edited'
         /\ status = "accepted" => UNCHANGED <<disk, head, work, edited>>
         /\ \A f \in FileNames : \/ disk'[f] = disk[f]
                                 \/ f \in {"key", "frozen", "answers", "records"} /\ disk'[f] = Absent
                                 \/ disk[f] \notin {Absent, Torn} /\ disk'[f] \in Others(f)
<1>1. Done' = Done /\ Does' = Does /\ Book' = Book /\ DOMAIN disk = FileNames
  BY DEF Stands, Done, Does, Book, ProcessOK
<1>. HIDE DEF Done, Does, Book
<1>2. CASE UNCHANGED challengeVars
  BY <1>1, <1>2 DEF challengeVars, outside
<1>3. CASE EditCode \/ StopAdapter
  <2>. HIDE DEF During
  <2>. QED  BY <1>1, <1>3 DEF EditCode, StopAdapter, Disturb
<1>4. CASE Lose
  <2>. HIDE DEF During, FileNames
  <2>1. PICK f \in {"key", "frozen", "answers", "records"} :
          Disturb(f) /\ disk' = [disk EXCEPT ![f] = Absent] /\ UNCHANGED <<head, work>>
    BY <1>4 DEF Lose
  <2>. QED  BY <1>1, <2>1 DEF Disturb
<1>5. CASE Edit
  <2>. HIDE DEF During, FileNames
  <2>1. PICK f \in FileNames :
          /\ disk[f] \notin {Absent, Torn} /\ Disturb(f)
          /\ \E content \in Others(f) : disk' = [disk EXCEPT ![f] = content]
          /\ UNCHANGED <<head, work>>
    <3>. HIDE DEF Others
    <3>. QED  BY <1>5 DEF Edit
  <2>2. PICK content \in Others(f) : disk' = [disk EXCEPT ![f] = content]
    BY <2>1
  <2>. HIDE DEF Others
  <2>. QED  BY <1>1, <2>1, <2>2 DEF Disturb
<1>. QED  BY <1>2, <1>3, <1>4, <1>5

LEMMA DuringRuns ==
  ASSUME ProcessOK, line > 0
  PROVE  During = Book[at].name
<1>1. line # 0
  <2>1. Len(Does) \in Nat /\ line \in 0..Len(Does)
    BY ToolFacts DEF ProcessOK, IsTool
  <2>. HIDE DEF Does
  <2>. QED  BY <2>1
<1>. QED  BY <1>1 DEF During


\* A tool that begins or is left has done nothing.
StartsOver == /\ ~(line' > 0 /\ line' # 1) /\ Done' = 0 /\ kind' = kind
         /\ status' # "accepted" /\ (line' = 0 \/ line' = 1)
         /\ (line' = 1 => code' = work /\ mem' = <<>> /\ bytes' = <<>> /\ at' \in 1..Len(Book))

LEMMA StartsOverIs ==
  ASSUME kind' = kind, Begins \/ Stops
  PROVE  StartsOver
<1>1. CASE Begins
  <2>1. Done' = 0
    BY <1>1 DEF Begins, Done
  <2>. HIDE DEF Done
  <2>. QED  BY <1>1, <2>1 DEF Begins, StartsOver
<1>2. CASE Stops
  <2>1. Done' = 0
    BY <1>2 DEF Stops, Done
  <2>. HIDE DEF Done
  <2>. QED  BY <1>2, <2>1 DEF Stops, StartsOver
<1>. QED  BY <1>1, <1>2

LEMMA RunningGoes ==
  ASSUME Goes, NEW k, NEW t, Running(k, t)'
  PROVE  Running(k, t) /\ line > 0 /\ kind = k /\ at = t
BY DEF Goes, Running, Advances

LEMMA ReadSoFar ==
  ASSUME ReadInv, NEW i, i \in 1..Done
  PROVE  /\ Does[i][1] = "read" => Does[i][2] \in DOMAIN mem
         /\ Does[i][1] = "hash" => Does[i][2] \in DOMAIN bytes
BY DEF ReadInv

-----------------------------------------------------------------------------
(* The verifiers of the GhostGraph challenges and of the transfer.          *)

LEMMA PassiveVerifyGoes ==
  ASSUME ChallengeInv, Goes
  PROVE  PassiveVerifyInv'
<1>. SUFFICES ASSUME Running("passive", 6)'
              PROVE  /\ Done' >= 7 => mem'["public"] = mem'["truth"].public
                     /\ Done' >= 11 => mem'["result"] = PassiveResult'
                     /\ Done' >= 14 => SignedManifest'
                     /\ Done' >= 15 => mem'["result"].says \in {mem'["truth"].truth, "unsure"}
  BY DEF PassiveVerifyInv
<1>1. Running("passive", 6) /\ kind = "passive" /\ at = 6
  BY RunningGoes
<1>2. Does = PassiveVerify
  BY <1>1, PassiveBook DEF Does, Book
<1>3. /\ ProcessOK /\ ReadInv
      /\ Done >= 7 => mem["public"] = mem["truth"].public
      /\ Done >= 11 => mem["result"] = PassiveResult
      /\ Done >= 14 => SignedManifest
      /\ Done >= 15 => mem["result"].says \in {mem["truth"].truth, "unsure"}
  BY <1>1 DEF ChallengeInv, PassiveVerifyInv
<1>4. Len(Does) = 15
  BY <1>2 DEF PassiveVerify
<1>5. Done' = Done + 1 /\ Done \in 0..14 /\ Here = PassiveVerify[Done + 1] /\ code' = code
  <2>1. Done' = Done + 1 /\ Here = PassiveVerify[Done + 1] /\ Done + 1 \in 1..15 /\ code' = code
    BY <1>2, <1>4 DEF Goes
  <2>2. Done \in 0..Len(Does)
    BY <1>3, ToolFacts
  <2>. HIDE DEF Done
  <2>. QED  BY <1>4, <2>1, <2>2
<1>6. /\ \A i \in 1..15 : i >= 7 /\ i # 10 => PassiveVerify[i][1] \notin {"read", "write"}
      /\ PassiveVerify[10] = Reads("core") /\ PassiveVerify[2] = Reads("public")
      /\ PassiveVerify[1] = Reads("truth")
      /\ PassiveVerify[7] = Checks("sameSuite") /\ PassiveVerify[11] = Checks("rerun")
      /\ PassiveVerify[14] = Checks("attested") /\ PassiveVerify[15] = Checks("confirmed")
  BY SMTT(30) DEF PassiveVerify, Reads, Checks, Matches, Hashes
<1>7. Done >= 2 => "public" \in DOMAIN mem /\ "truth" \in DOMAIN mem
  <2>. HIDE DEF Done
  <2>1. \A i \in 1..Done : Does[i][1] = "read" => Does[i][2] \in DOMAIN mem
    BY <1>3 DEF ReadInv
  <2>. QED  BY <1>2, <1>5, <1>6, <2>1 DEF Reads
<1>8. Here[1] = "check" => Holds(Here[2])
  BY <1>3, EffectOf
<1>. HIDE DEF Done, Here
<1>9. Here[1] \notin {"read", "write"} => mem' = mem
  BY <1>3, KeptBy
<1>10. Done + 1 >= 7 /\ Done + 1 # 10 => mem' = mem
  BY <1>5, <1>6, <1>9
<1>11. /\ Done = 6 => Holds("sameSuite")
       /\ Done = 10 => Holds("rerun")
       /\ Done = 13 => Holds("attested")
       /\ Done = 14 => Holds("confirmed")
  BY <1>5, <1>6, <1>8 DEF Checks
<1>12. /\ Holds("sameSuite") => mem["public"] = mem["truth"].public
       /\ Holds("rerun") => mem["result"] = PassiveResult
       /\ Holds("attested") => SignedManifest
       /\ Holds("confirmed") => mem["result"].says \in {mem["truth"].truth, "unsure"}
  BY <1>1 DEF Holds
<1>13. Done = 9 => mem'["public"] = mem["public"] /\ mem'["truth"] = mem["truth"]
  <2>1. Done = 9 => Here = Reads("core")
    BY <1>5, <1>6
  <2>2. \A f \in DOMAIN mem : ~(Here[1] \in {"read", "write"} /\ Here[2] = f) => mem'[f] = mem[f]
    BY <1>3, KeptBy
  <2>. QED  BY <1>5, <1>7, <2>1, <2>2 DEF Reads
<1>. HIDE DEF Holds
<1>14. mem' = mem => /\ PassiveResult' = PassiveResult /\ (SignedManifest => SignedManifest')
  BY <1>5 DEF PassiveResult, SignedManifest
<1>. HIDE DEF SignedManifest, PassiveResult
<1>. QED  BY <1>3, <1>5, <1>10, <1>11, <1>12, <1>13, <1>14

LEMMA PassiveVerifyStays ==
  ASSUME ChallengeInv, kind' = kind, Stands \/ StartsOver, Stands => Done' = Done
  PROVE  PassiveVerifyInv'
<1>1. CASE Stands
  <2>1. Running("passive", 6)' = Running("passive", 6) /\ Done' = Done
    BY <1>1 DEF Stands, Running
  <2>2. PassiveResult' = PassiveResult /\ SignedManifest' = SignedManifest /\ mem' = mem
    BY <1>1 DEF Stands, PassiveResult, SignedManifest
  <2>. HIDE DEF Done, PassiveResult, SignedManifest
  <2>. QED  BY <2>1, <2>2 DEF ChallengeInv, PassiveVerifyInv
<1>2. CASE StartsOver
  <2>1. Done' = 0
    BY <1>2 DEF StartsOver
  <2>. HIDE DEF Done, PassiveResult, SignedManifest
  <2>. QED  BY <2>1 DEF PassiveVerifyInv
<1>. QED  BY <1>1, <1>2


LEMMA ActiveVerifyGoes ==
  ASSUME ChallengeInv, Goes
  PROVE  ActiveVerifyInv'
<1>. DEFINE Replayed == mem["result"].says = Concludes(mem["core"], mem["truth"].truth)
<1>. SUFFICES ASSUME Running("active", 7)'
              PROVE  /\ Done' >= 7 => mem'["public"] = mem'["truth"].public
                     /\ Done' >= 12 => mem'["result"].public = mem'["public"]
                     /\ Done' >= 13 => Replayed'
                     /\ Done' >= 14 => mem'["result"].says \in {mem'["truth"].truth, "unsure"}
                     /\ Done' >= 16 => SignedManifest'
  BY DEF ActiveVerifyInv
<1>1. Running("active", 7) /\ kind = "active" /\ at = 7
  BY RunningGoes
<1>2. Does = ActiveVerify
  BY <1>1, ActiveBook DEF Does, Book
<1>3. /\ ProcessOK /\ ReadInv
      /\ Done >= 7 => mem["public"] = mem["truth"].public
      /\ Done >= 12 => mem["result"].public = mem["public"]
      /\ Done >= 13 => Replayed
      /\ Done >= 14 => mem["result"].says \in {mem["truth"].truth, "unsure"}
      /\ Done >= 16 => SignedManifest
  BY <1>1 DEF ChallengeInv, ActiveVerifyInv
<1>4. Len(Does) = 16
  BY <1>2 DEF ActiveVerify
<1>5. Done' = Done + 1 /\ Done \in 0..15 /\ Here = ActiveVerify[Done + 1] /\ code' = code
  <2>1. Done' = Done + 1 /\ Here = ActiveVerify[Done + 1] /\ Done + 1 \in 1..16 /\ code' = code
    BY <1>2, <1>4 DEF Goes
  <2>2. Done \in 0..Len(Does)
    BY <1>3, ToolFacts
  <2>. HIDE DEF Done
  <2>. QED  BY <1>4, <2>1, <2>2
<1>6. /\ \A i \in 1..16 : i >= 7 /\ i # 11 => ActiveVerify[i][1] \notin {"read", "write"}
      /\ ActiveVerify[11] = Reads("core") /\ ActiveVerify[2] = Reads("public")
      /\ ActiveVerify[1] = Reads("truth")
      /\ ActiveVerify[7] = Checks("sameSuite") /\ ActiveVerify[12] = Checks("sameRun")
      /\ ActiveVerify[13] = Checks("replayed") /\ ActiveVerify[14] = Checks("confirmed")
      /\ ActiveVerify[16] = Checks("attested")
  BY SMTT(30) DEF ActiveVerify, Reads, Checks, Matches, Hashes
<1>7. Done >= 2 => "public" \in DOMAIN mem /\ "truth" \in DOMAIN mem
  <2>. HIDE DEF Done
  <2>1. \A i \in 1..Done : Does[i][1] = "read" => Does[i][2] \in DOMAIN mem
    BY <1>3 DEF ReadInv
  <2>. QED  BY <1>2, <1>5, <1>6, <2>1 DEF Reads
<1>8. Here[1] = "check" => Holds(Here[2])
  BY <1>3, EffectOf
<1>. HIDE DEF Done, Here
<1>9. Here[1] \notin {"read", "write"} => mem' = mem
  BY <1>3, KeptBy
<1>10. Done + 1 >= 7 /\ Done + 1 # 11 => mem' = mem
  BY <1>5, <1>6, <1>9
<1>11. /\ Done = 6 => Holds("sameSuite")
       /\ Done = 11 => Holds("sameRun")
       /\ Done = 12 => Holds("replayed")
       /\ Done = 13 => Holds("confirmed")
       /\ Done = 15 => Holds("attested")
  BY <1>5, <1>6, <1>8 DEF Checks
<1>12. /\ Holds("sameSuite") => mem["public"] = mem["truth"].public
       /\ Holds("sameRun") => mem["result"].public = mem["public"]
       /\ Holds("replayed") => Replayed
       /\ Holds("attested") => SignedManifest
       /\ Holds("confirmed") => mem["result"].says \in {mem["truth"].truth, "unsure"}
  BY <1>1 DEF Holds
<1>13. Done = 10 => mem'["public"] = mem["public"] /\ mem'["truth"] = mem["truth"]
  <2>1. Done = 10 => Here = Reads("core")
    BY <1>5, <1>6
  <2>2. \A f \in DOMAIN mem : ~(Here[1] \in {"read", "write"} /\ Here[2] = f) => mem'[f] = mem[f]
    BY <1>3, KeptBy
  <2>. QED  BY <1>5, <1>7, <2>1, <2>2 DEF Reads
<1>. HIDE DEF Holds
<1>14. mem' = mem => /\ (Replayed => Replayed') /\ (SignedManifest => SignedManifest')
  BY DEF SignedManifest
<1>. HIDE DEF SignedManifest, Replayed
<1>. QED  BY <1>3, <1>5, <1>10, <1>11, <1>12, <1>13, <1>14

LEMMA ActiveVerifyStays ==
  ASSUME ChallengeInv, kind' = kind, Stands \/ StartsOver, Stands => Done' = Done
  PROVE  ActiveVerifyInv'
<1>1. CASE Stands
  <2>1. Running("active", 7)' = Running("active", 7) /\ Done' = Done
    BY <1>1 DEF Stands, Running
  <2>2. SignedManifest' = SignedManifest /\ mem' = mem
    BY <1>1 DEF Stands, SignedManifest
  <2>. HIDE DEF Done, SignedManifest
  <2>. QED  BY <2>1, <2>2 DEF ChallengeInv, ActiveVerifyInv
<1>2. CASE StartsOver
  <2>1. Done' = 0
    BY <1>2 DEF StartsOver
  <2>. HIDE DEF Done, SignedManifest
  <2>. QED  BY <2>1 DEF ActiveVerifyInv
<1>. QED  BY <1>1, <1>2

LEMMA TransferVerifyGoes ==
  ASSUME ChallengeInv, Goes
  PROVE  TransferVerifyInv'
<1>. SUFFICES ASSUME Running("transfer", 3)', Done' >= 5
              PROVE  SignedManifest'
  BY DEF TransferVerifyInv
<1>1. Running("transfer", 3) /\ kind = "transfer" /\ at = 3
  BY RunningGoes
<1>2. Does = TransferVerify
  BY <1>1, TransferBook DEF Does, Book
<1>3. ProcessOK
  BY DEF ChallengeInv
<1>4. Len(Does) = 5 /\ TransferVerify[5] = Checks("attested")
  BY <1>2 DEF TransferVerify
<1>5. Done = 4 /\ Here = TransferVerify[5]
  <2>1. Done' = Done + 1 /\ Here = TransferVerify[Done + 1] /\ Done + 1 \in 1..5
    BY <1>2, <1>4 DEF Goes
  <2>2. Done \in 0..Len(Does)
    BY <1>3, ToolFacts
  <2>. HIDE DEF Done
  <2>3. Done = 4
    BY <1>4, <2>1, <2>2
  <2>. QED  BY <2>1, <2>3
<1>8. Here[1] = "check" => Holds(Here[2]) /\ mem' = mem
  BY <1>3, EffectOf
<1>. HIDE DEF Done, Here
<1>9. Holds("attested") /\ mem' = mem
  BY <1>4, <1>5, <1>8 DEF Checks
<1>10. SignedManifest
  BY <1>1, <1>9 DEF Holds
<1>. QED  BY <1>9, <1>10 DEF SignedManifest

LEMMA TransferVerifyStays ==
  ASSUME ChallengeInv, kind' = kind, Stands \/ StartsOver, Stands => Done' = Done
  PROVE  TransferVerifyInv'
<1>1. CASE Stands
  <2>1. Running("transfer", 3)' = Running("transfer", 3) /\ Done' = Done
    BY <1>1 DEF Stands, Running
  <2>2. SignedManifest' = SignedManifest
    BY <1>1 DEF Stands, SignedManifest
  <2>. HIDE DEF Done, SignedManifest
  <2>. QED  BY <2>1, <2>2 DEF ChallengeInv, TransferVerifyInv
<1>2. CASE StartsOver
  <2>1. Done' = 0
    BY <1>2 DEF StartsOver
  <2>. HIDE DEF Done, SignedManifest
  <2>. QED  BY <2>1 DEF TransferVerifyInv
<1>. QED  BY <1>1, <1>2


-----------------------------------------------------------------------------
(* The verifier of the blind challenge.                                     *)

\* While a tool runs, what is disturbed is recorded against it.
LEMMA RunStays ==
  ASSUME ProcessOK, Stands, kind' = kind, line > 0 \/ status = "accepted",
         Edit \/ Lose \/ EditCode \/ StopAdapter \/ UNCHANGED challengeVars
  PROVE  LET name == Book[at].name
         IN /\ Done' = Done /\ edited \subseteq edited'
            /\ \A f \in FileNames : disk'[f] = disk[f] \/ Disturbed(f, {name})'
            /\ (head' = head /\ work' = work) \/ Disturbed("code", {name})'
            /\ \A f : Disturbed(f, {name}) => Disturbed(f, {name})'
<1>1. /\ Done' = Done /\ edited \subseteq edited' /\ Book' = Book
      /\ \A f \in FileNames : disk'[f] = disk[f] \/ <<f, During>> \in edited'
      /\ (head' = head /\ work' = work) \/ <<"code", During>> \in edited'
      /\ status = "accepted" => UNCHANGED <<disk, head, work, edited>>
  BY StandsIs
<1>2. line > 0 => During = Book[at].name
  BY DuringRuns
<1>3. at' = at
  BY DEF Stands
<1>. HIDE DEF Done, During, Book
<1>. QED  BY <1>1, <1>2, <1>3 DEF Disturbed

LEMMA BlindVerifyGoes ==
  ASSUME ChallengeInv, Goes
  PROVE  BlindVerifyInv'
<1>. DEFINE OfHead == ~Disturbed("code", {"verify"}) => Algorithm[bytes["commit"]] = Algorithm[head]
<1>. SUFFICES ASSUME Running("blind", 8)'
              PROVE  /\ Done' >= 2 => OfHead'
                     /\ Done' >= 5 => mem'["manifest"].commit = bytes'["commit"]
                     /\ Done' >= 11 => Recomputed'
                     /\ Done' >= 15 => Holds("rescored")'
                     /\ Done' >= 17 => BlindAttested'
  <2>. HIDE DEF Done
  <2>. QED  BY DEF BlindVerifyInv
<1>1. Running("blind", 8) /\ kind = "blind" /\ at = 8
  BY RunningGoes
<1>2. Does = BlindVerify
  BY <1>1, BlindBook DEF Does, Book
<1>3. /\ ProcessOK /\ ReadInv
      /\ Done >= 2 => OfHead
      /\ Done >= 5 => mem["manifest"].commit = bytes["commit"]
      /\ Done >= 11 => Recomputed
      /\ Done >= 15 => Holds("rescored")
      /\ Done >= 17 => BlindAttested
  BY <1>1 DEF ChallengeInv, BlindVerifyInv
<1>4. Len(Does) = 17
  BY <1>2 DEF BlindVerify
<1>5. /\ Done' = Done + 1 /\ Done \in 0..16 /\ Here = BlindVerify[Done + 1]
      /\ UNCHANGED <<code, head, edited>>
  <2>1. /\ Done' = Done + 1 /\ Here = BlindVerify[Done + 1] /\ Done + 1 \in 1..17
        /\ UNCHANGED <<code, head, edited>>
    BY <1>2, <1>4 DEF Goes
  <2>2. Done \in 0..Len(Does)
    BY <1>3, ToolFacts
  <2>. HIDE DEF Done
  <2>. QED  BY <1>4, <2>1, <2>2
<1>6. /\ \A i \in 1..17 : i \notin {1, 3, 4, 10, 12, 13, 14, 16} =>
           BlindVerify[i][1] \notin {"read", "write"}
      /\ \A i \in 3..17 : /\ BlindVerify[i][1] \notin {"hash", "revision", "query", "generate"}
                          /\ BlindVerify[i][2] # "registered"
      /\ BlindVerify[1] = Reads("manifest") /\ BlindVerify[3] = Reads("manifest")
      /\ BlindVerify[4] = Reads("package") /\ BlindVerify[10] = Reads("frozen")
      /\ BlindVerify[12] = Reads("score") /\ BlindVerify[13] = Reads("protocol")
      /\ BlindVerify[14] = Reads("key") /\ BlindVerify[16] = Reads("attestation")
      /\ BlindVerify[2] = Checks("registered") /\ BlindVerify[5] = Checks("declared")
      /\ BlindVerify[11] = Checks("recomputed") /\ BlindVerify[15] = Checks("rescored")
      /\ BlindVerify[17] = Checks("attested")
  BY SMTT(30) DEF BlindVerify, Reads, Checks, Matches
<1>7. /\ Done >= 3 => "manifest" \in DOMAIN mem
      /\ Done >= 4 => "package" \in DOMAIN mem
      /\ Done >= 10 => "frozen" \in DOMAIN mem
      /\ Done >= 14 => "score" \in DOMAIN mem /\ "protocol" \in DOMAIN mem /\ "key" \in DOMAIN mem
  <2>. HIDE DEF Done
  <2>1. \A i \in 1..Done : Does[i][1] = "read" => Does[i][2] \in DOMAIN mem
    BY <1>3 DEF ReadInv
  <2>. QED  BY <1>2, <1>5, <1>6, <2>1 DEF Reads
<1>8. /\ Here[1] = "check" => Holds(Here[2])
      /\ Here[1] = "check" /\ Here[2] = "registered" =>
           bytes' = With(bytes, "commit", mem["manifest"].commit)
  BY <1>3, EffectOf
<1>. HIDE DEF Done, Here
<1>9. /\ Here[1] \notin {"read", "write"} => mem' = mem
      /\ Here[1] \notin {"hash", "revision", "query"} /\ Here[2] # "registered" => bytes' = bytes
      /\ \A f \in DOMAIN mem : ~(Here[1] \in {"read", "write"} /\ Here[2] = f) => mem'[f] = mem[f]
      /\ Here[1] # "generate" => fixed' = fixed
  BY <1>3, KeptBy
<1>10. /\ Done + 1 \notin {1, 3, 4, 10, 12, 13, 14, 16} => mem' = mem
       /\ Done >= 2 => bytes' = bytes /\ fixed' = fixed
  <2>1. Done + 1 \in 1..17
    BY <1>5
  <2>2. Done + 1 \notin {1, 3, 4, 10, 12, 13, 14, 16} => mem' = mem
    BY <1>5, <1>6, <1>9, <2>1
  <2>3. ASSUME Done >= 2
        PROVE  bytes' = bytes /\ fixed' = fixed
    <3>1. Done + 1 \in 3..17
      BY <1>5, <2>3
    <3>. QED  BY <1>5, <1>6, <1>9, <3>1
  <2>. QED  BY <2>2, <2>3
<1>11. /\ Done = 1 => Holds("registered") /\ bytes' = With(bytes, "commit", mem["manifest"].commit)
       /\ Done = 4 => Holds("declared")
       /\ Done = 10 => Holds("recomputed")
       /\ Done = 14 => Holds("rescored")
       /\ Done = 16 => Holds("attested")
  BY <1>5, <1>6, <1>8 DEF Checks
<1>12. /\ Holds("registered") => Algorithm[mem["manifest"].commit] = Algorithm[head]
       /\ Holds("declared") => mem["manifest"].commit = bytes["commit"]
       /\ Holds("recomputed") => Recomputed
       /\ Holds("attested") => BlindAttested
  BY <1>1 DEF Holds, Recomputed
<1>13. ASSUME NEW f \in {"manifest", "package", "frozen", "score", "protocol", "key"},
              f \in DOMAIN mem, Done \in {9, 11, 12, 13, 15}, Here[2] # f
       PROVE  mem'[f] = mem[f]
  BY <1>9, <1>13
<1>14. /\ Done = 9 => Here[2] = "frozen"
       /\ Done = 11 => Here[2] = "score"
       /\ Done = 12 => Here[2] = "protocol"
       /\ Done = 13 => Here[2] = "key"
       /\ Done = 15 => Here[2] = "attestation"
  BY <1>5, <1>6 DEF Reads
<1>15. Done' >= 2 => OfHead'
  <2>. SUFFICES ASSUME Done' >= 2 PROVE OfHead'
    OBVIOUS
  <2>1. Disturbed("code", {"verify"})' = Disturbed("code", {"verify"})
    BY <1>5 DEF Disturbed
  <2>2. CASE Done = 1
    <3>1. bytes'["commit"] = mem["manifest"].commit
      BY <1>11, <2>2 DEF With
    <3>. HIDE DEF Holds
    <3>. QED  BY <1>5, <1>11, <1>12, <2>1, <2>2, <3>1
  <2>3. CASE Done >= 2
    BY <1>3, <1>5, <1>10, <2>1, <2>3
  <2>. QED  BY <1>5, <2>2, <2>3
<1>. HIDE DEF OfHead, Holds
<1>16. Done' >= 5 => mem'["manifest"].commit = bytes'["commit"]
  <2>1. CASE Done = 4
    BY <1>5, <1>10, <1>11, <1>12, <2>1
  <2>2. CASE Done >= 5
    <3>1. mem'["manifest"] = mem["manifest"]
      BY <1>5, <1>7, <1>10, <1>13, <1>14, <2>2
    <3>. QED  BY <1>3, <1>5, <1>10, <2>2, <3>1
  <2>3. Done' >= 5 => Done = 4 \/ Done >= 5
    BY <1>5
  <2>. QED  BY <2>1, <2>2, <2>3
<1>17. Done' >= 11 => Recomputed'
  <2>1. CASE Done = 10
    BY <1>5, <1>10, <1>11, <1>12, <2>1 DEF Recomputed
  <2>2. CASE Done >= 11
    <3>1. mem'["frozen"] = mem["frozen"]
      BY <1>5, <1>7, <1>10, <1>13, <1>14, <2>2
    <3>2. mem'["package"] = mem["package"]
      BY <1>5, <1>7, <1>10, <1>13, <1>14, <2>2
    <3>. QED  BY <1>3, <1>5, <2>2, <3>1, <3>2 DEF Recomputed
  <2>. QED  BY <1>5, <2>1, <2>2
<1>18. Done' >= 15 => Holds("rescored")'
  <2>1. ASSUME mem'["frozen"] = mem["frozen"], mem'["package"] = mem["package"],
               mem'["score"] = mem["score"], mem'["protocol"] = mem["protocol"],
               mem'["key"] = mem["key"], fixed' = fixed, Holds("rescored")
        PROVE  Holds("rescored")'
    <3>1. Revealed' = Revealed
      BY <2>1 DEF Revealed
    <3>2. Scorable' = Scorable
      BY <2>1, <3>1 DEF Scorable
    <3>3. BlindScore' = BlindScore
      BY <2>1 DEF BlindScore
    <3>4. Scorable /\ mem["score"] = BlindScore /\ mem["score"].decision = "PASS"
      <4>. HIDE DEF Scorable, BlindScore
      <4>. QED  BY <2>1 DEF Holds
    <3>5. Scorable' /\ mem'["score"] = BlindScore' /\ mem'["score"].decision = "PASS"
      <4>. HIDE DEF Scorable, BlindScore
      <4>. QED  BY <2>1, <3>2, <3>3, <3>4
    <3>. HIDE DEF Scorable, BlindScore
    <3>. QED  BY <3>5 DEF Holds
  <2>2. CASE Done \in {14, 16}
    <3>1. mem' = mem /\ fixed' = fixed
      BY <1>5, <1>10, <2>2
    <3>2. Holds("rescored")
      BY <1>3, <1>11, <2>2
    <3>. QED  BY <2>1, <3>1, <3>2
  <2>3. CASE Done = 15
    <3>1. /\ mem'["frozen"] = mem["frozen"] /\ mem'["package"] = mem["package"]
          /\ mem'["score"] = mem["score"] /\ mem'["protocol"] = mem["protocol"]
          /\ mem'["key"] = mem["key"]
      BY <1>7, <1>13, <1>14, <2>3
    <3>. QED  BY <1>3, <1>10, <2>1, <2>3, <3>1
  <2>. QED  BY <1>5, <2>2, <2>3
<1>19. Done' >= 17 => BlindAttested'
  <2>1. Done = 16 => BlindAttested'
    <3>1. Done = 16 => mem' = mem /\ BlindAttested
      <4>. HIDE DEF BlindAttested
      <4>. QED  BY <1>10, <1>11, <1>12
    <3>. QED  BY <3>1 DEF BlindAttested, BlindAttestation
  <2>. QED  BY <1>5, <2>1
<1>. QED  BY <1>15, <1>16, <1>17, <1>18, <1>19

LEMMA BlindVerifyStays ==
  ASSUME ChallengeInv, kind' = kind,
         StartsOver \/ (Stands /\ (Edit \/ Lose \/ EditCode \/ StopAdapter \/ UNCHANGED challengeVars))
  PROVE  BlindVerifyInv'
<1>1. CASE Stands /\ (Edit \/ Lose \/ EditCode \/ StopAdapter \/ UNCHANGED challengeVars)
  <2>. SUFFICES ASSUME Running("blind", 8)'
                PROVE  BlindVerifyInv'
    BY DEF BlindVerifyInv
  <2>1. Running("blind", 8) /\ kind = "blind" /\ at = 8 /\ (line > 0 \/ status = "accepted")
    BY <1>1 DEF Stands, Running
  <2>2. UNCHANGED <<mem, bytes, code, fixed>>
    BY <1>1 DEF Stands
  <2>3. Book[at].name = "verify"
    BY <2>1, BlindBook DEF Book
  <2>4. /\ Done' = Done
        /\ head' = head \/ Disturbed("code", {"verify"})'
        /\ Disturbed("code", {"verify"}) => Disturbed("code", {"verify"})'
    <3>1. /\ Done' = Done
          /\ (head' = head /\ work' = work) \/ Disturbed("code", {Book[at].name})'
          /\ \A f : Disturbed(f, {Book[at].name}) => Disturbed(f, {Book[at].name})'
      BY <1>1, <2>1, RunStays DEF ChallengeInv
    <3>2. Book' = Book /\ at' = at
      BY <1>1 DEF Book, Stands
    <3>. HIDE DEF Done, Book
    <3>. QED  BY <2>3, <3>1, <3>2
  <2>5. Holds("rescored")' = Holds("rescored")
    <3>1. Scorable' = Scorable /\ BlindScore' = BlindScore
      BY <2>2 DEF Scorable, Revealed, BlindScore
    <3>2. Holds("rescored") = (Scorable /\ mem["score"] = BlindScore /\ mem["score"].decision = "PASS")
      <4>. HIDE DEF Scorable, BlindScore
      <4>. QED  BY DEF Holds
    <3>3. Holds("rescored")' = (Scorable' /\ mem'["score"] = BlindScore' /\ mem'["score"].decision = "PASS")
      <4>. HIDE DEF Scorable, BlindScore
      <4>. QED  BY DEF Holds
    <3>. HIDE DEF Scorable, BlindScore, Holds
    <3>. QED  BY <2>2, <3>1, <3>2, <3>3
  <2>6. BlindAttested' = BlindAttested /\ Recomputed' = Recomputed
    BY <2>2 DEF BlindAttested, BlindAttestation, Recomputed
  <2>. HIDE DEF Done, Holds, BlindAttested
  <2>. QED  BY <2>1, <2>2, <2>4, <2>5, <2>6 DEF ChallengeInv, BlindVerifyInv
<1>2. CASE StartsOver
  <2>1. Done' = 0
    BY <1>2 DEF StartsOver
  <2>. HIDE DEF Done, Holds, BlindAttested
  <2>. QED  BY <2>1 DEF BlindVerifyInv
<1>. QED  BY <1>1, <1>2


-----------------------------------------------------------------------------
(* The temporal challenge.                                                  *)

LEMMA TemporalPredictGoes ==
  ASSUME ChallengeInv, Goes
  PROVE  TemporalPredictInv'
<1>. DEFINE CodeOK == /\ code = work
                      /\ Done >= 4 => work = Algorithm[head]
                      /\ Done >= 5 => bytes["commit"] = head
            PublicOK == /\ Done >= 1 => bytes["public"] = disk["public"]
                        /\ Done >= 2 => mem["public"] = bytes["public"]
<1>. SUFFICES ASSUME Running("temporal", 2)'
              PROVE  /\ ~Disturbed("code", {"predict"})' => CodeOK'
                     /\ ~Disturbed("public", {"predict"})' => PublicOK'
  <2>. HIDE DEF Done
  <2>. QED  BY DEF TemporalPredictInv
<1>1. Running("temporal", 2) /\ kind = "temporal" /\ at = 2
  BY RunningGoes
<1>2. Does = TemporalPredict
  BY <1>1, TemporalBook DEF Does, Book
<1>3. /\ ProcessOK /\ ReadInv
      /\ ~Disturbed("code", {"predict"}) => CodeOK
      /\ ~Disturbed("public", {"predict"}) => PublicOK
  <2>. HIDE DEF Done
  <2>. QED  BY <1>1 DEF ChallengeInv, TemporalPredictInv
<1>4. Len(Does) = 6
  BY <1>2 DEF TemporalPredict
<1>5. /\ Done' = Done + 1 /\ Done \in 0..5 /\ Here = TemporalPredict[Done + 1]
      /\ UNCHANGED <<code, head, work, edited>>
  <2>1. /\ Done' = Done + 1 /\ Here = TemporalPredict[Done + 1] /\ Done + 1 \in 1..6
        /\ UNCHANGED <<code, head, work, edited>>
    BY <1>2, <1>4 DEF Goes
  <2>2. Done \in 0..Len(Does)
    BY <1>3, ToolFacts
  <2>. HIDE DEF Done
  <2>. QED  BY <1>4, <2>1, <2>2
<1>6. /\ TemporalPredict[1] = Hashes("public") /\ TemporalPredict[2] = Reads("public")
      /\ TemporalPredict[3] = Checks("valid") /\ TemporalPredict[4] = Checks("clean")
      /\ TemporalPredict[5] = Do("revision") /\ TemporalPredict[6] = Writes("predictions")
  BY DEF TemporalPredict
<1>7. /\ Done >= 1 => "public" \in DOMAIN bytes
      /\ Done >= 2 => "public" \in DOMAIN mem
  <2>. HIDE DEF Done
  <2>1. \A i \in 1..Done : /\ Does[i][1] = "read" => Does[i][2] \in DOMAIN mem
                           /\ Does[i][1] = "hash" => Does[i][2] \in DOMAIN bytes
    BY <1>3 DEF ReadInv
  <2>. QED  BY <1>2, <1>5, <1>6, <2>1 DEF Reads, Hashes
<1>8. /\ Here[1] = "check" => Holds(Here[2])
      /\ Here[1] = "revision" => bytes' = With(bytes, "commit", head)
  BY <1>3, EffectOf
<1>. HIDE DEF Done, Here, Holds
<1>9. /\ Here[1] \notin {"read", "write"} => mem' = mem
      /\ Here[1] \notin {"hash", "revision", "query"} /\ Here[2] # "registered" => bytes' = bytes
      /\ \A f \in DOMAIN mem : ~(Here[1] \in {"read", "write"} /\ Here[2] = f) => mem'[f] = mem[f]
      /\ \A f \in FileNames : ~(Here[1] = "write" /\ Here[2] = f) => disk'[f] = disk[f]
      /\ Here[1] = "read" => mem'[Here[2]] = disk[Here[2]]
      /\ Here[1] = "hash" => bytes'[Here[2]] = disk[Here[2]]
  BY <1>3, KeptBy
<1>18. Done \in {0, 1, 2, 3, 4, 5}
  BY <1>5
<1>10. disk'["public"] = disk["public"]
  <2>1. "public" \in FileNames
    BY DEF FileNames
  <2>2. CASE Done \in {0, 1, 2}
    BY <1>5, <1>6, <1>9, <2>1, <2>2 DEF Reads, Hashes, Checks
  <2>3. CASE Done \in {3, 4, 5}
    BY <1>5, <1>6, <1>9, <2>1, <2>3 DEF Checks, Do, Writes
  <2>. QED  BY <1>18, <2>2, <2>3
<1>11. /\ Done = 0 => bytes'["public"] = disk["public"]
       /\ Done = 1 => bytes' = bytes /\ mem'["public"] = disk["public"]
       /\ Done \in {2, 3} => bytes' = bytes /\ mem' = mem
       /\ Done = 4 => mem' = mem /\ bytes' = With(bytes, "commit", head)
       /\ Done = 5 => mem'["public"] = mem["public"] /\ bytes' = bytes
       /\ Done = 3 => Holds("clean")
  <2>1. CASE Done = 0
    BY <1>5, <1>6, <1>9, <2>1 DEF Hashes
  <2>2. CASE Done = 1
    BY <1>5, <1>6, <1>9, <2>2 DEF Reads
  <2>3. CASE Done \in {2, 3}
    BY <1>5, <1>6, <1>8, <1>9, <2>3 DEF Checks
  <2>4. CASE Done = 4
    BY <1>5, <1>6, <1>8, <1>9, <2>4 DEF Do
  <2>5. CASE Done = 5
    BY <1>5, <1>6, <1>7, <1>9, <2>5 DEF Writes
  <2>. QED  BY <1>18, <2>1, <2>2, <2>3, <2>4, <2>5
<1>12. Done = 4 => bytes'["commit"] = head /\ bytes'["public"] = bytes["public"]
  BY <1>7, <1>11 DEF With
<1>13. Disturbed("code", {"predict"})' = Disturbed("code", {"predict"})
  BY <1>5 DEF Disturbed
<1>14. Disturbed("public", {"predict"})' = Disturbed("public", {"predict"})
  BY <1>5 DEF Disturbed
<1>15. Holds("clean") => work = Algorithm[head]
  BY DEF Holds
<1>16. ASSUME CodeOK
       PROVE  CodeOK'
  <2>1. Done' >= 4 => Done = 3 \/ Done >= 4
    BY <1>5
  <2>2. Done' >= 5 => Done = 4 \/ Done = 5
    BY <1>5
  <2>3. Done' >= 4 => work' = Algorithm[head']
    BY <1>5, <1>11, <1>15, <1>16, <2>1
  <2>4. Done' >= 5 => bytes'["commit"] = head'
    BY <1>5, <1>11, <1>12, <1>16, <2>2
  <2>. QED  BY <1>5, <1>16, <2>3, <2>4
<1>17. ASSUME PublicOK
       PROVE  PublicOK'
  <2>1. CASE Done = 0
    BY <1>5, <1>10, <1>11, <2>1
  <2>2. CASE Done = 1
    BY <1>5, <1>10, <1>11, <1>17, <2>2
  <2>3. CASE Done \in {2, 3}
    BY <1>5, <1>10, <1>11, <1>17, <2>3
  <2>4. CASE Done = 4
    BY <1>5, <1>10, <1>11, <1>12, <1>17, <2>4
  <2>5. CASE Done = 5
    BY <1>5, <1>10, <1>11, <1>17, <2>5
  <2>. QED  BY <1>5, <2>1, <2>2, <2>3, <2>4, <2>5
<1>. HIDE DEF CodeOK, PublicOK
<1>. QED  BY <1>3, <1>13, <1>14, <1>16, <1>17

LEMMA TemporalPredictStays ==
  ASSUME ChallengeInv, kind' = kind,
         \/ StartsOver /\ work' = work
         \/ Stands /\ (Edit \/ Lose \/ EditCode \/ StopAdapter \/ UNCHANGED challengeVars)
  PROVE  TemporalPredictInv'
<1>1. CASE Stands /\ (Edit \/ Lose \/ EditCode \/ StopAdapter \/ UNCHANGED challengeVars)
  <2>. SUFFICES ASSUME Running("temporal", 2)'
                PROVE  TemporalPredictInv'
    BY DEF TemporalPredictInv
  <2>1. Running("temporal", 2) /\ kind = "temporal" /\ at = 2 /\ (line > 0 \/ status = "accepted")
    BY <1>1 DEF Stands, Running
  <2>2. UNCHANGED <<mem, bytes, code>>
    BY <1>1 DEF Stands
  <2>3. Book[at].name = "predict" /\ "public" \in FileNames
    BY <2>1, TemporalBook DEF Book, FileNames
  <2>4. /\ Done' = Done
        /\ (head' = head /\ work' = work) \/ Disturbed("code", {"predict"})'
        /\ disk'["public"] = disk["public"] \/ Disturbed("public", {"predict"})'
        /\ Disturbed("code", {"predict"}) => Disturbed("code", {"predict"})'
        /\ Disturbed("public", {"predict"}) => Disturbed("public", {"predict"})'
    <3>1. /\ Done' = Done
          /\ \A f \in FileNames : disk'[f] = disk[f] \/ Disturbed(f, {Book[at].name})'
          /\ (head' = head /\ work' = work) \/ Disturbed("code", {Book[at].name})'
          /\ \A f : Disturbed(f, {Book[at].name}) => Disturbed(f, {Book[at].name})'
      BY <1>1, <2>1, RunStays DEF ChallengeInv
    <3>2. Book' = Book /\ at' = at
      BY <1>1 DEF Book, Stands
    <3>. HIDE DEF Done, Book
    <3>. QED  BY <2>3, <3>1, <3>2
  <2>. HIDE DEF Done
  <2>. QED  BY <2>1, <2>2, <2>4 DEF ChallengeInv, TemporalPredictInv
<1>2. CASE StartsOver /\ work' = work
  <2>1. Done' = 0 /\ (Running("temporal", 2)' => code' = work')
    BY <1>2 DEF StartsOver, Running
  <2>. HIDE DEF Done
  <2>. QED  BY <2>1 DEF TemporalPredictInv
<1>. QED  BY <1>1, <1>2

LEMMA TemporalVerifyGoes ==
  ASSUME ChallengeInv, Goes
  PROVE  TemporalVerifyInv'
<1>. DEFINE PublicOK == /\ Done >= 1 => bytes["public"] = disk["public"]
                        /\ Done >= 3 => mem["public"] = bytes["public"]
            AnswersOK == /\ Done >= 2 => bytes["answers"] = disk["answers"]
                         /\ Done >= 5 => mem["answers"] = bytes["answers"]
            Judged == mem["score"].decision = Decision(mem["answers"].truth,
                                         mem["predictions"].says, mem["protocol"], mem["public"])
<1>. SUFFICES ASSUME Running("temporal", 3)'
              PROVE  /\ ~Disturbed("public", {"verify"})' => PublicOK'
                     /\ ~Disturbed("answers", {"verify"})' => AnswersOK'
                     /\ Done' >= 9 => Committed'
                     /\ Done' >= 10 => Judged'
                     /\ Done' >= 11 => mem'["score"].decision = "PASS"
  <2>. HIDE DEF Done
  <2>. QED  BY DEF TemporalVerifyInv
<1>1. Running("temporal", 3) /\ kind = "temporal" /\ at = 3
  BY RunningGoes
<1>2. Does = TemporalVerify
  BY <1>1, TemporalBook DEF Does, Book
<1>3. /\ ProcessOK /\ ReadInv
      /\ ~Disturbed("public", {"verify"}) => PublicOK
      /\ ~Disturbed("answers", {"verify"}) => AnswersOK
      /\ Done >= 9 => Committed
      /\ Done >= 10 => Judged
      /\ Done >= 11 => mem["score"].decision = "PASS"
  <2>. HIDE DEF Done, Committed
  <2>. QED  BY <1>1 DEF ChallengeInv, TemporalVerifyInv
<1>4. Len(Does) = 11
  BY <1>2 DEF TemporalVerify
<1>5. /\ Done' = Done + 1 /\ Done \in 0..10 /\ Here = TemporalVerify[Done + 1]
      /\ UNCHANGED <<code, head, work, edited>>
  <2>1. /\ Done' = Done + 1 /\ Here = TemporalVerify[Done + 1] /\ Done + 1 \in 1..11
        /\ UNCHANGED <<code, head, work, edited>>
    BY <1>2, <1>4 DEF Goes
  <2>2. Done \in 0..Len(Does)
    BY <1>3, ToolFacts
  <2>. HIDE DEF Done
  <2>. QED  BY <1>4, <2>1, <2>2
<1>6. /\ TemporalVerify[1] = Hashes("public") /\ TemporalVerify[2] = Hashes("answers")
      /\ TemporalVerify[3] = Reads("public") /\ TemporalVerify[4] = Checks("valid")
      /\ TemporalVerify[5] = Reads("answers") /\ TemporalVerify[6] = Reads("predictions")
      /\ TemporalVerify[7] = Reads("commitment") /\ TemporalVerify[8] = Reads("protocol")
      /\ TemporalVerify[9] = Checks("committed") /\ TemporalVerify[10] = Writes("score")
      /\ TemporalVerify[11] = Checks("passed")
  BY DEF TemporalVerify
<1>7. /\ Done >= 1 => "public" \in DOMAIN bytes
      /\ Done >= 2 => "answers" \in DOMAIN bytes
      /\ Done >= 3 => "public" \in DOMAIN mem
      /\ Done >= 5 => "answers" \in DOMAIN mem
      /\ Done >= 8 => /\ "predictions" \in DOMAIN mem /\ "commitment" \in DOMAIN mem
                      /\ "protocol" \in DOMAIN mem
  <2>. HIDE DEF Done
  <2>1. \A i \in 1..Done : /\ Does[i][1] = "read" => Does[i][2] \in DOMAIN mem
                           /\ Does[i][1] = "hash" => Does[i][2] \in DOMAIN bytes
    BY <1>3 DEF ReadInv
  <2>. QED  BY <1>2, <1>5, <1>6, <2>1 DEF Reads, Hashes
<1>8. /\ Here[1] = "check" => Holds(Here[2])
      /\ Here[1] = "write" /\ Here[2] = "score" /\ line < Len(Does) =>
           mem' = With(mem, "score", Content("score"))
  <2>. HIDE DEF Holds, Content
  <2>. QED  BY <1>3, EffectOf
<1>18. Done = 9 => line < Len(Does)
  <2>1. Done = line - 1 /\ line \in 1..Len(Does)
    BY <1>3, ToolFacts DEF Goes, Advances
  <2>. HIDE DEF Done
  <2>. QED  BY <1>4, <2>1
<1>. HIDE DEF Done, Here, Holds, Content
<1>9. /\ Here[1] \notin {"read", "write"} => mem' = mem
      /\ Here[1] \notin {"hash", "revision", "query"} /\ Here[2] # "registered" => bytes' = bytes
      /\ \A f \in DOMAIN mem : ~(Here[1] \in {"read", "write"} /\ Here[2] = f) => mem'[f] = mem[f]
      /\ \A f \in DOMAIN bytes : ~(Here[1] = "hash" /\ Here[2] = f) /\ f \notin {"commit", "adapter"}
                                   => bytes'[f] = bytes[f]
      /\ \A f \in FileNames : ~(Here[1] = "write" /\ Here[2] = f) => disk'[f] = disk[f]
      /\ Here[1] = "read" => mem'[Here[2]] = disk[Here[2]]
      /\ Here[1] = "hash" => bytes'[Here[2]] = disk[Here[2]]
  BY <1>3, KeptBy
<1>10. disk'["public"] = disk["public"] /\ disk'["answers"] = disk["answers"]
  <2>1. "public" \in FileNames /\ "answers" \in FileNames
    BY DEF FileNames
  <2>2. ~(Here[1] = "write" /\ Here[2] \in {"public", "answers"})
    BY <1>5, <1>6 DEF Reads, Hashes, Checks, Writes
  <2>. QED  BY <1>9, <2>1, <2>2
<1>11. /\ Done = 0 => bytes'["public"] = disk["public"]
       /\ Done = 1 => /\ bytes'["public"] = bytes["public"]
                      /\ bytes'["answers"] = disk["answers"]
       /\ Done >= 2 => bytes' = bytes
       /\ Done = 2 => mem'["public"] = disk["public"]
       /\ Done >= 3 => mem'["public"] = mem["public"]
       /\ Done = 4 => mem'["answers"] = disk["answers"]
       /\ Done >= 5 => mem'["answers"] = mem["answers"]
       /\ Done \in {8, 10} => mem' = mem
       /\ Done = 9 => mem' = With(mem, "score", Content("score"))
       /\ Done = 8 => Holds("committed")
       /\ Done = 10 => Holds("passed")
  <2>1. Done \in 0..10 => Done \in {0, 1, 2, 3, 4, 5, 6, 7, 8, 9, 10}
    OBVIOUS
  <2>2. CASE Done = 0
    BY <1>6, <1>5, <1>9, <2>2 DEF Hashes
  <2>3. CASE Done = 1
    BY <1>6, <1>5, <1>7, <1>9, <2>3 DEF Hashes
  <2>4. CASE Done = 2
    BY <1>6, <1>5, <1>9, <2>4 DEF Reads
  <2>5. CASE Done = 3
    BY <1>6, <1>5, <1>9, <2>5 DEF Checks
  <2>6. CASE Done = 4
    BY <1>6, <1>5, <1>7, <1>9, <2>6 DEF Reads
  <2>7. CASE Done \in {5, 6, 7}
    BY <1>6, <1>5, <1>7, <1>9, <2>7 DEF Reads
  <2>8. CASE Done \in {8, 10}
    BY <1>6, <1>5, <1>8, <1>9, <2>8 DEF Checks
  <2>9. CASE Done = 9
    BY <1>6, <1>5, <1>7, <1>8, <1>9, <1>18, <2>9 DEF Writes
  <2>. QED  BY <1>5, <2>1, <2>2, <2>3, <2>4, <2>5, <2>6, <2>7, <2>8, <2>9
<1>12. Done = 9 => /\ mem'["score"] = Content("score")
                   /\ \A f \in DOMAIN mem : f # "score" => mem'[f] = mem[f]
  BY <1>11 DEF With
<1>13. Disturbed("public", {"verify"})' = Disturbed("public", {"verify"})
  BY <1>5 DEF Disturbed
<1>14. Disturbed("answers", {"verify"})' = Disturbed("answers", {"verify"})
  BY <1>5 DEF Disturbed
<1>15. /\ Holds("committed") => Committed
       /\ Holds("passed") => mem["score"].decision = "PASS"
       /\ Content("score").decision = Decision(mem["answers"].truth, mem["predictions"].says,
                                               mem["protocol"], mem["public"])
  <2>1. Holds("committed") => Committed
    BY DEF Holds
  <2>2. Holds("passed") => mem["score"].decision = "PASS"
    BY DEF Holds
  <2>3. Content("score").decision = Decision(mem["answers"].truth, mem["predictions"].says,
                                             mem["protocol"], mem["public"])
    BY <1>1 DEF Content
  <2>. QED  BY <2>1, <2>2, <2>3
<1>16. ASSUME PublicOK
       PROVE  PublicOK'
  <2>1. Done' >= 1 => bytes'["public"] = disk'["public"]
    BY <1>5, <1>10, <1>11, <1>16
  <2>2. Done' >= 3 => mem'["public"] = bytes'["public"]
    BY <1>5, <1>10, <1>11, <1>16
  <2>. QED  BY <2>1, <2>2
<1>17. ASSUME AnswersOK
       PROVE  AnswersOK'
  <2>1. Done' >= 2 => bytes'["answers"] = disk'["answers"]
    BY <1>5, <1>10, <1>11, <1>17
  <2>2. Done' >= 5 => mem'["answers"] = bytes'["answers"]
    BY <1>5, <1>10, <1>11, <1>17
  <2>. QED  BY <2>1, <2>2
<1>19. Done' >= 9 => Committed'
  <2>1. Done' >= 9 => Done \in {8, 9, 10}
    BY <1>5
  <2>2. CASE Done \in {8, 10}
    <3>1. mem' = mem /\ bytes' = bytes
      BY <1>11, <2>2
    <3>. QED  BY <1>3, <1>11, <1>15, <2>2, <3>1 DEF Committed
  <2>3. CASE Done = 9
    <3>1. bytes' = bytes /\ Committed
      BY <1>3, <1>11, <2>3
    <3>2. /\ mem'["commitment"] = mem["commitment"] /\ mem'["predictions"] = mem["predictions"]
          /\ mem'["answers"] = mem["answers"] /\ mem'["public"] = mem["public"]
      BY <1>7, <1>12, <2>3
    <3>. QED  BY <3>1, <3>2 DEF Committed
  <2>. QED  BY <2>1, <2>2, <2>3
<1>20. Done' >= 10 => Judged'
  <2>1. Done' >= 10 => Done \in {9, 10}
    BY <1>5
  <2>2. CASE Done = 10
    BY <1>3, <1>11, <2>2
  <2>3. CASE Done = 9
    <3>1. /\ mem'["answers"] = mem["answers"] /\ mem'["predictions"] = mem["predictions"]
          /\ mem'["protocol"] = mem["protocol"] /\ mem'["public"] = mem["public"]
      BY <1>7, <1>12, <2>3
    <3>. QED  BY <1>12, <1>15, <2>3, <3>1
  <2>. QED  BY <2>1, <2>2, <2>3
<1>21. Done' >= 11 => mem'["score"].decision = "PASS"
  BY <1>5, <1>11, <1>15
<1>. HIDE DEF PublicOK, AnswersOK, Judged
<1>. QED  BY <1>3, <1>13, <1>14, <1>16, <1>17, <1>19, <1>20, <1>21

LEMMA TemporalVerifyStays ==
  ASSUME ChallengeInv, kind' = kind,
         StartsOver \/ (Stands /\ (Edit \/ Lose \/ EditCode \/ StopAdapter \/ UNCHANGED challengeVars))
  PROVE  TemporalVerifyInv'
<1>1. CASE Stands /\ (Edit \/ Lose \/ EditCode \/ StopAdapter \/ UNCHANGED challengeVars)
  <2>. SUFFICES ASSUME Running("temporal", 3)'
                PROVE  TemporalVerifyInv'
    BY DEF TemporalVerifyInv
  <2>1. Running("temporal", 3) /\ kind = "temporal" /\ at = 3 /\ (line > 0 \/ status = "accepted")
    BY <1>1 DEF Stands, Running
  <2>2. UNCHANGED <<mem, bytes>>
    BY <1>1 DEF Stands
  <2>3. Book[at].name = "verify" /\ "public" \in FileNames /\ "answers" \in FileNames
    BY <2>1, TemporalBook DEF Book, FileNames
  <2>4. /\ Done' = Done
        /\ disk'["public"] = disk["public"] \/ Disturbed("public", {"verify"})'
        /\ disk'["answers"] = disk["answers"] \/ Disturbed("answers", {"verify"})'
        /\ Disturbed("public", {"verify"}) => Disturbed("public", {"verify"})'
        /\ Disturbed("answers", {"verify"}) => Disturbed("answers", {"verify"})'
    <3>1. /\ Done' = Done
          /\ \A f \in FileNames : disk'[f] = disk[f] \/ Disturbed(f, {Book[at].name})'
          /\ \A f : Disturbed(f, {Book[at].name}) => Disturbed(f, {Book[at].name})'
      BY <1>1, <2>1, RunStays DEF ChallengeInv
    <3>2. Book' = Book /\ at' = at
      BY <1>1 DEF Book, Stands
    <3>. HIDE DEF Done, Book
    <3>. QED  BY <2>3, <3>1, <3>2
  <2>5. Committed' = Committed
    BY <2>2 DEF Committed
  <2>. HIDE DEF Done, Committed
  <2>. QED  BY <2>1, <2>2, <2>4, <2>5 DEF ChallengeInv, TemporalVerifyInv
<1>2. CASE StartsOver
  <2>1. Done' = 0
    BY <1>2 DEF StartsOver
  <2>. HIDE DEF Done, Committed
  <2>. QED  BY <2>1 DEF TemporalVerifyInv
<1>. QED  BY <1>1, <1>2


-----------------------------------------------------------------------------
(* What is in memory.                                                       *)

LEMMA ReadGoes ==
  ASSUME ProcessOK, ReadInv, Goes
  PROVE  ReadInv'
<1>. SUFFICES ASSUME NEW i \in 1..Done'
              PROVE  /\ Does'[i][1] = "read" => Does'[i][2] \in DOMAIN mem'
                     /\ Does'[i][1] = "hash" => Does'[i][2] \in DOMAIN bytes'
  <2>. HIDE DEF Done, Does
  <2>. QED  BY DEF ReadInv
<1>1. Done' = Done + 1 /\ Done \in Nat /\ Here = Does[Done + 1] /\ Does' = Does
  <2>1. Done \in 0..Len(Does) /\ Len(Does) \in Nat
    BY ToolFacts DEF IsTool
  <2>. HIDE DEF Done, Does
  <2>. QED  BY <2>1 DEF Goes
<1>. HIDE DEF Done, Does, Here
<1>2. /\ \A f \in DOMAIN mem : f \in DOMAIN mem'
      /\ \A f \in DOMAIN bytes : f \in DOMAIN bytes'
      /\ Here[1] = "read" => Here[2] \in DOMAIN mem'
      /\ Here[1] = "hash" => Here[2] \in DOMAIN bytes'
  BY KeptBy
<1>3. CASE i = Done + 1
  BY <1>1, <1>2, <1>3
<1>4. CASE i \in 1..Done
  <2>1. /\ Does[i][1] = "read" => Does[i][2] \in DOMAIN mem
        /\ Does[i][1] = "hash" => Does[i][2] \in DOMAIN bytes
    BY <1>4 DEF ReadInv
  <2>. QED  BY <1>1, <1>2, <2>1
<1>. QED  BY <1>1, <1>3, <1>4

LEMMA ReadStays ==
  ASSUME ReadInv, kind' = kind, Stands \/ StartsOver
  PROVE  ReadInv'
<1>1. CASE Stands
  <2>1. Done' = Done /\ Does' = Does /\ mem' = mem /\ bytes' = bytes
    BY <1>1 DEF Stands, Done, Does, Book
  <2>. HIDE DEF Done, Does
  <2>. QED  BY <2>1 DEF ReadInv
<1>2. CASE StartsOver
  <2>1. Done' = 0
    BY <1>2 DEF StartsOver
  <2>. HIDE DEF Done, Does
  <2>. QED  BY <2>1 DEF ReadInv
<1>. QED  BY <1>1, <1>2

\* A verifier reads the manifest before it compares a file with it, and it
\* does not write.
LEMMA ComparesAfterManifest ==
  ASSUME ProcessOK, at = Len(Book), kind # "temporal"
  PROVE  \E a, r \in 1..Len(Does) :
           /\ r < a /\ Does[r] = Reads("manifest")
           /\ \A i \in 1..Len(Does) :
                /\ Does[i][1] # "write"
                /\ Does[i][1] = "match" => i >= a
                /\ i >= a => Does[i][2] # "manifest"
<1>. DEFINE Ordered(t, a, r) ==
       /\ a \in 1..Len(t) /\ r \in 1..Len(t) /\ r < a /\ t[r] = Reads("manifest")
       /\ \A i \in 1..Len(t) : /\ t[i][1] # "write"
                               /\ t[i][1] = "match" => i >= a
                               /\ i >= a => t[i][2] # "manifest"
<1>1. Ordered(BlindVerify, 6, 1)
  BY SMTT(30) DEF BlindVerify, Reads, Checks, Matches
<1>2. Ordered(PassiveVerify, 6, 5)
  BY SMTT(30) DEF PassiveVerify, Reads, Checks, Matches, Hashes
<1>3. Ordered(ActiveVerify, 6, 5)
  BY SMTT(30) DEF ActiveVerify, Reads, Checks, Matches, Hashes
<1>4. Ordered(HoldoutVerify, 2, 1)
  BY SMTT(30) DEF HoldoutVerify, Reads, Checks, Matches
<1>5. Ordered(TransferVerify, 3, 1)
  BY DEF TransferVerify, Reads, Checks, Matches
<1>6. kind \in {"blind", "temporal", "passive", "active", "holdout", "transfer"}
  BY DEF ProcessOK, Books
<1>7. \E a, r : Ordered(Does, a, r)
  <2>. HIDE DEF Ordered
  <2>1. CASE kind = "blind"
    <3>1. Does = BlindVerify
      BY <2>1, BlindBook DEF Does, Book
    <3>. QED  BY <1>1, <3>1
  <2>2. CASE kind = "passive"
    <3>1. Does = PassiveVerify
      BY <2>2, PassiveBook DEF Does, Book
    <3>. QED  BY <1>2, <3>1
  <2>3. CASE kind = "active"
    <3>1. Does = ActiveVerify
      BY <2>3, ActiveBook DEF Does, Book
    <3>. QED  BY <1>3, <3>1
  <2>4. CASE kind = "holdout"
    <3>1. Does = HoldoutVerify
      BY <2>4, HoldoutBook DEF Does, Book
    <3>. QED  BY <1>4, <3>1
  <2>5. CASE kind = "transfer"
    <3>1. Does = TransferVerify
      BY <2>5, TransferBook DEF Does, Book
    <3>. QED  BY <1>5, <3>1
  <2>. QED  BY <1>6, <2>1, <2>2, <2>3, <2>4, <2>5
<1>. HIDE DEF Does, Reads
<1>. QED  BY <1>7

LEMMA BundleGoes ==
  ASSUME ProcessOK, ReadInv, BundleInv, Goes
  PROVE  BundleInv'
<1>. SUFFICES ASSUME VerifierRuns', kind' # "temporal", NEW f \in FileNames,
                     ~Disturbed(f, {"verify"})'
              PROVE  /\ f \in DOMAIN mem' => mem'[f] = disk'[f]
                     /\ \A i \in 1..Done' : Does'[i] = Matches(f) =>
                          mem'["manifest"].files[f] = disk'[f]
  <2>. HIDE DEF Done, Does, FileNames, VerifierRuns, Disturbed, Matches
  <2>. QED  BY DEF BundleInv
<1>1. /\ Done' = Done + 1 /\ Done \in Nat /\ Done + 1 \in 1..Len(Does) /\ Here = Does[Done + 1]
      /\ Does' = Does /\ Len(Does) \in Nat
  <2>1. Done \in 0..Len(Does) /\ Len(Does) \in Nat
    BY ToolFacts DEF IsTool
  <2>. HIDE DEF Done, Does
  <2>. QED  BY <2>1 DEF Goes
<1>2. kind' = kind /\ VerifierRuns /\ kind # "temporal" /\ at = Len(Book)
  BY DEF Goes, VerifierRuns, Advances
<1>3. ~Disturbed(f, {"verify"})
  BY DEF Disturbed, Goes
<1>. HIDE DEF Done, Does, Here, FileNames, VerifierRuns
<1>4. /\ f \in DOMAIN mem => mem[f] = disk[f]
      /\ \A i \in 1..Done : Does[i] = Matches(f) => mem["manifest"].files[f] = disk[f]
  BY <1>2, <1>3 DEF BundleInv
<1>5. PICK a \in 1..Len(Does), r \in 1..Len(Does) :
           /\ r < a /\ Does[r] = Reads("manifest")
           /\ \A i \in 1..Len(Does) :
                /\ Does[i][1] # "write"
                /\ Does[i][1] = "match" => i >= a
                /\ i >= a => Does[i][2] # "manifest"
  BY <1>2, ComparesAfterManifest
<1>6. Here[1] # "write"
  BY <1>1, <1>5
<1>7. disk'[f] = disk[f]
  BY <1>6, KeptBy
<1>8. f \in DOMAIN mem' => mem'[f] = disk'[f]
  <2>1. CASE Here[1] = "read"
    <3>1. mem' = With(mem, Here[2], disk[Here[2]])
      BY <2>1, EffectOf
    <3>. QED  BY <1>4, <1>7, <3>1 DEF With
  <2>2. CASE Here[1] # "read"
    <3>1. mem' = mem
      BY <1>6, <2>2, KeptBy
    <3>. QED  BY <1>4, <1>7, <3>1
  <2>. QED  BY <2>1, <2>2
<1>9. ASSUME NEW i \in 1..Done', Does[i] = Matches(f)
      PROVE  mem'["manifest"].files[f] = disk'[f]
  <2>1. i \in 1..Len(Does) /\ Does[i][1] = "match" /\ Does[i][2] = f
    BY <1>1, <1>9 DEF Matches
  <2>2. i >= a
    BY <1>5, <2>1
  <2>3. CASE i = Done + 1
    <3>1. Here[1] = "match" /\ Here[2] = f
      BY <1>1, <2>1, <2>3
    <3>2. disk[f] = mem["manifest"].files[f] /\ mem' = mem
      BY <3>1, EffectOf
    <3>. QED  BY <1>7, <3>2
  <2>4. CASE i \in 1..Done
    <3>1. r \in 1..Done /\ Done + 1 >= a
      BY <1>1, <1>5, <2>2, <2>4
    <3>2. "manifest" \in DOMAIN mem
      <4>1. Does[r][1] = "read" /\ Does[r][2] = "manifest"
        BY <1>5 DEF Reads
      <4>. QED  BY <3>1, <4>1, ReadSoFar
    <3>3. Here[2] # "manifest"
      BY <1>1, <1>5, <3>1
    <3>4. mem'["manifest"] = mem["manifest"]
      BY <3>2, <3>3, KeptBy
    <3>. QED  BY <1>4, <1>7, <1>9, <2>4, <3>4
  <2>. QED  BY <1>1, <2>3, <2>4
<1>. QED  BY <1>1, <1>8, <1>9

LEMMA BundleStays ==
  ASSUME ProcessOK, BundleInv, kind' = kind,
         StartsOver \/ (Stands /\ (Edit \/ Lose \/ EditCode \/ StopAdapter \/ UNCHANGED challengeVars))
  PROVE  BundleInv'
<1>1. CASE Stands /\ (Edit \/ Lose \/ EditCode \/ StopAdapter \/ UNCHANGED challengeVars)
  <2>. SUFFICES ASSUME VerifierRuns', kind' # "temporal", NEW f \in FileNames,
                       ~Disturbed(f, {"verify"})'
                PROVE  /\ f \in DOMAIN mem' => mem'[f] = disk'[f]
                       /\ \A i \in 1..Done' : Does'[i] = Matches(f) =>
                            mem'["manifest"].files[f] = disk'[f]
    <3>. HIDE DEF Done, Does, FileNames, VerifierRuns, Disturbed, Matches
    <3>. QED  BY DEF BundleInv
  <2>1. /\ Book' = Book /\ Does' = Does /\ at' = at /\ mem' = mem
        /\ VerifierRuns /\ kind # "temporal" /\ at = Len(Book) /\ (line > 0 \/ status = "accepted")
    BY <1>1 DEF Stands, VerifierRuns, Book, Does
  <2>2. Book[at].name = "verify"
    BY <2>1, ToolFacts
  <2>3. /\ Done' = Done
        /\ disk'[f] = disk[f] \/ Disturbed(f, {Book[at].name})'
        /\ Disturbed(f, {Book[at].name}) => Disturbed(f, {Book[at].name})'
    BY <1>1, <2>1, RunStays
  <2>. HIDE DEF Done, Does, FileNames, VerifierRuns, Book
  <2>4. disk'[f] = disk[f] /\ ~Disturbed(f, {"verify"})
    BY <2>1, <2>2, <2>3
  <2>. QED  BY <2>1, <2>3, <2>4 DEF BundleInv
<1>2. CASE StartsOver
  <2>1. Done' = 0 /\ (VerifierRuns' => mem' = <<>>)
    BY <1>2 DEF StartsOver, VerifierRuns
  <2>2. mem' = <<>> => \A f \in FileNames : f \notin DOMAIN mem'
    <3>1. DOMAIN <<>> = {}
      OBVIOUS
    <3>. QED  BY <3>1
  <2>. HIDE DEF Done, Does, FileNames, VerifierRuns
  <2>. QED  BY <2>1, <2>2 DEF BundleInv
<1>. QED  BY <1>1, <1>2


-----------------------------------------------------------------------------
(* The seals.                                                               *)

\* What one statement writes, reads or seals, whether its tool goes on or not.
LEMMA StatementIs ==
  ASSUME ProcessOK, Statement
  PROVE  /\ line > 0 /\ kind' = kind /\ UNCHANGED <<head, work, edited>>
         /\ \/ disk' = disk
            \/ Here[1] = "write" /\ disk' = [disk EXCEPT ![Here[2]] = Content(Here[2])]
         /\ \/ fixed' = fixed
            \/ Here[1] = "generate" /\ Proceed /\ fixed' = Append(fixed, Fixes)
         /\ Here[1] # "generate" => fixed' = fixed
         /\ \A f \in DOMAIN mem' :
              \/ f \in DOMAIN mem /\ mem'[f] = mem[f]
              \/ /\ Here[1] = "read" /\ f = Here[2] /\ mem'[f] = disk[f]
                 /\ disk[f] \notin {Absent, Torn}
              \/ Here[1] = "write" /\ f = Here[2] /\ mem'[f] = Content(f)
<1>1. /\ line > 0 /\ kind' = kind /\ UNCHANGED <<head, work, edited>>
  BY DEF Statement, Read, Hash, Match, RefuseExisting, CheckIt, Generate, Revision,
         ServeAdapter, Query, Write, Setting, outside, Doing
<1>2. DOMAIN <<>> = {}
  OBVIOUS
<1>3. Raise => mem' = <<>>
  BY DEF Raise
<1>4. Keep => mem' = <<>> \/ mem' = mem
  BY DEF Keep
<1>5. CASE Read
  <2>1. /\ UNCHANGED <<disk, fixed>> /\ Here[1] = "read"
        /\ \/ mem' = <<>>
           \/ disk[Arg] \notin {Absent, Torn} /\ mem' = With(mem, Arg, disk[Arg])
    BY <1>3, <1>5 DEF Read, Doing
  <2>. HIDE DEF Here
  <2>. QED  BY <1>1, <1>2, <2>1 DEF With, Arg
<1>6. CASE Hash \/ Match \/ RefuseExisting \/ CheckIt \/ Query
  <2>1. /\ UNCHANGED <<disk, fixed>> /\ (mem' = <<>> \/ mem' = mem)
    BY <1>3, <1>4, <1>6 DEF Hash, Match, RefuseExisting, CheckIt, Query
  <2>. QED  BY <1>1, <1>2, <2>1
<1>7. CASE Revision \/ ServeAdapter
  <2>1. /\ UNCHANGED <<disk, fixed>> /\ (mem' = <<>> \/ mem' = mem)
    BY <1>3, <1>4, <1>7 DEF Revision, ServeAdapter
  <2>. QED  BY <1>1, <1>2, <2>1
<1>8. CASE Generate
  <2>1. /\ Here[1] = "generate" /\ Proceed /\ fixed' = Append(fixed, Fixes)
        /\ UNCHANGED disk /\ (mem' = <<>> \/ mem' = mem)
    BY <1>4, <1>8 DEF Generate, Doing
  <2>. HIDE DEF Here, Proceed
  <2>. QED  BY <1>1, <1>2, <2>1
<1>9. CASE Write
  <2>. HIDE DEF Content
  <2>1. /\ Here[1] = "write" /\ UNCHANGED fixed /\ disk' = [disk EXCEPT ![Arg] = Content(Arg)]
        /\ mem' = <<>> \/ mem' = mem \/ mem' = With(mem, Arg, Content(Arg))
    BY <1>4, <1>9 DEF Write, Doing
  <2>. HIDE DEF Here
  <2>. QED  BY <1>1, <1>2, <2>1 DEF With, Arg
<1>. QED  BY <1>5, <1>6, <1>7, <1>8, <1>9 DEF Statement

\* Only a seal tool generates, once, after it read the suite and before it ends.
LEMMA OnlySealsGenerate ==
  ASSUME ProcessOK, NEW i \in 1..Len(Does), Does[i][1] = "generate"
  PROVE  /\ kind \in Seals /\ at = 1 /\ i = GeneratedAt[kind] /\ i < Len(Does)
<1>. DEFINE Draws(t) == \E j \in 1..Len(t) : t[j][1] = "generate"
            At(t, n) == n < Len(t) /\ \A j \in 1..Len(t) : t[j][1] = "generate" => j = n
<1>1. /\ ~Draws(BlindPredict) /\ ~Draws(BlindFreeze) /\ ~Draws(BlindReveal)
  BY DEF BlindPredict, BlindFreeze, BlindReveal, Refuses, Reads, Checks, Writes
<1>2. /\ ~Draws(BlindScoring) /\ ~Draws(BlindDeclare) /\ ~Draws(BlindSign)
  BY SMTT(30) DEF BlindScoring, BlindDeclare, BlindSign, Refuses, Reads, Checks, Writes
<1>3. ~Draws(BlindVerify) /\ ~Draws(TemporalVerify)
  BY SMTT(30) DEF BlindVerify, TemporalVerify, Reads, Checks, Writes, Matches, Hashes
<1>4. ~Draws(TemporalPredict)
  BY SMTT(30) DEF TemporalPredict, Reads, Checks, Writes, Hashes, Do
<1>5. ~Draws(GhostReveal) /\ ~Draws(Declare) /\ ~Draws(Sign) /\ ~Draws(PassivePredict)
  BY SMTT(30) DEF GhostReveal, Declare, Sign, PassivePredict, Refuses, Reads, Checks, Writes
<1>6. ~Draws(PassiveVerify)
  BY SMTT(30) DEF PassiveVerify, Reads, Checks, Matches, Hashes
<1>7. ~Draws(ActiveServe) /\ ~Draws(ActivePredict)
  BY DEF ActiveServe, ActivePredict, Refuses, Reads, Checks, Writes, Do
<1>8. ~Draws(ActiveVerify)
  BY SMTT(30) DEF ActiveVerify, Reads, Checks, Matches, Hashes
<1>9. ~Draws(HoldoutPredict)
  BY SMTT(30) DEF HoldoutPredict, Refuses, Reads, Checks, Writes, Hashes, Do
<1>10. ~Draws(HoldoutVerify) /\ ~Draws(TransferVerify)
  BY SMTT(30) DEF HoldoutVerify, TransferVerify, Reads, Checks, Matches
<1>11. At(BlindSeal, 4)
  BY DEF BlindSeal, Refuses, Reads, Checks, Writes, Do
<1>12. At(TemporalSeal, 3)
  BY DEF TemporalSeal, Reads, Checks, Writes, Do
<1>13. At(GhostSeal, 3)
  BY DEF GhostSeal, Reads, Checks, Writes, Do
<1>14. At(HoldoutSeal, 5)
  BY DEF HoldoutSeal, Refuses, Reads, Checks, Writes, Do, Hashes
<1>15. Draws(Does)
  <2>. HIDE DEF Does
  <2>. QED  OBVIOUS
<1>. HIDE DEF Draws, At
<1>16. kind \in {"blind", "temporal", "passive", "active", "holdout", "transfer"}
       /\ at \in 1..Len(Book)
  BY DEF ProcessOK, Books
<1>17. At(Does, GeneratedAt[kind]) /\ kind \in Seals /\ at = 1
  <2>1. CASE kind = "blind"
    <3>1. at \in 1..8 /\ GeneratedAt[kind] = 4 /\ kind \in Seals
      BY <1>16, <2>1, BlindBook DEF Book, GeneratedAt, Seals
    <3>2. at = 1
      BY <1>1, <1>2, <1>3, <1>15, <2>1, <3>1, BlindBook DEF Does, Book
    <3>. QED  BY <1>11, <2>1, <3>1, <3>2, BlindBook DEF Does, Book
  <2>2. CASE kind = "temporal"
    <3>1. at \in 1..3 /\ GeneratedAt[kind] = 3 /\ kind \in Seals
      BY <1>16, <2>2, TemporalBook DEF Book, GeneratedAt, Seals
    <3>2. at = 1
      BY <1>3, <1>4, <1>15, <2>2, <3>1, TemporalBook DEF Does, Book
    <3>. QED  BY <1>12, <2>2, <3>1, <3>2, TemporalBook DEF Does, Book
  <2>3. CASE kind = "passive"
    <3>1. at \in 1..6 /\ GeneratedAt[kind] = 3 /\ kind \in Seals
      BY <1>16, <2>3, PassiveBook DEF Book, GeneratedAt, Seals
    <3>2. at = 1
      BY <1>5, <1>6, <1>15, <2>3, <3>1, PassiveBook DEF Does, Book
    <3>. QED  BY <1>13, <2>3, <3>1, <3>2, PassiveBook DEF Does, Book
  <2>4. CASE kind = "active"
    <3>1. at \in 1..7 /\ GeneratedAt[kind] = 3 /\ kind \in Seals
      BY <1>16, <2>4, ActiveBook DEF Book, GeneratedAt, Seals
    <3>2. at = 1
      BY <1>5, <1>7, <1>8, <1>15, <2>4, <3>1, ActiveBook DEF Does, Book
    <3>. QED  BY <1>13, <2>4, <3>1, <3>2, ActiveBook DEF Does, Book
  <2>5. CASE kind = "holdout"
    <3>1. at \in 1..3 /\ GeneratedAt[kind] = 5 /\ kind \in Seals
      BY <1>16, <2>5, HoldoutBook DEF Book, GeneratedAt, Seals
    <3>2. at = 1
      BY <1>9, <1>10, <1>15, <2>5, <3>1, HoldoutBook DEF Does, Book
    <3>. QED  BY <1>14, <2>5, <3>1, <3>2, HoldoutBook DEF Does, Book
  <2>6. CASE kind = "transfer"
    <3>1. at \in 1..3
      BY <1>16, <2>6, TransferBook DEF Book
    <3>2. FALSE
      BY <1>5, <1>10, <1>15, <2>6, <3>1, TransferBook DEF Does, Book
    <3>. QED  BY <3>2
  <2>. QED  BY <1>16, <2>1, <2>2, <2>3, <2>4, <2>5, <2>6
<1>. HIDE DEF Does
<1>. QED  BY <1>17 DEF At

\* A seal tool reads the suite, seals it, and leaves it in memory.
LEMMA SealsAre ==
  ASSUME ProcessOK, kind \in Seals, at = 1
  PROVE  LET g == GeneratedAt[kind]
         IN /\ g \in 3..5 /\ Does[g][1] = "generate"
            /\ \E r \in 1..2 : Does[r] = Reads("suite")
            /\ \A i \in 1..Len(Does) : i > 2 => Does[i][2] # "suite"
<1>. DEFINE Good(t, g) == /\ g \in 3..5 /\ t[g][1] = "generate"
                          /\ \E r \in 1..2 : t[r] = Reads("suite")
                          /\ \A i \in 1..Len(t) : i > 2 => t[i][2] # "suite"
<1>1. Good(BlindSeal, 4)
  BY DEF BlindSeal, Refuses, Reads, Checks, Writes, Do
<1>2. Good(TemporalSeal, 3)
  BY DEF TemporalSeal, Reads, Checks, Writes, Do
<1>3. Good(GhostSeal, 3)
  BY DEF GhostSeal, Reads, Checks, Writes, Do
<1>4. Good(HoldoutSeal, 5)
  BY DEF HoldoutSeal, Refuses, Reads, Checks, Writes, Do, Hashes
<1>. HIDE DEF Good
<1>5. Good(Does, GeneratedAt[kind])
  <2>1. CASE kind = "blind"
    BY <1>1, <2>1, BlindBook DEF Does, Book, GeneratedAt
  <2>2. CASE kind = "temporal"
    BY <1>2, <2>2, TemporalBook DEF Does, Book, GeneratedAt
  <2>3. CASE kind = "passive"
    BY <1>3, <2>3, PassiveBook DEF Does, Book, GeneratedAt
  <2>4. CASE kind = "active"
    BY <1>3, <2>4, ActiveBook DEF Does, Book, GeneratedAt
  <2>5. CASE kind = "holdout"
    BY <1>4, <2>5, HoldoutBook DEF Does, Book, GeneratedAt
  <2>. QED  BY <2>1, <2>2, <2>3, <2>4, <2>5 DEF Seals
<1>. HIDE DEF Does
<1>. QED  BY <1>5 DEF Good

\* What is sealed is the suite that was read, or what is built of it.
LEMMA FixesIs ==
  ASSUME mem["suite"] \in SuiteRecords
  PROVE  Fixes \in SuiteRecords
<1>1. mem["suite"].public \in Publics
  BY DEF SuiteRecords
<1>2. Built[mem["suite"].public] \in SuiteRecords
  BY <1>1, BuiltAssumption
<1>. QED  BY <1>2 DEF Fixes

LEMMA SealedSuite ==
  ASSUME ProcessOK, ContentsInv, ReadInv, Statement, Here[1] = "generate"
  PROVE  /\ mem["suite"] \in SuiteRecords /\ Fixes \in SuiteRecords
         /\ line < Len(Does) /\ line > 2
         /\ kind \in Seals /\ at = 1 /\ line = GeneratedAt[kind]
<1>1. line > 0 /\ line \in 1..Len(Does) /\ Done = line - 1
  BY ToolFacts, StatementIs
<1>2. Does[line][1] = "generate"
  BY DEF Here
<1>3. kind \in Seals /\ at = 1 /\ line = GeneratedAt[kind] /\ line < Len(Does)
  BY <1>1, <1>2, OnlySealsGenerate
<1>4. line \in 3..5 /\ \E r \in 1..2 : Does[r] = Reads("suite")
  BY <1>3, SealsAre
<1>5. PICK r \in 1..2 : Does[r] = Reads("suite")
  BY <1>4
<1>6. "suite" \in DOMAIN mem
  <2>. HIDE DEF Does, Done
  <2>1. r \in 1..Done /\ Does[r][1] = "read" /\ Does[r][2] = "suite"
    BY <1>1, <1>4, <1>5 DEF Reads
  <2>. QED  BY <2>1, ReadSoFar
<1>7. mem["suite"] \in SuiteRecords
  <2>1. Legit("suite", mem["suite"])
    BY <1>6 DEF ContentsInv
  <2>. QED  BY <2>1 DEF Legit
<1>. HIDE DEF Does
<1>. QED  BY <1>1, <1>3, <1>4, <1>7, FixesIs

LEMMA StatementGrows ==
  ASSUME ProcessOK, ContentsInv, ReadInv, Statement
  PROVE  Grows /\ fixed' \in Seq(SuiteRecords)
<1>1. fixed \in Seq(SuiteRecords) /\ kind' = kind /\ edited' = edited
  BY StatementIs DEF ProcessOK
<1>2. CASE fixed' = fixed
  BY <1>1, <1>2 DEF Grows
<1>3. CASE Here[1] = "generate" /\ fixed' = Append(fixed, Fixes)
  <2>1. Fixes \in SuiteRecords
    BY <1>3, SealedSuite
  <2>. DEFINE e == Fixes  S == SuiteRecords
  <2>. HIDE DEF e, S
  <2>2. /\ Append(fixed, e) \in Seq(S)
        /\ \A k \in DOMAIN fixed : k \in DOMAIN Append(fixed, e) /\ Append(fixed, e)[k] = fixed[k]
    BY <1>1, <2>1 DEF S, e
  <2>. QED  BY <1>1, <1>3, <2>2 DEF Grows, e, S
<1>. QED  BY <1>2, <1>3, StatementIs

LEMMA SealGoes ==
  ASSUME ProcessOK, ContentsInv, ReadInv, SealInv, Goes
  PROVE  SealInv'
<1>. SUFFICES ASSUME kind' \in Seals, at' = 1, Done' >= GeneratedAt[kind']
              PROVE  fixed' # <<>> /\ Fixes' = fixed'[Len(fixed')]
  <2>. HIDE DEF Done
  <2>. QED  BY DEF SealInv
<1>1. /\ Done' = Done + 1 /\ Done \in Nat /\ Done + 1 \in 1..Len(Does) /\ Here = Does[Done + 1]
      /\ kind' = kind /\ kind \in Seals /\ at = 1 /\ Statement /\ Done + 1 = line
  <2>1. Done \in 0..Len(Does) /\ Len(Does) \in Nat /\ (line > 0 => Done = line - 1 /\ line \in 1..Len(Does))
    BY ToolFacts DEF IsTool
  <2>2. line > 0
    BY DEF Goes, Advances
  <2>. HIDE DEF Done, Does
  <2>. QED  BY <2>1, <2>2 DEF Goes
<1>. DEFINE g == GeneratedAt[kind]
<1>2. /\ g \in 3..5 /\ Does[g][1] = "generate"
      /\ \E r \in 1..2 : Does[r] = Reads("suite")
      /\ \A i \in 1..Len(Does) : i > 2 => Does[i][2] # "suite"
  BY <1>1, SealsAre
<1>3. fixed \in Seq(SuiteRecords)
  BY DEF ProcessOK
<1>. HIDE DEF Done, Does, Here, g
<1>4. CASE Done + 1 = g
  <2>1. Here[1] = "generate"
    BY <1>1, <1>2, <1>4
  <2>2. Fixes \in SuiteRecords
    BY <1>1, <2>1, SealedSuite
  <2>6. fixed' = Append(fixed, Fixes) /\ mem' = mem
    BY <2>1, EffectOf
  <2>3. fixed' = Append(fixed, Fixes) /\ Fixes' = Fixes
    BY <1>1, <2>6 DEF Fixes
  <2>. DEFINE e == Fixes  S == SuiteRecords
  <2>. HIDE DEF e, S
  <2>5. fixed \in Seq(S) /\ e \in S
    BY <1>3, <2>2 DEF S, e
  <2>4. Append(fixed, e) # <<>> /\ Append(fixed, e)[Len(Append(fixed, e))] = e
    <3>1. Len(Append(fixed, e)) = Len(fixed) + 1 /\ Append(fixed, e)[Len(fixed) + 1] = e
      BY <2>5
    <3>2. Len(Append(fixed, e)) # 0
      BY <2>5, <3>1
    <3>3. Append(fixed, e) # <<>>
      BY <3>2
    <3>. QED  BY <3>1, <3>3
  <2>. QED  BY <2>3, <2>4 DEF e
<1>5. CASE Done >= g
  <2>1. fixed # <<>> /\ Fixes = fixed[Len(fixed)]
    BY <1>1, <1>5 DEF SealInv, g
  <2>2. PICK r \in 1..2 : Does[r] = Reads("suite")
    BY <1>2
  <2>3. r \in 1..Done /\ Does[r][1] = "read" /\ Does[r][2] = "suite"
    BY <1>1, <1>2, <1>5, <2>2 DEF Reads
  <2>4. "suite" \in DOMAIN mem
    BY <2>3, ReadSoFar
  <2>5. Here[2] # "suite"
    BY <1>1, <1>2, <1>5
  <2>6. Fixes' = Fixes
    <3>1. mem'["suite"] = mem["suite"]
      BY <2>4, <2>5, KeptBy
    <3>. QED  BY <1>1, <3>1 DEF Fixes
  <2>7. Here[1] # "generate"
    <3>1. ASSUME Here[1] = "generate"
          PROVE  Done + 1 = GeneratedAt[kind]
      BY <1>1, <3>1, SealedSuite
    <3>. QED  BY <1>1, <1>2, <1>5, <3>1 DEF g
  <2>8. fixed' = fixed
    BY <2>7, KeptBy
  <2>. QED  BY <2>1, <2>6, <2>8
<1>. QED  BY <1>1, <1>2, <1>4, <1>5 DEF g

LEMMA SealStays ==
  ASSUME ProcessOK, SealInv, kind' = kind, Stands \/ StartsOver
  PROVE  SealInv'
<1>1. CASE Stands
  <2>1. Done' = Done
    BY <1>1 DEF Stands, Done, Does, Book
  <2>2. Fixes' = Fixes
    BY <1>1 DEF Stands, Fixes
  <2>. HIDE DEF Done
  <2>. QED  BY <1>1, <2>1, <2>2 DEF SealInv, Stands
<1>2. CASE StartsOver
  <2>1. Done' = 0
    BY <1>2 DEF StartsOver
  <2>2. \A k \in Seals : ~(0 >= GeneratedAt[k])
    BY DEF Seals, GeneratedAt
  <2>. HIDE DEF Done
  <2>. QED  BY <2>1, <2>2 DEF SealInv
<1>. QED  BY <1>1, <1>2


-----------------------------------------------------------------------------
(* The source-locked holdout.                                               *)

\* A summary that is edited still names the cases it is about.
LEMMA EditedSummary ==
  ASSUME ProcessOK, Stands, kind' = kind, IsSummary(disk["summary"]),
         Edit \/ Lose \/ EditCode \/ StopAdapter \/ UNCHANGED challengeVars
  PROVE  IsSummary(disk["summary"])' /\ disk'["summary"].cases = disk["summary"].cases
<1>1. "summary" \in FileNames
  BY DEF FileNames
<1>2. \/ disk'["summary"] = disk["summary"]
      \/ disk'["summary"] \in Others("summary")
  <2>1. \/ disk'["summary"] = disk["summary"]
        \/ "summary" \in {"key", "frozen", "answers", "records"} /\ disk'["summary"] = Absent
        \/ disk["summary"] \notin {Absent, Torn} /\ disk'["summary"] \in Others("summary")
    BY <1>1, StandsIs
  <2>. HIDE DEF Others
  <2>. QED  BY <2>1
<1>3. Others("summary") = {[disk["summary"] EXCEPT !.decision = "PASS"]}
  BY DEF Others
<1>4. disk["summary"] = [cases |-> disk["summary"].cases, says |-> disk["summary"].says,
                         decision |-> disk["summary"].decision]
  BY DEF IsSummary
<1>5. \A c, s, a, d : c = [cases |-> s, says |-> a, decision |-> d] =>
        [c EXCEPT !.decision = "PASS"] = [cases |-> s, says |-> a, decision |-> "PASS"]
  OBVIOUS
<1>6. CASE disk'["summary"] = disk["summary"]
  BY <1>4, <1>6 DEF IsSummary
<1>7. CASE disk'["summary"] = [disk["summary"] EXCEPT !.decision = "PASS"]
  <2>1. disk'["summary"] = [cases |-> disk["summary"].cases, says |-> disk["summary"].says,
                            decision |-> "PASS"]
    BY <1>4, <1>5, <1>7
  <2>. QED  BY <2>1 DEF IsSummary
<1>. HIDE DEF Others
<1>. QED  BY <1>2, <1>3, <1>6, <1>7

LEMMA HoldoutPredictGoes ==
  ASSUME ChallengeInv, Goes
  PROVE  HoldoutPredictInv'
<1>. DEFINE SuiteOK == /\ Done >= 3 => disk["suite"] = mem["suite"]
                       /\ Done >= 12 => bytes["suite"] = mem["suite"]
            SummaryOK == /\ IsSummary(disk["summary"]) /\ SummaryHolds(disk["summary"])
                         /\ disk["summary"].cases = Built[mem["suite"].public]
<1>. SUFFICES ASSUME Running("holdout", 2)'
              PROVE  /\ ~Disturbed("suite", {"predict"})' => SuiteOK'
                     /\ Done' >= 7 => Built[mem'["suite"].public] \in Sealed'
                     /\ Done' >= 9 => SummaryOK'
                     /\ Done' >= 13 => disk'["provenance"].suite = bytes'["suite"]
  <2>. HIDE DEF Done
  <2>. QED  BY DEF HoldoutPredictInv
<1>1. Running("holdout", 2) /\ kind = "holdout" /\ at = 2
  BY RunningGoes
<1>2. Does = HoldoutPredict
  BY <1>1, HoldoutBook DEF Does, Book
<1>3. /\ ProcessOK /\ ReadInv /\ ContentsInv
      /\ ~Disturbed("suite", {"predict"}) => SuiteOK
      /\ Done >= 7 => Built[mem["suite"].public] \in Sealed
      /\ Done >= 9 => SummaryOK
      /\ Done >= 13 => disk["provenance"].suite = bytes["suite"]
  <2>. HIDE DEF Done
  <2>. QED  BY <1>1 DEF ChallengeInv, HoldoutPredictInv
<1>4. Len(Does) = 15
  BY <1>2 DEF HoldoutPredict
<1>5. /\ Done' = Done + 1 /\ Done \in 0..14 /\ Here = HoldoutPredict[Done + 1]
      /\ UNCHANGED <<code, head, work, edited>> /\ kind' = kind
  <2>1. /\ Done' = Done + 1 /\ Here = HoldoutPredict[Done + 1] /\ Done + 1 \in 1..15
        /\ UNCHANGED <<code, head, work, edited>> /\ kind' = kind
    BY <1>2, <1>4 DEF Goes
  <2>2. Done \in 0..Len(Does)
    BY <1>3, ToolFacts
  <2>. HIDE DEF Done
  <2>. QED  BY <1>4, <2>1, <2>2
<1>6. /\ HoldoutPredict[3] = Reads("suite") /\ HoldoutPredict[6] = Reads("commitment")
      /\ HoldoutPredict[7] = Checks("preregistered") /\ HoldoutPredict[9] = Writes("summary")
      /\ HoldoutPredict[12] = Hashes("suite") /\ HoldoutPredict[13] = Writes("provenance")
      /\ \A i \in 1..15 : /\ HoldoutPredict[i][1] # "generate"
                          /\ HoldoutPredict[i][1] \in {"read", "write"} =>
                               (HoldoutPredict[i][2] = "suite" => i = 3)
                          /\ HoldoutPredict[i][1] = "write" => HoldoutPredict[i][2] # "suite"
                          /\ HoldoutPredict[i][1] = "write" =>
                               (HoldoutPredict[i][2] = "summary" => i = 9)
                          /\ HoldoutPredict[i][1] = "write" =>
                               (HoldoutPredict[i][2] = "provenance" => i = 13)
                          /\ i >= 13 => /\ HoldoutPredict[i][1] \notin {"hash", "revision", "query"}
                                        /\ HoldoutPredict[i][2] # "registered"
  BY SMTT(30) DEF HoldoutPredict, Reads, Checks, Writes, Hashes, Refuses, Do
<1>7. /\ Done >= 3 => "suite" \in DOMAIN mem
      /\ Done >= 6 => "commitment" \in DOMAIN mem
  <2>. HIDE DEF Done
  <2>1. \A i \in 1..Done : /\ Does[i][1] = "read" => Does[i][2] \in DOMAIN mem
    BY <1>3 DEF ReadInv
  <2>. QED  BY <1>2, <1>5, <1>6, <2>1 DEF Reads
<1>8. /\ Here[1] = "check" => Holds(Here[2])
      /\ Here[1] = "write" => disk' = [disk EXCEPT ![Here[2]] = Content(Here[2])]
  <2>. HIDE DEF Holds, Content
  <2>. QED  BY <1>3, EffectOf
<1>. HIDE DEF Done, Here, Holds, Content
<1>9. /\ Here[1] \notin {"read", "write"} => mem' = mem
      /\ Here[1] \notin {"hash", "revision", "query"} /\ Here[2] # "registered" => bytes' = bytes
      /\ \A f \in DOMAIN mem : ~(Here[1] \in {"read", "write"} /\ Here[2] = f) => mem'[f] = mem[f]
      /\ \A f \in FileNames : ~(Here[1] = "write" /\ Here[2] = f) => disk'[f] = disk[f]
      /\ Here[1] = "read" => mem'[Here[2]] = disk[Here[2]]
      /\ Here[1] = "hash" => bytes'[Here[2]] = disk[Here[2]]
      /\ Here[1] # "generate" => fixed' = fixed
  BY <1>3, KeptBy
<1>10. Done + 1 \in 1..15
  BY <1>5
<1>11. "suite" \in FileNames /\ "summary" \in FileNames /\ "provenance" \in FileNames
  BY DEF FileNames
<1>12. fixed' = fixed /\ disk'["suite"] = disk["suite"]
  BY <1>5, <1>6, <1>9, <1>10, <1>11
<1>13. /\ Done = 2 => mem'["suite"] = disk["suite"]
       /\ Done >= 3 => mem'["suite"] = mem["suite"]
  <2>1. Done = 2 => mem'["suite"] = disk["suite"]
    BY <1>5, <1>6, <1>9 DEF Reads
  <2>2. ASSUME Done >= 3
        PROVE  mem'["suite"] = mem["suite"]
    <3>1. ~(Here[1] \in {"read", "write"} /\ Here[2] = "suite")
      BY <1>5, <1>6, <1>10, <2>2
    <3>. QED  BY <1>7, <1>9, <2>2, <3>1
  <2>. QED  BY <2>1, <2>2
<1>14. /\ Done = 11 => bytes'["suite"] = disk["suite"]
       /\ Done >= 12 => bytes' = bytes
  <2>1. Done = 11 => bytes'["suite"] = disk["suite"]
    BY <1>5, <1>6, <1>9 DEF Hashes
  <2>2. Done >= 12 => bytes' = bytes
    BY <1>5, <1>6, <1>9, <1>10
  <2>. QED  BY <2>1, <2>2
<1>15. Disturbed("suite", {"predict"})' = Disturbed("suite", {"predict"})
       /\ Disturbed("summary", {"predict"})' = Disturbed("summary", {"predict"})
  BY <1>5 DEF Disturbed
<1>16. Sealed' = Sealed
  BY <1>12 DEF Sealed
<1>17. ASSUME SuiteOK
       PROVE  SuiteOK'
  <2>1. Done' >= 3 => disk'["suite"] = mem'["suite"]
    BY <1>5, <1>12, <1>13, <1>17
  <2>2. Done' >= 12 => bytes'["suite"] = mem'["suite"]
    BY <1>5, <1>12, <1>13, <1>14, <1>17
  <2>. QED  BY <2>1, <2>2
<1>18. Done' >= 7 => Built[mem'["suite"].public] \in Sealed'
  <2>1. CASE Done = 6
    <3>1. Here = Checks("preregistered")
      BY <1>5, <1>6, <2>1
    <3>2. Holds("preregistered")
      BY <1>8, <3>1 DEF Checks
    <3>3. mem["commitment"] = HoldoutCommitment
      BY <3>2 DEF Holds
    <3>4. mem["commitment"].cases = Built[mem["suite"].public]
      BY <3>3 DEF HoldoutCommitment
    <3>5. Legit("commitment", mem["commitment"])
      BY <1>3, <1>7, <2>1 DEF ContentsInv
    <3>6. mem["commitment"].cases \in Sealed
      BY <1>1, <3>5 DEF Legit
    <3>. QED  BY <1>13, <1>16, <2>1, <3>4, <3>6
  <2>2. CASE Done >= 7
    BY <1>3, <1>5, <1>13, <1>16, <2>2
  <2>. QED  BY <1>5, <2>1, <2>2
<1>19. Done' >= 9 => SummaryOK'
  <2>1. CASE Done = 8
    <3>1. Here = Writes("summary")
      BY <1>5, <1>6, <2>1
    <3>2. disk' = [disk EXCEPT !["summary"] = Content("summary")]
      BY <1>8, <3>1 DEF Writes
    <3>3. disk'["summary"] = Content("summary")
      BY <1>3, <1>11, <3>2 DEF ProcessOK
    <3>4. Content("summary") = Summary
      BY DEF Content
    <3>. DEFINE built == Built[mem["suite"].public]
    <3>5. /\ disk'["summary"] = [cases |-> built, says |-> Predict(code, built.public),
               decision |-> Decision(built.truth, Predict(code, built.public),
                                     "strict", built.public)]
      BY <3>3, <3>4 DEF Summary
    <3>6. built \in Sealed /\ mem'["suite"] = mem["suite"]
      BY <1>3, <1>13, <2>1
    <3>7. IsSummary(disk["summary"])'
      BY <3>5 DEF IsSummary
    <3>8. SummaryHolds(disk["summary"])'
      BY <1>16, <3>5, <3>6 DEF SummaryHolds
    <3>. QED  BY <3>5, <3>6, <3>7, <3>8
  <2>2. CASE Done >= 9
    <3>1. disk'["summary"] = disk["summary"]
      BY <1>5, <1>6, <1>9, <1>10, <1>11, <2>2
    <3>2. mem'["suite"] = mem["suite"] /\ SummaryOK
      BY <1>3, <1>5, <1>13, <2>2
    <3>3. IsSummary(disk["summary"])'
      BY <3>1, <3>2 DEF IsSummary
    <3>4. SummaryHolds(disk["summary"])'
      BY <1>15, <1>16, <3>1, <3>2 DEF SummaryHolds
    <3>. QED  BY <3>1, <3>2, <3>3, <3>4
  <2>. QED  BY <1>5, <2>1, <2>2
<1>20. Done' >= 13 => disk'["provenance"].suite = bytes'["suite"]
  <2>1. CASE Done = 12
    <3>1. Here = Writes("provenance")
      BY <1>5, <1>6, <2>1
    <3>2. disk' = [disk EXCEPT !["provenance"] = Content("provenance")]
      BY <1>8, <3>1 DEF Writes
    <3>3. disk'["provenance"] = Content("provenance")
      BY <1>3, <1>11, <3>2 DEF ProcessOK
    <3>4. Content("provenance").suite = bytes["suite"]
      BY DEF Content
    <3>. QED  BY <1>14, <2>1, <3>3, <3>4
  <2>2. CASE Done >= 13
    <3>1. disk'["provenance"] = disk["provenance"]
      BY <1>5, <1>6, <1>9, <1>10, <1>11, <2>2
    <3>. QED  BY <1>3, <1>5, <1>14, <2>2, <3>1
  <2>. QED  BY <1>5, <2>1, <2>2
<1>. HIDE DEF SuiteOK, SummaryOK
<1>. QED  BY <1>3, <1>15, <1>17, <1>18, <1>19, <1>20

LEMMA HoldoutPredictStays ==
  ASSUME ChallengeInv, kind' = kind,
         StartsOver \/ (Stands /\ (Edit \/ Lose \/ EditCode \/ StopAdapter \/ UNCHANGED challengeVars))
  PROVE  HoldoutPredictInv'
<1>1. CASE Stands /\ (Edit \/ Lose \/ EditCode \/ StopAdapter \/ UNCHANGED challengeVars)
  <2>. SUFFICES ASSUME Running("holdout", 2)'
                PROVE  HoldoutPredictInv'
    BY DEF HoldoutPredictInv
  <2>1. Running("holdout", 2) /\ kind = "holdout" /\ at = 2 /\ (line > 0 \/ status = "accepted")
    BY <1>1 DEF Stands, Running
  <2>2. UNCHANGED <<mem, bytes, fixed>> /\ Sealed' = Sealed
    BY <1>1 DEF Stands, Sealed
  <2>3. /\ Book[at].name = "predict"
        /\ "suite" \in FileNames /\ "summary" \in FileNames /\ "provenance" \in FileNames
    BY <2>1, HoldoutBook DEF Book, FileNames
  <2>4. /\ Done' = Done
        /\ disk'["suite"] = disk["suite"] \/ Disturbed("suite", {"predict"})'
        /\ disk'["summary"] = disk["summary"] \/ Disturbed("summary", {"predict"})'
        /\ Disturbed("suite", {"predict"}) => Disturbed("suite", {"predict"})'
        /\ Disturbed("summary", {"predict"}) => Disturbed("summary", {"predict"})'
    <3>1. /\ Done' = Done
          /\ \A f \in FileNames : disk'[f] = disk[f] \/ Disturbed(f, {Book[at].name})'
          /\ \A f : Disturbed(f, {Book[at].name}) => Disturbed(f, {Book[at].name})'
      BY <1>1, <2>1, RunStays DEF ChallengeInv
    <3>2. Book' = Book /\ at' = at
      BY <1>1 DEF Book, Stands
    <3>. HIDE DEF Done, Book
    <3>. QED  BY <2>3, <3>1, <3>2
  <2>5. disk'["provenance"] = disk["provenance"]
    <3>1. \/ disk'["provenance"] = disk["provenance"]
          \/ "provenance" \in {"key", "frozen", "answers", "records"} /\ disk'["provenance"] = Absent
          \/ disk'["provenance"] \in Others("provenance")
      <4>. HIDE DEF Others
      <4>. QED  BY <1>1, <2>3, StandsIs DEF ChallengeInv
    <3>2. Others("provenance") = {}
      BY DEF Others
    <3>. HIDE DEF Others
    <3>. QED  BY <3>1, <3>2
  <2>6. ASSUME IsSummary(disk["summary"]), SummaryHolds(disk["summary"]),
               disk["summary"].cases = Built[mem["suite"].public]
        PROVE  IsSummary(disk["summary"])' /\ SummaryHolds(disk["summary"])'
               /\ disk'["summary"].cases = Built[mem'["suite"].public]
    <3>1. IsSummary(disk["summary"])' /\ disk'["summary"].cases = disk["summary"].cases
      BY <1>1, <2>6, EditedSummary DEF ChallengeInv
    <3>2. CASE disk'["summary"] = disk["summary"]
      <4>1. SummaryHolds(disk["summary"])'
        BY <2>2, <2>4, <2>6, <3>2 DEF SummaryHolds
      <4>. QED  BY <2>2, <2>6, <3>1, <4>1
    <3>3. CASE Disturbed("summary", {"predict"})'
      <4>1. SummaryHolds(disk["summary"])'
        BY <3>3 DEF SummaryHolds
      <4>. QED  BY <2>2, <2>6, <3>1, <4>1
    <3>. QED  BY <2>4, <3>2, <3>3
  <2>. HIDE DEF Done
  <2>. QED  BY <2>1, <2>2, <2>4, <2>5, <2>6 DEF ChallengeInv, HoldoutPredictInv
<1>2. CASE StartsOver
  <2>1. Done' = 0
    BY <1>2 DEF StartsOver
  <2>. HIDE DEF Done
  <2>. QED  BY <2>1 DEF HoldoutPredictInv
<1>. QED  BY <1>1, <1>2


LEMMA HoldoutVerifyGoes ==
  ASSUME ChallengeInv, Goes
  PROVE  HoldoutVerifyInv'
<1>. DEFINE declared == mem["manifest"].files["summary"]
            OnDisk == /\ IsSummary(disk["summary"]) /\ disk["summary"].cases = declared.cases
                      /\ (~Disturbed("summary", {"verify"}) => disk["summary"] = declared)
            Judged == /\ mem["summary"].cases = declared.cases
                      /\ (~Disturbed("summary", {"verify"}) => mem["summary"] = declared)
<1>. SUFFICES ASSUME Running("holdout", 3)'
              PROVE  /\ Done' >= 4 => OnDisk'
                     /\ Done' >= 5 => Judged'
                     /\ Done' >= 6 => mem'["summary"].decision = "PASS"
  <2>. HIDE DEF Done
  <2>. QED  BY DEF HoldoutVerifyInv
<1>1. Running("holdout", 3) /\ kind = "holdout" /\ at = 3
  BY RunningGoes
<1>2. Does = HoldoutVerify
  BY <1>1, HoldoutBook DEF Does, Book
<1>3. /\ ProcessOK /\ ReadInv /\ ContentsInv
      /\ Done >= 4 => OnDisk
      /\ Done >= 5 => Judged
      /\ Done >= 6 => mem["summary"].decision = "PASS"
  <2>. HIDE DEF Done
  <2>. QED  BY <1>1 DEF ChallengeInv, HoldoutVerifyInv
<1>4. Len(Does) = 6
  BY <1>2 DEF HoldoutVerify
<1>5. Done' = Done + 1 /\ Done \in 0..5 /\ Here = HoldoutVerify[Done + 1] /\ edited' = edited
  <2>1. Done' = Done + 1 /\ Here = HoldoutVerify[Done + 1] /\ Done + 1 \in 1..6 /\ edited' = edited
    BY <1>2, <1>4 DEF Goes
  <2>2. Done \in 0..Len(Does)
    BY <1>3, ToolFacts
  <2>. HIDE DEF Done
  <2>. QED  BY <1>4, <2>1, <2>2
<1>6. /\ HoldoutVerify[1] = Reads("manifest") /\ HoldoutVerify[4] = Matches("summary")
      /\ HoldoutVerify[5] = Reads("summary") /\ HoldoutVerify[6] = Checks("passes")
      /\ \A i \in 1..6 : HoldoutVerify[i][1] # "write"
  BY SMTT(30) DEF HoldoutVerify, Reads, Checks, Matches
<1>7. Done >= 1 => "manifest" \in DOMAIN mem
  <2>. HIDE DEF Done
  <2>1. \A i \in 1..Done : /\ Does[i][1] = "read" => Does[i][2] \in DOMAIN mem
    BY <1>3 DEF ReadInv
  <2>. QED  BY <1>2, <1>5, <1>6, <2>1 DEF Reads
<1>8. /\ Here[1] = "check" => Holds(Here[2])
      /\ Here[1] = "match" => disk[Here[2]] = mem["manifest"].files[Here[2]]
  <2>. HIDE DEF Holds
  <2>. QED  BY <1>3, EffectOf
<1>. HIDE DEF Done, Here, Holds
<1>9. /\ Here[1] \notin {"read", "write"} => mem' = mem
      /\ \A f \in DOMAIN mem : ~(Here[1] \in {"read", "write"} /\ Here[2] = f) => mem'[f] = mem[f]
      /\ \A f \in FileNames : ~(Here[1] = "write" /\ Here[2] = f) => disk'[f] = disk[f]
      /\ Here[1] = "read" => mem'[Here[2]] = disk[Here[2]]
  BY <1>3, KeptBy
<1>10. Done + 1 \in 1..6 /\ "summary" \in FileNames
  BY <1>5 DEF FileNames
<1>11. disk'["summary"] = disk["summary"]
  BY <1>5, <1>6, <1>9, <1>10
<1>12. /\ Done = 3 => disk["summary"] = declared /\ mem' = mem
       /\ Done = 4 => mem'["summary"] = disk["summary"] /\ mem'["manifest"] = mem["manifest"]
       /\ Done = 5 => Holds("passes") /\ mem' = mem
  <2>1. Done = 3 => disk["summary"] = declared /\ mem' = mem
    BY <1>5, <1>6, <1>8, <1>9 DEF Matches
  <2>2. Done = 4 => mem'["summary"] = disk["summary"] /\ mem'["manifest"] = mem["manifest"]
    BY <1>5, <1>6, <1>7, <1>9 DEF Reads
  <2>3. Done = 5 => Holds("passes") /\ mem' = mem
    BY <1>5, <1>6, <1>8, <1>9 DEF Checks
  <2>. QED  BY <2>1, <2>2, <2>3
<1>13. Done >= 1 => IsSummary(declared)
  <2>1. Done >= 1 => Legit("manifest", mem["manifest"])
    BY <1>3, <1>7 DEF ContentsInv
  <2>2. Legit("manifest", mem["manifest"]) => IsManifest(mem["manifest"])
    BY DEF Legit
  <2>3. IsManifest(mem["manifest"]) => IsSummary(declared)
    BY <1>1 DEF IsManifest
  <2>. QED  BY <2>1, <2>2, <2>3
<1>14. Disturbed("summary", {"verify"})' = Disturbed("summary", {"verify"})
  BY <1>5 DEF Disturbed
<1>15. IsSummary(disk["summary"])' = IsSummary(disk["summary"])
  BY <1>11 DEF IsSummary
<1>16. Holds("passes") => mem["summary"].decision = "PASS"
  BY DEF Holds
<1>17. Done' >= 4 => OnDisk'
  <2>1. CASE Done = 3
    <3>1. disk'["summary"] = declared' /\ declared' = declared
      BY <1>11, <1>12, <2>1
    <3>2. IsSummary(disk["summary"])
      BY <1>12, <1>13, <2>1
    <3>. QED  BY <1>15, <3>1, <3>2
  <2>2. CASE Done \in {4, 5}
    <3>1. declared' = declared
      BY <1>12, <2>2
    <3>2. OnDisk
      BY <1>3, <2>2
    <3>. QED  BY <1>11, <1>14, <1>15, <3>1, <3>2
  <2>. QED  BY <1>5, <2>1, <2>2
<1>18. Done' >= 5 => Judged'
  <2>1. CASE Done = 4
    <3>1. declared' = declared /\ mem'["summary"] = disk["summary"]
      BY <1>12, <2>1
    <3>2. OnDisk
      BY <1>3, <2>1
    <3>. QED  BY <1>14, <3>1, <3>2
  <2>2. CASE Done = 5
    BY <1>3, <1>12, <1>14, <2>2
  <2>. QED  BY <1>5, <2>1, <2>2
<1>19. Done' >= 6 => mem'["summary"].decision = "PASS"
  BY <1>5, <1>12, <1>16
<1>. HIDE DEF OnDisk, Judged
<1>. QED  BY <1>17, <1>18, <1>19

LEMMA HoldoutVerifyStays ==
  ASSUME ChallengeInv, kind' = kind,
         StartsOver \/ (Stands /\ (Edit \/ Lose \/ EditCode \/ StopAdapter \/ UNCHANGED challengeVars))
  PROVE  HoldoutVerifyInv'
<1>1. CASE Stands /\ (Edit \/ Lose \/ EditCode \/ StopAdapter \/ UNCHANGED challengeVars)
  <2>. SUFFICES ASSUME Running("holdout", 3)'
                PROVE  HoldoutVerifyInv'
    BY DEF HoldoutVerifyInv
  <2>1. Running("holdout", 3) /\ kind = "holdout" /\ at = 3 /\ (line > 0 \/ status = "accepted")
    BY <1>1 DEF Stands, Running
  <2>2. mem' = mem
    BY <1>1 DEF Stands
  <2>3. Book[at].name = "verify" /\ "summary" \in FileNames
    BY <2>1, HoldoutBook DEF Book, FileNames
  <2>4. /\ Done' = Done
        /\ disk'["summary"] = disk["summary"] \/ Disturbed("summary", {"verify"})'
        /\ Disturbed("summary", {"verify"}) => Disturbed("summary", {"verify"})'
    <3>1. /\ Done' = Done
          /\ \A f \in FileNames : disk'[f] = disk[f] \/ Disturbed(f, {Book[at].name})'
          /\ \A f : Disturbed(f, {Book[at].name}) => Disturbed(f, {Book[at].name})'
      BY <1>1, <2>1, RunStays DEF ChallengeInv
    <3>2. Book' = Book /\ at' = at
      BY <1>1 DEF Book, Stands
    <3>. HIDE DEF Done, Book
    <3>. QED  BY <2>3, <3>1, <3>2
  <2>5. IsSummary(disk["summary"]) =>
          IsSummary(disk["summary"])' /\ disk'["summary"].cases = disk["summary"].cases
    BY <1>1, EditedSummary DEF ChallengeInv
  <2>. HIDE DEF Done
  <2>. QED  BY <2>1, <2>2, <2>4, <2>5 DEF ChallengeInv, HoldoutVerifyInv
<1>2. CASE StartsOver
  <2>1. Done' = 0
    BY <1>2 DEF StartsOver
  <2>. HIDE DEF Done
  <2>. QED  BY <2>1 DEF HoldoutVerifyInv
<1>. QED  BY <1>1, <1>2


-----------------------------------------------------------------------------
(* What the files hold.                                                     *)

\* Which tool writes the files that the invariant is about.
LEMMA WhoWrites ==
  ASSUME ProcessOK, NEW i \in 1..Len(Does), Does[i][1] = "write"
  PROVE  /\ Does[i][2] # "suite"
         /\ Does[i][2] = "package" => kind = "blind" /\ at = 1 /\ i = 5
         /\ Does[i][2] = "sealed" => kind \in {"passive", "active"} /\ at = 1 /\ i = 4
         /\ Does[i][2] = "commitment" /\ kind = "temporal" => at = 1 /\ i = 6
         /\ Does[i][2] = "commitment" /\ kind = "holdout" => at = 1 /\ i = 6
         /\ Does[i][2] = "predictions" /\ kind = "temporal" => at = 2 /\ i = 6
         /\ Does[i][2] = "truth" => i = 5 /\ Does[3] = Reads("sealed")
         /\ Does[i][2] = "manifest" /\ kind = "holdout" => at = 2 /\ i = 14
<1>1. i \in 1..7 => (BlindSeal[i][1] = "write" => (i = 5 /\ BlindSeal[i][2] = "package") \/ (i = 7 /\ BlindSeal[i][2] = "key"))
  BY DEF BlindSeal, Checks, Do, Reads, Refuses, Writes
<1>2. i \in 1..3 => (BlindPredict[i][1] = "write" => (i = 3 /\ BlindPredict[i][2] = "predictions"))
  BY DEF BlindPredict, Reads, Refuses, Writes
<1>3. i \in 1..5 => (BlindFreeze[i][1] = "write" => (i = 5 /\ BlindFreeze[i][2] = "frozen"))
  BY DEF BlindFreeze, Checks, Reads, Refuses, Writes
<1>4. i \in 1..5 => (BlindReveal[i][1] = "write" => (i = 5 /\ BlindReveal[i][2] = "answers"))
  BY DEF BlindReveal, Checks, Reads, Refuses, Writes
<1>5. i \in 1..7 => (BlindScoring[i][1] = "write" => (i = 7 /\ BlindScoring[i][2] = "score"))
  BY SMTT(30) DEF BlindScoring, Checks, Reads, Refuses, Writes
<1>6. i \in 1..5 => (BlindDeclare[i][1] = "write" => (i = 5 /\ BlindDeclare[i][2] = "manifest"))
  BY DEF BlindDeclare, Reads, Writes
<1>7. i \in 1..3 => (BlindSign[i][1] = "write" => (i = 3 /\ BlindSign[i][2] = "attestation"))
  BY DEF BlindSign, Reads, Writes
<1>8. i \in 1..17 => (BlindVerify[i][1] = "write" => FALSE)
  BY SMTT(60) DEF BlindVerify, Checks, Matches, Reads
<1>9. (i \in 1..6 => (TemporalSeal[i][1] = "write" => 
              \/ (i = 4 /\ TemporalSeal[i][2] = "public")
              \/ (i = 5 /\ TemporalSeal[i][2] = "answers")
              \/ (i = 6 /\ TemporalSeal[i][2] = "commitment")))
  BY DEF TemporalSeal, Checks, Do, Reads, Writes
<1>10. i \in 1..6 => (TemporalPredict[i][1] = "write" => (i = 6 /\ TemporalPredict[i][2] = "predictions"))
  BY SMTT(30) DEF TemporalPredict, Checks, Do, Hashes, Reads, Writes
<1>11. i \in 1..11 => (TemporalVerify[i][1] = "write" => (i = 10 /\ TemporalVerify[i][2] = "score"))
  BY SMTT(60) DEF TemporalVerify, Checks, Hashes, Reads, Writes
<1>12. (i \in 1..7 => (GhostSeal[i][1] = "write" => 
              \/ (i = 4 /\ GhostSeal[i][2] = "sealed")
              \/ (i = 5 /\ GhostSeal[i][2] = "public")
              \/ (i = 6 /\ GhostSeal[i][2] = "commitment")
              \/ (i = 7 /\ GhostSeal[i][2] = "key")))
  BY DEF GhostSeal, Checks, Do, Reads, Writes
<1>13. (i \in 1..5 => (GhostReveal[i][1] = "write" => (i = 5 /\ GhostReveal[i][2] = "truth"))) /\ GhostReveal[3] = Reads("sealed")
  BY SMTT(30) DEF GhostReveal, Checks, Reads, Writes
<1>14. i \in 1..3 => (Declare[i][1] = "write" => (i = 3 /\ Declare[i][2] = "manifest"))
  BY DEF Declare, Reads, Writes
<1>15. i \in 1..2 => (Sign[i][1] = "write" => (i = 2 /\ Sign[i][2] = "attestation"))
  BY DEF Sign, Reads, Writes
<1>16. i \in 1..5 => (PassivePredict[i][1] = "write" => (i = 5 /\ PassivePredict[i][2] = "result"))
  BY DEF PassivePredict, Checks, Reads, Refuses, Writes
<1>17. i \in 1..15 => (PassiveVerify[i][1] = "write" => FALSE)
  BY SMTT(60) DEF PassiveVerify, Checks, Hashes, Matches, Reads
<1>18. i \in 1..4 => (ActiveServe[i][1] = "write" => FALSE)
  BY DEF ActiveServe, Checks, Do, Reads
<1>19. i \in 1..6 => (ActivePredict[i][1] = "write" => (i = 6 /\ ActivePredict[i][2] = "result"))
  BY DEF ActivePredict, Checks, Do, Reads, Refuses, Writes
<1>20. i \in 1..16 => (ActiveVerify[i][1] = "write" => FALSE)
  BY SMTT(60) DEF ActiveVerify, Checks, Hashes, Matches, Reads
<1>21. i \in 1..6 => (HoldoutSeal[i][1] = "write" => (i = 6 /\ HoldoutSeal[i][2] = "commitment"))
  BY DEF HoldoutSeal, Checks, Do, Hashes, Reads, Refuses, Writes
<1>22. (i \in 1..15 => (HoldoutPredict[i][1] = "write" => 
              \/ (i = 2 /\ HoldoutPredict[i][2] = "output")
              \/ (i = 8 /\ HoldoutPredict[i][2] = "records")
              \/ (i = 9 /\ HoldoutPredict[i][2] = "summary")
              \/ (i = 13 /\ HoldoutPredict[i][2] = "provenance")
              \/ (i = 14 /\ HoldoutPredict[i][2] = "manifest")))
  BY SMTT(60) DEF HoldoutPredict, Checks, Do, Hashes, Reads, Refuses, Writes
<1>23. i \in 1..6 => (HoldoutVerify[i][1] = "write" => FALSE)
  BY SMTT(60) DEF HoldoutVerify, Checks, Matches, Reads
<1>24. i \in 1..5 => (TransferVerify[i][1] = "write" => FALSE)
  BY DEF TransferVerify, Checks, Matches, Reads
<1>30. kind \in {"blind", "temporal", "passive", "active", "holdout", "transfer"}
       /\ at \in 1..Len(Book)
  BY DEF ProcessOK, Books
<1>31. CASE kind = "blind"
  <2>1. at \in 1..8
    BY <1>30, <1>31, BlindBook DEF Book
  <2>2. CASE at = 1
    <3>1. Does = BlindSeal /\ Len(Does) = 7
      BY <1>31, <2>2, BlindBook DEF Does, Book, BlindSeal
    <3>. HIDE DEF Does
    <3>. QED  BY <1>1, <1>31, <2>2, <3>1
  <2>3. CASE at = 2
    <3>1. Does = BlindPredict /\ Len(Does) = 3
      BY <1>31, <2>3, BlindBook DEF Does, Book, BlindPredict
    <3>. HIDE DEF Does
    <3>. QED  BY <1>2, <1>31, <2>3, <3>1
  <2>4. CASE at = 3
    <3>1. Does = BlindFreeze /\ Len(Does) = 5
      BY <1>31, <2>4, BlindBook DEF Does, Book, BlindFreeze
    <3>. HIDE DEF Does
    <3>. QED  BY <1>3, <1>31, <2>4, <3>1
  <2>5. CASE at = 4
    <3>1. Does = BlindReveal /\ Len(Does) = 5
      BY <1>31, <2>5, BlindBook DEF Does, Book, BlindReveal
    <3>. HIDE DEF Does
    <3>. QED  BY <1>4, <1>31, <2>5, <3>1
  <2>6. CASE at = 5
    <3>1. Does = BlindScoring /\ Len(Does) = 7
      BY <1>31, <2>6, BlindBook DEF Does, Book, BlindScoring
    <3>. HIDE DEF Does
    <3>. QED  BY <1>5, <1>31, <2>6, <3>1
  <2>7. CASE at = 6
    <3>1. Does = BlindDeclare /\ Len(Does) = 5
      BY <1>31, <2>7, BlindBook DEF Does, Book, BlindDeclare
    <3>. HIDE DEF Does
    <3>. QED  BY <1>6, <1>31, <2>7, <3>1
  <2>8. CASE at = 7
    <3>1. Does = BlindSign /\ Len(Does) = 3
      BY <1>31, <2>8, BlindBook DEF Does, Book, BlindSign
    <3>. HIDE DEF Does
    <3>. QED  BY <1>7, <1>31, <2>8, <3>1
  <2>9. CASE at = 8
    <3>1. Does = BlindVerify /\ Len(Does) = 17
      BY <1>31, <2>9, BlindBook DEF Does, Book, BlindVerify
    <3>. HIDE DEF Does
    <3>. QED  BY <1>8, <1>31, <2>9, <3>1
  <2>. QED  BY <2>1, <2>2, <2>3, <2>4, <2>5, <2>6, <2>7, <2>8, <2>9
<1>32. CASE kind = "temporal"
  <2>1. at \in 1..3
    BY <1>30, <1>32, TemporalBook DEF Book
  <2>2. CASE at = 1
    <3>1. Does = TemporalSeal /\ Len(Does) = 6
      BY <1>32, <2>2, TemporalBook DEF Does, Book, TemporalSeal
    <3>. HIDE DEF Does
    <3>. QED  BY <1>9, <1>32, <2>2, <3>1
  <2>3. CASE at = 2
    <3>1. Does = TemporalPredict /\ Len(Does) = 6
      BY <1>32, <2>3, TemporalBook DEF Does, Book, TemporalPredict
    <3>. HIDE DEF Does
    <3>. QED  BY <1>10, <1>32, <2>3, <3>1
  <2>4. CASE at = 3
    <3>1. Does = TemporalVerify /\ Len(Does) = 11
      BY <1>32, <2>4, TemporalBook DEF Does, Book, TemporalVerify
    <3>. HIDE DEF Does
    <3>. QED  BY <1>11, <1>32, <2>4, <3>1
  <2>. QED  BY <2>1, <2>2, <2>3, <2>4
<1>33. CASE kind = "passive"
  <2>1. at \in 1..6
    BY <1>30, <1>33, PassiveBook DEF Book
  <2>2. CASE at = 1
    <3>1. Does = GhostSeal /\ Len(Does) = 7
      BY <1>33, <2>2, PassiveBook DEF Does, Book, GhostSeal
    <3>. HIDE DEF Does
    <3>. QED  BY <1>12, <1>33, <2>2, <3>1
  <2>3. CASE at = 2
    <3>1. Does = PassivePredict /\ Len(Does) = 5
      BY <1>33, <2>3, PassiveBook DEF Does, Book, PassivePredict
    <3>. HIDE DEF Does
    <3>. QED  BY <1>16, <1>33, <2>3, <3>1
  <2>4. CASE at = 3
    <3>1. Does = GhostReveal /\ Len(Does) = 5
      BY <1>33, <2>4, PassiveBook DEF Does, Book, GhostReveal
    <3>. HIDE DEF Does
    <3>. QED  BY <1>13, <1>33, <2>4, <3>1
  <2>5. CASE at = 4
    <3>1. Does = Declare /\ Len(Does) = 3
      BY <1>33, <2>5, PassiveBook DEF Does, Book, Declare
    <3>. HIDE DEF Does
    <3>. QED  BY <1>14, <1>33, <2>5, <3>1
  <2>6. CASE at = 5
    <3>1. Does = Sign /\ Len(Does) = 2
      BY <1>33, <2>6, PassiveBook DEF Does, Book, Sign
    <3>. HIDE DEF Does
    <3>. QED  BY <1>15, <1>33, <2>6, <3>1
  <2>7. CASE at = 6
    <3>1. Does = PassiveVerify /\ Len(Does) = 15
      BY <1>33, <2>7, PassiveBook DEF Does, Book, PassiveVerify
    <3>. HIDE DEF Does
    <3>. QED  BY <1>17, <1>33, <2>7, <3>1
  <2>. QED  BY <2>1, <2>2, <2>3, <2>4, <2>5, <2>6, <2>7
<1>34. CASE kind = "active"
  <2>1. at \in 1..7
    BY <1>30, <1>34, ActiveBook DEF Book
  <2>2. CASE at = 1
    <3>1. Does = GhostSeal /\ Len(Does) = 7
      BY <1>34, <2>2, ActiveBook DEF Does, Book, GhostSeal
    <3>. HIDE DEF Does
    <3>. QED  BY <1>12, <1>34, <2>2, <3>1
  <2>3. CASE at = 2
    <3>1. Does = ActiveServe /\ Len(Does) = 4
      BY <1>34, <2>3, ActiveBook DEF Does, Book, ActiveServe
    <3>. HIDE DEF Does
    <3>. QED  BY <1>18, <1>34, <2>3, <3>1
  <2>4. CASE at = 3
    <3>1. Does = ActivePredict /\ Len(Does) = 6
      BY <1>34, <2>4, ActiveBook DEF Does, Book, ActivePredict
    <3>. HIDE DEF Does
    <3>. QED  BY <1>19, <1>34, <2>4, <3>1
  <2>5. CASE at = 4
    <3>1. Does = GhostReveal /\ Len(Does) = 5
      BY <1>34, <2>5, ActiveBook DEF Does, Book, GhostReveal
    <3>. HIDE DEF Does
    <3>. QED  BY <1>13, <1>34, <2>5, <3>1
  <2>6. CASE at = 5
    <3>1. Does = Declare /\ Len(Does) = 3
      BY <1>34, <2>6, ActiveBook DEF Does, Book, Declare
    <3>. HIDE DEF Does
    <3>. QED  BY <1>14, <1>34, <2>6, <3>1
  <2>7. CASE at = 6
    <3>1. Does = Sign /\ Len(Does) = 2
      BY <1>34, <2>7, ActiveBook DEF Does, Book, Sign
    <3>. HIDE DEF Does
    <3>. QED  BY <1>15, <1>34, <2>7, <3>1
  <2>8. CASE at = 7
    <3>1. Does = ActiveVerify /\ Len(Does) = 16
      BY <1>34, <2>8, ActiveBook DEF Does, Book, ActiveVerify
    <3>. HIDE DEF Does
    <3>. QED  BY <1>20, <1>34, <2>8, <3>1
  <2>. QED  BY <2>1, <2>2, <2>3, <2>4, <2>5, <2>6, <2>7, <2>8
<1>35. CASE kind = "holdout"
  <2>1. at \in 1..3
    BY <1>30, <1>35, HoldoutBook DEF Book
  <2>2. CASE at = 1
    <3>1. Does = HoldoutSeal /\ Len(Does) = 6
      BY <1>35, <2>2, HoldoutBook DEF Does, Book, HoldoutSeal
    <3>. HIDE DEF Does
    <3>. QED  BY <1>21, <1>35, <2>2, <3>1
  <2>3. CASE at = 2
    <3>1. Does = HoldoutPredict /\ Len(Does) = 15
      BY <1>35, <2>3, HoldoutBook DEF Does, Book, HoldoutPredict
    <3>. HIDE DEF Does
    <3>. QED  BY <1>22, <1>35, <2>3, <3>1
  <2>4. CASE at = 3
    <3>1. Does = HoldoutVerify /\ Len(Does) = 6
      BY <1>35, <2>4, HoldoutBook DEF Does, Book, HoldoutVerify
    <3>. HIDE DEF Does
    <3>. QED  BY <1>23, <1>35, <2>4, <3>1
  <2>. QED  BY <2>1, <2>2, <2>3, <2>4
<1>36. CASE kind = "transfer"
  <2>1. at \in 1..3
    BY <1>30, <1>36, TransferBook DEF Book
  <2>2. CASE at = 1
    <3>1. Does = Declare /\ Len(Does) = 3
      BY <1>36, <2>2, TransferBook DEF Does, Book, Declare
    <3>. HIDE DEF Does
    <3>. QED  BY <1>14, <1>36, <2>2, <3>1
  <2>3. CASE at = 2
    <3>1. Does = Sign /\ Len(Does) = 2
      BY <1>36, <2>3, TransferBook DEF Does, Book, Sign
    <3>. HIDE DEF Does
    <3>. QED  BY <1>15, <1>36, <2>3, <3>1
  <2>4. CASE at = 3
    <3>1. Does = TransferVerify /\ Len(Does) = 5
      BY <1>36, <2>4, TransferBook DEF Does, Book, TransferVerify
    <3>. HIDE DEF Does
    <3>. QED  BY <1>24, <1>36, <2>4, <3>1
  <2>. QED  BY <2>1, <2>2, <2>3, <2>4
<1>. QED  BY <1>30, <1>31, <1>32, <1>33, <1>34, <1>35, <1>36

\* What a tool reads is a file.
LEMMA ReadsFiles ==
  ASSUME ProcessOK, NEW i \in 1..Len(Does), Does[i][1] = "read"
  PROVE  Does[i][2] \in FileNames
<1>. DEFINE Good(t) == \A j \in 1..Len(t) : t[j][1] = "read" => t[j][2] \in FileNames
<1>1. Good(BlindSeal)
  BY DEF BlindSeal, Checks, Do, Reads, Refuses, Writes, FileNames
<1>2. Good(BlindPredict)
  BY DEF BlindPredict, Reads, Refuses, Writes, FileNames
<1>3. Good(BlindFreeze)
  BY DEF BlindFreeze, Checks, Reads, Refuses, Writes, FileNames
<1>4. Good(BlindReveal)
  BY DEF BlindReveal, Checks, Reads, Refuses, Writes, FileNames
<1>5. Good(BlindScoring)
  BY SMTT(30) DEF BlindScoring, Checks, Reads, Refuses, Writes, FileNames
<1>6. Good(BlindDeclare)
  BY DEF BlindDeclare, Reads, Writes, FileNames
<1>7. Good(BlindSign)
  BY DEF BlindSign, Reads, Writes, FileNames
<1>8. Good(BlindVerify)
  BY SMTT(60) DEF BlindVerify, Checks, Matches, Reads, FileNames
<1>9. Good(TemporalSeal)
  BY DEF TemporalSeal, Checks, Do, Reads, Writes, FileNames
<1>10. Good(TemporalPredict)
  BY SMTT(30) DEF TemporalPredict, Checks, Do, Hashes, Reads, Writes, FileNames
<1>11. Good(TemporalVerify)
  BY SMTT(60) DEF TemporalVerify, Checks, Hashes, Reads, Writes, FileNames
<1>12. Good(GhostSeal)
  BY DEF GhostSeal, Checks, Do, Reads, Writes, FileNames
<1>13. Good(GhostReveal)
  BY SMTT(30) DEF GhostReveal, Checks, Reads, Writes, FileNames
<1>14. Good(Declare)
  BY DEF Declare, Reads, Writes, FileNames
<1>15. Good(Sign)
  BY DEF Sign, Reads, Writes, FileNames
<1>16. Good(PassivePredict)
  BY DEF PassivePredict, Checks, Reads, Refuses, Writes, FileNames
<1>17. Good(PassiveVerify)
  BY SMTT(60) DEF PassiveVerify, Checks, Hashes, Matches, Reads, FileNames
<1>18. Good(ActiveServe)
  BY DEF ActiveServe, Checks, Do, Reads, FileNames
<1>19. Good(ActivePredict)
  BY DEF ActivePredict, Checks, Do, Reads, Refuses, Writes, FileNames
<1>20. Good(ActiveVerify)
  BY SMTT(60) DEF ActiveVerify, Checks, Hashes, Matches, Reads, FileNames
<1>21. Good(HoldoutSeal)
  BY DEF HoldoutSeal, Checks, Do, Hashes, Reads, Refuses, Writes, FileNames
<1>22. Good(HoldoutPredict)
  BY SMTT(60) DEF HoldoutPredict, Checks, Do, Hashes, Reads, Refuses, Writes, FileNames
<1>23. Good(HoldoutVerify)
  BY SMTT(60) DEF HoldoutVerify, Checks, Matches, Reads, FileNames
<1>24. Good(TransferVerify)
  BY DEF TransferVerify, Checks, Matches, Reads, FileNames
<1>. HIDE DEF Good
<1>30. kind \in {"blind", "temporal", "passive", "active", "holdout", "transfer"}
       /\ at \in 1..Len(Book)
  BY DEF ProcessOK, Books
<1>40. Good(Does)
  <2>1. CASE kind = "blind"
    <3>1. at \in 1..8
      BY <1>30, <2>1, BlindBook DEF Book
    <3>. QED
      BY <1>1, <1>2, <1>3, <1>4, <1>5, <1>6, <1>7, <1>8, <2>1, <3>1, BlindBook DEF Does, Book
  <2>2. CASE kind = "temporal"
    <3>1. at \in 1..3
      BY <1>30, <2>2, TemporalBook DEF Book
    <3>. QED
      BY <1>9, <1>10, <1>11, <2>2, <3>1, TemporalBook DEF Does, Book
  <2>3. CASE kind = "passive"
    <3>1. at \in 1..6
      BY <1>30, <2>3, PassiveBook DEF Book
    <3>. QED
      BY <1>12, <1>16, <1>13, <1>14, <1>15, <1>17, <2>3, <3>1, PassiveBook DEF Does, Book
  <2>4. CASE kind = "active"
    <3>1. at \in 1..7
      BY <1>30, <2>4, ActiveBook DEF Book
    <3>. QED
      BY <1>12, <1>18, <1>19, <1>13, <1>14, <1>15, <1>20, <2>4, <3>1, ActiveBook DEF Does, Book
  <2>5. CASE kind = "holdout"
    <3>1. at \in 1..3
      BY <1>30, <2>5, HoldoutBook DEF Book
    <3>. QED
      BY <1>21, <1>22, <1>23, <2>5, <3>1, HoldoutBook DEF Does, Book
  <2>6. CASE kind = "transfer"
    <3>1. at \in 1..3
      BY <1>30, <2>6, TransferBook DEF Book
    <3>. QED
      BY <1>14, <1>15, <1>24, <2>6, <3>1, TransferBook DEF Does, Book
  <2>. QED  BY <1>30, <2>1, <2>2, <2>3, <2>4, <2>5, <2>6
<1>. HIDE DEF Does
<1>. QED  BY <1>40 DEF Good


\* What a tool writes is what a file of that name may hold.
LEMMA WritesLegit ==
  ASSUME ChallengeInv, line > 0, Here[1] = "write"
  PROVE  Legit(Here[2], Content(Here[2]))
<1>1. /\ ProcessOK /\ ContentsInv /\ ReadInv /\ SealInv
      /\ Done = line - 1 /\ line \in 1..Len(Does) /\ fixed \in Seq(SuiteRecords)
  BY ToolFacts DEF ChallengeInv, ProcessOK
<1>2. Does[line][1] = "write" /\ Here = Does[line]
  BY DEF Here
<1>. DEFINE f == Here[2]
<1>3. /\ f # "suite"
      /\ f = "package" => kind = "blind" /\ at = 1 /\ line = 5
      /\ f = "sealed" => kind \in {"passive", "active"} /\ at = 1 /\ line = 4
      /\ f = "commitment" /\ kind = "temporal" => at = 1 /\ line = 6
      /\ f = "commitment" /\ kind = "holdout" => at = 1 /\ line = 6
      /\ f = "predictions" /\ kind = "temporal" => at = 2 /\ line = 6
      /\ f = "truth" => line = 5 /\ Does[3] = Reads("sealed")
      /\ f = "manifest" /\ kind = "holdout" => at = 2 /\ line = 14
  <2>. HIDE DEF Does, Done, Here
  <2>. QED  BY <1>1, <1>2, WhoWrites
<1>. SUFFICES Legit(f, Content(f))
  BY DEF f
<1>. HIDE DEF Done, Does, Here, Content, f
<1>4. ASSUME kind \in {"blind", "temporal", "passive", "active", "holdout"}, at = 1,
             line - 1 >= GeneratedAt[kind]
      PROVE  /\ Len(fixed) \in DOMAIN fixed /\ Fixes = fixed[Len(fixed)]
             /\ Fixes \in Sealed
  <2>1. fixed # <<>> /\ Fixes = fixed[Len(fixed)]
    BY <1>1, <1>4 DEF SealInv, Seals
  <2>. DEFINE S == SuiteRecords
  <2>. HIDE DEF S
  <2>2. fixed \in Seq(S)
    BY <1>1 DEF S
  <2>3. Len(fixed) \in DOMAIN fixed
    BY <2>1, <2>2
  <2>. QED  BY <2>1, <2>3 DEF Sealed
<1>5. /\ f = "package" => 4 >= GeneratedAt[kind]
      /\ f = "sealed" => 3 >= GeneratedAt[kind]
      /\ f = "commitment" /\ kind \in {"temporal", "holdout"} => 5 >= GeneratedAt[kind]
  BY <1>3 DEF GeneratedAt
<1>6. CASE f = "package"
  <2>1. /\ Len(fixed) \in DOMAIN fixed /\ mem["suite"] = fixed[Len(fixed)]
    <3>1. Len(fixed) \in DOMAIN fixed /\ Fixes = fixed[Len(fixed)]
      BY <1>1, <1>3, <1>4, <1>5, <1>6
    <3>. QED  BY <1>3, <1>6, <3>1 DEF Fixes
  <2>2. Content(f) = [public |-> mem["suite"].public, cases |-> mem["suite"].public,
                      answers |-> mem["suite"].truth, cipher |-> Len(fixed)]
    BY <1>6 DEF Content
  <2>3. IsPackage(Content(f))
    BY <2>1, <2>2 DEF IsPackage
  <2>. QED  BY <1>6, <2>3 DEF Legit
<1>7. CASE f = "sealed"
  <2>1. Len(fixed) \in DOMAIN fixed
    BY <1>1, <1>3, <1>4, <1>5, <1>7
  <2>2. Content(f) = Len(fixed)
    BY <1>7 DEF Content
  <2>. QED  BY <1>7, <2>1, <2>2 DEF Legit
<1>8. CASE f = "commitment"
  <2>1. CASE kind = "temporal"
    <3>1. mem["suite"] \in Sealed
      <4>1. Fixes \in Sealed
        BY <1>1, <1>3, <1>4, <1>5, <1>8, <2>1
      <4>. QED  BY <2>1, <4>1 DEF Fixes
    <3>2. Content(f) = [public |-> mem["suite"].public, answers |-> mem["suite"]]
      BY <1>8, <2>1 DEF Content
    <3>. QED  BY <1>8, <2>1, <3>1, <3>2 DEF Legit
  <2>2. CASE kind = "holdout"
    <3>1. Built[mem["suite"].public] \in Sealed
      <4>1. Fixes \in Sealed
        BY <1>1, <1>3, <1>4, <1>5, <1>8, <2>2
      <4>. QED  BY <2>2, <4>1 DEF Fixes
    <3>2. Content(f) = HoldoutCommitment
      BY <1>8, <2>2 DEF Content
    <3>3. Content(f).cases = Built[mem["suite"].public]
      BY <3>2 DEF HoldoutCommitment
    <3>. QED  BY <1>8, <2>2, <3>1, <3>3 DEF Legit
  <2>3. CASE kind \notin {"temporal", "holdout"}
    BY <1>8, <2>3 DEF Legit
  <2>. QED  BY <2>1, <2>2, <2>3
<1>9. CASE f = "predictions"
  <2>1. CASE kind = "temporal"
    <3>1. /\ at = 2 /\ line = 6 /\ Done = 5
      BY <1>1, <1>3, <1>9, <2>1
    <3>2. /\ ~Disturbed("code", {"predict"}) => code = Algorithm[bytes["commit"]]
          /\ ~Disturbed("public", {"predict"}) => mem["public"] = bytes["public"]
      BY <1>1, <2>1, <3>1 DEF ChallengeInv, TemporalPredictInv, Running
    <3>3. Content(f) = [public |-> bytes["public"], cases |-> mem["public"],
                        commit |-> bytes["commit"], says |-> Predict(code, mem["public"])]
      BY <1>9, <2>1 DEF Content
    <3>4. PredictionsHold(Content(f))
      BY <3>2, <3>3 DEF PredictionsHold
    <3>. QED  BY <1>9, <3>4 DEF Legit
  <2>2. CASE kind # "temporal"
    BY <1>9, <2>2 DEF Legit
  <2>. QED  BY <2>1, <2>2
<1>10. CASE f = "truth"
  <2>1. 3 \in 1..Done /\ Does[3][1] = "read" /\ Does[3][2] = "sealed"
    BY <1>1, <1>3, <1>10 DEF Reads
  <2>2. "sealed" \in DOMAIN mem
    BY <1>1, <2>1, ReadSoFar
  <2>3. Legit("sealed", mem["sealed"])
    BY <1>1, <2>2 DEF ContentsInv
  <2>4. mem["sealed"] \in DOMAIN fixed
    BY <2>3 DEF Legit
  <2>5. Content(f) = fixed[mem["sealed"]]
    BY <1>10 DEF Content
  <2>. QED  BY <1>10, <2>4, <2>5 DEF Legit, Sealed
<1>11. CASE f = "summary"
  <2>1. Content(f) = Summary
    BY <1>11 DEF Content
  <2>2. IsSummary(Content(f))
    BY <2>1 DEF Summary, IsSummary
  <2>. QED  BY <1>11, <2>2 DEF Legit
<1>12. CASE f = "manifest"
  <2>1. CASE kind = "holdout"
    <3>1. at = 2 /\ line = 14 /\ Done = 13
      BY <1>1, <1>3, <1>12, <2>1
    <3>2. /\ IsSummary(disk["summary"]) /\ SummaryHolds(disk["summary"])
          /\ ~Disturbed("suite", {"predict"}) =>
               Built[disk["provenance"].suite.public] = disk["summary"].cases
      BY <1>1, <2>1, <3>1 DEF ChallengeInv, HoldoutPredictInv, Running
    <3>3. Content(f) = [files |-> [g \in {"records", "summary", "provenance"} |-> disk[g]]]
      BY <1>12, <2>1 DEF Content
    <3>4. /\ DOMAIN Content(f).files = {"records", "summary", "provenance"}
          /\ Content(f).files["summary"] = disk["summary"]
          /\ Content(f).files["provenance"] = disk["provenance"]
      BY <3>3
    <3>5. IsManifest(Content(f))
      BY <2>1, <3>2, <3>4 DEF IsManifest, ManifestFiles
    <3>. QED  BY <1>12, <3>5 DEF Legit
  <2>2. CASE kind = "blind"
    <3>1. Content(f) = [files |-> [g \in {"frozen", "package", "key", "score"} |-> mem[g]],
                        commit |-> head]
      BY <1>12, <2>2 DEF Content
    <3>2. IsManifest(Content(f))
      BY <2>2, <3>1 DEF IsManifest, ManifestFiles
    <3>. QED  BY <1>12, <3>2 DEF Legit
  <2>3. CASE kind \notin {"blind", "holdout"}
    <3>1. Content(f) = [files |-> [g \in {"result", "core"} |-> mem[g]], commit |-> head]
      BY <1>12, <2>3 DEF Content
    <3>2. IsManifest(Content(f))
      BY <2>3, <3>1 DEF IsManifest, ManifestFiles
    <3>. QED  BY <1>12, <3>2 DEF Legit
  <2>. QED  BY <2>1, <2>2, <2>3
<1>13. CASE f \notin {"package", "sealed", "commitment", "predictions", "truth", "summary", "manifest"}
  BY <1>3, <1>13 DEF Legit
<1>. QED
  BY <1>6, <1>7, <1>8, <1>9, <1>10, <1>11, <1>12, <1>13

\* What a file is replaced by, too.
LEMMA EditsLegit ==
  ASSUME ProcessOK, Grows, UNCHANGED <<fixed>>, NEW f \in FileNames, Legit(f, disk[f]),
         disk'[f] \in Others(f), Disturbed(f, AnyTool)'
  PROVE  Legit(f, disk[f])'
<1>1. f = "suite" => disk'[f] \in SuiteRecords
  <2>1. Others("suite") = Suites
    BY DEF Others
  <2>. HIDE DEF Others
  <2>. QED  BY <2>1, SuitesAssumption
<1>2. f = "package" => IsPackage(disk[f])'
  <2>. SUFFICES ASSUME f = "package"
                PROVE  IsPackage(disk["package"])'
    OBVIOUS
  <2>. DEFINE c == disk["package"]
  <2>1. \/ \E p : disk'["package"] = [c EXCEPT !.public = p]
        \/ \E p : disk'["package"] = [c EXCEPT !.public = p, !.cases = p]
        \/ \E t : disk'["package"] = [c EXCEPT !.answers = t]
    <3>1. Others("package")
            = {[c EXCEPT !.public = p] : p \in Substitutes}
                \cup {[c EXCEPT !.public = p, !.cases = p] : p \in Substitutes}
                \cup {[c EXCEPT !.answers = t] : t \in {"t1", "t2"}}
      BY DEF Others
    <3>. HIDE DEF Others, c
    <3>. QED  BY <3>1
  <2>2. /\ c = [public |-> c.public, cases |-> c.cases, answers |-> c.answers, cipher |-> c.cipher]
        /\ c.cipher \in DOMAIN fixed
    BY DEF Legit, IsPackage
  <2>3. \A p, q, a, n, x :
          /\ [[public |-> p, cases |-> q, answers |-> a, cipher |-> n] EXCEPT !.public = x]
               = [public |-> x, cases |-> q, answers |-> a, cipher |-> n]
          /\ [[public |-> p, cases |-> q, answers |-> a, cipher |-> n] EXCEPT !.cases = x]
               = [public |-> p, cases |-> x, answers |-> a, cipher |-> n]
          /\ [[public |-> p, cases |-> q, answers |-> a, cipher |-> n] EXCEPT !.answers = x]
               = [public |-> p, cases |-> q, answers |-> x, cipher |-> n]
    OBVIOUS
  <2>. HIDE DEF c
  <2>4. \E p, k, t :
          disk'["package"] = [public |-> p, cases |-> k, answers |-> t, cipher |-> c.cipher]
    <3>1. CASE \E p : disk'["package"] = [c EXCEPT !.public = p]
      <4>1. PICK p : disk'["package"] = [c EXCEPT !.public = p]
        BY <3>1
      <4>2. [c EXCEPT !.public = p]
              = [public |-> p, cases |-> c.cases, answers |-> c.answers, cipher |-> c.cipher]
        BY <2>2, <2>3
      <4>. QED  BY <4>1, <4>2
    <3>2. CASE \E p : disk'["package"] = [c EXCEPT !.public = p, !.cases = p]
      <4>1. PICK p : disk'["package"] = [c EXCEPT !.public = p, !.cases = p]
        BY <3>2
      <4>2. [c EXCEPT !.public = p, !.cases = p] = [[c EXCEPT !.public = p] EXCEPT !.cases = p]
        OBVIOUS
      <4>3. [c EXCEPT !.public = p]
              = [public |-> p, cases |-> c.cases, answers |-> c.answers, cipher |-> c.cipher]
        BY <2>2, <2>3
      <4>4. [[public |-> p, cases |-> c.cases, answers |-> c.answers, cipher |-> c.cipher]
               EXCEPT !.cases = p]
              = [public |-> p, cases |-> p, answers |-> c.answers, cipher |-> c.cipher]
        BY <2>3
      <4>. QED  BY <4>1, <4>2, <4>3, <4>4
    <3>3. CASE \E t : disk'["package"] = [c EXCEPT !.answers = t]
      <4>1. PICK t : disk'["package"] = [c EXCEPT !.answers = t]
        BY <3>3
      <4>2. [c EXCEPT !.answers = t]
              = [public |-> c.public, cases |-> c.cases, answers |-> t, cipher |-> c.cipher]
        BY <2>2, <2>3
      <4>. QED  BY <4>1, <4>2
    <3>. QED  BY <2>1, <3>1, <3>2, <3>3
  <2>5. PICK p, k, t :
          disk'["package"] = [public |-> p, cases |-> k, answers |-> t, cipher |-> c.cipher]
    BY <2>4
  <2>6. Disturbed("package", AnyTool)'
    OBVIOUS
  <2>. HIDE DEF Disturbed, AnyTool
  <2>. QED  BY <2>2, <2>5, <2>6 DEF IsPackage
<1>3. f \in {"commitment", "sealed", "truth"} => FALSE
  <2>1. Others("commitment") = {} /\ Others("sealed") = {} /\ Others("truth") = {}
    BY DEF Others
  <2>. HIDE DEF Others
  <2>. QED  BY <2>1
<1>4. f = "predictions" => PredictionsHold(disk[f])'
  <2>. HIDE DEF AnyTool
  <2>. QED  BY DEF PredictionsHold
<1>5. f = "summary" => IsSummary(disk[f])'
  <2>. SUFFICES ASSUME f = "summary"
                PROVE  IsSummary(disk["summary"])'
    OBVIOUS
  <2>1. disk'["summary"] = [disk["summary"] EXCEPT !.decision = "PASS"]
    <3>1. Others("summary") = {[disk["summary"] EXCEPT !.decision = "PASS"]}
      BY DEF Others
    <3>. HIDE DEF Others
    <3>. QED  BY <3>1
  <2>2. \E s, a, d : disk["summary"] = [cases |-> s, says |-> a, decision |-> d]
    BY DEF Legit, IsSummary
  <2>3. PICK s, a, d : disk["summary"] = [cases |-> s, says |-> a, decision |-> d]
    BY <2>2
  <2>4. [[cases |-> s, says |-> a, decision |-> d] EXCEPT !.decision = "PASS"]
          = [cases |-> s, says |-> a, decision |-> "PASS"]
    OBVIOUS
  <2>5. disk'["summary"] = [cases |-> s, says |-> a, decision |-> "PASS"]
    BY <2>1, <2>3, <2>4
  <2>. QED  BY <2>5 DEF IsSummary
<1>6. f = "manifest" => IsManifest(disk[f])'
  <2>. SUFFICES ASSUME f = "manifest"
                PROVE  IsManifest(disk["manifest"])'
    OBVIOUS
  <2>1. kind' = kind /\ IsManifest(disk["manifest"])
    BY DEF Grows, Legit
  <2>2. CASE kind = "holdout"
    <3>1. Others("manifest") = {}
      BY <2>2 DEF Others
    <3>. HIDE DEF Others
    <3>. QED  BY <3>1
  <2>3. CASE kind # "holdout"
    <3>1. Others("manifest") = {[disk["manifest"] EXCEPT !.commit = k] : k \in DOMAIN Algorithm}
      BY <2>3 DEF Others
    <3>2. PICK k : disk'["manifest"] = [disk["manifest"] EXCEPT !.commit = k]
      <4>. HIDE DEF Others
      <4>. QED  BY <3>1
    <3>3. \E s, h : disk["manifest"] = [files |-> s, commit |-> h] /\ DOMAIN s = ManifestFiles
      BY <2>1, <2>3 DEF IsManifest
    <3>4. PICK s, h : disk["manifest"] = [files |-> s, commit |-> h] /\ DOMAIN s = ManifestFiles
      BY <3>3
    <3>5. [[files |-> s, commit |-> h] EXCEPT !.commit = k] = [files |-> s, commit |-> k]
      OBVIOUS
    <3>6. disk'["manifest"] = [files |-> s, commit |-> k]
      BY <3>2, <3>4, <3>5
    <3>7. ManifestFiles' = ManifestFiles
      BY <2>1 DEF ManifestFiles
    <3>. HIDE DEF ManifestFiles
    <3>. QED  BY <2>1, <2>3, <3>4, <3>6, <3>7 DEF IsManifest
  <2>. QED  BY <2>2, <2>3
<1>. HIDE DEF Others, FileNames
<1>. QED  BY <1>1, <1>2, <1>3, <1>4, <1>5, <1>6 DEF Legit


LEMMA DuringIsTool ==
  ASSUME ProcessOK
  PROVE  During \in AnyTool
<1>1. DOMAIN Book = 1..Len(Book) /\ at \in 1..Len(Book)
  BY BookLength DEF ProcessOK, Book
<1>. HIDE DEF Book
<1>. QED  BY <1>1 DEF During, AnyTool

LEMMA ContentsStep ==
  ASSUME ChallengeInv, [ChallengeNext]_challengeVars
  PROVE  ContentsInv'
<1>1. /\ ProcessOK /\ ContentsInv /\ ReadInv /\ DOMAIN disk = FileNames
      /\ \A f \in FileNames : disk[f] \notin {Absent, Torn} => Legit(f, disk[f])
      /\ \A f \in DOMAIN mem : Legit(f, mem[f])
  BY DEF ChallengeInv, ProcessOK, ContentsInv
<1>2. DOMAIN <<>> = {}
  OBVIOUS
<1>3. SUFFICES /\ \A f \in FileNames : disk'[f] \notin {Absent, Torn} => Legit(f, disk[f])'
               /\ \A f \in DOMAIN mem' : Legit(f, mem[f])'
  BY DEF ContentsInv
<1>4. CASE Statement
  <2>1. /\ line > 0
        /\ \/ disk' = disk
           \/ Here[1] = "write" /\ disk' = [disk EXCEPT ![Here[2]] = Content(Here[2])]
        /\ \A f \in DOMAIN mem' :
             \/ f \in DOMAIN mem /\ mem'[f] = mem[f]
             \/ Here[1] = "read" /\ f = Here[2] /\ mem'[f] = disk[f] /\ disk[f] \notin {Absent, Torn}
             \/ Here[1] = "write" /\ f = Here[2] /\ mem'[f] = Content(f)
    <3>. HIDE DEF Here, Content
    <3>. QED  BY <1>1, <1>4, StatementIs
  <2>2. Grows
    BY <1>1, <1>4, StatementGrows
  <2>3. \A f, c : Legit(f, c) => Legit(f, c)'
    BY <2>2, LegitGrows
  <2>4. Here[1] = "write" => Legit(Here[2], Content(Here[2]))
    BY <2>1, WritesLegit
  <2>5. Here[1] = "read" => Here[2] \in FileNames
    <3>1. line \in 1..Len(Does) /\ Here = Does[line]
      BY <1>1, <2>1, ToolFacts DEF Here
    <3>. HIDE DEF Here, Does, FileNames
    <3>. QED  BY <1>1, <3>1, ReadsFiles
  <2>. HIDE DEF Here, Content, Legit, FileNames
  <2>6. ASSUME NEW f \in FileNames, disk'[f] \notin {Absent, Torn}
        PROVE  Legit(f, disk[f])'
    <3>1. CASE disk'[f] = disk[f]
      BY <1>1, <2>3, <2>6, <3>1
    <3>2. CASE Here[1] = "write" /\ f = Here[2] /\ disk'[f] = Content(f)
      BY <2>3, <2>4, <3>2
    <3>. QED  BY <1>1, <2>1, <3>1, <3>2
  <2>7. ASSUME NEW f \in DOMAIN mem'
        PROVE  Legit(f, mem[f])'
    <3>1. CASE f \in DOMAIN mem /\ mem'[f] = mem[f]
      BY <1>1, <2>3, <3>1
    <3>2. CASE Here[1] = "read" /\ f = Here[2] /\ mem'[f] = disk[f] /\ disk[f] \notin {Absent, Torn}
      BY <1>1, <2>3, <2>5, <3>2
    <3>3. CASE Here[1] = "write" /\ f = Here[2] /\ mem'[f] = Content(f)
      BY <2>3, <2>4, <3>3
    <3>. QED  BY <2>1, <3>1, <3>2, <3>3
  <2>. QED  BY <2>6, <2>7
<1>5. CASE Stands /\ (Edit \/ Lose \/ EditCode \/ StopAdapter \/ UNCHANGED challengeVars)
  <2>1. kind' = kind
    BY <1>1, ChallengeStepsAre
  <2>2. UNCHANGED <<mem, fixed>>
    BY <1>5 DEF Stands
  <2>3. /\ edited \subseteq edited'
        /\ \A f \in FileNames : disk'[f] = disk[f] \/ <<f, During>> \in edited'
        /\ \A f \in FileNames : \/ disk'[f] = disk[f]
                                \/ f \in {"key", "frozen", "answers", "records"} /\ disk'[f] = Absent
                                \/ disk[f] \notin {Absent, Torn} /\ disk'[f] \in Others(f)
    BY <1>1, <1>5, <2>1, StandsIs
  <2>4. Grows
    BY <2>1, <2>2, <2>3 DEF Grows
  <2>5. \A f, c : Legit(f, c) => Legit(f, c)'
    BY <2>4, LegitGrows
  <2>6. During \in AnyTool /\ AnyTool' = AnyTool
    BY <1>1, <2>1, DuringIsTool DEF AnyTool, Book
  <2>. HIDE DEF Legit, FileNames, Others, During, AnyTool
  <2>7. ASSUME NEW f \in FileNames, disk'[f] \notin {Absent, Torn}
        PROVE  Legit(f, disk[f])'
    <3>1. CASE disk'[f] = disk[f]
      BY <1>1, <2>5, <2>7, <3>1
    <3>2. CASE disk'[f] # disk[f]
      <4>1. disk[f] \notin {Absent, Torn} /\ disk'[f] \in Others(f) /\ <<f, During>> \in edited'
        BY <2>3, <2>7, <3>2
      <4>2. Disturbed(f, AnyTool)'
        BY <2>6, <4>1 DEF Disturbed
      <4>3. Legit(f, disk[f])
        BY <1>1, <4>1
      <4>. QED  BY <1>1, <2>2, <2>4, <4>1, <4>2, <4>3, EditsLegit
    <3>. QED  BY <3>1, <3>2
  <2>8. ASSUME NEW f \in DOMAIN mem'
        PROVE  Legit(f, mem[f])'
    BY <1>1, <2>2, <2>5
  <2>. QED  BY <2>7, <2>8
<1>6. CASE StartTool \/ Jump \/ Kill \/ KillInWrite
  <2>1. /\ kind' = kind /\ fixed' = fixed /\ edited \subseteq edited'
        /\ \A f \in FileNames : disk'[f] \in {disk[f], Absent, Torn}
        /\ mem' \in {mem, <<>>}
    <3>1. kind' = kind
      BY <1>1, ChallengeStepsAre
    <3>2. CASE StartTool
      BY <3>1, <3>2 DEF StartTool, Setting, outside, Begin
    <3>3. CASE Jump
      <4>1. PICK t \in DOMAIN Book, again \in BOOLEAN :
              /\ Begin(t)
              /\ disk' = IF again THEN [f \in FileNames |-> IF f \in Outputs(t) THEN Absent ELSE disk[f]]
                         ELSE disk
        BY <3>3 DEF Jump
      <4>2. Disturb("order")
        BY <3>3 DEF Jump
      <4>. HIDE DEF FileNames, Outputs
      <4>3. \A f \in FileNames : disk'[f] \in {disk[f], Absent, Torn}
        BY <4>1
      <4>. QED  BY <3>1, <4>1, <4>2, <4>3 DEF Begin, Disturb
    <3>4. CASE Kill
      BY <3>1, <3>4 DEF Kill, Disturb
    <3>5. CASE KillInWrite
      <4>. HIDE DEF FileNames
      <4>1. disk' = [disk EXCEPT ![Arg] = Torn] /\ Disturb("process") /\ mem' = <<>>
        BY <3>5 DEF KillInWrite
      <4>. QED  BY <1>1, <3>1, <4>1 DEF Disturb
    <3>. QED  BY <1>6, <3>2, <3>3, <3>4, <3>5
  <2>2. \A f, c : Legit(f, c) => Legit(f, c)'
    BY <2>1, LegitGrows DEF Grows
  <2>. HIDE DEF Legit, FileNames
  <2>3. ASSUME NEW f \in FileNames, disk'[f] \notin {Absent, Torn}
        PROVE  Legit(f, disk[f])'
    BY <1>1, <2>1, <2>2, <2>3
  <2>4. ASSUME NEW f \in DOMAIN mem'
        PROVE  Legit(f, mem[f])'
    BY <1>1, <1>2, <2>1, <2>2, <2>4
  <2>. QED  BY <2>3, <2>4
<1>. QED  BY <1>1, <1>4, <1>5, <1>6, ChallengeStepsAre

LEMMA ProcessStep ==
  ASSUME ChallengeInv, [ChallengeNext]_challengeVars
  PROVE  ProcessOK'
<1>1. /\ ProcessOK /\ ContentsInv /\ ReadInv
      /\ kind \in DOMAIN Books /\ at \in 1..Len(Book) /\ line \in 0..Len(Does)
      /\ status \in {"ready", "failed", "accepted"} /\ (line > 0 => status = "ready")
      /\ status = "accepted" => at = Len(Book) /\ line = 0
      /\ DOMAIN disk = FileNames /\ fixed \in Seq(SuiteRecords)
  BY DEF ChallengeInv, ProcessOK
<1>2. kind' = kind /\ Book' = Book
  BY <1>1, ChallengeStepsAre DEF Book
<1>3. /\ Len(Does) \in Nat /\ Len(Book) \in Nat
      /\ \A t \in 1..Len(Book) : Len(Book[t].does) \in Nat /\ Len(Book[t].does) >= 2
  BY <1>1, ToolFacts, ToolsAre DEF IsTool, Book
<1>4. DOMAIN disk' = FileNames /\ fixed' \in Seq(SuiteRecords)
  <2>1. CASE Statement
    <3>1. disk' = disk \/ disk' = [disk EXCEPT ![Here[2]] = Content(Here[2])]
      <4>. HIDE DEF Here, Content
      <4>. QED  BY <1>1, <2>1, StatementIs
    <3>2. fixed' \in Seq(SuiteRecords)
      BY <1>1, <2>1, StatementGrows
    <3>. HIDE DEF FileNames
    <3>. QED  BY <1>1, <3>1, <3>2
  <2>2. CASE Stands /\ (Edit \/ Lose \/ EditCode \/ StopAdapter \/ UNCHANGED challengeVars)
    <3>1. DOMAIN disk' = FileNames
      BY <1>1, <1>2, <2>2, StandsIs
    <3>2. fixed' = fixed
      BY <2>2 DEF Stands
    <3>. QED  BY <1>1, <3>1, <3>2
  <2>3. CASE StartTool \/ Jump \/ Kill \/ KillInWrite
    <3>. HIDE DEF FileNames
    <3>1. fixed' = fixed
      BY <2>3 DEF StartTool, Jump, Kill, KillInWrite, Disturb
    <3>2. DOMAIN disk' = FileNames
      BY <1>1, <2>3 DEF StartTool, Jump, Kill, KillInWrite
    <3>. QED  BY <1>1, <3>1, <3>2
  <2>. QED  BY <1>1, <2>1, <2>2, <2>3, ChallengeStepsAre
<1>5. CASE Advances
  <2>1. Does' = Does /\ at' = at
    BY <1>2, <1>5 DEF Does, Advances
  <2>. HIDE DEF Does, Book, FileNames
  <2>2. line' \in 0..Len(Does') /\ status' \in {"ready", "failed", "accepted"}
        /\ (line' > 0 => status' = "ready") /\ (status' = "accepted" => at' = Len(Book) /\ line' = 0)
    BY <1>1, <1>3, <1>5, <2>1 DEF Advances
  <2>. QED  BY <1>1, <1>2, <1>4, <2>1, <2>2 DEF ProcessOK
<1>6. CASE Stands
  <2>1. Does' = Does /\ UNCHANGED <<at, line, status>>
    BY <1>2, <1>6 DEF Does, Stands
  <2>. HIDE DEF Does, Book, FileNames
  <2>. QED  BY <1>1, <1>2, <1>4, <2>1 DEF ProcessOK
<1>7. CASE Begins \/ Stops
  <2>1. /\ at' \in 1..Len(Book) /\ line' \in {0, 1} /\ status' \in {"ready", "failed"}
        /\ (line' > 0 => status' = "ready")
    BY <1>7 DEF Begins, Stops
  <2>2. Does' = Book[at'].does
    BY <1>2 DEF Does
  <2>. HIDE DEF Does, Book, FileNames
  <2>3. line' \in 0..Len(Does')
    BY <1>3, <2>1, <2>2
  <2>. QED  BY <1>1, <1>2, <1>4, <2>1, <2>3 DEF ProcessOK
<1>. QED  BY <1>1, <1>5, <1>6, <1>7, ChallengeStepsAre


-----------------------------------------------------------------------------
(* The invariant.                                                           *)

LEMMA ChallengeInitIs ==
  ASSUME ChallengeInit
  PROVE  ChallengeInv
<1>1. PICK s \in Scenarios :
        /\ kind = s.kind
        /\ disk = [f \in FileNames |-> IF f \in DOMAIN Given(s.kind, s.suite)
                                       THEN Given(s.kind, s.suite)[f] ELSE Absent]
  BY DEF ChallengeInit
<1>2. /\ at = 1 /\ line = 0 /\ mem = <<>> /\ fixed = <<>> /\ status = "ready"
  BY DEF ChallengeInit
<1>3. kind \in DOMAIN Books /\ s.suite \in SuiteRecords
  BY <1>1, ScenariosAssumption
<1>4. /\ at \in 1..Len(Book) /\ line \in 0..Len(Does)
  <2>1. Len(Book) \in Nat /\ Len(Book) >= 3
    BY <1>3, BookLength DEF Book
  <2>2. at \in 1..Len(Book)
    BY <1>2, <2>1
  <2>3. IsTool(Does)
    BY <1>3, <2>2, ToolsAre DEF Does, Book
  <2>. HIDE DEF Does
  <2>. QED  BY <1>2, <2>2, <2>3 DEF IsTool
<1>5. ProcessOK
  <2>1. DOMAIN disk = FileNames
    BY <1>1
  <2>2. fixed \in Seq(SuiteRecords)
    BY <1>2
  <2>. HIDE DEF Does, Book, FileNames
  <2>. QED  BY <1>2, <1>3, <1>4, <2>1, <2>2 DEF ProcessOK
<1>6. Done = 0
  BY <1>2 DEF Done
<1>7. ContentsInv
  <2>1. DOMAIN mem = {}
    BY <1>2
  <2>2. /\ DOMAIN Given(s.kind, s.suite) \subseteq {"suite", "protocol", "core", "result"}
        /\ "suite" \in DOMAIN Given(s.kind, s.suite) => Given(s.kind, s.suite)["suite"] = s.suite
    <3>1. s.kind \in {"blind", "temporal", "passive", "active", "holdout", "transfer"}
      BY <1>1, <1>3 DEF Books
    <3>2. CASE s.kind \in {"blind", "temporal", "holdout"}
      <4>1. Given(s.kind, s.suite) = [suite |-> s.suite, protocol |-> "strict"]
        BY <3>2 DEF Given
      <4>. QED  BY <4>1
    <3>3. CASE s.kind \in {"passive", "active"}
      <4>1. Given(s.kind, s.suite) = [suite |-> s.suite, core |-> "full"]
        BY <3>3 DEF Given
      <4>. QED  BY <4>1
    <3>4. CASE s.kind = "transfer"
      <4>1. Given(s.kind, s.suite)
              = [core |-> "full", result |-> [core |-> "full", says |-> s.suite.truth]]
        BY <3>4 DEF Given
      <4>2. DOMAIN Given(s.kind, s.suite) = {"core", "result"}
        BY <4>1
      <4>. QED  BY <4>2
    <3>. QED  BY <3>1, <3>2, <3>3, <3>4
  <2>. HIDE DEF Given
  <2>3. ASSUME NEW f \in FileNames, disk[f] \notin {Absent, Torn}
        PROVE  Legit(f, disk[f])
    <3>1. f \in {"suite", "protocol", "core", "result"} /\ (f = "suite" => disk[f] = s.suite)
      <4>. HIDE DEF FileNames
      <4>. QED  BY <1>1, <2>2, <2>3
    <3>. QED  BY <1>3, <3>1 DEF Legit
  <2>. HIDE DEF FileNames
  <2>. QED  BY <2>1, <2>3 DEF ContentsInv
<1>8. ReadInv
  <2>. HIDE DEF Done, Does
  <2>. QED  BY <1>6 DEF ReadInv
<1>9. SealInv
  <2>1. \A k \in Seals : ~(0 >= GeneratedAt[k])
    BY DEF Seals, GeneratedAt
  <2>. HIDE DEF Done
  <2>. QED  BY <1>6, <2>1 DEF SealInv
<1>10. /\ ~VerifierRuns /\ \A k, t : ~Running(k, t)
  BY <1>2 DEF VerifierRuns, Running
<1>11. /\ TemporalPredictInv /\ HoldoutPredictInv /\ BlindVerifyInv /\ TemporalVerifyInv
       /\ PassiveVerifyInv /\ ActiveVerifyInv /\ HoldoutVerifyInv /\ TransferVerifyInv
  BY <1>10 DEF TemporalPredictInv, HoldoutPredictInv, BlindVerifyInv, TemporalVerifyInv,
     PassiveVerifyInv, ActiveVerifyInv, HoldoutVerifyInv, TransferVerifyInv
<1>12. BundleInv
  BY <1>10 DEF BundleInv
<1>. QED
  BY <1>5, <1>7, <1>8, <1>9, <1>11, <1>12 DEF ChallengeInv

LEMMA ChallengeStep ==
  ASSUME ChallengeInv, [ChallengeNext]_challengeVars
  PROVE  ChallengeInv'
<1>1. /\ ProcessOK /\ ContentsInv /\ ReadInv /\ SealInv /\ BundleInv
  BY DEF ChallengeInv
<1>2. ProcessOK' /\ ContentsInv'
  BY ProcessStep, ContentsStep
<1>3. kind' = kind
  BY <1>1, ChallengeStepsAre
<1>4. CASE Statement /\ Advances
  <2>1. Goes
    BY <1>1, <1>3, <1>4, GoesIs
  <2>2. ReadInv' /\ SealInv' /\ BundleInv'
    BY <1>1, <2>1, ReadGoes, SealGoes, BundleGoes
  <2>3. TemporalPredictInv' /\ TemporalVerifyInv' /\ HoldoutPredictInv' /\ HoldoutVerifyInv'
    BY <2>1, TemporalPredictGoes, TemporalVerifyGoes, HoldoutPredictGoes, HoldoutVerifyGoes
  <2>4. BlindVerifyInv' /\ PassiveVerifyInv' /\ ActiveVerifyInv' /\ TransferVerifyInv'
    BY <2>1, BlindVerifyGoes, PassiveVerifyGoes, ActiveVerifyGoes, TransferVerifyGoes
  <2>. QED  BY <1>2, <2>2, <2>3, <2>4 DEF ChallengeInv
<1>5. ASSUME \/ StartsOver /\ work' = work
             \/ Stands /\ (Edit \/ Lose \/ EditCode \/ StopAdapter \/ UNCHANGED challengeVars)
      PROVE  ChallengeInv'
  <2>1. Stands => Done' = Done
    <3>1. ASSUME Stands
          PROVE  Done' = Done
      BY <1>3, <3>1 DEF Stands, Done, Does, Book
    <3>. QED  BY <3>1
  <2>2. ReadInv' /\ SealInv' /\ BundleInv'
    BY <1>1, <1>3, <1>5, ReadStays, SealStays, BundleStays
  <2>3. TemporalPredictInv' /\ TemporalVerifyInv' /\ HoldoutPredictInv' /\ HoldoutVerifyInv'
    BY <1>3, <1>5, TemporalPredictStays, TemporalVerifyStays, HoldoutPredictStays,
       HoldoutVerifyStays
  <2>4. BlindVerifyInv' /\ PassiveVerifyInv' /\ ActiveVerifyInv' /\ TransferVerifyInv'
    BY <1>3, <1>5, <2>1, BlindVerifyStays, PassiveVerifyStays, ActiveVerifyStays,
       TransferVerifyStays
  <2>. QED  BY <1>2, <2>2, <2>3, <2>4 DEF ChallengeInv
<1>6. CASE Begins /\ (StartTool \/ Jump)
  <2>1. work' = work
    BY <1>6 DEF StartTool, Setting, outside, Jump
  <2>. QED  BY <1>3, <1>5, <1>6, <2>1, StartsOverIs
<1>7. CASE Stops /\ (Statement \/ StartTool \/ Kill \/ KillInWrite)
  <2>1. work' = work
    <3>1. CASE Statement
      BY <1>1, <3>1, StatementIs
    <3>2. CASE StartTool \/ Kill \/ KillInWrite
      BY <3>2 DEF StartTool, Setting, outside, Kill, KillInWrite
    <3>. QED  BY <1>7, <3>1, <3>2
  <2>. QED  BY <1>3, <1>5, <1>7, <2>1, StartsOverIs
<1>. QED  BY <1>1, <1>4, <1>5, <1>6, <1>7, ChallengeStepsAre

\* When the last tool has accepted, all its statements are behind it.
LEMMA AcceptedIs ==
  ASSUME ChallengeInv, Accepted
  PROVE  /\ at = Len(Book) /\ VerifierRuns /\ Done = Len(Does) /\ Running(kind, at)
         /\ kind \in {"blind", "temporal", "passive", "active", "holdout", "transfer"}
         /\ kind = "blind" => at = 8 /\ Does = BlindVerify /\ Done = 17
         /\ kind = "temporal" => at = 3 /\ Does = TemporalVerify /\ Done = 11
         /\ kind = "passive" => at = 6 /\ Does = PassiveVerify /\ Done = 15
         /\ kind = "active" => at = 7 /\ Does = ActiveVerify /\ Done = 16
         /\ kind = "holdout" => at = 3 /\ Does = HoldoutVerify /\ Done = 6
         /\ kind = "transfer" => at = 3 /\ Does = TransferVerify /\ Done = 5
<1>1. at = Len(Book) /\ status = "accepted" /\ kind \in DOMAIN Books
  BY DEF ChallengeInv, ProcessOK, Accepted
<1>2. Done = Len(Does) /\ VerifierRuns /\ Running(kind, at)
  BY <1>1 DEF Done, VerifierRuns, Running
<1>3. kind \in {"blind", "temporal", "passive", "active", "holdout", "transfer"}
  BY <1>1 DEF Books
<1>4. kind = "blind" => at = 8 /\ Does = BlindVerify /\ Len(Does) = 17
  <2>1. kind = "blind" => at = 8 /\ Does = BlindVerify
    BY <1>1, BlindBook DEF Does, Book
  <2>. QED  BY <2>1 DEF BlindVerify
<1>5. kind = "temporal" => at = 3 /\ Does = TemporalVerify /\ Len(Does) = 11
  <2>1. kind = "temporal" => at = 3 /\ Does = TemporalVerify
    BY <1>1, TemporalBook DEF Does, Book
  <2>. QED  BY <2>1 DEF TemporalVerify
<1>6. kind = "passive" => at = 6 /\ Does = PassiveVerify /\ Len(Does) = 15
  <2>1. kind = "passive" => at = 6 /\ Does = PassiveVerify
    BY <1>1, PassiveBook DEF Does, Book
  <2>. QED  BY <2>1 DEF PassiveVerify
<1>7. kind = "active" => at = 7 /\ Does = ActiveVerify /\ Len(Does) = 16
  <2>1. kind = "active" => at = 7 /\ Does = ActiveVerify
    BY <1>1, ActiveBook DEF Does, Book
  <2>. QED  BY <2>1 DEF ActiveVerify
<1>8. kind = "holdout" => at = 3 /\ Does = HoldoutVerify /\ Len(Does) = 6
  <2>1. kind = "holdout" => at = 3 /\ Does = HoldoutVerify
    BY <1>1, HoldoutBook DEF Does, Book
  <2>. QED  BY <2>1 DEF HoldoutVerify
<1>9. kind = "transfer" => at = 3 /\ Does = TransferVerify /\ Len(Does) = 5
  <2>1. kind = "transfer" => at = 3 /\ Does = TransferVerify
    BY <1>1, TransferBook DEF Does, Book
  <2>. QED  BY <2>1 DEF TransferVerify
<1>. HIDE DEF Does, Done, Book
<1>. QED  BY <1>1, <1>2, <1>3, <1>4, <1>5, <1>6, <1>7, <1>8, <1>9

LEMMA ReadByAccepted ==
  ASSUME ChallengeInv, Accepted, NEW i \in 1..Len(Does), Does[i][1] = "read"
  PROVE  Does[i][2] \in DOMAIN mem /\ Legit(Does[i][2], mem[Does[i][2]])
<1>1. i \in 1..Done /\ ReadInv /\ ContentsInv
  <2>1. Done = Len(Does)
    BY AcceptedIs
  <2>. HIDE DEF Done, Does
  <2>. QED  BY <2>1 DEF ChallengeInv
<1>. HIDE DEF Done, Does
<1>2. Does[i][2] \in DOMAIN mem
  BY <1>1, ReadSoFar
<1>. QED  BY <1>1, <1>2 DEF ContentsInv

LEMMA BlindEarned ==
  ASSUME ChallengeInv, Accepted, kind = "blind"
  PROVE  BlindIsEarned
<1>1. at = 8 /\ Does = BlindVerify /\ Done = 17 /\ Running("blind", 8)
  BY AcceptedIs DEF Running
<1>2. /\ ~Disturbed("code", {"verify"}) => Algorithm[bytes["commit"]] = Algorithm[head]
      /\ mem["manifest"].commit = bytes["commit"]
      /\ Recomputed
      /\ Holds("rescored")
  <2>. HIDE DEF Holds, Done
  <2>. QED  BY <1>1 DEF ChallengeInv, BlindVerifyInv
<1>3. Scorable /\ mem["score"] = BlindScore /\ mem["score"].decision = "PASS"
  <2>. HIDE DEF Scorable, BlindScore
  <2>. QED  BY <1>2 DEF Holds
<1>4. IsPackage(mem["package"])
  <2>1. 4 \in 1..Len(BlindVerify) /\ BlindVerify[4][1] = "read" /\ BlindVerify[4][2] = "package"
    BY DEF BlindVerify, Reads
  <2>2. Legit("package", mem["package"])
    <3>. HIDE DEF Does
    <3>. QED  BY <1>1, <2>1, ReadByAccepted
  <2>. QED  BY <2>2 DEF Legit
<1>5. /\ mem["package"].cases = mem["package"].public
      /\ Ids[fixed[mem["package"].cipher].public] = Ids[mem["frozen"].predictions.public]
  BY <1>3 DEF Scorable, Revealed
<1>6. mem["score"].decision = Decision(fixed[mem["package"].cipher].truth,
         mem["frozen"].predictions.says, mem["protocol"], mem["package"].public)
  <2>1. BlindScore.decision = Decision(fixed[mem["package"].cipher].truth,
         mem["frozen"].predictions.says, mem["protocol"], mem["package"].public)
    BY DEF BlindScore
  <2>. HIDE DEF BlindScore
  <2>. QED  BY <1>3, <2>1
<1>7. ~Disturbed("package", AnyTool) \/ mem["package"].cases = fixed[mem["package"].cipher].public
        => mem["package"].public = fixed[mem["package"].cipher].public
  <2>. HIDE DEF Disturbed, AnyTool
  <2>. QED  BY <1>4, <1>5 DEF IsPackage
<1>8. /\ mem["frozen"].predictions.says = Predict(code, mem["package"].public)
      /\ Ids[mem["package"].public] = Ids[fixed[mem["package"].cipher].public]
  BY <1>2, <1>5 DEF Recomputed
<1>. HIDE DEF Disturbed, AnyTool, Predict, Decision
<1>. QED  BY <1>2, <1>3, <1>6, <1>7, <1>8 DEF BlindIsEarned

LEMMA TemporalEarned ==
  ASSUME ChallengeInv, Accepted, kind = "temporal"
  PROVE  TemporalIsEarned
<1>1. at = 3 /\ Does = TemporalVerify /\ Done = 11 /\ Running("temporal", 3)
  BY AcceptedIs DEF Running
<1>2. /\ ~Disturbed("public", {"verify"}) => mem["public"] = bytes["public"]
      /\ ~Disturbed("answers", {"verify"}) => mem["answers"] = bytes["answers"]
      /\ Committed
      /\ mem["score"].decision = Decision(mem["answers"].truth, mem["predictions"].says,
                                          mem["protocol"], mem["public"])
      /\ mem["score"].decision = "PASS"
  <2>. HIDE DEF Committed, Done
  <2>. QED  BY <1>1 DEF ChallengeInv, TemporalVerifyInv
<1>3. /\ mem["commitment"].public = bytes["public"]
      /\ mem["commitment"].answers = bytes["answers"]
      /\ mem["predictions"].public = bytes["public"]
  BY <1>2 DEF Committed
<1>4. /\ 6 \in 1..Len(TemporalVerify) /\ TemporalVerify[6][1] = "read"
      /\ TemporalVerify[6][2] = "predictions"
      /\ 7 \in 1..Len(TemporalVerify) /\ TemporalVerify[7][1] = "read"
      /\ TemporalVerify[7][2] = "commitment"
  BY SMTT(30) DEF TemporalVerify, Reads
<1>5. Legit("predictions", mem["predictions"]) /\ Legit("commitment", mem["commitment"])
  <2>. HIDE DEF Does
  <2>. QED  BY <1>1, <1>4, ReadByAccepted
<1>6. PredictionsHold(mem["predictions"])
  BY <1>5 DEF Legit
<1>7. /\ mem["commitment"].answers \in Sealed
      /\ mem["commitment"].public = mem["commitment"].answers.public
  BY <1>5 DEF Legit
<1>8. mem["commitment"].answers \in SuiteRecords
  <2>1. fixed \in Seq(SuiteRecords)
    BY DEF ChallengeInv, ProcessOK
  <2>. DEFINE S == SuiteRecords
  <2>. HIDE DEF S
  <2>2. fixed \in Seq(S)
    BY <2>1 DEF S
  <2>3. \A c \in Sealed : c \in S
    BY <2>2 DEF Sealed
  <2>. QED  BY <1>7, <2>3 DEF S
<1>9. ~(Disturbed("public", {"verify"}) \/ Disturbed("answers", {"verify"}))
        => Suite(mem["public"], mem["answers"].truth) \in Sealed
  <2>. SUFFICES ASSUME ~Disturbed("public", {"verify"}), ~Disturbed("answers", {"verify"})
                PROVE  Suite(mem["public"], mem["answers"].truth) \in Sealed
    OBVIOUS
  <2>1. mem["public"] = mem["commitment"].answers.public /\ mem["answers"] = mem["commitment"].answers
    BY <1>2, <1>3, <1>7
  <2>2. \A c \in SuiteRecords : Suite(c.public, c.truth) = c
    BY DEF Suite, SuiteRecords
  <2>. QED  BY <1>7, <1>8, <2>1, <2>2
<1>10. ~(Disturbed("public", {"verify", "predict"}) \/ Disturbed("code", {"predict"})
           \/ Disturbed("predictions", AnyTool))
         => mem["predictions"].says = Predict(Algorithm[mem["predictions"].commit], mem["public"])
  <2>. SUFFICES ASSUME ~Disturbed("public", {"verify", "predict"}), ~Disturbed("code", {"predict"}),
                       ~Disturbed("predictions", AnyTool)
                PROVE  mem["predictions"].says
                         = Predict(Algorithm[mem["predictions"].commit], mem["public"])
    OBVIOUS
  <2>1. ~Disturbed("public", {"verify"}) /\ ~Disturbed("public", {"predict"})
    BY DEF Disturbed
  <2>. HIDE DEF Disturbed, AnyTool
  <2>. QED  BY <1>2, <1>3, <1>6, <2>1 DEF PredictionsHold
<1>11. Decision(mem["answers"].truth, mem["predictions"].says, mem["protocol"], mem["public"])
         = "PASS"
  BY <1>2
<1>. QED  BY <1>9, <1>10, <1>11 DEF TemporalIsEarned

LEMMA GhostGraphEarned ==
  ASSUME ChallengeInv, Accepted, kind \in {"passive", "active"}
  PROVE  GhostGraphIsEarned
<1>1. mem["truth"] \in Sealed
  <2>1. /\ 1 \in 1..Len(PassiveVerify) /\ PassiveVerify[1][1] = "read"
        /\ PassiveVerify[1][2] = "truth"
    BY DEF PassiveVerify, Reads
  <2>2. /\ 1 \in 1..Len(ActiveVerify) /\ ActiveVerify[1][1] = "read"
        /\ ActiveVerify[1][2] = "truth"
    BY DEF ActiveVerify, Reads
  <2>3. Does = PassiveVerify \/ Does = ActiveVerify
    BY AcceptedIs
  <2>4. Legit("truth", mem["truth"])
    <3>. HIDE DEF Does
    <3>. QED  BY <2>1, <2>2, <2>3, ReadByAccepted
  <2>. QED  BY <2>4 DEF Legit
<1>2. CASE kind = "passive"
  <2>1. at = 6 /\ Done = 15 /\ Running("passive", 6)
    BY <1>2, AcceptedIs DEF Running
  <2>2. /\ mem["public"] = mem["truth"].public /\ mem["result"] = PassiveResult
        /\ mem["result"].says \in {mem["truth"].truth, "unsure"}
    <3>. HIDE DEF Done, PassiveResult
    <3>. QED  BY <2>1 DEF ChallengeInv, PassiveVerifyInv
  <2>3. /\ PassiveResult.public = mem["public"]
        /\ PassiveResult.says = Concludes(mem["core"], Finds(code, mem["public"]))
    BY DEF PassiveResult
  <2>. HIDE DEF PassiveResult
  <2>. QED  BY <1>1, <1>2, <2>2, <2>3 DEF GhostGraphIsEarned
<1>3. CASE kind = "active"
  <2>1. at = 7 /\ Done = 16 /\ Running("active", 7)
    BY <1>3, AcceptedIs DEF Running
  <2>2. /\ mem["public"] = mem["truth"].public /\ mem["result"].public = mem["public"]
        /\ mem["result"].says = Concludes(mem["core"], mem["truth"].truth)
        /\ mem["result"].says \in {mem["truth"].truth, "unsure"}
    <3>. HIDE DEF Done
    <3>. QED  BY <2>1 DEF ChallengeInv, ActiveVerifyInv
  <2>. QED  BY <1>1, <1>3, <2>2 DEF GhostGraphIsEarned
<1>. QED  BY <1>2, <1>3

LEMMA AcceptedManifest ==
  ASSUME ChallengeInv, Accepted, kind # "temporal"
  PROVE  IsManifest(mem["manifest"])
<1>1. /\ 1 \in 1..Len(BlindVerify) /\ BlindVerify[1] = Reads("manifest")
      /\ 5 \in 1..Len(PassiveVerify) /\ PassiveVerify[5] = Reads("manifest")
      /\ 5 \in 1..Len(ActiveVerify) /\ ActiveVerify[5] = Reads("manifest")
      /\ 1 \in 1..Len(HoldoutVerify) /\ HoldoutVerify[1] = Reads("manifest")
      /\ 1 \in 1..Len(TransferVerify) /\ TransferVerify[1] = Reads("manifest")
  BY DEF BlindVerify, PassiveVerify, ActiveVerify, HoldoutVerify, TransferVerify
<1>2. Does \in {BlindVerify, PassiveVerify, ActiveVerify, HoldoutVerify, TransferVerify}
  <2>. HIDE DEF Does
  <2>. QED  BY AcceptedIs
<1>. HIDE DEF Does
<1>3. PICK i \in 1..Len(Does) : Does[i] = Reads("manifest")
  BY <1>1, <1>2
<1>4. Legit("manifest", mem["manifest"])
  BY <1>3, ReadByAccepted DEF Reads
<1>. QED  BY <1>4 DEF Legit

LEMMA HoldoutEarned ==
  ASSUME ChallengeInv, Accepted, kind = "holdout"
  PROVE  /\ HoldoutIsEarned
         /\ ~Disturbed("suite", {"predict"}) =>
              Built[mem["manifest"].files["provenance"].suite.public] = mem["summary"].cases
<1>1. at = 3 /\ Done = 6 /\ Running("holdout", 3)
  BY AcceptedIs DEF Running
<1>. DEFINE declared == mem["manifest"].files["summary"]
<1>2. /\ mem["summary"].cases = declared.cases
      /\ ~Disturbed("summary", {"verify"}) => mem["summary"] = declared
      /\ mem["summary"].decision = "PASS"
  <2>. HIDE DEF Done
  <2>. QED  BY <1>1 DEF ChallengeInv, HoldoutVerifyInv
<1>3. /\ SummaryHolds(declared)
      /\ ~Disturbed("suite", {"predict"}) =>
           Built[mem["manifest"].files["provenance"].suite.public] = declared.cases
  <2>1. IsManifest(mem["manifest"])
    BY AcceptedManifest
  <2>. QED  BY <2>1 DEF IsManifest
<1>. HIDE DEF declared
<1>4. ASSUME ~Disturbed("summary", {"predict", "verify"})
      PROVE  /\ mem["summary"].cases \in Sealed
             /\ Decision(mem["summary"].cases.truth, mem["summary"].says, "strict",
                         mem["summary"].cases.public) = "PASS"
  <2>1. ~Disturbed("summary", {"verify"}) /\ ~Disturbed("summary", {"predict"})
    BY <1>4 DEF Disturbed
  <2>. HIDE DEF Disturbed
  <2>2. mem["summary"] = declared
    BY <1>2, <2>1
  <2>3. /\ declared.cases \in Sealed
        /\ declared.decision = Decision(declared.cases.truth, declared.says, "strict",
                                        declared.cases.public)
    BY <1>3, <2>1 DEF SummaryHolds
  <2>. QED  BY <1>2, <2>2, <2>3
<1>5. HoldoutIsEarned
  BY <1>4 DEF HoldoutIsEarned
<1>. QED  BY <1>2, <1>3, <1>5

LEMMA EarnedFromInv ==
  ASSUME ChallengeInv
  PROVE  PassIsEarned
<1>. SUFFICES ASSUME Accepted
              PROVE  CASE kind = "blind" -> BlindIsEarned
                       [] kind = "temporal" -> TemporalIsEarned
                       [] kind \in {"passive", "active"} -> GhostGraphIsEarned
                       [] kind = "holdout" -> HoldoutIsEarned
                       [] kind = "transfer" -> TRUE
  BY DEF PassIsEarned
<1>1. kind \in {"blind", "temporal", "passive", "active", "holdout", "transfer"}
  BY AcceptedIs
<1>. HIDE DEF BlindIsEarned, TemporalIsEarned, GhostGraphIsEarned, HoldoutIsEarned
<1>2. kind = "blind" => BlindIsEarned
  BY BlindEarned
<1>3. kind = "temporal" => TemporalIsEarned
  BY TemporalEarned
<1>4. kind \in {"passive", "active"} => GhostGraphIsEarned
  BY GhostGraphEarned
<1>5. kind = "holdout" => HoldoutIsEarned
  BY HoldoutEarned
<1>. QED  BY <1>1, <1>2, <1>3, <1>4, <1>5

\* Every file that a manifest names has been compared.
LEMMA AllCompared ==
  ASSUME ChallengeInv, Accepted, kind # "temporal", NEW f \in ManifestFiles
  PROVE  f \in FileNames /\ \E i \in 1..Len(Does) : Does[i] = Matches(f)
<1>1. /\ kind = "blind" => ManifestFiles = {"frozen", "package", "key", "score"}
      /\ kind = "holdout" => ManifestFiles = {"records", "summary", "provenance"}
      /\ kind \in {"passive", "active", "transfer"} => ManifestFiles = {"result", "core"}
  BY DEF ManifestFiles
<1>2. f \in FileNames
  BY DEF ManifestFiles, FileNames
<1>. HIDE DEF ManifestFiles, FileNames
<1>3. CASE kind = "blind"
  <2>1. Does = BlindVerify
    BY <1>3, AcceptedIs
  <2>2. \A g \in {"frozen", "package", "key", "score"} :
          \E i \in 1..Len(BlindVerify) : BlindVerify[i] = Matches(g)
    <3>1. /\ 6 \in 1..Len(BlindVerify) /\ BlindVerify[6] = Matches("frozen")
          /\ 7 \in 1..Len(BlindVerify) /\ BlindVerify[7] = Matches("package")
          /\ 8 \in 1..Len(BlindVerify) /\ BlindVerify[8] = Matches("key")
          /\ 9 \in 1..Len(BlindVerify) /\ BlindVerify[9] = Matches("score")
      BY DEF BlindVerify
    <3>. QED  BY <3>1
  <2>. HIDE DEF Does
  <2>. QED  BY <1>1, <1>2, <1>3, <2>1, <2>2
<1>4. CASE kind = "holdout"
  <2>1. Does = HoldoutVerify
    BY <1>4, AcceptedIs
  <2>2. /\ 2 \in 1..Len(HoldoutVerify) /\ HoldoutVerify[2] = Matches("provenance")
        /\ 3 \in 1..Len(HoldoutVerify) /\ HoldoutVerify[3] = Matches("records")
        /\ 4 \in 1..Len(HoldoutVerify) /\ HoldoutVerify[4] = Matches("summary")
    BY DEF HoldoutVerify
  <2>3. f \in {"records", "summary", "provenance"}
    BY <1>1, <1>4
  <2>. HIDE DEF Does
  <2>. QED  BY <1>2, <2>1, <2>2, <2>3
<1>5. CASE kind = "passive"
  <2>1. Does = PassiveVerify
    BY <1>5, AcceptedIs
  <2>2. /\ 12 \in 1..Len(PassiveVerify) /\ PassiveVerify[12] = Matches("result")
        /\ 13 \in 1..Len(PassiveVerify) /\ PassiveVerify[13] = Matches("core")
    BY DEF PassiveVerify
  <2>3. f \in {"result", "core"}
    BY <1>1, <1>5
  <2>. HIDE DEF Does
  <2>. QED  BY <1>2, <2>1, <2>2, <2>3
<1>6. CASE kind = "active"
  <2>1. Does = ActiveVerify
    BY <1>6, AcceptedIs
  <2>2. /\ 10 \in 1..Len(ActiveVerify) /\ ActiveVerify[10] = Matches("core")
        /\ 15 \in 1..Len(ActiveVerify) /\ ActiveVerify[15] = Matches("result")
    BY DEF ActiveVerify
  <2>3. f \in {"result", "core"}
    BY <1>1, <1>6
  <2>. HIDE DEF Does
  <2>. QED  BY <1>2, <2>1, <2>2, <2>3
<1>7. CASE kind = "transfer"
  <2>1. Does = TransferVerify
    BY <1>7, AcceptedIs
  <2>2. /\ 3 \in 1..Len(TransferVerify) /\ TransferVerify[3] = Matches("core")
        /\ 4 \in 1..Len(TransferVerify) /\ TransferVerify[4] = Matches("result")
    BY DEF TransferVerify
  <2>3. f \in {"result", "core"}
    BY <1>1, <1>7
  <2>. HIDE DEF Does
  <2>. QED  BY <1>2, <2>1, <2>2, <2>3
<1>8. kind \in {"blind", "passive", "active", "holdout", "transfer"}
  BY AcceptedIs
<1>. HIDE DEF Does
<1>. QED  BY <1>3, <1>4, <1>5, <1>6, <1>7, <1>8

LEMMA BundleFromInv ==
  ASSUME ChallengeInv
  PROVE  BundleIsWhatWasJudged
<1>. SUFFICES ASSUME Accepted
              PROVE  /\ kind # "temporal" =>
                          \A f \in DOMAIN mem["manifest"].files :
                             ~Disturbed(f, {"verify"}) =>
                                /\ mem["manifest"].files[f] = disk[f]
                                /\ f \in DOMAIN mem => mem[f] = disk[f]
                     /\ kind \in {"blind", "passive", "active", "transfer"} =>
                          mem["attestation"].manifest = mem["manifest"]
                     /\ (kind = "holdout" /\ ~Disturbed("suite", {"predict"})) =>
                          Built[mem["manifest"].files["provenance"].suite.public] = mem["summary"].cases
  BY DEF BundleIsWhatWasJudged
<1>1. ASSUME kind # "temporal", NEW f \in DOMAIN mem["manifest"].files, ~Disturbed(f, {"verify"})
      PROVE  mem["manifest"].files[f] = disk[f] /\ (f \in DOMAIN mem => mem[f] = disk[f])
  <2>1. f \in ManifestFiles
    BY <1>1, AcceptedManifest DEF IsManifest
  <2>2. f \in FileNames /\ \E i \in 1..Len(Does) : Does[i] = Matches(f)
    BY <1>1, <2>1, AllCompared
  <2>3. Done = Len(Does) /\ VerifierRuns
    BY AcceptedIs
  <2>. HIDE DEF Does, Done, VerifierRuns, FileNames, Disturbed
  <2>4. BundleInv
    BY DEF ChallengeInv
  <2>. QED  BY <1>1, <2>2, <2>3, <2>4 DEF BundleInv
<1>2. kind = "blind" => mem["attestation"].manifest = mem["manifest"]
  <2>. SUFFICES ASSUME kind = "blind"
                PROVE  mem["attestation"].manifest = mem["manifest"]
    OBVIOUS
  <2>1. at = 8 /\ Done = 17 /\ Running("blind", 8)
    BY AcceptedIs DEF Running
  <2>2. BlindAttested
    <3>. HIDE DEF Done, BlindAttested, Holds
    <3>. QED  BY <2>1 DEF ChallengeInv, BlindVerifyInv
  <2>. QED  BY <2>2 DEF BlindAttested, BlindAttestation
<1>3. kind \in {"passive", "active", "transfer"} => SignedManifest
  <2>1. kind = "passive" => Done = 15 /\ Running("passive", 6)
    BY AcceptedIs DEF Running
  <2>2. kind = "active" => Done = 16 /\ Running("active", 7)
    BY AcceptedIs DEF Running
  <2>3. kind = "transfer" => Done = 5 /\ Running("transfer", 3)
    BY AcceptedIs DEF Running
  <2>. HIDE DEF Done, SignedManifest, Running
  <2>. QED
    BY <2>1, <2>2, <2>3 DEF ChallengeInv, PassiveVerifyInv, ActiveVerifyInv, TransferVerifyInv
<1>4. kind = "holdout" /\ ~Disturbed("suite", {"predict"}) =>
        Built[mem["manifest"].files["provenance"].suite.public] = mem["summary"].cases
  BY HoldoutEarned
<1>. QED  BY <1>1, <1>2, <1>3, <1>4 DEF SignedManifest

\* A PASS was earned (external_challenge/submission.py verify_submission and
\* its siblings): for every suite, algorithm and substitute, and however often
\* files are replaced or lost, tools killed, run again or out of turn, an
\* accepting verifier judged what was sealed and what the code predicts of it,
\* up to the replacements that PassIsEarned names: the cases of a blind package
\* with their commitment, and sources that the same cases are made of.
THEOREM AcceptedPassIsEarned == ChallengeSpec => []PassIsEarned
<1>1. ChallengeInit => ChallengeInv
  BY ChallengeInitIs
<1>2. ChallengeInv /\ [ChallengeNext]_challengeVars => ChallengeInv'
  BY ChallengeStep
<1>3. ChallengeInv => PassIsEarned
  BY EarnedFromInv
<1>. QED  BY <1>1, <1>2, <1>3, PTL DEF ChallengeSpec

\* An accepting verifier judged the files its manifest names (submission.py,
\* verify_submission; runner.py verify_result_manifest): what it parsed is what
\* it compared and what lies on the disk, up to what is replaced while it runs.
THEOREM JudgedIsDeclared == ChallengeSpec => []BundleIsWhatWasJudged
<1>1. ChallengeInit => ChallengeInv
  BY ChallengeInitIs
<1>2. ChallengeInv /\ [ChallengeNext]_challengeVars => ChallengeInv'
  BY ChallengeStep
<1>3. ChallengeInv => BundleIsWhatWasJudged
  BY BundleFromInv
<1>. QED  BY <1>1, <1>2, <1>3, PTL DEF ChallengeSpec
=============================================================================
