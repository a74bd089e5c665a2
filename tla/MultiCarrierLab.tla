--------------------------- MODULE MultiCarrierLab ---------------------------
(***************************************************************************)
(* A trial on the stores of RegisteredStoreLab (storage_lab.py) and on the *)
(* latent carriers of MultiCarrierStorageLab (temporal_multipath.py).      *)
(* Every store is a document, a file or a table of its own and every write *)
(* is a step, so a kill can fall between any two writes or inside one; the *)
(* next trial starts over on the same root directory and meets what the    *)
(* last one left there.                                                    *)
(***************************************************************************)
EXTENDS StoreTrials

CONSTANTS
  Trials,        \* the trials, a set of [kind, latent, mask, fault]
  MaxCrashes     \* bound on kills

ASSUME TrialsAssumption == Trials \subseteq Trial
ASSUME BoundsAssumption == MaxCrashes \in Nat

VARIABLES
  trial,       \* arguments of the trial
  stage,       \* its stage
  todo,        \* operations the stage still has to make
  status,      \* "running", "failed" by an exception, or "done"
  online,      \* the online stores that hold a subject
  cipher,      \* generation of a subject's encrypted backup, 0 if there is none
  key,         \* generation of its key, 0 if there is none
  tombstones,  \* deletion-tombstones.json
  files,       \* the latent carrier files that exist
  controls,    \* installed-controls.json
  torn,        \* documents of which only a part was written
  created,     \* the output directory of the trial exists
  recreated,   \* local source_recreated
  seen,        \* results of the replays
  audits,      \* results of the audits: who, and the stores that hold it
  receipts,    \* the receipts issued, each with the result of its verification
  verdict,     \* what the pilot concludes, "" before
  crashes

disk == <<online, cipher, key, tombstones, files, controls, torn, created>>
memory == <<recreated, seen, audits, receipts, verdict>>
vars == <<trial, stage, todo, status, disk, memory, crashes>>

SubjectIds == {Subjects[i] : i \in DOMAIN Subjects}
Documents == {"vector-index", "cache", "model"}
Half == -1     \* the generation of a backup file of which only a part was written

\* The stages of every trial, tabulated.
Programs == [t \in Trials |-> Program(t)]
Stages == Programs[trial]

Init ==
  /\ trial \in Trials
  /\ stage = 1 /\ todo = Programs[trial][1].does /\ status = "running"
  /\ online = [s \in SubjectIds |-> {}]
  /\ cipher = [s \in SubjectIds |-> 0] /\ key = [s \in SubjectIds |-> 0]
  /\ tombstones = {} /\ files = {} /\ controls = {} /\ torn = {} /\ created = FALSE
  /\ recreated = FALSE /\ seen = <<>> /\ audits = <<>> /\ receipts = <<>> /\ verdict = ""
  /\ crashes = 0

-----------------------------------------------------------------------------
(* Reading the stores.                                                     *)

Opens(s) == key[s] > 0 /\ key[s] = cipher[s]
\* Both files exist, and decrypt raises.
Undecipherable(s) == key[s] # 0 /\ cipher[s] # 0 /\ ~ Opens(s)

\* registered_presence
Presence(s) == online[s] \union (IF Opens(s) THEN {"backup"} ELSE {})
PresenceRaises(s) == torn \intersect Documents # {} \/ Undecipherable(s)

Allowed(t) == t \notin GuardIds(controls)

\* The carrier of a reactivation is there and no installed control guards it.
\* The trial of temporal_lab.py knows no controls: it just calls the restore.
Attempts(t, s) ==
  /\ IF t = BackupRestore THEN Opens(s) ELSE CarrierOf[t] \in files
  /\ trial.kind # "single" => Allowed(t)

TargetOf(t) == CHOOSE store \in Workflows[t].adds : TRUE

\* A mutant: derivatives are rebuilt although there is no source row.
RebuildsAnyway(s) == TRUE

\* rebuild_online_derivatives, called only if the source was recreated; it
\* needs the source row and asks neither guards nor tombstones.
RebuildsNow(s) == (trial.kind = "single" \/ recreated) /\ "postgres" \in online[s]

\* The operation reads a document or a backup it cannot read.
Raises(op) ==
  LET s == op.who
  IN  CASE op.do \in {"put", "drop"} -> op.what \in torn
        [] op.do = "rebuild" -> RebuildsNow(s) /\ op.what \in torn
        [] op.do = "install" -> op.what = "tombstone" /\ Tombstone \in Stages[stage].plan
                                  /\ "tombstones" \in torn
        [] op.do = "read controls" -> "controls" \in torn
        [] op.do = "run" ->
             \/ Attempts(op.what, s) /\ "tombstones" \in torn
             \/ op.what = BackupRestore /\ trial.kind = "single"
                  /\ ("tombstones" \in torn \/ (s \notin tombstones /\ Undecipherable(s)))
             \/ op.what = BackupRestore /\ trial.kind # "single" /\ PresenceRaises(s)
             \/ Attempts(op.what, s) /\ s \notin tombstones
                  /\ TargetOf(op.what) \in torn
        [] op.do \in {"look", "audit", "issue"} -> PresenceRaises(s)
        [] op.do = "refuse existing" -> created
        [] OTHER -> FALSE

-----------------------------------------------------------------------------
(* One operation.                                                          *)

At(do) == status = "running" /\ todo # <<>> /\ Head(todo).do = do
Op == Head(todo)

Does(do) ==
  /\ At(do)
  /\ ~ Raises(Op)
  /\ todo' = Tail(todo)
  /\ UNCHANGED <<trial, stage, status, crashes>>

Writes(do) == Does(do) /\ UNCHANGED <<memory, created, torn>>

\* enroll.  It does not look at the tombstones.  The backup is encrypted under
\* a fresh key, and the ciphertext is written before the key.
PutOnline ==
  /\ Writes("put") /\ Op.what \in Online
  /\ online' = [online EXCEPT ![Op.who] = @ \union {Op.what}]
  /\ UNCHANGED <<cipher, key, tombstones, files, controls>>

PutCipher ==
  /\ Writes("put") /\ Op.what = "cipher"
  /\ cipher' = [cipher EXCEPT ![Op.who] = crashes + 1]
  /\ UNCHANGED <<online, key, tombstones, files, controls>>

\* A mutant: a key that exists is kept.
PutKeyOnce ==
  /\ Writes("put") /\ Op.what = "key"
  /\ key' = [key EXCEPT ![Op.who] = IF @ = 0 THEN cipher[Op.who] ELSE @]
  /\ UNCHANGED <<online, cipher, tombstones, files, controls>>

PutKey ==
  /\ Writes("put") /\ Op.what = "key"
  /\ key' = [key EXCEPT ![Op.who] = cipher[Op.who]]
  /\ UNCHANGED <<online, cipher, tombstones, files, controls>>

WriteCarrier ==
  /\ Writes("write")
  /\ files' = files \union ({Op.what} \intersect LatentOf(trial))
  /\ UNCHANGED <<online, cipher, key, tombstones, controls>>

\* A mutant: the backup key is always left.
LeaveUnusedKey ==
  /\ Writes("drop unused key")
  /\ UNCHANGED <<online, cipher, key, tombstones, files, controls>>

DropUnusedKey ==
  /\ Writes("drop unused key")
  /\ key' = IF "carrier-backup" \in LatentOf(trial) THEN key ELSE [key EXCEPT ![Op.who] = 0]
  /\ UNCHANGED <<online, cipher, tombstones, files, controls>>

\* A mutant: the entries that are not the subject's are dropped.
DropTheOthers ==
  /\ Writes("drop")
  /\ online' = [s \in SubjectIds |->
                  IF s = Op.who THEN online[s] ELSE online[s] \ {Op.what}]
  /\ UNCHANGED <<cipher, key, tombstones, files, controls>>

\* delete_source_only, and the other stores of
\* delete_online_keep_recoverable_backup and remediate.
Drop ==
  /\ Writes("drop")
  /\ online' = [online EXCEPT ![Op.who] = @ \ {Op.what}]
  /\ UNCHANGED <<cipher, key, tombstones, files, controls>>

\* remediate
DestroyBackup ==
  /\ Writes("destroy key")
  /\ key' = [key EXCEPT ![Op.who] = 0]
  /\ UNCHANGED <<online, cipher, tombstones, files, controls>>

\* install_controls
InstallControls ==
  /\ Does("install") /\ Op.what = "controls"
  /\ controls' = Stages[stage].plan
  /\ torn' = torn \ {"controls"}
  /\ UNCHANGED <<memory, online, cipher, key, tombstones, files, created>>

InstallTombstone ==
  /\ Writes("install") /\ Op.what = "tombstone"
  /\ tombstones' = tombstones \union (IF Tombstone \in Stages[stage].plan THEN {Op.who} ELSE {})
  /\ UNCHANGED <<online, cipher, key, files, controls>>

DestroyCarrier ==
  /\ Writes("install") /\ Op.what \in LatentFiles \union {"key"}
  /\ LET destroys == DestroyAll \in Stages[stage].plan
     IN  /\ key' = IF destroys /\ Op.what = "key" THEN [key EXCEPT ![Op.who] = 0] ELSE key
         /\ files' = IF destroys THEN files \ {Op.what} ELSE files
  /\ UNCHANGED <<online, cipher, tombstones, controls>>

-----------------------------------------------------------------------------
(* replay_registered_workflows.                                            *)

ReadControls == Does("read controls") /\ UNCHANGED <<disk, memory>>

RunWorkflow ==
  /\ Does("run")
  /\ LET runs == Attempts(Op.what, Op.who) /\ Op.who \notin tombstones
         target == TargetOf(Op.what)
     IN  /\ online' = IF runs THEN [online EXCEPT ![Op.who] = @ \union {target}] ELSE online
         /\ recreated' = ((runs /\ target = "postgres")
                          \/ (recreated /\ Op.what # BackupRestore))
  /\ UNCHANGED <<cipher, key, tombstones, files, controls, torn, created,
                 seen, audits, receipts, verdict>>

Rebuild ==
  /\ Writes("rebuild")
  /\ online' = IF RebuildsNow(Op.who)
               THEN [online EXCEPT ![Op.who] = @ \union {Op.what}] ELSE online
  /\ UNCHANGED <<cipher, key, tombstones, files, controls>>

Look ==
  /\ Does("look")
  /\ seen' = Append(seen, online[Op.who] # {})
  /\ UNCHANGED <<disk, recreated, audits, receipts, verdict>>

-----------------------------------------------------------------------------
(* The pilot.                                                              *)

AuditNow ==
  /\ Does("audit")
  /\ audits' = Append(audits, [who |-> Op.who, residual |-> Presence(Op.who)])
  /\ UNCHANGED <<disk, recreated, seen, receipts, verdict>>

RefuseExisting == Does("refuse existing") /\ UNCHANGED <<disk, memory>>

Create ==
  /\ Does("create")
  /\ created' = TRUE
  /\ UNCHANGED <<online, cipher, key, tombstones, files, controls, torn, memory>>

LastReceipt == IF receipts = <<>> THEN <<>> ELSE receipts[Len(receipts)].receipt

\* issue_receipt on the stores as they are after the audit.  A request, its
\* epoch and its nonce are numbered alike: the nonce is 16 random bytes.
Issue ==
  /\ Does("issue")
  /\ LET sequence == Len(receipts) + 1
         after == audits[Len(audits)]
     IN  receipts' =
           Append(receipts,
                  [receipt |-> Receipt(sequence, <<Op.who, Presence(Op.who)>>,
                                       AuditStatus(after.residual), sequence, sequence,
                                       LastReceipt),
                   valid |-> FALSE])
  /\ UNCHANGED <<disk, recreated, seen, audits, verdict>>

\* The nonce of a receipt found valid is recorded.
Ledger == { receipts[i].receipt.payload.nonce : i \in { j \in DOMAIN receipts : receipts[j].valid } }

Verify ==
  /\ Does("verify")
  /\ LET last == Len(receipts)
         expected == IF last = 1 THEN <<>> ELSE receipts[last - 1].receipt
     IN  receipts' = [receipts EXCEPT ![last].valid =
                        VerifyReceipt(receipts[last].receipt, Ledger, last, expected)]
  /\ UNCHANGED <<disk, recreated, seen, audits, verdict>>

Conclude ==
  /\ Does("conclude")
  /\ LET tampered == [LastReceipt EXCEPT !.payload.root = <<"tampered">>]
     IN  verdict' =
           IF /\ \A i \in 1..Deletions : Presence(Subjects[i]) = {}
              /\ \A i \in (Deletions + 1)..Len(Subjects) :
                   Presence(Subjects[i]) = Online \union {"backup"}
              /\ \A i \in 1..Deletions : /\ AuditStatus(audits[2 * i - 1].residual) = "INCOMPLETE"
                                         /\ AuditStatus(audits[2 * i].residual) = "COMPLETE"
                                         /\ receipts[i].valid
              /\ ~ VerifyReceipt(tampered, {}, Len(receipts), tampered.payload.previous)
           THEN "success" ELSE "failure"
  /\ UNCHANGED <<disk, recreated, seen, audits, receipts>>

-----------------------------------------------------------------------------
NextStage ==
  /\ status = "running" /\ todo = <<>>
  /\ IF stage < Len(Stages)
     THEN stage' = stage + 1 /\ todo' = Stages[stage + 1].does /\ UNCHANGED status
     ELSE status' = "done" /\ UNCHANGED <<stage, todo>>
  /\ UNCHANGED <<trial, disk, memory, crashes>>

\* An exception ends the trial.
Fail ==
  /\ status = "running" /\ todo # <<>> /\ Raises(Op)
  /\ status' = "failed"
  /\ UNCHANGED <<trial, stage, todo, disk, memory, crashes>>

\* The trial is run again on the same root, from the start.
Rerun ==
  /\ crashes < MaxCrashes
  /\ crashes' = crashes + 1
  /\ stage' = 1 /\ todo' = Programs[trial][1].does /\ status' = "running"
  /\ recreated' = FALSE /\ seen' = <<>> /\ audits' = <<>> /\ receipts' = <<>> /\ verdict' = ""
  /\ UNCHANGED trial

\* The process dies between two writes, or it had ended before.
Crash == Rerun /\ UNCHANGED disk

\* The document that the operation replaces, if it writes at all.
Replaces(op) ==
  CASE op.do \in {"put", "drop"} -> {op.what} \intersect Documents
    [] op.do = "rebuild" -> IF RebuildsNow(op.who) THEN {op.what} ELSE {}
    [] op.do = "run" -> IF Attempts(op.what, op.who) /\ op.who \notin tombstones
                        THEN {TargetOf(op.what)} \intersect Documents ELSE {}
    [] op.do = "install" ->
         IF op.what = "controls" THEN {"controls"}
         ELSE IF op.what = "tombstone" /\ Tombstone \in Stages[stage].plan THEN {"tombstones"}
         ELSE {}
    [] OTHER -> {}

\* The process dies after it has truncated a file and before the new contents
\* are there: half a document is left, or half a backup file.
KillInWrite ==
  /\ status = "running" /\ todo # <<>> /\ ~ Raises(Op)
  /\ \/ /\ Replaces(Op) # {}
        /\ torn' = torn \union Replaces(Op)
        /\ UNCHANGED <<cipher, key>>
     \/ /\ Op.do = "put" /\ Op.what = "cipher"
        /\ cipher' = [cipher EXCEPT ![Op.who] = Half]
        /\ UNCHANGED <<key, torn>>
     \/ /\ Op.do = "put" /\ Op.what = "key"
        /\ key' = [key EXCEPT ![Op.who] = Half]
        /\ UNCHANGED <<cipher, torn>>
  /\ Rerun
  /\ UNCHANGED <<online, tombstones, files, controls, created>>

\* The trial has returned or raised.  It may stop nowhere else.
Ended == status # "running" /\ UNCHANGED vars

TrialStep ==
  \/ PutOnline \/ PutCipher \/ PutKey \/ WriteCarrier \/ DropUnusedKey \/ Drop
  \/ DestroyBackup \/ InstallControls \/ InstallTombstone \/ DestroyCarrier
  \/ ReadControls \/ RunWorkflow \/ Rebuild \/ Look
  \/ AuditNow \/ RefuseExisting \/ Create \/ Issue \/ Verify \/ Conclude
  \/ NextStage \/ Fail

Next == TrialStep \/ Crash \/ KillInWrite \/ Ended

Spec == Init /\ [][Next]_vars

-----------------------------------------------------------------------------
\* The abstract view of the stores: a backup counts while its key opens it.
FactsHeld ==
  online[Subjects[1]] \union files
    \union (IF Opens(Subjects[1]) THEN {"carrier-backup"} ELSE {})

\* A tombstone works like a guard on every reactivation, listed or not.
GuardsHeld ==
  GuardIds(controls) \union (IF Subjects[1] \in tombstones THEN Reactivations ELSE {})

World == INSTANCE RegisteredWorld
  WITH Residual <- Online, facts <- FactsHeld, guards <- GuardsHeld,
       mode <- IF status = "failed" THEN "preparing" ELSE Stages[stage].mode

\* The stores implement the abstract world: in a replay every physical write is
\* a registered transition that no installed control guards, and the controls
\* installed before a replay that is promised to regenerate nothing make the
\* facts of the disk stable, also on a root where earlier trials were killed
\* between two writes or inside one.
ImplementsWorld == World!WorldSpec

\* On a fresh root the replays regenerate exactly when the analysis says so,
\* and the gates of the experiments are met.
PredictionMatchesStores ==
  status = "done" /\ crashes = 0 => seen = Predicted(trial) /\ MeetsGates(trial, seen)

\* Wherever the backup is read, a key that exists opens the ciphertext: no kill
\* between or inside the two writes of enroll is ever seen by a reader, although
\* each enrollment replaces both files.
ReadersSeeOneGeneration ==
  \A s \in SubjectIds :
    status = "running" /\ todo # <<>> /\ Op.who = s /\ Op.do \in {"run", "look", "audit", "issue"}
      => ~ Undecipherable(s)

\* A receipt that says COMPLETE stays true: its subject is in no registered
\* store from then on, whatever is done to the other subjects, whose data stays
\* in every store; and a pilot that is not disturbed succeeds, with every
\* receipt chained to the one before and accepted once.
ReceiptsAreTrue ==
  /\ \A i \in DOMAIN receipts :
       receipts[i].receipt.payload.status = "COMPLETE" =>
         Presence(receipts[i].receipt.payload.root[1]) = {}
  /\ receipts # <<>> =>
       \A i \in (Deletions + 1)..Len(Subjects) : Presence(Subjects[i]) = Online \union {"backup"}
  /\ \A i \in DOMAIN receipts :
       /\ receipts[i].valid => ~ VerifyReceipt(receipts[i].receipt, Ledger, Len(receipts), LastReceipt)
       /\ receipts[i].receipt.payload.previous = IF i = 1 THEN <<>> ELSE receipts[i - 1].receipt
  /\ trial.kind = "pilot" /\ status = "done" => verdict = "success"
=============================================================================
