----------------------------- MODULE ServiceStudy -----------------------------
(***************************************************************************)
(* The two experiments on real services: the measured multi-service study  *)
(* (run_measured_multiservice_v1.py), which starts PostgreSQL, Redis and   *)
(* Qdrant and lets two strategies erase the same subject from two sets of  *)
(* copies, and the physical pilot (run_postgres_physical_pilot.py).  Every *)
(* command to a service and every file operation is a step; any of them    *)
(* may raise, and the process may be killed at any moment.                 *)
(***************************************************************************)
EXTENDS Integers, FiniteSets, Sequences

CONSTANTS
  Studies,   \* arguments: program, people, calibration, holdout, only
  Timings,   \* what the clock may measure: costs and the two resource gates
  MaxRuns    \* bound on the processes started for one output

ASSUME StudiesAssumption ==
  /\ \A s \in Studies : /\ s.program \in {"study", "pilot"} /\ s.people \in Nat \ {0, 1}
                        /\ s.calibration \in Seq(Nat) /\ s.holdout \in Seq(Nat)
                        /\ s.only \in BOOLEAN
  /\ \A t \in Timings : /\ t.part \in Nat /\ t.whole \in Nat
                        /\ t.faster \in BOOLEAN /\ t.smaller \in BOOLEAN
  /\ MaxRuns \in Nat \ {0}

VARIABLES
  study,     \* the arguments
  script,    \* operations the process still has to make
  outcome,   \* "running", "raised", "killed", "done"
  raising,   \* an exception is on its way through __exit__ or finally
  inside,    \* __exit__, or finally, will run
  hosts,     \* services of the process that are up
  left,      \* services that earlier processes left running
  output,    \* "none", "empty" or "result"
  rows,      \* people in the source table
  copies,    \* the derived stores, per strategy
  dirs,      \* trial directories
  retained,  \* the rows read after the deletion
  records,   \* one per audit
  selected,      \* what the planner selects
  result,    \* what the output says
  starts

places == <<rows, copies, dirs>>
findings == <<retained, records, selected>>
studyVars == <<study, script, outcome, raising, inside, hosts, left, output, places,
               findings, result, starts>>

Targeted == "targeted_exact_cdc"
RebuildAll == "rebuild_all"
PilotCopy == "pilot"
Strategies == {Targeted, RebuildAll}

\* vector: points of the collection or the derived table; cache: entries; key:
\* backups that can be decrypted, or the dump; fit: the rows that the model's
\* sums hold, which the weights tell apart.
NoCopy == [vector |-> {}, cache |-> {}, key |-> {}, fit |-> {}]
People == 0..(study.people - 1)
Target(seed) == seed % study.people

-----------------------------------------------------------------------------
(* The programs.                                                           *)

Steps(verbs, seed, via) ==
  [i \in DOMAIN verbs |-> [do |-> verbs[i], seed |-> seed, via |-> via]]

\* Services.__enter__ and __exit__
Enter == Steps(<<"start postgres", "start redis", "start qdrant", "ready">>, 0, "")
Exit == Steps(<<"stop">>, 0, "")

SetupSteps(seed, via) == Steps(<<"set vector", "set cache", "set backups", "set model">>, seed, via)

RemediationSteps(seed, via) ==
  Steps(IF via = Targeted
        THEN <<"delete point", "delete entry", "unlink key", "subtract">>
        ELSE <<"drop collection", "fill collection", "refill cache", "restage backups", "refit">>,
        seed, via)

\* A mutant: the retained rows are read before the target is deleted.
ReadsTooEarly(seed) ==
  LET first == IF seed % 2 = 1 THEN Targeted ELSE RebuildAll
      second == IF first = Targeted THEN RebuildAll ELSE Targeted
  IN  Steps(<<"load", "mkdir trial">>, seed, "")
        \o SetupSteps(seed, Targeted) \o SetupSteps(seed, RebuildAll)
        \o Steps(<<"read retained", "delete source">>, seed, "")
        \o RemediationSteps(seed, first) \o Steps(<<"audit">>, seed, first)
        \o RemediationSteps(seed, second) \o Steps(<<"audit">>, seed, second)
        \o Steps(<<"clear">>, seed, Targeted) \o Steps(<<"clear">>, seed, RebuildAll)

\* run_trial: the order of the strategies alternates with the seed.
RunTrial(seed) ==
  LET first == IF seed % 2 = 1 THEN Targeted ELSE RebuildAll
      second == IF first = Targeted THEN RebuildAll ELSE Targeted
  IN  Steps(<<"load", "mkdir trial">>, seed, "")
        \o SetupSteps(seed, Targeted) \o SetupSteps(seed, RebuildAll)
        \o Steps(<<"delete source", "read retained">>, seed, "")
        \o RemediationSteps(seed, first) \o Steps(<<"audit">>, seed, first)
        \o RemediationSteps(seed, second) \o Steps(<<"audit">>, seed, second)
        \o Steps(<<"clear">>, seed, Targeted) \o Steps(<<"clear">>, seed, RebuildAll)

RunTrials(seeds) ==
  LET upTo[i \in 0..Len(seeds)] == IF i = 0 THEN <<>> ELSE upTo[i - 1] \o RunTrial(seeds[i])
  IN  upTo[Len(seeds)]

\* main of the study; with --calibration-only it writes before __exit__.
StudyScript(s) ==
  Steps(<<"refuse existing", "mkdir output">>, 0, "") \o Enter
    \o RunTrials(s.calibration) \o Steps(<<"plan">>, 0, "")
    \o (IF s.only THEN Steps(<<"write">>, 0, "") \o Exit
        ELSE RunTrials(s.holdout) \o Exit \o Steps(<<"write">>, 0, ""))

\* main of the pilot; its one subject is number 0.
PilotScript ==
  Steps(<<"refuse existing", "start postgres", "started", "populate", "dump", "delete source",
          "audit before", "delete derived", "unlink dump", "audit after">>, 0, PilotCopy)
    \o Exit \o Steps(<<"write">>, 0, "")

ScriptOf(s) == IF s.program = "study" THEN StudyScript(s) ELSE PilotScript
Scripts == [s \in Studies |-> ScriptOf(s)]

StudyInit ==
  /\ study \in Studies
  /\ script = Scripts[study] /\ outcome = "running" /\ raising = FALSE /\ inside = FALSE
  /\ hosts = {} /\ left = {} /\ output = "none"
  /\ rows = {} /\ copies = [via \in Strategies \union {PilotCopy} |-> NoCopy] /\ dirs = {}
  /\ retained = {} /\ records = <<>> /\ selected = {} /\ result = <<>> /\ starts = 1

-----------------------------------------------------------------------------
(* The steps.                                                              *)

Next1 == Head(script)
Step(verbs) ==
  /\ outcome = "running" /\ script # <<>> /\ Next1.do \in verbs
  /\ script' = Tail(script)
  /\ UNCHANGED <<study, outcome, raising, left, starts>>

\* output.exists() raises; see Raise.
RefuseExistingOutput ==
  /\ Step({"refuse existing"}) /\ output = "none"
  /\ UNCHANGED <<inside, hosts, output, places, findings, result>>

MakeOutput ==
  /\ Step({"mkdir output"})
  /\ output' = "empty"
  /\ UNCHANGED <<inside, hosts, places, findings, result>>

StartService ==
  /\ Step({"start postgres", "start redis", "start qdrant"})
  /\ hosts' = hosts \union
       { CASE Next1.do = "start postgres" -> "postgres" [] Next1.do = "start redis" -> "redis"
           [] OTHER -> "qdrant" }
  /\ UNCHANGED <<inside, output, places, findings, result>>

\* __enter__ returns, or pg_ctl -w does: from now on the services are stopped.
Entered ==
  /\ Step({"ready", "started"})
  /\ inside' = TRUE
  /\ UNCHANGED <<hosts, output, places, findings, result>>

\* __exit__ does not look whether docker rm worked; the child processes are
\* killed if they do not end.  finally waits for pg_ctl.
StopServices ==
  /\ Step({"stop"})
  /\ hosts' \in {{}, hosts \intersect {"qdrant"}}
  /\ inside' = FALSE
  /\ UNCHANGED <<output, places, findings, result>>

OnStores(verbs) == Step(verbs) /\ UNCHANGED <<inside, hosts, output, result>>
OnCopies(verbs) == OnStores(verbs) /\ UNCHANGED <<rows, dirs, findings>>
OnSource(verbs) == OnStores(verbs) /\ UNCHANGED <<copies, dirs, findings>>

\* load_source
LoadSource == OnSource({"load"}) /\ rows' = People

MakeTrialDirectory ==
  /\ OnStores({"mkdir trial"}) /\ Next1.seed \notin dirs
  /\ dirs' = dirs \union {Next1.seed}
  /\ UNCHANGED <<rows, copies, findings>>

\* setup_derivatives
SetupDerivatives ==
  /\ OnCopies({"set vector", "set cache", "set backups", "set model"})
  /\ copies' = [copies EXCEPT ![Next1.via] =
       CASE Next1.do = "set vector" -> [@ EXCEPT !.vector = People]
         [] Next1.do = "set cache" -> [@ EXCEPT !.cache = People]
         [] Next1.do = "set backups" -> [@ EXCEPT !.key = People]
         [] OTHER -> [@ EXCEPT !.fit = People]]

DeleteSource == OnSource({"delete source"}) /\ rows' = rows \ {Target(Next1.seed)}

\* retained_source
ReadRetained ==
  /\ OnStores({"read retained"})
  /\ retained' = rows
  /\ UNCHANGED <<places, records, selected>>

\* targeted_remediation
TargetedRemediation ==
  /\ OnCopies({"delete point", "delete entry", "unlink key", "subtract"})
  /\ LET gone == {Target(Next1.seed)}
         copy == copies[Targeted]
     IN  copies' = [copies EXCEPT ![Targeted] =
           CASE Next1.do = "delete point" -> [copy EXCEPT !.vector = @ \ gone]
             [] Next1.do = "delete entry" -> [copy EXCEPT !.cache = @ \ gone]
             [] Next1.do = "unlink key" -> [copy EXCEPT !.key = @ \ gone]
             [] OTHER -> [copy EXCEPT !.fit = @ \ gone]]

\* rebuild_remediation.  Only backups of retained people are copied.
RebuildRemediation ==
  /\ OnCopies({"drop collection", "fill collection", "refill cache", "restage backups", "refit"})
  /\ LET copy == copies[RebuildAll]
     IN  copies' = [copies EXCEPT ![RebuildAll] =
           CASE Next1.do = "drop collection" -> [copy EXCEPT !.vector = {}]
             [] Next1.do = "fill collection" -> [copy EXCEPT !.vector = @ \union retained]
             [] Next1.do = "refill cache" -> [copy EXCEPT !.cache = (@ \ People) \union retained]
             [] Next1.do = "restage backups" -> [copy EXCEPT !.key = @ \intersect retained]
             [] OTHER -> [copy EXCEPT !.fit = retained]]

\* pcug_verdict: a store that holds the target is an active sink, and the
\* channel compares the weights with those of the retained rows.
PcugVerdict(copy, target) ==
  IF target \notin copy.vector \union copy.cache \union copy.key /\ copy.fit = retained
  THEN "COMPLETE" ELSE "INCOMPLETE"

Fewest(sizes) == CHOOSE n \in sizes : \A k \in sizes : n <= k

\* audit_strategy: the collection is counted, whoever its points are.
AuditStrategy ==
  /\ OnStores({"audit"})
  /\ LET copy == copies[Next1.via]
         target == Target(Next1.seed)
     IN  records' = Append(records,
           [seed |-> Next1.seed, via |-> Next1.via, target |-> target, stores |-> copy,
            verdict |-> PcugVerdict(copy, target),
            retained |-> Fewest({Cardinality(copy.vector),
                                 Cardinality(copy.cache \intersect retained),
                                 Cardinality(copy.key \intersect retained)})])
  /\ UNCHANGED <<places, retained, selected>>

\* Only the collection and the cache are cleared; the directory stays.
ClearCopies ==
  /\ OnCopies({"clear"})
  /\ copies' = [copies EXCEPT ![Next1.via].vector = {}, ![Next1.via].cache = @ \ People]

-----------------------------------------------------------------------------
(* Planning and writing.                                                   *)

Components == {"vector", "cache", "backup", "model"}
ClosesOf(action) == IF action = "rebuild-all" THEN Components ELSE {action}
Actions == Components \union {"rebuild-all"}

CostOfPlan(chosen, timing) ==
  Cardinality(chosen \ {"rebuild-all"}) * timing.part
    + (IF "rebuild-all" \in chosen THEN timing.whole ELSE 0)

\* exact_cdc on the measured costs: the cheapest set of actions, then the
\* smallest, that closes every sink and passes the channel.
PlannerFromCalibration ==
  /\ OnStores({"plan"})
  /\ \E timing \in Timings :
       LET complete == { S \in SUBSET Actions : UNION {ClosesOf(a) : a \in S} = Components }
           Better(S, R) == \/ CostOfPlan(S, timing) < CostOfPlan(R, timing)
                           \/ /\ CostOfPlan(S, timing) = CostOfPlan(R, timing)
                              /\ Cardinality(S) < Cardinality(R)
       IN  selected' = CHOOSE S \in complete : \A R \in complete : ~ Better(R, S)
  /\ UNCHANGED <<places, retained, records>>

IsHoldout(record) == \E i \in DOMAIN study.holdout : study.holdout[i] = record.seed

\* paired_summary and the gates; what the clock and the byte counts say is
\* one of the timings.
Decision(timing) ==
  LET judged == { i \in DOMAIN records : IsHoldout(records[i]) }
  IN  IF /\ \A i \in judged : /\ records[i].verdict = "COMPLETE"
                              /\ records[i].retained = study.people - 1
         /\ timing.faster /\ timing.smaller
      THEN "PASS" ELSE "FAIL"

WriteResult ==
  /\ Step({"write"})
  /\ output' = "result"
  /\ \E timing \in Timings :
       result' = IF study.program = "pilot" \/ study.only THEN <<"measured">>
                 ELSE <<Decision(timing), timing>>
  /\ UNCHANGED <<inside, hosts, places, findings>>

-----------------------------------------------------------------------------
(* The pilot.                                                              *)

Populate ==
  /\ OnStores({"populate"})
  /\ rows' = {0} /\ copies' = [copies EXCEPT ![PilotCopy].vector = {0}]
  /\ UNCHANGED <<dirs, findings>>

Dump == OnCopies({"dump"}) /\ copies' = [copies EXCEPT ![PilotCopy].key = rows]
DeleteDerived == OnCopies({"delete derived"}) /\ copies' = [copies EXCEPT ![PilotCopy].vector = {}]
UnlinkDump == OnCopies({"unlink dump"}) /\ copies' = [copies EXCEPT ![PilotCopy].key = {}]

\* audit_graph: the table is counted before the deletion and taken for empty
\* after it; the dump is looked for both times.
AuditGraph ==
  /\ OnStores({"audit before", "audit after"})
  /\ LET copy == copies[PilotCopy]
         derived == Next1.do = "audit before" /\ copy.vector # {}
     IN  records' = Append(records,
           [seed |-> 0, via |-> PilotCopy, target |-> 0, stores |-> copy,
            verdict |-> IF derived \/ copy.key # {} THEN "INCOMPLETE" ELSE "COMPLETE",
            retained |-> 0])
  /\ UNCHANGED <<places, retained, selected>>

-----------------------------------------------------------------------------
(* Failures.                                                               *)

\* A mutant: nothing runs when an exception passes.
WithoutExit == <<>>

\* What the context manager, or finally, does when an exception passes.  An
\* exception inside __enter__ does not reach __exit__.
OnException == IF inside THEN Exit ELSE <<>>

\* A command fails, a request or a wait times out, a directory exists.  The
\* clean-up of the study ignores the failures of its own commands, the one of
\* the pilot is a command like any other.
Raise ==
  /\ outcome = "running" /\ script # <<>>
  /\ Next1.do = "stop" => study.program = "pilot"
  /\ raising' = TRUE
  /\ script' = IF Next1.do = "stop" THEN <<>> ELSE OnException
  /\ UNCHANGED <<study, outcome, inside, hosts, left, output, places, findings, result, starts>>

Return ==
  /\ outcome = "running" /\ script = <<>>
  /\ outcome' = IF raising THEN "raised" ELSE "done"
  /\ UNCHANGED <<study, script, raising, inside, hosts, left, output, places, findings, result, starts>>

\* The services are processes and a container of their own and live on.
KillStudy ==
  /\ outcome = "running"
  /\ outcome' = "killed"
  /\ UNCHANGED <<study, script, raising, inside, hosts, left, output, places, findings, result, starts>>

\* The experiment is started again: a new temporary directory, new ports and
\* new services, the same output.
StartAgain ==
  /\ outcome # "running" /\ starts < MaxRuns
  /\ starts' = starts + 1 /\ script' = Scripts[study] /\ outcome' = "running"
  /\ raising' = FALSE /\ inside' = FALSE
  /\ left' = left \union hosts /\ hosts' = {}
  /\ rows' = {} /\ copies' = [via \in DOMAIN copies |-> NoCopy] /\ dirs' = {}
  /\ retained' = {} /\ records' = <<>> /\ selected' = {}
  /\ UNCHANGED <<study, output, result>>

StudyEnded == outcome # "running" /\ starts = MaxRuns /\ UNCHANGED studyVars

StudyNext ==
  \/ RefuseExistingOutput \/ MakeOutput \/ StartService \/ Entered \/ StopServices
  \/ LoadSource \/ MakeTrialDirectory \/ SetupDerivatives \/ DeleteSource \/ ReadRetained
  \/ TargetedRemediation \/ RebuildRemediation \/ AuditStrategy \/ ClearCopies
  \/ PlannerFromCalibration \/ WriteResult
  \/ Populate \/ Dump \/ DeleteDerived \/ UnlinkDump \/ AuditGraph
  \/ Raise \/ Return \/ KillStudy \/ StartAgain \/ StudyEnded

StudySpec == StudyInit /\ [][StudyNext]_studyVars

-----------------------------------------------------------------------------
\* A COMPLETE verdict is true of the stores that were audited: the target is in
\* no copy and in no model.  A study that passes has, in every holdout trial and
\* in the copies of both strategies, kept every other person in every store,
\* although the audit only counts what is left; one that nothing disturbs passes
\* when it is fast and small enough.  The planner never mixes the strategies,
\* and the pilot's second verdict is COMPLETE, after a first that is not.
MeasuredErasureIsReal ==
  /\ \A i \in DOMAIN records :
       LET r == records[i]
       IN  r.verdict = "COMPLETE" =>
             r.target \notin r.stores.vector \union r.stores.cache \union r.stores.key
                              \union r.stores.fit
  /\ outcome = "done" /\ result # <<>> /\ result[1] = "PASS" =>
       \A i \in DOMAIN study.holdout : \A via \in Strategies :
         LET others == People \ {Target(study.holdout[i])}
         IN  \E j \in DOMAIN records :
               /\ records[j].seed = study.holdout[i] /\ records[j].via = via
               /\ records[j].stores = [vector |-> others, cache |-> others, key |-> others,
                                       fit |-> others]
  /\ outcome = "done" /\ result # <<>> /\ result[1] = "FAIL" =>
       ~ (result[2].faster /\ result[2].smaller)
  /\ selected \in {{}, Components, {"rebuild-all"}}
  /\ outcome = "done" /\ study.program = "pilot" =>
       [i \in DOMAIN records |-> records[i].verdict] = <<"INCOMPLETE", "COMPLETE">>

\* A process that ends by itself has stopped the services it started, but for
\* the container, whose removal nobody checks, unless it failed while it was
\* starting them, or the pilot could not stop its cluster; and no study comes to
\* a result while services of an earlier process share the machine with it.
StudyCleansUp ==
  /\ outcome \in {"done", "raised"} /\ ~ (hosts \subseteq {"qdrant"}) =>
       \/ rows = {} /\ dirs = {} /\ records = <<>>
       \/ study.program = "pilot" /\ inside
  /\ study.program = "study" /\ outcome = "done" => left = {}
=============================================================================
