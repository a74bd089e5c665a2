----------------------------- MODULE TofuCampaign -----------------------------
(***************************************************************************)
(* The Qwen-TOFU campaigns run_qwen_tofu_kaggle_v1, _v2 and _v3 (with its  *)
(* smoke run and its development shards) and their offline verifiers.  Two *)
(* processes may be started on one output directory, the protocol file may *)
(* be edited while they run, a measurement may fail, a process is killed   *)
(* between two steps or inside a write.  A file is its content, which is   *)
(* what its SHA-256 stands for; a protocol is its version.                 *)
(***************************************************************************)
EXTENDS TofuSelection

CONSTANTS
  Protocols,         \* versions: [frozen, seeds, bar, recipe, authors]
  Worlds,            \* what the development measures: tables, one per unit
  Measures,          \* what a confirmation trial may measure
  Tables, Alphas,    \* developments the selection is checked on, alphas of a path
  Width,             \* minimum_contiguous_feasible_alphas
  Scenarios          \* [world, start: the campaigns started on the directory,
                     \*  left: how many edits, failures and kills to come]

ASSUME WidthAssumption == Width \in Nat \ {0} /\ Alphas \in Nat

\* The two confirmation seeds of the version that a run starts with differ.
ASSUME SeedsAssumption ==
  /\ 1 \in DOMAIN Protocols
  /\ Protocols[1].seeds[1] # Protocols[1].seeds[2]

\* A number stands for a split of the author blocks, 0 for none read.
NotRead == 0
ASSUME AuthorsAssumption ==
  \A v \in DOMAIN Protocols : v # NotRead /\ Protocols[v].authors \in Nat \ {NotRead}

ASSUME ScenariosAssumption ==
  \A s \in Scenarios : s.world \in DOMAIN Worlds
                       /\ s.start \in Seq({"v1", "v2", "v3", "smoke", "shard"})

\* Every development unit scores each alpha of each path, and the bars and
\* metrics are numbers.
Metrics == [gain : Int, gap : Int, speed : Int]
ASSUME TablesAssumption ==
  /\ \A v \in DOMAIN Protocols : Protocols[v].bar \in Metrics
  /\ \A tables \in Tables :
       /\ tables \in Seq(Seq(Seq(Metrics))) /\ tables # <<>>
       /\ \A unit \in DOMAIN tables :
            /\ DOMAIN tables[unit] = DOMAIN tables[1]
            /\ \A path \in DOMAIN tables[1] :
                 /\ DOMAIN tables[unit][path] = DOMAIN tables[1][path]
                 /\ Len(tables[1][path]) <= Alphas

Step(op, arg) == [op |-> op, arg |-> arg]
Do(op) == Step(op, "nothing")
Write(name) == Step("write", name)

\* A block is trained and scored with one of the two confirmation seeds.
Confirm(block, seed) == Step("confirm", <<block, seed>>)

V1Program ==
  <<Do("readProtocol"), Do("makeRoot"), Do("openData"),
    Confirm("only", 1), Write("trials"), Confirm("only", 2), Write("trials"),
    Write("summary"), Write("manifest")>>

\* A mutant: the choice is written once it has been confirmed.
V2ConfirmsFirst ==
  <<Do("readProtocol"), Do("makeRoot"), Do("openData"),
    Do("train"), Do("develop"), Do("train"), Do("develop"), Do("select"),
    Confirm("only", 1), Do("baseline"), Confirm("only", 2), Do("baseline"),
    Write("development"), Write("trials"), Write("baselines"), Write("summary"),
    Write("manifest")>>

\* Two development seeds; a target is trained and the fold prepared before the
\* grid is evaluated, as before the paths of v3.  The choice is written before
\* the rows that confirm it are looked at.
V2Program ==
  <<Do("readProtocol"), Do("makeRoot"), Do("openData"),
    Do("train"), Do("develop"), Do("train"), Do("develop"),
    Do("select"), Write("development"),
    Confirm("only", 1), Do("baseline"), Confirm("only", 2), Do("baseline"),
    Write("trials"), Write("baselines"), Write("summary"), Write("manifest")>>

\* From "look" to the first state, the steps are those of EvidenceJournal.__init__.
V3Program ==
  <<Do("readProtocol"), Do("look"), Do("parseProtocol"), Do("hashProtocol"),
    Do("makeRoot"), Write("state-00"), Do("openData"),
    Do("train"), Do("develop"), Do("train"), Do("develop"), Do("select"),
    Write("development"), Write("state-01"), Write("selection"), Write("state-02"),
    Do("openConfirmation"),
    Confirm("primary", 1), Do("baseline"), Confirm("replication", 1), Do("baseline"),
    Confirm("primary", 2), Do("baseline"), Confirm("replication", 2), Do("baseline"),
    Write("trials"), Write("baselines"), Write("state-03"),
    Do("relearn"), Write("secondary"), Write("state-04"),
    Write("summary"), Write("state-05"), Write("manifest")>>

\* What v3 turns to without a candidate.
EmptyProgram ==
  <<Write("development"), Write("state-01"), Write("summary"), Write("state-05"),
    Write("manifest")>>

SmokeProgram ==
  <<Do("look"), Do("parseProtocol"), Do("hashProtocol"), Do("makeRoot"),
    Write("state-00"), Write("development"), Write("state-01"), Write("summary"),
    Write("state-05"), Write("manifest")>>

ShardProgram ==
  <<Do("readProtocol"), Do("look"), Do("makeRoot"), Do("openData"), Do("train"),
    Do("develop"), Write("shard-trials"), Write("shard-manifest")>>

Programs ==
  [v1 |-> V1Program, v2 |-> V2Program, v3 |-> V3Program, empty |-> EmptyProgram,
   smoke |-> SmokeProgram, shard |-> ShardProgram]

-----------------------------------------------------------------------------
VARIABLES
  protocol,      \* the version of the protocol file
  root,          \* the output directory exists
  files,         \* its files
  measurable,    \* what the development will measure
  proc,          \* the processes: their program, its counter and their locals
  views,         \* what each has of the author split from files read later
  early,         \* the protocol was edited before there was a root
  left,          \* disturbances to come
  quiet,         \* there was none
  swapped        \* views before or within whose reading it was edited

faults == <<early, left, quiet, swapped>>
tofuVars == <<protocol, root, files, measurable, proc, views, faults>>

Fresh(kind) ==
  [kind |-> kind, pc |-> 1, status |-> "running", proto |-> 1, hash |-> 1,
   journal |-> "none", selected |-> NoCandidate, trials |-> <<>>]

\* The split the process develops with; for load_confirmation_view the hash it
\* expects, the split it has read, and the split the process confirms with.
Unopened == [developed |-> NotRead, expected |-> NotRead, read |-> NotRead,
             confirmed |-> NotRead]

TofuInit ==
  /\ protocol = 1
  /\ root = FALSE
  /\ files = <<>>
  /\ \E s \in Scenarios :
       /\ measurable = s.world
       /\ proc = [i \in DOMAIN s.start |-> Fresh(s.start[i])]
       /\ views = [i \in DOMAIN s.start |-> Unopened]
       /\ left = s.left
  /\ early = FALSE
  /\ quiet = TRUE
  /\ swapped = {}

Here(p) == Programs[proc[p].kind][proc[p].pc]
Doing(p, op) == proc[p].status = "running" /\ Here(p).op = op
IsV3(p) == proc[p].kind \in {"v3", "empty", "smoke"}

\* The process p with its locals as in "next", one step further.
Advance(p, next) ==
  proc' = [proc EXCEPT ![p] =
             [next EXCEPT !.pc = @ + 1,
                          !.status = IF proc[p].pc = Len(Programs[next.kind])
                                     THEN "done" ELSE "running"]]
Raise(p) == proc' = [proc EXCEPT ![p].status = "raised"]

Disturb ==
  /\ left > 0
  /\ left' = left - 1
  /\ quiet' = FALSE

-----------------------------------------------------------------------------
(* Before the first measurement.                                            *)

OnDisk == UNCHANGED <<protocol, root, files, measurable, faults>>

ReadProtocol(p) ==
  /\ Doing(p, "readProtocol")
  /\ Advance(p, [proc[p] EXCEPT !.proto = protocol])
  /\ OnDisk

\* EvidenceJournal.__init__ reads the file once more for its content and
\* once more for its hash.
Look(p) == Doing(p, "look") /\ (IF root THEN Raise(p) ELSE Advance(p, proc[p])) /\ OnDisk
ParseProtocol(p) ==
  /\ Doing(p, "parseProtocol")
  /\ IF Protocols[protocol].frozen THEN Advance(p, proc[p]) ELSE Raise(p)
  /\ OnDisk
HashProtocol(p) ==
  /\ Doing(p, "hashProtocol")
  /\ Advance(p, [proc[p] EXCEPT !.hash = protocol])
  /\ OnDisk

MakeRoot(p) ==
  /\ Doing(p, "makeRoot")
  /\ IF root THEN Raise(p) /\ UNCHANGED root ELSE Advance(p, proc[p]) /\ root' = TRUE
  /\ UNCHANGED <<protocol, files, measurable, faults>>

\* _load_rows, or _load_common_inputs and load_development_view, which reads the
\* protocol file again, for its status and for the authors to develop with.
OpenData(p) ==
  /\ Doing(p, "openData")
  /\ IF proc[p].kind \notin {"v3", "shard"}
     THEN Advance(p, proc[p]) /\ UNCHANGED views
     ELSE IF Protocols[protocol].frozen
          THEN /\ Advance(p, proc[p])
               /\ views' = [views EXCEPT ![p].developed = Protocols[protocol].authors]
          ELSE Raise(p) /\ UNCHANGED views
  /\ OnDisk

-----------------------------------------------------------------------------
(* Measuring and selecting.                                                 *)

\* Training and evaluation leave the root's files alone.
Computes(p, op) == Doing(p, op) /\ Advance(p, proc[p]) /\ OnDisk
TrainTarget(p) == Computes(p, "train")
EvaluatePaths(p) == Computes(p, "develop")
RunBaselines(p) == Computes(p, "baseline")
Relearn(p) == Computes(p, "relearn")

RobustChoice ==
  [w \in DOMAIN Worlds |-> [v \in DOMAIN Protocols |->
     SelectRobustPoint(Points(Worlds[w], Protocols[v].bar), Width)]]
GridChoice ==
  [w \in DOMAIN Worlds |-> [v \in DOMAIN Protocols |->
     SelectDevelopmentCandidate(Worlds[w], Protocols[v].bar)]]

Choice(kind, version) ==
  IF kind = "v2" THEN GridChoice[measurable][version] ELSE RobustChoice[measurable][version]

\* Without a robust candidate v3 turns to sealing what it has; v2 always has
\* a candidate.
SelectPoint(p) ==
  /\ Doing(p, "select")
  /\ LET choice == Choice(proc[p].kind, proc[p].proto)
     IN  IF proc[p].kind = "v3" /\ choice = NoCandidate
         THEN proc' = [proc EXCEPT ![p].kind = "empty", ![p].pc = 1]
         ELSE Advance(p, [proc[p] EXCEPT !.selected = choice])
  /\ OnDisk

Intact(name) == name \in DOMAIN files /\ ~ files[name].torn

\* _confirmation_view hashes the protocol file; load_confirmation_view then reads
\* it for its status and the authors to confirm with, and hashes it once more.
HashExpected(p) ==
  /\ Doing(p, "openConfirmation") /\ views[p].expected = NotRead
  /\ views' = [views EXCEPT ![p].expected = protocol]
  /\ UNCHANGED proc /\ OnDisk

ReadConfirmation(p) ==
  /\ Doing(p, "openConfirmation") /\ views[p].expected # NotRead
  /\ views[p].read = NotRead
  /\ IF Protocols[protocol].frozen
     THEN /\ views' = [views EXCEPT ![p].read = Protocols[protocol].authors]
          /\ UNCHANGED proc
     ELSE Raise(p) /\ UNCHANGED views
  /\ OnDisk

OpenConfirmation(p) ==
  /\ Doing(p, "openConfirmation") /\ views[p].read # NotRead
  /\ IF /\ views[p].expected = protocol
        /\ Intact("selection") /\ files["selection"].hash = protocol
     THEN /\ Advance(p, proc[p])
          /\ views' = [views EXCEPT ![p].confirmed = views[p].read]
     ELSE Raise(p) /\ UNCHANGED views
  /\ OnDisk

ConfirmTrial(p) ==
  /\ Doing(p, "confirm")
  /\ \E measured \in Measures :
       Advance(p, [proc[p] EXCEPT !.trials = Append(@,
         [block |-> Here(p).arg[1],
          seed |-> Protocols[proc[p].proto].seeds[Here(p).arg[2]],
          config |-> proc[p].selected, recipe |-> Protocols[proc[p].proto].recipe,
          measured |-> measured])])
  /\ OnDisk

\* A training that diverges, a score that is not defined, no memory, no data.
Fail(p) ==
  /\ proc[p].status = "running"
  /\ Here(p).op \in {"openData", "train", "develop", "confirm", "baseline", "relearn"}
  /\ Disturb /\ Raise(p)
  /\ UNCHANGED <<protocol, root, files, measurable, early, swapped>>

-----------------------------------------------------------------------------
(* Writing.                                                                 *)

States == <<"state-00", "state-01", "state-02", "state-03", "state-04", "state-05">>
Measured(trials) == [i \in DOMAIN trials |-> trials[i].measured]
OfBlock(trials, block) == SelectSeq(trials, LAMBDA t : t.block = block)

Rulings(trials, bar) ==
  LET combined == Summarize(Measured(trials), bar)
      Of(block) == Summarize(Measured(OfBlock(trials, block)), bar)
  IN  IF OfBlock(trials, "primary") = <<>> THEN [combined |-> combined]
      ELSE [combined |-> combined, primary |-> Of("primary"),
            replication |-> Of("replication")]

Bar(p) == Protocols[proc[p].proto].bar

\* A mutant: the journal takes the hash when it seals.
RecordedHashLate(p) == protocol

\* v3 records the hash its journal took, the others the file of this moment.
RecordedHash(p) == IF IsV3(p) THEN proc[p].hash ELSE protocol

DevelopmentDecision(p) ==
  CASE proc[p].kind = "smoke" -> "NON_SCIENTIFIC_SMOKE"
    [] proc[p].kind = "empty" -> "NO_CANDIDATE"
    [] OTHER -> "CANDIDATE_AVAILABLE"

\* The writer, and a write that is not cut, are part of every content.
Content(p, name) ==
  CASE name \in ToSet(States) ->
         [by |-> p, torn |-> FALSE, state |-> name,
          previous |-> IF proc[p].journal = "none" THEN <<>>
                       ELSE <<files[proc[p].journal]>>]
    [] name = "development" ->
         [by |-> p, torn |-> FALSE,
          decision |-> DevelopmentDecision(p), bar |-> Bar(p), selected |-> proc[p].selected]
    [] name = "selection" ->
         [by |-> p, torn |-> FALSE,
          selected |-> proc[p].selected, hash |-> RecordedHash(p),
          development |-> files["development"]]
    [] name = "trials" -> [by |-> p, torn |-> FALSE, rows |-> proc[p].trials]
    [] name \in {"baselines", "shard-trials"} -> [by |-> p, torn |-> FALSE, rows |-> <<>>]
    [] name = "secondary" ->
         [by |-> p, torn |-> FALSE, of |-> {<<t.block, t.seed>> : t \in ToSet(proc[p].trials)}]
    [] name = "summary" ->
         [by |-> p, torn |-> FALSE,
          hash |-> RecordedHash(p), selected |-> proc[p].selected,
          decision |-> IF proc[p].trials = <<>> THEN DevelopmentDecision(p)
                       ELSE Summarize(Measured(proc[p].trials), Bar(p)).decision,
          rulings |-> IF proc[p].trials = <<>> THEN <<>>
                      ELSE Rulings(proc[p].trials, Bar(p))]
    [] name \in {"manifest", "shard-manifest"} ->
         [by |-> p, torn |-> FALSE, files |-> files, hash |-> RecordedHash(p)]

\* The directory with one file written.
Put(name, content) ==
  [n \in DOMAIN files \union {name} |-> IF n = name THEN content ELSE files[n]]

\* _write_once and _transition of v3, whose guards look at the journal and
\* the directory; v1 appends its trials, v1, v2 and the shards write over.
MayWrite(p, name) ==
  IsV3(p) =>
    /\ name \notin DOMAIN files
    /\ name = "selection" => files["development"].decision = "CANDIDATE_AVAILABLE"
    /\ name = "trials" => Intact("selection")

WriteFile(p) ==
  /\ Doing(p, "write")
  /\ LET name == Here(p).arg
     IN  IF MayWrite(p, name)
         THEN /\ files' = Put(name, Content(p, name))
              /\ Advance(p, IF name \in ToSet(States)
                            THEN [proc[p] EXCEPT !.journal = name] ELSE proc[p])
         ELSE Raise(p) /\ UNCHANGED files
  /\ UNCHANGED <<protocol, root, measurable, faults>>

\* A write that is cut leaves the file short.
Kill(p) ==
  /\ proc[p].status = "running"
  /\ Disturb
  /\ proc' = [proc EXCEPT ![p].status = "killed"]
  /\ \/ UNCHANGED files
     \/ /\ Here(p).op = "write" /\ MayWrite(p, Here(p).arg)
        /\ files' = Put(Here(p).arg, [by |-> p, torn |-> TRUE])
  /\ UNCHANGED <<protocol, root, measurable, early, swapped>>

\* Between the two hashes of load_confirmation_view.
Confirming(p) == views[p].expected # NotRead /\ views[p].confirmed = NotRead

\* Somebody edits the protocol file, or puts it back.
Edit ==
  /\ Disturb
  /\ protocol' \in DOMAIN Protocols \ {protocol}
  /\ early' = (early \/ ~ root)
  /\ swapped' = swapped
       \union {<<p, "development">> : p \in {q \in DOMAIN proc : views[q].developed = NotRead}}
       \union {<<p, "confirmation">> : p \in {q \in DOMAIN proc : Confirming(q)}}
  /\ UNCHANGED <<root, files, measurable, proc, views>>

Ended ==
  /\ \A p \in DOMAIN proc : proc[p].status # "running"
  /\ UNCHANGED tofuVars

TofuNext ==
  \/ \E p \in DOMAIN proc :
       \/ /\ \/ ReadProtocol(p) \/ Look(p) \/ ParseProtocol(p) \/ HashProtocol(p)
             \/ MakeRoot(p) \/ TrainTarget(p) \/ EvaluatePaths(p) \/ RunBaselines(p)
             \/ Relearn(p) \/ SelectPoint(p) \/ ConfirmTrial(p) \/ Fail(p)
             \/ WriteFile(p) \/ Kill(p)
          /\ UNCHANGED views
       \/ OpenData(p) \/ HashExpected(p) \/ ReadConfirmation(p) \/ OpenConfirmation(p)
  \/ Edit
  \/ Ended

TofuSpec == TofuInit /\ [][TofuNext]_tofuVars

-----------------------------------------------------------------------------
(* The verifiers, with the protocol that is on disk when they run.          *)

BarNow == Protocols[protocol].bar
Wanted(blocks) == {<<b, Protocols[protocol].seeds[i]>> : b \in blocks, i \in 1..2}
Rows == files["trials"].rows
Covered == {<<r.block, r.seed>> : r \in ToSet(Rows)}
Summary == files["summary"]
AllIntact(names) == \A name \in names : Intact(name)
AllBut(names) == [name \in DOMAIN files \ names |-> files[name]]

\* scripts/verify_qwen_tofu_kaggle_v1.py
VerifiesV1 ==
  /\ AllIntact({"summary", "trials", "manifest"})
  /\ files["manifest"].files = AllBut({"manifest"})
  /\ files["manifest"].hash = protocol /\ Summary.hash = protocol
  /\ Covered = Wanted({"only"})
  /\ Summary.rulings = Rulings(Rows, BarNow)

\* A mutant: the published decision is believed.
VerifiesV2Trusting ==
  /\ AllIntact({"baselines", "development", "summary", "trials", "manifest"})
  /\ files["manifest"].files = AllBut({"manifest"})
  /\ files["manifest"].hash = protocol /\ Summary.hash = protocol
  /\ files["development"].selected = GridChoice[measurable][protocol]
  /\ Covered = Wanted({"only"})

\* scripts/verify_qwen_tofu_kaggle_v2.py
VerifiesV2 ==
  /\ AllIntact({"baselines", "development", "summary", "trials", "manifest"})
  /\ files["manifest"].files = AllBut({"manifest"})
  /\ files["manifest"].hash = protocol /\ Summary.hash = protocol
  /\ \A path \in DOMAIN Worlds[measurable][1] :
       LET of == [u \in DOMAIN Worlds[measurable] |-> Worlds[measurable][u][path][1]]
       IN  Summarize(of, files["development"].bar) = Summarize(of, BarNow)
  /\ files["development"].selected = GridChoice[measurable][protocol]
  /\ Covered = Wanted({"only"})
  /\ \A r \in ToSet(Rows) : r.config = GridChoice[measurable][protocol]
  /\ Summary.rulings = Rulings(Rows, BarNow)
  /\ Summary.selected = GridChoice[measurable][protocol]

\* The states that were written, by their number.
Present == {i \in DOMAIN States : States[i] \in DOMAIN files}
PresentBefore(i) == {j \in Present : j < i}

\* A mutant: one state more.
StateChainOfFour == Cardinality(Present) > 3 /\ 6 \in Present

\* _verify_state_chain
StateChain ==
  /\ Cardinality(Present) >= 3
  /\ \A i \in Present :
       /\ Intact(States[i])
       /\ files[States[i]].previous =
            IF PresentBefore(i) = {} THEN <<>> ELSE <<files[States[Max(PresentBefore(i))]]>>
  /\ 6 \in Present

\* _replay_selection: the published points are those of this protocol.
Replays(point) ==
  /\ Intact("development")
  /\ Points(Worlds[measurable], files["development"].bar) = Points(Worlds[measurable], BarNow)
  /\ point = RobustChoice[measurable][protocol]

\* scripts/verify_qwen_tofu_kaggle_v3.py with allow_smoke
VerifiesV3 ==
  /\ Protocols[protocol].frozen
  /\ AllIntact({"manifest", "summary"})
  /\ files["manifest"].hash = protocol /\ files["manifest"].files = AllBut({"manifest"})
  /\ StateChain
  /\ Summary.hash = protocol
  /\ \/ Summary.decision = "NON_SCIENTIFIC_SMOKE"
     \/ /\ Summary.decision = "NO_CANDIDATE"
        /\ {"selection", "trials"} \intersect DOMAIN files = {}
        /\ Replays(NoCandidate) /\ files["development"].decision = "NO_CANDIDATE"
     \/ /\ Summary.decision \in {"PASS", "FAIL"}
        /\ AllIntact({"selection", "trials", "baselines", "secondary"})
        /\ Replays(files["selection"].selected)
        /\ files["selection"].selected # NoCandidate
        /\ files["selection"].hash = protocol
        /\ files["selection"].development = files["development"]
        /\ Covered = Wanted({"primary", "replication"}) /\ Len(Rows) = Cardinality(Covered)
        /\ Summary.rulings = Rulings(Rows, BarNow)
        /\ Summary.decision = Summary.rulings.combined.decision
        /\ files["secondary"].of = Covered

\* scripts/verify_qwen_tofu_kaggle_v3_shard.py
VerifiesShard ==
  /\ AllIntact({"shard-trials", "shard-manifest"})
  /\ files["shard-manifest"].hash = protocol
  /\ files["shard-manifest"].files = AllBut({"shard-manifest"})

Verifies(kind) ==
  CASE kind = "v1" -> VerifiesV1
    [] kind = "v2" -> VerifiesV2
    [] kind \in {"v3", "empty", "smoke"} -> VerifiesV3
    [] kind = "shard" -> VerifiesShard

-----------------------------------------------------------------------------
(* Properties.                                                              *)

\* Whatever happened to the protocol file during the run, a result that its
\* verifier accepts says what the protocol on disk says of the trials: the
\* decision is that protocol's, every trial measured the configuration which
\* that protocol selects from the development, and a result without a
\* candidate has no trial.
AcceptedIsDue ==
  /\ VerifiesV1 => Summary.decision = Summarize(Measured(Rows), BarNow).decision
  /\ VerifiesV2 \/ (VerifiesV3 /\ Summary.decision \in {"PASS", "FAIL"}) =>
       /\ Summary.decision = Summarize(Measured(Rows), BarNow).decision
       /\ \A r \in ToSet(Rows) : r.config = Choice(proc[files["summary"].by].kind, protocol)
  /\ VerifiesV3 /\ Summary.decision = "NO_CANDIDATE" =>
       /\ RobustChoice[measurable][protocol] = NoCandidate
       /\ \A p \in DOMAIN proc : proc[p].trials = <<>>

\* v3 takes the hash before it creates the directory, so a result that v3's
\* verifier accepts was measured with the recipe of the protocol it names, unless
\* the file was edited before there was a directory; an edit that is undone before
\* the verifier runs makes no difference.  The authors are those of later, unhashed
\* reads: they are that protocol's too, unless an edit fell between the directory
\* and the development view, or between the two hashes of the confirmation view.
\* In those two windows a version put in and out again escapes the verifier.
RanItsProtocol ==
  VerifiesV3 /\ ~ early =>
    LET p == Summary.by
        Unless(view, split) ==
          <<p, view>> \in swapped \/ split = Protocols[protocol].authors
    IN  /\ \A r \in ToSet(proc[p].trials) : r.recipe = Protocols[protocol].recipe
        /\ proc[p].kind # "smoke" => Unless("development", views[p].developed)
        /\ proc[p].kind = "v3" => Unless("confirmation", views[p].confirmed)

\* A confirmation trial is measured only when the choice that it measures is
\* on disk: for v3 in a committed selection that no later step has changed.
ConfirmationIsBlind ==
  \A p \in DOMAIN proc : \A t \in ToSet(proc[p].trials) :
    /\ proc[p].kind = "v3" =>
         /\ AllIntact({"development", "selection", "state-02"})
         /\ files["selection"].by = p /\ files["selection"].selected = t.config
         /\ files["selection"].development = files["development"]
    /\ proc[p].kind = "v2" =>
         /\ Intact("development")
         /\ files["development"].by = p /\ files["development"].selected = t.config

\* A process that ends by itself, with nobody interfering, leaves a result
\* that its verifier accepts; the other process then left it alone.
QuietRunIsAccepted ==
  \A p \in DOMAIN proc :
    proc[p].status = "done" /\ quiet => Verifies(proc[p].kind)

\* The selection by one pass is what the protocol's selection order says:
\* there is a candidate iff some path has Width feasible alphas in a row, and
\* then it is the lower middle of a run which cannot be extended, no other
\* such run comes before its run, and its own trials pass the gates.
IsRun(row, lo, hi) ==
  /\ \A a \in lo..hi : row[a].feasible
  /\ \A a \in {lo - 1, hi + 1} \intersect DOMAIN row : ~ row[a].feasible
Runs(points) ==
  {r \in (DOMAIN points) \X (1..Alphas) \X (1..Alphas) :
     /\ r[3] \in DOMAIN points[r[1]] /\ r[3] - r[2] >= Width - 1
     /\ IsRun(points[r[1]], r[2], r[3])}
IsRobust(tables, bar) ==
  LET points == Points(tables, bar)
      chosen == SelectRobustPoint(points, Width)
      Key(r) == IntervalKey(SubSeq(points[r[1]], r[2], r[3]))
  IN  IF Runs(points) = {} THEN chosen = NoCandidate
      ELSE /\ \E best \in Runs(points) :
                /\ chosen = [path |-> best[1], alpha |-> (best[2] + best[3]) \div 2]
                /\ \A r \in Runs(points) : ~ Before(Key(r), Key(best))
           /\ Summarize([u \in DOMAIN tables |-> tables[u][chosen.path][chosen.alpha]],
                        bar).decision = "PASS"
SelectionIsRobust ==
  quiet /\ (\A p \in DOMAIN proc : proc[p].pc = 1) =>
    \A bar \in {Protocols[v].bar : v \in DOMAIN Protocols}, tables \in Tables :
      IsRobust(tables, bar)
=============================================================================
