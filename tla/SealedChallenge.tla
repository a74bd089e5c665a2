---------------------------- MODULE SealedChallenge ----------------------------
(***************************************************************************)
(* A sealed challenge from its authorship to its verification.  The        *)
(* evaluator and the project run the tools of ChallengeTools one after the *)
(* other on files they share.  Around and inside each step a file may be   *)
(* replaced or deleted by hand, the worktree may be edited or moved to     *)
(* another commit, a tool may be killed, and any tool may be run again.    *)
(***************************************************************************)
EXTENDS ChallengeTools

CONSTANTS
  Scenarios,   \* [kind, suite, inside: the files are kept in the worktree,
               \*  left: how many disturbances to come]
  Suites,      \* what the author may replace the suite by
  Substitutes, \* what public cases may be replaced by
  Built        \* the cases that build_source_cases makes of a source manifest, and
               \* their verdicts, both of its families and mapping ids only

SuiteRecords == [public : Publics, truth : {"t1", "t2"}]

ASSUME ScenariosAssumption ==
  \A s \in Scenarios : s.kind \in DOMAIN Books /\ s.suite \in SuiteRecords
ASSUME SuitesAssumption == Suites \subseteq SuiteRecords
ASSUME BuiltAssumption == \A p \in Publics : Built[p] \in SuiteRecords

VARIABLES
  kind, inside,
  disk,        \* the content of each file
  at, line,    \* the tool that runs, or is next (line = 0), and its statement
  mem, bytes,  \* what it parsed, what it hashed
  code,        \* the algorithm it imported
  head, work,  \* the checked out commit, and the algorithm in the worktree
  adapter,     \* the suite and core of the evaluator's adapter server
  fixed,       \* the suites sealed so far; the k-th seal has the key k
  status,      \* "ready", "failed" or "accepted"
  edited,      \* what was disturbed, and during which tool ("" between two)
  left

\* A dictionary with one more entry, or another one.
With(memory, f, content) ==
  [g \in DOMAIN memory \cup {f} |-> IF g = f THEN content ELSE memory[g]]

process == <<at, line, mem, bytes, code, status>>
outside == <<head, work, edited, left>>
challengeVars == <<kind, inside, disk, process, adapter, fixed, outside>>

FileNames ==
  {"suite", "protocol", "core", "package", "public", "sealed", "key", "commitment", "answers",
   "predictions", "frozen", "result", "output", "records", "summary", "provenance", "truth",
   "score", "manifest", "attestation"}

Book == Books[kind]
Given(k, suite) ==
  CASE k \in {"blind", "temporal", "holdout"} -> [suite |-> suite, protocol |-> "strict"]
    [] k \in {"passive", "active"} -> [suite |-> suite, core |-> "full"]
    [] k = "transfer" -> [core |-> "full", result |-> [core |-> "full", says |-> suite.truth]]

ChallengeInit ==
  /\ \E s \in Scenarios :
       LET given == Given(s.kind, s.suite)
       IN  /\ kind = s.kind
           /\ inside = s.inside
           /\ left = s.left
           /\ disk = [f \in FileNames |-> IF f \in DOMAIN given THEN given[f] ELSE Absent]
  /\ at = 1 /\ line = 0
  /\ mem = <<>> /\ bytes = <<>>
  /\ head = 1 /\ work = Algorithm[1] /\ code = Algorithm[1]
  /\ adapter = Absent
  /\ fixed = <<>>
  /\ status = "ready"
  /\ edited = {}

-----------------------------------------------------------------------------
(* What the tools check and write.                                          *)

\* A mutant: the public cases are not compared with their commitment.
RevealedAnyCases ==
  /\ mem["key"] = mem["package"].cipher
  /\ mem["package"].answers = fixed[mem["package"].cipher].truth

\* seal.py reveal_answers
Revealed ==
  /\ mem["package"].cases = mem["package"].public
  /\ mem["key"] = mem["package"].cipher
  /\ mem["package"].answers = fixed[mem["package"].cipher].truth

\* seal.py score_predictions, up to the scores
Scorable ==
  /\ mem["frozen"].package = mem["package"]
  /\ mem["frozen"].commitment = mem["frozen"].predictions
  /\ Revealed
  /\ Ids[fixed[mem["package"].cipher].public] = Ids[mem["frozen"].predictions.public]

BlindScore ==
  LET truth == fixed[mem["package"].cipher].truth
      predictions == mem["frozen"].predictions
  IN  [package |-> mem["package"], predictions |-> predictions, truth |-> truth,
       protocol |-> mem["protocol"],
       decision |-> Decision(truth, predictions.says, mem["protocol"], mem["package"].public)]

\* score.py: the digests are those of the first read, the cases and the
\* answers those of the second.
Committed ==
  /\ mem["commitment"].public = bytes["public"]
  /\ mem["commitment"].answers = bytes["answers"]
  /\ mem["predictions"].public = bytes["public"]
  /\ Ids[mem["answers"].public] = Ids[mem["public"]]
  /\ Ids[mem["predictions"].cases] = Ids[mem["public"]]

\* active.py run_active with the bits of the adapter; run.py run_public
PassiveResult ==
  [public |-> mem["public"], core |-> mem["core"],
   says |-> Concludes(mem["core"], Finds(code, mem["public"]))]
ActiveResult ==
  [public |-> mem["public"], core |-> mem["core"], planner |-> code,
   trace |-> bytes["adapter"], says |-> Concludes(mem["core"], bytes["adapter"])]

\* The records of a holdout carry the commitments of the cases they are about.
Summary ==
  LET built == Built[mem["suite"].public]
      says == Predict(code, built.public)
  IN  [cases |-> built, says |-> says,
       decision |-> Decision(built.truth, says, "strict", built.public)]

\* What a holdout commits to before it runs: the cases, their verdicts and the
\* protocol, and not the excerpts, locators and rationales of the sources.
HoldoutCommitment == [cases |-> Built[mem["suite"].public], protocol |-> bytes["protocol"]]

\* What sealing fixes.
Fixes == IF kind = "holdout" THEN Built[mem["suite"].public] ELSE mem["suite"]

\* Signatures; the blind one is over the manifest and the score.
SignedManifest == mem["attestation"].manifest = mem["manifest"]
BlindAttestation == [manifest |-> mem["manifest"], score |-> mem["score"]]
BlindAttested == mem["attestation"] = BlindAttestation

\* The checks, each raising when it does not hold.
Holds(name) ==
  CASE name = "sealable" -> Valid(kind, mem["suite"].public)
    [] name = "valid" -> Valid(kind, mem["public"])
    [] name = "covers" -> /\ Ids[mem["package"].public] = Ids[mem["predictions"].public]
                          /\ Defect[mem["package"].public] # "duplicate"
    [] name = "revealed" -> Revealed
    [] name = "scorable" -> Scorable
    [] name = "registered" -> /\ mem["manifest"].commit <= head
                              /\ Algorithm[mem["manifest"].commit] = Algorithm[head]
    [] name = "declared" -> mem["manifest"].commit = bytes["commit"]
    [] name = "recomputed" ->
         /\ mem["frozen"].predictions.says = Predict(code, mem["package"].public)
         /\ Ids[mem["frozen"].predictions.public] = Ids[mem["package"].public]
    [] name = "rescored" -> /\ Scorable
                            /\ mem["score"] = BlindScore
                            /\ mem["score"].decision = "PASS"
    [] name = "attested" -> IF kind = "blind" THEN BlindAttested ELSE SignedManifest
    [] name = "clean" -> /\ work = Algorithm[head]
                         /\ inside => \A f \in FileNames : disk[f] = Absent \/ f = "protocol"
    [] name = "committed" -> Committed
    [] name = "passed" -> mem["score"].decision = "PASS"
    [] name = "runnable" -> Defect[mem["public"]] # "unrunnable"
    [] name = "opens" -> /\ mem["key"] = mem["sealed"]
                         /\ fixed[mem["sealed"]] = mem["commitment"].truth
    [] name = "sameSuite" -> /\ Valid(kind, mem["truth"].public)
                              /\ mem["public"] = mem["truth"].public
    [] name = "sameSeal" -> mem["commitment"] = [truth |-> mem["truth"],
                                                  public |-> mem["public"],
                                                  sealed |-> bytes["sealed"]]
    [] name = "rerun" -> mem["result"] = PassiveResult
    [] name = "sameRun" -> /\ mem["result"].public = mem["public"]
                            /\ mem["result"].core = mem["core"]
    [] name = "replayed" -> /\ mem["result"].planner = code
                            /\ mem["result"].trace = mem["truth"].truth
                            /\ mem["result"].says = Concludes(mem["core"], mem["truth"].truth)
    [] name = "confirmed" -> mem["result"].says \in {mem["truth"].truth, "unsure"}
    [] name = "preregistered" -> mem["commitment"] = HoldoutCommitment
    [] name = "passes" -> mem["summary"].decision = "PASS"

\* The content each file is written with.
Content(f) ==
  CASE f = "package" -> [public |-> mem["suite"].public, cases |-> mem["suite"].public,
                         answers |-> mem["suite"].truth, cipher |-> Len(fixed)]
    [] f = "key" -> Len(fixed)
    [] f = "predictions" /\ kind = "blind" ->
         [public |-> mem["package"].public, says |-> Predict(code, mem["package"].public)]
    [] f = "predictions" /\ kind = "temporal" ->
         [public |-> bytes["public"], cases |-> mem["public"], commit |-> bytes["commit"],
          says |-> Predict(code, mem["public"])]
    [] f = "frozen" -> [package |-> mem["package"], predictions |-> mem["predictions"],
                        commitment |-> mem["predictions"]]
    [] f = "answers" /\ kind = "blind" -> fixed[mem["package"].cipher]
    [] f = "answers" /\ kind = "temporal" -> mem["suite"]
    [] f = "score" /\ kind = "blind" -> BlindScore
    [] f = "score" /\ kind = "temporal" ->
         [decision |-> Decision(mem["answers"].truth, mem["predictions"].says,
                                mem["protocol"], mem["public"])]
    [] f = "public" -> mem["suite"].public
    [] f = "sealed" -> Len(fixed)
    [] f = "commitment" /\ kind = "temporal" ->
         [public |-> mem["suite"].public, answers |-> mem["suite"]]
    [] f = "commitment" /\ kind \in {"passive", "active"} ->
         [truth |-> mem["suite"], public |-> mem["suite"].public, sealed |-> Len(fixed)]
    [] f = "commitment" /\ kind = "holdout" -> HoldoutCommitment
    [] f = "truth" -> fixed[mem["sealed"]]
    [] f = "result" -> IF kind = "passive" THEN PassiveResult ELSE ActiveResult
    [] f = "output" -> "directory"
    [] f = "records" -> Summary
    [] f = "summary" -> Summary
    [] f = "provenance" -> [commitment |-> bytes["commitment"], suite |-> bytes["suite"],
                            protocol |-> bytes["protocol"], revision |-> bytes["commit"]]
    [] f = "manifest" /\ kind = "blind" ->
         [files |-> [g \in {"frozen", "package", "key", "score"} |-> mem[g]], commit |-> head]
    [] f = "manifest" /\ kind = "holdout" ->
         [files |-> [g \in {"records", "summary", "provenance"} |-> disk[g]]]
    [] f = "manifest" /\ kind \notin {"blind", "holdout"} ->
         [files |-> [g \in {"result", "core"} |-> mem[g]], commit |-> head]
    [] f = "attestation" -> IF kind = "blind" THEN BlindAttestation
                            ELSE [manifest |-> mem["manifest"]]

-----------------------------------------------------------------------------
(* The tools.                                                               *)

Does == Book[at].does
Here == Does[line]
Doing(op) == line > 0 /\ Here[1] = op
Arg == Here[2]

\* The next statement, or the end of the tool; the end of the last one is the
\* verifier's acceptance.
Proceed ==
  IF line < Len(Does)
  THEN line' = line + 1 /\ UNCHANGED <<at, code, status>>
  ELSE /\ line' = 0
       /\ UNCHANGED code
       /\ IF at < Len(Book) THEN at' = at + 1 /\ UNCHANGED status
                            ELSE status' = "accepted" /\ UNCHANGED at
Keep == IF line = Len(Does) /\ at < Len(Book)
        THEN mem' = <<>> /\ bytes' = <<>> ELSE UNCHANGED <<mem, bytes>>
Raise == /\ line' = 0 /\ status' = "failed"
         /\ mem' = <<>> /\ bytes' = <<>> /\ UNCHANGED <<at, code>>

Setting == UNCHANGED <<kind, inside, outside>>

Begin(tool) == /\ at' = tool /\ line' = 1 /\ code' = work /\ status' = "ready"
               /\ mem' = <<>> /\ bytes' = <<>>

\* The evaluator follows the instructions of the README, and does not repeat a
\* step that would refuse to overwrite what it made.
Made(t) == /\ Book[t].does[1][1] = "refuse"
           /\ disk[Book[t].does[1][2]] # Absent

StartTool ==
  /\ line = 0 /\ status = "ready"
  /\ IF Made(at) THEN at' = at + 1 /\ UNCHANGED <<line, mem, bytes, code, status>>
                  ELSE Begin(at)
  /\ UNCHANGED <<disk, adapter, fixed>> /\ Setting

Read ==
  /\ Doing("read")
  /\ IF disk[Arg] \in {Absent, Torn} THEN Raise
     ELSE mem' = With(mem, Arg, disk[Arg]) /\ UNCHANGED bytes /\ Proceed
  /\ UNCHANGED <<disk, adapter, fixed>> /\ Setting

Hash ==
  /\ Doing("hash")
  /\ IF disk[Arg] = Absent THEN Raise
     ELSE bytes' = With(bytes, Arg, disk[Arg]) /\ UNCHANGED mem /\ Proceed
  /\ UNCHANGED <<disk, adapter, fixed>> /\ Setting

\* A mutant: a verifier that trusts the declared hashes.
MatchNothing ==
  /\ Doing("match")
  /\ Proceed /\ Keep
  /\ UNCHANGED <<disk, adapter, fixed>> /\ Setting

Match ==
  /\ Doing("match")
  /\ IF disk[Arg] # mem["manifest"].files[Arg] THEN Raise ELSE Proceed /\ Keep
  /\ UNCHANGED <<disk, adapter, fixed>> /\ Setting

RefuseExisting ==
  /\ Doing("refuse")
  /\ IF disk[Arg] # Absent THEN Raise ELSE Proceed /\ Keep
  /\ UNCHANGED <<disk, adapter, fixed>> /\ Setting

\* verify_registry keeps the commit of the manifest it read, to hand it on.
CheckIt ==
  /\ Doing("check")
  /\ IF ~Holds(Arg) THEN Raise
     ELSE /\ Proceed
          /\ IF Arg = "registered"
             THEN bytes' = With(bytes, "commit", mem["manifest"].commit) /\ UNCHANGED mem
             ELSE Keep
  /\ UNCHANGED <<disk, adapter, fixed>> /\ Setting

\* The key is drawn, in the holdout the answers are hashed.
Generate ==
  /\ Doing("generate")
  /\ fixed' = Append(fixed, Fixes)
  /\ Proceed /\ Keep
  /\ UNCHANGED <<disk, adapter>> /\ Setting

Revision ==
  /\ Doing("revision")
  /\ bytes' = With(bytes, "commit", head)
  /\ Proceed
  /\ UNCHANGED <<mem, disk, adapter, fixed>> /\ Setting

ServeAdapter ==
  /\ Doing("serve")
  /\ adapter' = [suite |-> mem["suite"], core |-> mem["core"]]
  /\ Proceed /\ Keep
  /\ UNCHANGED <<disk, fixed>> /\ Setting

\* The planner asks the adapter, which answers from the suite it was started
\* with, or with an error.
Query ==
  /\ Doing("query")
  /\ IF adapter = Absent \/ (adapter # Absent /\ Ids[adapter.suite.public] # Ids[mem["public"]])
     THEN Raise
     ELSE bytes' = With(bytes, "adapter", adapter.suite.truth) /\ UNCHANGED mem /\ Proceed
  /\ UNCHANGED <<disk, adapter, fixed>> /\ Setting

Write ==
  /\ Doing("write")
  /\ disk' = [disk EXCEPT ![Arg] = Content(Arg)]
  /\ Proceed
  /\ IF Arg \in {"summary", "score"} /\ line < Len(Does)
     THEN mem' = With(mem, Arg, Content(Arg)) /\ UNCHANGED bytes ELSE Keep
  /\ UNCHANGED <<adapter, fixed>> /\ Setting

Statement ==
  Read \/ Hash \/ Match \/ RefuseExisting \/ CheckIt \/ Generate \/ Revision \/ ServeAdapter
    \/ Query \/ Write

-----------------------------------------------------------------------------
(* What may come in between.                                                *)

During == IF line = 0 THEN "" ELSE Book[at].name
Disturb(what) ==
  /\ left > 0 /\ status # "accepted"
  /\ left' = left - 1
  /\ edited' = edited \cup {<<what, During>>}
  /\ UNCHANGED <<kind, inside, fixed>>

Kill ==
  /\ line > 0
  /\ Disturb("process")
  /\ line' = 0 /\ mem' = <<>> /\ bytes' = <<>>
  /\ UNCHANGED <<disk, at, code, status, adapter, head, work>>

\* A kill inside a write leaves the file truncated.
KillInWrite ==
  /\ Doing("write") /\ Arg # "output"
  /\ Disturb("process")
  /\ disk' = [disk EXCEPT ![Arg] = Torn]
  /\ line' = 0 /\ mem' = <<>> /\ bytes' = <<>>
  /\ UNCHANGED <<at, code, status, adapter, head, work>>

\* What a file may be replaced by.  The commitments are published and stay, but
\* for the one a blind package holds of its own cases: anybody can recompute it.
Others(f) ==
  LET c == disk[f]
  IN  CASE f = "suite" -> Suites
        [] f = "protocol" -> {"lenient"}
        [] f = "core" -> {"narrow", "coarse"}
        [] f = "public" -> Substitutes
        [] f = "package" -> {[c EXCEPT !.public = p] : p \in Substitutes}
                              \cup {[c EXCEPT !.public = p, !.cases = p] : p \in Substitutes}
                              \cup {[c EXCEPT !.answers = t] : t \in {"t1", "t2"}}
        [] f = "answers" -> {[c EXCEPT !.truth = t] : t \in {"t1", "t2"}}
        [] f \in {"predictions", "result"} -> {[c EXCEPT !.says = t] : t \in {"t1", "t2"}}
        [] f = "frozen" -> {[c EXCEPT !.predictions.says = t] : t \in {"t1", "t2"}}
        [] f \in {"score", "summary"} -> {[c EXCEPT !.decision = "PASS"]}
        [] f = "manifest" /\ kind # "holdout" -> {[c EXCEPT !.commit = k] : k \in DOMAIN Algorithm}
        [] f = "key" -> 1..Len(fixed)
        [] OTHER -> {}

Edit ==
  \E f \in FileNames :
    /\ disk[f] \notin {Absent, Torn}
    /\ Disturb(f)
    /\ \E content \in Others(f) : content # disk[f] /\ disk' = [disk EXCEPT ![f] = content]
    /\ UNCHANGED <<process, adapter, head, work>>

\* A file is lost.
Lose ==
  \E f \in {"key", "frozen", "answers", "records"} :
    /\ disk[f] # Absent
    /\ Disturb(f)
    /\ disk' = [disk EXCEPT ![f] = Absent]
    /\ UNCHANGED <<process, adapter, head, work>>

\* A developer edits the worktree, or checks another commit out.
EditCode ==
  /\ Disturb("code")
  /\ \E c \in DOMAIN Algorithm, a \in {"right", "wrong"} :
       /\ <<c, a>> # <<head, work>>
       /\ c = head \/ a = Algorithm[c]
       /\ head' = c /\ work' = a
  /\ UNCHANGED <<disk, process, adapter>>

StopAdapter ==
  /\ adapter # Absent
  /\ Disturb("adapter")
  /\ adapter' = Absent
  /\ UNCHANGED <<disk, process, head, work>>

\* A tool is run out of turn, or again, its outputs deleted first if need be.
Outputs(t) == {Book[t].does[i][2] : i \in {j \in DOMAIN Book[t].does : Book[t].does[j][1] = "write"}}
Jump ==
  /\ line = 0
  /\ Disturb("order")
  /\ \E t \in DOMAIN Book, again \in BOOLEAN :
       /\ Begin(t)
       /\ disk' = IF again THEN [f \in FileNames |-> IF f \in Outputs(t) THEN Absent ELSE disk[f]]
                  ELSE disk
  /\ UNCHANGED <<adapter, head, work>>

Ended ==
  /\ status = "accepted" \/ (status = "failed" /\ left = 0)
  /\ UNCHANGED challengeVars

ChallengeNext ==
  \/ StartTool \/ Statement
  \/ Edit \/ Lose \/ EditCode \/ Kill \/ KillInWrite \/ StopAdapter \/ Jump
  \/ Ended

ChallengeSpec == ChallengeInit /\ [][ChallengeNext]_challengeVars /\ WF_challengeVars(StartTool \/ Statement)

-----------------------------------------------------------------------------
(* Properties.                                                              *)

Accepted == status = "accepted"
Sealed == {fixed[k] : k \in DOMAIN fixed}
Disturbed(what, tools) == \E t \in tools : <<what, t>> \in edited
AnyTool == {Book[i].name : i \in DOMAIN Book} \cup {""}

\* verify_registry accepts: the frozen predictions are those of the commit the
\* manifest names on the cases of the package, and they pass against the answers
\* that were sealed.  The cases are the sealed ones unless the package was
\* replaced: the verifier holds them against nothing but the commitment beside
\* them.  Others have the ids of the sealed ones and another commitment, so that
\* who knows the one that was sealed sees it.  Of the code, only a verifier in
\* a dirty or outdated worktree, or one that is changed meanwhile, is beyond it.
BlindIsEarned ==
  LET s == fixed[mem["package"].cipher]
      cases == mem["package"].public
      says == mem["frozen"].predictions.says
  IN  /\ Ids[cases] = Ids[s.public]
      /\ ~Disturbed("package", AnyTool) \/ mem["package"].cases = s.public
           => cases = s.public
      /\ mem["score"].decision = Decision(s.truth, says, mem["protocol"], cases)
      /\ mem["score"].decision = "PASS"
      /\ code = Algorithm[head] /\ ~Disturbed("code", {"verify"})
           => says = Predict(Algorithm[mem["manifest"].commit], cases)

\* score.py passes: the cases and the answers were sealed together, unless one
\* was replaced between the reading of its digest and of its content, and the
\* predictions are of these cases by the commit they name, unless somebody
\* wrote them or the file or the code changed while they were made.
TemporalIsEarned ==
  /\ Decision(mem["answers"].truth, mem["predictions"].says, mem["protocol"],
              mem["public"]) = "PASS"
  /\ ~(Disturbed("public", {"verify"}) \/ Disturbed("answers", {"verify"}))
       => Suite(mem["public"], mem["answers"].truth) \in Sealed
  /\ ~(Disturbed("public", {"verify", "predict"}) \/ Disturbed("code", {"predict"})
         \/ Disturbed("predictions", AnyTool))
       => mem["predictions"].says
            = Predict(Algorithm[mem["predictions"].commit], mem["public"])

\* The GhostGraph verifiers accept: the revealed suite was sealed with the
\* public cases the result is about, the result is what the verifier's own
\* code concludes from them, and a conclusion does not contradict the truth:
\* not to be sure of one is accepted.
GhostGraphIsEarned ==
  LET s == mem["truth"]
      trace == IF kind = "active" THEN s.truth ELSE Finds(code, s.public)
  IN  /\ s \in Sealed
      /\ mem["result"].public = s.public
      /\ mem["result"].says = Concludes(mem["core"], trace)
      /\ mem["result"].says \in {s.truth, "unsure"}

\* The verified holdout summary is a PASS on cases that were preregistered, made
\* of whichever sources, unless the summary was replaced before the manifest
\* was written or after it was compared.
HoldoutIsEarned ==
  LET judged == mem["summary"]
  IN  ~Disturbed("summary", {"predict", "verify"})
        => /\ judged.cases \in Sealed
           /\ Decision(judged.cases.truth, judged.says, "strict", judged.cases.public) = "PASS"

\* A verifier's PASS was earned (external_challenge/submission.py verify_submission
\* and its siblings), whatever was replaced, deleted, killed or run again; what
\* a replacement can still bring about is said kind by kind above.
PassIsEarned ==
  Accepted =>
    CASE kind = "blind" -> BlindIsEarned
      [] kind = "temporal" -> TemporalIsEarned
      [] kind \in {"passive", "active"} -> GhostGraphIsEarned
      [] kind = "holdout" -> HoldoutIsEarned
      [] kind = "transfer" -> TRUE

\* What a verifier judged is what the accepted manifest names: the hashes are
\* taken of bytes read a second time, so only a replacement while the verifier
\* runs can slip in between.  The provenance of a holdout names sources that
\* the evaluated cases are made of, unless the sources were replaced before
\* they were hashed again.
BundleIsWhatWasJudged ==
  Accepted =>
    /\ kind # "temporal" =>
         \A f \in DOMAIN mem["manifest"].files :
            ~Disturbed(f, {"verify"}) =>
               /\ mem["manifest"].files[f] = disk[f]
               /\ f \in DOMAIN mem => mem[f] = disk[f]
    /\ kind \in {"blind", "passive", "active", "transfer"} =>
         mem["attestation"].manifest = mem["manifest"]
    /\ (kind = "holdout" /\ ~Disturbed("suite", {"predict"})) =>
         Built[mem["manifest"].files["provenance"].suite.public] = mem["summary"].cases

\* Left alone, a well-formed challenge that the algorithm answers rightly is
\* accepted, if its files are kept out of the worktree.
Sound == /\ edited = {} /\ ~inside
         /\ disk["suite"] # Absent =>
              /\ Defect[disk["suite"].public] = "none"
              /\ TruthOf[disk["suite"].public] = disk["suite"].truth
QuietChallengeIsAccepted == Sound ~> (Accepted \/ edited # {})
=============================================================================
