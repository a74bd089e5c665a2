---------------------------- MODULE ChallengeTools ----------------------------
(***************************************************************************)
(* The command line tools of the sealed challenges, as the statements each *)
(* one performs: external_challenge ("blind"), external_temporal_challenge *)
(* ("temporal"), external_ghostgraph_challenge in its two versions         *)
(* ("passive", "active"), the source-locked holdout ("holdout") and        *)
(* external_transfer ("transfer").  A digest is the value it was taken of. *)
(***************************************************************************)
EXTENDS Naturals, Sequences, FiniteSets

CONSTANTS
  Absent, Torn,  \* the content of a file that does not exist, of a half written one
  Publics,     \* contents of the public cases
  Ids,         \* their case ids
  Defect,      \* what is wrong with them, "none" for most
  TruthOf,     \* the truth that the right algorithm finds in them
  Algorithm    \* the algorithm of each commit, oldest first

Suite(public, truth) == [public |-> public, truth |-> truth]

\* What the validation of a suite refuses.  The GhostGraph seals copy the public
\* fields one by one, so nothing can leak there; a source manifest has exactly
\* the known fields, unique ids and known relations.
BlindRefuses == {"leaked", "duplicate"}
TemporalRefuses == {"leaked", "duplicate", "unrunnable"}
PassiveRefuses == {"few", "duplicate"}
ActiveRefuses == {"few", "duplicate"}
HoldoutRefuses == {"leaked", "duplicate", "unrunnable"}

Refused ==
  [blind |-> BlindRefuses, temporal |-> TemporalRefuses, passive |-> PassiveRefuses,
   active |-> ActiveRefuses, holdout |-> HoldoutRefuses, transfer |-> {}]
Valid(kind, public) == Defect[public] \notin Refused[kind]

\* What an algorithm says of public cases; "wrong" is a regression.
Finds(algorithm, public) ==
  IF algorithm = "right" THEN TruthOf[public]
  ELSE CHOOSE t \in {"t1", "t2"} : t # TruthOf[public]

\* A mutant: every case is taken for one that cannot be run.
PredictClosed(algorithm, public) == "unverified"

\* A case that cannot be run becomes an UNVERIFIED prediction.
Predict(algorithm, public) ==
  IF Defect[public] = "unrunnable" THEN "unverified" ELSE Finds(algorithm, public)

\* The gates: enough cases and right predictions, or a protocol that asks for
\* neither.
Decision(truth, says, protocol, public) ==
  IF protocol = "lenient" \/ (says = truth /\ Defect[public] # "few") THEN "PASS" ELSE "FAIL"

\* What a trace leads to under a catalogue: the narrow one takes every trace
\* for the graph it knows, the coarse one cannot tell its graphs apart.
Concludes(core, trace) ==
  CASE core = "narrow" -> "t1"
    [] core = "coarse" -> "unsure"
    [] OTHER -> trace

-----------------------------------------------------------------------------
(* Statements: refuse an existing output, read, hash, compare a hash with   *)
(* the declared one, check, write; a tool is a sequence of them.            *)

Refuses(f) == <<"refuse", f>>
Reads(f) == <<"read", f>>
Hashes(f) == <<"hash", f>>
Matches(f) == <<"match", f>>
Checks(name) == <<"check", name>>
Writes(f) == <<"write", f>>
Do(op) == <<op, "none">>
Tool(name, does) == [name |-> name, does |-> does]

BlindSeal ==
  <<Refuses("package"), Reads("suite"), Checks("sealable"), Do("generate"),
    Writes("package"), Refuses("key"), Writes("key")>>
BlindPredict == <<Refuses("predictions"), Reads("package"), Writes("predictions")>>
BlindFreeze ==
  <<Refuses("frozen"), Reads("package"), Reads("predictions"), Checks("covers"),
    Writes("frozen")>>
BlindReveal ==
  <<Refuses("answers"), Reads("key"), Reads("package"), Checks("revealed"), Writes("answers")>>
BlindScoring ==
  <<Refuses("score"), Reads("key"), Reads("package"), Reads("frozen"), Reads("protocol"),
    Checks("scorable"), Writes("score")>>
BlindDeclare ==
  <<Reads("frozen"), Reads("package"), Reads("key"), Reads("score"), Writes("manifest")>>
BlindSign == <<Reads("score"), Reads("manifest"), Writes("attestation")>>
BlindVerify ==
  <<Reads("manifest"), Checks("registered"), Reads("manifest"), Reads("package"),
    Checks("declared"), Matches("frozen"), Matches("package"), Matches("key"),
    Matches("score"), Reads("frozen"), Checks("recomputed"), Reads("score"),
    Reads("protocol"), Reads("key"), Checks("rescored"), Reads("attestation"),
    Checks("attested")>>

TemporalSeal ==
  <<Reads("suite"), Checks("sealable"), Do("generate"), Writes("public"), Writes("answers"),
    Writes("commitment")>>
TemporalPredict ==
  <<Hashes("public"), Reads("public"), Checks("valid"), Checks("clean"), Do("revision"),
    Writes("predictions")>>
TemporalVerify ==
  <<Hashes("public"), Hashes("answers"), Reads("public"), Checks("valid"), Reads("answers"),
    Reads("predictions"), Reads("commitment"), Reads("protocol"), Checks("committed"),
    Writes("score"), Checks("passed")>>

\* Sealing, revealing and signing are the same tools in both GhostGraph versions.
GhostSeal ==
  <<Reads("suite"), Checks("sealable"), Do("generate"), Writes("sealed"), Writes("public"),
    Writes("commitment"), Writes("key")>>
GhostReveal ==
  <<Reads("commitment"), Reads("key"), Reads("sealed"), Checks("opens"), Writes("truth")>>
Declare == <<Reads("result"), Reads("core"), Writes("manifest")>>
Sign == <<Reads("manifest"), Writes("attestation")>>

PassivePredict ==
  <<Refuses("result"), Reads("public"), Reads("core"), Checks("runnable"), Writes("result")>>
PassiveVerify ==
  <<Reads("truth"), Reads("public"), Reads("commitment"), Reads("result"), Reads("manifest"),
    Reads("attestation"), Checks("sameSuite"), Hashes("sealed"), Checks("sameSeal"),
    Reads("core"), Checks("rerun"), Matches("result"), Matches("core"), Checks("attested"),
    Checks("confirmed")>>

ActiveServe == <<Reads("suite"), Reads("core"), Checks("sealable"), Do("serve")>>
ActivePredict ==
  <<Refuses("result"), Reads("public"), Reads("core"), Checks("runnable"), Do("query"),
    Writes("result")>>
ActiveVerify ==
  <<Reads("truth"), Reads("public"), Reads("commitment"), Reads("result"), Reads("manifest"),
    Reads("attestation"), Checks("sameSuite"), Hashes("sealed"), Checks("sameSeal"),
    Matches("core"), Reads("core"), Checks("sameRun"), Checks("replayed"),
    Checks("confirmed"), Matches("result"), Checks("attested")>>

\* Every file of the output directory but itself goes into the manifest.
HoldoutSeal ==
  <<Refuses("commitment"), Reads("suite"), Checks("sealable"), Hashes("protocol"),
    Do("generate"), Writes("commitment")>>
HoldoutPredict ==
  <<Refuses("output"), Writes("output"), Reads("suite"), Checks("sealable"),
    Hashes("protocol"), Reads("commitment"), Checks("preregistered"), Writes("records"),
    Writes("summary"), Hashes("commitment"), Do("revision"), Hashes("suite"),
    Writes("provenance"), Writes("manifest"), Checks("passes")>>
HoldoutVerify ==
  <<Reads("manifest"), Matches("provenance"), Matches("records"), Matches("summary"),
    Reads("summary"), Checks("passes")>>

TransferVerify ==
  <<Reads("manifest"), Reads("attestation"), Matches("core"), Matches("result"),
    Checks("attested")>>

Books ==
  [blind |->
     <<Tool("seal", BlindSeal), Tool("predict", BlindPredict), Tool("freeze", BlindFreeze),
       Tool("reveal", BlindReveal), Tool("score", BlindScoring),
       Tool("declare", BlindDeclare), Tool("sign", BlindSign), Tool("verify", BlindVerify)>>,
   temporal |->
     <<Tool("seal", TemporalSeal), Tool("predict", TemporalPredict),
       Tool("verify", TemporalVerify)>>,
   passive |->
     <<Tool("seal", GhostSeal), Tool("predict", PassivePredict), Tool("reveal", GhostReveal),
       Tool("declare", Declare), Tool("sign", Sign), Tool("verify", PassiveVerify)>>,
   active |->
     <<Tool("seal", GhostSeal), Tool("serve", ActiveServe), Tool("predict", ActivePredict),
       Tool("reveal", GhostReveal), Tool("declare", Declare), Tool("sign", Sign),
       Tool("verify", ActiveVerify)>>,
   holdout |->
     <<Tool("seal", HoldoutSeal), Tool("predict", HoldoutPredict),
       Tool("verify", HoldoutVerify)>>,
   transfer |-> <<Tool("declare", Declare), Tool("sign", Sign), Tool("verify", TransferVerify)>>]
=============================================================================
