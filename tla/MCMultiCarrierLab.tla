-------------------------- MODULE MCMultiCarrierLab --------------------------
(* Every trial the experiments can make on the stores: all sixteen carrier *)
(* sets, every unverified attestation, every shift of the topology, and a  *)
(* pilot that erases two of three subjects; or one of the experiments on   *)
(* real services.                                                          *)
EXTENDS MultiCarrierLab, ServiceStudy

MCSubjects == <<"citizen-0", "citizen-1", "citizen-2">>

MCTrial(kind, latent, mask, fault) ==
  [kind |-> kind, latent |-> latent, mask |-> mask, fault |-> fault]

MCTrials ==
  { MCTrial("risk", latent, {}, 0) : latent \in SUBSET AllCarriers }
    \union { MCTrial("coverage", {}, {}, fault) : fault \in TransitionIds }
    \union { MCTrial("shift", {}, mask, 0) : mask \in (SUBSET Optional) \ {{}} }
    \union { MCTrial(kind, {}, {}, 0) : kind \in {"safe", "single", "storage", "pilot"} }

MCStudy(program, people, calibration, holdout, only) ==
  [program |-> program, people |-> people, calibration |-> calibration,
   holdout |-> holdout, only |-> only]

\* Seeds of both parities and of every remainder; the third study has a seed in
\* both lists.
MCStudies ==
  { MCStudy("study", 2, <<1>>, <<2, 3>>, FALSE), MCStudy("study", 3, <<4, 5>>, <<6, 7, 8>>, FALSE),
    MCStudy("study", 2, <<1>>, <<2, 1>>, FALSE), MCStudy("study", 3, <<1, 2>>, <<3>>, TRUE),
    MCStudy("pilot", 2, <<>>, <<>>, FALSE) }

MCTimings ==
  { [part |-> 1, whole |-> 5, faster |-> TRUE, smaller |-> TRUE],
    [part |-> 1, whole |-> 4, faster |-> FALSE, smaller |-> TRUE],
    [part |-> 2, whole |-> 4, faster |-> TRUE, smaller |-> FALSE] }

VARIABLE experiment   \* which of the two runs

MCInit ==
  /\ Init /\ StudyInit
  /\ \/ experiment = "stores" /\ study = MCStudy("pilot", 2, <<>>, <<>>, FALSE)
     \/ experiment = "services" /\ trial = MCTrial("storage", {}, {}, 0)

MCNext ==
  \/ experiment = "stores" /\ Next /\ UNCHANGED <<studyVars, experiment>>
  \/ experiment = "services" /\ StudyNext /\ UNCHANGED <<vars, experiment>>

MCSpec == MCInit /\ [][MCNext]_<<vars, studyVars, experiment>>
=============================================================================
