--------------------------- MODULE RegisteredWorld ---------------------------
(***************************************************************************)
(* What an RSE verdict says of a system, abstractly.  While the system is  *)
(* being prepared (data enrolled or erased, controls installed) anything   *)
(* may happen to its facts.  Once workflows run, its facts change only by  *)
(* registered transitions that no installed control guards.  The promise   *)
(* is made only for facts from which those transitions cannot reach        *)
(* subject data.                                                           *)
(***************************************************************************)
EXTENDS TemporalTransitions

CONSTANT Workflows   \* what each registered transition does, a function to Transition

VARIABLES
  facts,   \* the facts that hold
  guards,  \* transitions guarded by installed controls
  mode     \* "preparing", "running" or "promised"

worldVars == <<facts, guards, mode>>

\* The case that the rest of the run is, from facts on.
CaseFrom(state, guarded) ==
  [workflows |-> Workflows, registered |-> TransitionIds,
   guarded |-> guarded, snapshot |-> state]

Stable(state, guarded) == StaysClean(CaseFrom(state, guarded))

Init ==
  /\ facts = {}
  /\ guards = {}
  /\ mode = "preparing"

Prepare ==
  /\ mode = "preparing"
  /\ facts' \in SUBSET Facts
  /\ guards' \in SUBSET TransitionIds
  /\ UNCHANGED mode

Begin ==
  /\ mode = "preparing"
  /\ mode' \in {"running", "promised"}
  /\ mode' = "promised" => Stable(facts, guards)
  /\ UNCHANGED <<facts, guards>>

Run(t) ==
  /\ mode \in {"running", "promised"}
  /\ t \notin guards
  /\ Moves(Workflows[t], facts)
  /\ facts' = Result(Workflows[t], facts)
  /\ UNCHANGED <<guards, mode>>

\* The workflows stop, or the process that runs them crashes.
Stop ==
  /\ mode \in {"running", "promised"}
  /\ mode' = "preparing"
  /\ UNCHANGED <<facts, guards>>

Next == Prepare \/ Begin \/ Stop \/ \E t \in TransitionIds : Run(t)

WorldSpec == Init /\ [][Next]_worldVars

\* The promise: no subject data comes back while it stands.
PromiseKept == mode = "promised" => ~ HoldsSubjectData(facts)
=============================================================================
