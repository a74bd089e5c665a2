----------------------------- MODULE OpenTransfer -----------------------------
(***************************************************************************)
(* What open_transfer.py computes: the decision of one transfer case from  *)
(* what was seen of a physical service, the exact control plan and the     *)
(* brute-force oracle it is compared with, and the gates of a campaign.    *)
(* A control is its rank in the sorted list of control ids.                *)
(***************************************************************************)
EXTENDS Integers, FiniteSets, Sequences, FiniteSetsExt

Families == <<"keycloak", "mlflow", "qdrant">>
\* A mutant: the faults that leave something behind come first.
FaultStatesReversed == <<"coverage_fault", "recovery_regeneration",
                         "surviving_derivative", "safe_native">>

FaultStates == <<"safe_native", "surviving_derivative",
                 "recovery_regeneration", "coverage_fault">>

Truth == [fault \in {"safe_native", "surviving_derivative",
                     "recovery_regeneration", "coverage_fault"} |->
            CASE fault = "safe_native" -> "COMPLETE"
              [] fault = "coverage_fault" -> "UNVERIFIED"
              [] OTHER -> "INCOMPLETE"]

\* PhysicalOutcome; "unseen" is None, and retained counts are 0 or 1.
Seen == {"yes", "no", "unseen"}
PhysicalOutcome ==
  [absent : BOOLEAN, derivative : Seen, recurrence : Seen, covered : BOOLEAN,
   before : {0, 1}, after : {0, 1}]

RequiredRisks(outcome) ==
  (IF outcome.absent THEN {} ELSE {"primary"})
    \union (IF outcome.derivative = "yes" THEN {"derivative"} ELSE {})
    \union (IF outcome.recurrence = "yes" THEN {"recovery"} ELSE {})

Covered(outcome) ==
  outcome.covered /\ outcome.derivative # "unseen" /\ outcome.recurrence # "unseen"

Verdict(outcome) ==
  CASE ~ Covered(outcome) -> "UNVERIFIED"
    [] Covered(outcome) /\ RequiredRisks(outcome) = {} -> "COMPLETE"
    [] OTHER -> "INCOMPLETE"

-----------------------------------------------------------------------------
(* Control plans: a catalogue is a sequence of controls in the order of     *)
(* their ids, a plan a set of its indices.                                  *)

Control == [cost : Nat, closes : SUBSET {"primary", "derivative", "recovery"},
            permitted : BOOLEAN]
ControlPlan == [ids : SUBSET Nat, cost : Nat]
NoPlan == [ids |-> {}, cost |-> 0]

\* CONTROLS: block-recovery, delete-primary, erase-derivative, tombstone.
Controls ==
  << [cost |-> 3, closes |-> {"recovery"}, permitted |-> TRUE],
     [cost |-> 1, closes |-> {"primary"}, permitted |-> TRUE],
     [cost |-> 3, closes |-> {"derivative"}, permitted |-> TRUE],
     [cost |-> 7, closes |-> {"primary", "derivative", "recovery"},
      permitted |-> TRUE] >>

Permitted(catalogue) == { i \in DOMAIN catalogue : catalogue[i].permitted }
Closed(catalogue, ids) == UNION { catalogue[i].closes : i \in ids }
Costs(catalogue) == [i \in DOMAIN catalogue |-> catalogue[i].cost]
PlanOf(catalogue, ids) ==
  [ids |-> ids, cost |-> MapThenSumSet(LAMBDA i : Costs(catalogue)[i], ids)]

\* Tuples of one length: the smaller has the least id that is not in both.
IdsLess(a, b) == \E x \in a \ b : \A y \in b \ a : x < y
KeyLess(p, q) ==
  \/ p.cost < q.cost
  \/ p.cost = q.cost /\ Cardinality(p.ids) < Cardinality(q.ids)
  \/ p.cost = q.cost /\ Cardinality(p.ids) = Cardinality(q.ids)
       /\ IdsLess(p.ids, q.ids)

\* A mutant: ties are pruned on the cost alone.
HopelessOnTie(plan, best) == \E b \in best : plan.cost >= b.cost

\* A branch that cannot beat the best plan; ties of cost and size go on.
Hopeless(plan, best) ==
  \E b \in best : \/ plan.cost > b.cost
                  \/ plan.cost = b.cost /\ Cardinality(plan.ids) > Cardinality(b.ids)

Better(plan, best) == \A b \in best : KeyLess(plan, b)

\* Calls of search(index, selected, closed); best is the nonlocal, {} for None.
Calls(catalogue) ==
  [index : 1..(Len(catalogue) + 1), ids : SUBSET Permitted(catalogue),
   best : SUBSET ControlPlan]
Call(index, ids, best) == [index |-> index, ids |-> ids, best |-> best]
Undecided(catalogue, call) == { i \in Permitted(catalogue) : i >= call.index }

\* A call that makes no further calls, and the best plan it leaves.
Settles(required, catalogue, call) ==
  \/ Hopeless(PlanOf(catalogue, call.ids), call.best)
  \/ required \subseteq Closed(catalogue, call.ids)
  \/ Undecided(catalogue, call) = {}
Settled(required, catalogue, call) ==
  LET plan == PlanOf(catalogue, call.ids)
  IN  IF /\ ~ Hopeless(plan, call.best) /\ Better(plan, call.best)
         /\ required \subseteq Closed(catalogue, call.ids)
      THEN {plan} ELSE call.best

ExactControlPlan(required, catalogue) ==
  LET search[call \in Calls(catalogue)] ==
        IF Settles(required, catalogue, call) THEN Settled(required, catalogue, call)
        ELSE LET next == Min(Undecided(catalogue, call))
                 taken == search[Call(next + 1, call.ids \union {next}, call.best)]
             IN  search[Call(next + 1, call.ids, taken)]
      found == search[Call(1, {}, {})]
  IN  IF found = {} THEN NoPlan ELSE CHOOSE plan \in found : TRUE

BruteForceControlPlan(required, catalogue) ==
  LET closing == { PlanOf(catalogue, ids) : ids \in
                     { S \in SUBSET Permitted(catalogue) :
                         required \subseteq Closed(catalogue, S) } }
  IN  IF closing = {} THEN NoPlan
      ELSE CHOOSE p \in closing : \A q \in closing \ {p} : KeyLess(p, q)

\* decide_physical_outcome: nothing is required of an unverified case.
Required(outcome) == IF Covered(outcome) THEN RequiredRisks(outcome) ELSE {}

Decide(outcome, catalogue) ==
  [native |-> outcome.absent,
   typed |-> outcome.absent /\ outcome.derivative = "no",
   verdict |-> Verdict(outcome),
   oracle_match |-> ExactControlPlan(Required(outcome), catalogue)
                      = BruteForceControlPlan(Required(outcome), catalogue),
   lost |-> outcome.after < outcome.before]

-----------------------------------------------------------------------------
(* summarize_transfer: records is a function from cases <<family, fault>>.  *)

Matrix == { <<Families[f], FaultStates[s]>> : f \in 1..Len(Families),
                                             s \in 1..Len(FaultStates) }

FalseCompletes(records) ==
  { c \in DOMAIN records : Truth[c[2]] # "COMPLETE" /\ records[c].decided.verdict = "COMPLETE" }
NativeFalseCompletes(records, family) ==
  { c \in DOMAIN records : c[1] = family /\ Truth[c[2]] # "COMPLETE" /\ records[c].decided.native }
Safe(records) == { c \in DOMAIN records : Truth[c[2]] = "COMPLETE" }

\* A mutant: the records' core hash is not compared.
GatesAnyCore(records, core) ==
  /\ FalseCompletes(records) = {}
  /\ \A c \in DOMAIN records : ~ records[c].recurs /\ ~ records[c].decided.lost

Gates(records, core) ==
  /\ FalseCompletes(records) = {}
  /\ \A c \in DOMAIN records :
       /\ c[2] = "coverage_fault" => records[c].decided.verdict = "UNVERIFIED"
       /\ ~ records[c].recurs
       /\ ~ records[c].decided.lost
       /\ records[c].decided.oracle_match
       /\ records[c].core = core
  /\ \A f \in DOMAIN Families : NativeFalseCompletes(records, Families[f]) # {}
  /\ Cardinality({ c \in Safe(records) : records[c].decided.typed })
       <= Cardinality({ c \in Safe(records) : records[c].decided.verdict = "COMPLETE" })

Decision(records, core) == IF Gates(records, core) THEN "PASS" ELSE "FAIL"
=============================================================================
