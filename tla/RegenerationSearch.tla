-------------------------- MODULE RegenerationSearch --------------------------
(***************************************************************************)
(* evaluate_rse of temporal.py: the breadth-first search over the states   *)
(* that unguarded registered transitions can reach from a deletion         *)
(* snapshot, one step per transition tried, and beside it the world the    *)
(* verdict is about, which keeps running its workflows while the search    *)
(* runs and after it has answered.                                         *)
(***************************************************************************)
EXTENDS TemporalTransitions

CONSTANTS
  Cases,              \* the cases the search may be called with
  MaxReachableStates  \* RSEProtocol.max_reachable_states

ASSUME CasesAssumption ==
  /\ Cases \subseteq Case
  /\ \A c \in Cases : SensorsAreExhaustive(c)
ASSUME LimitAssumption == MaxReachableStates \in Nat \ {0}

VARIABLES
  case,     \* the arguments
  pc,       \* "check", "search" or "returned"
  queue,    \* states still to expand, each with the path that reached it
  visited,  \* states seen
  current,  \* the entry being expanded
  pending,  \* ids the inner loop has yet to try on current
  report,   \* RSEReport, or the ValueError raised
  world     \* the facts that hold in the running system

searchVars == <<pc, queue, visited, current, pending, report>>
vars == <<case, pc, queue, visited, current, pending, report, world>>

Entry == [state : SUBSET Facts, path : Seq(TransitionIds)]

Verdicts == {"SNAPSHOT_INCOMPLETE", "REGENERATION_RISK",
             "INCOMPLETE_COVERAGE", "RSE_VERIFIED"}

NoWitness == [state |-> {}, path |-> <<>>]
Running == [verdict |-> "NONE", count |-> 0, witness |-> NoWitness]
Raised == [verdict |-> "RAISED", count |-> 0, witness |-> NoWitness]

\* The types: every queued entry is a state with the path that reached it.
TypeOK ==
  /\ case \in Case /\ SensorsAreExhaustive(case)
  /\ pc \in {"check", "search", "returned"}
  /\ queue \in Seq(Entry)
  /\ visited \in SUBSET (SUBSET Facts)
  /\ current \in Entry
  /\ pending \in SUBSET TransitionIds
  /\ report \in [verdict : Verdicts \union {"NONE", "RAISED"},
                 count : Nat, witness : Entry]
  /\ world \in SUBSET Facts

Init ==
  /\ case \in Cases
  /\ pc = "check"
  /\ queue = <<>>
  /\ visited = {}
  /\ current = NoWitness
  /\ pending = {}
  /\ report = Running
  /\ world = case.snapshot

Return(answer) ==
  /\ pc' = "returned"
  /\ report' = answer
  /\ UNCHANGED <<case, queue, current, pending, world>>

-----------------------------------------------------------------------------
(* The checks before the search.  A case has one workflow per id, so the   *)
(* duplicate-id error cannot arise here.                                   *)

RejectUnknownGuard ==
  /\ pc = "check"
  /\ ~ (case.guarded \subseteq case.registered)
  /\ Return(Raised)
  /\ UNCHANGED visited

ReportDirtySnapshot ==
  /\ pc = "check"
  /\ case.guarded \subseteq case.registered
  /\ HoldsSubjectData(case.snapshot)
  /\ Return([verdict |-> "SNAPSHOT_INCOMPLETE", count |-> 1,
             witness |-> [state |-> case.snapshot, path |-> <<>>]])
  /\ UNCHANGED visited

StartSearch ==
  /\ pc = "check"
  /\ case.guarded \subseteq case.registered
  /\ ~ HoldsSubjectData(case.snapshot)
  /\ pc' = "search"
  /\ queue' = << [state |-> case.snapshot, path |-> <<>>] >>
  /\ visited' = {case.snapshot}
  /\ UNCHANGED <<case, current, pending, report, world>>

-----------------------------------------------------------------------------
(* The search loop.                                                        *)

\* A mutant: the head of the queue is read, not popped.
DequeuePeeks ==
  /\ pc = "search"
  /\ pending = {}
  /\ queue # <<>>
  /\ current' = Head(queue)
  /\ pending' = Unguarded(case)
  /\ UNCHANGED <<case, pc, queue, visited, report, world>>

\* The inner loop skips guarded ids, so they are never pending.
Dequeue ==
  /\ pc = "search"
  /\ pending = {}
  /\ queue # <<>>
  /\ current' = Head(queue)
  /\ queue' = Tail(queue)
  /\ pending' = Unguarded(case)
  /\ UNCHANGED <<case, pc, visited, report, world>>

\* The transition the inner loop tries next, in the order of the ids.
IsNext(t) ==
  /\ pc = "search"
  /\ t \in pending
  /\ \A u \in pending : t <= u

NextState(t) == Result(case.workflows[t], current.state)

IsNew(t) ==
  /\ Moves(case.workflows[t], current.state)
  /\ NextState(t) \notin visited

Skip(t) ==
  /\ IsNext(t)
  /\ ~ IsNew(t)
  /\ pending' = pending \ {t}
  /\ UNCHANGED <<case, pc, queue, visited, current, report, world>>

FindRegeneration(t) ==
  /\ IsNext(t)
  /\ IsNew(t)
  /\ HoldsSubjectData(NextState(t))
  /\ Return([verdict |-> "REGENERATION_RISK",
             count |-> Cardinality(visited) + 1,
             witness |-> [state |-> NextState(t),
                          path |-> Append(current.path, t)]])
  /\ UNCHANGED visited

\* A mutant: a stack instead of a queue.
DiscoverDepthFirst(t) ==
  /\ IsNext(t)
  /\ IsNew(t)
  /\ ~ HoldsSubjectData(NextState(t))
  /\ visited' = visited \union {NextState(t)}
  /\ Cardinality(visited') <= MaxReachableStates
  /\ queue' = << [state |-> NextState(t), path |-> Append(current.path, t)] >> \o queue
  /\ pending' = pending \ {t}
  /\ UNCHANGED <<case, pc, current, report, world>>

Discover(t) ==
  /\ IsNext(t)
  /\ IsNew(t)
  /\ ~ HoldsSubjectData(NextState(t))
  /\ visited' = visited \union {NextState(t)}
  /\ Cardinality(visited') <= MaxReachableStates
  /\ queue' = Append(queue, [state |-> NextState(t),
                             path |-> Append(current.path, t)])
  /\ pending' = pending \ {t}
  /\ UNCHANGED <<case, pc, current, report, world>>

ExceedLimit(t) ==
  /\ IsNext(t)
  /\ IsNew(t)
  /\ ~ HoldsSubjectData(NextState(t))
  /\ visited' = visited \union {NextState(t)}
  /\ Cardinality(visited') > MaxReachableStates
  /\ Return(Raised)

Exhaust ==
  /\ pc = "search"
  /\ pending = {}
  /\ queue = <<>>
  /\ Return([verdict |-> IF CoverageComplete(case) THEN "RSE_VERIFIED"
                         ELSE "INCOMPLETE_COVERAGE",
             count |-> Cardinality(visited),
             witness |-> NoWitness])
  /\ UNCHANGED visited

SearchStep ==
  \/ RejectUnknownGuard
  \/ ReportDirtySnapshot
  \/ StartSearch
  \/ Dequeue
  \/ \E t \in TransitionIds : Skip(t)
  \/ \E t \in TransitionIds : FindRegeneration(t)
  \/ \E t \in TransitionIds : Discover(t)
  \/ \E t \in TransitionIds : ExceedLimit(t)
  \/ Exhaust

-----------------------------------------------------------------------------
(* A workflow of the world runs, unless a control guards it.  The guards   *)
(* are in force from the snapshot on.                                      *)

RunWorkflow(t) ==
  /\ t \in case.running \ case.guarded
  /\ Moves(case.workflows[t], world)
  /\ world' = Result(case.workflows[t], world)
  /\ UNCHANGED <<case, pc, queue, visited, current, pending, report>>

Next ==
  \/ SearchStep
  \/ \E t \in TransitionIds : RunWorkflow(t)

\* evaluate_rse is a plain function call: once called it runs on to its end.
Spec == Init /\ [][Next]_vars /\ WF_vars(SearchStep)

-----------------------------------------------------------------------------
(* What the search promises.                                               *)

\* RSE_VERIFIED is a promise about the future: from then on, and since the
\* snapshot, no interleaving of running workflows brings subject data back.
\* Coverage is what ties the registered transitions that were searched to the
\* workflows that really run.
VerifiedNeverRegenerates ==
  report.verdict = "RSE_VERIFIED" => ~ HoldsSubjectData(world)

Replay(path) ==
  LET after[k \in 0..Len(path)] ==
        IF k = 0 THEN case.snapshot
        ELSE Result(case.workflows[path[k]], after[k-1])
  IN  after

\* A witness is a run: its ids are unguarded registered transitions, each one
\* moves the state, and they lead from the snapshot to the witness state,
\* through states free of subject data.  No shorter run regenerates, so the
\* path deserves the name shortest_witness.
WitnessIsShortest ==
  report.verdict = "REGENERATION_RISK" =>
    LET path == report.witness.path
        after == Replay(path)
    IN  /\ after[Len(path)] = report.witness.state
        /\ HoldsSubjectData(report.witness.state)
        /\ \A k \in 1..Len(path) :
             /\ path[k] \in Unguarded(case)
             /\ Moves(case.workflows[path[k]], after[k-1])
             /\ ~ HoldsSubjectData(after[k-1])
        /\ \A n \in 0..(Len(path) - 1) :
             \A s \in ReachableWithin(case, n) : ~ HoldsSubjectData(s)

\* Whatever the order of expansion, an answer is the answer that the reachable
\* states define, and the clean verdicts have seen exactly those states.  The
\* state limit raises only for a case that really has more states than the
\* limit, never because a state was counted twice.
AnswerMatchesReachability ==
  /\ report.verdict \in Verdicts =>
       /\ report.verdict = RSEVerdict(case)
       /\ report.verdict \in {"RSE_VERIFIED", "INCOMPLETE_COVERAGE"} =>
            /\ visited = Reachable(case)
            /\ report.count = Cardinality(Reachable(case))
  /\ report.verdict = "RAISED" /\ case.guarded \subseteq case.registered =>
       Cardinality(Reachable(case)) > MaxReachableStates

\* The answer is the right one and its witness the shortest.
AnswerIsExact == AnswerMatchesReachability /\ WitnessIsShortest

\* The search ends, although queued states can lead to one another in cycles.
SearchReturns == <>(pc = "returned")

-----------------------------------------------------------------------------
(* The inductive invariant behind VerifiedNeverRegenerates.                *)

States(entries) == { entries[i].state : i \in 1..Len(entries) }
Queued == States(queue)

Expanded(s) ==
  \A t \in Unguarded(case) :
    Enables(case.workflows[t], s) => Result(case.workflows[t], s) \in visited

\* Every visited state is expanded, waits in the queue, or is being expanded
\* and only its pending transitions are open.
Frontier ==
  pc # "check" /\ report.verdict # "RAISED"
               /\ report.verdict # "SNAPSHOT_INCOMPLETE" =>
    /\ case.snapshot \in visited
    /\ \A s \in visited :
         \/ s \in Queued
         \/ /\ s = current.state
            /\ \A t \in Unguarded(case) \ pending :
                 Enables(case.workflows[t], s) =>
                   Result(case.workflows[t], s) \in visited
         \/ Expanded(s)

VisitedIsClean == \A s \in visited : ~ HoldsSubjectData(s)

Finished ==
  /\ pc # "returned" => report = Running
  /\ report.verdict \in {"RSE_VERIFIED", "INCOMPLETE_COVERAGE"} =>
       queue = <<>> /\ pending = {}
  /\ report.verdict = "RSE_VERIFIED" => CoverageComplete(case)

\* The world is in every set of states that holds the snapshot and is closed
\* under the running workflows: it is reachable.
ClosedUnderRunning(states) ==
  \A s \in states, t \in case.running \ case.guarded :
    Enables(case.workflows[t], s) => Result(case.workflows[t], s) \in states

WorldIsReachable ==
  \A states \in SUBSET (SUBSET Facts) :
    case.snapshot \in states /\ ClosedUnderRunning(states) => world \in states

IInv ==
  /\ TypeOK
  /\ Frontier
  /\ VisitedIsClean
  /\ Finished
  /\ WorldIsReachable
=============================================================================
